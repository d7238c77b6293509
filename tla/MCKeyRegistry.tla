---------------------------- MODULE MCKeyRegistry ----------------------------
(***************************************************************************)
(* Instances of KeyRegistry: three keys and three epochs let a rotation    *)
(* skip an epoch and an envelope be two rotations old.  The two keys that  *)
(* are not commissioned are interchangeable.                               *)
(***************************************************************************)
EXTENDS KeyRegistry, TLC

CONSTANTS k1, k2, k3

Keys == {k1, k2, k3}

Symmetry == Permutations({k2, k3})

=============================================================================
