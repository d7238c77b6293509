-------------------------- MODULE MCFusionPipeline --------------------------
(***************************************************************************)
(* Small instances of FusionPipeline.  The observations are chosen for the *)
(* boundaries of the rules: motion and call meet at the very edge of the   *)
(* lookback, motion has the least usable quality, recall reuses the id of  *)
(* call, silence and faint are unusable and share a window, late shares    *)
(* the sensor and the start of motion, frozen has an empty window.         *)
(***************************************************************************)
EXTENDS FusionPipeline, TLC

Obs9(id, sensor, type, kind, quality, zone, start, end, absent) ==
  [id |-> id, sensor |-> sensor, type |-> type, kind |-> kind, quality |-> quality,
   zone |-> zone, start |-> start, end |-> end, absent |-> absent]

motion  == Obs9(1, "s1", "synthetic", "measurement", 5, "z1", 0, 2, {})
call    == Obs9(2, "s2", "operator", "measurement", 8, "z1", 5, 6, {})
recall  == Obs9(2, "s2", "operator", "measurement", 9, "z1", 5, 6, {})
silence == Obs9(3, "s1", "synthetic", "no_event_detected", 9, "z1", 0, 2, {"thermal"})
faint   == Obs9(4, "s2", "synthetic", "measurement", 4, "z1", 0, 2, {"acoustic"})
late    == Obs9(5, "s1", "synthetic", "measurement", 7, "z2", 0, 3, {})
frozen  == Obs9(6, "s1", "synthetic", "measurement", 7, "z1", 4, 4, {})

PairObservations     == {motion, call}
ClashObservations    == {motion, call, recall}
MixedObservations    == {motion, silence, faint, frozen}
DepartObservations   == {silence, faint, motion, call, late}

\* The workers are interchangeable where all of them subscribe from the start.
Symmetry == Permutations(Worker)

=============================================================================
