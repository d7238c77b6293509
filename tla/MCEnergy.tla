------------------------------ MODULE MCEnergy ------------------------------
(***************************************************************************)
(* Samples at every threshold and next to it.  Domains that are just       *)
(* sufficient and just not, one without critical power and one without a   *)
(* measured state of charge.                                               *)
(***************************************************************************)
EXTENDS Energy

Profile(soc, capacity, power) ==
  [soc |-> soc, uncertainty |-> 3, capacity |-> capacity, power |-> power, auxiliary |-> 24,
   sos |-> 4, transition |-> 2, shutdown |-> 2]

MCDomain ==
  {Profile(54, 59, 4), Profile(54, 58, 4), Profile(54, 30, 4), Profile(54, 59, 0),
   Profile(Unknown, 59, 4)}

MCSample == {8, 9, 15, 19, 20, 30, 34, 35, 50, 54, 55}
=============================================================================
