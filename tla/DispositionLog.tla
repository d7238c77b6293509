--------------------------- MODULE DispositionLog ---------------------------
(***************************************************************************)
(* What both disposition stores promise of a unit of ingress, the bytes of *)
(* a hash at an offset: it gets one disposition, and with it, at once, its *)
(* row in the table of that destination and, in the vault, the record of   *)
(* its sealing.  Nothing is taken back or moved.  DispositionStore and     *)
(* EvidenceVault implement it.                                             *)
(***************************************************************************)
CONSTANT Units \* pairs <<sha, offset>>

Destinations == {"accepted_event_log", "review_quarantine", "evidence_vault", "rejection_ledger"}

VARIABLES
  disposed, \* [unit, destination]
  placed,   \* the rows of the destinations: [table, unit]
  sealed    \* the hashes with an audit event of their sealing

vars == <<disposed, placed, sealed>>

Init == disposed = {} /\ placed = {} /\ sealed = {}

\* The unit is new; the vault keeps the bytes of a hash once.
MayDispose(u, d) ==
  /\ \A r \in disposed : r.unit # u
  /\ d = "evidence_vault" =>
       \A r \in placed : r.table = "evidence_vault" => r.unit[1] # u[1]

Dispose(u, d) ==
  /\ MayDispose(u, d)
  /\ disposed' = disposed \cup {[unit |-> u, destination |-> d]}
  /\ placed' = placed \cup {[table |-> d, unit |-> u]}
  /\ sealed' = IF d = "evidence_vault" THEN sealed \cup {u[1]} ELSE sealed

Next == \E u \in Units, d \in Destinations : Dispose(u, d)

Spec == Init /\ [][Next]_vars
=============================================================================
