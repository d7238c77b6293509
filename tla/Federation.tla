----------------------------- MODULE Federation -----------------------------
(***************************************************************************)
(* openbrec/federation.py: the signed events cells carry out of a          *)
(* partition, and what a hub makes of all it has received (_reconcile): it *)
(* keeps one copy of what came twice, sets aside every variant of an id    *)
(* with more than one, and shows two acceptances of one offer, or two      *)
(* assignments for one request, as a conflict for people to resolve.       *)
(*                                                                         *)
(* Events arrive in any order and any number of times; _reconcile works on *)
(* everything received, each time anew.                                    *)
(***************************************************************************)
EXTENDS Integers, Sequences, FiniteSets, FiniteSetsExt, Bags

CONSTANTS
  Cells,     \* number of response cells
  ConflictCount, \* number of each kind of conflict in the campaign
  Extra,     \* further events a cell may sign
  MaxEvents  \* bound: deliveries

-----------------------------------------------------------------------------
\* An event: its id, its bytes, what it is about, and its sorted sources.
EventOf(id, body, type, sources) ==
  [id |-> id, body |-> body, type |-> type, sources |-> sources]

\* Of each cell: its status, a distress and a request for resources.
BaseEvents ==
  UNION {{EventOf(<<c, 1>>, "signed", "cell_status", <<>>),
          EventOf(<<c, 2>>, "signed", "distress_summary", <<<<"distress", c>>>>),
          EventOf(<<c, 3>>, "signed", "resource_request", <<<<"local request", c>>>>)} : c \in 1..Cells}

\* The same id with other bytes; two cells that accept one offer; two assignments.
ConflictEvents ==
  {EventOf(<<k, 1>>, "conflicting", "cell_status", <<>>) : k \in 1..ConflictCount}
  \cup {EventOf(<<c, 100 + k>>, "signed", "handoff_acceptance", <<<<"offer", k>>>>) :
          k \in 1..ConflictCount, c \in {1, 2}}
  \cup {EventOf(<<c, 200 + k>>, "signed", "resource_assignment", <<<<"request", k>>>>) :
          k \in 1..ConflictCount, c \in {1, 2}}

Event == BaseEvents \cup ConflictEvents \cup Extra

VARIABLE received \* the bag of events a hub has received

Init == received = EmptyBag

Deliver(e) ==
  /\ BagCardinality(received) < MaxEvents
  /\ received' = received (+) SetToBag({e})

Next == \E e \in Event : Deliver(e)

Spec == Init /\ [][Next]_received

-----------------------------------------------------------------------------
\* by_id: the different bytes seen under an id.
Variants(log, id) == {e \in BagToSet(log) : e.id = id}

EventIds(log) == {e.id : e \in BagToSet(log)}

Accepted(log) == {e \in BagToSet(log) : Cardinality(Variants(log, e.id)) = 1}

Quarantined(log) == BagToSet(log) \ Accepted(log)

\* Copies of the same bytes beyond the first, accepted or not.
DuplicateReceipts(log) == MapThenSumSet(LAMBDA e : log[e] - 1, BagToSet(log))

IntegrityConflicts(log) == {id \in EventIds(log) : Cardinality(Variants(log, id)) > 1}

Exclusive == {"handoff_acceptance", "resource_assignment"}

\* Events compete for the first of their sources only.
GroupKey(e) == <<e.type, Head(e.sources)>>

Group(log, key) == {e \in Accepted(log) : e.type \in Exclusive /\ GroupKey(e) = key}

\* Seeded fault: three claims make a conflict, two do not.
SemanticConflictsOfThree(log) ==
  {g \in {Group(log, GroupKey(e)) : e \in {f \in Accepted(log) : f.type \in Exclusive}} :
     Cardinality(g) > 2}

\* The conflicts people are shown, as the sets of events in them.
SemanticConflicts(log) ==
  {g \in {Group(log, GroupKey(e)) : e \in {f \in Accepted(log) : f.type \in Exclusive}} :
     Cardinality(g) > 1}

\* source_event_ids may be empty: then there is no first one, and an IndexError.
Raises(log) == \E e \in Accepted(log) : e.type \in Exclusive /\ e.sources = <<>>

ReconciledInputs(log) ==
  Cardinality(Accepted(log)) + Cardinality(Quarantined(log)) + DuplicateReceipts(log)

-----------------------------------------------------------------------------
(* What came in is accepted, set aside or a duplicate, each once, however  *)
(* often variants and copies of an id are mixed.                           *)
Reconciled == ReconciledInputs(received) = BagCardinality(received)

(* Two events that claim one offer or one request stand before people as a *)
(* conflict, or one of them stands there as tampered with: no order and no *)
(* repetition lets a hub quietly keep just one of them.                    *)
ClaimsStayVisible ==
  ~Raises(received) =>
    \A e, f \in BagToSet(received) :
      (/\ e.id # f.id /\ e.type = f.type /\ e.type \in Exclusive
       /\ <<>> \notin {e.sources, f.sources} /\ Head(e.sources) = Head(f.sources))
      => \/ {e.id, f.id} \cap IntegrityConflicts(received) # {}
         \/ \E g \in SemanticConflicts(received) : {e, f} \subseteq g

(* Another event takes nothing away.  What was accepted is accepted still  *)
(* or set aside, what was set aside stays so, and a conflict stays, unless *)
(* an event of it turns out to have a variant: then the hub shows that     *)
(* instead, and the other claim stands accepted without a conflict.        *)
NothingDisappears ==
  [][/\ Accepted(received) \subseteq Accepted(received') \cup Quarantined(received')
     /\ Quarantined(received) \subseteq Quarantined(received')
     /\ ~Raises(received) /\ ~Raises(received') =>
          \A g \in SemanticConflicts(received) :
            \/ \E h \in SemanticConflicts(received') : g \subseteq h
            \/ \E e \in g : e.id \in IntegrityConflicts(received') \ IntegrityConflicts(received)
    ]_received
=============================================================================
