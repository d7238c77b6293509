----------------------------- MODULE Transports -----------------------------
(***************************************************************************)
(* openbrec/transports.py: the workload three bearers are compared on,     *)
(* while its author edits it.  The loader looks at one priority per type   *)
(* of message, the comparison at the head of the whole queue, and the      *)
(* malicious gate at neither.                                              *)
(***************************************************************************)
EXTENDS Integers, Sequences, FiniteSets, SequencesExt, FiniteSetsExt

CONSTANTS
  Priority,   \* the priorities an entry may state
  MaxTraffic, \* bound: entries of the workload
  Fault,      \* classes of fault
  Penalty,    \* success penalties (basis points) a fault may state
  Success,    \* bearer models: basis points of success at the smallest scale
  Slope,      \* basis points each further node costs
  Scale       \* node counts

\* The order of the code is by name: "location" < "sos" < "status".
Rank == [location |-> 0, sos |-> 1, status |-> 2]
Traffic == [type : DOMAIN Rank, priority : Priority]

VARIABLES
  traffic, \* workload["traffic"]
  penalty  \* [Fault -> success_penalty_bps]

vars == <<traffic, penalty>>

Init ==
  /\ traffic = <<>>
  /\ penalty \in [Fault -> Penalty]

Declare(e) ==
  /\ Len(traffic) < MaxTraffic
  /\ traffic' = Append(traffic, e)
  /\ UNCHANGED penalty

Withdraw(i) == traffic' = RemoveAt(traffic, i) /\ UNCHANGED penalty

Penalise(f, p) == penalty' = [penalty EXCEPT ![f] = p] /\ UNCHANGED traffic

Next ==
  \/ \E e \in Traffic : Declare(e)
  \/ \E i \in DOMAIN traffic : Withdraw(i)
  \/ \E f \in Fault, p \in Penalty : Penalise(f, p)

Spec == Init /\ [][Next]_vars

-----------------------------------------------------------------------------
(* load_workload *)

Of(t) == {i \in DOMAIN traffic : traffic[i].type = t}

\* A dictionary keyed by type: the last entry of a type is the one it keeps.
PriorityOf(t) == traffic[Max(Of(t))].priority

Loads ==
  /\ \A t \in DOMAIN Rank : Of(t) # {}
  /\ \A f \in Fault : penalty[f] > 0
  /\ \A t \in DOMAIN Rank : PriorityOf("sos") <= PriorityOf(t)

(* _comparison_outcome *)

\* Seeded fault: sorted by priority alone, which keeps ties as they are listed.
AheadAsListed(i, j) ==
  \/ traffic[i].priority < traffic[j].priority
  \/ traffic[i].priority = traffic[j].priority /\ i < j

\* The key of the sort; equal keys are equal to everything below.
Ahead(i, j) ==
  \/ traffic[i].priority < traffic[j].priority
  \/ /\ traffic[i].priority = traffic[j].priority
     /\ Rank[traffic[i].type] <= Rank[traffic[j].type]

QueueHead == {i \in DOMAIN traffic : \A j \in DOMAIN traffic \ {i} : Ahead(i, j)}

SosFirst == \A i \in QueueHead : traffic[i].type = "sos"

ComparisonPasses == Loads /\ SosFirst

Clamped(n) == Max({0, Min({10000, n})})

Bps(base, slope, n) ==
  Clamped(base - (n - Min(Scale)) * slope - MapThenSumSet(LAMBDA f : penalty[f], Fault))

\* _run_metrics: whole messages, rounded down.
Delivered(base, slope, n) == (n * Len(traffic) * Bps(base, slope, n)) \div 10000

Denominator(n) == n * Len(traffic)

-----------------------------------------------------------------------------
(* A comparison that passes puts an SOS at the head of the queue of every  *)
(* bearer: nothing has a better priority than the best SOS, whichever of   *)
(* several entries the loader looked at, and a location never ties it.     *)
SosLeadsWherePassed ==
  ComparisonPasses =>
    \E s \in Of("sos") : \A i \in DOMAIN traffic :
      /\ traffic[s].priority <= traffic[i].priority
      /\ traffic[i].type = "location" => traffic[s].priority < traffic[i].priority

(* The faults of a workload that loads cost every run at least a message,  *)
(* at every scale and however small the penalties: the degradation of the  *)
(* radio the integrated campaign reports is never rounded away.            *)
FaultsAreShown ==
  Loads => \A base \in Success, slope \in Slope, n \in Scale :
             Delivered(base, slope, n) \in 0 .. Denominator(n) - 1

(* Every SOS leaves before any other traffic.                              *)
EverySosLeads ==
  ComparisonPasses => \A s \in Of("sos"), i \in DOMAIN traffic \ Of("sos") :
                        traffic[s].priority <= traffic[i].priority
=============================================================================
