----------------------------- MODULE Simulator -----------------------------
(***************************************************************************)
(* openbrec/simulator.py: what a scenario shows of its nodes and zones     *)
(* while faults are switched on and off.  A fault of the scenario strikes  *)
(* one node; nothing keeps two faults from striking the same.              *)
(***************************************************************************)
EXTENDS Integers, FiniteSets, Functions

CONSTANTS
  Node,     \* the nodes of the scenario
  Zone,     \* zones
  ZoneOf,   \* [Node -> Zone]
  Nominal,  \* [Node -> quality], in units of which 400 divide the scale exactly
  Strikes   \* set of functions [kind -> Node]: the scenarios

NodeFaults == {"loss", "brownout", "partition", "restart"}
Faults == NodeFaults \cup {"duplicate", "malicious_peer"}

VARIABLES
  strikes, \* the scenario: the node each fault strikes
  enabled  \* active_faults

vars == <<strikes, enabled>>

Init == strikes \in Strikes /\ enabled = {}

Inject(f) == f \notin enabled /\ enabled' = enabled \cup {f} /\ UNCHANGED strikes

Clear(f) == f \in enabled /\ enabled' = enabled \ {f} /\ UNCHANGED strikes

Next == \E f \in Faults : Inject(f) \/ Clear(f)

Spec == Init /\ [][Next]_vars

-----------------------------------------------------------------------------
(* run_scenario: one node under a set of faults. *)

Struck(on, f, n) == f \in on /\ strikes[f] = n

Reporting(on, n) == ~Struck(on, "loss", n)

\* The last fault in the order of the code names the status.
Status(on, n) ==
  CASE Struck(on, "restart", n) -> "restarted"
    [] ~Struck(on, "restart", n) /\ Struck(on, "partition", n) -> "partitioned"
    [] ~Struck(on, "restart", n) /\ ~Struck(on, "partition", n) /\ Struck(on, "brownout", n) -> "degraded"
    [] OTHER -> IF Reporting(on, n) THEN "reporting" ELSE "lost"

\* 0.55 of it in a brownout, 0.75 in a partition, nothing when lost.
Quality(on, n) ==
  IF ~Reporting(on, n) THEN 0
  ELSE (Nominal[n] * (IF Struck(on, "brownout", n) THEN 11 ELSE 20)
          * (IF Struck(on, "partition", n) THEN 3 ELSE 4)) \div 80

\* The quality of several nodes, together.
Together(on, of) == SumFunctionOnSet([n \in Node |-> Quality(on, n)], of)

\* The observations of the timeline.
Observed(on) == {n \in Node : Reporting(on, n)}

Members(z) == {n \in Node : ZoneOf[n] = z}

Sources(on, z) == {n \in Members(z) : Status(on, n) # "lost"}

\* Seeded fault: the mean of the sources, whatever their share of the zone.
ConfidenceOfSources(on, z) ==
  IF Sources(on, z) = {} THEN 0
  ELSE (Together(on, Sources(on, z)) * 60) \div Cardinality(Sources(on, z))

\* average_quality * coverage_ratio: the sources' mean, in their share of the zone.
Confidence(on, z) ==
  IF Sources(on, z) = {} THEN 0
  ELSE (Together(on, Sources(on, z)) * 60 * Cardinality(Sources(on, z)))
         \div (Cardinality(Sources(on, z)) * Cardinality(Members(z)))

\* disposition["destinations"]["accepted_event_log"]
Accepted(on) == Cardinality({n \in Node : Status(on, n) # "lost"})

-----------------------------------------------------------------------------
(* Losing a source, or hurting it, never raises what a zone claims, and    *)
(* mending it never lowers it: the safety notice of the projection.        *)
ConfidenceOnlyDegrades ==
  [][\A z \in Zone :
       /\ enabled \subseteq enabled' => Confidence(enabled', z) <= Confidence(enabled, z)
       /\ enabled' \subseteq enabled => Confidence(enabled', z) >= Confidence(enabled, z)]_vars

Renamed(on) == {n \in Node : ~Reporting(on, n) /\ Status(on, n) # "lost"}

(* The count of accepted units and the sources a zone names are those that *)
(* were observed, and the nodes that are lost under another name, no more. *)
MiscountsAreRenamed ==
  /\ Accepted(enabled) = Cardinality(Observed(enabled)) + Cardinality(Renamed(enabled))
  /\ \A z \in Zone : Sources(enabled, z) = Members(z) \cap (Observed(enabled) \cup Renamed(enabled))

(* A node that is lost is no source of its zone, and no unit is accepted   *)
(* of it: losing a source degrades the coverage.                           *)
LossDegradesCoverage ==
  /\ \A z \in Zone : Sources(enabled, z) \subseteq Observed(enabled)
  /\ Accepted(enabled) = Cardinality(Observed(enabled))
=============================================================================
