------------------------------- MODULE Energy -------------------------------
(***************************************************************************)
(* openbrec/energy.py: the replay of one energy domain.  Its budget is     *)
(* computed once, from the state of charge it starts with; then every      *)
(* event gives a state, the loads to shed and a status in the timeline.    *)
(* The domains are autonomous, and the replay treats each by itself.       *)
(*                                                                         *)
(* States of charge are percentages.  A domain is what its budget needs:   *)
(* the capacity after deratings, the upper bound of the critical power,    *)
(* both in the same unit, the auxiliary generation and the reserves.       *)
(***************************************************************************)
EXTENDS Integers, Sequences

CONSTANTS
  Domain,     \* records as described by IsDomain
  Sample,     \* states of charge an event may bring
  Window,     \* seconds the budget must last
  Margin,     \* the margin factor, in percent
  MaxEvents   \* bound of the instance

Unknown == -1
Hour == 3600

Kinds == {"sample", "source_loss", "source_restore", "sos_active", "brownout", "restart"}
Restarts == {"brownout", "restart"}
Classes == {"L0_LIFE_SAFETY", "L1_MISSION_CRITICAL", "L2_MISSION_SUPPORT", "L3_DEFERRABLE"}

IsDomain(d) ==
  /\ d.soc \in (0..100) \cup {Unknown}
  /\ d.uncertainty \in 0..100
  /\ {d.capacity, d.power, d.auxiliary, d.sos, d.transition, d.shutdown} \subseteq Nat

ASSUME EnergyConstants ==
  /\ \A d \in Domain : IsDomain(d)
  /\ Sample \subseteq 0..100
  /\ Window \in Nat \ {0} /\ Margin \in Nat /\ Margin >= 100
  /\ MaxEvents \in Nat

VARIABLES
  domain,
  timeline,
  failed      \* the replay raised

vars == <<domain, timeline, failed>>

-----------------------------------------------------------------------------
(* The budget.  Energies are scaled by 100, as the percentages are.        *)

AtLeastZero(x) == IF x < 0 THEN 0 ELSE x

Remaining(d, soc) == d.capacity * AtLeastZero(soc - d.uncertainty)

Reserves(d) == 100 * (d.sos + d.transition + d.shutdown)

\* Seeded fault: auxiliary generation counts as storage.
SufficientWithAuxiliary(d) ==
  100 * Hour * (Remaining(d, d.soc) + 100 * d.auxiliary)
    >= Margin * (100 * d.power * Window + Hour * Reserves(d))

\* The comparison of _budget, multiplied by an hour and by the margin's 100.
\* Auxiliary generation is reported and not counted.
Sufficient(d) ==
  100 * Hour * Remaining(d, d.soc) >= Margin * (100 * d.power * Window + Hour * Reserves(d))

\* Seconds until only the shutdown reserve is left, rounded down.
Runtime(d, soc) ==
  (Hour * AtLeastZero(Remaining(d, soc) - 100 * d.shutdown)) \div (100 * d.power)

Budget(d) ==
  IF d.soc = Unknown \/ d.power = 0
  THEN [result |-> "unknown", runtime |-> Unknown]
  ELSE [result |-> IF Sufficient(d) THEN "sufficient" ELSE "insufficient",
        runtime |-> Runtime(d, d.soc)]

-----------------------------------------------------------------------------
(* The state machine.  States are the numbers of STATE_ORDER. *)

Normal == 0
Conserve == 1
Critical == 2
Survival == 3
Shutdown == 4
Blind == -1   \* the state "unknown"
None == -2    \* no state yet

Levels == Normal..Shutdown

\* A level is entered at this state of charge or below it.
Enter == [l \in Conserve..Shutdown |->
            CASE l = Conserve -> 50 [] l = Critical -> 30 [] l = Survival -> 15 [] l = Shutdown -> 8]

Target(soc) ==
  CASE soc <= Enter[Shutdown] -> Shutdown
    [] soc > Enter[Shutdown] /\ soc <= Enter[Survival] -> Survival
    [] soc > Enter[Survival] /\ soc <= Enter[Critical] -> Critical
    [] soc > Enter[Critical] /\ soc <= Enter[Conserve] -> Conserve
    [] soc > Enter[Conserve] -> Normal

\* Seeded fault: a level is left as soon as it would not be entered.
RecoveredAtOnce(previous, soc) == previous - 1

\* One level better, if the sample is clear of the threshold.
Recovered(previous, soc) ==
  CASE previous = Shutdown -> Survival
    [] previous \in {Conserve, Critical, Survival} ->
         IF soc >= Enter[previous] + 5 THEN previous - 1 ELSE previous

next_energy_state(previous, soc, kind) ==
  CASE kind \in Restarts -> Survival
    [] kind \notin Restarts /\ soc = Unknown -> Blind
    [] kind \notin Restarts /\ soc # Unknown ->
         IF previous \in {None, Blind} \/ Target(soc) >= previous
         THEN Target(soc) ELSE Recovered(previous, soc)

\* Seeded fault: without a measurement everything is shed.
LoadsShedBlind(state, kind) ==
  CASE state = Normal -> {}
    [] state = Conserve -> {"L3_DEFERRABLE"}
    [] state \in {Critical, Survival} -> {"L2_MISSION_SUPPORT", "L3_DEFERRABLE"}
    [] state \in {Blind, Shutdown} -> Classes

\* The classes of the loads that are shed.
LoadsShed(state, kind) ==
  (CASE state = Normal -> {}
     [] state = Conserve -> {"L3_DEFERRABLE"}
     [] state \in {Critical, Survival, Blind} -> {"L2_MISSION_SUPPORT", "L3_DEFERRABLE"}
     [] state = Shutdown -> Classes)
  \cup (IF kind = "sos_active" THEN {"L3_DEFERRABLE"} ELSE {})

-----------------------------------------------------------------------------
(* The replay. *)

Init ==
  /\ domain \in Domain
  /\ timeline = <<>> /\ failed = FALSE

Previous == IF timeline = <<>> THEN None ELSE timeline[Len(timeline)].state

\* How often the boot id has changed; each is hashed from the one before.
Boots == IF timeline = <<>> THEN 0 ELSE timeline[Len(timeline)].boot

\* One turn of the loop of run_energy_scenario.
Event(kind, soc) ==
  /\ Len(timeline) < MaxEvents /\ ~failed
  /\ soc # Unknown => domain.soc # Unknown
  /\ LET state == next_energy_state(Previous, soc, kind) IN
     timeline' = Append(timeline,
       [kind |-> kind, soc |-> soc, state |-> state,
        shed |-> LoadsShed(state, kind),
        runtime |-> IF soc = Unknown THEN Unknown ELSE Budget(domain).runtime,
        boot |-> IF kind \in Restarts THEN Boots + 1 ELSE Boots])
  /\ UNCHANGED <<domain, failed>>

\* A sample in a domain that started without one: its uncertainty is None,
\* and float(None) ends the replay of all domains.
Fail(soc) ==
  /\ Len(timeline) < MaxEvents /\ ~failed
  /\ soc # Unknown /\ domain.soc = Unknown
  /\ failed' = TRUE
  /\ UNCHANGED <<domain, timeline>>

Next == \E soc \in Sample \cup {Unknown} : (\E kind \in Kinds : Event(kind, soc)) \/ Fail(soc)

Spec == Init /\ [][Next]_vars

-----------------------------------------------------------------------------
Status == [kind : Kinds, soc : Sample \cup {Unknown}, state : Levels \cup {Blind},
           shed : SUBSET Classes, runtime : Nat \cup {Unknown}, boot : Nat]

\* Every status is well formed.
TypeOK == domain \in Domain /\ timeline \in Seq(Status) /\ failed \in BOOLEAN

State(i) == timeline[i].state

\* Statuses that follow a sample in the ordinary way: the state of charge is
\* known and the domain has not just restarted.
Plain(i) == timeline[i].soc # Unknown /\ timeline[i].kind \notin Restarts

\* From one status to a later one, all of them plain.
Steady(i, k) == i < k /\ \A j \in i..k : Plain(j)

\* Every level the state has fallen to or past was entered on a sample.
FallsOnSamples ==
  \A i, k \in DOMAIN timeline : Steady(i, k) =>
    \A l \in Levels : State(i) < l /\ l <= State(k) =>
      \E j \in (i + 1)..k : timeline[j].soc <= Enter[l]

\* Every level but shutdown that the state has risen out of was left on a
\* sample five points above it.
RisesOnSamples ==
  \A i, k \in DOMAIN timeline : Steady(i, k) =>
    \A l \in Conserve..Survival : State(k) < l /\ l <= State(i) =>
      \E j \in (i + 1)..k : timeline[j].soc >= Enter[l] + 5

\* However the levels are left and entered, the state is never better than
\* what the current sample alone would give (next_energy_state 197-228).
NeverOptimistic ==
  \A i \in DOMAIN timeline : Plain(i) => State(i) >= Target(timeline[i].soc)

\* Hysteresis: a state other than shutdown is not left and taken again while
\* the state of charge moves by less than five points, in any number of
\* samples (next_energy_state 197-228, whose output is fed back to it).
NoFlapping ==
  \A i, j, k \in DOMAIN timeline :
    i < j /\ j < k /\ Steady(i, k) /\ State(i) = State(k) /\ State(j) # State(i)
    /\ (\A l \in i..k : State(l) # Shutdown) =>
      \E l, m \in i..k : timeline[l].soc >= timeline[m].soc + 5

\* Life safety and mission critical loads are shed only on a sample at the
\* shutdown threshold; an event that lacks one, an active SOS and a restart
\* never cost them (_loads_shed 231-240).
LifeSafetyKept ==
  \A i \in DOMAIN timeline :
    timeline[i].shed \cap {"L0_LIFE_SAFETY", "L1_MISSION_CRITICAL"} # {} =>
      Plain(i) /\ timeline[i].soc <= Enter[Shutdown]

\* The two answers of the budget agree: what is sufficient under the model
\* lasts the window (_budget 279-305, which computes them apart).
SufficientLasts == Budget(domain).result = "sufficient" => Budget(domain).runtime >= Window

\* The inductive invariant: types, and how any two levels of a steady
\* stretch are connected by its samples (next_energy_state 197-228).
IInv ==
  /\ TypeOK /\ FallsOnSamples /\ RisesOnSamples
  /\ NeverOptimistic /\ LifeSafetyKept

\* The runtime a status reports is a lower bound for its own sample.
RuntimeIsCurrent ==
  \A i \in DOMAIN timeline :
    timeline[i].soc # Unknown /\ timeline[i].runtime # Unknown =>
      timeline[i].runtime <= Runtime(domain, timeline[i].soc)
=============================================================================
