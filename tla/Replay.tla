------------------------------- MODULE Replay -------------------------------
(***************************************************************************)
(* openbrec/replay.py with validate_event and validate_event_set of        *)
(* openbrec/semantic.py: recorded observations become events (the adapter  *)
(* replay), and a log of events becomes evidence and fusion results (the   *)
(* core replay), the same whatever the order of the log.                   *)
(*                                                                         *)
(* A bundle is recorded, the adapter's events are written to the log, and  *)
(* the log is appended to by others, repeats and moves events.  Every      *)
(* replay is a function of the log.                                        *)
(***************************************************************************)
EXTENDS Integers, Sequences, FiniteSets, SequencesExt

CONSTANTS
  Observation, \* recorded observations: [id, start, end, fit]
  Foreign,     \* events of other adapters: [key, node, boot, sequence, captured, received, obs]
  Received,    \* configuration["received_at"] of the bundle
  MaxBundle,   \* bound: observations in the bundle
  MaxLog       \* bound: events in the log

VARIABLES
  bundle, \* the recorded observations, in order
  sound,  \* the bundle's hash and namespace are right
  log     \* events, in the order they were written

vars == <<bundle, sound, log>>

Init == bundle = <<>> /\ sound \in BOOLEAN /\ log = <<>>

-----------------------------------------------------------------------------
(* Events. *)

\* The node that wrote nothing: events the core derives name no source node.
NoNode == "no node"

\* validate_event; obs.fit stands for the schema and the retention policy.
Valid(e) == e.obs.fit /\ e.captured <= e.received /\ e.obs.start < e.obs.end

\* The key is the idempotency id: of what source, of what number, derived by what step.
AdapterEvent(i) ==
  [key |-> [source |-> "fixture", number |-> i, step |-> "adapter"], node |-> "adapter", boot |-> "boot", sequence |-> i,
   captured |-> bundle[i].start, received |-> Received, obs |-> bundle[i]]

\* AdapterReplayRunner.run: all of the bundle or nothing.
AdapterRun ==
  IF sound /\ \A i \in DOMAIN bundle : Valid(AdapterEvent(i))
  THEN [i \in DOMAIN bundle |-> AdapterEvent(i)] ELSE <<>>

Record(o) ==
  /\ Len(bundle) < MaxBundle /\ log = <<>>
  /\ bundle' = Append(bundle, o) /\ UNCHANGED <<sound, log>>

\* The adapter's events are written to an empty log.
Adapt == log = <<>> /\ AdapterRun # <<>> /\ log' = AdapterRun /\ UNCHANGED <<bundle, sound>>

Write(e) == Len(log) < MaxLog /\ log' = Append(log, e) /\ UNCHANGED <<bundle, sound>>

\* A log kept elsewhere holds an event twice.
Repeat(i) == Len(log) < MaxLog /\ log' = Append(log, log[i]) /\ UNCHANGED <<bundle, sound>>

Next ==
  \/ \E o \in Observation : Record(o)
  \/ Adapt
  \/ \E e \in Foreign : Write(e)
  \/ \E i \in DOMAIN log : Repeat(i)

Spec == Init /\ [][Next]_vars

-----------------------------------------------------------------------------
(* validate_event_set *)

\* The keys it sorts by, before the event id.
Before(a, b) ==
  \/ a.captured < b.captured
  \/ a.captured = b.captured /\ a.node = b.node /\ a.boot = b.boot /\ a.sequence < b.sequence

SameSource(a, b) == a.node = b.node /\ a.boot = b.boot

\* Seeded fault: the sequence is checked in the order of arrival.
AdvancesAsWritten(l) ==
  \A i, j \in DOMAIN l :
    (i < j /\ SameSource(l[i], l[j]) /\ l[i] # l[j]) => l[i].sequence < l[j].sequence

\* In the order it sorts the set in, the sequence of a source and boot only grows.
Advances(l) ==
  \A a, b \in ToSet(l) :
    (SameSource(a, b) /\ a # b) => a.sequence # b.sequence /\ (Before(a, b) <=> a.sequence < b.sequence)

\* Two events of one idempotency id that differ; equal ones are one.
Collides(l) == \E i, j \in DOMAIN l : l[i].key = l[j].key /\ l[i] # l[j]

ValidSet(l) == (\A i \in DOMAIN l : Valid(l[i])) /\ ~Collides(l) /\ Advances(l)

-----------------------------------------------------------------------------
(* CoreReplayRunner.run *)

\* _derived_event: the window's end is when it was captured, the sequence goes on from
\* the cause's, and the boot is the cause's.
Derived(cause, type) ==
  [key |-> [cause.key EXCEPT !.step = type], node |-> NoNode, boot |-> cause.boot,
   sequence |-> cause.sequence + 1, captured |-> cause.obs.end,
   received |-> cause.received, obs |-> cause.obs]

\* The evidence of every observation, and what the fusion says of it.
Outputs(l) ==
  LET evidence == [i \in DOMAIN l |-> Derived(l[i], "evidence")]
  IN evidence \o [i \in DOMAIN l |-> Derived(evidence[i], "fusion_result")]

\* A derived event that is not valid raises where nothing catches it.
Raises(l) == \E e \in ToSet(Outputs(l)) : ~Valid(e)

Result(l) ==
  IF ~ValidSet(l) THEN "failed" ELSE IF Raises(l) THEN "raised" ELSE "passed"

\* What a receipt is of, but for the errors it lists.
Core(l) ==
  [result |-> Result(l), inputs |-> IF Result(l) = "passed" THEN ToSet(l) ELSE {},
   outputs |-> IF Result(l) = "passed" THEN ToSet(Outputs(l)) ELSE {}]

-----------------------------------------------------------------------------
(* A log in any order replays to the same end, and so does one in which    *)
(* events occur again (semantic.py validate_event_set).                    *)
ReplayIsOrderFree ==
  \A p \in Bijection(DOMAIN log, DOMAIN log) :
    LET l == [i \in DOMAIN log |-> log[p[i]]]
    IN Core(l) = Core(log) /\ \A i \in DOMAIN l : Core(Append(l, l[i])) = Core(log)

(* What the adapter passed, the core refuses only for the order in which   *)
(* it was recorded, and raises at only for a window that was still open    *)
(* when it was received (replay.py, semantic.py).                          *)
AdapterFeedsCore ==
  (log # <<>> /\ log = AdapterRun) =>
    /\ Result(log) = "failed" <=>
         \E i, j \in DOMAIN bundle : i < j /\ bundle[i].start > bundle[j].start
    /\ Result(log) = "raised" => \E i \in DOMAIN bundle : bundle[i].end > Received
    /\ Result(log) = "passed" => Cardinality(ToSet(Outputs(log))) = 2 * Len(bundle)

\* Between two observations of a boot there are two numbers, and windows end in order.
Sparse(l) ==
  \A a, b \in ToSet(l) : (a # b /\ a.boot = b.boot) =>
    \/ a.sequence + 2 <= b.sequence /\ a.obs.end <= b.obs.end
    \/ b.sequence + 2 <= a.sequence /\ b.obs.end <= a.obs.end

(* The outputs are themselves a set of events a replay would accept when   *)
(* the observations of a boot are sparse, and only then: a derived event   *)
(* takes a number its source has still to use, and two nodes that share a  *)
(* boot share the numbers (_derived_event names no source node).           *)
OutputsReplayWhenSparse ==
  Result(log) = "passed" => (ValidSet(Outputs(log)) <=> Sparse(log))

(* A replay ends with a receipt, passed or failed.                         *)
EndsWithReceipt == Result(log) # "raised"
=============================================================================
