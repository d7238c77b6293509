----------------------------- MODULE SosHistory -----------------------------
(***************************************************************************)
(* The history of one SOS, read by two programs: openbrec/messaging.py     *)
(* (reduce_sos), which sorts what it has by occurred_at and replays it     *)
(* with its causes, and openbrec/terminal.py (_project, derive_state),     *)
(* which takes the events as they came and looks at their types only.      *)
(*                                                                         *)
(* Events come from several devices with clocks of their own, so they may  *)
(* arrive in any order, more than once, and name causes that are not there *)
(* yet.  An event is signed and verified with one key: no check here.      *)
(***************************************************************************)
EXTENDS Integers, Sequences, FiniteSets, SequencesExt

CONSTANTS
  SosEvent,  \* [id, type, at, causes, acceptor], the type one of Types; acceptor: the
             \*   actor is an operator whose binding has the role distress_acceptor
  MaxEvents  \* bound: events that arrive

Types ==
  {"sos.created", "sos.queued", "transport.transmitted", "transport.relay_observed",
   "gateway.received", "operator.seen", "operator.accepted", "sos.cancel_requested",
   "sos.expired", "sos.failed"}

VARIABLE arrived \* the events, in the order of their arrival

Init == arrived = <<>>

Arrive(e) == Len(arrived) < MaxEvents /\ arrived' = Append(arrived, e)

Next == \E e \in SosEvent : Arrive(e)

Spec == Init /\ [][Next]_arrived

-----------------------------------------------------------------------------
(* reduce_sos *)

Prerequisites == {"gateway.received", "operator.seen"}

\* Seeded fault: the events are replayed as they came.
PrecedesAsArrived(log, i, j) == i < j

\* sorted(key=occurred_at) is stable: events of one time keep their order.
Precedes(log, i, j) == log[i].at < log[j].at \/ (log[i].at = log[j].at /\ i < j)

\* What the replay has taken when it comes to the j-th event that arrived.
Before(log, j) == {log[i] : i \in {k \in DOMAIN log : Precedes(log, k, j)}}

Ids(events) == {e.id : e \in events}

TypesOf(events) == {e.type : e \in events}

\* Seeded fault: any gateway and operator will do, whatever the acceptance names.
LacksPrerequisitesAnywhere(e, accepted) == ~(Prerequisites \subseteq TypesOf(accepted))

LacksPrerequisites(e, accepted) ==
  ~(Prerequisites \subseteq TypesOf({f \in accepted : f.id \in e.causes}))

\* Why an event ends the replay, given the events before it.
Refusal(e, accepted) ==
  CASE e.id \in Ids(accepted) -> "duplicate"
    [] e.id \notin Ids(accepted) /\ ~(e.causes \subseteq Ids(accepted)) -> "causation"
    [] e.id \notin Ids(accepted) /\ e.causes \subseteq Ids(accepted)
         /\ e.type = "operator.accepted" /\ ~e.acceptor -> "unauthorized"
    [] e.id \notin Ids(accepted) /\ e.causes \subseteq Ids(accepted)
         /\ e.type = "operator.accepted" /\ e.acceptor
         /\ LacksPrerequisites(e, accepted) -> "prerequisites"
    [] OTHER -> "none"

\* The first event that is refused raises, and nothing of the replay is left:
\* there is one exactly when one is refused after all that come before it.
Reduces(log) == \A j \in DOMAIN log : Refusal(log[j], Before(log, j)) = "none"

\* The states of a replay that has taken every event.
Technical(log) ==
  LET types == TypesOf(ToSet(log)) IN
  IF "gateway.received" \in types THEN "gateway_received"
  ELSE IF "transport.transmitted" \in types THEN "transmitted" ELSE "queued"

Operational(log) ==
  LET types == TypesOf(ToSet(log)) IN
  IF "operator.accepted" \in types THEN "accepted"
  ELSE IF "operator.seen" \in types THEN "seen" ELSE "unassigned"

-----------------------------------------------------------------------------
(* terminal.py *)

\* Some event, in the order of the times, each once.
AppendOnly(log) ==
  /\ log # <<>>
  /\ \A i \in 1..(Len(log) - 1) : log[i].at <= log[i + 1].at
  /\ IsInjective([i \in 1..Len(log) |-> log[i].id])

\* derive_state; "raises" when what is there cannot be.
TerminalState(types) ==
  CASE "operator.accepted" \in types ->
         IF Prerequisites \subseteq types THEN "accepted" ELSE "raises"
    [] "operator.accepted" \notin types /\ "sos.cancel_requested" \in types -> "cancelled"
    [] types \cap {"operator.accepted", "sos.cancel_requested"} = {}
         /\ types \cap {"sos.expired", "sos.failed"} # {} -> "expired"
    [] types \cap {"operator.accepted", "sos.cancel_requested", "sos.expired", "sos.failed"} = {}
         /\ "operator.seen" \in types ->
         IF "gateway.received" \in types THEN "seen" ELSE "raises"
    [] OTHER -> IF "gateway.received" \in types THEN "delivered"
                ELSE IF "transport.transmitted" \in types THEN "sent" ELSE "queued"

\* _project: one message whose log is what arrived.
Terminal(log) == IF AppendOnly(log) THEN TerminalState(TypesOf(ToSet(log))) ELSE "raises"

-----------------------------------------------------------------------------
(* open_spec_messaging.py, the replay of the specification. *)

\* Seeded fault: sorted by the time alone.
EarlierByTime(e, f) == e.at < f.at

Earlier(e, f) == e.at < f.at \/ (e.at = f.at /\ e.id < f.id)

\* sorted(key=(occurred_at, event_id)): events of one id are one event here.
SpecOrder(log) ==
  LET p == CHOOSE p \in Bijection(DOMAIN log, DOMAIN log) :
             \A i, j \in DOMAIN log : i < j => ~Earlier(log[p[j]], log[p[i]])
  IN  [i \in DOMAIN log |-> log[p[i]]]

\* A repeated event is skipped, and so is an acceptance without the right.
SpecStep(acc, e) ==
  IF acc.raises \/ e.id \in Ids(acc.seen) THEN acc
  ELSE IF ~(e.causes \subseteq Ids(acc.seen)) THEN [acc EXCEPT !.raises = TRUE]
  ELSE IF e.type = "operator.accepted" /\ (~e.acceptor \/ LacksPrerequisites(e, acc.seen))
       THEN [acc EXCEPT !.refused = @ + 1]
  ELSE [acc EXCEPT !.seen = @ \cup {e}]

SpecReduce(log) ==
  LET s == SpecOrder(log)
      run[i \in 0..Len(s)] ==
        IF i = 0 THEN [raises |-> FALSE, refused |-> 0, seen |-> {}]
        ELSE SpecStep(run[i - 1], s[i])
  IN  run[Len(s)]

-----------------------------------------------------------------------------
\* What makes a history good, said of the whole of it.
Lawful(log) ==
  \A j \in 1..Len(log) :
    /\ \A i \in 1..Len(log) : log[i].id = log[j].id => i = j
    /\ \A c \in log[j].causes : \E i \in 1..Len(log) : log[i].id = c /\ Precedes(log, i, j)
    /\ log[j].type = "operator.accepted" =>
         /\ log[j].acceptor
         /\ \A p \in Prerequisites : \E i \in 1..Len(log) :
              log[i].type = p /\ log[i].id \in log[j].causes

(* The replay raises exactly when some event is repeated, comes before a   *)
(* cause of its own, or accepts without the right or without naming both   *)
(* a gateway's receipt and an operator's look among its causes.            *)
RefusedForAReason == Reduces(arrived) <=> Lawful(arrived)

\* An event and one of its causes have the same occurred_at.
TiesWithItsCause == \E e, f \in ToSet(arrived) : e.at = f.at /\ e.id \in f.causes

\* The same events in every order of arrival.
Arrivals(log) == {[i \in DOMAIN log |-> log[p[i]]] : p \in Bijection(DOMAIN log, DOMAIN log)}

(* The order of arrival decides only between an event and a cause of the   *)
(* same occurred_at: without such a pair, the history in any other order   *)
(* is refused or reduced to the same states.                               *)
OnlyTiesMatter ==
  ~TiesWithItsCause =>
    \A other \in Arrivals(arrived) :
    /\ Reduces(other) <=> Reduces(arrived)
    /\ Reduces(arrived) => /\ Technical(other) = Technical(arrived)
                           /\ Operational(other) = Operational(arrived)

(* Where both programs have an answer they agree on the acceptance, and    *)
(* the terminal shows as seen only what was.  Where the replay has one,    *)
(* the terminal has none only for events that did not arrive in the order  *)
(* of their times, or a look at what no gateway has received.              *)
TerminalAgrees ==
  Reduces(arrived) /\ arrived # <<>> =>
    LET types == TypesOf(ToSet(arrived))
        shown == Terminal(arrived)
    IN
    /\ shown # "raises" => (shown = "accepted" <=> Operational(arrived) = "accepted")
    /\ shown = "seen" => Operational(arrived) = "seen" /\ Technical(arrived) = "gateway_received"
    /\ shown = "raises" => \/ \E i \in 1..(Len(arrived) - 1) : arrived[i].at > arrived[i + 1].at
                           \/ "operator.seen" \in types /\ "gateway.received" \notin types

(* The replay of the specification depends on no order of arrival at all.  *)
(* It agrees with the one of the program on what stands, on what it counts *)
(* as a false acceptance and on the acceptance, wherever no event is       *)
(* repeated or ties with its cause.                                        *)
SpecAgrees ==
  LET spec == SpecReduce(arrived) IN
  /\ \A other \in Arrivals(arrived) : SpecReduce(other) = spec
  /\ ~TiesWithItsCause /\ IsInjective([i \in 1..Len(arrived) |-> arrived[i].id]) =>
       /\ Reduces(arrived) <=> ~spec.raises /\ spec.refused = 0
       /\ Reduces(arrived) => (("operator.accepted" \in TypesOf(spec.seen))
                                  <=> Operational(arrived) = "accepted")

Rank(state) ==
  CASE state = "queued" -> 0 [] state = "sent" -> 1 [] state = "delivered" -> 2
    [] state = "seen" -> 3 [] state = "expired" -> 4 [] state = "cancelled" -> 5
    [] state = "accepted" -> 6

(* While the terminal can show the message, another event never takes it   *)
(* back to a state it had left: an acceptance stands, and a cancelled or   *)
(* expired SOS does not become merely seen or delivered again.             *)
NeverFallsBack ==
  [][LET before == Terminal(arrived) after == Terminal(arrived') IN
     before # "raises" /\ after # "raises" => Rank(before) <= Rank(after)]_arrived

(* A refused history becomes good only by the arrival of a cause that some *)
(* of its events name: no other late event mends it, a gateway's receipt   *)
(* or an operator's look included that the acceptance does not name.       *)
OnlyACauseHeals ==
  [][~Reduces(arrived) /\ Reduces(arrived') =>
       Last(arrived').id \in UNION {e.causes : e \in ToSet(arrived)}]_arrived
=============================================================================
