--------------------------- MODULE BeaconCampaign ---------------------------
(***************************************************************************)
(* openbrec/beacons.py with classify_fusion_case of openbrec/fusion.py:    *)
(* what a set of beacon observations may be called, and under which        *)
(* authority a snippet may be captured and its material kept.              *)
(*                                                                         *)
(* Observations accumulate, authorization events are logged, and a capture *)
(* is judged at some time under what is logged by then.  The checks of     *)
(* load_campaign (schemas, unique ids, known references) hold of the       *)
(* inputs.                                                                 *)
(***************************************************************************)
EXTENDS Integers, Sequences, FiniteSets, FiniteSetsExt, SequencesExt

CONSTANTS
  Source,        \* observations of a case: [beacon, group]
  Authorization, \* events: [type, from, until, actor], granted, revoked, expired or break_glass
  Material,      \* what a capture left: [encrypted, overCap, receipt, state, reviewed]
  Time,          \* capture_at
  MaxBreakGlass, \* 1800 s
  MaxEvents      \* bound: events logged

Nothing == [state |-> "none"]

VARIABLES
  sources, \* the observations of one fusion case
  log,     \* the authorization events of one retention case, in the order of the file
  kept     \* the retention case that was judged, if one was

vars == <<sources, log, kept>>

Unjudged == [mode |-> "none"]

Init == sources = {} /\ log = <<>> /\ kept = Unjudged

\* The two kinds of case share nothing: a behaviour explores one of them.
Observe(s) ==
  /\ log = <<>> /\ kept = Unjudged
  /\ sources' = sources \cup {s} /\ UNCHANGED <<log, kept>>

Log(e) ==
  /\ sources = {} /\ kept = Unjudged /\ Len(log) < MaxEvents
  /\ log' = Append(log, e) /\ UNCHANGED <<sources, kept>>

-----------------------------------------------------------------------------
(* Fusion cases. *)

\* What a case says of itself beside its sources.
Flags == [artifact : BOOLEAN, sufficient : BOOLEAN, baseline : BOOLEAN, placement : BOOLEAN,
          ood : BOOLEAN]

\* Distinct beacons and distinct groups are counted each for itself.
Independent(of) ==
  Cardinality({s.beacon : s \in of}) >= 2 /\ Cardinality({s.group : s \in of}) >= 2

\* classify_fusion_case
Classify(f, of) ==
  CASE f.artifact -> "sensor_artifact_likely"
    [] ~f.artifact /\ ~f.sufficient -> "insufficient_coverage"
    [] ~f.artifact /\ f.sufficient /\ (~f.baseline \/ ~f.placement \/ f.ood) -> "unknown"
    [] OTHER -> IF Independent(of) THEN "corroborated_candidate" ELSE "single_modality_candidate"

-----------------------------------------------------------------------------
(* Retention cases. *)

ActiveAt(e, t) == e.type \in {"granted", "break_glass"} /\ e.from <= t /\ t <= e.until

\* The positions of the events that are active, and of the break-glasses among them.
Active(events, t) == {i \in DOMAIN events : ActiveAt(events[i], t)}

BreakGlass(events, t) == {i \in Active(events, t) : events[i].type = "break_glass"}

Actors(events, t) == {events[i].actor : i \in Active(events, t)}

Roles == {"search-lead", "privacy-safety-reviewer"}

\* Seeded fault: one of the two roles is enough.
DualEither(events, t) == Roles \cap Actors(events, t) # {}

DualAuthorization(events, t) == Roles \subseteq Actors(events, t)

Short(e) == e.until - e.from <= MaxBreakGlass

\* _valid_authorization: the last active break-glass decides, if there is one.
Authorized(events, t) ==
  IF BreakGlass(events, t) # {}
  THEN LET e == events[Max(BreakGlass(events, t))] IN e.actor = "incident-commander" /\ Short(e)
  ELSE DualAuthorization(events, t)

\* The disposition derived for a case; an authorized one takes the expected.
Disposition(c) ==
  CASE c.mode = "features_only" -> "no_material"
    [] c.mode # "features_only" /\ c.attempted /\ ~Authorized(log, c.at) ->
         IF log = <<>> THEN "rejected" ELSE "rejected_expired"
    [] OTHER -> c.expected

\* The counts of run_retention_fault that must be zero, for one case.
Faultless(c) ==
  LET m == c.material IN
  /\ Disposition(c) = c.expected
  /\ m # Nothing =>
       /\ ~(c.mode # "features_only" /\ c.attempted /\ ~Authorized(log, c.at))
       /\ m.encrypted /\ ~m.overCap /\ m.receipt
       /\ m.state = "deleted" => m.reviewed

Judge(c) == sources = {} /\ kept = Unjudged /\ kept' = c /\ UNCHANGED <<sources, log>>

Case == [mode : {"features_only", "triggered_snippet"}, attempted : BOOLEAN, at : Time,
         material : Material \cup {Nothing},
         expected : {"no_material", "rejected", "rejected_expired", "captured"}]

Next ==
  \/ \E s \in Source : Observe(s)
  \/ \E e \in Authorization : Log(e)
  \/ \E c \in Case : Judge(c)

Spec == Init /\ [][Next]_vars

-----------------------------------------------------------------------------
(* Counting beacons and groups apart is enough: evidence is called         *)
(* corroborated exactly when two of its observations differ in both, so    *)
(* one beacon under two names of a group, or two beacons of one group,     *)
(* never corroborate each other; and nothing invalid is corroborated.      *)
CorroborationIsIndependent ==
  \A f \in Flags :
    Classify(f, sources) = "corroborated_candidate" <=>
      /\ ~f.artifact /\ ~f.ood /\ f.sufficient /\ f.baseline /\ f.placement
      /\ \E s, u \in sources : s.beacon # u.beacon /\ s.group # u.group

(* A capture is authorized only by two grants of different roles that are  *)
(* both active, or by a commander's break-glass no older than its limit,   *)
(* whatever else is in the log and in which order.                         *)
CaptureHasAuthority ==
  \A t \in Time : Authorized(log, t) =>
    \/ \A r \in Roles : \E i \in DOMAIN log : log[i].actor = r /\ ActiveAt(log[i], t)
    \/ \E i \in DOMAIN log : /\ log[i].type = "break_glass" /\ log[i].actor = "incident-commander"
                             /\ log[i].from <= t /\ t <= log[i].from + MaxBreakGlass

(* The order of the events matters only among active break-glasses: with   *)
(* one at most, the log read backwards authorizes the same.                *)
OnlyBreakGlassIsOrdered ==
  \A t \in Time : Cardinality(BreakGlass(log, t)) <= 1 =>
    (Authorized(Reverse(log), t) <=> Authorized(log, t))

(* An authority once logged is lost only to a later break-glass that is    *)
(* active and invalid; an event that revokes or expires the grants changes *)
(* nothing.  (The schema has both types; the code reads neither.)          *)
OnlyBreakGlassRevokes ==
  [][\A t \in Time : (Authorized(log, t) /\ ~Authorized(log', t)) =>
       LET e == Last(log') IN
       e.type = "break_glass" /\ ActiveAt(e, t)
         /\ ~(e.actor = "incident-commander" /\ Short(e))]_vars

(* A case without a fault keeps material only encrypted, within the cap,   *)
(* traced, reviewed before it was deleted, and of an authorized capture,   *)
(* unless the case calls itself features-only or not a capture: then no    *)
(* authority is asked for its material.                                    *)
MaterialIsGoverned ==
  (kept # Unjudged /\ kept.material # Nothing /\ Faultless(kept)) =>
    LET m == kept.material IN
    /\ m.encrypted /\ ~m.overCap /\ m.receipt
    /\ m.state = "deleted" => m.reviewed
    /\ \/ kept.mode = "features_only" \/ ~kept.attempted
       \/ \A r \in Roles : \E i \in DOMAIN log : log[i].actor = r /\ ActiveAt(log[i], kept.at)
       \/ \E i \in DOMAIN log : log[i].actor = "incident-commander" /\ ActiveAt(log[i], kept.at)
=============================================================================
