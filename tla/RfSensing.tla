----------------------------- MODULE RfSensing -----------------------------
(***************************************************************************)
(* openbrec/rf_sensing.py: the five campaigns that turn radio metadata     *)
(* into weak evidence.  Three of them (passive, offline finding, autojoin) *)
(* read a file of lines some collector appended to; two (CSI, multimodal)  *)
(* derive observations from declared signals.  All fuse with the rules of  *)
(* Fusion.tla, and replay the input in several orders.                     *)
(*                                                                         *)
(* Here the input grows, line by line and source by source, and the        *)
(* campaigns are functions of it.  A line is a record                      *)
(*   [shape, case, subject, kind, sound, rssi, at, pattern]:               *)
(* shape tells an object from garbage and from an object with an unknown   *)
(* field, kind is the source, network or event, sound says that kind, rssi *)
(* and offset are of the right type, and "none" is a field left out.       *)
(***************************************************************************)
EXTENDS Integers, Sequences, FiniteSets, FiniteSetsExt, SequencesExt

CONSTANTS
  Line,        \* lines a collector may append, for each campaign: ["passive" |-> ..., ...]
  Cases,       \* case ids of the finding and autojoin campaigns
  OwnFleet,    \* subjects of the responders' own devices
  Companions,  \* finding: [case -> quality] of the cases with a declared companion
  ProfileOf,   \* autojoin: [case -> [actors, expires]]
  Window,      \* window_s
  Sources,     \* multimodal: [source -> [sensor, group, quality]], quality in tenths
  CsiCases,    \* CSI: [case -> [kind, quality]], quality in hundredths
  MaxLines     \* bound: lines of a file

Start == 0     \* logical_start

F == INSTANCE Fusion WITH MinEvidenceQuality <- 50, EvidenceLookback <- 0, EvidenceLimit <- 1

VARIABLES
  campaign, \* which campaign this is
  lines,    \* the file of a campaign of lines
  active,   \* multimodal: the sources active in the case
  windows   \* CSI: what each case observed, [case -> set of qualities]

vars == <<campaign, lines, active, windows>>

LineCampaigns == {"passive", "finding", "autojoin"}

Init ==
  /\ campaign \in LineCampaigns \cup {"multimodal", "csi"}
  /\ lines = <<>> /\ active = {} /\ windows = [c \in DOMAIN CsiCases |-> {}]

Hear(l) ==
  /\ campaign \in LineCampaigns /\ l \in Line[campaign] /\ Len(lines) < MaxLines
  /\ lines' = Append(lines, l) /\ UNCHANGED <<campaign, active, windows>>

Activate(s) ==
  /\ campaign = "multimodal" /\ s \notin active
  /\ active' = active \cup {s} /\ UNCHANGED <<campaign, lines, windows>>

\* _jitter moves a quality by 0.02 at most, in a way fixed by the case and the window;
\* the empty room is seen at a quality of its own.
Observe(c, jitter) ==
  /\ campaign = "csi" /\ jitter \in -2..2
  /\ windows' = [windows EXCEPT ![c] = @ \cup
       {(IF CsiCases[c].kind = "empty" THEN 30 ELSE CsiCases[c].quality) + jitter}]
  /\ UNCHANGED <<campaign, lines, active>>

Next ==
  \/ \E l \in UNION {Line[g] : g \in LineCampaigns} : Hear(l)
  \/ \E s \in DOMAIN Sources : Activate(s)
  \/ \E c \in DOMAIN CsiCases, jitter \in -2..2 : Observe(c, jitter)

Spec == Init /\ [][Next]_vars

-----------------------------------------------------------------------------
(* What becomes of one line. *)

\* convert_passive_record: no field but four is let in.
PassiveVerdict(l) ==
  CASE l.shape = "blank" -> "skipped"
    [] l.shape # "blank" /\ (l.shape # "object" \/ l.subject \in {"none", ""} \/ ~l.sound) -> "rejected"
    [] OTHER -> "valid"

\* run_offline_finding_campaign looks the subject up before it is validated, so one left
\* out is a KeyError nobody catches, as is a frame_pattern; an unknown pattern fails the
\* schema outside the try and ends the campaign.
FindingVerdict(l) ==
  CASE l.shape = "blank" -> "skipped"
    [] l.shape # "blank" /\ (l.shape # "object" \/ l.case \notin Cases) -> "rejected"
    [] l.shape = "object" /\ l.case \in Cases /\ l.subject = "none" -> "crash"
    [] l.shape = "object" /\ l.case \in Cases /\ l.subject \in OwnFleet -> "fleet"
    [] l.shape = "object" /\ l.case \in Cases /\ l.subject \notin OwnFleet \cup {"none"} ->
         IF l.subject = "" \/ ~l.sound THEN "rejected"
         ELSE CASE l.pattern = "none" -> "crash"
                [] l.pattern = "unknown" -> "abort"
                [] OTHER -> "valid"

\* run_autojoin_campaign validates a line whole before it looks at the roster.
AutojoinVerdict(l) ==
  CASE l.shape = "blank" -> "skipped"
    [] l.shape # "blank" /\ (\/ l.shape # "object" \/ l.case \notin Cases \/ ~l.sound
                             \/ l.subject \in {"none", ""}) -> "rejected"
    [] OTHER -> IF l.subject \in OwnFleet THEN "fleet" ELSE "valid"

Verdict(l) ==
  CASE campaign = "passive" -> PassiveVerdict(l)
    [] campaign = "finding" -> FindingVerdict(l)
    [] campaign = "autojoin" -> AutojoinVerdict(l)

\* The recipe of the observation id: never the signal strength.
ObservationId(l) ==
  CASE campaign = "passive" -> <<l.kind, l.subject, l.at>>
    [] campaign = "finding" -> <<l.case, l.subject, l.at>>
    [] campaign = "autojoin" -> <<l.case, l.kind, l.subject, l.at>>

\* The campaign reaches its projection.
Stands(ls) == \A i \in DOMAIN ls : Verdict(ls[i]) \notin {"crash", "abort"}

With(ls, verdict) == {i \in DOMAIN ls : Verdict(ls[i]) = verdict}

\* The first line of an id stays.
Emitted(ls) ==
  {i \in With(ls, "valid") :
     \A j \in With(ls, "valid") : j < i => ObservationId(ls[j]) # ObservationId(ls[i])}

Duplicates(ls) == With(ls, "valid") \ Emitted(ls)

\* frames_by_case: a finding is counted before it is validated, an association after.
Frames(ls, c) ==
  {i \in DOMAIN ls : /\ ls[i].case = c
                     /\ IF campaign = "finding" THEN ls[i].shape = "object"
                        ELSE Verdict(ls[i]) \in {"fleet", "valid"}}

EmittedOf(ls, c) == {i \in Emitted(ls) : ls[i].case = c}

-----------------------------------------------------------------------------
(* What a case says of its lines. *)

Quality(rssi) == Max({0, Min({100, ((rssi + 90) * 10) \div 3})})

Obs(id, sensor, group, kind, quality, at) ==
  [id |-> id, sensor |-> sensor, type |-> group, kind |-> kind, quality |-> quality,
   zone |-> "zone", start |-> Start + at, end |-> Start + at + Window, absent |-> {}]

\* The observations of the findings, or associations, of a case.
Weak(ls, c) ==
  {Obs(ObservationId(ls[i]), "collector", "addon", "measurement", Quality(ls[i].rssi),
       ls[i].at) :
     i \in EmittedOf(ls, c)}

Silence(c) == Obs(<<"silence", c>>, "collector", "addon", "no_event_detected", 90, 0)

Companion(c) == Obs(<<"companion", c>>, "companion", "companion", "measurement", Companions[c], 0)

\* A declared companion is fused alone: findings have a low weight.
FindingPool(ls, c) ==
  IF c \in DOMAIN Companions THEN {Companion(c)}
  ELSE IF Weak(ls, c) # {} THEN Weak(ls, c) ELSE {Silence(c)}

AutojoinPool(ls, c) == IF Weak(ls, c) # {} THEN Weak(ls, c) ELSE {Silence(c)}

\* _profile_governance: the schema wants two actors; the expiry is compared once, with
\* the start of the campaign.
Governance(c) ==
  CASE Cardinality(ProfileOf[c].actors) < 2 -> "schema_rejected"
    [] Cardinality(ProfileOf[c].actors) >= 2 /\ ProfileOf[c].expires <= Start -> "refused_expired"
    [] OTHER -> "accepted"

CaseResult(ls, c) ==
  CASE campaign = "finding" -> F!Fuse(FindingPool(ls, c), "zone")
    [] campaign = "autojoin" /\ Governance(c) = "accepted" -> F!Fuse(AutojoinPool(ls, c), "zone")
    [] OTHER -> [state |-> "none", coverage |-> "none"]

\* The events a case publishes.
Published(ls, c) ==
  IF campaign = "autojoin" /\ Governance(c) # "accepted" THEN {}
  ELSE {ls[i] : i \in EmittedOf(ls, c)}

\* What the hash of a replay covers: for the passive campaign what was rejected too.
Projection(ls) ==
  IF campaign = "passive"
  THEN [events |-> {ls[i] : i \in Emitted(ls)}, duplicates |-> Cardinality(Duplicates(ls)),
        rejected |-> [l \in {ls[i] : i \in With(ls, "rejected")} |->
                        Cardinality({i \in DOMAIN ls : ls[i] = l})]]
  ELSE [c \in Cases |-> [frames |-> Cardinality(Frames(ls, c)), events |-> Published(ls, c),
                         result |-> CaseResult(ls, c)]]

-----------------------------------------------------------------------------
(* The orders a replay tries: every rotation, the odd ones read backwards. *)

Rotated(ls, k) == SubSeq(ls, k + 1, Len(ls)) \o SubSeq(ls, 1, k)

\* Seeded fault: half of the rotations will do.
OrdersOfHalf(ls) ==
  {IF k % 2 = 1 THEN Reverse(Rotated(ls, k)) ELSE Rotated(ls, k) : k \in 0..(Len(ls) \div 2 - 1)}

\* _permuted_hashes
Orders(ls) ==
  {IF k % 2 = 1 THEN Reverse(Rotated(ls, k)) ELSE Rotated(ls, k) : k \in 0..(Len(ls) - 1)}

\* _finish: one hash; of a file without a line there is none.
Deterministic(ls) == Stands(ls) /\ Orders(ls) # {} /\ \A o \in Orders(ls) : Projection(o) = Projection(ls)

-----------------------------------------------------------------------------
(* The campaigns of declared signals. *)

ModalObs(s) == Obs(<<s>>, Sources[s].sensor, Sources[s].group, "measurement", Sources[s].quality, 0)

ModalPool(of) == {ModalObs(s) : s \in of}

\* Each case is one link: its windows, whatever their times, are of one sensor.
CsiPool(of) == {Obs(<<q>>, "link", "addon", "measurement", q, 0) : q \in of}

Rank(coverage) ==
  CASE coverage = "insufficient" -> 0 [] coverage = "single-source" -> 1 [] OTHER -> 2

CoverageOf(pool) == Rank(F!Fuse(pool, "zone").coverage)

-----------------------------------------------------------------------------
(* Every line that is not blank is emitted, a duplicate, excluded or       *)
(* rejected, once; and so are the frames of each case, among which the     *)
(* finding campaign counts lines it then rejects and the other does not.   *)
LinesReconcile ==
  campaign \in LineCampaigns /\ Stands(lines) =>
    /\ Cardinality({i \in DOMAIN lines : lines[i].shape # "blank"})
         = Cardinality(Emitted(lines)) + Cardinality(Duplicates(lines))
           + Cardinality(With(lines, "rejected")) + Cardinality(With(lines, "fleet"))
    /\ campaign # "passive" => \A c \in Cases :
         Cardinality(Frames(lines, c)) =
           Cardinality(EmittedOf(lines, c))
           + Cardinality({i \in Duplicates(lines) \cup With(lines, "fleet") : lines[i].case = c})
           + (IF campaign = "finding"
              THEN Cardinality({i \in With(lines, "rejected") :
                                  lines[i].case = c /\ lines[i].shape = "object"}) ELSE 0)

Permuted(ls) == {[i \in DOMAIN ls |-> ls[p[i]]] : p \in Bijection(DOMAIN ls, DOMAIN ls)}

(* The few orders a replay tries stand for all of them: a file of four     *)
(* lines or more, all different, that passes has the same projection in    *)
(* every order, even where two lines of one id differ.  (In a file of two  *)
(* or three lines the first never comes after the second, and a line that  *)
(* is repeated may come before another in every order that is tried.)      *)
PassedIsOrderFree ==
  (campaign \in LineCampaigns /\ Len(lines) >= 4 /\ IsInjective(lines) /\ Deterministic(lines)) =>
    \A o \in Permuted(lines) : Projection(o) = Projection(lines)

(* A file that passes has the same projection in every order.              *)
PassedIsDeterministic ==
  (campaign \in LineCampaigns /\ Deterministic(lines)) =>
    \A o \in Permuted(lines) : Projection(o) = Projection(lines)

(* However many findings or associations a case hears, and whatever its    *)
(* companion, they are one source that corroborates nothing, and what a    *)
(* companion says is said without them.                                    *)
WeakStaysWeak ==
  /\ (campaign \in {"finding", "autojoin"} /\ Stands(lines)) => \A c \in Cases :
       /\ CaseResult(lines, c).coverage # "sufficient"
       /\ campaign = "finding" /\ c \in DOMAIN Companions =>
            CaseResult(lines, c) = CaseResult(<<>>, c)
  /\ \A c \in DOMAIN CsiCases : windows[c] # {} => CoverageOf(CsiPool(windows[c])) < 2

(* A line is published once its case's profile was authorized by two and   *)
(* current when the campaign started, and otherwise leaves no trace but    *)
(* the counts, in which it is an emitted observation like any other.       *)
PublishedIsGoverned ==
  campaign = "autojoin" => \A i \in Emitted(lines) :
    lines[i] \in Published(lines, lines[i].case) <=>
      LET p == ProfileOf[lines[i].case] IN Cardinality(p.actors) >= 2 /\ p.expires > Start

(* A modality more, or a window more, never takes away what the others     *)
(* showed: silence cancels nothing.                                        *)
SilenceCancelsNothing ==
  [][/\ active # {} => CoverageOf(ModalPool(active')) >= CoverageOf(ModalPool(active))
     /\ \A c \in DOMAIN CsiCases : windows[c] # {} =>
          CoverageOf(CsiPool(windows'[c])) >= CoverageOf(CsiPool(windows[c]))]_vars

(* No event is published of a profile that had expired when it happened.   *)
ExpiredPublishesNothing ==
  campaign = "autojoin" => \A c \in Cases : \A e \in Published(lines, c) : e.at < ProfileOf[c].expires
=============================================================================
