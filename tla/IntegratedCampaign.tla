------------------------- MODULE IntegratedCampaign -------------------------
(***************************************************************************)
(* openbrec/integrated.py: the campaign loads its scenario, runs the gates *)
(* of its components one after the other, each reading a file of its own   *)
(* or one it shares, and projects their summaries into one verdict.  The   *)
(* files may be edited before it and between two gates; of a file the      *)
(* model keeps what each of its gates makes of it.                         *)
(***************************************************************************)
EXTENDS Integers, Sequences, FiniteSets, SequencesExt

CONSTANTS
  Gates,    \* the sequence of the component gates
  FileOf,   \* [gate -> file it reads]
  Read,     \* gates whose summary the projection reads field by field
  DomainOf, \* [some of Read -> the domain whose degradation it states]
  MaxEdits  \* bound

Files == {FileOf[g] : g \in ToSet(Gates)}

Of(f) == {g \in ToSet(Gates) : FileOf[g] = f}

\* What a gate makes of its file: the summary it hashes, which is the one that
\* was first frozen, another, or none when it cannot load the file; whether it
\* returns errors; and whether the summary shows its domain degraded.  Errors
\* are no function of the summary: the file also states the hash expected of it.
Answers(g) ==
  {a \in [summary : {"first", "other", "none"}, errors : BOOLEAN, degraded : BOOLEAN] :
     /\ a.summary = "first" => (a.degraded <=> g \in DOMAIN DomainOf)
     /\ a.summary = "none" => a.errors /\ ~a.degraded
     /\ a.degraded => g \in DOMAIN DomainOf}

\* What the gates of one file can make of it.
Readings(f) == {as \in [Of(f) -> UNION {Answers(g) : g \in Of(f)}] : \A g \in Of(f) : as[g] \in Answers(g)}

First(g) == [summary |-> "first", errors |-> FALSE, degraded |-> g \in DOMAIN DomainOf]

VARIABLES
  answer,  \* [gate -> what it makes of its file as the file stands]
  edited,  \* the files that are not as they were frozen
  touched, \* history: the files somebody wrote since the campaign was loaded
  edits,   \* writes so far, bounded by MaxEdits
  expected,\* expected_result_sha256: "TBD" or "hash", that of the first summaries
  results, \* the answers _component_runs has so far, in the order of Gates
  verdict  \* "none", "running", "passed", "refused", "crashed"

vars == <<answer, edited, touched, edits, expected, results, verdict>>

Init ==
  /\ answer = [g \in ToSet(Gates) |-> First(g)]
  /\ edited = {} /\ touched = {}
  /\ edits = 0
  /\ expected \in {"TBD", "hash"}
  /\ results = <<>>
  /\ verdict = "none"

Write(f) ==
  /\ edits < MaxEdits
  /\ edits' = edits + 1
  /\ touched' = touched \cup {f}
  /\ UNCHANGED <<expected, results, verdict>>

\* A summary does not cover all of its file, so a gate may go on answering what
\* it did: the malicious transports hash only their hostile cases.
Edit(f) ==
  /\ Write(f)
  /\ \E as \in Readings(f) :
       answer' = [g \in ToSet(Gates) |-> IF g \in Of(f) THEN as[g] ELSE answer[g]]
  /\ edited' = edited \cup {f}

Restore(f) ==
  /\ Write(f)
  /\ answer' = [g \in ToSet(Gates) |-> IF g \in Of(f) THEN First(g) ELSE answer[g]]
  /\ edited' = edited \ {f}

Load ==
  /\ verdict # "running"
  /\ verdict' = "running"
  /\ results' = <<>> /\ touched' = {}
  /\ UNCHANGED <<answer, edited, edits, expected>>

RunComponent ==
  /\ verdict = "running"
  /\ Len(results) < Len(Gates)
  /\ results' = Append(results, answer[Gates[Len(results) + 1]])
  /\ UNCHANGED <<answer, edited, touched, edits, expected, verdict>>

-----------------------------------------------------------------------------
(* _project, over the results it is given. *)

Failures(rs) == {Gates[i] : i \in {j \in DOMAIN rs : rs[j].errors}}

\* A gate that could not load its file returns no field at all.
Unreadable(rs) == {i \in DOMAIN rs : rs[i].summary = "none" /\ Gates[i] \in Read}

Degraded(rs) == {DomainOf[Gates[i]] : i \in {j \in DOMAIN rs : rs[j].degraded}}

Domains == {DomainOf[g] : g \in DOMAIN DomainOf}

\* degraded_domains_visible counts them when all are, and none of them otherwise.
Visible(rs) == IF Degraded(rs) = Domains THEN Degraded(rs) ELSE {}

\* Seeded fault: the projection keeps the fields, not the hash of each summary.
FrozenByFields(rs) == \A i \in DOMAIN rs : Gates[i] \in Read => rs[i].summary = "first"

\* The hash of the projection: it holds the result hash of every component.
Frozen(rs) == \A i \in DOMAIN rs : rs[i].summary = "first"

\* run_integrated_gate
Errors(rs) ==
  \/ Failures(rs) # {}
  \/ Degraded(rs) # Visible(rs)
  \/ expected # "TBD" /\ ~Frozen(rs)

\* KeyError is not among the exceptions the gate turns into an error.
Project ==
  /\ verdict = "running"
  /\ Len(results) = Len(Gates)
  /\ verdict' = IF Unreadable(results) # {} THEN "crashed"
                ELSE IF Errors(results) THEN "refused" ELSE "passed"
  /\ UNCHANGED <<answer, edited, touched, edits, expected, results>>

Next ==
  \/ \E f \in Files : Edit(f) \/ Restore(f)
  \/ Load
  \/ RunComponent
  \/ Project

Spec == Init /\ [][Next]_vars

-----------------------------------------------------------------------------
(* A campaign that passed vouches for every file that nobody wrote since   *)
(* it was loaded, whatever was edited before and between its gates: each   *)
(* gate of that file, run over the file as it stands, has no errors and,   *)
(* when the hash is frozen, gives the summary that was frozen.             *)
PassStands ==
  verdict = "passed" =>
    \A i \in DOMAIN Gates : FileOf[Gates[i]] \notin touched =>
      /\ ~answer[Gates[i]].errors
      /\ expected # "TBD" => answer[Gates[i]].summary = "first"

(* A campaign that passes hides no failure and no degradation: every gate  *)
(* could load its file and passed, and the domains are shown degraded      *)
(* together or not at all.                                                 *)
PassHidesNothing ==
  verdict = "passed" =>
    /\ \A r \in ToSet(results) : ~r.errors /\ r.summary # "none"
    /\ Degraded(results) \in {{}, Domains}

(* A campaign that passes against its frozen hash while nobody writes ran  *)
(* on the files that were frozen.  The code does not promise it: the hash  *)
(* is over what the summaries hold, and an edit may leave them as they     *)
(* were.                                                                   *)
PassRanOnFrozen ==
  verdict = "passed" /\ expected # "TBD" /\ touched = {} => edited = {}

(* A campaign of which every gate can be projected and passed against its  *)
(* own file passes: one degraded domain alone is not a failure.            *)
DegradationIsNoFailure ==
  verdict = "refused" => expected # "TBD" \/ Failures(results) # {}

(* A campaign that fails names what failed.                                *)
NeverCrashes == verdict # "crashed"
=============================================================================
