----------------------------- MODULE Governance -----------------------------
(***************************************************************************)
(* The gates that read documents: openbrec/p0_exit.py (support and         *)
(* shortlist), openbrec/p1a_readiness.py, openbrec/open_spec.py and        *)
(* openbrec/open_spec_exit.py.  Several read the same document, or state   *)
(* the same fact from documents of their own, which people edit one at a   *)
(* time: the physical lane P1a starts, its progress is restated here and   *)
(* there, residuals are opened and retired, candidates are shortlisted.    *)
(*                                                                         *)
(* The fields a validator only compares with a literal are its boundaries: *)
(* a document keeps them all or not.                                       *)
(***************************************************************************)
EXTENDS Integers, Sequences, FiniteSets, SequencesExt

CONSTANTS
  PhysicalTask, \* P1a-01 to P1a-08
  SpecTask,     \* OS-01 to OS-08
  Residual,     \* ids of the exit register
  Functionality,\* rows of the decision matrix
  Category,     \* the nine categories
  Name,         \* what the shortlist may name: the categories, and more
  MinResiduals, \* 12
  MinCategories,\* 8: what p0-support-status asks of the shortlist
  MaxEdits      \* bound: edits of documents

\* The documents that state how many physical tasks are accepted.
Stating == {"readiness policy", "p1a plan", "governance", "open-spec plan"}

Documents == Stating \cup {"kit", "submission schema", "fixtures", "publication", "shortlist", "matrix"}

VARIABLES
  accepted,  \* the physical tasks accepted
  stated,    \* [Stating -> what the document says of them]
  spec,      \* the Open Spec tasks the governance policy has as accepted
  registered,\* the residuals of the exit register
  refs,      \* [Functionality -> the residuals it refers to]
  shortlist, \* sequence of [category, verified]
  breached,  \* documents that do not keep their boundaries
  edits      \* bounded by MaxEdits

vars == <<accepted, stated, spec, registered, refs, shortlist, breached, edits>>

Init ==
  /\ accepted = {} /\ stated = [d \in Stating |-> 0]
  /\ spec = SpecTask
  /\ registered = Residual /\ refs = [f \in Functionality |-> Residual]
  /\ shortlist = [i \in 1 .. Cardinality(Category) |->
                    [category |-> SetToSeq(Category)[i], verified |-> FALSE]]
  /\ breached = {}
  /\ edits = 0

Lane == <<accepted, stated>>
Register == <<registered, refs>>

Edit == edits < MaxEdits /\ edits' = edits + 1

AcceptPhysical(t) ==
  /\ Edit
  /\ accepted' = accepted \cup {t}
  /\ UNCHANGED <<stated, spec, shortlist, breached>> /\ UNCHANGED Register

Restate(d) ==
  /\ Edit
  /\ stated' = [stated EXCEPT ![d] = Cardinality(accepted)]
  /\ UNCHANGED <<accepted, spec, shortlist, breached>> /\ UNCHANGED Register

\* A task is accepted, or taken back to review.
Turn(t) ==
  /\ Edit
  /\ spec' = (spec \ {t}) \cup ({t} \ spec)
  /\ UNCHANGED <<shortlist, breached>> /\ UNCHANGED Register /\ UNCHANGED Lane

Govern(r) ==
  /\ Edit
  /\ registered' = (registered \ {r}) \cup ({r} \ registered)
  /\ UNCHANGED <<refs, spec, shortlist, breached>> /\ UNCHANGED Lane

Refer(f, rs) ==
  /\ Edit
  /\ refs' = [refs EXCEPT ![f] = rs]
  /\ UNCHANGED <<registered, spec, shortlist, breached>> /\ UNCHANGED Lane

Shortlist(i, c, v) ==
  /\ Edit
  /\ shortlist' = [shortlist EXCEPT ![i] = [category |-> c, verified |-> v]]
  /\ UNCHANGED <<spec, breached>> /\ UNCHANGED Register /\ UNCHANGED Lane

Strike(i) ==
  /\ Edit
  /\ shortlist' = RemoveAt(shortlist, i)
  /\ UNCHANGED <<spec, breached>> /\ UNCHANGED Register /\ UNCHANGED Lane

Rewrite(d) ==
  /\ Edit
  /\ breached' = (breached \ {d}) \cup ({d} \ breached)
  /\ UNCHANGED <<spec, shortlist>> /\ UNCHANGED Register /\ UNCHANGED Lane

Next ==
  \/ \E t \in PhysicalTask : AcceptPhysical(t)
  \/ \E d \in Stating : Restate(d)
  \/ \E t \in SpecTask : Turn(t)
  \/ \E r \in Residual : Govern(r)
  \/ \E f \in Functionality, rs \in SUBSET Residual : Refer(f, rs)
  \/ \E i \in DOMAIN shortlist :
       \/ \E c \in Name, v \in BOOLEAN : Shortlist(i, c, v)
       \/ Strike(i)
  \/ \E d \in Documents : Rewrite(d)

Spec == Init /\ [][Next]_vars

-----------------------------------------------------------------------------
Listed == {shortlist[i].category : i \in DOMAIN shortlist}

Keeps(docs) == breached \cap docs = {}

\* p0_exit.validate_support, of the shortlist: every name once, whatever it is.
SupportShortlist ==
  /\ Len(shortlist) >= MinCategories
  /\ Cardinality(Listed) = Len(shortlist)
  /\ \A i \in DOMAIN shortlist : ~shortlist[i].verified

Support == Keeps({"shortlist"}) /\ SupportShortlist

\* p1a_readiness.validate_shortlist: nine, and no look at their names.
ReadinessShortlist ==
  /\ Len(shortlist) = Cardinality(Category)
  /\ \A i \in DOMAIN shortlist : ~shortlist[i].verified

\* validate_policy: 0 / 8, and every task not started.
ReadinessPolicy == Keeps({"readiness policy"}) /\ stated["readiness policy"] = 0

\* run_readiness_gate: the plan says "0 / 8" and "P1a-01 no iniciada".
Readiness ==
  /\ ReadinessPolicy /\ ReadinessShortlist /\ Keeps({"p1a plan", "shortlist"})
  /\ stated["p1a plan"] = 0

\* open_spec._validate_policy
OpenSpecPolicy == Keeps({"governance"}) /\ spec = SpecTask /\ stated["governance"] = 0

\* run_open_spec_gate: the plan says "P1a-01 no fue iniciada".
OpenSpec == OpenSpecPolicy /\ Keeps({"open-spec plan"}) /\ stated["open-spec plan"] = 0

\* open_spec_exit._validate_policy
ExitPolicy == Keeps({"governance"}) /\ spec = SpecTask /\ stated["governance"] = 0

Kit == Keeps({"kit"})

\* _validate_fixtures: every submission conforms to the schema.
Fixtures == Keeps({"submission schema", "fixtures"})

Matrix == Keeps({"matrix"}) /\ \A f \in Functionality : refs[f] # {}

Publication == Keeps({"publication"})

\* open_spec_exit._validate_residuals, with the references of the matrix.
Residuals ==
  /\ Cardinality(registered) >= MinResiduals
  /\ \A f \in Functionality : refs[f] \subseteq registered

\* run_open_spec_exit_gate
OpenSpecExit == ExitPolicy /\ Kit /\ Fixtures /\ Matrix /\ Publication /\ Residuals

-----------------------------------------------------------------------------
(* The shortlist that readiness and support pass names the categories that *)
(* are governed.  The code does not promise it: the one looks at the       *)
(* number of names, the other at no name twice, and neither at the names.  *)
ShortlistIsGoverned == Readiness /\ Support => Listed = Category

(* The physical lane is optional and blocks no Open Spec gate: with the    *)
(* Open Spec complete and its boundaries kept, the gates pass whatever was *)
(* accepted in the lane and restated since.                                *)
LaneNeverBlocks ==
  spec = SpecTask /\ breached = {} => OpenSpec /\ ExitPolicy
=============================================================================
