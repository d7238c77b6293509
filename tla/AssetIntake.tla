---------------------------- MODULE AssetIntake ----------------------------
(***************************************************************************)
(* openbrec/p1a_assets.py: the two judgements passed on the same evidence  *)
(* of physical assets.  run_asset_intake reads whatever has been filed so  *)
(* far and pairs an authorization with a manifest by their category;       *)
(* run_asset_gate accepts all categories or none, and pairs them by the    *)
(* authorization id the manifest's custody names.                          *)
(*                                                                         *)
(* People file, correct and withdraw authorizations and manifests in any   *)
(* order between two judgements, which read the files and change nothing.  *)
(* The request and the schemas are readable and right.                     *)
(***************************************************************************)
EXTENDS Integers, Sequences, FiniteSets, SequencesExt, FiniteSetsExt

CONSTANTS
  Category,       \* the governed categories (nine of them in the code)
  Firmware,       \* those whose assets run firmware
  Authorization,  \* records that may be filed:
                  \*   [id, category, candidate, asset, method, custodian, evidence, receipt, at, valid]
  Manifest,       \* manifests that may be filed: [category, candidate, asset, method, custodian,
                  \*   link, receipt, serial, inspection, inspectedAt, valid, review, sourcesLate]
  MaxRecords,     \* bound: records in the register
  MaxFiles        \* bound: manifest files, in the order of their names

Absent == [category |-> "none"]

VARIABLES
  register, \* the authorization records, in the order of the file
  files     \* what each manifest file holds

vars == <<register, files>>

Init == register = <<>> /\ files = [f \in 1..MaxFiles |-> Absent]

Authorize(a) ==
  /\ Len(register) < MaxRecords
  /\ register' = Append(register, a) /\ UNCHANGED files

Withdraw ==
  /\ register # <<>>
  /\ \E i \in DOMAIN register : register' = RemoveAt(register, i)
  /\ UNCHANGED files

File(f, m) == m # files[f] /\ files' = [files EXCEPT ![f] = m] /\ UNCHANGED register

Next ==
  \/ \E a \in Authorization : Authorize(a)
  \/ Withdraw
  \/ \E f \in 1..MaxFiles, m \in Manifest \cup {Absent} : File(f, m)

Spec == Init /\ [][Next]_vars

\* The manifests there are, by the position of their files.
Manifests(of) == [f \in {g \in DOMAIN of : of[g] # Absent} |-> of[f]]

-----------------------------------------------------------------------------
(* What both judgements look at. *)

\* The candidate a category is governed by; a category names its own.
CandidateOf(c) == c

\* _duplicate_record_groups: the values of a field that two records of governed
\* categories share.
Reused(records, field) ==
  {records[i][field] : i \in
     {k \in DOMAIN records : \E n \in DOMAIN records \ {k} :
        /\ {records[k].category, records[n].category} \subseteq Category
        /\ records[k][field] = records[n][field]}}

\* _firmware_review: a review blocks the use of firmware, never the asset.
ReviewFails(m) == m.category \in Firmware /\ (m.review = "missing" \/ m.sourcesLate)

\* _inspection_predates_authorization
InspectedEarly(a, m) == m.inspectedAt < a.at

Matches(a, m) ==
  /\ a.asset = m.asset /\ a.candidate = m.candidate
  /\ a.category = m.category /\ a.method = m.method /\ a.custodian = m.custodian

\* The checks of one manifest alone.
ManifestFails(m) == ~m.valid \/ ReviewFails(m) \/ m.candidate # CandidateOf(m.category)

-----------------------------------------------------------------------------
(* run_asset_intake *)

\* The record at the first of some positions.
At(records, of) == IF of = {} THEN Absent ELSE records[Min(of)]

InCategory(records, c) == {i \in DOMAIN records : records[i].category = c}

FirstOf(records, c) == At(records, InCategory(records, c))

Count(records, c) == Cardinality(InCategory(records, c))

\* One manifest for each category is kept, the first.
Kept(ms) ==
  [i \in {k \in DOMAIN ms : /\ ms[k].category \in Category
                            /\ \A j \in InCategory(ms, ms[k].category) : k <= j} |-> ms[i]]

RegisterFails(reg, c) ==
  \/ \E i \in DOMAIN reg : reg[i].category = c /\ (~reg[i].valid \/ reg[i].candidate # CandidateOf(c))
  \/ Count(reg, c) > 1
  \/ \E i \in DOMAIN reg :
       reg[i].category = c /\ (reg[i].id \in Reused(reg, "id") \/ reg[i].evidence \in Reused(reg, "evidence"))

\* Seeded fault: serial numbers are not compared.
FilesFailButSerials(ms, c) ==
  \/ \E i \in DOMAIN ms : ms[i].category = c /\ ManifestFails(ms[i])
  \/ Count(ms, c) > 1
  \/ \E i \in DOMAIN Kept(ms) : LET m == Kept(ms)[i] IN
       /\ m.category = c
       /\ \/ m.asset \in Reused(Kept(ms), "asset") \/ m.receipt \in Reused(Kept(ms), "receipt")
          \/ m.inspection \in Reused(Kept(ms), "inspection")

FilesFail(ms, c) ==
  \/ \E i \in DOMAIN ms : ms[i].category = c /\ ManifestFails(ms[i])
  \/ Count(ms, c) > 1
  \/ \E i \in DOMAIN Kept(ms) : LET m == Kept(ms)[i] IN
       /\ m.category = c
       /\ \/ m.asset \in Reused(Kept(ms), "asset") \/ m.serial \in Reused(Kept(ms), "serial")
          \/ m.receipt \in Reused(Kept(ms), "receipt")
          \/ m.inspection \in Reused(Kept(ms), "inspection")

PairFails(a, m) == ~Matches(a, m) \/ a.receipt # m.receipt \/ InspectedEarly(a, m)

\* The row of a category in the checklist.
Status(reg, ms, c) ==
  LET a == FirstOf(reg, c)
      m == FirstOf(ms, c)
  IN CASE RegisterFails(reg, c) \/ FilesFail(ms, c)
            \/ (a # Absent /\ m # Absent /\ PairFails(a, m)) -> "invalid_submission"
       [] ~RegisterFails(reg, c) /\ ~FilesFail(ms, c) /\ (a = Absent \/ m = Absent) ->
            "awaiting_external_evidence"
       [] OTHER -> "validated_for_acceptance_gate"

\* Errors that belong to no category: records and manifests of none.
Ungoverned(reg, ms) ==
  \/ \E i \in DOMAIN reg : reg[i].category \notin Category
  \/ \E i \in DOMAIN ms : ms[i].category \notin Category

\* The command passes, and its status is ready_for_acceptance_gate.
Ready(reg, ms) ==
  /\ ~Ungoverned(reg, ms)
  /\ \A c \in Category : Status(reg, ms, c) = "validated_for_acceptance_gate"

-----------------------------------------------------------------------------
(* run_asset_gate *)

\* The record a manifest's custody names, the first of its id.
Linked(reg, m) == At(reg, {i \in DOMAIN reg : reg[i].id = m.link})

RegisterAccepted(reg) ==
  /\ Len(reg) = Cardinality(Category)
  /\ \A i \in DOMAIN reg : reg[i].valid /\ reg[i].category \in Category
  /\ \A i, j \in DOMAIN reg : i # j => reg[i].id # reg[j].id
  /\ Reused(reg, "evidence") = {}

FilesAccepted(ms) ==
  /\ Cardinality(DOMAIN ms) = Cardinality(Category)
  /\ {ms[i].category : i \in DOMAIN ms} = Category
  /\ \A i \in DOMAIN ms : ~ManifestFails(ms[i])
  /\ Reused(ms, "asset") = {} /\ Reused(ms, "serial") = {}
  /\ Reused(ms, "receipt") = {} /\ Reused(ms, "inspection") = {}

\* accepted_assets is not zero.
Accepted(reg, ms) ==
  /\ RegisterAccepted(reg) /\ FilesAccepted(ms)
  /\ \A i \in DOMAIN ms :
       LET a == Linked(reg, ms[i]) IN a # Absent /\ ~PairFails(a, ms[i])

-----------------------------------------------------------------------------
(* What the gate accepts, the intake had validated category by category,   *)
(* though each pairs the records in its own way: nobody is told to correct *)
(* evidence that is then accepted.                                         *)
AcceptedIsReady == Accepted(register, Manifests(files)) => Ready(register, Manifests(files))

Relinked(reg, ms) ==
  [i \in DOMAIN ms |-> [ms[i] EXCEPT !.link = FirstOf(reg, ms[i].category).id]]

(* Evidence the intake calls validated for the gate may be refused there,  *)
(* but for one reason: the authorization id a custody names, which the     *)
(* intake never reads.  With the ids put right the gate accepts it.        *)
ReadyLacksOnlyLinks ==
  Ready(register, Manifests(files)) =>
    Accepted(register, Relinked(register, Manifests(files)))

(* Accepted evidence pairs each authorization with one manifest of its     *)
(* category, inspected after it was authorized, and no document of a kind  *)
(* serves two assets.                                                      *)
AcceptedPairsOff ==
  LET ms == Manifests(files) IN
  Accepted(register, ms) =>
    /\ \A i \in DOMAIN register : Cardinality({j \in DOMAIN ms : ms[j].link = register[i].id}) = 1
    /\ \A i \in DOMAIN register, j \in DOMAIN ms : ms[j].link = register[i].id =>
         register[i].category = ms[j].category /\ register[i].at <= ms[j].inspectedAt
    /\ \A i, j \in DOMAIN ms : i # j =>
         /\ ms[i].category # ms[j].category /\ ms[i].asset # ms[j].asset
         /\ ms[i].serial # ms[j].serial /\ ms[i].receipt # ms[j].receipt

(* A file touches the row of another category only through a value the two *)
(* share: evidence of one kind that serves twice fails both categories,    *)
(* and nothing else anybody files for one fails the other.                 *)
OthersKeepTheirRow ==
  [][\A f \in 1..MaxFiles, c \in Category :
       (/\ files'[f] # files[f] /\ c \notin {files[f].category, files'[f].category}
        /\ Status(register, Manifests(files'), c) # Status(register, Manifests(files), c))
       => LET m == FirstOf(Manifests(files), c) IN
          \E n \in {files[f], files'[f]} \cup ToSet(Manifests(files)) :
            /\ n # Absent /\ n.category \in Category \ {c}
            /\ \/ n.asset = m.asset \/ n.serial = m.serial
               \/ n.receipt = m.receipt \/ n.inspection = m.inspection]_vars
=============================================================================
