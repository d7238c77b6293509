-------------------------- MODULE VerificationGates --------------------------
(***************************************************************************)
(* openbrec/verify/cli.py: `all' and `p0-all' run each gate of their list  *)
(* as a process of its own, judge the receipt it leaves, and publish the   *)
(* receipts with a manifest in the evidence directory, which is part of    *)
(* the repository.  The gates of the runtime start and stop a compose      *)
(* stack with secrets in a temporary directory.                            *)
(*                                                                         *)
(* Both commands may run at once, on one checkout and one docker; somebody *)
(* edits and commits meanwhile; either may be killed at any point.  What a *)
(* gate computes is left open: it passes, reports errors or raises.        *)
(***************************************************************************)
EXTENDS Integers, Sequences, FiniteSets

CONSTANTS
  Runner,    \* the commands that run: `all', `p0-all'
  Plan,      \* Plan[r]: the gates of the command, in order
  MaxRuns,   \* bound: campaigns begun
  MaxEdits   \* bound: edits and commits by others

VARIABLES
  repo,     \* [sha, dirty]: what _repository_state sees
  task,     \* task[r]: the campaign the command is in
  stack,    \* the compose stack or a volume of it is there
  secrets,  \* the commands whose newest secret directory is there
  target,   \* target[r]: the receipts of the evidence directory, by gate
  manifest, \* target's manifest
  torn,     \* the evidence directories whose last publication was cut short
  killed,   \* the commands that were killed once
  failed,   \* gates that have ended with another exit code than 0
  runs, edits

vars == <<repo, task, stack, secrets, target, manifest, torn, killed, failed, runs, edits>>

-----------------------------------------------------------------------------
(* main's dispatch, in groups: the branches that let OSError and ValueError *)
(* end the process, and those that turn them into an error of the receipt. *)
ContractGates ==
  [bare |-> {"bundle-structure", "schema", "fixtures", "addon-contracts", "addon-fixtures",
             "schema-compat", "contracts-gen"},
   guarded |-> {}]

\* The gates of one compose stack.
RuntimeGates == {"compose-build", "offline-startup", "postgres-disposition"}

ReplayGates ==
  [bare |-> {"adapter-replay", "core-replay", "determinism"}, guarded |-> {"energy-replay"}]

RadioGates ==
  [bare |-> {"human-message-security", "sos-state-replay", "transport-policy"},
   guarded |-> {"transport-comparison", "malicious-transport", "federation-scale",
                "federation-reconciliation"}]

SensingGates ==
  [bare |-> {"terminal-ux", "accessibility", "beacon-replay", "beacon-adversarial",
             "retention-fault", "rf-sensing-csi", "rf-sensing-passive", "rf-sensing-multimodal",
             "rf-sensing-offline-finding", "rf-sensing-autojoin", "ruview-model-format",
             "interop-cot"},
   guarded |-> {"p0-integrated"}]

GovernanceGates ==
  [bare |-> {},
   guarded |-> {"p0-traceability", "p0-support-status", "p0-residuals", "p1a-readiness",
                "p1a-assets", "p1a-assets-intake"}]

\* Of neither list: run by hand, of the documents.
OpenSpecGates ==
  [bare |-> {},
   guarded |-> {"open-spec", "open-spec-energy", "open-spec-transports", "open-spec-messaging"}]

OpenSpecEvidenceGates ==
  [bare |-> {},
   guarded |-> {"open-spec-beacons", "open-spec-federation", "open-spec-builds", "open-spec-exit"}]

PrivacyGates ==
  [bare |-> {"review-quarantine", "life-safety-preservation", "privacy", "security"},
   guarded |-> {"simulator"}]

SupplyGates ==
  [bare |-> {"ui-smoke", "secret-scan", "sbom", "licenses", "vulnerability-scan", "key-lifecycle"},
   guarded |-> {}]

Dispatch ==
  {ContractGates, [bare |-> RuntimeGates, guarded |-> {}], ReplayGates, RadioGates, SensingGates,
   GovernanceGates, OpenSpecGates, OpenSpecEvidenceGates, PrivacyGates, SupplyGates}

GuardedGates == UNION {group.guarded : group \in Dispatch}

AllGates == GuardedGates \cup UNION {group.bare : group \in Dispatch}

ASSUME GateConstants ==
  /\ MaxRuns \in Nat /\ MaxEdits \in Nat
  /\ \A r \in Runner :
       /\ Plan[r] \in Seq(AllGates) /\ Plan[r] # <<>>
       /\ \A i, j \in 1..Len(Plan[r]) : Plan[r][i] = Plan[r][j] => i = j

-----------------------------------------------------------------------------
NoManifest == [campaign |-> 0, sha |-> 0, passed |-> {}]

Idle == [pc |-> "idle"]

Init ==
  /\ repo = [sha |-> 1, dirty |-> FALSE]
  /\ task = [r \in Runner |-> Idle]
  /\ stack = FALSE /\ secrets = {} /\ killed = {} /\ failed = {} /\ torn = {}
  /\ target = [r \in Runner |-> [g \in {} |-> 0]]
  /\ manifest = [r \in Runner |-> NoManifest]
  /\ runs = 0 /\ edits = 0

Evidence == <<target, manifest, torn>>
Docker == <<stack, secrets>>
World == <<repo, runs, edits>>

\* The commit of the campaign is read once, before its first gate.
Start(r) ==
  /\ task[r] = Idle /\ runs < MaxRuns
  /\ runs' = runs + 1
  /\ task' = [task EXCEPT ![r] =
                [pc |-> "gate", campaign |-> runs + 1, sha |-> repo.sha, i |-> 1,
                 errors |-> FALSE, receipts |-> [g \in {} |-> 0], passed |-> {}]]
  /\ UNCHANGED <<repo, edits, killed, failed>> /\ UNCHANGED Evidence /\ UNCHANGED Docker

Gate(r) == Plan[r][task[r].i]

Goto(r, pc, errors) ==
  task' = [task EXCEPT ![r].pc = pc, ![r].errors = @ \/ errors]

\* A gate of one piece.  Its errors are lines of the receipt; an exception its
\* branch does not catch ends the process before the receipt is written.
Outcomes == {"passed", "errors", "ValueError", "KeyError"}

Caught(g, outcome) ==
  outcome \in {"passed", "errors"} \/ (outcome = "ValueError" /\ g \in GuardedGates)

Work(r, outcome) ==
  /\ task[r].pc = "gate" /\ Gate(r) \notin RuntimeGates
  /\ Goto(r, IF Caught(Gate(r), outcome) THEN "receipt" ELSE "judge", outcome # "passed")
  /\ UNCHANGED <<killed, failed>> /\ UNCHANGED World /\ UNCHANGED Evidence /\ UNCHANGED Docker

(* The gates of the runtime.  compose-build pulls and builds; the other    *)
(* two start services, run a container against them and stop them.         *)
NoDocker(r) ==
  /\ task[r].pc = "gate" /\ Gate(r) \in RuntimeGates
  /\ Goto(r, "receipt", TRUE)
  /\ UNCHANGED <<killed, failed>> /\ UNCHANGED World /\ UNCHANGED Evidence /\ UNCHANGED Docker

Prepare(r) ==
  /\ task[r].pc = "gate" /\ Gate(r) \in RuntimeGates
  /\ secrets' = secrets \cup {r}
  /\ Goto(r, IF Gate(r) = "compose-build" THEN "build" ELSE "up", FALSE)
  /\ UNCHANGED <<stack, killed, failed>> /\ UNCHANGED World /\ UNCHANGED Evidence

Build(r, ok) ==
  /\ task[r].pc = "build"
  /\ secrets' = secrets \ {r}
  /\ Goto(r, "receipt", ~ok)
  /\ UNCHANGED <<stack, killed, failed>> /\ UNCHANGED World /\ UNCHANGED Evidence

\* Seeded fault: nothing is stopped when the start fails.
AfterUpWithoutFinally(ok) == IF ok THEN "smoke" ELSE "receipt"

\* `finally' follows the early return too.
AfterUp(ok) == IF ok THEN "smoke" ELSE "down"

Up(r, ok) ==
  /\ task[r].pc = "up"
  /\ stack' = TRUE \* a failed start may leave containers and volumes
  /\ Goto(r, AfterUp(ok), ~ok)
  /\ UNCHANGED <<secrets, killed, failed>> /\ UNCHANGED World /\ UNCHANGED Evidence

Smoke(r, ok) ==
  /\ task[r].pc = "smoke"
  /\ Goto(r, "down", ~ok)
  /\ UNCHANGED <<killed, failed>> /\ UNCHANGED World /\ UNCHANGED Evidence /\ UNCHANGED Docker

Down(r, ok) ==
  /\ task[r].pc = "down"
  /\ stack' = (stack /\ ~ok) /\ secrets' = secrets \ {r}
  /\ Goto(r, "receipt", ~ok)
  /\ UNCHANGED <<killed, failed>> /\ UNCHANGED World /\ UNCHANGED Evidence

-----------------------------------------------------------------------------
\* The receipt describes the checkout at the moment it is written.
Receipt(r) ==
  [campaign |-> task[r].campaign, sha |-> repo.sha, dirty |-> repo.dirty, errors |-> task[r].errors]

\* The receipts with one more, or with a newer one.
With(receipts, g, receipt) ==
  [h \in DOMAIN receipts \cup {g} |-> IF h = g THEN receipt ELSE receipts[h]]

WriteReceipt(r) ==
  /\ task[r].pc = "receipt"
  /\ task' = [task EXCEPT ![r].pc = "judge", ![r].receipts = With(@, Gate(r), Receipt(r))]
  /\ UNCHANGED <<killed, failed>> /\ UNCHANGED World /\ UNCHANGED Evidence /\ UNCHANGED Docker

\* Seeded fault: a dirty checkout is let through.
IntegrityOfSha(r) ==
  LET t == task[r] IN Gate(r) \in DOMAIN t.receipts /\ t.receipts[Gate(r)].sha = t.sha

\* validate_receipt with require_clean: there, of the campaign's commit, and clean.
Integrity(r) ==
  LET t == task[r] IN
  /\ Gate(r) \in DOMAIN t.receipts
  /\ t.receipts[Gate(r)].sha = t.sha /\ ~t.receipts[Gate(r)].dirty

GatePasses(r) == Integrity(r) /\ ~task[r].errors

Judge(r) ==
  /\ task[r].pc = "judge"
  /\ failed' = IF task[r].errors THEN failed \cup {Gate(r)} ELSE failed
  /\ task' = [task EXCEPT
                ![r].passed = IF GatePasses(r) THEN @ \cup {Gate(r)} ELSE @,
                ![r].errors = FALSE, ![r].i = @ + 1,
                ![r].pc = IF task[r].i = Len(Plan[r]) THEN "publish" ELSE "gate"]
  /\ UNCHANGED killed /\ UNCHANGED World /\ UNCHANGED Evidence /\ UNCHANGED Docker

(* copytree over what is there: file by file, in the order of the          *)
(* directory, and nothing is removed first.  The checkout is dirty after.  *)
CopyReceipt(r) ==
  /\ task[r].pc = "publish"
  /\ \E g \in DOMAIN task[r].receipts :
       /\ target' = [target EXCEPT ![r] = With(@, g, task[r].receipts[g])]
       /\ task' = [task EXCEPT ![r].receipts = [h \in DOMAIN @ \ {g} |-> @[h]]]
  /\ torn' = torn \cup {r} /\ repo' = [repo EXCEPT !.dirty = TRUE]
  /\ UNCHANGED <<manifest, killed, failed, runs, edits>> /\ UNCHANGED Docker

CopyManifest(r) ==
  LET t == task[r]
      m == [campaign |-> t.campaign, sha |-> t.sha, passed |-> t.passed]
  IN
  /\ t.pc = "publish" /\ manifest[r] # m
  /\ manifest' = [manifest EXCEPT ![r] = m]
  /\ torn' = torn \cup {r} /\ repo' = [repo EXCEPT !.dirty = TRUE]
  /\ UNCHANGED <<target, task, killed, failed, runs, edits>> /\ UNCHANGED Docker

Published(r) ==
  /\ task[r].pc = "publish" /\ DOMAIN task[r].receipts = {}
  /\ manifest[r].campaign = task[r].campaign
  /\ task' = [task EXCEPT ![r] = Idle] /\ torn' = torn \ {r}
  /\ UNCHANGED <<target, manifest, killed, failed>> /\ UNCHANGED World /\ UNCHANGED Docker

\* SIGKILL or a power cut: no `finally', and the temporary directory is lost.
Kill(r) ==
  /\ task[r] # Idle
  /\ task' = [task EXCEPT ![r] = Idle] /\ killed' = killed \cup {r}
  /\ UNCHANGED failed /\ UNCHANGED World /\ UNCHANGED Evidence /\ UNCHANGED Docker

\* Somebody edits the checkout, takes the edit back, or commits.
Edit ==
  /\ edits < MaxEdits /\ edits' = edits + 1
  /\ \/ repo' = [repo EXCEPT !.dirty = ~@]
     \/ repo.dirty /\ repo' = [sha |-> repo.sha + 1, dirty |-> FALSE]
  /\ UNCHANGED <<task, killed, failed, runs>> /\ UNCHANGED Evidence /\ UNCHANGED Docker

Next ==
  \/ \E r \in Runner :
       \/ Start(r) \/ NoDocker(r) \/ Prepare(r) \/ WriteReceipt(r) \/ Judge(r)
       \/ \E outcome \in Outcomes : Work(r, outcome)
       \/ \E ok \in BOOLEAN : Build(r, ok) \/ Up(r, ok) \/ Smoke(r, ok) \/ Down(r, ok)
       \/ CopyReceipt(r) \/ CopyManifest(r) \/ Published(r) \/ Kill(r)
  \/ Edit

Spec == Init /\ [][Next]_vars

-----------------------------------------------------------------------------
Named(r) == {Plan[r][i] : i \in 1..Len(Plan[r])}

(* A gate the manifest counts as passed has its receipt beside it: of this *)
(* campaign and commit, from a clean checkout and without errors.  What an *)
(* earlier campaign left in the directory stands only beside a gate that   *)
(* did not pass.  A publication that was cut short promises nothing.       *)
ManifestIsBacked ==
  \A r \in Runner \ torn : \A g \in manifest[r].passed :
    /\ g \in DOMAIN target[r]
    /\ target[r][g] = [campaign |-> manifest[r].campaign, sha |-> manifest[r].sha,
                       dirty |-> FALSE, errors |-> FALSE]

Composing == {r \in Runner : task[r].pc \in {"build", "up", "smoke", "down"}}

(* Nothing of a compose gate outlives it in silence: secrets remain only   *)
(* of a command that was killed, and the stack only then or when a gate of *)
(* the runtime has failed or is about to say so.                           *)
NothingIsLeftBehind ==
  /\ secrets \subseteq Composing \cup killed
  /\ stack => \/ Composing \cup killed # {}
              \/ failed \cap RuntimeGates # {}
              \/ \E r \in Runner : task[r].pc \in {"receipt", "judge"} /\ task[r].errors
=============================================================================
