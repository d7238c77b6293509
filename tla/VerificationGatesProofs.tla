----------------------- MODULE VerificationGatesProofs -----------------------
(***************************************************************************)
(* Proofs about VerificationGates, for any commands, lists of gates, edits *)
(* and interruptions.                                                      *)
(***************************************************************************)
EXTENDS VerificationGates, TLAPS

-----------------------------------------------------------------------------
(* The inductive invariant, in parts. *)

Steps == {"gate", "build", "up", "smoke", "down", "receipt", "judge", "publish"}

\* A campaign under way has these fields.
Shaped(t) ==
  /\ t = [pc |-> t.pc, campaign |-> t.campaign, sha |-> t.sha, i |-> t.i, errors |-> t.errors,
          receipts |-> t.receipts, passed |-> t.passed]
  /\ t.pc \in Steps /\ t.campaign \in Nat /\ t.errors \in BOOLEAN

\* The gate it is at is one of its list; one that composes is one of the runtime.
AtGate(r) ==
  LET t == task[r] IN
  /\ t.pc # "publish" => t.i \in 1..Len(Plan[r])
  /\ t.pc \in {"build", "up", "smoke", "down"} => Gate(r) \in RuntimeGates

\* What passed came before the gate it is at.
PassedBefore(r) ==
  LET t == task[r] IN
  \A g \in t.passed : \E j \in 1..Len(Plan[r]) : Plan[r][j] = g /\ (t.pc # "publish" => j < t.i)

Good(t) == [campaign |-> t.campaign, sha |-> t.sha, dirty |-> FALSE, errors |-> FALSE]

\* Each receipt is of this campaign; the one being judged tells of the errors.
ReceiptsOK(r) ==
  LET t == task[r] IN
  /\ \A g \in DOMAIN t.receipts :
       t.receipts[g] = [campaign |-> t.campaign, sha |-> t.receipts[g].sha,
                        dirty |-> t.receipts[g].dirty, errors |-> t.receipts[g].errors]
  /\ \A g \in DOMAIN t.receipts :
       t.receipts[g].dirty \in BOOLEAN /\ t.receipts[g].errors \in BOOLEAN
  /\ t.pc = "judge" /\ ~t.errors /\ Gate(r) \in DOMAIN t.receipts => ~t.receipts[Gate(r)].errors

\* What passed has a good receipt, aside or already copied.
PassedBacked(r) ==
  LET t == task[r] IN
  \A g \in t.passed :
    \/ g \in DOMAIN t.receipts /\ t.receipts[g] = Good(t)
    \/ t.pc = "publish" /\ g \notin DOMAIN t.receipts /\ g \in DOMAIN target[r] /\ target[r][g] = Good(t)

\* The manifest is of an earlier campaign until this one copies its own.
ManifestOf(t) == [campaign |-> t.campaign, sha |-> t.sha, passed |-> t.passed]

ManifestOK(r) ==
  LET t == task[r] IN
  /\ t.campaign <= runs
  /\ manifest[r].campaign < t.campaign \/ (t.pc = "publish" /\ manifest[r] = ManifestOf(t))

CampaignOK(r) ==
  \/ task[r] = Idle
  \/ /\ Shaped(task[r]) /\ AtGate(r) /\ PassedBefore(r) /\ ReceiptsOK(r) /\ PassedBacked(r)
     /\ ManifestOK(r)

Backed(r) ==
  r \notin torn => \A g \in manifest[r].passed :
    /\ g \in DOMAIN target[r]
    /\ target[r][g] = [campaign |-> manifest[r].campaign, sha |-> manifest[r].sha,
                       dirty |-> FALSE, errors |-> FALSE]

\* Who started the stack still has to stop it, or to say that it could not.
StackAccounted ==
  stack => \/ killed # {}
           \/ failed \cap RuntimeGates # {}
           \/ \E r \in Runner : task[r].pc \in {"smoke", "down"}
           \/ \E r \in Runner : /\ task[r].pc \in {"receipt", "judge"} /\ task[r].errors
                                /\ Gate(r) \in RuntimeGates

Domains ==
  /\ DOMAIN task = Runner /\ DOMAIN target = Runner /\ DOMAIN manifest = Runner
  /\ runs \in Nat /\ repo.dirty \in BOOLEAN /\ repo = [sha |-> repo.sha, dirty |-> repo.dirty]
  /\ \A r \in Runner : manifest[r].campaign \in Nat /\ manifest[r].campaign <= runs

IInv ==
  /\ Domains
  /\ \A r \in Runner : CampaignOK(r) /\ Backed(r)
  /\ secrets \subseteq Composing \cup killed
  /\ StackAccounted

-----------------------------------------------------------------------------
(* Lemmas. *)

\* A gate of the list is one the dispatch knows.
LEMMA ListedGate ==
  ASSUME IInv, NEW r \in Runner, task[r] # Idle, task[r].pc # "publish"
  PROVE  /\ task[r].i \in 1..Len(Plan[r]) /\ Gate(r) = Plan[r][task[r].i]
         /\ Gate(r) \in AllGates
  BY GateConstants DEF IInv, CampaignOK, AtGate, Gate

\* The steps of one command leave the campaigns of the others as they are.
LEMMA OthersKept ==
  ASSUME IInv, NEW r \in Runner, NEW q \in Runner, q # r,
         task'[q] = task[q], target'[q] = target[q], manifest'[q] = manifest[q],
         q \in torn => q \in torn', runs' \in Nat, runs <= runs'
  PROVE  CampaignOK(q)' /\ Backed(q)'
<1>1. CampaignOK(q) /\ Backed(q) /\ runs \in Nat
  BY DEF IInv, Domains
<1>2. Backed(q)'
  BY <1>1 DEF Backed
<1>3. CASE task[q] = Idle
  BY <1>2, <1>3 DEF CampaignOK, Idle
<1>4. CASE task[q] # Idle
  <2>1. Shaped(task[q])' /\ AtGate(q)' /\ PassedBefore(q)' /\ ReceiptsOK(q)' /\ PassedBacked(q)'
    BY <1>1, <1>4 DEF CampaignOK, Shaped, AtGate, PassedBefore, ReceiptsOK, PassedBacked, Gate, Good
  <2>2. ManifestOK(q)'
    BY <1>1, <1>4 DEF CampaignOK, Shaped, ManifestOK, ManifestOf
  <2> QED BY <1>2, <2>1, <2>2 DEF CampaignOK
<1> QED BY <1>2, <1>3, <1>4

\* A step within a gate changes where the command is and whether there are errors.
LEMMA WithinGate ==
  ASSUME IInv, NEW r \in Runner, NEW pc \in Steps \ {"publish"}, NEW errors \in BOOLEAN,
         task[r].pc # "idle", task[r].pc # "publish", Goto(r, pc, errors),
         pc \in {"build", "up", "smoke", "down"} => Gate(r) \in RuntimeGates,
         pc = "judge" => errors,
         UNCHANGED Evidence, UNCHANGED World
  PROVE  /\ Domains'
         /\ \A q \in Runner : CampaignOK(q)' /\ Backed(q)'
         /\ \A q \in Runner \ {r} : task'[q] = task[q]
         /\ task'[r].pc = pc /\ task'[r].errors = (task[r].errors \/ errors)
         /\ Gate(r)' = Gate(r)
<1> DEFINE t == task[r]
<1>1. task[r] # Idle /\ CampaignOK(r) /\ Domains
  BY DEF Idle, IInv
<1>2. Shaped(t) /\ AtGate(r) /\ PassedBefore(r) /\ ReceiptsOK(r) /\ PassedBacked(r) /\ ManifestOK(r)
  BY <1>1 DEF CampaignOK
<1>3. /\ DOMAIN task' = Runner /\ \A q \in Runner \ {r} : task'[q] = task[q]
      /\ task'[r] = [pc |-> pc, campaign |-> t.campaign, sha |-> t.sha, i |-> t.i,
                     errors |-> t.errors \/ errors, receipts |-> t.receipts, passed |-> t.passed]
  BY <1>1, <1>2 DEF Goto, Shaped, Domains
<1>4. Domains'
  BY <1>1, <1>3 DEF Domains, Evidence, World
<1>5. \A q \in Runner \ {r} : CampaignOK(q)' /\ Backed(q)'
  <2>1. runs \in Nat /\ runs' = runs
    BY <1>1 DEF Domains, World
  <2> QED BY <1>3, <2>1, OthersKept DEF Evidence
<1>6. Gate(r)' = Gate(r)
  BY <1>3 DEF Gate
<1>7. Shaped(task[r])'
  BY <1>2, <1>3 DEF Shaped
<1>8. AtGate(r)' /\ PassedBefore(r)' /\ PassedBacked(r)'
  <2>1. AtGate(r)'
    BY <1>2, <1>3, <1>6 DEF AtGate
  <2>2. PassedBefore(r)'
    BY <1>2, <1>3 DEF PassedBefore
  <2>3. PassedBacked(r)'
    <3>1. \A g \in t.passed : g \in DOMAIN t.receipts /\ t.receipts[g] = Good(t)
      BY <1>2 DEF PassedBacked
    <3>2. /\ task'[r].passed = t.passed /\ task'[r].receipts = t.receipts
          /\ task'[r].campaign = t.campaign /\ task'[r].sha = t.sha
      BY <1>3
    <3>3. Good(t)' = Good(t)
      BY <3>2 DEF Good
    <3> QED BY <3>1, <3>2, <3>3 DEF PassedBacked
  <2> QED BY <2>1, <2>2, <2>3
<1>9. ReceiptsOK(r)' /\ ManifestOK(r)'
  BY <1>2, <1>3, <1>6 DEF ReceiptsOK, ManifestOK, ManifestOf, Evidence, World
<1>10. Backed(r)'
  BY DEF IInv, Backed, Evidence
<1> QED BY <1>3, <1>4, <1>5, <1>6, <1>7, <1>8, <1>9, <1>10 DEF CampaignOK

\* A step that leaves docker alone, of a command that answers for it as before,
\* or is killed.
LEMMA DockerKept ==
  ASSUME IInv, NEW r \in Runner, UNCHANGED Docker, killed \subseteq killed', failed \subseteq failed',
         \A q \in Runner \ {r} : task'[q] = task[q],
         \/ r \in killed'
         \/ /\ r \in Composing => r \in Composing'
            /\ task[r].pc \in {"smoke", "down"} => task'[r].pc \in {"smoke", "down"}
            /\ (task[r].pc \in {"receipt", "judge"} /\ task[r].errors /\ Gate(r) \in RuntimeGates) =>
                 \/ /\ task'[r].pc \in {"receipt", "judge"} /\ task'[r].errors
                    /\ Gate(r)' \in RuntimeGates
                 \/ Gate(r) \in failed'
  PROVE  secrets' \subseteq Composing' \cup killed' /\ StackAccounted'
<1>1. stack' = stack /\ secrets' = secrets
  BY DEF Docker
<1>2. secrets \subseteq Composing \cup killed /\ StackAccounted
  BY DEF IInv
<1>3. \A q \in Runner \ {r} : Gate(q)' = Gate(q)
  BY DEF Gate
<1>4. secrets' \subseteq Composing' \cup killed'
  BY <1>1, <1>2 DEF Composing
<1>5. StackAccounted'
  BY <1>1, <1>2, <1>3 DEF StackAccounted
<1> QED BY <1>4, <1>5

-----------------------------------------------------------------------------
(* The steps of a gate. *)

LEMMA WorkKeeps ==
  ASSUME IInv, NEW r \in Runner, NEW outcome \in Outcomes, Work(r, outcome)
  PROVE  IInv'
<1> DEFINE pc == IF Caught(Gate(r), outcome) THEN "receipt" ELSE "judge"
           errors == outcome # "passed"
<1>1. /\ task[r].pc = "gate" /\ Goto(r, pc, errors) /\ pc \in {"receipt", "judge"}
      /\ UNCHANGED <<killed, failed>> /\ UNCHANGED World /\ UNCHANGED Evidence /\ UNCHANGED Docker
  BY DEF Work
<1>2. pc = "judge" => errors
  BY DEF Caught
<1>3. /\ Domains' /\ \A q \in Runner : CampaignOK(q)' /\ Backed(q)'
      /\ \A q \in Runner \ {r} : task'[q] = task[q]
      /\ task'[r].pc = pc
  <2> HIDE DEF pc, errors
  <2>1. errors \in BOOLEAN /\ pc \in Steps \ {"publish"}
    BY <1>1 DEF Steps, errors
  <2> QED BY <1>1, <1>2, <2>1, WithinGate
<1>4. r \notin Composing
  BY <1>1 DEF Composing
<1>5. secrets' \subseteq Composing' \cup killed' /\ StackAccounted'
  BY <1>1, <1>3, <1>4, DockerKept
<1> QED BY <1>3, <1>5 DEF IInv

LEMMA NoDockerKeeps ==
  ASSUME IInv, NEW r \in Runner, NoDocker(r)
  PROVE  IInv'
<1>1. /\ task[r].pc = "gate" /\ Goto(r, "receipt", TRUE)
      /\ UNCHANGED <<killed, failed>> /\ UNCHANGED World /\ UNCHANGED Evidence /\ UNCHANGED Docker
  BY DEF NoDocker
<1>2. /\ Domains' /\ \A q \in Runner : CampaignOK(q)' /\ Backed(q)'
      /\ \A q \in Runner \ {r} : task'[q] = task[q]
  BY <1>1, WithinGate DEF Steps
<1>3. r \notin Composing
  BY <1>1 DEF Composing
<1>4. secrets' \subseteq Composing' \cup killed' /\ StackAccounted'
  BY <1>1, <1>2, <1>3, DockerKept
<1> QED BY <1>2, <1>4 DEF IInv

LEMMA PrepareKeeps ==
  ASSUME IInv, NEW r \in Runner, Prepare(r)
  PROVE  IInv'
<1> DEFINE pc == IF Gate(r) = "compose-build" THEN "build" ELSE "up"
<1>1. /\ task[r].pc = "gate" /\ Gate(r) \in RuntimeGates /\ Goto(r, pc, FALSE)
      /\ pc \in {"build", "up"} /\ secrets' = secrets \cup {r}
      /\ UNCHANGED <<stack, killed, failed>> /\ UNCHANGED World /\ UNCHANGED Evidence
  BY DEF Prepare
<1>2. /\ Domains' /\ \A q \in Runner : CampaignOK(q)' /\ Backed(q)'
      /\ \A q \in Runner \ {r} : task'[q] = task[q]
      /\ task'[r].pc = pc
  <2> HIDE DEF pc
  <2> QED BY <1>1, WithinGate DEF Steps
<1>3. secrets' \subseteq Composing' \cup killed'
  BY <1>1, <1>2 DEF IInv, Composing
<1>4. \A q \in Runner \ {r} : Gate(q)' = Gate(q)
  BY <1>2 DEF Gate
<1>5. StackAccounted'
  BY <1>1, <1>2, <1>4 DEF IInv, StackAccounted
<1> QED BY <1>2, <1>3, <1>5 DEF IInv

LEMMA BuildKeeps ==
  ASSUME IInv, NEW r \in Runner, NEW ok \in BOOLEAN, Build(r, ok)
  PROVE  IInv'
<1>1. /\ task[r].pc = "build" /\ Goto(r, "receipt", ~ok) /\ secrets' = secrets \ {r}
      /\ UNCHANGED <<stack, killed, failed>> /\ UNCHANGED World /\ UNCHANGED Evidence
  BY DEF Build
<1>2. /\ Domains' /\ \A q \in Runner : CampaignOK(q)' /\ Backed(q)'
      /\ \A q \in Runner \ {r} : task'[q] = task[q]
  BY <1>1, WithinGate DEF Steps
<1>3. secrets' \subseteq Composing' \cup killed'
  BY <1>1, <1>2 DEF IInv, Composing
<1>4. \A q \in Runner \ {r} : Gate(q)' = Gate(q)
  BY <1>2 DEF Gate
<1>5. StackAccounted'
  BY <1>1, <1>2, <1>4 DEF IInv, StackAccounted
<1> QED BY <1>2, <1>3, <1>5 DEF IInv

LEMMA UpKeeps ==
  ASSUME IInv, NEW r \in Runner, NEW ok \in BOOLEAN, Up(r, ok)
  PROVE  IInv'
<1> DEFINE pc == AfterUp(ok)
<1>1. /\ task[r].pc = "up" /\ Goto(r, pc, ~ok) /\ pc \in {"smoke", "down"}
      /\ UNCHANGED <<secrets, killed, failed>> /\ UNCHANGED World /\ UNCHANGED Evidence
  BY DEF Up, AfterUp
<1>2. Gate(r) \in RuntimeGates
  BY <1>1 DEF IInv, CampaignOK, AtGate, Idle
<1>3. /\ Domains' /\ \A q \in Runner : CampaignOK(q)' /\ Backed(q)'
      /\ \A q \in Runner \ {r} : task'[q] = task[q]
      /\ task'[r].pc = pc
  <2> HIDE DEF pc
  <2> QED BY <1>1, <1>2, WithinGate DEF Steps
<1>4. secrets' \subseteq Composing' \cup killed' /\ StackAccounted'
  BY <1>1, <1>3 DEF IInv, Composing, StackAccounted
<1> QED BY <1>3, <1>4 DEF IInv

LEMMA SmokeKeeps ==
  ASSUME IInv, NEW r \in Runner, NEW ok \in BOOLEAN, Smoke(r, ok)
  PROVE  IInv'
<1>1. /\ task[r].pc = "smoke" /\ Goto(r, "down", ~ok)
      /\ UNCHANGED <<killed, failed>> /\ UNCHANGED World /\ UNCHANGED Evidence /\ UNCHANGED Docker
  BY DEF Smoke
<1>2. Gate(r) \in RuntimeGates
  BY <1>1 DEF IInv, CampaignOK, AtGate, Idle
<1>3. /\ Domains' /\ \A q \in Runner : CampaignOK(q)' /\ Backed(q)'
      /\ \A q \in Runner \ {r} : task'[q] = task[q]
      /\ task'[r].pc = "down"
  BY <1>1, <1>2, WithinGate DEF Steps
<1>4. r \in Composing'
  BY <1>3 DEF Composing
<1>5. secrets' \subseteq Composing' \cup killed' /\ StackAccounted'
  BY <1>1, <1>3, <1>4, DockerKept
<1> QED BY <1>3, <1>5 DEF IInv

LEMMA DownKeeps ==
  ASSUME IInv, NEW r \in Runner, NEW ok \in BOOLEAN, Down(r, ok)
  PROVE  IInv'
<1>1. /\ task[r].pc = "down" /\ Goto(r, "receipt", ~ok)
      /\ stack' = (stack /\ ~ok) /\ secrets' = secrets \ {r}
      /\ UNCHANGED <<killed, failed>> /\ UNCHANGED World /\ UNCHANGED Evidence
  BY DEF Down
<1>2. Gate(r) \in RuntimeGates
  BY <1>1 DEF IInv, CampaignOK, AtGate, Idle
<1>3. /\ Domains' /\ \A q \in Runner : CampaignOK(q)' /\ Backed(q)'
      /\ \A q \in Runner \ {r} : task'[q] = task[q]
      /\ task'[r].pc = "receipt" /\ task'[r].errors = (task[r].errors \/ ~ok) /\ Gate(r)' = Gate(r)
  BY <1>1, <1>2, WithinGate DEF Steps
<1>4. secrets' \subseteq Composing' \cup killed'
  BY <1>1, <1>3 DEF IInv, Composing
<1>5. StackAccounted'
  <2>1. CASE ok
    BY <1>1, <2>1 DEF StackAccounted
  <2>2. CASE ~ok
    BY <1>2, <1>3, <2>2 DEF StackAccounted
  <2> QED BY <2>1, <2>2
<1> QED BY <1>3, <1>4, <1>5 DEF IInv

-----------------------------------------------------------------------------
(* The steps of a campaign. *)

\* What a campaign under way satisfies.
LEMMA UnderWay ==
  ASSUME IInv, NEW r \in Runner, task[r].pc # "idle"
  PROVE  /\ Shaped(task[r]) /\ AtGate(r) /\ PassedBefore(r) /\ ReceiptsOK(r)
         /\ PassedBacked(r) /\ ManifestOK(r)
  BY DEF IInv, CampaignOK, Idle

LEMMA StartKeeps ==
  ASSUME IInv, NEW r \in Runner, Start(r)
  PROVE  IInv'
<1> DEFINE t == [pc |-> "gate", campaign |-> runs + 1, sha |-> repo.sha, i |-> 1,
                 errors |-> FALSE, receipts |-> [g \in {} |-> 0], passed |-> {}]
<1>1. /\ task[r] = Idle /\ runs' = runs + 1 /\ task' = [task EXCEPT ![r] = t]
      /\ UNCHANGED <<repo, edits, killed, failed, target, manifest, torn>> /\ UNCHANGED Docker
  BY DEF Start, Evidence
<1>2. /\ Domains /\ runs \in Nat
  BY DEF IInv, Domains
<1>3. /\ DOMAIN task' = Runner /\ \A q \in Runner \ {r} : task'[q] = task[q]
      /\ task'[r] = t
  BY <1>1, <1>2 DEF Domains
<1>4. Domains'
  BY <1>1, <1>2, <1>3 DEF Domains
<1>5. \A q \in Runner \ {r} : CampaignOK(q)' /\ Backed(q)'
  BY <1>1, <1>2, <1>3, OthersKept
<1>6. Backed(r)'
  BY <1>1 DEF IInv, Backed
<1>7. CampaignOK(r)'
  <2>1. Shaped(task[r])'
    BY <1>2, <1>3 DEF Shaped, Steps
  <2>2. AtGate(r)'
    <3>1. 1 \in 1..Len(Plan[r])
      BY GateConstants
    <3> QED BY <1>3, <3>1 DEF AtGate
  <2>3. PassedBefore(r)' /\ PassedBacked(r)'
    BY <1>3 DEF PassedBefore, PassedBacked
  <2>4. ReceiptsOK(r)'
    BY <1>3 DEF ReceiptsOK
  <2>5. ManifestOK(r)'
    BY <1>1, <1>2, <1>3 DEF ManifestOK, Domains
  <2> QED BY <2>1, <2>2, <2>3, <2>4, <2>5 DEF CampaignOK
<1>8. secrets' \subseteq Composing' \cup killed' /\ StackAccounted'
  <2>1. task[r].pc = "idle"
    BY <1>1 DEF Idle
  <2> QED BY <1>1, <1>3, <2>1, DockerKept DEF Composing
<1> QED BY <1>4, <1>5, <1>6, <1>7, <1>8 DEF IInv

LEMMA WriteReceiptKeeps ==
  ASSUME IInv, NEW r \in Runner, WriteReceipt(r)
  PROVE  IInv'
<1> DEFINE t == task[r]
           receipt == Receipt(r)
<1>1. /\ t.pc = "receipt"
      /\ task' = [task EXCEPT ![r].pc = "judge", ![r].receipts = With(@, Gate(r), receipt)]
      /\ UNCHANGED <<repo, runs, edits, killed, failed, target, manifest, torn>> /\ UNCHANGED Docker
  BY DEF WriteReceipt, Evidence, World
<1>2. /\ Shaped(t) /\ AtGate(r) /\ PassedBefore(r) /\ ReceiptsOK(r) /\ PassedBacked(r) /\ ManifestOK(r)
      /\ Domains /\ runs \in Nat
  BY <1>1, UnderWay DEF IInv, Domains
<1>3. /\ DOMAIN task' = Runner /\ \A q \in Runner \ {r} : task'[q] = task[q]
      /\ task'[r] = [pc |-> "judge", campaign |-> t.campaign, sha |-> t.sha, i |-> t.i,
                     errors |-> t.errors, receipts |-> With(t.receipts, Gate(r), receipt),
                     passed |-> t.passed]
  BY <1>1, <1>2 DEF Shaped, Domains
<1>4. Domains'
  BY <1>1, <1>2, <1>3 DEF Domains
<1>5. \A q \in Runner \ {r} : CampaignOK(q)' /\ Backed(q)'
  BY <1>1, <1>2, <1>3, OthersKept
<1>6. Backed(r)'
  BY <1>1 DEF IInv, Backed
<1>7. Gate(r)' = Gate(r) /\ Gate(r) = Plan[r][t.i] /\ t.i \in 1..Len(Plan[r])
  BY <1>1, <1>2, <1>3 DEF Gate, AtGate
<1>8. /\ DOMAIN task'[r].receipts = DOMAIN t.receipts \cup {Gate(r)}
      /\ task'[r].receipts[Gate(r)] = receipt
      /\ \A g \in DOMAIN t.receipts \ {Gate(r)} : task'[r].receipts[g] = t.receipts[g]
  BY <1>3 DEF With
<1>9. receipt = [campaign |-> t.campaign, sha |-> repo.sha, dirty |-> repo.dirty, errors |-> t.errors]
  BY DEF Receipt
<1>10. CampaignOK(r)'
  <2>1. Shaped(task[r])' /\ AtGate(r)'
    BY <1>2, <1>3, <1>7 DEF Shaped, Steps, AtGate
  <2>2. PassedBefore(r)'
    BY <1>1, <1>2, <1>3 DEF PassedBefore
  <2>3. ReceiptsOK(r)'
    <3>1. repo.dirty \in BOOLEAN /\ t.errors \in BOOLEAN
      BY <1>2 DEF Domains, Shaped
    <3>2. ASSUME NEW g \in DOMAIN task'[r].receipts
          PROVE  LET x == task'[r].receipts[g] IN
                 /\ x = [campaign |-> t.campaign, sha |-> x.sha, dirty |-> x.dirty, errors |-> x.errors]
                 /\ x.dirty \in BOOLEAN /\ x.errors \in BOOLEAN
      <4>1. CASE g = Gate(r)
        BY <1>8, <1>9, <3>1, <4>1
      <4>2. CASE g # Gate(r)
        BY <1>2, <1>8, <4>2 DEF ReceiptsOK
      <4> QED BY <4>1, <4>2
    <3>3. task'[r].receipts[Gate(r)].errors = t.errors
      BY <1>8, <1>9
    <3>4. task'[r].campaign = t.campaign /\ task'[r].errors = t.errors
      BY <1>3
    <3> HIDE DEF t
    <3> QED BY <1>7, <3>2, <3>3, <3>4 DEF ReceiptsOK
  <2>4. PassedBacked(r)'
    <3>1. Gate(r) \notin t.passed
      BY <1>1, <1>2, <1>7, GateConstants DEF PassedBefore
    <3>2. \A g \in t.passed : g \in DOMAIN t.receipts /\ t.receipts[g] = Good(t)
      BY <1>1, <1>2 DEF PassedBacked
    <3>3. Good(t)' = Good(t)
      BY <1>3 DEF Good
    <3>4. task'[r].passed = t.passed
      BY <1>3
    <3> QED BY <1>8, <3>1, <3>2, <3>3, <3>4 DEF PassedBacked
  <2>5. ManifestOK(r)'
    BY <1>1, <1>2, <1>3 DEF ManifestOK
  <2> QED BY <2>1, <2>2, <2>3, <2>4, <2>5 DEF CampaignOK
<1>11. secrets' \subseteq Composing' \cup killed' /\ StackAccounted'
  BY <1>1, <1>3, <1>7, DockerKept DEF Composing
<1> QED BY <1>4, <1>5, <1>6, <1>10, <1>11 DEF IInv

LEMMA JudgeKeeps ==
  ASSUME IInv, NEW r \in Runner, Judge(r)
  PROVE  IInv'
<1> DEFINE t == task[r]
           last == t.i = Len(Plan[r])
<1>1. /\ t.pc = "judge"
      /\ failed' = IF t.errors THEN failed \cup {Gate(r)} ELSE failed
      /\ UNCHANGED <<repo, runs, edits, killed, target, manifest, torn>> /\ UNCHANGED Docker
  BY DEF Judge, Evidence, World
<1>2. /\ Shaped(t) /\ AtGate(r) /\ PassedBefore(r) /\ ReceiptsOK(r) /\ PassedBacked(r) /\ ManifestOK(r)
      /\ Domains /\ runs \in Nat
  BY <1>1, UnderWay DEF IInv, Domains
<1>3. /\ DOMAIN task' = Runner /\ \A q \in Runner \ {r} : task'[q] = task[q]
      /\ task'[r] = [pc |-> IF last THEN "publish" ELSE "gate", campaign |-> t.campaign, sha |-> t.sha,
                     i |-> t.i + 1, errors |-> FALSE, receipts |-> t.receipts,
                     passed |-> IF GatePasses(r) THEN t.passed \cup {Gate(r)} ELSE t.passed]
  BY <1>2 DEF Judge, Shaped, Domains
<1>4. Domains'
  BY <1>1, <1>2, <1>3 DEF Domains
<1>5. \A q \in Runner \ {r} : CampaignOK(q)' /\ Backed(q)'
  BY <1>1, <1>2, <1>3, OthersKept
<1>6. Backed(r)'
  BY <1>1 DEF IInv, Backed
<1>7. Gate(r) = Plan[r][t.i] /\ t.i \in 1..Len(Plan[r]) /\ Len(Plan[r]) \in Nat
  BY <1>1, <1>2, GateConstants DEF Gate, AtGate
<1>8. CampaignOK(r)'
  <2>1. Shaped(task[r])' /\ AtGate(r)'
    BY <1>2, <1>3, <1>7 DEF Shaped, Steps, AtGate
  <2>2. PassedBefore(r)'
    <3>1. \A g \in t.passed : \E j \in 1..Len(Plan[r]) : Plan[r][j] = g /\ j < t.i
      BY <1>1, <1>2 DEF PassedBefore
    <3>2. task'[r].i = t.i + 1 /\ task'[r].passed \subseteq t.passed \cup {Gate(r)}
      BY <1>3
    <3> QED BY <1>7, <3>1, <3>2 DEF PassedBefore
  <2>3. ReceiptsOK(r)'
    <3>1. task'[r].receipts = t.receipts /\ task'[r].campaign = t.campaign /\ task'[r].pc # "judge"
      BY <1>3
    <3> QED BY <1>2, <3>1 DEF ReceiptsOK
  <2>4. PassedBacked(r)'
    <3>1. \A g \in t.passed : g \in DOMAIN t.receipts /\ t.receipts[g] = Good(t)
      BY <1>1, <1>2 DEF PassedBacked
    <3>2. ASSUME GatePasses(r)
          PROVE  Gate(r) \in DOMAIN t.receipts /\ t.receipts[Gate(r)] = Good(t)
      <4>1. /\ Gate(r) \in DOMAIN t.receipts /\ ~t.errors
            /\ t.receipts[Gate(r)].sha = t.sha /\ t.receipts[Gate(r)].dirty = FALSE
        BY <1>2, <3>2 DEF GatePasses, Integrity, ReceiptsOK
      <4>2. t.receipts[Gate(r)].errors = FALSE
        BY <1>1, <1>2, <4>1 DEF ReceiptsOK
      <4> QED BY <1>2, <4>1, <4>2 DEF ReceiptsOK, Good
    <3>3. Good(t)' = Good(t) /\ task'[r].receipts = t.receipts
      BY <1>3 DEF Good
    <3>4. task'[r].passed = IF GatePasses(r) THEN t.passed \cup {Gate(r)} ELSE t.passed
      BY <1>3
    <3> QED BY <3>1, <3>2, <3>3, <3>4 DEF PassedBacked
  <2>5. ManifestOK(r)'
    BY <1>1, <1>2, <1>3 DEF ManifestOK
  <2> QED BY <2>1, <2>2, <2>3, <2>4, <2>5 DEF CampaignOK
<1>9. secrets' \subseteq Composing' \cup killed' /\ StackAccounted'
  BY <1>1, <1>3, DockerKept DEF Composing
<1> QED BY <1>4, <1>5, <1>6, <1>8, <1>9 DEF IInv

-----------------------------------------------------------------------------
(* The steps of a publication, and what comes from outside. *)

LEMMA CopyReceiptKeeps ==
  ASSUME IInv, NEW r \in Runner, CopyReceipt(r)
  PROVE  IInv'
<1> DEFINE t == task[r]
<1>1. PICK g \in DOMAIN t.receipts :
        /\ target' = [target EXCEPT ![r] = With(@, g, t.receipts[g])]
        /\ task' = [task EXCEPT ![r].receipts = [h \in DOMAIN @ \ {g} |-> @[h]]]
  BY DEF CopyReceipt
<1>2. /\ t.pc = "publish" /\ torn' = torn \cup {r} /\ repo' = [repo EXCEPT !.dirty = TRUE]
      /\ UNCHANGED <<manifest, killed, failed, runs, edits>> /\ UNCHANGED Docker
  BY DEF CopyReceipt
<1>3. /\ Shaped(t) /\ AtGate(r) /\ PassedBefore(r) /\ ReceiptsOK(r) /\ PassedBacked(r) /\ ManifestOK(r)
      /\ Domains /\ runs \in Nat
  BY <1>2, UnderWay DEF IInv, Domains
<1>4. /\ DOMAIN task' = Runner /\ \A q \in Runner \ {r} : task'[q] = task[q]
      /\ task'[r] = [pc |-> "publish", campaign |-> t.campaign, sha |-> t.sha, i |-> t.i,
                     errors |-> t.errors, receipts |-> [h \in DOMAIN t.receipts \ {g} |-> t.receipts[h]],
                     passed |-> t.passed]
  BY <1>1, <1>2, <1>3 DEF Shaped, Domains
<1>5. /\ DOMAIN target' = Runner /\ \A q \in Runner \ {r} : target'[q] = target[q]
      /\ target'[r] = With(target[r], g, t.receipts[g])
  BY <1>1, <1>3 DEF Domains
<1>6. Domains'
  BY <1>2, <1>3, <1>4, <1>5 DEF Domains
<1>7. \A q \in Runner \ {r} : CampaignOK(q)' /\ Backed(q)'
  BY <1>2, <1>3, <1>4, <1>5, OthersKept
<1>8. Backed(r)'
  BY <1>2 DEF Backed
<1>9. CampaignOK(r)'
  <2>1. Shaped(task[r])' /\ AtGate(r)' /\ PassedBefore(r)'
    BY <1>2, <1>3, <1>4 DEF Shaped, AtGate, PassedBefore
  <2>2. /\ DOMAIN task'[r].receipts = DOMAIN t.receipts \ {g}
        /\ \A h \in DOMAIN t.receipts \ {g} : task'[r].receipts[h] = t.receipts[h]
        /\ task'[r].campaign = t.campaign /\ task'[r].pc = "publish" /\ task'[r].passed = t.passed
    BY <1>4
  <2>3. ReceiptsOK(r)'
    BY <1>3, <2>2 DEF ReceiptsOK
  <2>4. PassedBacked(r)'
    <3>1. /\ DOMAIN target'[r] = DOMAIN target[r] \cup {g} /\ target'[r][g] = t.receipts[g]
          /\ \A h \in DOMAIN target[r] \ {g} : target'[r][h] = target[r][h]
      BY <1>5 DEF With
    <3>2. Good(t)' = Good(t)
      BY <1>4 DEF Good
    <3> QED BY <1>2, <1>3, <2>2, <3>1, <3>2 DEF PassedBacked
  <2>5. ManifestOK(r)'
    BY <1>2, <1>3, <1>4 DEF ManifestOK, ManifestOf
  <2> QED BY <2>1, <2>3, <2>4, <2>5 DEF CampaignOK
<1>10. secrets' \subseteq Composing' \cup killed' /\ StackAccounted'
  BY <1>2, <1>4, DockerKept DEF Composing
<1> QED BY <1>6, <1>7, <1>8, <1>9, <1>10 DEF IInv

LEMMA CopyManifestKeeps ==
  ASSUME IInv, NEW r \in Runner, CopyManifest(r)
  PROVE  IInv'
<1> DEFINE t == task[r]
<1>1. /\ t.pc = "publish" /\ manifest' = [manifest EXCEPT ![r] = ManifestOf(t)]
      /\ torn' = torn \cup {r} /\ repo' = [repo EXCEPT !.dirty = TRUE]
      /\ UNCHANGED <<target, task, killed, failed, runs, edits>> /\ UNCHANGED Docker
  BY DEF CopyManifest, ManifestOf
<1>2. /\ Shaped(t) /\ AtGate(r) /\ PassedBefore(r) /\ ReceiptsOK(r) /\ PassedBacked(r) /\ ManifestOK(r)
      /\ Domains /\ runs \in Nat
  BY <1>1, UnderWay DEF IInv, Domains
<1>3. /\ DOMAIN manifest' = Runner /\ \A q \in Runner \ {r} : manifest'[q] = manifest[q]
      /\ manifest'[r] = ManifestOf(t)
  BY <1>1, <1>2 DEF Domains
<1>4. Domains'
  BY <1>1, <1>2, <1>3 DEF Domains, Shaped, ManifestOK, ManifestOf
<1>5. \A q \in Runner \ {r} : CampaignOK(q)' /\ Backed(q)'
  BY <1>1, <1>2, <1>3, OthersKept
<1>6. Backed(r)'
  BY <1>1 DEF Backed
<1>7. CampaignOK(r)'
  <2>1. Shaped(task[r])' /\ AtGate(r)' /\ PassedBefore(r)' /\ ReceiptsOK(r)' /\ PassedBacked(r)'
    BY <1>1, <1>2 DEF Shaped, AtGate, PassedBefore, ReceiptsOK, PassedBacked, Gate, Good
  <2>2. ManifestOK(r)'
    BY <1>1, <1>2, <1>3 DEF ManifestOK, ManifestOf
  <2> QED BY <2>1, <2>2 DEF CampaignOK
<1>8. secrets' \subseteq Composing' \cup killed' /\ StackAccounted'
  BY <1>1, DockerKept DEF Composing, Gate
<1> QED BY <1>4, <1>5, <1>6, <1>7, <1>8 DEF IInv

\* All receipts are copied and the manifest is this campaign's: what passed is backed.
LEMMA PublishedKeeps ==
  ASSUME IInv, NEW r \in Runner, Published(r)
  PROVE  IInv'
<1> DEFINE t == task[r]
<1>1. /\ t.pc = "publish" /\ DOMAIN t.receipts = {} /\ manifest[r].campaign = t.campaign
      /\ task' = [task EXCEPT ![r] = Idle] /\ torn' = torn \ {r}
      /\ UNCHANGED <<target, manifest, killed, failed, repo, runs, edits>> /\ UNCHANGED Docker
  BY DEF Published, World
<1>2. /\ Shaped(t) /\ PassedBacked(r) /\ ManifestOK(r) /\ Domains /\ runs \in Nat
  BY <1>1, UnderWay DEF IInv, Domains
<1>3. /\ DOMAIN task' = Runner /\ \A q \in Runner \ {r} : task'[q] = task[q]
      /\ task'[r] = Idle
  BY <1>1, <1>2 DEF Domains
<1>4. Domains'
  BY <1>1, <1>2, <1>3 DEF Domains
<1>5. \A q \in Runner \ {r} : CampaignOK(q)' /\ Backed(q)'
  BY <1>1, <1>2, <1>3, OthersKept
<1>6. Backed(r)'
  <2>1. manifest[r] = ManifestOf(t)
    BY <1>1, <1>2 DEF ManifestOK, Shaped, Domains
  <2>2. \A g \in t.passed : g \in DOMAIN target[r] /\ target[r][g] = Good(t)
    BY <1>1, <1>2 DEF PassedBacked
  <2>3. /\ manifest[r].passed = t.passed /\ manifest[r].campaign = t.campaign
        /\ manifest[r].sha = t.sha
    BY <2>1 DEF ManifestOf
  <2>4. manifest' = manifest /\ target' = target
    BY <1>1
  <2> HIDE DEF t
  <2> QED BY <2>2, <2>3, <2>4 DEF Backed, Good
<1>7. CampaignOK(r)'
  BY <1>3 DEF CampaignOK, Idle
<1>8. secrets' \subseteq Composing' \cup killed' /\ StackAccounted'
  BY <1>1, <1>3, DockerKept DEF Composing
<1> QED BY <1>4, <1>5, <1>6, <1>7, <1>8 DEF IInv

LEMMA KillKeeps ==
  ASSUME IInv, NEW r \in Runner, Kill(r)
  PROVE  IInv'
<1>1. /\ task' = [task EXCEPT ![r] = Idle] /\ killed' = killed \cup {r}
      /\ UNCHANGED <<failed, repo, runs, edits, target, manifest, torn>> /\ UNCHANGED Docker
  BY DEF Kill, World, Evidence
<1>2. Domains /\ runs \in Nat
  BY DEF IInv, Domains
<1>3. /\ DOMAIN task' = Runner /\ \A q \in Runner \ {r} : task'[q] = task[q]
      /\ task'[r] = Idle
  BY <1>1, <1>2 DEF Domains
<1>4. Domains'
  BY <1>1, <1>2, <1>3 DEF Domains
<1>5. \A q \in Runner \ {r} : CampaignOK(q)' /\ Backed(q)'
  BY <1>1, <1>2, <1>3, OthersKept
<1>6. Backed(r)' /\ CampaignOK(r)'
  BY <1>1, <1>3 DEF IInv, Backed, CampaignOK, Idle
<1>7. secrets' \subseteq Composing' \cup killed' /\ StackAccounted'
  BY <1>1, <1>3, DockerKept
<1> QED BY <1>4, <1>5, <1>6, <1>7 DEF IInv

\* Nothing but the checkout moves.
LEMMA EditKeeps ==
  ASSUME IInv, Edit \/ UNCHANGED vars
  PROVE  IInv'
<1>1. UNCHANGED <<task, killed, failed, runs, target, manifest, torn, stack, secrets>>
  BY DEF Edit, Evidence, Docker, vars
<1>2. Domains'
  <2>1. Domains
    BY DEF IInv
  <2>2. CASE repo' = repo
    BY <1>1, <2>1, <2>2 DEF Domains
  <2>3. CASE repo' = [repo EXCEPT !.dirty = ~repo.dirty]
    BY <1>1, <2>1, <2>3 DEF Domains
  <2>4. CASE repo' = [sha |-> repo.sha + 1, dirty |-> FALSE]
    BY <1>1, <2>1, <2>4 DEF Domains
  <2> QED BY <2>2, <2>3, <2>4 DEF Edit, vars
<1>3. \A r \in Runner : CampaignOK(r)' /\ Backed(r)'
  BY <1>1 DEF IInv, CampaignOK, Shaped, AtGate, PassedBefore, ReceiptsOK, PassedBacked, ManifestOK,
              ManifestOf, Good, Gate, Backed, Idle
<1>4. secrets' \subseteq Composing' \cup killed' /\ StackAccounted'
  BY <1>1 DEF IInv, Composing, StackAccounted, Gate
<1> QED BY <1>2, <1>3, <1>4 DEF IInv

-----------------------------------------------------------------------------
(* The theorems. *)

LEMMA InitInv == Init => IInv
<1> SUFFICES ASSUME Init PROVE IInv
  OBVIOUS
<1>1. Domains
  BY DEF Init, Domains, NoManifest
<1>2. \A r \in Runner : CampaignOK(r) /\ Backed(r)
  BY DEF Init, CampaignOK, Backed, NoManifest
<1> QED BY <1>1, <1>2 DEF Init, IInv, StackAccounted

LEMMA NextInv == IInv /\ [Next]_vars => IInv'
  BY StartKeeps, NoDockerKeeps, PrepareKeeps, WriteReceiptKeeps, JudgeKeeps, WorkKeeps, BuildKeeps,
     UpKeeps, SmokeKeeps, DownKeeps, CopyReceiptKeeps, CopyManifestKeeps, PublishedKeeps, KillKeeps,
     EditKeeps DEF Next

\* Campaigns, receipts, manifests and the stack fit together in every state.
THEOREM Inductive == Spec => []IInv
  BY InitInv, NextInv, PTL DEF Spec

\* A gate the manifest counts as passed has its good receipt beside it.
THEOREM ManifestsAreBacked == Spec => []ManifestIsBacked
<1>1. IInv => ManifestIsBacked
  BY DEF IInv, Backed, ManifestIsBacked
<1> QED BY <1>1, Inductive, PTL

\* Secrets and stack outlive a gate only where a kill or a failed gate says so.
THEOREM NothingStaysBehind == Spec => []NothingIsLeftBehind
<1>1. IInv => NothingIsLeftBehind
  BY DEF IInv, StackAccounted, Composing, NothingIsLeftBehind
<1> QED BY <1>1, Inductive, PTL

=============================================================================
