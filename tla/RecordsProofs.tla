---------------------------- MODULE RecordsProofs ----------------------------
(***************************************************************************)
(* Proofs about Records: about the vault for any clients, calls and        *)
(* retention, and about the components that compute from what is recorded, *)
(* each with an invariant the steps of the others leave alone.             *)
(***************************************************************************)
EXTENDS Records, FiniteSetTheorems, SequenceTheorems, WellFoundedInduction, TLAPS

-----------------------------------------------------------------------------
(* The inductive invariant, in parts. *)

\* The rows follow the ingress; in the vault the bytes of a hash are kept once.
RowsFollow ==
  /\ rows = {[table |-> r.destination, unit |-> r.unit] : r \in ingress}
  /\ \A r, q \in ingress : r.unit = q.unit => r = q
  /\ \A r, q \in ingress : (/\ r.destination = "evidence_vault" /\ q.destination = "evidence_vault"
                            /\ r.unit[1] = q.unit[1]) => r = q

\* The entries of the vault are those of its rows, each sealed with an audit event.
VaultFollows ==
  /\ \A r \in ingress : r.destination = "evidence_vault" => r.unit[1] \in DOMAIN vault
  /\ \A s \in DOMAIN vault :
       /\ \E r \in ingress : r.destination = "evidence_vault" /\ r.unit[1] = s
       /\ \E e \in audit : e.sha = s /\ e.action = "seal"

\* What a client holds between its SELECT and its decision.
TaskOK ==
  /\ DOMAIN task = Client
  /\ \A c \in Client :
       \/ task[c] = Idle
       \/ /\ task[c].op = "read" /\ task[c].call \in ReadCall /\ task[c].sha \in DOMAIN vault
       \/ /\ task[c].op = "delete" /\ task[c].call \in DeleteCall /\ task[c].sha \in DOMAIN vault

\* What is allowed was allowed at its time; what is gone has its event.
AuditJudges ==
  /\ \A e \in audit :
       /\ e.action = "read" /\ e.result = "allowed" => e.at \in Int /\ e.at <= Retention
       /\ e.action = "delete" /\ e.result = "allowed" => e.at \in Int /\ e.at > Retention

IInv ==
  /\ RowsFollow /\ VaultFollows /\ TaskOK /\ AuditJudges
  /\ EveryReadIsAudited /\ DeletionIsAccounted

-----------------------------------------------------------------------------
(* The steps. *)

LEMMA InitInv == Init => IInv
<1> SUFFICES ASSUME Init PROVE IInv
  OBVIOUS
<1>1. RowsFollow /\ VaultFollows /\ AuditJudges /\ DeletionIsAccounted
  BY DEF Init, RowsFollow, VaultFollows, AuditJudges, DeletionIsAccounted
<1>2. TaskOK
  BY DEF Init, TaskOK
<1>3. EveryReadIsAudited
  BY DEF Init, EveryReadIsAudited, EmptyBag, SetToBag
<1> QED BY <1>1, <1>2, <1>3 DEF IInv

\* The audit events of each operation, field by field.
LEMMA Events ==
  /\ \A i \in Input : SealEvent(i).sha = i.sha /\ SealEvent(i).action = "seal"
  /\ \A s, r : /\ ReadEvent(s, r).sha = s /\ ReadEvent(s, r).action = "read"
               /\ ReadEvent(s, r).actor = r.actor /\ ReadEvent(s, r).reason = r.purpose
               /\ ReadEvent(s, r).at = r.at
               /\ ReadEvent(s, r).result = IF MayRead(r) THEN "allowed" ELSE "denied"
  /\ \A s, r : /\ DeleteEvent(s, r).sha = s /\ DeleteEvent(s, r).action = "delete"
               /\ DeleteEvent(s, r).at = r.at
               /\ DeleteEvent(s, r).result = IF Active(r.at) THEN "denied" ELSE "allowed"
               /\ ~Active(r.at) => DeleteEvent(s, r).receipt = r
  BY DEF SealEvent, ReadEvent, DeleteEvent, Event

\* The whole unit of a new ingest.
LEMMA StoreKeeps ==
  ASSUME IInv, NEW i \in Input, ~Conflicts(i), Store(i), UNCHANGED <<task, reads>>
  PROVE  IInv'
<1> DEFINE u == Unit(i)
           d == Destination(i)
<1>1. u[1] = i.sha
  BY DEF Unit
<1>2. /\ \A r \in ingress : r.unit # u
      /\ d = "evidence_vault" => i.sha \notin DOMAIN vault
  BY DEF Conflicts
<1>3. RowsFollow'
  <2>1. ingress' = ingress \cup {[unit |-> u, destination |-> d]}
    BY DEF Store
  <2>2. rows' = {[table |-> r.destination, unit |-> r.unit] : r \in ingress'}
    <3>1. rows' = rows \cup {[table |-> d, unit |-> u]}
      BY DEF Store
    <3>2. rows = {[table |-> r.destination, unit |-> r.unit] : r \in ingress}
      BY DEF IInv, RowsFollow
    <3>3. rows' = {[table |-> r.destination, unit |-> r.unit] : r \in ingress}
                    \cup {[table |-> d, unit |-> u]}
      BY <3>1, <3>2
    <3>4. LET n == [unit |-> u, destination |-> d] IN n.unit = u /\ n.destination = d
      OBVIOUS
    <3> QED BY <2>1, <3>3, <3>4, Zenon
  <2>3. \A r, q \in ingress' : r.unit = q.unit => r = q
    BY <1>2, <2>1 DEF IInv, RowsFollow
  <2>4. \A r \in ingress : r.destination = "evidence_vault" /\ d = "evidence_vault" => r.unit[1] # u[1]
    BY <1>1, <1>2 DEF IInv, VaultFollows
  <2>5. \A r, q \in ingress' : (/\ r.destination = "evidence_vault" /\ q.destination = "evidence_vault"
                                /\ r.unit[1] = q.unit[1]) => r = q
    BY <2>1, <2>4 DEF IInv, RowsFollow
  <2> QED BY <2>2, <2>3, <2>5 DEF RowsFollow
<1>4. CASE d = "evidence_vault"
  <2>1. /\ vault' = [s \in DOMAIN vault \cup {i.sha} |->
                       IF s = i.sha THEN [sealed |-> TRUE, receipt |-> NoReceipt] ELSE vault[s]]
        /\ audit' = audit \cup {SealEvent(i)}
        /\ ingress' = ingress \cup {[unit |-> u, destination |-> d]}
    BY <1>4 DEF Store
  <2>2. /\ DOMAIN vault' = DOMAIN vault \cup {i.sha}
        /\ \A s \in DOMAIN vault : vault'[s] = vault[s]
        /\ vault'[i.sha].sealed = TRUE
    BY <1>2, <1>4, <2>1
  <2>3. VaultFollows'
    <3>1. ASSUME NEW s \in DOMAIN vault'
          PROVE  \E r \in ingress' : r.destination = "evidence_vault" /\ r.unit[1] = s
      <4>1. CASE s = i.sha
        <5>1. [unit |-> u, destination |-> d] \in ingress'
          BY <2>1
        <5> QED BY <1>1, <1>4, <4>1, <5>1
      <4>2. CASE s \in DOMAIN vault
        BY <2>1, <4>2 DEF IInv, VaultFollows
      <4> QED BY <2>2, <4>1, <4>2
    <3>2. ASSUME NEW s \in DOMAIN vault'
          PROVE  \E e \in audit' : e.sha = s /\ e.action = "seal"
      <4>1. CASE s = i.sha
        BY <2>1, <4>1, Events
      <4>2. CASE s \in DOMAIN vault
        BY <2>1, <4>2 DEF IInv, VaultFollows
      <4> QED BY <2>2, <4>1, <4>2
    <3> QED BY <1>1, <2>1, <2>2, <3>1, <3>2 DEF IInv, VaultFollows
  <2>4. TaskOK'
    BY <2>2 DEF IInv, TaskOK
  <2>5. AuditJudges' /\ EveryReadIsAudited'
    BY <2>1, Events DEF IInv, AuditJudges, EveryReadIsAudited
  <2>6. DeletionIsAccounted'
    BY <2>1, <2>2 DEF IInv, DeletionIsAccounted
  <2> QED BY <1>3, <2>3, <2>4, <2>5, <2>6 DEF IInv
<1>5. CASE d # "evidence_vault"
  <2>1. UNCHANGED <<vault, audit>> /\ ingress' = ingress \cup {[unit |-> u, destination |-> d]}
    BY <1>5 DEF Store
  <2>2. VaultFollows'
    BY <1>5, <2>1 DEF IInv, VaultFollows
  <2>3. TaskOK' /\ AuditJudges' /\ EveryReadIsAudited' /\ DeletionIsAccounted'
    BY <2>1 DEF IInv, TaskOK, AuditJudges, EveryReadIsAudited, DeletionIsAccounted
  <2> QED BY <1>3, <2>2, <2>3 DEF IInv
<1> QED BY <1>4, <1>5

LEMMA IngestKeeps ==
  ASSUME IInv, NEW c \in Client, NEW i \in Input, Ingest(c, i)
  PROVE  IInv'
<1>1. CASE ~Conflicts(i) /\ Store(i)
  BY <1>1, StoreKeeps DEF Ingest
<1>2. CASE UNCHANGED <<ingress, rows, vault, audit>>
  BY <1>2 DEF Ingest, IInv, RowsFollow, VaultFollows, TaskOK, AuditJudges,
              EveryReadIsAudited, DeletionIsAccounted
<1> QED BY <1>1, <1>2 DEF Ingest

\* A step that leaves the file alone and gives a client another task.
LEMMA TaskStepKeeps ==
  ASSUME IInv, UNCHANGED <<ingress, rows, vault, audit, reads>>, TaskOK'
  PROVE  IInv'
  BY DEF IInv, RowsFollow, VaultFollows, AuditJudges, EveryReadIsAudited, DeletionIsAccounted

LEMMA SelectKeeps ==
  ASSUME IInv, NEW c \in Client, NEW s \in DOMAIN vault,
         \/ \E r \in ReadCall : Select(c, "read", s, r)
         \/ \E r \in DeleteCall : Select(c, "delete", s, r)
  PROVE  IInv'
<1>1. UNCHANGED <<ingress, rows, vault, audit, reads>>
  BY DEF Select
<1>2. TaskOK'
  BY <1>1 DEF Select, IInv, TaskOK
<1> QED BY <1>1, <1>2, TaskStepKeeps

\* A task that ends, while the vault keeps its entries.
LEMMA DoneKeepsTasks ==
  ASSUME IInv, NEW c \in Client, Done(c), DOMAIN vault' = DOMAIN vault
  PROVE  TaskOK'
  BY DEF Done, IInv, TaskOK

\* An audit event of a read or a deletion leaves the unit rows as they are.
LEMMA AuditKeeps ==
  ASSUME IInv, NEW e, audit' = audit \cup {e}, e.action # "seal",
         UNCHANGED <<ingress, rows>>, DOMAIN vault' = DOMAIN vault
  PROVE  RowsFollow' /\ VaultFollows'
  BY DEF IInv, RowsFollow, VaultFollows

LEMMA ReadKeeps ==
  ASSUME IInv, NEW c \in Client, Read(c)
  PROVE  IInv'
<1> DEFINE t == task[c]
           e == ReadEvent(t.sha, t.call)
<1>1. /\ t.op = "read" /\ t.call \in ReadCall /\ MayRead(t.call)
      /\ e \notin audit /\ audit' = audit \cup {e}
      /\ reads' = reads (+) SetToBag({e})
      /\ UNCHANGED vault /\ Done(c)
  BY DEF Read, Audited, IInv, TaskOK, Idle
<1>2. /\ e.action = "read" /\ e.result = "allowed" /\ e.at = t.call.at
      /\ e.actor = t.call.actor /\ e.reason = t.call.purpose
  BY <1>1, Events
<1>3. e.at \in Int /\ e.at <= Retention /\ e.actor # None /\ e.reason # None
  BY <1>1, <1>2, VaultConstants DEF MayRead, Expired
<1>4. RowsFollow' /\ VaultFollows'
  BY <1>1, <1>2, AuditKeeps DEF Done
<1>5. TaskOK'
  BY <1>1, DoneKeepsTasks
<1>6. AuditJudges'
  BY <1>1, <1>2, <1>3 DEF IInv, AuditJudges
<1>7. DeletionIsAccounted'
  BY <1>1 DEF IInv, DeletionIsAccounted
<1>8. EveryReadIsAudited'
  <2>1. e \notin DOMAIN reads
    BY <1>1 DEF IInv, EveryReadIsAudited
  <2>2. /\ DOMAIN reads' = DOMAIN reads \cup {e}
        /\ reads'[e] = 1 /\ \A f \in DOMAIN reads : reads'[f] = reads[f]
    <3>1. DOMAIN SetToBag({e}) = {e} /\ SetToBag({e})[e] = 1
      BY DEF SetToBag
    <3>2. \A f \in DOMAIN reads : reads[f] = 1
      BY DEF IInv, EveryReadIsAudited
    <3>3. reads' = [f \in DOMAIN reads \cup {e} |->
                      (IF f \in DOMAIN reads THEN reads[f] ELSE 0)
                      + (IF f \in {e} THEN SetToBag({e})[f] ELSE 0)]
      BY <1>1, <3>1 DEF (+)
    <3> QED BY <2>1, <3>1, <3>2, <3>3
  <2> QED BY <1>1, <1>2, <1>3, <2>1, <2>2 DEF IInv, EveryReadIsAudited
<1> QED BY <1>4, <1>5, <1>6, <1>7, <1>8 DEF IInv

LEMMA DenyReadKeeps ==
  ASSUME IInv, NEW c \in Client, DenyRead(c)
  PROVE  IInv'
<1> DEFINE e == ReadEvent(task[c].sha, task[c].call)
<1>1. /\ audit' = audit \cup {e} /\ e.action = "read" /\ e.result = "denied"
      /\ UNCHANGED <<vault, reads>> /\ Done(c)
  BY Events DEF DenyRead, Audited
<1>2. RowsFollow' /\ VaultFollows' /\ TaskOK'
  BY <1>1, AuditKeeps, DoneKeepsTasks DEF Done
<1>3. AuditJudges' /\ EveryReadIsAudited' /\ DeletionIsAccounted'
  BY <1>1 DEF IInv, AuditJudges, EveryReadIsAudited, DeletionIsAccounted
<1> QED BY <1>2, <1>3 DEF IInv

LEMMA DeleteKeeps ==
  ASSUME IInv, NEW c \in Client, Delete(c)
  PROVE  IInv'
<1> DEFINE t == task[c]
           e == DeleteEvent(t.sha, t.call)
<1>1. /\ t.call \in DeleteCall /\ t.sha \in DOMAIN vault /\ ~Active(t.call.at) /\ TwoPeople(t.call)
      /\ audit' = audit \cup {e}
      /\ vault' = [vault EXCEPT ![t.sha] = [sealed |-> FALSE, receipt |-> t.call]]
      /\ UNCHANGED reads /\ Done(c)
  BY DEF Delete, Audited, IInv, TaskOK, Idle
<1>2. /\ e.sha = t.sha /\ e.action = "delete" /\ e.result = "allowed" /\ e.at = t.call.at
      /\ e.receipt = t.call
  BY <1>1, Events
<1>3. t.call.at \in Int /\ t.call.at > Retention
  BY <1>1, VaultConstants DEF Active
<1>4. RowsFollow' /\ VaultFollows' /\ TaskOK'
  BY <1>1, <1>2, AuditKeeps, DoneKeepsTasks DEF Done
<1>5. AuditJudges' /\ EveryReadIsAudited'
  BY <1>1, <1>2, <1>3 DEF IInv, AuditJudges, EveryReadIsAudited
<1>6. DeletionIsAccounted'
  BY <1>1, <1>2, <1>3 DEF IInv, DeletionIsAccounted, TwoPeople
<1> QED BY <1>4, <1>5, <1>6 DEF IInv

LEMMA DenyDeleteKeeps ==
  ASSUME IInv, NEW c \in Client, DenyDelete(c)
  PROVE  IInv'
<1> DEFINE e == DeleteEvent(task[c].sha, task[c].call)
<1>1. /\ audit' = audit \cup {e} /\ e.action = "delete" /\ e.result = "denied"
      /\ UNCHANGED <<vault, reads>> /\ Done(c)
  BY Events DEF DenyDelete, Audited
<1>2. RowsFollow' /\ VaultFollows' /\ TaskOK'
  BY <1>1, AuditKeeps, DoneKeepsTasks DEF Done
<1>3. AuditJudges' /\ EveryReadIsAudited' /\ DeletionIsAccounted'
  BY <1>1 DEF IInv, AuditJudges, EveryReadIsAudited, DeletionIsAccounted
<1> QED BY <1>2, <1>3 DEF IInv

LEMMA AbandonKeeps ==
  ASSUME IInv, NEW c \in Client, Abandon(c)
  PROVE  IInv'
  BY DoneKeepsTasks, TaskStepKeeps DEF Abandon, Done

LEMMA NextInv == IInv /\ [Next]_vars => IInv'
<1> SUFFICES ASSUME IInv, [Next]_vars PROVE IInv'
  OBVIOUS
<1>1. CASE UNCHANGED vars
  BY <1>1 DEF vars, IInv, RowsFollow, VaultFollows, TaskOK, AuditJudges,
              EveryReadIsAudited, DeletionIsAccounted
<1>2. CASE Next
  <2>1. PICK c \in Client :
          \/ \E i \in Input : Ingest(c, i)
          \/ \E s \in DOMAIN vault : \/ \E r \in ReadCall : Select(c, "read", s, r)
                                     \/ \E r \in DeleteCall : Select(c, "delete", s, r)
          \/ Read(c) \/ DenyRead(c) \/ Delete(c) \/ DenyDelete(c) \/ Abandon(c)
    BY <1>2 DEF Next
  <2> QED BY <2>1, IngestKeeps, SelectKeeps, ReadKeeps, DenyReadKeeps, DeleteKeeps,
             DenyDeleteKeeps, AbandonKeeps
<1> QED BY <1>1, <1>2

-----------------------------------------------------------------------------
(* The theorems. *)

\* Rows, vault, tasks and audit fit together, and their judgements were right.
THEOREM Inductive == Spec => []IInv
  BY InitInv, NextInv, PTL DEF Spec

\* No plaintext without an audit event of its own, by a reader with a purpose
\* inside the retention.
THEOREM ReadsAreAudited == Spec => []EveryReadIsAudited
<1>1. IInv => EveryReadIsAudited
  BY DEF IInv
<1> QED BY <1>1, Inductive, PTL

\* What is gone was deleted by two people after the retention.
THEOREM DeletionsAreAccounted == Spec => []DeletionIsAccounted
<1>1. IInv => DeletionIsAccounted
  BY DEF IInv
<1> QED BY <1>1, Inductive, PTL

\* No instant allows a read and a deletion of the same evidence.
THEOREM ReadsPrecedeDeletions == Spec => []ReadBeforeDelete
<1>1. IInv => ReadBeforeDelete
  <2> SUFFICES ASSUME IInv, NEW e \in audit, NEW d \in audit,
                      e.result = "allowed", d.result = "allowed",
                      e.action = "read", d.action = "delete"
               PROVE  e.at < d.at
    BY DEF ReadBeforeDelete
  <2> QED BY VaultConstants DEF IInv, AuditJudges
<1> QED BY <1>1, Inductive, PTL

\* Every unit is whole in one destination, sealed where it is the vault.
THEOREM DispositionsAreWhole == Spec => []WholeDisposition
<1>1. IInv => WholeDisposition
  <2> SUFFICES ASSUME IInv PROVE WholeDisposition
    OBVIOUS
  <2>1. ASSUME NEW s \in DOMAIN vault
        PROVE  Cardinality({r \in rows : r.table = "evidence_vault" /\ r.unit[1] = s}) = 1
    <3>1. PICK q \in ingress : q.destination = "evidence_vault" /\ q.unit[1] = s
      BY DEF IInv, VaultFollows
    <3>2. rows = {[table |-> r.destination, unit |-> r.unit] : r \in ingress}
      BY DEF IInv, RowsFollow
    <3>3. \A r \in ingress : r.destination = "evidence_vault" /\ r.unit[1] = s => r = q
      BY <3>1 DEF IInv, RowsFollow
    <3>4. {r \in rows : r.table = "evidence_vault" /\ r.unit[1] = s}
            = {[table |-> q.destination, unit |-> q.unit]}
      BY <3>1, <3>2, <3>3
    <3> QED BY <3>4, FS_Singleton
  <2> QED BY <2>1 DEF WholeDisposition, IInv, RowsFollow, VaultFollows
<1> QED BY <1>1, Inductive, PTL

\* The SQLite store implements the same log of dispositions as the other.
THEOREM VaultImplementsLog == Spec => VaultKeepsLog
<1>1. Init => Log!Init
  BY DEF Init, Log!Init
<1>2. IInv /\ [Next]_vars => [Log!Next]_(Log!vars)
  <2> SUFFICES ASSUME IInv, [Next]_vars PROVE [Log!Next]_(Log!vars)
    OBVIOUS
  <2>1. ASSUME NEW i \in Input, ~Conflicts(i), Store(i)
        PROVE  Log!Next
    <3> DEFINE u == Unit(i)
               d == Destination(i)
    <3>1. u \in {Unit(j) : j \in Input} /\ d \in Log!Destinations /\ u[1] = i.sha
      BY VaultConstants DEF Destination, Log!Destinations, Unit
    <3>2. Log!MayDispose(u, d)
      <4>1. \A r \in ingress : r.unit # u
        BY <2>1 DEF Conflicts
      <4>2. ASSUME d = "evidence_vault", NEW r \in rows, r.table = "evidence_vault"
            PROVE  r.unit[1] # u[1]
        <5>1. PICK q \in ingress : r = [table |-> q.destination, unit |-> q.unit]
          BY DEF IInv, RowsFollow
        <5>2. q.unit[1] \in DOMAIN vault
          BY <4>2, <5>1 DEF IInv, VaultFollows
        <5>3. i.sha \notin DOMAIN vault
          BY <2>1, <4>2 DEF Conflicts
        <5> QED BY <3>1, <5>1, <5>2, <5>3
      <4> QED BY <4>1, <4>2 DEF Log!MayDispose
    <3>3. {e.sha : e \in {f \in audit' : f.action = "seal"}}
            = IF d = "evidence_vault" THEN {e.sha : e \in {f \in audit : f.action = "seal"}} \cup {u[1]}
              ELSE {e.sha : e \in {f \in audit : f.action = "seal"}}
      <4>1. CASE d = "evidence_vault"
        <5>1. {f \in audit' : f.action = "seal"} = {f \in audit : f.action = "seal"} \cup {SealEvent(i)}
          <6>1. audit' = audit \cup {SealEvent(i)}
            BY <2>1, <4>1 DEF Store
          <6>2. SealEvent(i).action = "seal"
            BY Events
          <6> QED BY <6>1, <6>2
        <5>2. SealEvent(i).sha = u[1]
          BY <3>1, Events
        <5> QED BY <4>1, <5>1, <5>2, Zenon
      <4>2. CASE d # "evidence_vault"
        <5>1. audit' = audit
          BY <2>1, <4>2 DEF Store
        <5> QED BY <4>2, <5>1
      <4> QED BY <4>1, <4>2
    <3>4. Log!Dispose(u, d)
      <4>1. /\ ingress' = ingress \cup {[unit |-> u, destination |-> d]}
            /\ rows' = rows \cup {[table |-> d, unit |-> u]}
        BY <2>1 DEF Store
      <4> QED BY <3>2, <3>3, <4>1 DEF Log!Dispose
    <3> QED BY <3>1, <3>4 DEF Log!Next
  <2>2. CASE UNCHANGED <<ingress, rows, audit>>
    BY <2>2 DEF Log!vars
  <2>3. ASSUME NEW e, e.action # "seal", audit' = audit \cup {e}, UNCHANGED <<ingress, rows>>
        PROVE  UNCHANGED Log!vars
    <3>1. {f \in audit' : f.action = "seal"} = {f \in audit : f.action = "seal"}
      BY <2>3
    <3> QED BY <2>3, <3>1 DEF Log!vars
  <2>4. ASSUME NEW c \in Client, Read(c) \/ DenyRead(c)
        PROVE  UNCHANGED Log!vars
    BY <2>3, <2>4, Events DEF Read, DenyRead, Audited, Done
  <2>5. ASSUME NEW c \in Client, Delete(c) \/ DenyDelete(c)
        PROVE  UNCHANGED Log!vars
    BY <2>3, <2>5, Events DEF Delete, DenyDelete, Audited, Done
  <2>6. ASSUME NEW c \in Client, NEW i \in Input, Ingest(c, i)
        PROVE  [Log!Next]_(Log!vars)
    BY <2>1, <2>2, <2>6 DEF Ingest
  <2> QED BY <2>2, <2>4, <2>5, <2>6 DEF Next, vars, Select, Abandon, Done
<1> QED BY <1>1, <1>2, Inductive, PTL DEF Spec, VaultKeepsLog, Log!Spec

-----------------------------------------------------------------------------
(* The other components. *)

\* A step moves one component or none.
LEMMA StepsApart ==
  ASSUME [RecordsNext]_recordsVars
  PROVE  /\ [Next]_vars
         /\ Sos!Next \/ UNCHANGED arrived
         /\ Fed!Next \/ UNCHANGED received
         /\ Beacon!Next \/ UNCHANGED beaconVars
         /\ Rf!Next \/ UNCHANGED rfVars
         /\ Rep!Next \/ UNCHANGED replayVars
<1>1. CASE RecordsNext
  BY <1>1 DEF RecordsNext, VaultMoves, SosMoves, FederationMoves, BeaconsMove, RfMoves, SimulatorMoves, ReplayMoves
<1>2. CASE UNCHANGED recordsVars
  BY <1>2 DEF recordsVars
<1> QED BY <1>1, <1>2

\* In a behaviour of the whole, the vault behaves as it does alone: what is
\* proved of it above holds here.
LEMMA VaultBehaves == RecordsSpec => Spec
<1>1. RecordsInit => Init
  BY DEF RecordsInit
<1>2. [RecordsNext]_recordsVars => [Next]_vars
  BY StepsApart
<1> QED BY <1>1, <1>2, PTL DEF RecordsSpec, Spec

-----------------------------------------------------------------------------
(* Federation                                                              *)

FederationInv == IsFiniteSet(DOMAIN received)

LEMMA FederationNext ==
  ASSUME FederationInv, Fed!Next \/ UNCHANGED received
  PROVE  FederationInv'
<1>1. ASSUME NEW e \in Fed!Event, Fed!Deliver(e) PROVE FederationInv'
  <2>1. DOMAIN received' = DOMAIN received \cup {e}
    BY <1>1 DEF Fed!Deliver, Fed!SetToBag, Fed!(+)
  <2> QED BY <2>1, FS_AddElement DEF FederationInv
<1> QED BY <1>1 DEF Fed!Next, FederationInv

LEMMA CardinalityOfFed == \A S : Fed!Cardinality(S) = Cardinality(S)
BY DEF Fed!Cardinality, Cardinality

\* Of an id without a conflict there is one body, and it is accepted.
LEMMA AcceptedWithoutConflict ==
  ASSUME FederationInv, NEW e \in DOMAIN received, e.id \notin Fed!IntegrityConflicts(received)
  PROVE  e \in Fed!Accepted(received)
<1> DEFINE V == Fed!Variants(received, e.id)
<1>1. e \in V /\ V \in SUBSET (DOMAIN received)
  BY DEF Fed!Variants, Fed!BagToSet
<1>2. IsFiniteSet(V) /\ Cardinality(V) \in Nat
  <2> HIDE DEF V
  <2> QED BY <1>1, FS_Subset, FS_CardinalityType DEF FederationInv
<1>3. Cardinality(V) # 0
  <2> HIDE DEF V
  <2> QED BY <1>1, <1>2, FS_EmptySet
<1>4. ~(Cardinality(V) > 1)
  BY CardinalityOfFed DEF Fed!IntegrityConflicts, Fed!EventIds, Fed!BagToSet
<1>5. Cardinality(V) = 1
  <2> HIDE DEF V
  <2> QED BY <1>2, <1>3, <1>4
<1> QED BY <1>5, CardinalityOfFed DEF Fed!Accepted, Fed!BagToSet

\* A finite set with two members has more than one.
LEMMA MoreThanOne ==
  ASSUME NEW S, IsFiniteSet(S), NEW x \in S, NEW y \in S, x # y
  PROVE  Cardinality(S) > 1
<1>1. Cardinality(S) \in Nat
  BY FS_CardinalityType
<1>2. Cardinality(S) # 0
  BY FS_EmptySet
<1>3. Cardinality(S) # 1
  BY FS_Singleton
<1> QED BY <1>1, <1>2, <1>3

\* Two claims of one offer or request stand before people as a conflict, or one
\* of them as tampered with, whatever was delivered how often and in which order.
THEOREM ClaimsAreShown == RecordsSpec => []ClaimsStayVisible
<1>1. RecordsInit => FederationInv
  BY FS_EmptySet DEF RecordsInit, Fed!Init, Fed!EmptyBag, Fed!SetToBag, FederationInv
<1>2. FederationInv /\ [RecordsNext]_recordsVars => FederationInv'
  BY FederationNext, StepsApart
<1>3. FederationInv => ClaimsStayVisible
  <2> SUFFICES ASSUME FederationInv, NEW e \in DOMAIN received, NEW f \in DOMAIN received,
                      e.id # f.id, e.type = f.type, e.type \in Fed!Exclusive,
                      Head(e.sources) = Head(f.sources),
                      e.id \notin Fed!IntegrityConflicts(received),
                      f.id \notin Fed!IntegrityConflicts(received)
               PROVE  \E g \in Fed!SemanticConflicts(received) : {e, f} \subseteq g
    BY DEF ClaimsStayVisible, Fed!ClaimsStayVisible, Fed!BagToSet
  <2> DEFINE g == Fed!Group(received, Fed!GroupKey(e))
  <2>1. e \in Fed!Accepted(received) /\ f \in Fed!Accepted(received)
    BY AcceptedWithoutConflict
  <2>2. e \in g /\ f \in g /\ e # f
    BY <2>1 DEF Fed!Group, Fed!GroupKey
  <2>3. g \in SUBSET (DOMAIN received)
    BY DEF Fed!Group, Fed!Accepted, Fed!BagToSet
  <2>4. Cardinality(g) > 1
    <3> HIDE DEF g
    <3>1. IsFiniteSet(g)
      BY <2>3, FS_Subset DEF FederationInv
    <3> QED BY <2>2, <3>1, MoreThanOne
  <2>5. g \in Fed!SemanticConflicts(received)
    BY <2>1, <2>4, CardinalityOfFed DEF Fed!SemanticConflicts
  <2> QED BY <2>2, <2>5
<1> QED BY <1>1, <1>2, <1>3, PTL DEF RecordsSpec

-----------------------------------------------------------------------------
(* BeaconCampaign                                                          *)

BeaconsInv == log \in Seq(Authorization)

LEMMA BeaconsNext ==
  ASSUME BeaconsInv, Beacon!Next \/ UNCHANGED beaconVars
  PROVE  BeaconsInv'
<1>1. ASSUME NEW e \in Authorization, Beacon!Log(e) PROVE BeaconsInv'
  BY <1>1, AppendProperties DEF Beacon!Log, BeaconsInv
<1>2. ASSUME NEW s \in Source, Beacon!Observe(s) PROVE BeaconsInv'
  BY <1>2 DEF Beacon!Observe, BeaconsInv
<1>3. ASSUME NEW c \in Beacon!Case, Beacon!Judge(c) PROVE BeaconsInv'
  BY <1>3 DEF Beacon!Judge, BeaconsInv
<1>4. CASE UNCHANGED beaconVars
  BY <1>4 DEF beaconVars, BeaconsInv
<1> QED BY <1>1, <1>2, <1>3, <1>4 DEF Beacon!Next

\* A non-empty set of naturals has a least element.
LEMMA LeastNat ==
  ASSUME NEW S, S \subseteq Nat, S # {}
  PROVE  \E x \in S : \A y \in S : x <= y
<1> DEFINE Less == OpToRel(<, Nat)
<1>1. IsWellFoundedOn(Less, Nat)
  BY NatLessThanWellFounded
<1>2. \A x, y \in Nat : y < x => <<y, x>> \in Less
  BY DEF OpToRel
<1> HIDE DEF Less
<1>3. PICK x \in S : \A y \in S : <<y, x>> \notin Less
  BY <1>1, WFMin
<1>4. ASSUME NEW y \in S PROVE x <= y
  <2>1. x \in Nat /\ y \in Nat
    OBVIOUS
  <2>2. ~(y < x)
    BY <1>2, <1>3, <2>1
  <2> QED BY <2>1, <2>2
<1> QED
  BY <1>4

\* Of a non-empty set of positions there is a last one.
LEMMA LastPosition ==
  ASSUME NEW n \in Nat, NEW S \in SUBSET (1..n), S # {}
  PROVE  Beacon!Max(S) \in S
<1> DEFINE T == {n - x : x \in S}
<1>1. T \subseteq Nat /\ T # {}
  <2>1. \A x \in S : x \in 1..n /\ n - x \in Nat
    OBVIOUS
  <2>2. \E x : x \in S
    OBVIOUS
  <2> QED BY <2>1, <2>2
<1>2. PICK t \in T : \A u \in T : t <= u
  <2> HIDE DEF T
  <2> QED BY <1>1, LeastNat
<1>3. PICK x \in S : t = n - x
  BY <1>2
<1>4. \A y \in S : x >= y
  <2> SUFFICES ASSUME NEW y \in S PROVE x >= y
    OBVIOUS
  <2>1. n - y \in T /\ x \in 1..n /\ y \in 1..n
    OBVIOUS
  <2>2. n - x <= n - y
    BY <1>2, <1>3, <2>1
  <2> QED BY <2>1, <2>2
<1> QED BY <1>4 DEF Beacon!Max

\* A capture is authorized by two people who are both active or by a commander's
\* break-glass within its limit, whatever else is logged and in which order.
THEOREM CapturesHaveAuthority == RecordsSpec => []CaptureHasAuthority
<1>1. RecordsInit => BeaconsInv
  BY DEF RecordsInit, Beacon!Init, BeaconsInv
<1>2. BeaconsInv /\ [RecordsNext]_recordsVars => BeaconsInv'
  BY BeaconsNext, StepsApart
<1>3. BeaconsInv => CaptureHasAuthority
  <2> SUFFICES ASSUME BeaconsInv, NEW t \in Time, Beacon!Authorized(log, t)
               PROVE  \/ \A r \in Beacon!Roles : \E i \in DOMAIN log :
                           log[i].actor = r /\ Beacon!ActiveAt(log[i], t)
                      \/ \E i \in DOMAIN log :
                           /\ log[i].type = "break_glass" /\ log[i].actor = "incident-commander"
                           /\ log[i].from <= t /\ t <= log[i].from + MaxBreakGlass
    BY DEF CaptureHasAuthority, Beacon!CaptureHasAuthority
  <2> DEFINE B == Beacon!BreakGlass(log, t)
  <2>1. CASE B = {}
    <3>1. Beacon!Roles \subseteq Beacon!Actors(log, t)
      BY <2>1 DEF Beacon!Authorized, Beacon!DualAuthorization
    <3> QED BY <3>1 DEF Beacon!Actors, Beacon!Active
  <2>2. CASE B # {}
    <3> DEFINE m == Beacon!Max(B)
    <3>1. Len(log) \in Nat /\ DOMAIN log = 1..Len(log) /\ \A i \in DOMAIN log : log[i] \in Authorization
      BY DEF BeaconsInv
    <3>2. B \in SUBSET (1..Len(log))
      BY <3>1 DEF Beacon!BreakGlass, Beacon!Active
    <3>3. m \in B
      <4> HIDE DEF B
      <4> QED BY <2>2, <3>1, <3>2, LastPosition
    <3>4. /\ m \in DOMAIN log /\ log[m].type = "break_glass"
          /\ log[m].from <= t /\ t <= log[m].until
      BY <3>3 DEF Beacon!BreakGlass, Beacon!Active, Beacon!ActiveAt
    <3>5. log[m].actor = "incident-commander" /\ Beacon!Short(log[m])
      BY <2>2 DEF Beacon!Authorized
    <3>6. log[m].from \in Int /\ log[m].until \in Int /\ t \in Int /\ MaxBreakGlass \in Nat
      BY <3>1, <3>4, AuthorityConstants
    <3>7. t <= log[m].from + MaxBreakGlass
      BY <3>4, <3>5, <3>6 DEF Beacon!Short
    <3> QED BY <3>4, <3>5, <3>7
  <2> QED BY <2>1, <2>2
<1> QED BY <1>1, <1>2, <1>3, PTL DEF RecordsSpec

-----------------------------------------------------------------------------
(* Replay                                                                  *)

\* The members of a sequence.
Members(s) == {s[i] : i \in DOMAIN s}

IsSequence(s) == s \in Seq(Members(s))

ReplayInv == IsSequence(bundle) /\ IsSequence(written)

LEMMA Appended ==
  ASSUME NEW s, IsSequence(s), NEW e
  PROVE  IsSequence(Append(s, e)) /\ Members(Append(s, e)) = Members(s) \cup {e}
<1> DEFINE T == Members(s) \cup {e}
           a == Append(s, e)
<1>1. s \in Seq(T) /\ e \in T
  BY DEF IsSequence
<1>2. /\ a \in Seq(T) /\ Len(a) = Len(s) + 1 /\ Len(s) \in Nat
      /\ \A i \in 1..Len(s) : a[i] = s[i]
      /\ a[Len(s) + 1] = e
  <2> HIDE DEF T
  <2> QED BY <1>1, AppendProperties
<1>3. DOMAIN s = 1..Len(s) /\ DOMAIN a = 1 .. Len(s) + 1
  BY <1>1, <1>2
<1>4. Members(a) = T
  <2> HIDE DEF a
  <2>1. \A i \in DOMAIN s : i \in DOMAIN a /\ a[i] = s[i]
    BY <1>2, <1>3
  <2>2. Len(s) + 1 \in DOMAIN a
    BY <1>2, <1>3
  <2>3. \A i \in DOMAIN a : i \in DOMAIN s \/ i = Len(s) + 1
    BY <1>2, <1>3
  <2> QED BY <1>2, <2>1, <2>2, <2>3 DEF Members
<1> QED BY <1>2, <1>4 DEF IsSequence

LEMMA ReplayNext ==
  ASSUME ReplayInv, Rep!Next \/ UNCHANGED replayVars
  PROVE  ReplayInv'
<1>1. ASSUME NEW o \in Recorded, Rep!Record(o) PROVE ReplayInv'
  <2>1. bundle' = Append(bundle, o) /\ written' = written
    BY <1>1 DEF Rep!Record
  <2>2. IsSequence(Append(bundle, o)) /\ IsSequence(written)
    BY Appended DEF ReplayInv
  <2> QED BY <2>1, <2>2 DEF ReplayInv, IsSequence, Members
<1>2. CASE Rep!Adapt
  <2>1. written' = Rep!AdapterRun /\ bundle' = bundle
    BY <1>2 DEF Rep!Adapt
  <2>2. IsSequence(Rep!AdapterRun)
    <3> DEFINE a == [i \in DOMAIN bundle |-> Rep!AdapterEvent(i)]
    <3>1. DOMAIN bundle = 1..Len(bundle) /\ Len(bundle) \in Nat
      BY DEF ReplayInv, IsSequence
    <3>2. \A i \in 1..Len(bundle) : a[i] \in Members(a)
      BY <3>1 DEF Members
    <3>3. a \in Seq(Members(a))
      BY <3>1, <3>2
    <3> HIDE DEF a
    <3>4. IsSequence(a) /\ IsSequence(<<>>)
      BY <3>3 DEF IsSequence, Members
    <3> QED BY <3>4 DEF a, Rep!AdapterRun
  <2> QED BY <2>1, <2>2 DEF ReplayInv, IsSequence, Members
<1>3. ASSUME NEW e, Rep!Write(e) PROVE ReplayInv'
  <2>1. written' = Append(written, e) /\ bundle' = bundle
    BY <1>3 DEF Rep!Write
  <2>2. IsSequence(Append(written, e)) /\ IsSequence(bundle)
    BY Appended DEF ReplayInv
  <2> QED BY <2>1, <2>2 DEF ReplayInv, IsSequence, Members
<1>4. ASSUME NEW i \in DOMAIN written, Rep!Repeat(i) PROVE ReplayInv'
  <2>1. written' = Append(written, written[i]) /\ bundle' = bundle
    BY <1>4 DEF Rep!Repeat
  <2>2. IsSequence(Append(written, written[i])) /\ IsSequence(bundle)
    BY Appended DEF ReplayInv
  <2> QED BY <2>1, <2>2 DEF ReplayInv, IsSequence, Members
<1>5. CASE UNCHANGED replayVars
  BY <1>5 DEF replayVars, ReplayInv, IsSequence, Members
<1> QED BY <1>1, <1>2, <1>3, <1>4, <1>5 DEF Rep!Next

\* What a replay derives, event by event.
LEMMA OutputsOf ==
  ASSUME NEW l, IsSequence(l)
  PROVE  Rep!ToSet(Rep!Outputs(l)) =
           {Rep!Derived(e, "evidence") : e \in Members(l)}
             \cup {Rep!Derived(Rep!Derived(e, "evidence"), "fusion_result") : e \in Members(l)}
<1> DEFINE n == Len(l)
           v == [i \in DOMAIN l |-> Rep!Derived(l[i], "evidence")]
           f == [i \in DOMAIN l |-> Rep!Derived(v[i], "fusion_result")]
           T == Members(v) \cup Members(f)
<1>1. n \in Nat /\ DOMAIN l = 1..n
  BY DEF IsSequence
<1>2. /\ \A i \in 1..n : v[i] \in T /\ f[i] \in T
  BY <1>1 DEF Members
<1>3. v \in Seq(T) /\ f \in Seq(T) /\ Len(v) = n /\ Len(f) = n
  <2>1. v \in Seq(T) /\ f \in Seq(T)
    <3> HIDE DEF T
    <3> QED BY <1>1, <1>2
  <2> QED BY <1>1, <2>1
<1>4. Rep!Outputs(l) = v \o f
  BY DEF Rep!Outputs
<1> HIDE DEF v, f, T
<1> DEFINE o == v \o f
<1>5. /\ DOMAIN o = 1 .. n + n
      /\ \A i \in 1 .. n + n : o[i] = IF i <= n THEN v[i] ELSE f[i - n]
  <2>1. /\ o \in Seq(T) /\ Len(o) = n + n
        /\ \A i \in 1 .. n + n : o[i] = IF i <= n THEN v[i] ELSE f[i - n]
    BY <1>1, <1>3, ConcatProperties
  <2> QED BY <1>1, <2>1
<1> HIDE DEF o
<1>6. Members(o) = {v[i] : i \in 1..n} \cup {f[i] : i \in 1..n}
  <2>1. \A i \in 1..n : i \in DOMAIN o /\ o[i] = v[i] /\ i + n \in DOMAIN o /\ o[i + n] = f[i]
    BY <1>1, <1>5
  <2>2. \A i \in DOMAIN o : (i \in 1..n /\ o[i] = v[i]) \/ (i - n \in 1..n /\ o[i] = f[i - n])
    BY <1>1, <1>5
  <2> QED BY <2>1, <2>2 DEF Members
<1>7. \A i \in 1..n : v[i] = Rep!Derived(l[i], "evidence") /\ f[i] = Rep!Derived(v[i], "fusion_result")
  BY <1>1 DEF v, f
<1>8. Rep!ToSet(Rep!Outputs(l)) = Members(o)
  BY <1>4 DEF Rep!ToSet, Members, o
<1>9. /\ {v[i] : i \in 1..n} = {Rep!Derived(e, "evidence") : e \in Members(l)}
      /\ {f[i] : i \in 1..n} =
           {Rep!Derived(Rep!Derived(e, "evidence"), "fusion_result") : e \in Members(l)}
  <2>1. Members(l) = {l[i] : i \in 1..n}
    BY <1>1 DEF Members
  <2> QED BY <1>7, <2>1
<1> QED BY <1>6, <1>8, <1>9

\* A replay is a function of the set of events, in whatever order and however
\* often they occur.
LEMMA CoreOfMembers ==
  ASSUME NEW l, NEW m, IsSequence(l), IsSequence(m), Members(l) = Members(m)
  PROVE  Rep!Core(l) = Rep!Core(m)
<1>1. Rep!ToSet(l) = Members(l) /\ Rep!ToSet(m) = Members(m)
  BY DEF Rep!ToSet, Members
<1>2. Rep!ToSet(Rep!Outputs(l)) = Rep!ToSet(Rep!Outputs(m))
  BY OutputsOf
<1>3. \A s : /\ (\A i \in DOMAIN s : Rep!Valid(s[i])) <=> \A e \in Members(s) : Rep!Valid(e)
             /\ Rep!Collides(s) <=> \E a, b \in Members(s) : a.key = b.key /\ a # b
  BY DEF Rep!Collides, Members
<1>4. Rep!Advances(l) <=> Rep!Advances(m)
  BY <1>1 DEF Rep!Advances
<1>5. Rep!ValidSet(l) <=> Rep!ValidSet(m)
  BY <1>3, <1>4 DEF Rep!ValidSet
<1>6. Rep!Raises(l) <=> Rep!Raises(m)
  BY <1>2 DEF Rep!Raises
<1>7. Rep!Result(l) = Rep!Result(m)
  BY <1>5, <1>6 DEF Rep!Result
<1> QED BY <1>1, <1>2, <1>7 DEF Rep!Core

\* A log in any order, and one in which events occur again, replays to the same
\* end.
THEOREM ReplaysAreOrderFree == RecordsSpec => []ReplayIsOrderFree
<1>1. RecordsInit => ReplayInv
  BY DEF RecordsInit, Rep!Init, ReplayInv, IsSequence, Members
<1>2. ReplayInv /\ [RecordsNext]_recordsVars => ReplayInv'
  BY ReplayNext, StepsApart
<1>3. ReplayInv => ReplayIsOrderFree
  <2> SUFFICES ASSUME ReplayInv, NEW p \in Rep!Bijection(DOMAIN written, DOMAIN written)
               PROVE  LET l == [i \in DOMAIN written |-> written[p[i]]]
                      IN /\ Rep!Core(l) = Rep!Core(written)
                         /\ \A i \in DOMAIN l : Rep!Core(Append(l, l[i])) = Rep!Core(written)
    BY DEF ReplayIsOrderFree, Rep!ReplayIsOrderFree
  <2> DEFINE l == [i \in DOMAIN written |-> written[p[i]]]
  <2>1. /\ p \in [DOMAIN written -> DOMAIN written]
        /\ \A w \in DOMAIN written : \E i \in DOMAIN written : p[i] = w
    BY DEF Rep!Bijection, Rep!Injection, Rep!Surjection
  <2>2. Members(l) = Members(written)
    BY <2>1 DEF Members
  <2>3. IsSequence(l)
    <3>1. DOMAIN written = 1..Len(written) /\ Len(written) \in Nat
      BY DEF ReplayInv, IsSequence
    <3>2. \A i \in 1..Len(written) : l[i] \in Members(l)
      BY <3>1 DEF Members
    <3>3. l \in Seq(Members(l))
      BY <3>1, <3>2
    <3> QED BY <3>3 DEF IsSequence
  <2>4. \A i \in DOMAIN l : l[i] \in Members(l)
    BY DEF Members
  <2> HIDE DEF l
  <2>5. Rep!Core(l) = Rep!Core(written)
    BY <2>2, <2>3, CoreOfMembers DEF ReplayInv
  <2>6. ASSUME NEW i \in DOMAIN l PROVE Rep!Core(Append(l, l[i])) = Rep!Core(written)
    <3>1. IsSequence(Append(l, l[i])) /\ Members(Append(l, l[i])) = Members(l)
      BY <2>3, <2>4, Appended
    <3> QED BY <2>2, <3>1, CoreOfMembers DEF ReplayInv
  <2> QED BY <2>5, <2>6 DEF l
<1> QED BY <1>1, <1>2, <1>3, PTL DEF RecordsSpec

-----------------------------------------------------------------------------
(* What the replay of SOS events depends on.                               *)

SosInv == arrived \in Seq(SosEvent)

LEMMA SosNext == SosInv /\ Sos!Next => SosInv'
<1> SUFFICES ASSUME SosInv, NEW e \in SosEvent, Sos!Arrive(e) PROVE SosInv'
  BY DEF Sos!Next
<1> QED BY DEF SosInv, Sos!Arrive

\* What an event that is not refused has before it.
LEMMA NotRefused ==
  ASSUME NEW e, NEW accepted
  PROVE  (Sos!Refusal(e, accepted) = "none") <=>
           /\ e.id \notin Sos!Ids(accepted)
           /\ e.causes \subseteq Sos!Ids(accepted)
           /\ e.type = "operator.accepted" => e.acceptor /\ ~Sos!LacksPrerequisites(e, accepted)
<1>1. CASE e.id \in Sos!Ids(accepted)
  BY <1>1 DEF Sos!Refusal
<1>2. CASE e.id \notin Sos!Ids(accepted) /\ ~(e.causes \subseteq Sos!Ids(accepted))
  BY <1>2 DEF Sos!Refusal
<1>3. CASE e.id \notin Sos!Ids(accepted) /\ e.causes \subseteq Sos!Ids(accepted)
  <2>1. CASE e.type # "operator.accepted"
    BY <1>3, <2>1 DEF Sos!Refusal
  <2>2. CASE e.type = "operator.accepted"
    BY <1>3, <2>2 DEF Sos!Refusal
  <2> QED BY <2>1, <2>2
<1> QED BY <1>1, <1>2, <1>3

\* Some two positions of a log hold an event and a cause of its own time.
Ties(l) == \E i, j \in DOMAIN l : l[i].at = l[j].at /\ l[i].id \in l[j].causes

\* The events of one log in the order of another: p says where each one was.
Rearranges(p, l, other) ==
  /\ p \in [DOMAIN other -> DOMAIN l]
  /\ \A i, j \in DOMAIN other : p[i] = p[j] => i = j
  /\ \A k \in DOMAIN l : \E i \in DOMAIN other : p[i] = k
  /\ \A i \in DOMAIN other : other[i] = l[p[i]]

\* A history without a tie that reduces does so in any order of arrival.
LEMMA AnyOrderReduces ==
  ASSUME NEW l \in Seq(SosEvent), NEW other \in Seq(SosEvent), NEW p, Rearranges(p, l, other),
         ~Ties(l), Sos!Reduces(l)
  PROVE  Sos!Reduces(other)
<1> USE SosConstants
<1>1. /\ DOMAIN l \subseteq Int /\ \A i \in DOMAIN l : l[i].at \in Int
      /\ DOMAIN other \subseteq Int /\ \A i \in DOMAIN other : other[i].at \in Int
  OBVIOUS
<1>2. ASSUME NEW j \in DOMAIN l
      PROVE  /\ \A i \in DOMAIN l : Sos!Precedes(l, i, j) => l[i].id # l[j].id
             /\ \A c \in l[j].causes : \E i \in DOMAIN l : Sos!Precedes(l, i, j) /\ l[i].id = c
             /\ l[j].type = "operator.accepted" =>
                  l[j].acceptor /\ ~Sos!LacksPrerequisites(l[j], Sos!Before(l, j))
  <2>1. Sos!Refusal(l[j], Sos!Before(l, j)) = "none"
    BY DEF Sos!Reduces
  <2> QED BY <2>1, NotRefused DEF Sos!Before, Sos!Ids
<1>3. \A i, j \in DOMAIN l : l[i].id = l[j].id => i = j
  BY <1>1, <1>2 DEF Sos!Precedes
<1> SUFFICES ASSUME NEW j \in DOMAIN other
             PROVE  Sos!Refusal(other[j], Sos!Before(other, j)) = "none"
  BY DEF Sos!Reduces
<1>4. p[j] \in DOMAIN l /\ other[j] = l[p[j]]
  BY DEF Rearranges
<1>5. other[j].id \notin Sos!Ids(Sos!Before(other, j))
  <2> SUFFICES ASSUME NEW i \in DOMAIN other, Sos!Precedes(other, i, j), other[i].id = other[j].id
               PROVE  FALSE
    BY DEF Sos!Before, Sos!Ids
  <2>1. i # j
    BY <1>1 DEF Sos!Precedes
  <2> QED BY <1>3, <2>1 DEF Rearranges
<1>6. \A f \in Sos!Before(l, p[j]) : f.id \in other[j].causes => f \in Sos!Before(other, j)
  <2> SUFFICES ASSUME NEW k \in DOMAIN l, Sos!Precedes(l, k, p[j]), l[k].id \in other[j].causes
               PROVE  l[k] \in Sos!Before(other, j)
    BY DEF Sos!Before
  <2>1. l[k].at # l[p[j]].at
    BY <1>4 DEF Ties
  <2>2. PICK i \in DOMAIN other : p[i] = k
    BY DEF Rearranges
  <2>3. other[i] = l[k] /\ other[i].at < other[j].at
    BY <1>4, <2>1, <2>2 DEF Rearranges, Sos!Precedes
  <2>4. Sos!Precedes(other, i, j)
    BY <2>3 DEF Sos!Precedes
  <2> QED BY <2>3, <2>4 DEF Sos!Before
<1>7. other[j].causes \subseteq Sos!Ids(Sos!Before(other, j))
  <2> SUFFICES ASSUME NEW c \in other[j].causes PROVE c \in Sos!Ids(Sos!Before(other, j))
    OBVIOUS
  <2>1. PICK i \in DOMAIN l : Sos!Precedes(l, i, p[j]) /\ l[i].id = c
    BY <1>2, <1>4
  <2>2. l[i] \in Sos!Before(other, j)
    BY <1>6, <2>1 DEF Sos!Before
  <2> QED BY <2>1, <2>2 DEF Sos!Ids
<1>8. other[j].type = "operator.accepted" =>
        other[j].acceptor /\ ~Sos!LacksPrerequisites(other[j], Sos!Before(other, j))
  <2> SUFFICES ASSUME other[j].type = "operator.accepted"
               PROVE  other[j].acceptor /\ ~Sos!LacksPrerequisites(other[j], Sos!Before(other, j))
    OBVIOUS
  <2>1. other[j].acceptor /\ ~Sos!LacksPrerequisites(other[j], Sos!Before(l, p[j]))
    BY <1>2, <1>4
  <2> QED BY <1>6, <2>1 DEF Sos!LacksPrerequisites, Sos!TypesOf
<1> QED BY <1>5, <1>7, <1>8, NotRefused

\* A log read backwards is the same events in another order, and back again.
LEMMA Backwards ==
  ASSUME NEW Item, NEW l \in Seq(Item)
  PROVE  /\ Sos!Reverse(l) \in Seq(Item)
         /\ Rearranges([i \in 1..Len(l) |-> Len(l) - i + 1], l, Sos!Reverse(l))
         /\ Rearranges([i \in 1..Len(l) |-> Len(l) - i + 1], Sos!Reverse(l), l)
<1> DEFINE n == Len(l)
           r == [i \in 1..n |-> n - i + 1]
           o == [i \in 1..n |-> l[n - i + 1]]
<1>1. n \in Nat /\ DOMAIN l = 1..n
  OBVIOUS
<1>2. Sos!Reverse(l) = o
  BY DEF Sos!Reverse
<1>3. /\ \A i \in 1..n : n - i + 1 \in 1..n /\ n - (n - i + 1) + 1 = i
      /\ \A i, j \in 1..n : n - i + 1 = n - j + 1 => i = j
  BY <1>1
<1>4. o \in Seq(Item) /\ DOMAIN o = 1..n
  <2>1. \A i \in 1..n : o[i] \in Item
    BY <1>1, <1>3
  <2> QED BY <1>1, <2>1
<1>5. r \in [1..n -> 1..n]
  BY <1>3
<1>6. /\ \A i, j \in 1..n : r[i] = r[j] => i = j
      /\ \A k \in 1..n : r[k] \in 1..n /\ r[r[k]] = k
  BY <1>3
<1>7. \A i \in 1..n : o[i] = l[r[i]] /\ l[i] = o[r[i]]
  BY <1>1, <1>3
<1> HIDE DEF n, r, o
<1>8. Rearranges(r, l, o) /\ Rearranges(r, o, l)
  BY <1>1, <1>4, <1>5, <1>6, <1>7 DEF Rearranges
<1> QED BY <1>2, <1>4, <1>8 DEF n, r

LEMMA TiesAnyOrder ==
  ASSUME NEW l, NEW other, NEW p, Rearranges(p, l, other), Ties(other)
  PROVE  Ties(l)
BY DEF Rearranges, Ties

LEMMA SameEvents ==
  ASSUME NEW l, NEW other, NEW p, Rearranges(p, l, other)
  PROVE  Sos!ToSet(l) = Sos!ToSet(other)
BY DEF Rearranges, Sos!ToSet

\* A log and its rearrangement are rearrangements of each other.
LEMMA Back ==
  ASSUME NEW l, NEW o, NEW p, Rearranges(p, l, o)
  PROVE  \E q : Rearranges(q, o, l)
<1> DEFINE q == [k \in DOMAIN l |-> CHOOSE i \in DOMAIN o : p[i] = k]
<1>1. \A k \in DOMAIN l : q[k] \in DOMAIN o /\ p[q[k]] = k
  BY DEF Rearranges
<1>2. \A i \in DOMAIN o : p[i] \in DOMAIN l /\ q[p[i]] = i
  BY <1>1 DEF Rearranges
<1>3. q \in [DOMAIN l -> DOMAIN o]
  BY <1>1
<1> HIDE DEF q
<1>4. Rearranges(q, o, l)
  BY <1>1, <1>2, <1>3 DEF Rearranges
<1> QED BY <1>4

\* Each of the orders a log may arrive in is a rearrangement of it.
LEMMA InAnyOrder ==
  ASSUME NEW l \in Seq(SosEvent), NEW other \in Sos!Arrivals(l)
  PROVE  /\ other \in Seq(SosEvent) /\ Len(other) = Len(l)
         /\ \E p : Rearranges(p, l, other)
<1> DEFINE D == DOMAIN l
<1>1. PICK p \in Bijection(D, D) : other = [i \in D |-> l[p[i]]]
  BY DEF Sos!Arrivals, Sos!Bijection, Sos!Injection, Sos!Surjection, Sos!IsInjective,
         Bijection, Injection, Surjection, IsInjective
<1>2. D = 1..Len(l) /\ Len(l) \in Nat /\ \A i \in D : l[i] \in SosEvent
  OBVIOUS
<1>3. p \in [D -> D]
  BY <1>1 DEF Bijection, Injection
<1>4. Rearranges(p, l, other)
  BY <1>1 DEF Rearranges, Bijection, Injection, Surjection, IsInjective
<1> DEFINE s == [i \in D |-> l[p[i]]]
<1>5. s \in Seq(SosEvent) /\ Len(s) = Len(l)
  <2>1. \A i \in 1..Len(l) : s[i] \in SosEvent
    BY <1>2, <1>3
  <2> QED BY <1>2, <2>1
<1> QED BY <1>1, <1>4, <1>5

(* Whatever events arrive, however many, the history reduces, and to the   *)
(* same states, in every other order of arrival, unless an event and one   *)
(* of its causes have the same occurred_at (openbrec/messaging.py          *)
(* reduce_sos).                                                            *)
THEOREM OrderDecidesTies == RecordsSpec => []OnlyTiesMatter
<1>1. RecordsInit => SosInv
  BY DEF RecordsInit, Sos!Init, SosInv
<1>2. SosInv /\ [RecordsNext]_recordsVars => SosInv'
  BY SosNext, StepsApart DEF SosInv
<1>3. SosInv => OnlyTiesMatter
  <2> SUFFICES ASSUME SosInv, ~Sos!TiesWithItsCause, NEW other \in Sos!Arrivals(arrived)
               PROVE  /\ Sos!Reduces(other) <=> Sos!Reduces(arrived)
                      /\ Sos!Technical(other) = Sos!Technical(arrived)
                      /\ Sos!Operational(other) = Sos!Operational(arrived)
    BY DEF OnlyTiesMatter, Sos!OnlyTiesMatter
  <2>1. PICK p : Rearranges(p, arrived, other)
    BY InAnyOrder DEF SosInv
  <2>2. PICK q : Rearranges(q, other, arrived)
    BY <2>1, Back
  <2>3. other \in Seq(SosEvent)
    BY InAnyOrder DEF SosInv
  <2>4. ~Ties(arrived)
    BY DEF Sos!TiesWithItsCause, Sos!ToSet, Ties
  <2>5. ~Ties(other)
    BY <2>1, <2>4, TiesAnyOrder
  <2>6. Sos!Reduces(other) <=> Sos!Reduces(arrived)
    BY <2>1, <2>2, <2>3, <2>4, <2>5, AnyOrderReduces DEF SosInv
  <2>7. Sos!ToSet(arrived) = Sos!ToSet(other)
    BY <2>1, SameEvents
  <2> QED BY <2>6, <2>7 DEF Sos!Technical, Sos!Operational
<1> QED BY <1>1, <1>2, <1>3, PTL DEF RecordsSpec

-----------------------------------------------------------------------------
(* What heals a refused history.                                           *)

\* Another event comes before some of the events of a log and after the others.
LEMMA OneMore ==
  ASSUME NEW l \in Seq(SosEvent), NEW e \in SosEvent, NEW j \in DOMAIN l
  PROVE  /\ j \in DOMAIN Append(l, e) /\ Append(l, e)[j] = l[j]
         /\ Sos!Before(l, j) \subseteq Sos!Before(Append(l, e), j)
         /\ Sos!Before(Append(l, e), j) \subseteq Sos!Before(l, j) \cup {e}
<1> DEFINE more == Append(l, e)
<1>1. /\ DOMAIN more = DOMAIN l \cup {Len(l) + 1} /\ more[Len(l) + 1] = e
      /\ \A i \in DOMAIN l : more[i] = l[i]
  OBVIOUS
<1> HIDE DEF more
<1>2. \A i \in DOMAIN l : Sos!Precedes(more, i, j) <=> Sos!Precedes(l, i, j)
  BY <1>1 DEF Sos!Precedes
<1>3. /\ Sos!Before(l, j) \subseteq Sos!Before(more, j)
      /\ Sos!Before(more, j) \subseteq Sos!Before(l, j) \cup {e}
  BY <1>1, <1>2 DEF Sos!Before
<1> QED BY <1>1, <1>3 DEF more

(* Whatever arrives after an event was refused, the history stays refused  *)
(* unless what arrives is a cause that some event names                    *)
(* (openbrec/messaging.py reduce_sos).                                     *)
THEOREM CausesHeal == RecordsSpec => OnlyACauseHeals
<1>1. RecordsInit => SosInv
  BY DEF RecordsInit, Sos!Init, SosInv
<1>2. SosInv /\ [RecordsNext]_recordsVars => SosInv'
  BY SosNext, StepsApart DEF SosInv
<1>3. ASSUME SosInv, [RecordsNext]_recordsVars
      PROVE  [~Sos!Reduces(arrived) /\ Sos!Reduces(arrived') =>
                Sos!Last(arrived').id \in UNION {e.causes : e \in Sos!ToSet(arrived)}]_arrived
  <2> SUFFICES ASSUME Sos!Next, ~Sos!Reduces(arrived), Sos!Reduces(arrived')
               PROVE  Sos!Last(arrived').id \in UNION {e.causes : e \in Sos!ToSet(arrived)}
    BY <1>3, StepsApart
  <2>1. PICK e \in SosEvent : arrived' = Append(arrived, e)
    BY DEF Sos!Next, Sos!Arrive
  <2>2. Sos!Last(arrived') = e
    BY <1>3, <2>1 DEF SosInv, Sos!Last
  <2>3. PICK j \in DOMAIN arrived : Sos!Refusal(arrived[j], Sos!Before(arrived, j)) # "none"
    BY DEF Sos!Reduces
  <2> DEFINE f == arrived[j]
             A == Sos!Before(arrived, j)
             B == Sos!Before(arrived', j)
  <2>4. /\ j \in DOMAIN arrived' /\ arrived'[j] = f
        /\ A \subseteq B /\ B \subseteq A \cup {e}
    BY <1>3, <2>1, OneMore DEF SosInv
  <2>5. Sos!Refusal(f, B) = "none"
    BY <2>4 DEF Sos!Reduces
  <2>6. f \in Sos!ToSet(arrived)
    BY DEF Sos!ToSet
  <2>7. Sos!Refusal(f, A) # "none"
    BY <2>3
  <2> HIDE DEF f, A, B
  <2>8. e.id \in f.causes
    <3> SUFFICES ASSUME e.id \notin f.causes PROVE Sos!Refusal(f, A) = "none"
      BY <2>7
    <3>1. /\ f.id \notin Sos!Ids(B) /\ f.causes \subseteq Sos!Ids(B)
          /\ f.type = "operator.accepted" => f.acceptor /\ ~Sos!LacksPrerequisites(f, B)
      BY <2>5, NotRefused
    <3>2. f.id \notin Sos!Ids(A) /\ f.causes \subseteq Sos!Ids(A)
      BY <2>4, <3>1 DEF Sos!Ids
    <3>3. {g \in A : g.id \in f.causes} = {g \in B : g.id \in f.causes}
      BY <2>4
    <3> QED BY <3>1, <3>2, <3>3, NotRefused DEF Sos!LacksPrerequisites
  <2> QED BY <2>2, <2>6, <2>8
<1> QED BY <1>1, <1>2, <1>3, PTL DEF RecordsSpec, OnlyACauseHeals, Sos!OnlyACauseHeals

-----------------------------------------------------------------------------
(* The orders a campaign of lines tries.                                   *)

EveryLine == UNION {Line[g] : g \in Rf!LineCampaigns}

RfInv == lines \in Seq(EveryLine)

LEMMA RfNext == RfInv /\ Rf!Next => RfInv'
<1> SUFFICES ASSUME RfInv, Rf!Next PROVE RfInv'
  OBVIOUS
<1>1. ASSUME NEW l \in EveryLine, Rf!Hear(l) PROVE RfInv'
  BY <1>1 DEF RfInv, Rf!Hear
<1>2. ASSUME NEW s \in DOMAIN Modalities, Rf!Activate(s) PROVE RfInv'
  BY <1>2 DEF RfInv, Rf!Activate
<1>3. ASSUME NEW c \in DOMAIN CsiCases, NEW jitter \in -2..2, Rf!Observe(c, jitter) PROVE RfInv'
  BY <1>3 DEF RfInv, Rf!Observe
<1> QED BY <1>1, <1>2, <1>3 DEF Rf!Next, EveryLine

\* The lines a projection can tell apart: of one case, or of any.
Of(x, c) == campaign = "passive" \/ x.case = c

ShownOf(ls, c) == {ls[i] : i \in {k \in Rf!Emitted(ls) : Of(ls[k], c)}}

\* No two lines of an id, among those.
IdsApart(ls, c) ==
  \A i, j \in Rf!With(ls, "valid") :
    Of(ls[i], c) /\ Rf!ObservationId(ls[i]) = Rf!ObservationId(ls[j]) => i = j

\* Lines of one id are of one case, where there are cases.
LEMMA IdsKeepCase ==
  ASSUME campaign \in Rf!LineCampaigns, NEW x, NEW y, NEW c,
         Rf!ObservationId(x) = Rf!ObservationId(y), Of(x, c)
  PROVE  Of(y, c)
<1>1. CASE campaign = "passive"
  BY <1>1 DEF Of
<1>2. CASE campaign = "finding"
  BY <1>2 DEF Of, Rf!ObservationId
<1>3. CASE campaign = "autojoin"
  BY <1>3 DEF Of, Rf!ObservationId
<1> QED BY <1>1, <1>2, <1>3 DEF Rf!LineCampaigns

\* The line an order shows of an id comes before the others of it.
LEMMA ShownComesFirst ==
  ASSUME campaign \in Rf!LineCampaigns, NEW l \in Seq(EveryLine), Rf!IsInjective(l),
         NEW o \in Seq(EveryLine), NEW p, Rearranges(p, l, o), NEW c,
         NEW a \in DOMAIN l, l[a] \in ShownOf(o, c),
         NEW b \in Rf!With(l, "valid"), Rf!ObservationId(l[b]) = Rf!ObservationId(l[a]),
         NEW i \in DOMAIN o, NEW j \in DOMAIN o, p[i] = a, p[j] = b
  PROVE  i <= j
<1>1. PICK k \in Rf!Emitted(o) : o[k] = l[a]
  BY DEF ShownOf
<1>2. k \in DOMAIN o /\ p[k] \in DOMAIN l /\ l[p[k]] = l[a]
  BY <1>1 DEF Rearranges, Rf!Emitted, Rf!With
<1>3. k = i
  <2>1. p[k] = a
    BY <1>2 DEF Rf!IsInjective
  <2> QED BY <1>2, <2>1 DEF Rearranges
<1>4. o[j] = l[b] /\ j \in Rf!With(o, "valid")
  BY DEF Rearranges, Rf!With
<1>5. ~(j < i)
  BY <1>1, <1>3, <1>4 DEF Rf!Emitted
<1>6. i \in Int /\ j \in Int
  OBVIOUS
<1> QED BY <1>5, <1>6

\* Where each line of a rotation was.
Turned(n, k) == [i \in 1..n |-> IF i <= n - k THEN i + k ELSE i - (n - k)]

LEMMA Rotations ==
  ASSUME NEW l \in Seq(EveryLine), NEW k \in 0..Len(l)
  PROVE  Rf!Rotated(l, k) = [i \in 1..Len(l) |-> l[Turned(Len(l), k)[i]]]
<1> DEFINE n == Len(l)
           a == SubSeq(l, k + 1, n)
           b == SubSeq(l, 1, k)
<1>1. n \in Nat /\ k \in Nat /\ k <= n /\ DOMAIN l = 1..n /\ \A i \in 1..n : l[i] \in EveryLine
  OBVIOUS
<1>2. a \in Seq(EveryLine) /\ Len(a) = n - k /\ \A i \in 1..(n - k) : a[i] = l[i + k]
  <2>1. k + 1 \in Int /\ n \in Int /\ \A i \in (k + 1)..n : l[i] \in EveryLine
    BY <1>1
  <2> HIDE DEF n
  <2>2. /\ a \in Seq(EveryLine)
        /\ Len(a) = IF k + 1 <= n THEN n - (k + 1) + 1 ELSE 0
        /\ \A i \in 1..(n - (k + 1) + 1) : a[i] = l[k + 1 + i - 1]
    BY <2>1, SubSeqProperties
  <2> QED BY <1>1, <2>2
<1>3. b \in Seq(EveryLine) /\ Len(b) = k /\ \A i \in 1..k : b[i] = l[i]
  <2>1. 1 \in Int /\ k \in Int /\ \A i \in 1..k : l[i] \in EveryLine
    BY <1>1
  <2>2. /\ b \in Seq(EveryLine)
        /\ Len(b) = IF 1 <= k THEN k - 1 + 1 ELSE 0
        /\ \A i \in 1..(k - 1 + 1) : b[i] = l[1 + i - 1]
    BY <2>1, SubSeqProperties
  <2> QED BY <1>1, <2>2
<1> HIDE DEF n, a, b
<1>4. /\ a \o b \in Seq(EveryLine) /\ Len(a \o b) = n
      /\ \A i \in 1..n : (a \o b)[i] = IF i <= n - k THEN a[i] ELSE b[i - (n - k)]
  <2>1. /\ a \o b \in Seq(EveryLine) /\ Len(a \o b) = Len(a) + Len(b)
        /\ \A i \in 1..(Len(a) + Len(b)) : (a \o b)[i] = IF i <= Len(a) THEN a[i] ELSE b[i - Len(a)]
    BY <1>2, <1>3, ConcatProperties
  <2> QED BY <1>1, <1>2, <1>3, <2>1
<1>5. \A i \in 1..n : (a \o b)[i] = l[Turned(n, k)[i]]
  BY <1>1, <1>2, <1>3, <1>4 DEF Turned
<1>6. a \o b = [i \in 1..n |-> l[Turned(n, k)[i]]]
  <2>1. \A s \in Seq(EveryLine) : s = [i \in 1..Len(s) |-> s[i]]
    OBVIOUS
  <2>2. a \o b = [i \in 1..n |-> (a \o b)[i]]
    BY <1>4, <2>1
  <2> QED BY <1>5, <2>2
<1> QED BY <1>6 DEF Rf!Rotated, n, a, b

LEMMA TurnedRearranges ==
  ASSUME NEW l \in Seq(EveryLine), NEW k \in 0..Len(l)
  PROVE  /\ Rf!Rotated(l, k) \in Seq(EveryLine) /\ Len(Rf!Rotated(l, k)) = Len(l)
         /\ Rearranges(Turned(Len(l), k), l, Rf!Rotated(l, k))
<1> DEFINE n == Len(l)
           t == Turned(n, k)
<1>1. n \in Nat /\ k \in Nat /\ k <= n /\ DOMAIN l = 1..n /\ \A i \in 1..n : l[i] \in EveryLine
  OBVIOUS
<1>2. \A i \in 1..n : t[i] = IF i <= n - k THEN i + k ELSE i - (n - k)
  BY DEF Turned
<1> HIDE DEF n
<1>3. t \in [1..n -> 1..n] /\ \A i, j \in 1..n : t[i] = t[j] => i = j
  BY <1>1 DEF Turned
<1>4. \A m \in 1..n : \E i \in 1..n : t[i] = m
  <2> TAKE m \in 1..n
  <2>1. CASE m > k
    <3>1. m - k \in 1..n /\ t[m - k] = m
      BY <1>1, <1>2, <2>1
    <3> QED BY <3>1
  <2>2. CASE m <= k
    <3>1. m + (n - k) \in 1..n /\ t[m + (n - k)] = m
      BY <1>1, <1>2, <2>2
    <3> QED BY <3>1
  <2> QED BY <1>1, <2>1, <2>2
<1> HIDE DEF t
<1> DEFINE o == [i \in 1..n |-> l[t[i]]]
<1>5. Rf!Rotated(l, k) = o
  BY Rotations DEF n, t
<1>6. o \in Seq(EveryLine) /\ Len(o) = n /\ DOMAIN o = 1..n
  <2>1. \A i \in 1..n : o[i] \in EveryLine
    BY <1>1, <1>3
  <2> QED BY <1>1, <2>1
<1>7. Rearranges(t, l, o)
  BY <1>1, <1>3, <1>4, <1>6 DEF Rearranges
<1> QED BY <1>5, <1>6, <1>7 DEF n, t

LEMMA Composed ==
  ASSUME NEW l, NEW m, NEW o, NEW p, NEW q, Rearranges(p, l, m), Rearranges(q, m, o)
  PROVE  Rearranges([i \in DOMAIN o |-> p[q[i]]], l, o)
BY DEF Rearranges

\* The second, third and fourth order that is tried, and where their lines were.
LEMMA OrdersTried ==
  ASSUME NEW l \in Seq(EveryLine), Len(l) >= 4
  PROVE  LET n == Len(l) IN
         \E o1, o2, o3 \in Rf!Orders(l) \cap Seq(EveryLine) :
           /\ Rearranges([i \in 1..n |-> Turned(n, 1)[n - i + 1]], l, o1)
           /\ Rearranges(Turned(n, 2), l, o2)
           /\ Rearranges([i \in 1..n |-> Turned(n, 3)[n - i + 1]], l, o3)
<1> DEFINE n == Len(l)
<1>1. n \in Nat /\ n >= 4 /\ DOMAIN l = 1..n
  OBVIOUS
<1>2. ASSUME NEW k \in 0..n
      PROVE  LET o == Rf!Reverse(Rf!Rotated(l, k)) IN
             o \in Seq(EveryLine) /\ Rearranges([i \in 1..n |-> Turned(n, k)[n - i + 1]], l, o)
  <2> DEFINE m == Rf!Rotated(l, k)
             o == Sos!Reverse(m)
             r == [i \in 1..n |-> n - i + 1]
  <2>1. m \in Seq(EveryLine) /\ Len(m) = n /\ Rearranges(Turned(n, k), l, m)
    BY TurnedRearranges
  <2> HIDE DEF m
  <2>2. o \in Seq(EveryLine) /\ Rearranges(r, m, o)
    BY <2>1, Backwards
  <2>3. o = Rf!Reverse(m)
    BY DEF Sos!Reverse, Rf!Reverse
  <2>4. DOMAIN o = 1..n
    BY <2>1 DEF Sos!Reverse
  <2> HIDE DEF o, r
  <2>5. Rearranges([i \in 1..n |-> Turned(n, k)[r[i]]], l, o)
    <3>1. Rearranges([i \in DOMAIN o |-> Turned(n, k)[r[i]]], l, o)
      BY <2>1, <2>2, Composed
    <3> QED BY <2>4, <3>1
  <2>6. [i \in 1..n |-> Turned(n, k)[r[i]]] = [i \in 1..n |-> Turned(n, k)[n - i + 1]]
    BY DEF r
  <2> QED BY <2>2, <2>3, <2>5, <2>6 DEF m
<1>3. /\ 1 \in 0..n /\ 2 \in 0..n /\ 3 \in 0..n
      /\ 1 \in 0..(n - 1) /\ 2 \in 0..(n - 1) /\ 3 \in 0..(n - 1)
  BY <1>1
<1>4. /\ Rf!Reverse(Rf!Rotated(l, 1)) \in Rf!Orders(l)
      /\ Rf!Rotated(l, 2) \in Rf!Orders(l)
      /\ Rf!Reverse(Rf!Rotated(l, 3)) \in Rf!Orders(l)
  <2>1. 1 % 2 = 1 /\ 2 % 2 # 1 /\ 3 % 2 = 1
    OBVIOUS
  <2> HIDE DEF n
  <2> QED BY <1>3, <2>1 DEF Rf!Orders, n
<1>5. Rf!Rotated(l, 2) \in Seq(EveryLine) /\ Rearranges(Turned(n, 2), l, Rf!Rotated(l, 2))
  BY <1>3, TurnedRearranges
<1> QED BY <1>2, <1>3, <1>4, <1>5

\* In four orders of four lines or more, each of two lines comes first.
LEMMA FewOrdersTell ==
  ASSUME campaign \in Rf!LineCampaigns, NEW l \in Seq(EveryLine), Len(l) >= 4, Rf!IsInjective(l),
         NEW c, \A o \in Rf!Orders(l) : ShownOf(o, c) = ShownOf(l, c)
  PROVE  IdsApart(l, c)
<1> DEFINE n == Len(l)
<1>1. n \in Nat /\ n >= 4 /\ DOMAIN l = 1..n
  OBVIOUS
<1> SUFFICES ASSUME NEW x \in Rf!With(l, "valid"), NEW y \in Rf!With(l, "valid"), Of(l[x], c),
                    Rf!ObservationId(l[x]) = Rf!ObservationId(l[y]), x # y
             PROVE  FALSE
  BY DEF IdsApart
<1> DEFINE Same == {i \in Rf!With(l, "valid") : Rf!ObservationId(l[i]) = Rf!ObservationId(l[x])}
<1>2. x \in Same /\ y \in Same /\ Same \subseteq 1..n /\ Same \subseteq Nat
  BY <1>1 DEF Rf!With
<1>3. PICK a \in Same : \A i \in Same : a <= i
  <2> HIDE DEF Same
  <2> QED BY <1>2, LeastNat
<1>4. PICK b \in Same : b # a
  BY <1>2
<1>5. a \in 1..n /\ b \in 1..n /\ a < b
  BY <1>2, <1>3, <1>4
<1>6. l[a] \in ShownOf(l, c)
  <2>1. a \in Rf!Emitted(l)
    <3> SUFFICES ASSUME NEW j \in Rf!With(l, "valid"), j < a,
                        Rf!ObservationId(l[j]) = Rf!ObservationId(l[a])
                 PROVE  FALSE
      BY DEF Rf!Emitted
    <3>1. j \in Same
      OBVIOUS
    <3>2. a <= j /\ j \in Int /\ a \in Int
      BY <1>2, <1>3, <3>1
    <3> QED BY <3>2
  <2>2. Of(l[a], c)
    BY IdsKeepCase
  <2> QED BY <2>1, <2>2 DEF ShownOf
<1>7. ASSUME NEW o \in Rf!Orders(l) \cap Seq(EveryLine), NEW p, Rearranges(p, l, o),
             NEW i \in 1..n, NEW j \in 1..n, DOMAIN p = 1..n, p[i] = a, p[j] = b
      PROVE  i <= j
  <2>1. l[a] \in ShownOf(o, c) /\ a \in DOMAIN l /\ b \in Rf!With(l, "valid")
        /\ Rf!ObservationId(l[b]) = Rf!ObservationId(l[a])
    BY <1>1, <1>5, <1>6
  <2>2. DOMAIN o = 1..n
    BY <1>7 DEF Rearranges
  <2> HIDE DEF n, Same
  <2> QED BY <1>7, <2>1, <2>2, ShownComesFirst
<1>8. PICK o1, o2, o3 \in Rf!Orders(l) \cap Seq(EveryLine) :
           /\ Rearranges([i \in 1..n |-> Turned(n, 1)[n - i + 1]], l, o1)
           /\ Rearranges(Turned(n, 2), l, o2)
           /\ Rearranges([i \in 1..n |-> Turned(n, 3)[n - i + 1]], l, o3)
  BY OrdersTried
<1> HIDE DEF n, Same
<1>9. a = 1
  <2> SUFFICES ASSUME a >= 2 PROVE FALSE
    BY <1>1, <1>5
  <2> DEFINE p == [i \in 1..n |-> Turned(n, 1)[n - i + 1]]
  <2>1. n + 2 - a \in 1..n /\ n + 2 - b \in 1..n
    BY <1>1, <1>5
  <2>2. p[n + 2 - a] = a /\ p[n + 2 - b] = b
    BY <1>1, <1>5, <2>1 DEF Turned
  <2>3. n + 2 - a <= n + 2 - b
    <3> DOMAIN p = 1..n
      OBVIOUS
    <3> HIDE DEF p
    <3> QED BY <1>7, <1>8, <2>1, <2>2 DEF p
  <2> QED BY <1>1, <1>5, <2>3
<1>10. b = 2
  <2> SUFFICES ASSUME b >= 3 PROVE FALSE
    BY <1>1, <1>5, <1>9
  <2> DEFINE p == Turned(n, 2)
  <2>1. n - 1 \in 1..n /\ b - 2 \in 1..n
    BY <1>1, <1>5
  <2>2. p[n - 1] = a /\ p[b - 2] = b /\ DOMAIN p = 1..n
    BY <1>1, <1>5, <1>9, <2>1 DEF Turned
  <2>3. n - 1 <= b - 2
    <3> HIDE DEF p
    <3> QED BY <1>7, <1>8, <2>1, <2>2 DEF p
  <2> QED BY <1>1, <1>5, <2>3
<1>11. FALSE
  <2> DEFINE p == [i \in 1..n |-> Turned(n, 3)[n - i + 1]]
  <2>1. 2 \in 1..n /\ 3 \in 1..n
    BY <1>1
  <2>2. p[3] = a /\ p[2] = b /\ DOMAIN p = 1..n
    BY <1>1, <1>9, <1>10, <2>1 DEF Turned
  <2>3. 3 <= 2
    <3> HIDE DEF p
    <3> QED BY <1>7, <1>8, <2>1, <2>2 DEF p
  <2> QED BY <2>3
<1> QED BY <1>11

\* In another order a line keeps its verdict.
LEMMA SameVerdicts ==
  ASSUME NEW l, NEW o, NEW p, Rearranges(p, l, o)
  PROVE  \A v : \A i \in DOMAIN o : i \in Rf!With(o, v) <=> p[i] \in Rf!With(l, v)
BY DEF Rearranges, Rf!With

\* Lines of ids of their own are shown, all of them, in any order.
LEMMA ApartShown ==
  ASSUME campaign \in Rf!LineCampaigns, NEW l \in Seq(EveryLine), NEW o \in Seq(EveryLine),
         NEW p, Rearranges(p, l, o), NEW c, IdsApart(l, c)
  PROVE  ShownOf(o, c) = ShownOf(l, c)
<1>1. ASSUME NEW ls \in Seq(EveryLine), IdsApart(ls, c)
      PROVE  ShownOf(ls, c) = {ls[i] : i \in {k \in Rf!With(ls, "valid") : Of(ls[k], c)}}
  <2> SUFFICES ASSUME NEW i \in Rf!With(ls, "valid"), Of(ls[i], c) PROVE i \in Rf!Emitted(ls)
    BY DEF ShownOf, Rf!Emitted
  <2> SUFFICES ASSUME NEW j \in Rf!With(ls, "valid"), j < i,
                      Rf!ObservationId(ls[j]) = Rf!ObservationId(ls[i])
               PROVE  FALSE
    BY DEF Rf!Emitted
  <2>1. i = j
    BY <1>1 DEF IdsApart
  <2>2. i \in Int /\ j \in Int
    BY DEF Rf!With
  <2> QED BY <2>1, <2>2
<1>2. \A i \in DOMAIN o : o[i] = l[p[i]] /\ (i \in Rf!With(o, "valid") <=> p[i] \in Rf!With(l, "valid"))
  BY SameVerdicts DEF Rearranges
<1>3. Rf!With(o, "valid") \subseteq DOMAIN o /\ Rf!With(l, "valid") \subseteq DOMAIN l
  BY DEF Rf!With
<1>4. IdsApart(o, c)
  BY <1>2, <1>3 DEF IdsApart, Rearranges
<1>5. {o[i] : i \in {k \in Rf!With(o, "valid") : Of(o[k], c)}}
        = {l[i] : i \in {k \in Rf!With(l, "valid") : Of(l[k], c)}}
  BY <1>2, <1>3 DEF Rearranges
<1> QED BY <1>1, <1>4, <1>5

\* Positions that answer to each other are as many.
LEMMA SameCount ==
  ASSUME NEW l \in Seq(EveryLine), NEW o, NEW p, Rearranges(p, l, o),
         NEW A \in SUBSET DOMAIN o, NEW B \in SUBSET DOMAIN l,
         \A i \in DOMAIN o : i \in A <=> p[i] \in B
  PROVE  Rf!Cardinality(A) = Rf!Cardinality(B)
<1> DEFINE f == [k \in B |-> CHOOSE i \in A : p[i] = k]
<1>1. \A k \in B : \E i \in A : p[i] = k
  BY DEF Rearranges
<1>2. \A k \in B : f[k] \in A /\ p[f[k]] = k
  BY <1>1
<1>3. \A i \in A : p[i] \in B /\ f[p[i]] = i
  BY <1>2 DEF Rearranges
<1>4. f \in Bijection(B, A)
  <2>1. f \in [B -> A]
    BY <1>2
  <2> HIDE DEF f
  <2> QED BY <1>2, <1>3, <2>1 DEF Bijection, Injection, Surjection, IsInjective
<1>5. IsFiniteSet(B)
  <2>1. IsFiniteSet(1..Len(l)) /\ B \subseteq 1..Len(l)
    BY FS_Interval
  <2> QED BY <2>1, FS_Subset
<1>6. Cardinality(A) = Cardinality(B)
  BY <1>4, <1>5, FS_Bijection DEF ExistsBijection
<1>7. \A S : Rf!Cardinality(S) = Cardinality(S)
  BY DEF Rf!Cardinality, Cardinality
<1> QED BY <1>6, <1>7

\* The lines a case is said of are those it shows.
LEMMA ResultOfShown ==
  ASSUME campaign \in {"finding", "autojoin"}, NEW l, NEW o, NEW c, ShownOf(o, c) = ShownOf(l, c)
  PROVE  Rf!CaseResult(o, c) = Rf!CaseResult(l, c)
<1> DEFINE W(x) == Rf!Obs(Rf!ObservationId(x), "collector", "addon", "measurement",
                          Rf!Quality(x.rssi), x.at)
<1>1. \A ls : ShownOf(ls, c) = {ls[i] : i \in Rf!EmittedOf(ls, c)}
  BY DEF ShownOf, Of, Rf!EmittedOf
<1>2. \A ls : Rf!Weak(ls, c) = {W(ls[i]) : i \in Rf!EmittedOf(ls, c)}
  BY DEF Rf!Weak
<1> HIDE DEF W
<1>3. \A ls : Rf!Weak(ls, c) = {W(x) : x \in ShownOf(ls, c)}
  BY <1>1, <1>2
<1>4. Rf!Weak(o, c) = Rf!Weak(l, c)
  BY <1>3
<1> QED BY <1>4 DEF Rf!CaseResult, Rf!FindingPool, Rf!AutojoinPool

LEMMA PassiveProjection ==
  ASSUME campaign = "passive", NEW l \in Seq(EveryLine), NEW o \in Seq(EveryLine),
         NEW p, Rearranges(p, l, o), IdsApart(l, 0)
  PROVE  Rf!Projection(o) = Rf!Projection(l)
<1>1. {o[i] : i \in Rf!Emitted(o)} = {l[i] : i \in Rf!Emitted(l)}
  <2>1. ShownOf(o, 0) = ShownOf(l, 0)
    BY ApartShown DEF Rf!LineCampaigns
  <2> QED BY <2>1 DEF ShownOf, Of
<1>2. Rf!Cardinality(Rf!Duplicates(o)) = Rf!Cardinality(Rf!Duplicates(l))
  <2>1. ASSUME NEW i \in DOMAIN o PROVE i \in Rf!Duplicates(o) <=> p[i] \in Rf!Duplicates(l)
    <3>1. \A k \in DOMAIN l : k \notin Rf!Duplicates(l)
      BY DEF Rf!Duplicates, Rf!Emitted, IdsApart, Of, Rf!With
    <3>2. i \notin Rf!Duplicates(o)
      BY SameVerdicts DEF Rf!Duplicates, Rf!Emitted, IdsApart, Of, Rf!With, Rearranges
    <3> QED BY <3>1, <3>2 DEF Rearranges
  <2>2. Rf!Duplicates(o) \subseteq DOMAIN o /\ Rf!Duplicates(l) \subseteq DOMAIN l
    BY DEF Rf!Duplicates, Rf!With
  <2> QED BY <2>1, <2>2, SameCount
<1> DEFINE Dismissed(ls) == {ls[i] : i \in Rf!With(ls, "rejected")}
           Times(ls, x) == Rf!Cardinality({i \in DOMAIN ls : ls[i] = x})
<1>3. Dismissed(o) = Dismissed(l)
  BY SameVerdicts DEF Rearranges, Rf!With
<1>4. \A x : Times(o, x) = Times(l, x)
  <2> TAKE x
  <2>1. \A i \in DOMAIN o : i \in {k \in DOMAIN o : o[k] = x} <=> p[i] \in {k \in DOMAIN l : l[k] = x}
    BY DEF Rearranges
  <2> QED BY <2>1, SameCount
<1>5. \A ls : Rf!Projection(ls) =
         [events |-> {ls[i] : i \in Rf!Emitted(ls)}, duplicates |-> Rf!Cardinality(Rf!Duplicates(ls)),
          rejected |-> [x \in Dismissed(ls) |-> Times(ls, x)]]
  BY DEF Rf!Projection
<1> HIDE DEF Dismissed, Times
<1> QED BY <1>1, <1>2, <1>3, <1>4, <1>5

\* Whether a case's lines are in the projection.
Told(c) == campaign = "finding" \/ Rf!Governance(c) = "accepted"

LEMMA CasesProjection ==
  ASSUME campaign \in {"finding", "autojoin"}, NEW l \in Seq(EveryLine), NEW o \in Seq(EveryLine),
         NEW p, Rearranges(p, l, o), \A c \in Cases : Told(c) => IdsApart(l, c)
  PROVE  Rf!Projection(o) = Rf!Projection(l)
<1> SUFFICES ASSUME NEW c \in Cases
             PROVE  /\ Rf!Cardinality(Rf!Frames(o, c)) = Rf!Cardinality(Rf!Frames(l, c))
                    /\ Rf!Published(o, c) = Rf!Published(l, c)
                    /\ Rf!CaseResult(o, c) = Rf!CaseResult(l, c)
  BY DEF Rf!Projection
<1>1. Rf!Cardinality(Rf!Frames(o, c)) = Rf!Cardinality(Rf!Frames(l, c))
  <2>1. \A i \in DOMAIN o : i \in Rf!Frames(o, c) <=> p[i] \in Rf!Frames(l, c)
    BY DEF Rearranges, Rf!Frames
  <2>2. Rf!Frames(o, c) \subseteq DOMAIN o /\ Rf!Frames(l, c) \subseteq DOMAIN l
    BY DEF Rf!Frames
  <2> QED BY <2>1, <2>2, SameCount
<1>2. CASE Told(c)
  <2>1. ShownOf(o, c) = ShownOf(l, c)
    BY <1>2, ApartShown DEF Rf!LineCampaigns
  <2>2. Rf!CaseResult(o, c) = Rf!CaseResult(l, c)
    BY <2>1, ResultOfShown
  <2>3. \A ls : ShownOf(ls, c) = {ls[i] : i \in Rf!EmittedOf(ls, c)}
    BY DEF ShownOf, Of, Rf!EmittedOf
  <2>4. Rf!Published(o, c) = Rf!Published(l, c)
    BY <2>1, <2>3 DEF Rf!Published
  <2> QED BY <1>1, <2>2, <2>4
<1>3. CASE ~Told(c)
  BY <1>1, <1>3 DEF Told, Rf!Published, Rf!CaseResult
<1> QED BY <1>2, <1>3

(* The few orders a replay of a campaign of lines tries stand for all of   *)
(* them, however long the file: once it has four lines or more, all        *)
(* different, and passes, no order gives another projection                *)
(* (openbrec/rf_sensing.py _permuted_hashes, _finish).  The second, third  *)
(* and fourth of the orders are enough: between them and the first, of     *)
(* any two lines of one id each comes before the other in one of them.     *)
THEOREM FewOrdersSuffice == RecordsSpec => []PassedIsOrderFree
<1>1. RecordsInit => RfInv
  BY DEF RecordsInit, Rf!Init, RfInv
<1>2. RfInv /\ [RecordsNext]_recordsVars => RfInv'
  BY RfNext, StepsApart DEF RfInv, rfVars
<1>3. RfInv => PassedIsOrderFree
  <2> SUFFICES ASSUME RfInv, campaign \in Rf!LineCampaigns, Len(lines) >= 4, Rf!IsInjective(lines),
                      Rf!Deterministic(lines),
                      NEW p \in Rf!Bijection(DOMAIN lines, DOMAIN lines)
               PROVE  LET o == [i \in DOMAIN lines |-> lines[p[i]]]
                      IN  Rf!Projection(o) = Rf!Projection(lines)
    BY DEF PassedIsOrderFree, Rf!PassedIsOrderFree, Rf!Permuted
  <2> DEFINE o == [i \in DOMAIN lines |-> lines[p[i]]]
  <2>1. /\ p \in [DOMAIN lines -> DOMAIN lines]
        /\ \A i, j \in DOMAIN lines : p[i] = p[j] => i = j
        /\ \A k \in DOMAIN lines : \E i \in DOMAIN lines : p[i] = k
    BY DEF Rf!Bijection, Rf!Injection, Rf!Surjection, Rf!IsInjective
  <2>2. Rearranges(p, lines, o)
    BY <2>1 DEF Rearranges
  <2>3. lines \in Seq(EveryLine)
    BY DEF RfInv
  <2>4. o \in Seq(EveryLine)
    <3>1. \A i \in 1..Len(lines) : o[i] \in EveryLine
      BY <2>1, <2>3
    <3> QED BY <2>3, <3>1
  <2> HIDE DEF o
  <2>5. \A t \in Rf!Orders(lines) : Rf!Projection(t) = Rf!Projection(lines)
    BY DEF Rf!Deterministic
  <2>6. CASE campaign = "passive"
    <3>1. \A ls : Rf!Projection(ls).events = ShownOf(ls, 0)
      BY <2>6 DEF Rf!Projection, ShownOf, Of
    <3>2. \A t \in Rf!Orders(lines) : ShownOf(t, 0) = ShownOf(lines, 0)
      BY <2>5, <3>1
    <3>3. IdsApart(lines, 0)
      BY <2>3, <3>2, FewOrdersTell
    <3> QED BY <2>2, <2>3, <2>4, <2>6, <3>3, PassiveProjection DEF o
  <2>7. CASE campaign \in {"finding", "autojoin"}
    <3>1. ASSUME NEW c \in Cases, Told(c) PROVE IdsApart(lines, c)
      <4>1. \A ls : Rf!Projection(ls)[c].events = ShownOf(ls, c)
        BY <2>7, <3>1 DEF Rf!Projection, Rf!Published, Rf!EmittedOf, ShownOf, Of, Told
      <4>2. \A t \in Rf!Orders(lines) : ShownOf(t, c) = ShownOf(lines, c)
        BY <2>5, <4>1
      <4> QED BY <2>3, <4>2, FewOrdersTell
    <3> QED BY <2>2, <2>3, <2>4, <2>7, <3>1, CasesProjection DEF o
  <2> QED BY <2>6, <2>7 DEF Rf!LineCampaigns
<1> QED BY <1>1, <1>2, <1>3, PTL DEF RecordsSpec

-----------------------------------------------------------------------------
(* Sums over finite sets, by the least size at which a claim would fail.   *)

One(s) == CHOOSE x \in s : TRUE

\* What the recursion of a sum says of the function it defines.
Adds(it, f, S) ==
  it = [s \in SUBSET S |-> IF s = {} THEN 0 ELSE f[One(s)] + it[s \ {One(s)}]]

LEMMA OneLess ==
  ASSUME NEW s, IsFiniteSet(s), s # {}
  PROVE  /\ One(s) \in s /\ IsFiniteSet(s \ {One(s)})
         /\ Cardinality(s) \in Nat /\ Cardinality(s \ {One(s)}) = Cardinality(s) - 1
<1>1. One(s) \in s
  BY DEF One
<1> QED BY <1>1, FS_RemoveElement, FS_CardinalityType

LEMMA SumIsRecursive ==
  ASSUME NEW f, NEW S
  PROVE  SumFunctionOnSet(f, S) = (CHOOSE it : Adds(it, f, S))[S]
BY DEF SumFunctionOnSet, FoldFunctionOnSet, MapThenFoldSet, Adds, One

\* The recursion ends, one element after the other.
LEMMA RecursionExists ==
  ASSUME NEW f, NEW S, IsFiniteSet(S)
  PROVE  \E it : Adds(it, f, S)
<1> DEFINE UpTo(n, g) ==
             \A s \in SUBSET S : Cardinality(s) <= n =>
               g[s] = IF s = {} THEN 0 ELSE f[One(s)] + g[s \ {One(s)}]
           Some(n) == \E g : g = [s \in SUBSET S |-> g[s]] /\ UpTo(n, g)
           Bad == {n \in Nat : ~Some(n)}
<1>1. \A s \in SUBSET S : IsFiniteSet(s) /\ Cardinality(s) \in Nat
  BY FS_Subset, FS_CardinalityType
<1>2. \A s \in SUBSET S : s # {} =>
         s \ {One(s)} \in SUBSET S /\ Cardinality(s \ {One(s)}) = Cardinality(s) - 1
  BY <1>1, OneLess
<1>3. \A s \in SUBSET S : Cardinality(s) = 0 <=> s = {}
  BY <1>1, FS_EmptySet
<1>4. Some(0)
  <2> DEFINE g == [s \in SUBSET S |-> 0]
  <2>1. g = [s \in SUBSET S |-> g[s]]
    OBVIOUS
  <2>2. \A s \in SUBSET S : Cardinality(s) <= 0 => s = {}
    BY <1>1, <1>3
  <2>3. UpTo(0, g)
    BY <2>2
  <2> QED BY <2>1, <2>3
<1>5. ASSUME NEW n \in Nat, Some(n) PROVE Some(n + 1)
  <2>1. PICK g : g = [s \in SUBSET S |-> g[s]] /\ UpTo(n, g)
    BY <1>5
  <2> DEFINE h == [s \in SUBSET S |-> IF Cardinality(s) <= n THEN g[s]
                                      ELSE f[One(s)] + g[s \ {One(s)}]]
  <2>2. h = [s \in SUBSET S |-> h[s]]
    OBVIOUS
  <2>3. ASSUME NEW s \in SUBSET S, Cardinality(s) <= n + 1
        PROVE  h[s] = IF s = {} THEN 0 ELSE f[One(s)] + h[s \ {One(s)}]
    <3>1. CASE s = {}
      <4>1. Cardinality(s) <= n
        BY <1>3, <3>1
      <4> QED BY <2>1, <3>1, <4>1
    <3>2. CASE s # {}
      <4>1. s \ {One(s)} \in SUBSET S /\ Cardinality(s \ {One(s)}) <= n
        BY <1>1, <1>2, <2>3, <3>2
      <4>2. h[s \ {One(s)}] = g[s \ {One(s)}]
        BY <4>1
      <4>3. CASE Cardinality(s) <= n
        BY <2>1, <3>2, <4>2, <4>3
      <4>4. CASE ~(Cardinality(s) <= n)
        BY <3>2, <4>2, <4>4
      <4> QED BY <4>3, <4>4
    <3> QED BY <3>1, <3>2
  <2> HIDE DEF h
  <2> QED BY <2>2, <2>3
<1> HIDE DEF Some
<1>6. Bad = {}
  <2> SUFFICES ASSUME Bad # {} PROVE FALSE
    OBVIOUS
  <2>1. PICK m \in Bad : \A n \in Bad : m <= n
    <3> HIDE DEF Bad
    <3>1. Bad \subseteq Nat
      BY DEF Bad
    <3> QED BY <3>1, LeastNat
  <2>2. m \in Nat /\ m # 0
    BY <1>4
  <2>3. m - 1 \in Nat /\ m - 1 \notin Bad
    BY <2>1, <2>2
  <2>4. Some(m - 1 + 1)
    BY <1>5, <2>3
  <2> QED BY <2>2, <2>4
<1>7. Some(Cardinality(S))
  BY <1>1, <1>6
<1>8. PICK g : g = [s \in SUBSET S |-> g[s]] /\ UpTo(Cardinality(S), g)
  BY <1>7 DEF Some
<1>9. \A s \in SUBSET S : Cardinality(s) <= Cardinality(S)
  BY FS_Subset
<1>10. \A s \in SUBSET S : g[s] = IF s = {} THEN 0 ELSE f[One(s)] + g[s \ {One(s)}]
  BY <1>8, <1>9
<1> HIDE DEF UpTo
<1>11. Adds(g, f, S)
  BY <1>8, <1>10 DEF Adds
<1> QED BY <1>11

\* Two such functions agree wherever both are defined.
LEMMA RecursionIsUnique ==
  ASSUME NEW f, NEW S, IsFiniteSet(S), NEW T, T \subseteq S,
         NEW g, Adds(g, f, S), NEW h, Adds(h, f, T)
  PROVE  g[T] = h[T]
<1> DEFINE Bad == {n \in Nat : \E s \in SUBSET T : Cardinality(s) = n /\ g[s] # h[s]}
<1>1. \A s \in SUBSET T : s \in SUBSET S /\ IsFiniteSet(s) /\ Cardinality(s) \in Nat
  BY FS_Subset, FS_CardinalityType
<1>2. \A s \in SUBSET T :
         /\ g[s] = IF s = {} THEN 0 ELSE f[One(s)] + g[s \ {One(s)}]
         /\ h[s] = IF s = {} THEN 0 ELSE f[One(s)] + h[s \ {One(s)}]
  BY <1>1 DEF Adds
<1>3. Bad = {}
  <2> SUFFICES ASSUME Bad # {} PROVE FALSE
    OBVIOUS
  <2>1. PICK m \in Bad : \A n \in Bad : m <= n
    <3> HIDE DEF Bad
    <3>1. Bad \subseteq Nat
      BY DEF Bad
    <3> QED BY <3>1, LeastNat
  <2>2. PICK s \in SUBSET T : Cardinality(s) = m /\ g[s] # h[s]
    BY <2>1
  <2>3. s # {}
    BY <1>2, <2>2
  <2>4. s \ {One(s)} \in SUBSET T /\ Cardinality(s \ {One(s)}) = m - 1 /\ m \in Nat
    BY <1>1, <2>2, <2>3, OneLess
  <2>5. m - 1 \in Nat
    BY <1>1, <2>4
  <2>6. m - 1 \notin Bad
    BY <2>1, <2>5
  <2>7. g[s \ {One(s)}] = h[s \ {One(s)}]
    BY <2>4, <2>5, <2>6
  <2> QED BY <1>2, <2>2, <2>3, <2>7
<1> QED BY <1>1, <1>3

LEMMA SumStep ==
  ASSUME NEW f, NEW S, IsFiniteSet(S)
  PROVE  SumFunctionOnSet(f, S) =
           IF S = {} THEN 0 ELSE f[One(S)] + SumFunctionOnSet(f, S \ {One(S)})
<1> DEFINE R == S \ {One(S)}
           g == CHOOSE it : Adds(it, f, S)
           h == CHOOSE it : Adds(it, f, R)
<1>1. IsFiniteSet(R) /\ R \subseteq S
  BY FS_Subset
<1>2. Adds(g, f, S)
  BY RecursionExists
<1>3. Adds(h, f, R)
  <2> HIDE DEF R
  <2> QED BY <1>1, RecursionExists
<1>4. g[S] = IF S = {} THEN 0 ELSE f[One(S)] + g[R]
  <2> HIDE DEF g
  <2> QED BY <1>2 DEF Adds
<1>5. SumFunctionOnSet(f, S) = g[S] /\ SumFunctionOnSet(f, R) = h[R]
  BY SumIsRecursive
<1>6. g[R] = h[R]
  <2> HIDE DEF g, h, R
  <2> QED BY <1>1, <1>2, <1>3, RecursionIsUnique
<1> QED BY <1>4, <1>5, <1>6

\* The sum of integers is one, and it does not matter which is added last.
LEMMA SumInAnyOrder ==
  ASSUME NEW S, IsFiniteSet(S), NEW f, \A x \in S : f[x] \in Int
  PROVE  /\ SumFunctionOnSet(f, S) \in Int
         /\ \A x \in S : SumFunctionOnSet(f, S) = f[x] + SumFunctionOnSet(f, S \ {x})
<1> DEFINE Sum(s) == SumFunctionOnSet(f, s)
           Fine(s) == Sum(s) \in Int /\ \A x \in s : Sum(s) = f[x] + Sum(s \ {x})
           Bad == {n \in Nat : \E s \in SUBSET S : Cardinality(s) = n /\ ~Fine(s)}
<1>1. \A s \in SUBSET S : IsFiniteSet(s) /\ Cardinality(s) \in Nat
  BY FS_Subset, FS_CardinalityType
<1>2. \A s \in SUBSET S : Sum(s) = IF s = {} THEN 0 ELSE f[One(s)] + Sum(s \ {One(s)})
  BY <1>1, SumStep
<1>3. \A s \in SUBSET S : \A x \in s :
         s \ {x} \in SUBSET S /\ Cardinality(s \ {x}) = Cardinality(s) - 1
  BY <1>1, FS_RemoveElement
<1> HIDE DEF Sum
<1>4. Bad = {}
  <2> SUFFICES ASSUME Bad # {} PROVE FALSE
    OBVIOUS
  <2>1. PICK m \in Bad : \A n \in Bad : m <= n
    <3> HIDE DEF Bad
    <3>1. Bad \subseteq Nat
      BY DEF Bad
    <3> QED BY <3>1, LeastNat
  <2>2. PICK s \in SUBSET S : Cardinality(s) = m /\ ~Fine(s)
    BY <2>1
  <2>3. s # {}
    <3> SUFFICES ASSUME s = {} PROVE Fine(s)
      BY <2>2
    <3>1. Sum(s) = 0
      BY <1>2
    <3> QED BY <3>1
  <2> DEFINE y == One(s)
  <2>4. y \in s /\ m \in Nat /\ m - 1 \in Nat
    <3>1. y \in s /\ m \in Nat
      BY <1>1, <2>2, <2>3, OneLess
    <3>2. Cardinality(s \ {y}) \in Nat /\ Cardinality(s \ {y}) = m - 1
      BY <1>1, <1>3, <2>2, <3>1
    <3> QED BY <3>1, <3>2
  <2>5. m - 1 \notin Bad
    BY <2>1, <2>4
  <2>6. \A x \in s : Fine(s \ {x})
    <3> HIDE DEF Fine
    <3> QED BY <1>3, <2>2, <2>4, <2>5
  <2>7. Sum(s) = f[y] + Sum(s \ {y}) /\ f[y] \in Int
    BY <1>2, <2>3, <2>4
  <2>8. Sum(s) \in Int
    BY <2>4, <2>6, <2>7
  <2>9. ASSUME NEW x \in s PROVE Sum(s) = f[x] + Sum(s \ {x})
    <3>1. CASE x = y
      BY <2>7, <3>1
    <3>2. CASE x # y
      <4>1. (s \ {y}) \ {x} = (s \ {x}) \ {y} /\ x \in s \ {y} /\ y \in s \ {x}
        BY <2>4, <3>2
      <4>2. Sum(s \ {y}) = f[x] + Sum((s \ {x}) \ {y})
        BY <2>4, <2>6, <4>1
      <4>3. Sum(s \ {x}) = f[y] + Sum((s \ {x}) \ {y})
        BY <2>6, <4>1
      <4>4. f[x] \in Int /\ Sum((s \ {x}) \ {y}) \in Int
        <5>1. (s \ {x}) \ {y} \in SUBSET S /\ m - 1 - 1 \in Nat /\ Cardinality((s \ {x}) \ {y}) = m - 1 - 1
          <6>1. s \ {x} \in SUBSET S /\ Cardinality(s \ {x}) = m - 1
            BY <1>3, <2>2
          <6>2. /\ (s \ {x}) \ {y} \in SUBSET S
                /\ Cardinality((s \ {x}) \ {y}) = m - 1 - 1
            BY <1>3, <4>1, <6>1
          <6>3. Cardinality((s \ {x}) \ {y}) \in Nat
            BY <1>1, <6>2
          <6> QED BY <6>2, <6>3
        <5>2. m - 1 - 1 \notin Bad
          BY <2>1, <2>4, <5>1
        <5> HIDE DEF Fine
        <5>3. Fine((s \ {x}) \ {y})
          BY <5>1, <5>2
        <5> QED BY <5>3 DEF Fine
      <4> QED BY <2>7, <4>2, <4>3, <4>4
    <3> QED BY <3>1, <3>2
  <2> QED BY <2>2, <2>8, <2>9
<1>5. Fine(S)
  BY <1>1, <1>4
<1> QED BY <1>5 DEF Sum

\* Of two functions, the one that is nowhere greater has no greater sum.
LEMMA SumIsMonotone ==
  ASSUME NEW S, IsFiniteSet(S), NEW f, NEW g,
         \A x \in S : f[x] \in Int /\ g[x] \in Int /\ f[x] <= g[x]
  PROVE  SumFunctionOnSet(f, S) <= SumFunctionOnSet(g, S)
<1> DEFINE F(s) == SumFunctionOnSet(f, s)
           G(s) == SumFunctionOnSet(g, s)
           Bad == {n \in Nat : \E s \in SUBSET S : Cardinality(s) = n /\ ~(F(s) <= G(s))}
<1>1. \A s \in SUBSET S : IsFiniteSet(s) /\ Cardinality(s) \in Nat
  BY FS_Subset, FS_CardinalityType
<1>2. \A s \in SUBSET S : /\ F(s) = IF s = {} THEN 0 ELSE f[One(s)] + F(s \ {One(s)})
                          /\ G(s) = IF s = {} THEN 0 ELSE g[One(s)] + G(s \ {One(s)})
  BY <1>1, SumStep
<1>3. \A s \in SUBSET S : F(s) \in Int /\ G(s) \in Int
  BY <1>1, SumInAnyOrder
<1> HIDE DEF F, G
<1>4. Bad = {}
  <2> SUFFICES ASSUME Bad # {} PROVE FALSE
    OBVIOUS
  <2>1. PICK m \in Bad : \A n \in Bad : m <= n
    <3> HIDE DEF Bad
    <3>1. Bad \subseteq Nat
      BY DEF Bad
    <3> QED BY <3>1, LeastNat
  <2>2. PICK s \in SUBSET S : Cardinality(s) = m /\ ~(F(s) <= G(s))
    BY <2>1
  <2>3. s # {}
    <3> SUFFICES ASSUME s = {} PROVE F(s) <= G(s)
      BY <2>2
    <3>1. F(s) = 0 /\ G(s) = 0
      BY <1>2
    <3> QED BY <3>1
  <2> DEFINE y == One(s)
             r == s \ {y}
  <2>4. y \in s /\ r \in SUBSET S /\ Cardinality(r) = m - 1 /\ m \in Nat /\ m - 1 \in Nat
    <3>1. y \in s /\ r \in SUBSET S /\ Cardinality(r) = m - 1 /\ m \in Nat
      BY <1>1, <2>2, <2>3, OneLess
    <3> QED BY <1>1, <3>1
  <2>5. m - 1 \notin Bad
    BY <2>1, <2>4
  <2>6. F(s) = f[y] + F(r) /\ G(s) = g[y] + G(r)
    BY <1>2, <2>3
  <2> HIDE DEF y, r
  <2>7. F(r) <= G(r)
    BY <2>4, <2>5
  <2> QED BY <1>3, <2>2, <2>4, <2>6, <2>7
<1>5. F(S) <= G(S)
  BY <1>1, <1>4
<1> QED BY <1>5 DEF F, G

\* What is zero adds nothing.
LEMMA SumOfSupport ==
  ASSUME NEW S, IsFiniteSet(S), NEW f, \A x \in S : f[x] \in Int,
         NEW T \in SUBSET S, \A x \in S \ T : f[x] = 0
  PROVE  SumFunctionOnSet(f, S) = SumFunctionOnSet(f, T)
<1> DEFINE F(s) == SumFunctionOnSet(f, s)
           Bad == {n \in Nat : \E s \in SUBSET S : T \subseteq s /\ Cardinality(s) = n /\ F(s) # F(T)}
<1>1. \A s \in SUBSET S : IsFiniteSet(s) /\ Cardinality(s) \in Nat
  BY FS_Subset, FS_CardinalityType
<1>2. \A s \in SUBSET S : F(s) \in Int /\ \A x \in s : F(s) = f[x] + F(s \ {x})
  BY <1>1, SumInAnyOrder
<1>3. \A s \in SUBSET S : \A x \in s :
         s \ {x} \in SUBSET S /\ Cardinality(s \ {x}) = Cardinality(s) - 1
  BY <1>1, FS_RemoveElement
<1> HIDE DEF F
<1>4. Bad = {}
  <2> SUFFICES ASSUME Bad # {} PROVE FALSE
    OBVIOUS
  <2>1. PICK m \in Bad : \A n \in Bad : m <= n
    <3> HIDE DEF Bad
    <3>1. Bad \subseteq Nat
      BY DEF Bad
    <3> QED BY <3>1, LeastNat
  <2>2. PICK s \in SUBSET S : T \subseteq s /\ Cardinality(s) = m /\ F(s) # F(T)
    BY <2>1
  <2>3. PICK x \in s : x \notin T
    BY <2>2
  <2> DEFINE r == s \ {x}
  <2>4. r \in SUBSET S /\ T \subseteq r /\ Cardinality(r) = m - 1 /\ m \in Nat
    BY <1>1, <1>3, <2>2, <2>3
  <2>5. m - 1 \in Nat
    <3>1. Cardinality(r) \in Nat
      BY <1>1, <2>4
    <3> QED BY <2>4, <3>1
  <2>6. m - 1 \notin Bad
    BY <2>1, <2>4, <2>5
  <2>7. F(s) = F(r)
    <3>1. f[x] = 0 /\ F(s) = f[x] + F(r) /\ F(r) \in Int
      BY <1>2, <2>3, <2>4
    <3> QED BY <3>1
  <2> HIDE DEF r
  <2> QED BY <2>2, <2>4, <2>5, <2>6, <2>7
<1>5. F(S) = F(T)
  BY <1>1, <1>4
<1> QED BY <1>5 DEF F

\* Division forgets a common factor, and keeps the order.
LEMMA CommonFactor ==
  ASSUME NEW x \in Nat, NEW c \in Nat, NEW m \in Nat, c > 0, m > 0
  PROVE  (x * c) \div (c * m) = x \div m
<1> DEFINE q == x \div m
           r == x - m * q
<1>1. q \in Int /\ m * q <= x /\ x < m * q + m
  OBVIOUS
<1> HIDE DEF q
<1>2. r \in Int /\ 0 <= r /\ r < m /\ x = m * q + r
  BY <1>1
<1> HIDE DEF r
<1>3. x * c = (c * m) * q + r * c
  BY <1>1, <1>2
<1>4. 0 <= r * c /\ r * c < c * m
  BY <1>2
<1>5. c * m \in Nat /\ c * m > 0 /\ r * c \in Int
  BY <1>2
<1>6. \A n, d, a, b \in Int : d > 0 /\ n = d * a + b /\ 0 <= b /\ b < d => n \div d = a
  OBVIOUS
<1>7. (x * c) \div (c * m) = q
  BY <1>1, <1>3, <1>4, <1>5, <1>6
<1> QED BY <1>7 DEF q

LEMMA DivisionIsMonotone ==
  ASSUME NEW x \in Int, NEW y \in Int, x <= y, NEW m \in Nat, m > 0
  PROVE  x \div m \in Int /\ x \div m <= y \div m
OBVIOUS

-----------------------------------------------------------------------------
(* The simulator.                                                          *)

LEMMA QualityIsNat ==
  ASSUME NEW on, NEW n \in Node
  PROVE  Sim!Quality(on, n) \in Nat
<1> DEFINE x == IF Sim!Struck(on, "brownout", n) THEN 11 ELSE 20
           y == IF Sim!Struck(on, "partition", n) THEN 3 ELSE 4
<1>1. Nominal[n] \in Nat
  BY ScenarioConstants
<1>2. x \in {11, 20} /\ y \in {3, 4}
  OBVIOUS
<1>3. Sim!Quality(on, n) = IF ~Sim!Reporting(on, n) THEN 0 ELSE (Nominal[n] * x * y) \div 80
  BY DEF Sim!Quality
<1> HIDE DEF x, y
<1>4. Nominal[n] * x * y \in Nat
  BY <1>1, <1>2
<1>5. (Nominal[n] * x * y) \div 80 \in Nat
  BY <1>4
<1> QED BY <1>3, <1>5

\* Another fault takes from the quality of a node, or leaves it.
LEMMA QualityOnlyDegrades ==
  ASSUME NEW on, NEW more, on \subseteq more, NEW n \in Node
  PROVE  Sim!Quality(more, n) <= Sim!Quality(on, n)
<1> DEFINE X(f) == IF Sim!Struck(f, "brownout", n) THEN 11 ELSE 20
           Y(f) == IF Sim!Struck(f, "partition", n) THEN 3 ELSE 4
           V(f) == Nominal[n] * X(f) * Y(f)
<1>1. Nominal[n] \in Nat
  BY ScenarioConstants
<1>2. \A f : Sim!Quality(f, n) = IF ~Sim!Reporting(f, n) THEN 0 ELSE V(f) \div 80
  BY DEF Sim!Quality
<1>3. Sim!Reporting(more, n) => Sim!Reporting(on, n)
  BY DEF Sim!Reporting, Sim!Struck
<1>4. /\ X(more) \in {11, 20} /\ X(on) \in {11, 20} /\ X(more) <= X(on)
      /\ Y(more) \in {3, 4} /\ Y(on) \in {3, 4} /\ Y(more) <= Y(on)
  BY DEF Sim!Struck
<1> HIDE DEF X, Y
<1>5. V(more) \in Nat /\ V(on) \in Nat /\ V(more) <= V(on)
  BY <1>1, <1>4
<1> HIDE DEF V
<1>6. V(more) \div 80 <= V(on) \div 80 /\ V(on) \div 80 \in Nat
  BY <1>5
<1> QED BY <1>2, <1>3, <1>6

\* A zone's confidence is the quality of all its nodes, the lost ones with none,
\* divided among all of them.
LEMMA ConfidenceIsShared ==
  ASSUME NEW on, NEW z \in Zone, Sim!Members(z) # {}
  PROVE  /\ Cardinality(Sim!Members(z)) \in Nat /\ Cardinality(Sim!Members(z)) > 0
         /\ Sim!Together(on, Sim!Members(z)) \in Nat
         /\ Sim!Confidence(on, z) = (Sim!Together(on, Sim!Members(z)) * 60) \div Cardinality(Sim!Members(z))
<1> DEFINE f == [n \in Node |-> Sim!Quality(on, n)]
           M == Sim!Members(z)
           A == Sim!Sources(on, z)
           m == Cardinality(M)
           c == Cardinality(A)
           t == SumFunctionOnSet(f, M)
<1>1. M \subseteq Node /\ A \subseteq M /\ IsFiniteSet(M) /\ IsFiniteSet(A)
  BY FS_Subset, ScenarioConstants DEF Sim!Members, Sim!Sources
<1>2. m \in Nat /\ c \in Nat /\ m > 0 /\ (A # {} => c > 0)
  BY <1>1, FS_CardinalityType, FS_EmptySet
<1>3. \A x \in M : f[x] \in Nat
  BY <1>1, QualityIsNat
<1>4. \A x \in M \ A : f[x] = 0
  <2> SUFFICES ASSUME NEW x \in M, Sim!Status(on, x) = "lost" PROVE f[x] = 0
    BY DEF Sim!Sources
  <2>1. ~Sim!Reporting(on, x)
    BY DEF Sim!Status
  <2> QED BY <1>1, <2>1 DEF Sim!Quality
<1>5. \A S : /\ Sim!Together(on, S) = SumFunctionOnSet(f, S)
             /\ Sim!Cardinality(S) = Cardinality(S)
  BY DEF Sim!Together, Sim!SumFunctionOnSet, Sim!FoldFunctionOnSet, Sim!MapThenFoldSet,
         SumFunctionOnSet, FoldFunctionOnSet, MapThenFoldSet, Sim!Cardinality, Cardinality
<1> HIDE DEF f
<1>6. SumFunctionOnSet(f, A) = t
  <2> HIDE DEF M, A
  <2> QED BY <1>1, <1>3, <1>4, SumOfSupport
<1>7. t \in Nat
  <2> DEFINE zero == [x \in M |-> 0]
  <2>1. SumFunctionOnSet(zero, M) <= t
    <3>1. \A x \in M : zero[x] \in Int /\ f[x] \in Int /\ zero[x] <= f[x]
      BY <1>3
    <3> HIDE DEF zero, M
    <3> QED BY <1>1, <3>1, SumIsMonotone
  <2>2. SumFunctionOnSet(zero, M) = SumFunctionOnSet(zero, {})
    <3>1. \A x \in M : zero[x] \in Int /\ zero[x] = 0
      OBVIOUS
    <3> HIDE DEF zero, M
    <3> QED BY <1>1, <3>1, SumOfSupport
  <2>3. SumFunctionOnSet(zero, {}) = 0
    BY SumStep, FS_EmptySet
  <2>4. t \in Int
    <3> HIDE DEF M
    <3> QED BY <1>1, <1>3, SumInAnyOrder
  <2> HIDE DEF t, zero
  <2> QED BY <2>1, <2>2, <2>3, <2>4
<1>8. Sim!Confidence(on, z) = IF A = {} THEN 0 ELSE (t * 60 * c) \div (c * m)
  BY <1>5, <1>6 DEF Sim!Confidence
<1>9. CASE A = {}
  <2>1. t = 0
    BY <1>6, <1>9, SumStep, FS_EmptySet
  <2>2. (t * 60) \div m = 0
    BY <1>2, <2>1
  <2> QED BY <1>2, <1>5, <1>7, <1>8, <1>9, <2>2
<1>10. CASE A # {}
  <2> HIDE DEF t, c, m
  <2>1. t * 60 \in Nat
    BY <1>7
  <2>2. ((t * 60) * c) \div (c * m) = (t * 60) \div m
    BY <1>2, <1>10, <2>1, CommonFactor
  <2>3. Sim!Confidence(on, z) = (t * 60) \div m
    BY <1>8, <1>10, <2>2
  <2> QED BY <1>2, <1>5, <1>7, <2>3 DEF t, m
<1> QED BY <1>9, <1>10

LEMMA MoreFaultsNoMoreConfidence ==
  ASSUME NEW on, NEW more, on \subseteq more, NEW z \in Zone
  PROVE  Sim!Confidence(more, z) <= Sim!Confidence(on, z)
<1>1. CASE Sim!Members(z) = {}
  <2>1. \A f : Sim!Sources(f, z) = {}
    BY <1>1 DEF Sim!Sources
  <2> QED BY <2>1 DEF Sim!Confidence
<1>2. CASE Sim!Members(z) # {}
  <2> DEFINE M == Sim!Members(z)
             T(f) == Sim!Together(f, M)
             Q(f) == [n \in Node |-> Sim!Quality(f, n)]
  <2>1. M \subseteq Node /\ IsFiniteSet(M)
    BY FS_Subset, ScenarioConstants DEF Sim!Members
  <2>2. \A x \in M : Q(more)[x] \in Int /\ Q(on)[x] \in Int /\ Q(more)[x] <= Q(on)[x]
    BY <2>1, QualityIsNat, QualityOnlyDegrades
  <2>3. \A f : T(f) = SumFunctionOnSet(Q(f), M)
    BY DEF Sim!Together, Sim!SumFunctionOnSet, Sim!FoldFunctionOnSet, Sim!MapThenFoldSet,
           SumFunctionOnSet, FoldFunctionOnSet, MapThenFoldSet
  <2> HIDE DEF Q
  <2>4. T(more) <= T(on)
    <3>1. SumFunctionOnSet(Q(more), M) <= SumFunctionOnSet(Q(on), M)
      <4> HIDE DEF M
      <4> QED BY <2>1, <2>2, SumIsMonotone
    <3> QED BY <2>3, <3>1
  <2>5. \A f : /\ Cardinality(M) \in Nat /\ Cardinality(M) > 0 /\ T(f) \in Nat
               /\ Sim!Confidence(f, z) = (T(f) * 60) \div Cardinality(M)
    BY <1>2, ConfidenceIsShared
  <2> HIDE DEF M, T
  <2>6. T(more) * 60 <= T(on) * 60 /\ T(more) * 60 \in Int /\ T(on) * 60 \in Int
    BY <2>4, <2>5
  <2>7. (T(more) * 60) \div Cardinality(M) <= (T(on) * 60) \div Cardinality(M)
    BY <2>5, <2>6, DivisionIsMonotone
  <2> QED BY <2>5, <2>7
<1> QED BY <1>1, <1>2

(* Whatever the nodes, their qualities and the faults that strike them, a  *)
(* fault more never raises what a zone claims and a fault less never       *)
(* lowers it (openbrec/simulator.py run_scenario).                         *)
THEOREM FaultsOnlyDegrade == RecordsSpec => ConfidenceOnlyDegrades
<1>1. [RecordsNext]_recordsVars =>
        [\A z \in Zone :
           /\ enabled \subseteq enabled' => Sim!Confidence(enabled', z) <= Sim!Confidence(enabled, z)
           /\ enabled' \subseteq enabled => Sim!Confidence(enabled', z) >= Sim!Confidence(enabled, z)]_(Sim!vars)
  <2> SUFFICES ASSUME NEW z \in Zone
               PROVE  /\ enabled \subseteq enabled' => Sim!Confidence(enabled', z) <= Sim!Confidence(enabled, z)
                      /\ enabled' \subseteq enabled => Sim!Confidence(enabled', z) >= Sim!Confidence(enabled, z)
    OBVIOUS
  <2>1. enabled \subseteq enabled' => Sim!Confidence(enabled', z) <= Sim!Confidence(enabled, z)
    BY MoreFaultsNoMoreConfidence
  <2>2. enabled' \subseteq enabled => Sim!Confidence(enabled, z) <= Sim!Confidence(enabled', z)
    BY MoreFaultsNoMoreConfidence
  <2>3. \A f : Sim!Confidence(f, z) \in Int
    <3> TAKE f
    <3>1. CASE Sim!Members(z) = {}
      BY <3>1 DEF Sim!Confidence, Sim!Sources
    <3>2. CASE Sim!Members(z) # {}
      BY <3>2, ConfidenceIsShared
    <3> QED BY <3>1, <3>2
  <2> QED BY <2>1, <2>2, <2>3
<1> QED BY <1>1, PTL DEF RecordsSpec, ConfidenceOnlyDegrades, Sim!ConfidenceOnlyDegrades

-----------------------------------------------------------------------------
(* The replay of the specification.                                        *)

Sorted(s) == \A i, j \in DOMAIN s : i < j => ~Sos!Earlier(s[j], s[i])

\* Earlier is a total order of the events.
LEMMA EarlierOrders ==
  /\ \A e, f \in SosEvent : ~(Sos!Earlier(e, f) /\ Sos!Earlier(f, e))
  /\ \A e, f \in SosEvent : e = f \/ Sos!Earlier(e, f) \/ Sos!Earlier(f, e)
  /\ \A e, f, g \in SosEvent : Sos!Earlier(e, f) /\ ~Sos!Earlier(g, f) => Sos!Earlier(e, g)
  /\ \A e, f, g \in SosEvent : ~Sos!Earlier(f, e) /\ Sos!Earlier(f, g) => Sos!Earlier(e, g)
BY SosConstants DEF Sos!Earlier

\* Any log can be sorted: an event's place is the number of those before it.
LEMMA CanBeSorted ==
  ASSUME NEW l \in Seq(SosEvent)
  PROVE  \E p \in Bijection(DOMAIN l, DOMAIN l) : Sorted([i \in DOMAIN l |-> l[p[i]]])
<1> DEFINE n == Len(l)
           D == 1..n
           B(i, j) == Sos!Earlier(l[i], l[j]) \/ (~Sos!Earlier(l[j], l[i]) /\ i < j)
           Lower(j) == {i \in D : B(i, j)}
           rank == [j \in D |-> Cardinality(Lower(j)) + 1]
<1>1. n \in Nat /\ DOMAIN l = D /\ \A i \in D : i \in Int /\ l[i] \in SosEvent
  OBVIOUS
<1>2. IsFiniteSet(D) /\ Cardinality(D) = n
  <2>1. n \in Nat
    OBVIOUS
  <2> HIDE DEF n
  <2> QED BY <2>1, FS_Interval
<1>3. /\ \A i \in D : ~B(i, i)
      /\ \A i, j \in D : i # j => B(i, j) \/ B(j, i)
      /\ \A i, j, k \in D : B(i, j) /\ B(j, k) => B(i, k)
  BY <1>1, EarlierOrders
<1>4. \A j \in D : IsFiniteSet(Lower(j)) /\ Cardinality(Lower(j)) \in Nat
  BY <1>2, FS_Subset, FS_CardinalityType
<1> HIDE DEF B
<1>5. \A i, j \in D : B(i, j) => rank[i] < rank[j]
  <2> TAKE i, j \in D
  <2> HAVE B(i, j)
  <2>1. Lower(i) \in SUBSET Lower(j) /\ i \in Lower(j) /\ i \notin Lower(i)
    BY <1>3
  <2>2. Cardinality(Lower(i)) <= Cardinality(Lower(j)) /\ Cardinality(Lower(i)) # Cardinality(Lower(j))
    BY <1>4, <2>1, FS_Subset
  <2> HIDE DEF Lower
  <2> QED BY <1>4, <2>2
<1>6. rank \in [D -> D]
  <2> SUFFICES ASSUME NEW j \in D PROVE Cardinality(Lower(j)) + 1 \in 1..n
    OBVIOUS
  <2>1. Lower(j) \in SUBSET D /\ Lower(j) # D
    BY <1>3
  <2>2. Cardinality(Lower(j)) <= n /\ Cardinality(Lower(j)) # n
    BY <1>2, <2>1, FS_Subset
  <2> HIDE DEF Lower
  <2> QED BY <1>1, <1>4, <2>2
<1> HIDE DEF D
<1>7. \A i, j \in D : rank[i] = rank[j] => i = j
  <2>1. \A j \in D : rank[j] \in Int
    <3> HIDE DEF Lower
    <3> QED BY <1>4
  <2> HIDE DEF rank
  <2> QED BY <1>3, <1>5, <2>1
<1> HIDE DEF rank, Lower
<1>8. rank \in Injection(D, D)
  BY <1>6, <1>7 DEF Injection, IsInjective
<1>9. rank \in Surjection(D, D)
  BY <1>2, <1>8, FS_Injection
<1> DEFINE p == [k \in D |-> CHOOSE i \in D : rank[i] = k]
<1>10. \A k \in D : p[k] \in D /\ rank[p[k]] = k
  BY <1>9 DEF Surjection
<1>11. \A i \in D : rank[i] \in D /\ p[rank[i]] = i
  BY <1>6, <1>7, <1>10
<1>12. p \in [D -> D]
  BY <1>10
<1> HIDE DEF p
<1>13. p \in Bijection(D, D)
  <2>1. p \in Injection(D, D)
    BY <1>10, <1>12 DEF Injection, IsInjective
  <2>2. p \in Surjection(D, D)
    BY <1>11, <1>12 DEF Surjection
  <2> QED BY <2>1, <2>2 DEF Bijection
<1>14. ASSUME NEW k \in D, NEW m \in D, k < m PROVE ~Sos!Earlier(l[p[m]], l[p[k]])
  <2> SUFFICES ASSUME Sos!Earlier(l[p[m]], l[p[k]]) PROVE FALSE
    OBVIOUS
  <2>1. B(p[m], p[k])
    BY DEF B
  <2>2. m < k
    BY <1>5, <1>10, <2>1
  <2> QED BY <1>1, <1>14, <2>2
<1>15. Sorted([i \in D |-> l[p[i]]])
  BY <1>14 DEF Sorted
<1> QED BY <1>1, <1>13, <1>15

LEMMA SpecOrderSorts ==
  ASSUME NEW l \in Seq(SosEvent)
  PROVE  /\ Sos!SpecOrder(l) \in Seq(SosEvent) /\ Len(Sos!SpecOrder(l)) = Len(l)
         /\ DOMAIN Sos!SpecOrder(l) = DOMAIN l
         /\ \E p : Rearranges(p, l, Sos!SpecOrder(l))
         /\ Sorted(Sos!SpecOrder(l))
<1> DEFINE D == DOMAIN l
           Good(p) == \A i, j \in D : i < j => ~Sos!Earlier(l[p[j]], l[p[i]])
           p == CHOOSE q \in Bijection(D, D) : Good(q)
           s == [i \in D |-> l[p[i]]]
<1>1. \E q \in Bijection(D, D) : Good(q)
  BY CanBeSorted DEF Sorted
<1>2. p \in Bijection(D, D) /\ Good(p)
  <2> HIDE DEF Good
  <2> QED BY <1>1
<1>3. Sos!SpecOrder(l) = s
  BY DEF Sos!SpecOrder, Sos!Bijection, Sos!Injection, Sos!Surjection, Sos!IsInjective,
         Bijection, Injection, Surjection, IsInjective
<1> HIDE DEF p
<1>4. Rearranges(p, l, s) /\ Sorted(s)
  BY <1>2 DEF Rearranges, Sorted, Bijection, Injection, Surjection, IsInjective
<1>5. s \in Seq(SosEvent) /\ Len(s) = Len(l) /\ DOMAIN s = D
  <2>1. D = 1..Len(l) /\ Len(l) \in Nat /\ \A i \in D : l[i] \in SosEvent
    OBVIOUS
  <2>2. p \in [D -> D]
    BY <1>2 DEF Bijection, Injection
  <2>3. \A i \in 1..Len(l) : s[i] \in SosEvent
    BY <2>1, <2>2
  <2> QED BY <2>1, <2>3
<1> QED BY <1>3, <1>4, <1>5

\* No log goes where a smaller one does.
LEMMA NoRoom ==
  ASSUME NEW i \in Nat, NEW q, \A m \in 1..i : q[m] \in 1..(i - 1),
         \A m, k \in 1..i : q[m] = q[k] => m = k, i > 0
  PROVE  FALSE
<1> DEFINE f == [m \in 1..i |-> q[m]]
<1>1. f \in [1..i -> 1..(i - 1)]
  OBVIOUS
<1>2. /\ IsFiniteSet(1..i) /\ Cardinality(1..i) = i
      /\ IsFiniteSet(1..(i - 1)) /\ Cardinality(1..(i - 1)) = i - 1
  BY FS_Interval
<1>3. \A m, k \in 1..i : f[m] = f[k] => m = k
  OBVIOUS
<1> HIDE DEF f
<1> QED BY <1>1, <1>2, <1>3, FS_PigeonHole

\* Two sorted logs of the same events do not differ at a place: the smaller of two
\* events there would have too few places before it in the other log.
LEMMA SortedOnce ==
  ASSUME NEW s \in Seq(SosEvent), NEW t \in Seq(SosEvent), Sorted(s), Sorted(t),
         DOMAIN s = DOMAIN t, NEW q, Rearranges(q, s, t), NEW i \in DOMAIN s
  PROVE  ~Sos!Earlier(t[i], s[i])
<1> SUFFICES ASSUME Sos!Earlier(t[i], s[i]) PROVE FALSE
  OBVIOUS
<1>1. /\ DOMAIN s = 1..Len(s) /\ i \in Nat /\ i > 0 /\ 1..i \subseteq DOMAIN s
      /\ \A k \in DOMAIN s : k \in Int /\ s[k] \in SosEvent /\ t[k] \in SosEvent
  OBVIOUS
<1>2. ASSUME NEW m \in 1..i PROVE q[m] \in 1..(i - 1)
  <2>1. m \in DOMAIN s /\ q[m] \in DOMAIN s /\ t[m] = s[q[m]]
    BY <1>1 DEF Rearranges
  <2>2. Sos!Earlier(t[m], s[i])
    <3>1. m = i \/ m < i
      BY <1>1
    <3>2. m < i => ~Sos!Earlier(t[i], t[m])
      BY <1>1, <2>1 DEF Sorted
    <3> QED BY <1>1, <2>1, <3>1, <3>2, EarlierOrders
  <2>3. ~(q[m] >= i)
    <3> SUFFICES ASSUME q[m] >= i PROVE FALSE
      OBVIOUS
    <3>1. q[m] = i \/ i < q[m]
      BY <1>1, <2>1
    <3>2. i < q[m] => ~Sos!Earlier(s[q[m]], s[i])
      BY <2>1 DEF Sorted
    <3> QED BY <1>1, <2>1, <2>2, <3>1, <3>2, EarlierOrders
  <2> QED BY <1>1, <2>1, <2>3
<1>3. \A m, k \in 1..i : q[m] = q[k] => m = k
  BY <1>1 DEF Rearranges
<1> QED BY <1>1, <1>2, <1>3, NoRoom

LEMMA OneOrder ==
  ASSUME NEW l \in Seq(SosEvent), NEW o \in Seq(SosEvent), NEW p, Rearranges(p, l, o), Len(l) = Len(o)
  PROVE  Sos!SpecOrder(o) = Sos!SpecOrder(l)
<1> DEFINE s == Sos!SpecOrder(l)
           t == Sos!SpecOrder(o)
<1>1. /\ s \in Seq(SosEvent) /\ t \in Seq(SosEvent) /\ DOMAIN s = DOMAIN t
      /\ Sorted(s) /\ Sorted(t) /\ Len(s) = Len(t)
  BY SpecOrderSorts
<1>2. PICK a : Rearranges(a, l, s)
  BY SpecOrderSorts
<1>3. PICK b : Rearranges(b, o, t)
  BY SpecOrderSorts
<1> HIDE DEF s, t
<1>4. PICK c : Rearranges(c, s, l)
  BY <1>2, Back
<1>5. \E d : Rearranges(d, s, o)
  BY <1>4, Composed
<1>6. PICK e : Rearranges(e, s, t)
  BY <1>3, <1>5, Composed
<1>7. PICK f : Rearranges(f, t, s)
  BY <1>6, Back
<1>8. \A i \in DOMAIN s : ~Sos!Earlier(t[i], s[i]) /\ ~Sos!Earlier(s[i], t[i])
  BY <1>1, <1>6, <1>7, SortedOnce
<1>9. \A i \in DOMAIN s : s[i] = t[i]
  <2>1. \A i \in DOMAIN s : s[i] \in SosEvent /\ t[i] \in SosEvent
    BY <1>1
  <2> QED BY <1>8, <2>1, EarlierOrders
<1>10. s = t
  BY <1>1, <1>9
<1> QED BY <1>10 DEF s, t

\* Where the replay stands after each event.
Runs(run, s) ==
  run = [i \in 0..Len(s) |-> IF i = 0 THEN [raises |-> FALSE, refused |-> 0, seen |-> {}]
                             ELSE Sos!SpecStep(run[i - 1], s[i])]

LEMMA ReplayExists ==
  ASSUME NEW s \in Seq(SosEvent)
  PROVE  \E run : Runs(run, s)
<1> DEFINE n == Len(s)
           start == [raises |-> FALSE, refused |-> 0, seen |-> {}]
           UpTo(m, g) == \A i \in 0..m : g[i] = IF i = 0 THEN start ELSE Sos!SpecStep(g[i - 1], s[i])
           Some(m) == \E g : g = [i \in 0..m |-> g[i]] /\ UpTo(m, g)
           Bad == {m \in Nat : ~Some(m)}
<1>1. n \in Nat
  OBVIOUS
<1>2. Some(0)
  <2> DEFINE g == [i \in 0..0 |-> start]
  <2>1. g = [i \in 0..0 |-> g[i]] /\ UpTo(0, g)
    OBVIOUS
  <2> QED BY <2>1
<1>3. ASSUME NEW m \in Nat, Some(m) PROVE Some(m + 1)
  <2>1. PICK g : g = [i \in 0..m |-> g[i]] /\ UpTo(m, g)
    BY <1>3
  <2> DEFINE h == [i \in 0..(m + 1) |-> IF i <= m THEN g[i] ELSE Sos!SpecStep(g[m], s[m + 1])]
  <2>2. h = [i \in 0..(m + 1) |-> h[i]]
    OBVIOUS
  <2>3. ASSUME NEW i \in 0..(m + 1)
        PROVE  h[i] = IF i = 0 THEN start ELSE Sos!SpecStep(h[i - 1], s[i])
    <3> HIDE DEF start
    <3>1. CASE i = 0
      BY <2>1, <3>1
    <3>2. CASE i # 0 /\ i <= m
      <4>1. h[i] = g[i] /\ h[i - 1] = g[i - 1] /\ i \in 0..m
        BY <3>2
      <4> QED BY <2>1, <3>2, <4>1
    <3>3. CASE i = m + 1
      <4>1. h[i] = Sos!SpecStep(g[m], s[m + 1]) /\ h[i - 1] = g[m]
        BY <3>3
      <4> QED BY <3>3, <4>1
    <3> QED BY <3>1, <3>2, <3>3
  <2> HIDE DEF h
  <2> QED BY <2>2, <2>3
<1> HIDE DEF Some
<1>4. Bad = {}
  <2> SUFFICES ASSUME Bad # {} PROVE FALSE
    OBVIOUS
  <2>1. PICK m \in Bad : \A k \in Bad : m <= k
    <3> HIDE DEF Bad
    <3>1. Bad \subseteq Nat
      BY DEF Bad
    <3> QED BY <3>1, LeastNat
  <2>2. m \in Nat /\ m # 0
    BY <1>2
  <2>3. m - 1 \in Nat /\ m - 1 \notin Bad
    BY <2>1, <2>2
  <2>4. Some(m - 1 + 1)
    BY <1>3, <2>3
  <2> QED BY <2>2, <2>4
<1>5. Some(n)
  <2> HIDE DEF n
  <2> QED BY <1>1, <1>4
<1>6. PICK g : g = [i \in 0..n |-> g[i]] /\ UpTo(n, g)
  BY <1>5 DEF Some
<1>7. Runs(g, s)
  BY <1>6 DEF Runs
<1> QED BY <1>7

LEMMA ReplayIsRun ==
  ASSUME NEW l, Sos!SpecOrder(l) \in Seq(SosEvent)
  PROVE  \E run : Runs(run, Sos!SpecOrder(l)) /\ Sos!SpecReduce(l) = run[Len(Sos!SpecOrder(l))]
<1> DEFINE s == Sos!SpecOrder(l)
           r == CHOOSE run : Runs(run, s)
<1>1. Sos!SpecReduce(l) = r[Len(s)]
  BY DEF Sos!SpecReduce, Runs
<1>2. Runs(r, s)
  BY ReplayExists
<1> QED BY <1>1, <1>2

Prefix(s, i) == {s[k] : k \in {m \in DOMAIN s : m < i}}

\* An event that the replay of the specification takes, after all before it.
Taken(s, i) ==
  /\ s[i].causes \subseteq Sos!Ids(Prefix(s, i))
  /\ s[i].type = "operator.accepted" =>
       s[i].acceptor /\ ~Sos!LacksPrerequisites(s[i], Prefix(s, i))

\* The replay has taken everything, or has raised or refused: for good.
Stage(s, run, i) ==
  /\ run[i].raises \in BOOLEAN /\ run[i].refused \in Nat
  /\ run[i] = [raises |-> run[i].raises, refused |-> run[i].refused, seen |-> run[i].seen]
  /\ IF \A k \in 1..i : Taken(s, k)
     THEN ~run[i].raises /\ run[i].refused = 0 /\ run[i].seen = Prefix(s, i + 1)
     ELSE run[i].raises \/ run[i].refused > 0

LEMMA StageStep ==
  ASSUME NEW s \in Seq(SosEvent), \A i, j \in DOMAIN s : s[i].id = s[j].id => i = j,
         NEW run, Runs(run, s), NEW i \in DOMAIN s, Stage(s, run, i - 1)
  PROVE  Stage(s, run, i)
<1> DEFINE a == run[i - 1]
           e == s[i]
           r == a.raises
           n == a.refused
           S == a.seen
           before == \A k \in 1..(i - 1) : Taken(s, k)
<1>1. i \in Nat /\ i > 0 /\ i \in 0..Len(s) /\ i - 1 \in 0..Len(s) /\ DOMAIN s = 1..Len(s)
  OBVIOUS
<1>2. run[i] = Sos!SpecStep(a, e)
  <2>1. \A j \in 0..Len(s) : run[j] = IF j = 0 THEN [raises |-> FALSE, refused |-> 0, seen |-> {}]
                                      ELSE Sos!SpecStep(run[j - 1], s[j])
    BY DEF Runs
  <2>2. i # 0
    BY <1>1
  <2> QED BY <1>1, <2>1, <2>2
<1>3. /\ r \in BOOLEAN /\ n \in Nat /\ a = [raises |-> r, refused |-> n, seen |-> S]
      /\ before => ~r /\ n = 0 /\ S = Prefix(s, i)
      /\ ~before => r \/ n > 0
  BY <1>1 DEF Stage
<1>4. (\A k \in 1..i : Taken(s, k)) <=> before /\ Taken(s, i)
  <2>1. 1..i = 1..(i - 1) \cup {i}
    BY <1>1
  <2> QED BY <2>1
<1>5. Prefix(s, i + 1) = Prefix(s, i) \cup {e}
  <2>1. {m \in DOMAIN s : m < i + 1} = {m \in DOMAIN s : m < i} \cup {i}
    BY <1>1
  <2> QED BY <2>1 DEF Prefix
<1>6. e.id \notin Sos!Ids(Prefix(s, i))
  BY <1>1 DEF Sos!Ids, Prefix
<1> HIDE DEF a, e, r, n, S, before
<1>7. CASE before
  <2>1. a = [raises |-> FALSE, refused |-> 0, seen |-> Prefix(s, i)]
    BY <1>3, <1>7
  <2> DEFINE P == Prefix(s, i)
  <2>2. run[i] = Sos!SpecStep([raises |-> FALSE, refused |-> 0, seen |-> P], e)
    BY <1>2, <2>1
  <2> HIDE DEF P
  <2>3. CASE Taken(s, i)
    <3>1. run[i] = [raises |-> FALSE, refused |-> 0, seen |-> P \cup {e}]
      BY <1>6, <2>2, <2>3 DEF Sos!SpecStep, Taken, e, P
    <3>2. run[i] = [raises |-> FALSE, refused |-> 0, seen |-> Prefix(s, i + 1)]
      BY <1>5, <3>1 DEF P
    <3> QED BY <1>4, <1>7, <2>3, <3>2 DEF Stage
  <2>4. CASE ~Taken(s, i)
    <3>1. \/ run[i] = [raises |-> TRUE, refused |-> 0, seen |-> P]
          \/ run[i] = [raises |-> FALSE, refused |-> 0 + 1, seen |-> P]
      BY <1>6, <2>2, <2>4 DEF Sos!SpecStep, Taken, e, P
    <3>2. /\ run[i].raises \in BOOLEAN /\ run[i].refused \in Nat
          /\ run[i] = [raises |-> run[i].raises, refused |-> run[i].refused, seen |-> run[i].seen]
          /\ run[i].raises \/ run[i].refused > 0
      <4>1. CASE run[i] = [raises |-> TRUE, refused |-> 0, seen |-> P]
        BY <4>1
      <4>2. CASE run[i] = [raises |-> FALSE, refused |-> 0 + 1, seen |-> P]
        BY <4>2
      <4> QED BY <3>1, <4>1, <4>2
    <3> QED BY <1>4, <2>4, <3>2 DEF Stage
  <2> QED BY <2>3, <2>4
<1>8. CASE ~before
  <2>1. r \/ n > 0
    BY <1>3, <1>8
  <2>2. run[i] = Sos!SpecStep([raises |-> r, refused |-> n, seen |-> S], e)
    BY <1>2, <1>3
  <2>3. \/ run[i] = [raises |-> r, refused |-> n, seen |-> S]
        \/ run[i] = [raises |-> TRUE, refused |-> n, seen |-> S]
        \/ run[i] = [raises |-> FALSE, refused |-> n + 1, seen |-> S]
        \/ ~r /\ run[i] = [raises |-> FALSE, refused |-> n, seen |-> S \cup {e}]
    BY <1>3, <2>2 DEF Sos!SpecStep
  <2>4. /\ run[i].raises \in BOOLEAN /\ run[i].refused \in Nat
        /\ run[i] = [raises |-> run[i].raises, refused |-> run[i].refused, seen |-> run[i].seen]
        /\ run[i].raises \/ run[i].refused > 0
    <3>1. CASE run[i] = [raises |-> r, refused |-> n, seen |-> S]
      BY <1>3, <2>1, <3>1
    <3>2. CASE run[i] = [raises |-> TRUE, refused |-> n, seen |-> S]
      BY <1>3, <3>2
    <3>3. CASE run[i] = [raises |-> FALSE, refused |-> n + 1, seen |-> S]
      BY <1>3, <3>3
    <3>4. CASE ~r /\ run[i] = [raises |-> FALSE, refused |-> n, seen |-> S \cup {e}]
      BY <1>3, <2>1, <3>4
    <3> QED BY <2>3, <3>1, <3>2, <3>3, <3>4
  <2> QED BY <1>4, <1>8, <2>4 DEF Stage
<1> QED BY <1>7, <1>8

LEMMA StageEnds ==
  ASSUME NEW s \in Seq(SosEvent), \A i, j \in DOMAIN s : s[i].id = s[j].id => i = j,
         NEW run, Runs(run, s)
  PROVE  Stage(s, run, Len(s))
<1> DEFINE n == Len(s)
           Bad == {i \in 0..n : ~Stage(s, run, i)}
<1>1. n \in Nat /\ DOMAIN s = 1..n
  OBVIOUS
<1>2. Stage(s, run, 0)
  <2>1. run[0] = [raises |-> FALSE, refused |-> 0, seen |-> {}]
    BY <1>1 DEF Runs
  <2>2. Prefix(s, 0 + 1) = {}
    BY <1>1 DEF Prefix
  <2>3. 1..0 = {}
    OBVIOUS
  <2> QED BY <2>1, <2>2, <2>3 DEF Stage
<1> HIDE DEF n
<1>3. Bad = {}
  <2> SUFFICES ASSUME Bad # {} PROVE FALSE
    OBVIOUS
  <2>1. PICK m \in Bad : \A k \in Bad : m <= k
    <3> HIDE DEF Bad
    <3>1. Bad \subseteq Nat
      BY <1>1 DEF Bad
    <3> QED BY <3>1, LeastNat
  <2>2. m \in DOMAIN s /\ m - 1 \in 0..n
    BY <1>1, <1>2
  <2>3. Stage(s, run, m - 1)
    BY <1>1, <2>1, <2>2
  <2>4. Stage(s, run, m)
    BY <2>2, <2>3, StageStep
  <2> QED BY <2>1, <2>4
<1>4. Stage(s, run, n)
  BY <1>1, <1>3
<1> QED BY <1>4 DEF n

\* Without a tie, an event has the same causes before it in both replays.
LEMMA SameRefusal ==
  ASSUME NEW l \in Seq(SosEvent), NEW s \in Seq(SosEvent), NEW p, Rearranges(p, l, s), Sorted(s),
         ~Ties(l), \A i, j \in DOMAIN l : l[i].id = l[j].id => i = j, NEW i \in DOMAIN s
  PROVE  Sos!Refusal(l[p[i]], Sos!Before(l, p[i])) = "none" <=> Taken(s, i)
<1> DEFINE e == s[i]
           j == p[i]
           A == Sos!Before(l, j)
           P == Prefix(s, i)
<1>1. /\ j \in DOMAIN l /\ l[j] = e /\ i \in Int
      /\ \A k \in DOMAIN l : k \in Int /\ l[k] \in SosEvent /\ l[k].at \in Int
      /\ \A k \in DOMAIN s : k \in Int /\ p[k] \in DOMAIN l /\ s[k] = l[p[k]] /\ s[k] \in SosEvent /\ s[k].at \in Int
  BY SosConstants DEF Rearranges
<1>2. \A k \in DOMAIN l : l[k].id \in e.causes => l[k].at # e.at
  BY <1>1 DEF Ties
<1>3. ASSUME NEW k \in DOMAIN l, l[k].id \in e.causes
      PROVE  l[k] \in A <=> l[k].at < e.at
  <2>1. l[k] \in A <=> \E m \in DOMAIN l : Sos!Precedes(l, m, j) /\ l[m] = l[k]
    BY DEF Sos!Before
  <2>2. \A m \in DOMAIN l : l[m] = l[k] => (Sos!Precedes(l, m, j) <=> l[k].at < e.at)
    BY <1>1, <1>2, <1>3 DEF Sos!Precedes
  <2> QED BY <2>1, <2>2
<1>4. ASSUME NEW k \in DOMAIN s, s[k].id \in e.causes
      PROVE  k < i <=> s[k].at < e.at
  <2>1. s[k].at # e.at
    BY <1>1, <1>2, <1>4
  <2>2. k # i
    BY <2>1
  <2>3. k < i => ~(e.at < s[k].at)
    BY DEF Sorted, Sos!Earlier
  <2>4. i < k => ~(s[k].at < e.at)
    BY DEF Sorted, Sos!Earlier
  <2> QED BY <1>1, <2>1, <2>2, <2>3, <2>4
<1>5. \A f : f.id \in e.causes => (f \in A <=> f \in P)
  <2> SUFFICES ASSUME NEW f, f.id \in e.causes PROVE f \in A <=> f \in P
    OBVIOUS
  <2>1. ASSUME f \in A PROVE f \in P
    <3>1. PICK k \in DOMAIN l : f = l[k]
      BY <2>1 DEF Sos!Before
    <3>2. PICK m \in DOMAIN s : p[m] = k
      BY DEF Rearranges
    <3>3. s[m] = f /\ f.at < e.at
      BY <1>1, <1>3, <2>1, <3>1, <3>2
    <3>4. m < i
      BY <1>4, <3>3
    <3> QED BY <3>3, <3>4 DEF Prefix
  <2>2. ASSUME f \in P PROVE f \in A
    <3>1. PICK m \in DOMAIN s : f = s[m] /\ m < i
      BY <2>2 DEF Prefix
    <3>2. f.at < e.at /\ f = l[p[m]] /\ p[m] \in DOMAIN l
      BY <1>1, <1>4, <3>1
    <3> QED BY <1>3, <3>2
  <2> QED BY <2>1, <2>2
<1>6. e.id \notin Sos!Ids(A)
  <2> SUFFICES ASSUME NEW k \in DOMAIN l, Sos!Precedes(l, k, j), l[k].id = e.id PROVE FALSE
    BY DEF Sos!Before, Sos!Ids
  <2>1. k = j
    BY <1>1
  <2> QED BY <1>1, <2>1 DEF Sos!Precedes
<1> HIDE DEF A, P, e
<1>7. e.causes \subseteq Sos!Ids(A) <=> e.causes \subseteq Sos!Ids(P)
  BY <1>5 DEF Sos!Ids
<1>8. Sos!LacksPrerequisites(e, A) <=> Sos!LacksPrerequisites(e, P)
  <2>1. {f \in A : f.id \in e.causes} = {f \in P : f.id \in e.causes}
    BY <1>5
  <2> QED BY <2>1 DEF Sos!LacksPrerequisites
<1>9. Sos!Refusal(e, A) = "none" <=>
        /\ e.causes \subseteq Sos!Ids(P)
        /\ e.type = "operator.accepted" => e.acceptor /\ ~Sos!LacksPrerequisites(e, P)
  BY <1>6, <1>7, <1>8, NotRefused
<1> QED BY <1>1, <1>9 DEF Taken, e, A, P

(* The replay of the specification does not depend on the order of         *)
(* arrival, whatever arrives, and agrees with the one of the program on    *)
(* what stands wherever no event is repeated or ties with its cause        *)
(* (openbrec/open_spec_messaging.py _reduce_sos, openbrec/messaging.py     *)
(* reduce_sos).                                                            *)
THEOREM ReplaysAgree == RecordsSpec => []SpecAgrees
<1>1. RecordsInit => SosInv
  BY DEF RecordsInit, Sos!Init, SosInv
<1>2. SosInv /\ [RecordsNext]_recordsVars => SosInv'
  BY SosNext, StepsApart DEF SosInv
<1>3. SosInv => SpecAgrees
  <2> SUFFICES ASSUME SosInv PROVE SpecAgrees
    OBVIOUS
  <2> DEFINE l == arrived
             s == Sos!SpecOrder(l)
             spec == Sos!SpecReduce(l)
  <2>1. l \in Seq(SosEvent)
    BY DEF SosInv
  <2>2. ASSUME NEW o \in Sos!Arrivals(l) PROVE Sos!SpecReduce(o) = spec
    <3>1. o \in Seq(SosEvent) /\ Len(o) = Len(l) /\ \E p : Rearranges(p, l, o)
      BY <2>1, InAnyOrder
    <3>2. Sos!SpecOrder(o) = Sos!SpecOrder(l)
      BY <2>1, <3>1, OneOrder
    <3> QED BY <3>2 DEF Sos!SpecReduce
  <2>3. ASSUME ~Sos!TiesWithItsCause, Sos!IsInjective([i \in 1..Len(l) |-> l[i].id])
        PROVE  /\ Sos!Reduces(l) <=> ~spec.raises /\ spec.refused = 0
               /\ Sos!Reduces(l) => (("operator.accepted" \in Sos!TypesOf(spec.seen))
                                        <=> Sos!Operational(l) = "accepted")
    <3>1. /\ s \in Seq(SosEvent) /\ Len(s) = Len(l) /\ DOMAIN s = DOMAIN l /\ Sorted(s)
          /\ DOMAIN s = 1..Len(s) /\ Len(s) \in Nat
      BY <2>1, SpecOrderSorts
    <3>2. PICK p : Rearranges(p, l, s)
      BY <2>1, SpecOrderSorts
    <3>3. PICK run : Runs(run, s) /\ spec = run[Len(s)]
      BY <3>1, ReplayIsRun
    <3>4. ~Ties(l)
      BY <2>3 DEF Sos!TiesWithItsCause, Sos!ToSet, Ties
    <3>5. \A i, j \in DOMAIN l : l[i].id = l[j].id => i = j
      BY <2>1, <2>3 DEF Sos!IsInjective
    <3> HIDE DEF l, s
    <3>6. \A i, j \in DOMAIN s : s[i].id = s[j].id => i = j
      BY <3>2, <3>5 DEF Rearranges
    <3>7. Stage(s, run, Len(s))
      BY <3>1, <3>3, <3>6, StageEnds
    <3>8. Sos!Reduces(l) <=> \A k \in 1..Len(s) : Taken(s, k)
      <4>1. \A i \in DOMAIN s : Sos!Refusal(l[p[i]], Sos!Before(l, p[i])) = "none" <=> Taken(s, i)
        BY <2>1, <3>1, <3>2, <3>4, <3>5, SameRefusal
      <4>2. Sos!Reduces(l) <=> \A i \in DOMAIN s : Sos!Refusal(l[p[i]], Sos!Before(l, p[i])) = "none"
        BY <3>2 DEF Rearranges, Sos!Reduces
      <4> QED BY <3>1, <4>1, <4>2
    <3>9. Sos!Reduces(l) <=> ~spec.raises /\ spec.refused = 0
      BY <3>3, <3>7, <3>8 DEF Stage
    <3>10. ASSUME Sos!Reduces(l) PROVE spec.seen = Sos!ToSet(l)
      <4>1. spec.seen = Prefix(s, Len(s) + 1)
        BY <3>3, <3>7, <3>8, <3>10 DEF Stage
      <4>2. Prefix(s, Len(s) + 1) = Sos!ToSet(s)
        BY <3>1 DEF Prefix, Sos!ToSet
      <4>3. Sos!ToSet(l) = Sos!ToSet(s)
        BY <3>2, SameEvents
      <4> QED BY <4>1, <4>2, <4>3
    <3>11. Sos!Operational(l) = "accepted" <=> "operator.accepted" \in Sos!TypesOf(Sos!ToSet(l))
      BY DEF Sos!Operational
    <3> QED BY <3>9, <3>10, <3>11
  <2> HIDE DEF spec
  <2> QED BY <2>2, <2>3 DEF SpecAgrees, Sos!SpecAgrees, spec
<1> QED BY <1>1, <1>2, <1>3, PTL DEF RecordsSpec

=============================================================================
