--------------------------- MODULE EvidenceVault ---------------------------
(***************************************************************************)
(* openbrec/disposition.py: the SQLite store of tests and local replays,   *)
(* with the operations the PostgreSQL one lacks, reading and deleting      *)
(* sealed evidence.  Clients open the same file, each with a connection of *)
(* its own.  A SELECT outside a transaction sees the file at that moment;  *)
(* `with self.connection' around the writes is one atomic transaction,     *)
(* which an IntegrityError rolls back.  So access_vault and delete_vault   *)
(* are two steps each: the row is read, then judged and written about.     *)
(*                                                                         *)
(* The times of reads and deletions are the callers'; they need not grow.  *)
(* Nonces, drawn at random, are taken to be distinct.                      *)
(***************************************************************************)
EXTENDS Integers, FiniteSets, Bags

CONSTANTS
  Client,      \* processes with the file open
  Input,       \* calls of ingest: [sha, offset, class, relevant, breakGlass, actor, reason]
  ReadCall,    \* arguments of access_vault: [actor, purpose, at]
  DeleteCall,  \* arguments of delete_vault: [actor, reviewer, reason, at]
  Retention,   \* retention_until of the handling policy
  AcceptedAt,  \* accepted_at of the handling policy
  MaxCalls     \* bound: calls begun in one behaviour

None == "none" \* the actor, reviewer, purpose or reason that was not given

ASSUME VaultConstants ==
  /\ Retention \in Int /\ AcceptedAt \in Int /\ MaxCalls \in Nat
  /\ \A i \in Input : /\ i.class \in {"event", "secret", "other"}
                      /\ i.relevant \in BOOLEAN /\ i.breakGlass \in BOOLEAN
  /\ \A r \in ReadCall \cup DeleteCall : r.at \in Int

VARIABLES
  ingress, \* ingress_units: [unit, destination]
  rows,    \* the rows of the destinations: [table, unit]
  vault,   \* evidence_vault by input_sha256: [sealed, receipt]
  audit,   \* audit_events; the audit_id is a hash of the fields, so a set
  task,    \* what each client has read and not yet acted on
  reads,   \* bag: the plaintexts returned, as the audit event they rest on
  calls    \* how many calls have begun

vars == <<ingress, rows, vault, audit, task, reads, calls>>

Idle == [op |-> "idle"]

Event(sha, actor, action, result, reason, at, receipt) ==
  [sha |-> sha, actor |-> actor, action |-> action, result |-> result, reason |-> reason,
   at |-> at, receipt |-> receipt]

NoReceipt == [actor |-> None, reviewer |-> None, reason |-> None, at |-> 0]

Init ==
  /\ ingress = {} /\ rows = {} /\ audit = {} /\ reads = EmptyBag /\ calls = 0
  /\ vault = [s \in {} |-> NoReceipt]
  /\ task = [c \in Client |-> Idle]

Sealed(s) == s \in DOMAIN vault /\ vault[s].sealed

-----------------------------------------------------------------------------
Unit(i) == <<i.sha, i.offset>>

\* life_safety_relevant, or the policy's mode; a valid event needs neither.
Destination(i) ==
  CASE i.class = "event" -> "accepted_event_log"
    [] i.class # "event" /\ i.relevant -> "evidence_vault"
    [] i.class = "secret" /\ ~i.relevant -> "rejection_ledger"
    [] i.class = "other" /\ ~i.relevant -> "review_quarantine"

\* Break-glass preservation needs an actor and a reason, whatever the bytes.
Refused(i) == i.breakGlass /\ (i.actor = None \/ i.reason = None)

SealEvent(i) ==
  Event(i.sha, IF i.actor = None THEN "handling-policy" ELSE i.actor, "seal", "allowed",
        i.reason, AcceptedAt, NoReceipt)

\* Plain INSERTs: the unit, and in the vault the bytes at any offset, must be new.
Conflicts(i) ==
  \/ \E r \in ingress : r.unit = Unit(i)
  \/ Destination(i) = "evidence_vault" /\ (i.sha \in DOMAIN vault \/ SealEvent(i) \in audit)

\* Seeded fault: the unit is recorded before the transaction of its row.
StoreIngressOnly(i) ==
  /\ ingress' = ingress \cup {[unit |-> Unit(i), destination |-> Destination(i)]}
  /\ UNCHANGED <<rows, vault, audit>>

Store(i) ==
  /\ ingress' = ingress \cup {[unit |-> Unit(i), destination |-> Destination(i)]}
  /\ rows' = rows \cup {[table |-> Destination(i), unit |-> Unit(i)]}
  /\ IF Destination(i) = "evidence_vault"
     THEN /\ vault' = [s \in DOMAIN vault \cup {i.sha} |->
                         IF s = i.sha THEN [sealed |-> TRUE, receipt |-> NoReceipt] ELSE vault[s]]
          /\ audit' = audit \cup {SealEvent(i)}
     ELSE UNCHANGED <<vault, audit>>

Begin == calls < MaxCalls /\ calls' = calls + 1

\* A call that is refused or conflicts raises and leaves the file as it was.
Ingest(c, i) ==
  /\ task[c] = Idle /\ Begin
  /\ \/ ~Refused(i) /\ ~Conflicts(i) /\ Store(i)
     \/ (Refused(i) \/ Conflicts(i)) /\ UNCHANGED <<ingress, rows, vault, audit>>
  /\ UNCHANGED <<task, reads>>

-----------------------------------------------------------------------------
\* Seeded fault: a deleted row is found too.
HasRow(s) == s \in DOMAIN vault

\* The SELECT both operations begin with; KeyError when nothing is sealed.
HasCiphertext(s) == Sealed(s)

Select(c, op, s, call) ==
  /\ task[c] = Idle /\ HasCiphertext(s) /\ Begin
  /\ task' = [task EXCEPT ![c] = [op |-> op, sha |-> s, call |-> call]]
  /\ UNCHANGED <<ingress, rows, vault, audit, reads>>

Expired(at) == at > Retention

\* Seeded fault: the last instant of retention may already delete.
ActiveBefore(at) == at < Retention

Active(at) == at <= Retention

\* Seeded fault: INSERT OR IGNORE.
AuditedOrIgnored(e) == audit' = audit \cup {e}

\* INSERT INTO audit_events: an equal event of the same instant has the same key.
Audited(e) == e \notin audit /\ audit' = audit \cup {e}

Done(c) == task' = [task EXCEPT ![c] = Idle] /\ UNCHANGED <<ingress, rows, calls>>

MayRead(r) == r.actor # None /\ r.purpose # None /\ ~Expired(r.at)

ReadEvent(s, r) ==
  Event(s, r.actor, "read", IF MayRead(r) THEN "allowed" ELSE "denied", r.purpose, r.at, NoReceipt)

\* The plaintext is decrypted from the row read before, and returned after the audit.
Read(c) ==
  LET t == task[c] IN
  /\ t.op = "read" /\ MayRead(t.call)
  /\ Audited(ReadEvent(t.sha, t.call))
  /\ reads' = reads (+) SetToBag({ReadEvent(t.sha, t.call)})
  /\ UNCHANGED vault /\ Done(c)

DenyRead(c) ==
  LET t == task[c] IN
  /\ t.op = "read" /\ ~MayRead(t.call)
  /\ Audited(ReadEvent(t.sha, t.call))
  /\ UNCHANGED <<vault, reads>> /\ Done(c)

\* The receipt of a deletion is a hash of the call (and of the ciphertext).
DeleteEvent(s, r) ==
  IF Active(r.at)
  THEN Event(s, r.actor, "delete", "denied", "retention active", r.at, NoReceipt)
  ELSE Event(s, r.actor, "delete", "allowed", r.reason, r.at, r)

\* Seeded fault: actor and reviewer may be one person.
TwoNames(r) == r.actor # None /\ r.reviewer # None /\ r.reason # None

TwoPeople(r) ==
  r.actor # None /\ r.reviewer # None /\ r.actor # r.reviewer /\ r.reason # None

\* UPDATE ... WHERE input_sha256: the row may have been deleted since it was read.
Delete(c) ==
  LET t == task[c] IN
  /\ t.op = "delete" /\ ~Active(t.call.at) /\ TwoPeople(t.call)
  /\ Audited(DeleteEvent(t.sha, t.call))
  /\ vault' = [vault EXCEPT ![t.sha] = [sealed |-> FALSE, receipt |-> t.call]]
  /\ UNCHANGED reads /\ Done(c)

DenyDelete(c) ==
  LET t == task[c] IN
  /\ t.op = "delete" /\ Active(t.call.at)
  /\ Audited(DeleteEvent(t.sha, t.call))
  /\ UNCHANGED <<vault, reads>> /\ Done(c)

\* AccessDenied without an audit event, the IntegrityError of an equal event, or
\* the end of the process between the two steps: the call leaves nothing behind.
Abandon(c) == task[c] # Idle /\ UNCHANGED <<vault, audit, reads>> /\ Done(c)

Next ==
  \E c \in Client :
    \/ \E i \in Input : Ingest(c, i)
    \/ \E s \in DOMAIN vault :
         \/ \E r \in ReadCall : Select(c, "read", s, r)
         \/ \E r \in DeleteCall : Select(c, "delete", s, r)
    \/ Read(c) \/ DenyRead(c) \/ Delete(c) \/ DenyDelete(c) \/ Abandon(c)

Spec == Init /\ [][Next]_vars

-----------------------------------------------------------------------------
(* The bytes of every unit are in exactly one destination, the one its     *)
(* ingress row names, and a unit in the vault has its row there and an     *)
(* audit event of the sealing: no refused, repeated or rolled-back ingest  *)
(* leaves half of it.  The store never reports anything unreconciled.      *)
WholeDisposition ==
  /\ rows = {[table |-> r.destination, unit |-> r.unit] : r \in ingress}
  /\ \A r, q \in ingress : r.unit = q.unit => r = q
  /\ \A s \in DOMAIN vault :
       /\ Cardinality({r \in rows : r.table = "evidence_vault" /\ r.unit[1] = s}) = 1
       /\ \E e \in audit : e.sha = s /\ e.action = "seal"

\* The file as the log of dispositions.
Log ==
  INSTANCE DispositionLog WITH
    Units <- {Unit(i) : i \in Input}, disposed <- ingress, placed <- rows,
    sealed <- {e.sha : e \in {d \in audit : d.action = "seal"}}

(* The SQLite store keeps the log that the PostgreSQL store keeps:         *)
(* refusals, conflicts, reads and deletions leave the dispositions alone.  *)
VaultKeepsLog == Log!Spec

(* Every plaintext that was returned has an audit event of its own, with a *)
(* reader and a purpose, at a time inside the retention: two reads never   *)
(* share one event, because the second INSERT of an equal event raises and *)
(* takes the plaintext with it.                                            *)
EveryReadIsAudited ==
  /\ \A e \in DOMAIN reads :
       /\ e \in audit /\ reads[e] = 1
       /\ e.actor # None /\ e.reason # None /\ e.at <= Retention
  /\ {e \in audit : e.action = "read" /\ e.result = "allowed"} \subseteq DOMAIN reads

(* What is gone from the vault was deleted by two different people, for a  *)
(* reason, after the retention; the receipt in the row is one an audit     *)
(* event carries.                                                          *)
DeletionIsAccounted ==
  \A s \in DOMAIN vault : ~vault[s].sealed =>
    LET r == vault[s].receipt IN
    /\ r.actor # r.reviewer /\ r.reason # None /\ r.at > Retention
    /\ None \notin {r.actor, r.reviewer}
    /\ \E e \in audit : /\ e.sha = s /\ e.action = "delete" /\ e.result = "allowed"
                        /\ e.receipt = r

(* The same evidence is never granted to a reader and to a deletion of the *)
(* same or an earlier time: the two comparisons with retention_until leave *)
(* no instant at which both are allowed.                                   *)
ReadBeforeDelete ==
  \A e, d \in audit :
    (/\ e.sha = d.sha /\ e.result = "allowed" /\ d.result = "allowed"
     /\ e.action = "read" /\ d.action = "delete") => e.at < d.at

Deletions(s) ==
  {e \in audit : e.sha = s /\ e.action = "delete" /\ e.result = "allowed"}

(* Evidence is deleted again, and its receipt replaced, only by a client   *)
(* that had read the row before the first deletion: so at most one         *)
(* deletion of each client is audited, and the evidence is gone once one   *)
(* is.  (The UPDATE does not ask whether the ciphertext is still there.)   *)
DeletionsAreFew ==
  \A s \in DOMAIN vault :
    /\ Sealed(s) <=> Deletions(s) = {}
    /\ Cardinality(Deletions(s))
         + Cardinality({c \in Client : task[c].op = "delete" /\ task[c].sha = s})
         <= Cardinality(Client)
=============================================================================
