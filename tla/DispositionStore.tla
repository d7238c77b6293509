-------------------------- MODULE DispositionStore --------------------------
(***************************************************************************)
(* openbrec/postgres_disposition.py over PostgreSQL: every unit of ingress *)
(* gets one primary disposition.  Each client has a store with a connection*)
(* of its own; a connection outside a transaction opens one implicitly     *)
(* when it is read from (reconcile), and a `with transaction()' inside it  *)
(* is a savepoint.                                                         *)
(*                                                                         *)
(* The database is a set of rows [table, unit, destination]; a unit is     *)
(* <<sha, offset>>.  An INSERT waits for another transaction that holds a  *)
(* row with the same key.  Left out: columns no key, check or property     *)
(* reads, and the random nonces, taken to be distinct.                     *)
(***************************************************************************)
EXTENDS Integers, Sequences, FiniteSets

CONSTANTS
  Client,    \* the processes with a store
  Auditor,   \* those of them that call reconcile
  Input,     \* calls of ingest: [sha, offset, class, relevant]
  MayRevoke, \* clients whose registry may lose its active key
  MaxCalls   \* bound: calls of ingest and reconcile in one behaviour

\* class says what the bytes are: a valid event, other bytes that look like a
\* secret, or neither; relevant is what the caller and the policy say.
ASSUME StoreConstants ==
  /\ Auditor \subseteq Client /\ MayRevoke \subseteq Client /\ MaxCalls \in Nat
  /\ \A i \in Input : i.class \in {"event", "secret", "other"} /\ i.relevant \in BOOLEAN
  /\ \A i, j \in Input : i.sha = j.sha => i.class = j.class

VARIABLES
  db,        \* the committed rows
  pending,   \* the rows each client's open transaction has added
  nested,    \* the client's connection is inside an implicit transaction
  task,      \* the call each client is in
  keyActive, \* the client's registry has an active key
  outcomes,  \* how the calls of ingest ended
  reports,   \* what the calls of reconcile returned
  calls      \* how many calls have begun

vars == <<db, pending, nested, task, keyActive, outcomes, reports, calls>>

Destinations == {"accepted_event_log", "review_quarantine", "evidence_vault", "rejection_ledger"}

Tables == Destinations \cup {"ingress_units", "audit_events"}

Unit(i) == <<i.sha, i.offset>>

Row(table, unit, destination) == [table |-> table, unit |-> unit, destination |-> destination]

Destination(i) ==
  CASE i.class = "event" -> "accepted_event_log"
    [] i.class # "event" /\ i.relevant -> "evidence_vault"
    [] i.class = "secret" /\ ~i.relevant -> "rejection_ledger"
    [] i.class = "other" /\ ~i.relevant -> "review_quarantine"

IngressRow(i) == Row("ingress_units", Unit(i), Destination(i))

\* The row of the destination, and for the vault its audit event.
DispositionRows(i) ==
  {Row(Destination(i), Unit(i), Destination(i))}
  \cup IF Destination(i) = "evidence_vault"
       THEN {Row("audit_events", Unit(i), "evidence_vault")} ELSE {}

Encrypted == {"review_quarantine", "evidence_vault"}

\* Primary and unique keys: the unit, and in the vault input_sha256.
SameKey(r, s) ==
  /\ r.table = s.table
  /\ r.unit = s.unit \/ (r.table = "evidence_vault" /\ r.unit[1] = s.unit[1])

Clashes(R, S) == \E r \in R, s \in S : SameKey(r, s)

Visible(c) == db \cup pending[c]

Idle == [pc |-> "idle"]

Init ==
  /\ db = {} /\ outcomes = {} /\ reports = {} /\ calls = 0
  /\ pending = [c \in Client |-> {}]
  /\ nested = [c \in Client |-> FALSE]
  /\ task = [c \in Client |-> Idle]
  /\ keyActive = [c \in Client |-> TRUE]

-----------------------------------------------------------------------------
(* ingest *)

Call(c) == task[c].input

BeginCall(c) == task[c] = Idle /\ calls < MaxCalls /\ calls' = calls + 1

\* The transaction, or the savepoint, begins.  A break-glass preservation without
\* actor and reason raises before it, over nothing the store keeps: no call here.
Begin(c, i) ==
  /\ BeginCall(c)
  /\ task' = [task EXCEPT ![c] = [pc |-> "unit", input |-> i, saved |-> pending[c]]]
  /\ UNCHANGED <<db, pending, nested, keyActive, outcomes, reports>>

\* The rows the client's next INSERT adds.
Inserting(c) ==
  CASE task[c].pc = "unit"  -> {IngressRow(Call(c))}
    [] task[c].pc = "place" -> DispositionRows(Call(c))
    [] OTHER -> {}

Blockers(c) == {d \in Client \ {c} : Clashes(Inserting(c), pending[d])}

\* Seeded fault: each INSERT commits by itself.
InsertUnitAutocommit(c) ==
  /\ task[c].pc = "unit" /\ Blockers(c) = {}
  /\ ~Clashes(Inserting(c), Visible(c))
  /\ db' = db \cup Inserting(c)
  /\ task' = [task EXCEPT ![c].pc = "place"]
  /\ UNCHANGED <<pending, nested, keyActive, outcomes, reports, calls>>

InsertUnit(c) ==
  /\ task[c].pc = "unit" /\ Blockers(c) = {}
  /\ ~Clashes(Inserting(c), Visible(c))
  /\ pending' = [pending EXCEPT ![c] = @ \cup Inserting(c)]
  /\ task' = [task EXCEPT ![c].pc = "place"]
  /\ UNCHANGED <<db, nested, keyActive, outcomes, reports, calls>>

\* ON CONFLICT DO NOTHING: the unit has its disposition already.
FindUnit(c) ==
  /\ task[c].pc = "unit" /\ Blockers(c) = {}
  /\ IngressRow(Call(c)) \in Visible(c)
  /\ task' = [task EXCEPT ![c].pc = "commit"]
  /\ UNCHANGED <<db, pending, nested, keyActive, outcomes, reports, calls>>

Place(c) ==
  /\ task[c].pc = "place" /\ Blockers(c) = {}
  /\ Destination(Call(c)) \in Encrypted => keyActive[c]
  /\ ~Clashes(Inserting(c), Visible(c))
  /\ pending' = [pending EXCEPT ![c] = @ \cup Inserting(c)]
  /\ task' = [task EXCEPT ![c].pc = "commit"]
  /\ UNCHANGED <<db, nested, keyActive, outcomes, reports, calls>>

Ended(c, how) ==
  /\ task' = [task EXCEPT ![c] = Idle]
  /\ outcomes' = outcomes \cup {[unit |-> Unit(Call(c)), destination |-> Destination(Call(c)),
                                 how |-> how, nested |-> nested[c]]}

\* Seeded fault: the connection is always inside a transaction.
ReturnUncommitted(c) ==
  /\ task[c].pc = "commit"
  /\ Ended(c, "returned")
  /\ UNCHANGED <<db, pending, nested, keyActive, reports, calls>>

\* COMMIT, or RELEASE SAVEPOINT when the transaction is not ingest's own.
Return(c) ==
  /\ task[c].pc = "commit"
  /\ IF nested[c] THEN UNCHANGED <<db, pending>>
     ELSE db' = db \cup pending[c] /\ pending' = [pending EXCEPT ![c] = {}]
  /\ Ended(c, "returned")
  /\ UNCHANGED <<nested, keyActive, reports, calls>>

\* Every waiting client of W waits for another of W: PostgreSQL picks a victim.
Deadlocked(c) ==
  \E W \in SUBSET Client : c \in W /\ \A d \in W : Blockers(d) \cap W # {}

\* Seeded fault: a missing key is not reported.
RaisesButForKey(c, how) ==
  \/ /\ how = "unique"
     /\ task[c].pc = "place" /\ Blockers(c) = {}
     /\ Destination(Call(c)) \in Encrypted => keyActive[c]
     /\ Clashes(Inserting(c), Visible(c))
  \/ how = "deadlock" /\ Deadlocked(c)

Raises(c, how) ==
  \/ /\ how = "incompatible"
     /\ task[c].pc = "unit" /\ Blockers(c) = {}
     /\ Clashes(Inserting(c), Visible(c)) /\ IngressRow(Call(c)) \notin Visible(c)
  \/ /\ how = "key"
     /\ task[c].pc = "place" /\ Destination(Call(c)) \in Encrypted /\ ~keyActive[c]
  \/ /\ how = "unique"
     /\ task[c].pc = "place" /\ Blockers(c) = {}
     /\ Destination(Call(c)) \in Encrypted => keyActive[c]
     /\ Clashes(Inserting(c), Visible(c))
  \/ how = "deadlock" /\ Deadlocked(c)

\* Seeded fault: the exception is caught inside the block, which goes on.
AbortWithoutRollback(c) ==
  \E how \in {"incompatible", "key", "unique", "deadlock"} :
    /\ Raises(c, how)
    /\ Ended(c, how)
    /\ UNCHANGED <<db, pending, nested, keyActive, reports, calls>>

\* The exception leaves the block: ROLLBACK, or ROLLBACK TO SAVEPOINT.
Abort(c) ==
  \E how \in {"incompatible", "key", "unique", "deadlock"} :
    /\ Raises(c, how)
    /\ pending' = [pending EXCEPT ![c] = task[c].saved]
    /\ Ended(c, how)
    /\ UNCHANGED <<db, nested, keyActive, reports, calls>>

-----------------------------------------------------------------------------
(* reconcile, close and the failures around them *)

CountOf(table, R) == Cardinality({r \in R : r.table = table})

\* The first SELECT opens the implicit transaction; each SELECT sees what is
\* committed when it runs.
ReconcileUnits(c) ==
  /\ c \in Auditor /\ BeginCall(c)
  /\ nested' = [nested EXCEPT ![c] = TRUE]
  /\ task' = [task EXCEPT ![c] =
       [pc |-> "count", left |-> Destinations, physical |-> 0,
        total |-> CountOf("ingress_units", Visible(c)), before |-> CountOf("ingress_units", db)]]
  /\ UNCHANGED <<db, pending, keyActive, outcomes, reports>>

TableOrder == <<"accepted_event_log", "review_quarantine", "evidence_vault", "rejection_ledger">>

\* Seeded fault: the tables are counted on another connection.
CountTableCommitted(c) ==
  /\ task[c].pc = "count"
  /\ \E k \in DOMAIN TableOrder :
       /\ task[c].left = {TableOrder[j] : j \in k..Len(TableOrder)}
       /\ task' = [task EXCEPT ![c] =
            [pc |-> "count", left |-> @.left \ {TableOrder[k]},
             physical |-> @.physical + CountOf(TableOrder[k], db),
             total |-> @.total, before |-> @.before]]
  /\ UNCHANGED <<db, pending, nested, keyActive, outcomes, reports, calls>>

CountTable(c) ==
  /\ task[c].pc = "count"
  /\ \E k \in DOMAIN TableOrder :
       /\ task[c].left = {TableOrder[j] : j \in k..Len(TableOrder)}
       /\ task' = [task EXCEPT ![c] =
            [pc |-> "count", left |-> @.left \ {TableOrder[k]},
             physical |-> @.physical + CountOf(TableOrder[k], Visible(c)),
             total |-> @.total, before |-> @.before]]
  /\ UNCHANGED <<db, pending, nested, keyActive, outcomes, reports, calls>>

Distance(a, b) == IF a <= b THEN b - a ELSE a - b

\* commits is how many units were committed while reconcile was counting.
Report(c) ==
  /\ task[c].pc = "count" /\ task[c].left = {}
  /\ reports' = reports \cup
       {[unreconciled |-> Distance(task[c].total, task[c].physical),
         commits |-> CountOf("ingress_units", db) - task[c].before]}
  /\ task' = [task EXCEPT ![c] = Idle]
  /\ UNCHANGED <<db, pending, nested, keyActive, outcomes, calls>>

\* The store is left and opened again: what no COMMIT covered is rolled back,
\* and the registry is read anew from the secret.
Reopen(c) ==
  /\ pending' = [pending EXCEPT ![c] = {}]
  /\ nested' = [nested EXCEPT ![c] = FALSE]
  /\ keyActive' = [keyActive EXCEPT ![c] = TRUE]
  /\ task' = [task EXCEPT ![c] = Idle]
  /\ UNCHANGED <<outcomes, reports, calls>>

Close(c) == task[c] = Idle /\ Reopen(c) /\ UNCHANGED db

\* The process or its connection dies in the middle of a call; a COMMIT under
\* way may have been applied.
Crash(c) ==
  /\ task[c] # Idle
  /\ Reopen(c)
  /\ \/ UNCHANGED db
     \/ task[c].pc = "commit" /\ ~nested[c] /\ db' = db \cup pending[c]

Revoke(c) ==
  /\ c \in MayRevoke /\ keyActive[c]
  /\ keyActive' = [keyActive EXCEPT ![c] = FALSE]
  /\ UNCHANGED <<db, pending, nested, task, outcomes, reports, calls>>

-----------------------------------------------------------------------------
Proceed(c) ==
  \/ InsertUnit(c) \/ FindUnit(c) \/ Place(c) \/ Return(c) \/ Abort(c)
  \/ CountTable(c) \/ Report(c)

Next ==
  \E c \in Client :
    \/ \E i \in Input : Begin(c, i)
    \/ Proceed(c) \/ ReconcileUnits(c) \/ Close(c) \/ Crash(c) \/ Revoke(c)

Spec == Init /\ [][Next]_vars

\* A call runs on when the database answers it.
FairSpec == Spec /\ \A c \in Client : WF_vars(Proceed(c))

-----------------------------------------------------------------------------
(* Properties. *)

Rows == [table : Tables, unit : {Unit(i) : i \in Input}, destination : Destinations]

\* Types; a transaction of ingest's own has nothing pending between calls.
TypeOK ==
  /\ db \subseteq Rows /\ pending \in [Client -> SUBSET Rows]
  /\ nested \in [Client -> BOOLEAN] /\ keyActive \in [Client -> BOOLEAN]
  /\ calls \in 0..MaxCalls /\ DOMAIN task = Client
  /\ \A c \in Client :
       /\ task[c].pc \in {"idle", "unit", "place", "commit", "count"}
       /\ task[c] = Idle /\ ~nested[c] => pending[c] = {}

\* Every committed unit has one primary disposition, in the table its ingress
\* row names, and every row of the four tables belongs to a committed unit.
OneDisposition ==
  /\ \A r \in db : r.table = "ingress_units" =>
       {s.table : s \in {t \in db : t.unit = r.unit /\ t.table \in Destinations}} = {r.destination}
  /\ \A r \in db : r.table # "ingress_units" =>
       Row("ingress_units", r.unit, r.destination) \in db
  /\ \A r, s \in db : SameKey(r, s) => r = s

\* Two transactions never hold the same key at a time, and none holds a key
\* that is committed: a COMMIT cannot fail on a key.
KeysAreExclusive ==
  /\ \A c \in Client : ~Clashes(pending[c], db)
  /\ \A c, d \in Client : c # d => ~Clashes(pending[c], pending[d])

\* A commit is one whole unit: its ingress row, its disposition and, for the
\* vault, its audit event; nothing committed is altered or removed.
CommitIsWhole ==
  [][\E i \in Input : /\ db' = db \cup {IngressRow(i)} \cup DispositionRows(i)
                      /\ Unit(i) \notin {r.unit : r \in db}]_db

\* The store as the log of dispositions: what is committed, and nothing else.
Log ==
  INSTANCE DispositionLog WITH
    Units <- {Unit(i) : i \in Input},
    disposed <- {[unit |-> r.unit, destination |-> r.destination] :
                   r \in {s \in db : s.table = "ingress_units"}},
    placed <- {[table |-> r.table, unit |-> r.unit] : r \in {s \in db : s.table \in Destinations}},
    sealed <- {r.unit[1] : r \in {s \in db : s.table = "audit_events"}}

\* Behind its transactions, savepoints, waits, deadlocks, crashes and exceptions
\* the store disposes of one new unit at a time, in the table that its ingress
\* row names, or changes nothing that others see.
StoreKeepsLog == Log!Spec

\* What ingest returned on a connection that was never read from is committed,
\* with the destination it returned.
ReturnedIsDurable ==
  \A o \in outcomes : o.how = "returned" /\ ~o.nested =>
    Row("ingress_units", o.unit, o.destination) \in db

\* reconcile is off by no more than the units committed while it counted: on a
\* quiet database unreconciled is 0.
ReconcileErrsByCommits == \A r \in reports : r.unreconciled <= r.commits

\* A restart changes nothing: what ingest returned is committed, or is still
\* pending in an open transaction.
RestartKeepsReturned ==
  \A o \in outcomes : o.how = "returned" =>
    \E r \in db \cup UNION {pending[c] : c \in Client} : r.unit = o.unit

\* Every unit, identified by hash and offset, gets a disposition: no unit is
\* refused because its bytes came before at another offset.
NoUnitIsRefused == \A o \in outcomes : o.how # "unique"

\* A call of ingest ends, whoever else holds the key it wants, unless another
\* client sits in an implicit transaction, which may hold the key for ever.
IngestEnds ==
  \A c \in Client :
    task[c] # Idle ~> task[c] = Idle \/ \E d \in Client \ {c} : nested[d]

-----------------------------------------------------------------------------
(* The inductive invariant behind the safety properties. *)

InCall == {"unit", "place", "commit"}

WholeUnit(i) == {IngressRow(i)} \cup DispositionRows(i)

\* What a call has added to its transaction so far: nothing, the ingress row,
\* or the whole unit (or nothing, when the unit was there).
CallOK(c) ==
  /\ task[c].pc \in InCall =>
       /\ task[c] \in [pc : InCall, input : Input, saved : SUBSET Rows]
       /\ ~nested[c] => task[c].saved = {}
  /\ task[c].pc = "unit" => pending[c] = task[c].saved
  /\ task[c].pc = "place" => pending[c] = task[c].saved \cup {IngressRow(Call(c))}
  /\ task[c].pc = "commit" =>
       \/ pending[c] = task[c].saved \cup WholeUnit(Call(c))
       \/ pending[c] = task[c].saved /\ IngressRow(Call(c)) \in Visible(c)
  /\ task[c].pc \notin InCall /\ ~nested[c] => pending[c] = {}

IInv ==
  /\ TypeOK /\ OneDisposition /\ KeysAreExclusive /\ ReturnedIsDurable
  /\ \A c \in Client : CallOK(c)

Of(tables, R) == {r \in R : r.table \in tables}

\* Every ingress row goes with the row of its destination, and none is alone.
Paired(R) ==
  /\ \A r \in R : r.table = "ingress_units" =>
       /\ r.destination \in Destinations
       /\ Row(r.destination, r.unit, r.destination) \in R
  /\ \A r \in R : r.table \in Destinations =>
       /\ r.destination = r.table
       /\ Row("ingress_units", r.unit, r.destination) \in R

\* What the client's transaction falls back to when its call is abandoned.
Settled(c) == IF task[c].pc \in InCall THEN task[c].saved ELSE pending[c]

\* A reconcile under way: total is exact for the moment it began; physical is
\* at most what the tables it has counted hold now, and with what the tables
\* it has not counted hold now it is at least total.
Counting(c) ==
  task[c].pc = "count" =>
    /\ task[c] \in [pc : {"count"}, left : SUBSET Destinations, physical : Nat,
                    total : Nat, before : Nat]
    /\ task[c].total = task[c].before + CountOf("ingress_units", pending[c])
    /\ task[c].total <= task[c].physical + Cardinality(Of(task[c].left, Visible(c)))
    /\ task[c].physical <= Cardinality(Of(Destinations \ task[c].left, Visible(c)))

CountInv ==
  /\ IsFiniteSet(db) /\ \A c \in Client : IsFiniteSet(pending[c])
  /\ \A c \in Client : Paired(Settled(c)) /\ Counting(c)
  /\ ReconcileErrsByCommits

=============================================================================
