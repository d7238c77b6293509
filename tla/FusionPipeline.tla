--------------------------- MODULE FusionPipeline ---------------------------
(***************************************************************************)
(* The lab-sim runtime: the HTTP handlers and the MQTT publisher of        *)
(* apps/api, the broker's sessions, the fusion workers and the four        *)
(* PostgreSQL tables they write (accepted_event_log, observations,         *)
(* fusion_results, and the processed notices on the bus).                  *)
(*                                                                         *)
(* A request is named by its position in `requests'; that number is also   *)
(* the MQTT message that carries it.  Every database statement of a worker *)
(* is a step of its own, because each commits by itself, and any other     *)
(* process may run between two of them.                                    *)
(***************************************************************************)
EXTENDS Fusion, Sequences

CONSTANTS
  Observation,   \* the observations clients may post
  Worker,        \* the fusion workers, one MQTT session each
  LateWorker,    \* workers that subscribe only after the API takes requests
  FaultKinds,    \* the faults of the environment that may occur
  MaxRequests,   \* bound: requests of one behaviour
  MaxQueued,     \* max_queued_messages of the broker
  MaxFaults      \* bound: faults of one behaviour

ASSUME PipelineConstants ==
  /\ IsFiniteSet(Observation)
  /\ \A o \in Observation :
       /\ DOMAIN o = {"id", "sensor", "type", "kind", "quality", "zone",
                      "start", "end", "absent"}
       /\ o.id \in Nat /\ o.start \in Nat /\ o.end \in Nat /\ o.quality \in Int
  /\ LateWorker \subseteq Worker
  /\ MaxRequests \in Nat /\ MaxQueued \in Nat /\ MaxFaults \in Nat

VARIABLES
  requests,  \* the observations posted, and what their handlers answered
  outbox,    \* the API client's messages without a PUBACK
  inflight,  \* those of them sent on the present connection
  apiLink,   \* the API is connected: _connected is set
  session,   \* the broker's queue for each worker's subscription
  linked,    \* the worker is connected and subscribed
  task,      \* what each worker's on_message callback is doing
  conn,      \* the database connections of each worker that still work
  acked,     \* the messages each worker has PUBACKed
  log,       \* accepted_event_log, in commit order
  rows,      \* the table observations
  results,   \* the table fusion_results
  notices,   \* what was published on the processed topic
  faults     \* how many faults have occurred

apiVars == <<requests, outbox, inflight, apiLink>>
brokerVars == <<session, linked>>
workerVars == <<task, conn, acked>>
storeVars == <<log, rows, results, notices>>
vars == <<apiVars, brokerVars, workerVars, storeVars, faults>>

Stores == {"disposition", "fusion"}
Idle == [pc |-> "idle", msg |-> 0, evidence |-> {}]

LoggedUnits == {log[k] : k \in DOMAIN log}

Init ==
  /\ requests = <<>> /\ outbox = {} /\ inflight = {} /\ apiLink = TRUE
  /\ session = [w \in Worker |-> <<>>]
  /\ linked = [w \in Worker |-> w \notin LateWorker]
  /\ task = [w \in Worker |-> Idle]
  /\ conn = [w \in Worker |-> Stores]
  /\ acked = [w \in Worker |-> {}]
  /\ log = <<>> /\ rows = {} /\ results = {} /\ notices = {}
  /\ faults = 0

-----------------------------------------------------------------------------
(* The API process. *)

\* POST /v1/observations: a window that does not advance makes
\* observation_to_event raise (500), a publisher that is not ready gives 503,
\* otherwise the message enters the client's outbox and the handler waits.
Post(o, answer) ==
  /\ Len(requests) < MaxRequests
  /\ requests' = Append(requests, [obs |-> o, answer |-> answer])

\* Seeded fault: an empty window passes.
AdvancesOrStays(o) == o.start <= o.end

Advances(o) == o.start < o.end

RejectRequest(o) ==
  /\ ~Advances(o)
  /\ Post(o, "invalid")
  /\ UNCHANGED <<outbox, inflight, apiLink, brokerVars, workerVars, storeVars, faults>>

RefuseRequest(o) ==
  /\ Advances(o) /\ ~apiLink
  /\ Post(o, "unavailable")
  /\ UNCHANGED <<outbox, inflight, apiLink, brokerVars, workerVars, storeVars, faults>>

\* Seeded fault: 202 without waiting for the publication.
PublishRequestAtOnce(o) ==
  /\ Advances(o) /\ apiLink
  /\ Post(o, "accepted")
  /\ outbox' = outbox \cup {Len(requests')}
  /\ UNCHANGED <<inflight, apiLink, brokerVars, workerVars, storeVars, faults>>

PublishRequest(o) ==
  /\ Advances(o) /\ apiLink
  /\ Post(o, "waiting")
  /\ outbox' = outbox \cup {Len(requests')}
  /\ UNCHANGED <<inflight, apiLink, brokerVars, workerVars, storeVars, faults>>

\* wait_for_publish gives up after 5 s: 503, and the message stays queued.
PublishTimeout(i) ==
  /\ requests[i].answer = "waiting"
  /\ requests' = [requests EXCEPT ![i].answer = "unavailable"]
  /\ UNCHANGED <<outbox, inflight, apiLink, brokerVars, workerVars, storeVars, faults>>

HasRoom(w) == linked[w] /\ Len(session[w]) < MaxQueued

\* The client sends its oldest unsent message; the broker gives it to every
\* session that has room (a full queue drops it).
Transmit ==
  /\ apiLink
  /\ outbox \ inflight # {}
  /\ LET i == Min(outbox \ inflight)
     IN  /\ inflight' = inflight \cup {i}
         /\ session' = [w \in Worker |->
              IF HasRoom(w) THEN Append(session[w], i) ELSE session[w]]
  /\ UNCHANGED <<requests, outbox, apiLink, linked, workerVars, storeVars, faults>>

AnswerWaiting(i) ==
  requests' = IF requests[i].answer = "waiting"
              THEN [requests EXCEPT ![i].answer = "accepted"] ELSE requests

\* The broker acknowledges whether or not a session took the message; a
\* handler that still waits answers 202.
Puback(i) ==
  /\ apiLink /\ i \in inflight
  /\ inflight' = inflight \ {i}
  /\ outbox' = outbox \ {i}
  /\ AnswerWaiting(i)
  /\ UNCHANGED <<apiLink, brokerVars, workerVars, storeVars, faults>>

Fault(kind) ==
  /\ kind \in FaultKinds
  /\ faults < MaxFaults
  /\ faults' = faults + 1

\* Seeded fault: the client forgets its messages when it reconnects.
ApiLinkLossForgetful ==
  /\ Fault("api-link")
  /\ apiLink
  /\ apiLink' = FALSE /\ inflight' = {} /\ outbox' = {}
  /\ UNCHANGED <<requests, brokerVars, workerVars, storeVars>>

\* What was sent and not acknowledged will be sent again.
ApiLinkLoss ==
  /\ Fault("api-link")
  /\ apiLink
  /\ apiLink' = FALSE /\ inflight' = {}
  /\ UNCHANGED <<requests, outbox, brokerVars, workerVars, storeVars>>

ApiLinkUp ==
  /\ ~apiLink
  /\ apiLink' = TRUE
  /\ UNCHANGED <<requests, outbox, inflight, brokerVars, workerVars, storeVars, faults>>

\* The outbox is in memory only.
ApiCrash ==
  /\ Fault("api-crash")
  /\ apiLink' = FALSE /\ inflight' = {} /\ outbox' = {}
  /\ requests' = [i \in DOMAIN requests |->
       IF requests[i].answer = "waiting"
       THEN [requests[i] EXCEPT !.answer = "reset"] ELSE requests[i]]
  /\ UNCHANGED <<brokerVars, workerVars, storeVars>>

-----------------------------------------------------------------------------
(* The fusion workers. *)

Obs(w) == requests[task[w].msg].obs

At(w, pc) == task[w].pc = pc

Goto(w, pc) == task' = [task EXCEPT ![w].pc = pc]

\* on_message returned, normally or from its except clause: the client sends
\* PUBACK, which reaches the broker when the connection is still up.
Finish(w) ==
  /\ task' = [task EXCEPT ![w] = Idle]
  /\ acked' = IF linked[w] THEN [acked EXCEPT ![w] = @ \cup {task[w].msg}] ELSE acked

\* on_connect: subscribe with a new session.
Subscribe(w) ==
  /\ ~linked[w]
  /\ linked' = [linked EXCEPT ![w] = TRUE]
  /\ UNCHANGED <<apiVars, session, workerVars, storeVars, faults>>

\* Seeded fault: PUBACK on delivery, before the callback.
DeliverAndAck(w) ==
  /\ At(w, "idle") /\ linked[w] /\ session[w] # <<>>
  /\ task' = [task EXCEPT ![w] = [pc |-> "ingest", msg |-> Head(session[w]), evidence |-> {}]]
  /\ session' = [session EXCEPT ![w] = Tail(@)]
  /\ acked' = [acked EXCEPT ![w] = @ \cup {Head(session[w])}]
  /\ UNCHANGED <<apiVars, linked, conn, storeVars, faults>>

Deliver(w) ==
  /\ At(w, "idle") /\ linked[w] /\ session[w] # <<>>
  /\ task' = [task EXCEPT ![w] = [pc |-> "ingest", msg |-> Head(session[w]), evidence |-> {}]]
  /\ session' = [session EXCEPT ![w] = Tail(@)]
  /\ UNCHANGED <<apiVars, linked, conn, acked, storeVars, faults>>

\* Seeded fault: an INSERT without ON CONFLICT on unit_id.
WriteUnitAgain(o) == log' = Append(log, o)

\* store.ingest: the unit is the canonical event, a function of the
\* observation; a unit already present is left as it is.
WriteUnit(o) == log' = IF o \in LoggedUnits THEN log ELSE Append(log, o)

Ingest(w) ==
  /\ At(w, "ingest") /\ "disposition" \in conn[w]
  /\ WriteUnit(Obs(w))
  /\ Goto(w, "record")
  /\ UNCHANGED <<apiVars, brokerVars, conn, acked, rows, results, notices, faults>>

\* Seeded fault: the whole row is the key, not observation_id.
SameRow(o) == {x \in rows : x = o}

SameId(o) == {x \in rows : x.id = o.id}

\* record_observation: INSERT ... ON CONFLICT DO NOTHING, then compare.
WriteRow(o) == rows' = IF SameId(o) = {} THEN rows \cup {o} ELSE rows

Record(w) ==
  /\ At(w, "record") /\ "fusion" \in conn[w]
  /\ SameId(Obs(w)) \subseteq {Obs(w)}
  /\ WriteRow(Obs(w))
  /\ Goto(w, "query")
  /\ UNCHANGED <<apiVars, brokerVars, conn, acked, log, results, notices, faults>>

Query(w) ==
  /\ At(w, "query") /\ "fusion" \in conn[w]
  /\ task' = [task EXCEPT ![w] =
       [pc |-> "result", msg |-> @.msg, evidence |-> Evidence(rows, Obs(w))]]
  /\ UNCHANGED <<apiVars, brokerVars, conn, acked, storeVars, faults>>

TaskResult(w) == Fuse(task[w].evidence, Obs(w).zone)

SameResultId(r) == {x \in results : ResultId(x) = ResultId(r)}

\* Seeded fault: the INSERT is left in a transaction that is not committed.
WriteResultUncommitted(r) == results' = results

WriteResult(r) == results' = IF SameResultId(r) = {} THEN results \cup {r} ELSE results

\* Seeded fault: an upsert instead of the comparison.
RecordResultUpsert(w) ==
  /\ At(w, "result") /\ "fusion" \in conn[w]
  /\ results' = (results \ SameResultId(TaskResult(w))) \cup {TaskResult(w)}
  /\ Goto(w, "notify")
  /\ UNCHANGED <<apiVars, brokerVars, conn, acked, log, rows, notices, faults>>

RecordResult(w) ==
  /\ At(w, "result") /\ "fusion" \in conn[w]
  /\ SameResultId(TaskResult(w)) \subseteq {TaskResult(w)}
  /\ WriteResult(TaskResult(w))
  /\ Goto(w, "notify")
  /\ UNCHANGED <<apiVars, brokerVars, conn, acked, log, rows, notices, faults>>

Notify(w) ==
  /\ At(w, "notify")
  /\ notices' = notices \cup {[id |-> Obs(w).id, result |-> TaskResult(w)]}
  /\ Finish(w)
  /\ UNCHANGED <<apiVars, brokerVars, conn, log, rows, results, faults>>

\* FusionStoreError: the row or the result found under the id is another one.
DropOnCollision(w) ==
  /\ "fusion" \in conn[w]
  /\ \/ At(w, "record") /\ ~(SameId(Obs(w)) \subseteq {Obs(w)})
     \/ At(w, "result") /\ ~(SameResultId(TaskResult(w)) \subseteq {TaskResult(w)})
  /\ Finish(w)
  /\ UNCHANGED <<apiVars, brokerVars, conn, storeVars, faults>>

\* psycopg.Error, or FusionStoreError on a closed connection.
DropOnDeadConnection(w) ==
  /\ \/ At(w, "ingest") /\ "disposition" \notin conn[w]
     \/ task[w].pc \in {"record", "query", "result"} /\ "fusion" \notin conn[w]
  /\ Finish(w)
  /\ UNCHANGED <<apiVars, brokerVars, conn, storeVars, faults>>

\* Connections break, and nothing reopens them.  A statement under way fails,
\* its commit may have been applied.
StorageFailure(w) ==
  /\ Fault("storage")
  /\ \E lost \in SUBSET conn[w] \ {{}} :
       /\ conn' = [conn EXCEPT ![w] = @ \ lost]
       /\ \/ UNCHANGED <<log, rows, results>>
          \/ /\ At(w, "ingest") /\ "disposition" \in lost
             /\ WriteUnit(Obs(w)) /\ UNCHANGED <<rows, results>>
          \/ /\ At(w, "record") /\ "fusion" \in lost
             /\ WriteRow(Obs(w)) /\ UNCHANGED <<log, results>>
          \/ /\ At(w, "result") /\ "fusion" \in lost
             /\ WriteResult(TaskResult(w)) /\ UNCHANGED <<log, rows>>
  /\ UNCHANGED <<apiVars, brokerVars, task, acked, notices>>

\* The session expires with the connection: what it held is gone.
WorkerLinkLoss(w) ==
  /\ Fault("worker-link")
  /\ linked[w]
  /\ linked' = [linked EXCEPT ![w] = FALSE]
  /\ session' = [session EXCEPT ![w] = <<>>]
  /\ UNCHANGED <<apiVars, workerVars, storeVars>>

\* The process dies between two statements and starts again.
WorkerCrash(w) ==
  /\ Fault("worker-crash")
  /\ linked' = [linked EXCEPT ![w] = FALSE]
  /\ session' = [session EXCEPT ![w] = <<>>]
  /\ task' = [task EXCEPT ![w] = Idle]
  /\ conn' = [conn EXCEPT ![w] = Stores]
  /\ UNCHANGED <<apiVars, acked, storeVars>>

\* The broker keeps nothing on disk (persistence false).
BrokerRestart ==
  /\ Fault("broker")
  /\ apiLink' = FALSE /\ inflight' = {}
  /\ linked' = [w \in Worker |-> FALSE]
  /\ session' = [w \in Worker |-> <<>>]
  /\ UNCHANGED <<requests, outbox, workerVars, storeVars>>

-----------------------------------------------------------------------------
ApiStep ==
  \/ \E o \in Observation : RejectRequest(o) \/ RefuseRequest(o) \/ PublishRequest(o)
  \/ \E i \in DOMAIN requests : PublishTimeout(i) \/ Puback(i)
  \/ Transmit \/ ApiLinkUp

OnMessage(w) ==
  \/ Deliver(w) \/ Ingest(w) \/ Record(w) \/ Query(w) \/ RecordResult(w) \/ Notify(w)
  \/ DropOnCollision(w) \/ DropOnDeadConnection(w)

FaultStep ==
  \/ ApiLinkLoss \/ ApiCrash \/ BrokerRestart
  \/ \E w \in Worker : StorageFailure(w) \/ WorkerLinkLoss(w) \/ WorkerCrash(w)

Next ==
  \/ ApiStep
  \/ \E w \in Worker : Subscribe(w) \/ OnMessage(w)
  \/ FaultStep

Spec == Init /\ [][Next]_vars

\* The client's network loop (which reconnects by itself), the broker and the
\* callbacks of a worker run whenever they have something to do; nothing makes
\* a client post, a handler time out or a fault occur.
Fairness ==
  /\ WF_vars(Transmit) /\ WF_vars(ApiLinkUp)
  /\ WF_vars(\E i \in DOMAIN requests : Puback(i))
  /\ \A w \in Worker : WF_vars(Subscribe(w)) /\ WF_vars(OnMessage(w))

FairSpec == Spec /\ Fairness

-----------------------------------------------------------------------------
(* Properties. *)

Answers == {"waiting", "accepted", "unavailable", "invalid", "reset"}

Task == [pc : {"idle", "ingest", "record", "query", "result", "notify"},
         msg : Nat, evidence : SUBSET Observation]

ApiOK ==
  /\ requests \in Seq([obs : Observation, answer : Answers])
  /\ outbox \subseteq DOMAIN requests /\ inflight \subseteq outbox
  /\ apiLink \in BOOLEAN

BrokerOK ==
  /\ linked \in [Worker -> BOOLEAN]
  /\ session \in [Worker -> Seq(DOMAIN requests)]
  /\ \A w \in Worker : Len(session[w]) <= MaxQueued

WorkerOK ==
  /\ task \in [Worker -> Task]
  /\ conn \in [Worker -> SUBSET Stores]
  /\ acked \in [Worker -> SUBSET DOMAIN requests]
  /\ \A w \in Worker : task[w].pc # "idle" => task[w].msg \in DOMAIN requests

StoreOK == log \in Seq(Observation) /\ rows \subseteq Observation /\ faults \in 0..MaxFaults

\* Every variable has its type: what is sent, queued, worked on or acknowledged
\* is a request that was posted, and no queue exceeds max_queued_messages.
TypeOK == ApiOK /\ BrokerOK /\ WorkerOK /\ StoreOK

\* The accepted log holds a unit once, however often a client retries a 503,
\* the API's client resends a message, or two workers ingest it at a time
\* (ON CONFLICT (unit_id) DO NOTHING).
AcceptedOnce == \A i, j \in DOMAIN log : log[i] = log[j] => i = j

\* The two stores commit separately, yet what the read model shows is always
\* in the accepted log, and an observation_id names one row for ever.
RowsAreLogged ==
  /\ rows \subseteq LoggedUnits
  /\ \A x, y \in rows : x.id = y.id => x = y

\* Every stored fusion result is the fusion of rows that are stored, all of
\* its zone: none cites an observation that was rolled back or rejected.
ResultsHaveEvidence ==
  \A r \in results : \E evidence \in SUBSET rows :
    /\ evidence # {}
    /\ \A x \in evidence : x.zone = r.zone
    /\ r = Fuse(evidence, r.zone)

\* A durably_processed notice is published only after the commits it speaks
\* of: the unit, the row and the result are all there.
NoticeIsDurable ==
  \A n \in notices :
    /\ n.result \in results
    /\ \E o \in rows \cap LoggedUnits : o.id = n.id /\ o.zone = n.result.zone

Untruncated(o) == Cardinality(Meeting(rows, o)) <= EvidenceLimit

\* Two usable observations that meet and were both noticed have been fused
\* together, whatever the interleaving of the two workers: one of the two
\* notices cites the other observation.  (With an observation paired with
\* itself: its notice cites it.)
MeetingPairIsFused ==
  \A m, n \in notices : \A x, y \in rows :
    (/\ x.id = m.id /\ y.id = n.id
     /\ Usable(x) /\ Usable(y) /\ InWindow(x, y)
     /\ Untruncated(x) /\ Untruncated(y))
    => y.id \in m.result.support \/ x.id \in n.result.support

\* A result with usable evidence never meets another result under its id,
\* so record_fusion_result never raises for it.
IndicatorNeverCollides ==
  \A w \in Worker :
    At(w, "result") /\ TaskResult(w).state = "indicator"
      => SameResultId(TaskResult(w)) \subseteq {TaskResult(w)}

\* The same for every result, abstentions included: evidence that is not
\* usable ends in an abstention with its reasons, not in an exception.
ResultNeverCollides ==
  \A w \in Worker :
    At(w, "result") => SameResultId(TaskResult(w)) \subseteq {TaskResult(w)}

\* No PUBACK before the durable commit: what a worker acknowledged is in the
\* accepted log.
AckedIsAccepted ==
  \A w \in Worker : \A i \in acked[w] : requests[i].obs \in LoggedUnits

\* The worker has the message, in its queue or in its callback.
Holds(w, i) ==
  \/ \E k \in DOMAIN session[w] : session[w][k] = i
  \/ task[w].pc # "idle" /\ task[w].msg = i

\* An input answered 202 is in the accepted log, or some worker still has it.
AcceptedIsNotLost ==
  \A i \in DOMAIN requests :
    requests[i].answer = "accepted" =>
      requests[i].obs \in LoggedUnits \/ \E w \in Worker : Holds(w, i)

\* validate_event_set accepts the log as it stands: one source and boot (the
\* sensor; LAB_BOOT_ID is constant) has no two events with one sequence (the
\* window's start).
LogReplays ==
  \A i, j \in DOMAIN log :
    i # j /\ log[i].sensor = log[j].sensor => log[i].start # log[j].start

\* The notice of a usable observation cites it.  Not so once more rows meet it
\* than the query's LIMIT: the oldest are kept, and it may be the newest.
NoticeCitesItsOwn ==
  \A n \in notices : \A x \in rows : x.id = n.id /\ Usable(x) => x.id \in n.result.support

Ledger ==
  INSTANCE FusionLedger WITH log <- log, rows <- rows, results <- results, notices <- notices

\* The pipeline, with its queues, retries, crashes and broken connections,
\* only ever does what the ledger does: entries are added one at a time, each
\* on top of what it depends on, and none is altered or removed.
LedgerSpec == Ledger!Spec

\* A handler answers once: a PUBACK that comes after the 503, or after the
\* API restarted, changes nothing for the client.
AnswerIsFinal ==
  [][\A i \in DOMAIN requests :
       requests[i].answer # "waiting" => requests'[i] = requests[i]]_vars

\* An observation the API's client has queued is in the end noticed, even
\* when its handler answered 503 on the timeout.  Usable observations whose
\* id nobody else uses: the others may collide and be dropped.
Plain(o) == Usable(o) /\ \A x \in Observation : x.id = o.id => x = o

QueuedIsNoticed ==
  \A o \in Observation :
    Plain(o) /\ (\E i \in outbox : requests[i].obs = o)
      ~> \E n \in notices : n.id = o.id

-----------------------------------------------------------------------------
(* The inductive invariant behind the safety properties. *)

\* Only observations whose window advances leave the API.
CarriedAdvance ==
  \A i \in DOMAIN requests :
    i \in outbox \/ (\E w \in Worker : Holds(w, i))
      => requests[i].obs.start < requests[i].obs.end

\* What a callback has done so far is committed, and stays committed.
TaskOK(w) ==
  /\ task[w].pc \in {"record", "query", "result", "notify"} => Obs(w) \in LoggedUnits
  /\ task[w].pc \in {"query", "result", "notify"} => Obs(w) \in rows
  /\ task[w].pc \in {"result", "notify"} =>
       task[w].evidence \subseteq Meeting(rows, Obs(w)) /\ task[w].evidence # {}
  /\ task[w].pc = "notify" => TaskResult(w) \in results

\* Who has looked for evidence, and what usable evidence it found.
Looks ==
  {[id |-> n.id, found |-> n.result.support] : n \in notices}
  \cup {[id |-> Obs(w).id, found |-> TaskResult(w).support] :
          w \in {v \in Worker : task[v].pc \in {"result", "notify"}}}

\* Of two looks the later one finds the observation of the earlier one,
\* because each row is committed before its own look.
LooksMeet ==
  \A u, v \in Looks : \A x, y \in rows :
    (/\ x.id = u.id /\ y.id = v.id
     /\ Usable(x) /\ Usable(y) /\ InWindow(x, y)
     /\ Untruncated(x) /\ Untruncated(y))
    => y.id \in u.found \/ x.id \in v.found

\* The invariant, whole: it is preserved by every step from any state it
\* admits, reachable or not.
IInv ==
  /\ TypeOK /\ CarriedAdvance
  /\ AcceptedOnce /\ RowsAreLogged
  /\ \A w \in Worker : TaskOK(w)
  /\ ResultsHaveEvidence /\ NoticeIsDurable /\ LooksMeet

Kept(w, i) == requests[i].obs \in LoggedUnits \/ Holds(w, i)

\* What a worker that stays connected owes the API: it holds whatever the
\* broker took, until the unit is committed, and its queue has room for what
\* is still to be sent, every request once for itself and once for each fault.
KeepsUp(w) ==
  /\ linked[w] /\ "disposition" \in conn[w]
  /\ \A i \in DOMAIN requests :
       i \in inflight \/ requests[i].answer = "accepted" => Kept(w, i)
  /\ Len(requests) <= MaxRequests
  /\ Len(session[w]) + Cardinality(outbox \ inflight) <= Len(requests) + MaxRequests * faults

=============================================================================
