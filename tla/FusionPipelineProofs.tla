------------------------ MODULE FusionPipelineProofs ------------------------
(***************************************************************************)
(* Theorems about FusionPipeline for every number of workers, requests and *)
(* faults and every finite set of observations.                            *)
(*                                                                         *)
(* One inductive invariant (IInv, below) carries the safety results: the   *)
(* two stores are related by what every callback has already done          *)
(* (TaskInv), and any two callbacks or notices that looked for evidence    *)
(* are ordered by who looked last (ViewsInv).                              *)
(***************************************************************************)
EXTENDS FusionPipeline, FiniteSetTheorems, SequenceTheorems, WellFoundedInduction, TLAPS

-----------------------------------------------------------------------------
(* Lemmas on the operators. *)

\* A non-empty set of naturals has a least element (what Transmit sends).
LEMMA LeastNat ==
  ASSUME NEW S, S \subseteq Nat, S # {}
  PROVE  \E x \in S : \A y \in S : x <= y
<1> DEFINE Less == OpToRel(<, Nat)
<1>1. IsWellFoundedOn(Less, Nat)
  BY NatLessThanWellFounded
<1>2. \A x, y \in Nat : y < x => <<y, x>> \in Less
  BY DEF OpToRel
<1> HIDE DEF Less
<1>3. PICK x \in S : \A y \in S : <<y, x>> \notin Less
  BY <1>1, WFMin
<1>4. ASSUME NEW y \in S PROVE x <= y
  <2>1. x \in Nat /\ y \in Nat
    OBVIOUS
  <2>2. ~(y < x)
    BY <1>2, <1>3, <2>1
  <2> QED BY <2>1, <2>2
<1> QED
  BY <1>4

LEMMA MinIsMember ==
  ASSUME NEW S, S \subseteq Nat, S # {}
  PROVE  Min(S) \in S
BY LeastNat DEF Min

\* The relation "may be evidence for" is symmetric: the lookback widens the
\* window on both sides.
LEMMA InWindowSymmetric ==
  ASSUME NEW x \in Observation, NEW y \in Observation, InWindow(x, y)
  PROVE  InWindow(y, x)
BY PipelineConstants, FusionConstants DEF InWindow

LEMMA InWindowReflexive ==
  ASSUME NEW x \in Observation, x.start < x.end
  PROVE  InWindow(x, x)
BY PipelineConstants, FusionConstants DEF InWindow

\* The first of a non-empty set of observations in the order of the query.
LEMMA FirstObservation ==
  ASSUME NEW S, S \subseteq Observation, S # {}
  PROVE  \E x \in S : \A y \in S : ~Precedes(y, x)
<1> DEFINE Starts == {x.start : x \in S}
<1>0. Starts \subseteq Nat /\ Starts # {}
  BY PipelineConstants
<1>1. PICK s \in Starts : \A t \in Starts : s <= t
  <2> HIDE DEF Starts
  <2> QED BY <1>0, LeastNat
<1> DEFINE T == {x \in S : x.start = s}
           Ids == {x.id : x \in T}
<1>a. Ids \subseteq Nat /\ Ids # {}
  BY PipelineConstants
<1>2. PICK i \in Ids : \A j \in Ids : i <= j
  <2> HIDE DEF Ids
  <2> QED BY <1>a, LeastNat
<1>3. PICK x \in T : x.id = i
  OBVIOUS
<1>4. ASSUME NEW y \in S, Precedes(y, x) PROVE FALSE
  <2>0. /\ y.start \in Nat /\ x.start \in Nat /\ y.id \in Nat /\ x.id \in Nat
        /\ x.start = s /\ y.start \in Starts
    BY <1>3, PipelineConstants
  <2>1. s <= y.start
    BY <1>1, <2>0
  <2>2. y.start = s /\ y.id < x.id
    BY <1>4, <2>0, <2>1 DEF Precedes
  <2>3. x.id <= y.id
    BY <1>2, <1>3, <2>2
  <2> QED BY <2>0, <2>2, <2>3
<1> QED
  BY <1>3, <1>4

\* The query never comes back empty-handed for an observation that is stored.
LEMMA EvidenceNonEmpty ==
  ASSUME NEW R, R \subseteq Observation, NEW o \in R, o.start < o.end
  PROVE  Evidence(R, o) # {}
<1>1. o \in Meeting(R, o)
  BY InWindowReflexive DEF Meeting
<1>2. PICK x \in Meeting(R, o) : \A y \in Meeting(R, o) : ~Precedes(y, x)
  BY <1>1, FirstObservation DEF Meeting
<1>3. {y \in Meeting(R, o) : Precedes(y, x)} = {}
  BY <1>2
<1>4. Cardinality({y \in Meeting(R, o) : Precedes(y, x)}) < EvidenceLimit
  BY <1>3, FS_EmptySet, FusionConstants
<1> QED
  BY <1>4 DEF Evidence

\* When no more rows meet o than the LIMIT, the query returns all of them.
LEMMA EvidenceComplete ==
  ASSUME NEW R, R \subseteq Observation, NEW o \in Observation,
         Cardinality(Meeting(R, o)) <= EvidenceLimit
  PROVE  Evidence(R, o) = Meeting(R, o)
<1> DEFINE M == Meeting(R, o)
<1>1. IsFiniteSet(M)
  BY FS_Subset, PipelineConstants DEF Meeting
<1>2. ASSUME NEW x \in M
      PROVE  Cardinality({y \in M : Precedes(y, x)}) < EvidenceLimit
  <2> DEFINE P == {y \in M : Precedes(y, x)}
  <2>1. x \in Observation /\ ~Precedes(x, x)
    BY PipelineConstants DEF Precedes, Meeting
  <2>2. P \subseteq M /\ P # M
    BY <2>1
  <2>3. /\ Cardinality(P) <= Cardinality(M)
        /\ Cardinality(P) # Cardinality(M)
    BY <1>1, <2>2, FS_Subset
  <2>4. Cardinality(P) \in Nat /\ Cardinality(M) \in Nat
    BY <1>1, <2>2, FS_Subset, FS_CardinalityType
  <2> QED
    BY <2>3, <2>4, FusionConstants
<1> QED
  BY <1>2 DEF Evidence

\* A result with usable evidence is determined by its id, because the rows it
\* was made from are found under unique ids.
LEMMA IndicatorDetermined ==
  ASSUME NEW R, \A x, y \in R : x.id = y.id => x = y,
         NEW E, E \subseteq R, NEW z, NEW F, F \subseteq R, NEW u,
         ResultId(Fuse(E, z)) = ResultId(Fuse(F, u)),
         Fuse(E, z).state = "indicator"
  PROVE  Fuse(E, z) = Fuse(F, u)
<1> DEFINE UE == {o \in E : Usable(o)}
           UF == {o \in F : Usable(o)}
<1>1. /\ {o.id : o \in UE} = {o.id : o \in UF}
      /\ z = u
      /\ Min({o.start : o \in E}) = Min({o.start : o \in F})
      /\ Max({o.end : o \in E}) = Max({o.end : o \in F})
  BY DEF ResultId, Fuse
<1>2. UE = UF
  <2>1. ASSUME NEW o \in UE PROVE o \in UF
    <3>1. PICK p \in UF : p.id = o.id
      BY <1>1
    <3> QED BY <3>1
  <2>2. ASSUME NEW o \in UF PROVE o \in UE
    <3>1. PICK p \in UE : p.id = o.id
      BY <1>1
    <3> QED BY <3>1
  <2> QED BY <2>1, <2>2
<1>3. UE # {}
  BY DEF Fuse
<1> QED
  BY <1>1, <1>2, <1>3 DEF Fuse

-----------------------------------------------------------------------------
(* Type correctness. *)

LEMMA RequestRecord ==
  ASSUME TypeOK, NEW i \in DOMAIN requests
  PROVE  /\ i \in Nat /\ requests[i].obs \in Observation /\ requests[i].answer \in Answers
         /\ \A a : [requests[i] EXCEPT !.answer = a] = [obs |-> requests[i].obs, answer |-> a]
         /\ requests[i] = [obs |-> requests[i].obs, answer |-> requests[i].answer]
<1>1. i \in 1..Len(requests) /\ Len(requests) \in Nat
  BY LenProperties DEF TypeOK, ApiOK
<1>2. requests[i] \in [obs : Observation, answer : Answers]
  BY <1>1, ElementOfSeq DEF TypeOK, ApiOK
<1> QED BY <1>1, <1>2

\* Appending a request keeps the ones before it.
LEMMA PostKeepsRequests ==
  ASSUME TypeOK, NEW o \in Observation, NEW a \in Answers, Post(o, a)
  PROVE  /\ requests' \in Seq([obs : Observation, answer : Answers])
         /\ Len(requests') = Len(requests) + 1
         /\ DOMAIN requests \subseteq DOMAIN requests'
         /\ Len(requests') \in DOMAIN requests'
         /\ \A i \in DOMAIN requests : requests'[i] = requests[i]
         /\ requests'[Len(requests')] = [obs |-> o, answer |-> a]
BY DEF TypeOK, ApiOK, Post

\* Changing the answer of requests keeps everything else about them.
LEMMA AnswerKeepsRequests ==
  ASSUME TypeOK, DOMAIN requests' = DOMAIN requests,
         requests' = [i \in DOMAIN requests |-> requests'[i]],
         \A i \in DOMAIN requests :
           \E a \in Answers : requests'[i] = [obs |-> requests[i].obs, answer |-> a]
  PROVE  /\ requests' \in Seq([obs : Observation, answer : Answers])
         /\ \A i \in DOMAIN requests : requests'[i].obs = requests[i].obs
<1> DEFINE R == [obs : Observation, answer : Answers]
<1>1. requests \in Seq(R)
  BY DEF TypeOK, ApiOK
<1>2. Len(requests) \in Nat /\ DOMAIN requests = 1..Len(requests)
      /\ requests \in [1..Len(requests) -> R]
  BY <1>1, LenProperties
<1>3. \A i \in DOMAIN requests : requests'[i] \in R
  BY <1>2
<1>4. requests' \in [1..Len(requests) -> R]
  BY <1>2, <1>3
<1>5. requests' \in Seq(R)
  <2> HIDE DEF R
  <2> QED BY <1>2, <1>4, SeqDef
<1> QED
  BY <1>5

\* More requests disturb neither the broker nor the workers.
LEMMA RequestsGrow ==
  ASSUME TypeOK, DOMAIN requests \subseteq DOMAIN requests'
  PROVE  /\ UNCHANGED brokerVars => BrokerOK'
         /\ UNCHANGED workerVars => WorkerOK'
<1>1. ASSUME UNCHANGED brokerVars PROVE BrokerOK'
  <2>1. \A w \in Worker : session[w] \in Seq(DOMAIN requests')
    BY SeqMonotonic DEF TypeOK, BrokerOK
  <2> QED BY <1>1, <2>1 DEF TypeOK, BrokerOK, brokerVars
<1>2. ASSUME UNCHANGED workerVars PROVE WorkerOK'
  BY <1>2 DEF TypeOK, WorkerOK, workerVars
<1> QED BY <1>1, <1>2

\* What the store gains is a unit or a row of a posted observation.
LEMMA WriteKeepsStore ==
  ASSUME StoreOK, NEW o \in Observation, faults' \in 0..MaxFaults
  PROVE  /\ WriteUnit(o) /\ rows' = rows => StoreOK'
         /\ WriteRow(o) /\ log' = log => StoreOK'
BY DEF StoreOK, WriteUnit, WriteRow

LEMMA ObsIsObservation ==
  ASSUME TypeOK, NEW w \in Worker, task[w].pc # "idle"
  PROVE  Obs(w) \in Observation
BY RequestRecord DEF TypeOK, WorkerOK, Obs

LEMMA EvidenceIsRows ==
  ASSUME NEW R, NEW o
  PROVE  Evidence(R, o) \subseteq Meeting(R, o) /\ Meeting(R, o) \subseteq R
BY DEF Evidence, Meeting

LEMMA FaultCount ==
  ASSUME StoreOK, NEW kind, Fault(kind)
  PROVE  faults' \in 0..MaxFaults
BY PipelineConstants DEF StoreOK, Fault

\* A callback moves on: its message stays the one it was.
LEMMA GotoKeepsWorkers ==
  ASSUME TypeOK, NEW w \in Worker, task[w].pc # "idle",
         NEW pc \in {"ingest", "record", "query", "result", "notify"},
         Goto(w, pc), UNCHANGED <<requests, conn, acked>>
  PROVE  WorkerOK'
<1>1. task[w] \in Task
  BY DEF TypeOK, WorkerOK
<1>2. [task[w] EXCEPT !.pc = pc] = [pc |-> pc, msg |-> task[w].msg, evidence |-> task[w].evidence]
  BY <1>1 DEF Task
<1>3. task' = [task EXCEPT ![w] = [pc |-> pc, msg |-> task[w].msg, evidence |-> task[w].evidence]]
  BY <1>2 DEF Goto
<1> QED
  BY <1>1, <1>3 DEF TypeOK, WorkerOK, Task

LEMMA FinishKeepsWorkers ==
  ASSUME TypeOK, NEW w \in Worker, task[w].pc # "idle", Finish(w),
         UNCHANGED <<requests, conn>>
  PROVE  WorkerOK'
<1>1. Idle \in Task
  BY DEF Idle, Task
<1>2. task' \in [Worker -> Task]
  BY <1>1 DEF TypeOK, WorkerOK, Finish
<1>3. acked' \in [Worker -> SUBSET DOMAIN requests]
  BY DEF TypeOK, WorkerOK, Finish
<1>4. \A v \in Worker : task'[v].pc # "idle" => task'[v].msg \in DOMAIN requests
  BY DEF TypeOK, WorkerOK, Finish, Idle
<1> QED
  BY <1>2, <1>3, <1>4 DEF TypeOK, WorkerOK

LEMMA TypeApi ==
  ASSUME TypeOK, ApiStep
  PROVE  TypeOK'
<1> USE DEF TypeOK
<1>1. ASSUME NEW o \in Observation, RejectRequest(o) \/ RefuseRequest(o) \/ PublishRequest(o)
      PROVE  TypeOK'
  <2>1. PICK a \in Answers : Post(o, a)
    BY <1>1 DEF RejectRequest, RefuseRequest, PublishRequest, Advances, Answers
  <2>2. /\ requests' \in Seq([obs : Observation, answer : Answers])
        /\ DOMAIN requests \subseteq DOMAIN requests'
        /\ Len(requests') \in DOMAIN requests'
    BY <2>1, PostKeepsRequests
  <2>3. ApiOK'
    BY <1>1, <2>2 DEF ApiOK, RejectRequest, RefuseRequest, PublishRequest, Advances
  <2>4. UNCHANGED <<brokerVars, workerVars, storeVars, faults>>
    BY <1>1 DEF RejectRequest, RefuseRequest, PublishRequest, Advances
  <2> QED BY <2>2, <2>3, <2>4, RequestsGrow DEF StoreOK, storeVars
<1>2. ASSUME NEW i \in DOMAIN requests, PublishTimeout(i) \/ Puback(i)
      PROVE  TypeOK'
  <2>0. UNCHANGED <<brokerVars, workerVars, storeVars, faults>>
    BY <1>2 DEF PublishTimeout, Puback, AnswerWaiting
  <2>1. /\ DOMAIN requests' = DOMAIN requests
        /\ requests' = [j \in DOMAIN requests |-> requests'[j]]
        /\ \A j \in DOMAIN requests :
             \E a \in Answers : requests'[j] = [obs |-> requests[j].obs, answer |-> a]
    <3>1. \A a : [requests[i] EXCEPT !.answer = a] = [obs |-> requests[i].obs, answer |-> a]
      BY RequestRecord
    <3>2. \/ requests' = requests
          \/ \E a \in Answers :
               requests' = [requests EXCEPT ![i] = [obs |-> requests[i].obs, answer |-> a]]
      BY <1>2, <3>1 DEF PublishTimeout, Puback, AnswerWaiting, Answers
    <3>3. requests = [j \in DOMAIN requests |-> requests[j]]
      BY LenProperties DEF ApiOK
    <3>4. ASSUME NEW j \in DOMAIN requests
          PROVE  \E a \in Answers : requests'[j] = [obs |-> requests[j].obs, answer |-> a]
      BY <3>2, RequestRecord
    <3> QED BY <3>2, <3>3, <3>4
  <2>2. requests' \in Seq([obs : Observation, answer : Answers])
    BY <2>1, AnswerKeepsRequests
  <2>3. ApiOK'
    BY <1>2, <2>1, <2>2 DEF ApiOK, PublishTimeout, Puback, AnswerWaiting
  <2> QED BY <2>0, <2>1, <2>3, RequestsGrow DEF StoreOK, storeVars
<1>3. ASSUME Transmit PROVE TypeOK'
  <2>1. outbox \ inflight \subseteq Nat /\ outbox \ inflight # {}
    BY <1>3 DEF Transmit, HasRoom, ApiOK
  <2>2. Min(outbox \ inflight) \in outbox \ inflight
    BY <2>1, MinIsMember
  <2>3. PICK i \in outbox :
          /\ inflight' = inflight \cup {i}
          /\ session' = [w \in Worker |->
               IF linked[w] /\ Len(session[w]) < MaxQueued
               THEN Append(session[w], i) ELSE session[w]]
    BY <1>3, <2>2 DEF Transmit, HasRoom
  <2>4. ApiOK'
    BY <1>3, <2>3 DEF ApiOK, Transmit, HasRoom
  <2>5. i \in DOMAIN requests
    BY <2>3 DEF ApiOK
  <2>6. ASSUME NEW w \in Worker
        PROVE  session'[w] \in Seq(DOMAIN requests) /\ Len(session'[w]) <= MaxQueued
    <3>1. session[w] \in Seq(DOMAIN requests) /\ Len(session[w]) <= MaxQueued
      BY DEF BrokerOK
    <3>2. /\ Append(session[w], i) \in Seq(DOMAIN requests)
          /\ Len(Append(session[w], i)) = Len(session[w]) + 1
          /\ Len(session[w]) \in Nat
      BY <2>5, <3>1, AppendProperties, LenProperties
    <3>3. CASE linked[w] /\ Len(session[w]) < MaxQueued
      <4>1. session'[w] = Append(session[w], i)
        BY <2>3, <3>3
      <4> QED BY <3>2, <3>3, <4>1, PipelineConstants
    <3>4. CASE ~(linked[w] /\ Len(session[w]) < MaxQueued)
      BY <2>3, <3>1, <3>4
    <3> QED BY <3>3, <3>4
  <2>7. BrokerOK'
    BY <1>3, <2>3, <2>6 DEF BrokerOK, Transmit, HasRoom
  <2> QED BY <1>3, <2>4, <2>7 DEF Transmit, HasRoom, WorkerOK, StoreOK, workerVars, storeVars
<1>4. ASSUME ApiLinkUp PROVE TypeOK'
  BY <1>4 DEF ApiLinkUp, ApiOK, BrokerOK, WorkerOK, StoreOK,
              brokerVars, workerVars, storeVars
<1> QED
  BY <1>1, <1>2, <1>3, <1>4 DEF ApiStep

LEMMA TypeWorker ==
  ASSUME TypeOK, NEW w \in Worker, Subscribe(w) \/ OnMessage(w)
  PROVE  TypeOK'
<1> USE DEF TypeOK
<1> DEFINE Busy == task[w].pc # "idle"
<1>1. ASSUME Subscribe(w) PROVE TypeOK'
  BY <1>1 DEF Subscribe, ApiOK, BrokerOK, WorkerOK, StoreOK, apiVars, workerVars, storeVars
<1>2. ASSUME Deliver(w) PROVE TypeOK'
  <2>1. session[w] \in Seq(DOMAIN requests) /\ session[w] # <<>>
        /\ Len(session[w]) <= MaxQueued
    BY <1>2 DEF BrokerOK, Deliver
  <2>2. /\ Head(session[w]) \in DOMAIN requests
        /\ Tail(session[w]) \in Seq(DOMAIN requests)
        /\ Len(Tail(session[w])) = Len(session[w]) - 1
    BY <2>1, HeadTailProperties
  <2>3. Len(Tail(session[w])) <= MaxQueued
    BY <2>1, <2>2, LenProperties, PipelineConstants
  <2>4. BrokerOK'
    BY <1>2, <2>2, <2>3 DEF BrokerOK, Deliver, apiVars
  <2>5. Head(session[w]) \in Nat
    BY <2>2, RequestRecord
  <2>6. WorkerOK'
    BY <1>2, <2>2, <2>5 DEF WorkerOK, Deliver, Task, apiVars
  <2> QED BY <1>2, <2>4, <2>6 DEF Deliver, ApiOK, StoreOK, apiVars, storeVars
<1>3. ASSUME Ingest(w) PROVE TypeOK'
  <2>1. Busy /\ Goto(w, "record") /\ UNCHANGED <<requests, conn, acked>>
    BY <1>3 DEF Ingest, At, apiVars
  <2>2. WorkerOK'
    BY <2>1, GotoKeepsWorkers
  <2>3. StoreOK'
    BY <1>3, <2>1, ObsIsObservation, WriteKeepsStore DEF Ingest, StoreOK
  <2> QED BY <1>3, <2>2, <2>3 DEF Ingest, ApiOK, BrokerOK, apiVars, brokerVars
<1>4. ASSUME Record(w) PROVE TypeOK'
  <2>1. Busy /\ Goto(w, "query") /\ UNCHANGED <<requests, conn, acked>>
    BY <1>4 DEF Record, At, apiVars
  <2>2. WorkerOK'
    BY <2>1, GotoKeepsWorkers
  <2>3. StoreOK'
    BY <1>4, <2>1, ObsIsObservation, WriteKeepsStore DEF Record, StoreOK
  <2> QED BY <1>4, <2>2, <2>3 DEF Record, ApiOK, BrokerOK, apiVars, brokerVars
<1>5. ASSUME Query(w) PROVE TypeOK'
  <2> DEFINE E == Evidence(rows, Obs(w))
  <2>1. E \subseteq Observation
    BY EvidenceIsRows DEF StoreOK
  <2>2. task' = [task EXCEPT ![w] = [pc |-> "result", msg |-> task[w].msg, evidence |-> E]]
    BY <1>5 DEF Query
  <2>3. Busy
    BY <1>5 DEF Query, At
  <2> HIDE DEF E
  <2>a. task[w] \in Task /\ task[w].msg \in DOMAIN requests
    BY <2>3 DEF WorkerOK
  <2>b. [pc |-> "result", msg |-> task[w].msg, evidence |-> E] \in Task
    BY <2>1, <2>a DEF Task
  <2>4. WorkerOK'
    BY <1>5, <2>2, <2>a, <2>b DEF Query, WorkerOK, apiVars
  <2> QED BY <1>5, <2>4 DEF Query, ApiOK, BrokerOK, StoreOK, apiVars, brokerVars, storeVars
<1>6. ASSUME RecordResult(w) PROVE TypeOK'
  <2>1. Busy /\ Goto(w, "notify") /\ UNCHANGED <<requests, conn, acked>>
    BY <1>6 DEF RecordResult, At, apiVars
  <2>2. WorkerOK'
    BY <2>1, GotoKeepsWorkers
  <2> QED BY <1>6, <2>2 DEF RecordResult, ApiOK, BrokerOK, StoreOK, apiVars, brokerVars
<1>7. ASSUME Notify(w) PROVE TypeOK'
  <2>1. Busy /\ Finish(w) /\ UNCHANGED <<requests, conn>>
    BY <1>7 DEF Notify, At, apiVars
  <2>2. WorkerOK'
    BY <2>1, FinishKeepsWorkers
  <2> QED BY <1>7, <2>2 DEF Notify, ApiOK, BrokerOK, StoreOK, apiVars, brokerVars
<1>8. ASSUME DropOnCollision(w) \/ DropOnDeadConnection(w) PROVE TypeOK'
  <2>1. Busy /\ Finish(w) /\ UNCHANGED <<requests, conn>>
    BY <1>8 DEF DropOnCollision, DropOnDeadConnection, At, apiVars
  <2>2. WorkerOK'
    BY <2>1, FinishKeepsWorkers
  <2>3. UNCHANGED <<apiVars, brokerVars, storeVars, faults>>
    BY <1>8 DEF DropOnCollision, DropOnDeadConnection
  <2> QED BY <2>2, <2>3 DEF ApiOK, BrokerOK, StoreOK, apiVars, brokerVars, storeVars
<1> QED
  BY <1>1, <1>2, <1>3, <1>4, <1>5, <1>6, <1>7, <1>8 DEF OnMessage

LEMMA TypeFault ==
  ASSUME TypeOK, FaultStep
  PROVE  TypeOK'
<1> USE DEF TypeOK
<1>1. ASSUME ApiLinkLoss PROVE TypeOK'
  BY <1>1, FaultCount DEF ApiLinkLoss, ApiOK, BrokerOK, WorkerOK, StoreOK,
                          brokerVars, workerVars, storeVars
<1>2. ASSUME ApiCrash PROVE TypeOK'
  <2>1. \A j \in DOMAIN requests :
          \E a \in Answers : requests'[j] = [obs |-> requests[j].obs, answer |-> a]
    <3> SUFFICES ASSUME NEW j \in DOMAIN requests
                 PROVE  \E a \in Answers : requests'[j] = [obs |-> requests[j].obs, answer |-> a]
      OBVIOUS
    <3>1. requests'[j] = IF requests[j].answer = "waiting"
                         THEN [requests[j] EXCEPT !.answer = "reset"] ELSE requests[j]
      BY <1>2 DEF ApiCrash
    <3> QED BY <3>1, RequestRecord DEF Answers
  <2>2. requests' = [i \in DOMAIN requests |-> requests'[i]]
    BY <1>2 DEF ApiCrash
  <2>3. requests' \in Seq([obs : Observation, answer : Answers])
        /\ DOMAIN requests' = DOMAIN requests
    BY <2>1, <2>2, AnswerKeepsRequests
  <2>4. ApiOK'
    BY <1>2, <2>3 DEF ApiCrash, ApiOK
  <2>5. UNCHANGED <<brokerVars, workerVars, storeVars>> /\ StoreOK'
    BY <1>2, FaultCount DEF ApiCrash, StoreOK, storeVars
  <2> QED BY <2>3, <2>4, <2>5, RequestsGrow
<1>3. ASSUME BrokerRestart PROVE TypeOK'
  <2>1. BrokerOK'
    BY <1>3, EmptySeq, PipelineConstants DEF BrokerRestart, BrokerOK
  <2> QED BY <1>3, <2>1, FaultCount DEF BrokerRestart, ApiOK, WorkerOK, StoreOK,
                                        workerVars, storeVars
<1>4. ASSUME NEW w \in Worker, WorkerLinkLoss(w) \/ WorkerCrash(w) PROVE TypeOK'
  <2>0. /\ session' = [session EXCEPT ![w] = <<>>]
        /\ linked' = [linked EXCEPT ![w] = FALSE]
        /\ requests' = requests
    BY <1>4 DEF WorkerLinkLoss, WorkerCrash, apiVars
  <2>1. BrokerOK'
    BY <2>0, EmptySeq, PipelineConstants DEF BrokerOK
  <2>2. Idle \in Task /\ Idle.pc = "idle"
    BY DEF Idle, Task
  <2>3. WorkerOK'
    BY <1>4, <2>2 DEF WorkerLinkLoss, WorkerCrash, WorkerOK, workerVars, apiVars
  <2> QED BY <1>4, <2>1, <2>3, FaultCount DEF WorkerLinkLoss, WorkerCrash, ApiOK, StoreOK,
                                              apiVars, storeVars
<1>5. ASSUME NEW w \in Worker, StorageFailure(w) PROVE TypeOK'
  <2>1. PICK lost \in SUBSET conn[w] : conn' = [conn EXCEPT ![w] = @ \ lost]
    BY <1>5 DEF StorageFailure
  <2>2. WorkerOK'
    BY <1>5, <2>1 DEF StorageFailure, WorkerOK, apiVars
  <2>3. faults' \in 0..MaxFaults
    BY <1>5, FaultCount DEF StorageFailure
  <2>4. \/ UNCHANGED <<log, rows>>
        \/ task[w].pc # "idle" /\ WriteUnit(Obs(w)) /\ rows' = rows
        \/ task[w].pc # "idle" /\ WriteRow(Obs(w)) /\ log' = log
    BY <1>5 DEF StorageFailure, At
  <2>5. StoreOK'
    BY <2>3, <2>4, ObsIsObservation, WriteKeepsStore DEF StoreOK
  <2> QED BY <1>5, <2>2, <2>5 DEF StorageFailure, ApiOK, BrokerOK, apiVars, brokerVars
<1> QED
  BY <1>1, <1>2, <1>3, <1>4, <1>5 DEF FaultStep

LEMMA TypeStep ==
  ASSUME TypeOK, [Next]_vars
  PROVE  TypeOK'
<1>1. CASE UNCHANGED vars
  BY <1>1 DEF TypeOK, ApiOK, BrokerOK, WorkerOK, StoreOK, vars, apiVars, brokerVars,
              workerVars, storeVars
<1> QED
  BY <1>1, TypeApi, TypeWorker, TypeFault DEF Next

LEMMA TypeInit ==
  ASSUME Init
  PROVE  TypeOK
<1>1. Idle \in Task /\ Idle.pc = "idle"
  BY DEF Idle, Task
<1>2. /\ <<>> \in Seq([obs : Observation, answer : Answers])
      /\ <<>> \in Seq(Observation) /\ <<>> \in Seq({}) /\ Len(<<>>) = 0 /\ DOMAIN <<>> = {}
  BY EmptySeq
<1> QED
  BY <1>1, <1>2, PipelineConstants
     DEF Init, TypeOK, ApiOK, BrokerOK, WorkerOK, StoreOK, Stores

\* Type correctness, for every number of workers, requests and faults: in
\* particular the API's client, the broker and the workers only ever hold
\* messages of requests that were posted.
THEOREM TypeCorrect == Spec => []TypeOK
BY TypeInit, TypeStep, PTL DEF Spec

-----------------------------------------------------------------------------
(* What a step can do to the requests, to the store and to one callback. *)

RequestsKept ==
  /\ DOMAIN requests \subseteq DOMAIN requests'
  /\ \A i \in DOMAIN requests : requests'[i].obs = requests[i].obs

StoreEffect ==
  \/ UNCHANGED storeVars
  \/ \E w \in Worker : At(w, "ingest") /\ WriteUnit(Obs(w)) /\ UNCHANGED <<rows, results, notices>>
  \/ \E w \in Worker : At(w, "record") /\ WriteRow(Obs(w)) /\ UNCHANGED <<log, results, notices>>
  \/ \E w \in Worker : At(w, "result") /\ WriteResult(TaskResult(w)) /\ UNCHANGED <<log, rows, notices>>
  \/ \E w \in Worker :
       /\ At(w, "notify")
       /\ notices' = notices \cup {[id |-> Obs(w).id, result |-> TaskResult(w)]}
       /\ UNCHANGED <<log, rows, results>>

Moved(w, pc) ==
  task'[w] = [pc |-> pc, msg |-> task[w].msg, evidence |-> task[w].evidence]

TaskEffect(w) ==
  \/ task'[w] = task[w]
  \/ task'[w].pc \in {"idle", "ingest"}
  \/ At(w, "ingest") /\ Moved(w, "record") /\ WriteUnit(Obs(w))
  \/ At(w, "record") /\ Moved(w, "query") /\ WriteRow(Obs(w)) /\ SameId(Obs(w)) \subseteq {Obs(w)}
  \/ /\ At(w, "query") /\ rows' = rows
     /\ task'[w] = [pc |-> "result", msg |-> task[w].msg, evidence |-> Evidence(rows, Obs(w))]
  \/ /\ At(w, "result") /\ Moved(w, "notify") /\ WriteResult(TaskResult(w))
     /\ SameResultId(TaskResult(w)) \subseteq {TaskResult(w)}

LEMMA StepKeepsRequests ==
  ASSUME TypeOK, [Next]_vars
  PROVE  RequestsKept
<1>1. ASSUME NEW o \in Observation, RejectRequest(o) \/ RefuseRequest(o) \/ PublishRequest(o)
      PROVE  RequestsKept
  <2>1. PICK a \in Answers : Post(o, a)
    BY <1>1 DEF RejectRequest, RefuseRequest, PublishRequest, Advances, Answers
  <2> QED BY <2>1, PostKeepsRequests DEF RequestsKept
<1>2. ASSUME NEW i \in DOMAIN requests, PublishTimeout(i) \/ Puback(i)
      PROVE  RequestsKept
  <2>1. \A a : [requests[i] EXCEPT !.answer = a] = [obs |-> requests[i].obs, answer |-> a]
    BY RequestRecord
  <2>2. \/ requests' = requests
        \/ \E a : requests' = [requests EXCEPT ![i] = [obs |-> requests[i].obs, answer |-> a]]
    BY <1>2, <2>1 DEF PublishTimeout, Puback, AnswerWaiting
  <2> QED BY <2>2 DEF RequestsKept
<1>3. ASSUME ApiCrash PROVE RequestsKept
  <2> SUFFICES ASSUME NEW j \in DOMAIN requests
               PROVE  requests'[j].obs = requests[j].obs
    BY <1>3 DEF RequestsKept, ApiCrash
  <2>1. requests'[j] = IF requests[j].answer = "waiting"
                       THEN [requests[j] EXCEPT !.answer = "reset"] ELSE requests[j]
    BY <1>3 DEF ApiCrash
  <2> QED BY <2>1, RequestRecord
<1>4. CASE requests' = requests
  BY <1>4 DEF RequestsKept
<1>5. ASSUME NEW w \in Worker, Subscribe(w) \/ OnMessage(w) PROVE requests' = requests
  BY <1>5 DEF Subscribe, OnMessage, Deliver, Ingest, Record, Query, RecordResult, Notify,
              DropOnCollision, DropOnDeadConnection, apiVars
<1>6. ASSUME NEW w \in Worker, StorageFailure(w) \/ WorkerLinkLoss(w) \/ WorkerCrash(w)
      PROVE  requests' = requests
  BY <1>6 DEF StorageFailure, WorkerLinkLoss, WorkerCrash, apiVars
<1>7. ASSUME Transmit \/ ApiLinkUp \/ ApiLinkLoss \/ BrokerRestart \/ UNCHANGED vars
      PROVE  requests' = requests
  BY <1>7 DEF Transmit, HasRoom, ApiLinkUp, ApiLinkLoss, BrokerRestart, vars, apiVars
<1> QED
  BY <1>1, <1>2, <1>3, <1>4, <1>5, <1>6, <1>7 DEF Next, ApiStep, FaultStep

LEMMA StepStoreEffect ==
  ASSUME [Next]_vars
  PROVE  StoreEffect
<1>1. ASSUME ApiStep \/ ApiLinkLoss \/ ApiCrash \/ BrokerRestart \/ UNCHANGED vars
      PROVE  UNCHANGED storeVars
  BY <1>1 DEF ApiStep, RejectRequest, RefuseRequest, PublishRequest, Advances, PublishTimeout, Puback, AnswerWaiting,
              Transmit, HasRoom, ApiLinkUp, ApiLinkLoss, ApiCrash, BrokerRestart, vars
<1>2. ASSUME NEW w \in Worker, Subscribe(w) \/ Deliver(w) \/ Query(w) \/ DropOnCollision(w)
                               \/ DropOnDeadConnection(w) \/ WorkerLinkLoss(w) \/ WorkerCrash(w)
      PROVE  UNCHANGED storeVars
  BY <1>2 DEF Subscribe, Deliver, Query, DropOnCollision, DropOnDeadConnection,
              WorkerLinkLoss, WorkerCrash
<1>3. ASSUME NEW w \in Worker, Ingest(w) PROVE StoreEffect
  BY <1>3 DEF Ingest, StoreEffect
<1>4. ASSUME NEW w \in Worker, Record(w) PROVE StoreEffect
  BY <1>4 DEF Record, StoreEffect
<1>5. ASSUME NEW w \in Worker, RecordResult(w) PROVE StoreEffect
  BY <1>5 DEF RecordResult, StoreEffect
<1>6. ASSUME NEW w \in Worker, Notify(w) PROVE StoreEffect
  BY <1>6 DEF Notify, StoreEffect
<1>7. ASSUME NEW w \in Worker, StorageFailure(w) PROVE StoreEffect
  BY <1>7 DEF StorageFailure, StoreEffect, storeVars
<1> QED
  BY <1>1, <1>2, <1>3, <1>4, <1>5, <1>6, <1>7 DEF Next, OnMessage, FaultStep, StoreEffect

\* A callback advances together with the write its progress stands for.
LEMMA StepTaskEffect ==
  ASSUME TypeOK, [Next]_vars, NEW v \in Worker
  PROVE  TaskEffect(v)
<1>0. task \in [Worker -> Task]
  BY DEF TypeOK, WorkerOK
<1>1. ASSUME ApiStep \/ ApiLinkLoss \/ ApiCrash \/ BrokerRestart \/ UNCHANGED vars
      PROVE  task' = task
  BY <1>1 DEF ApiStep, RejectRequest, RefuseRequest, PublishRequest, Advances, PublishTimeout, Puback, AnswerWaiting,
              Transmit, HasRoom, ApiLinkUp, ApiLinkLoss, ApiCrash, BrokerRestart, vars, workerVars
<1>2. ASSUME NEW w \in Worker, Subscribe(w) \/ StorageFailure(w) \/ WorkerLinkLoss(w)
      PROVE  task' = task
  BY <1>2 DEF Subscribe, StorageFailure, WorkerLinkLoss, workerVars
<1>3. ASSUME NEW w \in Worker, Deliver(w) \/ Notify(w) \/ DropOnCollision(w)
                               \/ DropOnDeadConnection(w) \/ WorkerCrash(w)
      PROVE  task'[v] = task[v] \/ task'[v].pc \in {"idle", "ingest"}
  BY <1>0, <1>3 DEF Deliver, Notify, DropOnCollision, DropOnDeadConnection, WorkerCrash,
                    Finish, Idle
<1>4. ASSUME NEW w \in Worker, NEW pc, Goto(w, pc)
      PROVE  task'[v] = task[v] \/ (v = w /\ Moved(v, pc))
  <2>1. [task[w] EXCEPT !.pc = pc] = [pc |-> pc, msg |-> task[w].msg, evidence |-> task[w].evidence]
    BY <1>0 DEF Task
  <2>2. task' = [task EXCEPT ![w] = [pc |-> pc, msg |-> task[w].msg, evidence |-> task[w].evidence]]
    BY <1>4, <2>1 DEF Goto
  <2> QED BY <1>0, <2>2 DEF Moved
<1>5. ASSUME NEW w \in Worker, Ingest(w) PROVE TaskEffect(v)
  BY <1>4, <1>5 DEF Ingest, TaskEffect
<1>6. ASSUME NEW w \in Worker, Record(w) PROVE TaskEffect(v)
  BY <1>4, <1>6 DEF Record, TaskEffect
<1>7. ASSUME NEW w \in Worker, RecordResult(w) PROVE TaskEffect(v)
  BY <1>4, <1>7 DEF RecordResult, TaskEffect
<1>8. ASSUME NEW w \in Worker, Query(w) PROVE TaskEffect(v)
  BY <1>0, <1>8 DEF Query, TaskEffect, storeVars
<1>9. TaskEffect(v) <=> (TaskEffect(v) \/ task'[v] = task[v] \/ task'[v].pc \in {"idle", "ingest"})
  BY DEF TaskEffect
<1> QED
  BY <1>1, <1>2, <1>3, <1>5, <1>6, <1>7, <1>8, <1>9 DEF Next, OnMessage, FaultStep

-----------------------------------------------------------------------------
(* The conjuncts of IInv, one lemma each. *)

Carried(i) == i \in outbox \/ \E w \in Worker : Holds(w, i)

\* Every message held after a step was held before it or is a new request
\* whose window advances.
LEMMA StepCarries ==
  ASSUME TypeOK, [Next]_vars, NEW i, Carried(i)'
  PROVE  Carried(i) \/ requests'[i].obs.start < requests'[i].obs.end
<1> DEFINE Fresh == requests'[i].obs.start < requests'[i].obs.end
           InSession(w) == \E k \in DOMAIN session[w] : session[w][k] = i
<1>0. /\ task \in [Worker -> Task] /\ session \in [Worker -> Seq(DOMAIN requests)]
      /\ outbox \subseteq DOMAIN requests
  BY DEF TypeOK, ApiOK, WorkerOK, BrokerOK
<1>1. /\ i \in outbox => Carried(i)
      /\ \A w \in Worker : InSession(w) => Carried(i)
      /\ \A w \in Worker : task[w].pc # "idle" /\ task[w].msg = i => Carried(i)
  BY DEF Carried, Holds
<1>2. \/ i \in outbox'
      \/ \E w \in Worker : \E k \in DOMAIN session'[w] : session'[w][k] = i
      \/ \E w \in Worker : task'[w].pc # "idle" /\ task'[w].msg = i
  BY DEF Carried, Holds
<1>3. CASE i \in outbox'
  <2>1. outbox' \subseteq outbox \/ \E o \in Observation : PublishRequest(o)
    BY <1>0 DEF Next, ApiStep, FaultStep, RejectRequest, RefuseRequest, PublishTimeout, Puback, AnswerWaiting,
           Transmit, HasRoom, ApiLinkUp, ApiLinkLoss, ApiCrash, BrokerRestart, Subscribe, OnMessage,
           Deliver, Ingest, Record, Query, RecordResult, Notify, DropOnCollision,
           DropOnDeadConnection, StorageFailure, WorkerLinkLoss, WorkerCrash, vars, apiVars
  <2>2. ASSUME NEW o \in Observation, PublishRequest(o) PROVE i \in outbox \/ Fresh
    <3>1. Post(o, "waiting") /\ "waiting" \in Answers /\ o.start < o.end
          /\ outbox' = outbox \cup {Len(requests')}
      BY <2>2 DEF PublishRequest, Advances, Answers
    <3>2. requests'[Len(requests')] = [obs |-> o, answer |-> "waiting"]
      BY <3>1, PostKeepsRequests
    <3> QED BY <1>3, <3>1, <3>2
  <2> QED BY <1>1, <1>3, <2>1, <2>2
<1>4. CASE \E w \in Worker : \E k \in DOMAIN session'[w] : session'[w][k] = i
  <2> PICK w \in Worker : \E k \in DOMAIN session'[w] : session'[w][k] = i
    BY <1>4
  <2>1. \/ session'[w] = session[w] \/ session'[w] = <<>>
        \/ Transmit
        \/ \E v \in Worker : Deliver(v)
    BY <1>0 DEF Next, ApiStep, FaultStep, RejectRequest, RefuseRequest, PublishRequest, Advances,
           PublishTimeout, Puback, AnswerWaiting, ApiLinkUp, ApiLinkLoss, ApiCrash, BrokerRestart, Subscribe,
           OnMessage, Ingest, Record, Query, RecordResult, Notify, DropOnCollision,
           DropOnDeadConnection, StorageFailure, WorkerLinkLoss, WorkerCrash, vars, brokerVars
  <2>2. ASSUME session'[w] = <<>> PROVE FALSE
    <3>1. DOMAIN <<>> = {}
      BY EmptySeq
    <3> QED BY <2>2, <3>1
  <2>3. ASSUME Transmit PROVE Carried(i)
    <3> DEFINE m == Min(outbox \ inflight)
    <3>1. outbox \ inflight \subseteq Nat /\ outbox \ inflight # {}
      BY <1>0, <2>3, RequestRecord DEF Transmit, HasRoom
    <3>2. m \in outbox
      BY <3>1, MinIsMember
    <3>3. session'[w] = session[w] \/ session'[w] = Append(session[w], m)
      BY <2>3 DEF Transmit, HasRoom
    <3>4. m \in DOMAIN requests
      BY <1>0, <3>2
    <3> HIDE DEF m
    <3>5. ASSUME session'[w] = Append(session[w], m) PROVE i = m \/ InSession(w)
      <4>1. session[w] \in Seq(DOMAIN requests)
        BY <1>0
      <4>2. PICK k \in DOMAIN Append(session[w], m) : Append(session[w], m)[k] = i
        BY <3>5
      <4>3. /\ k \in 1..(Len(session[w]) + 1) /\ Len(session[w]) \in Nat
            /\ DOMAIN session[w] = 1..Len(session[w])
            /\ Append(session[w], m)[Len(session[w]) + 1] = m
            /\ \A j \in 1..Len(session[w]) : Append(session[w], m)[j] = session[w][j]
        BY <3>4, <4>1, <4>2, AppendProperties, LenProperties
      <4> QED BY <4>2, <4>3
    <3> QED BY <1>1, <3>2, <3>3, <3>5
  <2>4. ASSUME NEW v \in Worker, Deliver(v) PROVE Carried(i)
    <3>1. /\ session'[w] = session[w] \/ (v = w /\ session'[w] = Tail(session[w]))
          /\ session[v] # <<>>
      BY <1>0, <2>4 DEF Deliver
    <3>2. ASSUME session'[w] = Tail(session[w]), session[w] # <<>> PROVE InSession(w)
      <4>1. session[w] \in Seq(DOMAIN requests)
        BY <1>0
      <4>2. PICK k \in DOMAIN Tail(session[w]) : Tail(session[w])[k] = i
        BY <3>2
      <4>3. /\ k \in 1..(Len(session[w]) - 1) /\ Len(session[w]) \in Nat
            /\ DOMAIN session[w] = 1..Len(session[w])
            /\ Tail(session[w])[k] = session[w][k + 1]
        BY <3>2, <4>1, <4>2, HeadTailProperties, LenProperties
      <4> QED BY <4>2, <4>3
    <3> QED BY <1>1, <3>1, <3>2
  <2> QED BY <1>1, <2>1, <2>2, <2>3, <2>4
<1>5. CASE \E w \in Worker : task'[w].pc # "idle" /\ task'[w].msg = i
  <2> PICK w \in Worker : task'[w].pc # "idle" /\ task'[w].msg = i
    BY <1>5
  <2>1. task'[w].pc # "ingest" => Carried(i)
    <3>1. TaskEffect(w)
      BY StepTaskEffect
    <3>2. task[w] \in Task
      BY <1>0
    <3>3. task'[w].pc # "ingest" => task[w].pc # "idle" /\ task'[w].msg = task[w].msg
      BY <3>1, <3>2 DEF TaskEffect, Moved, At
    <3> QED BY <1>1, <3>3
  <2>2. task'[w] = task[w] \/ task'[w].pc # "ingest" \/ Deliver(w)
    BY <1>0 DEF Next, ApiStep, FaultStep, RejectRequest, RefuseRequest, PublishRequest, Advances, Transmit, HasRoom,
           PublishTimeout, Puback, AnswerWaiting, ApiLinkUp, ApiLinkLoss, ApiCrash, BrokerRestart, Subscribe,
           OnMessage, Deliver, Ingest, Record, Query, RecordResult, Notify, DropOnCollision, Task,
           DropOnDeadConnection, StorageFailure, WorkerLinkLoss, WorkerCrash, vars, workerVars,
           Finish, Goto, Idle
  <2>3. ASSUME Deliver(w) PROVE Carried(i)
    <3>1. session[w] \in Seq(DOMAIN requests) /\ session[w] # <<>>
      BY <1>0, <2>3 DEF Deliver
    <3>2. task'[w].msg = Head(session[w])
      BY <1>0, <2>3 DEF Deliver
    <3>3. Head(session[w]) = session[w][1] /\ 1 \in DOMAIN session[w]
      BY <3>1, HeadTailProperties, LenProperties
    <3> QED BY <1>1, <3>2, <3>3
  <2> QED BY <1>1, <2>1, <2>2, <2>3
<1> QED
  BY <1>2, <1>3, <1>4, <1>5

LEMMA CarriedStep ==
  ASSUME TypeOK, CarriedAdvance, [Next]_vars
  PROVE  CarriedAdvance'
<1> SUFFICES ASSUME NEW i \in DOMAIN requests', Carried(i)'
             PROVE  requests'[i].obs.start < requests'[i].obs.end
  BY DEF CarriedAdvance, Carried
<1>1. CASE Carried(i)
  <2>1. i \in DOMAIN requests
    <3>1. CASE i \in outbox
      BY <3>1 DEF TypeOK, ApiOK
    <3>2. ASSUME NEW w \in Worker, NEW k \in DOMAIN session[w], session[w][k] = i
          PROVE  i \in DOMAIN requests
      <4>1. session[w] \in Seq(DOMAIN requests)
        BY DEF TypeOK, BrokerOK
      <4> QED BY <3>2, <4>1, LenProperties, ElementOfSeq
    <3>3. ASSUME NEW w \in Worker, task[w].pc # "idle", task[w].msg = i
          PROVE  i \in DOMAIN requests
      BY <3>3 DEF TypeOK, WorkerOK
    <3> QED BY <1>1, <3>1, <3>2, <3>3 DEF Carried, Holds
  <2>2. requests[i].obs.start < requests[i].obs.end
    BY <1>1, <2>1 DEF CarriedAdvance, Carried
  <2> QED BY <2>1, <2>2, StepKeepsRequests DEF RequestsKept
<1> QED
  BY <1>1, StepCarries

\* The observation a callback works on does not change under it.
LEMMA ObsKept ==
  ASSUME TypeOK, RequestsKept, NEW w \in Worker, task[w].pc # "idle",
         task'[w].msg = task[w].msg
  PROVE  Obs(w)' = Obs(w)
BY DEF TypeOK, WorkerOK, RequestsKept, Obs

LEMMA LogStep ==
  ASSUME TypeOK, AcceptedOnce, StoreEffect
  PROVE  /\ AcceptedOnce'
         /\ LoggedUnits \subseteq LoggedUnits'
         /\ \A w \in Worker : At(w, "ingest") /\ WriteUnit(Obs(w)) => Obs(w) \in LoggedUnits'
<1>0. log \in Seq(Observation)
  BY DEF TypeOK, StoreOK
<1>1. ASSUME log' = log PROVE AcceptedOnce' /\ LoggedUnits \subseteq LoggedUnits'
  BY <1>1 DEF AcceptedOnce, LoggedUnits
<1>2. ASSUME NEW w \in Worker, At(w, "ingest"), WriteUnit(Obs(w))
      PROVE  /\ AcceptedOnce' /\ LoggedUnits \subseteq LoggedUnits'
             /\ Obs(w) \in LoggedUnits'
  <2> DEFINE o == Obs(w)
  <2>1. o \in Observation
    BY <1>2, ObsIsObservation DEF At
  <2>2. CASE o \in LoggedUnits
    BY <1>1, <1>2, <2>2 DEF WriteUnit, LoggedUnits
  <2>3. CASE o \notin LoggedUnits
    <3>1. log' = Append(log, o)
      BY <1>2, <2>3 DEF WriteUnit
    <3> HIDE DEF o
    <3>2. /\ Len(log) \in Nat /\ DOMAIN log = 1..Len(log)
          /\ DOMAIN log' = 1..(Len(log) + 1)
          /\ log'[Len(log) + 1] = o
          /\ \A j \in 1..Len(log) : log'[j] = log[j]
      BY <1>0, <2>1, <3>1, AppendProperties, LenProperties
    <3>3. LoggedUnits \subseteq LoggedUnits' /\ o \in LoggedUnits'
      BY <3>2 DEF LoggedUnits
    <3>4. \A j \in 1..Len(log) : log'[j] # o
      BY <2>3, <3>2 DEF LoggedUnits
    <3>5. AcceptedOnce'
      <4> SUFFICES ASSUME NEW j \in DOMAIN log', NEW k \in DOMAIN log', log'[j] = log'[k]
                   PROVE  j = k
        BY DEF AcceptedOnce
      <4>1. j \in 1..Len(log) \/ j = Len(log) + 1
        BY <3>2
      <4>2. k \in 1..Len(log) \/ k = Len(log) + 1
        BY <3>2
      <4> QED BY <3>2, <3>4, <4>1, <4>2 DEF AcceptedOnce
    <3> QED BY <3>3, <3>5 DEF o
  <2> QED BY <2>2, <2>3
<1> QED
  BY <1>1, <1>2 DEF StoreEffect, storeVars

\* The other tables only grow too.
LEMMA TablesGrow ==
  ASSUME StoreEffect
  PROVE  rows \subseteq rows' /\ results \subseteq results' /\ notices \subseteq notices'
BY DEF StoreEffect, storeVars, WriteRow, WriteResult

LEMMA RowsStep ==
  ASSUME TypeOK, AcceptedOnce, RowsAreLogged, \A w \in Worker : TaskOK(w), StoreEffect
  PROVE  RowsAreLogged'
<1>1. LoggedUnits \subseteq LoggedUnits'
  BY LogStep
<1>2. CASE rows' = rows
  BY <1>1, <1>2 DEF RowsAreLogged
<1>3. ASSUME NEW w \in Worker, At(w, "record"), WriteRow(Obs(w)) PROVE RowsAreLogged'
  <2>1. Obs(w) \in LoggedUnits
    BY <1>3 DEF TaskOK, At
  <2> QED BY <1>1, <1>3, <2>1 DEF RowsAreLogged, WriteRow, SameId
<1> QED
  BY <1>2, <1>3 DEF StoreEffect, storeVars

LEMMA MeetingGrows ==
  ASSUME NEW R, NEW S, R \subseteq S, NEW o
  PROVE  Meeting(R, o) \subseteq Meeting(S, o)
BY DEF Meeting

LEMMA TaskStep ==
  ASSUME TypeOK, CarriedAdvance, AcceptedOnce, RowsAreLogged, NEW w \in Worker, TaskOK(w),
         RequestsKept, StoreEffect, TaskEffect(w)
  PROVE  TaskOK(w)'
<1>0. task[w] \in Task
  BY DEF TypeOK, WorkerOK
<1>1. /\ LoggedUnits \subseteq LoggedUnits'
      /\ rows \subseteq rows' /\ results \subseteq results'
  BY LogStep, TablesGrow
<1>2. \A o : Meeting(rows, o) \subseteq Meeting(rows', o)
  BY <1>1, MeetingGrows
<1>3. CASE task'[w].pc \in {"idle", "ingest"}
  BY <1>3 DEF TaskOK
<1>4. CASE task'[w] = task[w] /\ task[w].pc # "idle"
  <2>1. Obs(w)' = Obs(w)
    BY <1>4, ObsKept
  <2>2. TaskResult(w)' = TaskResult(w)
    BY <1>4, <2>1 DEF TaskResult
  <2> QED BY <1>1, <1>2, <1>4, <2>1, <2>2 DEF TaskOK
<1>5. ASSUME task[w].pc # "idle", NEW pc, Moved(w, pc)
      PROVE  /\ Obs(w)' = Obs(w) /\ TaskResult(w)' = TaskResult(w)
             /\ task'[w].pc = pc /\ task'[w].evidence = task[w].evidence
  <2>1. task'[w].msg = task[w].msg
    BY <1>5 DEF Moved
  <2>2. Obs(w)' = Obs(w)
    BY <1>5, <2>1, ObsKept
  <2> QED BY <1>5, <2>2 DEF TaskResult, Moved
<1>6. CASE At(w, "ingest") /\ Moved(w, "record") /\ WriteUnit(Obs(w))
  <2>1. Obs(w) \in LoggedUnits'
    BY <1>6, LogStep
  <2> QED BY <1>5, <1>6, <2>1 DEF TaskOK, At
<1>7. CASE At(w, "record") /\ Moved(w, "query") /\ WriteRow(Obs(w))
           /\ SameId(Obs(w)) \subseteq {Obs(w)}
  <2>1. Obs(w) \in rows'
    BY <1>7 DEF WriteRow, SameId
  <2>2. Obs(w) \in LoggedUnits'
    BY <1>1, <1>7 DEF TaskOK, At
  <2> QED BY <1>5, <1>7, <2>1, <2>2 DEF TaskOK, At
<1>8. CASE /\ At(w, "query") /\ rows' = rows
           /\ task'[w] = [pc |-> "result", msg |-> task[w].msg, evidence |-> Evidence(rows, Obs(w))]
  <2>1. Obs(w) \in rows /\ Obs(w) \in LoggedUnits /\ task[w].pc # "idle"
    BY <1>8 DEF TaskOK, At
  <2>2. Obs(w)' = Obs(w)
    BY <1>8, <2>1, ObsKept
  <2>3. Obs(w).start < Obs(w).end
    BY <2>1 DEF CarriedAdvance, Holds, Obs, TypeOK, WorkerOK
  <2>4. rows \subseteq Observation
    BY DEF TypeOK, StoreOK
  <2>5. Evidence(rows, Obs(w)) # {}
    BY <2>1, <2>3, <2>4, EvidenceNonEmpty
  <2>6. Evidence(rows, Obs(w)) \subseteq Meeting(rows', Obs(w))
    BY <1>8, EvidenceIsRows
  <2> QED BY <1>1, <1>8, <2>1, <2>2, <2>5, <2>6 DEF TaskOK
<1>9. CASE /\ At(w, "result") /\ Moved(w, "notify") /\ WriteResult(TaskResult(w))
           /\ SameResultId(TaskResult(w)) \subseteq {TaskResult(w)}
  <2>1. TaskResult(w) \in results'
    BY <1>9 DEF WriteResult, SameResultId
  <2>2. /\ Obs(w) \in LoggedUnits' /\ Obs(w) \in rows'
        /\ task[w].evidence \subseteq Meeting(rows', Obs(w)) /\ task[w].evidence # {}
    BY <1>1, <1>2, <1>9 DEF TaskOK, At
  <2> QED BY <1>5, <1>9, <2>1, <2>2 DEF TaskOK, At
<1> QED
  BY <1>3, <1>4, <1>6, <1>7, <1>8, <1>9 DEF TaskEffect

LEMMA FuseFields ==
  ASSUME NEW E, NEW z
  PROVE  /\ Fuse(E, z).zone = z
         /\ Fuse(E, z).support = {o.id : o \in {x \in E : Usable(x)}}
BY DEF Fuse

LEMMA ResultsStep ==
  ASSUME ResultsHaveEvidence, \A w \in Worker : TaskOK(w), StoreEffect
  PROVE  ResultsHaveEvidence'
<1>1. rows \subseteq rows'
  BY TablesGrow
<1>2. SUFFICES ASSUME NEW r \in results'
               PROVE  \E evidence \in SUBSET rows :
                        /\ evidence # {} /\ \A x \in evidence : x.zone = r.zone
                        /\ r = Fuse(evidence, r.zone)
  BY <1>1 DEF ResultsHaveEvidence
<1>3. CASE r \in results
  BY <1>3 DEF ResultsHaveEvidence
<1>4. ASSUME NEW w \in Worker, At(w, "result"), r = TaskResult(w)
      PROVE  \E evidence \in SUBSET rows :
               /\ evidence # {} /\ \A x \in evidence : x.zone = r.zone
               /\ r = Fuse(evidence, r.zone)
  <2>1. r = Fuse(task[w].evidence, Obs(w).zone) /\ r.zone = Obs(w).zone
    BY <1>4, FuseFields DEF TaskResult
  <2>2. task[w].evidence \subseteq Meeting(rows, Obs(w)) /\ task[w].evidence # {}
    BY <1>4 DEF TaskOK, At
  <2>3. task[w].evidence \in SUBSET rows /\ \A x \in task[w].evidence : x.zone = r.zone
    BY <2>1, <2>2 DEF Meeting, InWindow
  <2> QED BY <2>1, <2>2, <2>3
<1> QED
  BY <1>3, <1>4 DEF StoreEffect, storeVars, WriteResult

LEMMA NoticesStep ==
  ASSUME TypeOK, AcceptedOnce, NoticeIsDurable, \A w \in Worker : TaskOK(w), StoreEffect
  PROVE  NoticeIsDurable'
<1>1. LoggedUnits \subseteq LoggedUnits' /\ rows \subseteq rows' /\ results \subseteq results'
  BY LogStep, TablesGrow
<1>2. SUFFICES ASSUME NEW n \in notices'
               PROVE  /\ n.result \in results
                      /\ \E o \in rows \cap LoggedUnits : o.id = n.id /\ o.zone = n.result.zone
  BY <1>1 DEF NoticeIsDurable
<1>3. CASE n \in notices
  BY <1>3 DEF NoticeIsDurable
<1>4. ASSUME NEW w \in Worker, At(w, "notify"),
             n = [id |-> Obs(w).id, result |-> TaskResult(w)]
      PROVE  /\ n.result \in results
             /\ \E o \in rows \cap LoggedUnits : o.id = n.id /\ o.zone = n.result.zone
  <2>1. n.id = Obs(w).id /\ n.result = TaskResult(w) /\ n.result.zone = Obs(w).zone
    BY <1>4, FuseFields DEF TaskResult
  <2>2. TaskResult(w) \in results /\ Obs(w) \in rows /\ Obs(w) \in LoggedUnits
    BY <1>4 DEF TaskOK, At
  <2> QED BY <2>1, <2>2
<1> QED
  BY <1>3, <1>4 DEF StoreEffect, storeVars

\* More rows never make a truncated query complete.
LEMMA UntruncatedBefore ==
  ASSUME NEW R, NEW S, R \subseteq S, S \subseteq Observation, NEW o,
         Cardinality(Meeting(S, o)) <= EvidenceLimit
  PROVE  Cardinality(Meeting(R, o)) <= EvidenceLimit
<1>1. IsFiniteSet(Meeting(S, o)) /\ Meeting(R, o) \subseteq Meeting(S, o)
  BY FS_Subset, PipelineConstants, MeetingGrows DEF Meeting
<1>2. /\ Cardinality(Meeting(R, o)) <= Cardinality(Meeting(S, o))
      /\ IsFiniteSet(Meeting(R, o))
  BY <1>1, FS_Subset
<1>3. Cardinality(Meeting(R, o)) \in Nat /\ Cardinality(Meeting(S, o)) \in Nat
  BY <1>1, <1>2, FS_CardinalityType
<1> QED
  BY <1>2, <1>3, FusionConstants

\* Every look is about a row that is already there.
LEMMA LooksHaveRows ==
  ASSUME NoticeIsDurable, \A w \in Worker : TaskOK(w), NEW u \in Looks
  PROVE  \E x \in rows : x.id = u.id
BY DEF Looks, NoticeIsDurable, TaskOK

\* A step's looks are old ones, but for the one a query adds.
LEMMA LooksOrigin ==
  ASSUME TypeOK, RequestsKept, StoreEffect, \A w \in Worker : TaskEffect(w), NEW u \in Looks'
  PROVE  \/ u \in Looks
         \/ /\ rows' = rows
            /\ \E w \in Worker :
                 /\ At(w, "query")
                 /\ u.id = Obs(w).id
                 /\ u.found = {o.id : o \in {x \in Evidence(rows, Obs(w)) : Usable(x)}}
<1> DEFINE L(w) == [id |-> Obs(w).id, found |-> TaskResult(w).support]
<1>1. \A w \in Worker : task[w].pc \in {"result", "notify"} => L(w) \in Looks
  BY DEF Looks
<1>2. CASE \E n \in notices' : u = [id |-> n.id, found |-> n.result.support]
  <2> PICK n \in notices' : u = [id |-> n.id, found |-> n.result.support]
    BY <1>2
  <2>1. CASE n \in notices
    BY <2>1 DEF Looks
  <2>2. ASSUME NEW w \in Worker, At(w, "notify"),
               n = [id |-> Obs(w).id, result |-> TaskResult(w)]
        PROVE  u \in Looks
    BY <1>1, <2>2 DEF At
  <2> QED BY <2>1, <2>2 DEF StoreEffect, storeVars
<1>4. ASSUME NEW w \in Worker, task'[w].pc \in {"result", "notify"}, u = L(w)'
      PROVE  \/ u \in Looks
             \/ /\ rows' = rows /\ At(w, "query") /\ u.id = Obs(w).id
                /\ u.found = {o.id : o \in {x \in Evidence(rows, Obs(w)) : Usable(x)}}
  <2>1. TaskEffect(w) /\ task[w] \in Task
    BY DEF TypeOK, WorkerOK
  <2>2. task[w].pc # "idle" /\ task'[w].msg = task[w].msg
    BY <1>4, <2>1 DEF TaskEffect, Moved, At
  <2>3. Obs(w)' = Obs(w)
    BY <2>2, ObsKept
  <2>4. CASE task[w].pc \in {"result", "notify"} /\ task'[w].evidence = task[w].evidence
    BY <1>1, <1>4, <2>3, <2>4 DEF TaskResult
  <2>5. CASE /\ At(w, "query") /\ rows' = rows
             /\ task'[w].evidence = Evidence(rows, Obs(w))
    <3>1. TaskResult(w)' = Fuse(Evidence(rows, Obs(w)), Obs(w).zone)
      BY <2>3, <2>5 DEF TaskResult
    <3> QED BY <1>4, <2>3, <2>5, <3>1, FuseFields
  <2> QED BY <1>4, <2>1, <2>4, <2>5 DEF TaskEffect, Moved, At
<1> QED
  BY <1>2, <1>4 DEF Looks

LEMMA LooksStep ==
  ASSUME TypeOK, CarriedAdvance, AcceptedOnce, RowsAreLogged, NoticeIsDurable, LooksMeet,
         \A w \in Worker : TaskOK(w), RequestsKept, StoreEffect,
         \A w \in Worker : TaskEffect(w), TypeOK'
  PROVE  LooksMeet'
<1> SUFFICES ASSUME NEW u \in Looks', NEW v \in Looks', NEW x \in rows', NEW y \in rows',
                    x.id = u.id, y.id = v.id, Usable(x), Usable(y), InWindow(x, y),
                    Cardinality(Meeting(rows', x)) <= EvidenceLimit,
                    Cardinality(Meeting(rows', y)) <= EvidenceLimit
             PROVE  y.id \in u.found \/ x.id \in v.found
  BY DEF LooksMeet, Untruncated
<1>0. rows \subseteq rows' /\ rows' \subseteq Observation /\ rows \subseteq Observation
  BY TablesGrow DEF TypeOK, StoreOK
<1>1. /\ Cardinality(Meeting(rows, x)) <= EvidenceLimit
      /\ Cardinality(Meeting(rows, y)) <= EvidenceLimit
  BY <1>0, UntruncatedBefore
<1>2. ASSUME NEW t \in Looks, NEW z \in rows', z.id = t.id PROVE z \in rows
  <2>1. PICK r \in rows : r.id = z.id
    BY <1>2, LooksHaveRows
  <2>2. r = z
    BY <1>0, <2>1, RowsStep DEF RowsAreLogged
  <2> QED BY <2>1, <2>2
<1>3. ASSUME NEW w \in Worker, At(w, "query"), rows' = rows, NEW t \in rows, NEW z \in rows,
             t.id = Obs(w).id, Usable(z), InWindow(t, z),
             Cardinality(Meeting(rows, t)) <= EvidenceLimit
      PROVE  z.id \in {o.id : o \in {e \in Evidence(rows, Obs(w)) : Usable(e)}}
  <2>1. t = Obs(w)
    BY <1>3 DEF TaskOK, At, RowsAreLogged
  <2>2. Evidence(rows, t) = Meeting(rows, t)
    BY <1>0, <1>3, EvidenceComplete
  <2>3. z \in Evidence(rows, Obs(w))
    BY <1>3, <2>1, <2>2 DEF Meeting
  <2> QED BY <1>3, <2>3
<1>4. InWindow(y, x)
  BY <1>0, InWindowSymmetric
<1>5. CASE u \in Looks /\ v \in Looks
  BY <1>1, <1>2, <1>5 DEF LooksMeet, Untruncated
<1>6. CASE u \notin Looks
  <2>1. PICK w \in Worker :
          /\ At(w, "query") /\ u.id = Obs(w).id /\ rows' = rows
          /\ u.found = {o.id : o \in {e \in Evidence(rows, Obs(w)) : Usable(e)}}
    BY <1>6, LooksOrigin
  <2> QED BY <1>1, <1>3, <2>1
<1>7. CASE v \notin Looks
  <2>1. PICK w \in Worker :
          /\ At(w, "query") /\ v.id = Obs(w).id /\ rows' = rows
          /\ v.found = {o.id : o \in {e \in Evidence(rows, Obs(w)) : Usable(e)}}
    BY <1>7, LooksOrigin
  <2> QED BY <1>1, <1>3, <1>4, <2>1
<1> QED
  BY <1>5, <1>6, <1>7

-----------------------------------------------------------------------------
LEMMA IInvInit ==
  ASSUME Init
  PROVE  IInv
<1>1. TypeOK
  BY TypeInit
<1>2. DOMAIN requests = {} /\ LoggedUnits = {} /\ DOMAIN log = {} /\ rows = {} /\ results = {}
      /\ notices = {} /\ \A w \in Worker : task[w].pc = "idle"
  BY EmptySeq DEF Init, LoggedUnits, Idle
<1>3. Looks = {}
  BY <1>2 DEF Looks
<1> QED
  BY <1>1, <1>2, <1>3 DEF IInv, CarriedAdvance, AcceptedOnce, RowsAreLogged, TaskOK,
                          ResultsHaveEvidence, NoticeIsDurable, LooksMeet

LEMMA IInvStep ==
  ASSUME IInv, [Next]_vars
  PROVE  IInv'
<1> USE DEF IInv
<1>1. TypeOK'
  BY TypeStep
<1>2. RequestsKept /\ StoreEffect /\ \A w \in Worker : TaskEffect(w)
  BY StepKeepsRequests, StepStoreEffect, StepTaskEffect
<1>3. CarriedAdvance'
  BY CarriedStep
<1>4. AcceptedOnce' /\ RowsAreLogged'
  BY <1>2, LogStep, RowsStep
<1>5. \A w \in Worker : TaskOK(w)'
  BY <1>2, TaskStep
<1>6. ResultsHaveEvidence' /\ NoticeIsDurable'
  BY <1>2, ResultsStep, NoticesStep
<1>7. LooksMeet'
  BY <1>1, <1>2, LooksStep
<1> QED
  BY <1>1, <1>3, <1>4, <1>5, <1>6, <1>7

THEOREM Inductive == Spec => []IInv
BY IInvInit, IInvStep, PTL DEF Spec

\* No unit enters the accepted log twice.
THEOREM LogHasNoDuplicates == Spec => []AcceptedOnce
<1>1. IInv => AcceptedOnce
  BY DEF IInv
<1> QED
  BY <1>1, Inductive, PTL

\* The read model holds observations of the log only, one for each id.
THEOREM RowsFollowLog == Spec => []RowsAreLogged
<1>1. IInv => RowsAreLogged
  BY DEF IInv
<1> QED
  BY <1>1, Inductive, PTL

\* No processed notice precedes the three commits it announces.
THEOREM NoticesAreDurable == Spec => []NoticeIsDurable
<1>1. IInv => NoticeIsDurable
  BY DEF IInv
<1> QED
  BY <1>1, Inductive, PTL

\* Every stored result is the fusion of stored rows of its zone.
THEOREM ResultsAreSupported == Spec => []ResultsHaveEvidence
<1>1. IInv => ResultsHaveEvidence
  BY DEF IInv
<1> QED
  BY <1>1, Inductive, PTL

\* Any number of workers that record, then look, cannot miss each other: of
\* two usable observations that meet, one notice cites the other.
THEOREM MeetingPairsAreFused == Spec => []MeetingPairIsFused
<1>1. ASSUME IInv PROVE MeetingPairIsFused
  <2> SUFFICES ASSUME NEW m \in notices, NEW n \in notices, NEW x \in rows, NEW y \in rows,
                      x.id = m.id, y.id = n.id, Usable(x), Usable(y), InWindow(x, y),
                      Untruncated(x), Untruncated(y)
               PROVE  y.id \in m.result.support \/ x.id \in n.result.support
    BY DEF MeetingPairIsFused
  <2> DEFINE look(k) == [id |-> k.id, found |-> k.result.support]
  <2>1. look(m) \in Looks /\ look(n) \in Looks
    BY DEF Looks
  <2>2. \A u, v \in Looks : x.id = u.id /\ y.id = v.id => y.id \in u.found \/ x.id \in v.found
    BY <1>1 DEF IInv, LooksMeet
  <2> QED BY <2>1, <2>2
<1> QED
  BY <1>1, Inductive, PTL

\* record_fusion_result never raises for a result with usable evidence.
THEOREM IndicatorsNeverCollide == Spec => []IndicatorNeverCollides
<1>1. ASSUME IInv PROVE IndicatorNeverCollides
  <2> SUFFICES ASSUME NEW w \in Worker, At(w, "result"), TaskResult(w).state = "indicator",
                      NEW r \in results, ResultId(r) = ResultId(TaskResult(w))
               PROVE  r = TaskResult(w)
    BY DEF IndicatorNeverCollides, SameResultId
  <2>1. PICK F \in SUBSET rows : r = Fuse(F, r.zone)
    BY <1>1 DEF IInv, ResultsHaveEvidence
  <2>2. task[w].evidence \subseteq rows
    BY <1>1, EvidenceIsRows DEF IInv, TaskOK, At
  <2>3. \A x, y \in rows : x.id = y.id => x = y
    BY <1>1 DEF IInv, RowsAreLogged
  <2>4. TaskResult(w) = Fuse(task[w].evidence, Obs(w).zone)
    BY DEF TaskResult
  <2> QED BY <2>1, <2>2, <2>3, <2>4, IndicatorDetermined
<1> QED
  BY <1>1, Inductive, PTL

-----------------------------------------------------------------------------
(* What the storage fault alone can break. *)

LEMMA AckedStep ==
  ASSUME "storage" \notin FaultKinds, IInv, conn = [w \in Worker |-> Stores], AckedIsAccepted,
         [Next]_vars
  PROVE  conn' = [w \in Worker |-> Stores] /\ AckedIsAccepted'
<1>0. TypeOK /\ AcceptedOnce /\ \A w \in Worker : TaskOK(w)
  BY DEF IInv
<1>1. conn' = [w \in Worker |-> Stores]
  <2>1. conn' = conn \/ \E w \in Worker : conn' = [conn EXCEPT ![w] = Stores]
    BY DEF Next, ApiStep, FaultStep, RejectRequest, RefuseRequest, PublishRequest, Advances, Transmit, HasRoom,
           PublishTimeout, Puback, AnswerWaiting, ApiLinkUp, ApiLinkLoss, ApiCrash, BrokerRestart, Subscribe,
           OnMessage, Deliver, Ingest, Record, Query, RecordResult, Notify, DropOnCollision,
           DropOnDeadConnection, StorageFailure, WorkerLinkLoss, WorkerCrash, vars, workerVars,
           Fault
  <2> QED BY <2>1
<1>2. RequestsKept /\ LoggedUnits \subseteq LoggedUnits'
  BY <1>0, StepKeepsRequests, StepStoreEffect, LogStep
<1>3. ASSUME NEW v \in Worker, NEW i \in acked'[v]
      PROVE  i \in acked[v] \/ (task[v].pc \in {"record", "result", "notify"} /\ i = task[v].msg)
  <2>1. acked \in [Worker -> SUBSET DOMAIN requests]
    BY <1>0 DEF TypeOK, WorkerOK
  <2>2. \/ acked' = acked
        \/ \E w \in Worker : task[w].pc \in {"record", "result", "notify"} /\ Finish(w)
    BY DEF Next, ApiStep, FaultStep, RejectRequest, RefuseRequest, PublishRequest, Advances, Transmit, HasRoom,
           PublishTimeout, Puback, AnswerWaiting, ApiLinkUp, ApiLinkLoss, ApiCrash, BrokerRestart, Subscribe,
           OnMessage, Deliver, Ingest, Record, Query, RecordResult, Notify, DropOnCollision,
           DropOnDeadConnection, StorageFailure, WorkerLinkLoss, WorkerCrash, vars, workerVars,
           Stores, At
  <2> QED BY <1>3, <2>1, <2>2 DEF Finish
<1>4. ASSUME NEW v \in Worker, NEW i \in acked'[v] PROVE requests'[i].obs \in LoggedUnits'
  <2>1. CASE i \in acked[v]
    <3>1. i \in DOMAIN requests
      BY <1>0, <2>1 DEF TypeOK, WorkerOK
    <3> QED BY <1>2, <2>1, <3>1 DEF AckedIsAccepted, RequestsKept
  <2>2. CASE task[v].pc \in {"record", "result", "notify"} /\ i = task[v].msg
    <3>1. i \in DOMAIN requests /\ requests[i].obs \in LoggedUnits
      BY <1>0, <2>2 DEF TypeOK, WorkerOK, TaskOK, Obs
    <3> QED BY <1>2, <3>1 DEF RequestsKept
  <2> QED BY <1>3, <1>4, <2>1, <2>2
<1> QED
  BY <1>1, <1>4 DEF AckedIsAccepted

\* As long as the database connections hold, no worker acknowledges a message
\* whose unit is not committed, whatever crashes or disconnects.
THEOREM AckFollowsCommit ==
  ASSUME "storage" \notin FaultKinds
  PROVE  Spec => []AckedIsAccepted
<1> DEFINE Inv == IInv /\ conn = [w \in Worker |-> Stores] /\ AckedIsAccepted
<1>1. Init => Inv
  BY IInvInit DEF Init, AckedIsAccepted
<1>2. Inv /\ [Next]_vars => Inv'
  BY IInvStep, AckedStep
<1>3. Inv => AckedIsAccepted
  OBVIOUS
<1> HIDE DEF Inv
<1> QED
  BY <1>1, <1>2, <1>3, PTL DEF Spec

-----------------------------------------------------------------------------
(* What the broker and the API's client can lose. *)

\* Without faults of its own a worker keeps its connections, and what the
\* broker does to its queue is one message at either end.
LEMMA SteadyStep ==
  ASSUME TypeOK, [Next]_vars, FaultKinds \subseteq {"api-link", "api-crash"},
         NEW w \in Worker, linked[w], "disposition" \in conn[w]
  PROVE  /\ linked'[w] /\ "disposition" \in conn'[w]
         /\ session'[w] = session[w] \/ Transmit \/ Deliver(w)
         /\ task[w].pc = "ingest" => task'[w] = task[w] \/ Ingest(w)
         /\ task[w].pc = "idle" => task'[w] = task[w] \/ Deliver(w)
<1>0. /\ task \in [Worker -> Task] /\ session \in [Worker -> Seq(DOMAIN requests)]
      /\ linked \in [Worker -> BOOLEAN] /\ conn \in [Worker -> SUBSET Stores]
  BY DEF TypeOK, ApiOK, WorkerOK, BrokerOK
<1>1. ASSUME ApiStep \/ UNCHANGED vars
      PROVE  UNCHANGED <<linked, task, conn>> /\ (session' = session \/ Transmit)
  BY <1>1 DEF ApiStep, RejectRequest, RefuseRequest, PublishRequest, PublishTimeout, Puback,
              Transmit, ApiLinkUp, vars, brokerVars, workerVars
<1>2. ASSUME FaultStep
      PROVE  UNCHANGED <<linked, task, conn, session>>
  BY <1>2 DEF FaultStep, ApiLinkLoss, ApiCrash, BrokerRestart, StorageFailure, WorkerLinkLoss,
              WorkerCrash, Fault, brokerVars, workerVars
<1>3. ASSUME NEW v \in Worker, Subscribe(v)
      PROVE  UNCHANGED <<task, conn, session>> /\ linked'[w]
  BY <1>0, <1>3 DEF Subscribe, workerVars
<1>4. ASSUME NEW v \in Worker, OnMessage(v)
      PROVE  /\ UNCHANGED <<linked, conn>>
             /\ session'[w] = session[w] \/ Deliver(w)
  BY <1>0, <1>4 DEF OnMessage, Deliver, Ingest, Record, Query, RecordResult, Notify,
              DropOnCollision, DropOnDeadConnection, brokerVars
<1>5. ASSUME NEW v \in Worker, OnMessage(v)
      PROVE  /\ task[w].pc = "ingest" => task'[w] = task[w] \/ Ingest(w)
             /\ task[w].pc = "idle" => task'[w] = task[w] \/ Deliver(w)
  <2>1. ASSUME v # w PROVE task'[w] = task[w]
    BY <1>0, <1>5, <2>1 DEF OnMessage, Deliver, Ingest, Record, Query, RecordResult, Notify,
              DropOnCollision, DropOnDeadConnection, Goto, Finish
  <2>2. CASE v = w
    BY <1>5, <2>2 DEF OnMessage, Deliver, Ingest, Record, Query, RecordResult, Notify,
              DropOnCollision, DropOnDeadConnection, At
  <2> QED BY <2>1, <2>2
<1> QED
  BY <1>1, <1>2, <1>3, <1>4, <1>5 DEF Next

\* A message that the worker holds, or whose unit is committed, stays so.
LEMMA KeptStep ==
  ASSUME IInv, [Next]_vars, FaultKinds \subseteq {"api-link", "api-crash"},
         NEW w \in Worker, linked[w], "disposition" \in conn[w],
         NEW i \in DOMAIN requests, Kept(w, i)
  PROVE  Kept(w, i)'
<1>0. /\ TypeOK /\ AcceptedOnce /\ TaskOK(w) /\ task[w] \in Task
      /\ session[w] \in Seq(DOMAIN requests) /\ task \in [Worker -> Task]
      /\ session \in [Worker -> Seq(DOMAIN requests)]
  BY DEF IInv, TypeOK, WorkerOK, BrokerOK
<1>1. /\ requests'[i].obs = requests[i].obs /\ LoggedUnits \subseteq LoggedUnits'
      /\ \A v \in Worker : At(v, "ingest") /\ WriteUnit(Obs(v)) => Obs(v) \in LoggedUnits'
  BY <1>0, StepKeepsRequests, StepStoreEffect, LogStep DEF RequestsKept
<1>2. /\ session'[w] = session[w] \/ Transmit \/ Deliver(w)
      /\ task[w].pc = "ingest" => task'[w] = task[w] \/ Ingest(w)
      /\ task[w].pc = "idle" => task'[w] = task[w] \/ Deliver(w)
  BY <1>0, SteadyStep
<1>3. CASE requests[i].obs \in LoggedUnits
  BY <1>1, <1>3 DEF Kept
<1>4. CASE \E k \in DOMAIN session[w] : session[w][k] = i
  <2> PICK k \in DOMAIN session[w] : session[w][k] = i
    BY <1>4
  <2>0. k \in 1..Len(session[w]) /\ Len(session[w]) \in Nat
    BY <1>0, LenProperties
  <2>1. CASE session'[w] = session[w]
    BY <2>1 DEF Kept, Holds
  <2>2. CASE Transmit
    <3> DEFINE m == Min(outbox \ inflight)
    <3>1. session'[w] = session[w] \/ session'[w] = Append(session[w], m)
      BY <1>0, <2>2 DEF Transmit
    <3>2. m \in DOMAIN requests
      <4>1. outbox \ inflight \subseteq Nat /\ outbox \ inflight # {} /\ outbox \subseteq DOMAIN requests
        BY <1>0, <2>2, RequestRecord DEF Transmit, TypeOK, ApiOK
      <4> QED BY <4>1, MinIsMember
    <3> HIDE DEF m
    <3>3. /\ Append(session[w], m) \in Seq(DOMAIN requests)
          /\ Len(Append(session[w], m)) = Len(session[w]) + 1
          /\ Append(session[w], m)[k] = i
      BY <1>0, <2>0, <3>2, AppendProperties
    <3>4. k \in DOMAIN Append(session[w], m)
      BY <2>0, <3>3, LenProperties
    <3> QED BY <2>1, <3>1, <3>3, <3>4 DEF Kept, Holds
  <2>3. CASE Deliver(w)
    <3>1. /\ session'[w] = Tail(session[w]) /\ session[w] # <<>>
          /\ task'[w] = [pc |-> "ingest", msg |-> Head(session[w]), evidence |-> {}]
      BY <1>0, <2>3 DEF Deliver
    <3>2. CASE k = 1
      <4>1. Head(session[w]) = i
        BY <3>2
      <4> QED BY <3>1, <4>1 DEF Kept, Holds
    <3>3. CASE k # 1
      <4>1. /\ k - 1 \in 1..Len(Tail(session[w])) /\ Tail(session[w])[k - 1] = i
            /\ Tail(session[w]) \in Seq(DOMAIN requests)
        BY <1>0, <2>0, <3>1, <3>3, HeadTailProperties
      <4>2. k - 1 \in DOMAIN Tail(session[w])
        BY <4>1, LenProperties
      <4> QED BY <3>1, <4>1, <4>2 DEF Kept, Holds
    <3> QED BY <3>2, <3>3
  <2> QED BY <1>2, <2>1, <2>2, <2>3
<1>5. CASE task[w].pc # "idle" /\ task[w].msg = i
  <2>1. CASE task[w].pc = "ingest"
    <3>1. CASE task'[w] = task[w]
      BY <1>5, <3>1 DEF Kept, Holds
    <3>2. CASE Ingest(w)
      <4>1. Obs(w) \in LoggedUnits' /\ Obs(w) = requests[i].obs
        BY <1>1, <1>5, <3>2 DEF Ingest, Obs
      <4> QED BY <1>1, <4>1 DEF Kept
    <3> QED BY <1>2, <2>1, <3>1, <3>2
  <2>2. CASE task[w].pc # "ingest"
    <3>1. Obs(w) \in LoggedUnits /\ Obs(w) = requests[i].obs
      BY <1>0, <1>5, <2>2 DEF TaskOK, Task, Obs
    <3> QED BY <1>3, <3>1
  <2> QED BY <2>1, <2>2
<1> QED
  BY <1>3, <1>4, <1>5 DEF Kept, Holds

\* What has been sent or answered 202 was so before, or is being sent now.
LEMMA SentStep ==
  ASSUME TypeOK, [Next]_vars, NEW i \in DOMAIN requests',
         i \in inflight' \/ requests'[i].answer = "accepted"
  PROVE  /\ i \in DOMAIN requests
         /\ \/ i \in inflight \/ requests[i].answer = "accepted"
            \/ Transmit /\ i = Min(outbox \ inflight)
<1> DEFINE Sent(j) == j \in inflight \/ requests[j].answer = "accepted"
<1>0. inflight \subseteq outbox /\ outbox \subseteq DOMAIN requests
  BY DEF TypeOK, ApiOK
<1>1. ASSUME NEW o \in Observation, RejectRequest(o) \/ RefuseRequest(o) \/ PublishRequest(o)
      PROVE  i \in DOMAIN requests /\ Sent(i)
  <2>1. PICK a \in Answers \ {"accepted"} : Post(o, a)
    BY <1>1 DEF RejectRequest, RefuseRequest, PublishRequest, Answers
  <2>2. /\ \A j \in DOMAIN requests : requests'[j] = requests[j]
        /\ requests'[Len(requests')] = [obs |-> o, answer |-> a]
        /\ Len(requests') = Len(requests) + 1
        /\ requests' \in Seq([obs : Observation, answer : Answers])
    BY <2>1, PostKeepsRequests
  <2>3. inflight' = inflight
    BY <1>1 DEF RejectRequest, RefuseRequest, PublishRequest
  <2>4. i \in DOMAIN requests \/ i = Len(requests')
    <3>1. i \in 1..Len(requests') /\ DOMAIN requests = 1..Len(requests) /\ Len(requests) \in Nat
      BY <2>2, LenProperties DEF TypeOK, ApiOK
    <3> QED BY <2>2, <3>1
  <2> QED BY <1>0, <2>2, <2>3, <2>4
<1>2. ASSUME NEW j \in DOMAIN requests, PublishTimeout(j) \/ Puback(j)
      PROVE  i \in DOMAIN requests /\ Sent(i)
  <2>1. inflight' \subseteq inflight
    BY <1>2 DEF PublishTimeout, Puback
  <2>2. \A a : [requests[j] EXCEPT !.answer = a] = [obs |-> requests[j].obs, answer |-> a]
    BY RequestRecord
  <2>3. \/ requests' = requests
        \/ requests' = [requests EXCEPT ![j] = [obs |-> requests[j].obs, answer |-> "unavailable"]]
        \/ /\ j \in inflight
           /\ requests' = [requests EXCEPT ![j] = [obs |-> requests[j].obs, answer |-> "accepted"]]
    BY <1>2, <2>2 DEF PublishTimeout, Puback, AnswerWaiting
  <2> QED BY <2>1, <2>3
<1>3. ASSUME Transmit
      PROVE  /\ i \in DOMAIN requests
             /\ Sent(i) \/ (Transmit /\ i = Min(outbox \ inflight))
  BY <1>3 DEF Transmit
<1>4. ASSUME ApiCrash PROVE i \in DOMAIN requests /\ Sent(i)
  <2>1. DOMAIN requests' = DOMAIN requests /\ inflight' = {}
    BY <1>4 DEF ApiCrash
  <2>2. requests'[i] = IF requests[i].answer = "waiting"
                       THEN [requests[i] EXCEPT !.answer = "reset"] ELSE requests[i]
    BY <1>4, <2>1 DEF ApiCrash
  <2> QED BY <2>1, <2>2, RequestRecord
<1>5. ASSUME requests' = requests, inflight' \subseteq inflight
      PROVE  i \in DOMAIN requests /\ Sent(i)
  BY <1>5
<1>6. ASSUME NEW w \in Worker, \/ Subscribe(w) \/ OnMessage(w)
                               \/ StorageFailure(w) \/ WorkerLinkLoss(w) \/ WorkerCrash(w)
      PROVE  requests' = requests /\ inflight' = inflight
  BY <1>6 DEF Subscribe, OnMessage, Deliver, Ingest, Record, Query, RecordResult, Notify,
              DropOnCollision, DropOnDeadConnection, StorageFailure, WorkerLinkLoss, WorkerCrash, apiVars
<1>7. ASSUME ApiLinkUp \/ ApiLinkLoss \/ BrokerRestart \/ UNCHANGED vars
      PROVE  requests' = requests /\ inflight' \subseteq inflight
  BY <1>7 DEF ApiLinkUp, ApiLinkLoss, BrokerRestart, vars, apiVars
<1> QED
  BY <1>1, <1>2, <1>3, <1>4, <1>5, <1>6, <1>7 DEF Next, ApiStep, FaultStep

\* How much can still be on its way: each request once, and each once more
\* for every fault.
LEMMA OutboxCount ==
  ASSUME TypeOK
  PROVE  /\ IsFiniteSet(outbox) /\ IsFiniteSet(outbox \ inflight)
         /\ Cardinality(outbox) \in Nat /\ Cardinality(outbox \ inflight) \in Nat
         /\ Cardinality(outbox \ inflight) <= Cardinality(outbox)
         /\ Cardinality(outbox) <= Len(requests) /\ Len(requests) \in Nat
<1>1. /\ DOMAIN requests = 1..Len(requests) /\ Len(requests) \in Nat
      /\ outbox \in SUBSET DOMAIN requests /\ outbox \ inflight \in SUBSET outbox
  BY LenProperties DEF TypeOK, ApiOK
<1>2. IsFiniteSet(DOMAIN requests) /\ Cardinality(DOMAIN requests) = Len(requests)
  BY <1>1, FS_Interval
<1>3. IsFiniteSet(outbox) /\ Cardinality(outbox) <= Len(requests)
  BY <1>1, <1>2, FS_Subset
<1>4. IsFiniteSet(outbox \ inflight) /\ Cardinality(outbox \ inflight) <= Cardinality(outbox)
  BY <1>1, <1>3, FS_Subset
<1> QED BY <1>1, <1>3, <1>4, FS_CardinalityType

LEMMA SameLength ==
  ASSUME NEW m \in Nat, NEW n \in Nat, 1..m = 1..n
  PROVE  m = n
<1>1. ASSUME m < n PROVE FALSE
  <2>1. n \in 1..n /\ n \notin 1..m
    BY <1>1
  <2> QED BY <2>1
<1>2. ASSUME n < m PROVE FALSE
  <2>1. m \in 1..m /\ m \notin 1..n
    BY <1>2
  <2> QED BY <2>1
<1> QED BY <1>1, <1>2

LEMMA RoomStep ==
  ASSUME TypeOK, [Next]_vars, TypeOK', FaultKinds \subseteq {"api-link", "api-crash"},
         NEW w \in Worker, KeepsUp(w)
  PROVE  /\ Len(requests') <= MaxRequests
         /\ Len(session'[w]) + Cardinality(outbox' \ inflight')
              <= Len(requests') + MaxRequests * faults'
<1> DEFINE Out == outbox \ inflight
<1>0. /\ Len(requests) \in Nat /\ Len(requests) <= MaxRequests /\ MaxRequests \in Nat
      /\ faults \in Nat /\ session \in [Worker -> Seq(DOMAIN requests)]
      /\ session[w] \in Seq(DOMAIN requests) /\ Len(session[w]) \in Nat
      /\ inflight \subseteq outbox /\ outbox \subseteq DOMAIN requests
      /\ Len(session[w]) + Cardinality(Out) <= Len(requests) + MaxRequests * faults
      /\ requests \in Seq([obs : Observation, answer : Answers])
  BY LenProperties, PipelineConstants DEF KeepsUp, TypeOK, BrokerOK, ApiOK, StoreOK
<1>1. /\ IsFiniteSet(Out) /\ Cardinality(Out) \in Nat /\ Cardinality(outbox) \in Nat
      /\ Cardinality(outbox) <= Len(requests)
  BY OutboxCount
<1>2. /\ MaxRequests * faults \in Nat /\ MaxRequests * (faults + 1) = MaxRequests * faults + MaxRequests
  BY <1>0
<1>3. ASSUME NEW o \in Observation, RejectRequest(o) \/ RefuseRequest(o) \/ PublishRequest(o)
      PROVE  /\ Len(requests') = Len(requests) + 1 /\ Len(requests') <= MaxRequests
             /\ session' = session /\ faults' = faults
             /\ Cardinality(outbox' \ inflight') \in Nat
             /\ Cardinality(outbox' \ inflight') <= Cardinality(Out) + 1
  <2>1. PICK a \in Answers : Post(o, a)
    BY <1>3 DEF RejectRequest, RefuseRequest, PublishRequest, Answers
  <2>2. Len(requests') = Len(requests) + 1
    BY <2>1, PostKeepsRequests
  <2>3. Len(requests) < MaxRequests
    BY <2>1 DEF Post
  <2>4. session' = session /\ faults' = faults /\ inflight' = inflight
        /\ (outbox' = outbox \/ outbox' = outbox \cup {Len(requests')})
    BY <1>3 DEF RejectRequest, RefuseRequest, PublishRequest, brokerVars
  <2>5. /\ Cardinality(outbox' \ inflight') \in Nat
        /\ Cardinality(outbox' \ inflight') <= Cardinality(Out) + 1
    <3>1. CASE outbox' = outbox
      BY <1>1, <2>4, <3>1
    <3>2. CASE outbox' = outbox \cup {Len(requests')}
      <4> DEFINE n == Len(requests')
      <4>a. /\ IsFiniteSet(Out \cup {n})
            /\ Cardinality(Out \cup {n}) = IF n \in Out THEN Cardinality(Out) ELSE Cardinality(Out) + 1
        <5> HIDE DEF Out, n
        <5> QED BY <1>1, FS_AddElement
      <4>1. IsFiniteSet(Out \cup {n}) /\ Cardinality(Out \cup {n}) \in Nat
            /\ Cardinality(Out \cup {n}) <= Cardinality(Out) + 1
        <5> HIDE DEF Out, n
        <5> QED BY <1>1, <4>a
      <4>2. (outbox' \ inflight') \in SUBSET (Out \cup {n})
        BY <2>4, <3>2
      <4>3. Cardinality(outbox' \ inflight') <= Cardinality(Out \cup {n})
        BY <4>1, <4>2, FS_Subset
      <4>4. Cardinality(outbox' \ inflight') \in Nat
        BY <4>1, <4>2, FS_Subset, FS_CardinalityType
      <4> QED BY <1>1, <4>1, <4>3, <4>4
    <3> QED BY <2>4, <3>1, <3>2
  <2> QED BY <1>0, <2>2, <2>3, <2>4, <2>5
<1>4. ASSUME NEW j \in DOMAIN requests, PublishTimeout(j) \/ Puback(j)
      PROVE  /\ Len(requests') = Len(requests) /\ session' = session /\ faults' = faults
             /\ outbox' \ inflight' = Out
  <2>1. DOMAIN requests' = DOMAIN requests
    BY <1>4 DEF PublishTimeout, Puback, AnswerWaiting
  <2>2. Len(requests') = Len(requests)
    <3>1. DOMAIN requests' = 1..Len(requests') /\ DOMAIN requests = 1..Len(requests)
          /\ Len(requests') \in Nat
      BY <1>0, LenProperties DEF TypeOK, ApiOK
    <3> QED BY <1>0, <2>1, <3>1, SameLength
  <2>3. session' = session /\ faults' = faults
    BY <1>4 DEF PublishTimeout, Puback, brokerVars
  <2>4. outbox' \ inflight' = Out
    BY <1>0, <1>4 DEF PublishTimeout, Puback
  <2> QED BY <2>2, <2>3, <2>4
<1>5. ASSUME Transmit
      PROVE  /\ requests' = requests /\ faults' = faults
             /\ Cardinality(outbox' \ inflight') = Cardinality(Out) - 1
             /\ Len(session'[w]) <= Len(session[w]) + 1 /\ Len(session'[w]) \in Nat
  <2> DEFINE m == Min(Out)
  <2>1. m \in Out
    <3>1. Out \subseteq Nat /\ Out # {}
      BY <1>0, <1>5, RequestRecord DEF Transmit
    <3> QED BY <3>1, MinIsMember
  <2>2. /\ requests' = requests /\ faults' = faults /\ outbox' = outbox
        /\ inflight' = inflight \cup {m}
        /\ session'[w] = session[w] \/ session'[w] = Append(session[w], m)
    BY <1>5 DEF Transmit
  <2> HIDE DEF m
  <2>3. outbox' \ inflight' = Out \ {m}
    BY <2>2
  <2>4. Cardinality(Out \ {m}) = Cardinality(Out) - 1
    BY <1>1, <2>1, FS_RemoveElement
  <2>5. Len(session'[w]) <= Len(session[w]) + 1 /\ Len(session'[w]) \in Nat
    BY <1>0, <2>1, <2>2, AppendProperties
  <2> QED BY <2>2, <2>3, <2>4, <2>5
<1>6. ASSUME FaultStep
      PROVE  /\ Len(requests') = Len(requests) /\ session' = session /\ faults' = faults + 1
             /\ outbox' \ inflight' = {} \/ outbox' \ inflight' = outbox
  <2>1. ApiLinkLoss \/ ApiCrash
    BY <1>6 DEF FaultStep, BrokerRestart, StorageFailure, WorkerLinkLoss, WorkerCrash, Fault
  <2>2. /\ session' = session /\ faults' = faults + 1
        /\ outbox' \ inflight' = {} \/ outbox' \ inflight' = outbox
        /\ DOMAIN requests' = DOMAIN requests
    BY <2>1 DEF ApiLinkLoss, ApiCrash, Fault, brokerVars
  <2>3. Len(requests') = Len(requests)
    <3>1. DOMAIN requests' = 1..Len(requests') /\ DOMAIN requests = 1..Len(requests)
          /\ Len(requests') \in Nat
      BY <1>0, LenProperties DEF TypeOK, ApiOK
    <3> QED BY <1>0, <2>2, <3>1, SameLength
  <2> QED BY <2>2, <2>3
<1>7. ASSUME NEW v \in Worker, Subscribe(v) \/ OnMessage(v)
      PROVE  /\ UNCHANGED <<requests, outbox, inflight, faults>>
             /\ Len(session'[w]) <= Len(session[w]) /\ Len(session'[w]) \in Nat
  <2>1. UNCHANGED <<requests, outbox, inflight, faults>>
    BY <1>7 DEF Subscribe, OnMessage, Deliver, Ingest, Record, Query, RecordResult, Notify,
                DropOnCollision, DropOnDeadConnection, apiVars
  <2>2. session'[w] = session[w] \/ (session'[w] = Tail(session[w]) /\ session[w] # <<>>)
    BY <1>0, <1>7 DEF Subscribe, OnMessage, Deliver, Ingest, Record, Query, RecordResult, Notify,
                DropOnCollision, DropOnDeadConnection, brokerVars
  <2>3. session[w] # <<>> => Len(Tail(session[w])) = Len(session[w]) - 1
                             /\ Len(Tail(session[w])) \in Nat
    BY <1>0, HeadTailProperties, LenProperties
  <2> QED BY <1>0, <2>1, <2>2, <2>3
<1>8. ASSUME ApiLinkUp \/ UNCHANGED vars
      PROVE  UNCHANGED <<requests, outbox, inflight, session, faults>>
  BY <1>8 DEF ApiLinkUp, vars, apiVars, brokerVars
<1> HIDE DEF Out
<1>a. CASE \E o \in Observation : RejectRequest(o) \/ RefuseRequest(o) \/ PublishRequest(o)
  BY <1>0, <1>1, <1>2, <1>3, <1>a
<1>b. CASE \E j \in DOMAIN requests : PublishTimeout(j) \/ Puback(j)
  BY <1>0, <1>1, <1>2, <1>4, <1>b
<1>c. CASE Transmit
  BY <1>0, <1>1, <1>2, <1>5, <1>c
<1>d. CASE FaultStep
  <2>1. Cardinality({}) = 0
    BY FS_EmptySet
  <2>2. /\ Cardinality(outbox' \ inflight') \in Nat
        /\ Cardinality(outbox' \ inflight') <= MaxRequests
    <3>1. CASE outbox' \ inflight' = {}
      <4>1. Cardinality(outbox' \ inflight') = 0
        BY <2>1, <3>1, Zenon
      <4> QED BY <1>0, <4>1
    <3>2. CASE outbox' \ inflight' = outbox
      <4>1. Cardinality(outbox' \ inflight') = Cardinality(outbox)
        BY <3>2, Zenon
      <4> QED BY <1>0, <1>1, <4>1
    <3> QED BY <1>6, <1>d, <3>1, <3>2
  <2>3. MaxRequests * faults' = MaxRequests * faults + MaxRequests
    BY <1>2, <1>6, <1>d
  <2> QED BY <1>0, <1>1, <1>2, <1>6, <1>d, <2>2, <2>3
<1>e. CASE \E v \in Worker : Subscribe(v) \/ OnMessage(v)
  <2>1. Cardinality(outbox' \ inflight') = Cardinality(Out)
    BY <1>7, <1>e DEF Out
  <2> QED BY <1>0, <1>1, <1>2, <1>7, <1>e, <2>1
<1>f. CASE ApiLinkUp \/ UNCHANGED vars
  BY <1>0, <1>8, <1>f DEF Out
<1> QED
  BY <1>a, <1>b, <1>c, <1>d, <1>e, <1>f DEF Next, ApiStep

\* A worker that keeps up has room for the message that is sent next.
LEMMA SentIsKept ==
  ASSUME TypeOK, Transmit, NEW w \in Worker, KeepsUp(w),
         MaxRequests * (1 + MaxFaults) <= MaxQueued,
         NEW m, m = Min(outbox \ inflight)
  PROVE  Kept(w, m)'
<1> DEFINE Out == outbox \ inflight
<1>1. /\ Len(requests) \in Nat /\ Len(requests) <= MaxRequests /\ MaxRequests \in Nat
      /\ faults \in Nat /\ MaxFaults \in Nat /\ MaxQueued \in Nat /\ faults <= MaxFaults
      /\ session[w] \in Seq(DOMAIN requests) /\ Len(session[w]) \in Nat
      /\ Len(session[w]) + Cardinality(Out) <= Len(requests) + MaxRequests * faults
  BY LenProperties, PipelineConstants DEF KeepsUp, TypeOK, BrokerOK, ApiOK, StoreOK
<1>2. IsFiniteSet(Out) /\ Cardinality(Out) \in Nat /\ Out # {} /\ Out \subseteq DOMAIN requests
  BY OutboxCount DEF Transmit, TypeOK, ApiOK
<1>3. m \in DOMAIN requests /\ m \in Nat
  <2>1. Out \subseteq Nat
    BY <1>2, RequestRecord
  <2> QED BY <1>2, <2>1, MinIsMember
<1>4. Cardinality(Out) >= 1
  BY <1>2, FS_EmptySet
<1>5. Len(session[w]) < MaxQueued
  <2>1. MaxRequests * faults <= MaxRequests * MaxFaults
    BY <1>1
  <2>2. MaxRequests * (1 + MaxFaults) = MaxRequests + MaxRequests * MaxFaults
    BY <1>1
  <2>3. MaxRequests * faults \in Nat /\ MaxRequests * MaxFaults \in Nat
    BY <1>1
  <2> DEFINE now == MaxRequests * faults
             ever == MaxRequests * MaxFaults
  <2>4. /\ now \in Nat /\ ever \in Nat /\ now <= ever /\ MaxRequests + ever <= MaxQueued
        /\ Len(session[w]) + Cardinality(Out) <= Len(requests) + now
    BY <1>1, <2>1, <2>2, <2>3
  <2> HIDE DEF Out, now, ever
  <2> QED BY <1>1, <1>2, <1>4, <2>4
<1>6. session'[w] = Append(session[w], m)
  BY <1>5 DEF Transmit, HasRoom, KeepsUp
<1>7. /\ Len(session[w]) + 1 \in DOMAIN Append(session[w], m)
      /\ Append(session[w], m)[Len(session[w]) + 1] = m
  BY <1>1, <1>3, AppendProperties, LenProperties
<1> QED
  BY <1>6, <1>7 DEF Kept, Holds

LEMMA KeepsUpStep ==
  ASSUME IInv, IInv', [Next]_vars, FaultKinds \subseteq {"api-link", "api-crash"},
         MaxRequests * (1 + MaxFaults) <= MaxQueued, NEW w \in Worker, KeepsUp(w)
  PROVE  KeepsUp(w)'
<1>0. TypeOK /\ TypeOK' /\ linked[w] /\ "disposition" \in conn[w]
  BY DEF IInv, KeepsUp
<1>1. linked'[w] /\ "disposition" \in conn'[w]
  BY <1>0, SteadyStep
<1>2. ASSUME NEW i \in DOMAIN requests', i \in inflight' \/ requests'[i].answer = "accepted"
      PROVE  Kept(w, i)'
  <2>1. CASE i \in DOMAIN requests /\ (i \in inflight \/ requests[i].answer = "accepted")
    BY <1>0, <2>1, KeptStep DEF KeepsUp
  <2>2. CASE Transmit /\ i = Min(outbox \ inflight)
    BY <1>0, <2>2, SentIsKept
  <2> QED BY <1>0, <1>2, <2>1, <2>2, SentStep
<1>3. /\ Len(requests') <= MaxRequests
      /\ Len(session'[w]) + Cardinality(outbox' \ inflight')
           <= Len(requests') + MaxRequests * faults'
  BY <1>0, RoomStep
<1> QED BY <1>1, <1>2, <1>3 DEF KeepsUp

LEMMA KeepsUpInit ==
  ASSUME Init, NEW w \in Worker \ LateWorker
  PROVE  KeepsUp(w)
<1>1. /\ DOMAIN requests = {} /\ Len(requests) = 0 /\ Len(session[w]) = 0
      /\ outbox \ inflight = {} /\ faults = 0
  BY EmptySeq DEF Init
<1>2. Cardinality(outbox \ inflight) = 0 /\ MaxRequests * faults = 0
  <2>1. Cardinality(outbox \ inflight) = 0
    BY <1>1, FS_EmptySet, Zenon
  <2> QED BY <1>1, <2>1, PipelineConstants
<1>3. linked[w] /\ "disposition" \in conn[w]
  BY DEF Init, Stores
<1> QED BY <1>1, <1>2, <1>3, PipelineConstants DEF KeepsUp

\* Where one worker subscribes before the API takes requests, only the API's
\* own process and link fail, and the broker's limit leaves room for every
\* request and its repetitions, nothing answered 202 is lost: not in the
\* outbox, not by a resend, not on the way to the accepted log.
THEOREM AcceptedIsKept ==
  ASSUME NEW w \in Worker \ LateWorker, FaultKinds \subseteq {"api-link", "api-crash"},
         MaxRequests * (1 + MaxFaults) <= MaxQueued
  PROVE  Spec => []AcceptedIsNotLost
<1> DEFINE Inv == IInv /\ KeepsUp(w)
<1>1. Init => Inv
  BY IInvInit, KeepsUpInit
<1>2. Inv /\ [Next]_vars => Inv'
  BY IInvStep, KeepsUpStep
<1>3. Inv => AcceptedIsNotLost
  BY DEF KeepsUp, Kept, AcceptedIsNotLost
<1> HIDE DEF Inv
<1> QED
  BY <1>1, <1>2, <1>3, PTL DEF Spec

-----------------------------------------------------------------------------
(* The pipeline implements the ledger. *)

LEMMA LedgerStep ==
  ASSUME IInv, [Next]_vars
  PROVE  [Ledger!Next]_(Ledger!vars)
<1>0. TypeOK /\ \A w \in Worker : TaskOK(w)
  BY DEF IInv
<1> DEFINE Support(w) == task[w].evidence
<1>1. StoreEffect
  BY StepStoreEffect
<1>2. CASE UNCHANGED storeVars
  BY <1>2 DEF storeVars, Ledger!vars
<1>3. ASSUME NEW w \in Worker, task[w].pc # "idle" PROVE Obs(w) \in Observation
  BY <1>0, <1>3, ObsIsObservation
<1>4. ASSUME NEW w \in Worker, task[w].pc \in {"result", "notify"}
      PROVE  Ledger!Supports(Support(w), Obs(w)) /\ Support(w) \in SUBSET rows
  <2>1. Obs(w) \in rows /\ Support(w) \subseteq Meeting(rows, Obs(w)) /\ Support(w) # {}
    BY <1>0, <1>4 DEF TaskOK
  <2> QED BY <2>1 DEF Ledger!Supports, Meeting
<1>5. ASSUME NEW w \in Worker, At(w, "ingest"), WriteUnit(Obs(w)), UNCHANGED <<rows, results, notices>>
      PROVE  [Ledger!Next]_(Ledger!vars)
  <2>1. log' = log \/ Ledger!Accept(Obs(w))
    BY <1>5 DEF WriteUnit, LoggedUnits, Ledger!Accept, Ledger!Accepted
  <2> QED BY <1>3, <1>5, <2>1 DEF Ledger!Next, Ledger!vars, At
<1>6. ASSUME NEW w \in Worker, At(w, "record"), WriteRow(Obs(w)), UNCHANGED <<log, results, notices>>
      PROVE  [Ledger!Next]_(Ledger!vars)
  <2>1. Obs(w) \in LoggedUnits
    BY <1>0, <1>6 DEF TaskOK, At
  <2>2. rows' = rows \/ Ledger!Show(Obs(w))
    BY <1>6, <2>1 DEF WriteRow, SameId, LoggedUnits, Ledger!Show, Ledger!Accepted
  <2> QED BY <1>3, <1>6, <2>2 DEF Ledger!Next, Ledger!vars, At
<1>7. ASSUME NEW w \in Worker, At(w, "result"), WriteResult(TaskResult(w)), UNCHANGED <<log, rows, notices>>
      PROVE  [Ledger!Next]_(Ledger!vars)
  <2>1. results' = results \/ Ledger!Conclude(Obs(w), Support(w))
    BY <1>4, <1>7 DEF WriteResult, SameResultId, TaskResult, Ledger!Conclude, At
  <2> QED BY <1>3, <1>4, <1>7, <2>1 DEF Ledger!Next, Ledger!vars, At
<1>8. ASSUME NEW w \in Worker, At(w, "notify"),
             notices' = notices \cup {[id |-> Obs(w).id, result |-> TaskResult(w)]},
             UNCHANGED <<log, rows, results>>
      PROVE  [Ledger!Next]_(Ledger!vars)
  <2>1. TaskResult(w) \in results
    BY <1>0, <1>8 DEF TaskOK, At
  <2>2. Ledger!Announce(Obs(w), Support(w))
    BY <1>4, <1>8, <2>1 DEF TaskResult, Ledger!Announce, At
  <2> QED BY <1>3, <1>4, <1>8, <2>2 DEF Ledger!Next, At
<1> QED
  BY <1>1, <1>2, <1>5, <1>6, <1>7, <1>8 DEF StoreEffect

\* Every behaviour of the pipeline is, in its durable state, a behaviour of
\* the ledger: entries are added one at a time on top of what they depend on,
\* and no retry, crash or failed statement alters or removes one.
THEOREM PipelineImplementsLedger == Spec => LedgerSpec
<1>1. Init => Ledger!Init
  BY DEF Init, Ledger!Init
<1>2. IInv /\ [Next]_vars => [Ledger!Next]_(Ledger!vars)
  BY LedgerStep
<1> QED
  BY <1>1, <1>2, Inductive, PTL DEF Spec, LedgerSpec, Ledger!Spec

=============================================================================
