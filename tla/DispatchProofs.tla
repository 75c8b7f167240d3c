--------------------------- MODULE DispatchProofs ---------------------------
(***************************************************************************)
(* Proofs about the job pipeline, for any number of jobs, workers,         *)
(* requests, queues, tenants and faults: types and exclusive runs; the     *)
(* tables and their life cycle; which queue an id is in.                   *)
(***************************************************************************)
EXTENDS Dispatch, TLAPS

(* The solvers' time limit, in seconds, where a leaf names no prover.      *)
USE SMTT(30)

USE DEF Column, Terminal, Status, Idle, NoRequest

(* backoffFor never yields anything but a number of seconds.               *)
LEMMA BackoffNat == ASSUME NEW a \in Nat PROVE backoffFor(a) \in Nat
  BY WorkerAssumption DEF backoffFor

(* Each statement of the store keeps the tables well typed, and only       *)
(* CreateJob adds a row.                                                   *)
LEMMA StoreStatements ==
  ASSUME StoreTypeOK, NEW id \in Ids
  PROVE  /\ \A row \in Row : CreateJob(id, row) =>
               StoreTypeOK' /\ DOMAIN jobs' = DOMAIN jobs \cup {id}
         /\ ClaimJob(id) => StoreTypeOK' /\ DOMAIN jobs' = DOMAIN jobs
         /\ id \in DOMAIN jobs /\ MarkCompleted(id) =>
               StoreTypeOK' /\ DOMAIN jobs' = DOMAIN jobs
         /\ \A a \in Nat : id \in DOMAIN jobs /\ MarkForRetry(id, a) =>
               StoreTypeOK' /\ DOMAIN jobs' = DOMAIN jobs
         /\ \A a \in Nat : id \in DOMAIN jobs /\ DeadLetter(id, a) =>
               StoreTypeOK' /\ DOMAIN jobs' = DOMAIN jobs
         /\ \A t \in Tenants : RetryJob(t, id) =>
               StoreTypeOK' /\ DOMAIN jobs' = DOMAIN jobs
         /\ \A t \in Tenants : CancelJob(t, id) =>
               StoreTypeOK' /\ DOMAIN jobs' = DOMAIN jobs
  <1>. USE DEF StoreTypeOK
  <1>1. ASSUME NEW row \in Row, CreateJob(id, row)
        PROVE  StoreTypeOK' /\ DOMAIN jobs' = DOMAIN jobs \cup {id}
    BY <1>1 DEF CreateJob
  <1>2. ASSUME ClaimJob(id)
        PROVE  StoreTypeOK' /\ DOMAIN jobs' = DOMAIN jobs
    BY <1>2 DEF ClaimJob, Row, HasStatus
  <1>3. ASSUME id \in DOMAIN jobs, MarkCompleted(id)
        PROVE  StoreTypeOK' /\ DOMAIN jobs' = DOMAIN jobs
    BY <1>3 DEF MarkCompleted, Row
  <1>4. ASSUME NEW a \in Nat, id \in DOMAIN jobs, MarkForRetry(id, a)
        PROVE  StoreTypeOK' /\ DOMAIN jobs' = DOMAIN jobs
    BY <1>4 DEF MarkForRetry, Row
  <1>5. ASSUME NEW a \in Nat, id \in DOMAIN jobs, DeadLetter(id, a)
        PROVE  StoreTypeOK' /\ DOMAIN jobs' = DOMAIN jobs
    BY <1>5 DEF DeadLetter, Row, DeadLetterRow
  <1>6. ASSUME NEW t \in Tenants, RetryJob(t, id)
        PROVE  StoreTypeOK' /\ DOMAIN jobs' = DOMAIN jobs
    BY <1>6 DEF RetryJob, Reset, Row, HasStatus
  <1>7. ASSUME NEW t \in Tenants, CancelJob(t, id)
        PROVE  StoreTypeOK' /\ DOMAIN jobs' = DOMAIN jobs
    BY <1>7 DEF CancelJob, Row, HasStatus
  <1>. QED  BY <1>1, <1>2, <1>3, <1>4, <1>5, <1>6, <1>7

(* Each Redis command keeps the lists and sorted sets well typed.          *)
LEMMA QueueCommands ==
  ASSUME QueueTypeOK, NEW q \in QueueNames
  PROVE  /\ Pop(q) => QueueTypeOK' /\ Head(work[q]) \in Ids
         /\ PromoteDue(q) => QueueTypeOK'
         /\ \A id \in Ids :
              /\ Enqueue(q, id) => QueueTypeOK'
              /\ \A n \in Nat : EnqueueDelayed(q, id, n) => QueueTypeOK'
              /\ RemoveFromList(q, id) => QueueTypeOK'
              /\ RemoveFromDelayed(q, id) => QueueTypeOK'
  <1>. USE DEF QueueTypeOK
  <1>1. ASSUME NEW id \in Ids, Enqueue(q, id) PROVE QueueTypeOK'
    BY <1>1 DEF Enqueue
  <1>2. ASSUME Pop(q) PROVE QueueTypeOK' /\ Head(work[q]) \in Ids
    BY <1>2 DEF Pop
  <1>3. ASSUME NEW id \in Ids, NEW n \in Nat, EnqueueDelayed(q, id, n)
        PROVE  QueueTypeOK'
    BY <1>3 DEF EnqueueDelayed
  <1>4. ASSUME PromoteDue(q) PROVE QueueTypeOK'
    <2>1. PICK k \in 1..PromoteBatch : \E f \in [1..k -> Due(q)] :
             /\ work' = [work EXCEPT ![q] = @ \o f]
             /\ delayed' = [delayed EXCEPT ![q] =
                   [j \in {i \in DOMAIN @ : \A m \in 1..k : f[m] # i} |-> @[j]]]
      BY ZenonT(30), <1>4, PromoteBatchAssumption DEF PromoteDue
    <2>2. PICK f \in [1..k -> Due(q)] :
             /\ work' = [work EXCEPT ![q] = @ \o f]
             /\ delayed' = [delayed EXCEPT ![q] =
                   [j \in {i \in DOMAIN @ : \A m \in 1..k : f[m] # i} |-> @[j]]]
      BY ZenonT(30), <2>1
    <2>3. Due(q) \subseteq Ids
      BY DEF Due
    <2>4. f \in Seq(Ids)
      BY <2>3, PromoteBatchAssumption
    <2>5. work' \in [QueueNames -> Seq(Ids)]
      BY <2>2, <2>4
    <2>6. /\ DOMAIN delayed' = QueueNames
          /\ \A p \in QueueNames :
                /\ DOMAIN delayed'[p] \subseteq Ids
                /\ delayed'[p] \in [DOMAIN delayed'[p] -> Nat]
      BY <2>2
    <2>. QED  BY <2>5, <2>6
  <1>5. ASSUME NEW id \in Ids, RemoveFromList(q, id) PROVE QueueTypeOK'
    <2>1. PICK k \in 0..Len(work[q]) : \E f \in [1..k -> Kept(work[q], id)] :
             work' = [work EXCEPT ![q] = [i \in 1..k |-> work[q][f[i]]]]
      BY ZenonT(30), <1>5 DEF RemoveFromList
    <2>2. PICK f \in [1..k -> Kept(work[q], id)] :
             work' = [work EXCEPT ![q] = [i \in 1..k |-> work[q][f[i]]]]
      BY ZenonT(30), <2>1
    <2>3. \A i \in 1..k : work[q][f[i]] \in Ids
      BY DEF Kept
    <2>4. [i \in 1..k |-> work[q][f[i]]] \in Seq(Ids)
      BY <2>3
    <2>. QED  BY ZenonT(30), <1>5, <2>2, <2>4 DEF RemoveFromList
  <1>6. ASSUME NEW id \in Ids, RemoveFromDelayed(q, id) PROVE QueueTypeOK'
    BY <1>6 DEF RemoveFromDelayed
  <1>. QED  BY <1>1, <1>2, <1>3, <1>4, <1>5, <1>6

-----------------------------------------------------------------------------
(* Types: every action preserves TypeOK.                                  *)
(* What a worker's record may become.                                      *)
LEMMA WorkerFields ==
  ASSUME NEW s \in WorkerState
  PROVE  /\ \A id \in Ids : [s EXCEPT !.pc = "popped", !.id = id] \in WorkerState
         /\ \A n \in Nat : \A m \in Int :
               [s EXCEPT !.pc = "running", !.retry_count = n, !.max_retries = m] \in WorkerState
         /\ \A n \in Nat : [s EXCEPT !.pc = "parking", !.delay = n] \in WorkerState
         /\ \A n \in Nat : [s EXCEPT !.delay = n] \in WorkerState
         /\ Idle \in WorkerState
  <1>1. \A id \in Ids : [s EXCEPT !.pc = "popped", !.id = id] \in WorkerState
    BY ZenonT(30) DEF WorkerState
  <1>2. \A n \in Nat : \A m \in Int :
          [s EXCEPT !.pc = "running", !.retry_count = n, !.max_retries = m] \in WorkerState
    BY ZenonT(30) DEF WorkerState
  <1>3. \A n \in Nat : [s EXCEPT !.pc = "parking", !.delay = n] \in WorkerState
    BY ZenonT(30) DEF WorkerState
  <1>4. \A n \in Nat : [s EXCEPT !.delay = n] \in WorkerState
    BY ZenonT(30) DEF WorkerState
  <1>5. Idle \in WorkerState
    BY DEF WorkerState
  <1>. QED  BY ZenonT(30), <1>1, <1>2, <1>3, <1>4, <1>5

(* A worker's step keeps the types if its new record is well typed and     *)
(* holds an id fit for where it is.                                        *)
LEMMA WorkerMoves ==
  ASSUME TypeOK, rq' = rq, StoreTypeOK', QueueTypeOK', FaultTypeOK', DOMAIN jobs' = DOMAIN jobs,
         NEW w \in Workers, NEW s \in WorkerState, wk' = [wk EXCEPT ![w] = s],
         s.pc = "popped" => s.id \in Ids,
         s.pc \in {"running", "parking"} => s.id \in DOMAIN jobs
  PROVE  TypeOK'
  <1>1. WorkerTypeOK'
    BY DEF TypeOK, WorkerTypeOK
  <1>2. \A v \in Workers : wk'[v] = IF v = w THEN s ELSE wk[v]
    BY DEF TypeOK, WorkerTypeOK
  <1>3. HoldsRow'
    BY <1>2 DEF TypeOK, HoldsRow
  <1>. QED  BY <1>1, <1>3 DEF TypeOK, ApiTypeOK

LEMMA WorkerTypes ==
  ASSUME TypeOK, NEW w \in Workers, WorkerNext(w)
  PROVE  TypeOK'
  <1>. DEFINE held == wk[w].id
  <1>0. UNCHANGED rq
    BY DEF WorkerNext
  <1>t. StoreTypeOK /\ QueueTypeOK /\ FaultTypeOK /\ HoldsRow
    BY DEF TypeOK
  <1>w. wk[w] \in WorkerState
    BY DEF TypeOK, WorkerTypeOK
  <1>n. wk[w].retry_count \in Nat /\ wk[w].delay \in Nat /\ attempts(w) \in Nat
    BY <1>w DEF attempts, WorkerState
  <1>s. UNCHANGED storeVars => StoreTypeOK' /\ DOMAIN jobs' = DOMAIN jobs
    BY <1>t DEF storeVars, StoreTypeOK
  <1>q. UNCHANGED queueVars => QueueTypeOK'
    BY <1>t DEF queueVars, QueueTypeOK
  <1>f. /\ UNCHANGED faultVars => FaultTypeOK'
        /\ Resend \/ Crash => FaultTypeOK'
    BY <1>t, FaultBoundsAssumption DEF faultVars, FaultTypeOK, Resend, Crash
  <1>i. Idle \in WorkerState /\ Idle.pc = "idle"
    BY ZenonT(30), <1>w, WorkerFields
  <1>1. CASE Dequeue(w)
    <2>1. PICK i \in DOMAIN Watched :
             /\ Pop(Watched[i])
             /\ wk' = [wk EXCEPT ![w].pc = "popped", ![w].id = Head(work[Watched[i]])]
      BY ZenonT(30), <1>1 DEF Dequeue
    <2>2. Watched[i] \in QueueNames
      BY WorkerAssumption
    <2>. DEFINE id == Head(work[Watched[i]])
    <2>. DEFINE rec == [wk[w] EXCEPT !.pc = "popped", !.id = id]
    <2>3. QueueTypeOK' /\ id \in Ids
      BY <1>t, <2>1, <2>2, QueueCommands
    <2>4. wk' = [wk EXCEPT ![w] = rec]
      BY ZenonT(30), <2>1
    <2>5. rec \in WorkerState
      BY ZenonT(30), <1>w, <2>3, WorkerFields
    <2>6. rec.pc = "popped" /\ rec.id = id
      BY <1>w DEF WorkerState
    <2>. HIDE DEF rec, id
    <2>. QED  BY ZenonT(30), <1>0, <1>1, <1>s, <1>f, <2>3, <2>4, <2>5, <2>6, WorkerMoves DEF Dequeue
  <1>2. CASE Claim(w)
    <2>1. held \in Ids
      BY <1>2, <1>t DEF Claim, HoldsRow
    <2>2. StoreTypeOK' /\ DOMAIN jobs' = DOMAIN jobs
      BY ZenonT(30), <1>2, <1>t, <2>1, StoreStatements DEF Claim
    <2>3. held \in DOMAIN jobs /\ jobs[held] \in Row
      BY <1>2, <1>t DEF Claim, ClaimJob, HasStatus, StoreTypeOK
    <2>4. jobs[held].retry_count \in Nat /\ jobs[held].max_retries \in Int
      BY ZenonT(30), <2>3, BudgetsAssumption DEF Row
    <2>. DEFINE rec == [wk[w] EXCEPT !.pc = "running",
                          !.retry_count = jobs[held].retry_count,
                          !.max_retries = jobs[held].max_retries]
    <2>5. wk' = [wk EXCEPT ![w] = rec]
      BY ZenonT(30), <1>2 DEF Claim
    <2>6. rec \in WorkerState
      BY ZenonT(30), <1>w, <2>4, WorkerFields
    <2>7. rec.pc = "running" /\ rec.id = held
      BY <1>w DEF WorkerState
    <2>. HIDE DEF rec
    <2>. QED  BY ZenonT(30), <1>0, <1>2, <1>q, <1>f, <2>2, <2>3, <2>5, <2>6, <2>7, WorkerMoves DEF Claim
  <1>3. CASE Skip(w)
    <2>. HIDE DEF Idle
    <2>. QED  BY ZenonT(30), <1>0, <1>3, <1>i, <1>s, <1>q, <1>f, WorkerMoves DEF Skip
  <1>h. ASSUME wk[w].pc \in {"running", "parking"}
        PROVE  held \in DOMAIN jobs /\ held \in Ids /\ jobs[held].queue_name \in QueueNames
    BY <1>h, <1>t DEF HoldsRow, StoreTypeOK, Row
  <1>4. CASE Complete(w)
    <2>1. StoreTypeOK' /\ DOMAIN jobs' = DOMAIN jobs
      BY ZenonT(30), <1>4, <1>h, <1>t, StoreStatements DEF Complete
    <2>. HIDE DEF Idle
    <2>. QED  BY ZenonT(30), <1>0, <1>4, <1>i, <1>q, <1>f, <2>1, WorkerMoves DEF Complete
  <1>5. CASE ScheduleRetry(w)
    <2>1. StoreTypeOK' /\ DOMAIN jobs' = DOMAIN jobs
      BY ZenonT(30), <1>5, <1>h, <1>t, <1>n, StoreStatements DEF ScheduleRetry
    <2>. DEFINE rec == [wk[w] EXCEPT !.pc = "parking", !.delay = backoffFor(attempts(w))]
    <2>2. wk' = [wk EXCEPT ![w] = rec]
      BY ZenonT(30), <1>5 DEF ScheduleRetry
    <2>3. rec \in WorkerState
      BY ZenonT(30), <1>w, <1>n, BackoffNat, WorkerFields
    <2>4. rec.pc = "parking" /\ rec.id = held
      BY <1>w DEF WorkerState
    <2>. HIDE DEF rec
    <2>. QED
      BY ZenonT(30), <1>0, <1>5, <1>h, <1>q, <1>f, <2>1, <2>2, <2>3, <2>4, WorkerMoves DEF ScheduleRetry
  <1>6. CASE GiveUp(w)
    <2>1. StoreTypeOK' /\ DOMAIN jobs' = DOMAIN jobs
      BY ZenonT(30), <1>6, <1>h, <1>t, <1>n, StoreStatements DEF GiveUp
    <2>. HIDE DEF Idle
    <2>. QED  BY ZenonT(30), <1>0, <1>6, <1>i, <1>q, <1>f, <2>1, WorkerMoves DEF GiveUp
  <1>7. CASE Park(w) \/ ParkResend(w)
    <2>1. QueueTypeOK'
      BY <1>7, <1>h, <1>t, <1>n, QueueCommands DEF Park, ParkResend
    <2>2. wk' = [wk EXCEPT ![w] = Idle] \/ wk' = wk
      BY <1>7 DEF Park, ParkResend
    <2>3. StoreTypeOK' /\ FaultTypeOK' /\ DOMAIN jobs' = DOMAIN jobs
      BY <1>7, <1>s, <1>f DEF Park, ParkResend
    <2>4. CASE wk' = wk
      BY <1>0, <2>1, <2>3, <2>4 DEF TypeOK, WorkerTypeOK, ApiTypeOK, HoldsRow
    <2>. HIDE DEF Idle
    <2>. QED  BY ZenonT(30), <1>0, <1>i, <2>1, <2>2, <2>3, <2>4, WorkerMoves
  <1>8. CASE WorkerCrash(w)
    <2>. HIDE DEF Idle
    <2>. QED  BY ZenonT(30), <1>0, <1>8, <1>i, <1>s, <1>q, <1>f, WorkerMoves DEF WorkerCrash
  <1>. QED
    BY <1>1, <1>2, <1>3, <1>4, <1>5, <1>6, <1>7, <1>8 DEF WorkerNext, WorkerStep

LEMMA RequestTypes ==
  ASSUME TypeOK, NEW r \in Requests, RequestNext(r)
  PROVE  TypeOK'
  <1>. USE DEF TypeOK, HoldsRow, WorkerTypeOK, ApiTypeOK, RequestState
  <1>. DEFINE held == rq[r].id
  <1>0. UNCHANGED wk
    BY DEF RequestNext
  <1>1. ASSUME NEW id \in Ids, NEW t \in Tenants, NEW q \in QueueNames,
               NEW b \in Budgets, Submit(r, id, t, q, b)
        PROVE  TypeOK'
    <2>1. NewRow(t, q, b) \in Row
      BY DEF NewRow, Row
    <2>2. StoreTypeOK' /\ DOMAIN jobs' = DOMAIN jobs \cup {id}
      BY ZenonT(30), <1>1, <2>1, StoreStatements DEF Submit
    <2>. QED
      BY <1>0, <1>1, <2>2 DEF Submit, queueVars, faultVars, QueueTypeOK, FaultTypeOK
  <1>2. ASSUME NEW id \in Ids, NEW t \in Tenants,
               retryJob(r, id, t) \/ cancelJob(r, id, t)
        PROVE  TypeOK'
    <2>1. StoreTypeOK' /\ DOMAIN jobs' = DOMAIN jobs
      BY ZenonT(30), <1>2, StoreStatements DEF retryJob, cancelJob
    <2>2. id \in DOMAIN jobs
      BY <1>2 DEF retryJob, RetryJob, cancelJob, CancelJob, HasStatus
    <2>3. ApiTypeOK'
      BY <1>2 DEF retryJob, cancelJob
    <2>4. HoldsRow'
      BY <1>0, <1>2, <2>1, <2>2, <2>3 DEF retryJob, cancelJob
    <2>. QED
      BY <1>0, <1>2, <2>1, <2>3, <2>4
      DEF retryJob, cancelJob, queueVars, faultVars, QueueTypeOK, FaultTypeOK
  <1>3. ASSUME rq[r].pc # "idle"
        PROVE  queueOf(r) \in QueueNames /\ held \in Ids
    BY <1>3 DEF queueOf, StoreTypeOK, Row
  <1>4. CASE Push(r) \/ PushResend(r)
    <2>1. QueueTypeOK'
      BY <1>3, <1>4, QueueCommands DEF Push, PushResend
    <2>. QED
      BY <1>0, <1>4, <2>1, FaultBoundsAssumption
      DEF Push, PushResend, Resend, storeVars, faultVars, StoreTypeOK, FaultTypeOK
  <1>5. CASE RemoveLrem(r) \/ RemoveZrem(r)
    <2>1. QueueTypeOK'
      BY <1>3, <1>5, QueueCommands DEF RemoveLrem, RemoveZrem
    <2>. QED
      BY <1>0, <1>5, <2>1
      DEF RemoveLrem, RemoveZrem, storeVars, faultVars, StoreTypeOK, FaultTypeOK
  <1>6. CASE RequestAbort(r)
    BY <1>0, <1>6, FaultBoundsAssumption
    DEF RequestAbort, Abort, storeVars, queueVars, StoreTypeOK, QueueTypeOK, FaultTypeOK
  <1>. QED
    BY <1>1, <1>2, <1>4, <1>5, <1>6 DEF RequestNext, RequestBegin, RequestStep

LEMMA PollTypes ==
  ASSUME TypeOK, NEW i \in DOMAIN Watched, Poll(i)
  PROVE  TypeOK'
  <1>. USE DEF TypeOK
  <1>1. Watched[i] \in QueueNames
    BY WorkerAssumption
  <1>2. QueueTypeOK'
    BY <1>1, QueueCommands DEF Poll
  <1>. QED
    BY <1>2 DEF Poll, HoldsRow, WorkerTypeOK, ApiTypeOK, StoreTypeOK, FaultTypeOK,
                storeVars, faultVars

LEMMA TickTypes ==
  ASSUME TypeOK, Tick
  PROVE  TypeOK'
  <1>. USE DEF TypeOK
  <1>1. \A n \in Nat : Elapse(n) \in Nat
    BY DEF Elapse
  <1>2. QueueTypeOK'
    BY <1>1 DEF Tick, QueueTypeOK
  <1>3. WorkerTypeOK' /\ \A w \in Workers : wk'[w].pc = wk[w].pc /\ wk'[w].id = wk[w].id
    <2>. SUFFICES ASSUME NEW w \in Workers
                  PROVE  wk'[w] \in WorkerState /\ wk'[w].pc = wk[w].pc /\ wk'[w].id = wk[w].id
      BY DEF Tick, WorkerTypeOK
    <2>1. wk[w] \in WorkerState /\ wk'[w] = [wk[w] EXCEPT !.delay = Elapse(@)]
      BY DEF Tick, WorkerTypeOK
    <2>2. Elapse(wk[w].delay) \in Nat
      BY <1>1, <2>1 DEF WorkerState
    <2>3. wk'[w] \in WorkerState
      BY ZenonT(30), <2>1, <2>2, WorkerFields
    <2>4. wk'[w].pc = wk[w].pc /\ wk'[w].id = wk[w].id
      BY <2>1 DEF WorkerState
    <2>. QED  BY <2>3, <2>4
  <1>. QED
    BY <1>2, <1>3 DEF Tick, HoldsRow, ApiTypeOK, StoreTypeOK, FaultTypeOK,
                      storeVars, faultVars

LEMMA InitTypes == Init => TypeOK
  BY FaultBoundsAssumption
  DEF Init, StoreInit, QueueInit, WorkerInit, ApiInit, FaultInit, TypeOK,
      HoldsRow, StoreTypeOK, QueueTypeOK, WorkerTypeOK, WorkerState, ApiTypeOK,
      RequestState, FaultTypeOK

LEMMA StutterTypes == TypeOK /\ UNCHANGED vars => TypeOK'
  BY DEF vars, TypeOK, HoldsRow, StoreTypeOK, QueueTypeOK, WorkerTypeOK,
         ApiTypeOK, FaultTypeOK

LEMMA NextTypes == TypeOK /\ [Next]_vars => TypeOK'
  BY WorkerTypes, RequestTypes, PollTypes, TickTypes, StutterTypes DEF Next

(* The types of the tables, the queues and the processes are right in      *)
(* every reachable state: in particular every call a worker or a request   *)
(* makes about the job it holds (queueOf, MarkCompleted, MarkForRetry,     *)
(* DeadLetter, EnqueueDelayed) finds that job's row.                       *)
THEOREM TypeCorrect == Spec => []TypeOK
  BY InitTypes, NextTypes, PTL DEF Spec

-----------------------------------------------------------------------------
(* Exclusive runs.  No strengthening beyond the types is needed: a claim   *)
(* takes a pending row, and by ExclusiveRun nobody runs a pending job.     *)
LEMMA WorkerExclusive ==
  ASSUME TypeOK, ExclusiveRun, NEW w \in Workers, WorkerNext(w)
  PROVE  ExclusiveRun'
  <1>. USE DEF TypeOK, ExclusiveRun, Runs, HasStatus, HoldsRow,
               WorkerTypeOK, WorkerState
  <1>1. CASE Dequeue(w)
    BY <1>1 DEF Dequeue, storeVars
  <1>2. CASE Claim(w)
    BY <1>2 DEF Claim, ClaimJob, StoreTypeOK, Row
  <1>3. CASE Skip(w)
    BY <1>3 DEF Skip, storeVars
  <1>4. CASE Complete(w)
    BY <1>4 DEF Complete, MarkCompleted, StoreTypeOK, Row
  <1>5. CASE ScheduleRetry(w)
    BY <1>5 DEF ScheduleRetry, MarkForRetry, StoreTypeOK, Row
  <1>6. CASE GiveUp(w)
    BY <1>6 DEF GiveUp, DeadLetter, StoreTypeOK, Row
  <1>7. CASE Park(w) \/ ParkResend(w)
    BY <1>7 DEF Park, ParkResend, storeVars
  <1>8. CASE WorkerCrash(w)
    BY <1>8 DEF WorkerCrash, storeVars
  <1>. QED
    BY <1>1, <1>2, <1>3, <1>4, <1>5, <1>6, <1>7, <1>8 DEF WorkerNext, WorkerStep

LEMMA RequestExclusive ==
  ASSUME TypeOK, ExclusiveRun, NEW r \in Requests, RequestNext(r)
  PROVE  ExclusiveRun'
  <1>. USE DEF TypeOK, ExclusiveRun, Runs, HasStatus
  <1>0. UNCHANGED wk
    BY DEF RequestNext
  <1>1. ASSUME NEW id \in Ids, NEW t \in Tenants, NEW q \in QueueNames,
               NEW b \in Budgets, Submit(r, id, t, q, b)
        PROVE  ExclusiveRun'
    BY <1>0, <1>1 DEF Submit, CreateJob
  <1>2. ASSUME NEW id \in Ids, NEW t \in Tenants,
               retryJob(r, id, t) \/ cancelJob(r, id, t)
        PROVE  ExclusiveRun'
    <2>1. \A w \in Workers : ~Runs(w, id)
      BY <1>2 DEF retryJob, RetryJob, cancelJob, CancelJob
    <2>2. DOMAIN jobs' = DOMAIN jobs /\ \A j \in DOMAIN jobs \ {id} : jobs'[j] = jobs[j]
      BY <1>2 DEF retryJob, RetryJob, Reset, cancelJob, CancelJob, StoreTypeOK
    <2>. QED  BY <1>0, <2>1, <2>2
  <1>3. CASE UNCHANGED storeVars
    BY <1>0, <1>3 DEF storeVars
  <1>. QED
    BY <1>1, <1>2, <1>3
    DEF RequestNext, RequestBegin, RequestStep, Push, PushResend, RemoveLrem,
        RemoveZrem, RequestAbort

LEMMA TickExclusive ==
  ASSUME TypeOK, ExclusiveRun, Tick
  PROVE  ExclusiveRun'
  BY DEF Tick, TypeOK, WorkerTypeOK, WorkerState, storeVars,
         ExclusiveRun, Runs, HasStatus

LEMMA NextExclusive ==
  TypeOK /\ ExclusiveRun /\ [Next]_vars => ExclusiveRun'
  <1>1. ASSUME ExclusiveRun, UNCHANGED <<jobs, wk>> PROVE ExclusiveRun'
    BY <1>1 DEF ExclusiveRun, Runs, HasStatus
  <1>. QED
    BY <1>1, WorkerExclusive, RequestExclusive, TickExclusive
    DEF Next, Poll, storeVars, vars

(* At most one worker runs a job at a time, its row is processing exactly  *)
(* on its account and its copy of the counters is current, for any number  *)
(* of workers, duplicated ids, crashes and concurrent requests (ClaimJob's *)
(* WHERE status = 'pending').                                              *)
THEOREM RunsAreExclusive == Spec => []ExclusiveRun
  <1>1. Init => ExclusiveRun
    BY DEF Init, WorkerInit, ExclusiveRun, Runs
  <1>2. Spec => [](TypeOK /\ ExclusiveRun)
    BY <1>1, InitTypes, NextTypes, NextExclusive, PTL DEF Spec
  <1>. QED  BY <1>2, PTL

-----------------------------------------------------------------------------
(* What exclusive runs buy: the statements that name only an id are only   *)
(* ever applied to processing rows, so the tables keep their invariants    *)
(* and every row follows the life cycle of JobLifecycle.                   *)

(* The statements as the processes really use them: the last write of an   *)
(* attempt meets a processing row and carries that row's own count.        *)
Statement(id) ==
    \/ \E t \in Tenants, q \in QueueNames, b \in Budgets :
          CreateJob(id, NewRow(t, q, b))
    \/ ClaimJob(id)
    \/ HasStatus(id, "processing") /\ MarkCompleted(id)
    \/ /\ HasStatus(id, "processing")
       /\ jobs[id].retry_count + 1 < jobs[id].max_retries
       /\ MarkForRetry(id, jobs[id].retry_count + 1)
    \/ /\ HasStatus(id, "processing")
       /\ ~(jobs[id].retry_count + 1 < jobs[id].max_retries)
       /\ DeadLetter(id, jobs[id].retry_count + 1)
    \/ \E t \in Tenants : RetryJob(t, id) \/ CancelJob(t, id)

StoreNext == \E id \in Ids : Statement(id)

LEMMA StoreSteps ==
  ASSUME TypeOK, ExclusiveRun, [Next]_vars
  PROVE  StoreNext \/ UNCHANGED storeVars
  <1>1. ASSUME NEW w \in Workers, WorkerNext(w)
        PROVE  StoreNext \/ UNCHANGED storeVars
    <2>. DEFINE held == wk[w].id
    <2>1. ASSUME wk[w].pc = "running"
          PROVE  /\ held \in Ids /\ HasStatus(held, "processing")
                 /\ attempts(w) = jobs[held].retry_count + 1
                 /\ wk[w].max_retries = jobs[held].max_retries
                 /\ jobs[held].retry_count \in Nat /\ jobs[held].max_retries \in Int
      BY <2>1, BudgetsAssumption
      DEF TypeOK, HoldsRow, StoreTypeOK, Row, ExclusiveRun, Runs, HasStatus,
          attempts
    <2>2. CASE Claim(w)
      BY <2>2 DEF Claim, TypeOK, HoldsRow, StoreNext, Statement
    <2>3. CASE Complete(w)
      BY <2>1, <2>3 DEF Complete, StoreNext, Statement
    <2>4. CASE ScheduleRetry(w)
      BY <2>1, <2>4 DEF ScheduleRetry, StoreNext, Statement
    <2>5. CASE GiveUp(w)
      BY <2>1, <2>5 DEF GiveUp, StoreNext, Statement
    <2>. QED
      BY <1>1, <2>2, <2>3, <2>4, <2>5
      DEF WorkerNext, WorkerStep, Dequeue, Skip, Park, ParkResend, WorkerCrash
  <1>2. ASSUME NEW r \in Requests, RequestNext(r)
        PROVE  StoreNext \/ UNCHANGED storeVars
    <2>1. CASE RequestBegin(r)
      BY <2>1 DEF RequestBegin, Submit, retryJob, cancelJob, StoreNext, Statement
    <2>. QED
      BY <1>2, <2>1
      DEF RequestNext, RequestStep, Push, PushResend, RemoveLrem, RemoveZrem, RequestAbort
  <1>. QED
    BY <1>1, <1>2 DEF Next, Poll, Tick, vars, storeVars

-----------------------------------------------------------------------------
(* The retry budget, the nullable columns and the dead-letter rows depend  *)
(* on the two tables only, so each statement is checked once.              *)
LEMMA RetryBudgetStep ==
  ASSUME StoreTypeOK, RetryBudget, StoreNext
  PROVE  RetryBudget'
  <1>. USE BudgetsAssumption DEF StoreTypeOK, Row, HasStatus, RetryBudget
  <1>. PICK id \in Ids : Statement(id)
    BY DEF StoreNext
  <1>1. ASSUME NEW t \in Tenants, NEW q \in QueueNames, NEW b \in Budgets,
               CreateJob(id, NewRow(t, q, b))
        PROVE  RetryBudget'
    BY <1>1 DEF CreateJob, NewRow
  <1>2. CASE ClaimJob(id)
    BY <1>2 DEF ClaimJob
  <1>3. CASE HasStatus(id, "processing") /\ MarkCompleted(id)
    BY <1>3 DEF MarkCompleted
  <1>4. CASE /\ HasStatus(id, "processing")
             /\ jobs[id].retry_count + 1 < jobs[id].max_retries
             /\ MarkForRetry(id, jobs[id].retry_count + 1)
    BY <1>4 DEF MarkForRetry
  <1>5. CASE /\ HasStatus(id, "processing")
             /\ ~(jobs[id].retry_count + 1 < jobs[id].max_retries)
             /\ DeadLetter(id, jobs[id].retry_count + 1)
    BY <1>5 DEF DeadLetter
  <1>6. ASSUME NEW t \in Tenants, RetryJob(t, id)
        PROVE  RetryBudget'
    BY <1>6 DEF RetryJob, Reset
  <1>7. ASSUME NEW t \in Tenants, CancelJob(t, id)
        PROVE  RetryBudget'
    BY <1>7 DEF CancelJob
  <1>. QED  BY <1>1, <1>2, <1>3, <1>4, <1>5, <1>6, <1>7 DEF Statement

LEMMA ColumnsAgreeStep ==
  ASSUME StoreTypeOK, ColumnsAgree, StoreNext
  PROVE  ColumnsAgree'
  <1>. USE BudgetsAssumption DEF StoreTypeOK, Row, HasStatus, ColumnsAgree, RowAgrees
  <1>. PICK id \in Ids : Statement(id)
    BY DEF StoreNext
  <1>1. ASSUME NEW t \in Tenants, NEW q \in QueueNames, NEW b \in Budgets,
               CreateJob(id, NewRow(t, q, b))
        PROVE  ColumnsAgree'
    BY <1>1 DEF CreateJob, NewRow
  <1>2. CASE ClaimJob(id)
    BY <1>2 DEF ClaimJob
  <1>3. CASE HasStatus(id, "processing") /\ MarkCompleted(id)
    BY <1>3 DEF MarkCompleted
  <1>4. CASE /\ HasStatus(id, "processing")
             /\ jobs[id].retry_count + 1 < jobs[id].max_retries
             /\ MarkForRetry(id, jobs[id].retry_count + 1)
    BY <1>4 DEF MarkForRetry
  <1>5. CASE /\ HasStatus(id, "processing")
             /\ ~(jobs[id].retry_count + 1 < jobs[id].max_retries)
             /\ DeadLetter(id, jobs[id].retry_count + 1)
    BY <1>5 DEF DeadLetter
  <1>6. ASSUME NEW t \in Tenants, RetryJob(t, id)
        PROVE  ColumnsAgree'
    BY <1>6 DEF RetryJob, Reset
  <1>7. ASSUME NEW t \in Tenants, CancelJob(t, id)
        PROVE  ColumnsAgree'
    BY <1>7 DEF CancelJob
  <1>. QED  BY <1>1, <1>2, <1>3, <1>4, <1>5, <1>6, <1>7 DEF Statement

LEMMA DeadLetterMatchesFailedStep ==
  ASSUME StoreTypeOK, DeadLetterMatchesFailed, StoreNext
  PROVE  DeadLetterMatchesFailed'
  <1>. USE BudgetsAssumption DEF StoreTypeOK, Row, DeadLetterRow, HasStatus, DeadLetterMatchesFailed
  <1>. PICK id \in Ids : Statement(id)
    BY DEF StoreNext
  <1>1. ASSUME NEW t \in Tenants, NEW q \in QueueNames, NEW b \in Budgets,
               CreateJob(id, NewRow(t, q, b))
        PROVE  DeadLetterMatchesFailed'
    BY <1>1 DEF CreateJob, NewRow
  <1>2. CASE ClaimJob(id)
    BY <1>2 DEF ClaimJob
  <1>3. CASE HasStatus(id, "processing") /\ MarkCompleted(id)
    BY <1>3 DEF MarkCompleted
  <1>4. CASE /\ HasStatus(id, "processing")
             /\ jobs[id].retry_count + 1 < jobs[id].max_retries
             /\ MarkForRetry(id, jobs[id].retry_count + 1)
    BY <1>4 DEF MarkForRetry
  <1>5. CASE /\ HasStatus(id, "processing")
             /\ ~(jobs[id].retry_count + 1 < jobs[id].max_retries)
             /\ DeadLetter(id, jobs[id].retry_count + 1)
    BY <1>5 DEF DeadLetter
  <1>6. ASSUME NEW t \in Tenants, RetryJob(t, id)
        PROVE  DeadLetterMatchesFailed'
    BY <1>6 DEF RetryJob, Reset
  <1>7. ASSUME NEW t \in Tenants, CancelJob(t, id)
        PROVE  DeadLetterMatchesFailed'
    BY <1>7 DEF CancelJob
  <1>. QED  BY <1>1, <1>2, <1>3, <1>4, <1>5, <1>6, <1>7 DEF Statement

LEMMA TablesInit == Init => RetryBudget /\ ColumnsAgree /\ DeadLetterMatchesFailed
  BY DEF Init, StoreInit, RetryBudget, ColumnsAgree, DeadLetterMatchesFailed

LEMMA TablesStutter ==
  ASSUME UNCHANGED storeVars
  PROVE  /\ RetryBudget => RetryBudget'
         /\ ColumnsAgree => ColumnsAgree'
         /\ DeadLetterMatchesFailed => DeadLetterMatchesFailed'
  BY DEF storeVars, RetryBudget, ColumnsAgree, DeadLetterMatchesFailed, HasStatus

LEMMA Reachable == Spec => [](TypeOK /\ ExclusiveRun)
  BY TypeCorrect, RunsAreExclusive, PTL

(* A job is dead-lettered on exactly its max_retries-th failed attempt,    *)
(* whatever workers, requests and faults do (handleFailure's comparison,   *)
(* MarkForRetry, DeadLetter and RetryJob).                                 *)
THEOREM BudgetIsExact == Spec => []RetryBudget
  <1>1. TypeOK /\ ExclusiveRun /\ RetryBudget /\ [Next]_vars => RetryBudget'
    BY StoreSteps, RetryBudgetStep, TablesStutter DEF TypeOK
  <1>. QED  BY <1>1, TablesInit, Reachable, PTL DEF Spec

(* Result, error and time stamps are never left over from an earlier       *)
(* attempt or a life before a reset, nor missing (the column lists of the  *)
(* UPDATE statements).                                                     *)
THEOREM ColumnsAreTruthful == Spec => []ColumnsAgree
  <1>1. TypeOK /\ ExclusiveRun /\ ColumnsAgree /\ [Next]_vars => ColumnsAgree'
    BY StoreSteps, ColumnsAgreeStep, TablesStutter DEF TypeOK
  <1>. QED  BY <1>1, TablesInit, Reachable, PTL DEF Spec

LEMMA NextDeadLetters ==
  TypeOK /\ ExclusiveRun /\ DeadLetterMatchesFailed /\ [Next]_vars => DeadLetterMatchesFailed'
  BY StoreSteps, DeadLetterMatchesFailedStep, TablesStutter DEF TypeOK

(* The dead_letter_queue and the failed jobs never diverge (the            *)
(* transactions of DeadLetter and RetryJob).                               *)
THEOREM DeadLettersNeverDiverge == Spec => []DeadLetterMatchesFailed
  BY NextDeadLetters, TablesInit, Reachable, PTL DEF Spec

-----------------------------------------------------------------------------
LEMMA CancelledStays ==
  ASSUME StoreTypeOK, NEW j \in Ids, HasStatus(j, "cancelled"), StoreNext
  PROVE  HasStatus(j, "cancelled")'
  <1>. USE DEF HasStatus, StoreTypeOK, Row
  <1>. PICK id \in Ids : Statement(id)
    BY DEF StoreNext
  <1>. QED
    BY DEF Statement, CreateJob, ClaimJob, MarkCompleted, MarkForRetry, DeadLetter, RetryJob, Reset,
           CancelJob

(* The LREM and ZREM that follow a cancel never take a runnable job's id:  *)
(* the row they act for stays cancelled (cancelJob).                       *)
THEOREM CleanupIsHarmless == Spec => []CleanupOnlyCancelled
  <1>1. Init => CleanupOnlyCancelled
    BY DEF Init, ApiInit, NoRequest, CleanupOnlyCancelled
  <1>2. TypeOK /\ ExclusiveRun /\ CleanupOnlyCancelled /\ [Next]_vars =>
           CleanupOnlyCancelled'
    <2>. SUFFICES ASSUME TypeOK, ExclusiveRun, CleanupOnlyCancelled, [Next]_vars,
                         NEW r \in Requests, rq'[r].pc \in {"lrem", "zrem"}
                  PROVE  HasStatus(rq[r].id, "cancelled")'
      BY DEF CleanupOnlyCancelled
    <2>1. ASSUME NEW id \in Ids, HasStatus(id, "cancelled")
          PROVE  HasStatus(id, "cancelled")'
      BY <2>1, StoreSteps, CancelledStays
      DEF TypeOK, storeVars, HasStatus
    <2>2. CASE rq[r].pc \in {"lrem", "zrem"} /\ rq'[r].id = rq[r].id
      BY <2>1, <2>2 DEF CleanupOnlyCancelled, TypeOK, HoldsRow, StoreTypeOK
    <2>3. ASSUME NEW id \in Ids, NEW t \in Tenants, cancelJob(r, id, t)
          PROVE  HasStatus(rq[r].id, "cancelled")'
      BY <2>3 DEF cancelJob, CancelJob, HasStatus, TypeOK, ApiTypeOK,
                  StoreTypeOK, Row
    <2>4. rq'[r] = rq[r] \/ RequestNext(r)
      BY DEF Next, WorkerNext, Poll, Tick, vars, RequestNext, RequestBegin, RequestStep,
             Submit, retryJob, cancelJob, Push, PushResend, RemoveLrem, RemoveZrem,
             RequestAbort, TypeOK, ApiTypeOK
    <2>5. CASE RequestNext(r)
      BY <2>2, <2>3, <2>5
      DEF RequestNext, RequestBegin, RequestStep, Submit, retryJob, Push, PushResend,
          RemoveLrem, RemoveZrem, RequestAbort, NoRequest, TypeOK, ApiTypeOK,
          RequestState
    <2>. QED  BY <2>2, <2>4, <2>5
  <1>. QED  BY <1>1, <1>2, Reachable, PTL DEF Spec

-----------------------------------------------------------------------------
LEMMA LifecycleMoves ==
  ASSUME NEW id \in Ids,
         \/ \E b \in Budgets : Lifecycle!Submit(id, b)
         \/ Lifecycle!Start(id) \/ Lifecycle!Cancel(id) \/ Lifecycle!Succeed(id)
         \/ Lifecycle!Fail(id) \/ Lifecycle!Reset(id)
  PROVE  Lifecycle!Next
  <1>1. Lifecycle!Step(id)
    BY DEF Lifecycle!Step
  <1>. QED  BY <1>1 DEF Lifecycle!Next

(* The refinement mapping turns each statement into a step of JobLifecycle *)
(* on the same job.                                                        *)
LEMMA LifecycleStep ==
  ASSUME StoreTypeOK, StoreNext
  PROVE  Lifecycle!Next
  <1>. USE DEF StoreTypeOK, Row, HasStatus, column
  <1>. PICK id \in Ids : Statement(id)
    BY DEF StoreNext
  <1>1. ASSUME NEW t \in Tenants, NEW q \in QueueNames, NEW b \in Budgets,
               CreateJob(id, NewRow(t, q, b))
        PROVE  Lifecycle!Submit(id, b)
    BY ZenonT(30), <1>1 DEF CreateJob, NewRow, Lifecycle!Submit, Lifecycle!Move
  <1>2. ASSUME ClaimJob(id)
        PROVE  Lifecycle!Start(id)
    BY ZenonT(30), <1>2 DEF ClaimJob, Lifecycle!Start, Lifecycle!Move
  <1>3. ASSUME HasStatus(id, "processing"), MarkCompleted(id)
        PROVE  Lifecycle!Succeed(id)
    BY ZenonT(30), <1>3 DEF MarkCompleted, Lifecycle!Succeed, Lifecycle!Move
  <1>4. ASSUME HasStatus(id, "processing"),
               jobs[id].retry_count + 1 < jobs[id].max_retries,
               MarkForRetry(id, jobs[id].retry_count + 1)
        PROVE  Lifecycle!Fail(id)
    BY ZenonT(30), <1>4 DEF MarkForRetry, Lifecycle!Fail, Lifecycle!Move
  <1>5. ASSUME HasStatus(id, "processing"),
               ~(jobs[id].retry_count + 1 < jobs[id].max_retries),
               DeadLetter(id, jobs[id].retry_count + 1)
        PROVE  Lifecycle!Fail(id)
    BY ZenonT(30), <1>5 DEF DeadLetter, Lifecycle!Fail, Lifecycle!Move
  <1>6. ASSUME NEW t \in Tenants, RetryJob(t, id)
        PROVE  Lifecycle!Reset(id)
    BY ZenonT(30), <1>6 DEF RetryJob, Reset, Lifecycle!Reset, Lifecycle!Move
  <1>7. ASSUME NEW t \in Tenants, CancelJob(t, id)
        PROVE  Lifecycle!Cancel(id)
    BY ZenonT(30), <1>7 DEF CancelJob, Lifecycle!Cancel, Lifecycle!Move
  <1>. QED
    BY <1>1, <1>2, <1>3, <1>4, <1>5, <1>6, <1>7, LifecycleMoves DEF Statement

(* Every row of the jobs table lives the life JobLifecycle describes: the  *)
(* store, the workers and the requests together implement it.              *)
THEOREM RowsFollowLifecycle == Spec => FollowsLifecycle
  <1>1. Init => Lifecycle!Init
    BY DEF Init, StoreInit, Lifecycle!Init, column
  <1>2. TypeOK /\ ExclusiveRun /\ [Next]_vars => [Lifecycle!Next]_(Lifecycle!vars)
    <2>1. UNCHANGED storeVars => UNCHANGED Lifecycle!vars
      BY DEF storeVars, Lifecycle!vars, column
    <2>. QED  BY <2>1, StoreSteps, LifecycleStep DEF TypeOK
  <1>. QED
    BY <1>1, <1>2, Reachable, PTL DEF Spec, FollowsLifecycle, Lifecycle!Spec

-----------------------------------------------------------------------------
(* Where the ids of jobs are: every id in Redis is in its own job's queue. *)

HIDE DEF Column, Terminal, Status, Idle, NoRequest

InList(q, id) == \E i \in DOMAIN work[q] : work[q][i] = id

InQueue(q, id) == InList(q, id) \/ id \in DOMAIN delayed[q]

-----------------------------------------------------------------------------
(* What each Redis command does to the lists.                              *)
LEMMA ListCommands ==
  ASSUME QueueTypeOK, NEW q \in QueueNames
  PROVE  /\ \A id \in Ids : Enqueue(q, id) =>
               \A p \in QueueNames, j \in Ids :
                  InList(p, j)' <=> InList(p, j) \/ (p = q /\ j = id)
         /\ Pop(q) => \A p \in QueueNames, j \in Ids :
               /\ InList(p, j)' => InList(p, j)
               /\ InList(p, j) => InList(p, j)' \/ (p = q /\ j = Head(work[q]))
         /\ \A id \in Ids : RemoveFromList(q, id) =>
               \A p \in QueueNames, j \in Ids :
                  InList(p, j)' <=> InList(p, j) /\ ~(p = q /\ j = id)
  <1>. USE DEF QueueTypeOK, InList
  <1>1. ASSUME NEW id \in Ids, Enqueue(q, id), NEW p \in QueueNames, NEW j \in Ids
        PROVE  InList(p, j)' <=> InList(p, j) \/ (p = q /\ j = id)
    <2>1. CASE p # q
      BY <1>1, <2>1 DEF Enqueue
    <2>2. CASE p = q
      <3>1. /\ work'[q] = Append(work[q], id) /\ work[q] \in Seq(Ids)
            /\ DOMAIN work'[q] = 1..(Len(work[q]) + 1)
            /\ DOMAIN work[q] = 1..Len(work[q]) /\ Len(work[q]) \in Nat
        BY <1>1 DEF Enqueue
      <3>2. /\ \A i \in 1..Len(work[q]) : work'[q][i] = work[q][i]
            /\ work'[q][Len(work[q]) + 1] = id
        BY <3>1
      <3>. QED  BY <2>2, <3>1, <3>2
    <2>. QED  BY <2>1, <2>2
  <1>2. ASSUME Pop(q), NEW p \in QueueNames, NEW j \in Ids
        PROVE  /\ InList(p, j)' => InList(p, j)
               /\ InList(p, j) => InList(p, j)' \/ (p = q /\ j = Head(work[q]))
    <2>1. CASE p # q
      BY <1>2, <2>1 DEF Pop
    <2>2. CASE p = q
      <3>1. /\ work'[q] = Tail(work[q]) /\ work[q] \in Seq(Ids) /\ work[q] # <<>>
            /\ DOMAIN work'[q] = 1..(Len(work[q]) - 1)
            /\ DOMAIN work[q] = 1..Len(work[q]) /\ Len(work[q]) \in Nat \ {0}
        BY <1>2 DEF Pop
      <3>2. /\ \A i \in 1..(Len(work[q]) - 1) : work'[q][i] = work[q][i + 1]
            /\ Head(work[q]) = work[q][1]
        BY <3>1
      <3>3. InList(p, j)' => InList(p, j)
        BY <2>2, <3>1, <3>2
      <3>4. ASSUME NEW i \in DOMAIN work[q], work[q][i] = j, i # 1
            PROVE  InList(p, j)'
        <4>1. i - 1 \in DOMAIN work'[q] /\ work'[q][i - 1] = j
          BY <3>1, <3>2, <3>4
        <4>. QED  BY <2>2, <4>1
      <3>. QED  BY <2>2, <3>2, <3>3, <3>4
    <2>. QED  BY <2>1, <2>2
  <1>3. ASSUME NEW id \in Ids, RemoveFromList(q, id), NEW p \in QueueNames, NEW j \in Ids
        PROVE  InList(p, j)' <=> InList(p, j) /\ ~(p = q /\ j = id)
    <2>0. PICK n \in 0..Len(work[q]) : \E f \in [1..n -> Kept(work[q], id)] :
            /\ \A k \in Kept(work[q], id) : \E i \in 1..n : f[i] = k
            /\ work' = [work EXCEPT ![q] = [i \in 1..n |-> work[q][f[i]]]]
      BY ZenonT(30), <1>3 DEF RemoveFromList
    <2>1. PICK f \in [1..n -> Kept(work[q], id)] :
            /\ \A k \in Kept(work[q], id) : \E i \in 1..n : f[i] = k
            /\ work' = [work EXCEPT ![q] = [i \in 1..n |-> work[q][f[i]]]]
      BY ZenonT(30), <2>0
    <2>2. CASE p # q
      BY <2>1, <2>2
    <2>3. CASE p = q
      <3>1. DOMAIN work'[q] = 1..n /\ \A i \in 1..n : work'[q][i] = work[q][f[i]]
        BY <2>1
      <3>2. \A i \in 1..n : f[i] \in DOMAIN work[q] /\ work[q][f[i]] # id
        BY <2>1 DEF Kept
      <3>3. ASSUME NEW k \in DOMAIN work[q], work[q][k] = j, j # id
            PROVE  InList(p, j)'
        <4>1. k \in Kept(work[q], id)
          BY <3>3 DEF Kept
        <4>2. PICK i \in 1..n : f[i] = k
          BY <2>1, <4>1
        <4>. QED  BY ZenonT(30), <2>3, <3>1, <3>3, <4>2
      <3>. QED  BY <2>3, <3>1, <3>2, <3>3
    <2>. QED  BY <2>2, <2>3
  <1>. QED  BY <1>1, <1>2, <1>3

(* The promote script moves ids within their queue and loses none.         *)
LEMMA PromoteMoves ==
  ASSUME QueueTypeOK, NEW q \in QueueNames, PromoteDue(q)
  PROVE  \A p \in QueueNames, j \in Ids : InQueue(p, j)' <=> InQueue(p, j)
  <1>. USE DEF QueueTypeOK
  <1>0. PICK n \in 1..PromoteBatch : \E f \in [1..n -> Due(q)] :
          /\ work' = [work EXCEPT ![q] = @ \o f]
          /\ delayed' = [delayed EXCEPT ![q] =
                           [id \in {j \in DOMAIN @ : \A i \in 1..n : f[i] # j} |-> @[id]]]
    BY ZenonT(30), PromoteBatchAssumption DEF PromoteDue
  <1>1. PICK f \in [1..n -> Due(q)] :
          /\ work' = [work EXCEPT ![q] = @ \o f]
          /\ delayed' = [delayed EXCEPT ![q] =
                           [id \in {j \in DOMAIN @ : \A i \in 1..n : f[i] # j} |-> @[id]]]
    BY ZenonT(30), <1>0
  <1>2. Due(q) \subseteq DOMAIN delayed[q] /\ Due(q) \subseteq Ids
    BY DEF Due
  <1>3. f \in Seq(Ids) /\ Len(f) = n /\ DOMAIN f = 1..n /\ n \in Nat
    <2>1. n \in Nat /\ n >= 1 /\ DOMAIN f = 1..n
      BY PromoteBatchAssumption
    <2>2. f \in Seq(Ids)
      BY <1>2, <2>1
    <2>3. 1..Len(f) = 1..n /\ Len(f) \in Nat
      BY <2>1, <2>2
    <2>4. n \in 1..Len(f)
      BY <2>1, <2>3
    <2>5. Len(f) \in 1..n
      BY <2>3, <2>4
    <2>. QED  BY <2>1, <2>2, <2>4, <2>5
  <1>4. /\ work[q] \in Seq(Ids) /\ Len(work[q]) \in Nat
        /\ DOMAIN work[q] = 1..Len(work[q])
        /\ work'[q] = work[q] \o f
        /\ DOMAIN work'[q] = 1..(Len(work[q]) + n)
    BY <1>1, <1>3
  <1>5. /\ \A i \in 1..Len(work[q]) : work'[q][i] = work[q][i]
        /\ \A i \in 1..n : work'[q][Len(work[q]) + i] = f[i]
    BY <1>3, <1>4
  <1>6. DOMAIN delayed'[q] = {j \in DOMAIN delayed[q] : \A i \in 1..n : f[i] # j}
    BY <1>1
  <1>. SUFFICES ASSUME NEW p \in QueueNames, NEW j \in Ids
                PROVE  InQueue(p, j)' <=> InQueue(p, j)
    OBVIOUS
  <1>7. CASE p # q
    BY <1>1, <1>7 DEF InQueue, InList
  <1>8. CASE p = q
    <2>1. ASSUME NEW i \in DOMAIN work'[q], work'[q][i] = j
          PROVE  InQueue(q, j)
      <3>1. CASE i \in 1..Len(work[q])
        BY <1>4, <1>5, <2>1, <3>1 DEF InQueue, InList
      <3>2. CASE i \notin 1..Len(work[q])
        <4>1. i - Len(work[q]) \in 1..n /\ i = Len(work[q]) + (i - Len(work[q]))
          BY <1>3, <1>4, <2>1, <3>2
        <4>2. f[i - Len(work[q])] = j
          BY <1>5, <2>1, <4>1
        <4>3. j \in Due(q)
          BY <1>1, <4>1, <4>2
        <4>. QED  BY <1>2, <4>3 DEF InQueue
      <3>. QED  BY <3>1, <3>2
    <2>2. j \in DOMAIN delayed'[q] => InQueue(q, j)
      BY ZenonT(30), <1>6 DEF InQueue
    <2>3. ASSUME NEW i \in DOMAIN work[q], work[q][i] = j
          PROVE  InQueue(q, j)'
      <3>1. i \in DOMAIN work'[q] /\ work'[q][i] = j
        BY <1>3, <1>4, <1>5, <2>3
      <3>. QED  BY <3>1 DEF InQueue, InList
    <2>4. ASSUME j \in DOMAIN delayed[q]
          PROVE  InQueue(q, j)'
      <3>1. CASE \A i \in 1..n : f[i] # j
        <4>1. j \in DOMAIN delayed'[q]
          BY ZenonT(30), <1>6, <2>4, <3>1
        <4>. QED  BY ZenonT(30), <4>1 DEF InQueue
      <3>2. ASSUME NEW i \in 1..n, f[i] = j
            PROVE  InQueue(q, j)'
        <4>1. Len(work[q]) + i \in DOMAIN work'[q] /\ work'[q][Len(work[q]) + i] = j
          BY <1>3, <1>4, <1>5, <3>2
        <4>. QED  BY <4>1 DEF InQueue, InList
      <3>. QED  BY <3>1, <3>2
    <2>. QED  BY <1>8, <2>1, <2>2, <2>3, <2>4 DEF InQueue, InList
  <1>. QED  BY <1>7, <1>8

(* The same for list and sorted set together.                              *)
LEMMA QueueMoves ==
  ASSUME QueueTypeOK, NEW q \in QueueNames
  PROVE  /\ \A id \in Ids : Enqueue(q, id) =>
               \A p \in QueueNames, j \in Ids :
                  InQueue(p, j)' <=> InQueue(p, j) \/ (p = q /\ j = id)
         /\ \A id \in Ids, n \in Nat : EnqueueDelayed(q, id, n) =>
               \A p \in QueueNames, j \in Ids :
                  InQueue(p, j)' <=> InQueue(p, j) \/ (p = q /\ j = id)
         /\ Pop(q) => \A p \in QueueNames, j \in Ids :
               /\ InQueue(p, j)' => InQueue(p, j)
               /\ InQueue(p, j) => InQueue(p, j)' \/ (p = q /\ j = Head(work[q]))
         /\ \A id \in Ids : RemoveFromList(q, id) \/ RemoveFromDelayed(q, id) =>
               \A p \in QueueNames, j \in Ids :
                  /\ InQueue(p, j)' => InQueue(p, j)
                  /\ InQueue(p, j) /\ j # id => InQueue(p, j)'
  <1>1. ASSUME NEW id \in Ids, Enqueue(q, id), NEW p \in QueueNames, NEW j \in Ids
        PROVE  InQueue(p, j)' <=> InQueue(p, j) \/ (p = q /\ j = id)
    <2>1. UNCHANGED delayed
      BY <1>1 DEF Enqueue
    <2>. QED  BY <1>1, <2>1, ListCommands DEF InQueue
  <1>2. ASSUME NEW id \in Ids, NEW n \in Nat, EnqueueDelayed(q, id, n),
               NEW p \in QueueNames, NEW j \in Ids
        PROVE  InQueue(p, j)' <=> InQueue(p, j) \/ (p = q /\ j = id)
    BY <1>2 DEF EnqueueDelayed, InQueue, InList, QueueTypeOK
  <1>3. ASSUME Pop(q), NEW p \in QueueNames, NEW j \in Ids
        PROVE  /\ InQueue(p, j)' => InQueue(p, j)
               /\ InQueue(p, j) => InQueue(p, j)' \/ (p = q /\ j = Head(work[q]))
    <2>1. UNCHANGED delayed
      BY <1>3 DEF Pop
    <2>. QED  BY <1>3, <2>1, ListCommands DEF InQueue
  <1>4. ASSUME NEW id \in Ids, RemoveFromList(q, id), NEW p \in QueueNames, NEW j \in Ids
        PROVE  /\ InQueue(p, j)' => InQueue(p, j)
               /\ InQueue(p, j) /\ j # id => InQueue(p, j)'
    <2>1. UNCHANGED delayed
      BY <1>4 DEF RemoveFromList
    <2>. QED  BY <1>4, <2>1, ListCommands DEF InQueue
  <1>5. ASSUME NEW id \in Ids, RemoveFromDelayed(q, id), NEW p \in QueueNames, NEW j \in Ids
        PROVE  /\ InQueue(p, j)' => InQueue(p, j)
               /\ InQueue(p, j) /\ j # id => InQueue(p, j)'
    <2>1. work' = work
      BY <1>5 DEF RemoveFromDelayed
    <2>2. j \in DOMAIN delayed'[p] <=> j \in DOMAIN delayed[p] /\ (p # q \/ j # id)
      BY <1>5 DEF RemoveFromDelayed, QueueTypeOK
    <2>. QED  BY <2>1, <2>2 DEF InQueue, InList
  <1>. QED  BY <1>1, <1>2, <1>3, <1>4, <1>5

-----------------------------------------------------------------------------
(* No statement deletes a row or changes its queue_name.                   *)
LEMMA QueueNameStays ==
  ASSUME StoreTypeOK, StoreNext \/ UNCHANGED storeVars
  PROVE  \A id \in DOMAIN jobs :
            id \in DOMAIN jobs' /\ jobs'[id].queue_name = jobs[id].queue_name
  <1>. USE DEF StoreTypeOK, Row, HasStatus
  <1>1. ASSUME NEW id \in Ids, Statement(id), NEW j \in DOMAIN jobs
        PROVE  j \in DOMAIN jobs' /\ jobs'[j].queue_name = jobs[j].queue_name
    <2>1. CASE \E t \in Tenants, q \in QueueNames, b \in Budgets :
                  CreateJob(id, NewRow(t, q, b))
      BY <2>1 DEF CreateJob
    <2>2. CASE ClaimJob(id) \/ MarkCompleted(id)
      BY <2>2 DEF ClaimJob, MarkCompleted
    <2>3. CASE \/ MarkForRetry(id, jobs[id].retry_count + 1)
               \/ DeadLetter(id, jobs[id].retry_count + 1)
      BY <2>3 DEF MarkForRetry, DeadLetter
    <2>4. CASE \E t \in Tenants : RetryJob(t, id) \/ CancelJob(t, id)
      BY <2>4 DEF RetryJob, Reset, CancelJob
    <2>. QED  BY ZenonT(30), <1>1, <2>1, <2>2, <2>3, <2>4 DEF Statement
  <1>2. CASE UNCHANGED storeVars
    BY <1>2 DEF storeVars
  <1>. HIDE DEF StoreTypeOK, Row, HasStatus
  <1>. QED  BY ZenonT(30), <1>1, <1>2 DEF StoreNext

(* An id comes to a queue only if it is its job's.                         *)
LEMMA ArrivesAtOwnQueue ==
  ASSUME TypeOK, [Next]_vars, NEW p \in QueueNames, NEW j \in Ids,
         InQueue(p, j)', ~InQueue(p, j)
  PROVE  j \in DOMAIN jobs /\ p = jobs[j].queue_name
  <1>. USE DEF TypeOK
  <1>1. ASSUME NEW w \in Workers, WorkerNext(w)
        PROVE  j \in DOMAIN jobs /\ p = jobs[j].queue_name
    <2>1. CASE Dequeue(w)
      <3>1. PICK i \in DOMAIN Watched : Pop(Watched[i])
        BY <2>1 DEF Dequeue
      <3>2. Watched[i] \in QueueNames
        BY WorkerAssumption
      <3>. QED  BY <3>1, <3>2, QueueMoves
    <2>2. CASE Park(w) \/ ParkResend(w)
      <3>. DEFINE id == wk[w].id
      <3>1. id \in DOMAIN jobs /\ id \in Ids /\ jobs[id].queue_name \in QueueNames
            /\ wk[w].delay \in Nat
        BY <2>2 DEF Park, ParkResend, HoldsRow, StoreTypeOK, Row, WorkerTypeOK, WorkerState
      <3>2. EnqueueDelayed(jobs[id].queue_name, id, wk[w].delay)
        BY <2>2 DEF Park, ParkResend
      <3>. HIDE DEF id
      <3>. QED  BY <3>1, <3>2, QueueMoves
    <2>3. CASE UNCHANGED queueVars
      BY <2>3 DEF queueVars, InQueue, InList
    <2>. QED
      BY <1>1, <2>1, <2>2, <2>3
      DEF WorkerNext, WorkerStep, Claim, Skip, Complete, ScheduleRetry, GiveUp, WorkerCrash
  <1>2. ASSUME NEW r \in Requests, RequestNext(r)
        PROVE  j \in DOMAIN jobs /\ p = jobs[j].queue_name
    <2>. DEFINE id == rq[r].id
    <2>0. rq[r].pc # "idle" => /\ id \in DOMAIN jobs /\ id \in Ids
                               /\ jobs[id].queue_name \in QueueNames
      BY DEF HoldsRow, StoreTypeOK, Row
    <2>1. CASE Push(r) \/ PushResend(r)
      <3>1. rq[r].pc # "idle" /\ Enqueue(jobs[id].queue_name, id)
        BY <2>1 DEF Push, PushResend, queueOf
      <3>. HIDE DEF id
      <3>. QED  BY <2>0, <3>1, QueueMoves
    <2>2. CASE RemoveLrem(r) \/ RemoveZrem(r)
      <3>1. /\ rq[r].pc # "idle"
            /\ \/ RemoveFromList(jobs[id].queue_name, id)
               \/ RemoveFromDelayed(jobs[id].queue_name, id)
        BY <2>2 DEF RemoveLrem, RemoveZrem, queueOf
      <3>. HIDE DEF id
      <3>. QED  BY <2>0, <3>1, QueueMoves
    <2>3. CASE UNCHANGED queueVars
      BY <2>3 DEF queueVars, InQueue, InList
    <2>. QED
      BY <1>2, <2>1, <2>2, <2>3
      DEF RequestNext, RequestBegin, RequestStep, Submit, retryJob, cancelJob, RequestAbort
  <1>3. ASSUME NEW i \in DOMAIN Watched, Poll(i)
        PROVE  j \in DOMAIN jobs /\ p = jobs[j].queue_name
    BY <1>3, PromoteMoves, WorkerAssumption DEF Poll
  <1>4. CASE Tick
    BY <1>4 DEF Tick, InQueue, InList, QueueTypeOK
  <1>5. CASE UNCHANGED vars
    BY <1>5 DEF vars, InQueue, InList
  <1>. QED  BY <1>1, <1>2, <1>3, <1>4, <1>5 DEF Next

LEMMA InitOwnQueue == Init => OwnQueue
  BY DEF Init, QueueInit, OwnQueue

LEMMA NextOwnQueue == TypeOK /\ ExclusiveRun /\ OwnQueue /\ [Next]_vars => OwnQueue'
  <1>. SUFFICES ASSUME TypeOK, ExclusiveRun, OwnQueue, [Next]_vars,
                       NEW q \in QueueNames, NEW id \in Ids, InQueue(q, id)'
                PROVE  id \in DOMAIN jobs' /\ jobs'[id].queue_name = q
    BY DEF OwnQueue, InQueue, InList
  <1>1. id \in DOMAIN jobs /\ jobs[id].queue_name = q
    BY ArrivesAtOwnQueue DEF OwnQueue, InQueue, InList
  <1>2. StoreTypeOK /\ (StoreNext \/ UNCHANGED storeVars)
    BY StoreSteps DEF TypeOK
  <1>. QED  BY <1>1, <1>2, QueueNameStays

(* In every queue there are only ids of jobs submitted to it, for any      *)
(* number of queues, workers and faults: Park, the promote script and      *)
(* retryJob's LPUSH all work on the job's own queue_name.                  *)
THEOREM IdsStayInTheirQueue == Spec => []OwnQueue
  BY InitOwnQueue, NextOwnQueue, Reachable, PTL DEF Spec
=============================================================================
