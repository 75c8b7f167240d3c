----------------------------- MODULE TokenProofs ----------------------------
(***************************************************************************)
(* Proofs about where the ids of jobs are, for any number of jobs,         *)
(* workers, requests, queues, tenants and faults: no pending job's id is   *)
(* lost while nobody crashes, and none is doubled while no write is sent   *)
(* twice.                                                                  *)
(***************************************************************************)
EXTENDS DispatchProofs

(* The solvers' time limit, in seconds, where a leaf names no prover.      *)
USE SMTT(30)

OnItsWay(id) == InRedis(id) \/ Carried(id)

(* A worker's step leaves no pending job without its id.                   *)
LEMMA WorkerLosesNone ==
  ASSUME TypeOK, NoLostJob, NEW w \in Workers, WorkerNext(w),
         crashes' = 0, aborts' = 0,
         NEW id \in DOMAIN jobs', jobs'[id].status = "pending"
  PROVE  OnItsWay(id)'
  <1>. USE DEF TypeOK, WorkerTypeOK, WorkerState
  <1>. DEFINE held == wk[w].id
  <1>0. rq' = rq /\ crashes \in Nat /\ aborts \in Nat
    BY DEF WorkerNext, FaultTypeOK
  <1>q. InRedis(id) <=> \E q \in QueueNames : InQueue(q, id)
    BY DEF InRedis, InQueue, InList
  <1>r. InRedis(id)' <=> \E q \in QueueNames : InQueue(q, id)'
    BY DEF InRedis, InQueue, InList
  <1>1. CASE Dequeue(w)
    <2>1. PICK i \in DOMAIN Watched :
            Pop(Watched[i]) /\ wk' = [wk EXCEPT ![w].pc = "popped", ![w].id = Head(work[Watched[i]])]
      BY ZenonT(30), <1>1 DEF Dequeue
    <2>2. Watched[i] \in QueueNames
      BY WorkerAssumption
    <2>3. id \in Ids /\ OnItsWay(id)
      BY <1>1 DEF Dequeue, storeVars, faultVars, NoLostJob, OnItsWay, StoreTypeOK
    <2>4. CASE Carried(id)
      <3>1. Carried(id)'
        BY <1>0, <1>1, <2>1, <2>4 DEF Dequeue, Carried
      <3>. QED  BY <3>1 DEF OnItsWay
    <2>5. CASE InRedis(id)
      <3>1. InRedis(id)' \/ id = Head(work[Watched[i]])
        BY <1>q, <1>r, <2>1, <2>2, <2>3, <2>5, QueueMoves
      <3>2. id = Head(work[Watched[i]]) => Carried(id)'
        BY <2>1 DEF Carried
      <3>. QED  BY <3>1, <3>2 DEF OnItsWay
    <2>. QED  BY <2>3, <2>4, <2>5 DEF OnItsWay
  <1>2. CASE Park(w) \/ ParkResend(w)
    <2>1. /\ held \in DOMAIN jobs /\ held \in Ids /\ jobs[held].queue_name \in QueueNames
          /\ wk[w].delay \in Nat
      BY <1>2 DEF Park, ParkResend, HoldsRow, StoreTypeOK, Row
    <2>2. EnqueueDelayed(jobs[held].queue_name, held, wk[w].delay)
      BY <1>2 DEF Park, ParkResend
    <2>3. id \in Ids /\ OnItsWay(id)
      BY <1>0, <1>2
      DEF Park, ParkResend, Resend, storeVars, faultVars, NoLostJob, OnItsWay, StoreTypeOK
    <2>4. \A q \in QueueNames :
            InQueue(q, id)' <=> InQueue(q, id) \/ (q = jobs[held].queue_name /\ id = held)
      <3>. HIDE DEF held
      <3>. QED  BY <2>1, <2>2, <2>3, QueueMoves
    <2>5. CASE id = held
      BY <1>r, <2>1, <2>4, <2>5 DEF OnItsWay
    <2>6. CASE id # held
      <3>1. InRedis(id) => InRedis(id)'
        BY <1>q, <1>r, <2>4
      <3>2. Carried(id) => Carried(id)'
        BY <1>0, <1>2, <2>6 DEF Park, ParkResend, Carried
      <3>. QED  BY <2>3, <3>1, <3>2 DEF OnItsWay
    <2>. QED  BY <2>5, <2>6
  <1>3. CASE ScheduleRetry(w)
    <2>1. CASE id = held
      <3>1. Carried(id)'
        BY <1>3, <2>1 DEF ScheduleRetry, Carried
      <3>. QED  BY <3>1 DEF OnItsWay
    <2>2. CASE id # held
      <3>1. id \in DOMAIN jobs /\ jobs[id].status = "pending"
        BY <1>3, <2>2 DEF ScheduleRetry, MarkForRetry, StoreTypeOK
      <3>2. OnItsWay(id)
        BY <1>3, <3>1 DEF ScheduleRetry, faultVars, NoLostJob, OnItsWay
      <3>3. InRedis(id) => InRedis(id)'
        BY <1>3 DEF ScheduleRetry, queueVars, InRedis
      <3>4. Carried(id) => Carried(id)'
        <4>1. rq' = rq /\ \A v \in Workers : wk[v].id = id /\ wk[v].pc # "idle" => wk'[v] = wk[v]
          BY <1>0, <1>3, <2>2 DEF ScheduleRetry
        <4>. QED  BY <4>1 DEF Carried
      <3>. QED  BY <3>2, <3>3, <3>4 DEF OnItsWay
    <2>. QED  BY <2>1, <2>2
  <1>4. CASE Claim(w) \/ Skip(w) \/ Complete(w) \/ GiveUp(w)
    <2>1. id \in DOMAIN jobs /\ jobs[id].status = "pending" /\ id # held
      <3>. USE DEF HasStatus, HoldsRow, StoreTypeOK, Row
      <3>1. CASE Claim(w)
        BY <3>1 DEF Claim, ClaimJob
      <3>2. CASE Skip(w)
        BY <3>2 DEF Skip, storeVars
      <3>3. CASE Complete(w)
        BY <3>3 DEF Complete, MarkCompleted
      <3>4. CASE GiveUp(w)
        BY <3>4 DEF GiveUp, DeadLetter
      <3>. QED  BY <1>4, <3>1, <3>2, <3>3, <3>4
    <2>2. OnItsWay(id)
      BY <1>4, <2>1 DEF Claim, Skip, Complete, GiveUp, faultVars, NoLostJob, OnItsWay
    <2>3. InRedis(id) => InRedis(id)'
      BY <1>4 DEF Claim, Skip, Complete, GiveUp, queueVars, InRedis
    <2>4. Carried(id) => Carried(id)'
      BY <1>0, <1>4, <2>1 DEF Claim, Skip, Complete, GiveUp, Carried
    <2>. QED  BY <2>2, <2>3, <2>4 DEF OnItsWay
  <1>5. CASE WorkerCrash(w)
    BY <1>0, <1>5 DEF WorkerCrash, Crash
  <1>. QED  BY <1>1, <1>2, <1>3, <1>4, <1>5 DEF WorkerNext, WorkerStep

(* Nor does a request's: what a cancel removes is the id of a cancelled    *)
(* job.                                                                    *)
LEMMA RequestLosesNone ==
  ASSUME TypeOK, CleanupOnlyCancelled, NoLostJob, NEW r \in Requests, RequestNext(r),
         crashes' = 0, aborts' = 0,
         NEW id \in DOMAIN jobs', jobs'[id].status = "pending"
  PROVE  OnItsWay(id)'
  <1>. USE DEF TypeOK, ApiTypeOK, RequestState
  <1>. DEFINE held == rq[r].id
  <1>0. wk' = wk /\ crashes \in Nat /\ aborts \in Nat
    BY DEF RequestNext, FaultTypeOK
  <1>q. InRedis(id) <=> \E q \in QueueNames : InQueue(q, id)
    BY DEF InRedis, InQueue, InList
  <1>r. InRedis(id)' <=> \E q \in QueueNames : InQueue(q, id)'
    BY DEF InRedis, InQueue, InList
  <1>h. rq[r].pc # "idle" =>
          held \in DOMAIN jobs /\ held \in Ids /\ jobs[held].queue_name \in QueueNames
    BY DEF HoldsRow, StoreTypeOK, Row
  <1>1. ASSUME NEW j \in Ids, NEW t \in Tenants,
               \/ \E q \in QueueNames, b \in Budgets : Submit(r, j, t, q, b)
               \/ retryJob(r, j, t)
        PROVE  OnItsWay(id)'
    <2>1. /\ rq[r].pc = "idle" /\ rq' = [rq EXCEPT ![r] = [pc |-> "push", id |-> j]]
          /\ UNCHANGED <<queueVars, faultVars>>
      BY <1>1 DEF Submit, retryJob
    <2>2. CASE id = j
      <3>1. Carried(id)'
        BY <2>1, <2>2 DEF Carried
      <3>. QED  BY <3>1 DEF OnItsWay
    <2>3. CASE id # j
      <3>1. id \in DOMAIN jobs /\ jobs[id].status = "pending"
        BY <1>1, <2>3 DEF Submit, CreateJob, retryJob, RetryJob, Reset, StoreTypeOK
      <3>2. OnItsWay(id)
        BY <2>1, <3>1 DEF faultVars, NoLostJob, OnItsWay
      <3>3. InRedis(id) => InRedis(id)'
        BY <2>1 DEF queueVars, InRedis
      <3>4. Carried(id) => Carried(id)'
        BY <1>0, <2>1 DEF Carried
      <3>. QED  BY <3>2, <3>3, <3>4 DEF OnItsWay
    <2>. QED  BY <2>2, <2>3
  <1>2. ASSUME NEW j \in Ids, NEW t \in Tenants, cancelJob(r, j, t)
        PROVE  OnItsWay(id)'
    <2>1. id \in DOMAIN jobs /\ jobs[id].status = "pending"
      BY <1>2 DEF cancelJob, CancelJob, HasStatus, StoreTypeOK, Row
    <2>2. OnItsWay(id)
      BY <1>2, <2>1 DEF cancelJob, faultVars, NoLostJob, OnItsWay
    <2>3. InRedis(id) => InRedis(id)'
      BY <1>2 DEF cancelJob, queueVars, InRedis
    <2>4. Carried(id) => Carried(id)'
      BY <1>0, <1>2 DEF cancelJob, Carried
    <2>. QED  BY <2>2, <2>3, <2>4 DEF OnItsWay
  <1>3. CASE Push(r) \/ PushResend(r)
    <2>1. rq[r].pc # "idle" /\ Enqueue(jobs[held].queue_name, held)
      BY <1>3 DEF Push, PushResend, queueOf
    <2>2. id \in Ids /\ OnItsWay(id)
      BY <1>0, <1>3
      DEF Push, PushResend, Resend, storeVars, faultVars, NoLostJob, OnItsWay, StoreTypeOK
    <2>3. \A q \in QueueNames :
            InQueue(q, id)' <=> InQueue(q, id) \/ (q = jobs[held].queue_name /\ id = held)
      <3>. HIDE DEF held
      <3>. QED  BY ZenonT(30), <1>h, <2>1, <2>2, QueueMoves
    <2>4. CASE id = held
      BY <1>h, <1>r, <2>1, <2>3, <2>4 DEF OnItsWay
    <2>5. CASE id # held
      <3>1. InRedis(id) => InRedis(id)'
        BY <1>q, <1>r, <2>3
      <3>2. Carried(id) => Carried(id)'
        BY <1>0, <1>3, <2>5 DEF Push, PushResend, Carried
      <3>. QED  BY <2>2, <3>1, <3>2 DEF OnItsWay
    <2>. QED  BY <2>4, <2>5
  <1>4. CASE RemoveLrem(r) \/ RemoveZrem(r)
    <2>1. /\ rq[r].pc \in {"lrem", "zrem"}
          /\ \/ RemoveFromList(jobs[held].queue_name, held)
             \/ RemoveFromDelayed(jobs[held].queue_name, held)
      BY <1>4 DEF RemoveLrem, RemoveZrem, queueOf
    <2>2. id \in Ids /\ OnItsWay(id) /\ id # held
      BY <1>4, <2>1
      DEF RemoveLrem, RemoveZrem, storeVars, faultVars, NoLostJob, OnItsWay, StoreTypeOK,
          CleanupOnlyCancelled, HasStatus
    <2>3. InRedis(id) => InRedis(id)'
      <3>. HIDE DEF held
      <3>. QED  BY <1>h, <1>q, <1>r, <2>1, <2>2, QueueMoves DEF held
    <2>4. Carried(id) => Carried(id)'
      BY <1>0, <1>4, <2>1 DEF RemoveLrem, RemoveZrem, Carried
    <2>. QED  BY <2>2, <2>3, <2>4 DEF OnItsWay
  <1>5. CASE RequestAbort(r)
    BY <1>0, <1>5 DEF RequestAbort, Abort
  <1>6. CASE RequestBegin(r)
    BY <1>1, <1>2, <1>6 DEF RequestBegin
  <1>. QED  BY <1>3, <1>4, <1>5, <1>6 DEF RequestNext, RequestStep

(* While no process dies between two of its calls, no pending job's id is  *)
(* lost, for any number of jobs, queues, workers and requests: backoff,    *)
(* promotion, doubled ids and cancels of other jobs included.              *)
THEOREM NoPendingJobIsLost == Spec => []NoLostJob
  <1>1. Init => NoLostJob
    BY DEF Init, StoreInit, NoLostJob
  <1>2. TypeOK /\ CleanupOnlyCancelled /\ NoLostJob /\ [Next]_vars => NoLostJob'
    <2>. SUFFICES ASSUME TypeOK, CleanupOnlyCancelled, NoLostJob, [Next]_vars,
                         crashes' = 0, aborts' = 0,
                         NEW id \in DOMAIN jobs', jobs'[id].status = "pending"
                  PROVE  OnItsWay(id)'
      BY DEF NoLostJob, OnItsWay
    <2>1. ASSUME NEW i \in DOMAIN Watched, Poll(i) PROVE OnItsWay(id)'
      <3>1. Watched[i] \in QueueNames /\ QueueTypeOK /\ PromoteDue(Watched[i])
        BY <2>1, WorkerAssumption DEF Poll, TypeOK
      <3>2. id \in Ids /\ OnItsWay(id)
        BY <2>1 DEF Poll, storeVars, faultVars, NoLostJob, OnItsWay, TypeOK, StoreTypeOK
      <3>3. InRedis(id) => InRedis(id)'
        <4>1. \A q \in QueueNames : InQueue(q, id)' <=> InQueue(q, id)
          BY <3>1, <3>2, PromoteMoves
        <4>. QED  BY <4>1 DEF InRedis, InQueue, InList
      <3>4. Carried(id) => Carried(id)'
        BY <2>1 DEF Poll, Carried
      <3>. QED  BY <3>2, <3>3, <3>4 DEF OnItsWay
    <2>2. CASE Tick
      <3>1. OnItsWay(id)
        BY <2>2 DEF Tick, storeVars, faultVars, NoLostJob, OnItsWay
      <3>2. InRedis(id) => InRedis(id)'
        BY <2>2 DEF Tick, InRedis, TypeOK, QueueTypeOK
      <3>3. Carried(id) => Carried(id)'
        BY <2>2 DEF Tick, Carried, TypeOK, WorkerTypeOK, WorkerState
      <3>. QED  BY <3>1, <3>2, <3>3 DEF OnItsWay
    <2>3. CASE UNCHANGED vars
      BY <2>3 DEF vars, NoLostJob, OnItsWay, InRedis, Carried
    <2>. QED  BY <2>1, <2>2, <2>3, WorkerLosesNone, RequestLosesNone DEF Next
  <1>. QED  BY <1>1, <1>2, Reachable, CleanupIsHarmless, PTL DEF Spec

-----------------------------------------------------------------------------
(* One token per job.  While no write was sent twice, an id is in at most  *)
(* one place; a job that ended, or has no row, has no token, and that of a *)
(* processing job is the worker who runs it.  So a reset or a retry, which *)
(* makes a new token, finds none.                                          *)
Once(q, id) ==
    \A i, k \in DOMAIN work[q] : work[q][i] = id /\ work[q][k] = id => i = k

Listed(id) == \E q \in QueueNames : InList(q, id)

Delayed(id) == \E q \in QueueNames : id \in DOMAIN delayed[q]

Pushes(r, id) == rq[r].pc = "push" /\ rq[r].id = id

Pushed(id) == \E r \in Requests : Pushes(r, id)

Held(id) == \E w \in Workers : wk[w].id = id

Nowhere(id) == ~Listed(id) /\ ~Delayed(id) /\ ~Pushed(id) /\ ~Held(id)

OnePlace(id) ==
    /\ Listed(id) => ~Delayed(id) /\ ~Pushed(id) /\ ~Held(id)
    /\ Delayed(id) => ~Pushed(id) /\ ~Held(id)
    /\ Pushed(id) => ~Held(id)
    /\ \A q \in QueueNames : Once(q, id)
    /\ \A r, s \in Requests : Pushes(r, id) /\ Pushes(s, id) => r = s
    /\ \A v, w \in Workers : wk[v].id = id /\ wk[w].id = id => v = w

TokenFits(id) ==
    /\ id \notin DOMAIN jobs \/ jobs[id].status \in {"completed", "failed"} => Nowhere(id)
    /\ HasStatus(id, "processing") =>
          /\ ~Listed(id) /\ ~Delayed(id) /\ ~Pushed(id)
          /\ \A w \in Workers : wk[w].id = id => wk[w].pc = "running"

OneToken == resends = 0 => \A id \in Ids : OnePlace(id) /\ TokenFits(id)

(* LPUSH, BRPOP and LREM double no id in a list.                           *)
LEMMA ListOnce ==
  ASSUME QueueTypeOK, NEW q \in QueueNames, NEW p \in QueueNames, NEW j \in Ids, Once(p, j)
  PROVE  /\ \A id \in Ids : Enqueue(q, id) /\ ~(p = q /\ j = id /\ InList(q, id)) => Once(p, j)'
         /\ Pop(q) => Once(p, j)' /\ (p = q /\ j = Head(work[q]) => ~InList(p, j)')
         /\ \A id \in Ids : RemoveFromList(q, id) => Once(p, j)'
  <1>. USE DEF QueueTypeOK
  <1>0. /\ work[q] \in Seq(Ids) /\ Len(work[q]) \in Nat
        /\ DOMAIN work[q] = 1..Len(work[q])
    OBVIOUS
  <1>1. ASSUME NEW id \in Ids, Enqueue(q, id), ~(p = q /\ j = id /\ InList(q, id))
        PROVE  Once(p, j)'
    <2>1. CASE p # q
      BY <1>1, <2>1 DEF Enqueue, Once
    <2>2. CASE p = q
      <3>1. work'[q] = Append(work[q], id) /\ DOMAIN work'[q] = 1..(Len(work[q]) + 1)
        BY <1>0, <1>1 DEF Enqueue
      <3>2. /\ \A i \in 1..Len(work[q]) : work'[q][i] = work[q][i]
            /\ work'[q][Len(work[q]) + 1] = id
        BY <1>0, <3>1
      <3>3. \A i \in DOMAIN work'[q] : i \in DOMAIN work[q] \/ i = Len(work[q]) + 1
        BY <1>0, <3>1
      <3>4. j = id => \A i \in DOMAIN work[q] : work[q][i] # j
        BY <1>1, <2>2 DEF InList
      <3>. QED  BY <1>0, <2>2, <3>2, <3>3, <3>4 DEF Once
    <2>. QED  BY <2>1, <2>2
  <1>2. ASSUME Pop(q)
        PROVE  Once(p, j)' /\ (p = q /\ j = Head(work[q]) => ~InList(p, j)')
    <2>1. CASE p # q
      BY <1>2, <2>1 DEF Pop, Once
    <2>2. CASE p = q
      <3>1. /\ work'[q] = Tail(work[q]) /\ work[q] # <<>>
            /\ DOMAIN work'[q] = 1..(Len(work[q]) - 1) /\ Len(work[q]) \in Nat \ {0}
        BY <1>0, <1>2 DEF Pop
      <3>2. /\ \A i \in 1..(Len(work[q]) - 1) :
                  i + 1 \in DOMAIN work[q] /\ work'[q][i] = work[q][i + 1]
            /\ Head(work[q]) = work[q][1] /\ 1 \in DOMAIN work[q]
        BY <1>0, <3>1
      <3>3. Once(q, j)'
        <4>. SUFFICES ASSUME NEW i \in DOMAIN work'[q], NEW k \in DOMAIN work'[q],
                             work'[q][i] = j, work'[q][k] = j
                      PROVE  i = k
          BY DEF Once
        <4>1. i + 1 \in DOMAIN work[q] /\ k + 1 \in DOMAIN work[q] /\ i \in Int /\ k \in Int
          BY <3>1, <3>2
        <4>2. work[q][i + 1] = j /\ work[q][k + 1] = j
          BY <3>1, <3>2
        <4>3. i + 1 = k + 1
          BY <2>2, <4>1, <4>2 DEF Once
        <4>. QED  BY <4>1, <4>3
      <3>4. ASSUME j = Head(work[q]), NEW i \in DOMAIN work'[q], work'[q][i] = j
            PROVE  FALSE
        <4>1. i + 1 \in DOMAIN work[q] /\ work[q][i + 1] = j /\ i \in 1..(Len(work[q]) - 1)
          BY <3>1, <3>2, <3>4
        <4>2. i + 1 = 1
          BY <2>2, <3>2, <3>4, <4>1 DEF Once
        <4>. QED  BY <1>0, <4>1, <4>2
      <3>. QED  BY <2>2, <3>3, <3>4 DEF InList
    <2>. QED  BY <2>1, <2>2
  <1>3. ASSUME NEW id \in Ids, RemoveFromList(q, id)
        PROVE  Once(p, j)'
    <2>0. PICK n \in 0..Len(work[q]) : \E f \in [1..n -> Kept(work[q], id)] :
            /\ \A i, k \in 1..n : i < k => f[i] < f[k]
            /\ work' = [work EXCEPT ![q] = [i \in 1..n |-> work[q][f[i]]]]
      BY ZenonT(30), <1>3 DEF RemoveFromList
    <2>1. PICK f \in [1..n -> Kept(work[q], id)] :
            /\ \A i, k \in 1..n : i < k => f[i] < f[k]
            /\ work' = [work EXCEPT ![q] = [i \in 1..n |-> work[q][f[i]]]]
      BY ZenonT(30), <2>0
    <2>2. CASE p # q
      BY <2>1, <2>2 DEF Once
    <2>3. CASE p = q
      <3>1. DOMAIN work'[q] = 1..n /\ \A i \in 1..n : work'[q][i] = work[q][f[i]]
        BY <2>1
      <3>2. \A i \in 1..n : f[i] \in DOMAIN work[q] /\ f[i] \in Int
        BY <1>0, <2>1 DEF Kept
      <3>3. ASSUME NEW i \in 1..n, NEW k \in 1..n, f[i] = f[k]
            PROVE  i = k
        <4>1. ~(i < k) /\ ~(k < i)
          BY <2>1, <3>2, <3>3
        <4>. QED  BY <4>1
      <3>. QED  BY <2>3, <3>1, <3>2, <3>3 DEF Once
    <2>. QED  BY <2>2, <2>3
  <1>. QED  BY <1>1, <1>2, <1>3

(* The promote script doubles no id, and takes what it moves out of the    *)
(* sorted set.                                                             *)
LEMMA PromoteOnce ==
  ASSUME QueueTypeOK, NEW q \in QueueNames, PromoteDue(q), NEW p \in QueueNames, NEW j \in Ids,
         Once(p, j), ~(InList(p, j) /\ j \in DOMAIN delayed[p])
  PROVE  Once(p, j)' /\ ~(InList(p, j)' /\ j \in DOMAIN delayed'[p])
  <1>. USE DEF QueueTypeOK
  <1>0. PICK n \in 1..PromoteBatch : \E f \in [1..n -> Due(q)] :
          /\ \A i, k \in 1..n : i # k => f[i] # f[k]
          /\ work' = [work EXCEPT ![q] = @ \o f]
          /\ delayed' = [delayed EXCEPT ![q] =
                           [id \in {k \in DOMAIN @ : \A i \in 1..n : f[i] # k} |-> @[id]]]
    BY ZenonT(30), PromoteBatchAssumption DEF PromoteDue, IsPromotion
  <1>1. PICK f \in [1..n -> Due(q)] :
          /\ \A i, k \in 1..n : i # k => f[i] # f[k]
          /\ work' = [work EXCEPT ![q] = @ \o f]
          /\ delayed' = [delayed EXCEPT ![q] =
                           [id \in {k \in DOMAIN @ : \A i \in 1..n : f[i] # k} |-> @[id]]]
    BY ZenonT(30), <1>0
  <1>2. Due(q) \subseteq DOMAIN delayed[q] /\ Due(q) \subseteq Ids
    BY DEF Due
  <1>3. f \in Seq(Ids) /\ Len(f) = n /\ DOMAIN f = 1..n /\ n \in Nat
    <2>1. n \in Nat /\ n >= 1 /\ DOMAIN f = 1..n
      BY PromoteBatchAssumption
    <2>2. f \in Seq(Ids)
      BY <1>2, <2>1
    <2>3. 1..Len(f) = 1..n /\ Len(f) \in Nat
      BY <2>1, <2>2
    <2>4. n \in 1..Len(f)
      BY <2>1, <2>3
    <2>5. Len(f) \in 1..n
      BY <2>3, <2>4
    <2>. QED  BY <2>1, <2>2, <2>4, <2>5
  <1>. DEFINE m == Len(work[q])
  <1>4. /\ work[q] \in Seq(Ids) /\ m \in Nat /\ DOMAIN work[q] = 1..m
        /\ work'[q] = work[q] \o f /\ DOMAIN work'[q] = 1..(m + n)
    BY <1>1, <1>3
  <1>5. /\ \A i \in 1..m : work'[q][i] = work[q][i]
        /\ \A i \in 1..n : work'[q][m + i] = f[i]
    BY <1>3, <1>4
  <1>6. DOMAIN delayed'[q] = {k \in DOMAIN delayed[q] : \A i \in 1..n : f[i] # k}
    BY <1>1
  <1>. HIDE DEF m
  <1>7. \A i \in DOMAIN work'[q] : i \in DOMAIN work[q] \/ \E k \in 1..n : i = m + k
    <2>. SUFFICES ASSUME NEW i \in DOMAIN work'[q], i \notin DOMAIN work[q]
                  PROVE  \E k \in 1..n : i = m + k
      OBVIOUS
    <2>1. i - m \in 1..n /\ i = m + (i - m)
      BY <1>3, <1>4
    <2>. QED  BY <2>1
  <1>8. CASE p # q
    BY <1>1, <1>8 DEF Once, InList
  <1>9. CASE p = q
    <2>1. CASE InList(q, j)
      <3>1. \A i \in 1..n : f[i] # j
        BY <1>1, <1>2, <1>9, <2>1
      <3>2. \A i \in DOMAIN work'[q] : work'[q][i] = j => i \in DOMAIN work[q] /\ work[q][i] = j
        BY <1>4, <1>5, <1>7, <3>1
      <3>. QED  BY <1>6, <1>9, <2>1, <3>2 DEF Once, InList
    <2>2. CASE ~InList(q, j)
      <3>1. \A i \in DOMAIN work'[q] : work'[q][i] = j =>
               \E k \in 1..n : i = m + k /\ f[k] = j
        BY <1>4, <1>5, <1>7, <2>2 DEF InList
      <3>2. Once(q, j)'
        BY <1>1, <3>1 DEF Once
      <3>3. InList(q, j)' => j \notin DOMAIN delayed'[q]
        BY <1>6, <3>1 DEF InList
      <3>. QED  BY <1>9, <3>2, <3>3
    <2>. QED  BY <2>1, <2>2
  <1>. QED  BY <1>8, <1>9

(* A step after which id's places are some of those before, and its row's  *)
(* status the same.                                                        *)
Shrinks(id) ==
    /\ \A q \in QueueNames :
          /\ InList(q, id)' => InList(q, id)
          /\ Once(q, id)'
          /\ id \in DOMAIN delayed'[q] => id \in DOMAIN delayed[q]
    /\ \A r \in Requests : Pushes(r, id)' => Pushes(r, id)
    /\ \A w \in Workers : wk'[w].id = id => wk[w].id = id /\ wk'[w].pc = wk[w].pc
    /\ id \in DOMAIN jobs' <=> id \in DOMAIN jobs
    /\ id \in DOMAIN jobs => jobs'[id].status = jobs[id].status

LEMMA TokensShrink ==
  ASSUME NEW j \in Ids, OnePlace(j), TokenFits(j), Shrinks(j)
  PROVE  OnePlace(j)' /\ TokenFits(j)'
  <1>1. /\ Listed(j)' => Listed(j)
        /\ Delayed(j)' => Delayed(j)
        /\ Pushed(j)' => Pushed(j)
        /\ Held(j)' => Held(j)
    BY DEF Shrinks, Listed, Delayed, Pushed, Held
  <1>2. OnePlace(j)'
    <2>1. \A q \in QueueNames : Once(q, j)'
      BY DEF Shrinks
    <2>2. \A r, s \in Requests : Pushes(r, j)' /\ Pushes(s, j)' => r = s
      BY DEF Shrinks, OnePlace
    <2>3. \A v, w \in Workers : wk'[v].id = j /\ wk'[w].id = j => v = w
      BY DEF Shrinks, OnePlace
    <2>. QED  BY ZenonT(30), <1>1, <2>1, <2>2, <2>3 DEF OnePlace
  <1>3. TokenFits(j)'
    BY ZenonT(30), <1>1 DEF Shrinks, TokenFits, Nowhere, HasStatus
  <1>. QED  BY <1>2, <1>3

(* A worker's step.  The id a pop takes leaves its list; the one a retry   *)
(* parks leaves its worker.                                                *)
LEMMA WorkerKeepsOne ==
  ASSUME TypeOK, ExclusiveRun, OwnQueue, OneToken, NEW w \in Workers, WorkerNext(w),
         resends' = 0, NEW j \in Ids
  PROVE  OnePlace(j)' /\ TokenFits(j)'
  <1>. USE NoIdAssumption DEF TypeOK, WorkerTypeOK, WorkerState
  <1>. DEFINE held == wk[w].id
  <1>0. rq' = rq /\ \A r \in Requests : Pushes(r, j)' <=> Pushes(r, j)
    BY DEF WorkerNext, Pushes
  <1>p. Pushed(j)' <=> Pushed(j)
    BY <1>0 DEF Pushed
  <1>1. resends = 0 /\ ~ParkResend(w)
    BY DEF WorkerNext, WorkerStep, Dequeue, Claim, Skip, Complete, ScheduleRetry, GiveUp, Park,
           ParkResend, WorkerCrash, Crash, Resend, faultVars, FaultTypeOK
  <1>2. OnePlace(j) /\ TokenFits(j)
    BY <1>1 DEF OneToken
  <1>3. UNCHANGED queueVars =>
          /\ \A q \in QueueNames : (InList(q, j)' <=> InList(q, j)) /\ Once(q, j)'
          /\ \A q \in QueueNames : delayed'[q] = delayed[q]
          /\ (Listed(j)' <=> Listed(j)) /\ (Delayed(j)' <=> Delayed(j))
    BY <1>2 DEF queueVars, InList, Once, OnePlace, Listed, Delayed
  <1>4. CASE Dequeue(w)
    <2>1. PICK i \in DOMAIN Watched :
            Pop(Watched[i]) /\ wk' = [wk EXCEPT ![w].pc = "popped", ![w].id = Head(work[Watched[i]])]
      BY ZenonT(30), <1>4 DEF Dequeue
    <2>. DEFINE q == Watched[i]
                h == Head(work[q])
    <2>2. q \in QueueNames
      BY WorkerAssumption
    <2>3. jobs' = jobs /\ delayed' = delayed
      BY <1>4, <2>1 DEF Dequeue, storeVars, Pop
    <2>4. \A p \in QueueNames :
            (InList(p, j)' => InList(p, j)) /\ Once(p, j)' /\ (p = q /\ j = h => ~InList(p, j)')
      <3>. HIDE DEF q
      <3>. QED  BY <1>2, <2>1, <2>2, ListCommands, ListOnce DEF OnePlace, q
    <2>5. CASE j # h
      <3>1. Shrinks(j)
        BY <1>0, <2>1, <2>3, <2>4, <2>5 DEF Shrinks
      <3>. QED  BY <1>2, <3>1, TokensShrink
    <2>6. CASE j = h
      <3>1. InList(q, j)
        <4>1. work[q] \in Seq(Ids) /\ work[q] # <<>>
          BY <2>1, <2>2 DEF Pop, QueueTypeOK
        <4>. QED  BY <2>6, <4>1 DEF InList
      <3>2. Listed(j) /\ ~Delayed(j) /\ ~Pushed(j) /\ ~Held(j)
        BY <1>2, <2>2, <3>1 DEF OnePlace, Listed
      <3>3. \A p \in QueueNames : InList(p, j) => p = q
        BY <2>2, <3>1 DEF OwnQueue, InList
      <3>4. ~Listed(j)' /\ ~Delayed(j)' /\ ~Pushed(j)'
        BY <1>p, <2>3, <2>4, <2>6, <3>2, <3>3 DEF Listed, Delayed
      <3>5. \A v \in Workers : wk'[v].id = j => v = w
        BY <2>1, <3>2 DEF Held
      <3>6. OnePlace(j)'
        BY ZenonT(30), <1>0, <1>2, <2>4, <3>4, <3>5 DEF OnePlace
      <3>7. j \in DOMAIN jobs /\ jobs[j].status \notin {"completed", "failed", "processing"}
        BY <1>2, <3>2 DEF TokenFits, Nowhere, HasStatus
      <3>8. TokenFits(j)'
        BY <2>3, <3>7 DEF TokenFits, HasStatus
      <3>. QED  BY <3>6, <3>8
    <2>. QED  BY <2>5, <2>6
  <1>5. CASE Park(w)
    <2>. DEFINE q == jobs[held].queue_name
    <2>1. held \in DOMAIN jobs /\ held \in Ids /\ q \in QueueNames /\ wk[w].pc = "parking"
      BY <1>5 DEF Park, HoldsRow, StoreTypeOK, Row
    <2>2. jobs' = jobs /\ work' = work /\ wk' = [wk EXCEPT ![w] = Idle]
      BY <1>5 DEF Park, storeVars, EnqueueDelayed
    <2>3. \A p \in QueueNames :
            j \in DOMAIN delayed'[p] <=> j \in DOMAIN delayed[p] \/ (p = q /\ j = held)
      BY <1>5, <2>1 DEF Park, EnqueueDelayed, QueueTypeOK
    <2>4. \A p \in QueueNames : (InList(p, j)' <=> InList(p, j)) /\ Once(p, j)'
      BY <1>2, <2>2 DEF InList, Once, OnePlace
    <2>5. CASE j # held
      <3>1. \A v \in Workers : wk'[v].id = j => wk[v].id = j /\ wk'[v].pc = wk[v].pc
        BY <2>2 DEF Idle
      <3>2. Shrinks(j)
        BY ZenonT(30), <1>0, <2>2, <2>3, <2>4, <2>5, <3>1 DEF Shrinks
      <3>. QED  BY <1>2, <3>2, TokensShrink
    <2>6. CASE j = held
      <3>1. Held(j) /\ ~Listed(j) /\ ~Pushed(j)
        BY <1>2, <2>6 DEF Held, OnePlace
      <3>2. ~Held(j)' /\ ~Listed(j)' /\ ~Pushed(j)'
        BY <1>2, <1>p, <2>2, <2>4, <2>6, <3>1 DEF Held, Listed, OnePlace, Idle
      <3>3. \A v \in Workers : wk'[v].id # j
        BY <3>2 DEF Held
      <3>4. OnePlace(j)'
        BY ZenonT(30), <1>0, <1>2, <2>4, <3>2, <3>3 DEF OnePlace
      <3>5. j \in DOMAIN jobs /\ jobs[j].status \notin {"completed", "failed", "processing"}
        BY <1>2, <2>1, <2>6, <3>1 DEF TokenFits, Nowhere, HasStatus
      <3>6. TokenFits(j)'
        BY <2>2, <3>5 DEF TokenFits, HasStatus
      <3>. QED  BY <3>4, <3>6
    <2>. QED  BY <2>5, <2>6
  <1>6. CASE Skip(w) \/ WorkerCrash(w)
    <2>1. UNCHANGED queueVars /\ jobs' = jobs /\ wk' = [wk EXCEPT ![w] = Idle]
      BY <1>6 DEF Skip, WorkerCrash, storeVars
    <2>2. \A v \in Workers : wk'[v].id = j => wk[v].id = j /\ wk'[v].pc = wk[v].pc
      BY <2>1 DEF Idle
    <2>3. Shrinks(j)
      BY ZenonT(30), <1>0, <1>3, <2>1, <2>2 DEF Shrinks
    <2>. QED  BY <1>2, <2>3, TokensShrink
  <1>7. CASE Claim(w) \/ Complete(w) \/ ScheduleRetry(w) \/ GiveUp(w)
    <2>1. UNCHANGED queueVars /\ held \in DOMAIN jobs /\ held \in Ids
      BY <1>7 DEF Claim, ClaimJob, HasStatus, Complete, ScheduleRetry, GiveUp, HoldsRow, StoreTypeOK
    <2>2. CASE j # held
      <3>1. \A v \in Workers : wk'[v].id = j => wk[v].id = j /\ wk'[v].pc = wk[v].pc
        BY <1>7, <2>2 DEF Claim, Complete, ScheduleRetry, GiveUp, Idle
      <3>2. /\ j \in DOMAIN jobs' <=> j \in DOMAIN jobs
            /\ j \in DOMAIN jobs => jobs'[j].status = jobs[j].status
        BY ZenonT(30), <1>7, <2>2 DEF Claim, ClaimJob, Complete, MarkCompleted, ScheduleRetry, MarkForRetry,
                          GiveUp, DeadLetter, StoreTypeOK
      <3>3. Shrinks(j)
        BY ZenonT(30), <1>0, <1>3, <2>1, <3>1, <3>2 DEF Shrinks
      <3>. QED  BY <1>2, <3>3, TokensShrink
    <2>3. CASE j = held
      <3>1. Held(j) /\ ~Listed(j) /\ ~Delayed(j) /\ ~Pushed(j)
        BY <1>2, <2>3 DEF Held, OnePlace
      <3>2. ~Listed(j)' /\ ~Delayed(j)' /\ ~Pushed(j)'
        BY <1>3, <1>p, <2>1, <3>1
      <3>3. \A v \in Workers : wk'[v].id = j => v = w
        BY <1>2, <1>7, <2>3 DEF OnePlace, Claim, Complete, ScheduleRetry, GiveUp, Idle
      <3>4. OnePlace(j)'
        BY ZenonT(30), <1>0, <1>2, <1>3, <2>1, <3>2, <3>3 DEF OnePlace
      <3>5. CASE Claim(w)
        <4>1. wk'[w].pc = "running" /\ j \in DOMAIN jobs' /\ jobs'[j].status = "processing"
          BY <2>1, <2>3, <3>5 DEF Claim, ClaimJob, StoreTypeOK, Row
        <4>. QED  BY <3>2, <3>3, <3>4, <4>1 DEF TokenFits, HasStatus
      <3>6. CASE Complete(w) \/ GiveUp(w)
        <4>1. wk'[w].id # j
          BY <3>6 DEF Complete, GiveUp, Idle
        <4>2. ~Held(j)'
          BY <3>3, <4>1 DEF Held
        <4>. HIDE DEF held
        <4>3. Nowhere(j)'
          BY <3>2, <4>2 DEF Nowhere
        <4>4. jobs'[j].status \in {"completed", "failed"}
          BY <2>1, <2>3, <3>6 DEF held, Complete, MarkCompleted, GiveUp, DeadLetter, StoreTypeOK, Row
        <4>. QED  BY <3>4, <4>3, <4>4 DEF TokenFits, HasStatus
      <3>7. CASE ScheduleRetry(w)
        <4>1. j \in DOMAIN jobs' /\ jobs'[j].status = "pending"
          BY <2>1, <2>3, <3>7 DEF ScheduleRetry, MarkForRetry, StoreTypeOK, Row
        <4>. QED  BY <3>4, <4>1 DEF TokenFits, HasStatus
      <3>. QED  BY <1>7, <3>5, <3>6, <3>7
    <2>. QED  BY <2>2, <2>3
  <1>. QED  BY <1>1, <1>4, <1>5, <1>6, <1>7 DEF WorkerNext, WorkerStep

(* A request's step.  A submit finds an id that is nowhere, since it has   *)
(* no row; a retry one whose job has failed.                               *)
LEMMA RequestKeepsOne ==
  ASSUME TypeOK, OneToken, NEW r \in Requests, RequestNext(r), resends' = 0, NEW j \in Ids
  PROVE  OnePlace(j)' /\ TokenFits(j)'
  <1>. USE NoIdAssumption DEF TypeOK, ApiTypeOK, RequestState
  <1>. DEFINE held == rq[r].id
  <1>0. wk' = wk /\ (Held(j)' <=> Held(j))
    BY DEF RequestNext, Held
  <1>1. resends = 0 /\ ~PushResend(r)
    BY DEF RequestNext, RequestBegin, RequestStep, Submit, retryJob, cancelJob, Push, PushResend,
           RemoveLrem, RemoveZrem, RequestAbort, Abort, Resend, faultVars, FaultTypeOK
  <1>2. OnePlace(j) /\ TokenFits(j)
    BY <1>1 DEF OneToken
  <1>3. UNCHANGED queueVars =>
          /\ \A q \in QueueNames : (InList(q, j)' <=> InList(q, j)) /\ Once(q, j)'
          /\ \A q \in QueueNames : delayed'[q] = delayed[q]
          /\ (Listed(j)' <=> Listed(j)) /\ (Delayed(j)' <=> Delayed(j))
    BY <1>2 DEF queueVars, InList, Once, OnePlace, Listed, Delayed
  <1>h. rq[r].pc # "idle" =>
          held \in DOMAIN jobs /\ held \in Ids /\ jobs[held].queue_name \in QueueNames
    BY DEF HoldsRow, StoreTypeOK, Row
  <1>4. ASSUME NEW id \in Ids, NEW t \in Tenants,
               \/ \E q \in QueueNames, b \in Budgets : Submit(r, id, t, q, b)
               \/ retryJob(r, id, t)
        PROVE  OnePlace(j)' /\ TokenFits(j)'
    <2>1. /\ rq' = [rq EXCEPT ![r] = [pc |-> "push", id |-> id]]
          /\ UNCHANGED queueVars
      BY <1>4 DEF Submit, retryJob
    <2>2. CASE j # id
      <3>1. \A s \in Requests : Pushes(s, j)' => Pushes(s, j)
        BY <2>1, <2>2 DEF Pushes
      <3>2. /\ j \in DOMAIN jobs' <=> j \in DOMAIN jobs
            /\ j \in DOMAIN jobs => jobs'[j].status = jobs[j].status
        BY <1>4, <2>2 DEF Submit, CreateJob, retryJob, RetryJob, Reset, StoreTypeOK
      <3>3. Shrinks(j)
        BY ZenonT(30), <1>0, <1>3, <2>1, <3>1, <3>2 DEF Shrinks
      <3>. QED  BY <1>2, <3>3, TokensShrink
    <2>3. CASE j = id
      <3>1. j \notin DOMAIN jobs \/ jobs[j].status = "failed"
        BY <1>4, <2>3 DEF Submit, CreateJob, retryJob, RetryJob, HasStatus
      <3>2. ~Listed(j)' /\ ~Delayed(j)' /\ ~Held(j)' /\ ~Pushed(j)
        BY ZenonT(30), <1>0, <1>2, <1>3, <2>1, <3>1 DEF TokenFits, Nowhere
      <3>3. \A s \in Requests : Pushes(s, j)' => s = r
        BY <2>1, <3>2 DEF Pushed, Pushes
      <3>4. OnePlace(j)'
        BY ZenonT(30), <1>0, <1>2, <1>3, <2>1, <3>2, <3>3 DEF OnePlace
      <3>5. j \in DOMAIN jobs' /\ jobs'[j].status = "pending"
        BY <1>4, <2>3
        DEF Submit, CreateJob, NewRow, retryJob, RetryJob, Reset, HasStatus, StoreTypeOK, Row
      <3>. QED  BY <3>4, <3>5 DEF TokenFits, HasStatus
    <2>. QED  BY <2>2, <2>3
  <1>5. ASSUME NEW id \in Ids, NEW t \in Tenants, cancelJob(r, id, t)
        PROVE  OnePlace(j)' /\ TokenFits(j)'
    <2>1. /\ UNCHANGED queueVars
          /\ \A s \in Requests : Pushes(s, j)' => Pushes(s, j)
      BY <1>5 DEF cancelJob, Pushes
    <2>2. CASE j # id
      <3>1. /\ j \in DOMAIN jobs' <=> j \in DOMAIN jobs
            /\ j \in DOMAIN jobs => jobs'[j].status = jobs[j].status
        BY <1>5, <2>2 DEF cancelJob, CancelJob, StoreTypeOK
      <3>2. Shrinks(j)
        BY ZenonT(30), <1>0, <1>3, <2>1, <3>1 DEF Shrinks
      <3>. QED  BY <1>2, <3>2, TokensShrink
    <2>3. CASE j = id
      <3>1. j \in DOMAIN jobs' /\ jobs'[j].status = "cancelled"
        BY <1>5, <2>3 DEF cancelJob, CancelJob, HasStatus, StoreTypeOK, Row
      <3>2. Pushed(j)' => Pushed(j)
        BY <2>1 DEF Pushed
      <3>3. OnePlace(j)'
        BY ZenonT(30), <1>0, <1>2, <1>3, <2>1, <3>2 DEF OnePlace
      <3>. QED  BY ZenonT(30), <3>1, <3>3 DEF TokenFits, HasStatus
    <2>. QED  BY <2>2, <2>3
  <1>6. CASE Push(r)
    <2>. DEFINE q == jobs[held].queue_name
    <2>1. held \in DOMAIN jobs /\ held \in Ids /\ q \in QueueNames /\ Pushes(r, held)
      BY <1>6, <1>h DEF Push, Pushes
    <2>2. /\ jobs' = jobs /\ delayed' = delayed /\ Enqueue(q, held)
          /\ rq' = [rq EXCEPT ![r] = NoRequest]
      BY <1>6 DEF Push, storeVars, Enqueue, queueOf
    <2>3. \A s \in Requests : Pushes(s, j)' => Pushes(s, j) /\ s # r
      BY <2>2 DEF Pushes, NoRequest
    <2>. HIDE DEF held, q
    <2>4. \A p \in QueueNames : InList(p, j)' <=> InList(p, j) \/ (p = q /\ j = held)
      BY <2>1, <2>2, ListCommands
    <2>5. CASE j # held
      <3>1. \A p \in QueueNames : Once(p, j)'
        BY ZenonT(30), <1>2, <2>1, <2>2, <2>5, ListOnce DEF OnePlace
      <3>2. Shrinks(j)
        BY <1>0, <2>2, <2>3, <2>4, <2>5, <3>1 DEF Shrinks
      <3>. QED  BY <1>2, <3>2, TokensShrink
    <2>6. CASE j = held
      <3>1. Pushed(j) /\ ~Listed(j) /\ ~Delayed(j) /\ ~Held(j)
        BY <1>2, <2>1, <2>6 DEF Pushed, OnePlace
      <3>2. \A p \in QueueNames : Once(p, j)'
        BY ZenonT(30), <1>2, <2>1, <2>2, <3>1, ListOnce DEF OnePlace, Listed
      <3>3. \A s \in Requests : ~Pushes(s, j)'
        BY <1>2, <2>1, <2>3, <2>6 DEF OnePlace
      <3>4. ~Delayed(j)' /\ ~Held(j)' /\ ~Pushed(j)'
        BY <1>0, <2>2, <3>1, <3>3 DEF Delayed, Pushed
      <3>5. OnePlace(j)'
        BY ZenonT(30), <1>0, <1>2, <3>2, <3>3, <3>4 DEF OnePlace
      <3>6. j \in DOMAIN jobs /\ jobs[j].status \notin {"completed", "failed", "processing"}
        BY <1>2, <3>1 DEF TokenFits, Nowhere, HasStatus
      <3>. QED  BY <2>2, <3>5, <3>6 DEF TokenFits, HasStatus
    <2>. QED  BY <2>5, <2>6
  <1>7. CASE RemoveLrem(r) \/ RemoveZrem(r)
    <2>. DEFINE q == jobs[held].queue_name
    <2>1. /\ held \in Ids /\ q \in QueueNames /\ jobs' = jobs
          /\ RemoveFromList(q, held) \/ RemoveFromDelayed(q, held)
      BY <1>7, <1>h DEF RemoveLrem, RemoveZrem, storeVars, queueOf
    <2>2. \A s \in Requests : Pushes(s, j)' => Pushes(s, j)
      BY <1>7 DEF RemoveLrem, RemoveZrem, NoRequest, Pushes
    <2>. HIDE DEF held, q
    <2>3. CASE RemoveFromList(q, held)
      <3>1. \A p \in QueueNames : (InList(p, j)' => InList(p, j)) /\ Once(p, j)'
        BY ZenonT(30), <1>2, <2>1, <2>3, ListCommands, ListOnce DEF OnePlace
      <3>2. delayed' = delayed
        BY <2>3 DEF RemoveFromList
      <3>3. Shrinks(j)
        BY ZenonT(30), <1>0, <2>1, <2>2, <3>1, <3>2 DEF Shrinks
      <3>. QED  BY <1>2, <3>3, TokensShrink
    <2>4. CASE RemoveFromDelayed(q, held)
      <3>1. \A p \in QueueNames : (InList(p, j)' => InList(p, j)) /\ Once(p, j)'
        <4>1. work' = work
          BY <2>4 DEF RemoveFromDelayed
        <4>. QED  BY ZenonT(30), <1>2, <4>1 DEF InList, Once, OnePlace
      <3>2. \A p \in QueueNames : j \in DOMAIN delayed'[p] => j \in DOMAIN delayed[p]
        BY <2>1, <2>4 DEF RemoveFromDelayed, QueueTypeOK
      <3>3. Shrinks(j)
        BY <1>0, <2>1, <2>2, <3>1, <3>2 DEF Shrinks
      <3>. QED  BY <1>2, <3>3, TokensShrink
    <2>. QED  BY <2>1, <2>3, <2>4
  <1>8. CASE RequestAbort(r)
    <2>1. UNCHANGED queueVars /\ jobs' = jobs /\ \A s \in Requests : Pushes(s, j)' => Pushes(s, j)
      BY <1>8 DEF RequestAbort, storeVars, NoRequest, Pushes
    <2>2. Shrinks(j)
      BY ZenonT(30), <1>0, <1>3, <2>1 DEF Shrinks
    <2>. QED  BY <1>2, <2>2, TokensShrink
  <1>9. CASE RequestBegin(r)
    BY <1>4, <1>5, <1>9 DEF RequestBegin
  <1>. QED  BY <1>1, <1>6, <1>7, <1>8, <1>9 DEF RequestNext, RequestStep

LEMMA InitOneToken == Init => OneToken
  <1>. SUFFICES ASSUME Init, NEW id \in Ids PROVE OnePlace(id) /\ TokenFits(id)
    BY ZenonT(30) DEF OneToken
  <1>1. ~Listed(id) /\ ~Delayed(id) /\ \A q \in QueueNames : Once(q, id)
    BY DEF Init, QueueInit, Listed, InList, Delayed, Once
  <1>2. \A r \in Requests : ~Pushes(r, id)
    BY DEF Init, ApiInit, NoRequest, Pushes
  <1>3. \A w \in Workers : wk[w].id # id
    BY NoIdAssumption DEF Init, WorkerInit, Idle
  <1>4. id \notin DOMAIN jobs
    BY DEF Init, StoreInit
  <1>. QED
    BY <1>1, <1>2, <1>3, <1>4 DEF OnePlace, TokenFits, Nowhere, Pushed, Held, HasStatus

LEMMA NextKeepsOne == TypeOK /\ ExclusiveRun /\ OwnQueue /\ OneToken /\ [Next]_vars => OneToken'
  <1>. SUFFICES ASSUME TypeOK, ExclusiveRun, OwnQueue, OneToken, [Next]_vars, resends' = 0,
                       NEW j \in Ids
                PROVE  OnePlace(j)' /\ TokenFits(j)'
    BY DEF OneToken
  <1>1. ASSUME NEW i \in DOMAIN Watched, Poll(i)
        PROVE  OnePlace(j)' /\ TokenFits(j)'
    <2>1. Watched[i] \in QueueNames /\ QueueTypeOK /\ PromoteDue(Watched[i])
      BY <1>1, WorkerAssumption DEF Poll, TypeOK
    <2>2. jobs' = jobs /\ wk' = wk /\ rq' = rq /\ OnePlace(j) /\ TokenFits(j)
      BY <1>1 DEF Poll, storeVars, faultVars, OneToken
    <2>3. \A p \in QueueNames :
            Once(p, j)' /\ (InList(p, j)' => j \notin DOMAIN delayed'[p])
      BY ZenonT(30), <2>1, <2>2, PromoteOnce DEF OnePlace, Listed, Delayed
    <2>4. \A p \in QueueNames : InQueue(p, j)' <=> InQueue(p, j)
      BY <2>1, PromoteMoves
    <2>5. /\ Listed(j)' \/ Delayed(j)' <=> Listed(j) \/ Delayed(j)
          /\ Pushed(j)' <=> Pushed(j)
          /\ Held(j)' <=> Held(j)
      BY <2>2, <2>4 DEF InQueue, Listed, Delayed, Pushed, Pushes, Held
    <2>6. \A p, q \in QueueNames : InQueue(p, j) /\ InQueue(q, j) => p = q
      BY DEF OwnQueue, InQueue, InList
    <2>7. Listed(j)' => ~Delayed(j)'
      BY <2>3, <2>4, <2>6 DEF InQueue, Listed, Delayed
    <2>8. OnePlace(j)'
      BY ZenonT(30), <2>2, <2>3, <2>5, <2>7 DEF OnePlace, Pushes
    <2>9. TokenFits(j)'
      BY ZenonT(30), <2>2, <2>5 DEF TokenFits, Nowhere, HasStatus
    <2>. QED  BY <2>8, <2>9
  <1>2. CASE Tick
    <2>1. jobs' = jobs /\ work' = work /\ rq' = rq /\ OnePlace(j) /\ TokenFits(j)
      BY <1>2 DEF Tick, storeVars, faultVars, OneToken
    <2>2. \A w \in Workers : wk'[w].id = wk[w].id /\ wk'[w].pc = wk[w].pc
      BY <1>2 DEF Tick, TypeOK, WorkerTypeOK, WorkerState
    <2>3. \A q \in QueueNames : DOMAIN delayed'[q] = DOMAIN delayed[q]
      BY <1>2 DEF Tick
    <2>4. Shrinks(j)
      BY ZenonT(30), <2>1, <2>2, <2>3 DEF Shrinks, InList, Once, Pushes, OnePlace
    <2>. QED  BY <2>1, <2>4, TokensShrink
  <1>3. CASE UNCHANGED vars
    <2>1. OnePlace(j) /\ TokenFits(j)
      BY <1>3 DEF vars, OneToken
    <2>2. Shrinks(j)
      BY <1>3, <2>1 DEF vars, Shrinks, InList, Once, Pushes, OnePlace
    <2>. QED  BY <2>1, <2>2, TokensShrink
  <1>. QED  BY <1>1, <1>2, <1>3, WorkerKeepsOne, RequestKeepsOne DEF Next

(* While no Redis write was sent twice, a job's id is in at most one list  *)
(* or sorted set, once, or with one process, for any number of jobs,       *)
(* queues, workers, requests, crashes and aborts: the promote script,      *)
(* Park, and the LPUSH after a submit and a reset never double it.         *)
THEOREM TokensStaySingle == Spec => []SingleToken
  <1>1. OwnQueue /\ OneToken => SingleToken
    <2>. SUFFICES ASSUME OwnQueue, OneToken, resends = 0, NEW id \in Ids
                  PROVE  \A x, y \in TokensOf(id) : x = y
      BY DEF SingleToken
    <2>. DEFINE D == {q \in QueueNames : id \in DOMAIN delayed[q]}
                P == {r \in Requests : rq[r].pc = "push" /\ rq[r].id = id}
                H == {w \in Workers : wk[w].id = id}
    <2>1. OnePlace(id)
      BY DEF OneToken
    <2>2. \A x \in Places(id) : \E q \in QueueNames : \E i \in DOMAIN work[q] :
            x = <<q, i>> /\ work[q][i] = id
      BY DEF Places
    <2>3. \A x, y \in Places(id) : x = y
      <3>. SUFFICES ASSUME NEW x \in Places(id), NEW y \in Places(id)
                    PROVE  x = y
        OBVIOUS
      <3>1. PICK q \in QueueNames : \E i \in DOMAIN work[q] : x = <<q, i>> /\ work[q][i] = id
        BY <2>2
      <3>2. PICK p \in QueueNames : \E i \in DOMAIN work[p] : y = <<p, i>> /\ work[p][i] = id
        BY <2>2
      <3>3. p = q
        BY <3>1, <3>2 DEF OwnQueue
      <3>. QED  BY <2>1, <3>1, <3>2, <3>3 DEF OnePlace, Once
    <2>4. \A x, y \in D : x = y
      BY DEF OwnQueue
    <2>5. (\A x, y \in P : x = y) /\ (\A x, y \in H : x = y)
      BY ZenonT(30), <2>1 DEF OnePlace, Pushes
    <2>6. /\ Places(id) # {} => Listed(id)
          /\ D # {} => Delayed(id)
          /\ P # {} => Pushed(id)
          /\ H # {} => Held(id)
      BY <2>2 DEF Listed, InList, Delayed, Pushed, Pushes, Held
    <2>7. /\ Places(id) # {} => D = {} /\ P = {} /\ H = {}
          /\ D # {} => P = {} /\ H = {}
          /\ P # {} => H = {}
      BY <2>1, <2>6 DEF OnePlace
    <2>8. TokensOf(id) = ({"list"} \X Places(id)) \cup ({"set"} \X D)
                       \cup ({"request"} \X P) \cup ({"worker"} \X H)
      BY ZenonT(30) DEF TokensOf
    <2>. QED
      <3>. HIDE DEF D, P, H
      <3>. QED  BY <2>3, <2>4, <2>5, <2>7, <2>8
  <1>. QED  BY <1>1, InitOneToken, NextKeepsOne, Reachable, IdsStayInTheirQueue, PTL DEF Spec
=============================================================================
