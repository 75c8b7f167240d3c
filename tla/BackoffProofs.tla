---------------------------- MODULE BackoffProofs ---------------------------
(***************************************************************************)
(* Proofs about how long a failed job rests and about the retry policy,    *)
(* and the theorems about attempts, for any number of jobs, workers,       *)
(* requests, queues, faults and failures.                                  *)
(***************************************************************************)
EXTENDS AttemptsProofs

(* The solvers' time limit, in seconds, where a leaf names no prover.      *)
USE SMTT(30)

(* Rests.  While no write was sent twice, a pending job's only token shows *)
(* what is left of its rest: the score of a delayed id, the runAt of one   *)
(* about to be delayed; and a token on its way to a worker means that the  *)
(* rest is over.                                                           *)
Ready(id) ==
    \/ Listed(id) \/ Pushed(id)
    \/ \E w \in Workers : wk[w].pc = "popped" /\ wk[w].id = id

RestShown(id) ==
    /\ id \notin DOMAIN jobs => rest[id] = 0
    /\ HasStatus(id, "pending") =>
          /\ \A q \in QueueNames : id \in DOMAIN delayed[q] => delayed[q][id] = rest[id]
          /\ \A w \in Workers : wk[w].pc = "parking" /\ wk[w].id = id => wk[w].delay = rest[id]
          /\ Ready(id) => rest[id] = 0

RestsShown == resends = 0 => \A id \in Ids : RestShown(id)

SameStatus(id) ==
    /\ id \in DOMAIN jobs' <=> id \in DOMAIN jobs
    /\ id \in DOMAIN jobs => jobs'[id].status = jobs[id].status

(* A step that touches neither the status nor the rest of id and gives its *)
(* token no new place but one that is ready when the old one is.           *)
Calm(id) ==
    /\ SameStatus(id)
    /\ rest'[id] = rest[id]
    /\ \A q \in QueueNames : id \in DOMAIN delayed'[q] =>
          id \in DOMAIN delayed[q] /\ delayed'[q][id] = delayed[q][id]
    /\ \A w \in Workers : wk'[w].pc = "parking" /\ wk'[w].id = id =>
          wk[w].pc = "parking" /\ wk[w].id = id /\ wk'[w].delay = wk[w].delay
    /\ Ready(id)' => Ready(id)

LEMMA CalmKeeps ==
  ASSUME NEW j \in Ids, RestShown(j), Calm(j)
  PROVE  RestShown(j)'
  <1>1. j \notin DOMAIN jobs' => rest'[j] = 0
    BY ZenonT(30) DEF RestShown, Calm, SameStatus
  <1>2. ASSUME HasStatus(j, "pending")'
        PROVE  /\ \A q \in QueueNames : j \in DOMAIN delayed'[q] => delayed'[q][j] = rest'[j]
               /\ \A w \in Workers : wk'[w].pc = "parking" /\ wk'[w].id = j => wk'[w].delay = rest'[j]
               /\ Ready(j)' => rest'[j] = 0
    <2>1. HasStatus(j, "pending")
      BY <1>2 DEF Calm, SameStatus, HasStatus
    <2>. QED  BY ZenonT(30), <2>1 DEF RestShown, Calm
  <1>. QED  BY <1>1, <1>2 DEF RestShown

LEMMA RestStays ==
  ASSUME NEW j \in Ids, rest \in [Ids -> 0..MaxBackoff],
         rest' = [id \in Ids |-> RestAfter(id)], SameStatus(j)
  PROVE  rest'[j] = rest[j]
  BY DEF RestAfter, SameStatus, HasStatus

(* A row that is there and not pending owes nothing.                       *)
LEMMA NoRestToShow ==
  ASSUME NEW j \in Ids, j \in DOMAIN jobs', jobs'[j].status # "pending"
  PROVE  RestShown(j)'
  BY DEF RestShown, HasStatus

LEMMA PromoteTimes ==
  ASSUME QueueTypeOK, NEW q \in QueueNames, PromoteDue(q), NEW p \in QueueNames, NEW j \in Ids
  PROVE  /\ j \in DOMAIN delayed'[p] =>
               j \in DOMAIN delayed[p] /\ delayed'[p][j] = delayed[p][j]
         /\ j \in DOMAIN delayed[p] /\ j \notin DOMAIN delayed'[p] => delayed[p][j] = 0
  <1>1. PICK n \in 1..PromoteBatch : \E f \in [1..n -> Due(q)] :
          delayed' = [delayed EXCEPT ![q] =
                        [id \in {k \in DOMAIN @ : \A i \in 1..n : f[i] # k} |-> @[id]]]
    BY ZenonT(30), PromoteBatchAssumption DEF PromoteDue
  <1>2. PICK f \in [1..n -> Due(q)] :
          delayed' = [delayed EXCEPT ![q] =
                        [id \in {k \in DOMAIN @ : \A i \in 1..n : f[i] # k} |-> @[id]]]
    BY ZenonT(30), <1>1
  <1>. QED  BY <1>2 DEF QueueTypeOK, Due

LEMMA ParkRests ==
  ASSUME Pipeline, NEW w \in Workers, Park(w),
         NEW j \in Ids, RestShown(j), OnePlace(j), TokenFits(j),
         rest \in [Ids -> 0..MaxBackoff], rest' = [id \in Ids |-> RestAfter(id)],
         jobs \in [DOMAIN jobs -> Row], QueueTypeOK,
         wk \in [Workers -> WorkerState],
         UNCHANGED work => (Listed(j)' <=> Listed(j)), Pushed(j)' <=> Pushed(j)
  PROVE  RestShown(j)'
  <1>. DEFINE held == wk[w].id
  <1>. DEFINE q == jobs[held].queue_name
  <1>1. held \in DOMAIN jobs /\ held \in Ids /\ q \in QueueNames
    BY DEF Park, Pipeline, TypeOK, HoldsRow, StoreTypeOK, Row
  <1>2. /\ wk'[w].pc = "idle" /\ wk[w].pc = "parking"
        /\ \A v \in Workers \ {w} : wk'[v] = wk[v]
        /\ UNCHANGED <<jobs, work>>
        /\ EnqueueDelayed(q, held, wk[w].delay)
    BY DEF Park, EnqueueDelayed, Idle, WorkerState, storeVars
  <1>3. \A p \in QueueNames : j \in DOMAIN delayed'[p] =>
          \/ p = q /\ j = held /\ delayed'[p][j] = wk[w].delay
          \/ j \in DOMAIN delayed[p] /\ delayed'[p][j] = delayed[p][j]
    <2>. HIDE DEF q, held
    <2>. QED  BY <1>1, <1>2 DEF EnqueueDelayed, QueueTypeOK
  <1>4. rest'[j] = rest[j]
    BY <1>2, RestStays DEF SameStatus
  <1>5. Ready(j)' => Ready(j)
    BY ZenonT(30), <1>2 DEF Ready
  <1>6. CASE j # held
    <2>1. Calm(j)
      BY <1>2, <1>3, <1>4, <1>5, <1>6 DEF Calm, SameStatus
    <2>. QED  BY <2>1, CalmKeeps
  <1>7. CASE j = held
    <2>1. \A p \in QueueNames : j \notin DOMAIN delayed[p]
      BY ZenonT(30), <1>7 DEF OnePlace, Held, Delayed
    <2>2. \A v \in Workers \ {w} : wk'[v].id # j
      BY ZenonT(30), <1>2, <1>7 DEF OnePlace
    <2>3. HasStatus(j, "pending")' => HasStatus(j, "pending")
      BY <1>2 DEF HasStatus
    <2>4. j \in DOMAIN jobs'
      BY <1>1, <1>2, <1>7
    <2>5. ASSUME HasStatus(j, "pending")
          PROVE  wk[w].delay = rest[j] /\ (Ready(j) => rest[j] = 0)
      BY ZenonT(30), <1>2, <1>7, <2>5 DEF RestShown
    <2>. QED
      BY ZenonT(30), <1>2, <1>3, <1>4, <1>5, <2>1, <2>2, <2>3, <2>4, <2>5 DEF RestShown
  <1>. QED  BY <1>6, <1>7

LEMMA RetriedRow ==
  ASSUME jobs \in [DOMAIN jobs -> Row], NEW id \in DOMAIN jobs, NEW n \in Nat \ {0},
         MarkForRetry(id, n)
  PROVE  jobs'[id].status = "pending" /\ jobs'[id].retry_count = n
  BY ZenonT(30) DEF MarkForRetry, Row

LEMMA SettleRests ==
  ASSUME Pipeline, NEW w \in Workers, settle(w),
         NEW j \in Ids, RestShown(j), OnePlace(j), TokenFits(j),
         rest \in [Ids -> 0..MaxBackoff], rest' = [id \in Ids |-> RestAfter(id)],
         jobs \in [DOMAIN jobs -> Row], QueueTypeOK,
         wk \in [Workers -> WorkerState],
         UNCHANGED work => (Listed(j)' <=> Listed(j)), Pushed(j)' <=> Pushed(j)
  PROVE  RestShown(j)'
  <1>. DEFINE held == wk[w].id
  <1>1. /\ held \in DOMAIN jobs /\ wk[w].pc = "running" /\ HasStatus(held, "processing")
        /\ wk[w].retry_count = jobs[held].retry_count /\ held \in Ids
    BY
    DEF settle, Complete, GiveUp, ScheduleRetry, Pipeline, TypeOK, HoldsRow, StoreTypeOK,
        ExclusiveRun, Runs
  <1>2. /\ \A v \in Workers \ {w} : wk'[v] = wk[v]
        /\ wk'[w].pc # "popped"
        /\ wk'[w].pc = "parking" => wk'[w].id = held
        /\ j # held => SameStatus(j)
        /\ held \in DOMAIN jobs'
        /\ UNCHANGED <<work, delayed>>
    BY <1>1
    DEF settle, Complete, GiveUp, ScheduleRetry, MarkCompleted, DeadLetter, MarkForRetry, Idle,
        WorkerState, SameStatus, queueVars
  <1>3. Ready(j)' => Ready(j)
    BY ZenonT(30), <1>2 DEF Ready
  <1>4. CASE j # held
    <2>1. Calm(j)
      BY <1>2, <1>3, <1>4, RestStays DEF Calm
    <2>. QED  BY <2>1, CalmKeeps
  <1>5. CASE j = held /\ (Complete(w) \/ GiveUp(w))
    <2>1. jobs'[j].status # "pending"
      BY <1>1, <1>5 DEF Complete, GiveUp, MarkCompleted, DeadLetter, Row
    <2>. QED  BY ZenonT(30), <1>2, <1>5, <2>1, NoRestToShow
  <1>6. CASE j = held /\ ScheduleRetry(w)
    <2>. DEFINE n == jobs[held].retry_count + 1
    <2>1. n \in Nat \ {0} /\ attempts(w) = n
      BY <1>1 DEF attempts, Row
    <2>2. /\ jobs'[held].status = "pending" /\ jobs'[held].retry_count = n
          /\ wk'[w].delay = backoffFor(n)
      <3>. DEFINE d == backoffFor(n)
      <3>1. MarkForRetry(held, n) /\ wk' = [wk EXCEPT ![w].pc = "parking", ![w].delay = d]
        BY ZenonT(30), <1>6, <2>1 DEF ScheduleRetry
      <3>. HIDE DEF n, d
      <3>2. jobs'[held].status = "pending" /\ jobs'[held].retry_count = n
        BY ZenonT(30), <1>1, <2>1, <3>1, RetriedRow
      <3>3. wk'[w].delay = d
        BY <3>1 DEF WorkerState
      <3>. QED  BY <3>2, <3>3 DEF d
    <2>3. rest'[j] = wk'[w].delay
      <3>1. RestAfter(held) = Policy[n]
        BY ZenonT(30), <1>1, <2>2 DEF RestAfter
      <3>. QED  BY ZenonT(30), <1>6, <2>1, <2>2, <3>1 DEF Pipeline, PolicyFits
    <2>4. ~Listed(j) /\ ~Delayed(j) /\ ~Pushed(j)
      BY ZenonT(30), <1>1, <1>6 DEF TokenFits
    <2>5. \A v \in Workers \ {w} : wk'[v].id # j
      BY ZenonT(30), <1>2, <1>6 DEF OnePlace
    <2>6. ~Ready(j)'
      BY ZenonT(30), <1>2, <2>4, <2>5 DEF Ready
    <2>7. \A q \in QueueNames : j \notin DOMAIN delayed'[q]
      BY ZenonT(30), <1>2, <2>4 DEF Delayed
    <2>. QED  BY <1>2, <1>6, <2>3, <2>5, <2>6, <2>7 DEF RestShown
  <1>. QED  BY <1>4, <1>5, <1>6 DEF settle

LEMMA WorkerRests ==
  ASSUME Pipeline, Pipeline', Outcomes, RestsShown, resends' = 0, NEW w \in Workers,
         attempt(w) \/ resend(w) \/ interrupt(w), rest' = [id \in Ids |-> RestAfter(id)],
         NEW j \in Ids
  PROVE  RestShown(j)'
  <1>. DEFINE held == wk[w].id
  <1>1. resends = 0 /\ ~resend(w)
    <2>1. resends \in Nat
      BY FaultBoundsAssumption DEF Pipeline, TypeOK, FaultTypeOK
    <2>2. ~resend(w)
      BY <2>1 DEF resend, ParkResend, Resend
    <2>3. attempt(w) => resends' = resends
      BY ZenonT(30) DEF attempt, fetch, runHandler, settle, IncProcessed, vars, faultVars, Dequeue, Claim, Skip,
             Park, Complete, GiveUp, ScheduleRetry
    <2>4. interrupt(w) => resends' = resends
      BY DEF interrupt, WorkerCrash, Crash
    <2>. QED  BY <2>2, <2>3, <2>4
  <1>2. RestShown(j) /\ OnePlace(j) /\ TokenFits(j)
    BY <1>1 DEF RestsShown, Pipeline, OneToken
  <1>3. /\ rest \in [Ids -> 0..MaxBackoff] /\ wk \in [Workers -> WorkerState]
        /\ jobs \in [DOMAIN jobs -> Row] /\ QueueTypeOK
    BY DEF Outcomes, AttemptsTypeOK, Pipeline, TypeOK, WorkerTypeOK, StoreTypeOK
  <1>4. rq' = rq
    BY DEF attempt, resend, interrupt, fetch, runHandler, settle, IncProcessed, vars
  <1>5. (UNCHANGED work => (Listed(j)' <=> Listed(j))) /\ (Pushed(j)' <=> Pushed(j))
    BY <1>4 DEF Listed, InList, Pushed, Pushes
  <1>6. CASE UNCHANGED vars
    <2>1. Calm(j)
      BY <1>3, <1>5, <1>6, RestStays DEF Calm, SameStatus, vars, Ready
    <2>. QED  BY <1>2, <2>1, CalmKeeps
  <1>7. CASE Dequeue(w)
    <2>1. PICK i \in DOMAIN Watched :
            Pop(Watched[i]) /\ wk' = [wk EXCEPT ![w].pc = "popped", ![w].id = Head(work[Watched[i]])]
      BY ZenonT(30), <1>7 DEF Dequeue
    <2>. DEFINE q == Watched[i]
                h == Head(work[q])
    <2>2. q \in QueueNames /\ jobs' = jobs /\ delayed' = delayed
      BY <1>7, <2>1, WorkerAssumption DEF Dequeue, Pop, storeVars
    <2>3. InList(q, h)
      BY <1>3, <2>1, <2>2 DEF QueueTypeOK, Pop, InList
    <2>4. Listed(j)' => Listed(j)
      BY <1>3, <2>1, <2>2, ListCommands DEF Listed
    <2>5. \A v \in Workers : \/ wk'[v] = wk[v]
                             \/ wk'[v].pc = "popped" /\ wk'[v].id = h
      <3>. HIDE DEF h
      <3>1. wk' = [wk EXCEPT ![w].pc = "popped", ![w].id = h]
        BY <2>1 DEF h
      <3>. QED  BY <1>3, <3>1 DEF WorkerState
    <2>. HIDE DEF h
    <2>6. Calm(j)
      BY <1>3, <1>5, <2>2, <2>3, <2>4, <2>5, RestStays DEF Calm, SameStatus, Ready, Listed
    <2>. QED  BY <1>2, <2>6, CalmKeeps
  <1>8. CASE Claim(w)
    <2>1. /\ held \in DOMAIN jobs' /\ jobs'[held].status = "processing"
          /\ j # held => SameStatus(j)
          /\ wk'[w].pc = "running"
          /\ \A v \in Workers \ {w} : wk'[v] = wk[v]
          /\ UNCHANGED <<work, delayed>>
      BY <1>3, <1>8 DEF Claim, ClaimJob, HasStatus, Row, WorkerState, SameStatus, queueVars
    <2>2. CASE j = held
      BY <2>1, <2>2, NoRestToShow
    <2>3. CASE j # held
      <3>1. Calm(j)
        BY <1>3, <1>5, <2>1, <2>3, RestStays DEF Calm, Ready
      <3>. QED  BY <1>2, <3>1, CalmKeeps
    <2>. QED  BY <2>2, <2>3
  <1>9. CASE Skip(w) \/ interrupt(w)
    <2>1. /\ wk'[w].pc = "idle"
          /\ \A v \in Workers \ {w} : wk'[v] = wk[v]
          /\ UNCHANGED <<jobs, work, delayed>>
      BY <1>3, <1>9 DEF Skip, interrupt, WorkerCrash, Idle, WorkerState, storeVars, queueVars
    <2>2. Calm(j)
      BY <1>3, <1>5, <2>1, RestStays DEF Calm, SameStatus, Ready
    <2>. QED  BY <1>2, <2>2, CalmKeeps
  <1>10. CASE Park(w)
    BY <1>2, <1>3, <1>5, <1>10, ParkRests
  <1>11. CASE settle(w)
    BY <1>2, <1>3, <1>5, <1>11, SettleRests
  <1>. QED
    BY <1>1, <1>6, <1>7, <1>8, <1>9, <1>10, <1>11
    DEF attempt, fetch, runHandler, IncProcessed

LEMMA ResetRests ==
  ASSUME NEW r \in Requests, NEW id \in Ids, NEW t \in Tenants,
         \/ \E p \in QueueNames, b \in Budgets : Submit(r, id, t, p, b)
         \/ retryJob(r, id, t),
         NEW j \in Ids, RestShown(j), OnePlace(j), TokenFits(j),
         rest \in [Ids -> 0..MaxBackoff], rest' = [i \in Ids |-> RestAfter(i)],
         jobs \in [DOMAIN jobs -> Row], QueueTypeOK,
         rq \in [Requests -> RequestState], wk' = wk,
         UNCHANGED work => (Listed(j)' <=> Listed(j))
  PROVE  RestShown(j)'
  <1>1. /\ rq' = [rq EXCEPT ![r] = [pc |-> "push", id |-> id]]
        /\ UNCHANGED <<work, delayed>>
        /\ j # id => SameStatus(j)
        /\ id \in DOMAIN jobs' /\ jobs'[id].status = "pending"
    BY
    DEF Submit, CreateJob, NewRow, retryJob, RetryJob, Reset, HasStatus, SameStatus, queueVars, Row
  <1>2. CASE j # id
    <2>1. Pushed(j)' => Pushed(j)
      BY <1>1, <1>2 DEF Pushed, Pushes
    <2>2. Calm(j)
      BY <1>1, <1>2, <2>1, RestStays DEF Calm, Ready
    <2>. QED  BY <2>2, CalmKeeps
  <1>3. CASE j = id
    <2>1. j \notin DOMAIN jobs \/ HasStatus(j, "failed")
      BY ZenonT(30), <1>3 DEF Submit, CreateJob, retryJob, RetryJob
    <2>2. Nowhere(j)
      BY ZenonT(30), <2>1 DEF TokenFits, HasStatus
    <2>3. rest'[j] = 0
      <3>1. RestAfter(j) = 0
        BY ZenonT(30), <1>1, <1>3, <2>1 DEF RestAfter, RestShown, HasStatus
      <3>. QED  BY <3>1
    <2>4. \A p \in QueueNames : j \notin DOMAIN delayed'[p]
      BY <1>1, <2>2 DEF Nowhere, Delayed
    <2>5. \A v \in Workers : wk'[v].id # j
      BY <2>2 DEF Nowhere, Held
    <2>. QED  BY <2>3, <2>4, <2>5 DEF RestShown
  <1>. QED  BY <1>2, <1>3

LEMMA RequestRests ==
  ASSUME Pipeline, Outcomes, RestsShown, resends' = 0, NEW r \in Requests, RequestNext(r),
         rest' = [id \in Ids |-> RestAfter(id)], NEW j \in Ids
  PROVE  RestShown(j)'
  <1>. DEFINE held == rq[r].id
              q == jobs[held].queue_name
  <1>1. resends = 0 /\ ~PushResend(r)
    <2>1. resends \in Nat
      BY FaultBoundsAssumption DEF Pipeline, TypeOK, FaultTypeOK
    <2>2. ~PushResend(r)
      BY <2>1 DEF PushResend, Resend
    <2>. QED
      BY <2>2
      DEF RequestNext, RequestBegin, RequestStep, Submit, retryJob, cancelJob, Push, RemoveLrem,
          RemoveZrem, RequestAbort, Abort, faultVars
  <1>2. RestShown(j) /\ OnePlace(j) /\ TokenFits(j)
    BY <1>1 DEF RestsShown, Pipeline, OneToken
  <1>3. /\ rest \in [Ids -> 0..MaxBackoff] /\ rq \in [Requests -> RequestState]
        /\ jobs \in [DOMAIN jobs -> Row] /\ DOMAIN jobs \subseteq Ids /\ QueueTypeOK
    BY DEF Outcomes, AttemptsTypeOK, Pipeline, TypeOK, ApiTypeOK, StoreTypeOK
  <1>4. wk' = wk
    BY DEF RequestNext
  <1>5. UNCHANGED work => (Listed(j)' <=> Listed(j))
    BY DEF Listed, InList
  <1>6. rq[r].pc # "idle" => held \in DOMAIN jobs /\ held \in Ids /\ q \in QueueNames
    BY <1>3 DEF Pipeline, TypeOK, HoldsRow, Row
  <1>7. ASSUME NEW id \in Ids, NEW t \in Tenants,
               \/ \E p \in QueueNames, b \in Budgets : Submit(r, id, t, p, b)
               \/ retryJob(r, id, t)
        PROVE  RestShown(j)'
    BY <1>2, <1>3, <1>4, <1>5, <1>7, ResetRests
  <1>8. ASSUME NEW id \in Ids, NEW t \in Tenants, cancelJob(r, id, t)
        PROVE  RestShown(j)'
    <2>1. /\ rq' = [rq EXCEPT ![r] = [pc |-> "lrem", id |-> id]]
          /\ UNCHANGED <<work, delayed>>
          /\ j # id => SameStatus(j)
          /\ id \in DOMAIN jobs' /\ jobs'[id].status = "cancelled"
      BY <1>3, <1>8 DEF cancelJob, CancelJob, HasStatus, SameStatus, queueVars, Row
    <2>2. CASE j # id
      <3>1. Pushed(j)' => Pushed(j)
        BY <1>3, <2>1, <2>2 DEF Pushed, Pushes
      <3>2. Calm(j)
        BY <1>3, <1>4, <1>5, <2>1, <2>2, <3>1, RestStays DEF Calm, Ready
      <3>. QED  BY <1>2, <3>2, CalmKeeps
    <2>3. CASE j = id
      BY <2>1, <2>3, NoRestToShow
    <2>. QED  BY <2>2, <2>3
  <1>9. CASE Push(r)
    <2>1. /\ jobs' = jobs /\ delayed' = delayed /\ Enqueue(q, held) /\ Pushes(r, held)
          /\ rq' = [rq EXCEPT ![r] = NoRequest] /\ held \in Ids /\ q \in QueueNames
      BY ZenonT(30), <1>6, <1>9 DEF Push, storeVars, Enqueue, queueOf, Pushes
    <2>2. Pushed(j)' => Pushed(j)
      BY <1>3, <2>1 DEF NoRequest, Pushed, Pushes
    <2>3. Listed(j)' => Listed(j) \/ Pushed(j)
      <3>. HIDE DEF held, q
      <3>1. \A p \in QueueNames : InList(p, j)' <=> InList(p, j) \/ (p = q /\ j = held)
        BY <1>3, <2>1, ListCommands
      <3>. QED  BY <2>1, <3>1 DEF Listed, Pushed
    <2>4. Calm(j)
      BY <1>3, <1>4, <2>1, <2>2, <2>3, RestStays DEF Calm, SameStatus, Ready
    <2>. QED  BY <1>2, <2>4, CalmKeeps
  <1>10. CASE RemoveLrem(r) \/ RemoveZrem(r)
    <2>1. /\ held \in Ids /\ q \in QueueNames /\ jobs' = jobs
          /\ RemoveFromList(q, held) \/ RemoveFromDelayed(q, held)
      BY <1>6, <1>10 DEF RemoveLrem, RemoveZrem, storeVars, queueOf
    <2>2. Pushed(j)' => Pushed(j)
      BY <1>3, <1>10 DEF RemoveLrem, RemoveZrem, NoRequest, Pushed, Pushes, RequestState
    <2>. HIDE DEF held, q
    <2>3. Listed(j)' => Listed(j)
      <3>1. RemoveFromDelayed(q, held) => UNCHANGED work
        BY DEF RemoveFromDelayed
      <3>. QED  BY <1>3, <1>5, <2>1, <3>1, ListCommands DEF Listed
    <2>4. \A p \in QueueNames : j \in DOMAIN delayed'[p] =>
            j \in DOMAIN delayed[p] /\ delayed'[p][j] = delayed[p][j]
      <3>1. CASE RemoveFromList(q, held)
        BY <3>1 DEF RemoveFromList
      <3>2. CASE RemoveFromDelayed(q, held)
        BY <1>3, <2>1, <3>2 DEF RemoveFromDelayed, QueueTypeOK
      <3>. QED  BY ZenonT(30), <2>1, <3>1, <3>2
    <2>5. Calm(j)
      BY <1>3, <1>4, <2>1, <2>2, <2>3, <2>4, RestStays DEF Calm, SameStatus, Ready
    <2>. QED  BY <1>2, <2>5, CalmKeeps
  <1>11. CASE RequestAbort(r)
    <2>1. UNCHANGED <<jobs, work, delayed>> /\ (Pushed(j)' => Pushed(j))
      BY <1>3, <1>11 DEF RequestAbort, storeVars, queueVars, NoRequest, Pushed, Pushes
    <2>2. Calm(j)
      BY <1>3, <1>4, <1>5, <2>1, RestStays DEF Calm, SameStatus, Ready
    <2>. QED  BY <1>2, <2>2, CalmKeeps
  <1>. QED
    BY <1>1, <1>7, <1>8, <1>9, <1>10, <1>11 DEF RequestNext, RequestBegin, RequestStep

LEMMA PollRests ==
  ASSUME Pipeline, Pipeline', Outcomes, RestsShown, resends' = 0, NEW i \in DOMAIN Watched, Poll(i),
         rest' = [id \in Ids |-> RestAfter(id)], NEW j \in Ids
  PROVE  RestShown(j)'
  <1>1. /\ UNCHANGED <<jobs, wk, rq, resends>> /\ PromoteDue(Watched[i]) /\ Watched[i] \in QueueNames
        /\ QueueTypeOK /\ rest \in [Ids -> 0..MaxBackoff]
    BY WorkerAssumption
    DEF Poll, storeVars, faultVars, Pipeline, TypeOK, Outcomes, AttemptsTypeOK
  <1>2. RestShown(j) /\ OnePlace(j)'
    BY <1>1 DEF RestsShown, Pipeline, OneToken
  <1>3. rest'[j] = rest[j]
    BY <1>1, RestStays DEF SameStatus
  <1>4. \A p \in QueueNames :
          /\ j \in DOMAIN delayed'[p] => j \in DOMAIN delayed[p] /\ delayed'[p][j] = delayed[p][j]
          /\ j \in DOMAIN delayed[p] /\ j \notin DOMAIN delayed'[p] => delayed[p][j] = 0
    BY <1>1, PromoteTimes
  <1>5. Pushed(j)' <=> Pushed(j)
    BY <1>1 DEF Pushed, Pushes
  <1>6. ASSUME HasStatus(j, "pending"), Listed(j)' PROVE rest[j] = 0
    <2>1. PICK p \in QueueNames : InList(p, j)'
      BY <1>6 DEF Listed
    <2>2. InQueue(p, j) /\ j \notin DOMAIN delayed'[p]
      BY ZenonT(30), <1>1, <1>2, <1>6, <2>1, PromoteMoves DEF InQueue, OnePlace, Delayed
    <2>3. CASE InList(p, j)
      BY <1>2, <1>6, <2>3 DEF RestShown, Ready, Listed
    <2>4. CASE j \in DOMAIN delayed[p]
      BY <1>2, <1>4, <1>6, <2>2, <2>4 DEF RestShown
    <2>. QED  BY <2>2, <2>3, <2>4 DEF InQueue
  <1>7. HasStatus(j, "pending")' => HasStatus(j, "pending")
    BY <1>1 DEF HasStatus
  <1>. QED  BY ZenonT(30), <1>1, <1>2, <1>3, <1>4, <1>5, <1>6, <1>7 DEF RestShown, Ready

LEMMA SecondRests ==
  ASSUME Pipeline, Outcomes, RestsShown, resends' = 0, second, NEW j \in Ids
  PROVE  RestShown(j)'
  <1>1. /\ UNCHANGED <<jobs, work, rq, resends>>
        /\ delayed' = [q \in QueueNames |->
                         [id \in DOMAIN delayed[q] |-> Elapse(delayed[q][id])]]
        /\ wk' = [w \in Workers |-> [wk[w] EXCEPT !.delay = Elapse(@)]]
        /\ rest' = [id \in Ids |-> Elapse(rest[id])]
    BY DEF second, Tick, storeVars, faultVars
  <1>2. RestShown(j)
    BY <1>1 DEF RestsShown
  <1>3. \A w \in Workers : /\ wk'[w].id = wk[w].id /\ wk'[w].pc = wk[w].pc
                           /\ wk'[w].delay = Elapse(wk[w].delay)
    BY <1>1 DEF Pipeline, TypeOK, WorkerTypeOK, WorkerState
  <1>4. Ready(j)' <=> Ready(j)
    BY ZenonT(30), <1>1, <1>3 DEF Ready, Listed, InList, Pushed, Pushes
  <1>5. HasStatus(j, "pending")' <=> HasStatus(j, "pending")
    BY <1>1 DEF HasStatus
  <1>6. rest'[j] = Elapse(rest[j]) /\ (rest[j] = 0 => rest'[j] = 0)
    BY <1>1 DEF Elapse
  <1>7. \A q \in QueueNames : j \in DOMAIN delayed'[q] =>
          j \in DOMAIN delayed[q] /\ delayed'[q][j] = Elapse(delayed[q][j])
    BY <1>1
  <1>. QED  BY ZenonT(30), <1>1, <1>2, <1>3, <1>4, <1>5, <1>6, <1>7 DEF RestShown

LEMMA RestsKept ==
  Pipeline /\ Pipeline' /\ Outcomes /\ RestsShown /\ [AttemptsNext]_attemptVars => RestsShown'
  <1>. SUFFICES ASSUME Pipeline, Pipeline', Outcomes, RestsShown, [AttemptsNext]_attemptVars,
                       resends' = 0, NEW j \in Ids
                PROVE  RestShown(j)'
    BY DEF RestsShown
  <1>1. CASE UNCHANGED attemptVars
    BY <1>1
    DEF attemptVars, vars, RestsShown, RestShown, Ready, Listed, InList, Pushed, Pushes, HasStatus
  <1>2. ASSUME NEW r \in Requests, Resting(request(r)) PROVE RestShown(j)'
    BY ZenonT(30), <1>2, RequestRests DEF Resting, request
  <1>3. ASSUME NEW i \in DOMAIN Watched, Resting(pollQueue(i)) PROVE RestShown(j)'
    BY <1>3, PollRests DEF Resting, pollQueue
  <1>4. ASSUME NEW w \in Workers, Resting(attempt(w) \/ resend(w) \/ interrupt(w))
        PROVE  RestShown(j)'
    BY <1>4, WorkerRests DEF Resting
  <1>. QED  BY <1>1, <1>2, <1>3, <1>4, SecondRests DEF AttemptsNext

LEMMA RestsInit == AttemptsInit => RestsShown
  BY ZenonT(30) DEF AttemptsInit, Init, StoreInit, RestsShown, RestShown, HasStatus

LEMMA TimersShown == Pipeline /\ RestsShown => TimerShowsRest
  <1>. SUFFICES ASSUME Pipeline, RestsShown, resends = 0
                PROVE  /\ \A q \in QueueNames : \A id \in DOMAIN delayed[q] :
                             HasStatus(id, "pending") => delayed[q][id] = rest[id]
                       /\ \A w \in Workers : wk[w].pc = "parking" /\ HasStatus(wk[w].id, "pending")
                             => wk[w].delay = rest[wk[w].id]
    BY DEF TimerShowsRest, BackoffIsPolicy, Pipeline, PolicyFits
  <1>1. DOMAIN jobs \subseteq Ids
    BY DEF Pipeline, TypeOK, StoreTypeOK
  <1>. QED  BY <1>1 DEF RestsShown, RestShown, HasStatus

LEMMA RestedWhenClaimed ==
  ASSUME Pipeline, RestsShown, [AttemptsNext]_attemptVars, resends = 0, NEW id \in Ids,
         HasStatus(id, "pending"), HasStatus(id, "processing")'
  PROVE  rest[id] = 0
  <1>1. jobs \in [DOMAIN jobs -> Row]
    BY DEF Pipeline, TypeOK, StoreTypeOK
  <1>2. id \in DOMAIN jobs /\ jobs[id].status = "pending" /\ jobs'[id].status = "processing"
    BY DEF HasStatus
  <1>3. jobs' # jobs
    BY <1>2
  <1>4. ASSUME NEW w \in Workers, WorkerNext(w) PROVE wk[w].pc = "popped" /\ wk[w].id = id
    <2>1. CASE Claim(w)
      BY <1>1, <1>2, <2>1 DEF Claim, ClaimJob, HasStatus
    <2>2. ~Complete(w) /\ ~GiveUp(w) /\ ~ScheduleRetry(w)
      <3>1. ~Complete(w)
        BY <1>1, <1>2 DEF Complete, MarkCompleted, Row
      <3>2. ~GiveUp(w)
        BY <1>1, <1>2 DEF GiveUp, DeadLetter, Row
      <3>3. ~ScheduleRetry(w)
        BY <1>1, <1>2 DEF ScheduleRetry, MarkForRetry, Row
      <3>. QED  BY <3>1, <3>2, <3>3
    <2>. QED
      BY <1>4, <2>1, <2>2, <1>3
      DEF WorkerNext, WorkerStep, Dequeue, Skip, Park, ParkResend, WorkerCrash, storeVars
  <1>5. ASSUME NEW r \in Requests, RequestNext(r) PROVE FALSE
    <2>1. \A i \in Ids, t \in Tenants : ~retryJob(r, i, t) /\ ~cancelJob(r, i, t)
      <3>1. \A i \in Ids, t \in Tenants : ~retryJob(r, i, t)
        BY <1>1, <1>2 DEF retryJob, RetryJob, Reset, Row, HasStatus
      <3>2. \A i \in Ids, t \in Tenants : ~cancelJob(r, i, t)
        BY <1>1, <1>2 DEF cancelJob, CancelJob, Row, HasStatus
      <3>. QED  BY <3>1, <3>2
    <2>2. \A i \in Ids, t \in Tenants, q \in QueueNames, b \in Budgets : ~Submit(r, i, t, q, b)
      BY <1>2 DEF Submit, CreateJob
    <2>. QED
      BY <1>5, <2>1, <2>2, <1>3
      DEF RequestNext, RequestBegin, RequestStep, Push, PushResend, RemoveLrem, RemoveZrem,
          RequestAbort, storeVars
  <1>6. \E w \in Workers : wk[w].pc = "popped" /\ wk[w].id = id
    BY <1>1, <1>4, <1>5, <1>3, PipelineSteps
    DEF Next, Poll, Tick, IdleCrash, vars, storeVars
  <1>. QED  BY <1>1, <1>6 DEF RestsShown, RestShown, Ready

-----------------------------------------------------------------------------
(* The retry policy.  Powers of two are the numbers of the subsets of      *)
(* 1..n.                                                                   *)
LEMMA PowersOfTwo ==
  ASSUME NEW n \in Nat
  PROVE  2^n \in Nat /\ 2^n >= 1 /\ 2^(n + 1) = 2 * 2^n
  <1>. DEFINE A == SUBSET (1..n)
              B == {X \cup {n + 1} : X \in A}
              f == [X \in A |-> X \cup {n + 1}]
  <1>1. /\ IsFiniteSet(1..n) /\ Cardinality(1..n) = n
        /\ IsFiniteSet(1..(n + 1)) /\ Cardinality(1..(n + 1)) = n + 1
    BY FS_Interval
  <1>2. /\ IsFiniteSet(A) /\ Cardinality(A) = 2^n
        /\ Cardinality(SUBSET (1..(n + 1))) = 2^(n + 1)
    BY ZenonT(30), <1>1, FS_SUBSET
  <1>3. ExistsBijection(A, B)
    <2>1. f \in [A -> B] /\ \A Y \in B : \E X \in A : f[X] = Y
      BY ZenonT(30)
    <2>2. \A X, Y \in A : f[X] = f[Y] => X = Y
      <3>. SUFFICES ASSUME NEW X \in A, NEW Y \in A, X \cup {n + 1} = Y \cup {n + 1}
                    PROVE  X = Y
        OBVIOUS
      <3>1. n + 1 \notin X /\ n + 1 \notin Y
        OBVIOUS
      <3>. QED  BY <3>1
    <2>. HIDE DEF A, B, f
    <2>. QED
      BY <2>1, <2>2 DEF ExistsBijection, Bijection, Injection, Surjection, IsInjective
  <1>4. SUBSET (1..(n + 1)) = A \cup B
    <2>1. ASSUME NEW Y \in SUBSET (1..(n + 1)) PROVE Y \in A \cup B
      <3>1. CASE n + 1 \in Y
        <4>1. Y \ {n + 1} \in A
          OBVIOUS
        <4>2. Y = (Y \ {n + 1}) \cup {n + 1}
          BY <3>1
        <4>. QED  BY ZenonT(30), <4>1, <4>2
      <3>2. CASE n + 1 \notin Y
        BY <3>2
      <3>. QED  BY <3>1, <3>2
    <2>2. ASSUME NEW Y \in A \cup B PROVE Y \in SUBSET (1..(n + 1))
      OBVIOUS
    <2>. QED  BY ZenonT(30), <2>1, <2>2
  <1>5. A \cap B = {}
    OBVIOUS
  <1>6. 1..n \in SUBSET (1..n) /\ A # {}
    BY ZenonT(30)
  <1>. HIDE DEF A, B, f
  <1>7. IsFiniteSet(B) /\ Cardinality(B) = Cardinality(A)
    BY <1>2, <1>3, FS_Bijection
  <1>8. Cardinality(A) \in Nat /\ Cardinality(A) # 0
    BY <1>2, <1>6, FS_CardinalityType, FS_EmptySet
  <1>9. Cardinality(A \cup B) = Cardinality(A) + Cardinality(A)
    <2>1. Cardinality(A \cup B) = Cardinality(A) + Cardinality(B) - Cardinality(A \cap B)
      BY <1>2, <1>7, FS_Union
    <2>2. Cardinality(A \cap B) = 0
      BY <1>5, FS_EmptySet
    <2>. QED  BY <1>7, <1>8, <2>1, <2>2
  <1>. DEFINE c == Cardinality(A)
  <1>10. 2^n = c /\ 2^(n + 1) = c + c
    BY <1>2, <1>4, <1>9, Zenon
  <1>11. c \in Nat /\ c >= 1 /\ c + c = 2 * c
    <2>. HIDE DEF c
    <2>. QED  BY <1>8 DEF c
  <1>. HIDE DEF c
  <1>. QED  BY <1>10, <1>11, Zenon

LEMMA LeastNumber ==
  ASSUME NEW S \in SUBSET Nat, S # {}
  PROVE  \E n \in S : \A m \in S : n <= m
  <1>. DEFINE R == OpToRel(<, Nat)
  <1>1. PICK n \in S : \A m \in S : ~(<<m, n>> \in R)
    <2>1. IsWellFoundedOn(R, Nat)
      BY NatLessThanWellFounded, ZenonT(30)
    <2>. HIDE DEF R
    <2>. QED  BY ZenonT(30), <2>1, WFMin
  <1>2. \A m \in S : m < n => <<m, n>> \in R
    BY DEF OpToRel
  <1>. HIDE DEF R
  <1>3. \A m \in S : ~(m < n)
    BY <1>1, <1>2, Zenon
  <1>. QED  BY <1>3

LEMMA MinOfTwo ==
  ASSUME NEW a \in Int, NEW b \in Int
  PROVE  Min({a, b}) = IF a <= b THEN a ELSE b
  BY DEF Min

(* The policy without recursion.                                           *)
Capped(n) == IF n = 0 THEN 1 ELSE IF 2^n <= MaxBackoff THEN 2^n ELSE MaxBackoff

LEMMA CappedDoubles ==
  ASSUME NEW n \in Nat
  PROVE  /\ Capped(n) \in Nat
         /\ n # 0 => Capped(n) = Min({2 * Capped(n - 1), MaxBackoff})
  <1>1. MaxBackoff \in Nat
    BY WorkerAssumption
  <1>2. 2^n \in Nat /\ Capped(n) \in Nat
    BY <1>1, PowersOfTwo DEF Capped
  <1>3. ASSUME n # 0 PROVE Capped(n) = Min({2 * Capped(n - 1), MaxBackoff})
    <2>. DEFINE m == n - 1
                d == 2^m
    <2>1. m \in Nat /\ m + 1 = n
      BY <1>3
    <2>2. d \in Nat /\ d >= 1 /\ 2^n = 2 * d
      <3>. HIDE DEF m
      <3>1. d \in Nat /\ d >= 1 /\ 2^(m + 1) = 2 * d
        BY <2>1, PowersOfTwo
      <3>. QED  BY <2>1, <3>1, Zenon
    <2>3. m = 0 => d = 1
      OBVIOUS
    <2>4. Capped(m) = IF m = 0 THEN 1 ELSE IF d <= MaxBackoff THEN d ELSE MaxBackoff
      BY DEF Capped
    <2>5. Capped(n) = IF 2^n <= MaxBackoff THEN 2^n ELSE MaxBackoff
      BY <1>3 DEF Capped
    <2>. HIDE DEF m, d
    <2>6. Capped(n) = IF 2 * d <= MaxBackoff THEN 2 * d ELSE MaxBackoff
      BY <2>2, <2>5, Zenon
    <2>7. Capped(m) \in Nat /\ 2 * Capped(m) \in Int
      BY <1>1, <2>2, <2>4
    <2>8. Min({2 * Capped(m), MaxBackoff}) =
            IF 2 * Capped(m) <= MaxBackoff THEN 2 * Capped(m) ELSE MaxBackoff
      BY <1>1, <2>7, MinOfTwo
    <2>9. Capped(n) = Min({2 * Capped(m), MaxBackoff})
      BY <1>1, <2>1, <2>2, <2>3, <2>4, <2>6, <2>8
    <2>. QED  BY <2>9 DEF m
  <1>. QED  BY <1>2, <1>3

(* The recursion has a solution, and no other than this one.               *)
LEMMA PolicyIsCapped == \A n \in Nat : Policy[n] = Capped(n)
  <1>. DEFINE P == [n \in Nat |-> Capped(n)]
              Doubled(p, n) == IF n = 0 THEN 1 ELSE Min({2 * p[n - 1], MaxBackoff})
  <1>1. P = [n \in Nat |-> Doubled(P, n)]
    <2>1. ASSUME NEW n \in Nat PROVE Capped(n) = Doubled(P, n)
      <3>1. CASE n = 0
        BY <3>1 DEF Capped
      <3>2. CASE n # 0
        <4>1. n - 1 \in Nat
          BY <3>2
        <4>2. P[n - 1] = Capped(n - 1)
          BY <4>1
        <4>. QED  BY <3>2, <4>2, CappedDoubles
      <3>. QED  BY <3>1, <3>2
    <2>. QED  BY <2>1
  <1>2. Policy = [n \in Nat |-> Doubled(Policy, n)]
    <2>. HIDE DEF P
    <2>. QED  BY ZenonT(30), <1>1 DEF Policy
  <1>3. \A n \in Nat : Policy[n] = Doubled(Policy, n)
    <2>. HIDE DEF Doubled
    <2>. QED  BY <1>2
  <1>. DEFINE S == {n \in Nat : Policy[n] # Capped(n)}
  <1>. SUFFICES ASSUME S # {} PROVE FALSE
    OBVIOUS
  <1>4. PICK n \in S : \A m \in S : n <= m
    BY ZenonT(30), LeastNumber
  <1>5. n # 0
    BY ZenonT(30), <1>3, <1>4 DEF Capped
  <1>6. n - 1 \in Nat /\ n - 1 \notin S
    BY <1>4, <1>5
  <1>7. Policy[n - 1] = Capped(n - 1)
    BY <1>6
  <1>. QED  BY ZenonT(30), <1>3, <1>4, <1>5, <1>7, CappedDoubles

LEMMA PowersGrow == \A n \in Nat : n >= 30 => 2^n >= 2^30
  <1>. DEFINE cap == 2^30
              S == {n \in Nat : n >= 30 /\ ~(2^n >= cap)}
  <1>1. cap \in Nat
    BY PowersOfTwo
  <1>. SUFFICES ASSUME S # {} PROVE FALSE
    OBVIOUS
  <1>2. PICK n \in S : \A m \in S : n <= m
    BY ZenonT(30), LeastNumber
  <1>3. ~(2^n >= cap) /\ n >= 30 /\ n \in Nat
    OBVIOUS
  <1>4. n # 30
    <2>1. n = 30 => ~(cap >= cap)
      BY ZenonT(30), <1>3
    <2>. HIDE DEF cap, S
    <2>. QED  BY <1>1, <2>1
  <1>. DEFINE m == n - 1
              d == 2^m
  <1>5. m \in Nat /\ m >= 30 /\ m + 1 = n /\ m \notin S
    <2>. HIDE DEF cap, S
    <2>. QED  BY <1>2, <1>3, <1>4
  <1>6. d >= cap
    BY <1>5
  <1>7. d \in Nat /\ 2^n = 2 * d
    <2>. HIDE DEF m
    <2>1. d \in Nat /\ 2^(m + 1) = 2 * d
      BY <1>5, PowersOfTwo
    <2>. QED  BY <1>5, <2>1, Zenon
  <1>. HIDE DEF cap, d, S
  <1>8. ~(2 * d >= cap)
    BY <1>3, <1>7, Zenon
  <1>. QED  BY <1>1, <1>6, <1>7, <1>8

LEMMA BackoffFollowsPolicy == \A n \in Nat \ {0} : backoffFor(n) = Policy[n]
  <1>. SUFFICES ASSUME NEW n \in Nat, n # 0 PROVE backoffFor(n) = Capped(n)
    BY PolicyIsCapped
  <1>1. MaxBackoff \in Nat /\ MaxBackoff <= 2^30 /\ 2^n \in Nat /\ 2^n >= 1
    BY WorkerAssumption, AttemptsAssumption, PowersOfTwo
  <1>2. CASE n >= 30
    <2>. DEFINE cap == 2^30
                d == 2^n
    <2>1. d >= cap /\ cap \in Nat /\ d \in Nat /\ MaxBackoff <= cap
      BY <1>1, <1>2, PowersGrow, PowersOfTwo
    <2>2. backoffFor(n) = MaxBackoff
      BY <1>2 DEF backoffFor
    <2>3. Capped(n) = IF d <= MaxBackoff THEN d ELSE MaxBackoff
      BY DEF Capped
    <2>. HIDE DEF cap, d
    <2>. QED  BY <1>1, <2>1, <2>2, <2>3
  <1>3. CASE n < 30
    BY <1>1, <1>3 DEF backoffFor, Capped
  <1>. QED  BY <1>2, <1>3

(* backoffFor is the doubling, capped retry policy for every count of      *)
(* failures there can be: neither the shift nor the guard at 30 shows.     *)
THEOREM BackoffIsThePolicy == BackoffIsPolicy /\ \A n \in Nat \ {0} : backoffFor(n) = Policy[n]
  BY BackoffFollowsPolicy DEF BackoffIsPolicy

LEMMA PolicyRange == \A n \in Nat \ {0} : Policy[n] \in 0..MaxBackoff
  <1>. SUFFICES ASSUME NEW n \in Nat, n # 0 PROVE Capped(n) \in 0..MaxBackoff
    BY PolicyIsCapped
  <1>1. 2^n \in Nat /\ MaxBackoff \in Nat
    BY PowersOfTwo, WorkerAssumption
  <1>. QED  BY <1>1 DEF Capped

LEMMA PipelineHolds == AttemptsSpec => []Pipeline
  <1>1. AttemptsInit => Pipeline
    BY PipelineInit, BackoffFollowsPolicy, PolicyRange DEF Pipeline, PolicyFits
  <1>. QED  BY <1>1, PipelineKept, PTL DEF AttemptsSpec

LEMMA OutcomesHold == AttemptsSpec => []Outcomes
  BY OutcomesInit, OutcomesKept, PipelineHolds, PTL DEF AttemptsSpec

LEMMA RestsHold == AttemptsSpec => []RestsShown
  <1>1. Pipeline /\ Outcomes /\ RestsShown /\ [AttemptsNext]_attemptVars => RestsShown'
    BY RestsKept, PipelineKept
  <1>. QED  BY <1>1, RestsInit, PipelineHolds, OutcomesHold, PTL DEF AttemptsSpec

(* A handler succeeds at most once in the life of its job, for any number  *)
(* of workers, crashes between the handler and MarkCompleted, copies of    *)
(* the id and retries by the owner.                                        *)
THEOREM HandlersSucceedOnce == AttemptsSpec => []SucceedsAtMostOnce
  BY SuccessShown, OutcomesHold, PTL

(* Completed jobs are those whose handler succeeded, failed ones those no  *)
(* attempt can make succeed, whatever crashes, repeated ids and requests   *)
(* come in between (Dispatch, process and handleFailure).                  *)
THEOREM OutcomesFitBodies == AttemptsSpec => []OutcomeFitsBody
  BY OutcomesShown, PipelineHolds, OutcomesHold, PTL

(* The score of a delayed id, and the runAt a worker is about to write,    *)
(* are what is left of the job's rest, for every number of failures: a     *)
(* retry becomes due exactly when the policy says (backoffFor,             *)
(* EnqueueDelayed).                                                        *)
THEOREM TimersShowRests == AttemptsSpec => []TimerShowsRest
  BY TimersShown, PipelineHolds, RestsHold, PTL

(* No failed job is attempted before its rest is over, whatever pollers,   *)
(* promotions, cancels and crashes do (PromoteDue's comparison with the    *)
(* clock, and the one token of the job).                                   *)
THEOREM BackoffIsHonoured == AttemptsSpec => BackoffHonoured
  <1>1. Pipeline /\ RestsShown /\ [AttemptsNext]_attemptVars =>
          [\A id \in Ids : HasStatus(id, "pending") /\ HasStatus(id, "processing")' /\ resends = 0
                           => rest[id] = 0]_attemptVars
    BY RestedWhenClaimed
  <1>. QED  BY <1>1, PipelineHolds, RestsHold, PTL DEF AttemptsSpec, BackoffHonoured

(* In every process the histogram has at least as many entries as jobs are *)
(* counted, failed ones included (ObserveLatency before MarkCompleted,     *)
(* DeadLetter and IncProcessed).                                           *)
THEOREM CountedJobsAreTimed == AttemptsSpec => []LatencyCoversCounts
  BY TimedInit, TimedKept, TimedShown, OutcomesHold, PTL DEF AttemptsSpec

(* jobs_processed_total tells ends, for any number of workers, jobs and    *)
(* retries: no end is ever counted twice, whatever calls fail and whatever *)
(* processes die, and while none does every end is counted, by one worker  *)
(* (IncProcessed after MarkCompleted and DeadLetter).                      *)
THEOREM CountersAreTrue == AttemptsSpec => []CountersTellEnds
  <1>1. AttemptsSpec => []Counters
    <2>1. Pipeline /\ Outcomes /\ Counters /\ [AttemptsNext]_attemptVars => Counters'
      BY CountersKept
    <2>. QED  BY <2>1, CountersInit, PipelineHolds, OutcomesHold, PTL DEF AttemptsSpec
  <1>2. Counters /\ LatencyCoversCounts => CountersTellEnds
    BY DEF Counters, EndsCounted, CountersTellEnds
  <1>. QED  BY <1>1, <1>2, CountedJobsAreTimed, PTL
=============================================================================
