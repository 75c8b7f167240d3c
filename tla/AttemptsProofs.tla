--------------------------- MODULE AttemptsProofs ---------------------------
(***************************************************************************)
(* Proofs about the attempts of a job, for any number of jobs, workers,    *)
(* requests, queues and faults: what every step keeps of the outcomes of   *)
(* handlers and of the counters.  BackoffProofs puts them together with    *)
(* the retry policy, which the types need.                                 *)
(***************************************************************************)
EXTENDS Attempts, TokenProofs, FiniteSetTheorems

(* The solvers' time limit, in seconds, where a leaf names no prover.      *)
USE ZenonT(30)

(* What the proofs use of the pipeline, and of the retry policy.           *)
PolicyFits == \A n \in Nat \ {0} : backoffFor(n) = Policy[n] /\ Policy[n] \in 0..MaxBackoff

Pipeline ==
    /\ PolicyFits
    /\ TypeOK /\ ExclusiveRun /\ DeadLetterMatchesFailed /\ OwnQueue /\ OneToken

(* The one step that Dispatch does not have: a process that is between two *)
(* jobs dies.                                                              *)
IdleCrash == Crash /\ UNCHANGED <<wk, rq, storeVars, queueVars>>

LEMMA PipelineSteps == [AttemptsNext]_attemptVars => [Next]_vars \/ IdleCrash
  <1>1. ASSUME NEW w \in Workers, attempt(w) \/ resend(w) \/ interrupt(w)
        PROVE  WorkerNext(w) \/ IdleCrash \/ UNCHANGED vars
    BY <1>1
    DEF attempt, resend, interrupt, fetch, runHandler, settle, IncProcessed, WorkerNext,
        WorkerStep, IdleCrash
  <1>2. ASSUME NEW r \in Requests, request(r) PROVE RequestNext(r)
    BY <1>2 DEF request
  <1>3. ASSUME NEW i \in DOMAIN Watched, pollQueue(i) PROVE Poll(i)
    BY <1>3 DEF pollQueue
  <1>4. second => Tick
    BY DEF second
  <1>. QED
    BY <1>1, <1>2, <1>3, <1>4 DEF AttemptsNext, Resting, Next, attemptVars, vars

LEMMA IdleCrashKeeps == Pipeline /\ IdleCrash => Pipeline'
  <1>. SUFFICES ASSUME Pipeline, IdleCrash PROVE Pipeline'
    OBVIOUS
  <1>. USE DEF IdleCrash, Crash, storeVars, queueVars
  <1>1. TypeOK'
    BY SMTT(30), FaultBoundsAssumption
    DEF Pipeline, TypeOK, HoldsRow, StoreTypeOK, QueueTypeOK, WorkerTypeOK, ApiTypeOK, FaultTypeOK
  <1>2. ExclusiveRun'
    BY DEF Pipeline, ExclusiveRun, Runs, HasStatus
  <1>3. DeadLetterMatchesFailed'
    BY DEF Pipeline, DeadLetterMatchesFailed, HasStatus
  <1>4. OwnQueue'
    BY DEF Pipeline, OwnQueue
  <1>5. OneToken'
    BY SMTT(30) DEF Pipeline, OneToken, OnePlace, TokenFits, Nowhere, Listed, Delayed, Pushed, Held, Pushes,
           Once, InList, HasStatus
  <1>. QED  BY <1>1, <1>2, <1>3, <1>4, <1>5 DEF Pipeline

LEMMA PipelineKept == Pipeline /\ [AttemptsNext]_attemptVars => Pipeline'
  BY PipelineSteps, IdleCrashKeeps, NextTypes, NextExclusive, NextDeadLetters, NextOwnQueue,
     NextKeepsOne
  DEF Pipeline

LEMMA PipelineInit == PolicyFits /\ AttemptsInit => Pipeline
  <1>1. Init => ExclusiveRun
    BY SMTT(30) DEF Init, WorkerInit, Idle, ExclusiveRun, Runs
  <1>. QED
    BY <1>1, InitTypes, TablesInit, InitOwnQueue, InitOneToken DEF AttemptsInit, Pipeline

LEMMA StoreMoves ==
  ASSUME Pipeline, [AttemptsNext]_attemptVars
  PROVE  StoreTypeOK /\ (StoreNext \/ UNCHANGED storeVars)
  BY PipelineSteps, StoreSteps DEF Pipeline, TypeOK, IdleCrash

(* What a step leaves of the table: no row goes away, at most one comes,   *)
(* and a job is put back by a failed attempt with that attempt counted.    *)
LEMMA TableMoves ==
  ASSUME StoreTypeOK, StoreNext \/ UNCHANGED storeVars
  PROVE  /\ DOMAIN jobs \subseteq DOMAIN jobs'
         /\ \A i, k \in DOMAIN jobs' \ DOMAIN jobs : i = k
         /\ \A i \in Ids : HasStatus(i, "processing") /\ jobs'[i].status = "pending" =>
               jobs'[i].retry_count \in Nat \ {0}
  <1>. USE DEF StoreTypeOK, HasStatus
  <1>1. CASE UNCHANGED storeVars
    BY <1>1 DEF storeVars
  <1>2. CASE StoreNext
    <2>1. PICK id \in Ids : Statement(id)
      BY <1>2 DEF StoreNext
    <2>2. CASE \E t \in Tenants, q \in QueueNames, b \in Budgets : CreateJob(id, NewRow(t, q, b))
      BY <2>2 DEF CreateJob
    <2>3. CASE ClaimJob(id)
      BY <2>3 DEF ClaimJob
    <2>4. CASE HasStatus(id, "processing") /\ MarkCompleted(id)
      BY <2>4 DEF MarkCompleted, Row
    <2>5. CASE HasStatus(id, "processing") /\ MarkForRetry(id, jobs[id].retry_count + 1)
      BY SMTT(30), <2>5 DEF MarkForRetry, Row
    <2>6. CASE HasStatus(id, "processing") /\ DeadLetter(id, jobs[id].retry_count + 1)
      BY <2>6 DEF DeadLetter, Row
    <2>7. ASSUME NEW t \in Tenants, RetryJob(t, id) \/ CancelJob(t, id)
          PROVE  /\ DOMAIN jobs' = DOMAIN jobs
                 /\ \A i \in Ids : HasStatus(i, "processing") => jobs'[i].status = "processing"
      BY <2>7 DEF RetryJob, Reset, CancelJob, Row
    <2>. QED  BY <2>1, <2>2, <2>3, <2>4, <2>5, <2>6, <2>7 DEF Statement
  <1>. QED  BY <1>1, <1>2

LEMMA RestTypes ==
  ASSUME Pipeline, AttemptsTypeOK, [AttemptsNext]_attemptVars
  PROVE  rest' \in [Ids -> 0..MaxBackoff]
  <1>1. rest \in [Ids -> 0..MaxBackoff] /\ MaxBackoff \in Nat
    BY WorkerAssumption DEF AttemptsTypeOK
  <1>2. ASSUME rest' = [id \in Ids |-> RestAfter(id)]
        PROVE  rest' \in [Ids -> 0..MaxBackoff]
    <2>1. ASSUME NEW id \in Ids PROVE RestAfter(id) \in 0..MaxBackoff
      BY SMTT(30), <1>1, StoreMoves, TableMoves DEF RestAfter, Pipeline, PolicyFits
    <2>. QED  BY <1>2, <2>1
  <1>3. second => rest' \in [Ids -> 0..MaxBackoff]
    BY SMTT(30), <1>1 DEF second, Elapse
  <1>. QED  BY <1>1, <1>2, <1>3 DEF AttemptsNext, Resting, attemptVars

-----------------------------------------------------------------------------
(* What a handler's outcome makes of the job.  done tells whether the      *)
(* handler has succeeded: then the job is running with that result in      *)
(* hand, left processing by a worker that died, or completed, and can      *)
(* never be claimed again.  What a worker holds is what the handler makes  *)
(* of the body.                                                            *)
SuccessIsLast ==
    \A id \in Ids : done[id] # 0 =>
        /\ done[id] = 1
        /\ id \in DOMAIN jobs
        /\ DispatchResult(body[id]) = "ok"
        /\ jobs[id].status \in {"processing", "completed"}
        /\ \A w \in Workers : Runs(w, id) => ran[w] = "ok"

ResultIsHeld ==
    \A w \in Workers : ran[w] # "no" =>
        /\ ran[w] = DispatchResult(body[wk[w].id])
        /\ ran[w] = "ok" => done[wk[w].id] = 1

EndIsEarned ==
    \A id \in DOMAIN jobs :
        /\ jobs[id].status = "completed" => done[id] = 1
        /\ jobs[id].status = "failed" => DispatchResult(body[id]) = "error"

Outcomes == AttemptsTypeOK /\ SuccessIsLast /\ ResultIsHeld /\ EndIsEarned

LEMMA ResultRange == \A b : DispatchResult(b) \in {"ok", "error"}
  BY DEF DispatchResult

(* The steps of a worker change no body and add no row.                    *)
LEMMA WorkerRows ==
  ASSUME Pipeline, NEW w \in Workers, attempt(w) \/ resend(w) \/ interrupt(w)
  PROVE  body' = body /\ DOMAIN jobs' = DOMAIN jobs
  <1>1. body' = body
    BY DEF attempt, resend, interrupt, fetch, runHandler, settle, IncProcessed
  <1>2. DOMAIN jobs' = DOMAIN jobs
    BY DEF attempt, resend, interrupt, fetch, runHandler, settle, IncProcessed, vars, storeVars,
           Dequeue, Claim, Skip, Park, ParkResend, Complete, GiveUp, ScheduleRetry, WorkerCrash,
           ClaimJob, MarkCompleted, MarkForRetry, DeadLetter, Pipeline, TypeOK, StoreTypeOK
  <1>. QED  BY <1>1, <1>2

LEMMA WorkerAttemptTypes ==
  ASSUME Pipeline, AttemptsTypeOK, rest' \in [Ids -> 0..MaxBackoff],
         NEW w \in Workers, attempt(w) \/ resend(w) \/ interrupt(w)
  PROVE  AttemptsTypeOK'
  <1>1. body' \in [DOMAIN jobs' -> [job_type: JobTypes, payload: Payloads \ {"absent"}]]
    BY WorkerRows DEF AttemptsTypeOK
  <1>. USE DEF AttemptsTypeOK, workerVars
  <1>2. CASE fetch(w) \/ resend(w)
    <2>1. ran[w] = "no"
      BY <1>2 DEF fetch, resend, Dequeue, Claim, Skip, Park, ParkResend
    <2>2. \A v \in Workers \ {w} : wk'[v] = wk[v]
      BY <1>2 DEF fetch, resend, Dequeue, Claim, Skip, Park, ParkResend, Pipeline, TypeOK, WorkerTypeOK
    <2>3. UNCHANGED <<ran, processed, latency, tally, done, reruns>>
      BY <1>2 DEF fetch, resend
    <2>. QED  BY <1>1, <2>1, <2>2, <2>3
  <1>3. CASE runHandler(w)
    <2>1. UNCHANGED <<wk, processed, tally, reruns>>
      BY <1>3 DEF runHandler, vars
    <2>2. wk[w].id \in Ids /\ wk[w].pc = "running"
      BY <1>3 DEF runHandler, Pipeline, TypeOK, HoldsRow, StoreTypeOK
    <2>3. ran' = [ran EXCEPT ![w] = DispatchResult(body[wk[w].id])]
      BY <1>3 DEF runHandler
    <2>4. ran' \in [Workers -> {"no", "ok", "error"}]
      BY <2>3, ResultRange
    <2>5. latency' \in [Workers -> Nat]
      BY SMTT(30), <1>3 DEF runHandler
    <2>6. done' \in [Ids -> 0..2]
      BY SMTT(30), <1>3, <2>2 DEF runHandler
    <2>. QED  BY <1>1, <2>1, <2>2, <2>3, <2>4, <2>5, <2>6
  <1>4. CASE settle(w)
    <2>1. \A v \in Workers \ {w} : wk'[v] = wk[v]
      BY <1>4 DEF settle, Complete, GiveUp, ScheduleRetry, Pipeline, TypeOK, WorkerTypeOK
    <2>2. ran' = [ran EXCEPT ![w] = "no"] /\ UNCHANGED <<processed, latency, done, reruns>>
      BY <1>4 DEF settle
    <2>3. tally' \in [Workers -> Counted \cup {"none"}]
      BY <1>4 DEF settle, Counted
    <2>. QED  BY <1>1, <2>1, <2>2, <2>3
  <1>5. CASE IncProcessed(w)
    <2>1. processed' \in [Workers -> [Counted -> Nat]]
      BY SMTT(30), <1>5 DEF IncProcessed
    <2>2. tally' \in [Workers -> Counted \cup {"none"}]
      BY <1>5 DEF IncProcessed
    <2>3. UNCHANGED <<wk, ran, latency, done, reruns>>
      BY <1>5 DEF IncProcessed, vars
    <2>. QED  BY <1>1, <2>1, <2>2, <2>3
  <1>6. CASE interrupt(w)
    <2>1. \A v \in Workers \ {w} : wk'[v] = wk[v]
      BY <1>6 DEF interrupt, WorkerCrash, Pipeline, TypeOK, WorkerTypeOK
    <2>2. processed' \in [Workers -> [Counted -> Nat]] /\ latency' \in [Workers -> Nat]
      <3>. DEFINE Counts == [Counted -> Nat]
      <3>1. NewWorker \in Counts /\ processed \in [Workers -> Counts]
        BY DEF NewWorker
      <3>. HIDE DEF Counts
      <3>2. processed' \in [Workers -> Counts] /\ latency' \in [Workers -> Nat]
        BY SMTT(30), <1>6, <3>1 DEF interrupt
      <3>. QED  BY <3>2 DEF Counts
    <2>3. /\ ran' = [ran EXCEPT ![w] = "no"]
          /\ tally' = [tally EXCEPT ![w] = "none"]
          /\ UNCHANGED <<done, reruns>>
      BY <1>6 DEF interrupt
    <2>. QED  BY <1>1, <2>1, <2>2, <2>3
  <1>. QED  BY <1>2, <1>3, <1>4, <1>5, <1>6 DEF attempt

LEMMA RequestBodies ==
  ASSUME Pipeline, AttemptsTypeOK, NEW r \in Requests, request(r)
  PROVE  /\ body' \in [DOMAIN jobs' -> [job_type: JobTypes, payload: Payloads \ {"absent"}]]
         /\ \A i \in DOMAIN jobs : i \in DOMAIN jobs' /\ body'[i] = body[i]
         /\ reruns' \in 0..MaxReruns
         /\ UNCHANGED <<wk, ran, processed, latency, tally, done>>
  <1>1. /\ DOMAIN jobs \subseteq DOMAIN jobs'
        /\ \A i, k \in DOMAIN jobs' \ DOMAIN jobs : i = k
    <2>1. Next
      BY DEF request, Next
    <2>. QED  BY <2>1, StoreSteps, TableMoves DEF Pipeline, TypeOK
  <1>. DEFINE Body == [job_type: JobTypes, payload: Payloads \ {"absent"}]
  <1>2. body \in [DOMAIN jobs -> Body]
    BY DEF AttemptsTypeOK
  <1>3. body' \in [DOMAIN jobs' -> Body] /\ \A i \in DOMAIN jobs : body'[i] = body[i]
    <2>1. CASE DOMAIN jobs' = DOMAIN jobs /\ UNCHANGED body
      BY <1>2, <2>1
    <2>2. ASSUME NEW id \in DOMAIN jobs' \ DOMAIN jobs, NEW type \in JobTypes, NEW payload \in Payloads,
                 body' = [i \in DOMAIN jobs' |->
                            IF i = id THEN [job_type |-> type, payload |-> applyDefaults(payload)]
                            ELSE body[i]]
          PROVE  body' \in [DOMAIN jobs' -> Body] /\ \A i \in DOMAIN jobs : body'[i] = body[i]
      <3>1. [job_type |-> type, payload |-> applyDefaults(payload)] \in Body
        BY DEF applyDefaults, Payloads
      <3>. HIDE DEF Body
      <3>. QED  BY <1>1, <1>2, <2>2, <3>1
    <2>. QED  BY <2>1, <2>2 DEF request
  <1>4. reruns' \in 0..MaxReruns
    BY SMTT(30), AttemptsAssumption DEF request, AttemptsTypeOK
  <1>. QED  BY <1>1, <1>3, <1>4 DEF request, RequestNext, workerVars

LEMMA AttemptTypes ==
  ASSUME Pipeline, AttemptsTypeOK, [AttemptsNext]_attemptVars
  PROVE  AttemptsTypeOK'
  <1>1. rest' \in [Ids -> 0..MaxBackoff]
    BY RestTypes
  <1>2. ASSUME NEW r \in Requests, request(r) PROVE AttemptsTypeOK'
    BY <1>1, <1>2, RequestBodies DEF AttemptsTypeOK
  <1>3. CASE \/ UNCHANGED attemptVars
             \/ second
             \/ \E i \in DOMAIN Watched : pollQueue(i)
    <2>1. /\ UNCHANGED <<jobs, ran, processed, latency, tally, body, done, reruns>>
          /\ \A w \in Workers : wk'[w].pc = wk[w].pc
      BY <1>3
      DEF attemptVars, vars, workerVars, second, Tick, pollQueue, Poll, storeVars, Pipeline, TypeOK,
          WorkerTypeOK, WorkerState
    <2>. QED  BY <1>1, <2>1 DEF AttemptsTypeOK
  <1>. QED  BY <1>1, <1>2, <1>3, WorkerAttemptTypes DEF AttemptsNext, Resting

(* What the invariants say of a worker and the job it runs.                *)
LEMMA HeldJob ==
  ASSUME Pipeline, Outcomes, NEW w \in Workers
  PROVE  /\ DOMAIN jobs \subseteq Ids /\ jobs \in [DOMAIN jobs -> Row]
         /\ wk \in [Workers -> WorkerState]
         /\ ran \in [Workers -> {"no", "ok", "error"}] /\ done \in [Ids -> 0..2]
         /\ \A v \in Workers : ran[v] # "no" => wk[v].pc = "running" /\ wk[v].id \in Ids
         /\ wk[w].pc = "running" =>
               /\ wk[w].id \in DOMAIN jobs /\ HasStatus(wk[w].id, "processing")
               /\ \A v \in Workers : Runs(v, wk[w].id) => v = w
  <1>1. /\ DOMAIN jobs \subseteq Ids /\ jobs \in [DOMAIN jobs -> Row]
        /\ wk \in [Workers -> WorkerState]
    BY DEF Pipeline, TypeOK, WorkerTypeOK, StoreTypeOK
  <1>2. /\ ran \in [Workers -> {"no", "ok", "error"}] /\ done \in [Ids -> 0..2]
        /\ \A v \in Workers : ran[v] # "no" => wk[v].pc = "running"
    BY DEF Outcomes, AttemptsTypeOK
  <1>3. \A v \in Workers : wk[v].pc = "running" => wk[v].id \in DOMAIN jobs
    BY DEF Pipeline, TypeOK, HoldsRow
  <1>4. wk[w].pc = "running" =>
          /\ HasStatus(wk[w].id, "processing")
          /\ \A v \in Workers : Runs(v, wk[w].id) => v = w
    BY <1>1, <1>3 DEF Pipeline, ExclusiveRun, Runs
  <1>. QED  BY <1>1, <1>2, <1>3, <1>4

(* A worker that has no result in hand takes nobody's place.               *)
LEMMA IdleOutcomes ==
  ASSUME Pipeline, Outcomes, NEW w \in Workers, body' = body, UNCHANGED <<jobs, done>>,
         ran' = [ran EXCEPT ![w] = "no"], wk'[w].pc # "running",
         \A v \in Workers \ {w} : wk'[v] = wk[v]
  PROVE  SuccessIsLast' /\ ResultIsHeld' /\ EndIsEarned'
  <1>1. \A v \in Workers : ran'[v] = IF v = w THEN "no" ELSE ran[v]
    BY HeldJob
  <1>2. SuccessIsLast'
    BY SMTT(30), <1>1 DEF Outcomes, SuccessIsLast, Runs
  <1>3. ResultIsHeld'
    BY SMTT(30), <1>1 DEF Outcomes, ResultIsHeld
  <1>4. EndIsEarned'
    BY DEF Outcomes, EndIsEarned
  <1>. QED  BY <1>2, <1>3, <1>4

LEMMA ClaimOutcomes ==
  ASSUME Pipeline, Outcomes, NEW w \in Workers, Claim(w), body' = body, DOMAIN jobs' = DOMAIN jobs,
         ran[w] = "no", UNCHANGED <<ran, done>>
  PROVE  SuccessIsLast' /\ ResultIsHeld' /\ EndIsEarned'
  <1>. DEFINE held == wk[w].id
  <1>1. /\ held \in DOMAIN jobs /\ jobs[held].status = "pending"
        /\ jobs'[held].status = "processing"
        /\ \A i \in DOMAIN jobs \ {held} : jobs'[i] = jobs[i]
        /\ wk'[w].id = held
        /\ \A v \in Workers \ {w} : wk'[v] = wk[v]
    BY SMTT(30), HeldJob DEF Claim, ClaimJob, HasStatus, Row, WorkerState
  <1>2. held \in Ids /\ done[held] = 0
    BY <1>1, HeldJob DEF Outcomes, SuccessIsLast
  <1>. HIDE DEF held
  <1>3. SuccessIsLast'
    BY SMTT(30), <1>1, <1>2 DEF Outcomes, SuccessIsLast, Runs
  <1>4. ResultIsHeld'
    BY <1>1 DEF Outcomes, ResultIsHeld
  <1>5. EndIsEarned'
    BY <1>1 DEF Outcomes, EndIsEarned
  <1>. QED  BY <1>3, <1>4, <1>5

LEMMA HandlerOutcomes ==
  ASSUME Pipeline, Outcomes, NEW w \in Workers, runHandler(w), body' = body
  PROVE  SuccessIsLast' /\ ResultIsHeld' /\ EndIsEarned'
  <1>. DEFINE held == wk[w].id
  <1>1. /\ wk[w].pc = "running" /\ ran[w] = "no" /\ UNCHANGED <<jobs, wk>>
        /\ ran' = [ran EXCEPT ![w] = DispatchResult(body[held])]
        /\ done' = IF ran'[w] = "ok" THEN [done EXCEPT ![held] = IF @ = 0 THEN 1 ELSE 2]
                   ELSE done
    BY DEF runHandler, vars
  <1>2. /\ held \in DOMAIN jobs /\ held \in Ids /\ HasStatus(held, "processing")
        /\ \A v \in Workers : Runs(v, held) => v = w
    BY <1>1, HeldJob
  <1>3. done[held] = 0
    BY <1>1, <1>2 DEF Outcomes, SuccessIsLast, Runs
  <1>4. ran'[w] = DispatchResult(body[held]) /\ \A v \in Workers \ {w} : ran'[v] = ran[v]
    BY <1>1, HeldJob
  <1>5. \A i \in Ids : done'[i] = IF i = held /\ ran'[w] = "ok" THEN 1 ELSE done[i]
    BY <1>1, <1>2, <1>3, HeldJob
  <1>6. SuccessIsLast'
    BY SMTT(30), <1>1, <1>2, <1>4, <1>5 DEF Outcomes, SuccessIsLast, Runs, HasStatus
  <1>7. ResultIsHeld'
    <2>. SUFFICES ASSUME NEW v \in Workers, ran'[v] # "no"
                  PROVE  /\ ran'[v] = DispatchResult(body[wk[v].id])
                         /\ ran'[v] = "ok" => done'[wk[v].id] = 1
      BY <1>1 DEF ResultIsHeld
    <2>1. CASE v = w
      BY <1>2, <1>4, <1>5, <2>1
    <2>2. CASE v # w
      <3>1. wk[v].id \in Ids /\ ran[v] # "no"
        BY <1>4, <2>2, HeldJob
      <3>. QED  BY <1>4, <1>5, <2>2, <3>1 DEF Outcomes, ResultIsHeld
    <2>. QED  BY <2>1, <2>2
  <1>8. EndIsEarned'
    BY <1>1, <1>5, HeldJob DEF Outcomes, EndIsEarned
  <1>. QED  BY <1>6, <1>7, <1>8

LEMMA SettleOutcomes ==
  ASSUME Pipeline, Outcomes, NEW w \in Workers, settle(w), body' = body, DOMAIN jobs' = DOMAIN jobs
  PROVE  SuccessIsLast' /\ ResultIsHeld' /\ EndIsEarned'
  <1>. DEFINE held == wk[w].id
  <1>1. wk[w].pc = "running" /\ ran[w] # "no" /\ done' = done /\ ran' = [ran EXCEPT ![w] = "no"]
    BY DEF settle, Complete, GiveUp, ScheduleRetry
  <1>2. /\ held \in DOMAIN jobs /\ held \in Ids
        /\ \A v \in Workers : Runs(v, held) => v = w
    BY <1>1, HeldJob
  <1>3. wk'[w].pc # "running" /\ \A v \in Workers \ {w} : wk'[v] = wk[v]
    BY SMTT(30), HeldJob DEF settle, Complete, GiveUp, ScheduleRetry, Idle, WorkerState
  <1>4. /\ \A i \in DOMAIN jobs \ {held} : jobs'[i] = jobs[i]
        /\ \/ ran[w] = "ok" /\ jobs'[held].status = "completed"
           \/ ran[w] = "error" /\ jobs'[held].status \in {"pending", "failed"}
    BY SMTT(30), <1>2, HeldJob
    DEF settle, Complete, GiveUp, ScheduleRetry, MarkCompleted, DeadLetter, MarkForRetry, Row
  <1>5. ran[w] = DispatchResult(body[held]) /\ (ran[w] = "ok" => done[held] = 1)
    BY <1>1 DEF Outcomes, ResultIsHeld
  <1>6. \A v \in Workers : ran'[v] = IF v = w THEN "no" ELSE ran[v]
    BY <1>1, HeldJob
  <1>. HIDE DEF held
  <1>7. SuccessIsLast'
    BY SMTT(30), <1>1, <1>2, <1>3, <1>4, <1>5, <1>6 DEF Outcomes, SuccessIsLast, Runs
  <1>8. ResultIsHeld'
    BY SMTT(30), <1>1, <1>3, <1>6 DEF Outcomes, ResultIsHeld
  <1>9. EndIsEarned'
    BY <1>1, <1>4, <1>5 DEF Outcomes, EndIsEarned
  <1>. QED  BY <1>7, <1>8, <1>9

LEMMA WorkerOutcomes ==
  ASSUME Pipeline, Outcomes, NEW w \in Workers, attempt(w) \/ resend(w) \/ interrupt(w)
  PROVE  SuccessIsLast' /\ ResultIsHeld' /\ EndIsEarned'
  <1>1. body' = body /\ DOMAIN jobs' = DOMAIN jobs
    BY WorkerRows
  <1>2. CASE UNCHANGED <<jobs, done, ran, wk>>
    BY <1>1, <1>2 DEF Outcomes, SuccessIsLast, ResultIsHeld, EndIsEarned, Runs
  <1>3. CASE fetch(w) \/ resend(w)
    <2>2. ran[w] = "no" /\ UNCHANGED <<ran, done>>
      BY <1>3, HeldJob DEF fetch, resend, workerVars, Dequeue, Claim, Skip, Park, ParkResend
    <2>3. CASE Claim(w)
      BY <1>1, <2>2, <2>3, ClaimOutcomes
    <2>4. CASE resend(w)
      BY <1>2, <2>2, <2>4 DEF resend, ParkResend, storeVars
    <2>5. CASE Dequeue(w) \/ Skip(w) \/ Park(w)
      <3>1. /\ jobs' = jobs /\ wk'[w].pc # "running"
            /\ \A v \in Workers \ {w} : wk'[v] = wk[v]
        BY SMTT(30), <2>5, HeldJob DEF Dequeue, Skip, Park, storeVars, Idle, WorkerState
      <3>2. ran' = [ran EXCEPT ![w] = "no"]
        BY <2>2, HeldJob
      <3>. QED  BY <1>1, <2>2, <3>1, <3>2, IdleOutcomes
    <2>. QED  BY <1>3, <2>3, <2>4, <2>5 DEF fetch
  <1>4. CASE IncProcessed(w)
    BY <1>2, <1>4 DEF IncProcessed, vars
  <1>5. CASE interrupt(w)
    <2>1. UNCHANGED <<jobs, done>> /\ ran' = [ran EXCEPT ![w] = "no"]
      BY <1>5 DEF interrupt, WorkerCrash, storeVars
    <2>2. wk'[w].pc # "running" /\ \A v \in Workers \ {w} : wk'[v] = wk[v]
      BY SMTT(30), <1>5, HeldJob DEF interrupt, WorkerCrash, Idle, WorkerState
    <2>. QED  BY <1>1, <2>1, <2>2, IdleOutcomes
  <1>. QED  BY <1>1, <1>3, <1>4, <1>5, HandlerOutcomes, SettleOutcomes DEF attempt

(* What a request does to the statuses of jobs.                            *)
StatusesMove ==
    /\ \A i \in DOMAIN jobs' :
          \/ jobs'[i].status \in {"pending", "cancelled"}
          \/ i \in DOMAIN jobs /\ jobs'[i].status = jobs[i].status
    /\ \A i \in DOMAIN jobs : jobs[i].status \in {"processing", "completed"} =>
          jobs'[i].status = jobs[i].status

LEMMA RequestStatuses ==
  ASSUME StoreTypeOK, NEW r \in Requests, request(r)
  PROVE  StatusesMove
  <1>1. ASSUME NEW id \in Ids, NEW t \in Tenants, NEW q \in QueueNames, NEW b \in Budgets,
               Submit(r, id, t, q, b)
        PROVE  StatusesMove
    BY <1>1 DEF Submit, CreateJob, NewRow, StatusesMove
  <1>2. ASSUME NEW id \in Ids, NEW t \in Tenants, retryJob(r, id, t)
        PROVE  StatusesMove
    BY SMTT(30), <1>2 DEF retryJob, RetryJob, Reset, HasStatus, Row, StoreTypeOK, StatusesMove
  <1>3. ASSUME NEW id \in Ids, NEW t \in Tenants, cancelJob(r, id, t)
        PROVE  StatusesMove
    BY <1>3 DEF cancelJob, CancelJob, HasStatus, Row, StoreTypeOK, StatusesMove
  <1>4. CASE UNCHANGED jobs
    BY <1>4 DEF StatusesMove
  <1>5. RequestBegin(r) \/ UNCHANGED jobs
    BY DEF request, RequestNext, RequestStep, Push, PushResend, RemoveLrem, RemoveZrem,
           RequestAbort, storeVars
  <1>. HIDE DEF StatusesMove
  <1>. QED  BY <1>1, <1>2, <1>3, <1>4, <1>5 DEF RequestBegin

LEMMA RequestOutcomes ==
  ASSUME Pipeline, Outcomes, NEW r \in Requests, request(r)
  PROVE  SuccessIsLast' /\ ResultIsHeld' /\ EndIsEarned'
  <1>1. /\ \A i \in DOMAIN jobs : i \in DOMAIN jobs' /\ body'[i] = body[i]
        /\ UNCHANGED <<wk, ran, done>>
    BY RequestBodies DEF Outcomes
  <1>2. StatusesMove
    BY RequestStatuses DEF Pipeline, TypeOK
  <1>3. SuccessIsLast'
    BY <1>1, <1>2 DEF Outcomes, SuccessIsLast, Runs, StatusesMove
  <1>4. ResultIsHeld'
    <2>1. \A w \in Workers : ran[w] # "no" => wk[w].id \in DOMAIN jobs
      BY DEF Outcomes, AttemptsTypeOK, Pipeline, TypeOK, HoldsRow
    <2>. QED  BY <1>1, <2>1 DEF Outcomes, ResultIsHeld
  <1>5. EndIsEarned'
    BY <1>1, <1>2 DEF Outcomes, EndIsEarned, StatusesMove
  <1>. QED  BY <1>3, <1>4, <1>5

LEMMA OutcomesKept == Pipeline /\ Outcomes /\ [AttemptsNext]_attemptVars => Outcomes'
  <1>. SUFFICES ASSUME Pipeline, Outcomes, [AttemptsNext]_attemptVars
                PROVE  SuccessIsLast' /\ ResultIsHeld' /\ EndIsEarned'
    BY AttemptTypes DEF Outcomes
  <1>1. CASE \/ UNCHANGED attemptVars
             \/ second
             \/ \E i \in DOMAIN Watched : pollQueue(i)
    <2>1. /\ UNCHANGED <<jobs, ran, body, done>>
          /\ \A w \in Workers : wk'[w].pc = wk[w].pc /\ wk'[w].id = wk[w].id
      BY <1>1
      DEF attemptVars, vars, workerVars, second, Tick, pollQueue, Poll, storeVars, Pipeline, TypeOK,
          WorkerTypeOK, WorkerState
    <2>. QED  BY SMTT(30), <2>1 DEF Outcomes, SuccessIsLast, ResultIsHeld, EndIsEarned, Runs
  <1>. QED  BY <1>1, WorkerOutcomes, RequestOutcomes DEF AttemptsNext, Resting

LEMMA OutcomesInit == AttemptsInit => Outcomes
  <1>. SUFFICES ASSUME AttemptsInit PROVE Outcomes
    OBVIOUS
  <1>1. /\ ran = [w \in Workers |-> "no"] /\ done = [id \in Ids |-> 0]
        /\ jobs = [id \in {} |-> {}] /\ body = [id \in {} |-> 0]
        /\ latency = [w \in Workers |-> 0] /\ tally = [w \in Workers |-> "none"]
        /\ rest = [id \in Ids |-> 0] /\ reruns = 0
    BY DEF AttemptsInit, Init, StoreInit
  <1>2. processed \in [Workers -> [Counted -> Nat]]
    BY DEF AttemptsInit, NewWorker
  <1>3. AttemptsTypeOK
    BY SMTT(30), <1>1, <1>2, WorkerAssumption, AttemptsAssumption DEF AttemptsTypeOK
  <1>. QED  BY <1>1, <1>3 DEF Outcomes, SuccessIsLast, ResultIsHeld, EndIsEarned

LEMMA SuccessShown == Outcomes => SucceedsAtMostOnce
  <1>. SUFFICES ASSUME Outcomes, NEW id \in Ids PROVE done[id] <= 1
    BY DEF SucceedsAtMostOnce
  <1>1. done[id] = 0 \/ done[id] = 1
    BY DEF Outcomes, SuccessIsLast
  <1>. QED  BY SMTT(30), <1>1

LEMMA UnfitFails ==
  ASSUME NEW b \in [job_type: JobTypes, payload: Payloads \ {"absent"}]
  PROVE  Unfit(b) <=> DispatchResult(b) = "error"
  BY DEF Unfit, DispatchResult, DefaultRegistry, decodePayload, Handle, JobTypes, Payloads

LEMMA OutcomesShown == Pipeline /\ Outcomes => OutcomeFitsBody
  <1>. SUFFICES ASSUME Pipeline, Outcomes, NEW id \in DOMAIN jobs
                PROVE  /\ jobs[id].status = "completed" => done[id] = 1 /\ ~Unfit(body[id])
                       /\ jobs[id].status = "failed" => done[id] = 0 /\ Unfit(body[id])
    BY DEF Outcomes, OutcomeFitsBody
  <1>1. Unfit(body[id]) <=> DispatchResult(body[id]) = "error"
    BY UnfitFails DEF Outcomes, AttemptsTypeOK
  <1>2. id \in Ids
    BY DEF Pipeline, TypeOK, StoreTypeOK
  <1>. QED  BY SMTT(30), <1>1, <1>2 DEF Outcomes, EndIsEarned, SuccessIsLast

-----------------------------------------------------------------------------
(* A dispatch is timed before its outcome is written, and the outcome is   *)
(* written before it is counted.                                           *)
Timed(w) ==
    processed[w]["completed"] + processed[w]["failed"]
    + (IF tally[w] = "none" THEN 0 ELSE 1) + (IF ran[w] = "no" THEN 0 ELSE 1) <= latency[w]

TimedFirst == \A w \in Workers : Timed(w)

LEMMA TimedInit == AttemptsInit => TimedFirst
  BY SMTT(30) DEF AttemptsInit, NewWorker, Counted, TimedFirst, Timed

LEMMA TimedTypes ==
  ASSUME Outcomes, NEW v \in Workers
  PROVE  /\ ran \in [Workers -> {"no", "ok", "error"}]
         /\ processed \in [Workers -> [Counted -> Nat]]
         /\ latency \in [Workers -> Nat]
         /\ tally \in [Workers -> Counted \cup {"none"}]
         /\ processed[v]["completed"] \in Nat /\ processed[v]["failed"] \in Nat
         /\ latency[v] \in Nat
  <1>1. /\ ran \in [Workers -> {"no", "ok", "error"}]
        /\ processed \in [Workers -> [Counted -> Nat]]
        /\ latency \in [Workers -> Nat]
        /\ tally \in [Workers -> Counted \cup {"none"}]
    BY DEF Outcomes, AttemptsTypeOK
  <1>. QED  BY <1>1 DEF Counted

LEMMA TimedStays ==
  ASSUME NEW v \in Workers, Timed(v), ran'[v] = ran[v], latency'[v] = latency[v],
         processed'[v] = processed[v], tally'[v] = tally[v]
  PROVE  Timed(v)'
  BY DEF Timed

LEMMA HandlerTimed ==
  ASSUME Outcomes, NEW v \in Workers, Timed(v), NEW w \in Workers, runHandler(w)
  PROVE  Timed(v)'
  <1>1. /\ processed' = processed /\ tally' = tally
        /\ v # w => ran'[v] = ran[v] /\ latency'[v] = latency[v]
        /\ v = w => ran[v] = "no" /\ latency'[v] = latency[v] + 1
    BY TimedTypes DEF runHandler
  <1>2. CASE v = w
    BY SMTT(30), <1>1, <1>2, TimedTypes DEF Timed
  <1>. QED  BY <1>1, <1>2, TimedStays

LEMMA SettleTimed ==
  ASSUME Outcomes, NEW v \in Workers, Timed(v), NEW w \in Workers, settle(w)
  PROVE  Timed(v)'
  <1>1. /\ processed' = processed /\ latency' = latency
        /\ v # w => ran'[v] = ran[v] /\ tally'[v] = tally[v]
        /\ v = w => ran[v] # "no" /\ ran'[v] = "no"
    BY TimedTypes DEF settle
  <1>2. CASE v = w
    BY SMTT(30), <1>1, <1>2, TimedTypes DEF Timed
  <1>. QED  BY <1>1, <1>2, TimedStays

LEMMA CountTimed ==
  ASSUME Outcomes, NEW v \in Workers, Timed(v), NEW w \in Workers, IncProcessed(w)
  PROVE  Timed(v)'
  <1>1. /\ ran' = ran /\ latency' = latency
        /\ v # w => processed'[v] = processed[v] /\ tally'[v] = tally[v]
        /\ v = w => /\ tally[v] # "none" /\ tally'[v] = "none"
                    /\ processed'[v]["completed"] + processed'[v]["failed"] =
                         processed[v]["completed"] + processed[v]["failed"] + 1
    BY SMTT(30), TimedTypes DEF IncProcessed, Counted
  <1>2. CASE v = w
    BY SMTT(30), <1>1, <1>2, TimedTypes DEF Timed
  <1>. QED  BY <1>1, <1>2, TimedStays

LEMMA InterruptTimed ==
  ASSUME Outcomes, NEW v \in Workers, Timed(v), NEW w \in Workers, interrupt(w)
  PROVE  Timed(v)'
  <1>1. NewWorker["completed"] = 0 /\ NewWorker["failed"] = 0
    BY DEF NewWorker, Counted
  <1>2. /\ v # w => /\ ran'[v] = ran[v] /\ latency'[v] = latency[v]
                    /\ processed'[v] = processed[v] /\ tally'[v] = tally[v]
        /\ v = w => /\ ran'[v] = "no" /\ tally'[v] = "none"
                    /\ \/ processed'[v] = processed[v] /\ latency'[v] = latency[v]
                       \/ processed'[v] = NewWorker /\ latency'[v] = 0
    BY TimedTypes DEF interrupt
  <1>3. CASE v = w /\ processed'[v] = processed[v] /\ latency'[v] = latency[v]
    BY SMTT(30), <1>2, <1>3, TimedTypes DEF Timed
  <1>4. CASE v = w /\ processed'[v] = NewWorker /\ latency'[v] = 0
    <2>1. /\ processed'[v]["completed"] = 0 /\ processed'[v]["failed"] = 0
          /\ tally'[v] = "none" /\ ran'[v] = "no" /\ latency'[v] = 0
      BY <1>1, <1>2, <1>4
    <2>. QED  BY SMTT(30), <2>1 DEF Timed
  <1>. QED  BY <1>2, <1>3, <1>4, TimedStays

LEMMA TimedKept == Outcomes /\ TimedFirst /\ [AttemptsNext]_attemptVars => TimedFirst'
  <1>. SUFFICES ASSUME Outcomes, TimedFirst, [AttemptsNext]_attemptVars, NEW v \in Workers
                PROVE  Timed(v)'
    BY DEF TimedFirst
  <1>1. Timed(v)
    BY DEF TimedFirst
  <1>2. \/ UNCHANGED workerVars
        \/ \E w \in Workers : runHandler(w) \/ settle(w) \/ IncProcessed(w) \/ interrupt(w)
    BY ZenonT(30)
    DEF AttemptsNext, Resting, attempt, fetch, resend, request, pollQueue, second, attemptVars,
        workerVars
  <1>3. CASE UNCHANGED workerVars
    BY <1>1, <1>3, TimedStays DEF workerVars
  <1>. QED
    BY <1>1, <1>2, <1>3, HandlerTimed, SettleTimed, CountTimed, InterruptTimed

LEMMA TimedShown == Outcomes /\ TimedFirst => LatencyCoversCounts
  <1>. SUFFICES ASSUME Outcomes, TimedFirst, NEW w \in Workers
                PROVE  processed[w]["completed"] + processed[w]["failed"]
                       + (IF tally[w] = "none" THEN 0 ELSE 1) <= latency[w]
    BY DEF LatencyCoversCounts
  <1>1. processed[w]["completed"] \in Nat /\ processed[w]["failed"] \in Nat /\ latency[w] \in Nat
    BY DEF Outcomes, AttemptsTypeOK, Counted
  <1>. QED  BY SMTT(30), <1>1 DEF TimedFirst, Timed

-----------------------------------------------------------------------------
(* The counters.  A worker that is about to count is between two jobs, so  *)
(* that it is never about to count two ends at once.                       *)
CountersFinite ==
    /\ IsFiniteSet(Completed)
    /\ IsFiniteSet(dlq)
    /\ \A status \in Counted : IsFiniteSet(Increments(status)) /\ IsFiniteSet(Tallied(status))

CountsOnceIdle == \A w \in Workers : tally[w] # "none" => wk[w].pc = "idle"

EndsCounted ==
    \A status \in Counted :
        /\ Total(status) <= Ended(status)
        /\ crashes = 0 => Total(status) = Ended(status)

Counters == CountersFinite /\ CountsOnceIdle /\ EndsCounted

LEMMA CountersTypes ==
  ASSUME Outcomes, CountersFinite, NEW status \in Counted
  PROVE  /\ IsFiniteSet(Increments(status)) /\ IsFiniteSet(Tallied(status))
         /\ Cardinality(Increments(status)) \in Nat /\ Cardinality(Tallied(status)) \in Nat
         /\ Cardinality(Completed) \in Nat /\ Cardinality(dlq) \in Nat /\ reruns \in Nat
  <1>1. IsFiniteSet(Increments(status)) /\ IsFiniteSet(Tallied(status))
    BY DEF CountersFinite
  <1>2. reruns \in Nat
    BY SMTT(30), AttemptsAssumption DEF Outcomes, AttemptsTypeOK
  <1>. QED  BY <1>1, <1>2, FS_CardinalityType DEF CountersFinite

(* A step that counts nothing and ends no job.                             *)
LEMMA CountersStay ==
  ASSUME Counters, CountsOnceIdle', Completed' = Completed,
         UNCHANGED <<dlq, reruns, processed, tally, crashes>>
  PROVE  Counters'
  <1>1. /\ dlq' = dlq /\ reruns' = reruns /\ crashes' = crashes
        /\ \A status \in Counted : /\ Increments(status)' = Increments(status)
                                   /\ Tallied(status)' = Tallied(status)
    BY DEF Increments, Tallied
  <1>2. \A status \in Counted : /\ Total(status)' = Total(status)
                                /\ Ended(status)' = Ended(status)
    BY <1>1 DEF Total, Ended
  <1>3. CountersFinite'
    BY <1>1 DEF Counters, CountersFinite
  <1>4. EndsCounted'
    BY <1>1, <1>2 DEF Counters, EndsCounted
  <1>. QED  BY <1>3, <1>4 DEF Counters

(* A worker has ended a job, and is about to count it.                     *)
LEMMA EndTold ==
  ASSUME Outcomes, Counters, NEW w \in Workers, NEW end \in Counted,
         tally[w] = "none", tally' = [tally EXCEPT ![w] = end],
         UNCHANGED <<processed, crashes>>, CountsOnceIdle',
         IsFiniteSet(Completed'), IsFiniteSet(dlq'),
         Ended(end)' = Ended(end) + 1,
         \A status \in Counted \ {end} : Ended(status)' = Ended(status)
  PROVE  Counters'
  <1>1. \A status \in Counted : Increments(status)' = Increments(status)
    BY DEF Increments
  <1>2. /\ w \notin Tallied(end) /\ Tallied(end)' = Tallied(end) \cup {w}
        /\ \A status \in Counted \ {end} : Tallied(status)' = Tallied(status)
    <2>1. \A v \in Workers : tally'[v] = IF v = w THEN end ELSE tally[v]
      BY TimedTypes
    <2>2. "none" \notin Counted
      BY DEF Counted
    <2>. QED  BY <2>1, <2>2 DEF Tallied
  <1>3. /\ IsFiniteSet(Tallied(end)')
        /\ Cardinality(Tallied(end)') = Cardinality(Tallied(end)) + 1
    <2>1. IsFiniteSet(Tallied(end))
      BY DEF Counters, CountersFinite
    <2>. QED  BY <1>2, <2>1, FS_AddElement
  <1>4. CountersFinite'
    BY <1>1, <1>2, <1>3, CountersTypes DEF Counters, CountersFinite
  <1>5. ASSUME NEW status \in Counted
        PROVE  /\ Total(status)' <= Ended(status)'
               /\ crashes' = 0 => Total(status)' = Ended(status)'
    <2>1. /\ Total(status) <= Ended(status) /\ crashes' = crashes
          /\ crashes = 0 => Total(status) = Ended(status)
      BY DEF Counters, EndsCounted
    <2>2. Total(status) \in Nat /\ Ended(status) \in Nat
      BY SMTT(30), CountersTypes DEF Counters, Total, Ended
    <2>3. CASE status = end
      <3>1. Total(end)' = Total(end) + 1
        BY SMTT(30), <1>1, <1>3, CountersTypes DEF Counters, Total
      <3>. QED  BY SMTT(30), <2>1, <2>2, <2>3, <3>1
    <2>4. CASE status # end
      <3>1. Total(status)' = Total(status)
        BY <1>1, <1>2, <2>4 DEF Total
      <3>. QED  BY <2>1, <2>4, <3>1
    <2>. QED  BY <2>3, <2>4
  <1>. QED  BY <1>4, <1>5 DEF Counters, EndsCounted

LEMMA CompleteCounters ==
  ASSUME Pipeline, Outcomes, Counters, NEW w \in Workers, settle(w), Complete(w),
         tally' = [tally EXCEPT ![w] = "completed"], CountsOnceIdle'
  PROVE  Counters'
  <1>. DEFINE held == wk[w].id
  <1>1. /\ wk[w].pc = "running" /\ MarkCompleted(held)
        /\ UNCHANGED <<processed, crashes, reruns, dlq>>
    BY DEF settle, Complete, MarkCompleted, faultVars
  <1>2. tally[w] = "none"
    BY <1>1 DEF Counters, CountsOnceIdle
  <1>3. held \in DOMAIN jobs /\ jobs[held].status = "processing"
    BY <1>1, HeldJob DEF HasStatus
  <1>4. /\ DOMAIN jobs' = DOMAIN jobs /\ jobs'[held].status = "completed"
        /\ \A i \in DOMAIN jobs \ {held} : jobs'[i] = jobs[i]
    BY SMTT(30), <1>1, <1>3, HeldJob DEF MarkCompleted, Row
  <1>. HIDE DEF held
  <1>5. held \notin Completed /\ Completed' = Completed \cup {held}
    BY <1>3, <1>4 DEF Completed
  <1>6. IsFiniteSet(Completed') /\ Cardinality(Completed') = Cardinality(Completed) + 1
    BY <1>5, FS_AddElement DEF Counters, CountersFinite
  <1>7. /\ "completed" \in Counted /\ Ended("completed")' = Ended("completed") + 1
        /\ \A status \in Counted \ {"completed"} : Ended(status)' = Ended(status)
    BY <1>1, <1>6 DEF Ended, Counted
  <1>8. IsFiniteSet(dlq')
    BY <1>1 DEF Counters, CountersFinite
  <1>. QED  BY <1>1, <1>2, <1>6, <1>7, <1>8, EndTold

LEMMA GiveUpCounters ==
  ASSUME Pipeline, Outcomes, Counters, NEW w \in Workers, settle(w), GiveUp(w),
         tally' = [tally EXCEPT ![w] = "failed"], CountsOnceIdle'
  PROVE  Counters'
  <1>. DEFINE held == wk[w].id
              letter == [job_id |-> held, tenant_id |-> jobs[held].tenant_id,
                         attempts |-> attempts(w)]
  <1>1. /\ wk[w].pc = "running" /\ DeadLetter(held, attempts(w))
        /\ UNCHANGED <<processed, crashes, reruns>>
    BY DEF settle, GiveUp, faultVars
  <1>2. tally[w] = "none"
    BY <1>1 DEF Counters, CountsOnceIdle
  <1>3. held \in DOMAIN jobs /\ jobs[held].status = "processing"
    BY <1>1, HeldJob DEF HasStatus
  <1>4. /\ DOMAIN jobs' = DOMAIN jobs /\ jobs'[held].status = "failed"
        /\ \A i \in DOMAIN jobs \ {held} : jobs'[i] = jobs[i]
    BY SMTT(30), <1>1, <1>3, HeldJob DEF DeadLetter, Row
  <1>5. ~ \E d \in dlq : d.job_id = held
    BY <1>3 DEF Pipeline, DeadLetterMatchesFailed, HasStatus
  <1>6. dlq' = dlq \cup {letter} /\ letter.job_id = held
    BY <1>1, <1>5 DEF DeadLetter
  <1>7. letter \notin dlq
    BY <1>5, <1>6
  <1>. HIDE DEF held, letter
  <1>8. IsFiniteSet(dlq') /\ Cardinality(dlq') = Cardinality(dlq) + 1
    BY <1>6, <1>7, FS_AddElement DEF Counters, CountersFinite
  <1>9. Completed' = Completed
    BY <1>3, <1>4 DEF Completed
  <1>10. /\ "failed" \in Counted
         /\ \A status \in Counted \ {"failed"} : Ended(status)' = Ended(status)
    BY <1>9 DEF Ended, Counted
  <1>11. Ended("failed")' = Ended("failed") + 1
    <2>1. Cardinality(dlq) \in Nat /\ reruns \in Nat
      BY <1>10, CountersTypes DEF Counters
    <2>2. Ended("failed")' = Cardinality(dlq') + reruns /\ Ended("failed") = Cardinality(dlq) + reruns
      BY <1>1 DEF Ended
    <2>. QED  BY SMTT(30), <1>8, <2>1, <2>2
  <1>12. IsFiniteSet(Completed')
    BY <1>9 DEF Counters, CountersFinite
  <1>. QED  BY <1>1, <1>2, <1>8, <1>10, <1>11, <1>12, EndTold

LEMMA SettleCounters ==
  ASSUME Pipeline, Outcomes, Counters, NEW w \in Workers, settle(w)
  PROVE  Counters'
  <1>1. /\ wk[w].pc = "running" /\ tally[w] = "none"
        /\ \A v \in Workers \ {w} : wk'[v] = wk[v]
    BY HeldJob DEF settle, Complete, GiveUp, ScheduleRetry, Counters, CountsOnceIdle
  <1>2. ASSUME Complete(w) \/ GiveUp(w), NEW end, tally' = [tally EXCEPT ![w] = end]
        PROVE  CountsOnceIdle'
    <2>1. wk'[w].pc = "idle"
      <3>1. wk'[w] = Idle
        BY <1>2, HeldJob DEF Complete, GiveUp
      <3>. QED  BY SMTT(30), <3>1 DEF Idle
    <2>2. \A v \in Workers \ {w} : tally'[v] = tally[v]
      BY <1>2, TimedTypes
    <2>. QED  BY <1>1, <2>1, <2>2 DEF Counters, CountsOnceIdle
  <1>3. CASE ScheduleRetry(w) /\ UNCHANGED tally
    <2>. DEFINE held == wk[w].id
    <2>1. /\ MarkForRetry(held, attempts(w))
          /\ UNCHANGED <<processed, crashes, reruns, dlq>>
      BY <1>3 DEF settle, ScheduleRetry, MarkForRetry, faultVars
    <2>2. held \in DOMAIN jobs /\ jobs[held].status = "processing"
      BY <1>1, HeldJob DEF HasStatus
    <2>3. /\ DOMAIN jobs' = DOMAIN jobs /\ jobs'[held].status = "pending"
          /\ \A i \in DOMAIN jobs \ {held} : jobs'[i] = jobs[i]
      BY SMTT(30), <2>1, <2>2, HeldJob DEF MarkForRetry, Row
    <2>. HIDE DEF held
    <2>4. Completed' = Completed
      BY <2>2, <2>3 DEF Completed
    <2>5. CountsOnceIdle'
      BY <1>1, <1>3 DEF Counters, CountsOnceIdle
    <2>. QED  BY <1>3, <2>1, <2>4, <2>5, CountersStay
  <1>. QED  BY <1>2, <1>3, CompleteCounters, GiveUpCounters DEF settle

(* What a process has counted, as pairs.                                   *)
LEMMA PairsCounted ==
  ASSUME NEW status, NEW p
  PROVE  p \in Increments(status) <=>
           \E w \in Workers : \E n \in 1..processed[w][status] : p = <<w, n>>
  BY SMTT(30) DEF Increments

LEMMA PairsCountedNext ==
  ASSUME NEW status, NEW p
  PROVE  p \in Increments(status)' <=>
           \E w \in Workers : \E n \in 1..processed'[w][status] : p = <<w, n>>
  BY SMTT(30) DEF Increments

(* Counting moves one end from what is to be counted to what is counted.   *)
LEMMA EndCounted ==
  ASSUME Outcomes, Counters, NEW w \in Workers, IncProcessed(w),
         NEW end \in Counted, end = tally[w], NEW n, n = processed[w][end] + 1
  PROVE  Counters'
  <1>1. /\ processed' = [processed EXCEPT ![w][end] = @ + 1]
        /\ tally' = [tally EXCEPT ![w] = "none"]
        /\ UNCHANGED <<jobs, dlq, wk, crashes, reruns>>
    BY DEF IncProcessed, vars
  <1>2. processed[w][end] \in Nat
    BY TimedTypes
  <1>3. \A v \in Workers, status \in Counted :
          processed'[v][status] = IF v = w /\ status = end THEN n ELSE processed[v][status]
    BY <1>1, TimedTypes
  <1>4. \A v \in Workers : tally'[v] = IF v = w THEN "none" ELSE tally[v]
    BY <1>1, TimedTypes
  <1>5. <<w, n>> \notin Increments(end)
    <2>1. ASSUME NEW v \in Workers, NEW m \in 1..processed[v][end], <<w, n>> = <<v, m>>
          PROVE  FALSE
      <3>1. v = w /\ m = n
        BY SMTT(30), <2>1
      <3>. QED  BY SMTT(30), <1>2, <3>1
    <2>. QED  BY <2>1, PairsCounted
  <1>6. Increments(end)' = Increments(end) \cup {<<w, n>>}
    <2>1. ASSUME NEW p \in Increments(end)' PROVE p \in Increments(end) \cup {<<w, n>>}
      <3>0. PICK v \in Workers : \E m \in 1..processed'[v][end] : p = <<v, m>>
        BY SMTT(30) DEF Increments
      <3>1. PICK m \in 1..processed'[v][end] : p = <<v, m>>
        BY <3>0
      <3>2. CASE v = w /\ m = n
        BY <3>1, <3>2
      <3>3. CASE ~(v = w /\ m = n)
        <4>1. m \in 1..processed[v][end]
          BY SMTT(30), <1>1, <1>2, <1>3, <3>3
        <4>. QED  BY <3>1, <4>1, PairsCounted
      <3>. QED  BY <3>2, <3>3
    <2>2. ASSUME NEW p \in Increments(end) PROVE p \in Increments(end)'
      <3>0. PICK v \in Workers : \E m \in 1..processed[v][end] : p = <<v, m>>
        BY SMTT(30) DEF Increments
      <3>1. PICK m \in 1..processed[v][end] : p = <<v, m>>
        BY <3>0
      <3>2. m \in 1..processed'[v][end]
        BY SMTT(30), <1>1, <1>2, <1>3
      <3>. QED  BY <3>1, <3>2, PairsCountedNext
    <2>3. <<w, n>> \in Increments(end)'
      <3>1. n \in 1..processed'[w][end]
        BY SMTT(30), <1>1, <1>2, <1>3
      <3>. QED  BY <3>1, PairsCountedNext
    <2>. QED  BY <2>1, <2>2, <2>3
  <1>7. ASSUME NEW status \in Counted, status # end
        PROVE  Increments(status)' = Increments(status) /\ Tallied(status)' = Tallied(status)
    <2>1. \A v \in Workers : processed'[v][status] = processed[v][status]
      BY <1>3, <1>7
    <2>2. Tallied(status)' = Tallied(status)
      <3>1. tally[w] # status /\ status # "none"
        BY <1>7 DEF Counted
      <3>. QED  BY <1>4, <3>1 DEF Tallied
    <2>3. Increments(status)' = Increments(status)
      BY SMTT(30), <2>1 DEF Increments
    <2>. QED  BY <2>2, <2>3
  <1>8. w \in Tallied(end) /\ Tallied(end)' = Tallied(end) \ {w}
    <2>1. end # "none" /\ tally[w] = end
      BY DEF Counted
    <2>. QED  BY <1>4, <2>1 DEF Tallied
  <1>9. IsFiniteSet(Increments(end)) /\ IsFiniteSet(Tallied(end))
    BY <1>1 DEF Counters, CountersFinite
  <1>10. /\ IsFiniteSet(Increments(end)')
         /\ Cardinality(Increments(end)') = Cardinality(Increments(end)) + 1
    <2>. DEFINE pair == <<w, n>>
    <2>. HIDE DEF pair
    <2>1. pair \notin Increments(end) /\ Increments(end)' = Increments(end) \cup {pair}
      BY <1>5, <1>6 DEF pair
    <2>. QED  BY SMTT(30), <1>9, <2>1, FS_AddElement
  <1>11. /\ IsFiniteSet(Tallied(end)')
         /\ Cardinality(Tallied(end)') = Cardinality(Tallied(end)) - 1
    BY <1>8, <1>9, FS_RemoveElement
  <1>12. \A status \in Counted : Total(status)' = Total(status)
    <2>1. Total(end)' = Total(end)
      BY SMTT(30), <1>1, <1>10, <1>11, CountersTypes DEF Counters, Total
    <2>. QED  BY <1>7, <2>1 DEF Total
  <1>13. Completed' = Completed /\ \A status \in Counted : Ended(status)' = Ended(status)
    BY <1>1 DEF Completed, Ended
  <1>14. CountersFinite'
    BY <1>1, <1>7, <1>10, <1>11, <1>13 DEF Counters, CountersFinite
  <1>15. CountsOnceIdle'
    BY <1>1, <1>4 DEF Counters, CountsOnceIdle
  <1>16. EndsCounted'
    BY <1>1, <1>12, <1>13 DEF Counters, EndsCounted
  <1>. QED  BY <1>14, <1>15, <1>16 DEF Counters

LEMMA CountCounters ==
  ASSUME Outcomes, Counters, NEW w \in Workers, IncProcessed(w)
  PROVE  Counters'
  <1>1. tally[w] \in Counted
    BY TimedTypes DEF IncProcessed
  <1>. QED  BY <1>1, EndCounted

(* A process that stops, or is gone, can only lose counts.                 *)
LEMMA InterruptCounters ==
  ASSUME Pipeline, Outcomes, Counters, NEW w \in Workers, interrupt(w)
  PROVE  Counters'
  <1>1. /\ UNCHANGED <<jobs, dlq, reruns>> /\ crashes' = crashes + 1
        /\ tally' = [tally EXCEPT ![w] = "none"]
        /\ processed' = processed \/ processed' = [processed EXCEPT ![w] = NewWorker]
    BY DEF interrupt, WorkerCrash, Crash, storeVars
  <1>2. \A v \in Workers : tally'[v] = IF v = w THEN "none" ELSE tally[v]
    BY <1>1, TimedTypes
  <1>3. \A v \in Workers \ {w} : wk'[v] = wk[v]
    BY HeldJob DEF interrupt, WorkerCrash
  <1>4. CountsOnceIdle'
    BY <1>2, <1>3 DEF Counters, CountsOnceIdle
  <1>5. crashes' # 0
    BY SMTT(30), <1>1, FaultBoundsAssumption DEF Pipeline, TypeOK, FaultTypeOK
  <1>6. ASSUME NEW status \in Counted
        PROVE  Increments(status)' \subseteq Increments(status) /\ Tallied(status)' \subseteq Tallied(status)
    <2>1. Tallied(status)' \subseteq Tallied(status)
      <3>1. status # "none"
        BY DEF Counted
      <3>. QED  BY <1>2, <3>1 DEF Tallied
    <2>2. ASSUME NEW v \in Workers, NEW m \in 1..processed'[v][status]
          PROVE  m \in 1..processed[v][status]
      <3>1. CASE processed' = processed
        BY <3>1
      <3>2. CASE processed' = [processed EXCEPT ![w] = NewWorker]
        <4>1. processed'[v] = IF v = w THEN NewWorker ELSE processed[v]
          BY <3>2, TimedTypes
        <4>2. NewWorker[status] = 0
          BY DEF NewWorker
        <4>3. v # w
          BY SMTT(30), <4>1, <4>2
        <4>. QED  BY <4>1, <4>3
      <3>. QED  BY <1>1, <3>1, <3>2
    <2>3. Increments(status)' \subseteq Increments(status)
      BY SMTT(30), <2>2 DEF Increments
    <2>. QED  BY <2>1, <2>3
  <1>7. ASSUME NEW status \in Counted
        PROVE  /\ IsFiniteSet(Increments(status)') /\ IsFiniteSet(Tallied(status)')
               /\ Total(status)' <= Total(status) /\ Total(status)' \in Nat
    <2>1. IsFiniteSet(Increments(status)) /\ IsFiniteSet(Tallied(status))
      BY DEF Counters, CountersFinite
    <2>2. /\ IsFiniteSet(Increments(status)')
          /\ Cardinality(Increments(status)') <= Cardinality(Increments(status))
      BY <1>6, <2>1, FS_Subset
    <2>3. /\ IsFiniteSet(Tallied(status)')
          /\ Cardinality(Tallied(status)') <= Cardinality(Tallied(status))
      BY <1>6, <2>1, FS_Subset
    <2>4. /\ Cardinality(Increments(status)') \in Nat /\ Cardinality(Tallied(status)') \in Nat
          /\ Cardinality(Increments(status)) \in Nat /\ Cardinality(Tallied(status)) \in Nat
      BY <2>1, <2>2, <2>3, FS_CardinalityType
    <2>5. /\ Total(status)' = Cardinality(Increments(status)') + Cardinality(Tallied(status)')
          /\ Total(status) = Cardinality(Increments(status)) + Cardinality(Tallied(status))
      BY DEF Total
    <2>. QED  BY SMTT(30), <2>2, <2>3, <2>4, <2>5
  <1>8. Completed' = Completed /\ \A status \in Counted : Ended(status)' = Ended(status)
    BY <1>1 DEF Completed, Ended
  <1>9. ASSUME NEW status \in Counted PROVE Total(status)' <= Ended(status)'
    <2>1. Total(status) <= Ended(status)
      BY DEF Counters, EndsCounted
    <2>2. Total(status) \in Nat /\ Ended(status) \in Nat
      BY SMTT(30), CountersTypes DEF Counters, Total, Ended
    <2>3. Total(status)' <= Ended(status)
      BY SMTT(30), <1>7, <2>1, <2>2
    <2>. QED  BY <1>8, <2>3
  <1>10. CountersFinite'
    BY <1>1, <1>7, <1>8 DEF Counters, CountersFinite
  <1>. QED  BY <1>4, <1>5, <1>9, <1>10 DEF Counters, EndsCounted

(* The steps of a worker that touch no end.                                *)
LEMMA WorkerCounters ==
  ASSUME Pipeline, Outcomes, Counters, NEW w \in Workers,
         fetch(w) \/ resend(w) \/ runHandler(w)
  PROVE  Counters'
  <1>1. UNCHANGED <<dlq, reruns, processed, tally, crashes>>
    BY DEF fetch, resend, runHandler, workerVars, vars, storeVars, faultVars, Dequeue, Claim, Skip,
           Park, ParkResend, ClaimJob, Resend
  <1>2. CountsOnceIdle'
    <2>1. CASE fetch(w)
      <3>1. tally[w] = "none" /\ \A v \in Workers \ {w} : wk'[v] = wk[v]
        BY <2>1, HeldJob DEF fetch, Dequeue, Claim, Skip, Park
      <3>. QED  BY <1>1, <3>1 DEF Counters, CountsOnceIdle
    <2>2. CASE resend(w) \/ runHandler(w)
      <3>1. wk' = wk
        BY <2>2 DEF resend, ParkResend, runHandler, vars
      <3>. QED  BY <1>1, <3>1 DEF Counters, CountsOnceIdle
    <2>. QED  BY <2>1, <2>2
  <1>3. Completed' = Completed
    <2>1. CASE jobs' = jobs
      BY <2>1 DEF Completed
    <2>2. CASE Claim(w)
      <3>. DEFINE held == wk[w].id
      <3>1. held \in DOMAIN jobs /\ jobs[held].status = "pending"
        BY <2>2 DEF Claim, ClaimJob, HasStatus
      <3>2. /\ DOMAIN jobs' = DOMAIN jobs /\ jobs'[held].status = "processing"
            /\ \A i \in DOMAIN jobs \ {held} : jobs'[i] = jobs[i]
        BY SMTT(30), <2>2, <3>1, HeldJob DEF Claim, ClaimJob, Row
      <3>. HIDE DEF held
      <3>. QED  BY <3>1, <3>2 DEF Completed
    <2>3. jobs' = jobs \/ Claim(w)
      BY DEF fetch, resend, runHandler, vars, storeVars, Dequeue, Skip, Park, ParkResend
    <2>. QED  BY <2>1, <2>2, <2>3
  <1>. QED  BY <1>1, <1>2, <1>3, CountersStay

(* RetryJob deletes the one dead letter of the job it resets.              *)
LEMMA ResetCounters ==
  ASSUME Pipeline, Outcomes, Counters, NEW id \in Ids, NEW t \in Tenants, RetryJob(t, id),
         reruns' = IF dlq \subseteq dlq' THEN reruns ELSE reruns + 1
  PROVE  /\ IsFiniteSet(dlq') /\ Ended("failed")' = Ended("failed")
  <1>. DEFINE letter == [job_id |-> id, tenant_id |-> jobs[id].tenant_id,
                         attempts |-> jobs[id].retry_count]
  <1>1. id \in DOMAIN jobs /\ jobs[id].status = "failed" /\ dlq' = {d \in dlq : d.job_id # id}
    BY DEF RetryJob, HasStatus
  <1>2. letter \in dlq /\ letter.job_id = id
    BY <1>1 DEF Pipeline, DeadLetterMatchesFailed
  <1>3. ASSUME NEW d \in dlq, d.job_id = id PROVE d = letter
    <2>1. d.tenant_id = jobs[id].tenant_id /\ d.attempts = jobs[id].retry_count
      BY <1>3 DEF Pipeline, DeadLetterMatchesFailed
    <2>2. d \in DeadLetterRow
      BY DEF Pipeline, TypeOK, StoreTypeOK
    <2>. QED  BY SMTT(30), <1>3, <2>1, <2>2 DEF DeadLetterRow
  <1>. HIDE DEF letter
  <1>4. dlq' = dlq \ {letter}
    BY <1>1, <1>2, <1>3
  <1>5. reruns' = reruns + 1
    BY <1>2, <1>4
  <1>6. IsFiniteSet(dlq)
    BY DEF Counters, CountersFinite
  <1>7. IsFiniteSet(dlq') /\ Cardinality(dlq') = Cardinality(dlq) - 1
    BY <1>2, <1>4, <1>6, FS_RemoveElement
  <1>8. Cardinality(dlq) \in Nat /\ reruns \in Nat
    BY CountersTypes DEF Counters, Counted
  <1>9. Ended("failed")' = Cardinality(dlq') + reruns' /\ Ended("failed") = Cardinality(dlq) + reruns
    BY DEF Ended
  <1>. QED  BY SMTT(30), <1>5, <1>7, <1>8, <1>9

LEMMA RequestCounters ==
  ASSUME Pipeline, Outcomes, Counters, NEW r \in Requests, request(r)
  PROVE  Counters'
  <1>1. UNCHANGED <<wk, processed, tally, crashes>>
    <2>1. UNCHANGED <<wk, processed, tally>>
      BY RequestBodies DEF Outcomes
    <2>2. crashes' = crashes
      BY DEF request, RequestNext, RequestBegin, Submit, retryJob, cancelJob, RequestStep, Push,
             PushResend, RemoveLrem, RemoveZrem, RequestAbort, Resend, Abort, faultVars
    <2>. QED  BY <2>1, <2>2
  <1>2. CountsOnceIdle'
    BY <1>1 DEF Counters, CountsOnceIdle
  <1>3. Completed' = Completed
    <2>1. StatusesMove
      BY RequestStatuses DEF Pipeline, TypeOK
    <2>2. DOMAIN jobs \subseteq DOMAIN jobs'
      BY RequestBodies DEF Outcomes
    <2>. QED  BY <2>1, <2>2 DEF StatusesMove, Completed
  <1>4. reruns' = IF dlq \subseteq dlq' THEN reruns ELSE reruns + 1
    BY DEF request
  <1>5. CASE dlq' = dlq
    BY <1>1, <1>2, <1>3, <1>4, <1>5, CountersStay
  <1>6. ASSUME NEW id \in Ids, NEW t \in Tenants, RetryJob(t, id)
        PROVE  Counters'
    <2>1. IsFiniteSet(dlq') /\ Ended("failed")' = Ended("failed")
      BY <1>4, <1>6, ResetCounters
    <2>2. \A status \in Counted : /\ Increments(status)' = Increments(status)
                                  /\ Tallied(status)' = Tallied(status)
      BY <1>1 DEF Increments, Tallied
    <2>3. \A status \in Counted : Total(status)' = Total(status)
      BY <2>2 DEF Total
    <2>4. Ended("completed")' = Ended("completed")
      BY <1>3 DEF Ended
    <2>5. \A status \in Counted : Ended(status)' = Ended(status)
      BY <2>1, <2>4 DEF Counted
    <2>6. CountersFinite'
      BY <1>3, <2>1, <2>2 DEF Counters, CountersFinite
    <2>7. EndsCounted'
      BY <1>1, <2>3, <2>5 DEF Counters, EndsCounted
    <2>. QED  BY <1>2, <2>6, <2>7 DEF Counters
  <1>7. dlq' = dlq \/ \E id \in Ids, t \in Tenants : RetryJob(t, id)
    BY DEF request, RequestNext, RequestBegin, Submit, CreateJob, retryJob, cancelJob, CancelJob,
           RequestStep, Push, PushResend, RemoveLrem, RemoveZrem, RequestAbort, storeVars
  <1>. QED  BY <1>5, <1>6, <1>7

LEMMA CountersKept == Pipeline /\ Outcomes /\ Counters /\ [AttemptsNext]_attemptVars => Counters'
  <1>. SUFFICES ASSUME Pipeline, Outcomes, Counters, [AttemptsNext]_attemptVars
                PROVE  Counters'
    OBVIOUS
  <1>1. CASE \/ UNCHANGED attemptVars
             \/ second
             \/ \E i \in DOMAIN Watched : pollQueue(i)
    <2>1. UNCHANGED <<jobs, dlq, reruns, processed, tally, crashes>>
      BY <1>1 DEF attemptVars, vars, workerVars, second, Tick, pollQueue, Poll, storeVars, faultVars
    <2>2. \A w \in Workers : wk'[w].pc = wk[w].pc
      BY SMTT(30), <1>1
      DEF attemptVars, vars, second, Tick, pollQueue, Poll, Pipeline, TypeOK, WorkerTypeOK, WorkerState
    <2>3. CountsOnceIdle' /\ Completed' = Completed
      BY <2>1, <2>2 DEF Counters, CountsOnceIdle, Completed
    <2>. QED  BY <2>1, <2>3, CountersStay
  <1>2. ASSUME NEW w \in Workers, attempt(w) \/ resend(w) \/ interrupt(w) PROVE Counters'
    BY <1>2, WorkerCounters, SettleCounters, CountCounters, InterruptCounters DEF attempt
  <1>. QED  BY <1>1, <1>2, RequestCounters DEF AttemptsNext, Resting

LEMMA CountersInit == AttemptsInit => Counters
  <1>. SUFFICES ASSUME AttemptsInit PROVE Counters
    OBVIOUS
  <1>1. /\ DOMAIN jobs = {} /\ dlq = {} /\ reruns = 0 /\ tally = [w \in Workers |-> "none"]
        /\ processed = [w \in Workers |-> NewWorker]
    BY DEF AttemptsInit, Init, StoreInit
  <1>2. Completed = {}
    BY <1>1 DEF Completed
  <1>3. ASSUME NEW status \in Counted PROVE Increments(status) = {} /\ Tallied(status) = {}
    <2>1. \A w \in Workers : processed[w][status] = 0
      BY <1>1 DEF NewWorker
    <2>2. Increments(status) = {}
      BY SMTT(30), <2>1 DEF Increments
    <2>. QED  BY <1>1, <2>2 DEF Tallied, Counted
  <1>4. IsFiniteSet({}) /\ Cardinality({}) = 0
    BY FS_EmptySet
  <1>5. CountersFinite
    BY <1>1, <1>2, <1>3, <1>4 DEF CountersFinite
  <1>6. CountsOnceIdle
    BY <1>1 DEF CountsOnceIdle
  <1>7. ASSUME NEW status \in Counted PROVE Total(status) = 0 /\ Ended(status) = 0
    <2>1. /\ Cardinality(Increments(status)) = 0 /\ Cardinality(Tallied(status)) = 0
          /\ Cardinality(Completed) = 0 /\ Cardinality(dlq) = 0
      BY <1>1, <1>2, <1>3, <1>4
    <2>. QED  BY SMTT(30), <1>1, <2>1 DEF Total, Ended
  <1>8. EndsCounted
    BY SMTT(30), <1>7 DEF EndsCounted
  <1>. QED  BY <1>5, <1>6, <1>8 DEF Counters
=============================================================================
