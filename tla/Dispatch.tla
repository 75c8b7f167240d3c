------------------------------ MODULE Dispatch ------------------------------
(***************************************************************************)
(* The job pipeline: requests, workers, the delayed-queue poller and time  *)
(* acting on one Postgres and one Redis.                                   *)
(***************************************************************************)
EXTENDS Worker, Api

vars == <<jobs, dlq, work, delayed, wk, rq, crashes, aborts, resends>>

(* A process that works on a job holds the id of one that has a row: the   *)
(* calls it goes on to make look that row up.                              *)
HoldsRow ==
    /\ \A w \in Workers :
          /\ wk[w].pc = "popped" => wk[w].id \in Ids
          /\ wk[w].pc \in {"running", "parking"} => wk[w].id \in DOMAIN jobs
    /\ \A r \in Requests : rq[r].pc # "idle" => rq[r].id \in DOMAIN jobs

(* Tables, queues, processes and fault counters have their types, and the  *)
(* row behind every call a worker or request makes is there.               *)
TypeOK ==
    /\ StoreTypeOK
    /\ QueueTypeOK
    /\ WorkerTypeOK
    /\ ApiTypeOK
    /\ FaultTypeOK
    /\ HoldsRow

Init ==
    /\ StoreInit
    /\ QueueInit
    /\ WorkerInit
    /\ ApiInit
    /\ FaultInit

-----------------------------------------------------------------------------
(* Mutant of Poll: only the first watched queue is looked after.           *)
Poll_FirstQueue(i) ==
    /\ PromoteDue(Watched[1])
    /\ UNCHANGED <<storeVars, wk, rq, faultVars>>

(* One PromoteDue call of a worker's poll loop, which calls it for each    *)
(* watched queue in turn, every second.                                    *)
Poll(i) ==
    /\ PromoteDue(Watched[i])
    /\ UNCHANGED <<storeVars, wk, rq, faultVars>>

(* A second passes.  It matters only while some retry is waiting.          *)
Tick ==
    /\ \/ \E q \in QueueNames : \E id \in DOMAIN delayed[q] : delayed[q][id] > 0
       \/ \E w \in Workers : wk[w].delay > 0
    /\ delayed' = [q \in QueueNames |->
                     [id \in DOMAIN delayed[q] |-> Elapse(delayed[q][id])]]
    /\ wk' = [w \in Workers |-> [wk[w] EXCEPT !.delay = Elapse(@)]]
    /\ UNCHANGED <<storeVars, work, rq, faultVars>>

WorkerNext(w) ==
    /\ WorkerStep(w) \/ ParkResend(w) \/ WorkerCrash(w)
    /\ UNCHANGED rq

RequestNext(r) ==
    /\ RequestBegin(r) \/ RequestStep(r) \/ PushResend(r) \/ RequestAbort(r)
    /\ UNCHANGED wk

Next ==
    \/ \E w \in Workers : WorkerNext(w)
    \/ \E r \in Requests : RequestNext(r)
    \/ \E i \in DOMAIN Watched : Poll(i)
    \/ Tick

Spec == Init /\ [][Next]_vars

(* Every goroutine that can move does: the consume loop of each worker,    *)
(* whose handlers return; the poll loop for each queue it watches; a       *)
(* request that has begun.  Seconds pass.  Nobody has to send a request.   *)
Fairness ==
    /\ \A w \in Workers : WF_vars(WorkerStep(w) /\ UNCHANGED rq)
    /\ \A r \in Requests : WF_vars(RequestStep(r) /\ UNCHANGED wk)
    /\ \A i \in DOMAIN Watched : WF_vars(Poll(i))
    /\ WF_vars(Tick)

FairSpec == Spec /\ Fairness

(* The same with an owner who asks for a retry whenever the api grants it. *)
InsistentSpec ==
    /\ FairSpec
    /\ \A r \in Requests, id \in Ids, tenant \in Tenants :
          WF_vars(retryJob(r, id, tenant) /\ UNCHANGED wk)

-----------------------------------------------------------------------------
Runs(w, id) == wk[w].pc = "running" /\ wk[w].id = id

(* No two workers run one job at the same time, and whoever runs a job is  *)
(* the reason its row is processing and works from an up-to-date copy of   *)
(* its retry counters.  MarkCompleted, MarkForRetry and DeadLetter rest on *)
(* this: their WHERE names the id and not the status.                      *)
ExclusiveRun ==
    \A w \in Workers, id \in Ids : Runs(w, id) =>
        /\ HasStatus(id, "processing")
        /\ jobs[id].retry_count = wk[w].retry_count
        /\ jobs[id].max_retries = wk[w].max_retries
        /\ \A v \in Workers : Runs(v, id) => v = w

(* The dead_letter_queue holds exactly one row for each failed job, with   *)
(* the job's tenant and its attempts, and none for any other job           *)
(* (DeadLetter and RetryJob: the two "can never diverge").                 *)
DeadLetterMatchesFailed ==
    /\ \A id \in DOMAIN jobs : jobs[id].status = "failed" =>
          [job_id |-> id, tenant_id |-> jobs[id].tenant_id,
           attempts |-> jobs[id].retry_count] \in dlq
    /\ \A d \in dlq :
          /\ HasStatus(d.job_id, "failed")
          /\ d.tenant_id = jobs[d.job_id].tenant_id
          /\ d.attempts = jobs[d.job_id].retry_count

(* A job is dead-lettered on exactly its max_retries-th failed attempt     *)
(* since it was submitted or reset (its first when max_retries is below    *)
(* 1), and no job that is not failed has used its budget up                *)
(* (handleFailure's attempts >= MaxRetries).                               *)
RetryBudget ==
    \A id \in DOMAIN jobs :
        LET row == jobs[id] IN
        IF row.status = "failed"
        THEN \/ row.retry_count = row.max_retries
             \/ row.max_retries < 1 /\ row.retry_count = 1
        ELSE row.retry_count = 0 \/ row.retry_count < row.max_retries

RowAgrees(row) ==
    /\ row.completed_at = "set" <=> row.status \in Terminal
    /\ row.result = "set" <=> row.status = "completed"
    /\ row.error_message = "set" <=> row.retry_count > 0 /\ row.status # "completed"
    /\ row.started_at = "set" <=>
          row.retry_count > 0 \/ row.status \in {"processing", "completed", "failed"}

(* The nullable columns tell the truth about the job's history: an end     *)
(* stamp exactly on ended jobs, a result exactly on completed ones, an     *)
(* error exactly where a failed attempt counts, a start stamp exactly      *)
(* where an attempt was made since the last reset (the column lists of the *)
(* store's UPDATE statements).                                             *)
ColumnsAgree == \A id \in DOMAIN jobs : RowAgrees(jobs[id])

-----------------------------------------------------------------------------
(* The places an id that is still to be run can be.                        *)
InRedis(id) ==
    \E q \in QueueNames :
        \/ \E i \in DOMAIN work[q] : work[q][i] = id
        \/ id \in DOMAIN delayed[q]

Places(id) == UNION {{q} \X {i \in DOMAIN work[q] : work[q][i] = id} : q \in QueueNames}

Carried(id) ==
    \/ \E r \in Requests : rq[r].pc = "push" /\ rq[r].id = id
    \/ \E w \in Workers : wk[w].pc \in {"popped", "parking"} /\ wk[w].id = id

(* While no worker has crashed and no request was cut off, every pending   *)
(* job's id is on its way to a worker: in Redis, or carried there by the   *)
(* process that just made the row pending, or popped and not claimed yet.  *)
NoLostJob ==
    crashes = 0 /\ aborts = 0 =>
        \A id \in DOMAIN jobs : jobs[id].status = "pending" =>
            InRedis(id) \/ Carried(id)

TokensOf(id) ==
    ({"list"} \X Places(id))
    \cup ({"set"} \X {q \in QueueNames : id \in DOMAIN delayed[q]})
    \cup ({"request"} \X {r \in Requests : rq[r].pc = "push" /\ rq[r].id = id})
    \cup ({"worker"} \X {w \in Workers : wk[w].id = id})

(* While no Redis write was sent twice, a job's id exists at most once     *)
(* among the lists, the delayed sets and the processes that hold it (the   *)
(* promote script, and LPUSH after each reset: a job is never on both      *)
(* structures and never doubled).                                          *)
SingleToken == resends = 0 => \A id \in Ids : \A x, y \in TokensOf(id) : x = y

(* An id is only ever in the list and the delayed set of its own job's     *)
(* queue_name, so that the workers of that queue and cancelJob's Remove    *)
(* find it (EnqueueDelayed of a retry, the promote script's two keys, the  *)
(* LPUSH of retryJob).                                                     *)
OwnQueue ==
    \A q \in QueueNames, id \in Ids :
        \/ \E i \in DOMAIN work[q] : work[q][i] = id
        \/ id \in DOMAIN delayed[q]
        => id \in DOMAIN jobs /\ jobs[id].queue_name = q

(* A cancel request that is cleaning Redis up after itself works on a job  *)
(* that is cancelled for good: it never takes a runnable job's id away     *)
(* (cancelJob's Remove, which is not ordered against the row).             *)
CleanupOnlyCancelled ==
    \A r \in Requests : rq[r].pc \in {"lrem", "zrem"} =>
        HasStatus(rq[r].id, "cancelled")

-----------------------------------------------------------------------------
column(id, name, none) == IF id \in DOMAIN jobs THEN jobs[id][name] ELSE none

Lifecycle == INSTANCE JobLifecycle WITH
    Ids <- Ids, Budgets <- Budgets,
    status <- [id \in Ids |-> column(id, "status", "none")],
    failed <- [id \in Ids |-> column(id, "retry_count", 0)],
    budget <- [id \in Ids |-> column(id, "max_retries", 0)]

(* The rows of the jobs table move as the abstract life cycle allows and   *)
(* in no other way: one start per pending spell, one outcome per start, a  *)
(* cancelled or completed job never moves again, a failed one only by      *)
(* retryJob -- with any number of workers, requests, crashes and doubled   *)
(* ids.                                                                    *)
FollowsLifecycle == Lifecycle!Spec

-----------------------------------------------------------------------------
Waiting(id, q) == HasStatus(id, "pending") /\ jobs[id].queue_name = q

Cancelled(id, q) == HasStatus(id, "cancelled") /\ jobs[id].queue_name = q

(* A queue that is watched before the i-th keeps receiving ids.            *)
BusyBefore(i) == []<>(\E j \in 1..(i - 1) : work[Watched[j]] # <<>>)

(* Every pending job of a watched queue ends, completed, failed or         *)
(* cancelled (worker loop, backoff, promotion and the retry budget         *)
(* together).  BRPOP serves its keys in order, so a job may wait for ever, *)
(* but only behind a queue that is watched before its own and keeps        *)
(* receiving ids (Dequeue, and poll, which promotes the retries of every   *)
(* watched queue).                                                         *)
WaitsOnlyBehindBusy ==
    \A id \in Ids, i \in DOMAIN Watched :
        \/ Waiting(id, Watched[i]) ~> \E st \in Terminal : HasStatus(id, st)
        \/ BusyBefore(i)

(* The id of a cancelled job leaves Redis and every process in the end,    *)
(* even when cancelJob's Remove missed it, with the same exception.        *)
CancelledIdDrains ==
    \A id \in Ids, i \in DOMAIN Watched :
        \/ Cancelled(id, Watched[i]) ~> ~(InRedis(id) \/ Carried(id))
        \/ BusyBefore(i)

(* A job that Submit persisted but could not queue is "durable but not yet *)
(* queued -- a recoverable state, never a lost job" (internal/enqueue): it *)
(* gets queued in the end, unless it stops being pending, at least when    *)
(* its owner keeps asking for a retry.                                     *)
PersistedJobGetsQueued ==
    \A id \in Ids :
        HasStatus(id, "pending") ~> InRedis(id) \/ ~HasStatus(id, "pending")
=============================================================================
