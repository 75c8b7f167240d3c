-------------------------------- MODULE Api ---------------------------------
(***************************************************************************)
(* The requests that write jobs: enqueueJob, retryJob and cancelJob of     *)
(* internal/handlers, and the Submit of internal/enqueue that the api and  *)
(* the scheduler share.  Each writes Postgres first and Redis afterwards.  *)
(*                                                                         *)
(* rq[r] is where request r stands:                                        *)
(*   idle  no request                                                      *)
(*   push  the row is pending, about to LPUSH its id                       *)
(*   lrem  the row is cancelled, about to LREM its id                      *)
(*   zrem  about to ZREM it                                                *)
(* A request that is refused (404, 409, a missing tenant) writes nothing.  *)
(***************************************************************************)
EXTENDS JobStore, WorkQueue, Faults

VARIABLE rq

RequestState == [pc: {"idle", "push", "lrem", "zrem"},
                 id: Ids \cup {NoId}]

NoRequest == [pc |-> "idle", id |-> NoId]

ApiTypeOK == rq \in [Requests -> RequestState]

ApiInit == rq = [r \in Requests |-> NoRequest]

-----------------------------------------------------------------------------
queueOf(r) == jobs[rq[r].id].queue_name

(* Mutant of Submit: the id is queued before the row is written.           *)
Submit_PushFirst(r, id, tenant, queue, budget) ==
    /\ rq[r].pc = "idle"
    /\ id \notin DOMAIN jobs
    /\ rq' = [rq EXCEPT ![r] = [pc |-> "push", id |-> id]]
    /\ UNCHANGED <<storeVars, queueVars, faultVars>>

Submit(r, id, tenant, queue, budget) ==
    /\ rq[r].pc = "idle"
    /\ CreateJob(id, NewRow(tenant, queue, budget))
    /\ rq' = [rq EXCEPT ![r] = [pc |-> "push", id |-> id]]
    /\ UNCHANGED <<queueVars, faultVars>>

retryJob(r, id, tenant) ==
    /\ rq[r].pc = "idle"
    /\ RetryJob(tenant, id)
    /\ rq' = [rq EXCEPT ![r] = [pc |-> "push", id |-> id]]
    /\ UNCHANGED <<queueVars, faultVars>>

(* The Enqueue that ends Submit and retryJob.                              *)
Push(r) ==
    /\ rq[r].pc = "push"
    /\ Enqueue(queueOf(r), rq[r].id)
    /\ rq' = [rq EXCEPT ![r] = NoRequest]
    /\ UNCHANGED <<storeVars, faultVars>>

(* The LPUSH took effect but will be sent again.                           *)
PushResend(r) ==
    /\ rq[r].pc = "push"
    /\ Enqueue(queueOf(r), rq[r].id)
    /\ Resend
    /\ UNCHANGED <<rq, storeVars>>

cancelJob(r, id, tenant) ==
    /\ rq[r].pc = "idle"
    /\ CancelJob(tenant, id)
    /\ rq' = [rq EXCEPT ![r] = [pc |-> "lrem", id |-> id]]
    /\ UNCHANGED <<queueVars, faultVars>>

(* queue.Remove is two commands, so others may move between them.          *)
RemoveLrem(r) ==
    /\ rq[r].pc = "lrem"
    /\ RemoveFromList(queueOf(r), rq[r].id)
    /\ rq' = [rq EXCEPT ![r].pc = "zrem"]
    /\ UNCHANGED <<storeVars, faultVars>>

RemoveZrem(r) ==
    /\ rq[r].pc = "zrem"
    /\ RemoveFromDelayed(queueOf(r), rq[r].id)
    /\ rq' = [rq EXCEPT ![r] = NoRequest]
    /\ UNCHANGED <<storeVars, faultVars>>

RequestAbort(r) ==
    /\ rq[r].pc # "idle"
    /\ Abort
    /\ rq' = [rq EXCEPT ![r] = NoRequest]
    /\ UNCHANGED <<storeVars, queueVars>>

(* The steps a request that has begun goes on to take.                     *)
RequestStep(r) == Push(r) \/ RemoveLrem(r) \/ RemoveZrem(r)

(* The requests a caller may send.                                         *)
RequestBegin(r) ==
    \E id \in Ids, tenant \in Tenants :
        \/ \E queue \in QueueNames, budget \in Budgets :
              Submit(r, id, tenant, queue, budget)
        \/ retryJob(r, id, tenant)
        \/ cancelJob(r, id, tenant)
=============================================================================
