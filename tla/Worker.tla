------------------------------- MODULE Worker -------------------------------
(***************************************************************************)
(* The consume loop of cmd/worker: pop an id, claim its row, dispatch it   *)
(* to its handler, record the outcome.  Between two calls to Postgres or   *)
(* Redis every other process may move, so each call is an action; the      *)
(* handler touches no shared state, so its outcome is a choice made by the *)
(* action that records it.                                                 *)
(*                                                                         *)
(* wk[w] is where worker w stands:                                         *)
(*   idle     about to call Dequeue                                        *)
(*   popped   holds an id, about to call ClaimJob                          *)
(*   running  has claimed the row and holds the copy ClaimJob returned     *)
(*   parking  has called MarkForRetry, about to call EnqueueDelayed        *)
(***************************************************************************)
EXTENDS JobStore, WorkQueue, Faults

CONSTANTS
    Workers,
    Watched,     \* cfg.Queues, in the order BRPOP tries them
    MaxBackoff   \* maxBackoff, in seconds

ASSUME WorkerAssumption ==
    /\ Watched \in Seq(QueueNames)
    /\ MaxBackoff \in Nat

VARIABLE wk

WorkerState == [pc: {"idle", "popped", "running", "parking"},
                id: Ids \cup {NoId},
                retry_count: Nat, max_retries: Int,   \* the loaded copy
                delay: Nat]                           \* until runAt, if parking

Idle == [pc |-> "idle", id |-> NoId, retry_count |-> 0, max_retries |-> 0,
         delay |-> 0]

WorkerTypeOK == wk \in [Workers -> WorkerState]

WorkerInit == wk = [w \in Workers |-> Idle]

-----------------------------------------------------------------------------
(* Mutant of backoffFor: the shift is taken in 32 bits and not guarded.    *)
backoffFor_Wraps(attempt) ==
    LET d == IF attempt % 32 = 31 THEN 0 ELSE 2^(attempt % 32) IN
    IF d < MaxBackoff THEN d ELSE MaxBackoff

backoffFor(attempt) ==
    IF attempt >= 30 THEN MaxBackoff
    ELSE IF 2^attempt \in 1..(MaxBackoff - 1) THEN 2^attempt ELSE MaxBackoff

(* BRPOP tries the lists in the order given; with all of them empty it     *)
(* times out and consume calls it again.                                   *)
Dequeue(w) ==
    /\ wk[w].pc = "idle"
    /\ \E i \in DOMAIN Watched :
          /\ \A j \in 1..(i - 1) : work[Watched[j]] = <<>>
          /\ Pop(Watched[i])
          /\ wk' = [wk EXCEPT ![w].pc = "popped", ![w].id = Head(work[Watched[i]])]
    /\ UNCHANGED <<storeVars, faultVars>>

Claim(w) ==
    /\ wk[w].pc = "popped"
    /\ ClaimJob(wk[w].id)
    /\ wk' = [wk EXCEPT ![w].pc = "running",
                        ![w].retry_count = jobs[wk[w].id].retry_count,
                        ![w].max_retries = jobs[wk[w].id].max_retries]
    /\ UNCHANGED <<queueVars, faultVars>>

(* Mutant of Skip: an id that could not be claimed goes back on the list.  *)
Skip_Requeues(w) ==
    /\ wk[w].pc = "popped"
    /\ ~HasStatus(wk[w].id, "pending")
    /\ Enqueue(jobs[wk[w].id].queue_name, wk[w].id)
    /\ wk' = [wk EXCEPT ![w] = Idle]
    /\ UNCHANGED <<storeVars, faultVars>>

(* ErrJobNotClaimable: cancelled, finished or taken; the id is dropped.    *)
Skip(w) ==
    /\ wk[w].pc = "popped"
    /\ ~HasStatus(wk[w].id, "pending")
    /\ wk' = [wk EXCEPT ![w] = Idle]
    /\ UNCHANGED <<storeVars, queueVars, faultVars>>

(* Dispatch succeeded.                                                     *)
Complete(w) ==
    /\ wk[w].pc = "running"
    /\ MarkCompleted(wk[w].id)
    /\ wk' = [wk EXCEPT ![w] = Idle]
    /\ UNCHANGED <<queueVars, faultVars>>

attempts(w) == wk[w].retry_count + 1

(* Mutant of ScheduleRetry: one retry too many.                            *)
ScheduleRetry_OneMore(w) ==
    /\ wk[w].pc = "running"
    /\ attempts(w) <= wk[w].max_retries
    /\ MarkForRetry(wk[w].id, attempts(w))
    /\ wk' = [wk EXCEPT ![w].pc = "parking", ![w].delay = backoffFor(attempts(w))]
    /\ UNCHANGED <<queueVars, faultVars>>

(* Dispatch failed and handleFailure has attempts left.                    *)
ScheduleRetry(w) ==
    /\ wk[w].pc = "running"
    /\ attempts(w) < wk[w].max_retries
    /\ MarkForRetry(wk[w].id, attempts(w))
    /\ wk' = [wk EXCEPT ![w].pc = "parking", ![w].delay = backoffFor(attempts(w))]
    /\ UNCHANGED <<queueVars, faultVars>>

(* Dispatch failed and handleFailure has no attempts left.                 *)
GiveUp(w) ==
    /\ wk[w].pc = "running"
    /\ attempts(w) >= wk[w].max_retries
    /\ DeadLetter(wk[w].id, attempts(w))
    /\ wk' = [wk EXCEPT ![w] = Idle]
    /\ UNCHANGED <<queueVars, faultVars>>

(* Mutant of Park: every retry waits in the first watched queue's set.     *)
Park_FirstQueue(w) ==
    /\ wk[w].pc = "parking"
    /\ EnqueueDelayed(Watched[1], wk[w].id, wk[w].delay)
    /\ wk' = [wk EXCEPT ![w] = Idle]
    /\ UNCHANGED <<storeVars, faultVars>>

(* The queue is the one in the copy; no statement changes queue_name.      *)
Park(w) ==
    /\ wk[w].pc = "parking"
    /\ EnqueueDelayed(jobs[wk[w].id].queue_name, wk[w].id, wk[w].delay)
    /\ wk' = [wk EXCEPT ![w] = Idle]
    /\ UNCHANGED <<storeVars, faultVars>>

(* The ZADD took effect but will be sent again, with the same score.       *)
ParkResend(w) ==
    /\ wk[w].pc = "parking"
    /\ EnqueueDelayed(jobs[wk[w].id].queue_name, wk[w].id, wk[w].delay)
    /\ Resend
    /\ UNCHANGED <<wk, storeVars>>

WorkerCrash(w) ==
    /\ wk[w].pc # "idle"
    /\ Crash
    /\ wk' = [wk EXCEPT ![w] = Idle]
    /\ UNCHANGED <<storeVars, queueVars>>

WorkerStep(w) ==
    \/ Dequeue(w) \/ Claim(w) \/ Skip(w) \/ Complete(w)
    \/ ScheduleRetry(w) \/ GiveUp(w) \/ Park(w)
=============================================================================
