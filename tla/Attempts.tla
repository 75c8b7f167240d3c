------------------------------ MODULE Attempts ------------------------------
(***************************************************************************)
(* The attempts of a job as the worker makes them: Dispatch with job_type  *)
(* and payload, the call of the handler, the rest between two attempts and *)
(* the metrics.  A worker first calls the handler of the job it claimed,   *)
(* then writes the outcome, and then counts it, and can die in between.    *)
(*                                                                         *)
(* jobs_processed_total and job_latency_seconds live in the memory of each *)
(* process and begin at zero when it is started again.  An export_pdf that *)
(* a shutdown interrupts returns an error, but under the cancelled context *)
(* no outcome is written: that is interrupt.                               *)
(*                                                                         *)
(* Seconds are counted as Redis scores count them, by the turns of the     *)
(* Unix second: a rest of n of them lasts more than n - 1 seconds.         *)
(***************************************************************************)
EXTENDS Dispatch, Handlers, FiniteSetsExt

CONSTANT MaxReruns   \* bound on how often a failed job is reset

(* maxBackoff is an hour, far below where the guard of backoffFor sets in. *)
ASSUME AttemptsAssumption == MaxReruns \in Nat /\ MaxBackoff <= 2^30

VARIABLES
    body,        \* job_type and payload of each row
    ran,         \* each worker: what the handler of its job returned
    processed,   \* each process: jobs_processed_total by status
    latency,     \* each process: how many dispatches were timed
    tally,       \* each worker: the status it is about to count, if any
    done,        \* history: how often the handler of each job succeeded (0, 1, 2+)
    rest,        \* history: the seconds until each job may be attempted again
    reruns       \* history: how many failed jobs were reset

workerVars == <<ran, processed, latency, tally>>

attemptVars == <<vars, workerVars, body, done, rest, reruns>>

Counted == {"completed", "failed"}

(* The known series report 0 from the start of the process.                *)
NewWorker == [status \in Counted |-> 0]

AttemptsInit ==
    /\ Init
    /\ body = [id \in {} |-> 0]
    /\ ran = [w \in Workers |-> "no"]
    /\ processed = [w \in Workers |-> NewWorker]
    /\ latency = [w \in Workers |-> 0]
    /\ tally = [w \in Workers |-> "none"]
    /\ done = [id \in Ids |-> 0]
    /\ rest = [id \in Ids |-> 0]
    /\ reruns = 0

(* Rows have a type and a payload, and only a worker that runs a job has   *)
(* something returned by a handler (process).                              *)
AttemptsTypeOK ==
    /\ body \in [DOMAIN jobs -> [job_type: JobTypes, payload: Payloads \ {"absent"}]]
    /\ ran \in [Workers -> {"no", "ok", "error"}]
    /\ processed \in [Workers -> [Counted -> Nat]]
    /\ latency \in [Workers -> Nat]
    /\ tally \in [Workers -> Counted \cup {"none"}]
    /\ done \in [Ids -> 0..2]
    /\ rest \in [Ids -> 0..MaxBackoff]
    /\ reruns \in 0..MaxReruns
    /\ \A w \in Workers : ran[w] # "no" => wk[w].pc = "running"

-----------------------------------------------------------------------------
(* The rest of the consume loop, which comes to a new job only when the    *)
(* last one has been counted.                                              *)
fetch(w) ==
    /\ tally[w] = "none"
    /\ Dequeue(w) \/ Claim(w) \/ Skip(w) \/ Park(w)
    /\ UNCHANGED <<rq, workerVars, body, done, reruns>>

resend(w) == ParkResend(w) /\ UNCHANGED <<rq, workerVars, body, done, reruns>>

(* The worker calls the handler, and ObserveLatency when it has returned,  *)
(* with a result or an error.                                              *)
runHandler(w) ==
    /\ wk[w].pc = "running"
    /\ ran[w] = "no"
    /\ ran' = [ran EXCEPT ![w] = DispatchResult(body[wk[w].id])]
    /\ done' = IF ran'[w] = "ok" THEN [done EXCEPT ![wk[w].id] = IF @ = 0 THEN 1 ELSE 2]
               ELSE done
    /\ latency' = [latency EXCEPT ![w] = @ + 1]
    /\ UNCHANGED <<vars, processed, tally, body, reruns>>

(* Mutant of settle: every failed attempt is counted.                      *)
settle_CountsAttempts(w) ==
    /\ \/ ran[w] = "ok" /\ Complete(w) /\ tally' = [tally EXCEPT ![w] = "completed"]
       \/ /\ ran[w] = "error"
          /\ GiveUp(w) \/ ScheduleRetry(w)
          /\ tally' = [tally EXCEPT ![w] = "failed"]
    /\ ran' = [ran EXCEPT ![w] = "no"]
    /\ UNCHANGED <<rq, processed, latency, body, done, reruns>>

(* process goes on to MarkCompleted or to handleFailure: a job that ends   *)
(* is to be counted, one that will be retried is not.                      *)
settle(w) ==
    /\ \/ ran[w] = "ok" /\ Complete(w) /\ tally' = [tally EXCEPT ![w] = "completed"]
       \/ ran[w] = "error" /\ GiveUp(w) /\ tally' = [tally EXCEPT ![w] = "failed"]
       \/ ran[w] = "error" /\ ScheduleRetry(w) /\ UNCHANGED tally
    /\ ran' = [ran EXCEPT ![w] = "no"]
    /\ UNCHANGED <<rq, processed, latency, body, done, reruns>>

IncProcessed(w) ==
    /\ tally[w] # "none"
    /\ processed' = [processed EXCEPT ![w][tally[w]] = @ + 1]
    /\ tally' = [tally EXCEPT ![w] = "none"]
    /\ UNCHANGED <<vars, ran, latency, body, done, reruns>>

(* A call returned an error, perhaps after it took effect, and the loop    *)
(* goes on without counting; or the process is gone, its counters with it, *)
(* and another one takes its place.                                        *)
interrupt(w) ==
    /\ \/ WorkerCrash(w)
       \/ wk[w].pc = "idle" /\ Crash /\ UNCHANGED <<wk, storeVars, queueVars>>
    /\ ran' = [ran EXCEPT ![w] = "no"]
    /\ tally' = [tally EXCEPT ![w] = "none"]
    /\ \/ UNCHANGED <<processed, latency>>
       \/ /\ processed' = [processed EXCEPT ![w] = NewWorker]
          /\ latency' = [latency EXCEPT ![w] = 0]
    /\ UNCHANGED <<rq, body, done, reruns>>

(* A request; a new row gets its type and its payload, and RetryJob takes  *)
(* the dead letter of the job it resets away.                              *)
request(r) ==
    /\ RequestNext(r)
    /\ \/ DOMAIN jobs' = DOMAIN jobs /\ UNCHANGED body
       \/ \E id \in DOMAIN jobs' \ DOMAIN jobs, type \in JobTypes, payload \in Payloads :
             body' = [i \in DOMAIN jobs' |->
                        IF i = id THEN [job_type |-> type, payload |-> applyDefaults(payload)]
                        ELSE body[i]]
    /\ reruns' = IF dlq \subseteq dlq' THEN reruns ELSE reruns + 1
    /\ reruns' <= MaxReruns
    /\ UNCHANGED <<workerVars, done>>

pollQueue(i) == Poll(i) /\ UNCHANGED <<workerVars, body, done, reruns>>

-----------------------------------------------------------------------------
(* The retry policy in words: the first retry waits two seconds, each one  *)
(* after it twice as long as the one before, and none longer than          *)
(* MaxBackoff.                                                             *)
Policy[n \in Nat] == IF n = 0 THEN 1 ELSE Min({2 * Policy[n - 1], MaxBackoff})

(* What a step that leaves the clock alone does to the rest of id: a       *)
(* failed attempt that is to be retried starts it, a retry that the owner  *)
(* asked for ends it.                                                      *)
RestAfter(id) ==
    IF HasStatus(id, "processing") /\ jobs'[id].status = "pending"
    THEN Policy[jobs'[id].retry_count]
    ELSE IF HasStatus(id, "failed") /\ jobs'[id].status = "pending" THEN 0
    ELSE rest[id]

(* A step, with the history of the rests.                                  *)
Resting(step) == step /\ rest' = [id \in Ids |-> RestAfter(id)]

second ==
    /\ Tick
    /\ rest' = [id \in Ids |-> Elapse(rest[id])]
    /\ UNCHANGED <<workerVars, body, done, reruns>>

attempt(w) == fetch(w) \/ runHandler(w) \/ settle(w) \/ IncProcessed(w)

AttemptsNext ==
    \/ \E w \in Workers : Resting(attempt(w) \/ resend(w) \/ interrupt(w))
    \/ \E r \in Requests : Resting(request(r))
    \/ \E i \in DOMAIN Watched : Resting(pollQueue(i))
    \/ second

AttemptsSpec == AttemptsInit /\ [][AttemptsNext]_attemptVars

(* The fairness of Dispatch: handlers return, loops go on.                 *)
AttemptsFairSpec ==
    /\ AttemptsSpec
    /\ \A w \in Workers : WF_attemptVars(Resting(attempt(w)))
    /\ \A r \in Requests : WF_attemptVars(Resting(RequestStep(r) /\ request(r)))
    /\ \A i \in DOMAIN Watched : WF_attemptVars(Resting(pollQueue(i)))
    /\ WF_attemptVars(second)

-----------------------------------------------------------------------------
(* A job's handler succeeds at most once in the life of the job: its mail  *)
(* is not sent again after a crash before MarkCompleted, by a second copy  *)
(* of the id, or by a retry (the claim, and the statuses it and RetryJob   *)
(* accept).                                                                *)
SucceedsAtMostOnce == \A id \in Ids : done[id] <= 1

(* Types are kept.  A job is completed only when its handler succeeded,    *)
(* which no unfit one does, and only unfit jobs reach the dead-letter      *)
(* queue: a worker that stops in the middle of a job, or in the middle of  *)
(* recording it, never makes a good one fail (Dispatch, process,           *)
(* handleFailure).                                                         *)
OutcomeFitsBody ==
    /\ AttemptsTypeOK
    /\ \A id \in DOMAIN jobs :
          /\ jobs[id].status = "completed" => done[id] = 1 /\ ~Unfit(body[id])
          /\ jobs[id].status = "failed" => done[id] = 0 /\ Unfit(body[id])

(* Where no process dies and no request is cut short, an unfit job ends in *)
(* the dead-letter queue, every other gets completed, and only a cancel    *)
(* keeps it from that (process, handleFailure).                            *)
EndsAsItsBodySays ==
    \A id \in Ids :
        HasStatus(id, "pending") ~>
            \/ crashes > 0 \/ aborts > 0 \/ HasStatus(id, "cancelled")
            \/ HasStatus(id, IF Unfit(body[id]) THEN "failed" ELSE "completed")

(* A failed job is not attempted again before the rest that its count of   *)
(* failures calls for is over, unless its owner resets it: not through a   *)
(* poller that runs early, a promotion racing the parking, a cancel or a   *)
(* crash (backoffFor, EnqueueDelayed, PromoteDue).  An id that a resent    *)
(* write doubled is outside this promise: the second copy is claimed at    *)
(* once.                                                                   *)
BackoffHonoured ==
    [][\A id \in Ids :
          HasStatus(id, "pending") /\ HasStatus(id, "processing")' /\ resends = 0
          => rest[id] = 0]_attemptVars

(* backoffFor follows the policy for every count of failures, also long    *)
(* after 2^attempts has outgrown an integer.                               *)
BackoffIsPolicy == \A n \in 1..40 : backoffFor(n) = Policy[n]

(* A waiting id becomes due exactly when its rest is over, not later: what *)
(* its timer still shows is the rest, for as many failures as there may be *)
(* (the clamp of backoffFor keeps the two equal where 2^attempts would     *)
(* not).                                                                   *)
TimerShowsRest ==
    /\ BackoffIsPolicy
    /\ resends = 0 =>
          /\ \A q \in QueueNames : \A id \in DOMAIN delayed[q] :
                HasStatus(id, "pending") => delayed[q][id] = rest[id]
          /\ \A w \in Workers :
                wk[w].pc = "parking" /\ HasStatus(wk[w].id, "pending")
                => wk[w].delay = rest[wk[w].id]

(* What the processes together have counted or are about to: n counted by  *)
(* a process are n pairs with its name.                                    *)
Tallied(status) == {w \in Workers : tally[w] = status}

Increments(status) == UNION {{w} \X (1..processed[w][status]) : w \in Workers}

Total(status) == Cardinality(Increments(status)) + Cardinality(Tallied(status))

(* How many jobs ended that way, a job that failed, was reset and ended    *)
(* again once for each end.                                                *)
Completed == {id \in DOMAIN jobs : jobs[id].status = "completed"}

Ended(status) ==
    IF status = "completed" THEN Cardinality(Completed) ELSE Cardinality(dlq) + reruns

(* ObserveLatency runs before IncProcessed, in the same process: what a    *)
(* process has counted, or is about to count, is in its histogram.         *)
LatencyCoversCounts ==
    \A w \in Workers :
        processed[w]["completed"] + processed[w]["failed"]
        + (IF tally[w] = "none" THEN 0 ELSE 1) <= latency[w]

(* jobs_processed_total counts ended jobs and not attempts: with doubled   *)
(* ids, failing calls and crashes of any process at any point, the workers *)
(* never count more ends than the tables have seen, and where no call      *)
(* failed and no process died, each end is counted by exactly one worker   *)
(* (IncProcessed after MarkCompleted and DeadLetter).  The histogram       *)
(* covers all that the same process has counted, failed jobs included      *)
(* ("called for every dispatch -- success OR failure", ObserveLatency).    *)
CountersTellEnds ==
    /\ \A status \in Counted :
          /\ Total(status) <= Ended(status)
          /\ crashes = 0 => Total(status) = Ended(status)
    /\ LatencyCoversCounts
=============================================================================
