------------------------------- MODULE Fleet --------------------------------
(***************************************************************************)
(* The scheduler and the pipeline together: each scheduler process is also *)
(* a producer of jobs, which submits one for every run it claimed through  *)
(* the Submit that the api uses.  The requests of the api's callers, the   *)
(* crashes of workers and resent writes are left to Dispatch.              *)
(*                                                                         *)
(* A scheduler's own Submit is the request of its name in Dispatch, so     *)
(* that its two writes interleave with everything else.                    *)
(***************************************************************************)
EXTENDS Dispatch, Scheduler

CONSTANTS
    Template,       \* tenant_id of each schedule
    Managed,        \* the schedules that an operator disables and re-enables
    DefaultQueue, DefaultMaxRetries,
    MaxFailures     \* bound on the INSERTs of schedulers that fail

ASSUME FleetAssumption ==
    /\ Requests = Schedulers
    /\ Template \in [Schedules -> Tenants]
    /\ Managed \subseteq Schedules
    /\ DefaultQueue \in QueueNames
    /\ DefaultMaxRetries \in Budgets
    /\ MaxFailures \in Nat

VARIABLES
    failures,   \* how many INSERTs of schedulers failed
    origin      \* history: the run each job was submitted for

fleetVars == <<vars, scheduleVars, failures, origin>>

FleetInit ==
    /\ Init
    /\ SchedulerInit
    /\ failures = 0
    /\ origin = [id \in {} |-> 0]

-----------------------------------------------------------------------------
(* A pass up to the claim, or past a schedule that is skipped.             *)
pass(p) ==
    /\ \/ handleSchedules(p)
       \/ \E d \in sc[p].due : ClaimRun(p, d) \/ SkipRun(p, d)
    /\ UNCHANGED <<vars, failures, origin>>

(* Submit of a job from the template of the claimed run: the INSERT ...    *)
submitRow(p, d, id) ==
    /\ sc[p].pc = "submit"
    /\ d \in sc[p].run
    /\ Submit(p, id, Template[d.schedule], DefaultQueue, DefaultMaxRetries)
    /\ origin' = [i \in DOMAIN jobs' |-> IF i = id THEN d ELSE origin[i]]
    /\ UNCHANGED <<wk, scheduleVars, failures>>

(* ... and the LPUSH, with which fireSchedule ends.                        *)
submitPush(p, d) ==
    /\ Push(p)
    /\ SubmitRun(p, d)
    /\ submits' # submits
    /\ UNCHANGED <<wk, failures, origin>>

(* Mutant of submitFails: Submit is called again after a failed LPUSH.     *)
submitFails_Again(p, d) ==
    /\ RequestAbort(p)
    /\ UNCHANGED <<wk, scheduleVars, failures, origin>>

(* Mutant of submitFails: the cursor is put back for a later attempt.      *)
submitFails_GivesBack(p, d) ==
    /\ sc[p].pc = "submit"
    /\ rq[p].pc = "idle"
    /\ failures < MaxFailures
    /\ failures' = failures + 1
    /\ cursor' = [cursor EXCEPT ![d.schedule] = d.cursor]
    /\ sc' = [sc EXCEPT ![p] = Continue(p, sc[p].due)]
    /\ UNCHANGED <<vars, clock, lastRun, enabled, stops, claims, submits, origin>>

(* The INSERT fails and nothing is written, or the LPUSH does: either way  *)
(* fireSchedule logs it and the pass goes on.                              *)
submitFails(p, d) ==
    /\ SubmitRun(p, d)
    /\ \/ /\ rq[p].pc = "idle"
          /\ failures < MaxFailures
          /\ failures' = failures + 1
          /\ UNCHANGED <<vars, submits>>
       \/ /\ RequestAbort(p)
          /\ submits' # submits
          /\ UNCHANGED <<wk, failures>>
    /\ UNCHANGED origin

(* A claim that fails, or a scheduler that stops, in Submit or elsewhere.  *)
stop(p) ==
    /\ \/ SchedulerStop(p) /\ rq[p].pc = "idle" /\ UNCHANGED vars
       \/ SchedulerStop(p) /\ RequestAbort(p) /\ UNCHANGED wk
       \/ \E d \in sc[p].due : ClaimFails(p, d) /\ UNCHANGED vars
    /\ UNCHANGED <<failures, origin>>

Scheduling(p) ==
    \/ pass(p)
    \/ \E d \in sc[p].run : submitPush(p, d) \/ \E id \in Ids : submitRow(p, d, id)

(* The workers, their pollers and the seconds.                             *)
Working ==
    \/ \E w \in Workers : WorkerStep(w) /\ UNCHANGED rq
    \/ \E i \in DOMAIN Watched : Poll(i)
    \/ Tick

FleetNext ==
    \/ \E p \in Schedulers :
          Scheduling(p) \/ stop(p) \/ \E d \in sc[p].run : submitFails(p, d)
    \/ (Minute \/ \E s \in Managed : Toggle(s)) /\ UNCHANGED <<vars, failures, origin>>
    \/ Working /\ UNCHANGED <<scheduleVars, failures, origin>>

FleetSpec == FleetInit /\ [][FleetNext]_fleetVars

Quiet(step) == step /\ UNCHANGED <<scheduleVars, failures, origin>>

(* The fairness of the two parts.                                          *)
FleetFairSpec ==
    /\ FleetSpec
    /\ \A p \in Schedulers : WF_fleetVars(Scheduling(p))
    /\ WF_fleetVars(Minute /\ UNCHANGED <<vars, failures, origin>>)
    /\ \A w \in Workers : WF_fleetVars(Quiet(WorkerStep(w) /\ UNCHANGED rq))
    /\ \A i \in DOMAIN Watched : WF_fleetVars(Quiet(Poll(i)))
    /\ WF_fleetVars(Quiet(Tick))

-----------------------------------------------------------------------------
(* The pipeline and the scheduler behave together as each was specified    *)
(* alone, so that what holds of Dispatch and of Scheduler holds here: a    *)
(* scheduler is an ordinary producer, and what becomes of its jobs never   *)
(* disturbs its schedules (the shared Enqueuer; handleSchedules).          *)
PartsKeepTheirSpecs == Spec /\ SchedulerSpec

(* Every job has the run it was submitted for.  However many schedulers    *)
(* run, stop and start again, a run of a recurring schedule yields at most *)
(* one job, the schedule's tenant owns that job, and it only exists once   *)
(* the cursor has left the run behind (claim before enqueue; "jobs inherit *)
(* the schedule's owning tenant").                                         *)
OneJobPerRun ==
    /\ origin \in [DOMAIN jobs -> Run]
    /\ failures \in 0..MaxFailures
    /\ \A id \in DOMAIN jobs :
          LET s == origin[id].schedule IN
          /\ jobs[id].tenant_id = Template[s]
          /\ s \in Recurring =>
                /\ cursor[s] > origin[id].cursor
                /\ \A other \in DOMAIN jobs : origin[other] = origin[id] => other = id

(* The cursors of a recurring schedule that fall due on every clock.       *)
Activations == {t \in 0..(MaxTime - MaxSkew) : t % Interval = 0}

(* Where nothing fails, a run that falls due, the first of its schedule or *)
(* a later one, is, unless its schedule gets disabled, turned into a job   *)
(* that ends, completed or dead-lettered (fireSchedule, Submit, the        *)
(* worker's loops).                                                        *)
DueRunIsWorkedOff ==
    \A s \in Recurring : \A c \in Activations :
        s \in enabled /\ cursor[s] = c /\ c + MaxSkew <= clock ~>
            \/ s \notin enabled
            \/ stops + failures + aborts > 0
            \/ \E id \in DOMAIN jobs :
                  /\ origin[id] = [schedule |-> s, cursor |-> c]
                  /\ jobs[id].status \in Terminal
=============================================================================
