----------------------------- MODULE Scheduler ------------------------------
(***************************************************************************)
(* cmd/scheduler and the job_schedules table: any number of scheduler      *)
(* processes look for due schedules, claim a run by advancing the          *)
(* schedule's cursor (next_run_at) with a compare-and-swap, and submit a   *)
(* job for each run they won.                                              *)
(*                                                                         *)
(* Time counts minutes, the resolution of cron.  A schedule's expression   *)
(* is reduced to what ParseStandard and Next make of it: "periodic" (due   *)
(* at every multiple of Interval), "malformed" (does not parse), or        *)
(* "never" (parses, but matches no date, such as 30 February).             *)
(***************************************************************************)
EXTENDS Integers

CONSTANTS
    Schedules,
    Schedulers,   \* scheduler processes
    Cron,         \* the kind of each schedule's cron_expression
    Interval,
    MaxSkew,      \* how far a scheduler's clock may lag behind the fastest
    MaxTime,      \* bound on the clock
    MaxStops      \* bound on the faults: stops in mid-pass, failed claims

ASSUME SchedulerAssumption ==
    /\ Cron \in [Schedules -> {"periodic", "malformed", "never"}]
    /\ Interval \in Nat \ {0}
    /\ MaxSkew \in Nat
    /\ MaxTime \in Nat
    /\ MaxStops \in Nat

VARIABLES
    clock,
    cursor,     \* next_run_at of each row
    lastRun,    \* last_run_at of each row, ZeroTime if NULL
    enabled,    \* the ids of the enabled rows
    sc,         \* where each scheduler process stands
    stops,      \* how often a scheduler stopped in mid-pass, or a claim failed
    claims,     \* history: how often the run at a cursor was claimed (0, 1, 2+)
    submits     \* history: how often a job was submitted for it

scheduleVars == <<clock, cursor, lastRun, enabled, sc, stops, claims, submits>>

(* Go's zero time, earlier than every time a clock shows.                  *)
ZeroTime == -1 - MaxSkew

Times == Int

Run == [schedule: Schedules, cursor: Times]

(* pass: working through due, with the time read when the pass began;      *)
(* submit: won run, about to submit its job.                               *)
SchedulerState == [pc: {"idle", "pass", "submit"}, now: Times,
                   due: SUBSET Run, run: SUBSET Run]

Asleep == [pc |-> "idle", now |-> 0, due |-> {}, run |-> {}]

Count == {0, 1, 2}

Bump(n) == IF n = 0 THEN 1 ELSE 2

(* Times, rows and processes have their types, a pass has a run to look at *)
(* and a submit has the one it won (handleSchedules, fireSchedule).        *)
SchedulerTypeOK ==
    /\ clock \in 0..MaxTime
    /\ cursor \in [Schedules -> Times]
    /\ lastRun \in [Schedules -> Times]
    /\ enabled \subseteq Schedules
    /\ sc \in [Schedulers -> SchedulerState]
    /\ \A p \in Schedulers :
          /\ sc[p].pc = "pass" => sc[p].due # {}
          /\ sc[p].pc = "submit" <=> sc[p].run # {}
    /\ stops \in 0..MaxStops
    /\ claims \in [Schedules -> [ZeroTime..(MaxTime + Interval) -> Count]]
    /\ submits \in [Schedules -> [ZeroTime..(MaxTime + Interval) -> Count]]

(* A seeded schedule is enabled, has not run and is due at once.           *)
SchedulerInit ==
    /\ clock = 0
    /\ cursor = [s \in Schedules |-> 0]
    /\ lastRun = [s \in Schedules |-> ZeroTime]
    /\ enabled = Schedules
    /\ sc = [p \in Schedulers |-> Asleep]
    /\ stops = 0
    /\ claims = [s \in Schedules |-> [c \in ZeroTime..(MaxTime + Interval) |-> 0]]
    /\ submits = claims

-----------------------------------------------------------------------------
(* robfig/cron's Schedule.Next: the first activation strictly after now,   *)
(* and the zero time when it finds none.                                   *)
NextActivation(s, now) ==
    IF Cron[s] = "never" THEN ZeroTime ELSE (now \div Interval + 1) * Interval

DueSchedules(now) ==
    {[schedule |-> s, cursor |-> cursor[s]] : s \in {x \in enabled : cursor[x] <= now}}

(* Mutant of Continue: the pass is not over when its rows are.             *)
Continue_NeverDone(p, due) == [sc[p] EXCEPT !.pc = "pass", !.due = due, !.run = {}]

(* The next step of a pass with the runs in due still to look at.          *)
Continue(p, due) ==
    IF due = {} THEN Asleep
    ELSE [sc[p] EXCEPT !.pc = "pass", !.due = due, !.run = {}]

(* handleSchedules reads the clock and the due rows; with none it returns. *)
handleSchedules(p) ==
    /\ sc[p].pc = "idle"
    /\ \E skew \in 0..MaxSkew :
          /\ DueSchedules(clock - skew) # {}
          /\ sc' = [sc EXCEPT ![p] = [pc |-> "pass", now |-> clock - skew,
                                      due |-> DueSchedules(clock - skew), run |-> {}]]
    /\ UNCHANGED <<clock, cursor, lastRun, enabled, stops, claims, submits>>

(* The rows come ordered by next_run_at.                                   *)
First(p, d) ==
    /\ d \in sc[p].due
    /\ \A e \in sc[p].due : d.cursor <= e.cursor

(* Mutant of ClaimScheduleRun: next_run_at is not in the WHERE.            *)
ClaimScheduleRun_NoCompare(s, expected, now, next) ==
    /\ s \in enabled
    /\ cursor' = [cursor EXCEPT ![s] = next]
    /\ lastRun' = [lastRun EXCEPT ![s] = now]

(* UPDATE ... WHERE id = $1 AND enabled AND next_run_at = $2               *)
ClaimScheduleRun(s, expected, now, next) ==
    /\ s \in enabled
    /\ cursor[s] = expected
    /\ cursor' = [cursor EXCEPT ![s] = next]
    /\ lastRun' = [lastRun EXCEPT ![s] = now]

(* fireSchedule up to the claim it wins.                                   *)
ClaimRun(p, d) ==
    /\ sc[p].pc = "pass"
    /\ First(p, d)
    /\ Cron[d.schedule] # "malformed"
    /\ ClaimScheduleRun(d.schedule, d.cursor, sc[p].now,
                        NextActivation(d.schedule, sc[p].now))
    /\ sc' = [sc EXCEPT ![p].pc = "submit", ![p].due = @ \ {d}, ![p].run = {d}]
    /\ claims' = [claims EXCEPT ![d.schedule][d.cursor] = Bump(@)]
    /\ UNCHANGED <<clock, enabled, stops, submits>>

(* Mutant of SkipRun: a schedule that is skipped ends the pass.            *)
SkipRun_EndsPass(p, d) ==
    /\ sc[p].pc = "pass"
    /\ First(p, d)
    /\ \/ Cron[d.schedule] = "malformed"
       \/ d.schedule \notin enabled
       \/ cursor[d.schedule] # d.cursor
    /\ sc' = [sc EXCEPT ![p] = Asleep]
    /\ UNCHANGED <<clock, cursor, lastRun, enabled, stops, claims, submits>>

(* fireSchedule when the expression does not parse or the claim matches    *)
(* no row: another scheduler was first, or the row was disabled.           *)
SkipRun(p, d) ==
    /\ sc[p].pc = "pass"
    /\ First(p, d)
    /\ \/ Cron[d.schedule] = "malformed"
       \/ d.schedule \notin enabled
       \/ cursor[d.schedule] # d.cursor
    /\ sc' = [sc EXCEPT ![p] = Continue(p, sc[p].due \ {d})]
    /\ UNCHANGED <<clock, cursor, lastRun, enabled, stops, claims, submits>>

(* The claim returns an error, with or without having taken effect; the    *)
(* pass goes on to the next schedule.                                      *)
ClaimFails(p, d) ==
    /\ sc[p].pc = "pass"
    /\ First(p, d)
    /\ Cron[d.schedule] # "malformed"
    /\ stops < MaxStops
    /\ stops' = stops + 1
    /\ sc' = [sc EXCEPT ![p] = Continue(p, sc[p].due \ {d})]
    /\ \/ /\ ClaimScheduleRun(d.schedule, d.cursor, sc[p].now,
                               NextActivation(d.schedule, sc[p].now))
          /\ claims' = [claims EXCEPT ![d.schedule][d.cursor] = Bump(@)]
       \/ UNCHANGED <<cursor, lastRun, claims>>
    /\ UNCHANGED <<clock, enabled, submits>>

(* The Submit of the won run: its job row is written, or it is not and     *)
(* fireSchedule only logs the error.                                       *)
SubmitRun(p, d) ==
    /\ sc[p].pc = "submit"
    /\ d \in sc[p].run
    /\ sc' = [sc EXCEPT ![p] = Continue(p, sc[p].due)]
    /\ \/ submits' = [submits EXCEPT ![d.schedule][d.cursor] = Bump(@)]
       \/ UNCHANGED submits
    /\ UNCHANGED <<clock, cursor, lastRun, enabled, stops, claims>>

(* The process dies, or SIGTERM cancels its context: the rest of the pass  *)
(* is not looked at.  A restarted scheduler begins a pass at once.         *)
SchedulerStop(p) ==
    /\ sc[p].pc # "idle"
    /\ stops < MaxStops
    /\ stops' = stops + 1
    /\ sc' = [sc EXCEPT ![p] = Asleep]
    /\ UNCHANGED <<clock, cursor, lastRun, enabled, claims, submits>>

(* An operator disables or re-enables a row in the database.               *)
Toggle(s) ==
    /\ enabled' = IF s \in enabled THEN enabled \ {s} ELSE enabled \cup {s}
    /\ UNCHANGED <<clock, cursor, lastRun, sc, stops, claims, submits>>

Minute ==
    /\ clock < MaxTime
    /\ clock' = clock + 1
    /\ UNCHANGED <<cursor, lastRun, enabled, sc, stops, claims, submits>>

Pass(p) ==
    \/ handleSchedules(p)
    \/ \E d \in sc[p].due : ClaimRun(p, d) \/ SkipRun(p, d)
    \/ \E d \in sc[p].run : SubmitRun(p, d)

SchedulerNext ==
    \/ \E p \in Schedulers :
          Pass(p) \/ SchedulerStop(p) \/ \E d \in sc[p].due : ClaimFails(p, d)
    \/ \E s \in Schedules : Toggle(s)
    \/ Minute

SchedulerSpec == SchedulerInit /\ [][SchedulerNext]_scheduleVars

(* A scheduler's tick loop keeps making passes, and time passes.           *)
SchedulerFairSpec ==
    /\ SchedulerSpec
    /\ \A p \in Schedulers : WF_scheduleVars(Pass(p))
    /\ WF_scheduleVars(Minute)

-----------------------------------------------------------------------------
Recurring == {s \in Schedules : Cron[s] = "periodic"}

RunsOf(W) == {[schedule |-> x[1], cursor |-> x[2]] : x \in W}

Ledger ==
    INSTANCE ScheduleLedger
    WITH Schedules <- Recurring,
         next <- [s \in Recurring |-> cursor[s]],
         taken <- {d \in UNION {sc[p].run : p \in Schedulers} : d.schedule \in Recurring},
         fired <- RunsOf({x \in Recurring \X (ZeroTime..(MaxTime + Interval)) :
                            submits[x[1]][x[2]] # 0})

(* The schedulers together keep the ledger: what one of them holds, no     *)
(* other takes, and a run leaves it fired or missed, whatever stops,       *)
(* fails, lags or gets disabled in between (handleSchedules,               *)
(* ClaimScheduleRun, Submit).                                              *)
KeepsLedger == Ledger!Spec

(* However many schedulers run, lag, crash and restart, the run at a given *)
(* next_run_at is claimed at most once, and at most one job is submitted   *)
(* for it, by the scheduler that claimed it (the compare-and-swap of       *)
(* ClaimScheduleRun; claim before enqueue).                                *)
AtMostOncePerRun ==
    \A s \in Recurring : \A c \in DOMAIN claims[s] :
        claims[s][c] <= 1 /\ submits[s][c] <= claims[s][c]

(* A schedule's cursor lies after the last time it ran, so the next run    *)
(* is a later activation and not the same one again.                       *)
CursorAhead == \A s \in Recurring : lastRun[s] < cursor[s]

(* No step moves a cursor back, not even one of a scheduler that computed  *)
(* its next_run_at from a clock or a row that was stale.                   *)
CursorOnlyAdvances == [][\A s \in Recurring : cursor[s] <= cursor'[s]]_scheduleVars

(* A schedule that is due on every scheduler's clock is claimed, run after *)
(* run, until it is due no more, or gets disabled: neither a run that was  *)
(* lost to a failed claim or a stopped scheduler nor another schedule in   *)
(* the pass, such as a malformed one that is due for ever, keeps its later *)
(* runs from firing.                                                       *)
DueRunClaimed ==
    \A s \in Recurring :
        cursor[s] + MaxSkew <= clock ~> s \notin enabled \/ cursor[s] + MaxSkew > clock

(* "next_run_at is always in the future" of the pass that set it, for      *)
(* every schedule whose expression parses.                                 *)
NextRunInFuture ==
    \A s \in Schedules : lastRun[s] # ZeroTime => lastRun[s] < cursor[s]
=============================================================================
