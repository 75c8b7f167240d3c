---------------------------- MODULE FleetProofs -----------------------------
(***************************************************************************)
(* Proofs about the schedulers, alone and together with the job pipeline,  *)
(* for any number of schedules, schedulers, workers, jobs and faults and   *)
(* any interval, skew and bound.                                           *)
(*                                                                         *)
(* No run fires twice: a claim moves the cursor strictly past the run it   *)
(* claims, so that no claim of that run can succeed again; the runs that   *)
(* were claimed lie behind the cursor, and each is held by one scheduler   *)
(* at most until its job is submitted.  Composed with the pipeline, each   *)
(* part keeps the specification it has alone, and a run yields one job at  *)
(* most.                                                                   *)
(***************************************************************************)
EXTENDS Fleet, TLAPS

(* Leaves that name no prover are for Zenon, with a time limit in seconds. *)
USE ZenonT(30)

Span == ZeroTime..(MaxTime + Interval)

(* Types, the times a pass works with, the runs it may look at and the one *)
(* it may have in hand.                                                    *)
PassInv ==
    /\ clock \in 0..MaxTime
    /\ cursor \in [Schedules -> Span]
    /\ lastRun \in [Schedules -> Int]
    /\ enabled \subseteq Schedules
    /\ sc \in [Schedulers -> SchedulerState]
    /\ claims \in [Schedules -> [Span -> Count]]
    /\ submits \in [Schedules -> [Span -> Count]]
    /\ \A p \in Schedulers :
          /\ sc[p].now \in (-MaxSkew)..MaxTime
          /\ \A d \in sc[p].due : d.cursor <= sc[p].now
          /\ \A d \in sc[p].run : d.cursor \in Span
          /\ sc[p].pc # "submit" => sc[p].run = {}
          /\ \A d, e \in sc[p].run : d = e

(* What was claimed lies behind the cursor, was claimed once, and is       *)
(* submitted at most once.                                                 *)
BehindCursor ==
    \A s \in Recurring :
        /\ lastRun[s] < cursor[s]
        /\ \A c \in Span :
              /\ claims[s][c] \in {0, 1}
              /\ c >= cursor[s] => claims[s][c] = 0
              /\ submits[s][c] = 0 \/ (submits[s][c] = 1 /\ claims[s][c] = 1)

(* Who is about to submit a run has claimed it, alone.                     *)
Held ==
    \A p \in Schedulers : \A d \in sc[p].run :
        d.schedule \in Recurring =>
            /\ claims[d.schedule][d.cursor] = 1
            /\ submits[d.schedule][d.cursor] = 0
            /\ \A q \in Schedulers : d \in sc[q].run => q = p

IInv == PassInv /\ BehindCursor /\ Held

-----------------------------------------------------------------------------
(* Next(now) lies after now, and at most an interval after it (robfig/cron *)
(* as fireSchedule uses it).                                               *)
LEMMA NextIsLater ==
    ASSUME NEW now \in Int, NEW i \in Nat \ {0}
    PROVE  /\ (now \div i + 1) * i \in Int
           /\ (now \div i + 1) * i > now
           /\ (now \div i + 1) * i <= now + i
<1> DEFINE k == now \div i
<1>1. k \in Int /\ i * k <= now /\ now < i * k + i
  BY SMT
<1>2. (k + 1) * i = i * k + i
  BY <1>1, SMT
<1> QED BY <1>1, <1>2, SMT

(* The cursor a claim writes is a time the tables have room for, and for a *)
(* recurring schedule it is later than the clock of the pass.              *)
LEMMA ClaimMovesOn ==
    ASSUME NEW s \in Schedules, NEW now \in (-MaxSkew)..MaxTime
    PROVE  /\ NextActivation(s, now) \in Span
           /\ s \in Recurring => NextActivation(s, now) > now
<1> USE SchedulerAssumption
<1>1. now \in Int /\ Interval \in Nat \ {0} /\ -MaxSkew <= now /\ now <= MaxTime
  BY SMTT(30)
<1>2. CASE Cron[s] = "never"
  BY SMTT(30), <1>1, <1>2 DEF NextActivation, Recurring, Span, ZeroTime
<1>3. CASE Cron[s] # "never"
  <2> DEFINE n == (now \div Interval + 1) * Interval
  <2>1. n \in Int /\ n > now /\ n <= now + Interval
    BY <1>1, NextIsLater
  <2>2. NextActivation(s, now) = n
    BY <1>3 DEF NextActivation
  <2> HIDE DEF n
  <2> QED BY SMTT(30), <1>1, <2>1, <2>2 DEF Span, ZeroTime
<1> QED BY <1>2, <1>3

LEMMA SpanFacts ==
    /\ ZeroTime \in Int
    /\ Span \subseteq Int
    /\ 0 \in Span
    /\ ZeroTime < 0
BY SMTT(30), SchedulerAssumption DEF ZeroTime, Span

(* The first state has the invariant.                                      *)
LEMMA InitHasInv == SchedulerInit => IInv
<1> SUFFICES ASSUME SchedulerInit PROVE IInv
  OBVIOUS
<1> USE SchedulerAssumption, SpanFacts DEF SchedulerInit
<1>1. PassInv
  <2>1. Asleep \in SchedulerState
    BY DEF Asleep, SchedulerState, Times
  <2>2. claims \in [Schedules -> [Span -> Count]]
    BY DEF Span, Count
  <2>3. \A p \in Schedulers : sc[p] = [pc |-> "idle", now |-> 0, due |-> {}, run |-> {}]
    BY DEF Asleep
  <2>4. 0 \in (-MaxSkew)..MaxTime /\ 0 \in 0..MaxTime
    BY SMTT(30)
  <2> QED BY SMTT(30), <2>1, <2>2, <2>3, <2>4 DEF PassInv
<1>2. BehindCursor
  <2>1. \A s \in Recurring : s \in Schedules
    BY DEF Recurring
  <2>2. \A s \in Schedules : lastRun[s] = ZeroTime /\ cursor[s] = 0
    BY ZenonT(30)
  <2>3. \A s \in Schedules : \A x \in Span : claims[s][x] = 0 /\ submits[s][x] = 0
    BY DEF Span
  <2> QED BY ONLY <2>1, <2>2, <2>3, SpanFacts DEF BehindCursor
<1>3. Held
  BY DEF Held, Asleep
<1> QED BY <1>1, <1>2, <1>3 DEF IInv

-----------------------------------------------------------------------------
(* What a pass goes on to: the same clock, no more rows, no run in hand.   *)
LEMMA ContinueIsLess ==
    ASSUME NEW p \in Schedulers, sc[p] \in SchedulerState, NEW due, due \subseteq sc[p].due,
           sc[p].now \in (-MaxSkew)..MaxTime
    PROVE  /\ Continue(p, due) \in SchedulerState
           /\ Continue(p, due).now \in (-MaxSkew)..MaxTime
           /\ \A d \in Continue(p, due).due : d \in due /\ Continue(p, due).now = sc[p].now
           /\ Continue(p, due).run = {}
<1> USE SchedulerAssumption
<1>1. CASE due = {}
  BY SMTT(30), <1>1 DEF Continue, Asleep, SchedulerState, Times
<1>2. CASE due # {}
  <2> DEFINE rec == [sc[p] EXCEPT !.pc = "pass", !.due = due, !.run = {}]
  <2>1. rec \in SchedulerState /\ rec.now = sc[p].now /\ rec.due = due /\ rec.run = {}
    BY DEF SchedulerState
  <2>2. Continue(p, due) = rec
    BY <1>2 DEF Continue
  <2> HIDE DEF rec
  <2> QED BY <2>1, <2>2
<1> QED BY <1>1, <1>2

(* A step that changes where one scheduler stands, and takes away what it  *)
(* had in hand, keeps the invariant if the scheduler's new state is one of *)
(* a pass.                                                                 *)
LEMMA LetGo ==
    ASSUME IInv, NEW p \in Schedulers, NEW rec,
           sc' = [sc EXCEPT ![p] = rec],
           rec \in SchedulerState,
           rec.now \in (-MaxSkew)..MaxTime,
           \A d \in rec.due : d.cursor <= rec.now,
           rec.run = {},
           UNCHANGED <<clock, cursor, lastRun, enabled, claims, submits>>
    PROVE  IInv'
<1> USE DEF IInv
<1>1. PassInv'
  BY SMTT(30) DEF PassInv
<1>2. BehindCursor'
  BY DEF BehindCursor
<1>3. Held'
  BY SMTT(30) DEF Held, PassInv
<1> QED BY <1>1, <1>2, <1>3

(* handleSchedules keeps the invariant: it reads rows that are due.        *)
LEMMA ReadKeepsInv ==
    ASSUME IInv, NEW p \in Schedulers, handleSchedules(p)
    PROVE  IInv'
<1> USE SchedulerAssumption, SpanFacts
<1>1. PICK skew \in 0..MaxSkew :
        sc' = [sc EXCEPT ![p] = [pc |-> "pass", now |-> clock - skew,
                                 due |-> DueSchedules(clock - skew), run |-> {}]]
  BY DEF handleSchedules
<1> DEFINE now == clock - skew
           rec == [pc |-> "pass", now |-> now, due |-> DueSchedules(now), run |-> {}]
<1>2. now \in (-MaxSkew)..MaxTime /\ now \in Int
  BY SMTT(30) DEF IInv, PassInv
<1>3. \A d \in DueSchedules(now) : d \in Run /\ d.cursor <= now
  <2> SUFFICES ASSUME NEW d \in DueSchedules(now) PROVE d \in Run /\ d.cursor <= now
    OBVIOUS
  <2>1. PICK s \in enabled : cursor[s] <= now /\ d = [schedule |-> s, cursor |-> cursor[s]]
    BY DEF DueSchedules
  <2>2. s \in Schedules /\ cursor[s] \in Int
    BY DEF IInv, PassInv
  <2> QED BY <2>1, <2>2 DEF Run, Times
<1>4. rec \in SchedulerState
  BY <1>2, <1>3 DEF SchedulerState, Times
<1>5. UNCHANGED <<clock, cursor, lastRun, enabled, claims, submits>>
  BY DEF handleSchedules
<1>6. rec.now = now /\ rec.due = DueSchedules(now) /\ rec.run = {}
  OBVIOUS
<1>7. sc' = [sc EXCEPT ![p] = rec]
  BY <1>1
<1> HIDE DEF rec, now
<1> QED BY <1>2, <1>3, <1>4, <1>5, <1>6, <1>7, LetGo

(* A claim that takes effect: nobody had claimed the run, nobody else's    *)
(* count changes, and the cursor moves past it.                            *)
LEMMA ClaimTakesRun ==
    ASSUME IInv, NEW p \in Schedulers, NEW d \in sc[p].due,
           ClaimScheduleRun(d.schedule, d.cursor, sc[p].now,
                            NextActivation(d.schedule, sc[p].now)),
           claims' = [claims EXCEPT ![d.schedule][d.cursor] = Bump(@)],
           UNCHANGED submits
    PROVE  /\ d \in Run /\ d.cursor \in Span /\ cursor[d.schedule] = d.cursor
           /\ cursor' \in [Schedules -> Span]
           /\ lastRun' \in [Schedules -> Int]
           /\ claims' \in [Schedules -> [Span -> Count]]
           /\ \A s \in Schedules : \A c \in Span :
                 ~(s = d.schedule /\ c = d.cursor) => claims'[s][c] = claims[s][c]
           /\ d.schedule \in Recurring =>
                 claims[d.schedule][d.cursor] = 0 /\ claims'[d.schedule][d.cursor] = 1
           /\ BehindCursor'
           /\ \A s \in Recurring : cursor[s] <= cursor'[s]
           /\ \A s \in Schedules : s # d.schedule => cursor'[s] = cursor[s]
           /\ d.schedule \in Recurring => cursor'[d.schedule] > cursor[d.schedule]
<1> USE SchedulerAssumption, SpanFacts
<1> DEFINE s0 == d.schedule
           c0 == d.cursor
           now == sc[p].now
           nxt == NextActivation(s0, now)
<1>1. /\ sc[p] \in SchedulerState /\ now \in (-MaxSkew)..MaxTime /\ now \in Int
      /\ c0 <= now
      /\ cursor \in [Schedules -> Span] /\ lastRun \in [Schedules -> Int]
      /\ claims \in [Schedules -> [Span -> Count]]
      /\ submits \in [Schedules -> [Span -> Count]]
  BY SMTT(30) DEF IInv, PassInv
<1>2. d \in Run /\ s0 \in Schedules /\ c0 \in Int
  BY <1>1 DEF SchedulerState, Run, Times
<1>3. cursor[s0] = c0 /\ c0 \in Span
  BY <1>1, <1>2 DEF ClaimScheduleRun
<1>4. nxt \in Span /\ (s0 \in Recurring => nxt > now)
  BY <1>1, <1>2, ClaimMovesOn
<1>5. cursor' = [cursor EXCEPT ![s0] = nxt] /\ lastRun' = [lastRun EXCEPT ![s0] = now]
  BY DEF ClaimScheduleRun
<1>6. claims' = [claims EXCEPT ![s0] = [claims[s0] EXCEPT ![c0] = Bump(claims[s0][c0])]]
  BY <1>1, <1>2, <1>3
<1> HIDE DEF s0, c0, now, nxt
<1>7. cursor' \in [Schedules -> Span] /\ lastRun' \in [Schedules -> Int]
  BY <1>1, <1>2, <1>4, <1>5
<1>8. Bump(claims[s0][c0]) \in Count
  BY DEF Bump, Count
<1>9. claims' \in [Schedules -> [Span -> Count]]
  <2> DEFINE row == [claims[s0] EXCEPT ![c0] = Bump(claims[s0][c0])]
  <2>1. row \in [Span -> Count]
    BY <1>1, <1>2, <1>3, <1>8
  <2>2. claims' = [claims EXCEPT ![s0] = row]
    BY <1>6
  <2> HIDE DEF row
  <2> QED BY <1>1, <2>1, <2>2
<1>10. \A s \in Schedules : \A c \in Span : ~(s = s0 /\ c = c0) => claims'[s][c] = claims[s][c]
  BY SMTT(30), <1>1, <1>2, <1>3, <1>6
<1>11. claims'[s0][c0] = Bump(claims[s0][c0])
  BY SMTT(30), <1>1, <1>2, <1>3, <1>6
<1>12. s0 \in Recurring => claims[s0][c0] = 0 /\ claims'[s0][c0] = 1
  BY SMTT(30), <1>3, <1>11 DEF IInv, BehindCursor, Bump
<1>13. \A s \in Schedules : s # s0 => cursor'[s] = cursor[s] /\ lastRun'[s] = lastRun[s]
  BY <1>1, <1>5
<1>14. cursor'[s0] = nxt /\ lastRun'[s0] = now
  BY <1>1, <1>2, <1>5
<1>15. s0 \in Recurring => cursor'[s0] > cursor[s0] /\ lastRun'[s0] < cursor'[s0]
  BY SMTT(30), <1>1, <1>2, <1>3, <1>4, <1>14
<1>16. BehindCursor'
  <2> SUFFICES ASSUME NEW s \in Recurring
               PROVE  /\ lastRun'[s] < cursor'[s]
                      /\ \A c \in Span :
                            /\ claims'[s][c] \in {0, 1}
                            /\ c >= cursor'[s] => claims'[s][c] = 0
                            /\ submits[s][c] = 0 \/ (submits[s][c] = 1 /\ claims'[s][c] = 1)
    BY DEF BehindCursor, Span, Recurring, ZeroTime
  <2>1. s \in Schedules
    BY DEF Recurring
  <2>2. /\ lastRun[s] < cursor[s]
        /\ \A c \in Span :
              /\ claims[s][c] \in {0, 1}
              /\ c >= cursor[s] => claims[s][c] = 0
              /\ submits[s][c] = 0 \/ (submits[s][c] = 1 /\ claims[s][c] = 1)
    BY DEF IInv, BehindCursor
  <2>3. CASE s # s0
    BY <2>1, <2>2, <2>3, <1>10, <1>13
  <2>4. CASE s = s0
    <3>1. cursor'[s] \in Int /\ cursor[s] \in Int
      BY <1>1, <1>7, <2>1
    <3> QED BY SMTT(30), <2>1, <2>2, <2>4, <3>1, <1>3, <1>10, <1>12, <1>15
  <2> QED BY <2>3, <2>4
<1>17. \A s \in Recurring : cursor[s] <= cursor'[s]
  <2>1. \A s \in Recurring : s \in Schedules
    BY DEF Recurring
  <2>2. \A s \in Schedules : cursor[s] \in Int /\ cursor'[s] \in Int
    BY <1>1, <1>7
  <2> QED BY SMTT(30), <2>1, <2>2, <1>13, <1>15
<1> QED BY <1>2, <1>3, <1>7, <1>9, <1>10, <1>12, <1>13, <1>15, <1>16, <1>17 DEF s0, c0

(* The rest of the pass, after the row d is done with.                     *)
LEMMA PassGoesOn ==
    ASSUME IInv, NEW p \in Schedulers, NEW due, due \subseteq sc[p].due
    PROVE  /\ Continue(p, due) \in SchedulerState
           /\ Continue(p, due).now \in (-MaxSkew)..MaxTime
           /\ \A d \in Continue(p, due).due : d.cursor <= Continue(p, due).now
           /\ Continue(p, due).run = {}
BY SMTT(30), ContinueIsLess DEF IInv, PassInv

(* A claim keeps the invariant, whether the scheduler learns that it won   *)
(* and has the run in hand, or the answer is lost and it goes on.          *)
LEMMA ClaimKeepsInv ==
    ASSUME IInv, NEW p \in Schedulers, NEW d \in sc[p].due, NEW rec,
           ClaimScheduleRun(d.schedule, d.cursor, sc[p].now,
                            NextActivation(d.schedule, sc[p].now)),
           claims' = [claims EXCEPT ![d.schedule][d.cursor] = Bump(@)],
           sc' = [sc EXCEPT ![p] = rec],
           rec \in SchedulerState,
           rec.now \in (-MaxSkew)..MaxTime,
           \A e \in rec.due : e.cursor <= rec.now,
           rec.run \subseteq {d},
           rec.pc # "submit" => rec.run = {},
           UNCHANGED <<clock, enabled, submits>>
    PROVE  IInv'
<1> USE SpanFacts
<1>1. /\ d \in Run /\ d.cursor \in Span /\ cursor[d.schedule] = d.cursor
      /\ cursor' \in [Schedules -> Span]
      /\ lastRun' \in [Schedules -> Int]
      /\ claims' \in [Schedules -> [Span -> Count]]
      /\ \A s \in Schedules : \A c \in Span :
            ~(s = d.schedule /\ c = d.cursor) => claims'[s][c] = claims[s][c]
      /\ d.schedule \in Recurring =>
            claims[d.schedule][d.cursor] = 0 /\ claims'[d.schedule][d.cursor] = 1
      /\ BehindCursor'
  BY ClaimTakesRun
<1>2. sc \in [Schedulers -> SchedulerState]
  BY DEF IInv, PassInv
<1>3. sc'[p] = rec /\ \A q \in Schedulers : q # p => sc'[q] = sc[q]
  BY <1>2
<1>4. PassInv'
  <2>1. sc' \in [Schedulers -> SchedulerState]
    BY <1>2
  <2>2. \A q \in Schedulers :
          /\ sc'[q].now \in (-MaxSkew)..MaxTime
          /\ \A e \in sc'[q].due : e.cursor <= sc'[q].now
          /\ \A e \in sc'[q].run : e.cursor \in Span
          /\ sc'[q].pc # "submit" => sc'[q].run = {}
          /\ \A e, f \in sc'[q].run : e = f
    BY SMTT(30), <1>1, <1>3 DEF IInv, PassInv
  <2> QED BY <1>1, <2>1, <2>2 DEF IInv, PassInv
<1>5. Held'
  <2> SUFFICES ASSUME NEW q \in Schedulers, NEW e \in sc'[q].run, e.schedule \in Recurring
               PROVE  /\ claims'[e.schedule][e.cursor] = 1
                      /\ submits[e.schedule][e.cursor] = 0
                      /\ \A r \in Schedulers : e \in sc'[r].run => r = q
    BY SMTT(30) DEF Held, Recurring
  <2>0. \A r \in Schedulers : \A f \in sc[r].run : f.schedule \in Recurring =>
          /\ claims[f.schedule][f.cursor] = 1
          /\ submits[f.schedule][f.cursor] = 0
          /\ \A x \in Schedulers : f \in sc[x].run => x = r
    BY DEF IInv, Held
  <2>1. CASE q = p
    <3>1. e = d
      BY <2>1, <1>3
    <3>2. claims[d.schedule][d.cursor] = 0 /\ claims'[d.schedule][d.cursor] = 1
      BY <1>1, <3>1
    <3>3. submits[d.schedule][d.cursor] = 0
      <4>1. d.schedule \in Recurring /\ d.cursor \in Span
        BY <1>1, <3>1
      <4>2. \/ submits[d.schedule][d.cursor] = 0
            \/ submits[d.schedule][d.cursor] = 1 /\ claims[d.schedule][d.cursor] = 1
        BY <4>1 DEF IInv, BehindCursor
      <4> QED BY <3>2, <4>2
    <3>4. \A r \in Schedulers : d \notin sc[r].run
      BY SMTT(30), <2>0, <3>1, <3>2
    <3> QED BY <2>1, <3>1, <3>2, <3>3, <3>4, <1>3
  <2>2. CASE q # p
    <3>1. e \in sc[q].run
      BY <2>2, <1>3
    <3>2. e.schedule \in Schedules /\ e.cursor \in Span
      BY <3>1 DEF IInv, PassInv, Recurring
    <3>3. e # d /\ ~(e.schedule = d.schedule /\ e.cursor = d.cursor)
      BY SMTT(30), <3>1, <2>0, <1>1
    <3>4. e \notin rec.run
      BY <3>3
    <3> QED BY SMTT(30), <2>0, <2>2, <3>1, <3>2, <3>3, <3>4, <1>1, <1>3
  <2> QED BY <2>1, <2>2
<1> QED BY <1>1, <1>4, <1>5 DEF IInv

(* fireSchedule's claim, won.                                              *)
LEMMA ClaimRunKeepsInv ==
    ASSUME IInv, NEW p \in Schedulers, NEW d \in sc[p].due, ClaimRun(p, d)
    PROVE  IInv'
<1> DEFINE rec == [sc[p] EXCEPT !.pc = "submit", !.due = sc[p].due \ {d}, !.run = {d}]
<1>1. sc \in [Schedulers -> SchedulerState] /\ sc[p] \in SchedulerState
  BY DEF IInv, PassInv
<1>2. d \in Run
  BY <1>1 DEF SchedulerState
<1>3. rec \in SchedulerState /\ rec.now = sc[p].now /\ rec.due \subseteq sc[p].due /\ rec.run = {d}
      /\ rec.pc = "submit"
  BY <1>1, <1>2 DEF SchedulerState
<1>4. sc' = [sc EXCEPT ![p] = rec]
  BY <1>1 DEF ClaimRun
<1> HIDE DEF rec
<1>5. rec.now \in (-MaxSkew)..MaxTime /\ \A e \in rec.due : e.cursor <= rec.now
  BY <1>3 DEF IInv, PassInv
<1>6. /\ ClaimScheduleRun(d.schedule, d.cursor, sc[p].now,
                           NextActivation(d.schedule, sc[p].now))
      /\ claims' = [claims EXCEPT ![d.schedule][d.cursor] = Bump(@)]
      /\ UNCHANGED <<clock, enabled, submits>>
  BY DEF ClaimRun
<1> QED BY <1>3, <1>4, <1>5, <1>6, ClaimKeepsInv

(* fireSchedule's claim, failed.                                           *)
LEMMA ClaimFailsKeepsInv ==
    ASSUME IInv, NEW p \in Schedulers, NEW d \in sc[p].due, ClaimFails(p, d)
    PROVE  IInv'
<1> DEFINE rec == Continue(p, sc[p].due \ {d})
<1>1. /\ rec \in SchedulerState
      /\ rec.now \in (-MaxSkew)..MaxTime
      /\ \A e \in rec.due : e.cursor <= rec.now
      /\ rec.run = {}
  BY PassGoesOn
<1>2. sc' = [sc EXCEPT ![p] = rec] /\ UNCHANGED <<clock, enabled, submits>>
  BY DEF ClaimFails
<1> HIDE DEF rec
<1>3. CASE UNCHANGED <<cursor, lastRun, claims>>
  BY <1>1, <1>2, <1>3, LetGo
<1>4. CASE /\ ClaimScheduleRun(d.schedule, d.cursor, sc[p].now,
                                NextActivation(d.schedule, sc[p].now))
           /\ claims' = [claims EXCEPT ![d.schedule][d.cursor] = Bump(@)]
  BY <1>1, <1>2, <1>4, ClaimKeepsInv
<1> QED BY <1>3, <1>4 DEF ClaimFails

(* fireSchedule's Submit: the job is the first for its run, and who        *)
(* submitted it lets the run go.                                           *)
LEMMA SubmitKeepsInv ==
    ASSUME IInv, NEW p \in Schedulers, NEW d \in sc[p].run, SubmitRun(p, d)
    PROVE  IInv'
<1> USE SpanFacts
<1> DEFINE rec == Continue(p, sc[p].due)
           s0 == d.schedule
           c0 == d.cursor
<1>1. /\ rec \in SchedulerState
      /\ rec.now \in (-MaxSkew)..MaxTime
      /\ \A e \in rec.due : e.cursor <= rec.now
      /\ rec.run = {}
  BY PassGoesOn
<1>2. sc' = [sc EXCEPT ![p] = rec] /\ UNCHANGED <<clock, cursor, lastRun, enabled, claims>>
  BY DEF SubmitRun
<1> HIDE DEF rec
<1>3. CASE UNCHANGED submits
  BY <1>1, <1>2, <1>3, LetGo
<1>4. CASE submits' = [submits EXCEPT ![s0][c0] = Bump(@)]
  <2>1. sc[p] \in SchedulerState /\ c0 \in Span /\ submits \in [Schedules -> [Span -> Count]]
        /\ sc \in [Schedulers -> SchedulerState]
    BY DEF IInv, PassInv
  <2>2. d \in Run /\ s0 \in Schedules
    BY <2>1 DEF SchedulerState, Run
  <2>3. submits' = [submits EXCEPT ![s0] = [submits[s0] EXCEPT ![c0] = Bump(submits[s0][c0])]]
    BY <1>4, <2>1, <2>2
  <2>4. s0 \in Recurring => claims[s0][c0] = 1 /\ submits[s0][c0] = 0
    BY DEF IInv, Held
  <2>5. \A q \in Schedulers : s0 \in Recurring /\ d \in sc[q].run => q = p
    BY DEF IInv, Held
  <2>6. sc'[p] = rec /\ \A q \in Schedulers : q # p => sc'[q] = sc[q]
    BY <1>2, <2>1
  <2>61. d = [schedule |-> s0, cursor |-> c0]
    BY <2>2 DEF Run
  <2> HIDE DEF s0, c0
  <2>7. Bump(submits[s0][c0]) \in Count
    BY DEF Bump, Count
  <2>8. submits' \in [Schedules -> [Span -> Count]]
    <3> DEFINE row == [submits[s0] EXCEPT ![c0] = Bump(submits[s0][c0])]
    <3>1. row \in [Span -> Count]
      BY <2>1, <2>2, <2>7
    <3>2. submits' = [submits EXCEPT ![s0] = row]
      BY <2>3
    <3> HIDE DEF row
    <3> QED BY <2>1, <3>1, <3>2
  <2>9. \A s \in Schedules : \A c \in Span : ~(s = s0 /\ c = c0) => submits'[s][c] = submits[s][c]
    BY <2>1, <2>2, <2>3
  <2>10. s0 \in Recurring => submits'[s0][c0] = 1
    BY <2>1, <2>2, <2>3, <2>4 DEF Bump
  <2>11. PassInv'
    <3>1. sc' \in [Schedulers -> SchedulerState]
      BY <1>1, <1>2, <2>1
    <3>2. \A q \in Schedulers :
            /\ sc'[q].now \in (-MaxSkew)..MaxTime
            /\ \A e \in sc'[q].due : e.cursor <= sc'[q].now
            /\ \A e \in sc'[q].run : e.cursor \in Span
            /\ sc'[q].pc # "submit" => sc'[q].run = {}
            /\ \A e, f \in sc'[q].run : e = f
      BY SMTT(30), <1>1, <2>6 DEF IInv, PassInv
    <3> QED BY <1>2, <2>8, <3>1, <3>2 DEF IInv, PassInv
  <2>12. BehindCursor'
    <3> SUFFICES ASSUME NEW s \in Recurring
                 PROVE  /\ lastRun[s] < cursor[s]
                        /\ \A c \in Span :
                              /\ claims[s][c] \in {0, 1}
                              /\ c >= cursor[s] => claims[s][c] = 0
                              /\ submits'[s][c] = 0 \/ (submits'[s][c] = 1 /\ claims[s][c] = 1)
      BY <1>2 DEF BehindCursor, Recurring, Span, ZeroTime
    <3>1. s \in Schedules
      BY DEF Recurring
    <3> QED BY <2>4, <2>9, <2>10, <3>1 DEF IInv, BehindCursor
  <2>13. Held'
    <3> SUFFICES ASSUME NEW q \in Schedulers, NEW e \in sc'[q].run, e.schedule \in Recurring
                 PROVE  /\ claims[e.schedule][e.cursor] = 1
                        /\ submits'[e.schedule][e.cursor] = 0
                        /\ \A r \in Schedulers : e \in sc'[r].run => r = q
      BY <1>2 DEF Held, Recurring
    <3>1. q # p /\ e \in sc[q].run
      BY <1>1, <2>6
    <3>2. e \in Run /\ e.schedule \in Schedules /\ e.cursor \in Span
      BY SMTT(30), <2>1, <3>1 DEF IInv, PassInv, SchedulerState, Run
    <3>3. e # d
      BY <2>5, <2>61, <3>1 DEF s0
    <3>4. ~(e.schedule = s0 /\ e.cursor = c0)
      BY <2>61, <3>2, <3>3 DEF Run
    <3>5. /\ claims[e.schedule][e.cursor] = 1
          /\ submits[e.schedule][e.cursor] = 0
          /\ \A r \in Schedulers : e \in sc[r].run => r = q
      BY <3>1 DEF IInv, Held
    <3> QED BY <1>1, <2>6, <2>9, <3>2, <3>4, <3>5
  <2> QED BY <2>11, <2>12, <2>13 DEF IInv
<1> QED BY <1>3, <1>4 DEF SubmitRun

(* A step that leaves rows, runs and schedulers alone: the clock's tick    *)
(* and an operator's switch.                                               *)
LEMMA AsideKeepsInv ==
    ASSUME IInv, UNCHANGED <<cursor, lastRun, sc, claims, submits>>,
           clock' \in 0..MaxTime, enabled' \subseteq Schedules
    PROVE  IInv'
<1>1. PassInv'
  BY DEF IInv, PassInv
<1>2. BehindCursor'
  BY DEF IInv, BehindCursor
<1>3. Held'
  BY DEF IInv, Held
<1> QED BY <1>1, <1>2, <1>3 DEF IInv

(* Every step keeps the invariant.                                         *)
LEMMA StepKeepsInv == IInv /\ [SchedulerNext]_scheduleVars => IInv'
<1> SUFFICES ASSUME IInv, [SchedulerNext]_scheduleVars PROVE IInv'
  OBVIOUS
<1> USE SchedulerAssumption
<1>1. ASSUME NEW p \in Schedulers, handleSchedules(p) PROVE IInv'
  BY <1>1, ReadKeepsInv
<1>2. ASSUME NEW p \in Schedulers, NEW d \in sc[p].due, ClaimRun(p, d) PROVE IInv'
  BY <1>2, ClaimRunKeepsInv
<1>3. ASSUME NEW p \in Schedulers, NEW d \in sc[p].due, SkipRun(p, d) PROVE IInv'
  <2> DEFINE rec == Continue(p, sc[p].due \ {d})
  <2>1. /\ rec \in SchedulerState
        /\ rec.now \in (-MaxSkew)..MaxTime
        /\ \A e \in rec.due : e.cursor <= rec.now
        /\ rec.run = {}
    BY PassGoesOn
  <2>2. sc' = [sc EXCEPT ![p] = rec]
        /\ UNCHANGED <<clock, cursor, lastRun, enabled, claims, submits>>
    BY <1>3 DEF SkipRun
  <2> HIDE DEF rec
  <2> QED BY <2>1, <2>2, LetGo
<1>4. ASSUME NEW p \in Schedulers, NEW d \in sc[p].run, SubmitRun(p, d) PROVE IInv'
  BY <1>4, SubmitKeepsInv
<1>5. ASSUME NEW p \in Schedulers, SchedulerStop(p) PROVE IInv'
  <2>1. /\ Asleep \in SchedulerState
        /\ Asleep.now \in (-MaxSkew)..MaxTime
        /\ Asleep.due = {} /\ Asleep.run = {}
    BY SMTT(30) DEF Asleep, SchedulerState, Times
  <2>2. sc' = [sc EXCEPT ![p] = Asleep]
        /\ UNCHANGED <<clock, cursor, lastRun, enabled, claims, submits>>
    BY <1>5 DEF SchedulerStop
  <2> QED BY <2>1, <2>2, LetGo
<1>6. ASSUME NEW p \in Schedulers, NEW d \in sc[p].due, ClaimFails(p, d) PROVE IInv'
  BY <1>6, ClaimFailsKeepsInv
<1>7. ASSUME NEW s \in Schedules, Toggle(s) PROVE IInv'
  BY <1>7, AsideKeepsInv DEF Toggle, IInv, PassInv
<1>8. CASE Minute
  BY SMTT(30), <1>8, AsideKeepsInv DEF Minute, IInv, PassInv
<1>9. CASE UNCHANGED scheduleVars
  BY <1>9, AsideKeepsInv DEF scheduleVars, IInv, PassInv
<1> QED
  BY <1>1, <1>2, <1>3, <1>4, <1>5, <1>6, <1>7, <1>8, <1>9 DEF SchedulerNext, Pass

(* Every state of the schedulers has the invariant.                        *)
LEMMA InvHolds == SchedulerSpec => []IInv
BY InitHasInv, StepKeepsInv, PTL DEF SchedulerSpec

(* The run at a next_run_at is claimed at most once and submitted at most  *)
(* once, by who claimed it (fireSchedule, ClaimScheduleRun), for any       *)
(* number of schedulers and schedules.                                     *)
THEOREM NoRunTwice == SchedulerSpec => []AtMostOncePerRun
<1>1. IInv => AtMostOncePerRun
  <2> SUFFICES ASSUME IInv, NEW s \in Recurring, NEW c \in DOMAIN claims[s]
               PROVE  claims[s][c] <= 1 /\ submits[s][c] <= claims[s][c]
    BY DEF AtMostOncePerRun
  <2>1. s \in Schedules /\ c \in Span
    BY DEF IInv, PassInv, Recurring
  <2>2. /\ claims[s][c] \in {0, 1}
        /\ submits[s][c] = 0 \/ (submits[s][c] = 1 /\ claims[s][c] = 1)
    BY <2>1 DEF IInv, BehindCursor
  <2> QED BY SMTT(30), <2>2
<1> QED BY <1>1, InvHolds, PTL

(* A schedule's cursor lies after its last run (the next that fireSchedule *)
(* computes is after the clock of its pass).                               *)
THEOREM CursorStaysAhead == SchedulerSpec => []CursorAhead
<1>1. IInv => CursorAhead
  BY DEF IInv, BehindCursor, CursorAhead
<1> QED BY <1>1, InvHolds, PTL

LEMMA CursorGrows ==
    IInv /\ [SchedulerNext]_scheduleVars => \A s \in Recurring : cursor[s] <= cursor'[s]
<1> SUFFICES ASSUME IInv, [SchedulerNext]_scheduleVars
             PROVE  \A s \in Recurring : cursor[s] <= cursor'[s]
  OBVIOUS
<1>1. CASE UNCHANGED cursor
  <2>1. \A s \in Recurring : cursor[s] \in Int
    BY SpanFacts DEF IInv, PassInv, Recurring
  <2> QED BY SMTT(30), <1>1, <2>1
<1>2. ASSUME NEW p \in Schedulers, NEW d \in sc[p].due,
             ClaimScheduleRun(d.schedule, d.cursor, sc[p].now,
                              NextActivation(d.schedule, sc[p].now)),
             claims' = [claims EXCEPT ![d.schedule][d.cursor] = Bump(@)],
             UNCHANGED submits
      PROVE  \A s \in Recurring : cursor[s] <= cursor'[s]
  BY <1>2, ClaimTakesRun
<1> QED
  BY <1>1, <1>2 DEF SchedulerNext, Pass, handleSchedules, ClaimRun, SkipRun, SubmitRun,
                    SchedulerStop, ClaimFails, Toggle, Minute, scheduleVars

(* No step moves a cursor back, a stale clock or row notwithstanding       *)
(* (ClaimScheduleRun).                                                     *)
THEOREM CursorNeverGoesBack == SchedulerSpec => CursorOnlyAdvances
<1>1. IInv /\ [SchedulerNext]_scheduleVars =>
        [\A s \in Recurring : cursor[s] <= cursor'[s]]_scheduleVars
  BY CursorGrows
<1> QED BY <1>1, InvHolds, PTL DEF SchedulerSpec, CursorOnlyAdvances

-----------------------------------------------------------------------------
(* The ledger's variables, as the schedulers keep them.                    *)
NextRuns == [s \in Recurring |-> cursor[s]]

Taken == {d \in UNION {sc[p].run : p \in Schedulers} : d.schedule \in Recurring}

FiredIn(sub) ==
    RunsOf({x \in Recurring \X (ZeroTime..(MaxTime + Interval)) : sub[x[1]][x[2]] # 0})

Fired == FiredIn(submits)

LEMMA FiredFacts ==
    ASSUME NEW sub, NEW d
    PROVE  d \in FiredIn(sub) <=>
             d \in Run /\ d.schedule \in Recurring /\ d.cursor \in Span
                /\ sub[d.schedule][d.cursor] # 0
<1>1. ASSUME d \in Run, d.schedule \in Recurring, d.cursor \in Span,
             sub[d.schedule][d.cursor] # 0
      PROVE  d \in FiredIn(sub)
  <2>1. <<d.schedule, d.cursor>> \in
          {x \in Recurring \X Span : sub[x[1]][x[2]] # 0}
    BY <1>1
  <2>2. d = [schedule |-> d.schedule, cursor |-> d.cursor]
    BY <1>1 DEF Run
  <2> QED BY SMTT(30), <2>1, <2>2 DEF FiredIn, RunsOf, Span
<1>2. ASSUME d \in FiredIn(sub)
      PROVE  /\ d \in Run /\ d.schedule \in Recurring /\ d.cursor \in Span
             /\ sub[d.schedule][d.cursor] # 0
  <2>1. PICK x \in Recurring \X Span :
          sub[x[1]][x[2]] # 0 /\ d = [schedule |-> x[1], cursor |-> x[2]]
    BY <1>2 DEF FiredIn, RunsOf, Span
  <2>2. x[1] \in Recurring /\ x[2] \in Span
    BY <2>1
  <2>3. x[1] \in Schedules /\ x[2] \in Int
    BY <2>2, SpanFacts DEF Recurring
  <2> QED BY <2>1, <2>2, <2>3 DEF Run, Times
<1> QED BY <1>1, <1>2

(* The ledger's steps, said of these.                                      *)
LEMMA LedgerSteps ==
    /\ UNCHANGED <<NextRuns, Taken, Fired>> => UNCHANGED Ledger!vars
    /\ \A s \in Recurring :
          /\ NextRuns' = [NextRuns EXCEPT ![s] = NextRuns'[s]]
          /\ NextRuns'[s] \in Int
          /\ NextRuns'[s] > NextRuns[s]
          /\ \/ Taken' = Taken \cup {[schedule |-> s, cursor |-> NextRuns[s]]}
             \/ UNCHANGED Taken
          /\ UNCHANGED Fired
          => Ledger!Next
    /\ \A d \in Taken :
          /\ Taken' = Taken \ {d}
          /\ UNCHANGED NextRuns
          /\ (d \notin Fired /\ Fired' = Fired \cup {d}) \/ UNCHANGED Fired
          => Ledger!Next
<1>1. UNCHANGED <<NextRuns, Taken, Fired>> => UNCHANGED Ledger!vars
  BY DEF Ledger!vars, NextRuns, Taken, Fired, FiredIn
<1>2. ASSUME NEW s \in Recurring,
             NextRuns' = [NextRuns EXCEPT ![s] = NextRuns'[s]],
             NextRuns'[s] \in Int,
             NextRuns'[s] > NextRuns[s],
             Taken' = Taken \cup {[schedule |-> s, cursor |-> NextRuns[s]]} \/ UNCHANGED Taken,
             UNCHANGED Fired
      PROVE  Ledger!Next
  <2>1. Ledger!Advance(s)
    BY <1>2 DEF Ledger!Advance, NextRuns
  <2>2. Ledger!Take(s) \/ Ledger!Skip(s)
    BY <1>2, <2>1 DEF Ledger!Take, Ledger!Skip, NextRuns, Taken, Fired, FiredIn
  <2> QED BY <2>2 DEF Ledger!Next
<1>3. ASSUME NEW d \in Taken,
             Taken' = Taken \ {d},
             UNCHANGED NextRuns,
             (d \notin Fired /\ Fired' = Fired \cup {d}) \/ UNCHANGED Fired
      PROVE  Ledger!Next
  <2>1. Ledger!Fire(d) \/ Ledger!Miss(d)
    BY <1>3 DEF Ledger!Fire, Ledger!Miss, NextRuns, Taken, Fired, FiredIn
  <2> QED BY <1>3, <2>1 DEF Ledger!Next, Taken
<1> QED BY <1>1, <1>2, <1>3

(* A scheduler that lets go of what it has in hand, if anything, misses    *)
(* that run: nobody else has it.                                           *)
LEMMA LetGoIsLedgerStep ==
    ASSUME IInv, NEW p \in Schedulers, NEW rec, rec.run = {},
           sc' = [sc EXCEPT ![p] = rec],
           UNCHANGED <<cursor, submits>>
    PROVE  [Ledger!Next]_Ledger!vars
<1>1. sc'[p] = rec /\ \A q \in Schedulers : q # p => sc'[q] = sc[q]
  BY DEF IInv, PassInv
<1>2. UNCHANGED <<NextRuns, Fired>>
  BY DEF NextRuns, Fired, FiredIn
<1>3. CASE \A d \in sc[p].run : d.schedule \notin Recurring
  <2>1. UNCHANGED Taken
    BY SMTT(30), <1>1, <1>3 DEF Taken, Recurring
  <2> QED BY <1>2, <2>1, LedgerSteps
<1>4. ASSUME NEW d \in sc[p].run, d.schedule \in Recurring PROVE Ledger!Next
  <2>1. d \in Taken
    BY <1>4 DEF Taken
  <2>2. \A e \in sc[p].run : e = d
    BY <1>4 DEF IInv, PassInv
  <2>3. \A q \in Schedulers : d \in sc[q].run => q = p
    BY <1>4 DEF IInv, Held
  <2>4. Taken' = Taken \ {d}
    BY SMTT(30), <1>1, <2>2, <2>3 DEF Taken, Recurring
  <2> QED BY <1>2, <2>1, <2>4, LedgerSteps
<1> QED BY <1>3, <1>4

(* A claim takes the run off the ledger, for the claimant if it hears of   *)
(* it and for nobody if it does not.                                       *)
LEMMA ClaimIsLedgerStep ==
    ASSUME IInv, NEW p \in Schedulers, NEW d \in sc[p].due, NEW rec,
           ClaimScheduleRun(d.schedule, d.cursor, sc[p].now,
                            NextActivation(d.schedule, sc[p].now)),
           claims' = [claims EXCEPT ![d.schedule][d.cursor] = Bump(@)],
           sc[p].run = {},
           sc' = [sc EXCEPT ![p] = rec],
           rec.run = {} \/ rec.run = {d},
           UNCHANGED submits
    PROVE  [Ledger!Next]_Ledger!vars
<1>1. sc'[p] = rec /\ \A q \in Schedulers : q # p => sc'[q] = sc[q]
  BY DEF IInv, PassInv
<1>2. UNCHANGED Fired
  BY DEF Fired, FiredIn
<1>3. /\ d \in Run /\ cursor[d.schedule] = d.cursor
      /\ cursor' \in [Schedules -> Span] /\ cursor \in [Schedules -> Span]
      /\ \A s \in Schedules : s # d.schedule => cursor'[s] = cursor[s]
      /\ d.schedule \in Recurring => cursor'[d.schedule] > cursor[d.schedule]
  BY ClaimTakesRun DEF IInv, PassInv
<1>4. \A s \in Recurring : s \in Schedules
  BY DEF Recurring
<1>5. CASE d.schedule \notin Recurring
  <2>1. UNCHANGED NextRuns
    BY <1>3, <1>4, <1>5 DEF NextRuns, Recurring
  <2>2. UNCHANGED Taken
    BY SMTT(30), <1>1, <1>5 DEF Taken, Recurring
  <2> QED BY <1>2, <2>1, <2>2, LedgerSteps
<1>6. CASE d.schedule \in Recurring
  <2> DEFINE s0 == d.schedule
  <2>1. NextRuns' = [s \in Recurring |-> cursor'[s]]
    BY DEF NextRuns, Recurring
  <2>2. NextRuns' = [NextRuns EXCEPT ![s0] = NextRuns'[s0]]
    BY <1>3, <1>4, <2>1 DEF NextRuns
  <2>3. NextRuns'[s0] = cursor'[s0] /\ NextRuns[s0] = cursor[s0] /\ cursor'[s0] \in Int
    BY <1>3, <1>4, <1>6, <2>1, SpanFacts DEF NextRuns
  <2>4. d = [schedule |-> s0, cursor |-> NextRuns[s0]]
    BY <1>3, <2>3 DEF Run
  <2>5. Taken' = Taken \cup {d} \/ UNCHANGED Taken
    <3>1. CASE rec.run = {}
      BY SMTT(30), <1>1, <3>1 DEF Taken, Recurring
    <3>2. CASE rec.run = {d}
      BY SMTT(30), <1>1, <1>6, <3>2 DEF Taken, Recurring
    <3> QED BY <3>1, <3>2
  <2> QED BY <1>2, <1>3, <1>6, <2>2, <2>3, <2>4, <2>5, LedgerSteps
<1> QED BY <1>5, <1>6

(* A Submit that wrote its job fires the run.                              *)
LEMMA SubmitIsLedgerStep ==
    ASSUME IInv, NEW p \in Schedulers, NEW d \in sc[p].run, NEW rec, rec.run = {},
           sc' = [sc EXCEPT ![p] = rec],
           submits' = [submits EXCEPT ![d.schedule][d.cursor] = Bump(@)],
           UNCHANGED cursor
    PROVE  [Ledger!Next]_Ledger!vars
<1> DEFINE s0 == d.schedule
           c0 == d.cursor
<1>1. sc'[p] = rec /\ \A q \in Schedulers : q # p => sc'[q] = sc[q]
  BY SMTT(30) DEF IInv, PassInv
<1>2. UNCHANGED NextRuns
  BY DEF NextRuns
<1>3. /\ sc[p] \in SchedulerState /\ c0 \in Span
      /\ submits \in [Schedules -> [Span -> Count]]
      /\ \A e \in sc[p].run : e = d
  BY DEF IInv, PassInv
<1>4. d \in Run /\ s0 \in Schedules
  BY <1>3 DEF SchedulerState, Run
<1>5. \A s \in Schedules : \A c \in Span :
         submits'[s][c] = IF s = s0 /\ c = c0 THEN Bump(submits[s][c]) ELSE submits[s][c]
  BY <1>3, <1>4
<1>6. \A s \in Recurring : s \in Schedules
  BY DEF Recurring
<1>7. Fired' = FiredIn(submits') /\ Fired = FiredIn(submits)
  BY DEF Fired, FiredIn, RunsOf, Recurring, ZeroTime
<1>70. ASSUME NEW e, ~(e.schedule = s0 /\ e.cursor = c0) PROVE e \in Fired' <=> e \in Fired
  <2>1. e.schedule \in Recurring /\ e.cursor \in Span =>
          submits'[e.schedule][e.cursor] = submits[e.schedule][e.cursor]
    BY <1>5, <1>6, <1>70
  <2>2. e \in FiredIn(submits) <=>
          e \in Run /\ e.schedule \in Recurring /\ e.cursor \in Span
             /\ submits[e.schedule][e.cursor] # 0
    BY FiredFacts
  <2>3. e \in FiredIn(submits') <=>
          e \in Run /\ e.schedule \in Recurring /\ e.cursor \in Span
             /\ submits'[e.schedule][e.cursor] # 0
    BY FiredFacts
  <2> QED BY <1>7, <2>1, <2>2, <2>3
<1>8. CASE s0 \notin Recurring
  <2>1. Taken' = Taken
    BY SMTT(30), <1>1, <1>3, <1>8 DEF Taken, Recurring
  <2>2. \A e : e \in Fired' <=> e \in Fired
    <3> SUFFICES ASSUME NEW e PROVE e \in Fired' <=> e \in Fired
      OBVIOUS
    <3>1. CASE e.schedule = s0
      BY <1>7, <1>8, <3>1, FiredFacts
    <3>2. CASE e.schedule # s0
      BY <1>70, <3>2
    <3> QED BY <3>1, <3>2
  <2>3. Fired' = Fired
    BY <2>2
  <2> QED BY <1>2, <2>1, <2>3, LedgerSteps
<1>9. CASE s0 \in Recurring
  <2>1. submits[s0][c0] = 0 /\ \A q \in Schedulers : d \in sc[q].run => q = p
    BY <1>9 DEF IInv, Held
  <2>2. d \in Taken /\ Taken' = Taken \ {d}
    BY SMTT(30), <1>1, <1>3, <1>9, <2>1 DEF Taken, Recurring
  <2>3. d \notin Fired
    BY <1>7, <2>1, FiredFacts
  <2>4. Bump(submits[s0][c0]) # 0
    BY SMTT(30) DEF Bump
  <2>5. \A e : e \in Fired' <=> e \in Fired \/ e = d
    <3> SUFFICES ASSUME NEW e PROVE e \in Fired' <=> e \in Fired \/ e = d
      OBVIOUS
    <3>1. CASE e = d
      BY <1>3, <1>4, <1>5, <1>7, <1>9, <2>4, <3>1, FiredFacts
    <3>2. CASE e # d
      <4>1. CASE e \in Run
        BY SMTT(30), <1>4, <1>70, <3>2, <4>1 DEF Run
      <4>2. CASE e \notin Run
        BY <1>7, <3>2, <4>2, FiredFacts
      <4> QED BY <4>1, <4>2
    <3> QED BY <3>1, <3>2
  <2>6. Fired' = Fired \cup {d}
    BY <2>5
  <2> QED BY <1>2, <2>2, <2>3, <2>6, LedgerSteps
<1> QED BY <1>8, <1>9

(* Every step of the schedulers is one of the ledger, or none.             *)
LEMMA StepIsLedgerStep == IInv /\ [SchedulerNext]_scheduleVars => [Ledger!Next]_Ledger!vars
<1> SUFFICES ASSUME IInv, [SchedulerNext]_scheduleVars PROVE [Ledger!Next]_Ledger!vars
  OBVIOUS
<1>1. ASSUME NEW p \in Schedulers, handleSchedules(p) PROVE [Ledger!Next]_Ledger!vars
  <2>1. PICK skew \in 0..MaxSkew :
          sc' = [sc EXCEPT ![p] = [pc |-> "pass", now |-> clock - skew,
                                   due |-> DueSchedules(clock - skew), run |-> {}]]
    BY <1>1 DEF handleSchedules
  <2>2. UNCHANGED <<cursor, submits>>
    BY <1>1 DEF handleSchedules
  <2>3. [pc |-> "pass", now |-> clock - skew, due |-> DueSchedules(clock - skew),
         run |-> {}].run = {}
    OBVIOUS
  <2> QED BY <2>1, <2>2, <2>3, LetGoIsLedgerStep
<1>2. ASSUME NEW p \in Schedulers, NEW d \in sc[p].due, ClaimRun(p, d)
      PROVE  [Ledger!Next]_Ledger!vars
  <2> DEFINE rec == [sc[p] EXCEPT !.pc = "submit", !.due = sc[p].due \ {d}, !.run = {d}]
  <2>1. sc \in [Schedulers -> SchedulerState] /\ sc[p] \in SchedulerState
    BY DEF IInv, PassInv
  <2>2. sc' = [sc EXCEPT ![p] = rec]
    BY <1>2, <2>1 DEF ClaimRun
  <2>3. rec.run = {d}
    BY <2>1 DEF SchedulerState
  <2> HIDE DEF rec
  <2>4. sc[p].run = {}
    BY <1>2 DEF ClaimRun, IInv, PassInv
  <2> QED BY <1>2, <2>2, <2>3, <2>4, ClaimIsLedgerStep DEF ClaimRun
<1>3. ASSUME NEW p \in Schedulers, NEW d \in sc[p].due, SkipRun(p, d)
      PROVE  [Ledger!Next]_Ledger!vars
  BY <1>3, PassGoesOn, LetGoIsLedgerStep DEF SkipRun
<1>4. ASSUME NEW p \in Schedulers, NEW d \in sc[p].run, SubmitRun(p, d)
      PROVE  [Ledger!Next]_Ledger!vars
  <2>1. Continue(p, sc[p].due).run = {}
    BY PassGoesOn
  <2>2. sc' = [sc EXCEPT ![p] = Continue(p, sc[p].due)] /\ UNCHANGED cursor
    BY <1>4 DEF SubmitRun
  <2>3. CASE UNCHANGED submits
    BY <2>1, <2>2, <2>3, LetGoIsLedgerStep
  <2>4. CASE submits' = [submits EXCEPT ![d.schedule][d.cursor] = Bump(@)]
    BY <2>1, <2>2, <2>4, SubmitIsLedgerStep
  <2> QED BY <1>4, <2>3, <2>4 DEF SubmitRun
<1>5. ASSUME NEW p \in Schedulers, SchedulerStop(p) PROVE [Ledger!Next]_Ledger!vars
  <2>1. Asleep.run = {}
    BY DEF Asleep
  <2> QED BY <1>5, <2>1, LetGoIsLedgerStep DEF SchedulerStop
<1>6. ASSUME NEW p \in Schedulers, NEW d \in sc[p].due, ClaimFails(p, d)
      PROVE  [Ledger!Next]_Ledger!vars
  <2> DEFINE rec == Continue(p, sc[p].due \ {d})
  <2>1. rec.run = {} /\ sc[p].run = {}
    BY <1>6, PassGoesOn DEF ClaimFails, IInv, PassInv
  <2>2. sc' = [sc EXCEPT ![p] = rec] /\ UNCHANGED submits
    BY <1>6 DEF ClaimFails
  <2> HIDE DEF rec
  <2>3. CASE UNCHANGED <<cursor, lastRun, claims>>
    BY <2>1, <2>2, <2>3, LetGoIsLedgerStep
  <2>4. CASE /\ ClaimScheduleRun(d.schedule, d.cursor, sc[p].now,
                                  NextActivation(d.schedule, sc[p].now))
             /\ claims' = [claims EXCEPT ![d.schedule][d.cursor] = Bump(@)]
    BY <2>1, <2>2, <2>4, ClaimIsLedgerStep
  <2> QED BY <1>6, <2>3, <2>4 DEF ClaimFails
<1>7. CASE UNCHANGED <<cursor, sc, submits>>
  <2>1. UNCHANGED <<NextRuns, Taken, Fired>>
    BY <1>7 DEF NextRuns, Taken, Fired, FiredIn
  <2> QED BY <2>1, LedgerSteps
<1> QED
  BY <1>1, <1>2, <1>3, <1>4, <1>5, <1>6, <1>7 DEF SchedulerNext, Pass, Toggle, Minute, scheduleVars

(* The schedulers, however many, implement the ledger: a run is taken once *)
(* and then fired once or missed (fireSchedule's claim before enqueue).    *)
THEOREM SchedulersKeepLedger == SchedulerSpec => KeepsLedger
<1>1. SchedulerInit => Ledger!Init
  <2> SUFFICES ASSUME SchedulerInit PROVE Ledger!Init
    OBVIOUS
  <2>1. NextRuns \in [Recurring -> Int]
    BY SMTT(30) DEF SchedulerInit, NextRuns, Recurring
  <2>2. Taken = {}
    BY DEF SchedulerInit, Taken, Asleep
  <2>3. \A s \in Recurring : \A c \in Span : submits[s][c] = 0
    BY DEF SchedulerInit, Recurring, Span
  <2>4. Fired = {}
    BY SMTT(30), <2>3, FiredFacts DEF Fired
  <2> QED BY <2>1, <2>2, <2>4 DEF Ledger!Init, NextRuns, Taken, Fired, FiredIn
<1> QED BY <1>1, StepIsLedgerStep, InvHolds, PTL DEF SchedulerSpec, KeepsLedger, Ledger!Spec


-----------------------------------------------------------------------------
(* To the schedules, a step of the fleet is one of Scheduler, or nothing.  *)
LEMMA FleetSchedules == [FleetNext]_fleetVars => [SchedulerNext]_scheduleVars
<1> SUFFICES ASSUME [FleetNext]_fleetVars PROVE [SchedulerNext]_scheduleVars
  OBVIOUS
<1>1. ASSUME NEW p \in Schedulers, Scheduling(p) PROVE [SchedulerNext]_scheduleVars
  <2>1. CASE pass(p)
    BY <2>1 DEF pass, SchedulerNext, Pass
  <2>2. ASSUME NEW d \in sc[p].run, submitPush(p, d) PROVE [SchedulerNext]_scheduleVars
    BY <2>2 DEF submitPush, SchedulerNext, Pass
  <2>3. ASSUME NEW d \in sc[p].run, NEW id \in Ids, submitRow(p, d, id)
        PROVE  [SchedulerNext]_scheduleVars
    BY <2>3 DEF submitRow
  <2> QED BY <1>1, <2>1, <2>2, <2>3 DEF Scheduling
<1>2. ASSUME NEW p \in Schedulers, stop(p) PROVE [SchedulerNext]_scheduleVars
  BY <1>2 DEF stop, SchedulerNext
<1>3. ASSUME NEW p \in Schedulers, NEW d \in sc[p].run, submitFails(p, d)
      PROVE  [SchedulerNext]_scheduleVars
  BY <1>3 DEF submitFails, SchedulerNext, Pass
<1>4. CASE Minute \/ \E s \in Managed : Toggle(s)
  BY <1>4, FleetAssumption DEF SchedulerNext
<1>5. CASE UNCHANGED scheduleVars
  BY <1>5
<1> QED BY <1>1, <1>2, <1>3, <1>4, <1>5 DEF FleetNext, fleetVars

(* To the pipeline, it is one of Dispatch, or nothing: a run in hand has   *)
(* a schedule, and with it an owner for the job.                           *)
LEMMA FleetDispatches == IInv /\ [FleetNext]_fleetVars => [Next]_vars
<1> SUFFICES ASSUME IInv, [FleetNext]_fleetVars PROVE [Next]_vars
  OBVIOUS
<1>1. UNCHANGED vars => [Next]_vars
  BY DEF vars
<1>2. ASSUME NEW p \in Schedulers, RequestNext(p) PROVE Next
  BY <1>2, FleetAssumption DEF Next
<1>3. ASSUME NEW p \in Schedulers, Scheduling(p) PROVE [Next]_vars
  <2>1. CASE pass(p)
    BY <1>1, <2>1 DEF pass
  <2>2. ASSUME NEW d \in sc[p].run, submitPush(p, d) PROVE [Next]_vars
    BY <1>2, <2>2 DEF submitPush, RequestNext, RequestStep
  <2>3. ASSUME NEW d \in sc[p].run, NEW id \in Ids, submitRow(p, d, id) PROVE [Next]_vars
    <3>1. Template[d.schedule] \in Tenants
      BY SMTT(30), FleetAssumption DEF IInv, PassInv, SchedulerState, Run
    <3>2. Submit(p, id, Template[d.schedule], DefaultQueue, DefaultMaxRetries) /\ UNCHANGED wk
      BY <2>3 DEF submitRow
    <3>3. RequestBegin(p)
      BY <3>1, <3>2, FleetAssumption DEF RequestBegin
    <3> QED BY <1>2, <3>2, <3>3 DEF RequestNext
  <2> QED BY <1>3, <2>1, <2>2, <2>3 DEF Scheduling
<1>4. ASSUME NEW p \in Schedulers, stop(p) PROVE [Next]_vars
  BY <1>1, <1>2, <1>4 DEF stop, RequestNext
<1>5. ASSUME NEW p \in Schedulers, NEW d \in sc[p].run, submitFails(p, d)
      PROVE  [Next]_vars
  BY <1>1, <1>2, <1>5 DEF submitFails, RequestNext
<1>6. CASE Working
  BY <1>6 DEF Working, Next, WorkerNext
<1> QED BY <1>1, <1>3, <1>4, <1>5, <1>6 DEF FleetNext, fleetVars

LEMMA FleetKeepsSchedules == FleetSpec => SchedulerSpec /\ []IInv
<1>1. FleetInit => SchedulerInit
  BY DEF FleetInit
<1> QED BY <1>1, FleetSchedules, InvHolds, PTL DEF FleetSpec, SchedulerSpec

(* The composition is one of the two specifications, for any number of     *)
(* schedulers, schedules, workers and jobs, so that what is proved of      *)
(* Dispatch and of Scheduler holds of the fleet (handleSchedules, Submit). *)
THEOREM FleetKeepsParts == FleetSpec => PartsKeepTheirSpecs
<1>1. FleetInit => Init
  BY DEF FleetInit
<1> QED BY <1>1, FleetDispatches, FleetKeepsSchedules, PTL
        DEF FleetSpec, PartsKeepTheirSpecs, Spec

-----------------------------------------------------------------------------
(* Where the jobs of the fleet come from: a job exists once its run is     *)
(* behind the cursor, and while a scheduler still holds the run, it is in  *)
(* the middle of that job's Submit.                                        *)
Origins ==
    /\ DOMAIN rq = Schedulers
    /\ origin \in [DOMAIN jobs -> Run]
    /\ \A id \in DOMAIN jobs :
          /\ "tenant_id" \in DOMAIN jobs[id]
          /\ jobs[id].tenant_id = Template[origin[id].schedule]
          /\ origin[id].schedule \in Recurring =>
                /\ cursor[origin[id].schedule] > origin[id].cursor
                /\ \A other \in DOMAIN jobs : origin[other] = origin[id] => other = id
                /\ \A p \in Schedulers : origin[id] \in sc[p].run => rq[p].pc # "idle"

(* The owners of the rows stay.                                            *)
OwnersStay ==
    /\ DOMAIN jobs' = DOMAIN jobs
    /\ \A id \in DOMAIN jobs : jobs'[id].tenant_id = jobs[id].tenant_id
    /\ \A id \in DOMAIN jobs : "tenant_id" \in DOMAIN jobs'[id]

(* No statement of a worker, no poll and no second changes an owner.       *)
LEMMA WorkersKeepOwners == Origins /\ Working => OwnersStay /\ UNCHANGED rq
<1> SUFFICES ASSUME Origins, Working PROVE OwnersStay /\ UNCHANGED rq
  OBVIOUS
<1>1. UNCHANGED rq
  BY DEF Working, Poll, Tick
<1>2. UNCHANGED jobs => OwnersStay
  BY DEF Origins, OwnersStay
<1>3. ASSUME NEW w \in Workers, WorkerStep(w) PROVE OwnersStay
  <2>1. CASE Claim(w)
    BY <2>1 DEF Claim, ClaimJob, HasStatus, Origins, OwnersStay
  <2>2. CASE Complete(w)
    BY <2>2 DEF Complete, MarkCompleted, Origins, OwnersStay
  <2>3. CASE ScheduleRetry(w)
    BY <2>3 DEF ScheduleRetry, MarkForRetry, Origins, OwnersStay
  <2>4. CASE GiveUp(w)
    <3>1. jobs' = [jobs EXCEPT ![wk[w].id].status = "failed",
                               ![wk[w].id].retry_count = attempts(w),
                               ![wk[w].id].error_message = "set",
                               ![wk[w].id].completed_at = "set"]
      BY <2>4 DEF GiveUp, DeadLetter
    <3> QED BY <3>1 DEF Origins, OwnersStay
  <2> QED
    BY <1>2, <1>3, <2>1, <2>2, <2>3, <2>4
       DEF WorkerStep, Dequeue, Skip, Park, storeVars
<1>4. CASE \E i \in DOMAIN Watched : Poll(i)
  BY <1>2, <1>4 DEF Poll, storeVars
<1>5. CASE Tick
  BY <1>2, <1>5 DEF Tick, storeVars
<1> QED BY <1>1, <1>3, <1>4, <1>5 DEF Working

(* A step without a new job keeps the origins if every scheduler stays     *)
(* where it is, or has no run afterwards but one it has just claimed.      *)
LEMMA OriginsStay ==
    ASSUME IInv, [SchedulerNext]_scheduleVars, Origins, OwnersStay, UNCHANGED origin,
           DOMAIN rq' = Schedulers,
           \A q \in Schedulers :
               \/ sc'[q] = sc[q] /\ rq'[q] = rq[q]
               \/ \A d \in sc'[q].run : cursor[d.schedule] = d.cursor
    PROVE  Origins'
<1> SUFFICES ASSUME NEW id \in DOMAIN jobs, origin[id].schedule \in Recurring
             PROVE  /\ cursor'[origin[id].schedule] > origin[id].cursor
                    /\ \A q \in Schedulers : origin[id] \in sc'[q].run => rq'[q].pc # "idle"
  BY DEF Origins, OwnersStay
<1> DEFINE o == origin[id]
<1>1. /\ o \in Run /\ o.schedule \in Recurring /\ cursor[o.schedule] > o.cursor
      /\ \A q \in Schedulers : o \in sc[q].run => rq[q].pc # "idle"
  BY DEF Origins
<1>2. cursor[o.schedule] \in Int /\ cursor'[o.schedule] \in Int /\ o.cursor \in Int
  <2>1. IInv'
    BY StepKeepsInv
  <2>2. cursor \in [Schedules -> Span] /\ cursor' \in [Schedules -> Span]
    BY <2>1 DEF IInv, PassInv
  <2>3. o.schedule \in Schedules /\ o.cursor \in Int
    BY <1>1 DEF Run, Times
  <2> QED BY <2>2, <2>3, SpanFacts, ZenonT(30)
<1>3. cursor'[o.schedule] >= cursor[o.schedule]
  BY <1>1, <1>2, CursorGrows
<1>4. cursor[o.schedule] # o.cursor
  BY SMTT(30), <1>1, <1>2
<1>5. ASSUME NEW q \in Schedulers, o \in sc'[q].run PROVE rq'[q].pc # "idle"
  BY <1>1, <1>4, <1>5
<1> QED BY SMTT(30), <1>1, <1>2, <1>3, <1>5

(* The INSERT of a scheduler's Submit: its run is behind the cursor, and   *)
(* nobody else has it or has made a job of it.                             *)
LEMMA NewOrigin ==
    ASSUME IInv, Origins, NEW p \in Schedulers, NEW d \in sc[p].run, NEW id \in Ids,
           submitRow(p, d, id)
    PROVE  Origins'
<1>1. /\ id \notin DOMAIN jobs
      /\ jobs' = [j \in DOMAIN jobs \cup {id} |->
                    IF j = id THEN NewRow(Template[d.schedule], DefaultQueue, DefaultMaxRetries)
                    ELSE jobs[j]]
      /\ rq[p].pc = "idle"
      /\ rq' = [rq EXCEPT ![p] = [pc |-> "push", id |-> id]]
      /\ origin' = [i \in DOMAIN jobs' |-> IF i = id THEN d ELSE origin[i]]
      /\ UNCHANGED <<cursor, sc>>
  BY DEF submitRow, Submit, CreateJob, scheduleVars
<1>2. DOMAIN rq' = Schedulers /\ rq'[p].pc = "push" /\ \A q \in Schedulers : q # p => rq'[q] = rq[q]
  BY <1>1 DEF Origins
<1>3. d \in Run /\ d.schedule \in Schedules /\ d.cursor \in Span
  BY SMTT(30) DEF IInv, PassInv, SchedulerState, Run
<1>4. ASSUME d.schedule \in Recurring
      PROVE  /\ cursor[d.schedule] > d.cursor
             /\ \A q \in Schedulers : d \in sc[q].run => q = p
             /\ \A other \in DOMAIN jobs : origin[other] # d
  <2>1. claims[d.schedule][d.cursor] = 1 /\ \A q \in Schedulers : d \in sc[q].run => q = p
    BY <1>4 DEF IInv, Held
  <2>2. ~(d.cursor >= cursor[d.schedule])
    BY SMTT(30), <1>3, <1>4, <2>1 DEF IInv, BehindCursor
  <2>3. cursor[d.schedule] \in Int /\ d.cursor \in Int
    BY <1>3, SpanFacts, ZenonT(30) DEF IInv, PassInv
  <2>4. \A other \in DOMAIN jobs : origin[other] # d
    BY SMTT(30), <1>1, <1>4 DEF Origins
  <2> QED BY SMTT(30), <2>1, <2>2, <2>3, <2>4
<1>5. /\ DOMAIN jobs' = DOMAIN jobs \cup {id}
      /\ jobs'[id] = NewRow(Template[d.schedule], DefaultQueue, DefaultMaxRetries)
      /\ origin'[id] = d
      /\ \A j \in DOMAIN jobs : j # id /\ jobs'[j] = jobs[j] /\ origin'[j] = origin[j]
  BY <1>1
<1>6. "tenant_id" \in DOMAIN jobs'[id] /\ jobs'[id].tenant_id = Template[d.schedule]
  BY SMTT(30), <1>5 DEF NewRow
<1>7. ASSUME NEW j \in DOMAIN jobs, origin[j].schedule \in Recurring
      PROVE  /\ cursor'[origin[j].schedule] > origin[j].cursor
             /\ \A other \in DOMAIN jobs' : origin'[other] = origin[j] => other = j
             /\ \A q \in Schedulers : origin[j] \in sc'[q].run => rq'[q].pc # "idle"
  BY <1>1, <1>2, <1>4, <1>5, <1>7 DEF Origins
<1>8. ASSUME d.schedule \in Recurring
      PROVE  /\ cursor'[d.schedule] > d.cursor
             /\ \A other \in DOMAIN jobs' : origin'[other] = d => other = id
             /\ \A q \in Schedulers : d \in sc'[q].run => rq'[q].pc # "idle"
  BY <1>1, <1>2, <1>4, <1>5, <1>8
<1>9. ASSUME NEW j \in DOMAIN jobs
      PROVE  "tenant_id" \in DOMAIN jobs[j] /\ origin[j] \in Run
             /\ jobs[j].tenant_id = Template[origin[j].schedule]
  BY DEF Origins
<1>10. origin' \in [DOMAIN jobs' -> Run]
  BY <1>1, <1>3, <1>5, <1>9
<1> QED BY <1>2, <1>5, <1>6, <1>7, <1>8, <1>9, <1>10 DEF Origins

(* Scheduler p has no run after the step, and is alone in making it.       *)
NoRun(p) ==
    /\ DOMAIN rq' = Schedulers
    /\ sc'[p].run = {}
    /\ \A q \in Schedulers : q # p => sc'[q] = sc[q] /\ rq'[q] = rq[q]

(* Every step of the fleet keeps the origins.                              *)
LEMMA OriginsKept == IInv /\ Origins /\ [FleetNext]_fleetVars => Origins'
<1> SUFFICES ASSUME IInv, Origins, [FleetNext]_fleetVars PROVE Origins'
  OBVIOUS
<1>1. [SchedulerNext]_scheduleVars
  BY FleetSchedules
<1>2. DOMAIN sc = Schedulers /\ DOMAIN rq = Schedulers
  BY DEF IInv, PassInv, Origins
<1>3. UNCHANGED jobs => OwnersStay
  BY DEF Origins, OwnersStay
<1>4. ASSUME OwnersStay, UNCHANGED origin, NEW p \in Schedulers, NoRun(p) PROVE Origins'
  BY <1>1, <1>4, OriginsStay DEF NoRun
<1>5. ASSUME UNCHANGED <<sc, rq, origin>>, OwnersStay PROVE Origins'
  BY <1>1, <1>2, <1>5, OriginsStay
<1>6. /\ Asleep.run = {}
      /\ \A p \in Schedulers : \A due : Continue(p, due).run = {}
  BY DEF Asleep, Continue, IInv, PassInv, SchedulerState
<1>7. ASSUME NEW p \in Schedulers, pass(p) PROVE Origins'
  <2>1. OwnersStay /\ UNCHANGED <<rq, origin>>
    BY <1>3, <1>7 DEF pass, vars
  <2>2. CASE handleSchedules(p)
    <3>1. PICK skew \in 0..MaxSkew :
            sc' = [sc EXCEPT ![p] = [pc |-> "pass", now |-> clock - skew,
                                     due |-> DueSchedules(clock - skew), run |-> {}]]
      BY <2>2, ZenonT(30) DEF handleSchedules
    <3>2. NoRun(p)
      BY <1>2, <2>1, <3>1 DEF NoRun
    <3> QED BY <1>4, <2>1, <3>2
  <2>3. ASSUME NEW d \in sc[p].due, ClaimRun(p, d) PROVE Origins'
    <3>1. /\ sc' = [sc EXCEPT ![p].pc = "submit", ![p].due = @ \ {d}, ![p].run = {d}]
          /\ cursor[d.schedule] = d.cursor
      BY <2>3 DEF ClaimRun, ClaimScheduleRun
    <3>2. sc'[p].run = {d} /\ \A q \in Schedulers : q # p => sc'[q] = sc[q]
      BY SMTT(30), <1>2, <3>1 DEF IInv, PassInv, SchedulerState
    <3> QED BY <1>1, <1>2, <2>1, <3>1, <3>2, OriginsStay
  <2>4. ASSUME NEW d \in sc[p].due, SkipRun(p, d) PROVE Origins'
    <3>1. NoRun(p)
      BY <1>2, <1>6, <2>1, <2>4 DEF SkipRun, NoRun
    <3> QED BY <1>4, <2>1, <3>1
  <2> QED BY <1>7, <2>2, <2>3, <2>4 DEF pass
<1>8. ASSUME NEW p \in Schedulers, NEW d \in sc[p].run, submitPush(p, d) PROVE Origins'
  <2>1. /\ rq' = [rq EXCEPT ![p] = NoRequest]
        /\ sc' = [sc EXCEPT ![p] = Continue(p, sc[p].due)]
        /\ UNCHANGED <<jobs, origin>>
    BY <1>8 DEF submitPush, SubmitRun, Push, storeVars
  <2>2. NoRun(p)
    BY <1>2, <1>6, <2>1 DEF NoRun
  <2> QED BY <1>3, <1>4, <2>1, <2>2
<1>9. ASSUME NEW p \in Schedulers, NEW d \in sc[p].run, submitFails(p, d) PROVE Origins'
  <2>1. /\ UNCHANGED rq \/ rq' = [rq EXCEPT ![p] = NoRequest]
        /\ sc' = [sc EXCEPT ![p] = Continue(p, sc[p].due)]
        /\ UNCHANGED <<jobs, origin>>
    BY <1>9 DEF submitFails, SubmitRun, RequestAbort, storeVars, vars
  <2>2. NoRun(p)
    BY <1>2, <1>6, <2>1 DEF NoRun
  <2> QED BY <1>3, <1>4, <2>1, <2>2
<1>10. ASSUME NEW p \in Schedulers, stop(p) PROVE Origins'
  <2>1. /\ UNCHANGED rq \/ rq' = [rq EXCEPT ![p] = NoRequest]
        /\ UNCHANGED <<jobs, origin>>
    BY <1>10 DEF stop, RequestAbort, storeVars, vars
  <2>2. \/ sc' = [sc EXCEPT ![p] = Asleep]
        \/ \E d \in sc[p].due : sc' = [sc EXCEPT ![p] = Continue(p, sc[p].due \ {d})]
    BY <1>10, ZenonT(30) DEF stop, SchedulerStop, ClaimFails
  <2>3. ASSUME sc' = [sc EXCEPT ![p] = Asleep] PROVE NoRun(p)
    BY <1>2, <1>6, <2>1, <2>3 DEF NoRun
  <2>4. ASSUME NEW d \in sc[p].due, sc' = [sc EXCEPT ![p] = Continue(p, sc[p].due \ {d})]
        PROVE  NoRun(p)
    BY <1>2, <1>6, <2>1, <2>4 DEF NoRun
  <2>5. NoRun(p)
    BY <2>2, <2>3, <2>4, ZenonT(30)
  <2> QED BY <1>3, <1>4, <2>1, <2>5
<1>11. CASE (Minute \/ \E s \in Managed : Toggle(s)) /\ UNCHANGED <<vars, failures, origin>>
  BY <1>3, <1>5, <1>11 DEF Minute, Toggle, vars
<1>12. CASE Working /\ UNCHANGED <<scheduleVars, failures, origin>>
  BY <1>5, <1>12, WorkersKeepOwners DEF scheduleVars
<1>13. CASE UNCHANGED fleetVars
  BY <1>3, <1>5, <1>13 DEF fleetVars, vars, scheduleVars
<1> QED
  BY <1>7, <1>8, <1>9, <1>10, <1>11, <1>12, <1>13, NewOrigin DEF FleetNext, Scheduling

FailuresCounted == failures \in 0..MaxFailures

(* A run of a recurring schedule yields at most one job, which its owner   *)
(* owns and which exists only once the cursor has left the run behind, for *)
(* any number of schedulers, stops and failures (fireSchedule, Submit).    *)
THEOREM RunsYieldOneJob == FleetSpec => []OneJobPerRun
<1>1. FleetInit => Origins /\ FailuresCounted
  BY SMTT(30), FleetAssumption DEF FleetInit, Origins, FailuresCounted, Init, StoreInit, ApiInit
<1>2. Origins /\ FailuresCounted => OneJobPerRun
  BY DEF Origins, FailuresCounted, OneJobPerRun
<1>3. FailuresCounted /\ [FleetNext]_fleetVars => FailuresCounted'
  <2> SUFFICES ASSUME FailuresCounted, [FleetNext]_fleetVars PROVE FailuresCounted'
    OBVIOUS
  <2>1. UNCHANGED failures \/ (failures < MaxFailures /\ failures' = failures + 1)
    BY DEF FleetNext, Scheduling, pass, submitPush, submitRow, submitFails, stop, fleetVars
  <2> QED BY SMTT(30), <2>1, FleetAssumption DEF FailuresCounted
<1> QED BY <1>1, <1>2, <1>3, OriginsKept, FleetKeepsSchedules, PTL DEF FleetSpec
=============================================================================
