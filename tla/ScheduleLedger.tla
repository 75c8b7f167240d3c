--------------------------- MODULE ScheduleLedger ---------------------------
(***************************************************************************)
(* What fireSchedule promises, without schedulers, passes or clocks: the   *)
(* runs of a schedule are taken off it one after the other, in order, and  *)
(* a run that was taken is fired once or missed, never fired again.  "In   *)
(* short: at-most-once, not at-least-once."                                *)
(***************************************************************************)
EXTENDS Integers

CONSTANT Schedules

VARIABLES
    next,    \* the run each schedule waits for
    taken,   \* the runs somebody is about to fire
    fired    \* the runs that became a job

vars == <<next, taken, fired>>

Run == [schedule: Schedules, cursor: Int]

Init ==
    /\ next \in [Schedules -> Int]
    /\ taken = {}
    /\ fired = {}

(* The schedule goes on to some later run.                                 *)
Advance(s) ==
    /\ next' = [next EXCEPT ![s] = next'[s]]
    /\ next'[s] \in Int
    /\ next'[s] > next[s]

(* The run it waited for is taken, or is left to nobody.                   *)
Take(s) ==
    /\ Advance(s)
    /\ taken' = taken \cup {[schedule |-> s, cursor |-> next[s]]}
    /\ UNCHANGED fired

Skip(s) ==
    /\ Advance(s)
    /\ UNCHANGED <<taken, fired>>

Fire(d) ==
    /\ d \in taken \ fired
    /\ taken' = taken \ {d}
    /\ fired' = fired \cup {d}
    /\ UNCHANGED next

Miss(d) ==
    /\ d \in taken
    /\ taken' = taken \ {d}
    /\ UNCHANGED <<next, fired>>

Next ==
    \/ \E s \in Schedules : Take(s) \/ Skip(s)
    \/ \E d \in taken : Fire(d) \/ Miss(d)

Spec == Init /\ [][Next]_vars
=============================================================================
