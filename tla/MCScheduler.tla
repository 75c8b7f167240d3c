---------------------------- MODULE MCScheduler -----------------------------
EXTENDS Scheduler

CONSTANT s1

OnlyNever == [s \in Schedules |-> "never"]
=============================================================================
