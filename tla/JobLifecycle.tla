---------------------------- MODULE JobLifecycle ----------------------------
(***************************************************************************)
(* What the system promises about a single job, with no queue, no worker   *)
(* and no failure in sight: a row of the jobs table as its users see it    *)
(* change.                                                                 *)
(***************************************************************************)
EXTENDS Integers

CONSTANTS Ids, Budgets

VARIABLES
    status,     \* "none" until the job is submitted
    failed      \* failed attempts since it was submitted or reset

VARIABLE budget \* its max_retries

vars == <<status, failed, budget>>

Init ==
    /\ status = [id \in Ids |-> "none"]
    /\ failed = [id \in Ids |-> 0]
    /\ budget = [id \in Ids |-> 0]

Move(id, from, to) ==
    /\ status[id] = from
    /\ status' = [status EXCEPT ![id] = to]

Submit(id, b) ==
    /\ Move(id, "none", "pending")
    /\ budget' = [budget EXCEPT ![id] = b]
    /\ UNCHANGED failed

Start(id) == Move(id, "pending", "processing") /\ UNCHANGED <<failed, budget>>

Cancel(id) == Move(id, "pending", "cancelled") /\ UNCHANGED <<failed, budget>>

Succeed(id) == Move(id, "processing", "completed") /\ UNCHANGED <<failed, budget>>

(* A failed attempt: another one while the budget lasts, else the end.     *)
Fail(id) ==
    /\ failed' = [failed EXCEPT ![id] = @ + 1]
    /\ Move(id, "processing",
            IF failed[id] + 1 < budget[id] THEN "pending" ELSE "failed")
    /\ UNCHANGED budget

(* The owner sends a failed job round again.                               *)
Reset(id) ==
    /\ Move(id, "failed", "pending")
    /\ failed' = [failed EXCEPT ![id] = 0]
    /\ UNCHANGED budget

Step(id) ==
    \/ \E b \in Budgets : Submit(id, b)
    \/ Start(id) \/ Cancel(id) \/ Succeed(id) \/ Fail(id) \/ Reset(id)

Next == \E id \in Ids : Step(id)

Spec == Init /\ [][Next]_vars
=============================================================================
