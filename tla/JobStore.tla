------------------------------ MODULE JobStore ------------------------------
(***************************************************************************)
(* The jobs and dead_letter_queue tables, and the SQL statements of        *)
(* internal/store that write them.  Every statement, and every             *)
(* transaction, is one atomic step: Postgres row locks order the writers   *)
(* of a row and a transaction that does not commit leaves nothing behind.  *)
(*                                                                         *)
(* A nullable column that the properties only ask to be NULL or not is     *)
(* "null" or "set".  job_type, payload and the timestamps' values are      *)
(* left out: no statement branches on them.                                *)
(***************************************************************************)
EXTENDS Integers, Domain

CONSTANT Budgets  \* the max_retries values callers send; 0 and negatives pass

ASSUME BudgetsAssumption == Budgets \subseteq Int

VARIABLES
    jobs,        \* the rows, as a function on the ids that have one
    dlq          \* the dead_letter_queue rows

Terminal == {"completed", "failed", "cancelled"}

Status == {"pending", "processing"} \cup Terminal

Column == {"null", "set"}

Row == [tenant_id: Tenants, queue_name: QueueNames, status: Status,
        retry_count: Nat, max_retries: Budgets, result: Column,
        error_message: Column, started_at: Column, completed_at: Column]

DeadLetterRow == [job_id: Ids, tenant_id: Tenants, attempts: Nat]

StoreTypeOK ==
    /\ DOMAIN jobs \subseteq Ids
    /\ jobs \in [DOMAIN jobs -> Row]
    /\ dlq \subseteq DeadLetterRow

StoreInit ==
    /\ jobs = [id \in {} |-> {}]
    /\ dlq = {}

storeVars == <<jobs, dlq>>

-----------------------------------------------------------------------------
HasStatus(id, st) == id \in DOMAIN jobs /\ jobs[id].status = st

(* The row Submit inserts once applyDefaults has filled it in.             *)
NewRow(tenant, queue, budget) ==
    [tenant_id |-> tenant, queue_name |-> queue, status |-> "pending",
     retry_count |-> 0, max_retries |-> budget, result |-> "null",
     error_message |-> "null", started_at |-> "null", completed_at |-> "null"]

CreateJob(id, row) ==
    /\ id \notin DOMAIN jobs
    /\ jobs' = [j \in DOMAIN jobs \cup {id} |-> IF j = id THEN row ELSE jobs[j]]
    /\ UNCHANGED dlq

(* Mutant of ClaimJob: the status is not in the WHERE.                     *)
ClaimJob_AnyStatus(id) ==
    /\ id \in DOMAIN jobs
    /\ jobs' = [jobs EXCEPT ![id].status = "processing",
                            ![id].started_at = "set"]
    /\ UNCHANGED dlq

(* UPDATE ... WHERE id = $1 AND status = 'pending' RETURNING ...           *)
ClaimJob(id) ==
    /\ HasStatus(id, "pending")
    /\ jobs' = [jobs EXCEPT ![id].status = "processing",
                            ![id].started_at = "set"]
    /\ UNCHANGED dlq

(* Mutant of MarkCompleted: the last failed attempt's error stays.         *)
MarkCompleted_KeepsError(id) ==
    /\ jobs' = [jobs EXCEPT ![id].status = "completed",
                            ![id].result = "set",
                            ![id].completed_at = "set"]
    /\ UNCHANGED dlq

(* The next three are guarded by the id alone, whatever the row's status.  *)
MarkCompleted(id) ==
    /\ jobs' = [jobs EXCEPT ![id].status = "completed",
                            ![id].result = "set",
                            ![id].error_message = "null",
                            ![id].completed_at = "set"]
    /\ UNCHANGED dlq

MarkForRetry(id, attempts) ==
    /\ jobs' = [jobs EXCEPT ![id].status = "pending",
                            ![id].retry_count = attempts,
                            ![id].error_message = "set"]
    /\ UNCHANGED dlq

(* INSERT ... ON CONFLICT (job_id) DO UPDATE: a row that is already there  *)
(* keeps its tenant and takes the new attempts.                            *)
DeadLetter(id, attempts) ==
    /\ jobs' = [jobs EXCEPT ![id].status = "failed",
                            ![id].retry_count = attempts,
                            ![id].error_message = "set",
                            ![id].completed_at = "set"]
    /\ dlq' = IF \E d \in dlq : d.job_id = id
              THEN {IF d.job_id = id THEN [d EXCEPT !.attempts = attempts] ELSE d
                      : d \in dlq}
              ELSE dlq \cup {[job_id |-> id, tenant_id |-> jobs[id].tenant_id,
                              attempts |-> attempts]}

Reset(id) ==
    jobs' = [jobs EXCEPT ![id].status = "pending",
                         ![id].retry_count = 0,
                         ![id].error_message = "null",
                         ![id].result = "null",
                         ![id].started_at = "null",
                         ![id].completed_at = "null"]

(* Mutant of RetryJob: the dead-letter row is forgotten.                   *)
RetryJob_KeepsDeadLetter(tenant, id) ==
    /\ HasStatus(id, "failed")
    /\ jobs[id].tenant_id = tenant
    /\ Reset(id)
    /\ UNCHANGED dlq

(* SELECT ... FOR UPDATE, reset, DELETE of the dead-letter row, COMMIT.    *)
RetryJob(tenant, id) ==
    /\ HasStatus(id, "failed")
    /\ jobs[id].tenant_id = tenant
    /\ Reset(id)
    /\ dlq' = {d \in dlq : d.job_id # id}

(* Mutants of CancelJob: tenant_id is not in the WHERE; a job that a       *)
(* worker is running can be cancelled.                                     *)
CancelJob_AnyTenant(tenant, id) ==
    /\ HasStatus(id, "pending")
    /\ jobs' = [jobs EXCEPT ![id].status = "cancelled",
                            ![id].completed_at = "set"]
    /\ UNCHANGED dlq

CancelJob_Processing(tenant, id) ==
    /\ HasStatus(id, "pending") \/ HasStatus(id, "processing")
    /\ jobs[id].tenant_id = tenant
    /\ jobs' = [jobs EXCEPT ![id].status = "cancelled",
                            ![id].completed_at = "set"]
    /\ UNCHANGED dlq

CancelJob(tenant, id) ==
    /\ HasStatus(id, "pending")
    /\ jobs[id].tenant_id = tenant
    /\ jobs' = [jobs EXCEPT ![id].status = "cancelled",
                            ![id].completed_at = "set"]
    /\ UNCHANGED dlq
=============================================================================
