------------------------------- MODULE JobApi -------------------------------
(***************************************************************************)
(* The job endpoints as a caller meets them: Accounts resolves the API key *)
(* of a request to a tenant, the handler acts on Dispatch for that tenant, *)
(* and the caller gets an answer.  Here a refused request has steps of its *)
(* own, since what it read may have changed before it is answered.         *)
(*                                                                         *)
(* A request occupies slot r of both components: cx[r] is its context,     *)
(* rq[r] the part of its handler that writes.  The tables of Accounts are  *)
(* those of tenants that have signed up, created keys and used them.       *)
(***************************************************************************)
EXTENDS Dispatch, Accounts

CONSTANTS
    Owner,    \* the user who created each key and holds each token
    Account   \* the tenant and email of each user

VARIABLES
    ask,      \* the operation and job id each request names, and its key
    seen,     \* history: the statuses its job had since a request arrived
    reply     \* history: the answer that the last step gave, if it gave one

ASSUME JobApiAssumption ==
    /\ Account \in [Users -> UserRow]
    /\ Owner \in [Keys \cup Tokens -> Users]

apiVars == <<vars, accountVars, ask, seen, reply>>

Operations == {"enqueue", "get", "retry", "cancel"}

(* exists: CancelJob matched no row and asks whether the job exists.       *)
Asked == [op: Operations \cup {"none", "exists"}, id: Ids \cup {NoId},
          key: Keys \cup {None}]

NotAsked == [op |-> "none", id |-> NoId, key |-> None]

Reply == [op: Operations, id: Ids \cup {NoId}, key: Keys,
          code: {"ok", "not found", "conflict"}, seen: SUBSET (Status \cup {"missing"})]

NoReply == [op |-> "none"]

(* Requests in progress and answers have their types, and a request        *)
(* carries the tenant of the user who created its key into the handler     *)
(* (RequireAPIKey, tenantID).                                              *)
ApiOK ==
    /\ ask \in [Requests -> Asked]
    /\ seen \in [Requests -> SUBSET (Status \cup {"missing"})]
    /\ reply \in Reply \cup {NoReply}
    /\ \A r \in Requests :
          /\ rq[r].pc # "idle" => cx[r].pc = "program"
          /\ cx[r].pc \in {"touch", "program"} <=> ask[r].op # "none"
          /\ ask[r].op # "none" => cx[r].tenant = Account[Owner[ask[r].key]].tenant_id

ApiStart ==
    /\ Init
    /\ users = Account
    /\ tenants = {DefaultTenant} \cup {Account[u].tenant_id : u \in Users}
    /\ sessions = [t \in Tokens |-> [user_id |-> Owner[t], left |-> SessionTTL]]
    /\ api_keys = [k \in Keys |-> [tenant_id |-> Account[Owner[k]].tenant_id, used |-> TRUE]]
    /\ cx = [r \in Requests |-> NoContext]
    /\ spent = Tokens \cup Keys
    /\ ended = {}
    /\ ask = [r \in Requests |-> NotAsked]
    /\ seen = [r \in Requests |-> {}]
    /\ reply = NoReply

-----------------------------------------------------------------------------
(* What the job a request names looks like to the tenant who sent it.      *)
View(r) ==
    IF /\ ask[r].id \in DOMAIN jobs
       /\ ask[r].key \in Keys
       /\ jobs[ask[r].id].tenant_id = Account[Owner[ask[r].key]].tenant_id
    THEN jobs[ask[r].id].status ELSE "missing"

Watch == seen' = [r \in Requests |->
                    IF ask'[r].op = "none" THEN {} ELSE seen[r] \cup {View(r)'}]

Silent == reply' = NoReply

(* The request ends with an answer, or goes on.                            *)
Answer(r, op, code) ==
    /\ reply' = [op |-> op, id |-> ask[r].id, key |-> ask[r].key, code |-> code,
                 seen |-> seen[r] \cup {View(r)}]
    /\ cx' = [cx EXCEPT ![r] = NoContext]
    /\ ask' = [ask EXCEPT ![r] = NotAsked]
    /\ UNCHANGED <<tenants, users, sessions, api_keys, spent, ended>>

GoesOn == Silent /\ UNCHANGED <<accountVars, ask>>

Handling(r, op) == cx[r].pc = "program" /\ ask[r].op = op /\ rq[r].pc = "idle"

-----------------------------------------------------------------------------
(* RequireAPIKey, then the router's choice of handler.  A caller names an  *)
(* id it has seen, or one that belongs to no job.                          *)
arrive(r, key, op, id) ==
    /\ RequireAPIKey(r, key)
    /\ id \in DOMAIN jobs \cup {NoId}
    /\ ask' = [ask EXCEPT ![r] = [op |-> op, id |-> id, key |-> key]]
    /\ Silent
    /\ UNCHANGED vars

stamp(r) == touch(r) /\ Silent /\ UNCHANGED <<vars, ask>>

enqueueJob(r, id, queue, budget) ==
    /\ Handling(r, "enqueue")
    /\ Submit(r, id, tenantID(r), queue, budget)
    /\ GoesOn
    /\ UNCHANGED wk

(* Mutant of jobExists: tenant_id is not in the WHERE.                     *)
jobExists_AnyTenant(tenant, id) == id \in DOMAIN jobs

(* WHERE id = $1 AND tenant_id = $2, here and in GetJob and RetryJob.      *)
jobExists(tenant, id) == id \in DOMAIN jobs /\ jobs[id].tenant_id = tenant

(* One transaction decides, so the refusals are one step each.             *)
retryOrRefuse(r) ==
    /\ Handling(r, "retry")
    /\ \/ retryJob(r, ask[r].id, tenantID(r)) /\ GoesOn
       \/ /\ UNCHANGED <<storeVars, queueVars, rq, faultVars>>
          /\ \/ /\ ~jobExists(tenantID(r), ask[r].id)
                /\ Answer(r, "retry", "not found")
             \/ /\ jobExists(tenantID(r), ask[r].id)
                /\ ~HasStatus(ask[r].id, "failed")
                /\ Answer(r, "retry", "conflict")
    /\ UNCHANGED wk

cancelOrMiss(r) ==
    /\ Handling(r, "cancel")
    /\ \/ cancelJob(r, ask[r].id, tenantID(r)) /\ GoesOn
       \/ /\ ~(jobExists(tenantID(r), ask[r].id) /\ HasStatus(ask[r].id, "pending"))
          /\ ask' = [ask EXCEPT ![r].op = "exists"]
          /\ Silent
          /\ UNCHANGED <<storeVars, queueVars, rq, faultVars, accountVars>>
    /\ UNCHANGED wk

(* CancelJob's second query, on whatever the table holds by now.           *)
refuseCancel(r) ==
    /\ Handling(r, "exists")
    /\ Answer(r, "cancel", IF jobExists(tenantID(r), ask[r].id) THEN "conflict" ELSE "not found")
    /\ UNCHANGED vars

getJob(r) ==
    /\ Handling(r, "get")
    /\ Answer(r, "get", IF jobExists(tenantID(r), ask[r].id) THEN "ok" ELSE "not found")
    /\ UNCHANGED vars

(* The Redis calls that end a request which was granted.  cancelJob        *)
(* ignores the error of a Remove that fails and answers all the same.      *)
finish(r) ==
    /\ \/ Push(r) /\ Answer(r, ask[r].op, "ok")
       \/ RemoveLrem(r) /\ GoesOn
       \/ RemoveZrem(r) /\ Answer(r, ask[r].op, "ok")
       \/ /\ rq[r].pc \in {"lrem", "zrem"}
          /\ RequestAbort(r)
          /\ Answer(r, ask[r].op, "ok")
    /\ UNCHANGED wk

(* A call fails and is answered with a 500, which says nothing of the job, *)
(* or the client goes away or the api stops, and there is no answer.       *)
hangUp(r) ==
    /\ abort(r)
    /\ IF rq[r].pc = "idle" THEN UNCHANGED <<storeVars, queueVars, rq, faultVars>>
       ELSE RequestAbort(r)
    /\ ask' = [ask EXCEPT ![r] = NotAsked]
    /\ Silent
    /\ UNCHANGED wk

(* The owner's browser deletes a key meanwhile.                            *)
manageKeys(r) ==
    /\ \/ \E token \in Tokens : RequireSession(r, token)
       \/ \E key \in Keys : deleteKey(r, key)
    /\ Silent
    /\ UNCHANGED <<vars, ask>>

pipeline ==
    /\ \/ \E w \in Workers : WorkerNext(w)
       \/ \E i \in DOMAIN Watched : Poll(i)
       \/ Tick
    /\ GoesOn

ApiNext ==
    /\ \/ \E r \in Requests :
             \/ \E key \in Keys, op \in Operations, id \in Ids \cup {NoId} :
                   arrive(r, key, op, id)
             \/ \E id \in Ids, queue \in QueueNames, budget \in Budgets :
                   enqueueJob(r, id, queue, budget)
             \/ stamp(r) \/ retryOrRefuse(r) \/ cancelOrMiss(r) \/ refuseCancel(r)
             \/ getJob(r) \/ finish(r) \/ hangUp(r) \/ manageKeys(r)
       \/ pipeline
    /\ Watch

ApiSpec == ApiStart /\ [][ApiNext]_apiVars

-----------------------------------------------------------------------------
(* Whoever creates, retries or cancels a job holds a key that the job's    *)
(* own tenant created: no request moves a row of another tenant, not even  *)
(* one whose key is deleted while it is under way (RequireAPIKey, tenantID *)
(* and the WHERE clauses of RetryJob and CancelJob together).              *)
OnlyOwnersMoveJobs ==
    [][\A id \in Ids :
          \/ id \notin DOMAIN jobs /\ id \in DOMAIN jobs'
          \/ HasStatus(id, "failed") /\ HasStatus(id, "pending")'
          \/ HasStatus(id, "pending") /\ HasStatus(id, "cancelled")'
          => \E r \in Requests :
                /\ cx[r].pc = "program"
                /\ jobs'[id].tenant_id = Account[Owner[cx[r].credential]].tenant_id]_apiVars

(* Types are kept, a request that writes acts for the tenant of its key,   *)
(* and every answer was true at some moment between the request's arrival  *)
(* and the answer, as its sender may see the job: "not found" only if the  *)
(* job was not there for them, which is all that another tenant ever       *)
(* hears, "conflict" only if it was there in a status that forbids the     *)
(* operation, "ok" only if it was there in one that allows it (the second  *)
(* query of CancelJob; RetryJob, GetJob).                                  *)
AnswersWereTrue ==
    /\ ApiOK
    /\ reply # NoReply /\ reply.op # "enqueue" =>
          CASE reply.code = "not found" -> "missing" \in reply.seen
            [] reply.code = "conflict"  ->
                  reply.seen \ {"missing", IF reply.op = "retry" THEN "failed" ELSE "pending"} # {}
            [] reply.code = "ok"        ->
                  CASE reply.op = "retry"  -> "failed" \in reply.seen
                    [] reply.op = "cancel" -> "pending" \in reply.seen
                    [] OTHER               -> reply.seen # {"missing"}
=============================================================================
