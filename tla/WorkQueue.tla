----------------------------- MODULE WorkQueue ------------------------------
(***************************************************************************)
(* internal/queue: per queue, a Redis list of job ids ready to run and a   *)
(* sorted set of ids waiting for their retry.  A command, and the promote  *)
(* script, is one atomic step of the Redis server.                         *)
(*                                                                         *)
(* work[q] is written oldest first, so LPUSH appends and BRPOP takes the   *)
(* head.  delayed[q] maps each member to the seconds left until its score; *)
(* an id whose count is 0 is due.  The scores of overdue ids are not told  *)
(* apart, so a promotion may move them in any order.                       *)
(***************************************************************************)
EXTENDS Integers, Sequences, FiniteSets, Domain

CONSTANT PromoteBatch  \* promoteBatch: ids one run of the script may move

ASSUME PromoteBatchAssumption == PromoteBatch \in Nat \ {0}

VARIABLES
    work,
    delayed

queueVars == <<work, delayed>>

QueueTypeOK ==
    /\ work \in [QueueNames -> Seq(Ids)]
    /\ DOMAIN delayed = QueueNames
    /\ \A q \in QueueNames :
          /\ DOMAIN delayed[q] \subseteq Ids
          /\ delayed[q] \in [DOMAIN delayed[q] -> Nat]

QueueInit ==
    /\ work = [q \in QueueNames |-> <<>>]
    /\ delayed = [q \in QueueNames |-> [id \in {} |-> 0]]

-----------------------------------------------------------------------------
Enqueue(q, id) ==
    /\ work' = [work EXCEPT ![q] = Append(@, id)]
    /\ UNCHANGED delayed

(* The BRPOP of Dequeue when q is the list that answers.                   *)
Pop(q) ==
    /\ work[q] # <<>>
    /\ work' = [work EXCEPT ![q] = Tail(@)]
    /\ UNCHANGED delayed

(* ZADD: a member that is already there takes the new score.               *)
EnqueueDelayed(q, id, wait) ==
    /\ delayed' = [delayed EXCEPT ![q] =
                     [j \in DOMAIN @ \cup {id} |-> IF j = id THEN wait ELSE @[j]]]
    /\ UNCHANGED work

(* Mutant of Due: the scores are not compared with the time.               *)
Due_All(q) == DOMAIN delayed[q]

Due(q) == {id \in DOMAIN delayed[q] : delayed[q][id] = 0}

(* f lists n distinct due ids: all of them, or as many as LIMIT allows.    *)
IsPromotion(q, n, f) ==
    /\ \A i, j \in 1..n : i # j => f[i] # f[j]
    /\ n = PromoteBatch \/ \A id \in Due(q) : \E i \in 1..n : f[i] = id

(* Mutants of PromoteDue: the promoted ids stay in the set; every due id   *)
(* leaves it, though LIMIT kept some from the list.                        *)
PromoteDue_NoZrem(q) ==
    \E n \in {k \in 1..PromoteBatch : k <= Cardinality(Due(q))} : \E f \in [1..n -> Due(q)] :
        /\ IsPromotion(q, n, f)
        /\ work' = [work EXCEPT ![q] = @ \o f]
        /\ UNCHANGED delayed

PromoteDue_DropsRest(q) ==
    \E n \in {k \in 1..PromoteBatch : k <= Cardinality(Due(q))} : \E f \in [1..n -> Due(q)] :
        /\ IsPromotion(q, n, f)
        /\ work' = [work EXCEPT ![q] = @ \o f]
        /\ delayed' = [delayed EXCEPT ![q] = [id \in DOMAIN @ \ Due(q) |-> @[id]]]

PromoteDue(q) ==
    \E n \in {k \in 1..PromoteBatch : k <= Cardinality(Due(q))} : \E f \in [1..n -> Due(q)] :
        /\ IsPromotion(q, n, f)
        /\ work' = [work EXCEPT ![q] = @ \o f]
        /\ delayed' = [delayed EXCEPT ![q] =
                         [id \in {j \in DOMAIN @ : \A i \in 1..n : f[i] # j} |-> @[id]]]

Kept(s, id) == {i \in DOMAIN s : s[i] # id}

(* LREM key 0 id: the other elements stay, in their order.                 *)
RemoveFromList(q, id) ==
    /\ \E n \in 0..Len(work[q]) : \E f \in [1..n -> Kept(work[q], id)] :
          /\ \A i, j \in 1..n : i < j => f[i] < f[j]
          /\ \A k \in Kept(work[q], id) : \E i \in 1..n : f[i] = k
          /\ work' = [work EXCEPT ![q] = [i \in 1..n |-> work[q][f[i]]]]
    /\ UNCHANGED delayed

(* ZREM key id.                                                            *)
RemoveFromDelayed(q, id) ==
    /\ delayed' = [delayed EXCEPT ![q] = [j \in DOMAIN @ \ {id} |-> @[j]]]
    /\ UNCHANGED work

(* One second passes for every waiting id.                                 *)
Elapse(seconds) == IF seconds = 0 THEN 0 ELSE seconds - 1
=============================================================================
