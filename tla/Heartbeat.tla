----------------------------- MODULE Heartbeat ------------------------------
(***************************************************************************)
(* Worker liveness: the heartbeat goroutine of each worker process, its    *)
(* key in Redis with a time to live, and CountActiveWorkers, which counts  *)
(* the keys with a SCAN that other processes' writes interleave with.      *)
(*                                                                         *)
(* A process has a fresh id (uuid.NewString), so one that stopped never    *)
(* comes back.  Time is counted in steps of which Interval make up         *)
(* HeartbeatInterval and TTL make up WorkerTTL.                            *)
(***************************************************************************)
EXTENDS Integers, FiniteSets

CONSTANTS
    Processes,   \* worker processes, by workerID
    Interval,
    TTL,
    MaxLate      \* how late the goroutine may act on its ticker

ASSUME HeartbeatAssumption ==
    /\ IsFiniteSet(Processes)
    /\ Interval \in Nat \ {0}
    /\ TTL \in Nat \ {0}
    /\ MaxLate \in Nat

VARIABLES
    hb,      \* each process: where it stands and when its ticker fires next
    ttl,     \* steps left to live of each process's key, 0 when there is none
    count    \* the call of CountActiveWorkers that is under way

heartbeatVars == <<hb, ttl, count>>

(* missed counts failed beats since the last good one, up to 2; a process  *)
(* that no good beat announced yet has missed 2.  age is the time since it *)
(* stopped, up to TTL; clean tells that it removed its key.                *)
ProcessState == [pc: {"new", "up", "stopped"}, wait: -MaxLate..Interval,
                 missed: 0..2, age: 0..TTL, clean: BOOLEAN]

(* todo: the part of the keyspace the cursor has not passed; seen: the     *)
(* set the code collects; always, ever (history): the processes that had   *)
(* a key all through the call, and at any time in it.                      *)
CountState == [pc: {"idle", "scan", "done"}, todo: SUBSET Processes,
               seen: SUBSET Processes, result: Nat,
               always: SUBSET Processes, ever: SUBSET Processes]

Present == {p \in Processes : ttl[p] > 0}

NotCounting == [pc |-> "idle", todo |-> {}, seen |-> {}, result |-> 0,
                always |-> {}, ever |-> {}]

(* Processes, keys and the counting call have their types.                 *)
HeartbeatTypeOK ==
    /\ hb \in [Processes -> ProcessState]
    /\ ttl \in [Processes -> 0..TTL]
    /\ count \in CountState

HeartbeatInit ==
    /\ hb = [p \in Processes |-> [pc |-> "new", wait |-> 0, missed |-> 2,
                                  age |-> 0, clean |-> FALSE]]
    /\ ttl = [p \in Processes |-> 0]
    /\ count = NotCounting

(* The history of the call under way after a step that changed the keys.   *)
Observe ==
    count' = IF count.pc = "scan"
             THEN [count EXCEPT !.always = @ \cap Present', !.ever = @ \cup Present']
             ELSE count

-----------------------------------------------------------------------------
(* Mutant of Heartbeat: SET with KEEPTTL does not refresh the time to live. *)
Heartbeat_KeepsTTL(p) ==
    ttl' = [ttl EXCEPT ![p] = IF @ = 0 THEN TTL ELSE @]

(* SET key now EX WorkerTTL.                                               *)
Heartbeat(p) == ttl' = [ttl EXCEPT ![p] = TTL]

(* The goroutine starts: a first beat at once, then the ticker.            *)
Start(p) ==
    /\ hb[p].pc = "new"
    /\ \/ /\ Heartbeat(p)
          /\ hb' = [hb EXCEPT ![p].pc = "up", ![p].wait = Interval, ![p].missed = 0]
       \/ /\ hb' = [hb EXCEPT ![p].pc = "up", ![p].wait = Interval]
          /\ UNCHANGED ttl
    /\ Observe

(* The ticker fired; it keeps its own rhythm however late the beat is.     *)
Beat(p) ==
    /\ hb[p].pc = "up"
    /\ hb[p].wait <= 0
    /\ Heartbeat(p)
    /\ hb' = [hb EXCEPT ![p].wait = @ + Interval, ![p].missed = 0]
    /\ Observe

(* The call fails and is only logged.                                      *)
MissBeat(p) ==
    /\ hb[p].pc = "up"
    /\ hb[p].wait <= 0
    /\ hb' = [hb EXCEPT ![p].wait = @ + Interval,
                        ![p].missed = IF @ = 2 THEN 2 ELSE @ + 1]
    /\ UNCHANGED <<ttl, count>>

(* DEL key.                                                                *)
RemoveWorker(p) == ttl' = [ttl EXCEPT ![p] = 0]

(* The context is cancelled: RemoveWorker deletes the key, or fails, and   *)
(* the goroutine returns.                                                  *)
Shutdown(p) ==
    /\ hb[p].pc = "up"
    /\ \/ /\ RemoveWorker(p)
          /\ hb' = [hb EXCEPT ![p].pc = "stopped", ![p].clean = TRUE]
       \/ /\ hb' = [hb EXCEPT ![p].pc = "stopped"]
          /\ UNCHANGED ttl
    /\ Observe

Crash(p) ==
    /\ hb[p].pc = "up"
    /\ hb' = [hb EXCEPT ![p].pc = "stopped"]
    /\ UNCHANGED <<ttl, count>>

(* Time passes, no further than the beats that are due allow; Redis drops  *)
(* the keys whose time is over.                                            *)
Tick ==
    /\ \A p \in Processes : hb[p].pc = "up" => hb[p].wait > -MaxLate
    /\ hb' = [p \in Processes |->
                CASE hb[p].pc = "new" -> hb[p]
                  [] hb[p].pc = "up" -> [hb[p] EXCEPT !.wait = @ - 1]
                  [] OTHER -> [hb[p] EXCEPT !.age = IF @ = TTL THEN TTL ELSE @ + 1]]
    /\ ttl' = [p \in Processes |-> IF ttl[p] = 0 THEN 0 ELSE ttl[p] - 1]
    /\ Observe

-----------------------------------------------------------------------------
CountBegin ==
    /\ count.pc # "scan"
    /\ count' = [pc |-> "scan", todo |-> Processes, seen |-> {}, result |-> 0,
                 always |-> Present, ever |-> Present]
    /\ UNCHANGED <<hb, ttl>>

(* Mutant of Tally: the sizes of the batches are added up.                 *)
Tally_SumsBatches(batch) ==
    [count EXCEPT !.seen = @ \cup batch, !.result = @ + Cardinality(batch)]

(* A batch goes into the set, and the set is what is counted.              *)
Tally(batch) ==
    [count EXCEPT !.seen = @ \cup batch, !.result = Cardinality(count.seen \cup batch)]

(* One SCAN: it passes some more of the keyspace, and may pass again what  *)
(* it has passed before; the call returns when the cursor is through.      *)
CountScan ==
    /\ count.pc = "scan"
    /\ \E part \in SUBSET Processes :
          /\ part \cap count.todo # {}
          /\ count' = [Tally(part \cap Present) EXCEPT
                         !.todo = @ \ part,
                         !.pc = IF count.todo \subseteq part THEN "done" ELSE "scan"]
    /\ UNCHANGED <<hb, ttl>>

HeartbeatNext ==
    \/ \E p \in Processes : Start(p) \/ Beat(p) \/ MissBeat(p) \/ Shutdown(p) \/ Crash(p)
    \/ Tick
    \/ CountBegin
    \/ CountScan

HeartbeatSpec == HeartbeatInit /\ [][HeartbeatNext]_heartbeatVars

-----------------------------------------------------------------------------
(* Types are kept.  A running worker that missed at most one beat in a row *)
(* has its key: "one missed beat doesn't expire a healthy worker" (the     *)
(* choice of WorkerTTL against HeartbeatInterval), even when its beats are *)
(* late.  One that deregistered has none, at once and for good, and one    *)
(* that crashed or failed to deregister has none WorkerTTL after it        *)
(* stopped (RemoveWorker as the goroutine's last command, key expiry).     *)
KeyFollowsWorker ==
    /\ HeartbeatTypeOK
    /\ \A p \in Processes :
          /\ hb[p].pc = "up" /\ hb[p].missed <= 1 => ttl[p] > 0
          /\ hb[p].clean \/ hb[p].age = TTL => ttl[p] = 0

(* The number CountActiveWorkers returns is at least that of the workers   *)
(* present all through the call and at most that of those present at some  *)
(* time in it, though SCAN may yield a key twice and keys come and go      *)
(* between its batches.                                                    *)
CountIsBracketed ==
    count.pc = "done" =>
        /\ Cardinality(count.always) <= count.result
        /\ count.result <= Cardinality(count.ever)
=============================================================================
