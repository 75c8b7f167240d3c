--------------------------- MODULE OperationsProofs -------------------------
(***************************************************************************)
(* Proofs about running the system: the end of a process, migrations of    *)
(* the database and the liveness of workers.                               *)
(***************************************************************************)
EXTENDS Processes, Migrate, Heartbeat, FiniteSetTheorems, WellFoundedInduction, TLAPS

(* The solvers' time limit, in seconds, where a leaf names no prover.      *)
USE SMTT(30)

-----------------------------------------------------------------------------
(***************************************************************************)
(* The end of an api and of a worker process, for any number of clients.   *)
(***************************************************************************)
Full == {"postgres", "redis"}

(* An api process: which of the pools are open follows from where          *)
(* runServer stands, and the drain is over before runServer returns.       *)
ApiInv ==
    /\ A!ApiProcessTypeOK
    /\ consumer = "unborn" /\ poller = "unborn" /\ heart = "unborn" /\ metrics = "unborn"
    /\ main \in {"ping", "listen", "serve", "await"} => pools = Full
    /\ main \in {"connect", "ping", "listen", "exited"} => inflight = {}
    /\ listener = "open" => main = "serve"
    /\ shut # "no" => listener = "closed"
    /\ shut = "drained" => inflight = {}
    /\ watcher = "sent" \/ main = "return" => shut \in {"drained", "expired"}
    /\ cut # {} => main = "exited"
    /\ status = "ok" => cut = {}

(* A worker process: the pools are open until all goroutines returned, and *)
(* after that none is in a call.                                           *)
WorkerInv ==
    /\ W!WorkerProcessTypeOK
    /\ watcher = "unborn" /\ signalled = FALSE /\ status = "running"
    /\ main \in {"ping", "wait"} => pools = Full
    /\ main = "return" => {consumer, poller, heart, metrics} = {"returned"}
    /\ consumer \in {"pop", "job"} \/ poller = "promote" \/ heart \in {"beat", "remove"}
       => pools = Full

ProcessInv == (command = "api" /\ ApiInv) \/ (command = "worker" /\ WorkerInv)

-----------------------------------------------------------------------------
LEMMA ProcessInitHasInv == ProcessInit => ProcessInv
  BY ZenonT(30) DEF ProcessInit, ProcessInv, ApiInv, WorkerInv, A!Init, W!Init, A!ServerInit, W!ServerInit,
     A!ApiProcessTypeOK, W!WorkerProcessTypeOK, A!ServerTypeOK, W!ServerTypeOK

(* Every step of an api process keeps its invariant.                       *)
LEMMA ApiStep ==
  ASSUME ApiInv, A!Next, UNCHANGED workerOnly
  PROVE  ApiInv'
  <1>. USE DEF ApiInv, Full, workerOnly, A!ApiProcessTypeOK, A!ServerTypeOK,
               A!serverVars, A!processVars
  <1>1. CASE A!connect
    BY ZenonT(30), <1>1 DEF A!connect, A!Exit, A!ServerDies
  <1>2. CASE A!ping
    BY <1>2 DEF A!ping, A!Exit, A!ServerDies
  <1>3. CASE A!listen
    BY <1>3 DEF A!listen, A!Exit, A!ServerDies
  <1>4. CASE A!closed
    BY <1>4 DEF A!closed
  <1>5. CASE A!await
    BY <1>5 DEF A!await
  <1>6. CASE A!closePools
    BY ZenonT(30), <1>6 DEF A!closePools, A!Exit, A!ServerDies
  <1>7. CASE A!notify
    BY <1>7 DEF A!notify
  <1>8. CASE A!shutdown
    BY <1>8 DEF A!shutdown, A!ShutdownBegin, A!ShutdownEnd
  <1>9. CASE A!signal
    BY <1>9 DEF A!signal, A!Exit, A!ServerDies
  <1>10. ASSUME NEW c \in Clients, A!accept(c) \/ A!answer(c), UNCHANGED A!processVars
         PROVE  ApiInv'
    BY <1>10 DEF A!accept, A!answer
  <1>. QED  BY <1>1, <1>2, <1>3, <1>4, <1>5, <1>6, <1>7, <1>8, <1>9, <1>10
            DEF A!Next, A!runServer

(* Every step of a worker process keeps its invariant.                     *)
LEMMA WorkerStep ==
  ASSUME WorkerInv, W!Next, UNCHANGED apiOnly
  PROVE  WorkerInv'
  <1>. USE DEF WorkerInv, Full, apiOnly, W!WorkerProcessTypeOK, W!ServerTypeOK,
               W!serverVars, W!loopVars
  <1>1. CASE W!connect
    BY ZenonT(30), <1>1 DEF W!connect, W!Exit, W!ServerDies
  <1>2. CASE W!ping
    BY <1>2 DEF W!ping, W!Exit, W!ServerDies
  <1>3. CASE W!wait
    BY <1>3 DEF W!wait
  <1>4. CASE W!closePools
    BY ZenonT(30), <1>4 DEF W!closePools, W!Exit, W!ServerDies
  <1>5. CASE W!notify
    BY <1>5 DEF W!notify
  <1>6. CASE W!signal
    <2>1. ASSUME cancelled' = TRUE, UNCHANGED <<W!serverVars, main, watching, pools, W!loopVars>>
          PROVE  WorkerInv'
      BY <2>1
    <2>2. ASSUME W!Exit, UNCHANGED <<cancelled, watching, pools, W!loopVars>>
          PROVE  WorkerInv'
      BY <2>2 DEF W!Exit, W!ServerDies
    <2>3. \/ cancelled' = TRUE /\ UNCHANGED <<W!serverVars, main, watching, pools, W!loopVars>>
          \/ W!Exit /\ UNCHANGED <<cancelled, watching, pools, W!loopVars>>
      BY <1>6, Zenon DEF W!signal
    <2>. QED  BY ZenonT(30), <2>1, <2>2, <2>3
  <1>7. CASE W!drain
    BY <1>7 DEF W!drain, W!ShutdownBegin, W!ShutdownEnd
  <1>8. CASE W!Loop(W!consume)
    BY <1>8 DEF W!Loop, W!Alive, W!consume
  <1>9. CASE W!Loop(W!poll)
    BY <1>9 DEF W!Loop, W!Alive, W!poll
  <1>10. CASE W!Loop(W!beat)
    BY <1>10 DEF W!Loop, W!Alive, W!beat
  <1>11. CASE W!Loop(W!deregister)
    BY <1>11 DEF W!Loop, W!Alive, W!deregister
  <1>12. CASE W!Alive(W!serveMetrics)
    BY <1>12 DEF W!Alive, W!serveMetrics
  <1>13. ASSUME NEW c \in Clients,
                W!Alive((W!accept(c) \/ W!answer(c)) /\ UNCHANGED W!loopVars)
         PROVE  WorkerInv'
    BY <1>13 DEF W!Alive, W!accept, W!answer
  <1>. QED  BY ZenonT(30), <1>1, <1>2, <1>3, <1>4, <1>5, <1>6, <1>7, <1>8, <1>9, <1>10, <1>11,
               <1>12, <1>13
            DEF W!Next, W!Main

LEMMA ProcessStepKeepsInv == ProcessInv /\ [ProcessNext]_processVars => ProcessInv'
  <1>. SUFFICES ASSUME ProcessInv, [ProcessNext]_processVars PROVE ProcessInv'
    OBVIOUS
  <1>1. CASE AsApi(A!Next)
    BY <1>1, ApiStep DEF AsApi, ProcessInv
  <1>2. CASE AsWorker(W!Next)
    BY <1>2, WorkerStep DEF AsWorker, ProcessInv
  <1>3. CASE UNCHANGED processVars
    BY <1>3 DEF processVars, apiOnly, workerOnly, ProcessInv, ApiInv, WorkerInv,
       A!ApiProcessTypeOK, W!WorkerProcessTypeOK, A!ServerTypeOK, W!ServerTypeOK
  <1>. QED  BY <1>1, <1>2, <1>3 DEF ProcessNext

LEMMA ProcessInvHolds == ProcessSpec => []ProcessInv
  BY ProcessInitHasInv, ProcessStepKeepsInv, PTL DEF ProcessSpec

(* Whoever uses the pools of a process finds them open, whenever the       *)
(* signal comes and however many requests are under way (runServer's       *)
(* receive from shutdownErr, wg.Wait before the deferred Closes).          *)
THEOREM PoolsStayOpen == ProcessSpec => []PoolsOutliveCalls
  <1>1. ProcessInv => PoolsOutliveCalls
    <2>1. ASSUME command = "api", ApiInv PROVE PoolsOutliveCalls
      BY <2>1 DEF ApiInv, PoolsOutliveCalls, ProcessTypeOK, A!ApiProcessTypeOK, Full
    <2>2. ASSUME command = "worker", WorkerInv PROVE PoolsOutliveCalls
      BY <2>2 DEF WorkerInv, PoolsOutliveCalls, ProcessTypeOK, Full
    <2>. QED  BY <2>1, <2>2 DEF ProcessInv
  <1>. QED  BY <1>1, ProcessInvHolds, PTL

(* An api process that exits with status zero has answered every request   *)
(* it accepted (runServer returns the error of Shutdown).                  *)
THEOREM CleanExitsCutNothing == ProcessSpec => []CleanExitCutNothing
  <1>1. ProcessInv => CleanExitCutNothing
    BY DEF ProcessInv, ApiInv, WorkerInv, CleanExitCutNothing
  <1>. QED  BY <1>1, ProcessInvHolds, PTL

-----------------------------------------------------------------------------
(***************************************************************************)
(* store.Migrate, for any number of commands and releases.                 *)
(*                                                                         *)
(* AppliedOnce alone is not inductive: a command about to commit could be  *)
(* committing a version that is there.  What excludes it is the primary    *)
(* key of schema_migrations, as NoClash says of the open transactions.     *)
(***************************************************************************)
(* A transaction that has inserted its version inserted a new one, and no  *)
(* other open transaction has inserted the same (INSERT INTO               *)
(* schema_migrations, with version as primary key).                        *)
NoClash ==
    \A c \in Commands : mg[c].pc = "commit" =>
        /\ current(c) \notin recorded
        /\ \A d \in Commands \ {c} : mg[d].pc = "commit" => current(d) # current(c)

MigrateIInv == AppliedOnce /\ InOrder /\ NoClash

(* A set of versions that is not empty has a first one.                    *)
LEMMA LeastVersion ==
  ASSUME NEW S \in SUBSET Nat, S # {}
  PROVE  \E v \in S : \A u \in S : v <= u
  <1>. DEFINE R == OpToRel(<, Nat)
  <1>1. PICK v \in S : \A u \in S : ~(<<u, v>> \in R)
    <2>1. IsWellFoundedOn(R, Nat)
      BY ZenonT(30), NatLessThanWellFounded
    <2>. HIDE DEF R
    <2>. QED  BY ZenonT(30), <2>1, WFMin
  <1>2. \A u \in S : u < v => <<u, v>> \in R
    BY DEF OpToRel
  <1>. HIDE DEF R
  <1>3. \A u \in S : ~(u < v)
    BY <1>1, <1>2, Zenon
  <1>4. \A u \in S : v <= u
    BY <1>3
  <1>. QED  BY <1>4

(* The version the loop is at is one of those that are left.               *)
LEMMA CurrentIsLeft ==
  ASSUME MigrateTypeOK, NEW c \in Commands, mg[c].left # {}
  PROVE  current(c) \in mg[c].left /\ current(c) \in Versions
  <1>1. mg[c].left \subseteq Versions
    BY DEF MigrateTypeOK, CommandState
  <1>2. Versions \subseteq Nat
    BY MigrateAssumption DEF Versions
  <1>. QED  BY ZenonT(30), <1>1, <1>2, LeastVersion DEF current

(* The first file of what a command has left stays its first while other   *)
(* commands move: current depends on the command's own state alone.        *)
LEMMA CurrentOfOthers ==
  ASSUME NEW c \in Commands, mg'[c].left = mg[c].left
  PROVE  current(c)' = current(c)
  BY DEF current

LEMMA MigrateInitHasInv == MigrateInit => MigrateIInv
  BY MigrateAssumption DEF MigrateInit, MigrateIInv, AppliedOnce, MigrateTypeOK, InOrder, NoClash,
     CommandState, Active

(* A step that moves one command without writing the table keeps the       *)
(* invariant, if the command is not one that comes to hold an inserted     *)
(* version by it and what it no longer has left is recorded.               *)
LEMMA MoveKeepsInv ==
  ASSUME MigrateIInv, NEW c \in Commands, NEW s \in CommandState,
         mg' = [mg EXCEPT ![c] = s], UNCHANGED <<recorded, ran>>,
         failures' \in 0..MaxFailures, starts' \in 0..MaxStarts,
         s.pc # "commit",
         s.pc \in {"sql", "record"} => s.left # {},
         s.pc # "failed" => Files[c] \ s.left \subseteq recorded,
         s.pc = "done" => s.left = {}
  PROVE  MigrateIInv'
  <1>. USE DEF MigrateIInv
  <1>1. /\ mg \in [Commands -> CommandState]
        /\ mg' \in [Commands -> CommandState]
        /\ mg'[c] = s
        /\ \A d \in Commands \ {c} : mg'[d] = mg[d]
    BY DEF AppliedOnce, MigrateTypeOK
  <1>2. AppliedOnce'
    BY <1>1 DEF AppliedOnce, MigrateTypeOK
  <1>3. InOrder'
    BY <1>1 DEF InOrder, Active
  <1>4. NoClash'
    <2>1. \A d \in Commands \ {c} : current(d)' = current(d)
      BY <1>1, CurrentOfOthers
    <2>. QED  BY <1>1, <2>1 DEF NoClash
  <1>. QED  BY <1>2, <1>3, <1>4

(* Record lets a command hold an inserted version only if the version is   *)
(* not recorded and nobody else holds it.                                  *)
LEMMA RecordKeepsInv ==
  ASSUME MigrateIInv, NEW c \in Commands, Record(c), current(c) \notin recorded
  PROVE  MigrateIInv'
  <1>. USE DEF MigrateIInv, Record
  <1>1. /\ mg' \in [Commands -> CommandState]
        /\ mg'[c].pc = "commit"
        /\ \A d \in Commands : mg'[d].left = mg[d].left
        /\ \A d \in Commands \ {c} : mg'[d] = mg[d]
    BY DEF AppliedOnce, MigrateTypeOK, CommandState
  <1>2. \A d \in Commands : current(d)' = current(d)
    BY <1>1, CurrentOfOthers
  <1>3. AppliedOnce'
    BY <1>1 DEF AppliedOnce, MigrateTypeOK
  <1>4. InOrder'
    BY <1>1 DEF InOrder, Active
  <1>5. NoClash'
    BY <1>1, <1>2 DEF NoClash
  <1>. QED  BY <1>3, <1>4, <1>5

(* Commit writes a version that is new, so its SQL is committed for the    *)
(* first time, and nobody else holds it.                                   *)
LEMMA CommitKeepsInv ==
  ASSUME MigrateIInv, NEW c \in Commands, Commit(c)
  PROVE  MigrateIInv'
  <1>. USE DEF MigrateIInv
  <1>. DEFINE v == current(c)
  <1>1. v \in Versions /\ v \in mg[c].left
    BY CurrentIsLeft DEF Commit, AppliedOnce, MigrateTypeOK
  <1>2. v \notin recorded /\ ran[v] = 0
    BY <1>1 DEF Commit, NoClash, AppliedOnce
  <1>3. recorded' = recorded \cup {v} /\ ran' = [ran EXCEPT ![v] = 1]
    BY <1>2 DEF Commit
  <1>4. /\ mg' = [mg EXCEPT ![c] = [pc |-> "check", left |-> mg[c].left \ {v}]]
        /\ UNCHANGED <<failures, starts>>
    BY DEF Commit, AppliedOnce, MigrateTypeOK
  <1>5. mg[c].pc = "commit"
    BY DEF Commit
  <1>6. \A d \in Commands \ {c} : mg[d].pc = "commit" => current(d) # v
    BY <1>5 DEF NoClash
  <1>. HIDE DEF v
  <1>7. /\ mg' \in [Commands -> CommandState]
        /\ mg'[c] = [pc |-> "check", left |-> mg[c].left \ {v}]
        /\ \A d \in Commands \ {c} : mg'[d] = mg[d]
    BY <1>4 DEF AppliedOnce, MigrateTypeOK, CommandState
  <1>8. AppliedOnce'
    <2>1. ran' \in [Versions -> 0..2] /\ recorded' \subseteq Versions
      BY <1>1, <1>3 DEF AppliedOnce, MigrateTypeOK
    <2>2. \A w \in Versions : ran'[w] = IF w \in recorded' THEN 1 ELSE 0
      BY <1>1, <1>3 DEF AppliedOnce, MigrateTypeOK
    <2>. QED  BY <1>4, <1>7, <2>1, <2>2 DEF AppliedOnce, MigrateTypeOK
  <1>9. InOrder'
    BY <1>3, <1>5, <1>7 DEF InOrder, Active
  <1>10. NoClash'
    <2>1. \A d \in Commands \ {c} : current(d)' = current(d)
      BY <1>7, CurrentOfOthers
    <2>. QED  BY <1>3, <1>6, <1>7, <2>1 DEF NoClash
  <1>. QED  BY <1>8, <1>9, <1>10

LEMMA MigrateStepKeepsInv == MigrateIInv /\ [MigrateNext]_migrateVars => MigrateIInv'
  <1>. SUFFICES ASSUME MigrateIInv, [MigrateNext]_migrateVars PROVE MigrateIInv'
    OBVIOUS
  <1>. USE DEF MigrateIInv
  <1>t. MigrateTypeOK
    BY DEF AppliedOnce
  <1>1. ASSUME NEW c \in Commands, Begin(c) PROVE MigrateIInv'
    <2>. DEFINE s == [pc |-> "check", left |-> Files[c]]
    <2>1. s \in CommandState /\ starts' \in 0..MaxStarts
      BY <1>1, <1>t, MigrateAssumption DEF Begin, CommandState, MigrateTypeOK, Versions
    <2>. QED  BY ZenonT(30), <1>1, <1>t, <2>1, MoveKeepsInv DEF Begin, MigrateTypeOK
  <1>2. ASSUME NEW c \in Commands, Check(c) PROVE MigrateIInv'
    <2>0. mg[c] \in CommandState /\ failures \in 0..MaxFailures /\ starts \in 0..MaxStarts
      BY <1>t DEF MigrateTypeOK
    <2>1. CASE mg[c].left = {}
      <3>. DEFINE s == [mg[c] EXCEPT !.pc = "done"]
      <3>1. s \in CommandState /\ s.pc = "done" /\ s.left = {} /\ mg' = [mg EXCEPT ![c] = s]
        BY <1>2, <1>t, <2>0, <2>1 DEF Check, CommandState, MigrateTypeOK
      <3>2. Files[c] \ s.left \subseteq recorded
        BY <1>2, <2>1, <3>1 DEF Check, InOrder, Active
      <3>. HIDE DEF s
      <3>. QED  BY ZenonT(30), <1>2, <2>0, <3>1, <3>2, MoveKeepsInv DEF Check
    <2>2. CASE mg[c].left # {} /\ current(c) \in recorded
      <3>. DEFINE s == [mg[c] EXCEPT !.left = @ \ {current(c)}]
      <3>1. s \in CommandState /\ s.pc = "check" /\ mg' = [mg EXCEPT ![c] = s]
        BY <1>2, <1>t, <2>0, <2>2 DEF Check, CommandState, MigrateTypeOK
      <3>2. Files[c] \ s.left \subseteq recorded
        BY <1>2, <2>0, <2>2 DEF Check, InOrder, Active, CommandState
      <3>. HIDE DEF s
      <3>. QED  BY ZenonT(30), <1>2, <2>0, <3>1, <3>2, MoveKeepsInv DEF Check
    <2>3. CASE mg[c].left # {} /\ current(c) \notin recorded
      <3>. DEFINE s == [mg[c] EXCEPT !.pc = "sql"]
      <3>1. /\ s \in CommandState /\ s.pc = "sql" /\ s.left # {}
            /\ mg' = [mg EXCEPT ![c] = s]
        BY <1>2, <1>t, <2>0, <2>3 DEF Check, CommandState, MigrateTypeOK
      <3>2. Files[c] \ s.left \subseteq recorded
        BY <1>2, <2>0, <2>3 DEF Check, InOrder, Active, CommandState
      <3>. HIDE DEF s
      <3>. QED  BY ZenonT(30), <1>2, <2>0, <3>1, <3>2, MoveKeepsInv DEF Check
    <2>. QED  BY <2>1, <2>2, <2>3
  <1>3. ASSUME NEW c \in Commands, RunSQL(c) PROVE MigrateIInv'
    <2>. DEFINE s == [mg[c] EXCEPT !.pc = "record"]
    <2>1. /\ s \in CommandState /\ s.pc = "record" /\ s.left # {}
          /\ mg' = [mg EXCEPT ![c] = s]
      BY <1>3, <1>t DEF RunSQL, CommandState, MigrateTypeOK
    <2>2. Files[c] \ s.left \subseteq recorded
      BY <1>3, <1>t DEF RunSQL, InOrder, Active, CommandState, MigrateTypeOK
    <2>. HIDE DEF s
    <2>. QED  BY ZenonT(30), <1>3, <1>t, <2>1, <2>2, MoveKeepsInv DEF RunSQL, MigrateTypeOK
  <1>4. ASSUME NEW c \in Commands, Record(c) PROVE MigrateIInv'
    <2>1. CASE current(c) \in recorded
      <3>. DEFINE s == [mg[c] EXCEPT !.pc = "failed"]
      <3>1. s \in CommandState /\ s.pc = "failed" /\ mg' = [mg EXCEPT ![c] = s]
        BY <1>4, <1>t, <2>1 DEF Record, CommandState, MigrateTypeOK
      <3>. HIDE DEF s
      <3>. QED  BY ZenonT(30), <1>4, <1>t, <3>1, MoveKeepsInv DEF Record, MigrateTypeOK
    <2>. QED  BY <1>4, <2>1, RecordKeepsInv
  <1>5. ASSUME NEW c \in Commands, Commit(c) PROVE MigrateIInv'
    BY <1>5, CommitKeepsInv
  <1>6. ASSUME NEW c \in Commands, Fail(c) PROVE MigrateIInv'
    <2>. DEFINE s == [mg[c] EXCEPT !.pc = "failed"]
    <2>1. /\ s \in CommandState /\ s.pc = "failed" /\ mg' = [mg EXCEPT ![c] = s]
          /\ failures' \in 0..MaxFailures
      BY <1>6, <1>t, MigrateAssumption DEF Fail, CommandState, MigrateTypeOK
    <2>. HIDE DEF s
    <2>. QED  BY ZenonT(30), <1>6, <1>t, <2>1, MoveKeepsInv DEF Fail, MigrateTypeOK
  <1>7. CASE UNCHANGED migrateVars
    BY <1>7 DEF migrateVars, AppliedOnce, MigrateTypeOK, InOrder, NoClash, Active, current
  <1>. QED  BY <1>1, <1>2, <1>3, <1>4, <1>5, <1>6, <1>7 DEF MigrateNext, CommandStep

LEMMA MigrateInvHolds == MigrateSpec => []MigrateIInv
  BY MigrateInitHasInv, MigrateStepKeepsInv, PTL DEF MigrateSpec

(* Whatever commands of whatever releases race, fail or die, a version's   *)
(* SQL is committed at most once and exactly when it is recorded           *)
(* (store.Migrate's transaction and the primary key it ends on).           *)
THEOREM MigrationsApplyOnce == MigrateSpec => []AppliedOnce
  <1>1. MigrateIInv => AppliedOnce
    BY DEF MigrateIInv
  <1>. QED  BY <1>1, MigrateInvHolds, PTL

(* A command never runs a file before the earlier ones of its release, and *)
(* reports success only when all of them are applied.                      *)
THEOREM MigrationsInOrder == MigrateSpec => []InOrder
  <1>1. MigrateIInv => InOrder
    BY DEF MigrateIInv
  <1>. QED  BY <1>1, MigrateInvHolds, PTL

-----------------------------------------------------------------------------
(***************************************************************************)
(* Worker liveness, for any number of processes and any interval, time to  *)
(* live and lateness.                                                      *)
(*                                                                         *)
(* That a healthy worker has its key needs the time to live to outlast two *)
(* intervals and a late beat.  WorkerTTL is three times HeartbeatInterval, *)
(* so beats may be late by anything less than one interval.                *)
(***************************************************************************)
(* How a key with k steps to live fits its process: a lower bound on k     *)
(* counted from the next beat, and an upper one once the process stopped.  *)
Fits(s, k) ==
    /\ s.pc # "stopped" => s.age = 0 /\ s.clean = FALSE
    /\ s.pc = "new" => s.missed = 2
    /\ s.pc = "up" /\ s.missed = 0 => k >= TTL - Interval + s.wait
    /\ s.pc = "up" /\ s.missed = 1 => k >= TTL - 2 * Interval + s.wait
    /\ s.pc = "stopped" => k + s.age <= TTL
    /\ s.clean = TRUE => k = 0

KeyAge == \A p \in Processes : Fits(hb[p], ttl[p])

(* A call under way has collected every key that was there all the time    *)
(* and that the cursor has passed, and nothing that was never there.       *)
ScanSoFar ==
    /\ count.pc = "scan" => count.always \subseteq Present /\ Present \subseteq count.ever
    /\ count.pc \in {"scan", "done"} =>
          count.seen \subseteq count.ever /\ count.always \subseteq count.seen \cup count.todo
    /\ count.pc = "done" => count.todo = {} /\ count.result = Cardinality(count.seen)

CountInv == ttl \in [Processes -> 0..TTL] /\ count \in CountState /\ ScanSoFar

-----------------------------------------------------------------------------
LEMMA InitKeys == HeartbeatInit => HeartbeatTypeOK /\ KeyAge /\ CountInv
  BY HeartbeatAssumption
  DEF HeartbeatInit, HeartbeatTypeOK, KeyAge, Fits, CountInv, ScanSoFar, ProcessState, CountState, NotCounting

(* Observe keeps the call's type and what it has found out, whatever the   *)
(* step does to the keys.                                                  *)
LEMMA ObserveKeeps ==
  ASSUME CountInv, ttl' \in [Processes -> 0..TTL], Observe
  PROVE  CountInv'
  <1>1. Present' \subseteq Processes
    BY DEF Present
  <1>2. count \in CountState /\ ScanSoFar
    BY DEF CountInv
  <1>3. count' \in CountState
    BY ZenonT(30), <1>1, <1>2 DEF Observe, CountState
  <1>4. ScanSoFar'
    <2>1. CASE count.pc = "scan"
      <3>1. /\ count'.pc = "scan" /\ count'.todo = count.todo /\ count'.seen = count.seen
            /\ count'.always = count.always \cap Present'
            /\ count'.ever = count.ever \cup Present'
        BY <1>2, <2>1 DEF Observe, CountState
      <3>. QED  BY <1>2, <2>1, <3>1 DEF ScanSoFar
    <2>2. CASE count.pc # "scan"
      BY <1>2, <2>2 DEF Observe, ScanSoFar
    <2>. QED  BY <2>1, <2>2
  <1>. QED  BY <1>3, <1>4 DEF CountInv

(* A step of one process keeps all processes well typed and their keys     *)
(* fitting if it does so for that one.                                     *)
LEMMA ProcessStepKeeps ==
  ASSUME HeartbeatTypeOK, KeyAge, NEW p \in Processes, NEW s \in ProcessState, NEW k \in 0..TTL,
         hb' = [hb EXCEPT ![p] = s], ttl' = [ttl EXCEPT ![p] = k], Fits(s, k)
  PROVE  /\ hb' \in [Processes -> ProcessState]
         /\ ttl' \in [Processes -> 0..TTL]
         /\ KeyAge'
  <1>1. hb' \in [Processes -> ProcessState] /\ ttl' \in [Processes -> 0..TTL]
    BY DEF HeartbeatTypeOK
  <1>2. /\ hb'[p] = s /\ ttl'[p] = k
        /\ \A q \in Processes \ {p} : hb'[q] = hb[q] /\ ttl'[q] = ttl[q]
    BY DEF HeartbeatTypeOK
  <1>. QED  BY <1>1, <1>2 DEF KeyAge

(* What each step makes of its process, and of the key that goes with it.  *)
LEMMA ProcessMoves ==
  ASSUME NEW s \in ProcessState, NEW k \in 0..TTL, Fits(s, k)
  PROVE  /\ s.pc = "new" =>
               /\ [s EXCEPT !.pc = "up", !.wait = Interval, !.missed = 0] \in ProcessState
               /\ [s EXCEPT !.pc = "up", !.wait = Interval] \in ProcessState
               /\ Fits([s EXCEPT !.pc = "up", !.wait = Interval, !.missed = 0], TTL)
               /\ Fits([s EXCEPT !.pc = "up", !.wait = Interval], k)
         /\ s.pc = "up" /\ s.wait <= 0 =>
               /\ [s EXCEPT !.wait = @ + Interval, !.missed = 0] \in ProcessState
               /\ Fits([s EXCEPT !.wait = @ + Interval, !.missed = 0], TTL)
         /\ s.pc = "up" /\ s.wait <= 0 =>
               LET m == [s EXCEPT !.wait = @ + Interval, !.missed = IF @ = 2 THEN 2 ELSE @ + 1]
               IN  m \in ProcessState /\ Fits(m, k)
         /\ s.pc = "up" =>
               /\ [s EXCEPT !.pc = "stopped", !.clean = TRUE] \in ProcessState
               /\ [s EXCEPT !.pc = "stopped"] \in ProcessState
               /\ Fits([s EXCEPT !.pc = "stopped", !.clean = TRUE], 0)
               /\ Fits([s EXCEPT !.pc = "stopped"], k)
  <1>. DEFINE Waits == -MaxLate..Interval
  <1>0. /\ Interval \in Waits /\ s.wait \in Waits
        /\ s.wait <= 0 => s.wait + Interval \in Waits
    BY HeartbeatAssumption DEF ProcessState
  <1>m. 0 \in 0..2 /\ 2 \in 0..2 /\ (s.missed # 2 => s.missed + 1 \in 0..2)
    BY DEF ProcessState
  <1>p. ProcessState = [pc: {"new", "up", "stopped"}, wait: Waits, missed: 0..2,
                        age: 0..TTL, clean: BOOLEAN]
    BY DEF ProcessState
  <1>. HIDE DEF Waits
  <1>1. ASSUME s.pc = "new"
        PROVE  /\ [s EXCEPT !.pc = "up", !.wait = Interval, !.missed = 0] \in ProcessState
               /\ [s EXCEPT !.pc = "up", !.wait = Interval] \in ProcessState
               /\ Fits([s EXCEPT !.pc = "up", !.wait = Interval, !.missed = 0], TTL)
               /\ Fits([s EXCEPT !.pc = "up", !.wait = Interval], k)
    <2>1. [s EXCEPT !.pc = "up", !.wait = Interval, !.missed = 0] \in ProcessState
      BY ZenonT(30), <1>0, <1>m, <1>p
    <2>2. [s EXCEPT !.pc = "up", !.wait = Interval] \in ProcessState
      BY ZenonT(30), <1>0, <1>m, <1>p
    <2>3. Fits([s EXCEPT !.pc = "up", !.wait = Interval, !.missed = 0], TTL)
      BY <1>1, HeartbeatAssumption DEF Fits, ProcessState
    <2>4. Fits([s EXCEPT !.pc = "up", !.wait = Interval], k)
      BY <1>1, HeartbeatAssumption DEF Fits, ProcessState
    <2>. QED  BY <2>1, <2>2, <2>3, <2>4
  <1>2. ASSUME s.pc = "up", s.wait <= 0
        PROVE  /\ [s EXCEPT !.wait = @ + Interval, !.missed = 0] \in ProcessState
               /\ Fits([s EXCEPT !.wait = @ + Interval, !.missed = 0], TTL)
    <2>1. [s EXCEPT !.wait = @ + Interval, !.missed = 0] \in ProcessState
      BY ZenonT(30), <1>0, <1>m, <1>p, <1>2
    <2>2. Fits([s EXCEPT !.wait = @ + Interval, !.missed = 0], TTL)
      BY <1>2, HeartbeatAssumption DEF Fits, ProcessState
    <2>. QED  BY <2>1, <2>2
  <1>3. ASSUME s.pc = "up", s.wait <= 0
        PROVE  LET m == [s EXCEPT !.wait = @ + Interval, !.missed = IF @ = 2 THEN 2 ELSE @ + 1]
               IN  m \in ProcessState /\ Fits(m, k)
    <2>1. CASE s.missed = 2
      <3>. DEFINE m == [s EXCEPT !.wait = @ + Interval, !.missed = 2]
      <3>1. m \in ProcessState
        BY ZenonT(30), <1>0, <1>m, <1>p, <1>3
      <3>2. Fits(m, k)
        BY <1>3, HeartbeatAssumption DEF Fits, ProcessState
      <3>. QED  BY <2>1, <3>1, <3>2
    <2>2. CASE s.missed # 2
      <3>. DEFINE m == [s EXCEPT !.wait = @ + Interval, !.missed = @ + 1]
      <3>1. m \in ProcessState
        BY ZenonT(30), <1>0, <1>m, <1>p, <1>3, <2>2
      <3>2. Fits(m, k)
        BY <1>3, <2>2, HeartbeatAssumption DEF Fits, ProcessState
      <3>. QED  BY <2>2, <3>1, <3>2
    <2>. QED  BY <2>1, <2>2
  <1>4. ASSUME s.pc = "up"
        PROVE  /\ [s EXCEPT !.pc = "stopped", !.clean = TRUE] \in ProcessState
               /\ [s EXCEPT !.pc = "stopped"] \in ProcessState
               /\ Fits([s EXCEPT !.pc = "stopped", !.clean = TRUE], 0)
               /\ Fits([s EXCEPT !.pc = "stopped"], k)
    <2>1. [s EXCEPT !.pc = "stopped", !.clean = TRUE] \in ProcessState
      BY ZenonT(30), <1>0, <1>m, <1>p
    <2>2. [s EXCEPT !.pc = "stopped"] \in ProcessState
      BY <1>0, <1>m, <1>p
    <2>3. Fits([s EXCEPT !.pc = "stopped", !.clean = TRUE], 0)
      BY <1>4, HeartbeatAssumption DEF Fits, ProcessState
    <2>4. Fits([s EXCEPT !.pc = "stopped"], k)
      BY <1>4, HeartbeatAssumption DEF Fits, ProcessState
    <2>. QED  BY <2>1, <2>2, <2>3, <2>4
  <1>. QED  BY <1>1, <1>2, <1>3, <1>4

(* Every step of a process keeps processes and keys fitting.               *)
LEMMA ProcessKeeps ==
  ASSUME HeartbeatTypeOK, KeyAge, NEW p \in Processes,
         Start(p) \/ Beat(p) \/ MissBeat(p) \/ Shutdown(p) \/ Crash(p)
  PROVE  /\ hb' \in [Processes -> ProcessState]
         /\ ttl' \in [Processes -> 0..TTL]
         /\ KeyAge'
  <1>0. hb \in [Processes -> ProcessState] /\ ttl \in [Processes -> 0..TTL]
    BY DEF HeartbeatTypeOK
  <1>f. hb[p] \in ProcessState /\ ttl[p] \in 0..TTL /\ Fits(hb[p], ttl[p])
    BY <1>0 DEF KeyAge
  <1>t. TTL \in 0..TTL /\ 0 \in 0..TTL
    BY HeartbeatAssumption
  <1>u. UNCHANGED ttl => ttl' = [ttl EXCEPT ![p] = ttl[p]]
    BY <1>0
  <1>1. CASE Start(p)
    <2>. DEFINE s == [hb[p] EXCEPT !.pc = "up", !.wait = Interval, !.missed = 0]
                f == [hb[p] EXCEPT !.pc = "up", !.wait = Interval]
    <2>1. \/ hb' = [hb EXCEPT ![p] = s] /\ ttl' = [ttl EXCEPT ![p] = TTL]
          \/ hb' = [hb EXCEPT ![p] = f] /\ UNCHANGED ttl
      BY ZenonT(30), <1>0, <1>1 DEF Start, Heartbeat
    <2>2. /\ s \in ProcessState /\ Fits(s, TTL)
          /\ f \in ProcessState /\ Fits(f, ttl[p])
      BY ZenonT(30), <1>1, <1>f, ProcessMoves DEF Start
    <2>. HIDE DEF s, f
    <2>. QED  BY <1>f, <1>t, <1>u, <2>1, <2>2, ProcessStepKeeps
  <1>2. CASE Beat(p)
    <2>. DEFINE s == [hb[p] EXCEPT !.wait = @ + Interval, !.missed = 0]
    <2>1. hb' = [hb EXCEPT ![p] = s] /\ ttl' = [ttl EXCEPT ![p] = TTL]
      BY ZenonT(30), <1>0, <1>2 DEF Beat, Heartbeat
    <2>2. s \in ProcessState /\ Fits(s, TTL)
      BY ZenonT(30), <1>2, <1>f, ProcessMoves DEF Beat
    <2>. HIDE DEF s
    <2>. QED  BY ZenonT(30), <1>t, <2>1, <2>2, ProcessStepKeeps
  <1>3. CASE MissBeat(p)
    <2>. DEFINE s == [hb[p] EXCEPT !.wait = @ + Interval, !.missed = IF @ = 2 THEN 2 ELSE @ + 1]
    <2>1. hb' = [hb EXCEPT ![p] = s] /\ UNCHANGED ttl
      BY ZenonT(30), <1>0, <1>3 DEF MissBeat
    <2>2. s \in ProcessState /\ Fits(s, ttl[p])
      BY ZenonT(30), <1>3, <1>f, ProcessMoves DEF MissBeat
    <2>. HIDE DEF s
    <2>. QED  BY ZenonT(30), <1>f, <1>u, <2>1, <2>2, ProcessStepKeeps
  <1>4. CASE Shutdown(p)
    <2>. DEFINE s == [hb[p] EXCEPT !.pc = "stopped", !.clean = TRUE]
                f == [hb[p] EXCEPT !.pc = "stopped"]
    <2>1. \/ hb' = [hb EXCEPT ![p] = s] /\ ttl' = [ttl EXCEPT ![p] = 0]
          \/ hb' = [hb EXCEPT ![p] = f] /\ UNCHANGED ttl
      BY ZenonT(30), <1>0, <1>4 DEF Shutdown, RemoveWorker
    <2>2. /\ s \in ProcessState /\ Fits(s, 0)
          /\ f \in ProcessState /\ Fits(f, ttl[p])
      BY ZenonT(30), <1>4, <1>f, ProcessMoves DEF Shutdown
    <2>. HIDE DEF s, f
    <2>. QED  BY <1>f, <1>t, <1>u, <2>1, <2>2, ProcessStepKeeps
  <1>5. CASE Crash(p)
    <2>. DEFINE f == [hb[p] EXCEPT !.pc = "stopped"]
    <2>1. hb' = [hb EXCEPT ![p] = f] /\ UNCHANGED ttl
      BY <1>0, <1>5 DEF Crash
    <2>2. f \in ProcessState /\ Fits(f, ttl[p])
      BY ZenonT(30), <1>5, <1>f, ProcessMoves DEF Crash
    <2>. HIDE DEF f
    <2>. QED  BY ZenonT(30), <1>f, <1>u, <2>1, <2>2, ProcessStepKeeps
  <1>. QED  BY <1>1, <1>2, <1>3, <1>4, <1>5

(* WorkerTTL outlasts two intervals and a late beat.                       *)
TTLSuffices == TTL > 2 * Interval + MaxLate

(* Time passes for every process and its key alike, so a key that was to   *)
(* outlast its process's next beat still does.                             *)
LEMMA TickKeeps ==
  ASSUME TTLSuffices, HeartbeatTypeOK, KeyAge, Tick
  PROVE  /\ hb' \in [Processes -> ProcessState]
         /\ ttl' \in [Processes -> 0..TTL]
         /\ KeyAge'
  <1>. DEFINE k(p) == IF ttl[p] = 0 THEN 0 ELSE ttl[p] - 1
              up(p) == [hb[p] EXCEPT !.wait = @ - 1]
              off(p) == [hb[p] EXCEPT !.age = IF @ = TTL THEN TTL ELSE @ + 1]
  <1>1. ASSUME NEW p \in Processes
        PROVE  /\ hb'[p] \in ProcessState
               /\ ttl'[p] \in 0..TTL
               /\ Fits(hb'[p], ttl'[p])
    <2>1. hb[p] \in ProcessState /\ ttl[p] \in 0..TTL /\ Fits(hb[p], ttl[p])
      BY DEF HeartbeatTypeOK, KeyAge
    <2>2. ttl'[p] = k(p) /\ k(p) \in 0..TTL
      BY <2>1, HeartbeatAssumption DEF Tick
    <2>3. CASE hb[p].pc = "new"
      <3>1. hb'[p] = hb[p]
        BY <2>3 DEF Tick
      <3>2. Fits(hb[p], k(p))
        BY <2>1, <2>3 DEF Fits, ProcessState
      <3>. QED  BY <2>1, <2>2, <3>1, <3>2
    <2>4. CASE hb[p].pc = "up"
      <3>1. hb'[p] = up(p) /\ hb[p].wait > -MaxLate
        BY <2>4 DEF Tick
      <3>2. hb[p].wait - 1 \in -MaxLate..Interval
        BY <2>1, <3>1, HeartbeatAssumption DEF ProcessState
      <3>3. up(p) \in ProcessState
        BY <2>1, <3>2 DEF ProcessState
      <3>4. hb[p].missed \in {0, 1} => ttl[p] > 0
        BY <2>1, <2>4, <3>1, HeartbeatAssumption DEF Fits, ProcessState, TTLSuffices
      <3>5. Fits(up(p), k(p))
        BY <2>1, <2>4, <3>4, HeartbeatAssumption DEF Fits, ProcessState
      <3>. QED  BY <2>2, <3>1, <3>3, <3>5
    <2>5. CASE hb[p].pc = "stopped"
      <3>1. hb'[p] = off(p)
        BY <2>5 DEF Tick
      <3>2. (IF hb[p].age = TTL THEN TTL ELSE hb[p].age + 1) \in 0..TTL
        BY <2>1, HeartbeatAssumption DEF ProcessState
      <3>3. off(p) \in ProcessState
        BY <2>1, <3>2 DEF ProcessState
      <3>4. Fits(off(p), k(p))
        BY <2>1, <2>5, HeartbeatAssumption DEF Fits, ProcessState
      <3>. QED  BY <2>2, <3>1, <3>3, <3>4
    <2>. QED  BY <2>1, <2>3, <2>4, <2>5 DEF ProcessState
  <1>2. /\ hb' = [p \in Processes |-> hb'[p]]
        /\ ttl' = [p \in Processes |-> ttl'[p]]
    BY DEF Tick
  <1>. QED  BY <1>1, <1>2 DEF KeyAge

-----------------------------------------------------------------------------
(* A batch takes the keys it passes, so those present all through are in   *)
(* the set by the time the cursor is through.                              *)
LEMMA ScanKeeps ==
  ASSUME CountInv, CountScan
  PROVE  CountInv'
  <1>1. PICK part \in SUBSET Processes :
          count' = [Tally(part \cap Present) EXCEPT
                      !.todo = @ \ part,
                      !.pc = IF count.todo \subseteq part THEN "done" ELSE "scan"]
    BY ZenonT(30) DEF CountScan
  <1>. DEFINE seen == count.seen \cup (part \cap Present)
  <1>2. count \in CountState /\ ScanSoFar /\ count.pc = "scan" /\ UNCHANGED ttl
    BY DEF CountInv, CountScan
  <1>3. seen \subseteq Processes
    BY ZenonT(30), <1>2 DEF CountState, Present
  <1>4. Cardinality(seen) \in Nat
    <2>. HIDE DEF seen
    <2>1. IsFiniteSet(seen)
      BY <1>3, HeartbeatAssumption, FS_Subset
    <2>. QED  BY <2>1, FS_CardinalityType
  <1>5. /\ count' = [count EXCEPT !.seen = seen, !.result = Cardinality(seen),
                                  !.todo = @ \ part,
                                  !.pc = IF count.todo \subseteq part THEN "done" ELSE "scan"]
    BY <1>1, <1>2 DEF Tally, CountState
  <1>6. /\ count' \in CountState
        /\ count'.seen = seen /\ count'.result = Cardinality(seen)
        /\ count'.todo = count.todo \ part
        /\ count'.pc = "done" => count.todo \subseteq part
        /\ count'.always = count.always /\ count'.ever = count.ever
    BY ZenonT(30), <1>2, <1>3, <1>4, <1>5 DEF CountState
  <1>7. Present' = Present
    BY <1>2 DEF Present
  <1>8. ScanSoFar'
    BY <1>2, <1>6, <1>7 DEF ScanSoFar
  <1>. QED  BY <1>2, <1>6, <1>8 DEF CountInv

LEMMA StepKeepsCount == CountInv /\ [HeartbeatNext]_heartbeatVars => CountInv'
  <1>. SUFFICES ASSUME CountInv, [HeartbeatNext]_heartbeatVars PROVE CountInv'
    OBVIOUS
  <1>t. TTL \in 0..TTL /\ 0 \in 0..TTL /\ ttl \in [Processes -> 0..TTL]
    BY HeartbeatAssumption DEF CountInv
  <1>1. ASSUME NEW p \in Processes, Start(p) \/ Beat(p) \/ Shutdown(p)
        PROVE  CountInv'
    <2>1. ttl' \in [Processes -> 0..TTL]
      BY <1>1, <1>t DEF Start, Beat, Shutdown, Heartbeat, RemoveWorker
    <2>2. Observe
      BY <1>1 DEF Start, Beat, Shutdown
    <2>. QED  BY <2>1, <2>2, ObserveKeeps
  <1>2. ASSUME NEW p \in Processes, MissBeat(p) \/ Crash(p)
        PROVE  CountInv'
    BY <1>2 DEF MissBeat, Crash, CountInv, ScanSoFar, Present
  <1>3. CASE Tick
    <2>1. ttl' \in [Processes -> 0..TTL]
      <3>1. ttl' = [p \in Processes |-> IF ttl[p] = 0 THEN 0 ELSE ttl[p] - 1]
        BY <1>3 DEF Tick
      <3>2. \A p \in Processes : ttl[p] \in 0..TTL /\ TTL \in Nat
        BY <1>t, HeartbeatAssumption
      <3>. QED  BY <3>1, <3>2
    <2>2. Observe
      BY <1>3 DEF Tick
    <2>. QED  BY <2>1, <2>2, ObserveKeeps
  <1>4. CASE CountBegin
    <2>1. Present \subseteq Processes /\ Present' = Present
      BY <1>4 DEF CountBegin, Present
    <2>2. count' \in CountState
      BY <1>4, <2>1 DEF CountBegin, CountState
    <2>3. ScanSoFar'
      BY <1>4, <2>1 DEF CountBegin, ScanSoFar
    <2>. QED  BY <1>4, <1>t, <2>2, <2>3 DEF CountBegin, CountInv
  <1>5. CASE CountScan
    BY <1>5, ScanKeeps
  <1>6. CASE UNCHANGED heartbeatVars
    BY <1>6 DEF heartbeatVars, CountInv, ScanSoFar, Present
  <1>. QED  BY <1>1, <1>2, <1>3, <1>4, <1>5, <1>6 DEF HeartbeatNext

(* CountActiveWorkers never returns fewer than the workers that were       *)
(* present all through its SCANs, nor more than were ever present in them, *)
(* for any number of workers and batches.                                  *)
THEOREM CountIsHonest == HeartbeatSpec => []CountIsBracketed
  <1>1. HeartbeatInit => CountInv
    BY InitKeys
  <1>2. CountInv => CountIsBracketed
    <2>. SUFFICES ASSUME CountInv, count.pc = "done"
                  PROVE  /\ Cardinality(count.always) <= count.result
                         /\ count.result <= Cardinality(count.ever)
      BY ZenonT(30) DEF CountIsBracketed
    <2>1. /\ count.always \subseteq count.seen /\ count.seen \subseteq count.ever
          /\ count.result = Cardinality(count.seen) /\ count.ever \subseteq Processes
      BY DEF CountInv, ScanSoFar, CountState
    <2>2. IsFiniteSet(count.ever) /\ IsFiniteSet(count.seen)
      BY <2>1, HeartbeatAssumption, FS_Subset
    <2>3. Cardinality(count.always) <= Cardinality(count.seen)
      BY <2>1, <2>2, FS_Subset
    <2>4. Cardinality(count.seen) <= Cardinality(count.ever)
      BY <2>1, <2>2, FS_Subset
    <2>. QED  BY <2>1, <2>3, <2>4
  <1>. QED  BY <1>1, <1>2, StepKeepsCount, PTL DEF HeartbeatSpec

-----------------------------------------------------------------------------
LEMMA StepKeepsKeys ==
  ASSUME TTLSuffices
  PROVE  HeartbeatTypeOK /\ KeyAge /\ CountInv /\ [HeartbeatNext]_heartbeatVars => (HeartbeatTypeOK /\ KeyAge)'
  <1>. SUFFICES ASSUME HeartbeatTypeOK, KeyAge, CountInv, [HeartbeatNext]_heartbeatVars
                PROVE  HeartbeatTypeOK' /\ KeyAge'
    OBVIOUS
  <1>c. count' \in CountState
    BY StepKeepsCount DEF CountInv
  <1>1. ASSUME NEW p \in Processes,
               Start(p) \/ Beat(p) \/ MissBeat(p) \/ Shutdown(p) \/ Crash(p)
        PROVE  HeartbeatTypeOK' /\ KeyAge'
    BY <1>1, <1>c, ProcessKeeps DEF HeartbeatTypeOK
  <1>2. CASE Tick
    BY <1>2, <1>c, TickKeeps DEF HeartbeatTypeOK
  <1>3. CASE UNCHANGED <<hb, ttl>>
    BY <1>3, <1>c DEF HeartbeatTypeOK, KeyAge
  <1>. QED  BY ZenonT(30), <1>1, <1>2, <1>3 DEF HeartbeatNext, heartbeatVars, CountBegin, CountScan

(* "One missed beat doesn't expire a healthy worker", and a stopped one is *)
(* gone at the latest WorkerTTL after it stopped, whenever WorkerTTL       *)
(* exceeds two HeartbeatIntervals by more than a beat can be late.         *)
THEOREM KeysFollowWorkers ==
  ASSUME TTLSuffices
  PROVE  HeartbeatSpec => []KeyFollowsWorker
  <1>1. HeartbeatTypeOK /\ KeyAge => KeyFollowsWorker
    <2>. SUFFICES ASSUME HeartbeatTypeOK, KeyAge, NEW p \in Processes
                  PROVE  /\ hb[p].pc = "up" /\ hb[p].missed <= 1 => ttl[p] > 0
                         /\ hb[p].clean \/ hb[p].age = TTL => ttl[p] = 0
      BY DEF KeyFollowsWorker
    <2>1. hb[p] \in ProcessState /\ ttl[p] \in 0..TTL /\ Fits(hb[p], ttl[p])
      BY DEF HeartbeatTypeOK, KeyAge
    <2>2. hb[p].pc = "up" /\ hb[p].missed <= 1 => ttl[p] > 0
      BY <2>1, HeartbeatAssumption DEF Fits, ProcessState, TTLSuffices
    <2>3. hb[p].clean = TRUE => ttl[p] = 0
      BY <2>1 DEF Fits
    <2>4. hb[p].age = TTL => ttl[p] = 0
      BY <2>1, HeartbeatAssumption DEF Fits, ProcessState
    <2>5. hb[p].clean => hb[p].clean = TRUE
      BY <2>1, Zenon DEF ProcessState
    <2>. QED  BY <2>2, <2>3, <2>4, <2>5
  <1>2. HeartbeatInit => HeartbeatTypeOK /\ KeyAge /\ CountInv
    BY InitKeys
  <1>3. HeartbeatTypeOK /\ KeyAge /\ CountInv /\ [HeartbeatNext]_heartbeatVars => (HeartbeatTypeOK /\ KeyAge)'
    BY StepKeepsKeys
  <1>. QED  BY <1>1, <1>2, <1>3, StepKeepsCount, PTL DEF HeartbeatSpec
=============================================================================
