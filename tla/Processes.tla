----------------------------- MODULE Processes ------------------------------
(***************************************************************************)
(* A process of the system from its start to its exit: an api or a worker. *)
(* The two share the http server and the pools, and differ in how they     *)
(* come to their end.  A variable that only the other command has keeps    *)
(* its initial value.                                                      *)
(***************************************************************************)
CONSTANT Clients

VARIABLES
    command,   \* "api" or "worker"
    listener, inflight, shut, cut, main, pools,
    watcher, signalled, status,
    watching, cancelled, consumer, poller, heart, metrics

A == INSTANCE ApiProcess

W == INSTANCE WorkerProcess

apiOnly == <<watcher, signalled, status>>

workerOnly == <<watching, cancelled, consumer, poller, heart, metrics>>

processVars == <<command, listener, inflight, shut, cut, main, pools, apiOnly, workerOnly>>

ProcessInit == command \in {"api", "worker"} /\ A!Init /\ W!Init

AsApi(step) == command = "api" /\ step /\ UNCHANGED <<command, workerOnly>>

AsWorker(step) == command = "worker" /\ step /\ UNCHANGED <<command, apiOnly>>

ProcessNext == AsApi(A!Next) \/ AsWorker(W!Next)

ProcessSpec == ProcessInit /\ [][ProcessNext]_processVars

(* In the api the goroutines are scheduled and deadlines pass; that a      *)
(* handler ever answers is not assumed.  In the worker goroutines are      *)
(* scheduled, calls and handlers return (the only slow one, export_pdf,    *)
(* heeds the context), and the heartbeat's select, which chooses at        *)
(* random, does not prefer its ticker for ever.                            *)
ProcessFairSpec ==
    /\ ProcessSpec
    /\ WF_processVars(AsApi(A!runServer))
    /\ WF_processVars(AsApi(A!notify))
    /\ WF_processVars(AsApi(A!shutdown))
    /\ WF_processVars(AsWorker(W!Main))
    /\ WF_processVars(AsWorker(W!drain))
    /\ WF_processVars(AsWorker(W!Alive(W!serveMetrics)))
    /\ WF_processVars(AsWorker(W!Loop(W!consume)))
    /\ WF_processVars(AsWorker(W!Loop(W!poll)))
    /\ WF_processVars(AsWorker(W!Loop(W!beat)))
    /\ SF_processVars(AsWorker(W!Loop(W!deregister)))

-----------------------------------------------------------------------------
(* Server, goroutines and process have their types.  An api process has an *)
(* exit status exactly when it is gone, and no goroutine of a worker       *)
(* starts before Postgres and Redis have answered (main, runServer).       *)
ProcessTypeOK ==
    \/ command = "api" /\ A!ApiProcessTypeOK
    \/ command = "worker" /\ W!WorkerProcessTypeOK

(* Types are kept, and whoever uses the pools finds them open.  A handler  *)
(* of the api does until every request is answered or the drain's deadline *)
(* has passed, though ListenAndServe returns as soon as Shutdown begins    *)
(* (runServer's receive from shutdownErr).  A goroutine of a worker does   *)
(* in every call, RemoveWorker of the shutdown included (wg.Wait before    *)
(* the deferred Closes).                                                   *)
PoolsOutliveCalls ==
    /\ ProcessTypeOK
    /\ command = "api" /\ inflight # {} => pools = {"postgres", "redis"} \/ shut = "expired"
    /\ consumer \in {"pop", "job"} \/ poller = "promote" \/ heart \in {"beat", "remove"}
       => pools = {"postgres", "redis"}

(* An exit of the api with status zero means that every request that was   *)
(* accepted got its answer (the error of Shutdown is what runServer        *)
(* returns).                                                               *)
CleanExitCutNothing == status = "ok" => cut = {}

=============================================================================
