--------------------------- MODULE WorkerProcess ----------------------------
(***************************************************************************)
(* The life of a worker process (main of cmd/worker): the signal cancels   *)
(* the root context, the four goroutines notice it each in its own way,    *)
(* and main waits for them before the deferred Closes.  What consume, poll *)
(* and heartbeat do to jobs, queues and keys is in Worker and Heartbeat;   *)
(* here a call to Postgres or Redis is only under way or not, and one that *)
(* begins under a cancelled context fails.                                 *)
(***************************************************************************)
EXTENDS HttpServer

VARIABLES
    main,        \* where main stands
    watching,    \* signal.Notify was called
    cancelled,   \* the root context is
    consumer, poller, heart, metrics,   \* the four goroutines
    pools        \* what is open of the two pools

loopVars == <<consumer, poller, heart, metrics>>

vars == <<serverVars, main, watching, cancelled, pools, loopVars>>

(* The types of a worker process, whose goroutines are born after Ping.    *)
WorkerProcessTypeOK ==
    /\ ServerTypeOK
    /\ main \in {"connect", "ping", "wait", "return", "exited"}
    /\ watching \in BOOLEAN
    /\ cancelled \in BOOLEAN
    /\ consumer \in {"unborn", "top", "pop", "job", "returned"}
    /\ poller \in {"unborn", "select", "promote", "returned"}
    /\ heart \in {"unborn", "beat", "select", "remove", "returned"}
    /\ metrics \in {"unborn", "listen", "serve", "returned"}
    /\ pools \subseteq {"postgres", "redis"}
    /\ main \in {"connect", "ping"} => {consumer, poller, heart, metrics} = {"unborn"}

Init ==
    /\ ServerInit
    /\ main = "connect"
    /\ watching = FALSE
    /\ cancelled = FALSE
    /\ consumer = "unborn" /\ poller = "unborn" /\ heart = "unborn" /\ metrics = "unborn"
    /\ pools = {}

-----------------------------------------------------------------------------
Exit == main' = "exited" /\ ServerDies

(* The signal goroutine runs from the start of main.                       *)
notify ==
    /\ main # "exited"
    /\ ~watching
    /\ watching' = TRUE
    /\ UNCHANGED <<serverVars, main, cancelled, pools, loopVars>>

(* SIGINT or SIGTERM: before Notify it ends the process.                   *)
signal ==
    /\ main # "exited"
    /\ ~cancelled
    /\ \/ watching /\ cancelled' = TRUE /\ UNCHANGED <<serverVars, main>>
       \/ ~watching /\ Exit /\ UNCHANGED cancelled
    /\ UNCHANGED <<watching, pools, loopVars>>

(* store.New; log.Fatalf when it fails, as it does once cancelled.         *)
connect ==
    /\ main = "connect"
    /\ \/ /\ ~cancelled
          /\ main' = "ping"
          /\ pools' = {"postgres", "redis"}
          /\ UNCHANGED serverVars
       \/ Exit /\ UNCHANGED pools
    /\ UNCHANGED <<watching, cancelled, loopVars>>

(* Ping, and the start of the four goroutines.  log.Fatalf skips the       *)
(* deferred Closes.                                                        *)
ping ==
    /\ main = "ping"
    /\ \/ /\ ~cancelled
          /\ main' = "wait"
          /\ consumer' = "top" /\ poller' = "select" /\ heart' = "beat" /\ metrics' = "listen"
          /\ UNCHANGED serverVars
       \/ Exit /\ UNCHANGED loopVars
    /\ UNCHANGED <<watching, cancelled, pools>>

-----------------------------------------------------------------------------
(* The loop: look at the context, pop (an id, a timeout, or an error), and *)
(* process what was popped.  A pop that fails once cancelled ends it.      *)
consume ==
    /\ \/ consumer = "top" /\ consumer' = IF cancelled THEN "returned" ELSE "pop"
       \/ consumer = "pop" /\ consumer' \in {"top", "job"}
       \/ consumer = "pop" /\ cancelled /\ consumer' = "returned"
       \/ consumer = "job" /\ consumer' = "top"
    /\ UNCHANGED <<poller, heart, metrics>>

(* The select may take a tick though the context is cancelled, but then    *)
(* PromoteDue fails and poll returns.                                      *)
poll ==
    /\ \/ poller = "select" /\ poller' = IF cancelled THEN "returned" ELSE "promote"
       \/ poller = "promote" /\ poller' = "select"
       \/ poller = "promote" /\ cancelled /\ poller' = "returned"
    /\ UNCHANGED <<consumer, heart, metrics>>

(* A beat, at first and at every tick; its errors are only logged.         *)
beat ==
    /\ \/ heart = "select" /\ heart' = "beat"
       \/ heart = "beat" /\ heart' = "select"
    /\ UNCHANGED <<consumer, poller, metrics>>

(* The select sees the cancellation: RemoveWorker, with a fresh context.   *)
deregister ==
    /\ \/ heart = "select" /\ cancelled /\ heart' = "remove"
       \/ heart = "remove" /\ heart' = "returned"
    /\ UNCHANGED <<consumer, poller, metrics>>

(* ListenAndServe: it binds the address or fails to, comes after Shutdown, *)
(* or returns because of it.  In no case does serveMetrics wait longer.    *)
serveMetrics ==
    /\ \/ /\ metrics = "listen"
          /\ shut = "no"
          /\ metrics' = "serve"
          /\ listener' = "open"
          /\ UNCHANGED <<inflight, shut, cut>>
       \/ metrics = "listen" /\ metrics' = "returned" /\ UNCHANGED serverVars
       \/ /\ metrics = "serve"
          /\ listener = "closed"
          /\ metrics' = "returned"
          /\ UNCHANGED serverVars
    /\ UNCHANGED <<consumer, poller, heart>>

(* Its goroutine, which shuts the server down and which nobody waits for.  *)
drain ==
    /\ main \in {"wait", "return"}
    /\ \/ metrics # "unborn" /\ cancelled /\ ShutdownBegin
       \/ ShutdownEnd
    /\ UNCHANGED <<main, watching, cancelled, pools, loopVars>>

(* Mutant of wait: one goroutine is not counted.                           *)
wait_Three ==
    /\ main = "wait"
    /\ consumer = "returned" /\ poller = "returned" /\ metrics = "returned"
    /\ main' = "return"
    /\ UNCHANGED <<serverVars, watching, cancelled, pools, loopVars>>

(* wg.Wait                                                                 *)
wait ==
    /\ main = "wait"
    /\ {consumer, poller, heart, metrics} = {"returned"}
    /\ main' = "return"
    /\ UNCHANGED <<serverVars, watching, cancelled, pools, loopVars>>

(* The deferred q.Close and st.Close, and the end of the process.          *)
closePools ==
    /\ main = "return"
    /\ \/ /\ pools = {"postgres", "redis"}
          /\ pools' = {"postgres"}
          /\ UNCHANGED <<serverVars, main>>
       \/ pools = {"postgres"} /\ pools' = {} /\ UNCHANGED <<serverVars, main>>
       \/ pools = {} /\ Exit /\ UNCHANGED pools
    /\ UNCHANGED <<watching, cancelled, loopVars>>

-----------------------------------------------------------------------------
Main == connect \/ ping \/ wait \/ closePools

(* A step of a goroutine, which takes a process that is alive.             *)
Alive(step) ==
    /\ main \in {"wait", "return"}
    /\ step
    /\ UNCHANGED <<main, watching, cancelled, pools>>

Loop(step) == Alive(step /\ UNCHANGED serverVars)

Next ==
    \/ Main \/ notify \/ signal \/ drain
    \/ Loop(consume) \/ Loop(poll) \/ Loop(beat) \/ Loop(deregister)
    \/ Alive(serveMetrics)
    \/ \E c \in Clients : Alive((accept(c) \/ answer(c)) /\ UNCHANGED loopVars)
=============================================================================
