----------------------------- MODULE ApiProcess -----------------------------
(***************************************************************************)
(* The life of an api process (runServer): it connects to Postgres and     *)
(* Redis, starts the goroutine that waits for SIGINT or SIGTERM, serves,   *)
(* and on a signal drains, closes its pools and exits.                     *)
(*                                                                         *)
(* A signal that comes before signal.Notify ends the process at once.      *)
(***************************************************************************)
EXTENDS HttpServer

VARIABLES
    main,        \* where runServer stands
    watcher,     \* where the signal goroutine stands
    signalled,   \* a signal was sent
    pools,       \* what is open of the two pools
    status       \* how the process ended

processVars == <<main, watcher, signalled, pools, status>>

vars == <<serverVars, processVars>>

(* The types of an api process, which has an exit status once it is gone.  *)
ApiProcessTypeOK ==
    /\ ServerTypeOK
    /\ main \in {"connect", "ping", "listen", "serve", "await", "return", "exited"}
    /\ watcher \in {"unborn", "born", "watching", "caught", "shutdown", "sent"}
    /\ signalled \in BOOLEAN
    /\ pools \subseteq {"postgres", "redis"}
    /\ status \in {"running", "ok", "error", "killed"}
    /\ main = "exited" <=> status # "running"

Init ==
    /\ ServerInit
    /\ main = "connect"
    /\ watcher = "unborn"
    /\ signalled = FALSE
    /\ pools = {}
    /\ status = "running"

-----------------------------------------------------------------------------
Exit(how) ==
    /\ main' = "exited"
    /\ status' = how
    /\ ServerDies

(* store.New                                                               *)
connect ==
    /\ main = "connect"
    /\ \/ /\ main' = "ping"
          /\ pools' = {"postgres", "redis"}
          /\ UNCHANGED <<serverVars, status>>
       \/ Exit("error") /\ UNCHANGED pools
    /\ UNCHANGED <<watcher, signalled>>

(* Ping; with its error runServer returns through the deferred Closes.     *)
ping ==
    /\ main = "ping"
    /\ \/ main' = "listen" /\ watcher' = "born" /\ UNCHANGED <<serverVars, pools, status>>
       \/ Exit("error") /\ pools' = {} /\ UNCHANGED watcher
    /\ UNCHANGED signalled

(* signal.Notify in the goroutine, not ordered against ListenAndServe.     *)
notify ==
    /\ main # "exited"
    /\ watcher = "born"
    /\ watcher' = "watching"
    /\ UNCHANGED <<serverVars, main, signalled, pools, status>>

(* SIGINT or SIGTERM; further ones fill the channel or are dropped.        *)
signal ==
    /\ main # "exited"
    /\ ~signalled
    /\ signalled' = TRUE
    /\ \/ /\ watcher = "watching"
          /\ watcher' = "caught"
          /\ UNCHANGED <<serverVars, main, status>>
       \/ watcher \in {"unborn", "born"} /\ Exit("killed") /\ UNCHANGED watcher
    /\ UNCHANGED pools


(* srv.Shutdown, called and returned from; its result is sent.             *)
shutdown ==
    /\ main # "exited"
    /\ \/ watcher = "caught" /\ watcher' = "shutdown" /\ ShutdownBegin
       \/ watcher = "shutdown" /\ ShutdownEnd /\ UNCHANGED watcher
       \/ /\ watcher = "shutdown"
          /\ shut \in {"drained", "expired"}
          /\ watcher' = "sent"
          /\ UNCHANGED serverVars
    /\ UNCHANGED <<main, signalled, pools, status>>

(* ListenAndServe binds the port, fails to, or comes after Shutdown.       *)
listen ==
    /\ main = "listen"
    /\ \/ /\ shut = "no"
          /\ main' = "serve"
          /\ listener' = "open"
          /\ UNCHANGED <<inflight, shut, cut, pools, status>>
       \/ shut # "no" /\ main' = "await" /\ UNCHANGED <<serverVars, pools, status>>
       \/ shut = "no" /\ Exit("error") /\ pools' = {}
    /\ UNCHANGED <<watcher, signalled>>

(* ListenAndServe returns ErrServerClosed.                                 *)
closed ==
    /\ main = "serve"
    /\ listener = "closed"
    /\ main' = "await"
    /\ UNCHANGED <<serverVars, watcher, signalled, pools, status>>

(* <-shutdownErr                                                           *)
await ==
    /\ main = "await"
    /\ watcher = "sent"
    /\ main' = "return"
    /\ UNCHANGED <<serverVars, watcher, signalled, pools, status>>

(* Mutant of closePools: the error of Shutdown is dropped.                 *)
closePools_Ok ==
    /\ main = "return"
    /\ \/ /\ pools = {"postgres", "redis"}
          /\ pools' = {"postgres"}
          /\ UNCHANGED <<serverVars, main, status>>
       \/ pools = {"postgres"} /\ pools' = {} /\ UNCHANGED <<serverVars, main, status>>
       \/ pools = {} /\ Exit("ok") /\ UNCHANGED pools
    /\ UNCHANGED <<watcher, signalled>>

(* The deferred q.Close and st.Close, and main's exit with the error that  *)
(* Shutdown returned.                                                      *)
closePools ==
    /\ main = "return"
    /\ \/ /\ pools = {"postgres", "redis"}
          /\ pools' = {"postgres"}
          /\ UNCHANGED <<serverVars, main, status>>
       \/ pools = {"postgres"} /\ pools' = {} /\ UNCHANGED <<serverVars, main, status>>
       \/ /\ pools = {}
          /\ Exit(IF shut = "drained" THEN "ok" ELSE "error")
          /\ UNCHANGED pools
    /\ UNCHANGED <<watcher, signalled>>

runServer == connect \/ ping \/ listen \/ closed \/ await \/ closePools

Next ==
    \/ runServer \/ notify \/ shutdown \/ signal
    \/ \E c \in Clients : (accept(c) \/ answer(c)) /\ UNCHANGED processVars
=============================================================================
