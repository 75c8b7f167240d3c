----------------------------- MODULE HttpServer -----------------------------
(***************************************************************************)
(* The part of net/http's Server that runServer and serveMetrics rely on.  *)
(* Shutdown closes the listener, at which ListenAndServe returns at once   *)
(* with ErrServerClosed; Shutdown itself returns when no request is left,  *)
(* or when the deadline of its context passes.  A ListenAndServe that      *)
(* comes after Shutdown returns immediately too.                           *)
(***************************************************************************)
CONSTANT Clients   \* one request each

VARIABLES
    listener,   \* "new" until ListenAndServe, then "open", at last "closed"
    inflight,   \* the clients whose requests are being handled
    shut,       \* the call of Shutdown
    cut         \* history: clients whose requests the end of the process cut off

serverVars == <<listener, inflight, shut, cut>>

ServerTypeOK ==
    /\ listener \in {"new", "open", "closed"}
    /\ inflight \subseteq Clients
    /\ shut \in {"no", "draining", "drained", "expired"}
    /\ cut \subseteq Clients

ServerInit == listener = "new" /\ inflight = {} /\ shut = "no" /\ cut = {}

accept(c) ==
    /\ listener = "open"
    /\ c \notin inflight
    /\ inflight' = inflight \cup {c}
    /\ UNCHANGED <<listener, shut, cut>>

answer(c) ==
    /\ c \in inflight
    /\ inflight' = inflight \ {c}
    /\ UNCHANGED <<listener, shut, cut>>

ShutdownBegin ==
    /\ shut = "no"
    /\ shut' = "draining"
    /\ listener' = "closed"
    /\ UNCHANGED <<inflight, cut>>

(* All requests are answered, or the deadline passes.                      *)
ShutdownEnd ==
    /\ shut = "draining"
    /\ \/ inflight = {} /\ shut' = "drained"
       \/ shut' = "expired"
    /\ UNCHANGED <<listener, inflight, cut>>

(* The process ends: what is still being handled gets no answer.           *)
ServerDies ==
    /\ listener' = "closed"
    /\ inflight' = {}
    /\ cut' = inflight
    /\ UNCHANGED shut
=============================================================================
