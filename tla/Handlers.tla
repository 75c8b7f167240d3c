------------------------------ MODULE Handlers ------------------------------
(***************************************************************************)
(* internal/jobs: what becomes of a dispatch according to the job_type and *)
(* the payload.  Payloads are told apart as far as the handlers do.        *)
(***************************************************************************)

JobTypes == {"echo", "always_fail", "send_email", "export_pdf", "reindex"}

(* What a request may carry: no payload, null, a JSON value that is not an *)
(* object, and objects without and with a recipient in "to".               *)
Payloads == {"absent", "null", "scalar", "plain", "addressed"}

(* The two columns: applyDefaults gives an absent payload the value {}.    *)
applyDefaults(payload) == IF payload = "absent" THEN "plain" ELSE payload

(* The registered types; no type is registered twice.                      *)
DefaultRegistry == {"echo", "always_fail", "send_email", "export_pdf"}

(* Mutant of decodePayload: null is refused like any other payload that is *)
(* no object.                                                              *)
decodePayload_NullRefused(raw) == IF raw \in {"scalar", "null"} THEN {} ELSE {raw}

(* The map a payload decodes to, or none.                                  *)
decodePayload(raw) ==
    CASE raw = "scalar" -> {}
      [] raw = "null" -> {"plain"}
      [] OTHER -> {raw}

(* Whether a handler accepts a map.                                        *)
Handle(type, map) ==
    CASE type = "always_fail" -> FALSE
      [] type = "send_email" -> map = "addressed"
      [] OTHER -> TRUE

(* Mutant of DispatchResult: an unknown type is let through.               *)
DispatchResult_Lenient(b) ==
    IF \E map \in decodePayload(b.payload) : Handle(b.job_type, map)
    THEN "ok" ELSE "error"

(* Registry.Dispatch: get the handler, decode, handle.                     *)
DispatchResult(b) ==
    IF /\ b.job_type \in DefaultRegistry
       /\ \E map \in decodePayload(b.payload) : Handle(b.job_type, map)
    THEN "ok" ELSE "error"

-----------------------------------------------------------------------------
(* The jobs no attempt can make succeed: nobody registered the type, the   *)
(* payload is no object, or the handler asks for more than it has.         *)
Unfit(b) ==
    \/ b.job_type \in {"always_fail", "reindex"}
    \/ b.payload = "scalar"
    \/ b.job_type = "send_email" /\ b.payload # "addressed"
=============================================================================
