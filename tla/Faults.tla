------------------------------- MODULE Faults -------------------------------
(***************************************************************************)
(* What the environment may do to the processes, counted so that a run can *)
(* bound it and a property can ask that it did not happen.                 *)
(*   crashes  a worker gives up on the id it holds: the process dies,      *)
(*            SIGTERM cancels its context so that every later call fails,  *)
(*            a handler panics, or one call returns an error;              *)
(*   aborts   a request of the api or the scheduler stops between two of   *)
(*            its calls, for the same reasons or a client that went away;  *)
(*   resends  the reply to a Redis write is lost and the client library    *)
(*            sends the command again.                                     *)
(* A call that took effect and then reported an error is the effect        *)
(* followed by a crash or an abort.                                        *)
(***************************************************************************)
EXTENDS Integers

CONSTANTS MaxCrashes, MaxAborts, MaxResends

ASSUME FaultBoundsAssumption ==
    MaxCrashes \in Nat /\ MaxAborts \in Nat /\ MaxResends \in Nat

VARIABLES crashes, aborts, resends

faultVars == <<crashes, aborts, resends>>

FaultTypeOK ==
    /\ crashes \in 0..MaxCrashes
    /\ aborts \in 0..MaxAborts
    /\ resends \in 0..MaxResends

FaultInit == crashes = 0 /\ aborts = 0 /\ resends = 0

Crash ==
    /\ crashes < MaxCrashes
    /\ crashes' = crashes + 1
    /\ UNCHANGED <<aborts, resends>>

Abort ==
    /\ aborts < MaxAborts
    /\ aborts' = aborts + 1
    /\ UNCHANGED <<crashes, resends>>

Resend ==
    /\ resends < MaxResends
    /\ resends' = resends + 1
    /\ UNCHANGED <<crashes, aborts>>
=============================================================================
