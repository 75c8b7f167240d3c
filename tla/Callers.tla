------------------------------ MODULE Callers -------------------------------
(***************************************************************************)
(* Who the api serves, as the job requests and the accounts both see it.   *)
(***************************************************************************)
CONSTANTS
    Tenants,
    Requests     \* slots for the requests that are under way
=============================================================================
