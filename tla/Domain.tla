------------------------------- MODULE Domain -------------------------------
(***************************************************************************)
(* The names the components of the pipeline share.                         *)
(***************************************************************************)
EXTENDS Callers

CONSTANTS
    Ids,         \* job ids (uuid.New never repeats one)
    NoId,        \* what a worker or request that has no job yet holds
    QueueNames   \* every queue_name a job may be submitted to

ASSUME NoIdAssumption == NoId \notin Ids
=============================================================================
