----------------------------- MODULE MCDispatch -----------------------------
(***************************************************************************)
(* The instances of Dispatch that TLC checks.                              *)
(***************************************************************************)
EXTENDS Dispatch, TLC

CONSTANTS q1, q2

OneQueue == <<q1>>

TwoQueues == <<q1, q2>>

Symmetry == Permutations(Ids) \cup Permutations(Workers) \cup Permutations(Requests)
=============================================================================
