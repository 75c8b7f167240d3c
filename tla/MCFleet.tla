------------------------------- MODULE MCFleet ------------------------------
EXTENDS Fleet

CONSTANTS q1, s1, s2, t1, t2

OneQueue == <<q1>>

(* A schedule that fires, and one that is skipped in every pass.           *)
Kinds == [s \in Schedules |-> IF s = s1 THEN "periodic" ELSE "malformed"]

Owners == [s \in Schedules |-> IF s = s1 THEN t1 ELSE t2]
=============================================================================
