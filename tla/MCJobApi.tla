------------------------------ MODULE MCJobApi ------------------------------
EXTENDS JobApi, TLC

CONSTANTS q1, t1, t2, u1, u2, e1, e2, k1, k2, s1

OneQueue == <<q1>>

(* Two users; the first is signed in and both have a key.                  *)
TwoAccounts == u1 :> [tenant_id |-> t1, email |-> e1] @@ u2 :> [tenant_id |-> t2, email |-> e2]

Holders == s1 :> u1 @@ k1 :> u1 @@ k2 :> u2

Symmetry == Permutations(Requests)
=============================================================================
