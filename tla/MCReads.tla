------------------------------ MODULE MCReads -------------------------------
EXTENDS Reads, TLC

CONSTANTS q1, q2

OneQueue == <<q1>>

Symmetry == Permutations(Ids) \cup Permutations(Tenants)
=============================================================================
