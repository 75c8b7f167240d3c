----------------------------- MODULE MCAttempts -----------------------------
EXTENDS Attempts

CONSTANT q1

OneQueue == <<q1>>
=============================================================================
