----------------------------- MODULE MCAccounts -----------------------------
EXTENDS Accounts, TLC

CONSTANTS d

Symmetry ==
    Permutations(Tenants \ {d}) \cup Permutations(Users) \cup Permutations(Emails)
    \cup Permutations(Tokens) \cup Permutations(Keys) \cup Permutations(Requests)
=============================================================================
