----------------------------- MODULE MCMigrate ------------------------------
EXTENDS Migrate, TLC

CONSTANTS old, new, other

(* A release that left a gap, and two commands of the one that filled it.  *)
TwoReleases == old :> {1, 4} @@ new :> {1, 2, 3, 4} @@ other :> {1, 2, 3, 4}
=============================================================================
