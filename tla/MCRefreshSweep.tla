--------------------------- MODULE MCRefreshSweep ---------------------------
(* Instances of the refresh for TLC: every account with the company c1. *)
EXTENDS RefreshSweepProps, TLC

CONSTANT c1

MCOwner == [a \in Accounts |-> c1]
=============================================================================
