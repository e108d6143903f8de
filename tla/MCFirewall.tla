----------------------------- MODULE MCFirewall -----------------------------
(* The firewall and its audit log: one connection being checked at a time,   *)
(* two interchangeable recorders that administrate and log.                  *)
EXTENDS Firewall
CONSTANTS t1, t2
Swap == Permutations(Recorders)
=============================================================================
