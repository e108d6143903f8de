------------------------------ MODULE MCSpool ------------------------------
(* Spool and its inductive invariant on small instances: see the Spool*.cfg *)
(* files for the bounds.                                                    *)
EXTENDS SpoolInduction
=============================================================================
