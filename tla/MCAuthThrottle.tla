--------------------------- MODULE MCAuthThrottle ---------------------------
(* AuthThrottle for TLC. *)
EXTENDS AuthThrottle, TLC

Symmetry == Permutations(Conns) \cup Permutations(Ips)
=============================================================================
