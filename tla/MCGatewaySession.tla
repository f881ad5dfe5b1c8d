------------------------- MODULE MCGatewaySession -------------------------
(* Instances of GatewaySession for TLC. *)
EXTENDS GatewaySession, TLC

Symmetry == Permutations(Uins) \cup Permutations(Fds)
===========================================================================
