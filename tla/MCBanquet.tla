----------------------------- MODULE MCBanquet ------------------------------
(* Symmetry for Banquet.                                                   *)
EXTENDS Banquet

Symmetry == Permutations(Players)

=============================================================================
