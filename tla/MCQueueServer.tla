--------------------------- MODULE MCQueueServer ---------------------------
(***************************************************************************)
(* Small instances of QueueServer.                                         *)
(***************************************************************************)
EXTENDS QueueServer, TLC

CONSTANTS f1, f2, f3, u1, u2

\* Every server has its own group.
Separate == [g \in Servers |-> g]

\* Group 3 has been merged into server 1.
Merged == [g \in Servers \cup {3} |-> IF g = 3 THEN 1 ELSE g]

Symmetry == Permutations(Fds) \cup Permutations(Uins)

=============================================================================
