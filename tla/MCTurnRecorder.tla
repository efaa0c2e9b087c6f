--------------------------- MODULE MCTurnRecorder ---------------------------
(* TurnRecorder and its readers on small instances. *)
EXTENDS Readers, TLC

\* Every session runs in the primary worktree.
HomeInOne == [s \in Sessions |-> Primary]

\* The first session runs in the primary worktree, the others in a linked one.
HomeInTwo == [s \in Sessions |-> IF s = "a" THEN "main" ELSE "linked"]

Symmetry == Permutations(Procs)
=============================================================================
