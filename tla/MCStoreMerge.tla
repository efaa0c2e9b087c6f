---------------------------- MODULE MCStoreMerge ----------------------------
EXTENDS StoreMerge, TLC
CONSTANTS a, b, a1, b1
MCOwner == a1 :> a @@ b1 :> b
MCTurns == a1 :> 2 @@ b1 :> 1
Swapped == Permutations(Procs)
=============================================================================
