------------------------------ MODULE MCStores ------------------------------
(* Three directories, two processes, and four ways the machine is used.    *)
EXTENDS Stores, TLC
CONSTANTS home, side, copy
MCRank == home :> 1 @@ side :> 2 @@ copy :> 3

\* Two commands of any kind with what the user does around them, or three by themselves.
Anything    == [may |-> Commands \cup Acts, commands |-> 2, acts |-> 2]
Undisturbed == [may |-> Commands, commands |-> 3, acts |-> 0]

\* Linked worktrees come, move and go while projects are opened and rekeyed.
Moving == [may |-> {"open", "rekey", "add", "move", "delete"}, commands |-> 4, acts |-> 3]

\* Stores are copied and lost after the viewer's user removed the project.
Removing == [may |-> {"refresh", "forget", "open", "rekey", "copy", "delete"},
             commands |-> 4, acts |-> 2]

MCUses == {Anything, Undisturbed, Moving, Removing}
Swapped == Permutations(Procs)
=============================================================================
