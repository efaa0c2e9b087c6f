------------------------------ MODULE MCHistory ------------------------------
(* Two sessions that share a worktree, and the commands that read what they *)
(* recorded.                                                                *)
EXTENDS Blame, Bisect, TLC

CONSTANTS a, b

\* Turns with all that agents do in them.
Busy(kind, time) ==
    [records |-> kind, turns |-> 2, edits |-> 3, actions |-> 2, intents |-> 1, time |-> time]

\* Turns that overlap in groups, and edits.
Grouped ==
    [records |-> "precise", turns |-> 3, edits |-> 2, actions |-> 0, intents |-> 0, time |-> 9]

MCSizes == {Busy("precise", 8), Busy("legacy", 7), Grouped}

Symmetry == Permutations(Sessions)
=============================================================================
