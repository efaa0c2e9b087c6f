------------------------------- MODULE Bisect -------------------------------
(***************************************************************************)
(* `turnal bisect`: between which two recorded states of the worktree the  *)
(* checks of the repository went from passing to failing, and which turn,  *)
(* if exactly one can have, made the change.                               *)
(***************************************************************************)
EXTENDS TurnHistory

\* --session and --path
Filters == {[session |-> s, path |-> ""] : s \in Queries}
               \cup {[session |-> "", path |-> p] : p \in Paths}

FileOf(files, p) == IF p \in DOMAIN files THEN <<files[p]>> ELSE <<>>

\* exclusionReason
Excluded(i, filter) ==
    \/ filter.session \notin {"", turns[i].session}
    \/ filter.path # "" /\ FileOf(turns[i].pre, filter.path) = FileOf(turns[i].post, filter.path)

\* The checkpoints of the turns that are searched, by the times of the turns; ties
\* keep the order of the turns, and a pre checkpoint before the post one.
Candidates(filter) ==
    LET list == Selected("")
        state(n, phase, tree, at, rank) ==
            [turn |-> list[n], phase |-> phase, tree |-> tree, at |-> at, rank |-> rank]
        states(n) == IF Excluded(list[n], filter) THEN <<>>
                     ELSE << state(n, "pre", turns[list[n]].pre, StartOf(list[n]), 2 * n),
                             state(n, "post", turns[list[n]].post, EndOf(list[n]), 2 * n + 1) >>
        sooner(s, t) == \/ s.at < t.at
                        \/ s.at = t.at /\ s.rank < t.rank
    IN  SortSeq(FlattenSeq([n \in DOMAIN list |-> states(n)]), sooner)

\* NewPlan: states in a row with the same content are one, the first.
States(filter) ==
    LET all == Candidates(filter)
        kept == {n \in DOMAIN all : n = 1 \/ all[n - 1].tree # all[n].tree}
        order == SetToSortSeq(kept, <)
    IN  [n \in DOMAIN order |-> all[order[n]]]

\* Search: halving between a state that passes and one that fails.
Search(fails, good, bad) ==
    LET window[n \in 0 .. bad] ==
          IF n = 0 THEN <<good, bad>>
          ELSE LET w == window[n - 1]
                   middle == w[1] + (w[2] - w[1]) \div 2
               IN  IF w[2] - w[1] <= 1 THEN w
                   ELSE IF fails[middle] THEN <<w[1], middle>> ELSE <<middle, w[2]>>
    IN  window[bad]

\* Mutant of Participants: turns that never finished are not looked at.
ParticipantsFinished(lastGood, firstBad) ==
    (IF firstBad.phase = "post" THEN {firstBad.turn} ELSE {})
        \cup {i \in Complete : StartOf(i) < firstBad.at /\ EndOf(i) > lastGood.at}

\* The turns that can have changed the workspace between two states.
Participants(lastGood, firstBad) ==
    (IF firstBad.phase = "post" THEN {firstBad.turn} ELSE {})
        \cup {i \in Complete : StartOf(i) < firstBad.at /\ EndOf(i) > lastGood.at}
        \cup {i \in Incomplete : StartOf(i) < firstBad.at}

\* classifyWindow
Verdict(lastGood, firstBad, filter) ==
    LET active == Participants(lastGood, firstBad)
    IN  IF active = {} THEN "outside recorded turns"
        ELSE IF /\ active = {firstBad.turn} /\ firstBad.phase = "post"
                /\ firstBad.turn \in Complete /\ ~Excluded(firstBad.turn, filter)
             THEN "turn"
        ELSE "ambiguous"

-----------------------------------------------------------------------------
(* Properties                                                              *)

\* What a check of the repository may look for.
Has(files, l) == \E p \in DOMAIN files : l \in ToSet(files[p])

\* Whether edits of one author can have made one state into another.
MadeBy(author, before, after) ==
    \A p \in Paths :
        LET old == ToSet(LinesOf(before, p))
            new == ToSet(LinesOf(after, p))
        IN  /\ \A l \in new \ old : \E e \in DOMAIN edits : edits[e].turn = author /\ l \in edits[e].put
            /\ \A l \in old \ new : \E e \in DOMAIN edits : edits[e].turn = author /\ l \in edits[e].cut

\* What a search that ended between two states says of the change.
Blames(lastGood, firstBad, filter) ==
    LET verdict == Verdict(lastGood, firstBad, filter)
    IN  /\ verdict = "turn" => MadeBy(firstBad.turn, lastGood.tree, firstBad.tree)
        /\ verdict = "outside recorded turns" => MadeBy(User, lastGood.tree, firstBad.tree)

\* A search of the states ends with neighbours of which the first passes.
Ends(window, states, fails, filter) ==
    /\ window[2] = window[1] + 1
    /\ ~fails[window[1]] /\ fails[window[2]]
    /\ Blames(states[window[1]], states[window[2]], filter)

SearchesEnd(states, fails, filter) ==
    \A good, bad \in DOMAIN states : good < bad /\ ~fails[good] /\ fails[bad] =>
        Ends(Search(fails, good, bad), states, fails, filter)

EveryCheck(states, filter) ==
    \A l \in 0 .. Len(edits), broken \in BOOLEAN :
        SearchesEnd(states, [n \in DOMAIN states |-> Has(states[n].tree, l) = broken], filter)

\* `turnal bisect` ends with two neighbouring states of which one passes the check
\* and the next fails it.  The turn it names made all the difference between
\* them, and when it names none nor several, no turn made any of it, however the
\* turns overlapped, were killed or left out by a filter; with records that keep the
\* time of each checkpoint.
BreakBlamed ==
    Fresh /\ size.records = "precise" => \A filter \in Filters : EveryCheck(States(filter), filter)
=============================================================================
