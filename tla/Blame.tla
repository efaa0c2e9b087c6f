------------------------------- MODULE Blame -------------------------------
(***************************************************************************)
(* `turnal blame`: which turn, and which action in it, a line of a file    *)
(* comes from, derived from the checkpoints, the snapshots of actions and  *)
(* the times of the records alone.  A line is named by its text, and texts *)
(* do not repeat: a line that stays keeps its origin, and a line that was *)
(* moved is found by its text (Moved).                                     *)
(***************************************************************************)
EXTENDS TurnHistory

-----------------------------------------------------------------------------
(* Turns that overlap (concurrentTurnGroups, concurrentTurnAttributions)   *)

\* Mutant of Overlap: a turn that ended before the other began overlaps it too.
OverlapOrBefore(i, j) == StartOf(i) <= EndOf(j)

Overlap(i, j) == StartOf(i) <= EndOf(j) /\ StartOf(j) <= EndOf(i)

\* The turns connected with i by overlapping ones.
Group(i) ==
    LET near(S) == S \cup {j \in Complete : \E k \in S : Overlap(j, k)}
        within[n \in 0 .. Len(turns)] == IF n = 0 THEN {i} ELSE near(within[n - 1])
    IN  within[Len(turns)]

SessionsOf(G) == {turns[i].session : i \in G}
IsGroup(G) == Cardinality(SessionsOf(G)) > 1
Earliest(G) ==
    CHOOSE i \in G : \A j \in G : \/ StartOf(i) < StartOf(j)
                                  \/ StartOf(i) = StartOf(j) /\ EndOf(i) <= EndOf(j)

OrderKnown(G) ==
    \A i, j \in G : turns[i].session # turns[j].session =>
        /\ ~SameInstant(turns[i].preAt, turns[j].preAt)
        /\ ~SameInstant(turns[i].postAt, turns[j].postAt)

\* Mutant of Unfinished: turns that never finished are not looked at.
UnfinishedNone(i) == {}

\* Unfinished turns that had started before the end of i.
Unfinished(i) ==
    {j \in Incomplete : turns[j].session # turns[i].session /\ StartOf(j) <= EndOf(i)}

\* What else was going on during a turn: which sessions, whether the order of
\* checkpoints is unknown, and the earliest turn that had begun before it.
Fact(i) ==
    LET first(S) == IF S = {} THEN 0 ELSE CHOOSE j \in S : \A k \in S : StartOf(j) <= StartOf(k)
        sooner(S) == {j \in S : StartOf(j) < StartOf(i)}
        fact(G, open, unsure) ==
            [others |-> SessionsOf(G \cup open) \ {turns[i].session},
             unknown |-> ~OrderKnown(G) \/ unsure # {},
             base |-> first(sooner((IF OrderKnown(G) THEN {Earliest(G)} ELSE {}) \cup (open \ unsure)))]
        group == Group(i)
    IN  fact(IF IsGroup(group) THEN group ELSE {i}, Unfinished(i),
             {j \in Unfinished(i) : SameInstant(turns[j].preAt, turns[i].preAt)})

-----------------------------------------------------------------------------
(* The actions of a turn and their intents (capturedActions,               *)
(* associateActionIntents)                                                 *)

ResultOf(i, k) == CHOOSE r \in Of(i, "result") : turns[i].events[r].call = k
Changed(i, k) == turns[i].events[k].snap # turns[i].events[ResultOf(i, k)].snap

\* The first action that never got its result, 0 when all did.
FirstRunning(i) == IF Running(i) = {} THEN 0 ELSE Min(Running(i))

\* The actions in the order of their calls, up to the first whose result came
\* after the call of an action without one.
Safe(i) ==
    LET done == SetToSortSeq(Of(i, "call") \ Running(i), <)
        late == {n \in DOMAIN done : FirstRunning(i) # 0 /\ ResultOf(i, done[n]) > FirstRunning(i)}
    IN  IF late = {} THEN done ELSE SubSeq(done, 1, Min(late) - 1)

\* The intent the call names, or else the last before it; for a change without
\* one, the first stated between its result and the call of the next change
\* that no call had before it.
IntentOf(i, k) ==
    LET e == turns[i].events
        earlier(c) == {n \in Of(i, "intent") : n < c}
        used == {e[c].intent : c \in Of(i, "call")} \cup {MaxOf(earlier(c)) : c \in ToSet(Safe(i))}
        limit == {c \in ToSet(Safe(i)) : c > k /\ Changed(i, c)}
        later == {n \in Of(i, "intent") \ used : n > ResultOf(i, k) /\ \A c \in limit : n <= c}
    IN  IF e[k].intent # 0 THEN [seq |-> e[k].intent, timing |-> "before"]
        ELSE IF earlier(k) # {} THEN [seq |-> Max(earlier(k)), timing |-> "before"]
        ELSE IF Changed(i, k) /\ later # {} THEN [seq |-> Min(later), timing |-> "after"]
        ELSE [seq |-> 0, timing |-> "none"]

Segment(i, from, to, action, ambiguous) ==
    [turn |-> i, from |-> from, to |-> to, action |-> action, ambiguous |-> ambiguous,
     concurrent |-> FALSE]

\* Actions of which each was called before an earlier one had its result.
Runs(i) ==
    FoldLeft(LAMBDA gs, k : IF gs # <<>> /\ \E m \in Last(gs) : k < ResultOf(i, m)
                            THEN Append(Front(gs), Last(gs) \cup {k}) ELSE Append(gs, {k}),
             <<>>, Safe(i))

\* What the actions of a run leave.
After(i, run) == turns[i].events[Max({ResultOf(i, k) : k \in run})].snap
BeforeRun(i, runs, n) == IF n = 1 THEN turns[i].pre ELSE After(i, runs[n - 1])

\* The snapshot of the first call that is not in a run.
Rest(i, cut) ==
    LET over == {k \in Of(i, "call") \ (Running(i) \cup ToSet(Safe(i))) : k < cut}
    IN  turns[i].events[Min(over \cup {cut})].snap

\* turnSegments: from the pre checkpoint through the snapshots of the actions to
\* the post checkpoint.  What happened between two runs is the turn's, and so is
\* a run of more than one action, and all that follows the call of an action
\* without a result or of one that ran at that time.
TurnSegments(i) ==
    LET stated == Of(i, "intent") # {}
        single(run) == Cardinality(run) = 1
        acted(before, run, first) ==
            << Segment(i, before, turns[i].events[first].snap, 0, stated),
               Segment(i, turns[i].events[first].snap, After(i, run), IF single(run) THEN first ELSE 0,
                       ~single(run) \/ (stated /\ IntentOf(i, first).seq = 0)) >>
        last(before, cut) ==
            IF cut = 0 THEN << Segment(i, before, turns[i].post, 0, stated) >>
            ELSE << Segment(i, before, Rest(i, cut), 0, stated),
                    Segment(i, Rest(i, cut), turns[i].post, 0, TRUE) >>
        through(runs) ==
            FlattenSeq([n \in DOMAIN runs |-> acted(BeforeRun(i, runs, n), runs[n], Min(runs[n]))]) \o
            last(BeforeRun(i, runs, Len(runs) + 1), FirstRunning(i))
    IN  through(Runs(i))

-----------------------------------------------------------------------------
(* The segments of a query (changeSegments)                                *)

Concurrently(segment) == [segment EXCEPT !.concurrent = TRUE]

\* A group is one concurrent segment, from the earliest checkpoint that any of
\* its members knows of to the latest turn's post checkpoint.
GroupSegment(G, latest) ==
    LET first(bases) == CHOOSE j \in bases : \A k \in bases : StartOf(j) <= StartOf(k)
        base == first({Earliest(G)} \cup ({Fact(i).base : i \in G} \ {0}))
    IN  <<Concurrently(Segment(latest, turns[base].pre, turns[latest].post, 0, FALSE))>>

\* A turn on its own; what changed since a turn that was already under way is
\* concurrent too.
OwnSegments(i) ==
    LET gap(base) == IF base = 0 THEN <<>>
                     ELSE <<Concurrently(Segment(i, turns[base].pre, turns[i].pre, 0, FALSE))>>
        given(fact, own) == IF fact.others = {} THEN own
                            ELSE gap(fact.base) \o [n \in DOMAIN own |-> Concurrently(own[n])]
    IN  given(Fact(i), TurnSegments(i))

Refused(session) ==
    \E i \in Complete : session \in {"", turns[i].session} /\ Fact(i).unknown

\* Only a query of all sessions collapses groups.
Segments(session) ==
    LET groups == IF session # "" THEN {} ELSE {G \in {Group(i) : i \in Complete} : IsGroup(G)}
        spanned(list, G) == {n \in DOMAIN list : \E a, b \in DOMAIN list : /\ {list[a], list[b]} \subseteq G
                                                                          /\ a <= n /\ n <= b}
        grouped(n, span, G, i) == IF n = Max(span) THEN GroupSegment(G, i) ELSE <<>>
        at(list, n, around) ==
            IF around = {} THEN OwnSegments(list[n])
            ELSE LET G == CHOOSE H \in around : TRUE IN grouped(n, spanned(list, G), G, list[n])
        all(list) == [n \in DOMAIN list |-> at(list, n, {G \in groups : n \in spanned(list, G)})]
    IN  FlattenSeq(all(Selected(session)))

-----------------------------------------------------------------------------
(* Replaying a file through the segments (replaySteps, replayPath)         *)

Shared(old, new) == ToSet(old) \cap ToSet(new)

\* git diff --name-status with rename detection: a file that went and one that
\* came are a rename when they share lines.
RenamedTo(from, to, q) ==
    {p \in DOMAIN from \ DOMAIN to : q \in DOMAIN to \ DOMAIN from /\ Shared(from[p], to[q]) # {}}

\* prePathForSegment
PrePath(segment, q) ==
    IF RenamedTo(segment.from, segment.to, q) # {}
    THEN CHOOSE p \in RenamedTo(segment.from, segment.to, q) : TRUE ELSE q
Touched(segment, q) ==
    \/ PrePath(segment, q) # q
    \/ (q \in DOMAIN segment.from) # (q \in DOMAIN segment.to)
    \/ LinesOf(segment.from, q) # LinesOf(segment.to, q)

\* The file's name before each of the segments, from the name it has in the end.
Steps(path, segments) ==
    LET N == Len(segments)
        name[n \in 1 .. N + 1] ==
            IF n > N THEN path ELSE LET after == name[n + 1] IN PrePath(segments[n], after)
    IN  [n \in 1 .. N |-> [seg |-> segments[n], pre |-> name[n], post |-> name[n + 1]]]

Place(seq, l) == CHOOSE n \in DOMAIN seq : seq[n] = l

\* The shared lines that stay: as many as there are in one order in both.
Staying(old, new) ==
    LET inorder(S) == \A l, m \in S : Place(old, l) < Place(old, m) <=> Place(new, l) < Place(new, m)
        some == {S \in SUBSET Shared(old, new) : inorder(S)}
    IN  CHOOSE S \in some : \A T \in some : Cardinality(T) <= Cardinality(S)

\* The part of seq after the n-th line that stays and before the next.
Between(seq, stay, n) ==
    SubSeq(seq, IF n = 0 THEN 1 ELSE Place(seq, stay[n]) + 1,
           IF n = Len(stay) THEN Len(seq) ELSE Place(seq, stay[n + 1]) - 1)

Hunk(removed, added, from) ==
    [start |-> from - IF removed = <<>> THEN 1 ELSE 0, removed |-> removed, added |-> added]

Hunks(old, new, stay) ==
    [n \in 1 .. Len(stay) + 1 |->
        Hunk(Between(old, stay, n - 1), Between(new, stay, n - 1),
             IF n = 1 THEN 1 ELSE Place(old, stay[n - 1]) + 1)]

\* git diff --unified=0: what is removed and added before, between and after the
\* lines that stay, of which git keeps as many as it can.
Diff(old, new) ==
    LET kept == Staying(old, new)
        stay == SelectSeq(old, LAMBDA l : l \in kept)
    IN  SelectSeq(Hunks(old, new, stay), LAMBDA h : h.removed # <<>> \/ h.added # <<>>)

Origin(kind, turn, action) == [kind |-> kind, turn |-> turn, action |-> action]
Baseline(lines) == [n \in DOMAIN lines |-> Origin("baseline", 0, 0)]

\* changeSegment.origin
OriginIn(segment) ==
    IF segment.concurrent THEN Origin("concurrent", 0, 0)
    ELSE Origin(IF segment.ambiguous THEN "ambiguous" ELSE "turn", segment.turn, segment.action)

\* movedOriginPool: the origins of the removed lines, by their text.
Moved(origins, hunks) ==
    UNION {{[text |-> hunks[h].removed[n], origin |-> origins[hunks[h].start + n - 1]] :
               n \in DOMAIN hunks[h].removed} : h \in DOMAIN hunks}

\* hunkApplyIndex
ApplyIndex(hunk) == IF hunk.removed = <<>> THEN hunk.start ELSE hunk.start - 1

\* applyHunks: hunk by hunk, each shifted by what the ones before it added; a line
\* that was removed elsewhere keeps its origin, others get the segment's.
ApplyHunks(origins, hunks, origin) ==
    LET moved == Moved(origins, hunks)
        originOf(text) == IF \E m \in moved : m.text = text
                          THEN (CHOOSE m \in moved : m.text = text).origin ELSE origin
        applied[n \in 0 .. Len(hunks)] ==
            IF n = 0 THEN origins
            ELSE LET before == applied[n - 1]
                     hunk == hunks[n]
                     index == ApplyIndex(hunk) + Len(before) - Len(origins)
                 IN  SubSeq(before, 1, index) \o [k \in DOMAIN hunk.added |-> originOf(hunk.added[k])]
                         \o SubSeq(before, index + Len(hunk.removed) + 1, Len(before))
    IN  applied[Len(hunks)]

\* One step: when the file is not what the previous step left, it is taken from
\* the checkpoint anew, with no origins.
Play(acc, step) ==
    LET pre == LinesOf(step.seg.from, step.pre)
        post == LinesOf(step.seg.to, step.post)
        there == step.pre \in DOMAIN step.seg.from
        known == IF acc.there = there /\ acc.lines = pre THEN acc.origins ELSE Baseline(pre)
    IN  IF ~Touched(step.seg, step.post)
        THEN [there |-> there, lines |-> pre, origins |-> known]
        ELSE [there |-> step.post \in DOMAIN step.seg.to, lines |-> post,
              origins |-> ApplyHunks(known, Diff(pre, post), OriginIn(step.seg))]

Replay(path, segments) ==
    LET steps == Steps(path, segments)
        first == LinesOf(steps[1].seg.from, steps[1].pre)
        played[n \in 0 .. Len(steps)] ==
            IF n = 0
            THEN [there |-> steps[1].pre \in DOMAIN steps[1].seg.from,
                  lines |-> first, origins |-> Baseline(first)]
            ELSE LET acc == played[n - 1] IN Play(acc, steps[n])
    IN  played[Len(steps)]

\* An answer has the lines of the file and the origin of each.
Answer(is, lines) == [is |-> is, lines |-> lines]

\* The answer for a replay that ended with a file next to the latest checkpoint;
\* "mismatch" is the error when they differ.
Answered(got, latest, path) ==
    IF ~got.there \/ path \notin DOMAIN latest THEN Answer("no file", <<>>)
    ELSE IF got.lines # latest[path] \/ Len(got.origins) # Len(got.lines) THEN Answer("mismatch", <<>>)
    ELSE Answer("origins", [n \in DOMAIN got.lines |-> [line |-> latest[path][n]] @@ got.origins[n]])

\* Engine.Compute for every line of a file.
Compute(session) ==
    LET segments == Segments(session)
        latest   == turns[Last(Selected(session))].post
        refused  == Refused(session)
    IN  [path \in Paths |->
            IF segments = <<>> THEN Answer("no history", <<>>)
            ELSE IF refused THEN Answer("order unknown", <<>>)
            ELSE Answered(Replay(path, segments), latest, path)]

-----------------------------------------------------------------------------
(* Properties                                                              *)

Puts(l) == {e \in DOMAIN edits : l \in edits[e].put}

\* A line that `turnal blame` gives to a turn was added, or brought from another
\* file, in that turn, and a line that it gives to an action by that action, however turns of
\* several sessions, their actions and their intents overlapped, whichever of
\* them never finished, and however coarse the times of the records are.
OriginsTrue ==
    Fresh => \A session \in Queries : \A answer \in Range(Compute(session)) :
        \A origin \in ToSet(answer.lines) :
            origin.kind \in {"turn", "ambiguous"} =>
                \E e \in Puts(origin.line) : /\ edits[e].turn = origin.turn
                                             /\ origin.action \in {0, edits[e].action}

OnlyTurnsEdited == \A e \in DOMAIN edits : edits[e].turn # User

\* No other session's turn was under way in turn i.
Alone(i) ==
    /\ i \in Complete
    /\ \A j \in DOMAIN turns \ {i} : \/ turns[j].session = turns[i].session
                                     \/ turns[j].preAt > turns[i].postAt
                                     \/ j \in Complete /\ turns[j].postAt < turns[i].preAt

\* The replay of the segments always arrives at the latest checkpoint.  And when
\* nobody edited the files between turns, a query of all sessions gives every
\* line added since that only turns without overlap put there to one of those turns.
BlameAnswers ==
    Fresh => \A session \in Queries : \A answer \in Range(Compute(session)) :
        /\ answer.is # "mismatch"
        /\ session = "" /\ size.records = "precise" /\ OnlyTurnsEdited =>
               \A origin \in ToSet(answer.lines) :
                   (origin.line # 0 /\ \A e \in Puts(origin.line) : Alone(edits[e].turn)) =>
                       \E e \in Puts(origin.line) : origin.turn = edits[e].turn
=============================================================================
