------------------------------ MODULE Readers ------------------------------
(***************************************************************************)
(* What the commands that only read tell of the turns TurnRecorder writes: *)
(* `turnal recall`, `sessions`, `log` (from refs and events or from the    *)
(* query index), the viewer and `doctor`.                                  *)
(*                                                                         *)
(* No reader takes a lock, and each puts a turn together its own way: from *)
(* the events, from the refs or from both, by the number of the turn or by *)
(* its stream and number.                                                  *)
(***************************************************************************)
EXTENDS TurnRecorder, FiniteSetsExt

\* The refs of a turn of a stream.
PhasesOf(st, t) == {r.phase : r \in {c \in refs : c.home = st[1] /\ c.session = st[2] /\ c.turn = t}}

\* A session's log is its streams in all worktrees; a partial line makes it unreadable.
StreamsOf(s) == {st \in Streams : st[2] = s}

Legible(s) == \A st \in StreamsOf(s) : ~torn[st]

EventsOf(st, t) == {i \in DOMAIN stream[st] : stream[st][i].turn = t}

----------------------------------------------------------------------------
(* recall: a turn from its events, which must come in the one order        *)

Unreadable == {"unreadable"}

\* The part of a turn an event brings.
PartOf(e) == CASE e.kind = "turn.start" -> "start"
               [] e.kind = "checkpoint" -> e.phase
               [] e.kind = "turn.finish" -> "finish"
               [] OTHER -> "prompt"

\* What must have been seen before a part, and nothing else.
Before == [start |-> {{}}, pre |-> {{"start"}}, finish |-> {{"start", "pre"}},
           post |-> {{"start", "pre", "finish"}}, prompt |-> {{}, {"start", "pre"}}]

\* The range of events a post checkpoint stands for begins after its pre checkpoint.
Continues(st, i) ==
    LET e == stream[st][i]
        earlier == {j \in 1 .. i - 1 : stream[st][j].kind = "checkpoint"}
    IN  earlier # {} /\ LET last == stream[st][Max(earlier)]
                        IN  last.turn = e.turn /\ last.phase = "pre"

\* A checkpoint's payload names the worktree and the turn of its event.
PayloadFits(st, e) == e.kind = "checkpoint" => e.of = st[1]

\* The parts that the events before this one have brought.
Seen(st, i) ==
    {PartOf(stream[st][j]) : j \in {n \in EventsOf(st, stream[st][i].turn) : n < i}} \ {"prompt"}

Accepts(st, i) ==
    LET e == stream[st][i]
    IN  /\ PayloadFits(st, e) /\ Seen(st, i) \in Before[PartOf(e)]
        /\ PartOf(e) = "post" => Continues(st, i)

\* The parts of a turn, event after event; recall stops at the first it does not accept.
PartsIn(st, t) ==
    IF \A i \in EventsOf(st, t) : Accepts(st, i)
    THEN {PartOf(stream[st][i]) : i \in EventsOf(st, t)} \ {"prompt"}
    ELSE Unreadable

\* The turn with this number may be in several streams; recall does not choose.
RecallTurn(s, t, worktrees) ==
    LET candidates == {st \in StreamsOf(s) : st[1] \in worktrees /\ EventsOf(st, t) # {}}
    IN  IF Legible(s) /\ Cardinality(candidates) = 1
        THEN PartsIn(CHOOSE st \in candidates : TRUE, t)
        ELSE Unreadable

Complete == {"start", "pre", "finish", "post"}

----------------------------------------------------------------------------
(* sessions: turns by session and number, from refs and events             *)

SessionTurns(s) ==
    {r.turn : r \in {c \in refs : c.session = s}}
        \union (IF Legible(s) THEN {t \in Turns : \E st \in StreamsOf(s) : EventsOf(st, t) # {}} ELSE {})

SessionTurnStatus(s, t) ==
    LET phases == UNION {PhasesOf(st, t) : st \in StreamsOf(s)}
    IN  CASE phases = Phases -> "complete"
          [] phases = {"pre"} -> "active"
          [] phases = {"post"} -> "orphan"
          [] OTHER -> "events-only"

SessionStatus(s) ==
    LET statuses == {SessionTurnStatus(s, t) : t \in SessionTurns(s)}
    IN  IF "active" \in statuses THEN "active"
        ELSE IF statuses \in {{"complete"}, {"events-only"}} THEN CHOOSE status \in statuses : TRUE
        ELSE IF statuses # {} THEN "partial" ELSE "empty"

\* The latest checkpoint; a post checkpoint comes after the pre checkpoint of its turn.
LatestCheckpoint(s) ==
    LET mine == {r \in refs : r.session = s}
        last == {r \in mine : \A c \in mine : c.turn <= r.turn}
    IN  IF \E r \in last : r.phase = "post" THEN {r \in last : r.phase = "post"} ELSE last

----------------------------------------------------------------------------
(* log and the query index: turns by stream and number, from refs only     *)

StatusOf(phases) ==
    CASE phases = Phases -> "complete"
      [] phases = {"pre"} -> "active"
      [] phases = {"post"} -> "orphan"
      [] OTHER -> "empty"

InScope(r, worktrees) == r.home \in worktrees

GraphTurn(st, t) == [of |-> st, turn |-> t, status |-> StatusOf(PhasesOf(st, t))]

GraphTurns(s, worktrees) ==
    {GraphTurn(<<r.home, s>>, r.turn) : r \in {c \in refs : c.session = s /\ InScope(c, worktrees)}}

\* -n shows the highest turn numbers of a session.
LatestTurns(turns, limit) ==
    {g \in turns : Cardinality({h \in turns : h.turn > g.turn}) < limit}

\* --transcript adds the turns of which there are only events.
TranscriptTurns(s, worktrees) ==
    GraphTurns(s, worktrees)
        \union (IF Legible(s)
                THEN UNION {{GraphTurn(st, t) : t \in {n \in Turns : EventsOf(st, n) # {}}} :
                                st \in {x \in StreamsOf(s) : x[1] \in worktrees}}
                ELSE {})

\* A rebuild reads the refs and then the events of every session it has found.
RebuildReads == \A s \in Sessions : Legible(s)

IndexedTurns(s, worktree) == {g \in GraphTurns(s, Worktrees) : g.of[1] = worktree}

----------------------------------------------------------------------------
(* viewer: records by stream, from events or refs                          *)

\* Turns are listed whenever every stream can be read; the viewer tries again while
\* a writer is at work.
ViewerReads == \A s \in Sessions : Legible(s)

RecordTurns(st) == {r.turn : r \in {c \in refs : <<c.home, c.session>> = st}}
                       \union {t \in Turns : EventsOf(st, t) # {}}

ViewerTurnStatus(st, t) == IF PhasesOf(st, t) = Phases THEN "complete" ELSE "active"

ViewerSessionStatus(st) ==
    IF \A t \in RecordTurns(st) : ViewerTurnStatus(st, t) = "complete" THEN "complete" ELSE "active"

\* The page of a turn is a recall in its own stream.
ViewerTurn(st, t) == IF t \in RecordTurns(st) THEN RecallTurn(st[2], t, {st[1]}) ELSE Unreadable

----------------------------------------------------------------------------
(* Turn references and diff                                                *)

\* The turn `latest` stands for: that of the event recorded last.
LatestTurn(st) == IF stream[st] = <<>> THEN 0 ELSE stream[st][Len(stream[st])].turn

\* Both checkpoints are looked up under the worktree's names; diff fails without them.
DiffTurn(w, s, t) ==
    LET found == {phase \in Phases : \E r \in RefsOf(w, s) : r.turn = t /\ r.phase = phase}
    IN  found = Phases

----------------------------------------------------------------------------
(* doctor                                                                  *)

\* A checkpoint event's ref may have been moved within its stream.
EventProblems ==
    {st \in Streams : torn[st]}
        \union {st \in Streams : \E i \in DOMAIN stream[st] :
                    LET e == stream[st][i]
                    IN  /\ e.kind = "checkpoint"
                        /\ Key(e.of, st[2], e.turn, e.phase) \notin refs
                        /\ Key(st[1], st[2], e.turn, e.phase) \notin refs}

\* Mutant of JournalProblems: a committed journal is taken for work in progress.
UncommittedProblems == {k \in Checkpoint : journal[k] \in {"intent", "finalized"}}

JournalProblems ==
    {k \in Checkpoint : \/ journal[k] \in {"intent", "finalized"}
                        \/ journal[k] = "committed" /\ k \notin refs}

Inspect == [lock |-> lock # NoProc, streams |-> EventProblems, journals |-> JournalProblems]

NoProblems == [lock |-> FALSE, streams |-> {}, journals |-> {}]

----------------------------------------------------------------------------
(* Properties                                                              *)

\* No prompt was appended to the turn after its end (StreamOrder).
InTime(st, t) ==
    \A i, j \in EventsOf(st, t) : i < j => ~Late(stream[st][j], stream[st][i])

\* Recall answers for every turn a readable session has events of, at any moment and
\* whatever was killed and recovered: none of its checks of the order of a turn's
\* events ever refuses one.  And `latest` is the session's last turn.
RecallAnswers ==
    \A s \in Sessions : LET st == <<HomeOf[s], s>> IN Legible(s) =>
        /\ \A t \in Turns : EventsOf(st, t) # {} /\ InTime(st, t) =>
               RecallTurn(s, t, {HomeOf[s]}) # Unreadable
        /\ \A i \in DOMAIN stream[st] : stream[st][i].turn <= LatestTurn(st)

Settled == /\ \A p \in Procs : pc[p] = "idle"
           /\ Inspect = NoProblems
           /\ \A k \in Checkpoint : journal[k] = "none"
           /\ refs \cap abandoned = {}
           /\ \A st \in Streams, t \in Turns : InTime(st, t)

TurnsOf(graph) == {g.turn : g \in graph}

\* When nothing runs, nothing is left to recover and doctor finds nothing, all readers
\* list the same turns of a session and agree on which are finished: those recalled
\* from events, those listed from refs, and those from both.
ReadersAgree ==
    Settled => \A s \in Sessions :
        LET st == <<HomeOf[s], s>>
            home == {HomeOf[s]}
            turns == {t \in Turns : EventsOf(st, t) # {}}
        IN  /\ RebuildReads /\ ViewerReads
            /\ turns = SessionTurns(s) /\ turns = RecordTurns(st)
            /\ turns = TurnsOf(GraphTurns(s, home)) /\ turns = TurnsOf(IndexedTurns(s, HomeOf[s]))
            /\ TranscriptTurns(s, home) = GraphTurns(s, home)
            /\ \A t \in turns :
                   LET recalled == ViewerTurn(st, t) = Complete
                   IN  /\ recalled = (SessionTurnStatus(s, t) = "complete")
                       /\ recalled = (ViewerTurnStatus(st, t) = "complete")
                       /\ recalled = (GraphTurn(st, t).status = "complete")
                       /\ recalled = DiffTurn(HomeOf[s], s, t)
            /\ turns # {} =>
                  /\ (SessionStatus(s) = "complete") = (ViewerSessionStatus(st) = "complete")
                  /\ \A r \in LatestCheckpoint(s) : r.turn = LatestTurn(st)
                  /\ TurnsOf(LatestTurns(GraphTurns(s, home), 1)) = {LatestTurn(st)}

\* A call in worktree w would fail while it recovers.
RecoveryFails(w) ==
    \E k \in Checkpoint :
        LET st == <<w, k.session>>
            mine == AsNamedBy(w, k)
        IN  \/ journal[k] = "committed" /\ k \notin refs
            \/ /\ journal[k] = "committed" \/ (journal[k] = "intent" /\ mine \in refs)
               /\ \/ torn[st]
                  \/ /\ k.phase = "post" /\ active[st] # 0
                     /\ active[st] # k.turn \/ AsNamedBy(w, [k EXCEPT !.phase = "pre"]) \notin refs

\* Doctor is right: it reports nothing as long as nothing has gone wrong, and when it
\* reports nothing the next call's recovery does not fail.
DoctorTrue ==
    (\A p \in Procs : pc[p] = "idle") =>
        /\ faults = 0 => Inspect = NoProblems
        /\ Inspect = NoProblems => \A w \in Worktrees : ~RecoveryFails(w)

=============================================================================
