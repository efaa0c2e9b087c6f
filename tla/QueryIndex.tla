----------------------------- MODULE QueryIndex -----------------------------
(***************************************************************************)
(* The query index: one SQLite file under <metadata>/index that is derived *)
(* from the event files, the manual-checkpoint files and the checkpoint    *)
(* refs, rebuilt whole by `turnal reindex` and by an import, removed by    *)
(* `turnal save` and by dropping a session, and read by search, graph and  *)
(* blame.  No lock covers any of this: what keeps a reader from answering  *)
(* out of an old or a torn collection is the fingerprint of the sources,   *)
(* which a rebuild takes before and after collecting and stores, and which *)
(* a reader takes again and compares.  Taking it is a walk over files one  *)
(* after another, so it is not a snapshot either.                          *)
(*                                                                         *)
(* A record is the number of the write that made it, 0 when there is none: *)
(* a file's size and modification time, or a ref's object, tell two writes *)
(* apart.  The rows of the index are the records they were collected from. *)
(***************************************************************************)
EXTENDS Naturals, Sequences

CONSTANTS Sessions,     \* sessions with an event file and checkpoint refs
          Rebuilders,   \* processes that rebuild the index
          Readers,      \* processes that query it
          SessionOrder, \* the order in which a directory walk meets the sessions
          Attempts,     \* attempts of a rebuild before it gives up: 3 in the program
          MaxWrites     \* bound on the changes to durable records

ASSUME WalkAssumption ==
    /\ SessionOrder \in Seq(Sessions)
    /\ \A s \in Sessions : \E i \in DOMAIN SessionOrder : SessionOrder[i] = s
    /\ {"manual", "refs"} \cap Sessions = {}
    /\ Attempts \in Nat \ {0}

VARIABLES
    files,   \* session -> its event file, as the write it was last changed by
    manual,  \* the manual-checkpoint files, likewise
    refs,    \* session -> its checkpoint refs, likewise
    clock,   \* number of the last change to a durable record
    gone,    \* session -> number of the change that last dropped it
    dir,     \* the index directory exists
    temps,   \* rebuilds whose temporary database is in that directory
    db,      \* what index.db holds
    rb,      \* rebuilder -> where its rebuild is
    rd,      \* reader -> where its query is
    editor   \* the command that removes the index: `session drop` or `save`

records == <<files, manual, refs, clock, gone>>
vars == <<records, dir, temps, db, rb, rd, editor>>

\* Nothing at index.db; an empty database, which is what opening a file that
\* has just been removed creates.
NoFile == [kind |-> "none"]
EmptyFile == [kind |-> "empty"]
Index(rows, print, since) ==
    [kind |-> "index", rows |-> rows, print |-> print, since |-> since]

-----------------------------------------------------------------------------
(* The fingerprint: the event files in walk order, the manual checkpoints, *)
(* and last the checkpoint refs.  It is the sequence of what was read.     *)

Walk == SessionOrder \o <<"manual", "refs">>

Current(part) == CASE part = "manual" -> manual
                   [] part = "refs" -> refs
                   [] OTHER -> files[part]

\* What a walk that has read "print" has read after one more part.
WalkOn(print) == Append(print, Current(Walk[Len(print) + 1]))

Walked(print) == Len(print) = Len(Walk)

Nothing == <<>>

IdleRebuild == [pc |-> "idle", try |-> 0, since |-> 0,
                before |-> Nothing, after |-> Nothing, rows |-> Nothing]
IdleReader == [pc |-> "idle", inode |-> NoFile, print |-> Nothing, truth |-> Nothing]
IdleEditor == [pc |-> "idle", session |-> "none"]

Init ==
    /\ files = [s \in Sessions |-> 0]
    /\ manual = 0
    /\ refs = [s \in Sessions |-> 0]
    /\ clock = 0
    /\ gone = [s \in Sessions |-> 0]
    /\ dir = FALSE
    /\ temps = {}
    /\ db = NoFile
    /\ rb = [r \in Rebuilders |-> IdleRebuild]
    /\ rd = [d \in Readers |-> IdleReader]
    /\ editor = IdleEditor

-----------------------------------------------------------------------------
(* Capture writes records at any time, and the two commands that remove    *)
(* the index change records first and remove it afterwards.                *)

\* The bound MaxWrites is on the writes that are started; a removal ends what it began.
Tick == /\ clock < MaxWrites
        /\ clock' = clock + 1

\* A hook, a command or an import appends to a session's event file.
AppendEvent(s) ==
    /\ Tick
    /\ files' = [files EXCEPT ![s] = clock + 1]
    /\ UNCHANGED <<manual, refs, gone, dir, temps, db, rb, rd, editor>>

\* A checkpoint publishes a ref of the session.
PublishRef(s) ==
    /\ Tick
    /\ refs' = [refs EXCEPT ![s] = clock + 1]
    /\ UNCHANGED <<files, manual, gone, dir, temps, db, rb, rd, editor>>

\* `turnal save`: the manual checkpoint is recorded, then the index removed.
SaveManual ==
    /\ editor.pc = "idle"
    /\ Tick
    /\ manual' = clock + 1
    /\ editor' = [IdleEditor EXCEPT !.pc = "remove"]
    /\ UNCHANGED <<files, refs, gone, dir, temps, db, rb, rd>>

\* `session drop`: the event files go first, so that no event survives its
\* refs, ...
DropFiles(s) ==
    /\ editor.pc = "idle"
    /\ files[s] # 0 \/ refs[s] # 0
    /\ Tick
    /\ files' = [files EXCEPT ![s] = 0]
    /\ gone' = [gone EXCEPT ![s] = clock + 1]
    /\ editor' = [pc |-> "refs", session |-> s]
    /\ UNCHANGED <<manual, refs, dir, temps, db, rb, rd>>

\* ... then the refs, ...
DropRefs ==
    /\ editor.pc = "refs"
    /\ clock' = clock + 1
    /\ refs' = [refs EXCEPT ![editor.session] = 0]
    /\ gone' = [gone EXCEPT ![editor.session] = clock + 1]
    /\ editor' = [editor EXCEPT !.pc = "remove"]
    /\ UNCHANGED <<files, manual, dir, temps, db, rb, rd>>

\* ... and then the index, everything in its directory and the directory,
\* which stays when a rebuild puts a file there in the meantime.
Invalidate ==
    /\ editor.pc = "remove"
    /\ db' = NoFile
    /\ temps' = {}
    /\ dir' \in {FALSE, dir}
    /\ editor' = IdleEditor
    /\ UNCHANGED <<records, rb, rd>>

-----------------------------------------------------------------------------
(* Rebuild                                                                 *)

Rebuilding(r, step) ==
    /\ rb' = [rb EXCEPT ![r] = step]
    /\ UNCHANGED <<records, rd, editor>>

\* What an attempt starts from: nothing of the last one is kept.
Attempt(n) == [pc |-> "before", try |-> n, since |-> clock,
               before |-> Nothing, after |-> Nothing, rows |-> Nothing]

StartRebuild(r) ==
    /\ rb[r].pc = "idle"
    /\ Rebuilding(r, Attempt(1))
    /\ UNCHANGED <<dir, temps, db>>

FingerprintBefore(r) ==
    LET b == rb[r]
        print == WalkOn(b.before)
    IN  /\ b.pc = "before"
        /\ Rebuilding(r, [b EXCEPT !.before = print,
                                   !.pc = IF Walked(print) THEN "refs" ELSE "before"])
        /\ UNCHANGED <<dir, temps, db>>

\* collectRebuildData lists the refs, then the sessions that have events, and
\* then reads the events of each session of either list.
CollectRefs(r) ==
    /\ rb[r].pc = "refs"
    /\ Rebuilding(r, [rb[r] EXCEPT !.pc = "sessions",
                                   !.rows = [refs |-> refs, todo |-> {},
                                             events |-> [s \in Sessions |-> 0]]])
    /\ UNCHANGED <<dir, temps, db>>

CollectSessions(r) ==
    LET b == rb[r]
        found == {s \in Sessions : b.rows.refs[s] # 0 \/ files[s] # 0}
    IN  /\ b.pc = "sessions"
        /\ Rebuilding(r, [b EXCEPT !.pc = "events", !.rows.todo = found])
        /\ UNCHANGED <<dir, temps, db>>

CollectEvents(r) ==
    LET b == rb[r]
    IN  /\ b.pc = "events"
        /\ \/ \E s \in b.rows.todo :
                /\ \A t \in b.rows.todo :
                     \A i, j \in DOMAIN SessionOrder :
                        SessionOrder[i] = s /\ SessionOrder[j] = t => i <= j
                /\ Rebuilding(r, [b EXCEPT !.rows =
                                      [refs |-> b.rows.refs, todo |-> b.rows.todo \ {s},
                                       events |-> [b.rows.events EXCEPT ![s] = files[s]]]])
           \/ /\ b.rows.todo = {}
              /\ Rebuilding(r, [b EXCEPT !.pc = "after"])
        /\ UNCHANGED <<dir, temps, db>>

\* The sources have not changed while they were collected.
Unchanged(b) == b.before = b.after

\* After the second fingerprint's last part the two are compared at once, and
\* the directory is made when they agree; the last attempt gives up.
FingerprintAfter(r) ==
    LET b == [rb[r] EXCEPT !.after = WalkOn(@)]
    IN  /\ rb[r].pc = "after"
        /\ Rebuilding(r, IF ~Walked(b.after) THEN b
                         ELSE IF Unchanged(b)
                              THEN [pc |-> "write", try |-> 0, since |-> b.since,
                                    before |-> b.before, after |-> Nothing, rows |-> b.rows]
                         ELSE IF b.try < Attempts THEN Attempt(b.try + 1)
                         ELSE IdleRebuild)
        /\ dir' = (dir \/ (Walked(b.after) /\ Unchanged(b)))
        /\ UNCHANGED <<temps, db>>

\* writeRebuiltDatabase: a temporary database that is written in one
\* transaction, and its rename over index.db.  The index may be removed before
\* either; the rebuild then fails.
WriteTemp(r) ==
    /\ rb[r].pc = "write"
    /\ temps' = IF dir THEN temps \cup {r} ELSE temps
    /\ Rebuilding(r, IF dir THEN [rb[r] EXCEPT !.pc = "install"] ELSE IdleRebuild)
    /\ UNCHANGED <<dir, db>>

Install(r) ==
    LET b == rb[r]
    IN  /\ b.pc = "install"
        /\ IF r \in temps
           THEN /\ db' = Index(b.rows, b.before, b.since)
                /\ temps' = temps \ {r}
           ELSE UNCHANGED <<db, temps>>
        /\ Rebuilding(r, IdleRebuild)
        /\ UNCHANGED dir

-----------------------------------------------------------------------------
(* A query: is there a file, is it structurally sound, does its            *)
(* fingerprint match, and then the rows.  The store keeps one connection,  *)
(* so every query after the first reads the file the first one opened,     *)
(* whatever has been renamed over it since.                                *)

Reading(d, step) ==
    /\ rd' = [rd EXCEPT ![d] = step]
    /\ UNCHANGED <<records, dir, temps, rb, editor>>

Exists(d) ==
    /\ rd[d].pc = "idle"
    /\ db # NoFile
    /\ Reading(d, [IdleReader EXCEPT !.pc = "open"])
    /\ UNCHANGED db

\* The first query opens the file, and creates an empty one where it has been
\* removed from a directory that is still there.
Opened == IF db = NoFile /\ dir THEN EmptyFile ELSE db

StructurallyHealthy(file) == file.kind = "index"

OpenStore(d) ==
    /\ rd[d].pc = "open"
    /\ db' = Opened
    /\ Reading(d, IF StructurallyHealthy(Opened)
                  THEN [rd[d] EXCEPT !.pc = "walk", !.inode = Opened,
                                     !.truth = [files |-> files, refs |-> refs]]
                  ELSE IdleReader)

\* Mutant of Healthy: event files only, as when the refs are not fingerprinted.
HealthyByFiles(file, print) ==
    \A i \in DOMAIN print : Walk[i] # "refs" => file.print[i] = print[i]

\* The fingerprint a healthy index must carry.
Healthy(file, print) == file.print = print

\* Once the walk is over the rows are returned, or the index is stale.
FingerprintNow(d) ==
    LET q == [rd[d] EXCEPT !.print = WalkOn(@)]
    IN  /\ rd[d].pc = "walk"
        /\ Reading(d, IF ~Walked(q.print) THEN q
                      ELSE IF Healthy(q.inode, q.print) THEN [q EXCEPT !.pc = "answered", !.print = Nothing]
                      ELSE IdleReader)
        /\ UNCHANGED db

CloseStore(d) ==
    /\ rd[d].pc = "answered"
    /\ Reading(d, IdleReader)
    /\ UNCHANGED db

-----------------------------------------------------------------------------
RebuildStep(r) ==
    \/ FingerprintBefore(r) \/ CollectRefs(r) \/ CollectSessions(r) \/ CollectEvents(r)
    \/ FingerprintAfter(r) \/ WriteTemp(r) \/ Install(r)

ReadStep(d) == OpenStore(d) \/ FingerprintNow(d) \/ CloseStore(d)

Next ==
    \/ \E s \in Sessions : AppendEvent(s) \/ PublishRef(s) \/ DropFiles(s)
    \/ SaveManual \/ DropRefs \/ Invalidate
    \/ \E r \in Rebuilders : StartRebuild(r) \/ RebuildStep(r)
    \/ \E d \in Readers : Exists(d) \/ ReadStep(d)

Spec == Init /\ [][Next]_vars

-----------------------------------------------------------------------------
(* Properties                                                              *)

\* A query that found the index healthy answers with exactly the records there
\* were when its check began, although neither the collection, nor the
\* fingerprint around it, nor the check is a snapshot, and although rebuilds
\* and removals install and remove the file meanwhile.  The one exception is a
\* session that was dropped after the rebuild began, whose records can come
\* and go between two fingerprints that agree.
AnswersTrue ==
    \A d \in Readers : rd[d].pc = "answered" =>
        \A s \in Sessions :
            \/ /\ rd[d].inode.rows.events[s] = rd[d].truth.files[s]
               /\ rd[d].inode.rows.refs[s] = rd[d].truth.refs[s]
            \/ gone[s] > rd[d].inode.since

=============================================================================
