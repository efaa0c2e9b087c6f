------------------------------ MODULE Rollback ------------------------------
(***************************************************************************)
(* Rolling a worktree back to a checkpoint, and what may be removed        *)
(* meanwhile (internal/rollback, the restore half of internal/checkpoint   *)
(* and of internal/workspacegit, internal/retention).                      *)
(*                                                                         *)
(* A rollback is a sequence of durable steps under the workspace lock:     *)
(* journal "intent", safety snapshot, journal "planned", "restoring", the  *)
(* files one by one, "restored", the rollback event, journal removed.  It  *)
(* may end after any of them, by a kill or by an error, and whoever runs   *)
(* next goes by what the journal says.  The user and the agents hold no    *)
(* lock: they edit files between any two steps.                            *)
(*                                                                         *)
(* A file is its version, a number; every edit writes a new one.           *)
(* Appending an event is one step that adds it unless its SourceID is      *)
(* there already: that is what EventLog shows of internal/events.          *)
(***************************************************************************)
EXTENDS Naturals, Sequences, FiniteSets

CONSTANTS
    Sessions,    \* agent sessions
    Manual,      \* owner of the checkpoints `turnal save` makes
    Checkpoints, \* checkpoints in the store
    Owner,       \* the session of a checkpoint, or Manual
    TreeOf,      \* the files a checkpoint captured
    Paths,       \* files of the workspace, numbered in Git's order
    RulesFile,   \* .gitignore
    Ignore,      \* the files a version of .gitignore ignores
    Denied,      \* files under secrets.snapshot_deny_globs
    StartTree,   \* the workspace at first
    Heads,       \* commits of the user's repository
    HeadOf,      \* HEAD when a checkpoint was captured
    StartHead,   \* HEAD at first
    Committed,   \* the files of a commit
    Modes,       \* modes in use, a subset of AllModes
    Scoped,      \* the worktree is a linked one: its refs carry its identity
    NoTarget,    \* no checkpoint
    BaseVersion, \* the largest version of a file at first
    MaxEdits, MaxRuns, MaxStops \* bounds: edits, safety snapshots, ends in the middle

Absent == 0

MaxVersion == BaseVersion + MaxEdits

Tree == [Paths -> 0 .. MaxVersion]

AllModes == {"checkpoint", "workspace-git"}

ASSUME RollbackAssumption ==
    /\ Manual \notin Sessions /\ NoTarget \notin Checkpoints
    /\ Owner \in [Checkpoints -> Sessions \union {Manual}]
    /\ Paths \subseteq Nat /\ RulesFile \in Paths /\ Denied \subseteq Paths \ {RulesFile}
    /\ TreeOf \in [Checkpoints -> Tree] /\ StartTree \in Tree
    /\ Committed \in [Heads -> Tree]
    /\ HeadOf \in [Checkpoints -> Heads] /\ StartHead \in Heads
    /\ Ignore \in [0 .. MaxVersion -> SUBSET (Paths \ {RulesFile})]
    /\ Modes \subseteq AllModes /\ Scoped \in BOOLEAN
    /\ {BaseVersion, MaxEdits, MaxRuns, MaxStops} \subseteq Nat

\* What a restore needs to be exact: the versions of the constants are those of the
\* beginning, no .gitignore names a file that comes before it, and a user who rolls back
\* a Git workspace has committed one.
RestoreAssumption ==
    /\ \A p \in Paths :
        /\ StartTree[p] <= BaseVersion
        /\ \A c \in Checkpoints : TreeOf[c][p] <= BaseVersion
        /\ \A h \in Heads : Committed[h][p] <= BaseVersion
    /\ \A v \in 0 .. MaxVersion : \A p \in Ignore[v] : RulesFile < p
    /\ "workspace-git" \in Modes => \A h \in Heads : Committed[h][RulesFile] # Absent

VARIABLES
    ws,       \* the workspace: version of each file
    head,     \* HEAD of the user's repository
    refs,     \* private refs and the commits they name
    journal,  \* tmp/rollback-journal-<worktree>.json, or NoJournal
    events,   \* rollback events of each session and of the workspace, in order
    recorded, \* checkpoints whose events are in the log
    op,       \* the operation that holds the workspace lock
    edits,    \* how many edits there were
    runs,     \* how many safety snapshots were made
    stops,    \* how many operations ended in the middle
    givenUp,  \* history: rollbacks whose safety snapshot someone began to restore
    unbacked  \* history: rollbacks whose target's ref was gone when they got the lock

vars == <<ws, head, refs, journal, events, recorded, op, edits, runs, stops, givenUp, unbacked>>

----------------------------------------------------------------------------
(* Refs, commits, journal                                                  *)

Runs == 1 .. MaxRuns

Name(kind, c, n) == [kind |-> kind, target |-> c, run |-> n]

TargetRef(c, m) == Name(IF m = "checkpoint" THEN "turn" ELSE "git-sync", c, 0)

\* The name carries the target's session, and a time and a random number.
SafetyRef(c, n, m) ==
    Name(IF m = "checkpoint" THEN "rollback-safety" ELSE "git-sync-safety", c, n)

Names == {TargetRef(c, m) : c \in Checkpoints, m \in AllModes}
            \union {SafetyRef(c, n, m) : c \in Checkpoints, n \in Runs, m \in AllModes}

\* A commit of the private repository; at is when it was made, counted in edits.
Commit == [tree : Tree, head : Heads, at : 0 .. MaxEdits]

NoJournal == [phase |-> "none", target |-> NoTarget, mode |-> "checkpoint", safety |-> 0]

Phases == {"intent", "planned", "restoring", "restored"}

Journal == [phase : Phases, target : Checkpoints, mode : AllModes, safety : 0 .. MaxRuns]

\* EventSourceID is made of mode, target and safety snapshot.
Event == [target : Checkpoints, mode : AllModes, safety : Runs]

Owners == Sessions \union {Manual}

\* The rollback events in the stream of s.
EventsOf(s) == {events[s][i] : i \in DOMAIN events[s]}

\* A kind of operation, the step it takes next, what it was asked for, and the files
\* it has still to look at.  own: the journal is this rollback's.
Idle == [kind |-> "none", pc |-> "idle", target |-> NoTarget, mode |-> "checkpoint",
         session |-> Manual, own |-> FALSE, left |-> {}]

Kinds == {"rollback", "resume", "safety", "drop"}

Labels == {"intent", "snapshot", "git-snapshot", "planned", "restoring", "write", "delete",
           "reset", "checkout", "apply", "restored", "append", "clear", "refs"}

Op == [kind : Kinds, pc : Labels, target : Checkpoints \union {NoTarget}, mode : AllModes,
       session : Owners, own : BOOLEAN, left : SUBSET Paths]

Ignored(t) == Ignore[t[RulesFile]]

\* snapshotWorktree leaves out ignored and deny-listed files.
Captured(t) == [p \in Paths |-> IF p \in Ignored(t) \union Denied THEN Absent ELSE t[p]]

Snapshot == [tree |-> Captured(ws), head |-> head, at |-> edits]

Present(t) == {p \in Paths : t[p] # Absent}

First(S) == CHOOSE p \in S : \A q \in S : p <= q

Pending == journal # NoJournal

Has(name) == name \in DOMAIN refs

\* journalRollback and journalWorkspaceGitRollback: the private refs the journal names
\* are there.
JournalValid ==
    /\ journal.safety # 0
    /\ Has(TargetRef(journal.target, "checkpoint")) /\ Has(SafetyRef(journal.target, journal.safety, "checkpoint"))

GitJournalValid ==
    journal.mode = "workspace-git" => Has(SafetyRef(journal.target, journal.safety, "workspace-git"))

\* What was captured for c.  Commits are never changed, and outlive their refs until
\* `turnal maintenance gc` collects them.
Captures(c) == [tree |-> TreeOf[c], head |-> HeadOf[c], at |-> 0]

\* The journal has the commit itself, not only the ref.
TargetCommit == Captures(journal.target)

SafetyCommit == refs[SafetyRef(journal.target, journal.safety, journal.mode)]

\* What the operation that runs restores.
Goal == IF op.kind = "safety" THEN SafetyCommit ELSE TargetCommit

----------------------------------------------------------------------------
(* Operations and their steps.  Only one operation holds the lock.         *)

Init ==
    /\ ws = StartTree
    /\ head = StartHead
    /\ refs = [name \in {TargetRef(c, m) : c \in Checkpoints, m \in Modes \union {"checkpoint"}} |->
                 Captures(name.target)]
    /\ journal = NoJournal
    /\ events = [s \in Owners |-> <<>>]
    /\ recorded = Checkpoints
    /\ op = Idle
    /\ edits = 0 /\ runs = 0 /\ stops = 0
    /\ givenUp = {} /\ unbacked = {}

IsIdle == op = Idle

At(label) == op.pc = label

Goto(label) == op' = [op EXCEPT !.pc = label]

\* The workspace and the log are as they were.
KeepFiles == UNCHANGED <<ws, head>>
KeepStore == UNCHANGED <<refs, events, recorded>>
KeepBounds == UNCHANGED <<edits, runs, stops, givenUp, unbacked>>

WriteJournal(phase) == journal' = [journal EXCEPT !.phase = phase]

\* Mutant of StartRollback: a journal "planned" is dropped too.
StartRollbackAnyway(c, m) ==
    /\ IsIdle
    /\ journal.phase # "restoring"
    /\ journal.phase = "restored" => JournalValid /\ GitJournalValid
    /\ m = "workspace-git" => Owner[c] # Manual
    /\ runs < MaxRuns
    /\ journal' = IF journal.phase = "restored" THEN journal ELSE NoJournal
    /\ op' = [Idle EXCEPT !.kind = "rollback", !.target = c, !.mode = m,
                          !.pc = IF journal.phase = "restored" THEN "append" ELSE "intent"]
    /\ KeepFiles /\ KeepStore /\ KeepBounds

\* A rollback to c, which `turnal rollback` selected before it asked for the lock: the
\* refs may have been deleted since.  ensureNoActiveJournal: a journal "intent" is dropped,
\* a "restored" one finished first; "planned" and "restoring" refuse the rollback.
StartRollback(c, m) ==
    /\ IsIdle
    /\ journal.phase \in {"none", "intent", "restored"}
    /\ journal.phase = "restored" => JournalValid /\ GitJournalValid
    /\ m = "workspace-git" => Owner[c] # Manual
    /\ runs < MaxRuns
    /\ journal' = IF journal.phase = "restored" THEN journal ELSE NoJournal
    /\ op' = [Idle EXCEPT !.kind = "rollback", !.target = c, !.mode = m,
                          !.pc = IF journal.phase = "restored" THEN "append" ELSE "intent"]
    /\ KeepFiles /\ KeepStore /\ KeepBounds

\* The checkpoint is not looked up again (resolveRequestTarget); the Git state is.
WriteIntent ==
    /\ At("intent")
    /\ op.mode = "workspace-git" => Has(TargetRef(op.target, "workspace-git"))
    /\ journal' = [phase |-> "intent", target |-> op.target, mode |-> op.mode, safety |-> 0]
    /\ op' = [op EXCEPT !.pc = "snapshot", !.own = TRUE]
    /\ KeepFiles /\ KeepStore /\ KeepBounds

\* The target's Git state is gone, or its ref was deleted and its commit collected by
\* `turnal maintenance gc`, which there may have been time for.
Unresolved ==
    /\ At("intent")
    /\ ~ (Has(TargetRef(op.target, "checkpoint")) /\ Has(TargetRef(op.target, op.mode)))
    /\ op' = Idle
    /\ UNCHANGED journal /\ KeepFiles /\ KeepStore /\ KeepBounds

AddRef(name) == refs' = [n \in DOMAIN refs \union {name} |->
                           IF n = name THEN Snapshot ELSE refs[n]]

SaveSafety ==
    /\ At("snapshot")
    /\ runs' = runs + 1
    /\ AddRef(SafetyRef(op.target, runs + 1, "checkpoint"))
    /\ unbacked' = unbacked \union
                     (IF Has(TargetRef(op.target, "checkpoint")) THEN {} ELSE {runs + 1})
    /\ Goto(IF op.mode = "workspace-git" THEN "git-snapshot" ELSE "planned")
    /\ UNCHANGED <<journal, events, recorded, edits, stops, givenUp>> /\ KeepFiles

SaveGitSafety ==
    /\ At("git-snapshot")
    /\ AddRef(SafetyRef(op.target, runs, "workspace-git"))
    /\ Goto("planned")
    /\ UNCHANGED <<journal, events, recorded>> /\ KeepFiles /\ KeepBounds

WritePlanned ==
    /\ At("planned")
    /\ journal' = [journal EXCEPT !.phase = "planned", !.safety = runs]
    /\ Goto("restoring")
    /\ KeepFiles /\ KeepStore /\ KeepBounds

\* How restoring commit g in mode m begins.
Begin(g, m) == [op EXCEPT !.pc = IF m = "workspace-git" THEN "reset" ELSE "write",
                          !.left = Present(g.tree) \ Denied]

\* Mutant of WriteRestoring: the phase is written as if the restore were done.
WriteRestoringEarly ==
    /\ At("restoring")
    /\ WriteJournal("restored")
    /\ op' = Begin(TargetCommit, journal.mode)
    /\ KeepFiles /\ KeepStore /\ KeepBounds

WriteRestoring ==
    /\ At("restoring")
    /\ WriteJournal("restoring")
    /\ op' = Begin(TargetCommit, journal.mode)
    /\ KeepFiles /\ KeepStore /\ KeepBounds

\* Mutant of StartResume: a journal "planned" is left to restore-safety.
StartResumeRestoring ==
    /\ IsIdle /\ Pending
    /\ LET start(label) == op' = [Idle EXCEPT !.kind = "resume", !.pc = label, !.own = TRUE]
       IN  \/ journal.phase = "intent" /\ start("clear")
           \/ /\ journal.phase = "restoring"
              /\ JournalValid
              /\ journal.mode = "workspace-git" =>
                     ~ Scoped /\ Has(TargetRef(journal.target, "workspace-git"))
              /\ start("restoring")
           \/ /\ journal.phase = "restored"
              /\ JournalValid /\ GitJournalValid
              /\ start("append")
    /\ UNCHANGED journal /\ KeepFiles /\ KeepStore /\ KeepBounds

\* ResumeRecovery.  In a linked worktree the Git refs are not of the form
\* ParseGitSyncRef wants.
StartResume ==
    /\ IsIdle /\ Pending
    /\ LET start(label) == op' = [Idle EXCEPT !.kind = "resume", !.pc = label, !.own = TRUE]
       IN  \/ journal.phase = "intent" /\ start("clear")
           \/ /\ journal.phase \in {"planned", "restoring"}
              /\ JournalValid
              /\ journal.mode = "workspace-git" =>
                     ~ Scoped /\ Has(TargetRef(journal.target, "workspace-git"))
              /\ start("restoring")
           \/ /\ journal.phase = "restored"
              /\ JournalValid /\ GitJournalValid
              /\ start("append")
    /\ UNCHANGED journal /\ KeepFiles /\ KeepStore /\ KeepBounds

\* RestoreSafety.  The journal keeps its phase.
StartSafety ==
    /\ IsIdle /\ Pending /\ journal.safety # 0
    /\ Has(SafetyRef(journal.target, journal.safety, journal.mode))
    /\ op' = LET g == SafetyCommit
             IN  [Idle EXCEPT !.kind = "safety", !.own = TRUE,
                              !.pc = IF journal.mode = "workspace-git" THEN "reset" ELSE "write",
                              !.left = Present(g.tree) \ Denied]
    /\ givenUp' = givenUp \union {journal.safety}
    /\ UNCHANGED <<journal, edits, runs, stops, unbacked>> /\ KeepFiles /\ KeepStore

----------------------------------------------------------------------------
(* Restoring the files                                                     *)

\* What comes after the files: the target's restore is journaled, the safety
\* snapshot's is not.
Restored == IF op.kind = "safety" THEN "clear" ELSE "restored"

\* restoreCommit writes the files of the commit,
WriteEntry ==
    /\ At("write") /\ op.left # {}
    /\ LET p == First(op.left)
       IN  /\ ws' = [ws EXCEPT ![p] = Goal.tree[p]]
           /\ op' = [op EXCEPT !.left = @ \ {p}]
    /\ UNCHANGED <<head, journal>> /\ KeepStore /\ KeepBounds

StartDelete ==
    /\ At("write") /\ op.left = {}
    /\ op' = [op EXCEPT !.pc = "delete", !.left = Paths]
    /\ UNCHANGED journal /\ KeepFiles /\ KeepStore /\ KeepBounds

\* Mutant of Extra: the deny-list is not asked.
ExtraDenied == {p \in op.left : Goal.tree[p] = Absent /\ ws[p] # Absent /\ p \notin Ignored(ws)}

\* and then, in order, deletes every other file that is neither deny-listed nor
\* ignored by the .gitignore that is there by now.
Extra == {p \in op.left \ Denied : Goal.tree[p] = Absent /\ ws[p] # Absent /\ p \notin Ignored(ws)}

DeleteExtra ==
    /\ At("delete") /\ Extra # {}
    /\ LET p == First(Extra)
       IN  /\ ws' = [ws EXCEPT ![p] = Absent]
           /\ op' = [op EXCEPT !.left = {q \in @ : q > p}]
    /\ UNCHANGED <<head, journal>> /\ KeepStore /\ KeepBounds

FinishDelete ==
    /\ At("delete") /\ Extra = {}
    /\ op' = [op EXCEPT !.pc = Restored, !.left = {}]
    /\ UNCHANGED journal /\ KeepFiles /\ KeepStore /\ KeepBounds

\* git reset --hard to commit h, from a worktree whose HEAD is at the commit from.
ResetTo(h, from) ==
    [p \in Paths |-> IF p \in Denied THEN ws[p]
                     ELSE IF Committed[h][p] # Absent \/ Committed[from][p] # Absent
                          THEN Committed[h][p] ELSE ws[p]]

\* git reset --hard HEAD and git clean; restoreHead; the captured patches and the
\* untracked files.
GitFiles ==
    CASE At("reset") ->
           LET t == ResetTo(head, head)
           IN  [p \in Paths |-> IF p \in Denied \union Ignored(t) \union Present(Committed[head])
                                THEN t[p] ELSE Absent]
      [] At("checkout") -> ResetTo(Goal.head, head)
      [] OTHER ->
           [p \in Paths |-> IF p \in Denied \/ (Goal.tree[p] = Absent /\ Committed[head][p] = Absent)
                            THEN ws[p] ELSE Goal.tree[p]]

GitReset ==
    /\ At("reset")
    /\ ws' = GitFiles
    /\ Goto("checkout")
    /\ UNCHANGED <<head, journal>> /\ KeepStore /\ KeepBounds

GitCheckout ==
    /\ At("checkout")
    /\ head' = Goal.head
    /\ ws' = GitFiles
    /\ Goto("apply")
    /\ UNCHANGED journal /\ KeepStore /\ KeepBounds

GitApply ==
    /\ At("apply")
    /\ ws' = GitFiles
    /\ op' = [op EXCEPT !.pc = Restored, !.left = {}]
    /\ UNCHANGED <<head, journal>> /\ KeepStore /\ KeepBounds

----------------------------------------------------------------------------
(* The end of a rollback                                                   *)

WriteRestored ==
    /\ At("restored")
    /\ WriteJournal("restored")
    /\ Goto("append")
    /\ KeepFiles /\ KeepStore /\ KeepBounds

JournalEvent ==
    [target |-> journal.target, mode |-> journal.mode, safety |-> journal.safety]

\* Mutant of AppendEvent: it does not look whether the event is there.
AppendEventAgain ==
    /\ At("append")
    /\ events' = [events EXCEPT ![Owner[journal.target]] = Append(@, JournalEvent)]
    /\ Goto("clear")
    /\ UNCHANGED <<refs, recorded, journal>> /\ KeepFiles /\ KeepBounds

\* rollbackEventExists, FindSourceID and Append: an event is written once.
AppendEvent ==
    /\ At("append")
    /\ LET s == Owner[journal.target]
       IN  events' = IF JournalEvent \in EventsOf(s)
                     THEN events ELSE [events EXCEPT ![s] = Append(@, JournalEvent)]
    /\ Goto("clear")
    /\ UNCHANGED <<refs, recorded, journal>> /\ KeepFiles /\ KeepBounds

\* A rollback that finished an older one begins its own now.
ClearJournal ==
    /\ At("clear")
    /\ journal' = NoJournal
    /\ op' = IF op.own THEN Idle ELSE [op EXCEPT !.pc = "intent"]
    /\ KeepFiles /\ KeepStore /\ KeepBounds

----------------------------------------------------------------------------
(* Kills, errors, retention and the user                                   *)

\* A step that is cut off: a file is removed before it is written again; Git has
\* changed some files, and moved HEAD or not.
Cut == IF At("write") /\ op.left # {}
       THEN {ws, [ws EXCEPT ![First(op.left)] = Absent]}
       ELSE IF op.pc \in {"reset", "checkout", "apply"}
       THEN {[p \in Paths |-> IF p \in S THEN GitFiles[p] ELSE ws[p]] : S \in SUBSET Paths}
       ELSE {ws}

\* The operation is killed, or one of its calls fails and it returns.
Stop ==
    /\ ~ IsIdle /\ stops < MaxStops
    /\ stops' = stops + 1
    /\ ws' \in Cut
    /\ head' \in IF At("checkout") THEN {head, Goal.head} ELSE {head}
    /\ op' = Idle
    /\ UNCHANGED <<journal, edits, runs, givenUp, unbacked>> /\ KeepStore

TargetRefs(e) == {TargetRef(e.target, "checkpoint"), TargetRef(e.target, e.mode)}

SafetyRefs(e) == {SafetyRef(e.target, e.safety, "checkpoint"), SafetyRef(e.target, e.safety, e.mode)}

RefsOf(e) == TargetRefs(e) \union SafetyRefs(e)

\* Mutant of JournalRefs: the safety snapshot of a pending rollback counts for nothing.
JournalRefsOfTarget == IF ~ Pending THEN {} ELSE TargetRefs(journal)

\* collectRollbackJournalRefs
JournalRefs ==
    IF ~ Pending THEN {}
    ELSE TargetRefs(journal) \union (IF journal.safety = 0 THEN {} ELSE SafetyRefs(journal))

\* referencedPrivateRefs
Referenced ==
    JournalRefs \union (UNION {RefsOf(e) : e \in UNION {EventsOf(s) : s \in Owners}})
      \union {TargetRef(c, m) : c \in recorded \union {d \in Checkpoints : Owner[d] = Manual},
                                m \in AllModes}

Delete(names) == refs' = [n \in DOMAIN refs \ names |-> refs[n]]

\* PruneOrphanRefs deletes ref by ref; one that is cut off has deleted some.
Prune ==
    /\ IsIdle
    /\ \E gone \in SUBSET (DOMAIN refs \ Referenced) : gone # {} /\ Delete(gone)
    /\ UNCHANGED <<journal, events, recorded, op>> /\ KeepFiles /\ KeepBounds

\* ensureNoActiveRollbackForSession: any journal has to be valid, and not of s.
Droppable(s) ==
    Pending => JournalValid /\ GitJournalValid /\ Owner[journal.target] # s

\* Mutant of DropLogs: the events stay until the refs are gone.
DropLogsLate(s) ==
    /\ IsIdle /\ Droppable(s)
    /\ \E c \in Checkpoints : Owner[c] = s
    /\ op' = [Idle EXCEPT !.kind = "drop", !.pc = "refs", !.session = s]
    /\ KeepStore /\ UNCHANGED journal /\ KeepFiles /\ KeepBounds

\* DropSession removes the session's logs and then its refs.
DropLogs(s) ==
    /\ IsIdle /\ Droppable(s)
    /\ \E c \in Checkpoints : Owner[c] = s
    /\ recorded' = {c \in recorded : Owner[c] # s}
    /\ events' = [events EXCEPT ![s] = <<>>]
    /\ op' = [Idle EXCEPT !.kind = "drop", !.pc = "refs", !.session = s]
    /\ UNCHANGED <<refs, journal>> /\ KeepFiles /\ KeepBounds

OwnedBy(s) == {n \in DOMAIN refs : Owner[n.target] = s}

DropRefs ==
    /\ At("refs")
    /\ \E kept \in SUBSET OwnedBy(op.session) :
          /\ Delete(OwnedBy(op.session) \ kept)
          /\ kept # {} => stops < MaxStops
          /\ stops' = IF kept = {} THEN stops ELSE stops + 1
    /\ op' = Idle
    /\ UNCHANGED <<journal, events, recorded, edits, runs, givenUp, unbacked>> /\ KeepFiles

\* Somebody writes a file.
Edit(p) ==
    /\ edits < MaxEdits
    /\ edits' = edits + 1
    /\ ws' = [ws EXCEPT ![p] = BaseVersion + edits + 1]
    /\ UNCHANGED <<head, refs, journal, events, recorded, op, runs, stops, givenUp, unbacked>>

Step ==
    \/ WriteIntent \/ Unresolved \/ SaveSafety \/ SaveGitSafety \/ WritePlanned
    \/ WriteRestoring \/ WriteEntry \/ StartDelete \/ DeleteExtra \/ FinishDelete
    \/ GitReset \/ GitCheckout \/ GitApply
    \/ WriteRestored \/ AppendEvent \/ ClearJournal \/ DropRefs

Next ==
    \/ \E c \in Checkpoints, m \in Modes : StartRollback(c, m)
    \/ StartResume \/ StartSafety
    \/ Step
    \/ Stop
    \/ Prune
    \/ \E s \in Sessions : DropLogs(s)
    \/ \E p \in Paths : Edit(p)

Spec == Init /\ [][Next]_vars

\* The operation that holds the lock takes its steps, and a user who is told of an
\* interrupted rollback keeps asking for `turnal recovery resume`.
FairSpec == Spec /\ WF_vars(Step) /\ SF_vars(StartResume)

----------------------------------------------------------------------------
(* Properties                                                              *)

TypeOK ==
    /\ ws \in Tree /\ head \in Heads
    /\ DOMAIN refs \subseteq Names
    /\ \A n \in DOMAIN refs : refs[n] \in Commit
    /\ journal \in Journal \union {NoJournal}
    /\ events \in [Owners -> Seq(Event)]
    /\ recorded \subseteq Checkpoints
    /\ op \in Op \union {Idle}
    /\ edits \in 0 .. MaxEdits /\ runs \in 0 .. MaxRuns /\ stops \in 0 .. MaxStops
    /\ givenUp \subseteq Runs /\ unbacked \subseteq Runs

\* Once a rollback is journaled as planned, what it can go back to stays there until it
\* is settled, whatever is pruned or dropped meanwhile; and so does what it is to restore,
\* unless that was gone before the rollback began.
RecoveryPossible ==
    journal.phase \in {"planned", "restoring", "restored"} =>
        /\ journal.safety # 0 /\ SafetyRefs(journal) \subseteq DOMAIN refs
        /\ journal.mode = "workspace-git" => Has(TargetRef(journal.target, "workspace-git"))
        /\ journal.safety \notin unbacked => JournalValid /\ GitJournalValid

\* Every rollback and every checkpoint the log tells of still has its snapshots:
\* dropping a session removes its events before its refs.  Only a rollback whose target
\* was dropped before it began is recorded without it.
HistoryBacked ==
    /\ \A s \in Owners : \A e \in EventsOf(s) :
          /\ SafetyRefs(e) \subseteq DOMAIN refs
          /\ e.safety \notin unbacked => TargetRefs(e) \subseteq DOMAIN refs
    /\ \A c \in recorded : Has(TargetRef(c, "checkpoint"))

\* retention.go:68: "deleting refs first would leave surviving events pointing at missing
\* durable workspace state".  False when a rollback waits for the lock while its target's
\* session is dropped.
NothingDangles == \A s \in Owners : \A e \in EventsOf(s) : RefsOf(e) \subseteq DOMAIN refs

\* A rollback is in the log at most once, however often it is resumed or finished by
\* another call.
RecordedOnce ==
    \A s \in Owners : \A i, j \in DOMAIN events[s] : events[s][i] = events[s][j] => i = j

\* Somebody edited the file after the safety snapshot was made.
EditedSince(p) == ws[p] > BaseVersion + SafetyCommit.at

\* What a restore has nothing to do with: deny-listed files, what .gitignore names, and
\* with workspace-git, which leaves it to git clean after a reset, what the .gitignore
\* of a commit names.
LeftAlone ==
    Denied \union Ignored(ws)
      \union (IF journal.mode = "workspace-git"
              THEN UNION {Ignored(Committed[h]) : h \in Heads} ELSE {})

\* The other files are those of commit g, but for edits made since, unless .gitignore
\* itself was edited.
Holds(g) ==
    ws[RulesFile] = g.tree[RulesFile] =>
        \A p \in Paths \ LeftAlone : ws[p] = g.tree[p] \/ EditedSince(p)

\* This step records a rollback.
NewEvent == \E s \in Owners : Len(events'[s]) > Len(events[s])

\* When a rollback is recorded, the workspace is the target's: README.md:301-302 has
\* "Restores checkpointed files" before "Appends a rollback event".
EventTellsWorkspace == [][NewEvent => Holds(TargetCommit)]_vars

\* The same for rollbacks whose safety snapshot nobody began to restore.
KeptRollbackTellsWorkspace ==
    [][NewEvent /\ journal.safety \notin givenUp => Holds(TargetCommit)]_vars

\* A restore-safety that succeeds has brought back what was there before the rollback.
SafetyRestored ==
    [][op.kind = "safety" /\ At("clear") /\ journal' = NoJournal => Holds(SafetyCommit)]_vars

\* No step of an operation destroys a file's content that exists nowhere else: it is in
\* the safety snapshot, in the target, in a commit of the user, or was written after
\* the safety snapshot.  Ignored files are in no snapshot: see LeftUntouched.
NothingUnsavedDestroyed ==
    [][edits' = edits =>
         \A p \in Paths : ws[p] \notin {ws'[p], Absent} =>
             \/ ws[p] \in {SafetyCommit.tree[p], TargetCommit.tree[p]}
                            \union {Committed[h][p] : h \in Heads}
             \/ EditedSince(p)
             \/ p \in Ignored(SafetyCommit.tree)]_vars

\* README.md:265: "Ignored and secrets-denied files are left untouched during
\* checkpoint rollback."
LeftUntouched ==
    [][edits' = edits /\ journal.mode = "checkpoint" =>
         \A p \in Paths : ws[p] # ws'[p] => p \notin Denied \union Ignored(SafetyCommit.tree)]_vars

\* docs/recovery.md:23: nobody chooses between the target and the safety snapshot but
\* the user.  A journal that says planned or restoring is only ever followed by the
\* next phase of the same rollback, or removed by restore-safety.
AmbiguousKept ==
    [][journal.phase \in {"planned", "restoring"} /\ journal'.safety # journal.safety
         => op.kind = "safety"]_vars

\* A user who keeps resuming settles every interrupted rollback, but for one whose target
\* was gone before it began: `resume` refuses that for ever, and only restore-safety ends it.
RecoveryCompletes == Pending ~> (~ Pending \/ journal.safety \in unbacked)

\* What a restore leaves is what it says: the target when the rollback is recorded, which
\* it is once, and the workspace of before when restore-safety succeeds.
RestoresTrue == KeptRollbackTellsWorkspace /\ SafetyRestored /\ []RecordedOnce
=============================================================================
