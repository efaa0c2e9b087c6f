# Turnal, specified and checked

TLA+ models of [Turnal](../src/README.md), a local-first flight recorder for
coding agents: what it stores, in which order, and what is still true when
processes interleave, are killed, or meet a failing file operation.  TLC checks
the models on small instances; TLAPS proves the theorems for every instance.

    tlc -workers 2 -config EventLog.cfg MCEventLog
    tlc -workers 2 -config SharedHistory.cfg MCSharedHistory
    tlapm SharedHistoryProofs.tla

Every run has a `.cfg` file and an `MC` module, which section 3 lists, and the
theorems are in the modules whose names end in `Proofs`.

## 1. The system

A workspace has a metadata directory `.turnal/` that every process of every
agent and of the user works on.  There is no server: hooks of the agents are
short-lived processes, and so are the commands of the user.  They meet in files.

| Part | State it keeps | Operations | Hard because |
|---|---|---|---|
| Event log (`internal/events`) | `log/<session>/<stream>.jsonl`, a hash chain per stream; derived: tail state, source markers, SQLite source index | `Append`, `FindSourceID`, `Read`, `Verify`, recovery of a torn tail | lookups run without the lock, four files change one after the other, kills between them |
| Locks (`internal/filelock`, `checkpoint/lock.go`) | stream, session and workspace lock files | acquire for at most 30 s, release, release by the OS | a time-out looks like a failure; the CLI does not take the session lock |
| Checkpoint store (`internal/checkpoint`) | private bare Git repository: refs `refs/agent-vcs/...`, snapshots; checkpoint journals in `tmp/` | create, list, delete, restore; journal begin, mark, finalize, clear | worktrees share one store and name refs differently |
| Turn recorder (`internal/turns`, `internal/turnevents`) | active turn of each session in `tmp/turns` | `Start`, `Finish`, `RecoverCheckpointJournals` | the events follow after the lock is released; recovery repeats other processes' work |
| Hook capture (`internal/adapters`) | raw records, health ledger | one hook per prompt, tool call, tool result, stop | redelivery, out-of-order hooks, fail-open errors |
| Rollback (`internal/rollback`, `workspacegit`, `gitsync`) | one rollback journal per worktree, safety refs | run, resume, restore safety | the restore is not atomic and must not be repeated silently |
| Runs (`internal/runs`) | lifecycle journals, locks, owner identity; run events | begin, finish, link capture, recover abandoned runs | a process identity may be stale; two recoverers |
| Cases, experiments (`internal/cases`, `internal/experiments`) | events only, managed workspaces | create, attempt, select, apply, reconcile | projections are read, then acted on |
| Shared history (`internal/sharedhistory`) | outbox Git repository, `state.json`, pulled bundles | push, pull, recover, quarantine, forget | remote may accept and the answer get lost; publishers rewrite history |
| Query index (`internal/index`) | SQLite database, fingerprint of its sources | rebuild, invalidate, open if fresh | sources change while they are read |
| Stores (`checkpoint/identity.go`, `registry.go`, `internal/projects`) | identity and bindings in each store, `registry.json`, the viewer's index of projects | open, attach, rekey, list, forget | directories are copied and moved by the user; three records change one after the other |
| Merge (`internal/importer`) | import journal, staging refs, staged copies | merge, recover, abort | only the destination is locked |
| Replay, verify (`internal/replay`, `internal/verifier`) | session files, markers, an active session | checkout, move, keep, stop; evaluation directories | no lock; the user owns the same directories |
| Retention (`internal/retention`, `internal/destroy`) | none of its own | drop a session, prune refs, gc | deletes what others are about to refer to |
| Readers (`recall`, `blame`, `bisect`, `integrity`, `discovery`, `viewer`, `usage`, `provenance`) | none, or caches | projections of events and checkpoints | they reject a log whose order is wrong |

How they interact: a hook takes its session's lock, recovers checkpoint journals
under the workspace lock, reads the active turn, and calls `Start` or `Finish`,
which take the workspace lock again.  Both return before the turn's events are
appended; every append takes the stream's lock.  Recovery appends while it holds
the workspace lock, to the same streams.  Readers take no lock.

What makes each part correct:

* *Event log*: the chain is never broken or shortened by Turnal itself, a
  SourceID is recorded once, an answer of a lookup was true at some moment of
  the call, derived files are either right or recognisably out of date, a torn
  tail heals.
* *Turn recorder*: a checkpoint is never lost and never recorded without its
  ref; an active turn has its pre checkpoint and ends with its post checkpoint;
  events come in the order readers demand; journals drain; turns close.
* *Rollback*: the safety snapshot exists before the first file changes and until
  the rollback is settled; one event per finished rollback, and what it tells is
  so; an ambiguous phase is never resolved silently; nothing the user has not
  saved elsewhere is destroyed.
* *Runs*: a run whose owner lives is not declared incomplete, one whose owner
  died is, once.
* *Shared history*: each turn is published once although any step may fail; a
  verified head never moves backwards.
* *Index*: a database that passes for fresh holds what the records hold.
* *Retention*: what a durable event names is not deleted.
* *Hook capture*: a tool call is recorded once and paired with its result, and
  what it tells of the workspace before it was so; a prompt is not lost.
* *Cases*: an attempt gets one result; a directory in use is not removed, one
  nobody kept is.
* *Stores*: an identity means one store, a binding one worktree; removing a
  project from the viewer lasts.
* *Merge*: an import adds and never changes; what it brought can be found, and
  one that was cut off can be recovered or undone.
* *Restores*: a directory that is to show a checkpoint shows it, and nothing
  outside what the preview listed changes.
* *Blame and bisect*: a line is given to a turn that put it there, however turns
  overlap; a bad turn is named only if it made the change.

The hazards, each at its line and with the properties that cover it, are in
`PROJECT.json`.

## 2. Modules

A component has a module, an `MC` module that gives its constants values for TLC,
and, where it is proved about, a module `...Proofs`.

| Module | Models |
|---|---|
| `EventStream` | the promise of `internal/events` for one stream: a chain that grows one event at a time and takes each SourceID once |
| `EventLog` | `Append`, `FindSourceID` and their derived files, step by file operation; implements `EventStream` |
| `TurnRecorder` | turns, checkpoints, journals, recovery and the turn part of the hooks; an event append is one step, which `EventLog` justifies |
| `Readers` | what recall, `sessions`, `log`, `diff`, the viewer and `doctor` tell of the states of `TurnRecorder` |
| `Rollback` | rolling a worktree back in both modes, recovery of an interrupted rollback, and what pruning and session deletion may remove meanwhile |
| `SharedHistory` | publishing turns to a remote and reading those of other devices: push, pull, approval, configuration, forgetting a device |
| `HookCapture` | prompts, tool calls, results and stops of one session, delivered late, twice or not at all |
| `RunLifecycle` | runs, their journals and locks, and recovery of abandoned ones |
| `Experiments` | cases and attempts over the runs of `RunLifecycle` |
| `QueryIndex` | rebuilding, installing, invalidating and trusting the query index |
| `TurnHistory` | recorded histories of overlapping turns, with who really made each edit |
| `Blame`, `Bisect` | the two algorithms that work on `TurnHistory`'s records |
| `CheckpointTrees` | what a snapshot captures, what a restore plans, shows and does |
| `Worktrees` | restores into the workspace, replay worktrees and evaluation directories, with kills |
| `Stores` | which store a directory records into, the registry and the viewer's projects |
| `StoreMerge` | merging stores that go on recording |
| `EventLogProofs`, `TurnRecorderProofs`, `RollbackProofs`, `SharedHistoryProofs`, `StoreMergeProofs`, `ExperimentsProofs`, `HookCaptureProofs`, `QueryIndexProofs` | theorems for all values of the constants |


### 2.1 EventLog

`lines` is the file `<stream>.jsonl`; `torn` says that it ends in a partial
line; `mtime` and `clock` are the modification time and the clock it is taken
from (a tick may not come between two writes: that is the granularity of file
times).  `tail`, `marker` and `index` are the three derived structures, `lock`
the stream's file lock.  Each process has a program counter whose labels are the
places between two file operations of `Append` or `FindSourceID`:

* `Append`: `Start`, `Acquire`/`Busy`, `Recover` (cut a partial line), `Lookup`
  (index or scan) with `Rebuild`, `ReadLast`, `WriteLine`/`TearLine`,
  `WriteTail`, `WriteMarker`, `Advance`.
* `FindSourceID` of a stream: `Find`, `Cached`, `Recheck` without the lock, or
  `Acquire` and `Lookup`.
* `FindSourceID` of the aggregate log: `Aggregate`, `AggregateScan`, `Refresh`,
  `Stat`, `Install`, `Mark`, all without the lock.

Hashes are fresh numbers (SHA-256 taken as collision free), generations too.  A
size counts two units per line and one for a partial line, which is enough to
tell apart the sizes the code compares.  `Crash` is a kill or a failing
operation at any point of a call; `Chop` replaces the file by a prefix of itself
while nobody runs (a restored backup, an edit), which is what the generation in
tail state and marker exists for.

Merged steps: reading the tail state and installing the marker are one step in
`WriteMarker` and `Mark`; `stat`, read of the previous tail state and rename are
one step for a writer, which holds the lock, and three for the aggregate lookup,
which does not.  A rebuild of the index is two steps, the tail state and the
transaction.  Not modelled: an aggregate of several streams, and damage to a
complete line (the readers reject the log then).

### 2.2 TurnRecorder

`refs` are the checkpoint refs, `journal` the journal files by name, `active`
the active-turn file of each session, `stream` and `torn` the event streams,
`lock` and `sessionLock` the two locks.  Labels of a process:

    session -> enter -> recover (turn, checkpoint, read, write, clear, settle)*
            -> hook -> finish -> begin -> ref -> commit -> active
                    -> turn -> checkpoint -> read -> write -> clear
                    -> start -> begin -> ...  -> prompt -> idle

Recovery and the code after `Start` and `Finish` share the labels `turn` to
`clear`, as they share `AppendTurnStart`, `AppendTurnFinish`,
`AppendCheckpointWithGitSync` and `FinalizeCheckpointJournal`; whether the
process holds the workspace lock tells them apart.  A checkpoint is the record
of worktree, session, turn and phase, which determines its ref and its
journal's name; the unscoped names of the primary worktree are `Primary`.
`AsNamedBy` and `Unscoped` are the two places where the code names a checkpoint
as another worktree would.

Faults: `Kill` at any point, `Tear` (a kill in the middle of a line),
`CreateFails`, `StepFails`, `ClearActiveFails` for the error returns of `Start`
and `Finish` and their undo.  `MaxTurns` plays the largest turn number, 2^64-1.

Left out: canonical and git-sync refs, adapter names and payloads; tool,
assistant and session events and redelivered hooks (the error event is there
because it cuts off a torn tail); the order in which `os.ReadDir` lists
journals (any order is allowed).  `abandoned` is a history variable: the
checkpoints whose `Start` or `Finish` was undoing them.  A kill between the
removal of the journal and of the ref leaves such a ref behind for good.

### 2.3 Rollback

`ws` is the workspace, a version for each file; file `RulesFile` is `.gitignore`,
and `Ignore` says which files a version of it ignores.  `refs` maps the private
refs to commits: a tree, the user's HEAD, and when it was made.  `journal` is the
rollback journal of this worktree, `events` the rollback events in the streams of
the sessions (and of manual checkpoints), `recorded` the checkpoints whose events
still exist, `head` the HEAD of the user's repository.
`op` is the operation that holds the workspace lock; there is one at a time, so
its program counter is part of it:

    intent -> snapshot -> [git-snapshot] -> planned -> restoring
      -> write* -> delete*                 (mode checkpoint)
      -> reset -> checkout -> apply        (mode workspace-git)
      -> restored -> append -> clear

`turnal recovery resume` enters at `restoring`, `append` or `clear`, according to
the phase in the journal; `restore-safety` enters at `write` or `reset` with the
safety snapshot as its goal and goes from there to `clear`; a rollback that finds
a journal "restored" enters at `append` and then starts its own.  The journal
names its safety snapshot by `safety`, the number of the run that made it.

A rollback has chosen its target before it has the lock (`cli/rollback.go:43`), and
nobody looks it up again (`rollback.go:437`), so `WriteIntent` asks for nothing but
that the target's commit was recorded at some time.  `Unresolved` is the error of callers
that leave the lookup to `Run`.  `unbacked` is a history variable: the rollbacks whose
target's ref was gone by the time they made their safety snapshot.

`Stop` is a kill or an error return after any of these steps, and also in the
middle of one: a file is removed before it is written again
(`removePathForRestore`), and a Git command changes some of its files (`Cut`).
The code handles both alike: an error leaves the journal as a kill does.  `Edit`
is anybody who writes a file, at any time, because only Turnal's own operations
take the workspace lock.  `Prune` removes any part of the unreferenced refs at
once; since each removal is independent, cutting it off between two gives the
same states.  `DropLogs` and `DropRefs` are the two phases of a session deletion.

`git reset --hard` and the checkout touch what a commit holds, `git clean` what
the `.gitignore` after the reset does not name, the last step writes the captured
differences and untracked files.  Merged: the staged and the unstaged patch, and
the two kinds of HEAD, branch and detached.

Left out: a refused call changes nothing and is no step (a resume without
journal, a rollback to a missing checkpoint before it wrote an intent is
`Unresolved`); the comparison with the preview tree, which only adds refusals;
case application metadata; file modes, symbolic links and empty directories; the
legacy journal.  Deny-listed files are taken to be untracked: the copies
`Restore` keeps of tracked ones are not state here.  The user does not move HEAD
while a workspace-git rollback is pending.

### 2.4 SharedHistory

`completed` are the finished turns in a device's event log, `chain` the commits of
its outbox repository (a commit is its place there; what somebody else puts at a
ref is `forged`), `policy` and `saved` the files `policy.json` and `state.json`,
`tracking` the refs under which a reader keeps verified heads, `pulled` the
bundles on its disk, `remote` the refs at the remotes.  `op` is the operation that
holds the device's lock, with its own copy of `state.json`:

    push       [look -> [send -> confirm ->] promote ->] scan
               -> outbox -> look -> [send -> confirm ->] promote
    pull       list -> read (-> write -> read)*
    configure  configure

Devices meet at the remote only, so each has its own lock and its own operation.
A push that finds commits in the outbox pushes them before it looks for turns; what
it finds makes one batch: a prefix of the pending turns, as long as the number of
bundles or their size allows.  A pull lists the refs once and reads one commit of
each that is new.  A rewritten or unreadable ref is quarantined and left behind.

`Stop` is a kill, a failure of the network, or an answer of the remote that gets
lost, at any label; a stop at `confirm` is a push that was accepted without the
device knowing.  `ReadFails` is a failure while one ref is fetched or
materialized, after which the state is saved.  `Tamper` is anybody else who
rewinds, deletes or replaces a ref.  `Configure` and `Disable` are the user's
changes of the policy; `policy.json` and `state.json` are written one after the
other, hence the label `configure`.

`tampered`, `changed`, `agreed` and `ownPulled` are history variables: the devices
whose ref was tampered with, whether the configuration was changed, what the user
agreed to, and the devices that pulled a batch of their own.  No action looks at
them, but for `Tamper`, which happens once to a device.

Merged: refs that bring nothing new are dealt with when the list is made.  Left
out: redaction, signing and projection (a turn whose projection is refused counts
as not completed), a change of the repository's identity, the migration of
projection versions, read-only commands, and a local Git command that fails while
reading, which quarantines the publisher until the next pull.

### 2.5 Readers

Operators over `TurnRecorder`'s state, no state of their own: no reader takes a
lock or writes.  Each puts a turn together its own way, from events (`recall`),
from refs (`sessions`, by number), from both (`log`, by stream and number), from
the rows a rebuild of the query index collects, or as the viewer does.  `Inspect`
is `doctor`.  `recall` goes through the events of a turn and looks each one up in what
it has put together so far (`recall.go:231`); `Accepts` says the same of the set of
parts that the events before it name (`Seen`), which takes no fold, so that theorems
can be stated about it.

### 2.6 HookCapture

`events` is the session's stream and `job` the hook that has the session lock;
`snaps` are the snapshot refs of tool calls.  A hook is one process:

    check -> prompt -> text                          (a prompt)
          -> tool -> snapshot -> record              (before a tool)
          -> tool -> snapshot -> record -> result    (after it)
          -> close* -> finish                        (a stop)

The agent runs tools in parallel, so hooks arrive in any order; `Deliver` gives a
hook to a process any time after it was sent, again (`MaxRetries`), and with the
bytes of a payload that was serialised anew.  `Setting` is what adapters differ
in: whether there are turn ids, tool ids, several hooks per tool.  `work` numbers
the changes of the workspace, so that a snapshot can be said to be early or late.
`Intents` are the tool uses that run `turnal intent`: a stop leaves such a call without
a result (`capture.go:1263`), and closes the others (`Unsettled`).
Starting and finishing a turn are one step; `TurnRecorder` has what is inside.

### 2.7 RunLifecycle and Experiments

`events` are the run events by run, `journals` the lifecycle journals, `lifecycle`
and `mutation` the two locks of a run.  A section under the mutation lock is one
step if it makes one durable write and two if it makes two.  A process recovers
(`ScanJournals`, `RecoverRun`), then begins a run, starts it, links the capture,
waits for its child, finishes, removes its journal and releases the lock.  Hooks
of the agent attach events to a run meanwhile or later.

`Experiments` adds `case` (the records of cases as a projection reads them), the
managed directories `dirs`, keep `markers`, post checkpoints, the workspace lock
and what a process holds in memory (`task`).  `fork` is: recover, make a
directory, start the attempt, link it, mark it kept, run, verify, record the
result, clean up.  `case` commands create, show, select, apply; a case may be made from
the turn of any run, a fork's too, and links that run (`source`).  Recovery reads
once and works through what it read without a lock: `Reconcile`, `Settle`,
`Conclude`, `RemoveAbandoned`, `ListOrphans`, `RemoveOrphan`.

One worktree, one attempt per run.  Lock time-outs, `validateProjectionRefs` and
the base match of `apply` (nondeterministic) are left out.  `RemoveOrphan` stats the
marker and reads the run in one step.

### 2.8 QueryIndex

A record is the number of the write that made it, which is what size, time and
object id tell apart; rows of an index are the records they came from.  A rebuild:
before (a fingerprint), refs, sessions, events, after (another one), retry if they
differ, write a temporary file, install (rename).  A reader: does the file exist, open it, take the
fingerprint, compare, answer from the file it opened.  Fingerprints are walks, a
directory entry at a time (`Walk`), while appends, refs, saves and drops go on.

### 2.9 TurnHistory, Blame, Bisect

`TurnHistory` grows histories: turns of several sessions open, edit, record
actions and intents, and close or are killed; clocks are read at each record, in
"legacy" histories in whole seconds.  `Blame` and `Bisect` are pure operators over
the records; the properties compare them with `edits`, which only the model knows.
A line is its text and texts are unique, so where Git's diff puts a hunk does not
matter.  The user edits between turns only.

### 2.10 CheckpointTrees and Worktrees

A tree maps paths to files, links and directories.  `Snapshot`, `Plan`, `Restored`
and the steps that write one entry (`Cleared`, `HalfPut`, `Put`) are the operators;
`Worktrees` takes the steps, entry by entry in the order of the walk:

    restore:        write* -> walk* -> empty directories
    verify:         write* -> walk* -> empty directories -> check (the directory is used)
    checkout, move: write* -> walk* -> ... -> marker -> session -> active
                    (a failing checkout: cleanup, or undo -> discard when it fails last)
    stop:           unmark or remove -> forget -> deactivate

Each write of a record may be cut in half (`Torn`).  `hurt` and `owned` are history
variables: sessions whose files were touched since they were last written, and
places that hold a project of the user.  One command works at a time.

### 2.11 Stores

`checkouts` are the directories, `stores` the stores in them with their identity,
and one binding per worktree; `registry` and `rows` the two lists of projects, with
their locks.  Opening a store is: identify, bind, take the registry's lock,
register, record a row.  `rekey` draws new identities and binds anew.  `remove`
hides the entry and then drops the row, under the reconcile lock; a refresh lists,
summarises each store and writes its row.  The user adds worktrees, copies, moves
and deletes directories.  A directory is told by its Git directory, which goes with it
when it is moved (`Tree`); a worktree that is added where another one was gets another
(`LinkedDir`).  `attached`, `removed`, `copied`, `shared` and `overtaken` are history
variables; the last two are the bindings that were found by their path alone although
the worktree they name is elsewhere, and the stores whose registry entry a copy has made
its own.  `Commands` and `Acts` choose what a run is about.

Assumption: nothing else is open while a store is rekeyed.  Left out: the aliases
of refs that `rekey` makes, `lastSeen`, damaged JSON, symbolic links, a linked worktree
that is copied as a directory.

### 2.12 StoreMerge

An event is a checkpoint, told by its stream, its turn, and how often the session had
been dropped before: the identity of a stream is derived from producer and session
(`primitives/identity.go:84`), so a session that is dropped and recorded again has the
same path and starts with turn 1.  A ref is a kind (by turn, by worktree and turn, by
id), the event whose commit it holds, and the stores and pending imports it came
through; its name does not tell an event from the one recorded again (`SameName`), but for
ids.  A merge, in a process:

    inspect -> lock -> fetch -> inspectAgain -> copy* (promote) -> alias
            -> (install -> describe)* -> clear -> cleared

`Recover` does the same again under the identifier of the journal, `Abort` removes
what is staged.  What does not work out on the way leaves the journal, a ref whose name
another commit has included (`Add`).  Only the
destination is locked: meanwhile the source records, drops sessions, records them again,
and prunes.  `late` and `gone` are history variables: events that came with a copy but
were recorded after the listing, whose refs were not listed, and listed streams that
the source has dropped.

## 3. Runs

| Run | Instance | Shows |
|---|---|---|
| `event_log` | 2 processes, 2 sources, 3 lines, 1 crash, 1 replacement, index from the first line | `Chain`; `LookupsTrue`: no duplicate, no wrong answer, no index that lacks a line; `ImplementsStream`: every step is a step of `EventStream` or changes nothing it sees |
| `turns` | 2 processes, 2 sessions in a worktree, hooks, 2 turns, 1 fault | `RecordedOrJournaled`, `EventsBacked`, `ActiveEndsWithPost`; of the readers: `RecallAnswers`, `ReadersAgree`, `DoctorTrue` |
| `rollback` | a turn's and a manual checkpoint, both modes, 2 commits, 4 files (`.gitignore`, plain, ignored, deny-listed), 2 rollbacks, 2 stops, 1 edit, fairness | `RecoveryPossible`, `HistoryBacked`, `RestoresTrue`, `NothingUnsavedDestroyed`, `AmbiguousKept`, `RecoveryCompletes` |
| `shared_history` | a publisher with 2 turns, a reader, 2 remotes, batches of 1 bundle, 2 faults, fairness | `PublishedTrue`, `CursorBacked`, `OnlyAgreed`, `TurnsArrive` |
| `capture` | 2 tools, one without an id and reported late, one that runs an intent command, 2 prompts, 1 redelivery, 1 kill, all but one kind of adapter | `CallsTrue`, `PromptsKept`, `StopSettles` |
| `forks` | 2 processes, 1 run, 2 cases (`CaseBound`), agents, forks, hooks, case commands, apply, 1 fault | `RunsOwned`, `LogConsistent`, also of a case made from the turn of a fork, `ForksKeepWorkspace` |
| `forks_live` | the same with 1 case, forks and case commands only, fairness | `AttemptsConclude`, `WorkspacesReclaimed` |
| `history` | 2 sessions, 2 paths; 2 turns, 3 edits, 2 actions, 1 intent, precise and legacy records; or 3 turns, 2 edits, precise records | `OriginsTrue`, `BlameAnswers`, `BreakBlamed` |
| `index` | 1 session, 2 rebuilders, 1 reader, 2 attempts, 2 writes | `AnswersTrue` |
| `merge` | 2 stores, a linked and a primary stream, 2 processes, 2 turns and 1, 2 imports, 1 fault (a drop counts) | `ImportsFound`, `ImportsTrue` |
| `stores` | 3 directories, 2 processes; 2 commands and 2 acts of the user or kills; or 3 commands; or 4 opens and rekeys and 3 of adding, moving, deleting; or 4 opens, rekeys, refreshes and removals and 2 of copying, deleting | `IdentitiesApart`, `RemovedStaysRemoved`, `OthersUntouched` |
| `worktrees` | 3 checkpoints, 5 trees to start from, 2 places, 3 commands, 1 stop, 1 act of the user | `DirectoriesTrue`, `RestoresExact`, `PreviewTrue`, `ProjectsKept` |

Why the bounds are enough.

*EventLog*: a stale derived file needs one event written after it, a duplicate two
appends of one source, a wrong generation a third event after a replacement: three
lines, one crash and one replacement reach all of them, and two processes are one
in the middle of a call and one that overtakes it.  `IndexThreshold = 1` stands for
the 1 MiB from which the index is used; with one line below it the path without an
index is taken too.  `MCEventLog` has two hosts: on one the file may be replaced,
on the other the aggregate is searched, which is wrong after a replacement (section
5) and which nothing in the program does.

*TurnRecorder*: two turns let a second one start while the journal of the first is
still there; one fault leaves a journal in each of its states at each of its
places.  The run has hooks only.  The theorems about the recorder cover the CLI calls
as well; those about the readers are for hooks too, since two of the claims are false
with CLI calls (section 5, *Turns*).  What the readers tell, `DoctorTrue` and
`StreamOrder` also pass with 4 faults for one process and one session, with 3 faults
for two processes and one session, and with prompts that are killed or fail twice for
two processes and two sessions of one turn each (495,471 states).

*Rollback*: the second rollback meets the journal of the first in each phase; the
first stop leaves that journal, the second cuts off the recovery from it.  The four
files are the kinds the code tells apart, the two checkpoints differ in every one of
them, and one edit falls before, between or after any two steps.

*SharedHistory*: two turns in batches of one let a second batch meet what became of
the first; of two faults the first leaves an outbox, or a cursor, that `state.json`
does not know, and the second cuts off the recovery, changes the configuration or
tampers with the ref before it.  A second remote is what consent and
`alignStateScope` are about.

*HookCapture*: two tools race, and one of them has what makes matching hard: no id,
and a snapshot taken after the change.  The other one runs an intent command, so a stop
has one call to close and one to leave alone; two calls to close in one stop are in the
theorem only.  Two prompts let what is late meet the next
turn.  *Experiments*: a fork, and a second process that recovers, applies or deletes
behind it; the one fault is the owner's kill.  A case
made from the fork's turn, beside the case the fork was made for, is the second one in
`forks`; `CaseBound` leaves agents' runs and selections to histories of one case
(1,933,993 states).
*TurnHistory*: three turns are the least in which a turn is alone next to two that
overlap, or in which three are held together by the one in their middle.  Starting and
finishing take a tick each, as do an edit, an action's call and its result, an intent and a
recovered event.  A history has one of three sizes (`MCSizes`): two turns with all that
agents do in them, in 8 ticks or, with legacy records, 7, which is three, or two,
for what happens in the turns or between; or three turns in 9 ticks, two of them for edits,
one in the turn that is alone and one in the group, in either order, or both in a chain
(382,693 states in all).  Longer chains next to a turn that is alone need a fourth turn and
are not reached.  *QueryIndex*: a fingerprint misses a change if a record changes and another
changes back; two writes and two rebuilds reach an older index
installed over a newer one.  *StoreMerge*: the second import meets what the
first left behind; a session is dropped and recorded again between any two steps of the
first (2,075,788 states).  *Stores*: all commands and acts, as often as it takes, are too
many, so the machine is used in one of four ways (`MCUses`).  Two commands and two acts
are a command that is killed with the registry's lock and one that meets the lock, or a
copy and its opening or rekey; three commands are an attach or a repair between two
opens.  Two opens that match one binding need a worktree that was moved
and another one in its place; a removed project comes back by four commands, a
copy's rekey among them (4,435,995 states in all).  *Worktrees*: three commands are a
checkout, a move and a stop, or two sessions and a restore.

`MaxWrites`, `MaxCrashes`, `MaxChops`, `MaxClock`, `MaxFaults`, `MaxTurns`,
`MaxEdits`, `MaxRuns`, `MaxStops`, `MaxPrompts`, `MaxRetries`, `MaxKills`,
`MaxImports`, `MaxCommands`,
`MaxIds` and `MaxActs` are the bounds on counters, `Sizes` and `Uses` those of
*TurnHistory* and *Stores*.  `MaxBundlesPerBatch` and
`Attempts` are limits of the code (16 and 3 there).

The runs say `CHECK_DEADLOCK FALSE`: with all bounds used up nothing is left to do,
and in the code a process may stop whenever it is idle.

### Fairness

`Rollback!FairSpec`: an operation that holds the lock takes its next step or is
stopped, and a user who is told of an interrupted rollback keeps asking for
`turnal recovery resume`.  Strong fairness for the latter, because another
operation may hold the lock each time it is asked for; `MaxStops` bounds how often
a resume is cut off, without which nothing could be promised.

`SharedHistory!FairSpec`: an operation that holds the device's lock takes its next
step or is stopped, and users keep pushing (and approve what they configured) and
pulling.  Strong fairness for these, because the other operation may hold the lock
each time.  `MaxFaults` bounds how often all this is disturbed; a push or a pull
that refuses an outbox, a head or a ref is not excluded, so `TurnsArrive` also says
that no fault leaves a device refusing for ever, save for those it names.

`Experiments!FairSpec`: a process that is not killed takes its next step, and users
keep running case commands, each of which recovers first.  Strong fairness, because
the locks of a run and of the workspace are polled while others may hold them.  An
agent's turn ends at last.

## 4. Proofs

`EventLogProofs` proves for all `Procs`, `Sources`, bounds and sets of calls,
from `ConstantsAssumption` and `NilAssumption` only:

* `TypeCorrect`: `Spec => []TypeOK`.
* `ChainHolds`: `Spec => []Chain`.  `Chain` is not inductive: a writer keeps the
  last line it read in `work` until it writes.  The inductive invariant adds
  `WriterInv`: a process in the part of `Append` that needs the lock holds it
  (so there is at most one), and at `write` its `work.last` is the last line of
  the file.  `Recover` cuts a partial line only, and the derived files, which may
  be as stale as they like, are never the source of the last line: `ReadLast`
  compares the tail state with the line itself.
* `SourcesUnique`: `Spec => []UniqueSources`.  `UniqueInv` says what a derived file
  implies when it passes the checks of the code: an index whose generation and
  coverage fit has every line up to its size, a tail state that fits the file
  names its last line, and a writer that looked its source up finds it absent until
  it writes.  That there is one generation per replacement, and that a tail state
  which was copied before a replacement is told by it, is most of the work.
* `StreamImplemented`: `Spec => ImplementsStream`, by the mapping of `lines` to the
  stream's entries.  The step that adds an entry needs `Chain` and `UniqueSources`
  of the state before it.
* `LookupsHold`: `Spec => []LookupsTrue` when nobody calls the aggregate lookup,
  which has no caller in the program and is wrong after a replacement (section 5).
  `LookupInv` adds what a lookup without the lock has found so far, and that a
  line it saw, or did not see, was there, or was not, at some moment since the
  call began.

`TurnRecorderProofs` proves for all `Procs`, `Sessions`, `HomeOf`, `Calls`, kinds
and numbers of faults and turns, from `TurnAssumption` and `NilAssumption`:

* `TypeCorrect`: `Spec => []TypeOK`, for any worktrees.  A process that holds a
  checkpoint in its locals, or a turn for a prompt, must have got one (`Held`).
* `NothingLost`, `NothingInvented`, `TurnsEndWithPost`: `RecordedOrJournaled`,
  `EventsBacked` and `ActiveEndsWithPost` of the run `turns`, and `ActiveHasPre`, when
  `Worktrees = {Primary}`.  With more worktrees they are false, for the reason
  that section 5 gives first.  The inductive invariant `Inv` says of each
  process what it relies on.  The one that makes a checkpoint holds the lock, its
  checks are still true, and nobody else relies on its checkpoint (`Exclusive`):
  so an undo can take the ref away.  One that goes on with a checkpoint after the
  lock is released, or recovers it, finds its ref (`Follower`), and has the event
  recorded before it removes the journal.  What recovery listed as finalized is
  recorded (`Listed`), however old the list.  A step keeps `Inv` when it is
  `Disciplined`: it changes refs and active turns under the lock only, streams
  only grow, by events of checkpoints the process relies on, and so on.  That is
  one lemma (`SafetyStep`), and each action is shown to be disciplined.
* `DoctorIsRight`, `HistoryInOrder`, `RecallAlwaysAnswers`, `ReadersAlwaysAgree`, under
  `HooksOnly`: one worktree, and of the calls those of hooks, any of them.  The first and
  the last two are the properties `DoctorTrue`, `RecallAnswers` and `ReadersAgree` of the
  run `turns`; `HistoryInOrder` is the order of events that recall checks
  (`TurnRecorder!StreamOrder`).  The argument goes in four steps, an invariant each:
  * `HookInv`, `PostOpen`, `FaultFree`.  A hook has the session lock until it ends, so
    hooks of a session exclude each other, and a hook that is past recovery leaves no
    journal of its session but its own (`Covered`).  Hence a post journal is that of the active turn, or no turn
    is active (`PostOpen`), and the state that makes recovery fail is one that `doctor`
    reports.  `FaultFree`: as long as nothing went wrong there is nothing to report.
  * `TurnInv`, `EventInv`.  The turn at work is the highest of its session (`Highest`,
    `ActiveTop`), and whoever appends an event has the journal of its checkpoint, or
    the event is there already (`Traced`): a journal that is finalized has both events in
    the stream (`Finalized`, `Paired`).
  * `OrderInv`.  A session has one unfinished journal at most (`OneLive`), and the event
    it stands for follows all that are in the stream (`NextInOrder`), hence `StreamOrder`.
  * `RecallInv`.  A prompt, or the end of a turn, is behind the pre checkpoint of its
    turn (`Founded`, `AtTurn`).  With the order of events this makes recall accept each
    of them (`EventAccepted`).  When nothing runs and nothing is left to recover, refs
    and events name the same turns (`SettledTurn`), and so do the readers that start
    from either (`SameTurns`, `SameStatus`, `SameLatest`).

  The proof found that an earlier version of `StreamOrder` and `RecallAnswers` is false: a
  prompt that finds the turn active that a killed recovery had finished is appended
  behind the turn's end, and recall refuses the turn (`InTime` excepts it, section 5).

`RollbackProofs` proves from `RollbackAssumption`, whatever the checkpoints, files,
ignore rules, commits, modes and bounds are, for primary and linked worktrees:

* `TypeCorrect`, `RecoveryFindsRefs`, `EventsKeepRefs`, `NoDuplicateEvent`: the
  invariants of the run `rollback`, the last one a part of `RestoresTrue`.  They need
  each other and what the operation under way has found out before (`OpInv`): a
  rollback that makes its snapshots has its intent in the journal and its refs in the store (`MakingKnows`); one that
  writes files, or ends, is where the phase in the journal says (`PhaseKnown`); a
  session whose refs are being dropped has no records left and no pending rollback
  (`DroppingKnows`).  `SafetyNamed` and `RoomForRun` tie the number of the safety
  snapshot to the phase, `StreamOwned` says that a rollback is recorded in the
  stream of its target's session, so that dropping the session takes its event
  along.  `AmbiguityIsKept` follows from `OpInv`.  Nothing is assumed of the target
  when the lock is taken.  A ref that is there when the safety snapshot is made is kept from
  then on; if it was dropped before, the theorems say that its rollback, numbered in
  `unbacked`, is the only one that misses it, and that its safety snapshot is kept all the
  same.
* `NothingIsDestroyed`: the step property `NothingUnsavedDestroyed`.  What it needs
  is `FilesInv`.  The snapshot of a rollback that has not begun to write has the
  workspace, but for later edits and ignored files (`SnapshotSaves`); from then on
  each file is one of the safety snapshot, the target or a commit, absent, edited
  later, or ignored (`MixtureKnown`), through any number of stops, resumes and
  changes of mind between the two trees.  `LeftAllowed` keeps the restore away from
  deny-listed files.
* `RestoresAreExact`: `RestoresTrue`, that is `KeptRollbackTellsWorkspace`,
  `SafetyRestored` and `RecordedOnce`, from `RestoreAssumption` too.  `RestoreInv` says
  how far a restore is (`Progress`): the files of the commit are written but for those
  left (`Written`), the others are looked at for deletion in order (`Removed`), Git has
  removed what its HEAD does not have (`Cleaned`), and at the end all is as it is to be
  (`Exact`), which stays true until the journal is removed, unless the safety snapshot
  is asked for.  An edit at any moment is newer than the snapshot (`VersionsPast`), and
  an edited `.gitignore` is not the commit's.  The two parts of the assumption that are
  not about numbering versions are needed.  No `.gitignore` names a file that comes
  before it: the files absent from the target are looked at in Git's order, and one
  that comes before a `.gitignore` which the restore is going to delete is skipped if
  that one names it, and stays (`.env` is such a name).  `.gitignore` is committed,
  where Git workspaces are rolled back: `git clean` goes by the one it finds, so a
  `.gitignore` that was never committed protects files that are in no snapshot and is
  then removed itself.  The instance of the run satisfies the assumption, and TLC
  evaluates it.

`SharedHistoryProofs` proves from `SharedAssumption`, for any devices, turns,
remotes, batch sizes, numbers and kinds of faults and configurations:

* `TypeCorrect`, `CursorsBacked`, `PublishedAsAgreed`, `PublicationHolds`: the three
  safety invariants of the run `shared_history`.  They need one inductive invariant,
  a conjunction over the devices (`DeviceInv`).  `StateInv` is what is true of every
  copy of `state.json`, on disk or in the memory of the operation under way: its
  cursors are backed by bundles on disk, what it calls committed is in the outbox,
  what it calls published is at a remote, and every commit of the outbox is accounted
  for.  A commit that no copy knows can only be the last one (`LastOnly`), which is
  why recovering one commit is enough; `NextIsCommitted` ties it to the batch that a
  push is about to save.  `PushInv` and `PullInv` say at each label what the operation
  has found out and is still true: a device's operations exclude each other, so only
  tampering at the remote can come between.  `RepositoryInv` is about consent, about
  what may be at a ref after tampering (a prefix of the outbox, or something forged,
  which is never taken for one's own), and about the device's own tracking ref.
* Most steps keep most of this because it only grows (`chain`, `agreed`, `pulled`,
  `tampered`): one lemma per part says what a step may change to keep it, and each
  action is shown to be of that kind.

`ExperimentsProofs` proves from `RunAssumption`, for any processes, runs, cases,
commands and numbers of faults:

* `RunsAreOwned`, `LogIsConsistent`, `WorkspacesKept`: the three safety invariants of
  the run `forks`, whatever turns the cases are made from; `TypeCorrect` for the variables of `RunLifecycle`.  The
  inductive invariant `IInv` was checked by TLC first.  Its half about runs
  (`RunsInv`) says what the owner of a run has made at each label: from `start` to
  `finish` the run is open and has its journal and lock, only one process has that
  run (`OneOwner`), and whoever takes the journal away holds the mutation lock of a run
  that has ended (`Closed`).  Recovery reads journal, log, lock and owner one after
  another; the proof shows that what it has read is true still, because an owner that
  is gone does not come back and a run is never opened twice.
* The half about cases (`CasesInv`) says of each run which a case links what is recorded
  (`LinkInv`, `EndInv`), of each fork that its attempt is open until it records the
  result itself (`ForkInv`) and that its directory is there (`ForkDir`), and of each
  command what remains true of what it read before (`TaskInv`): what recovery saw
  linked is linked, what it is going to remove belongs to an attempt that is done, and
  an application concerns an attempt that was selected at some time (`Chosen`).
* The records of a case only grow (`Grown`, `CasesGrow`), and `Made` says which label
  adds which record.  A step is looked at twice: what it does to the invariant of the
  process that takes it (`OwnCases`), and why the others keep theirs.

`HookCaptureProofs` proves from `CaptureAssumption`, for any tools, kinds of adapters and
numbers of prompts, redeliveries and kills:

* `PromptsAreKept`, `CallsAreTrue`, `StopsSettle`: the three properties of the run
  `capture`, the last one for any set of uses that run an intent command (`Intents`).  Every step, a kill or the agent's own steps included, records nothing or
  one event that is `Admissible` (`Records`): of the active turn, of a use of a tool
  that the turn has no such event of, of a prompt that was not seen.  One lemma for each
  part of the invariant says that an admissible event keeps it (`TurnsAdded`,
  `StreamAdded`, `PairsAdded`, `PromptsAdded`, `StopAdded`); a label of the hook has
  only to show that its event is admissible.
* That rests on `JobInv`: what the hook that has the session lock has found out, by the
  search of the session, of the turn or of the refs, is true when it writes, any number
  of steps of the agent later.  `PromptHeard` follows a prompt from the agent to the
  stream or to a kill, `SnapInv` says that a snapshot of a call is made once and shows
  nothing later than the moment when its tool ran.
* The proof found that an earlier version of `StopSettles`, which wanted the result
  behind its call for every adapter, is false with two kills and two redeliveries:
  more than the run allows (section 5, *Capture*).

`QueryIndexProofs` proves from `WalkAssumption`, for any sessions, rebuilders, readers and
numbers of attempts and writes:

* `AnswersAreTrue`: the property of the run `index`.  Nothing is locked and no fingerprint
  is a snapshot, so the proof compares readings one record at a time.  A record's number
  grows with every change; a value read before another is not greater, or the session was
  dropped since the rebuild began (`Before`).  The invariant chains this through
  everything that is read: the fingerprint before collecting, the rows, the fingerprint
  after, and whatever is there now (`RebuildOK`, `IndexOK`, `ReadOK`).  When the two
  fingerprints agree the rows lie between two equal values of each record (`Told`), and when
  a reader's fingerprint agrees with the index so does what was there when it opened the
  file (`HealthyTold`).  The drop is a true exception: it puts a record back to nothing.
* An action on the records, whichever it is, keeps all of this because it is `Later`;
  an action of a rebuild or a reader has only to show it for the process that takes it.

`StoreMergeProofs` proves from the assumptions of `StoreMerge`, for any stores, streams, numbers of
turns, merges, faults and processes, and sessions recorded again any number of times:

* `TypeCorrect`.
* `MergedCheckpointsFound` and `MergesAddOnly`: both properties of the run `merge`.
  The inductive invariant says of each import what its label tells: it holds the lock
  of its destination (`Held`) and has a journal there (`Journaled`) under a number
  nobody else has (`Numbered`); its copies are of streams that it listed (`Sourced`);
  from `alias` on the refs it fetched are promoted (`Brought`), and what it has
  installed is there (`Placed`).  Refs are only added under names that are free (`AddKeeps`), so an
  import that stops at a collision has disturbed nobody.  Of each store it says that every event has the refs
  that it was created with, or came in with an import (`Kept`), and that what is
  staged belongs to an import (`Owned`).
* The proof found that a claim of an earlier version of `ManifestTrue`, that a
  stream an import adds has at least the events its manifest lists, is false: the source
  may drop a session, and record it again or import a shorter copy of it, between
  listing and copying, and the installed copy is never compared
  with the listed digest (`importer.go:433`).  The property now excepts streams that
  were dropped at the source after they were listed (`gone`).

Assumptions on constants are in the modules; the ones beyond types are that the
sets of turns and paths are finite, that devices have turns of their own, and that
`"copy"`, which names the consent to copy old history, is no prompt mode.

Only model-checked:

* all liveness, which is out of the prover's reach: `RecoveryCompletes`,
  `TurnsArrive`, `AttemptsConclude`, `WorkspacesReclaimed`;
* `Stores` (`IdentitiesApart`, `RemovedStaysRemoved`, `OthersUntouched`) and `Worktrees`
  (`DirectoriesTrue`, `RestoresExact`, `PreviewTrue`, `ProjectsKept`);
* `Blame` and `Bisect`, which fold over sequences: what such a fold computes is
  proved by induction over data, which the prover's library cannot be used for.

## 5. Seen while modelling and not among the runs

The first group contradicts a document or a comment; each property named is in its
module, and fails with the constants given.

* **Worktrees are not independent** (`TurnRecorder!StreamIsolation`, two worktrees, no
  fault).  Recovery in one worktree lists the checkpoint journals of all worktrees of
  the store and appends their events to its own stream (`turnevents.go:172`; the
  README says at line 572 that worktrees are kept apart).  It takes no crash: a hook
  elsewhere between the end of `Start` and its appends is enough.  Besides,
  `FinalizeCheckpointJournal` always removes the journal under the primary worktree's
  name, so those of linked worktrees are never removed by it.
* **A torn turn event blocks recovery** (`JournalsDrain`, one process, one torn line,
  fairness).  Recovery looks up the SourceID before it appends, the lookup refuses a
  stream with a partial last line, and only an append would cut it off; hooks recover
  first, so every later hook fails (`turnevents.go:361`, `docs/recovery.md:3`).
* **A turn that is finished and active** (`TurnsClose`, one process, two kills,
  fairness).  Recovery removes the post journal before it clears the active turn
  (`turnevents.go:335`); a kill in between leaves a session in which no turn can be
  finished or started until a later prompt or stop, and if a prompt is appended to the
  finished turn, recall refuses the turn for ever.
* **A rollback deletes ignored files** (`Rollback!LeftUntouched`, mode checkpoint, one
  rollback, no stop, no edit).  The README promises at line 265 to leave ignored files
  untouched.  The restore writes the target's `.gitignore` first and asks it afterwards
  which files to keep (`repo.go:1941`); a file that only the present `.gitignore`
  ignores is deleted, and no snapshot holds it.  This is why `NothingUnsavedDestroyed`
  excepts ignored files.
* **A rollback that was given up is recorded** (`EventTellsWorkspace`, mode checkpoint,
  two rollbacks, two stops).  The recovery guide says at line 23 that Turnal never
  chooses between target and safety snapshot itself.  `restore-safety` from a journal
  "restored" keeps that phase while it writes files (`rollback.go:310`); stopped midway,
  it leaves a mixture which the next rollback records as the target.
  `KeptRollbackTellsWorkspace`, which holds, is the claim without that case.
* **A rollback of a dropped target** (`Rollback!NothingDangles`, the instance of the
  run).  A comment in `dropSession` (`retention.go:68`) says that no surviving event
  may point at missing state.  `turnal rollback` resolves its target before it waits for
  the workspace lock (`cli/rollback.go:43`), and nothing resolves it again
  (`rollback.go:437`).  If the target's session is dropped in between, the rollback
  restores the commit all the same and is recorded with refs that are gone.  If it is
  interrupted, resuming refuses its journal for ever
  (`rollback.go:914`), and so does the next rollback and every deletion of that session; only
  `restore-safety` ends it.  Hence `RecoveryPossible`, `HistoryBacked` and
  `RecoveryCompletes` except the rollbacks in `unbacked`.
* **A run that succeeded is called incomplete** (`Experiments!RecoveredIncomplete`, the
  instance of `forks`).  `ReconcileAbandonedAttempts` is said to end the attempts of
  runs that were recovered as incomplete (`cases/attempts.go:206`).  A case that is made from
  the turn of a fork links the fork's run (`create.go:220`) and has no result of it, so the
  next recovery records the attempt as incomplete in that case, although the run has
  ended with success.  Hence `LogConsistent` compares result and run in the case the fork was
  made for.
* **A removed project comes back** (`Stores!RemovedForGood`, the instance of
  `stores`).  A comment on `DeregisterStore` (`registry.go:187`) says that automatic
  opens cannot make a project visible again.  A copy of the store that is opened before
  it is rekeyed is taken for the store that has moved there and makes the hidden entry its own
  (`identity.go:588`); rekeying keeps the entry, by its path.  The next open of the
  original finds none and appends a visible one.  Hence `RemovedStaysRemoved` excepts the
  stores in `overtaken`.
* **A turn is published twice** (`SharedHistory!NeverRegenerated`, one remote, two
  stops).  A comment in `syncPush` (`service.go:559`) says that the outbox is pushed
  first so that a bundle is never regenerated.  Suppose a push is killed between the
  commit of a batch and `state.json`, and the next one sends the batch found again but
  is killed before it saves.  A pull then reads the device's own ref and remembers its
  head, which `recoverCommittedState` takes for a sign that nothing is to be recovered
  (`git.go:530`).  The next push puts the turn in a second batch, which readers refuse
  for ever.  Hence `PublishedOnce`, `OutboxFits` and `TurnsArrive` except the devices in
  `ownPulled`.  A device that pulled a batch of its own also keeps a tracking ref of
  itself, which its next push leaves behind, and refuses every later pull.
* **The aggregate lookup writes without the lock** (`EventLog!MarkersTrue`, "aggregate"
  among `Calls`, `MaxChops` 1).  `FindSourceID` of the aggregate log rewrites the tail
  state (`log.go:430`).  Racing an `Append` it can put an older last event back with an
  unchanged generation, and a replacement of the file by just that prefix then leaves
  a marker that is believed although its event is gone.  Nothing calls it today.
* `turnal recovery resume` parses the journal's git-sync ref in the form of the primary
  worktree (`rollback.go:257`, `275`), and so refuses every interrupted workspace-git
  rollback of a linked one: `RecoveryCompletes` fails when `Scoped` is TRUE.

What else a reader of the models should know:

* *Turns.*  A pre checkpoint whose `Start` was killed before it wrote the active turn
  shows as "active" in `sessions` for ever.  Doctor does not compare refs with events.
  CLI calls take no session lock: while a `turn finish` that was killed has left a
  committed post journal, a `turn start` under way may begin the next turn, and then
  recovery fails although `doctor` has nothing to report (`DoctorTrue`, two
  processes, prompt, stop, start and finish, two kills).
* *Capture.*  A prompt without a turn id that is byte-identical to an earlier one is
  taken for a redelivery; one serialised anew opens another turn.  A prompt that ends an
  open turn leaves its calls unmatched, and a late result adds a second call in the next
  turn.  A stop killed after the assistant's message counts as seen when it comes again,
  so its turn stays open until the next prompt.  A result hook that was killed between
  the call it added and the result, and comes again in a later turn, leaves a result
  whose call is in the earlier turn only (`capture.go:1098`).  If the hook
  of that call was killed too, and an external adapter delivers it again in the turn of
  the result, it is recorded behind the result; with a built-in adapter the search of the
  session for the call prevents this (`sessionHasToolEvent`).
* *Cases.*  `ClearActiveForRecovery` fails while the source session is in a later turn,
  and with it every fork, case command and apply, until that turn ends.  A recovery that
  read before an executor finished may report "already has a different durable result".
  `ListDurableStreams` reads one stream after another, so a projection may see an
  application without its selection for a moment.  A verifier's directory may be removed
  when its attempt was linked after the projection was read.
* *Index.*  A rebuild that succeeded may be overwritten by an older one, whose
  fingerprint then tells readers so.  A dropped session's records may come and go between
  two fingerprints (`gone` in `AnswersTrue`).  Opening an index that was just removed
  creates an empty file.
* *Blame and bisect.*  Legacy records keep whole seconds: bisect orders pre checkpoints of
  one second as equal, and a post event that recovery appended dates the turn wrongly;
  `BreakBlamed` is claimed for precise records.  A line that was moved is the mover's.
* *Replay.*  No lock is taken.  A session whose directory the user deleted, or whose
  removal was killed, can neither be stopped nor removed; a torn record breaks `replay
  list`; `replay keep` marks a directory without asking whose it is (`owned`).  A directory
  in the way of a file is removed with the ignored files in it; only `.git` and `.turnal`
  stop the restore, midway.  The preview leaves out changes of permissions only.
* *Stores.*  When a linked worktree was moved and another one is added at its old path, the
  open of each matches the old binding, one by the Git directory and one by the path
  (`identity.go:419`), and if neither has written it before the other has read it, or
  the moved one is never opened again, both record under one producer
  (`ProducersDistinct`, which fails in the instance of `stores`).
  `IdentitiesApart` excepts such bindings (`shared`).  The store of a copied Git project cannot be opened, so it cannot be rekeyed
  (`identity.go:408`; `apps/marketing/src/content/docs/index.md:492` says one should).  A killed holder of
  `registry.json.lock` makes every later open fail.  `destroy` in a linked worktree deletes
  the store all of them share.
* *Merge.*  The source is not locked: events appended between listing and copying come
  without refs.  A session that is dropped and recorded again in between is copied with
  its new turns, and no ref keeps their commits, which were never fetched: this is why
  `CommitsKept` leaves out the events in `late`.  When such a session is merged
  later, its turns have the names of the ones imported before and other commits, and the
  merge ends in "import ref collision" each time.  `--recover` may then fail for ever with "divergent stream conflict".
  A source stream that has grown is refused, and with it the whole merge.  An abort leaves
  installed streams and promoted refs.  Events of a primary worktree name the unscoped
  ref, after an import only the scoped alias exists, and `retention prune` deletes it; such
  a store cannot be the source of a merge again.  `--recover` behind a finishing merge
  makes an import directory without a journal, after which `Pending` always fails; so do
  two killed merges.  `Abort` takes no workspace lock; the model excludes it while a merge
  into the store runs.

## 6. Not modelled, and what is open

Not modelled, for good: redaction, signing and payload formats (data, not control),
snapshot contents and Git internals, search, usage and transcripts, the caches of blame
and viewer, installers, upgrade, configuration, adapters of other agents and the plugin
SDK, the viewer front end, the web site, the editor extension and the npm wrapper.  The
notes of the components in `PROJECT.json` say what is left out of each modelled part.

Hazards without a property are those at places the models merge or leave out, above all
`Retention` against the recorder: `PruneOrphanRefs` reads the event log before the
journals, and `DropSession` holds a lock that the CLI's `turn start` does not take.

Open: theorems for `Stores` and `Worktrees`, and a model of `Retention` against the
recorder for the hazards without a property.
