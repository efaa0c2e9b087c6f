------------------------------ MODULE Worktrees ------------------------------
(***************************************************************************)
(* Checkpoints written back to directories: the workspace, the worktrees   *)
(* of `turnal replay` and the evaluation directories of `turnal verify`    *)
(* (restoreCommit and MaterializeCommit of internal/checkpoint,            *)
(* internal/replay, internal/verifier/target.go).                          *)
(*                                                                         *)
(* `turnal replay` takes no lock and keeps three records that must agree:  *)
(* the session file, the marker in the worktree and the worktree's files.  *)
(* A command writes them one after the other, each in place, and may be    *)
(* killed or fail before, between and inside the writes; the user may      *)
(* delete a worktree or put a project of his own where it was.             *)
(*                                                                         *)
(* One command works at a time.  The marker is kept apart from the files   *)
(* of its directory.                                                       *)
(***************************************************************************)
EXTENDS CheckpointTrees

CONSTANTS
    Workspace, Evaluation, \* the workspace, the directory verify makes
    Spots,                 \* directories outside, for worktrees and kept copies
    Checkpoints,           \* of agents' turns: [session, turn, phase] records
    CommitOf,              \* their commits
    StartTrees,            \* what the workspace may hold
    OwnTree,               \* a project of the user
    Additions,             \* what is added to a worktree: [path, node] records
    MaxCommands, MaxStops, MaxActs \* bounds: commands, ends in the middle, acts of the user

Phases == {"pre", "post"}

Ids == 1 .. MaxCommands

ASSUME WorktreesAssumption ==
    /\ {MaxCommands, MaxStops, MaxActs} \subseteq Nat
    /\ {Workspace, Evaluation} \intersect Spots = {} /\ Workspace # Evaluation
    /\ \A c \in Checkpoints : c.turn \in Nat /\ c.phase \in Phases
    /\ DOMAIN CommitOf = Checkpoints

VARIABLES
    dirs,     \* the files of each directory, or Absent
    markers,  \* .turnal-replay.json of each directory
    sessions, \* replay/sessions/<id>.json
    active,   \* replay/active
    stored,   \* checkpoints that were not dropped
    op,       \* the command that runs
    commands, stops, acts, \* how many there were
    hurt,     \* history: sessions stopped in the middle, or touched by the user, since
              \* their files were last written
    owned     \* history: spots with a project of the user

vars == <<dirs, markers, sessions, active, stored, op, commands, stops, acts, hurt, owned>>

Places == Spots \union {Workspace, Evaluation}

\* No directory; a tree has no path <<0>>, which the root is not a name for.
Absent == [p \in {<<>>} |-> Dir]

\* A file that was cut off, a file that is not there.
Torn == MaxCommands + 1
None == 0

NoCheckpoint == [session |-> 0, turn |-> 0, phase |-> "pre"]

Marker(id, c, kept) == [id |-> id, current |-> c, kept |-> kept]
NoMarker   == Marker(None, NoCheckpoint, FALSE)
TornMarker == Marker(Torn, NoCheckpoint, FALSE)

Session(id, place, seq, cur, kept) ==
    [id |-> id, place |-> place, seq |-> seq, cur |-> cur, kept |-> kept]
NoSession   == Session(None, Workspace, <<>>, 0, FALSE)
TornSession == Session(Torn, Workspace, <<>>, 0, FALSE)

Valid(s) == s.id \in Ids

EmptyCommit == [tree |-> <<>>, perms |-> <<>>]

Idle == [cmd |-> "none", pc |-> "idle", s |-> NoSession, place |-> Workspace,
         checkpoint |-> NoCheckpoint, existed |-> FALSE, left |-> {},
         plan |-> <<>>, before |-> EmptyTree]

----------------------------------------------------------------------------
(* Which checkpoints a target names                                        *)

PhaseRank(c) == IF c.phase = "pre" THEN 0 ELSE 1

Earlier(c, d) == c.turn < d.turn \/ (c.turn = d.turn /\ PhaseRank(c) <= PhaseRank(d))

\* sessionEntries: ListCheckpointRefInfos sorts by turn and phase.
Entries(session) == SetToSortSeq({c \in stored : c.session = session}, Earlier)

Selection(seq, cur) == [seq |-> seq, cur |-> cur]

\* <session>, <session>:turn:<first>..<last> and <session>:turn:<turn>[:<phase>].  Without
\* a phase the post checkpoint is meant, or the pre checkpoint if there is no other.
Selections ==
    LET sessionsOf == {c.session : c \in stored}
        turns      == {c.turn : c \in stored}
        whole  == {Selection(Entries(a), 1) : a \in sessionsOf}
        ranges == {Selection(SelectSeq(Entries(a), LAMBDA c : first <= c.turn /\ c.turn <= last), 1) :
                     a \in sessionsOf, first \in turns, last \in turns}
        single == {Selection(Entries(c.session),
                             CHOOSE i \in DOMAIN Entries(c.session) : Entries(c.session)[i] = c) :
                     c \in stored}
    IN  {e \in whole \union ranges \union single : e.seq # <<>>}

Current(s) == s.seq[s.cur]

----------------------------------------------------------------------------
(* Commands                                                                *)

Init ==
    /\ \E t \in StartTrees : dirs = [d \in Places |-> IF d = Workspace THEN t ELSE Absent]
    /\ markers = [d \in Places |-> NoMarker]
    /\ sessions = [i \in Ids |-> NoSession]
    /\ active = None
    /\ stored = Checkpoints
    /\ op = Idle
    /\ commands = 0 /\ stops = 0 /\ acts = 0
    /\ hurt = {} /\ owned = {}

IsIdle == op.cmd = "none"

At(label) == op.pc = label

Goto(label) == op' = [op EXCEPT !.pc = label]

KeepRecords == UNCHANGED <<markers, sessions, active, stored>>
KeepBounds  == UNCHANGED <<commands, stops, acts>>
KeepHistory == UNCHANGED <<hurt, owned>>

Begins == IsIdle /\ commands < MaxCommands /\ commands' = commands + 1

Begin(cmd, label, s, place, c) ==
    op' = [Idle EXCEPT !.cmd = cmd, !.pc = label, !.s = s, !.place = place, !.checkpoint = c]

\* `turnal rollback --mode checkpoint`, from the preview on.
StartRestore ==
    /\ Begins
    /\ \E c \in stored :
           op' = [Idle EXCEPT !.cmd = "restore", !.pc = "start", !.checkpoint = c,
                              !.plan = Plan(dirs[Workspace], CommitOf[c]),
                              !.before = dirs[Workspace]]
    /\ UNCHANGED <<dirs, stops, acts>> /\ KeepRecords /\ KeepHistory

\* PrepareCheckpoint: a new directory with a proof of ownership.
StartVerify ==
    /\ Begins
    /\ \E c \in stored : Begin("verify", "start", NoSession, Evaluation, c)
    /\ dirs' = [dirs EXCEPT ![Evaluation] = EmptyTree]
    /\ UNCHANGED <<stops, acts>> /\ KeepRecords /\ KeepHistory

\* ensureCheckoutPath for a new session, and ensureKeepPath.
Free(d) == dirs[d] \in {Absent, EmptyTree} /\ markers[d] = NoMarker

MadeDir(d) == IF dirs[d] = Absent THEN EmptyTree ELSE dirs[d]

\* Checkout.
StartCheckout ==
    /\ Begins
    /\ \E e \in Selections, d \in {f \in Spots : Free(f)} :
           /\ op' = [Idle EXCEPT !.cmd = "checkout", !.pc = "start", !.place = d,
                                 !.s = Session(commands + 1, d, e.seq, e.cur, FALSE),
                                 !.checkpoint = e.seq[e.cur], !.existed = (dirs[d] # Absent)]
           /\ dirs' = [dirs EXCEPT ![d] = MadeDir(d)]
    /\ UNCHANGED <<stops, acts>> /\ KeepRecords /\ KeepHistory

\* Active.
HasActive == active \in Ids /\ Valid(sessions[active])

Active == sessions[active]

\* Mutant of Owns: a directory without a marker will do.
OwnsUnmarked(s) == dirs[s.place] # Absent /\ markers[s.place].id \in {s.id, None}

\* ensureSessionPathOwned.
Owns(s) == dirs[s.place] # Absent /\ markers[s.place].id = s.id

\* Move and Goto.
StartMove ==
    /\ Begins /\ HasActive /\ Owns(Active)
    /\ \E s \in {[Active EXCEPT !.cur = @ + delta] : delta \in {- 1, 1}}
               \union {[Active EXCEPT !.seq = e.seq, !.cur = e.cur] : e \in Selections} :
           /\ s.cur \in DOMAIN s.seq
           /\ Begin("move", "start", s, s.place, Current(s))
    /\ UNCHANGED <<dirs, stops, acts>> /\ KeepRecords /\ KeepHistory

\* Keep without a path.
StartKeep ==
    /\ Begins /\ HasActive
    /\ Begin("keep", "marker", [Active EXCEPT !.kept = TRUE], Active.place, Current(Active))
    /\ UNCHANGED <<dirs, stops, acts>> /\ KeepRecords /\ KeepHistory

\* Keep with a path.
StartCopy ==
    /\ Begins /\ HasActive
    /\ \E d \in {f \in Spots : Free(f)} :
           /\ Begin("copy", "start", Active, d, Current(Active))
           /\ dirs' = [dirs EXCEPT ![d] = MadeDir(d)]
    /\ UNCHANGED <<stops, acts>> /\ KeepRecords /\ KeepHistory

\* Stop of the active session, Remove of any.
StartStop ==
    /\ Begins
    /\ \/ HasActive /\ Active.kept /\ Begin("stop", "unmark", Active, Active.place, NoCheckpoint)
       \/ \E s \in {sessions[i] : i \in Ids} :
              /\ Valid(s) /\ Owns(s)
              /\ Begin("stop", "remove", s, s.place, NoCheckpoint)
    /\ UNCHANGED <<dirs, stops, acts>> /\ KeepRecords /\ KeepHistory

\* Move, Goto, Stop or Remove of a session whose worktree is gone: the directory is made
\* before the missing marker is noticed.
Disowned ==
    /\ Begins
    /\ \E i \in Ids :
           /\ Valid(sessions[i]) /\ dirs[sessions[i].place] = Absent
           /\ dirs' = [dirs EXCEPT ![sessions[i].place] = EmptyTree]
    /\ UNCHANGED <<op, stops, acts>> /\ KeepRecords /\ KeepHistory

----------------------------------------------------------------------------
(* Files                                                                   *)

Here == dirs[op.place]

SetHere(t) == dirs' = [dirs EXCEPT ![op.place] = t]

Target == CommitOf[op.checkpoint]

\* restoreCommit and ApplyCurrentSecretDenyGlobs; replay shows what was captured.
Wanted == {p \in DOMAIN Target.tree : op.cmd \in {"restore", "verify"} => ~ DeniedPath(p)}

Resolved ==
    /\ At("start") /\ op.checkpoint \in stored
    /\ op' = [op EXCEPT !.pc = "write", !.left = Wanted]
    /\ UNCHANGED dirs /\ KeepRecords /\ KeepBounds /\ KeepHistory

WriteEntry ==
    /\ At("write") /\ op.left # {}
    /\ LET p == FirstPath(op.left)
       IN  /\ ~ Obstructed(Here, p)
           /\ SetHere(Put(Here, p, Restored(Target, p)))
           /\ op' = [op EXCEPT !.left = @ \ {p}]
    /\ KeepRecords /\ KeepBounds /\ KeepHistory

StartWalk ==
    /\ At("write") /\ op.left = {}
    /\ op' = [op EXCEPT !.pc = "walk", !.left = DOMAIN Here]
    /\ UNCHANGED dirs /\ KeepRecords /\ KeepBounds /\ KeepHistory

\* What the walk passes by, with all below: .gitignore is asked as it is by now.
Spared(t, p) == IF op.cmd = "restore" THEN Protected(t, p) ELSE Excluded(p)

\* deleteFilesAbsentFrom and materializeDeleteFilesAbsentFrom, one path.
Walk ==
    /\ At("walk") /\ op.left # {}
    /\ LET p == FirstPath(op.left)
       IN  IF Spared(Here, p)
           THEN /\ op' = [op EXCEPT !.left = @ \ ({p} \union Below(Here, p))]
                /\ UNCHANGED dirs
           ELSE /\ op' = [op EXCEPT !.left = @ \ {p}]
                /\ SetHere(IF IsDir(Here, p) \/ p \in Wanted THEN Here ELSE Without(Here, {p}))
    /\ KeepRecords /\ KeepBounds /\ KeepHistory

AfterFiles ==
    CASE op.cmd \in {"checkout", "move"} -> [op EXCEPT !.pc = "marker"]
      [] op.cmd = "verify" -> [op EXCEPT !.pc = "check"]
      [] OTHER -> Idle

\* The walk for empty directories asks for no denied paths.
EmptySpared(t, p) == Excluded(p) \/ (op.cmd = "restore" /\ Ignored(t, p))

\* removeEmptyDirs and materializeRemoveEmptyDirs.
RemoveEmptyDirs ==
    /\ At("walk") /\ op.left = {}
    /\ SetHere(WithoutEmpty(Here, {p \in Dirs(Here) : ~ EmptySpared(Here, p)}))
    /\ op' = AfterFiles
    /\ owned' = IF op.cmd = "copy" THEN owned \union {op.place} ELSE owned
    /\ UNCHANGED hurt /\ KeepRecords /\ KeepBounds

----------------------------------------------------------------------------
(* Markers, session files, the active session                              *)

SetMarker(m) == markers' = [markers EXCEPT ![op.place] = m]

\* writeMarker needs the directory, but does not ask whose it is.
WriteMarker ==
    /\ At("marker") /\ Here # Absent
    /\ SetMarker(Marker(op.s.id, Current(op.s), op.s.kept))
    /\ Goto("session")
    /\ owned' = owned \ {op.place}
    /\ UNCHANGED <<dirs, sessions, active, stored, hurt>> /\ KeepBounds

\* Mutant of WriteSession: the session file keeps the position.
WriteSessionOld ==
    /\ At("session")
    /\ sessions' = [sessions EXCEPT ![op.s.id] =
                      IF @ = NoSession THEN op.s ELSE [op.s EXCEPT !.cur = sessions[op.s.id].cur]]
    /\ op' = IF op.cmd = "checkout" THEN [op EXCEPT !.pc = "active"] ELSE Idle
    /\ hurt' = IF op.cmd = "move" THEN hurt \ {op.s.id} ELSE hurt
    /\ UNCHANGED <<dirs, markers, active, stored, owned>> /\ KeepBounds

WriteSession ==
    /\ At("session")
    /\ sessions' = [sessions EXCEPT ![op.s.id] = op.s]
    /\ op' = IF op.cmd = "checkout" THEN [op EXCEPT !.pc = "active"] ELSE Idle
    /\ hurt' = IF op.cmd = "move" THEN hurt \ {op.s.id} ELSE hurt
    /\ UNCHANGED <<dirs, markers, active, stored, owned>> /\ KeepBounds

SetActive ==
    /\ At("active")
    /\ active' = op.s.id
    /\ op' = Idle
    /\ UNCHANGED <<dirs, markers, sessions, stored>> /\ KeepBounds /\ KeepHistory

\* removeSession without the worktree: an error is no matter.
Unmark ==
    /\ At("unmark")
    /\ SetMarker(NoMarker)
    /\ Goto("forget")
    /\ UNCHANGED <<dirs, sessions, active, stored>> /\ KeepBounds /\ KeepHistory

\* Checkout cleans up: its directory, and when it failed last its session file too.
Cleaning == At("cleanup") \/ At("undo")

\* removeSession, cleanup of a checkout and of an evaluation: RemoveAll.
RemoveWorktree ==
    /\ \/ At("remove") /\ Goto("forget") /\ SetHere(Absent)
       \/ /\ Cleaning
          /\ IF At("undo") THEN Goto("discard") ELSE op' = Idle
          /\ SetHere(IF op.existed THEN EmptyTree ELSE Absent)
       \/ At("check") /\ op' = Idle /\ SetHere(Absent)
    /\ SetMarker(NoMarker)
    /\ UNCHANGED <<sessions, active, stored>> /\ KeepBounds /\ KeepHistory

ForgetSession ==
    /\ At("forget") \/ At("discard")
    /\ sessions' = [sessions EXCEPT ![op.s.id] = NoSession]
    /\ IF At("forget") THEN Goto("deactivate") ELSE op' = Idle
    /\ UNCHANGED <<dirs, markers, active, stored>> /\ KeepBounds /\ KeepHistory

Deactivate ==
    /\ At("deactivate")
    /\ active' = IF active = op.s.id THEN None ELSE active
    /\ op' = Idle
    /\ UNCHANGED <<dirs, markers, sessions, stored>> /\ KeepBounds /\ KeepHistory

----------------------------------------------------------------------------
(* Errors and kills                                                        *)

\* What a command that ends at its next step may have done of it.
HalfWritten ==
    IF At("write") /\ op.left # {} /\ ~ Obstructed(Here, FirstPath(op.left))
    THEN LET p == FirstPath(op.left)
         IN  {Here, Cleared(Here, p)}
                \union (IF Target.tree[p].mode = "120000" THEN {} ELSE {HalfPut(Here, p)})
    ELSE IF At("remove") \/ Cleaning
    THEN {Without(Here, S) : S \in {T \in SUBSET DOMAIN Here : \A p \in T : Below(Here, p) \subseteq T}}
    ELSE {Here}

HalfMarked ==
    IF At("marker") /\ Here # Absent THEN {markers[op.place], TornMarker}
    ELSE IF At("remove") \/ Cleaning THEN {markers[op.place], NoMarker}
    ELSE {markers[op.place]}

HalfSession ==
    IF At("session") THEN {sessions[op.s.id], TornSession} ELSE {sessions[op.s.id]}

HalfActive == IF At("active") THEN {active, Torn} ELSE {active}

Half ==
    /\ \E t \in HalfWritten : SetHere(t)
    /\ \E m \in HalfMarked : SetMarker(m)
    /\ IF op.s.id = None THEN UNCHANGED sessions
       ELSE \E s \in HalfSession : sessions' = [sessions EXCEPT ![op.s.id] = s]
    /\ \E a \in HalfActive : active' = a
    /\ hurt' = IF op.s.id = None THEN hurt ELSE hurt \union {op.s.id}
    /\ owned' = IF At("marker") THEN owned \ {op.place} ELSE owned
    /\ UNCHANGED stored

Stops == ~ IsIdle /\ stops < MaxStops /\ stops' = stops + 1 /\ UNCHANGED <<commands, acts>>

Kill == Stops /\ op' = Idle /\ Half

\* Checkout and verify clean up, and do not mind when that fails.
Gives_up ==
    op' = CASE At("undo") -> [op EXCEPT !.pc = "discard"]
            [] At("active") -> [op EXCEPT !.pc = "undo"]
            [] /\ op.cmd = "checkout"
               /\ op.pc \notin {"active", "undo", "cleanup", "discard"} -> [op EXCEPT !.pc = "cleanup"]
            [] op.cmd = "verify" /\ ~ At("check") -> [op EXCEPT !.pc = "check"]
            [] OTHER -> Idle

\* A step fails: a temporary file is removed again, what was truncated stays torn.
Fail ==
    /\ Stops /\ Gives_up
    /\ Half
    /\ At("write") /\ op.left # {} => dirs'[op.place] \in {Here, Cleared(Here, FirstPath(op.left))}

\* A checkpoint that was dropped, a repository where a file should be.
Refused ==
    /\ \/ At("start") /\ op.checkpoint \notin stored
       \/ At("write") /\ op.left # {} /\ Obstructed(Here, FirstPath(op.left))
       \/ At("marker") /\ Here = Absent
    /\ Gives_up
    /\ hurt' = IF op.s.id = None \/ ~ At("write") THEN hurt ELSE hurt \union {op.s.id}
    /\ UNCHANGED <<dirs, owned>> /\ KeepRecords /\ KeepBounds

----------------------------------------------------------------------------
(* The user                                                                *)

\* `turnal session drop`, and the garbage collection after it.
Drop ==
    /\ acts < MaxActs /\ acts' = acts + 1
    /\ \E a \in {c.session : c \in stored} : stored' = {c \in stored : c.session # a}
    /\ UNCHANGED <<dirs, markers, sessions, active, op, commands, stops>> /\ KeepHistory

InUse(d) == {i \in Ids : Valid(sessions[i]) /\ sessions[i].place = d}

Acts == IsIdle /\ acts < MaxActs /\ acts' = acts + 1
        /\ UNCHANGED <<sessions, active, stored, op, commands, stops>>

\* Work in a worktree.
UserAdds ==
    /\ Acts
    /\ \E d \in Spots, a \in Additions :
           /\ dirs[d] # Absent /\ d \notin owned
           /\ \A q \in Ancestors(a.path) : IsDir(dirs[d], q)
           /\ dirs' = [dirs EXCEPT ![d] = Put(@, a.path, a.node)]
           /\ hurt' = hurt \union InUse(d)
    /\ UNCHANGED <<markers, owned>>

\* A worktree is deleted, or replaced by a project.
UserReplaces ==
    /\ Acts
    /\ \E d \in Spots, t \in {Absent, OwnTree} :
           /\ dirs' = [dirs EXCEPT ![d] = t]
           /\ markers' = [markers EXCEPT ![d] = NoMarker]
           /\ hurt' = hurt \union InUse(d)
           /\ owned' = IF t = OwnTree THEN owned \union {d} ELSE owned \ {d}

\* Other work in the workspace.
UserEdits ==
    /\ Acts
    /\ \E t \in StartTrees : dirs' = [dirs EXCEPT ![Workspace] = t]
    /\ UNCHANGED markers /\ KeepHistory

Next ==
    \/ StartRestore \/ StartVerify \/ StartCheckout \/ StartMove \/ StartKeep \/ StartCopy
    \/ StartStop \/ Disowned
    \/ Resolved \/ WriteEntry \/ StartWalk \/ Walk \/ RemoveEmptyDirs
    \/ WriteMarker \/ WriteSession \/ SetActive
    \/ Unmark \/ RemoveWorktree \/ ForgetSession \/ Deactivate
    \/ Kill \/ Fail \/ Refused
    \/ Drop \/ UserAdds \/ UserReplaces \/ UserEdits

Spec == Init /\ [][Next]_vars

----------------------------------------------------------------------------
(* Properties                                                              *)

\* The files of tree t, repositories inside it left out.
Files(t) == [p \in {q \in DOMAIN t : t[q] # Dir /\ ~ Excluded(q)} |-> t[p]]

NoEmptyDirs(t) ==
    \A d \in Dirs(t) : ~ Excluded(d) => \E p \in Below(t, d) : t[p] # Dir \/ Excluded(p)

\* The nodes of t at P are those that commit c captured, permissions included.
Agree(t, c, P) ==
    \A p \in P : /\ p \in DOMAIN t /\ GitNode(t[p]) = c.tree[p]
                 /\ p \in DOMAIN c.perms => t[p].perm = c.perms[p]

\* Directory t shows commit c, denied files left out or not.
Shows(t, c, P) == DOMAIN Files(t) = P /\ Agree(t, c, P) /\ NoEmptyDirs(t)

Allowed(c) == {p \in DOMAIN c.tree : ~ DeniedPath(p)}

TypeOK ==
    /\ active \in Ids \union {None, Torn}
    /\ stored \subseteq Checkpoints /\ hurt \subseteq Ids /\ owned \subseteq Spots
    /\ \A d \in Places : dirs[d] = Absent =>
           markers[d] = NoMarker \/ (op.place = d /\ Cleaning)

\* A replay session at rest that nobody cut off or touched: its worktree holds the
\* checkpoint its file names and nothing else, and the marker says so; whatever earlier
\* commands that ended in the middle, and the user, had left there.
ShowsCheckpoint ==
    IsIdle =>
        \A i \in Ids \ hurt :
            LET s == sessions[i]
            IN  Valid(s) =>
                    /\ markers[s.place] = Marker(i, Current(s), s.kept)
                    /\ LET c == CommitOf[Current(s)] IN Shows(dirs[s.place], c, DOMAIN c.tree)

\* README.md:442: verifiers see the captured files but for those that are denied now.
EvaluatesCheckpoint ==
    op.cmd = "verify" /\ At("check") /\ stops = 0 /\ op.checkpoint \in stored =>
        Shows(Here, Target, Allowed(Target))

\* The step with which a restore of the workspace ends.
RestoreEnds ==
    op.cmd = "restore" /\ At("walk") /\ op.left = {} /\ op' = Idle /\ stops' = stops

\* After a rollback the workspace would be captured as the checkpoint was, but for what
\* is denied or, by the .gitignore of the checkpoint, ignored; permissions are those of
\* the manifest; whatever a restore cut off before left behind.
RestoredExactly ==
    [][RestoreEnds =>
         LET t == dirs'[Workspace]
         IN  /\ Surface(t) = {p \in Allowed(Target) : ~ Ignored(t, p)}
             /\ Agree(t, Target, Allowed(Target))]_vars

\* The preview a rollback is confirmed by is true: of the files that neither the
\* .gitignore before nor the one after names, those change in the eyes of Git that it
\* lists, and as it says.
PreviewTrue ==
    [][RestoreEnds =>
         LET t    == dirs'[Workspace]
             seen == {p \in DOMAIN op.before \union DOMAIN t :
                        ~ Protected(op.before, p) /\ ~ Protected(t, p)}
             old  == [p \in {q \in seen \intersect DOMAIN op.before : op.before[q] # Dir} |->
                        GitNode(op.before[p])]
             new  == [p \in {q \in seen \intersect DOMAIN t : t[q] # Dir} |-> GitNode(t[p])]
         IN  \A p \in seen :
                 LET same == IF p \in DOMAIN old /\ p \in DOMAIN new THEN old[p] = new[p]
                             ELSE p \notin DOMAIN old /\ p \notin DOMAIN new
                 IN  IF same THEN p \notin DOMAIN op.plan
                     ELSE p \in DOMAIN op.plan /\ op.plan[p] = Action(old, new, p)]_vars

\* Restoring, showing and evaluating checkpoints leaves repositories alone: a path
\* under .git in a directory goes only with the whole directory.
MetadataKept ==
    [][\A d \in Places :
         IsIdle \/ At("remove") \/ Cleaning \/ At("check") \/ dirs[d] = Absent
         \/ \A p \in DOMAIN dirs[d] : Excluded(p) => p \in DOMAIN dirs'[d] /\ dirs'[d][p] = dirs[d][p]]_vars

\* A project of the user that is where a worktree was stays as it is, whatever replay
\* sessions still name the place -- unless `replay keep` marked it as a worktree.
ProjectsKept ==
    [][\A d \in owned : d \in owned' /\ ~ IsIdle => dirs'[d] = dirs[d]]_vars

\* Directories that are to show a checkpoint show it: replay worktrees at rest, and the
\* directory a verifier is about to be run in.
DirectoriesTrue == ShowsCheckpoint /\ EvaluatesCheckpoint

\* A restore makes the workspace the checkpoint's and touches no repository's metadata.
RestoresExact == RestoredExactly /\ MetadataKept
=============================================================================
