---------------------------- MODULE TurnRecorder ----------------------------
(***************************************************************************)
(* How a turn becomes a pair of checkpoints and their events               *)
(* (internal/turns, internal/turnevents, the journals and the workspace    *)
(* lock of internal/checkpoint, the turn part of the hooks of              *)
(* internal/adapters).                                                     *)
(*                                                                         *)
(* Start and Finish create a checkpoint under the workspace lock, guarded  *)
(* by a journal; its two events are appended after the lock is released,   *)
(* and then the journal goes away.  Every call first recovers what calls   *)
(* that were killed left behind: the journals of every session and every   *)
(* worktree that shares the store.                                         *)
(*                                                                         *)
(* Appending an event is one step that adds it unless its SourceID is      *)
(* there already: that is what EventLog shows of internal/events.          *)
(***************************************************************************)
EXTENDS Naturals, Sequences, FiniteSets

CONSTANTS
    Procs,       \* processes: hooks of the agents, and the CLI
    Sessions,    \* agent sessions
    Worktrees,   \* Git worktrees that share the store
    Primary,     \* the worktree that has no scoped refs
    HomeOf,      \* the worktree in which a session runs
    Requested,   \* turn numbers given to the CLI, and 0 for none
    Calls,       \* calls the processes make, a subset of HookCalls \union CLICalls
    NoProc,      \* nobody holds the lock
    Nil,         \* no checkpoint
    MaxTurns,    \* the largest turn number (2^64 - 1)
    FaultKinds,  \* what may go wrong, a subset of AllFaults
    MaxFaults    \* bound: how often

HookCalls == {"prompt", "tool", "stop"}

CLICalls == {"start", "finish"}

\* A process is killed; it is killed in the middle of a line of an event stream; a
\* file or Git operation returns an error.
AllFaults == {"kill", "tear", "failure"}

ASSUME TurnAssumption ==
    /\ NoProc \notin Procs
    /\ Primary \in Worktrees /\ Sessions # {}
    /\ HomeOf \in [Sessions -> Worktrees]
    /\ Calls \subseteq HookCalls \union CLICalls
    /\ 0 \in Requested /\ Requested \subseteq 0 .. MaxTurns
    /\ FaultKinds \subseteq AllFaults
    /\ {MaxTurns, MaxFaults} \subseteq Nat

VARIABLES
    refs,       \* checkpoint refs in the private Git repository
    journal,    \* checkpoint journal file of each checkpoint, by file name
    active,     \* active turn state: the turn, or 0
    stream,     \* event stream of a session in a worktree
    torn,       \* the stream ends in a partial line
    lock,       \* holder of tmp/workspace.lock
    sessionLock,\* holder of tmp/hooks/<session>.lock
    pc,         \* where each process is in its call
    job,        \* the call and its local variables
    abandoned,  \* history: checkpoints whose Start or Finish was being undone
    faults

vars == <<refs, journal, active, stream, torn, lock, sessionLock, pc, job,
          abandoned, faults>>

Turns == 1 .. MaxTurns

Phases == {"pre", "post"}

\* A checkpoint, its ref and its journal's name.  In the primary worktree ref and
\* name carry no worktree.
Checkpoint == [home : Worktrees, session : Sessions, turn : Turns, phase : Phases]

ASSUME NilAssumption == Nil \notin Checkpoint

JournalStates == {"none", "intent", "committed", "finalized"}

Kinds == {"turn.start", "turn.finish", "checkpoint", "prompt.user"}

\* of is the worktree a checkpoint's payload names; the other payloads name none,
\* and it is the stream's own.
Event == [kind : Kinds, turn : Turns, phase : Phases, of : Worktrees]

Streams == Worktrees \X Sessions

Labels == {"idle", "session", "enter", "recover", "turn", "checkpoint", "read", "write", "clear",
           "settle", "hook", "start", "finish", "begin", "ref", "commit", "active", "undo",
           "prompt", "error"}

\* item is the checkpoint at hand, todo what is left of the journals recovery listed.
Job == [kind : Calls \union {"none"}, session : Sessions, turn : Turns \union {0},
        item : Checkpoint \union {Nil}, todo : SUBSET (Checkpoint \X JournalStates)]

----------------------------------------------------------------------------
(* What a process sees                                                     *)

Home(p) == HomeOf[job[p].session]

Own(p) == <<Home(p), job[p].session>>

IsHook(p) == job[p].kind \in HookCalls

Key(w, s, t, phase) == [home |-> w, session |-> s, turn |-> t, phase |-> phase]

\* The refs ListCheckpointRefs finds: the worktree's own and the unscoped ones.
RefsOf(w, s) == {r \in refs : r.session = s /\ r.home \in {w, Primary}}

NextTurnID(w, s) ==
    LET used == {r.turn : r \in RefsOf(w, s)}
    IN  1 + (IF used = {} THEN 0 ELSE CHOOSE t \in used : \A u \in used : u <= t)

\* NextTurnID reports an overflow.
NoNextTurn(w, s) == NextTurnID(w, s) > MaxTurns

\* The journal an operation of worktree w names for a checkpoint it found listed.
AsNamedBy(w, k) == [k EXCEPT !.home = w]

\* checkpointRepoFromLog builds a repo without ScopedRefs: FinalizeCheckpointJournal
\* always uses the primary worktree's name.
Unscoped(k) == AsNamedBy(Primary, k)

Recorded(st, kind, t, phase) ==
    \E i \in DOMAIN stream[st] :
        stream[st][i].kind = kind /\ stream[st][i].turn = t /\ stream[st][i].phase = phase

HasPrompt(st, t) == Recorded(st, "prompt.user", t, "pre")

Goto(p, label) == pc' = [pc EXCEPT ![p] = label]

Work(p, item, todo) == job' = [job EXCEPT ![p].item = item, ![p].todo = todo]

\* The call is over; its locks are released.
Leave(p) ==
    /\ Goto(p, "idle")
    /\ job' = [job EXCEPT ![p].kind = "none", ![p].turn = 0, ![p].item = Nil, ![p].todo = {}]
    /\ lock' = IF lock = p THEN NoProc ELSE lock
    /\ sessionLock' = [s \in Sessions |-> IF sessionLock[s] = p THEN NoProc ELSE sessionLock[s]]

\* processHook failed: the hook appends an error event before it gives up.
Fail(p) ==
    IF IsHook(p)
    THEN /\ Goto(p, "error")
         /\ lock' = IF lock = p THEN NoProc ELSE lock
         /\ job' = [job EXCEPT ![p].turn = 0, ![p].item = Nil]
         /\ UNCHANGED sessionLock
    ELSE Leave(p)

\* Recovery releases the workspace lock while the other locals stay.
Proceed(p, label) == Goto(p, label) /\ lock' = NoProc /\ UNCHANGED sessionLock

----------------------------------------------------------------------------
Init ==
    /\ refs = {} /\ journal = [k \in Checkpoint |-> "none"]
    /\ active = [st \in Streams |-> 0]
    /\ stream = [st \in Streams |-> <<>>] /\ torn = [st \in Streams |-> FALSE]
    /\ lock = NoProc /\ sessionLock = [s \in Sessions |-> NoProc]
    /\ pc = [p \in Procs |-> "idle"]
    /\ job = [p \in Procs |-> [kind |-> "none", session |-> CHOOSE s \in Sessions : TRUE,
                                turn |-> 0, item |-> Nil, todo |-> {}]]
    /\ abandoned = {} /\ faults = 0

\* A hook is delivered, or somebody runs `turnal turn start` or `turn finish`,
\* with a turn number or without.
Call(p, kind, s, t) ==
    /\ pc[p] = "idle"
    /\ kind \in HookCalls => t = 0
    /\ job' = [job EXCEPT ![p].kind = kind, ![p].session = s, ![p].turn = t]
    /\ Goto(p, IF kind \in HookCalls THEN "session" ELSE "enter")
    /\ UNCHANGED <<refs, journal, active, stream, torn, lock, sessionLock, abandoned, faults>>

LockSession(p) ==
    /\ pc[p] = "session" /\ sessionLock[job[p].session] = NoProc
    /\ sessionLock' = [sessionLock EXCEPT ![job[p].session] = p]
    /\ Goto(p, "enter")
    /\ UNCHANGED <<refs, journal, active, stream, torn, lock, job, abandoned, faults>>

\* A lock is given up after 30 seconds.
TimeOut(p) ==
    /\ \/ pc[p] = "session" /\ sessionLock[job[p].session] # NoProc
       \/ pc[p] \in {"enter", "start", "finish"} /\ lock # NoProc
    /\ IF pc[p] \in {"start", "finish"} THEN Fail(p) ELSE Leave(p)
    /\ UNCHANGED <<refs, journal, active, stream, torn, abandoned, faults>>

----------------------------------------------------------------------------
(* RecoverCheckpointJournals, under the workspace lock                     *)

\* The journals are listed once, whatever worktree and session they belong to.
Enter(p) ==
    /\ pc[p] = "enter" /\ lock = NoProc
    /\ lock' = p
    /\ Goto(p, "recover")
    /\ Work(p, Nil, {<<k, journal[k]>> : k \in {c \in Checkpoint : journal[c] # "none"}})
    /\ UNCHANGED <<refs, journal, active, stream, torn, sessionLock, abandoned, faults>>

\* Mutant of RecoverOne: an intent is recovered whether or not its ref was created.
RecoverAnyIntent(p) ==
    /\ pc[p] = "recover"
    /\ \E entry \in job[p].todo :
        /\ Goto(p, "turn")
        /\ Work(p, entry[1], job[p].todo \ {entry})
        /\ UNCHANGED <<lock, sessionLock, journal>>
    /\ UNCHANGED <<refs, active, stream, torn, abandoned, faults>>

\* One turn of the loop.  An intent is looked up and changed under the names of the
\* recovering worktree, whoever began it.
RecoverOne(p) ==
    /\ pc[p] = "recover"
    /\ \E entry \in job[p].todo :
        LET k == entry[1]
            mine == AsNamedBy(Home(p), k)
            rest == job[p].todo \ {entry}
            discard == \/ entry[2] = "finalized"
                       \/ entry[2] = "intent" /\ mine \notin refs
            commit == entry[2] = "intent" /\ mine \in refs /\ journal[mine] # "none"
            redo == entry[2] = "committed" /\ k \in refs
        IN  \/ /\ discard
               /\ journal' = [journal EXCEPT ![mine] = "none"]
               /\ Work(p, Nil, rest)
               /\ UNCHANGED <<pc, lock, sessionLock>>
            \/ /\ commit
               /\ journal' = [journal EXCEPT ![mine] = "committed"]
               /\ Work(p, k, rest)
               /\ Goto(p, "turn")
               /\ UNCHANGED <<lock, sessionLock>>
            \/ /\ redo
               /\ Work(p, k, rest)
               /\ Goto(p, "turn")
               /\ UNCHANGED <<journal, lock, sessionLock>>
            \/ /\ ~discard /\ ~commit /\ ~redo
               /\ Leave(p)
               /\ UNCHANGED journal
    /\ UNCHANGED <<refs, active, stream, torn, abandoned, faults>>

Recovering(p) == lock = p

RecoveryDone(p) ==
    /\ pc[p] = "recover" /\ job[p].todo = {}
    /\ Proceed(p, IF IsHook(p) THEN "hook" ELSE job[p].kind)
    /\ Work(p, Nil, {})
    /\ UNCHANGED <<refs, journal, active, stream, torn, abandoned, faults>>

\* ClearActiveForRecoveryLocked
Settle(p) ==
    LET st == <<Home(p), job[p].item.session>>
        t == active[st]
    IN  /\ pc[p] = "settle"
        /\ \/ /\ t = 0
              /\ Goto(p, "recover")
              /\ UNCHANGED <<active, job, lock, sessionLock>>
           \/ /\ t # 0 /\ t = job[p].item.turn /\ Key(st[1], st[2], t, "pre") \in refs
              /\ active' = [active EXCEPT ![st] = 0]
              /\ Goto(p, "recover")
              /\ UNCHANGED <<job, lock, sessionLock>>
           \/ /\ t # 0
              /\ t # job[p].item.turn \/ Key(st[1], st[2], t, "pre") \notin refs
              /\ Leave(p)
              /\ UNCHANGED active
        /\ UNCHANGED <<refs, journal, stream, torn, abandoned, faults>>

----------------------------------------------------------------------------
(* The two events of a checkpoint and the end of its journal: with the     *)
(* lock when a journal is recovered, without it after Start and Finish     *)

TurnKind(k) == IF k.phase = "pre" THEN "turn.start" ELSE "turn.finish"

\* Recovery appends to the stream of its own worktree.
StreamFor(p) == <<Home(p), job[p].item.session>>

\* An error ends recovery and the call; after Start or Finish the hook reports it.
Broken(p) == IF Recovering(p) THEN Leave(p) ELSE Fail(p)

\* Mutant of AppendOnce: the SourceID is not looked up.
AppendAlways(p, e) == stream' = [stream EXCEPT ![StreamFor(p)] = Append(@, e)]

\* FindSourceID and Append add the event unless its SourceID is in the stream.
AppendOnce(p, e) ==
    IF Recorded(StreamFor(p), e.kind, e.turn, e.phase) THEN UNCHANGED stream
    ELSE stream' = [stream EXCEPT ![StreamFor(p)] = Append(@, e)]

\* FindSourceID cannot read a stream with a partial line: nothing is appended then.
AppendTurn(p) ==
    LET k == job[p].item
    IN  /\ pc[p] = "turn"
        /\ IF torn[StreamFor(p)]
           THEN Broken(p) /\ UNCHANGED stream
           ELSE /\ AppendOnce(p, [kind |-> TurnKind(k), turn |-> k.turn, phase |-> k.phase,
                                  of |-> Home(p)])
                /\ Goto(p, "checkpoint")
                /\ UNCHANGED <<job, lock, sessionLock>>
        /\ UNCHANGED <<refs, journal, active, torn, abandoned, faults>>

AppendCheckpoint(p) ==
    LET k == job[p].item
    IN  /\ pc[p] = "checkpoint"
        /\ IF torn[StreamFor(p)]
           THEN Broken(p) /\ UNCHANGED stream
           ELSE /\ AppendOnce(p, [kind |-> "checkpoint", turn |-> k.turn, phase |-> k.phase,
                                  of |-> k.home])
                /\ Goto(p, "read")
                /\ UNCHANGED <<job, lock, sessionLock>>
        /\ UNCHANGED <<refs, journal, active, torn, abandoned, faults>>

\* What follows when both events are there and the journal is gone.
AfterEvents(p) ==
    LET k == job[p].item
    IN  IF Recovering(p)
        THEN /\ Goto(p, IF k.phase = "post" THEN "settle" ELSE "recover")
             /\ UNCHANGED <<job, lock, sessionLock>>
        ELSE IF job[p].kind = "prompt"
        THEN /\ Goto(p, IF k.phase = "post" THEN "start" ELSE "prompt")
             /\ job' = [job EXCEPT ![p].turn = IF k.phase = "post" THEN 0 ELSE k.turn,
                                  ![p].item = Nil]
             /\ UNCHANGED <<lock, sessionLock>>
        ELSE Leave(p)

\* FinalizeCheckpointJournal reads the journal, writes it back as finalized and
\* removes it; a missing journal is no error.
ReadJournal(p) ==
    /\ pc[p] = "read"
    /\ IF journal[Unscoped(job[p].item)] = "none"
       THEN AfterEvents(p)
       ELSE Goto(p, "write") /\ UNCHANGED <<job, lock, sessionLock>>
    /\ UNCHANGED <<refs, journal, active, stream, torn, abandoned, faults>>

WriteFinalized(p) ==
    /\ pc[p] = "write"
    /\ journal' = [journal EXCEPT ![Unscoped(job[p].item)] = "finalized"]
    /\ Goto(p, "clear")
    /\ UNCHANGED <<refs, active, stream, torn, lock, sessionLock, job, abandoned, faults>>

ClearJournal(p) ==
    /\ pc[p] = "clear"
    /\ journal' = [journal EXCEPT ![Unscoped(job[p].item)] = "none"]
    /\ AfterEvents(p)
    /\ UNCHANGED <<refs, active, stream, torn, abandoned, faults>>

----------------------------------------------------------------------------
(* The turn part of processHook                                            *)

\* The hook reads the active turn without the workspace lock.
Hook(p) ==
    LET t == active[Own(p)]
        kind == job[p].kind
        starts == t = 0 /\ kind \in {"prompt", "tool"}
        joins == kind = "prompt" /\ t # 0 /\ ~HasPrompt(Own(p), t)
        finishes == t # 0 /\ (kind = "stop" \/ (kind = "prompt" /\ HasPrompt(Own(p), t)))
    IN  /\ pc[p] = "hook"
        /\ IF torn[Own(p)] THEN Fail(p)
           ELSE IF starts THEN Goto(p, "start") /\ UNCHANGED <<job, lock, sessionLock>>
           ELSE IF joins \/ finishes
           THEN /\ Goto(p, IF joins THEN "prompt" ELSE "finish")
                /\ job' = [job EXCEPT ![p].turn = t]
                /\ UNCHANGED <<lock, sessionLock>>
           ELSE Leave(p)
        /\ UNCHANGED <<refs, journal, active, stream, torn, abandoned, faults>>

\* Append cuts off a partial line before it writes.
AppendPrompt(p) ==
    /\ pc[p] = "prompt"
    /\ stream' = [stream EXCEPT ![Own(p)] =
                      Append(@, [kind |-> "prompt.user", turn |-> job[p].turn, phase |-> "pre",
                                 of |-> Home(p)])]
    /\ torn' = [torn EXCEPT ![Own(p)] = FALSE]
    /\ Leave(p)
    /\ UNCHANGED <<refs, journal, active, abandoned, faults>>

AppendError(p) ==
    /\ pc[p] = "error"
    /\ torn' = [torn EXCEPT ![Own(p)] = FALSE]
    /\ Leave(p)
    /\ UNCHANGED <<refs, journal, active, stream, abandoned, faults>>

----------------------------------------------------------------------------
(* Manager.Start and Manager.Finish, under the workspace lock              *)

\* The checks of startUnlocked.
StartTurn(p) ==
    LET t == IF job[p].turn = 0 THEN NextTurnID(Home(p), job[p].session) ELSE job[p].turn
        refused == \/ active[Own(p)] # 0
                   \/ job[p].turn = 0 /\ NoNextTurn(Home(p), job[p].session)
                   \/ \E r \in RefsOf(Home(p), job[p].session) : r.turn = t
    IN  /\ pc[p] = "start" /\ lock = NoProc
        /\ IF refused THEN Fail(p)
           ELSE /\ lock' = p
                /\ Work(p, Key(Home(p), job[p].session, t, "pre"), {})
                /\ Goto(p, "begin")
                /\ UNCHANGED sessionLock
        /\ UNCHANGED <<refs, journal, active, stream, torn, abandoned, faults>>

\* The checks of finishUnlocked.  A hook takes "post checkpoint already exists" for
\* success, and a prompt goes on to start the next turn.
FinishTurn(p) ==
    LET a == active[Own(p)]
        t == IF job[p].turn = 0 THEN a ELSE job[p].turn
        mine == RefsOf(Home(p), job[p].session)
        hasPre == \E r \in mine : r.turn = t /\ r.phase = "pre"
        hasPost == \E r \in mine : r.turn = t /\ r.phase = "post"
        known == t # 0 /\ a \in {0, t} /\ hasPre
    IN  /\ pc[p] = "finish" /\ lock = NoProc
        /\ IF ~known \/ (hasPost /\ ~IsHook(p)) THEN Fail(p)
           ELSE IF hasPost /\ job[p].kind = "prompt"
           THEN /\ Goto(p, "start")
                /\ job' = [job EXCEPT ![p].turn = 0]
                /\ UNCHANGED <<lock, sessionLock>>
           ELSE IF hasPost THEN Leave(p)
           ELSE /\ lock' = p
                /\ Work(p, Key(Home(p), job[p].session, t, "post"), {})
                /\ Goto(p, "begin")
                /\ UNCHANGED sessionLock
        /\ UNCHANGED <<refs, journal, active, stream, torn, abandoned, faults>>

\* Mutant of BeginJournal: the journal is first written when the ref is there.
BeginNothing(p) ==
    /\ pc[p] = "begin"
    /\ Goto(p, "ref")
    /\ UNCHANGED <<refs, journal, active, stream, torn, lock, sessionLock, job, abandoned, faults>>

BeginJournal(p) ==
    /\ pc[p] = "begin"
    /\ journal' = [journal EXCEPT ![job[p].item] = "intent"]
    /\ Goto(p, "ref")
    /\ UNCHANGED <<refs, active, stream, torn, lock, sessionLock, job, abandoned, faults>>

CreateRef(p) ==
    /\ pc[p] = "ref"
    /\ refs' = refs \union {job[p].item} /\ abandoned' = abandoned \ {job[p].item}
    /\ Goto(p, "commit")
    /\ UNCHANGED <<journal, active, stream, torn, lock, sessionLock, job, faults>>

MarkCommitted(p) ==
    /\ pc[p] = "commit"
    /\ journal' = [journal EXCEPT ![job[p].item] = "committed"]
    /\ Goto(p, "active")
    /\ UNCHANGED <<refs, active, stream, torn, lock, sessionLock, job, abandoned, faults>>

\* The git-sync snapshot, if it is enabled, then writeActive or clearActive; and the
\* lock is released.
SetActive(p) ==
    /\ pc[p] = "active"
    /\ active' = [active EXCEPT ![Own(p)] =
                      IF job[p].item.phase = "pre" THEN job[p].item.turn ELSE 0]
    /\ Proceed(p, "turn")
    /\ UNCHANGED <<refs, journal, stream, torn, job, abandoned, faults>>

----------------------------------------------------------------------------
(* What goes wrong                                                         *)

MayHappen(kind) == kind \in FaultKinds /\ faults < MaxFaults

\* CreateCheckpointLocked failed: there is no ref, and the journal is cleared.
CreateFails(p) ==
    /\ pc[p] = "ref" /\ MayHappen("failure")
    /\ faults' = faults + 1
    /\ journal' = [journal EXCEPT ![job[p].item] = "none"]
    /\ Fail(p)
    /\ UNCHANGED <<refs, active, stream, torn, abandoned>>

\* A later step failed: MarkCheckpointJournalCommitted or MarkCheckpointJournalGitSync,
\* and the journal stays (in its new state, if only the last sync failed); or git-sync
\* or writeActive, and it is cleared.  Then the ref goes.
StepFails(p) ==
    LET k == job[p].item
    IN  /\ pc[p] \in {"commit", "active"} /\ MayHappen("failure")
        /\ faults' = faults + 1
        /\ \E left \in {"committed", IF pc[p] = "commit" THEN "intent" ELSE "none"} :
               journal' = [journal EXCEPT ![k] = left]
        /\ abandoned' = abandoned \union {k}
        /\ Goto(p, "undo")
        /\ UNCHANGED <<refs, active, stream, torn, lock, sessionLock, job>>

\* clearActive failed in Finish: nothing is undone.
ClearActiveFails(p) ==
    /\ pc[p] = "active" /\ job[p].item.phase = "post" /\ active[Own(p)] # 0
    /\ MayHappen("failure")
    /\ faults' = faults + 1
    /\ Fail(p)
    /\ UNCHANGED <<refs, journal, active, stream, torn, abandoned>>

Undo(p) ==
    /\ pc[p] = "undo"
    /\ refs' = refs \ {job[p].item}
    /\ Fail(p)
    /\ UNCHANGED <<journal, active, stream, torn, abandoned, faults>>

\* The process is killed: the system releases its locks.
Kill(p) ==
    /\ pc[p] # "idle" /\ MayHappen("kill")
    /\ faults' = faults + 1
    /\ Leave(p)
    /\ UNCHANGED <<refs, journal, active, stream, torn, abandoned>>

\* The process is killed in the middle of a line.
Tear(p) ==
    /\ pc[p] \in {"turn", "checkpoint", "prompt", "error"} /\ MayHappen("tear")
    /\ faults' = faults + 1
    /\ torn' = [torn EXCEPT ![IF pc[p] \in {"turn", "checkpoint"} THEN StreamFor(p)
                              ELSE Own(p)] = TRUE]
    /\ Leave(p)
    /\ UNCHANGED <<refs, journal, active, stream, abandoned>>

----------------------------------------------------------------------------
CallAny(p) == \E kind \in Calls, s \in Sessions, t \in Requested : Call(p, kind, s, t)

Step(p) ==
    \/ LockSession(p) \/ TimeOut(p)
    \/ Enter(p) \/ RecoverOne(p) \/ RecoveryDone(p) \/ Settle(p)
    \/ AppendTurn(p) \/ AppendCheckpoint(p)
    \/ ReadJournal(p) \/ WriteFinalized(p) \/ ClearJournal(p)
    \/ Hook(p) \/ AppendPrompt(p) \/ AppendError(p)
    \/ StartTurn(p) \/ FinishTurn(p)
    \/ BeginJournal(p) \/ CreateRef(p) \/ MarkCommitted(p) \/ SetActive(p)
    \/ Undo(p)

Fault(p) == CreateFails(p) \/ StepFails(p) \/ ClearActiveFails(p) \/ Kill(p) \/ Tear(p)

Next == \E p \in Procs : CallAny(p) \/ Step(p) \/ Fault(p)

Spec == Init /\ [][Next]_vars

\* A process that is not killed goes on, and the agents keep calling their hooks.
FairSpec == Spec /\ \A p \in Procs : WF_vars(Step(p)) /\ WF_vars(CallAny(p))

----------------------------------------------------------------------------
\* Every variable is of its type; above all no turn number exceeds the largest.
TypeOK ==
    /\ refs \subseteq Checkpoint /\ abandoned \subseteq Checkpoint
    /\ journal \in [Checkpoint -> JournalStates]
    /\ active \in [Streams -> Turns \union {0}]
    /\ stream \in [Streams -> Seq(Event)] /\ torn \in [Streams -> BOOLEAN]
    /\ lock \in Procs \union {NoProc}
    /\ sessionLock \in [Sessions -> Procs \union {NoProc}]
    /\ pc \in [Procs -> Labels] /\ job \in [Procs -> Job]
    /\ faults \in Nat

\* A checkpoint is never lost: its event is in the stream of its session, or the
\* journal that makes recovery append it is still there.  (A Start or Finish that
\* fails undoes its checkpoint, and one killed while it does so may leave the ref.)
RecordedOrJournaled ==
    \A k \in refs \ abandoned :
        \/ Recorded(<<k.home, k.session>>, "checkpoint", k.turn, k.phase)
        \/ journal[k] \in {"intent", "committed"}

\* No event without its checkpoint: a recorded turn or checkpoint has its ref.
EventsBacked ==
    \A st \in Streams : \A i \in DOMAIN stream[st] :
        LET e == stream[st][i]
        IN  Key(e.of, st[2], e.turn, e.phase) \in refs

\* An active turn has its pre checkpoint, which recovery and Finish rely on.
ActiveBacked ==
    \A st \in Streams :
        active[st] # 0 => Key(st[1], st[2], active[st], "pre") \in refs \ abandoned

\* An active turn ends only when its post checkpoint is there.
ActiveEndsWithPost ==
    [][\A st \in Streams :
           active[st] # 0 /\ active'[st] # active[st]
               => active'[st] = 0 /\ Key(st[1], st[2], active[st], "post") \in refs']_vars

\* Where an event stands in its session: each turn in order, and in it start, pre
\* checkpoint, prompt, finish and post checkpoint.
Rank(e) ==
    5 * e.turn + CASE e.kind = "turn.start" -> 0
                   [] e.kind = "checkpoint" /\ e.phase = "pre" -> 1
                   [] e.kind = "prompt.user" -> 2
                   [] e.kind = "turn.finish" -> 3
                   [] OTHER -> 4

\* A prompt behind the end of its turn: the turn was active still (TurnsClose).
Late(prompt, e) == prompt.kind = "prompt.user" /\ e.turn = prompt.turn /\ e.phase = "post"

\* When only hooks write, a session's events are in the order `turnal recall` requires,
\* whoever appended them, and no turn has two prompts.  Only a prompt may come late.
StreamOrder ==
    \A st \in Streams : \A i, j \in DOMAIN stream[st] :
        i < j => \/ Rank(stream[st][i]) < Rank(stream[st][j])
                 \/ Late(stream[st][j], stream[st][i])

\* A stream holds the checkpoints of its own worktree only.
StreamIsolation ==
    \A st \in Streams : \A i \in DOMAIN stream[st] : stream[st][i].of = st[1]

Pending(s) == \E k \in Checkpoint : k.session = s /\ journal[k] # "none"

\* Whatever a killed call left in a journal, later calls finish and remove.
JournalsDrain == \A s \in Sessions : Pending(s) ~> ~Pending(s)

\* A turn that has its post checkpoint does not stay active.
TurnsClose ==
    \A st \in Streams, t \in Turns :
        (active[st] = t /\ Key(st[1], st[2], t, "post") \in refs) ~> (active[st] # t)
=============================================================================
