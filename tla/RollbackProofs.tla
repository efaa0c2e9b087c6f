--------------------------- MODULE RollbackProofs ---------------------------
(***************************************************************************)
(* What is proved of Rollback for every value of its constants: any        *)
(* sessions, checkpoints, files, rules, modes and bounds.                  *)
(***************************************************************************)
EXTENDS Rollback, WellFoundedInduction, TLAPS, SequenceTheorems

USE RollbackAssumption

----------------------------------------------------------------------------
(* The inductive invariant                                                 *)

Making == {"snapshot", "git-snapshot", "planned"}

Writing == {"write", "delete", "reset", "checkout", "apply"}

Settling == {"planned", "restoring", "restored"}

\* A journal without a safety snapshot is one that says intent.
SafetyNamed == journal.phase \in {"none", "intent"} => journal.safety = 0

\* The operation has checked that it may make a safety snapshot.
RoomForRun == op.kind = "rollback" /\ (op.own = FALSE \/ op.pc = "snapshot") => runs < MaxRuns

\* A rollback that makes its snapshots has written its intent, and has its refs, unless
\* the one of its target was gone when it began.
MakingKnows ==
    /\ op.kind = "rollback" => op.target \in Checkpoints
    /\ op.pc = "intent" => op.kind = "rollback" /\ op.own = FALSE /\ journal = NoJournal
    /\ op.pc \in Making =>
         /\ op.kind = "rollback" /\ op.own = TRUE
         /\ journal.phase = "intent" /\ journal.target = op.target /\ journal.mode = op.mode
         /\ op.mode = "workspace-git" => Has(TargetRef(op.target, "workspace-git"))
    /\ op.pc \in {"git-snapshot", "planned"} =>
         /\ runs # 0 /\ Has(SafetyRef(op.target, runs, "checkpoint"))
         /\ runs \in unbacked \/ Has(TargetRef(op.target, "checkpoint"))
    /\ op.pc = "planned" /\ op.mode = "workspace-git" =>
         Has(SafetyRef(op.target, runs, "workspace-git"))

\* The journal says where the operation that writes files, or ends, is.
PhaseKnown ==
    /\ op.pc = "restoring" => op.own = TRUE /\ journal.phase \in {"planned", "restoring"}
                                /\ op.kind # "safety"
    /\ op.pc \in Writing =>
         /\ op.own = TRUE
         /\ IF op.kind = "safety" THEN journal.phase \in Settling ELSE journal.phase = "restoring"
    /\ op.pc = "restored" => op.own = TRUE /\ journal.phase = "restoring" /\ op.kind # "safety"
    /\ op.pc = "append" => journal.phase = "restored"
    /\ op.pc = "clear" => journal.phase \in {"intent", "restored"} \/ op.kind = "safety"
    /\ op.own = FALSE => op.kind \in {"none", "rollback"} \/ op.pc = "refs"

\* A session that is being dropped has no records left, and no rollback to one of its
\* checkpoints is pending.
DroppingKnows ==
    op.pc = "refs" =>
        /\ op.kind = "drop" /\ op.session \in Owners
        /\ Pending => Owner[journal.target] # op.session
        /\ events[op.session] = <<>>
        /\ \A c \in recorded : Owner[c] # op.session

\* A rollback is in the stream of its target's session.
StreamOwned == \A s \in Owners : \A e \in EventsOf(s) : Owner[e.target] = s

OpInv == SafetyNamed /\ RoomForRun /\ MakingKnows /\ PhaseKnown /\ DroppingKnows

LogInv == HistoryBacked /\ RecordedOnce /\ StreamOwned

Inv == TypeOK /\ RecoveryPossible /\ LogInv /\ OpInv

----------------------------------------------------------------------------
(* Types                                                                   *)

LEMMA ConstantsTyped ==
    /\ MaxVersion \in Nat /\ Absent \in 0 .. MaxVersion
    /\ Runs \subseteq Nat /\ Owners = Sessions \union {Manual}
    /\ \A c \in Checkpoints : Owner[c] \in Owners
    /\ NoTarget \notin Checkpoints /\ Manual \in Owners
    /\ MaxEdits \in Nat /\ MaxRuns \in Nat /\ MaxStops \in Nat
BY DEF MaxVersion, Absent, Runs, Owners

LEMMA NamesTyped ==
    /\ \A c \in Checkpoints, m \in AllModes : TargetRef(c, m) \in Names
    /\ \A c \in Checkpoints, n \in Runs, m \in AllModes : SafetyRef(c, n, m) \in Names
    /\ "checkpoint" \in AllModes /\ "workspace-git" \in AllModes
BY DEF Names, AllModes

LEMMA CapturesTyped == \A c \in Checkpoints : Captures(c) \in Commit
BY ConstantsTyped DEF Captures, Commit

\* The commits that recovery goes by are there.
LEMMA CommitsTyped ==
    ASSUME TypeOK, RecoveryPossible, journal.phase \in Settling
    PROVE  /\ journal \in Journal /\ journal.safety \in Runs
           /\ SafetyRefs(journal) \subseteq DOMAIN refs
           /\ TargetCommit \in Commit
           /\ SafetyCommit \in Commit
<1>1. journal \in Journal
  BY DEF TypeOK, NoJournal, Settling
<1>2. journal.safety # 0 /\ SafetyRefs(journal) \subseteq DOMAIN refs
  BY DEF RecoveryPossible, Settling
<1>3. TargetCommit \in Commit
  BY <1>1, CapturesTyped DEF TargetCommit, Journal
<1>4. Has(SafetyRef(journal.target, journal.safety, journal.mode))
  BY <1>2 DEF SafetyRefs, Has
<1>5. SafetyCommit \in Commit
  BY <1>4 DEF TypeOK, Has, SafetyCommit
<1>6. journal.safety \in Runs
  BY <1>1, <1>2 DEF Journal, Runs
<1> QED
  BY <1>1, <1>2, <1>3, <1>5, <1>6

\* What an operation restores is there while it writes files.
LEMMA GoalTyped ==
    ASSUME TypeOK, RecoveryPossible, OpInv, op.pc \in Writing
    PROVE  Goal \in Commit /\ journal \in Journal
<1>1. journal.phase \in Settling
  BY DEF OpInv, PhaseKnown, Settling
<1> QED
  BY <1>1, CommitsTyped DEF Goal

LEMMA GitFilesTyped ==
    ASSUME TypeOK, RecoveryPossible, OpInv, op.pc \in {"reset", "checkout", "apply"}
    PROVE  GitFiles \in Tree
<1>1. Goal \in Commit
  BY GoalTyped DEF Writing
<1>2. /\ Goal.head \in Heads /\ Goal.tree \in Tree
      /\ head \in Heads /\ ws \in Tree
      /\ Committed \in [Heads -> Tree]
  BY <1>1 DEF Commit, TypeOK
<1>3. \A h \in Heads, from \in Heads : ResetTo(h, from) \in Tree
  BY <1>2, ConstantsTyped DEF ResetTo, Tree
<1>4. CASE op.pc = "reset"
  <2> DEFINE t == ResetTo(head, head)
             keep == Denied \union Ignored(t) \union Present(Committed[head])
  <2>1. t \in Tree
    BY <1>2, <1>3
  <2>2. GitFiles = [p \in Paths |-> IF p \in keep THEN t[p] ELSE Absent]
    BY <1>4 DEF GitFiles, At
  <2> HIDE DEF t, keep
  <2> QED
    BY <2>1, <2>2, ConstantsTyped DEF Tree
<1>5. CASE op.pc = "checkout"
  BY <1>2, <1>3, <1>5 DEF GitFiles, At
<1>6. CASE op.pc = "apply"
  <2>1. GitFiles = [p \in Paths |-> IF p \in Denied \/ (Goal.tree[p] = Absent /\ Committed[head][p] = Absent)
                                    THEN ws[p] ELSE Goal.tree[p]]
    BY <1>6 DEF GitFiles, At
  <2> QED
    BY <1>2, <2>1 DEF Tree
<1> QED
  BY <1>4, <1>5, <1>6

\* A step that keeps workspace and store keeps their types.
LEMMA TypeInit == Init => TypeOK
<1> SUFFICES ASSUME Init PROVE TypeOK
  OBVIOUS
<1>1. /\ DOMAIN refs \subseteq Names
      /\ \A n \in DOMAIN refs : refs[n] \in Commit
  <2> DEFINE D == {TargetRef(c, m) : c \in Checkpoints, m \in Modes \union {"checkpoint"}}
  <2>1. \A n \in D : n \in Names /\ n.target \in Checkpoints
    BY NamesTyped DEF TargetRef, Name
  <2>2. refs = [n \in D |-> Captures(n.target)]
    BY DEF Init
  <2> HIDE DEF D
  <2> QED
    BY <2>1, <2>2, CapturesTyped
<1>2. events \in [Owners -> Seq(Event)]
  BY DEF Init
<1>3. ws \in Tree /\ head \in Heads /\ journal = NoJournal /\ op = Idle
  BY DEF Init
<1>4. /\ recorded \subseteq Checkpoints /\ givenUp \subseteq Runs /\ unbacked \subseteq Runs
      /\ edits \in 0 .. MaxEdits /\ runs \in 0 .. MaxRuns /\ stops \in 0 .. MaxStops
  BY ConstantsTyped DEF Init
<1> QED
  BY <1>1, <1>2, <1>3, <1>4 DEF TypeOK

\* Adding a snapshot keeps the refs typed.
LEMMA AddRefTyped ==
    ASSUME TypeOK, NEW name \in Names, AddRef(name)
    PROVE  /\ DOMAIN refs' = DOMAIN refs \union {name}
           /\ DOMAIN refs' \subseteq Names
           /\ \A n \in DOMAIN refs' : refs'[n] \in Commit
<1>1. Snapshot \in Commit
  <2>1. Captured(ws) \in Tree
    BY ConstantsTyped DEF TypeOK, Captured, Tree
  <2> QED
    BY <2>1 DEF TypeOK, Snapshot, Commit
<1>2. DOMAIN refs \subseteq Names /\ \A n \in DOMAIN refs : refs[n] \in Commit
  BY DEF TypeOK
<1> QED
  BY <1>1, <1>2 DEF AddRef

LEMMA DeleteTyped ==
    ASSUME TypeOK, NEW gone \in SUBSET DOMAIN refs, Delete(gone)
    PROVE  /\ DOMAIN refs' = DOMAIN refs \ gone
           /\ DOMAIN refs' \subseteq Names
           /\ \A n \in DOMAIN refs' : refs'[n] \in Commit
BY DEF TypeOK, Delete

\* A step that is cut off leaves a tree.
LEMMA CutTyped ==
    ASSUME TypeOK, RecoveryPossible, OpInv
    PROVE  Cut \subseteq Tree
<1>1. ws \in Tree
  BY DEF TypeOK
<1>2. CASE At("write") /\ op.left # {}
  BY <1>1, <1>2, ConstantsTyped DEF Cut, Tree
<1>3. CASE op.pc \in {"reset", "checkout", "apply"}
  <2>1. GitFiles \in Tree
    BY <1>3, GitFilesTyped
  <2>2. Cut = {[p \in Paths |-> IF p \in S THEN GitFiles[p] ELSE ws[p]] : S \in SUBSET Paths}
    BY <1>3 DEF Cut, At
  <2> QED
    BY <1>1, <2>1, <2>2 DEF Tree
<1>4. CASE ~ (At("write") /\ op.left # {}) /\ op.pc \notin {"reset", "checkout", "apply"}
  BY <1>1, <1>4 DEF Cut
<1> QED
  BY <1>2, <1>3, <1>4

\* An operation that is somewhere is typed, and so is it one step further.
LEMMA OpTyped ==
    ASSUME TypeOK, op.pc \in Labels
    PROVE  /\ op \in Op
           /\ \A l \in Labels : [op EXCEPT !.pc = l] \in Op
           /\ \A l \in Labels, S \in SUBSET Paths : [op EXCEPT !.pc = l, !.left = S] \in Op
           /\ \A S \in SUBSET Paths : [op EXCEPT !.left = S] \in Op
<1>1. op \in Op
  BY DEF TypeOK, Idle, Labels
<1> QED
  BY <1>1 DEF Op

LEMMA StoreKept ==
    ASSUME TypeOK, KeepStore, KeepBounds,
           ws' \in Tree, head' \in Heads,
           journal' \in Journal \union {NoJournal}, op' \in Op \union {Idle}
    PROVE  TypeOK'
BY DEF TypeOK, KeepStore, KeepBounds

LEMMA TypeStep == TypeOK /\ RecoveryPossible /\ OpInv /\ [Next]_vars => TypeOK'
<1> SUFFICES ASSUME TypeOK, RecoveryPossible, OpInv, [Next]_vars
             PROVE  TypeOK'
  OBVIOUS
<1> USE ConstantsTyped, NamesTyped
<1>0. /\ ws \in Tree /\ head \in Heads
      /\ journal \in Journal \union {NoJournal} /\ op \in Op \union {Idle}
  BY DEF TypeOK
<1>i. Idle.kind = "none" /\ Idle.pc = "idle" /\ "idle" \notin Labels
  BY DEF Idle, Labels
<1>1. ASSUME NEW c \in Checkpoints, NEW m \in Modes, StartRollback(c, m) PROVE TypeOK'
  <2>1. op' \in Op
    <3>1. m \in AllModes
      OBVIOUS
    <3> QED
      BY <1>1, <3>1 DEF StartRollback, Idle, Op, Kinds, Labels
  <2> QED
    BY <1>0, <1>1, <2>1, StoreKept DEF StartRollback, KeepFiles
<1>2. CASE StartResume
  <2>1. op' \in Op
    BY <1>2 DEF StartResume, Idle, Op, Kinds, Labels, AllModes
  <2> QED
    BY <1>0, <1>2, <2>1, StoreKept DEF StartResume, KeepFiles
<1>3. CASE StartSafety
  <2>1. journal.phase \in Settling
    BY <1>0, <1>3 DEF StartSafety, OpInv, SafetyNamed, Journal, NoJournal, Phases, Settling
  <2>2. SafetyCommit \in Commit /\ journal.safety \in Runs
    BY <2>1, CommitsTyped
  <2>3. op' \in Op
    BY <1>3 DEF StartSafety, Idle, Op, Kinds, Labels, AllModes, Present
  <2> QED
    BY <1>0, <1>3, <2>2, <2>3 DEF StartSafety, KeepFiles, KeepStore, TypeOK
<1>4. CASE WriteIntent
  <2>1. op \in Op /\ op.kind = "rollback" /\ op.target \in Checkpoints
    BY <1>0, <1>4, <1>i DEF WriteIntent, At, OpInv, MakingKnows
  <2>2. journal' \in Journal
    BY <1>4, <2>1 DEF WriteIntent, Journal, Phases, Op
  <2>3. op' \in Op
    BY <1>4, <2>1 DEF WriteIntent, Op, Labels
  <2> QED
    BY <1>0, <1>4, <2>2, <2>3, StoreKept DEF WriteIntent, KeepFiles
<1>5. CASE Unresolved
  BY <1>0, <1>5, StoreKept DEF Unresolved, KeepFiles
<1>6. CASE SaveSafety
  <2>1. op \in Op /\ op.target \in Checkpoints /\ op.pc = "snapshot" /\ op.kind = "rollback"
    BY <1>0, <1>6, <1>i DEF SaveSafety, At, OpInv, MakingKnows, Making
  <2>2. runs + 1 \in Runs /\ runs' = runs + 1
    BY <1>6, <2>1 DEF SaveSafety, OpInv, RoomForRun, Runs, TypeOK
  <2>3. /\ DOMAIN refs' \subseteq Names
        /\ \A n \in DOMAIN refs' : refs'[n] \in Commit
    BY <1>6, <2>1, <2>2, AddRefTyped DEF SaveSafety
  <2>4. op' \in Op
    BY <1>6, <2>1 DEF SaveSafety, Goto, Op, Labels
  <2> QED
    BY <1>6, <2>2, <2>3, <2>4 DEF SaveSafety, KeepFiles, TypeOK, Runs
<1>7. CASE SaveGitSafety
  <2>1. op \in Op /\ op.target \in Checkpoints /\ runs # 0
    BY <1>0, <1>7, <1>i DEF SaveGitSafety, At, OpInv, MakingKnows, Making
  <2>2. runs \in Runs
    BY <2>1 DEF Runs, TypeOK
  <2>3. /\ DOMAIN refs' \subseteq Names
        /\ \A n \in DOMAIN refs' : refs'[n] \in Commit
    BY <1>7, <2>1, <2>2, AddRefTyped DEF SaveGitSafety
  <2>4. op' \in Op
    BY <1>7, <2>1 DEF SaveGitSafety, Goto, Op, Labels
  <2> QED
    BY <1>7, <2>3, <2>4 DEF SaveGitSafety, KeepFiles, KeepBounds, TypeOK
<1>8. CASE WritePlanned
  <2>1. op \in Op /\ journal.phase = "intent" /\ journal \in Journal
    BY <1>0, <1>8, <1>i DEF WritePlanned, At, OpInv, MakingKnows, Making, NoJournal
  <2>2. journal' \in Journal
    BY <1>8, <2>1 DEF WritePlanned, Journal, Phases, TypeOK
  <2>3. op' \in Op
    BY <1>8, <2>1 DEF WritePlanned, Goto, Op, Labels
  <2> QED
    BY <1>0, <1>8, <2>2, <2>3, StoreKept DEF WritePlanned, KeepFiles
<1>9. CASE WriteRestoring
  <2>1. op \in Op /\ journal.phase \in {"planned", "restoring"}
    BY <1>0, <1>9, <1>i DEF WriteRestoring, At, OpInv, PhaseKnown
  <2>2. TargetCommit \in Commit /\ journal \in Journal
    BY <2>1, CommitsTyped DEF Settling
  <2>3. journal' \in Journal
    BY <1>9, <2>2 DEF WriteRestoring, WriteJournal, Journal, Phases
  <2>4. op' \in Op
    BY <1>9, <2>1 DEF WriteRestoring, Begin, Op, Labels, Present
  <2> QED
    BY <1>0, <1>9, <2>3, <2>4, StoreKept DEF WriteRestoring, KeepFiles
<1>10. CASE WriteEntry
  <2>1. Goal \in Commit /\ op.pc = "write"
    BY <1>10, GoalTyped DEF WriteEntry, At, Writing
  <2>2. op \in Op
    BY <1>0, <2>1, <1>i
  <2>3. op' \in Op
    BY <1>10, <2>2 DEF WriteEntry, Op
  <2>4. ws' \in Tree
    <3> DEFINE p == First(op.left)
    <3>1. ws' = [ws EXCEPT ![p] = Goal.tree[p]]
      BY <1>10 DEF WriteEntry
    <3> HIDE DEF p
    <3> QED
      BY <1>0, <2>1, <3>1 DEF Tree, Commit
  <2> QED
    BY <1>0, <1>10, <2>3, <2>4, StoreKept DEF WriteEntry
<1>11. CASE StartDelete
  <2>1. op' \in Op
    BY <1>11, OpTyped DEF StartDelete, At, Labels
  <2> QED
    BY <1>0, <1>11, <2>1, StoreKept DEF StartDelete, KeepFiles
<1>12. CASE DeleteExtra
  <2>1. op \in Op
    BY <1>12, OpTyped DEF DeleteExtra, At, Labels
  <2>2. op' \in Op
    BY <1>12, <2>1 DEF DeleteExtra, Op
  <2>3. ws' \in Tree
    <3> DEFINE p == First(Extra)
    <3>1. ws' = [ws EXCEPT ![p] = Absent]
      BY <1>12 DEF DeleteExtra
    <3> HIDE DEF p
    <3> QED
      BY <1>0, <3>1 DEF Tree
  <2> QED
    BY <1>0, <1>12, <2>2, <2>3, StoreKept DEF DeleteExtra
<1>13. CASE FinishDelete
  <2>1. op' \in Op
    BY <1>13, OpTyped DEF FinishDelete, At, Restored, Labels
  <2> QED
    BY <1>0, <1>13, <2>1, StoreKept DEF FinishDelete, KeepFiles
<1>14. CASE GitReset
  <2>1. op' \in Op
    BY <1>14, OpTyped DEF GitReset, At, Goto, Labels
  <2>2. ws' \in Tree
    BY <1>14, GitFilesTyped DEF GitReset, At
  <2> QED
    BY <1>0, <1>14, <2>1, <2>2, StoreKept DEF GitReset
<1>15. CASE GitCheckout
  <2>1. op' \in Op
    BY <1>15, OpTyped DEF GitCheckout, At, Goto, Labels
  <2>2. ws' \in Tree
    BY <1>15, GitFilesTyped DEF GitCheckout, At
  <2>3. head' \in Heads
    BY <1>15, GoalTyped DEF GitCheckout, At, Writing, Commit
  <2> QED
    BY <1>0, <1>15, <2>1, <2>2, <2>3, StoreKept DEF GitCheckout
<1>16. CASE GitApply
  <2>1. op' \in Op
    BY <1>16, OpTyped DEF GitApply, At, Restored, Labels
  <2>2. ws' \in Tree
    BY <1>16, GitFilesTyped DEF GitApply, At
  <2> QED
    BY <1>0, <1>16, <2>1, <2>2, StoreKept DEF GitApply
<1>17. CASE WriteRestored
  <2>1. op' \in Op
    BY <1>17, OpTyped DEF WriteRestored, At, Goto, Labels
  <2>2. journal.phase = "restoring" /\ journal \in Journal
    BY <1>0, <1>17 DEF WriteRestored, At, OpInv, PhaseKnown, NoJournal
  <2>3. journal' \in Journal
    BY <1>17, <2>2 DEF WriteRestored, WriteJournal, Journal, Phases
  <2> QED
    BY <1>0, <1>17, <2>1, <2>3, StoreKept DEF WriteRestored, KeepFiles
<1>18. CASE AppendEvent
  <2>1. op' \in Op
    BY <1>18, OpTyped DEF AppendEvent, At, Goto, Labels
  <2>2. journal.phase \in Settling
    BY <1>18 DEF AppendEvent, At, OpInv, PhaseKnown, Settling
  <2>3. JournalEvent \in Event /\ journal.target \in Checkpoints
    BY <2>2, CommitsTyped DEF JournalEvent, Event, Journal
  <2>4. events' \in [Owners -> Seq(Event)]
    <3> DEFINE s == Owner[journal.target]
    <3>1. s \in Owners
      BY <2>3
    <3>2. Append(events[s], JournalEvent) \in Seq(Event)
      BY <2>3, <3>1 DEF TypeOK
    <3>3. events' = events \/ events' = [events EXCEPT ![s] = Append(events[s], JournalEvent)]
      BY <1>18 DEF AppendEvent
    <3> HIDE DEF s
    <3> QED
      BY <3>1, <3>2, <3>3 DEF TypeOK
  <2> QED
    BY <1>18, <2>1, <2>4 DEF AppendEvent, KeepFiles, KeepBounds, TypeOK
<1>19. CASE ClearJournal
  <2>1. op' \in Op \union {Idle}
    BY <1>19, OpTyped DEF ClearJournal, At, Labels
  <2> QED
    BY <1>0, <1>19, <2>1, StoreKept DEF ClearJournal, KeepFiles
<1>20. CASE DropRefs
  <2>1. PICK kept \in SUBSET OwnedBy(op.session) :
               /\ Delete(OwnedBy(op.session) \ kept)
               /\ kept # {} => stops < MaxStops
               /\ stops' = IF kept = {} THEN stops ELSE stops + 1
    BY <1>20 DEF DropRefs
  <2>2. OwnedBy(op.session) \ kept \in SUBSET DOMAIN refs
    BY DEF OwnedBy
  <2>3. /\ DOMAIN refs' \subseteq Names
        /\ \A n \in DOMAIN refs' : refs'[n] \in Commit
    BY <2>1, <2>2, DeleteTyped
  <2>4. stops' \in 0 .. MaxStops
    BY <2>1 DEF TypeOK
  <2> QED
    BY <1>20, <2>3, <2>4 DEF DropRefs, KeepFiles, TypeOK
<1>21. CASE Stop
  <2>1. ws' \in Tree
    BY <1>21, CutTyped DEF Stop
  <2>2. head' \in Heads
    BY <1>0, <1>21, GoalTyped DEF Stop, At, Writing, Commit
  <2>3. stops' \in 0 .. MaxStops
    BY <1>21 DEF Stop, TypeOK
  <2> QED
    BY <1>21, <2>1, <2>2, <2>3 DEF Stop, KeepStore, TypeOK
<1>22. CASE Prune
  <2>1. PICK gone \in SUBSET (DOMAIN refs \ Referenced) : Delete(gone)
    BY <1>22 DEF Prune
  <2>2. /\ DOMAIN refs' \subseteq Names
        /\ \A n \in DOMAIN refs' : refs'[n] \in Commit
    BY <2>1, DeleteTyped
  <2> QED
    BY <1>22, <2>2 DEF Prune, KeepFiles, KeepBounds, TypeOK
<1>23. ASSUME NEW s \in Sessions, DropLogs(s) PROVE TypeOK'
  <2>1. op' \in Op
    BY <1>23 DEF DropLogs, Idle, Op, Kinds, Labels, AllModes
  <2>2. events' \in [Owners -> Seq(Event)]
    BY <1>23 DEF DropLogs, TypeOK
  <2> QED
    BY <1>23, <2>1, <2>2 DEF DropLogs, KeepFiles, KeepBounds, TypeOK
<1>24. ASSUME NEW p \in Paths, Edit(p) PROVE TypeOK'
  <2>1. edits' \in 0 .. MaxEdits /\ BaseVersion + edits + 1 \in 0 .. MaxVersion
    BY <1>24 DEF Edit, TypeOK, MaxVersion
  <2>2. ws' \in Tree
    BY <1>0, <1>24, <2>1 DEF Edit, Tree
  <2> QED
    BY <1>24, <2>1, <2>2 DEF Edit, TypeOK
<1>25. CASE UNCHANGED vars
  BY <1>25 DEF vars, TypeOK
<1> QED
  BY <1>1, <1>2, <1>3, <1>4, <1>5, <1>6, <1>7, <1>8, <1>9, <1>10, <1>11, <1>12, <1>13,
     <1>14, <1>15, <1>16, <1>17, <1>18, <1>19, <1>20, <1>21, <1>22, <1>23, <1>24, <1>25
     DEF Next, Step

----------------------------------------------------------------------------
(* What recovery needs                                                     *)

\* The refs that a rollback which is settled on needs, one by one.
RecoveryNames ==
    /\ journal.safety # 0
    /\ Has(SafetyRef(journal.target, journal.safety, "checkpoint"))
    /\ Has(SafetyRef(journal.target, journal.safety, journal.mode))
    /\ journal.mode = "workspace-git" => Has(TargetRef(journal.target, "workspace-git"))
    /\ journal.safety \in unbacked \/ Has(TargetRef(journal.target, "checkpoint"))

LEMMA RecoveryNeeds == RecoveryPossible /\ journal.phase \in Settling => RecoveryNames
BY DEF RecoveryPossible, RecoveryNames, Settling, SafetyRefs, JournalValid, Has

LEMMA RecoveryNamed == (RecoveryNames => RecoveryPossible)'
BY DEF RecoveryPossible, RecoveryNames, SafetyRefs, JournalValid, GitJournalValid, Has

\* A step that removes no ref, and settles on no rollback that was not settled on.
LEMMA RecoveryKept ==
    ASSUME RecoveryPossible, DOMAIN refs \subseteq DOMAIN refs', unbacked \subseteq unbacked',
           journal'.phase \in Settling =>
               /\ journal.phase \in Settling
               /\ journal'.target = journal.target /\ journal'.mode = journal.mode
               /\ journal'.safety = journal.safety
    PROVE  RecoveryPossible'
<1> SUFFICES ASSUME journal'.phase \in Settling
             PROVE  RecoveryPossible'
  BY DEF RecoveryPossible, Settling
<1>1. RecoveryNames
  BY RecoveryNeeds
<1>2. RecoveryNames'
  BY <1>1 DEF RecoveryNames, SafetyRefs, Has, TargetRef, SafetyRef, Name
<1> QED
  BY <1>2, RecoveryNamed

\* What the journal of a rollback that is settled on names counts as referenced.
LEMMA JournalReferenced ==
    ASSUME RecoveryPossible, journal.phase \in Settling
    PROVE  /\ TargetRef(journal.target, "checkpoint") \in Referenced
           /\ TargetRef(journal.target, journal.mode) \in Referenced
           /\ SafetyRef(journal.target, journal.safety, "checkpoint") \in Referenced
           /\ SafetyRef(journal.target, journal.safety, journal.mode) \in Referenced
<1>1. Pending /\ journal.safety # 0
  BY DEF RecoveryPossible, Settling, Pending, NoJournal
<1> QED
  BY <1>1 DEF Referenced, JournalRefs, TargetRefs, SafetyRefs

LEMMA RecoveryStep == TypeOK /\ RecoveryPossible /\ OpInv /\ [Next]_vars => RecoveryPossible'
<1> SUFFICES ASSUME TypeOK, RecoveryPossible, OpInv, [Next]_vars
             PROVE  RecoveryPossible'
  OBVIOUS
<1>0. journal \in Journal \union {NoJournal} /\ op \in Op \union {Idle}
  BY DEF TypeOK
<1>i. Idle.pc = "idle" /\ NoJournal.phase = "none"
  BY DEF Idle, NoJournal
<1>1. ASSUME NEW c \in Checkpoints, NEW m \in Modes, StartRollback(c, m) PROVE RecoveryPossible'
  BY <1>1, <1>i, RecoveryKept DEF StartRollback, KeepStore, KeepBounds, Settling
<1>2. CASE StartResume \/ StartSafety
  BY <1>2, RecoveryKept DEF StartResume, StartSafety, KeepStore, KeepBounds
<1>3. CASE WriteIntent
  BY <1>3, RecoveryKept DEF WriteIntent, KeepStore, KeepBounds, Settling
<1>4. CASE Unresolved
  BY <1>4, RecoveryKept DEF Unresolved, KeepStore, KeepBounds
<1>5. CASE SaveSafety \/ SaveGitSafety
  <2>1. DOMAIN refs \subseteq DOMAIN refs'
    BY <1>5 DEF SaveSafety, SaveGitSafety, AddRef
  <2> QED
    BY <1>5, <2>1, RecoveryKept DEF SaveSafety, SaveGitSafety, KeepBounds
<1>6. CASE WritePlanned
  <2>1. /\ op.pc = "planned" /\ journal.target = op.target /\ journal.mode = op.mode
        /\ op.mode = "workspace-git" => Has(TargetRef(op.target, "workspace-git"))
        /\ runs \in unbacked \/ Has(TargetRef(op.target, "checkpoint"))
        /\ runs # 0 /\ Has(SafetyRef(op.target, runs, "checkpoint"))
        /\ op.mode = "workspace-git" => Has(SafetyRef(op.target, runs, "workspace-git"))
    BY <1>6 DEF WritePlanned, At, OpInv, MakingKnows, Making
  <2>2. journal \in Journal
    BY <1>0, <1>6, <1>i DEF WritePlanned, At, OpInv, MakingKnows, Making
  <2>3. journal'.target = op.target /\ journal'.mode = op.mode /\ journal'.safety = runs
    BY <1>6, <2>1, <2>2 DEF WritePlanned, Journal
  <2>4. refs' = refs /\ unbacked' = unbacked
    BY <1>6 DEF WritePlanned, KeepStore, KeepBounds
  <2>5. RecoveryNames'
    BY <2>1, <2>2, <2>3, <2>4 DEF RecoveryNames, Has, TargetRef, SafetyRef, Name, Journal, AllModes
  <2> QED
    BY <2>5, RecoveryNamed
<1>7. CASE WriteRestoring \/ WriteRestored
  <2>1. journal.phase \in Settling /\ journal \in Journal
    BY <1>0, <1>7, <1>i DEF WriteRestoring, WriteRestored, At, OpInv, PhaseKnown, Settling
  <2>2. /\ journal'.target = journal.target /\ journal'.mode = journal.mode
        /\ journal'.safety = journal.safety
    BY <1>7, <2>1 DEF WriteRestoring, WriteRestored, WriteJournal, Journal
  <2> QED
    BY <1>7, <2>1, <2>2, RecoveryKept DEF WriteRestoring, WriteRestored, KeepStore, KeepBounds
<1>8. CASE WriteEntry \/ StartDelete \/ DeleteExtra \/ FinishDelete
  BY <1>8, RecoveryKept DEF WriteEntry, StartDelete, DeleteExtra, FinishDelete, KeepStore, KeepBounds
<1>9. CASE GitReset \/ GitCheckout \/ GitApply
  BY <1>9, RecoveryKept DEF GitReset, GitCheckout, GitApply, KeepStore, KeepBounds
<1>10. CASE AppendEvent
  BY <1>10, RecoveryKept DEF AppendEvent, KeepBounds
<1>11. CASE ClearJournal
  BY <1>11, <1>i, RecoveryKept DEF ClearJournal, KeepStore, KeepBounds, Settling
<1>12. CASE Stop
  BY <1>12, RecoveryKept DEF Stop, KeepStore
<1>13. CASE DropRefs
  <2> SUFFICES ASSUME journal.phase \in Settling
               PROVE  RecoveryPossible'
    BY <1>13 DEF DropRefs, RecoveryPossible, Settling
  <2>1. Owner[journal.target] # op.session
    BY <1>13, <1>i DEF DropRefs, At, OpInv, DroppingKnows, Pending, Settling
  <2>2. PICK kept \in SUBSET OwnedBy(op.session) : Delete(OwnedBy(op.session) \ kept)
    BY <1>13 DEF DropRefs
  <2>3. \A n \in DOMAIN refs : n.target = journal.target => n \in DOMAIN refs'
    BY <2>1, <2>2 DEF Delete, OwnedBy
  <2>4. RecoveryNames
    BY RecoveryNeeds
  <2>5. journal' = journal /\ unbacked' = unbacked
    BY <1>13 DEF DropRefs
  <2>6. RecoveryNames'
    BY <2>3, <2>4, <2>5 DEF RecoveryNames, Has, TargetRef, SafetyRef, Name
  <2> QED
    BY <2>6, RecoveryNamed
<1>14. CASE Prune
  <2> SUFFICES ASSUME journal.phase \in Settling
               PROVE  RecoveryPossible'
    BY <1>14 DEF Prune, RecoveryPossible, Settling
  <2>1. PICK gone \in SUBSET (DOMAIN refs \ Referenced) : Delete(gone)
    BY <1>14 DEF Prune
  <2>2. \A n \in Referenced : Has(n) => n \in DOMAIN refs'
    BY <2>1 DEF Delete, Has
  <2>3. RecoveryNames
    BY RecoveryNeeds
  <2>4. journal' = journal /\ unbacked' = unbacked
    BY <1>14 DEF Prune, KeepBounds
  <2>5. RecoveryNames'
    BY <2>2, <2>3, <2>4, JournalReferenced DEF RecoveryNames, Has, TargetRef, SafetyRef, Name
  <2> QED
    BY <2>5, RecoveryNamed
<1>15. ASSUME NEW s \in Sessions, DropLogs(s) PROVE RecoveryPossible'
  BY <1>15, RecoveryKept DEF DropLogs, KeepBounds
<1>16. ASSUME NEW p \in Paths, Edit(p) PROVE RecoveryPossible'
  BY <1>16, RecoveryKept DEF Edit
<1>17. CASE UNCHANGED vars
  BY <1>17, RecoveryKept DEF vars
<1> QED
  BY <1>1, <1>2, <1>3, <1>4, <1>5, <1>6, <1>7, <1>8, <1>9, <1>10, <1>11, <1>12, <1>13,
     <1>14, <1>15, <1>16, <1>17 DEF Next, Step

----------------------------------------------------------------------------
(* The log                                                                 *)

\* What HistoryBacked says of one event.
Backed(e) ==
    /\ SafetyRefs(e) \subseteq DOMAIN refs
    /\ e.safety \notin unbacked => TargetRefs(e) \subseteq DOMAIN refs

LEMMA HistoryBacks == HistoryBacked => \A s \in Owners : \A e \in EventsOf(s) : Backed(e)
BY DEF HistoryBacked, Backed

\* An event stays backed while the refs that bear its target's name stay.
LEMMA BackingKept ==
    ASSUME NEW e, Backed(e), unbacked \subseteq unbacked',
           \A n \in RefsOf(e) : n \in DOMAIN refs => n \in DOMAIN refs'
    PROVE  Backed(e)'
BY DEF Backed, RefsOf, TargetRefs, SafetyRefs, TargetRef, SafetyRef, Name

\* A step that writes no event and removes no ref.
LEMMA LogKept ==
    ASSUME LogInv, events' = events, recorded' = recorded, DOMAIN refs \subseteq DOMAIN refs',
           unbacked \subseteq unbacked'
    PROVE  LogInv'
<1>1. \A s : EventsOf(s)' = EventsOf(s)
  BY DEF EventsOf
<1> QED
  BY <1>1 DEF LogInv, HistoryBacked, RecordedOnce, StreamOwned, Has, TargetRefs, SafetyRefs,
              TargetRef, SafetyRef, Name

\* What the log names counts as referenced.
LEMMA HistoryReferenced ==
    /\ \A s \in Owners : \A e \in EventsOf(s) : RefsOf(e) \subseteq Referenced
    /\ \A c \in recorded : TargetRef(c, "checkpoint") \in Referenced
<1>1. \A s \in Owners : \A e \in EventsOf(s) : e \in UNION {EventsOf(t) : t \in Owners}
  OBVIOUS
<1> QED
  BY <1>1, NamesTyped DEF Referenced

LEMMA LogStep == TypeOK /\ RecoveryPossible /\ OpInv /\ LogInv /\ [Next]_vars => LogInv'
<1> SUFFICES ASSUME TypeOK, RecoveryPossible, OpInv, LogInv, [Next]_vars
             PROVE  LogInv'
  OBVIOUS
<1>1. ASSUME NEW c \in Checkpoints, NEW m \in Modes, StartRollback(c, m) PROVE LogInv'
  BY <1>1, LogKept DEF StartRollback, KeepStore, KeepBounds
<1>2. CASE StartResume \/ StartSafety \/ WriteIntent \/ Unresolved \/ WritePlanned
  BY <1>2, LogKept
  DEF StartResume, StartSafety, WriteIntent, Unresolved, WritePlanned, KeepStore, KeepBounds
<1>3. CASE SaveSafety \/ SaveGitSafety
  <2>1. DOMAIN refs \subseteq DOMAIN refs'
    BY <1>3 DEF SaveSafety, SaveGitSafety, AddRef
  <2> QED
    BY <1>3, <2>1, LogKept DEF SaveSafety, SaveGitSafety, KeepBounds
<1>4. CASE WriteRestoring \/ WriteEntry \/ StartDelete \/ DeleteExtra \/ FinishDelete
  BY <1>4, LogKept
  DEF WriteRestoring, WriteEntry, StartDelete, DeleteExtra, FinishDelete, KeepStore, KeepBounds
<1>5. CASE GitReset \/ GitCheckout \/ GitApply \/ WriteRestored \/ ClearJournal \/ Stop
  BY <1>5, LogKept
  DEF GitReset, GitCheckout, GitApply, WriteRestored, ClearJournal, Stop, KeepStore, KeepBounds
<1>6. CASE AppendEvent
  <2>0. journal.phase \in Settling
    BY <1>6 DEF AppendEvent, At, OpInv, PhaseKnown, Settling
  <2>i. JournalEvent \in Event /\ journal \in Journal /\ Owner[journal.target] \in Owners
    BY <2>0, CommitsTyped, ConstantsTyped DEF JournalEvent, Event, Journal
  <2>s. PICK s \in Owners : s = Owner[journal.target]
    BY <2>i
  <2>e. PICK e \in Event : e = JournalEvent
    BY <2>i
  <2>1. refs' = refs /\ recorded' = recorded /\ unbacked' = unbacked
    BY <1>6 DEF AppendEvent, KeepBounds
  <2>2. CASE e \in EventsOf(s)
    <3>1. events' = events
      BY <1>6, <2>2, <2>s, <2>e DEF AppendEvent
    <3> QED
      BY <2>1, <3>1, LogKept
  <2>3. CASE e \notin EventsOf(s)
    <3>1. Backed(e)
      BY <2>0, <2>i, <2>e, RecoveryNeeds
      DEF RecoveryNames, Has, Backed, TargetRefs, SafetyRefs, JournalEvent, Journal, AllModes
    <3>2. events[s] \in Seq(Event) /\ events \in [Owners -> Seq(Event)]
      BY DEF TypeOK
    <3>3. PICK old \in Seq(Event) : old = events[s]
      BY <3>2
    <3>4. events' = [events EXCEPT ![s] = Append(old, e)]
      BY <1>6, <2>3, <2>s, <2>e, <3>3 DEF AppendEvent
    <3>5. events'[s] = Append(old, e)
      BY <3>2, <3>4
    <3>6. DOMAIN events'[s] = 1 .. Len(old) + 1 /\ DOMAIN old = 1 .. Len(old) /\ Len(old) \in Nat
      BY <3>5
    <3>7. \A i \in 1 .. Len(old) : events'[s][i] = old[i]
      BY <3>5
    <3>8. events'[s][Len(old) + 1] = e
      BY <3>5
    <3>9. EventsOf(s)' = EventsOf(s) \union {e}
      <4>1. EventsOf(s)' = {events'[s][i] : i \in 1 .. Len(old) + 1}
        BY <3>6 DEF EventsOf
      <4>2. EventsOf(s) = {old[i] : i \in 1 .. Len(old)}
        BY <3>3, <3>6 DEF EventsOf
      <4> QED
        BY <4>1, <4>2, <3>6, <3>7, <3>8
    <3>10. \A t \in Owners \ {s} : events'[t] = events[t] /\ EventsOf(t)' = EventsOf(t)
      BY <3>2, <3>4 DEF EventsOf
    <3>11. HistoryBacked'
      <4>1. \A t \in Owners : \A x \in EventsOf(t)' : x = e \/ x \in EventsOf(t)
        BY <3>9, <3>10
      <4>2. \A t \in Owners : \A x \in EventsOf(t)' : Backed(x)
        BY <3>1, <4>1, HistoryBacks DEF LogInv
      <4>3. \A c \in recorded' : TargetRef(c, "checkpoint") \in DOMAIN refs'
        BY <2>1 DEF LogInv, HistoryBacked, Has
      <4>4. \A x : Backed(x) => Backed(x)'
        BY <2>1, BackingKept
      <4> QED
        BY <4>2, <4>3, <4>4
        DEF HistoryBacked, Has, Backed, TargetRefs, SafetyRefs, TargetRef, SafetyRef, Name
    <3>12. StreamOwned'
      <4>1. Owner[e.target] = s
        BY <2>s, <2>e DEF JournalEvent
      <4> QED
        BY <3>9, <3>10, <4>1 DEF LogInv, StreamOwned
    <3>13. RecordedOnce'
      <4>1. \A i, j \in DOMAIN events'[s] : events'[s][i] = events'[s][j] => i = j
        <5>1. \A i \in 1 .. Len(old) : old[i] # e
          BY <2>3, <3>3, <3>6 DEF EventsOf
        <5>2. \A i, j \in 1 .. Len(old) : old[i] = old[j] => i = j
          BY <3>3, <3>6 DEF LogInv, RecordedOnce
        <5>3. \A i \in 1 .. Len(old) : events'[s][i] # events'[s][Len(old) + 1]
          BY <5>1, <3>7, <3>8
        <5>4. \A i, j \in 1 .. Len(old) : events'[s][i] = events'[s][j] => i = j
          BY <5>2, <3>7
        <5>5. \A i \in DOMAIN events'[s] : i \in 1 .. Len(old) \/ i = Len(old) + 1
          BY <3>6
        <5> QED
          BY <5>3, <5>4, <5>5
      <4> QED
        BY <4>1, <3>10 DEF LogInv, RecordedOnce
    <3> QED
      BY <3>11, <3>12, <3>13 DEF LogInv
  <2> QED
    BY <2>2, <2>3
<1>7. CASE DropRefs
  <2>1. /\ events[op.session] = <<>> /\ \A c \in recorded : Owner[c] # op.session
        /\ events' = events /\ recorded' = recorded /\ unbacked' = unbacked
    BY <1>7 DEF DropRefs, At, OpInv, DroppingKnows
  <2>2. PICK kept \in SUBSET OwnedBy(op.session) : Delete(OwnedBy(op.session) \ kept)
    BY <1>7 DEF DropRefs
  <2>3. \A n \in DOMAIN refs : Owner[n.target] # op.session => n \in DOMAIN refs'
    BY <2>2 DEF Delete, OwnedBy
  <2>4. \A s : EventsOf(s)' = EventsOf(s)
    BY <2>1 DEF EventsOf
  <2>5. \A s \in Owners : \A e \in EventsOf(s) : Owner[e.target] # op.session
    BY <2>1 DEF LogInv, StreamOwned, EventsOf
  <2>6. \A e : \A n \in RefsOf(e) : n.target = e.target
    BY DEF RefsOf, TargetRefs, SafetyRefs, TargetRef, SafetyRef, Name
  <2>7. \A c : TargetRef(c, "checkpoint").target = c
    BY DEF TargetRef, Name
  <2>8. \A s \in Owners : \A e \in EventsOf(s) : Backed(e)'
    BY <2>1, <2>3, <2>5, <2>6, BackingKept, HistoryBacks DEF LogInv
  <2>9. \A c \in recorded : TargetRef(c, "checkpoint") \in DOMAIN refs'
    BY <2>1, <2>3, <2>7 DEF LogInv, HistoryBacked, Has
  <2> QED
    BY <2>1, <2>4, <2>8, <2>9 DEF LogInv, HistoryBacked, StreamOwned, RecordedOnce, Has, Backed
<1>8. CASE Prune
  <2>1. PICK gone \in SUBSET (DOMAIN refs \ Referenced) : Delete(gone)
    BY <1>8 DEF Prune
  <2>2. \A n \in DOMAIN refs : n \in Referenced => n \in DOMAIN refs'
    BY <2>1 DEF Delete
  <2>3. events' = events /\ recorded' = recorded /\ unbacked' = unbacked
    BY <1>8 DEF Prune, KeepBounds
  <2>4. \A s : EventsOf(s)' = EventsOf(s)
    BY <2>3 DEF EventsOf
  <2>5. \A s \in Owners : \A e \in EventsOf(s) : Backed(e)'
    BY <2>2, <2>3, HistoryReferenced, HistoryBacks, BackingKept DEF LogInv
  <2>6. \A c \in recorded : TargetRef(c, "checkpoint") \in DOMAIN refs'
    BY <2>2, HistoryReferenced DEF LogInv, HistoryBacked, Has
  <2> QED
    BY <2>3, <2>4, <2>5, <2>6 DEF LogInv, HistoryBacked, StreamOwned, RecordedOnce, Has, Backed
<1>9. ASSUME NEW s \in Sessions, DropLogs(s) PROVE LogInv'
  <2>1. /\ refs' = refs /\ recorded' \subseteq recorded /\ unbacked' = unbacked
        /\ events' = [events EXCEPT ![s] = <<>>]
    BY <1>9 DEF DropLogs, KeepBounds
  <2>2. events \in [Owners -> Seq(Event)] /\ s \in Owners
    BY ConstantsTyped DEF TypeOK
  <2>3. events'[s] = <<>> /\ \A t \in Owners \ {s} : events'[t] = events[t]
    BY <2>1, <2>2
  <2>4. EventsOf(s)' = {} /\ \A t \in Owners \ {s} : EventsOf(t)' = EventsOf(t)
    BY <2>3 DEF EventsOf
  <2>5. \A t \in Owners : \A e \in EventsOf(t) : Backed(e)'
    BY <2>1, HistoryBacks, BackingKept DEF LogInv
  <2>6. HistoryBacked'
    BY <2>1, <2>4, <2>5 DEF LogInv, HistoryBacked, Backed, Has, TargetRef, Name
  <2> QED
    BY <2>3, <2>4, <2>6 DEF LogInv, StreamOwned, RecordedOnce
<1>10. ASSUME NEW p \in Paths, Edit(p) PROVE LogInv'
  BY <1>10, LogKept DEF Edit
<1>11. CASE UNCHANGED vars
  BY <1>11, LogKept DEF vars
<1> QED
  BY <1>1, <1>2, <1>3, <1>4, <1>5, <1>6, <1>7, <1>8, <1>9, <1>10, <1>11 DEF Next, Step

----------------------------------------------------------------------------
(* What the operation knows                                                *)

\* A step of nobody that holds the lock keeps what the operation knows.
LEMMA OpKept ==
    ASSUME OpInv, op' = op, journal' = journal, runs' = runs,
           refs' = refs, events' = events, recorded' = recorded, unbacked' = unbacked
    PROVE  OpInv'
BY DEF OpInv, SafetyNamed, RoomForRun, MakingKnows, PhaseKnown, DroppingKnows, Has, Pending,
       TargetRef, SafetyRef, Name

\* Nothing is known of an operation that is over.
LEMMA OpOver ==
    ASSUME SafetyNamed', op' = Idle
    PROVE  OpInv'
BY DEF OpInv, SafetyNamed, RoomForRun, MakingKnows, PhaseKnown, DroppingKnows, Idle,
       Making, Writing

LEMMA OpStep == TypeOK /\ RecoveryPossible /\ OpInv /\ [Next]_vars => OpInv'
<1> SUFFICES ASSUME TypeOK, RecoveryPossible, OpInv, [Next]_vars
             PROVE  OpInv'
  OBVIOUS
<1>0. /\ journal \in Journal \union {NoJournal} /\ op \in Op \union {Idle}
      /\ runs \in Nat
  BY DEF TypeOK
<1>j. NoJournal.phase = "none" /\ NoJournal.safety = 0
  BY DEF NoJournal
<1> USE DEF OpInv, SafetyNamed, RoomForRun, MakingKnows, PhaseKnown, DroppingKnows,
            Making, Writing, Settling
<1>1. ASSUME NEW c \in Checkpoints, NEW m \in Modes, StartRollback(c, m) PROVE OpInv'
  BY <1>0, <1>1, <1>j DEF StartRollback, Idle, KeepBounds
<1>2. CASE StartResume
  <2>1. op'.kind = "resume" /\ op'.own = TRUE /\ journal' = journal
    BY <1>2 DEF StartResume, Idle
  <2>2. \/ journal.phase = "intent" /\ op'.pc = "clear"
        \/ journal.phase \in {"planned", "restoring"} /\ op'.pc = "restoring"
        \/ journal.phase = "restored" /\ op'.pc = "append"
    BY <1>2 DEF StartResume, Idle
  <2> QED
    BY <2>1, <2>2
<1>3. CASE StartSafety
  <2>1. journal.phase \in Settling
    BY <1>0, <1>3, <1>j DEF StartSafety, Journal, Phases
  <2>2. op'.kind = "safety" /\ op'.own = TRUE /\ op'.pc \in {"reset", "write"} /\ journal' = journal
    BY <1>3 DEF StartSafety, Idle
  <2> QED
    BY <2>1, <2>2
<1>4. CASE WriteIntent
  <2>1. op \in Op /\ op.kind = "rollback"
    BY <1>0, <1>4 DEF WriteIntent, At, Idle
  <2>2. op' = [op EXCEPT !.pc = "snapshot", !.own = TRUE] /\ runs < MaxRuns
    BY <1>4, <2>1 DEF WriteIntent, At
  <2> QED
    BY <1>4, <2>1, <2>2 DEF WriteIntent, Op, KeepStore, KeepBounds, Has, TargetRef, Name
<1>5. CASE Unresolved
  BY <1>5, OpOver DEF Unresolved
<1>6. CASE SaveSafety
  <2>1. op \in Op /\ op.pc = "snapshot"
    BY <1>0, <1>6 DEF SaveSafety, At, Idle
  <2>2. /\ op'.kind = op.kind /\ op'.own = op.own /\ op'.target = op.target
        /\ op'.mode = op.mode
        /\ op'.pc = IF op.mode = "workspace-git" THEN "git-snapshot" ELSE "planned"
        /\ runs' = runs + 1 /\ journal' = journal
    BY <1>6, <2>1 DEF SaveSafety, Goto, Op
  <2>3. DOMAIN refs' = DOMAIN refs \union {SafetyRef(op.target, runs + 1, "checkpoint")}
    BY <1>6 DEF SaveSafety, AddRef
  <2>4. runs' # 0
    BY <1>0, <2>2
  <2>5. runs' \in unbacked' \/ Has(TargetRef(op.target, "checkpoint"))
    BY <1>6, <2>2 DEF SaveSafety
  <2>6. MakingKnows'
    BY <2>1, <2>2, <2>3, <2>4, <2>5 DEF Has, TargetRef, SafetyRef, Name
  <2> QED
    BY <2>1, <2>2, <2>6
<1>7. CASE SaveGitSafety
  <2>1. op \in Op /\ op.pc = "git-snapshot"
    BY <1>0, <1>7 DEF SaveGitSafety, At, Idle
  <2>2. /\ op'.kind = op.kind /\ op'.own = op.own /\ op'.target = op.target
        /\ op'.mode = op.mode /\ op'.pc = "planned"
        /\ runs' = runs /\ journal' = journal /\ unbacked' = unbacked
    BY <1>7, <2>1 DEF SaveGitSafety, Goto, Op, KeepBounds
  <2>3. DOMAIN refs' = DOMAIN refs \union {SafetyRef(op.target, runs, "workspace-git")}
    BY <1>7 DEF SaveGitSafety, AddRef
  <2> QED
    BY <2>1, <2>2, <2>3 DEF Has, TargetRef, SafetyRef, Name
<1>8. CASE WritePlanned
  <2>1. op \in Op /\ op.pc = "planned" /\ journal \in Journal
    BY <1>0, <1>8, <1>j DEF WritePlanned, At, Idle
  <2>2. op'.kind = op.kind /\ op'.own = op.own /\ op'.target = op.target /\ op'.pc = "restoring"
    BY <1>8, <2>1 DEF WritePlanned, Goto, Op
  <2>3. journal'.phase = "planned"
    BY <1>8, <2>1 DEF WritePlanned, Journal
  <2> QED
    BY <2>1, <2>2, <2>3
<1>9. CASE WriteRestoring
  <2>1. op \in Op /\ op.pc = "restoring" /\ journal \in Journal
    BY <1>0, <1>9, <1>j DEF WriteRestoring, At, Idle
  <2>2. /\ op'.kind = op.kind /\ op'.own = op.own /\ op'.target = op.target
        /\ op'.pc \in {"reset", "write"}
    BY <1>9, <2>1 DEF WriteRestoring, Begin, Op
  <2>3. journal'.phase = "restoring"
    BY <1>9, <2>1 DEF WriteRestoring, WriteJournal, Journal
  <2> QED
    BY <2>1, <2>2, <2>3
<1>10. CASE WriteEntry \/ StartDelete \/ DeleteExtra \/ GitReset \/ GitCheckout
  <2>1. op \in Op /\ op.pc \in Writing
    BY <1>0, <1>10 DEF WriteEntry, StartDelete, DeleteExtra, GitReset, GitCheckout, At, Idle
  <2>2. /\ op'.kind = op.kind /\ op'.own = op.own /\ op'.target = op.target
        /\ op'.pc \in Writing /\ journal' = journal
    BY <1>10, <2>1 DEF WriteEntry, StartDelete, DeleteExtra, GitReset, GitCheckout, At, Goto, Op
  <2> QED
    BY <2>1, <2>2
<1>11. CASE FinishDelete \/ GitApply
  <2>1. op \in Op /\ op.pc \in Writing
    BY <1>0, <1>11 DEF FinishDelete, GitApply, At, Idle
  <2>2. /\ op'.kind = op.kind /\ op'.own = op.own /\ op'.target = op.target
        /\ op'.pc = IF op.kind = "safety" THEN "clear" ELSE "restored"
        /\ journal' = journal
    BY <1>11, <2>1 DEF FinishDelete, GitApply, Restored, Op
  <2> QED
    BY <2>1, <2>2
<1>12. CASE WriteRestored
  <2>1. op \in Op /\ op.pc = "restored" /\ journal \in Journal
    BY <1>0, <1>12, <1>j DEF WriteRestored, At, Idle
  <2>2. op'.kind = op.kind /\ op'.own = op.own /\ op'.target = op.target /\ op'.pc = "append"
    BY <1>12, <2>1 DEF WriteRestored, Goto, Op
  <2>3. journal'.phase = "restored"
    BY <1>12, <2>1 DEF WriteRestored, WriteJournal, Journal
  <2> QED
    BY <2>1, <2>2, <2>3
<1>13. CASE AppendEvent
  <2>1. op \in Op /\ op.pc = "append"
    BY <1>0, <1>13 DEF AppendEvent, At, Idle
  <2>2. /\ op'.kind = op.kind /\ op'.own = op.own /\ op'.target = op.target /\ op'.pc = "clear"
        /\ journal' = journal /\ runs' = runs
    BY <1>13, <2>1 DEF AppendEvent, Goto, Op, KeepBounds
  <2> QED
    BY <2>1, <2>2
<1>14. CASE ClearJournal
  <2>1. journal' = NoJournal /\ runs' = runs
    BY <1>14 DEF ClearJournal, KeepBounds
  <2>2. op \in Op /\ op.pc = "clear" /\ op.own \in BOOLEAN
    <3>1. op \in Op /\ op.pc = "clear"
      BY <1>0, <1>14 DEF ClearJournal, At, Idle
    <3> QED
      BY <3>1 DEF Op
  <2>3. CASE op.own
    BY <1>14, <1>j, <2>1, <2>3, OpOver DEF ClearJournal
  <2>4. CASE ~ op.own
    <3>1. op' = [op EXCEPT !.pc = "intent"]
      BY <1>14, <2>4 DEF ClearJournal
    <3>2. op.own = FALSE
      BY <2>2, <2>4
    <3>3. op'.kind = op.kind /\ op'.own = FALSE /\ op'.target = op.target /\ op'.pc = "intent"
      BY <2>2, <3>1, <3>2 DEF Op
    <3>4. op.kind = "rollback"
      BY <2>2, <3>2 DEF Op, Kinds
    <3> QED
      BY <1>j, <2>1, <2>2, <3>2, <3>3, <3>4
  <2> QED
    BY <2>2, <2>3, <2>4
<1>15. CASE Stop \/ DropRefs
  <2>1. op' = Idle /\ journal' = journal
    BY <1>15 DEF Stop, DropRefs
  <2> QED
    BY <2>1, OpOver
<1>16. CASE Prune
  <2>1. op = Idle /\ op' = Idle /\ journal' = journal
    BY <1>16 DEF Prune, IsIdle
  <2> QED
    BY <2>1, OpOver
<1>17. ASSUME NEW s \in Sessions, DropLogs(s) PROVE OpInv'
  <2>1. /\ op'.kind = "drop" /\ op'.pc = "refs" /\ op'.session = s
        /\ journal' = journal /\ Pending' = Pending
    BY <1>17 DEF DropLogs, Idle, Pending
  <2>2. Pending => Owner[journal.target] # s
    BY <1>17 DEF DropLogs, Droppable
  <2>3. events'[s] = <<>> /\ \A c \in recorded' : Owner[c] # s
    BY <1>17, ConstantsTyped DEF DropLogs, TypeOK
  <2>4. s \in Owners
    BY ConstantsTyped
  <2> QED
    BY <2>1, <2>2, <2>3, <2>4
<1>18. ASSUME NEW p \in Paths, Edit(p) PROVE OpInv'
  BY <1>18, OpKept DEF Edit
<1>19. CASE UNCHANGED vars
  BY <1>19, OpKept DEF vars
<1> QED
  BY <1>1, <1>2, <1>3, <1>4, <1>5, <1>6, <1>7, <1>8, <1>9, <1>10, <1>11, <1>12, <1>13,
     <1>14, <1>15, <1>16, <1>17, <1>18, <1>19 DEF Next, Step

----------------------------------------------------------------------------
(* The theorems                                                            *)

LEMMA InvInit == Init => Inv
<1> SUFFICES ASSUME Init PROVE Inv
  OBVIOUS
<1>1. TypeOK
  BY TypeInit
<1>2. op = Idle /\ journal = NoJournal /\ recorded = Checkpoints
      /\ events = [s \in Owners |-> <<>>]
  BY DEF Init
<1>3. RecoveryPossible
  BY <1>2 DEF RecoveryPossible, NoJournal
<1>4. OpInv
  BY <1>2 DEF OpInv, SafetyNamed, RoomForRun, MakingKnows, PhaseKnown, DroppingKnows,
              Idle, NoJournal, Making, Writing
<1>5. \A s \in Owners : EventsOf(s) = {}
  BY <1>2 DEF EventsOf
<1>6. \A c \in Checkpoints : Has(TargetRef(c, "checkpoint"))
  BY DEF Init, Has
<1>7. LogInv
  BY <1>2, <1>5, <1>6 DEF LogInv, HistoryBacked, RecordedOnce, StreamOwned
<1> QED
  BY <1>1, <1>3, <1>4, <1>7 DEF Inv

LEMMA InvStep == Inv /\ [Next]_vars => Inv'
BY TypeStep, RecoveryStep, OpStep, LogStep DEF Inv

\* The inductive invariant holds throughout.
THEOREM InvHolds == Spec => []Inv
BY InvInit, InvStep, PTL DEF Spec

\* Types: at every moment, what is in files, refs, journal and log is of its form, and
\* no bound is passed.
THEOREM TypeCorrect == Spec => []TypeOK
BY InvHolds, PTL DEF Inv

\* From the moment a rollback is journaled as planned until it is settled, its target
\* and its safety snapshots exist: ResumeRecovery and RestoreSafety find what they need,
\* whatever PruneOrphanRefs and DropSession did meanwhile.
THEOREM RecoveryFindsRefs == Spec => []RecoveryPossible
BY InvHolds, PTL DEF Inv

\* No event that appendRollbackEvent or the recorder wrote names a ref that retention
\* has deleted.
THEOREM EventsKeepRefs == Spec => []HistoryBacked
BY InvHolds, PTL DEF Inv, LogInv

\* A rollback is recorded at most once, by whoever finishes its journal.
THEOREM NoDuplicateEvent == Spec => []RecordedOnce
BY InvHolds, PTL DEF Inv, LogInv

\* A rollback that is settled on goes on as the one it is, or is over.
LEMMA JournalStep ==
    ASSUME Inv, [Next]_vars, journal.phase \in Settling
    PROVE  \/ /\ journal'.phase \in Settling
              /\ journal'.target = journal.target /\ journal'.mode = journal.mode
              /\ journal'.safety = journal.safety
           \/ ClearJournal
<1>1. journal \in Journal
  BY DEF Inv, TypeOK, NoJournal, Settling
<1>2. journal.phase \notin {"none", "intent"} /\ journal # NoJournal
  BY DEF NoJournal, Settling
<1>3. CASE \E c \in Checkpoints, m \in Modes : StartRollback(c, m)
  BY <1>2, <1>3 DEF StartRollback
<1>4. CASE WriteIntent \/ WritePlanned
  BY <1>2, <1>4 DEF WriteIntent, WritePlanned, At, Inv, OpInv, MakingKnows, Making
<1>5. CASE WriteRestoring \/ WriteRestored
  BY <1>1, <1>5 DEF WriteRestoring, WriteRestored, WriteJournal, Journal, Settling
<1>6. CASE StartResume \/ StartSafety \/ Unresolved \/ SaveSafety \/ SaveGitSafety
  BY <1>6 DEF StartResume, StartSafety, Unresolved, SaveSafety, SaveGitSafety
<1>7. CASE WriteEntry \/ StartDelete \/ DeleteExtra \/ FinishDelete
  BY <1>7 DEF WriteEntry, StartDelete, DeleteExtra, FinishDelete
<1>8. CASE GitReset \/ GitCheckout \/ GitApply \/ AppendEvent \/ DropRefs
  BY <1>8 DEF GitReset, GitCheckout, GitApply, AppendEvent, DropRefs
<1>9. CASE Stop \/ Prune \/ UNCHANGED vars
  BY <1>9 DEF Stop, Prune, vars
<1>10. CASE \/ \E s \in Sessions : DropLogs(s)
            \/ \E p \in Paths : Edit(p)
  BY <1>10 DEF DropLogs, Edit
<1> QED
  BY <1>3, <1>4, <1>5, <1>6, <1>7, <1>8, <1>9, <1>10 DEF Next, Step

\* A journal "planned" or "restoring" ends as restored or by RestoreSafety: nobody else
\* drops it or puts another rollback in its place.
THEOREM AmbiguityIsKept == Spec => AmbiguousKept
<1>1. Inv /\ [Next]_vars =>
        [journal.phase \in {"planned", "restoring"} /\ journal'.safety # journal.safety
           => op.kind = "safety"]_vars
  <2> SUFFICES ASSUME Inv, Next,
                      journal.phase \in {"planned", "restoring"},
                      journal'.safety # journal.safety
               PROVE  op.kind = "safety"
    OBVIOUS
  <2>1. ClearJournal
    BY JournalStep DEF Settling
  <2> QED
    BY <2>1 DEF ClearJournal, At, Inv, OpInv, PhaseKnown
<1> QED
  BY <1>1, InvHolds, PTL DEF Spec, AmbiguousKept

----------------------------------------------------------------------------
(* Nothing unsaved is destroyed                                            *)

\* Snapshots are not from the future.
EditsSeen == \A n \in DOMAIN refs : refs[n].at <= edits

\* What restoring the files of a commit writes is never deny-listed.
LeftAllowed == op.pc \in {"write", "delete"} => op.left \subseteq Paths /\
               (op.pc = "write" => op.left \intersect Denied = {})

\* Commit g has what is in the workspace, but for later edits and what no snapshot takes.
Saved(g) ==
    \A p \in Paths \ Denied :
        ws[p] = g.tree[p] \/ ws[p] > BaseVersion + g.at \/ p \in Ignored(g.tree)

\* The snapshots of a rollback that has not begun to write.
SnapshotSaves ==
    /\ op.pc \in {"git-snapshot", "planned"} => Saved(refs[SafetyRef(op.target, runs, "checkpoint")])
    /\ op.pc = "planned" => Saved(refs[SafetyRef(op.target, runs, op.mode)])

\* What may be in the workspace while a rollback that restores t is pending with the
\* safety snapshot g.
Known(g, t) ==
    \A p \in Paths \ Denied :
        \/ ws[p] \in {Absent, g.tree[p], t.tree[p]} \union {Committed[h][p] : h \in Heads}
        \/ ws[p] > BaseVersion + g.at
        \/ p \in Ignored(g.tree)

MixtureKnown == journal.phase \in Settling => Known(SafetyCommit, TargetCommit)

FilesInv == EditsSeen /\ LeftAllowed /\ SnapshotSaves /\ MixtureKnown

\* What a step that restores files may do to them.
Restores(g, t) ==
    \A p \in Paths :
        \/ ws'[p] = ws[p]
        \/ /\ p \notin Denied
           /\ ws'[p] \in {Absent, g.tree[p], t.tree[p]} \union {Committed[h][p] : h \in Heads}

\* What git reset, checkout and the captured patches write.
LEMMA GitRestores ==
    ASSUME Inv, op.pc \in {"reset", "checkout", "apply"}
    PROVE  \A p \in Paths :
               \/ GitFiles[p] = ws[p]
               \/ /\ p \notin Denied
                  /\ GitFiles[p] \in {Absent, Goal.tree[p]} \union {Committed[h][p] : h \in Heads}
<1>1. Goal \in Commit
  BY GoalTyped DEF Inv, Writing
<1>2. Goal.head \in Heads /\ head \in Heads
  BY <1>1 DEF Commit, Inv, TypeOK
<1>3. \A h \in Heads, from \in Heads, p \in Paths :
         ResetTo(h, from)[p] = ws[p] \/ (p \notin Denied /\ ResetTo(h, from)[p] = Committed[h][p])
  BY DEF ResetTo
<1>4. CASE op.pc = "reset"
  <2> DEFINE t == ResetTo(head, head)
             keep == Ignored(t) \union Present(Committed[head])
  <2>1. GitFiles = [p \in Paths |-> IF p \in Denied \union keep THEN t[p] ELSE Absent]
    BY <1>4, Zenon DEF GitFiles, At
  <2>2. \A p \in Paths : t[p] = ws[p] \/ (p \notin Denied /\ t[p] = Committed[head][p])
    BY <1>2, <1>3
  <2> HIDE DEF t, keep
  <2> QED
    BY <1>2, <2>1, <2>2
<1>5. CASE op.pc = "checkout"
  BY <1>2, <1>3, <1>5 DEF GitFiles, At
<1>6. CASE op.pc = "apply"
  <2>1. GitFiles = [p \in Paths |-> IF p \in Denied \/ (Goal.tree[p] = Absent /\ Committed[head][p] = Absent)
                                    THEN ws[p] ELSE Goal.tree[p]]
    BY <1>6 DEF GitFiles, At
  <2> QED
    BY <2>1
<1> QED
  BY <1>4, <1>5, <1>6

\* A non-empty set of numbers has a first one.
LEMMA FirstNumber ==
    ASSUME NEW S \in SUBSET Nat, S # {}
    PROVE  \E i \in S : \A j \in S : i <= j
<1> DEFINE R == {ss \in Nat \X Nat : ss[1] < ss[2]}
<1>1. IsWellFoundedOn(R, Nat)
  BY NatLessThanWellFounded, Zenon DEF OpToRel, R
<1>2. PICK x \in S : \A y \in S : ~(<<y, x>> \in R)
  BY <1>1, WFMin
<1>3. \A y \in S : ~(y < x)
  BY <1>2 DEF R
<1> QED
  BY <1>3

LEMMA FirstIn == ASSUME NEW S \in SUBSET Paths, S # {} PROVE First(S) \in S
<1>1. \E p \in S : \A q \in S : p <= q
  BY FirstNumber
<1> QED
  BY <1>1 DEF First

\* A step other than an edit changes files only while it restores the target or the
\* safety snapshot.
LEMMA RestoreStep ==
    ASSUME Inv, LeftAllowed, Next, edits' = edits, ws' # ws
    PROVE  /\ op.pc \in Writing
           /\ Restores(SafetyCommit, TargetCommit)
<1>0. ws \in Tree /\ edits \in Nat /\ op \in Op \union {Idle}
  BY ConstantsTyped DEF Inv, TypeOK
<1>g. Goal \in {SafetyCommit, TargetCommit}
  BY DEF Goal
<1>1. CASE WriteEntry
  <2>1. op.pc = "write" /\ op.left # {} /\ op.left \subseteq Paths \ Denied
    BY <1>1 DEF WriteEntry, At, LeftAllowed
  <2>2. PICK p \in Paths \ Denied : p = First(op.left)
    BY <2>1, FirstIn
  <2>3. ws' = [ws EXCEPT ![p] = Goal.tree[p]]
    BY <1>1, <2>2 DEF WriteEntry
  <2>4. \A q \in Paths : ws'[q] = IF q = p THEN Goal.tree[p] ELSE ws[q]
    BY <1>0, <2>3 DEF Tree
  <2> QED
    BY <1>g, <2>1, <2>2, <2>4 DEF Restores, Writing
<1>2. CASE DeleteExtra
  <2>1. op.pc = "delete" /\ Extra # {} /\ Extra \subseteq Paths \ Denied
    BY <1>2 DEF DeleteExtra, At, LeftAllowed, Extra
  <2>2. PICK p \in Paths \ Denied : p = First(Extra)
    BY <2>1, FirstIn
  <2>3. ws' = [ws EXCEPT ![p] = Absent]
    BY <1>2, <2>2 DEF DeleteExtra
  <2>4. \A q \in Paths : ws'[q] = IF q = p THEN Absent ELSE ws[q]
    BY <1>0, <2>3 DEF Tree
  <2> QED
    BY <2>1, <2>2, <2>4 DEF Restores, Writing
<1>3. CASE GitReset \/ GitCheckout \/ GitApply
  <2>1. op.pc \in {"reset", "checkout", "apply"} /\ ws' = GitFiles
    BY <1>3 DEF GitReset, GitCheckout, GitApply, At
  <2> QED
    BY <1>g, <2>1, GitRestores DEF Restores, Writing
<1>4. CASE Stop
  <2>1. ws' \in Cut
    BY <1>4 DEF Stop
  <2>2. CASE At("write") /\ op.left # {}
    <3>1. op.pc = "write" /\ op.left # {} /\ op.left \subseteq Paths \ Denied
      BY <2>2 DEF At, LeftAllowed
    <3>2. PICK p \in Paths \ Denied : p = First(op.left)
      BY <3>1, FirstIn
    <3>3. ws' = [ws EXCEPT ![p] = Absent]
      BY <2>1, <2>2, <3>2 DEF Cut
    <3>4. \A q \in Paths : ws'[q] = IF q = p THEN Absent ELSE ws[q]
      BY <1>0, <3>3 DEF Tree
    <3> QED
      BY <3>1, <3>2, <3>4 DEF Restores, Writing
  <2>3. CASE op.pc \in {"reset", "checkout", "apply"}
    <3>1. PICK S \in SUBSET Paths : ws' = [p \in Paths |-> IF p \in S THEN GitFiles[p] ELSE ws[p]]
      BY <2>1, <2>3 DEF Cut, At
    <3> QED
      BY <1>g, <2>3, <3>1, GitRestores DEF Restores, Writing
  <2>4. CASE ~ (At("write") /\ op.left # {}) /\ op.pc \notin {"reset", "checkout", "apply"}
    BY <2>1, <2>4 DEF Cut
  <2> QED
    BY <2>2, <2>3, <2>4
<1>5. CASE \E p \in Paths : Edit(p)
  BY <1>0, <1>5 DEF Edit
<1>6. CASE \/ WriteIntent \/ Unresolved \/ SaveSafety \/ SaveGitSafety \/ WritePlanned
           \/ WriteRestoring \/ StartDelete \/ FinishDelete
  BY <1>6 DEF WriteIntent, Unresolved, SaveSafety, SaveGitSafety, WritePlanned,
              WriteRestoring, StartDelete, FinishDelete, KeepFiles
<1>7. CASE \/ WriteRestored \/ AppendEvent \/ ClearJournal \/ DropRefs
           \/ StartResume \/ StartSafety \/ Prune
  BY <1>7 DEF WriteRestored, AppendEvent, ClearJournal, DropRefs, StartResume, StartSafety,
              Prune, KeepFiles
<1>8. CASE \/ \E c \in Checkpoints, m \in Modes : StartRollback(c, m)
           \/ \E s \in Sessions : DropLogs(s)
  BY <1>8 DEF StartRollback, DropLogs, KeepFiles
<1> QED
  BY <1>1, <1>2, <1>3, <1>4, <1>5, <1>6, <1>7, <1>8 DEF Next, Step

\* A step adds snapshots of now, before a rollback is settled on, removes refs, or leaves
\* them alone.
LEMMA RefsStep ==
    ASSUME Inv, [Next]_vars
    PROVE  /\ \A n \in DOMAIN refs' : \/ n \in DOMAIN refs /\ refs'[n] = refs[n]
                                      \/ journal.phase = "intent" /\ refs'[n] = Snapshot
           /\ \/ edits' = edits
              \/ /\ \E p \in Paths : Edit(p)
                 /\ edits' = edits + 1
<1>1. CASE KeepStore /\ edits' = edits
  BY <1>1 DEF KeepStore
<1>2. CASE SaveSafety \/ SaveGitSafety
  <2>1. journal.phase = "intent"
    BY <1>2 DEF SaveSafety, SaveGitSafety, At, Inv, OpInv, MakingKnows, Making
  <2> QED
    BY <1>2, <2>1 DEF SaveSafety, SaveGitSafety, AddRef, KeepBounds
<1>3. CASE AppendEvent \/ UNCHANGED vars \/ \E s \in Sessions : DropLogs(s)
  <2>1. refs' = refs /\ edits' = edits
    BY <1>3, Zenon DEF AppendEvent, vars, DropLogs, KeepBounds
  <2> QED
    BY <2>1
<1>4. CASE Prune \/ DropRefs
  <2>1. edits' = edits /\ \E gone : Delete(gone)
    BY <1>4 DEF Prune, DropRefs, KeepBounds
  <2> QED
    BY <2>1 DEF Delete
<1>5. CASE \E p \in Paths : Edit(p)
  BY <1>5 DEF Edit
<1>6. CASE \/ \E c \in Checkpoints, m \in Modes : StartRollback(c, m)
           \/ StartResume \/ StartSafety \/ WriteIntent \/ Unresolved \/ WritePlanned
  BY <1>1, <1>6
  DEF StartRollback, StartResume, StartSafety, WriteIntent, Unresolved, WritePlanned, KeepBounds
<1>7. CASE \/ WriteRestoring \/ WriteEntry \/ StartDelete \/ DeleteExtra \/ FinishDelete
           \/ GitReset \/ GitCheckout \/ GitApply \/ WriteRestored \/ ClearJournal \/ Stop
  BY <1>1, <1>7
  DEF WriteRestoring, WriteEntry, StartDelete, DeleteExtra, FinishDelete, GitReset,
      GitCheckout, GitApply, WriteRestored, ClearJournal, Stop, KeepBounds
<1> QED
  BY <1>2, <1>3, <1>4, <1>5, <1>6, <1>7 DEF Next, Step

LEMMA EditsStep ==
    ASSUME Inv, EditsSeen, [Next]_vars
    PROVE  EditsSeen'
<1>1. Snapshot.at = edits
  BY DEF Snapshot
<1>3. edits' = edits \/ edits' = edits + 1
  BY RefsStep
<1>2. edits \in Nat /\ \A n \in DOMAIN refs : refs[n].at \in Nat
  BY ConstantsTyped DEF Inv, TypeOK, Commit
<1> QED
  BY <1>1, <1>2, <1>3, RefsStep DEF EditsSeen

LEMMA LeftStep ==
    ASSUME Inv, LeftAllowed, [Next]_vars
    PROVE  LeftAllowed'
<1>0. op \in Op \union {Idle} /\ Idle.pc = "idle"
  BY DEF Inv, TypeOK, Idle
<1>1. CASE WriteRestoring \/ StartSafety
  <2>1. \A g : Present(g.tree) \ Denied \subseteq Paths \ Denied
    BY DEF Present
  <2>2. CASE WriteRestoring
    <3>1. op \in Op
      BY <1>0, <2>2 DEF WriteRestoring, At
    <3> QED
      BY <2>1, <2>2, <3>1 DEF WriteRestoring, Begin, LeftAllowed, Op
  <2>3. CASE StartSafety
    BY <2>1, <2>3 DEF StartSafety, Idle, LeftAllowed
  <2> QED
    BY <1>1, <2>2, <2>3
<1>2. CASE WriteEntry \/ StartDelete \/ DeleteExtra
  <2>1. op \in Op
    BY <1>0, <1>2 DEF WriteEntry, StartDelete, DeleteExtra, At
  <2>2. /\ op'.pc = IF StartDelete THEN "delete" ELSE op.pc
        /\ op'.left \subseteq op.left \/ (StartDelete /\ op'.left = Paths)
    BY <1>2, <2>1 DEF WriteEntry, StartDelete, DeleteExtra, At, Op
  <2>3. op.pc \in {"write", "delete"}
    BY <1>2 DEF WriteEntry, StartDelete, DeleteExtra, At
  <2> QED
    BY <2>2, <2>3 DEF LeftAllowed
<1>3. CASE \/ WriteIntent \/ SaveSafety \/ SaveGitSafety \/ WritePlanned \/ FinishDelete
           \/ GitReset \/ GitCheckout \/ GitApply \/ WriteRestored \/ AppendEvent
  <2>1. op \in Op
    BY <1>0, <1>3
    DEF WriteIntent, SaveSafety, SaveGitSafety, WritePlanned, FinishDelete, GitReset,
        GitCheckout, GitApply, WriteRestored, AppendEvent, At
  <2>2. op'.pc \notin {"write", "delete"}
    BY <1>3, <2>1
    DEF WriteIntent, SaveSafety, SaveGitSafety, WritePlanned, FinishDelete, GitReset,
        GitCheckout, GitApply, WriteRestored, AppendEvent, Goto, Restored, Op
  <2> QED
    BY <2>2 DEF LeftAllowed
<1>4. CASE ClearJournal
  <2>1. op \in Op
    BY <1>0, <1>4 DEF ClearJournal, At
  <2>2. op'.pc \in {"idle", "intent"}
    BY <1>0, <1>4, <2>1 DEF ClearJournal, Op
  <2> QED
    BY <2>2 DEF LeftAllowed
<1>5. CASE \/ \E c \in Checkpoints, m \in Modes : StartRollback(c, m)
           \/ StartResume \/ \E s \in Sessions : DropLogs(s)
  <2>1. op'.pc \in {"append", "intent", "clear", "restoring", "refs"}
    BY <1>5 DEF StartRollback, StartResume, DropLogs, Idle
  <2> QED
    BY <2>1 DEF LeftAllowed
<1>6. CASE Unresolved \/ Stop \/ DropRefs
  <2>1. op'.pc = "idle"
    BY <1>0, <1>6 DEF Unresolved, Stop, DropRefs
  <2> QED
    BY <2>1 DEF LeftAllowed
<1>7. CASE Prune \/ (\E p \in Paths : Edit(p)) \/ UNCHANGED vars
  <2>1. op' = op
    BY <1>7 DEF Prune, Edit, vars
  <2> QED
    BY <2>1 DEF LeftAllowed
<1> QED
  BY <1>1, <1>2, <1>3, <1>4, <1>5, <1>6, <1>7 DEF Next, Step

\* A snapshot has what is in the workspace.
LEMMA SnapshotIsSaved == ASSUME Inv PROVE Saved(Snapshot)
<1>1. RulesFile \notin Ignored(ws) /\ ws \in Tree
  BY DEF Inv, TypeOK, Tree, Ignored
<1>2. Snapshot.tree = Captured(ws) /\ Captured(ws)[RulesFile] = ws[RulesFile]
  BY <1>1 DEF Snapshot, Captured
<1>3. Ignored(Snapshot.tree) = Ignored(ws)
  BY <1>2 DEF Ignored
<1> QED
  BY <1>2, <1>3 DEF Saved, Captured

\* Edits do not unsave a snapshot.
LEMMA SavedKept ==
    ASSUME Inv, NEW g \in Commit, g.at <= edits, Saved(g), NEW p \in Paths, Edit(p)
    PROVE  Saved(g)'
<1>1. /\ edits \in Nat /\ ws \in Tree /\ g.at \in Nat /\ BaseVersion \in Nat
  BY ConstantsTyped DEF Inv, TypeOK, Commit
<1>2. \A q \in Paths : ws'[q] = ws[q] \/ ws'[q] = BaseVersion + edits + 1
  BY <1>1 DEF Edit, Tree
<1>3. BaseVersion + edits + 1 > BaseVersion + g.at
  BY <1>1
<1> QED
  BY <1>2, <1>3 DEF Saved

LEMMA SnapshotStep ==
    ASSUME Inv, EditsSeen, SnapshotSaves, [Next]_vars
    PROVE  SnapshotSaves'
<1>0. op \in Op \union {Idle} /\ Idle.pc = "idle"
  BY DEF Inv, TypeOK, Idle
<1>1. CASE SaveSafety
  <2>1. op \in Op /\ op.target \in Checkpoints
    BY <1>0, <1>1 DEF SaveSafety, At, Inv, OpInv, MakingKnows, Making
  <2>2. /\ op'.target = op.target /\ op'.mode = op.mode /\ runs' = runs + 1 /\ ws' = ws
        /\ op'.pc = "planned" => op.mode = "checkpoint"
    BY <1>1, <2>1 DEF SaveSafety, Goto, Op, KeepFiles, AllModes
  <2>3. refs'[SafetyRef(op.target, runs + 1, "checkpoint")] = Snapshot
    BY <1>1 DEF SaveSafety, AddRef
  <2>4. Saved(Snapshot)
    BY SnapshotIsSaved
  <2>5. PICK g : g = Snapshot
    OBVIOUS
  <2>6. refs'[SafetyRef(op'.target, runs', "checkpoint")] = g
    BY <2>2, <2>3, <2>5 DEF SafetyRef, Name
  <2>7. Saved(g)'
    BY <2>2, <2>4, <2>5 DEF Saved
  <2>8. op'.pc = "planned" => refs'[SafetyRef(op'.target, runs', op'.mode)] = g
    BY <2>2, <2>6
  <2> QED
    BY <2>6, <2>7, <2>8 DEF SnapshotSaves, Saved, SafetyRef, Name
<1>2. CASE SaveGitSafety
  <2>1. op \in Op /\ op.pc = "git-snapshot"
    BY <1>0, <1>2 DEF SaveGitSafety, At
  <2>2. op'.target = op.target /\ op'.mode = op.mode /\ runs' = runs /\ ws' = ws
    BY <1>2, <2>1 DEF SaveGitSafety, Goto, Op, KeepFiles, KeepBounds
  <2>3. /\ refs'[SafetyRef(op.target, runs, "workspace-git")] = Snapshot
        /\ refs'[SafetyRef(op.target, runs, "checkpoint")]
             = refs[SafetyRef(op.target, runs, "checkpoint")]
    <3>1. Has(SafetyRef(op.target, runs, "checkpoint"))
      BY <2>1 DEF Inv, OpInv, MakingKnows
    <3>2. SafetyRef(op.target, runs, "checkpoint") # SafetyRef(op.target, runs, "workspace-git")
      BY DEF SafetyRef, Name
    <3> QED
      BY <1>2, <3>1, <3>2 DEF SaveGitSafety, AddRef, Has
  <2>4. PICK g : g = Snapshot
    OBVIOUS
  <2>5. PICK h : h = refs[SafetyRef(op.target, runs, "checkpoint")]
    OBVIOUS
  <2>6. Saved(g)' /\ Saved(h)'
    BY <2>1, <2>2, <2>4, <2>5, SnapshotIsSaved DEF Saved, SnapshotSaves
  <2>7. op.mode \in AllModes
    BY <2>1 DEF Op
  <2>8. /\ refs'[SafetyRef(op'.target, runs', "checkpoint")] = h
        /\ refs'[SafetyRef(op'.target, runs', op'.mode)] \in {g, h}
    BY <2>2, <2>3, <2>4, <2>5, <2>7 DEF AllModes
  <2> QED
    BY <2>6, <2>8 DEF SnapshotSaves, Saved, SafetyRef, Name
<1>3. ASSUME NEW p \in Paths, Edit(p) PROVE SnapshotSaves'
  <2>1. op' = op /\ runs' = runs /\ refs' = refs
    BY <1>3 DEF Edit
  <2>2. op.pc \in {"git-snapshot", "planned"} =>
          /\ Has(SafetyRef(op.target, runs, "checkpoint"))
          /\ op.pc = "planned" => Has(SafetyRef(op.target, runs, op.mode))
    BY <1>0 DEF Inv, OpInv, MakingKnows, Op, AllModes
  <2>3. \A n \in DOMAIN refs : Saved(refs[n]) => Saved(refs[n])'
    <3> SUFFICES ASSUME NEW n \in DOMAIN refs, Saved(refs[n]) PROVE Saved(refs[n])'
      OBVIOUS
    <3>1. PICK g \in Commit : g = refs[n] /\ g.at <= edits
      BY DEF Inv, TypeOK, EditsSeen
    <3>2. Saved(g)'
      BY <1>3, <3>1, SavedKept
    <3> QED
      BY <2>1, <3>1, <3>2 DEF Saved
  <2> QED
    BY <2>1, <2>2, <2>3 DEF SnapshotSaves, Saved, Has, SafetyRef, Name
<1>4. CASE UNCHANGED vars
  BY <1>4 DEF vars, SnapshotSaves, Saved, SafetyRef, Name
<1>5. CASE \/ \E c \in Checkpoints, m \in Modes : StartRollback(c, m)
           \/ StartResume \/ StartSafety \/ \E s \in Sessions : DropLogs(s)
  <2>1. op'.pc \in {"append", "intent", "clear", "restoring", "refs", "write", "reset"}
    BY <1>5 DEF StartRollback, StartResume, StartSafety, DropLogs, Idle
  <2> QED
    BY <2>1 DEF SnapshotSaves
<1>6. CASE Unresolved \/ Stop \/ DropRefs \/ Prune
  <2>1. op'.pc = "idle"
    BY <1>0, <1>6 DEF Unresolved, Stop, DropRefs, Prune, IsIdle
  <2> QED
    BY <2>1 DEF SnapshotSaves
<1>7. CASE \/ WriteIntent \/ WritePlanned \/ WriteRestoring \/ FinishDelete \/ StartDelete
           \/ WriteEntry \/ DeleteExtra \/ GitReset \/ GitCheckout \/ GitApply
           \/ WriteRestored \/ AppendEvent \/ ClearJournal
  <2>1. op \in Op
    BY <1>0, <1>7
    DEF WriteIntent, WritePlanned, WriteRestoring, FinishDelete, StartDelete, WriteEntry,
        DeleteExtra, GitReset, GitCheckout, GitApply, WriteRestored, AppendEvent,
        ClearJournal, At
  <2>2. op'.pc \notin {"git-snapshot", "planned"}
    BY <1>0, <1>7, <2>1
    DEF WriteIntent, WritePlanned, WriteRestoring, Begin, FinishDelete, StartDelete, WriteEntry,
        DeleteExtra, GitReset, GitCheckout, GitApply, WriteRestored, AppendEvent,
        ClearJournal, At, Goto, Restored, Op
  <2> QED
    BY <2>2 DEF SnapshotSaves
<1> QED
  BY <1>1, <1>2, <1>3, <1>4, <1>5, <1>6, <1>7 DEF Next, Step

\* The commits a pending rollback is about stay what they are.
LEMMA CommitsKept ==
    ASSUME Inv, [Next]_vars, journal.phase \in Settling, journal'.phase \in Settling
    PROVE  SafetyCommit' = SafetyCommit /\ TargetCommit' = TargetCommit
<1>1. /\ journal'.target = journal.target /\ journal'.mode = journal.mode
      /\ journal'.safety = journal.safety
  BY JournalStep DEF ClearJournal, NoJournal, Settling
<1>2. \A n \in DOMAIN refs' : refs'[n] = refs[n]
  BY RefsStep DEF Settling
<1>3. RecoveryPossible' /\ TypeOK'
  BY InvStep DEF Inv
<1>4. journal' \in Journal
  BY <1>3 DEF TypeOK, NoJournal, Settling
<1>5. SafetyRef(journal.target, journal.safety, journal.mode) \in DOMAIN refs'
  BY <1>1, <1>3 DEF RecoveryPossible, SafetyRefs, SafetyRef, Name, Settling
<1> QED
  BY <1>1, <1>2, <1>5 DEF SafetyCommit, TargetCommit, Captures, SafetyRef, Name

LEMMA MixtureStep ==
    ASSUME Inv, FilesInv, [Next]_vars
    PROVE  MixtureKnown'
<1> SUFFICES ASSUME journal'.phase \in Settling
             PROVE  Known(SafetyCommit, TargetCommit)'
  BY DEF MixtureKnown
<1>0. ws \in Tree /\ edits \in Nat /\ BaseVersion \in Nat
  BY ConstantsTyped DEF Inv, TypeOK
<1>1. CASE journal.phase \in Settling
  <2>1. SafetyCommit \in Commit /\ TargetCommit \in Commit
    BY <1>1, CommitsTyped DEF Inv
  <2>2. PICK g \in Commit, t \in Commit : g = SafetyCommit /\ t = TargetCommit
    BY <2>1
  <2>3. SafetyCommit' = g /\ TargetCommit' = t
    BY <1>1, <2>2, CommitsKept
  <2>4. Known(g, t)
    BY <1>1, <2>2 DEF FilesInv, MixtureKnown
  <2>5. Known(g, t)'
    <3>1. CASE ws' = ws
      BY <2>4, <3>1 DEF Known
    <3>2. CASE ws' # ws /\ edits' = edits
      <4>1. Restores(g, t)
        BY <2>2, <3>2, RestoreStep DEF FilesInv, vars
      <4> QED
        BY <2>4, <4>1 DEF Restores, Known
    <3>3. CASE edits' # edits
      <4>1. PICK p \in Paths : Edit(p)
        BY <3>3, RefsStep
      <4>2. \A q \in Paths : ws'[q] = ws[q] \/ ws'[q] = BaseVersion + edits + 1
        BY <1>0, <4>1 DEF Edit, Tree
      <4>3. g.at <= edits
        <5>1. SafetyRef(journal.target, journal.safety, journal.mode) \in DOMAIN refs
          BY <1>1, CommitsTyped DEF Inv, SafetyRefs
        <5> QED
          BY <2>2, <5>1 DEF FilesInv, EditsSeen, SafetyCommit
      <4>4. BaseVersion + edits + 1 > BaseVersion + g.at
        BY <1>0, <4>3 DEF Commit
      <4> QED
        BY <2>4, <4>2, <4>4 DEF Known
    <3> QED
      BY <3>1, <3>2, <3>3
  <2> QED
    BY <2>3, <2>5 DEF Known
<1>2. CASE journal.phase \notin Settling
  <2>1. WritePlanned
    <3>1. CASE \/ \E c \in Checkpoints, m \in Modes : StartRollback(c, m)
               \/ WriteIntent \/ ClearJournal
      <4>1. journal' = journal \/ journal'.phase \in {"none", "intent"}
        <5>1. CASE \E c \in Checkpoints, m \in Modes : StartRollback(c, m)
          <6>1. journal' = journal \/ journal' = NoJournal
            BY <5>1 DEF StartRollback
          <6> QED
            BY <6>1 DEF NoJournal
        <5>2. CASE WriteIntent
          <6>1. journal'.phase = "intent"
            BY <5>2 DEF WriteIntent
          <6> QED
            BY <6>1
        <5>3. CASE ClearJournal
          <6>1. journal' = NoJournal
            BY <5>3 DEF ClearJournal
          <6> QED
            BY <6>1 DEF NoJournal
        <5> QED
          BY <3>1, <5>1, <5>2, <5>3
      <4> QED
        BY <1>0, <1>2, <4>1 DEF Settling
    <3>2. CASE WriteRestoring \/ WriteRestored
      BY <1>2, <3>2 DEF WriteRestoring, WriteRestored, At, Inv, OpInv, PhaseKnown, Settling
    <3>3. CASE StartResume \/ StartSafety \/ Unresolved \/ SaveSafety \/ SaveGitSafety
      BY <1>2, <3>3 DEF StartResume, StartSafety, Unresolved, SaveSafety, SaveGitSafety
    <3>4. CASE WriteEntry \/ StartDelete \/ DeleteExtra \/ FinishDelete
      BY <1>2, <3>4 DEF WriteEntry, StartDelete, DeleteExtra, FinishDelete
    <3>5. CASE GitReset \/ GitCheckout \/ GitApply \/ AppendEvent \/ DropRefs
      BY <1>2, <3>5 DEF GitReset, GitCheckout, GitApply, AppendEvent, DropRefs
    <3>6. CASE Stop \/ Prune \/ UNCHANGED vars
      BY <1>2, <3>6 DEF Stop, Prune, vars
    <3>7. CASE \/ \E s \in Sessions : DropLogs(s)
               \/ \E p \in Paths : Edit(p)
      BY <1>2, <3>7 DEF DropLogs, Edit
    <3> QED
      BY <3>1, <3>2, <3>3, <3>4, <3>5, <3>6, <3>7 DEF Next, Step
  <2>2. /\ op.pc = "planned" /\ journal.target = op.target /\ journal.mode = op.mode
        /\ journal.phase = "intent"
    BY <2>1 DEF WritePlanned, At, Inv, OpInv, MakingKnows, Making
  <2>3. journal \in Journal
    BY <2>2 DEF Inv, TypeOK, NoJournal
  <2>4. /\ journal'.target = op.target /\ journal'.mode = op.mode /\ journal'.safety = runs
        /\ refs' = refs /\ ws' = ws
    BY <2>1, <2>2, <2>3 DEF WritePlanned, Journal, KeepStore, KeepFiles
  <2>5. PICK g : g = refs[SafetyRef(op.target, runs, op.mode)]
    OBVIOUS
  <2>6. SafetyCommit' = g
    BY <2>4, <2>5 DEF SafetyCommit, SafetyRef, Name
  <2>7. Saved(g)
    BY <2>2, <2>5 DEF FilesInv, SnapshotSaves
  <2> QED
    BY <2>4, <2>6, <2>7 DEF Saved, Known
<1> QED
  BY <1>1, <1>2

LEMMA FilesInit == Init => FilesInv
<1> SUFFICES ASSUME Init PROVE FilesInv
  OBVIOUS
<1>1. EditsSeen
  BY DEF Init, EditsSeen, Captures
<1>2. op.pc = "idle" /\ journal.phase = "none"
  BY DEF Init, Idle, NoJournal
<1> QED
  BY <1>1, <1>2 DEF FilesInv, LeftAllowed, SnapshotSaves, MixtureKnown, Settling

LEMMA FilesStep == Inv /\ FilesInv /\ [Next]_vars => FilesInv'
BY EditsStep, LeftStep, SnapshotStep, MixtureStep DEF FilesInv

\* Whatever a rollback, its recovery, or one that is cut off removes or overwrites in the
\* workspace is in the safety snapshot, in the target or in a commit, or was written
\* after the snapshot, or was ignored: RestoreCommitLocked and workspacegit.Restore
\* destroy nothing else.
THEOREM NothingIsDestroyed == Spec => NothingUnsavedDestroyed
<1> DEFINE Keeps == edits' = edits =>
             \A p \in Paths : ws[p] \notin {ws'[p], Absent} =>
                 \/ ws[p] \in {SafetyCommit.tree[p], TargetCommit.tree[p]}
                                \union {Committed[h][p] : h \in Heads}
                 \/ EditedSince(p)
                 \/ p \in Ignored(SafetyCommit.tree)
<1>1. Inv /\ FilesInv /\ [Next]_vars => [Keeps]_vars
  <2> SUFFICES ASSUME Inv, FilesInv, Next, edits' = edits,
                      NEW p \in Paths, ws[p] \notin {ws'[p], Absent}
               PROVE  \/ ws[p] \in {SafetyCommit.tree[p], TargetCommit.tree[p]}
                                     \union {Committed[h][p] : h \in Heads}
                      \/ EditedSince(p)
                      \/ p \in Ignored(SafetyCommit.tree)
    BY DEF Keeps
  <2>1. ws' # ws
    OBVIOUS
  <2>2. op.pc \in Writing /\ Restores(SafetyCommit, TargetCommit)
    BY <2>1, RestoreStep DEF FilesInv
  <2>3. p \notin Denied
    BY <2>2 DEF Restores
  <2>4. journal.phase \in Settling
    BY <2>2 DEF Inv, OpInv, PhaseKnown, Settling
  <2> QED
    BY <2>3, <2>4 DEF FilesInv, MixtureKnown, Known, EditedSince
<1>2. Spec => [](Inv /\ FilesInv)
  BY InvInit, InvStep, FilesInit, FilesStep, PTL DEF Spec
<1> QED
  BY <1>1, <1>2, PTL DEF Spec, NothingUnsavedDestroyed

----------------------------------------------------------------------------
(* A restore is exact                                                      *)

GitSteps == {"reset", "checkout", "apply"}

\* No file is of a version nobody has written yet.
VersionsPast ==
    /\ \A p \in Paths : ws[p] <= BaseVersion + edits
    /\ \A n \in DOMAIN refs : \A p \in Paths : refs[n].tree[p] <= BaseVersion + edits

\* The operation restores in the mode of the journal, and one that restores the safety
\* snapshot has given the rollback up.
ModeKnown ==
    /\ {op.mode, journal.mode} \subseteq Modes \union {"checkpoint"}
    /\ op.pc \in GitSteps => journal.mode = "workspace-git"
    /\ op.kind = "safety" =>
         op.pc \in Writing \union {"clear"} /\ journal.phase \in Settling /\ journal.safety \in givenUp

\* Commits g, what is restored, and k, the safety snapshot.
Right(p, g, k) == ws[p] = g.tree[p] \/ ws[p] > BaseVersion + k.at

GitRules == UNION {Ignored(Committed[h]) : h \in Heads}

\* Holds, for a commit, a safety snapshot and a mode.
Exact(g, k, m) ==
    ws[RulesFile] = g.tree[RulesFile] =>
        \A p \in Paths \ (Denied \union Ignored(ws)) :
            (m = "workspace-git" => p \notin GitRules) => Right(p, g, k)

\* The files of the commit are written, but for those in S.
Written(S, g, k) == \A p \in Present(g.tree) \ (Denied \union S) : Right(p, g, k)

\* The files outside S have been looked at for deletion: those that come before
\* .gitignore whatever it says, the others if it is now what it is to be.
Removed(S, g, k) ==
    /\ \A p \in Paths \ S, q \in S : p < q
    /\ \A p \in Paths \ (S \union Denied) : p <= RulesFile => Right(p, g, k)
    /\ ws[RulesFile] = g.tree[RulesFile] =>
         \A p \in Paths \ (S \union Denied \union Ignored(ws)) : Right(p, g, k)

\* What is not in HEAD is gone.
Cleaned(k) ==
    \A p \in Paths \ (Denied \union GitRules) :
        ws[p] = Absent \/ Committed[head][p] # Absent \/ ws[p] > BaseVersion + k.at

\* How far an operation is that restores g.
Progress(g, k, m) ==
    /\ op.pc = "write" => Written(op.left, g, k)
    /\ op.pc = "delete" => Written({}, g, k) /\ Removed(op.left, g, k)
    /\ op.pc \in {"checkout", "apply"} => Cleaned(k)
    /\ op.pc = "restored" \/ (op.pc = "clear" /\ op.kind = "safety") => Exact(g, k, m)

ProgressKnown ==
    /\ op.pc \in Writing \union {"restored"} \/ op.kind = "safety" =>
         Progress(Goal, SafetyCommit, journal.mode)
    /\ journal.phase = "restored" /\ journal.safety \notin givenUp =>
         Exact(TargetCommit, SafetyCommit, journal.mode)

RestoreInv == VersionsPast /\ ModeKnown /\ ProgressKnown

LEMMA HoldsExact ==
    ASSUME NEW g PROVE Holds(g) <=> Exact(g, SafetyCommit, journal.mode)
BY DEF Holds, Exact, LeftAlone, EditedSince, Right, GitRules

\* An edit leaves right what was right, and an edited .gitignore is not the commit's.
LEMMA EditKeepsProgress ==
    ASSUME Inv, VersionsPast, NEW p \in Paths, Edit(p),
           NEW g \in Commit, NEW k \in Commit, NEW m, k.at <= edits,
           \A q \in Paths : g.tree[q] <= BaseVersion + edits
    PROVE  /\ \A q \in Paths : Right(q, g, k) => Right(q, g, k)'
           /\ \A S : Written(S, g, k) => Written(S, g, k)'
           /\ \A S : Removed(S, g, k) => Removed(S, g, k)'
           /\ Cleaned(k) => Cleaned(k)'
           /\ Exact(g, k, m) => Exact(g, k, m)'
<1>1. /\ edits \in Nat /\ ws \in Tree /\ k.at \in Nat /\ BaseVersion \in Nat
      /\ g.tree \in Tree /\ RulesFile \in Paths
  BY ConstantsTyped DEF Inv, TypeOK, Commit
<1>2. \A q \in Paths : ws'[q] = IF q = p THEN BaseVersion + edits + 1 ELSE ws[q]
  BY <1>1 DEF Edit, Tree
<1>3. BaseVersion + edits + 1 > BaseVersion + k.at /\ head' = head
  BY <1>1 DEF Edit
<1>4. \A q \in Paths : Right(q, g, k) => Right(q, g, k)'
  BY <1>2, <1>3 DEF Right
<1>5. \A S : Written(S, g, k) => Written(S, g, k)'
  BY <1>4 DEF Written, Present
<1>6. p = RulesFile => ws'[RulesFile] # g.tree[RulesFile]
  <2>1. g.tree[RulesFile] \in Nat /\ g.tree[RulesFile] <= BaseVersion + edits
    BY <1>1, ConstantsTyped DEF Tree
  <2> QED
    BY <1>1, <1>2, <2>1
<1>7. p # RulesFile => ws'[RulesFile] = ws[RulesFile] /\ Ignored(ws') = Ignored(ws)
  BY <1>2 DEF Ignored
<1>8. \A S : Removed(S, g, k) => Removed(S, g, k)'
  BY <1>4, <1>6, <1>7 DEF Removed
<1>9. Cleaned(k) => Cleaned(k)'
  BY <1>2, <1>3 DEF Cleaned, GitRules
<1>10. Exact(g, k, m) => Exact(g, k, m)'
  BY <1>4, <1>6, <1>7 DEF Exact, GitRules
<1> QED
  BY <1>4, <1>5, <1>8, <1>9, <1>10

\* What only depends on the workspace stays while it does.
LEMMA SameFilesProgress ==
    ASSUME ws' = ws, NEW g, NEW k, NEW m
    PROVE  /\ \A S : Written(S, g, k) => Written(S, g, k)'
           /\ \A S : Removed(S, g, k) => Removed(S, g, k)'
           /\ head' = head /\ Cleaned(k) => Cleaned(k)'
           /\ Exact(g, k, m) => Exact(g, k, m)'
<1>1. \A p \in Paths : Right(p, g, k)' <=> Right(p, g, k)
  BY DEF Right
<1>2. \A S : Written(S, g, k) => Written(S, g, k)'
  BY <1>1 DEF Written, Present
<1>3. \A S : Removed(S, g, k) => Removed(S, g, k)'
  BY <1>1 DEF Removed
<1>4. head' = head /\ Cleaned(k) => Cleaned(k)'
  BY DEF Cleaned, GitRules
<1>5. Exact(g, k, m) => Exact(g, k, m)'
  BY <1>1 DEF Exact, GitRules
<1> QED
  BY <1>2, <1>3, <1>4, <1>5

\* restoreCommit writes one file more of the commit.
LEMMA WriteEntryProgress ==
    ASSUME Inv, LeftAllowed, WriteEntry, NEW k, NEW g, g = Goal, Written(op.left, g, k),
           NEW S, S = op'.left
    PROVE  op'.pc = "write" /\ Written(S, g, k)'
<1>0. ws \in Tree /\ op \in Op
  BY DEF Inv, TypeOK, WriteEntry, At, Idle
<1>1. op.pc = "write" /\ op.left # {} /\ op.left \subseteq Paths \ Denied
  BY DEF WriteEntry, At, LeftAllowed
<1>2. PICK p \in op.left : p = First(op.left) /\ p \in Paths
  BY <1>1, FirstIn
<1>3. /\ ws' = [ws EXCEPT ![p] = g.tree[p]]
      /\ op' = [op EXCEPT !.left = op.left \ {p}]
  BY <1>2 DEF WriteEntry
<1>4. op'.pc = "write" /\ op'.left = op.left \ {p}
  BY <1>0, <1>1, <1>3 DEF Op
<1>5. \A q \in Paths : ws'[q] = IF q = p THEN g.tree[p] ELSE ws[q]
  BY <1>0, <1>2, <1>3 DEF Tree
<1> QED
  BY <1>4, <1>5 DEF Written, Right, Present

\* What is passed over while files are deleted is right, or deny-listed, or ignored.
LEMMA PassedOver ==
    ASSUME NEW k, NEW g, g = Goal, Written({}, g, k), NEW p \in op.left \ Extra, p \in Paths,
           p \notin Denied \union Ignored(ws)
    PROVE  Right(p, g, k)
BY DEF Extra, Written, Right, Present

LEMMA DeleteExtraProgress ==
    ASSUME RestoreAssumption, Inv, LeftAllowed, DeleteExtra, NEW k, NEW g \in Commit, g = Goal,
           Written({}, g, k), Removed(op.left, g, k), NEW S, S = op'.left
    PROVE  op'.pc = "delete" /\ Written({}, g, k)' /\ Removed(S, g, k)'
<1>0. /\ ws \in Tree /\ op \in Op /\ Paths \subseteq Nat /\ RulesFile \in Paths \ Denied
  BY DEF Inv, TypeOK, DeleteExtra, At, Idle
<1>1. op.pc = "delete" /\ Extra # {} /\ Extra \subseteq op.left /\ op.left \subseteq Paths
  BY DEF DeleteExtra, At, LeftAllowed, Extra
<1>2. PICK x \in Extra : x = First(Extra) /\ \A q \in Extra : x <= q
  <2>1. \E p \in Extra : \A q \in Extra : p <= q
    BY <1>0, <1>1, FirstNumber
  <2> QED
    BY <2>1 DEF First
<1>3. /\ ws' = [ws EXCEPT ![x] = Absent]
      /\ op' = [op EXCEPT !.left = {q \in op.left : q > x}]
  BY <1>2 DEF DeleteExtra
<1>4. op'.pc = "delete" /\ S = {q \in op.left : q > x}
  BY <1>0, <1>1, <1>3 DEF Op
<1>5. x \in Paths /\ g.tree[x] = Absent
  BY <1>1, <1>2 DEF Extra
<1>6. \A q \in Paths : ws'[q] = IF q = x THEN Absent ELSE ws[q]
  BY <1>0, <1>3, <1>5 DEF Tree
<1>7. \A q \in Paths : q = x \/ Right(q, g, k) => Right(q, g, k)'
  BY <1>5, <1>6 DEF Right
<1>8. Written({}, g, k)'
  BY <1>7 DEF Written, Present
<1>9. ASSUME NEW p \in Paths \ S PROVE p \notin op.left \/ p <= x
  <2>1. p \in Nat /\ x \in Nat
    BY <1>0, <1>5
  <2>2. p \in op.left => ~ (p > x)
    BY <1>4, <1>9
  <2> QED
    BY <2>1, <2>2
<1>10. ASSUME NEW p \in Paths \ S, p # x, p \in op.left PROVE p \in op.left \ Extra
  <2>1. p \in Nat /\ x \in Nat /\ p <= x
    BY <1>0, <1>5, <1>9, <1>10
  <2>2. p \in Extra => x <= p
    BY <1>2
  <2> QED
    BY <1>10, <2>1, <2>2
<1>11. \A p \in Paths \ S, q \in S : p < q
  <2> SUFFICES ASSUME NEW p \in Paths \ S, NEW q \in S PROVE p < q
    OBVIOUS
  <2>1. q \in op.left /\ q \in Nat /\ p \in Nat /\ x \in Nat /\ q > x
    BY <1>0, <1>1, <1>4, <1>5
  <2> QED
    BY <1>9, <2>1 DEF Removed
<1>12. ASSUME NEW p \in Paths \ (S \union Denied), p <= RulesFile
       PROVE  Right(p, g, k)'
  <2>1. p \notin Ignored(ws)
    BY <1>0, <1>12 DEF RestoreAssumption, Ignored, Tree
  <2>2. p \notin op.left => Right(p, g, k)
    BY <1>12 DEF Removed
  <2>3. p \in op.left \ Extra => Right(p, g, k)
    BY <1>12, <2>1, PassedOver
  <2> QED
    BY <1>7, <1>10, <2>2, <2>3
<1>13. ASSUME ws'[RulesFile] = g.tree[RulesFile],
              NEW p \in Paths \ (S \union Denied \union Ignored(ws'))
       PROVE  Right(p, g, k)'
  <2>1. CASE x = RulesFile
    <3>1. p <= RulesFile
      <4>1. p \notin op.left => p < x
        BY <1>1, <1>2 DEF Removed
      <4>2. p \in Nat /\ x \in Nat /\ (p \notin op.left \/ p <= x)
        BY <1>0, <1>5, <1>9
      <4> QED
        BY <2>1, <4>1, <4>2
    <3> QED
      BY <1>12, <3>1
  <2>2. CASE x # RulesFile
    <3>1. ws[RulesFile] = g.tree[RulesFile] /\ Ignored(ws') = Ignored(ws)
      BY <1>0, <1>6, <1>13, <2>2 DEF Ignored
    <3>2. p \notin op.left => Right(p, g, k)
      BY <1>13, <3>1 DEF Removed
    <3>3. p \in op.left \ Extra => Right(p, g, k)
      BY <1>13, <3>1, PassedOver
    <3> QED
      BY <1>7, <1>10, <3>2, <3>3
  <2> QED
    BY <2>1, <2>2
<1> QED
  BY <1>4, <1>8, <1>11, <1>12, <1>13 DEF Removed

LEMMA FinishDeleteProgress ==
    ASSUME Inv, FinishDelete, NEW k, NEW g, g = Goal, NEW m,
           Written({}, g, k), Removed(op.left, g, k)
    PROVE  Exact(g, k, m)
BY PassedOver DEF FinishDelete, Exact, Removed

\* A reset takes the rules of HEAD, so what git clean leaves is in HEAD or named by them.
LEMMA GitResetProgress ==
    ASSUME RestoreAssumption, Inv, GitReset, "workspace-git" \in Modes, NEW k
    PROVE  op'.pc = "checkout" /\ Cleaned(k)'
<1>0. /\ ws \in Tree /\ op \in Op /\ head \in Heads /\ RulesFile \in Paths \ Denied
  BY DEF Inv, TypeOK, GitReset, At, Idle
<1>1. op.pc = "reset" /\ op'.pc = "checkout" /\ head' = head /\ ws' = GitFiles
  BY <1>0 DEF GitReset, At, Goto, Op
<1> DEFINE t == ResetTo(head, head)
           keep == Denied \union Ignored(t) \union Present(Committed[head])
<1>2. GitFiles = [p \in Paths |-> IF p \in keep THEN t[p] ELSE Absent]
  BY <1>1, Zenon DEF GitFiles, At
<1>3. \A p \in Paths \ Denied : p \in Present(Committed[head]) => t[p] = Committed[head][p]
  BY DEF ResetTo, Present
<1>4. t[RulesFile] = Committed[head][RulesFile]
  BY <1>0, <1>3 DEF RestoreAssumption, Present
<1>5. Ignored(t) \subseteq GitRules
  BY <1>0, <1>4 DEF Ignored, GitRules
<1> HIDE DEF t
<1>6. \A p \in Paths \ (Denied \union GitRules) :
          ws'[p] = Absent \/ p \in Present(Committed[head])
  BY <1>1, <1>2, <1>5
<1> QED
  BY <1>1, <1>6 DEF Cleaned, Present, GitRules

LEMMA GitCheckoutProgress ==
    ASSUME Inv, GitCheckout, NEW k, Cleaned(k)
    PROVE  op'.pc = "apply" /\ Cleaned(k)'
<1>0. op \in Op /\ op.pc = "checkout"
  BY DEF Inv, TypeOK, GitCheckout, At, Idle
<1>1. op'.pc = "apply" /\ head' = Goal.head /\ ws' = ResetTo(Goal.head, head)
  BY <1>0 DEF GitCheckout, GitFiles, At, Goto, Op
<1> QED
  BY <1>1 DEF Cleaned, ResetTo, GitRules

LEMMA GitApplyProgress ==
    ASSUME Inv, GitApply, NEW k, NEW g, g = Goal, Cleaned(k)
    PROVE  Exact(g, k, "workspace-git")'
<1>1. ws' = [p \in Paths |-> IF p \in Denied \/ (g.tree[p] = Absent /\ Committed[head][p] = Absent)
                             THEN ws[p] ELSE g.tree[p]]
  BY DEF GitApply, GitFiles, At
<1> QED
  BY <1>1 DEF Exact, Right, Cleaned, GitRules, Absent

\* The commits of a pending rollback are in the store.
LEMMA CommitsThere ==
    ASSUME RestoreAssumption, Inv, EditsSeen, VersionsPast, journal.phase \in Settling
    PROVE  /\ SafetyCommit \in Commit /\ TargetCommit \in Commit
           /\ SafetyCommit.at <= edits
           /\ \A p \in Paths : /\ SafetyCommit.tree[p] <= BaseVersion + edits
                               /\ TargetCommit.tree[p] <= BaseVersion + edits
<1>1. SafetyCommit \in Commit /\ TargetCommit \in Commit /\ journal \in Journal
  BY CommitsTyped DEF Inv
<1>2. SafetyRef(journal.target, journal.safety, journal.mode) \in DOMAIN refs
  BY CommitsTyped DEF Inv, SafetyRefs
<1>3. SafetyCommit.at <= edits /\ \A p \in Paths : SafetyCommit.tree[p] <= BaseVersion + edits
  BY <1>2 DEF EditsSeen, VersionsPast, SafetyCommit
<1>4. TargetCommit.tree = TreeOf[journal.target] /\ journal.target \in Checkpoints
  BY <1>1 DEF TargetCommit, Captures, Journal
<1>5. ASSUME NEW p \in Paths PROVE TargetCommit.tree[p] <= BaseVersion + edits
  <2>1. TargetCommit.tree[p] \in Nat /\ BaseVersion \in Nat /\ edits \in Nat
    <3>1. 0 .. MaxVersion \subseteq Nat
      BY ConstantsTyped
    <3> QED
      BY <1>1, <3>1 DEF Commit, Tree, Inv, TypeOK
  <2>2. TargetCommit.tree[p] <= BaseVersion
    BY <1>4 DEF RestoreAssumption
  <2> QED
    BY <2>1, <2>2
<1> QED
  BY <1>1, <1>3, <1>5

LEMMA VersionsStep ==
    ASSUME RestoreAssumption, Inv, FilesInv, VersionsPast, [Next]_vars
    PROVE  VersionsPast'
<1>0. /\ ws \in Tree /\ edits \in Nat /\ BaseVersion \in Nat
      /\ \A p \in Paths : ws[p] \in Nat
      /\ \A n \in DOMAIN refs : \A p \in Paths : refs[n].tree[p] \in Nat
  <2>1. 0 .. MaxVersion \subseteq Nat
    BY ConstantsTyped
  <2> QED
    BY <2>1, ConstantsTyped DEF Inv, TypeOK, Tree, Commit
<1>1. edits' = edits \/ edits' = edits + 1
  BY RefsStep
<1>2. \A n \in DOMAIN refs' : \A p \in Paths : refs'[n].tree[p] <= BaseVersion + edits
  <2>1. \A p \in Paths : Snapshot.tree[p] <= BaseVersion + edits
    BY <1>0 DEF Snapshot, Captured, VersionsPast, Absent
  <2> QED
    BY <2>1, RefsStep DEF VersionsPast
<1>3. \A n \in DOMAIN refs' : \A p \in Paths : refs'[n].tree[p] <= BaseVersion + edits'
  <2> SUFFICES ASSUME NEW n \in DOMAIN refs', NEW p \in Paths
               PROVE  refs'[n].tree[p] <= BaseVersion + edits'
    OBVIOUS
  <2>1. refs'[n].tree[p] \in Nat
    <3>1. refs'[n] \in Commit /\ 0 .. MaxVersion \subseteq Nat
      BY InvStep, ConstantsTyped DEF Inv, TypeOK
    <3> QED
      BY <3>1 DEF Commit, Tree
  <2>2. refs'[n].tree[p] <= BaseVersion + edits
    BY <1>2
  <2> QED
    BY <1>0, <1>1, <2>1, <2>2
<1>4. CASE ws' = ws
  <2>1. ASSUME NEW p \in Paths PROVE ws'[p] <= BaseVersion + edits'
    <3>1. ws'[p] \in Nat /\ ws'[p] <= BaseVersion + edits
      BY <1>0, <1>4 DEF VersionsPast
    <3> QED
      BY <1>0, <1>1, <3>1
  <2> QED
    BY <1>3, <2>1 DEF VersionsPast
<1>5. CASE ws' # ws /\ edits' = edits
  <2>1. op.pc \in Writing /\ Restores(SafetyCommit, TargetCommit)
    BY <1>5, RestoreStep DEF FilesInv, vars
  <2>2. journal.phase \in Settling
    BY <2>1 DEF Inv, OpInv, PhaseKnown, Settling
  <2>3. \A p \in Paths : /\ SafetyCommit.tree[p] <= BaseVersion + edits
                         /\ TargetCommit.tree[p] <= BaseVersion + edits
    BY <2>2, CommitsThere DEF FilesInv
  <2>4. \A p \in Paths, h \in Heads : Committed[h][p] <= BaseVersion + edits
    <3>1. \A p \in Paths, h \in Heads : Committed[h][p] \in Nat /\ Committed[h][p] <= BaseVersion
      <4>1. 0 .. MaxVersion \subseteq Nat
        BY ConstantsTyped
      <4> QED
        BY <4>1 DEF RestoreAssumption, Tree
    <3>2. \A n \in Nat : n <= BaseVersion => n <= BaseVersion + edits
      BY <1>0
    <3> QED
      BY <3>1, <3>2
  <2>5. \A p \in Paths : ws'[p] <= BaseVersion + edits
    BY <1>0, <2>1, <2>3, <2>4 DEF Restores, VersionsPast, Absent
  <2> QED
    BY <1>3, <1>5, <2>5 DEF VersionsPast
<1>6. CASE edits' # edits
  <2>1. PICK p \in Paths : Edit(p)
    BY <1>6, RefsStep
  <2>2. edits' = edits + 1 /\ \A q \in Paths : ws'[q] = ws[q] \/ ws'[q] = BaseVersion + edits + 1
    BY <1>0, <2>1 DEF Edit, Tree
  <2>3. \A q \in Paths : ws'[q] <= BaseVersion + edits'
    BY <1>0, <2>2 DEF VersionsPast
  <2> QED
    BY <1>3, <2>3 DEF VersionsPast
<1> QED
  BY <1>4, <1>5, <1>6

LEMMA ModeStep ==
    ASSUME Inv, ModeKnown, [Next]_vars
    PROVE  ModeKnown'
<1>0. /\ op \in Op \union {Idle} /\ Idle.pc = "idle" /\ Idle.kind = "none"
      /\ Idle.mode = "checkpoint" /\ NoJournal.mode = "checkpoint" /\ NoJournal.phase = "none"
      /\ journal \in Journal \union {NoJournal}
  BY DEF Inv, TypeOK, Idle, NoJournal
<1>1. CASE \/ \E c \in Checkpoints, m \in Modes : StartRollback(c, m)
           \/ StartResume \/ \E s \in Sessions : DropLogs(s)
  <2>1. /\ op'.mode \in Modes \union {"checkpoint"} /\ op'.kind # "safety"
        /\ op'.pc \notin GitSteps
    BY <1>1 DEF StartRollback, StartResume, DropLogs, Idle, GitSteps
  <2>2. journal' = journal \/ journal' = NoJournal
    BY <1>1 DEF StartRollback, StartResume, DropLogs
  <2> QED
    BY <1>0, <2>1, <2>2 DEF ModeKnown
<1>2. CASE StartSafety
  <2>1. journal.phase \in Settling
    BY <1>0, <1>2 DEF StartSafety, Inv, OpInv, SafetyNamed, Journal, NoJournal, Phases, Settling
  <2>2. /\ op'.mode = "checkpoint" /\ journal' = journal /\ journal.safety \in givenUp'
        /\ op'.pc = IF journal.mode = "workspace-git" THEN "reset" ELSE "write"
    BY <1>2 DEF StartSafety, Idle
  <2> QED
    BY <2>1, <2>2 DEF ModeKnown, Writing, GitSteps
<1>3. CASE WriteIntent \/ WritePlanned \/ WriteRestoring \/ WriteRestored
  <2>1. op \in Op /\ op.kind # "safety"
    BY <1>0, <1>3
    DEF WriteIntent, WritePlanned, WriteRestoring, WriteRestored, At, Inv, OpInv, MakingKnows,
        PhaseKnown, Making
  <2>2. journal'.mode = IF WriteIntent THEN op.mode ELSE journal.mode
    <3>1. CASE WriteIntent
      BY <3>1 DEF WriteIntent
    <3>2. CASE ~ WriteIntent
      <4>1. journal \in Journal
        BY <1>0, <1>3, <3>2
        DEF WritePlanned, WriteRestoring, WriteRestored, At, Inv, OpInv, MakingKnows,
            PhaseKnown, Making
      <4> QED
        BY <1>3, <3>2, <4>1 DEF WritePlanned, WriteRestoring, WriteRestored, WriteJournal, Journal
    <3> QED
      BY <3>1, <3>2
  <2>3. /\ op'.mode = op.mode /\ op'.kind = op.kind
        /\ op'.pc \in GitSteps => journal.mode = "workspace-git" /\ WriteRestoring
    BY <1>3, <2>1
    DEF WriteIntent, WritePlanned, WriteRestoring, WriteRestored, Begin, Goto, Op, GitSteps
  <2>4. WriteRestoring => ~ WriteIntent
    BY DEF WriteRestoring, WriteIntent, At
  <2> QED
    BY <2>1, <2>2, <2>3, <2>4 DEF ModeKnown
<1>4. CASE \/ SaveSafety \/ SaveGitSafety \/ WriteEntry \/ StartDelete \/ DeleteExtra \/ FinishDelete
           \/ GitReset \/ GitCheckout \/ GitApply \/ AppendEvent
  <2>1. op \in Op
    BY <1>0, <1>4
    DEF SaveSafety, SaveGitSafety, WriteEntry, StartDelete, DeleteExtra, FinishDelete, GitReset,
        GitCheckout, GitApply, AppendEvent, At
  <2>2. journal' = journal /\ givenUp' = givenUp
    BY <1>4
    DEF SaveSafety, SaveGitSafety, WriteEntry, StartDelete, DeleteExtra, FinishDelete, GitReset,
        GitCheckout, GitApply, AppendEvent, KeepBounds
  <2>3. op'.kind = op.kind /\ op'.mode = op.mode
    BY <1>4, <2>1
    DEF SaveSafety, SaveGitSafety, WriteEntry, StartDelete, DeleteExtra, FinishDelete, GitReset,
        GitCheckout, GitApply, AppendEvent, Goto, Op
  <2>4. op'.pc \in GitSteps => op.pc \in GitSteps
    BY <1>4, <2>1
    DEF SaveSafety, SaveGitSafety, WriteEntry, StartDelete, DeleteExtra, FinishDelete, GitReset,
        GitCheckout, GitApply, AppendEvent, Goto, Op, GitSteps, At, Restored
  <2>5. op.kind = "safety" => op'.pc \in Writing \union {"clear"}
    BY <1>4, <2>1
    DEF SaveSafety, SaveGitSafety, WriteEntry, StartDelete, DeleteExtra, FinishDelete, GitReset,
        GitCheckout, GitApply, AppendEvent, Goto, Op, At, Restored, ModeKnown, Writing
  <2> QED
    BY <2>2, <2>3, <2>4, <2>5 DEF ModeKnown
<1>5. CASE ClearJournal
  <2>1. op.pc = "clear" /\ journal' = NoJournal /\ op \in Op
    BY <1>0, <1>5 DEF ClearJournal, At
  <2>2. op' = Idle \/ (op' = [op EXCEPT !.pc = "intent"] /\ op.own = FALSE)
    <3>1. op.own \in BOOLEAN
      BY <2>1 DEF Op
    <3>2. CASE op.own
      BY <1>5, <3>2 DEF ClearJournal
    <3>3. CASE ~ op.own
      BY <1>5, <3>1, <3>3 DEF ClearJournal
    <3> QED
      BY <3>2, <3>3
  <2>3. op.own = FALSE => op.kind # "safety"
    BY <2>1 DEF Inv, OpInv, PhaseKnown
  <2>4. op'.mode \in Modes \union {"checkpoint"} /\ op'.kind # "safety" /\ op'.pc \notin GitSteps
    <3>1. CASE op' = Idle
      BY <1>0, <3>1 DEF GitSteps
    <3>2. CASE op' = [op EXCEPT !.pc = "intent"] /\ op.own = FALSE
      BY <2>1, <2>3, <3>2 DEF GitSteps, Op, ModeKnown
    <3> QED
      BY <2>2, <3>1, <3>2
  <2> QED
    BY <1>0, <2>1, <2>4 DEF ModeKnown
<1>6. CASE Unresolved \/ Stop \/ DropRefs
  <2>1. op' = Idle /\ journal' = journal
    BY <1>6 DEF Unresolved, Stop, DropRefs
  <2> QED
    BY <1>0, <2>1 DEF ModeKnown, GitSteps
<1>7. CASE Prune \/ (\E p \in Paths : Edit(p)) \/ UNCHANGED vars
  <2>1. op' = op /\ journal' = journal /\ givenUp' = givenUp
    BY <1>7 DEF Prune, Edit, vars, KeepBounds
  <2> QED
    BY <2>1 DEF ModeKnown
<1> QED
  BY <1>1, <1>2, <1>3, <1>4, <1>5, <1>6, <1>7 DEF Next, Step

\* An operation that restores goes on from where it is, or is over.
LEMMA ProgressStays ==
    ASSUME Inv, FilesInv, RestoreAssumption, RestoreInv, [Next]_vars,
           op.pc \in Writing \union {"restored"} \/ op.kind = "safety",
           op'.pc \in Writing \union {"restored"} \/ op'.kind = "safety",
           NEW g \in Commit, g = Goal, NEW k \in Commit, k = SafetyCommit,
           NEW m, m = journal.mode
    PROVE  Progress(g, k, m)'
<1>0. /\ op \in Op \union {Idle} /\ Idle.pc = "idle" /\ Idle.kind = "none"
      /\ Progress(g, k, m) /\ ModeKnown'
  BY ModeStep DEF Inv, TypeOK, Idle, RestoreInv, ProgressKnown
<1>1. op \in Op /\ op.pc \in Writing \union {"restored", "clear"}
  BY <1>0 DEF RestoreInv, ModeKnown, Writing
<1>2. CASE WriteEntry
  <2>1. PICK S : S = op'.left
    OBVIOUS
  <2>2. op.pc = "write" /\ Written(op.left, g, k)
    BY <1>0, <1>2 DEF WriteEntry, At, Progress
  <2>3. op'.pc = "write" /\ Written(S, g, k)'
    BY <1>2, <2>1, <2>2, WriteEntryProgress DEF FilesInv
  <2> QED
    BY <2>1, <2>3 DEF Progress, Written, Present, Right
<1>3. CASE StartDelete
  <2>1. op.pc = "write" /\ op.left = {} /\ ws' = ws
    BY <1>3 DEF StartDelete, At, KeepFiles
  <2>2. op'.pc = "delete" /\ op'.left = Paths
    BY <1>1, <1>3 DEF StartDelete, Op
  <2>3. Written({}, g, k)'
    BY <1>0, <2>1, SameFilesProgress DEF Progress
  <2>4. \A S : S = Paths => Removed(S, g, k)'
    BY DEF Removed
  <2> QED
    BY <2>2, <2>3, <2>4 DEF Progress, Removed, Right
<1>4. CASE DeleteExtra
  <2>1. PICK S : S = op'.left
    OBVIOUS
  <2>2. op.pc = "delete" /\ Written({}, g, k) /\ Removed(op.left, g, k)
    BY <1>0, <1>4 DEF DeleteExtra, At, Progress
  <2>3. op'.pc = "delete" /\ Written({}, g, k)' /\ Removed(S, g, k)'
    BY <1>4, <2>1, <2>2, DeleteExtraProgress DEF FilesInv
  <2> QED
    BY <2>1, <2>3 DEF Progress, Removed, Right
<1>5. CASE FinishDelete
  <2>1. op.pc = "delete" /\ Written({}, g, k) /\ Removed(op.left, g, k) /\ ws' = ws
    BY <1>0, <1>5 DEF FinishDelete, At, Progress, KeepFiles
  <2>2. Exact(g, k, m)
    BY <1>5, <2>1, FinishDeleteProgress
  <2>3. op'.pc \in {"restored", "clear"}
    BY <1>1, <1>5 DEF FinishDelete, Restored, Op
  <2> QED
    BY <2>1, <2>2, <2>3, SameFilesProgress DEF Progress
<1>6. CASE GitReset \/ GitCheckout \/ GitApply
  <2>1. op.pc \in GitSteps
    BY <1>6 DEF GitReset, GitCheckout, GitApply, At, GitSteps
  <2>2. m = "workspace-git" /\ "workspace-git" \in Modes
    BY <2>1 DEF RestoreInv, ModeKnown
  <2>3. CASE GitReset
    BY <2>2, <2>3, GitResetProgress DEF Progress
  <2>4. CASE GitCheckout
    <3>1. Cleaned(k)
      BY <1>0, <2>4 DEF GitCheckout, At, Progress
    <3> QED
      BY <2>4, <3>1, GitCheckoutProgress DEF Progress
  <2>5. CASE GitApply
    <3>1. Cleaned(k)
      BY <1>0, <2>5 DEF GitApply, At, Progress
    <3>2. op'.pc \in {"restored", "clear"}
      BY <1>1, <2>5 DEF GitApply, Restored, Op
    <3> QED
      BY <2>2, <2>5, <3>1, <3>2, GitApplyProgress DEF Progress
  <2> QED
    BY <1>6, <2>3, <2>4, <2>5
<1>7. ASSUME NEW p \in Paths, Edit(p) PROVE Progress(g, k, m)'
  <2>1. op' = op
    BY <1>7 DEF Edit
  <2>2. journal.phase \in Settling
    BY <1>1 DEF Inv, OpInv, PhaseKnown, Settling, RestoreInv, ModeKnown
  <2>3. k.at <= edits /\ \A q \in Paths : g.tree[q] <= BaseVersion + edits
    BY <2>2, CommitsThere DEF FilesInv, RestoreInv, Goal
  <2>4. /\ \A S : Written(S, g, k) => Written(S, g, k)'
        /\ \A S : Removed(S, g, k) => Removed(S, g, k)'
        /\ Cleaned(k) => Cleaned(k)'
        /\ Exact(g, k, m) => Exact(g, k, m)'
    BY <1>7, <2>3, EditKeepsProgress DEF RestoreInv
  <2>5. PICK S : S = op.left
    OBVIOUS
  <2>6. /\ op.pc = "write" => Written(S, g, k)'
        /\ op.pc = "delete" => Written({}, g, k)' /\ Removed(S, g, k)'
        /\ op.pc \in {"checkout", "apply"} => Cleaned(k)'
        /\ op.pc = "restored" \/ (op.pc = "clear" /\ op.kind = "safety") => Exact(g, k, m)'
    BY <1>0, <2>4, <2>5 DEF Progress
  <2> QED
    BY <2>1, <2>5, <2>6 DEF Progress, Written, Removed, Right, Present
<1>8. CASE UNCHANGED vars
  <2>1. op' = op /\ ws' = ws /\ head' = head
    BY <1>8 DEF vars
  <2> QED
    BY <1>0, <2>1 DEF Progress, Written, Removed, Cleaned, Exact, Right, Present, Ignored, GitRules
<1>9. CASE \/ WriteRestored \/ AppendEvent \/ ClearJournal
  <2>1. op'.pc \in {"append", "clear", "idle", "intent"}
    BY <1>0, <1>1, <1>9 DEF WriteRestored, AppendEvent, ClearJournal, Goto, Op
  <2>2. AppendEvent \/ op'.pc \in {"append", "idle", "intent"}
    BY <1>0, <1>1, <1>9 DEF WriteRestored, ClearJournal, Goto, Op
  <2>3. ~ AppendEvent
    BY <1>1 DEF AppendEvent, At, Writing
  <2> QED
    BY <1>0, <2>2, <2>3 DEF ModeKnown, Writing
<1>10. CASE \/ WriteIntent \/ Unresolved \/ SaveSafety \/ SaveGitSafety \/ WritePlanned
            \/ WriteRestoring \/ DropRefs
  BY <1>1, <1>10
  DEF WriteIntent, Unresolved, SaveSafety, SaveGitSafety, WritePlanned, WriteRestoring, DropRefs,
      At, Writing
<1>11. CASE \/ \E c \in Checkpoints, n \in Modes : StartRollback(c, n)
            \/ StartResume \/ StartSafety \/ Prune \/ \E s \in Sessions : DropLogs(s)
  BY <1>0, <1>1, <1>11
  DEF StartRollback, StartResume, StartSafety, Prune, DropLogs, IsIdle, Writing
<1>12. CASE Stop
  <2>1. op'.pc = "idle" /\ op'.kind = "none"
    BY <1>0, <1>12 DEF Stop
  <2> QED
    BY <2>1 DEF Writing
<1> QED
  BY <1>2, <1>3, <1>4, <1>5, <1>6, <1>7, <1>8, <1>9, <1>10, <1>11, <1>12 DEF Next, Step

\* An operation that begins to restore has done nothing yet.
LEMMA ProgressBegins ==
    ASSUME Inv, ModeKnown, StartSafety \/ WriteRestoring
    PROVE  ProgressKnown'
<1>0. op \in Op \union {Idle} /\ Idle.pc = "idle" /\ journal \in Journal \union {NoJournal}
  BY DEF Inv, TypeOK, Idle
<1>1. [Next]_vars
  BY DEF Next, Step
<1>2. journal.phase \in Settling
  BY <1>0 DEF StartSafety, WriteRestoring, At, Inv, OpInv, SafetyNamed, PhaseKnown, Journal,
              NoJournal, Phases, Settling
<1>3. journal \in Journal
  BY <1>0, <1>2 DEF NoJournal, Settling
<1>4. /\ journal'.phase \in Settling
      /\ journal'.phase = "restored" => journal'.safety \in givenUp'
  BY <1>2, <1>3 DEF StartSafety, WriteRestoring, WriteJournal, Journal, Settling
<1>5. SafetyCommit' = SafetyCommit /\ TargetCommit' = TargetCommit
  BY <1>1, <1>2, <1>4, CommitsKept
<1>6. PICK g : g = Goal'
  OBVIOUS
<1>7. op'.pc = "reset" \/ (op'.pc = "write" /\ op'.left = Present(g.tree) \ Denied)
  <2>1. CASE StartSafety
    BY <1>5, <1>6, <2>1 DEF StartSafety, Goal, Idle
  <2>2. CASE WriteRestoring
    <3>1. op \in Op /\ op.kind # "safety"
      BY <1>0, <2>2 DEF WriteRestoring, At, ModeKnown, Writing
    <3> QED
      BY <1>5, <1>6, <2>2, <3>1 DEF WriteRestoring, Begin, Goal, Op
  <2> QED
    BY <2>1, <2>2
<1>8. PICK k, m : k = SafetyCommit' /\ m = journal'.mode
  OBVIOUS
<1>9. Progress(g, k, m)'
  BY <1>7 DEF Progress, Written, Present
<1> QED
  BY <1>4, <1>6, <1>8, <1>9
  DEF ProgressKnown, Progress, Written, Removed, Cleaned, Exact, Right, Present

\* Who writes the journal.
LEMMA JournalWritten ==
    ASSUME [Next]_vars, journal' # journal
    PROVE  \/ WriteIntent \/ WritePlanned \/ WriteRestoring \/ WriteRestored
           \/ journal' = NoJournal
<1>1. CASE \E c \in Checkpoints, n \in Modes : StartRollback(c, n)
  BY <1>1 DEF StartRollback
<1>2. CASE ClearJournal
  BY <1>2 DEF ClearJournal
<1>3. CASE StartResume \/ StartSafety \/ Unresolved \/ SaveSafety \/ SaveGitSafety
  BY <1>3 DEF StartResume, StartSafety, Unresolved, SaveSafety, SaveGitSafety
<1>4. CASE WriteEntry \/ StartDelete \/ DeleteExtra \/ FinishDelete
  BY <1>4 DEF WriteEntry, StartDelete, DeleteExtra, FinishDelete
<1>5. CASE GitReset \/ GitCheckout \/ GitApply \/ AppendEvent \/ DropRefs
  BY <1>5 DEF GitReset, GitCheckout, GitApply, AppendEvent, DropRefs
<1>6. CASE Stop \/ Prune \/ UNCHANGED vars
  BY <1>6 DEF Stop, Prune, vars
<1>7. CASE \/ \E s \in Sessions : DropLogs(s)
           \/ \E p \in Paths : Edit(p)
  BY <1>7 DEF DropLogs, Edit
<1> QED
  BY <1>1, <1>2, <1>3, <1>4, <1>5, <1>6, <1>7 DEF Next, Step

\* Only WriteRestored says restored.
LEMMA WhoSaysRestored ==
    ASSUME Inv, [Next]_vars, journal' # journal, journal'.phase = "restored"
    PROVE  WriteRestored
<1>1. ~ WriteIntent /\ journal' # NoJournal
  BY DEF WriteIntent, NoJournal
<1>2. ASSUME WritePlanned \/ WriteRestoring PROVE FALSE
  <2>1. journal \in Journal
    BY <1>2 DEF WritePlanned, WriteRestoring, At, Inv, TypeOK, OpInv, MakingKnows, PhaseKnown,
                Making, NoJournal
  <2> QED
    BY <1>2, <2>1 DEF WritePlanned, WriteRestoring, WriteJournal, Journal
<1> QED
  BY <1>1, <1>2, JournalWritten

\* A journal says restored of what is restored.
LEMMA RestoredStays ==
    ASSUME Inv, FilesInv, RestoreAssumption, RestoreInv, [Next]_vars,
           journal'.phase = "restored", journal'.safety \notin givenUp'
    PROVE  Exact(TargetCommit, SafetyCommit, journal.mode)'
<1>0. givenUp \subseteq givenUp'
  <2>1. CASE StartSafety
    BY <2>1 DEF StartSafety
  <2>2. CASE ~ StartSafety
    <3>1. givenUp' = givenUp
      BY <2>2
      DEF Next, Step, StartRollback, StartResume, WriteIntent, Unresolved, SaveSafety,
          SaveGitSafety, WritePlanned, WriteRestoring, WriteEntry, StartDelete, DeleteExtra,
          FinishDelete, GitReset, GitCheckout, GitApply, WriteRestored, AppendEvent,
          ClearJournal, DropRefs, Stop, Prune, DropLogs, Edit, KeepBounds, vars
    <3> QED
      BY <3>1
  <2> QED
    BY <2>1, <2>2
<1>1. journal.phase \in Settling
  <2>1. CASE journal' = journal
    BY <2>1 DEF Settling
  <2>2. CASE journal' # journal
    <3>1. WriteRestored
      BY <2>2, WhoSaysRestored
    <3> QED
      BY <3>1 DEF WriteRestored, At, Inv, OpInv, PhaseKnown, Settling
  <2> QED
    BY <2>1, <2>2
<1>2. journal'.phase \in Settling
  BY DEF Settling
<1>3. PICK g \in Commit, k \in Commit : g = TargetCommit /\ k = SafetyCommit
  BY <1>1, CommitsTyped DEF Inv
<1>4. PICK m : m = journal.mode
  OBVIOUS
<1>5. TargetCommit' = g /\ SafetyCommit' = k
  BY <1>1, <1>2, <1>3, CommitsKept
<1>6. journal'.mode = m /\ journal'.safety = journal.safety
  BY <1>1, <1>2, <1>4, JournalStep DEF ClearJournal, NoJournal, Settling
<1>7. /\ k.at <= edits /\ \A q \in Paths : g.tree[q] <= BaseVersion + edits
  BY <1>1, <1>3, CommitsThere DEF FilesInv, RestoreInv
<1>8. journal.safety \notin givenUp
  BY <1>0, <1>6
<1>9. CASE journal.phase = "restored"
  <2>1. Exact(g, k, m)
    BY <1>3, <1>4, <1>8, <1>9 DEF RestoreInv, ProgressKnown
  <2>2. op.pc \notin Writing
    <3>1. op.kind # "safety"
      BY <1>8 DEF RestoreInv, ModeKnown
    <3> QED
      BY <1>9, <3>1 DEF Inv, OpInv, PhaseKnown
  <2>3. Exact(g, k, m)'
    <3>1. CASE ws' = ws
      BY <2>1, <3>1, SameFilesProgress
    <3>2. CASE ws' # ws /\ edits' = edits
      BY <2>2, <3>2, RestoreStep DEF FilesInv, vars
    <3>3. CASE edits' # edits
      BY <1>7, <2>1, <3>3, RefsStep, EditKeepsProgress DEF RestoreInv
    <3> QED
      BY <3>1, <3>2, <3>3
  <2> QED
    BY <1>5, <1>6, <2>3 DEF Exact, Right
<1>10. CASE journal.phase # "restored"
  <2>1. WriteRestored
    BY <1>10, WhoSaysRestored
  <2>2. op.pc = "restored" /\ ws' = ws
    BY <2>1 DEF WriteRestored, At, KeepFiles
  <2>3. op.kind # "safety"
    BY <2>2 DEF Inv, OpInv, PhaseKnown
  <2>4. Exact(g, k, m)
    BY <1>3, <1>4, <2>2, <2>3 DEF RestoreInv, ProgressKnown, Progress, Goal
  <2>5. Exact(g, k, m)'
    BY <2>2, <2>4, SameFilesProgress
  <2> QED
    BY <1>5, <1>6, <2>5 DEF Exact, Right
<1> QED
  BY <1>9, <1>10

\* A restore begins by StartSafety or WriteRestoring, and is one operation.
LEMMA WhoRestores ==
    ASSUME Inv, ModeKnown, ModeKnown', [Next]_vars, ~ StartSafety, ~ WriteRestoring,
           op'.pc \in Writing \union {"restored"} \/ op'.kind = "safety"
    PROVE  /\ op.pc \in Writing \union {"restored"} \/ op.kind = "safety"
           /\ op'.kind = op.kind
<1>0. /\ op \in Op \union {Idle} /\ Idle.pc = "idle" /\ Idle.kind = "none"
      /\ op'.pc \in Writing \union {"restored"} \/ (op'.kind = "safety" /\ op'.pc = "clear")
  BY DEF Inv, TypeOK, Idle, ModeKnown
<1>1. CASE WriteEntry \/ StartDelete \/ DeleteExtra \/ FinishDelete \/ GitReset \/ GitCheckout
           \/ GitApply
  <2>1. op \in Op /\ op.pc \in Writing
    BY <1>0, <1>1
    DEF WriteEntry, StartDelete, DeleteExtra, FinishDelete, GitReset, GitCheckout, GitApply, At,
        Writing
  <2> QED
    BY <1>1, <2>1
    DEF WriteEntry, StartDelete, DeleteExtra, FinishDelete, GitReset, GitCheckout, GitApply,
        Goto, Op
<1>2. CASE Prune \/ (\E p \in Paths : Edit(p)) \/ UNCHANGED vars
  <2>1. op' = op
    BY <1>2 DEF Prune, Edit, vars
  <2> QED
    BY <1>0, <2>1
<1>3. CASE \/ WriteIntent \/ SaveSafety \/ SaveGitSafety \/ WritePlanned \/ WriteRestored
           \/ AppendEvent
  <2>1. op \in Op /\ op.pc \notin Writing \union {"clear"}
    BY <1>0, <1>3
    DEF WriteIntent, SaveSafety, SaveGitSafety, WritePlanned, WriteRestored, AppendEvent, At,
        Writing
  <2>2. op'.kind = op.kind /\ op'.pc \notin Writing \union {"restored"}
    BY <1>3, <2>1
    DEF WriteIntent, SaveSafety, SaveGitSafety, WritePlanned, WriteRestored, AppendEvent, Goto, Op,
        Writing
  <2> QED
    BY <1>0, <2>1, <2>2 DEF ModeKnown
<1>4. CASE ClearJournal
  <2>1. op \in Op /\ op'.pc \in {"idle", "intent"}
    <3>1. op \in Op
      BY <1>0, <1>4 DEF ClearJournal, At
    <3> QED
      BY <1>0, <1>4, <3>1 DEF ClearJournal, Op
  <2> QED
    BY <1>0, <2>1 DEF Writing
<1>5. CASE Unresolved \/ Stop \/ DropRefs
  <2>1. op' = Idle
    BY <1>5 DEF Unresolved, Stop, DropRefs
  <2> QED
    BY <1>0, <2>1 DEF Writing
<1>6. CASE \/ \E c \in Checkpoints, m \in Modes : StartRollback(c, m)
           \/ StartResume \/ \E s \in Sessions : DropLogs(s)
  <2>1. CASE \E c \in Checkpoints, m \in Modes : StartRollback(c, m)
    BY <1>0, <2>1 DEF StartRollback, Idle, Writing
  <2>2. CASE StartResume
    BY <1>0, <2>2 DEF StartResume, Idle, Writing
  <2>3. CASE \E s \in Sessions : DropLogs(s)
    BY <1>0, <2>3 DEF DropLogs, Idle, Writing
  <2> QED
    BY <1>6, <2>1, <2>2, <2>3
<1> QED
  BY <1>1, <1>2, <1>3, <1>4, <1>5, <1>6 DEF Next, Step

LEMMA RestoreInit == RestoreAssumption /\ Init => RestoreInv
<1> SUFFICES ASSUME RestoreAssumption, Init PROVE RestoreInv
  OBVIOUS
<1>0. edits = 0 /\ BaseVersion \in Nat
  BY DEF Init
<1>1. VersionsPast
  <2>1. \A p \in Paths : ws[p] <= BaseVersion + edits
    <3>1. \A p \in Paths : ws[p] \in Nat /\ ws[p] <= BaseVersion
      BY ConstantsTyped DEF Init, RestoreAssumption, Tree
    <3> QED
      BY <1>0, <3>1
  <2>2. ASSUME NEW n \in DOMAIN refs, NEW p \in Paths PROVE refs[n].tree[p] <= BaseVersion + edits
    <3> DEFINE D == {TargetRef(c, m) : c \in Checkpoints, m \in Modes \union {"checkpoint"}}
    <3>1. refs = [d \in D |-> [tree |-> TreeOf[d.target], head |-> HeadOf[d.target], at |-> 0]]
      BY DEF Init, Captures
    <3>2. \A d \in D : d.target \in Checkpoints
      BY DEF TargetRef, Name
    <3> HIDE DEF D
    <3>3. PICK c \in Checkpoints : refs[n].tree = TreeOf[c]
      BY <2>2, <3>1, <3>2
    <3>4. TreeOf[c][p] \in Nat /\ TreeOf[c][p] <= BaseVersion
      <4>1. 0 .. MaxVersion \subseteq Nat
        BY ConstantsTyped
      <4> QED
        BY <4>1 DEF RestoreAssumption, Tree
    <3> QED
      BY <1>0, <3>3, <3>4
  <2> QED
    BY <2>1, <2>2 DEF VersionsPast
<1>2. /\ op.pc = "idle" /\ op.kind = "none" /\ op.mode = "checkpoint"
      /\ journal.mode = "checkpoint" /\ journal.phase = "none"
  BY DEF Init, Idle, NoJournal
<1> QED
  BY <1>1, <1>2 DEF RestoreInv, ModeKnown, ProgressKnown, Writing, GitSteps

LEMMA RestoreInvStep ==
    RestoreAssumption /\ Inv /\ FilesInv /\ RestoreInv /\ [Next]_vars => RestoreInv'
<1> SUFFICES ASSUME RestoreAssumption, Inv, FilesInv, RestoreInv, [Next]_vars
             PROVE  RestoreInv'
  OBVIOUS
<1>1. VersionsPast' /\ ModeKnown'
  BY VersionsStep, ModeStep DEF RestoreInv
<1>2. ProgressKnown'
  <2>0. CASE StartSafety \/ WriteRestoring
    BY <2>0, ProgressBegins DEF RestoreInv
  <2>1. ASSUME ~ (StartSafety \/ WriteRestoring),
               op'.pc \in Writing \union {"restored"} \/ op'.kind = "safety"
        PROVE  Progress(Goal, SafetyCommit, journal.mode)'
    <3>1. /\ op.pc \in Writing \union {"restored"} \/ op.kind = "safety"
          /\ op'.kind = op.kind
      BY <1>1, <2>1, WhoRestores DEF RestoreInv
    <3>2. journal.phase \in Settling
      BY <3>1 DEF Inv, OpInv, PhaseKnown, Settling, RestoreInv, ModeKnown
    <3>3. journal'.phase \in Settling
      <4>1. Inv'
        BY InvStep
      <4> QED
        BY <1>1, <2>1, <4>1 DEF Inv, OpInv, PhaseKnown, Settling, ModeKnown
    <3>4. SafetyCommit' = SafetyCommit /\ TargetCommit' = TargetCommit
      BY <3>2, <3>3, CommitsKept
    <3>5. journal'.mode = journal.mode
      BY <3>2, <3>3, JournalStep DEF ClearJournal, NoJournal, Settling
    <3>6. PICK g \in Commit, k \in Commit, m \in {journal.mode} : g = Goal /\ k = SafetyCommit
      BY <3>2, CommitsTyped DEF Inv, Goal
    <3>7. Goal' = g /\ SafetyCommit' = k /\ journal'.mode = m
      BY <3>1, <3>4, <3>5, <3>6 DEF Goal
    <3>8. Progress(g, k, m)'
      BY <2>1, <3>1, <3>6, ProgressStays
    <3> QED
      BY <3>7, <3>8 DEF Progress, Written, Removed, Cleaned, Exact, Right, Present
  <2> QED
    BY <2>0, <2>1, RestoredStays DEF ProgressKnown
<1> QED
  BY <1>1, <1>2 DEF RestoreInv

\* Only AppendEvent makes a stream longer.
LEMMA WhoRecords ==
    ASSUME Inv, Next, NewEvent
    PROVE  AppendEvent
<1>1. CASE events' = events
  BY <1>1 DEF NewEvent
<1>2. CASE \E s \in Sessions : DropLogs(s)
  <2>1. PICK s \in Sessions : events' = [events EXCEPT ![s] = <<>>]
    BY <1>2 DEF DropLogs
  <2>2. \A t \in Owners : Len(events[t]) \in Nat /\ (events'[t] = events[t] \/ events'[t] = <<>>)
    BY <2>1 DEF Inv, TypeOK
  <2> QED
    BY <2>2 DEF NewEvent
<1>3. CASE AppendEvent
  BY <1>3
<1> QED
  BY <1>1, <1>2, <1>3
  DEF Next, Step, StartRollback, StartResume, StartSafety, WriteIntent, Unresolved, SaveSafety,
      SaveGitSafety, WritePlanned, WriteRestoring, WriteEntry, StartDelete, DeleteExtra,
      FinishDelete, GitReset, GitCheckout, GitApply, WriteRestored, ClearJournal, DropRefs,
      Stop, Prune, Edit, KeepStore

\* What a rollback is recorded for, and what restore-safety ends with, is in the workspace,
\* through any number of stops, resumes and edits: RestoreCommitLocked, workspacegit.Restore
\* and ResumeRecovery leave no file of before behind, if no .gitignore names a file that
\* comes before it, and .gitignore is committed where a Git workspace is rolled back.
THEOREM RestoresAreExact ==
    ASSUME RestoreAssumption
    PROVE  Spec => RestoresTrue
<1> DEFINE Tells == NewEvent /\ journal.safety \notin givenUp => Holds(TargetCommit)
           Returns == op.kind = "safety" /\ At("clear") /\ journal' = NoJournal => Holds(SafetyCommit)
<1>1. Inv /\ RestoreInv /\ [Next]_vars => [Tells]_vars
  <2> SUFFICES ASSUME Inv, RestoreInv, Next, NewEvent, journal.safety \notin givenUp
               PROVE  Holds(TargetCommit)
    OBVIOUS
  <2>1. journal.phase = "restored"
    BY WhoRecords DEF AppendEvent, At, Inv, OpInv, PhaseKnown
  <2> QED
    BY <2>1, HoldsExact DEF RestoreInv, ProgressKnown
<1>2. Inv /\ RestoreInv /\ [Next]_vars => [Returns]_vars
  BY HoldsExact DEF RestoreInv, ProgressKnown, Progress, Goal, At
<1>3. Init => Inv /\ FilesInv /\ RestoreInv
  BY InvInit, FilesInit, RestoreInit
<1>4. Inv /\ FilesInv /\ RestoreInv /\ [Next]_vars => (Inv /\ FilesInv /\ RestoreInv)'
  BY InvStep, FilesStep, RestoreInvStep
<1>5. Spec => [](Inv /\ FilesInv /\ RestoreInv)
  BY <1>3, <1>4, PTL DEF Spec
<1> QED
  BY <1>1, <1>2, <1>5, NoDuplicateEvent, PTL
  DEF Spec, RestoresTrue, KeptRollbackTellsWorkspace, SafetyRestored
=============================================================================
