------------------------- MODULE TurnRecorderProofs -------------------------
(* What holds of TurnRecorder for every value of its constants. *)
EXTENDS Readers, FiniteSetTheorems, WellFoundedInduction, TLAPS

----------------------------------------------------------------------------
(* Type correctness                                                        *)

\* Start or Finish makes its checkpoint.
Creating == {"begin", "ref", "commit", "active", "undo"}

\* The events of a checkpoint are appended and its journal removed.
Appending == {"turn", "checkpoint", "read", "write", "clear"}

\* What a process holds at each point of its call.
Held(p) ==
    /\ pc[p] # "idle" => job[p].kind \in Calls
    /\ pc[p] \in Creating \union Appending \union {"settle"} => job[p].item \in Checkpoint
    /\ pc[p] = "prompt" => job[p].turn \in Turns

TypeInv == TypeOK /\ \A p \in Procs : Held(p)

\* A step of one process leaves the locals of the others alone.
Others(p) == \A q \in Procs \ {p} : pc'[q] = pc[q] /\ job'[q] = job[q]

\* The variables the helpers of a call change.
ControlType ==
    /\ pc \in [Procs -> Labels] /\ job \in [Procs -> Job]
    /\ lock \in Procs \union {NoProc} /\ sessionLock \in [Sessions -> Procs \union {NoProc}]

LEMMA JobFields ==
    ASSUME TypeOK, NEW p \in Procs
    PROVE  /\ job[p] \in Job /\ job[p].kind \in Calls \union {"none"}
           /\ job[p].session \in Sessions /\ job[p].turn \in Turns \union {0}
           /\ job[p].item \in Checkpoint \union {Nil}
           /\ job[p].todo \in SUBSET (Checkpoint \X JournalStates)
           /\ Home(p) \in Worktrees /\ Own(p) \in Streams
  BY TurnAssumption DEF TypeOK, Job, Home, Own, Streams

LEMMA GotoType ==
    ASSUME TypeOK, NEW p \in Procs, NEW label \in Labels, Goto(p, label)
    PROVE  /\ pc' \in [Procs -> Labels] /\ pc'[p] = label
           /\ \A q \in Procs \ {p} : pc'[q] = pc[q]
  BY DEF TypeOK, Goto

LEMMA WorkType ==
    ASSUME TypeOK, NEW p \in Procs, NEW item \in Checkpoint \union {Nil},
           NEW todo \in SUBSET (Checkpoint \X JournalStates), Work(p, item, todo)
    PROVE  /\ job' \in [Procs -> Job]
           /\ job'[p].item = item /\ job'[p].todo = todo /\ job'[p].session = job[p].session
           /\ job'[p].kind = job[p].kind /\ job'[p].turn = job[p].turn
           /\ \A q \in Procs \ {p} : job'[q] = job[q]
<1>1. job \in [Procs -> Job]
  BY DEF TypeOK
<1>2. job' = [job EXCEPT ![p] = [job[p] EXCEPT !.item = item, !.todo = todo]]
  BY <1>1 DEF Work
<1>3. [job[p] EXCEPT !.item = item, !.todo = todo] \in Job
  BY <1>1 DEF Job
<1> QED
  BY <1>1, <1>2, <1>3 DEF Job

\* A call that ends, or fails, gives up the workspace lock.
Released(p) ==
    /\ ControlType' /\ Others(p)
    /\ pc'[p] \in {"idle", "error"} /\ (pc'[p] # "idle" => job'[p].kind \in Calls)
    /\ lock' = IF lock = p THEN NoProc ELSE lock

LEMMA LeaveReleases ==
    ASSUME TypeOK, NEW p \in Procs, Leave(p)
    PROVE  Released(p)
<1>1. pc' \in [Procs -> Labels] /\ pc'[p] = "idle" /\ \A q \in Procs \ {p} : pc'[q] = pc[q]
  BY GotoType DEF Leave, Labels
<1>2. job \in [Procs -> Job]
  BY DEF TypeOK
<1>3. [job[p] EXCEPT !.kind = "none", !.turn = 0, !.item = Nil, !.todo = {}] \in Job
  BY <1>2 DEF Job
<1>4. job' = [job EXCEPT ![p] = [job[p] EXCEPT !.kind = "none", !.turn = 0, !.item = Nil,
                                              !.todo = {}]]
  BY <1>2 DEF Leave
<1>5. job' \in [Procs -> Job] /\ \A q \in Procs \ {p} : job'[q] = job[q]
  BY <1>2, <1>3, <1>4
<1>6. lock' \in Procs \union {NoProc} /\ sessionLock' \in [Sessions -> Procs \union {NoProc}]
  BY DEF Leave, TypeOK
<1> QED
  BY <1>1, <1>5, <1>6 DEF Released, ControlType, Others, Leave

LEMMA FailReleases ==
    ASSUME TypeOK, NEW p \in Procs, Fail(p)
    PROVE  Released(p)
<1>1. CASE IsHook(p)
  <2>1. pc' \in [Procs -> Labels] /\ pc'[p] = "error" /\ \A q \in Procs \ {p} : pc'[q] = pc[q]
    BY <1>1, GotoType DEF Fail, Labels
  <2>2. job \in [Procs -> Job]
    BY DEF TypeOK
  <2>3. [job[p] EXCEPT !.turn = 0, !.item = Nil] \in Job
    BY <2>2 DEF Job
  <2>4. job' = [job EXCEPT ![p] = [job[p] EXCEPT !.turn = 0, !.item = Nil]]
    BY <1>1, <2>2 DEF Fail
  <2>5. /\ job' \in [Procs -> Job] /\ \A q \in Procs \ {p} : job'[q] = job[q]
        /\ job'[p].kind = job[p].kind
    BY <2>2, <2>3, <2>4 DEF Job
  <2>6. lock' \in Procs \union {NoProc} /\ sessionLock' \in [Sessions -> Procs \union {NoProc}]
    BY <1>1 DEF Fail, TypeOK
  <2>7. job[p].kind \in Calls
    BY <1>1, JobFields DEF IsHook, HookCalls
  <2> QED
    BY <1>1, <2>1, <2>5, <2>6, <2>7 DEF Released, ControlType, Others, Fail
<1>2. CASE ~IsHook(p)
  BY <1>2, LeaveReleases DEF Fail
<1> QED
  BY <1>1, <1>2

\* Work and Goto together.
LEMMA MoveType ==
    ASSUME TypeOK, NEW p \in Procs, NEW label \in Labels, Goto(p, label),
           NEW item \in Checkpoint \union {Nil},
           NEW todo \in SUBSET (Checkpoint \X JournalStates), Work(p, item, todo)
    PROVE  /\ pc' \in [Procs -> Labels] /\ job' \in [Procs -> Job] /\ Others(p)
           /\ pc'[p] = label /\ job'[p].item = item /\ job'[p].kind = job[p].kind
  BY GotoType, WorkType DEF Others

\* A non-empty set of positions has a last one.
LEMMA LastPosition ==
    ASSUME NEW n \in Nat, NEW S \in SUBSET (1 .. n), S # {}
    PROVE  \E i \in S : \A j \in S : j <= i
<1> DEFINE R == {ss \in Nat \X Nat : ss[1] < ss[2]}
           T == {n - i : i \in S}
<1>0. IsWellFoundedOn(R, Nat)
  BY NatLessThanWellFounded, Zenon DEF OpToRel, R
<1>1. T \subseteq Nat /\ T # {}
  <2>1. PICK i \in S : TRUE
    OBVIOUS
  <2>2. n - i \in T
    BY DEF T
  <2>3. \A j \in S : n - j \in Nat
    OBVIOUS
  <2> QED
    BY <2>2, <2>3, Zenon DEF T
<1>2. PICK x \in T : \A y \in T : ~(<<y, x>> \in R)
  BY <1>0, <1>1, WFMin
<1>3. \A y \in T : ~(y < x)
  BY <1>1, <1>2 DEF R
<1>4. PICK i \in S : x = n - i
  BY <1>2 DEF T
<1>5. \A j \in S : j <= i
  <2> TAKE j \in S
  <2>1. n - j \in T /\ ~(n - j < x)
    BY <1>3 DEF T
  <2> QED
    BY <2>1, <1>4
<1> QED
  BY <1>5

\* NextTurnID returns a turn number, unless there is none left.
LEMMA NextTurnIDType ==
    ASSUME TypeOK, NEW w, NEW s
    PROVE  NextTurnID(w, s) \in Nat \ {0}
<1> DEFINE used == {r.turn : r \in RefsOf(w, s)}
           top == CHOOSE t \in used : \A u \in used : u <= t
<1>1. RefsOf(w, s) \subseteq Checkpoint
  BY DEF RefsOf, TypeOK
<1>2. used \in SUBSET (1 .. MaxTurns) /\ MaxTurns \in Nat
  BY <1>1, TurnAssumption DEF Checkpoint, Turns
<1>3. CASE used = {}
  BY <1>3 DEF NextTurnID
<1>4. CASE used # {}
  <2>1. \E t \in used : \A u \in used : u <= t
    BY <1>2, <1>4, LastPosition
  <2>2. top \in used
    BY <2>1
  <2>3. NextTurnID(w, s) = 1 + top
    BY <1>4 DEF NextTurnID
  <2> HIDE DEF used, top
  <2>4. top \in Nat
    BY <1>2, <2>2
  <2> QED
    BY <2>3, <2>4
<1> QED
  BY <1>3, <1>4

LEMMA TypeInit == Init => TypeInv
<1> SUFFICES ASSUME Init PROVE TypeInv
  OBVIOUS
<1>1. (CHOOSE s \in Sessions : TRUE) \in Sessions
  BY TurnAssumption
<1>2. job \in [Procs -> Job]
  BY <1>1 DEF Init, Job
<1>3. pc \in [Procs -> Labels] /\ \A p \in Procs : pc[p] = "idle"
  BY DEF Init, Labels
<1>4. /\ refs \subseteq Checkpoint /\ abandoned \subseteq Checkpoint
      /\ journal \in [Checkpoint -> JournalStates]
      /\ active \in [Streams -> Turns \union {0}] /\ torn \in [Streams -> BOOLEAN]
      /\ lock \in Procs \union {NoProc} /\ sessionLock \in [Sessions -> Procs \union {NoProc}]
      /\ faults \in Nat
  BY DEF Init, JournalStates
<1>5. stream \in [Streams -> Seq(Event)]
  <2>1. <<>> \in Seq(Event)
    OBVIOUS
  <2> QED
    BY <2>1 DEF Init
<1> QED
  BY <1>2, <1>3, <1>4, <1>5 DEF TypeInv, TypeOK, Held, Creating, Appending

\* The parts of a step that an action of p has to establish.
LEMMA TypeStep ==
    ASSUME TypeInv, NEW p \in Procs, ControlType', Others(p), Held(p)',
           refs' \subseteq Checkpoint, abandoned' \subseteq Checkpoint,
           journal' \in [Checkpoint -> JournalStates], active' \in [Streams -> Turns \union {0}],
           stream' \in [Streams -> Seq(Event)], torn' \in [Streams -> BOOLEAN], faults' \in Nat
    PROVE  TypeInv'
<1>1. ASSUME NEW q \in Procs \ {p} PROVE Held(q)'
  BY <1>1 DEF TypeInv, Held, Others
<1>2. TypeOK'
  BY DEF TypeOK, ControlType
<1> QED
  BY <1>1, <1>2 DEF TypeInv

LEMMA ReleasedHolds ==
    ASSUME NEW p \in Procs, Released(p)
    PROVE  ControlType' /\ Others(p) /\ Held(p)'
  BY DEF Released, Held, Creating, Appending

\* A step that moves p to another label and does nothing else to the control.
LEMMA GotoControl ==
    ASSUME TypeOK, NEW p \in Procs, NEW label \in Labels, Goto(p, label),
           UNCHANGED <<job, lock, sessionLock>>
    PROVE  ControlType' /\ Others(p) /\ pc'[p] = label
  BY GotoType DEF ControlType, Others, TypeOK

LEMMA CallTypes ==
    ASSUME TypeInv, NEW p \in Procs, CallAny(p) \/ LockSession(p) \/ TimeOut(p)
    PROVE  TypeInv'
<1>0. TypeOK
  BY DEF TypeInv
<1>1. CASE CallAny(p)
  <2>1. PICK kind \in Calls, s \in Sessions, t \in Requested : Call(p, kind, s, t)
    BY <1>1 DEF CallAny
  <2> DEFINE label == IF kind \in HookCalls THEN "session" ELSE "enter"
  <2>2. label \in Labels /\ Goto(p, label)
    BY <2>1 DEF Call, Labels
  <2>3. pc' \in [Procs -> Labels] /\ pc'[p] = label /\ \A q \in Procs \ {p} : pc'[q] = pc[q]
    BY <1>0, <2>2, GotoType
  <2>4. job \in [Procs -> Job] /\ t \in Turns \union {0}
    BY <1>0, TurnAssumption DEF TypeOK, Turns
  <2>5. [job[p] EXCEPT !.kind = kind, !.session = s, !.turn = t] \in Job
    BY <2>4 DEF Job
  <2>6. job' = [job EXCEPT ![p] = [job[p] EXCEPT !.kind = kind, !.session = s, !.turn = t]]
    BY <2>1, <2>4 DEF Call
  <2>7. /\ job' \in [Procs -> Job] /\ \A q \in Procs \ {p} : job'[q] = job[q]
        /\ job'[p].kind = kind
    BY <2>4, <2>5, <2>6 DEF Job
  <2>8. ControlType' /\ Others(p)
    BY <1>0, <2>1, <2>3, <2>7 DEF ControlType, Others, Call, TypeOK
  <2>9. Held(p)'
    BY <2>3, <2>7 DEF Held, Creating, Appending
  <2> QED
    BY <1>0, <2>1, <2>8, <2>9, TypeStep DEF Call, TypeOK
<1>2. CASE LockSession(p)
  <2>1. pc' \in [Procs -> Labels] /\ pc'[p] = "enter" /\ \A q \in Procs \ {p} : pc'[q] = pc[q]
    BY <1>0, <1>2, GotoType DEF LockSession, Labels
  <2>2. ControlType' /\ Others(p)
    BY <1>0, <1>2, <2>1 DEF ControlType, Others, LockSession, TypeOK
  <2>3. Held(p)'
    BY <1>2, <2>1 DEF Held, Creating, Appending, TypeInv, LockSession
  <2> QED
    BY <1>0, <1>2, <2>2, <2>3, TypeStep DEF LockSession, TypeOK
<1>3. CASE TimeOut(p)
  <2>1. Released(p)
    BY <1>0, <1>3, LeaveReleases, FailReleases DEF TimeOut
  <2> QED
    BY <1>0, <1>3, <2>1, ReleasedHolds, TypeStep DEF TimeOut, TypeOK
<1> QED
  BY <1>1, <1>2, <1>3

LEMMA RecoveryTypes ==
    ASSUME TypeInv, NEW p \in Procs, Enter(p) \/ RecoverOne(p) \/ RecoveryDone(p) \/ Settle(p)
    PROVE  TypeInv'
<1>0. TypeOK
  BY DEF TypeInv
<1>1. CASE Enter(p)
  <2> DEFINE listed == {<<k, journal[k]>> : k \in {c \in Checkpoint : journal[c] # "none"}}
  <2>1. listed \in SUBSET (Checkpoint \X JournalStates)
    BY <1>0 DEF TypeOK
  <2>2. Work(p, Nil, listed) /\ Goto(p, "recover") /\ "recover" \in Labels
    BY <1>1 DEF Enter, Labels
  <2>3. /\ pc' \in [Procs -> Labels] /\ job' \in [Procs -> Job] /\ Others(p)
        /\ pc'[p] = "recover" /\ job'[p].kind = job[p].kind
    BY <1>0, <2>1, <2>2, MoveType
  <2>4. ControlType' /\ Held(p)'
    BY <1>0, <1>1, <2>3
       DEF ControlType, Enter, TypeInv, TypeOK, Held, Creating, Appending
  <2> QED
    BY <1>0, <1>1, <2>3, <2>4, TypeStep DEF Enter, TypeOK
<1>2. CASE RecoverOne(p)
  <2>1. PICK entry \in job[p].todo :
            \/ /\ journal' = [journal EXCEPT ![AsNamedBy(Home(p), entry[1])] = "none"]
               /\ Work(p, Nil, job[p].todo \ {entry}) /\ UNCHANGED <<pc, lock, sessionLock>>
            \/ /\ journal' = [journal EXCEPT ![AsNamedBy(Home(p), entry[1])] = "committed"]
               /\ Work(p, entry[1], job[p].todo \ {entry}) /\ Goto(p, "turn")
               /\ UNCHANGED <<lock, sessionLock>>
            \/ /\ Work(p, entry[1], job[p].todo \ {entry}) /\ Goto(p, "turn")
               /\ UNCHANGED <<journal, lock, sessionLock>>
            \/ Leave(p) /\ UNCHANGED journal
    BY <1>2, Zenon DEF RecoverOne
  <2>2. /\ entry[1] \in Checkpoint
        /\ job[p].todo \ {entry} \in SUBSET (Checkpoint \X JournalStates)
    BY <1>0, JobFields
  <2>3. AsNamedBy(Home(p), entry[1]) \in Checkpoint
    BY <1>0, <2>2, JobFields DEF AsNamedBy, Checkpoint
  <2>4. journal' \in [Checkpoint -> JournalStates]
    BY <1>0, <2>1, <2>3 DEF TypeOK, JournalStates
  <2>5. pc[p] = "recover" /\ job[p].kind \in Calls
    BY <1>2 DEF RecoverOne, TypeInv, Held
  <2>6. ControlType' /\ Others(p) /\ Held(p)'
    <3>1. CASE Work(p, Nil, job[p].todo \ {entry}) /\ UNCHANGED <<pc, lock, sessionLock>>
      BY <1>0, <2>2, <2>5, <3>1, WorkType
         DEF ControlType, Others, TypeOK, Held, Creating, Appending
    <3>2. CASE /\ Work(p, entry[1], job[p].todo \ {entry}) /\ Goto(p, "turn")
               /\ UNCHANGED <<lock, sessionLock>>
      <4>1. /\ pc' \in [Procs -> Labels] /\ job' \in [Procs -> Job] /\ Others(p)
            /\ pc'[p] = "turn" /\ job'[p].item \in Checkpoint /\ job'[p].kind = job[p].kind
        BY <1>0, <2>2, <3>2, MoveType DEF Labels
      <4> QED
        BY <1>0, <2>5, <3>2, <4>1 DEF ControlType, TypeOK, Held
    <3>3. CASE Leave(p)
      BY <1>0, <3>3, LeaveReleases, ReleasedHolds
    <3> QED
      BY <2>1, <3>1, <3>2, <3>3
  <2> QED
    BY <1>0, <1>2, <2>4, <2>6, TypeStep DEF RecoverOne, TypeOK
<1>3. CASE RecoveryDone(p)
  <2> DEFINE label == IF IsHook(p) THEN "hook" ELSE job[p].kind
  <2>1. job[p].kind \in Calls
    BY <1>3 DEF RecoveryDone, TypeInv, Held
  <2>2. label \in {"hook", "start", "finish"} /\ label \in Labels
    BY <2>1, TurnAssumption DEF IsHook, HookCalls, CLICalls, Labels
  <2>3. Goto(p, label) /\ Work(p, Nil, {})
    BY <1>3 DEF RecoveryDone, Proceed
  <2>4. /\ pc' \in [Procs -> Labels] /\ job' \in [Procs -> Job] /\ Others(p)
        /\ pc'[p] = label /\ job'[p].kind = job[p].kind
    BY <1>0, <2>2, <2>3, MoveType
  <2> HIDE DEF label
  <2>5. ControlType' /\ Held(p)'
    BY <1>0, <1>3, <2>1, <2>2, <2>4
       DEF ControlType, RecoveryDone, Proceed, TypeOK, Held, Creating, Appending
  <2> QED
    BY <1>0, <1>3, <2>4, <2>5, TypeStep DEF RecoveryDone, TypeOK
<1>4. CASE Settle(p)
  <2> DEFINE st == <<Home(p), job[p].item.session>>
  <2>1. pc[p] = "settle" /\ job[p].item \in Checkpoint /\ job[p].kind \in Calls
    BY <1>4 DEF Settle, TypeInv, Held
  <2>2. active' \in [Streams -> Turns \union {0}]
    BY <1>0, <1>4 DEF Settle, TypeOK
  <2>3. ControlType' /\ Others(p) /\ Held(p)'
    <3>1. CASE Goto(p, "recover") /\ UNCHANGED <<job, lock, sessionLock>>
      BY <1>0, <2>1, <3>1, GotoControl DEF Held, Labels, Creating, Appending
    <3>2. CASE Leave(p)
      BY <1>0, <3>2, LeaveReleases, ReleasedHolds
    <3> QED
      BY <1>4, <3>1, <3>2 DEF Settle
  <2> QED
    BY <1>0, <1>4, <2>2, <2>3, TypeStep DEF Settle, TypeOK
<1> QED
  BY <1>1, <1>2, <1>3, <1>4

\* The stream after an append, whether or not the event was there already.
LEMMA AppendOnceType ==
    ASSUME TypeOK, NEW p \in Procs, job[p].item \in Checkpoint, NEW e \in Event,
           AppendOnce(p, e)
    PROVE  stream' \in [Streams -> Seq(Event)]
<1>1. StreamFor(p) \in Streams /\ stream \in [Streams -> Seq(Event)]
  BY JobFields DEF StreamFor, Streams, Checkpoint, TypeOK
<1>2. Append(stream[StreamFor(p)], e) \in Seq(Event)
  BY <1>1
<1> QED
  BY <1>1, <1>2 DEF AppendOnce

LEMMA BrokenReleases ==
    ASSUME TypeOK, NEW p \in Procs, Broken(p)
    PROVE  Released(p)
  BY LeaveReleases, FailReleases DEF Broken

\* An action that goes to a label that needs no more than the checkpoint at hand.
LEMMA GotoHolds ==
    ASSUME TypeInv, NEW p \in Procs, NEW label \in Labels, Goto(p, label), pc[p] # "idle",
           job[p].item \in Checkpoint, label # "prompt", UNCHANGED <<job, lock, sessionLock>>
    PROVE  ControlType' /\ Others(p) /\ Held(p)'
  BY GotoControl DEF Held, TypeInv

LEMMA AfterEventsHolds ==
    ASSUME TypeInv, NEW p \in Procs, pc[p] # "idle", job[p].item \in Checkpoint, AfterEvents(p)
    PROVE  ControlType' /\ Others(p) /\ Held(p)'
<1>0. TypeOK /\ job \in [Procs -> Job] /\ job[p].kind \in Calls
  BY DEF TypeInv, TypeOK, Held
<1>1. CASE Recovering(p)
  <2> DEFINE label == IF job[p].item.phase = "post" THEN "settle" ELSE "recover"
  <2>1. Goto(p, label) /\ UNCHANGED <<job, lock, sessionLock>>
    BY <1>1 DEF AfterEvents
  <2>2. label \in Labels /\ label # "prompt"
    BY DEF Labels
  <2> HIDE DEF label
  <2> QED
    BY <2>1, <2>2, GotoHolds
<1>2. CASE ~Recovering(p) /\ job[p].kind = "prompt"
  <2> DEFINE k == job[p].item
             label == IF k.phase = "post" THEN "start" ELSE "prompt"
             t == IF k.phase = "post" THEN 0 ELSE k.turn
  <2>1. Goto(p, label) /\ UNCHANGED <<lock, sessionLock>>
    BY <1>2 DEF AfterEvents
  <2>2. label \in Labels /\ label \in {"start", "prompt"}
    BY DEF Labels
  <2>3. k.turn \in Turns /\ t \in Turns \union {0}
    BY DEF Checkpoint
  <2>4. job' = [job EXCEPT ![p] = [job[p] EXCEPT !.turn = t, !.item = Nil]]
    BY <1>0, <1>2 DEF AfterEvents
  <2>5. [job[p] EXCEPT !.turn = t, !.item = Nil] \in Job
    BY <1>0, <2>3 DEF Job
  <2>6. /\ job' \in [Procs -> Job] /\ \A q \in Procs \ {p} : job'[q] = job[q]
        /\ job'[p].kind = job[p].kind /\ job'[p].turn = t
    BY <1>0, <2>4, <2>5 DEF Job
  <2>7. pc' \in [Procs -> Labels] /\ pc'[p] = label /\ \A q \in Procs \ {p} : pc'[q] = pc[q]
    BY <1>0, <2>1, <2>2, GotoType
  <2>8. label = "prompt" => t \in Turns
    BY <2>3
  <2> HIDE DEF label, t
  <2>9. ControlType' /\ Others(p)
    BY <1>0, <2>1, <2>6, <2>7 DEF ControlType, Others, TypeOK
  <2> QED
    BY <1>0, <2>2, <2>6, <2>7, <2>8, <2>9 DEF Held, Creating, Appending
<1>3. CASE ~Recovering(p) /\ job[p].kind # "prompt"
  BY <1>0, <1>3, LeaveReleases, ReleasedHolds DEF AfterEvents
<1> QED
  BY <1>1, <1>2, <1>3

LEMMA EventTypes ==
    ASSUME TypeInv, NEW p \in Procs,
           \/ AppendTurn(p) \/ AppendCheckpoint(p)
           \/ ReadJournal(p) \/ WriteFinalized(p) \/ ClearJournal(p)
    PROVE  TypeInv'
<1> DEFINE k == job[p].item
<1>0. TypeOK
  BY DEF TypeInv
<1>1. k \in Checkpoint /\ Home(p) \in Worktrees /\ pc[p] # "idle"
  BY <1>0, JobFields DEF TypeInv, Held, Appending, AppendTurn, AppendCheckpoint, ReadJournal,
                         WriteFinalized, ClearJournal
<1>2. /\ [kind |-> TurnKind(k), turn |-> k.turn, phase |-> k.phase, of |-> Home(p)] \in Event
      /\ [kind |-> "checkpoint", turn |-> k.turn, phase |-> k.phase, of |-> k.home] \in Event
  BY <1>1 DEF Checkpoint, Event, Kinds, TurnKind
<1>3. Unscoped(k) \in Checkpoint
  BY <1>1, TurnAssumption DEF Unscoped, AsNamedBy, Checkpoint
<1> HIDE DEF k
<1>4. CASE AppendTurn(p)
  <2>1. stream' \in [Streams -> Seq(Event)]
    BY <1>0, <1>1, <1>2, <1>4, AppendOnceType DEF AppendTurn, TypeOK, k
  <2>2. ControlType' /\ Others(p) /\ Held(p)'
    BY <1>0, <1>1, <1>4, GotoHolds, BrokenReleases, ReleasedHolds DEF AppendTurn, Labels, k
  <2> QED
    BY <1>0, <1>4, <2>1, <2>2, TypeStep DEF AppendTurn, TypeOK
<1>5. CASE AppendCheckpoint(p)
  <2>1. stream' \in [Streams -> Seq(Event)]
    BY <1>0, <1>1, <1>2, <1>5, AppendOnceType DEF AppendCheckpoint, TypeOK, k
  <2>2. ControlType' /\ Others(p) /\ Held(p)'
    BY <1>0, <1>1, <1>5, GotoHolds, BrokenReleases, ReleasedHolds
       DEF AppendCheckpoint, Labels, k
  <2> QED
    BY <1>0, <1>5, <2>1, <2>2, TypeStep DEF AppendCheckpoint, TypeOK
<1>6. CASE ReadJournal(p)
  <2>1. ControlType' /\ Others(p) /\ Held(p)'
    BY <1>0, <1>1, <1>6, GotoHolds, AfterEventsHolds DEF ReadJournal, Labels, k
  <2> QED
    BY <1>0, <1>6, <2>1, TypeStep DEF ReadJournal, TypeOK
<1>7. CASE WriteFinalized(p)
  <2>1. journal' \in [Checkpoint -> JournalStates]
    BY <1>0, <1>3, <1>7 DEF WriteFinalized, TypeOK, JournalStates, k
  <2>2. ControlType' /\ Others(p) /\ Held(p)'
    BY <1>0, <1>1, <1>7, GotoHolds DEF WriteFinalized, Labels, k
  <2> QED
    BY <1>0, <1>7, <2>1, <2>2, TypeStep DEF WriteFinalized, TypeOK
<1>8. CASE ClearJournal(p)
  <2>1. journal' \in [Checkpoint -> JournalStates]
    BY <1>0, <1>3, <1>8 DEF ClearJournal, TypeOK, JournalStates, k
  <2>2. ControlType' /\ Others(p) /\ Held(p)'
    BY <1>0, <1>1, <1>8, AfterEventsHolds DEF ClearJournal, k
  <2> QED
    BY <1>0, <1>8, <2>1, <2>2, TypeStep DEF ClearJournal, TypeOK
<1> QED
  BY <1>4, <1>5, <1>6, <1>7, <1>8

LEMMA HookTypes ==
    ASSUME TypeInv, NEW p \in Procs, Hook(p) \/ AppendPrompt(p) \/ AppendError(p)
    PROVE  TypeInv'
<1>0. TypeOK /\ job \in [Procs -> Job] /\ Own(p) \in Streams /\ Home(p) \in Worktrees
  BY JobFields DEF TypeInv, TypeOK
<1>1. CASE Hook(p)
  <2> DEFINE t == active[Own(p)]
  <2>1. t \in Turns \union {0} /\ job[p].kind \in Calls /\ pc[p] = "hook"
    BY <1>0, <1>1 DEF Hook, TypeInv, TypeOK, Held
  <2>2. CASE Released(p)
    BY <1>0, <1>1, <2>2, ReleasedHolds, TypeStep DEF Hook, TypeOK
  <2>3. CASE Goto(p, "start") /\ UNCHANGED <<job, lock, sessionLock>>
    <3>1. ControlType' /\ Others(p) /\ Held(p)'
      BY <1>0, <2>1, <2>3, GotoControl DEF Labels, Held, Creating, Appending
    <3> QED
      BY <1>0, <1>1, <3>1, TypeStep DEF Hook, TypeOK
  <2>4. ASSUME NEW label \in {"prompt", "finish"}, t # 0, Goto(p, label),
               job' = [job EXCEPT ![p].turn = t], UNCHANGED <<lock, sessionLock>>
        PROVE  TypeInv'
    <3>1. pc' \in [Procs -> Labels] /\ pc'[p] = label /\ \A q \in Procs \ {p} : pc'[q] = pc[q]
      BY <1>0, <2>4, GotoType DEF Labels
    <3>2. [job[p] EXCEPT !.turn = t] \in Job
      BY <1>0, <2>1 DEF Job
    <3>3. /\ job' \in [Procs -> Job] /\ \A q \in Procs \ {p} : job'[q] = job[q]
          /\ job'[p].kind = job[p].kind /\ job'[p].turn = t
      BY <1>0, <2>4, <3>2 DEF Job
    <3>4. ControlType' /\ Others(p)
      BY <1>0, <2>4, <3>1, <3>3 DEF ControlType, Others, TypeOK
    <3>5. Held(p)'
      BY <2>1, <2>4, <3>1, <3>3 DEF Held, Creating, Appending
    <3> QED
      BY <1>0, <1>1, <3>4, <3>5, TypeStep DEF Hook, TypeOK
  <2>5. \/ Fail(p) \/ Leave(p)
        \/ Goto(p, "start") /\ UNCHANGED <<job, lock, sessionLock>>
        \/ \E label \in {"prompt", "finish"} :
               /\ t # 0 /\ Goto(p, label) /\ job' = [job EXCEPT ![p].turn = t]
               /\ UNCHANGED <<lock, sessionLock>>
    BY <1>1 DEF Hook
  <2> QED
    BY <1>0, <2>2, <2>3, <2>4, <2>5, LeaveReleases, FailReleases
<1>2. CASE AppendPrompt(p)
  <2> DEFINE e == [kind |-> "prompt.user", turn |-> job[p].turn, phase |-> "pre",
                   of |-> Home(p)]
  <2>1. job[p].turn \in Turns
    BY <1>2 DEF AppendPrompt, TypeInv, Held
  <2>2. e \in Event
    BY <1>0, <2>1 DEF Event, Kinds, Phases
  <2>3. Append(stream[Own(p)], e) \in Seq(Event)
    BY <1>0, <2>2 DEF TypeOK
  <2>4. stream' = [stream EXCEPT ![Own(p)] = Append(stream[Own(p)], e)]
    BY <1>0, <1>2 DEF AppendPrompt, TypeOK
  <2>5. stream' \in [Streams -> Seq(Event)] /\ torn' \in [Streams -> BOOLEAN]
    BY <1>0, <1>2, <2>3, <2>4 DEF AppendPrompt, TypeOK
  <2>6. Released(p)
    BY <1>0, <1>2, LeaveReleases DEF AppendPrompt
  <2> QED
    BY <1>0, <1>2, <2>5, <2>6, ReleasedHolds, TypeStep DEF AppendPrompt, TypeOK
<1>3. CASE AppendError(p)
  <2>1. torn' \in [Streams -> BOOLEAN] /\ Released(p)
    BY <1>0, <1>3, LeaveReleases DEF AppendError, TypeOK
  <2> QED
    BY <1>0, <1>3, <2>1, ReleasedHolds, TypeStep DEF AppendError, TypeOK
<1> QED
  BY <1>1, <1>2, <1>3

LEMMA TurnTypes ==
    ASSUME TypeInv, NEW p \in Procs, StartTurn(p) \/ FinishTurn(p)
    PROVE  TypeInv'
<1>0. /\ TypeOK /\ job \in [Procs -> Job] /\ Own(p) \in Streams /\ Home(p) \in Worktrees
      /\ job[p].session \in Sessions /\ job[p].turn \in Turns \union {0}
      /\ active[Own(p)] \in Turns \union {0} /\ job[p].kind \in Calls
  BY JobFields DEF TypeInv, TypeOK, Held, StartTurn, FinishTurn
\* The turn's checkpoint is at hand and the lock is taken.
<1>1. ASSUME NEW t \in Turns, NEW phase \in Phases, lock' = p, UNCHANGED sessionLock,
             Work(p, Key(Home(p), job[p].session, t, phase), {}), Goto(p, "begin")
      PROVE  ControlType' /\ Others(p) /\ Held(p)'
  <2>1. Key(Home(p), job[p].session, t, phase) \in Checkpoint
    BY <1>0 DEF Key, Checkpoint
  <2>2. /\ pc' \in [Procs -> Labels] /\ job' \in [Procs -> Job] /\ Others(p)
        /\ pc'[p] = "begin" /\ job'[p].item \in Checkpoint /\ job'[p].kind = job[p].kind
    BY <1>0, <1>1, <2>1, MoveType DEF Labels
  <2> QED
    BY <1>0, <1>1, <2>2 DEF ControlType, TypeOK, Held
<1>2. CASE StartTurn(p)
  <2> DEFINE next == NextTurnID(Home(p), job[p].session)
             t == IF job[p].turn = 0 THEN next ELSE job[p].turn
  <2>1. CASE Released(p)
    BY <1>0, <1>2, <2>1, ReleasedHolds, TypeStep DEF StartTurn, TypeOK
  <2>2. CASE /\ ~(job[p].turn = 0 /\ NoNextTurn(Home(p), job[p].session))
             /\ lock' = p /\ UNCHANGED sessionLock
             /\ Work(p, Key(Home(p), job[p].session, t, "pre"), {}) /\ Goto(p, "begin")
    <3>1. next \in Nat \ {0} /\ MaxTurns \in Nat
      BY <1>0, NextTurnIDType, TurnAssumption
    <3>2. job[p].turn = 0 => next <= MaxTurns
      <4>1. job[p].turn = 0 => ~(next > MaxTurns)
        BY <2>2 DEF NoNextTurn
      <4> HIDE DEF next
      <4> QED
        BY <3>1, <4>1
    <3> HIDE DEF next
    <3>3. t \in Turns
      BY <1>0, <3>1, <3>2 DEF Turns
    <3> HIDE DEF t
    <3>4. ControlType' /\ Others(p) /\ Held(p)'
      BY <1>1, <2>2, <3>3 DEF Phases
    <3> QED
      BY <1>0, <1>2, <3>4, TypeStep DEF StartTurn, TypeOK
  <2>3. \/ Fail(p)
        \/ /\ ~(job[p].turn = 0 /\ NoNextTurn(Home(p), job[p].session))
           /\ lock' = p /\ UNCHANGED sessionLock
           /\ Work(p, Key(Home(p), job[p].session, t, "pre"), {}) /\ Goto(p, "begin")
    BY <1>2, Zenon DEF StartTurn
  <2> QED
    BY <1>0, <2>1, <2>2, <2>3, FailReleases
<1>3. CASE FinishTurn(p)
  <2> DEFINE t == IF job[p].turn = 0 THEN active[Own(p)] ELSE job[p].turn
  <2>1. CASE Released(p)
    BY <1>0, <1>3, <2>1, ReleasedHolds, TypeStep DEF FinishTurn, TypeOK
  <2>2. CASE /\ t # 0 /\ lock' = p /\ UNCHANGED sessionLock
             /\ Work(p, Key(Home(p), job[p].session, t, "post"), {}) /\ Goto(p, "begin")
    <3>1. t \in Turns
      BY <1>0, <2>2
    <3> HIDE DEF t
    <3>2. ControlType' /\ Others(p) /\ Held(p)'
      BY <1>1, <2>2, <3>1 DEF Phases
    <3> QED
      BY <1>0, <1>3, <3>2, TypeStep DEF FinishTurn, TypeOK
  <2>3. CASE /\ Goto(p, "start") /\ job' = [job EXCEPT ![p].turn = 0]
             /\ UNCHANGED <<lock, sessionLock>>
    <3>1. pc' \in [Procs -> Labels] /\ pc'[p] = "start" /\ \A q \in Procs \ {p} : pc'[q] = pc[q]
      BY <1>0, <2>3, GotoType DEF Labels
    <3>2. [job[p] EXCEPT !.turn = 0] \in Job
      BY <1>0 DEF Job
    <3>3. /\ job' \in [Procs -> Job] /\ \A q \in Procs \ {p} : job'[q] = job[q]
          /\ job'[p].kind = job[p].kind
      BY <1>0, <2>3, <3>2 DEF Job
    <3>4. ControlType' /\ Others(p) /\ Held(p)'
      BY <1>0, <2>3, <3>1, <3>3 DEF ControlType, Others, TypeOK, Held, Creating, Appending
    <3> QED
      BY <1>0, <1>3, <3>4, TypeStep DEF FinishTurn, TypeOK
  <2>4. \/ Fail(p) \/ Leave(p)
        \/ /\ Goto(p, "start") /\ job' = [job EXCEPT ![p].turn = 0]
           /\ UNCHANGED <<lock, sessionLock>>
        \/ /\ t # 0 /\ lock' = p /\ UNCHANGED sessionLock
           /\ Work(p, Key(Home(p), job[p].session, t, "post"), {}) /\ Goto(p, "begin")
    BY <1>3, Zenon DEF FinishTurn
  <2> QED
    BY <1>0, <2>1, <2>2, <2>3, <2>4, LeaveReleases, FailReleases
<1> QED
  BY <1>2, <1>3

LEMMA CheckpointTypes ==
    ASSUME TypeInv, NEW p \in Procs,
           BeginJournal(p) \/ CreateRef(p) \/ MarkCommitted(p) \/ SetActive(p) \/ Undo(p)
    PROVE  TypeInv'
<1>0. /\ TypeOK /\ Own(p) \in Streams
      /\ pc[p] \in Creating /\ job[p].item \in Checkpoint /\ job[p].kind \in Calls
  BY JobFields DEF TypeInv, Held, Creating, BeginJournal, CreateRef, MarkCommitted, SetActive, Undo
<1>1. CASE BeginJournal(p)
  <2>1. ControlType' /\ Others(p) /\ Held(p)' /\ journal' \in [Checkpoint -> JournalStates]
    BY <1>0, <1>1, GotoHolds DEF BeginJournal, TypeOK, JournalStates, Labels
  <2> QED
    BY <1>0, <1>1, <2>1, TypeStep DEF BeginJournal, TypeOK
<1>2. CASE CreateRef(p)
  <2>1. ControlType' /\ Others(p) /\ Held(p)'
    BY <1>0, <1>2, GotoHolds DEF CreateRef, Labels
  <2>2. refs' \subseteq Checkpoint /\ abandoned' \subseteq Checkpoint
    BY <1>0, <1>2 DEF CreateRef, TypeOK
  <2> QED
    BY <1>0, <1>2, <2>1, <2>2, TypeStep DEF CreateRef, TypeOK
<1>3. CASE MarkCommitted(p)
  <2>1. ControlType' /\ Others(p) /\ Held(p)' /\ journal' \in [Checkpoint -> JournalStates]
    BY <1>0, <1>3, GotoHolds DEF MarkCommitted, TypeOK, JournalStates, Labels
  <2> QED
    BY <1>0, <1>3, <2>1, TypeStep DEF MarkCommitted, TypeOK
<1>4. CASE SetActive(p)
  <2>1. active' \in [Streams -> Turns \union {0}]
    BY <1>0, <1>4 DEF SetActive, TypeOK, Checkpoint
  <2>2. pc' \in [Procs -> Labels] /\ pc'[p] = "turn" /\ \A q \in Procs \ {p} : pc'[q] = pc[q]
    BY <1>0, <1>4, GotoType DEF SetActive, Proceed, Labels
  <2>3. ControlType' /\ Others(p) /\ Held(p)'
    BY <1>0, <1>4, <2>2 DEF SetActive, Proceed, ControlType, Others, TypeOK, Held
  <2> QED
    BY <1>0, <1>4, <2>1, <2>3, TypeStep DEF SetActive, TypeOK
<1>5. CASE Undo(p)
  <2>1. Released(p) /\ refs' \subseteq Checkpoint
    BY <1>0, <1>5, FailReleases DEF Undo, TypeOK
  <2> QED
    BY <1>0, <1>5, <2>1, ReleasedHolds, TypeStep DEF Undo, TypeOK
<1> QED
  BY <1>1, <1>2, <1>3, <1>4, <1>5

LEMMA FaultTypes ==
    ASSUME TypeInv, NEW p \in Procs, Fault(p)
    PROVE  TypeInv'
<1>0. TypeOK /\ faults + 1 \in Nat /\ Own(p) \in Streams
  BY JobFields DEF TypeInv, TypeOK
<1>1. CASE CreateFails(p)
  <2>1. Released(p) /\ journal' \in [Checkpoint -> JournalStates]
    BY <1>0, <1>1, FailReleases DEF CreateFails, TypeOK, JournalStates
  <2> QED
    BY <1>0, <1>1, <2>1, ReleasedHolds, TypeStep DEF CreateFails, TypeOK
<1>2. CASE StepFails(p)
  <2>1. job[p].item \in Checkpoint /\ pc[p] # "idle"
    BY <1>2 DEF StepFails, TypeInv, Held, Creating
  <2>2. journal' \in [Checkpoint -> JournalStates] /\ abandoned' \subseteq Checkpoint
    BY <1>0, <1>2, <2>1 DEF StepFails, TypeOK, JournalStates
  <2>3. ControlType' /\ Others(p) /\ Held(p)'
    BY <1>0, <1>2, <2>1, GotoHolds DEF StepFails, Labels
  <2> QED
    BY <1>0, <1>2, <2>2, <2>3, TypeStep DEF StepFails, TypeOK
<1>3. CASE ClearActiveFails(p) \/ Kill(p)
  <2>1. Released(p)
    BY <1>0, <1>3, FailReleases, LeaveReleases DEF ClearActiveFails, Kill
  <2> QED
    BY <1>0, <1>3, <2>1, ReleasedHolds, TypeStep DEF ClearActiveFails, Kill, TypeOK
<1>4. CASE Tear(p)
  <2>1. Released(p) /\ torn' \in [Streams -> BOOLEAN]
    BY <1>0, <1>4, LeaveReleases DEF Tear, TypeOK
  <2> QED
    BY <1>0, <1>4, <2>1, ReleasedHolds, TypeStep DEF Tear, TypeOK
<1> QED
  BY <1>1, <1>2, <1>3, <1>4 DEF Fault

LEMMA TypeNext == TypeInv /\ [Next]_vars => TypeInv'
<1> SUFFICES ASSUME TypeInv, [Next]_vars PROVE TypeInv'
  OBVIOUS
<1>1. CASE UNCHANGED vars
  BY <1>1 DEF vars, TypeInv, TypeOK, Held
<1>2. ASSUME NEW p \in Procs, CallAny(p) \/ Step(p) \/ Fault(p) PROVE TypeInv'
  BY <1>2, CallTypes, RecoveryTypes, EventTypes, HookTypes, TurnTypes, CheckpointTypes,
     FaultTypes DEF Step
<1> QED
  BY <1>1, <1>2 DEF Next

\* Every variable keeps its type for any number of processes, sessions and worktrees.
\* Above all no turn number exceeds the largest: Start asks NextTurnID first.
THEOREM TypeCorrect == Spec => []TypeOK
<1>1. Spec => []TypeInv
  BY TypeInit, TypeNext, PTL DEF Spec
<1>2. TypeInv => TypeOK
  BY DEF TypeInv
<1> QED
  BY <1>1, <1>2, PTL

----------------------------------------------------------------------------
(* Safety: a store that one worktree uses                                  *)

OneWorktree == Worktrees = {Primary}

\* A process relies on a checkpoint: it is about to append its events, to clear the
\* active turn, or to append the prompt.
Uses(q, k) ==
    \/ pc[q] \in Appending \union {"settle"} /\ job[q].item = k
    \/ pc[q] = "prompt" /\ Key(Home(q), job[q].session, job[q].turn, "pre") = k

\* Nobody else knows of the checkpoint that Start or Finish makes, so it may be undone.
Exclusive(p) ==
    /\ \A q \in Procs \ {p} : ~Uses(q, job[p].item)
    /\ \A st \in Streams : \A i \in DOMAIN stream[st] :
           LET e == stream[st][i]
           IN  Key(e.of, st[2], e.turn, e.phase) # job[p].item

\* Making a checkpoint and recovery are under the workspace lock.
Locked(p) ==
    /\ pc[p] \in Creating \union {"recover", "settle"} => lock = p
    /\ lock = p => pc[p] \in Creating \union Appending \union {"recover", "settle"}

\* What Start and Finish checked stays true while they hold the lock.
Creator(p) ==
    pc[p] \in Creating =>
        /\ job[p].todo = {}
        /\ job[p].item.session = job[p].session
        /\ active[Own(p)] \in {0, job[p].item.turn}
        /\ job[p].item.phase = "pre" => active[Own(p)] = 0
        /\ pc[p] \in {"begin", "ref"} => job[p].item \notin refs
        /\ pc[p] \in {"commit", "active"} => job[p].item \in refs \ abandoned
        /\ pc[p] = "ref" => journal[job[p].item] = "intent"
        /\ Exclusive(p)

CheckpointRecorded(k) == Recorded(<<k.home, k.session>>, "checkpoint", k.turn, k.phase)

\* A process that goes on with a checkpoint finds its ref, and it removes the journal
\* when the event is in the stream.
Follower(p) ==
    /\ \A k \in Checkpoint : Uses(p, k) => k \in refs
    /\ pc[p] = "settle" => job[p].item.phase = "post"
    /\ pc[p] \in Appending /\ lock # p => job[p].item.session = job[p].session
    /\ pc[p] \in {"read", "write", "clear"} => CheckpointRecorded(job[p].item)

\* What a process listed as finalized is recorded.
Listed(p) ==
    lock = p => \A k \in refs \ abandoned :
                    <<k, "finalized">> \in job[p].todo => CheckpointRecorded(k)

ProcInv(p) == Locked(p) /\ Creator(p) /\ Follower(p) /\ Listed(p)

Inv ==
    /\ RecordedOrJournaled /\ EventsBacked /\ ActiveBacked
    /\ \A p \in Procs : ProcInv(p)

LEMMA SameHome ==
    ASSUME OneWorktree, TypeOK
    PROVE  /\ \A p \in Procs : Home(p) = Primary
           /\ \A k \in Checkpoint : k.home = Primary /\ AsNamedBy(Primary, k) = k
           /\ \A st \in Streams : st = <<Primary, st[2]>> /\ st[2] \in Sessions
<1>1. \A p \in Procs : Home(p) = Primary
  BY JobFields DEF OneWorktree
<1>2. ASSUME NEW k \in Checkpoint PROVE k.home = Primary /\ AsNamedBy(Primary, k) = k
  BY DEF OneWorktree, Checkpoint, AsNamedBy
<1>3. ASSUME NEW st \in Streams PROVE st = <<Primary, st[2]>> /\ st[2] \in Sessions
  BY DEF OneWorktree, Streams
<1> QED
  BY <1>1, <1>2, <1>3

\* Streams only grow, and only by events of a checkpoint the process relies on.
Grows(p) ==
    \A st \in Streams :
        /\ \A i \in DOMAIN stream[st] : i \in DOMAIN stream'[st] /\ stream'[st][i] = stream[st][i]
        /\ \A i \in DOMAIN stream'[st] \ DOMAIN stream[st] :
               LET e == stream'[st][i]
               IN  Uses(p, Key(e.of, st[2], e.turn, e.phase))

LockStep(p) ==
    \/ lock' = lock
    \/ lock = NoProc /\ lock' = p
    \/ lock = p /\ lock' = NoProc

\* What p newly relies on is nobody's work in progress.
JoinsFinished(p) ==
    \A k \in Checkpoint : Uses(p, k)' =>
        \A q \in Procs \ {p} : pc[q] \in Creating => job[q].item # k

\* The shared state changes under the lock, or about a checkpoint p relies on.
Disciplined(p) ==
    /\ UNCHANGED <<refs, abandoned, active>> \/ lock = p
    /\ \A k \in refs : k \in refs' \/ (pc[p] \in Creating /\ k = job[p].item)
    /\ \A k \in Checkpoint : journal'[k] = journal[k] \/ lock = p \/ Uses(p, k)
    /\ Grows(p) /\ LockStep(p) /\ JoinsFinished(p)

LEMMA RecordedStays ==
    ASSUME NEW p \in Procs, Grows(p), NEW st \in Streams, NEW kind, NEW t, NEW phase,
           Recorded(st, kind, t, phase)
    PROVE  Recorded(st, kind, t, phase)'
<1>1. PICK i \in DOMAIN stream[st] :
          stream[st][i].kind = kind /\ stream[st][i].turn = t /\ stream[st][i].phase = phase
  BY DEF Recorded
<1>2. i \in DOMAIN stream'[st] /\ stream'[st][i] = stream[st][i]
  BY DEF Grows
<1> QED
  BY <1>1, <1>2 DEF Recorded

LEMMA CheckpointStays ==
    ASSUME NEW p \in Procs, Grows(p), NEW k \in Checkpoint, CheckpointRecorded(k)
    PROVE  CheckpointRecorded(k)'
<1>1. <<k.home, k.session>> \in Streams
  BY DEF Checkpoint, Streams
<1> QED
  BY <1>1, RecordedStays DEF CheckpointRecorded

\* A step of p hurts no other process.
LEMMA OthersKeep ==
    ASSUME TypeInv, Inv, OneWorktree, NEW p \in Procs, Others(p), Disciplined(p),
           NEW q \in Procs \ {p}
    PROVE  ProcInv(q)'
<1>0. /\ ProcInv(q) /\ ProcInv(p) /\ pc'[q] = pc[q] /\ job'[q] = job[q] /\ q # NoProc /\ q # p
      /\ TypeOK
  BY TurnAssumption DEF Inv, Others, TypeInv
<1>1. (lock' = q) <=> (lock = q)
  BY <1>0 DEF Disciplined, LockStep
<1>2. lock = q => UNCHANGED <<refs, abandoned, active>>
  BY <1>0 DEF Disciplined
<1>3. \A k : Uses(q, k)' <=> Uses(q, k)
  BY <1>0 DEF Uses, Home
<1>4. Locked(q)'
  BY <1>0, <1>1 DEF ProcInv, Locked
<1>5. Creator(q)'
  <2> SUFFICES ASSUME pc[q] \in Creating PROVE Creator(q)'
    BY <1>0 DEF Creator
  <2>1. lock = q /\ job[q].item \in Checkpoint /\ Own(q)' = Own(q) /\ Exclusive(q)
    BY <1>0 DEF ProcInv, Locked, Creator, TypeInv, Held, Own, Home
  <2>2. journal'[job[q].item] = journal[job[q].item]
    BY <1>0, <2>1 DEF Disciplined, Exclusive
  <2>3. \A r \in Procs \ {q} : ~Uses(r, job[q].item)'
    <3> TAKE r \in Procs \ {q}
    <3>1. CASE r = p
      BY <1>0, <2>1, <3>1 DEF Disciplined, JoinsFinished
    <3>2. CASE r # p
      <4>1. pc'[r] = pc[r] /\ job'[r] = job[r]
        BY <3>2 DEF Others
      <4> QED
        BY <1>0, <2>1, <4>1 DEF Exclusive, Uses, Home
    <3> QED
      BY <3>1, <3>2
  <2>4. ASSUME NEW st \in Streams, NEW i \in DOMAIN stream'[st]
        PROVE  Key(stream'[st][i].of, st[2], stream'[st][i].turn, stream'[st][i].phase)
                   # job[q].item
    <3>1. CASE i \in DOMAIN stream[st]
      BY <2>1, <3>1 DEF Disciplined, Grows, Exclusive
    <3>2. CASE i \notin DOMAIN stream[st]
      BY <1>0, <2>1, <3>2 DEF Disciplined, Grows, Exclusive
    <3> QED
      BY <3>1, <3>2
  <2>5. Exclusive(q)'
    BY <1>0, <2>3, <2>4 DEF Exclusive
  <2> QED
    BY <1>0, <1>2, <2>1, <2>2, <2>5 DEF ProcInv, Creator
<1>6. Follower(q)'
  <2>1. ASSUME NEW k \in Checkpoint, Uses(q, k) PROVE k \in refs'
    <3>1. k \in refs
      BY <1>0, <2>1 DEF ProcInv, Follower
    <3>2. ~(pc[p] \in Creating /\ k = job[p].item)
      BY <1>0, <2>1 DEF ProcInv, Creator, Exclusive
    <3> QED
      BY <3>1, <3>2 DEF Disciplined
  <2>2. pc[q] \in {"read", "write", "clear"} => CheckpointRecorded(job[q].item)'
    <3> SUFFICES ASSUME pc[q] \in {"read", "write", "clear"}
                 PROVE  CheckpointRecorded(job[q].item)'
      OBVIOUS
    <3>1. job[q].item \in Checkpoint /\ CheckpointRecorded(job[q].item)
      BY <1>0 DEF ProcInv, Follower, TypeInv, Held, Appending
    <3> DEFINE k == job[q].item
    <3>2. k' = k
      BY <1>0
    <3> HIDE DEF k
    <3>3. CheckpointRecorded(k)'
      BY <1>0, <3>1, <3>2, CheckpointStays DEF Disciplined, k
    <3> QED
      BY <3>3 DEF k
  <2> QED
    BY <1>0, <1>1, <1>3, <2>1, <2>2 DEF ProcInv, Follower
<1>7. Listed(q)'
  BY <1>0, <1>1, <1>2, CheckpointStays DEF ProcInv, Listed, Disciplined, TypeOK
<1> QED
  BY <1>4, <1>5, <1>6, <1>7 DEF ProcInv

LEMMA EventsStayBacked ==
    ASSUME TypeInv', Inv, NEW p \in Procs, Disciplined(p)
    PROVE  EventsBacked'
<1> SUFFICES ASSUME NEW st \in Streams, NEW i \in DOMAIN stream'[st]
             PROVE  Key(stream'[st][i].of, st[2], stream'[st][i].turn, stream'[st][i].phase)
                        \in refs'
  BY DEF EventsBacked
<1> DEFINE e == stream'[st][i]
           k == Key(e.of, st[2], e.turn, e.phase)
<1>1. k \in refs /\ ~(pc[p] \in Creating /\ k = job[p].item)
  <2>1. CASE i \in DOMAIN stream[st]
    <3>1. e = stream[st][i]
      BY <2>1 DEF Disciplined, Grows
    <3>2. k \in refs
      BY <2>1, <3>1 DEF Inv, EventsBacked
    <3>3. pc[p] \in Creating => k # job[p].item
      BY <2>1, <3>1 DEF Inv, ProcInv, Creator, Exclusive
    <3> QED
      BY <3>2, <3>3
  <2>2. CASE i \notin DOMAIN stream[st]
    <3>1. Uses(p, k)
      BY <2>2 DEF Disciplined, Grows
    <3>2. pc[p] \notin Creating
      BY <3>1 DEF Uses, Creating, Appending
    <3>3. k \in Checkpoint
      <4>1. stream'[st] \in Seq(Event)
        BY DEF TypeInv, TypeOK
      <4>2. e \in Event
        BY <4>1
      <4> HIDE DEF e
      <4> QED
        BY <4>2 DEF Streams, Event, Checkpoint, Key
    <3>4. k \in refs
      BY <3>1, <3>3 DEF Inv, ProcInv, Follower
    <3> QED
      BY <3>2, <3>4
  <2> QED
    BY <2>1, <2>2
<1> HIDE DEF k
<1>2. k \in refs'
  BY <1>1 DEF Disciplined
<1> QED
  BY <1>2 DEF k

LEMMA SafetyStep ==
    ASSUME TypeInv, TypeInv', Inv, OneWorktree, NEW p \in Procs, Others(p), Disciplined(p),
           ProcInv(p)', RecordedOrJournaled', ActiveBacked'
    PROVE  Inv'
  BY OthersKeep, EventsStayBacked DEF Inv

\* A step that leaves the shared state alone.
SharedSame == UNCHANGED <<refs, journal, active, stream, abandoned>>

LEMMA SameGrows ==
    ASSUME NEW p \in Procs, UNCHANGED stream
    PROVE  Grows(p)
  BY DEF Grows

LEMMA ControlStep ==
    ASSUME TypeInv, TypeInv', Inv, OneWorktree, NEW p \in Procs, Others(p), SharedSame,
           LockStep(p), JoinsFinished(p), ProcInv(p)'
    PROVE  Inv'
<1>1. Disciplined(p)
  BY SameGrows DEF SharedSame, Disciplined
<1>2. RecordedOrJournaled' /\ ActiveBacked'
  BY DEF SharedSame, Inv, RecordedOrJournaled, ActiveBacked, Recorded
<1> QED
  BY <1>1, <1>2, SafetyStep

\* Labels at which a process relies on nothing.
Free == Labels \ (Creating \union Appending \union {"recover", "settle", "prompt"})

LEMMA FreeHolds ==
    ASSUME NEW p \in Procs, pc'[p] \in Free, lock' # p
    PROVE  ProcInv(p)' /\ JoinsFinished(p)
<1>1. \A k : ~Uses(p, k)'
  BY DEF Uses, Free
<1>2. ProcInv(p)'
  BY <1>1 DEF ProcInv, Locked, Creator, Follower, Listed, Free, Appending
<1> QED
  BY <1>1, <1>2 DEF JoinsFinished

LEMMA ReleasedFree ==
    ASSUME NEW p \in Procs, Released(p)
    PROVE  pc'[p] \in Free /\ lock' # p /\ LockStep(p) /\ Others(p)
  BY TurnAssumption DEF Released, Free, Labels, Creating, Appending, LockStep

\* A call ends, or fails, and the shared state stays as it is.
LEMMA ReleaseStep ==
    ASSUME TypeInv, TypeInv', Inv, OneWorktree, NEW p \in Procs, Released(p), SharedSame
    PROVE  Inv'
  BY ReleasedFree, FreeHolds, ControlStep

\* At most one process makes a checkpoint or recovers.
LEMMA OneHolder ==
    ASSUME Inv, NEW p \in Procs, lock = p, NEW q \in Procs \ {p}
    PROVE  pc[q] \notin Creating \union {"recover", "settle"}
  BY DEF Inv, ProcInv, Locked

LEMMA HolderJoinsFinished ==
    ASSUME Inv, NEW p \in Procs, lock = p
    PROVE  JoinsFinished(p)
  BY OneHolder DEF JoinsFinished

LEMMA KeepsJoined ==
    ASSUME Inv, NEW p \in Procs, \A k \in Checkpoint : Uses(p, k)' => Uses(p, k)
    PROVE  JoinsFinished(p)
<1> SUFFICES ASSUME NEW k \in Checkpoint, Uses(p, k), NEW q \in Procs \ {p}, pc[q] \in Creating
             PROVE  job[q].item # k
  BY DEF JoinsFinished
<1> QED
  BY DEF Inv, ProcInv, Creator, Exclusive

LEMMA SafeCalls ==
    ASSUME TypeInv, TypeInv', Inv, OneWorktree, NEW p \in Procs,
           CallAny(p) \/ LockSession(p) \/ TimeOut(p)
    PROVE  Inv'
<1>0. TypeOK
  BY DEF TypeInv
<1>1. CASE CallAny(p)
  <2>1. PICK kind \in Calls, s \in Sessions, t \in Requested : Call(p, kind, s, t)
    BY <1>1 DEF CallAny
  <2>2. /\ Others(p) /\ pc'[p] \in Free /\ SharedSame /\ lock' = lock /\ pc[p] = "idle"
    BY <1>0, <2>1
       DEF Call, Goto, Others, Free, Labels, Creating, Appending, SharedSame, TypeOK
  <2>3. lock' # p
    BY <2>2 DEF Inv, ProcInv, Locked, Creating, Appending
  <2> QED
    BY <2>2, <2>3, FreeHolds, ControlStep DEF LockStep
<1>2. CASE LockSession(p)
  <2>2. /\ Others(p) /\ pc'[p] \in Free /\ SharedSame /\ lock' = lock /\ pc[p] = "session"
    BY <1>0, <1>2
       DEF LockSession, Goto, Others, Free, Labels, Creating, Appending, SharedSame, TypeOK
  <2>3. lock' # p
    BY <2>2 DEF Inv, ProcInv, Locked, Creating, Appending
  <2> QED
    BY <2>2, <2>3, FreeHolds, ControlStep DEF LockStep
<1>3. CASE TimeOut(p)
  BY <1>0, <1>3, LeaveReleases, FailReleases, ReleaseStep DEF TimeOut, SharedSame
<1> QED
  BY <1>1, <1>2, <1>3

LEMMA SafeHook ==
    ASSUME TypeInv, TypeInv', Inv, OneWorktree, NEW p \in Procs, Hook(p) \/ AppendError(p)
    PROVE  Inv'
<1>0. TypeOK /\ Own(p) \in Streams /\ Own(p) = <<Primary, job[p].session>>
  BY JobFields, SameHome DEF TypeInv, Own
<1>1. CASE Hook(p)
  <2> DEFINE t == active[Own(p)]
             k == Key(Primary, job[p].session, t, "pre")
  <2>1. lock # p /\ pc[p] = "hook" /\ SharedSame
    BY <1>1 DEF Hook, Inv, ProcInv, Locked, Creating, Appending, SharedSame
  <2>2. CASE Released(p)
    BY <2>1, <2>2, ReleaseStep
  <2>3. CASE Goto(p, "start") /\ UNCHANGED <<job, lock, sessionLock>>
    <3>1. Others(p) /\ pc'[p] \in Free /\ lock' = lock
      BY <1>0, <2>3, GotoControl DEF Free, Labels, Creating, Appending
    <3> QED
      BY <2>1, <3>1, FreeHolds, ControlStep DEF LockStep
  <2>4. ASSUME NEW label \in {"prompt", "finish"}, t # 0, Goto(p, label),
               job' = [job EXCEPT ![p].turn = t], UNCHANGED <<lock, sessionLock>>
        PROVE  Inv'
    <3>1. /\ pc'[p] = label /\ \A q \in Procs \ {p} : pc'[q] = pc[q]
      BY <1>0, <2>4, GotoType DEF Labels
    <3>2. /\ \A q \in Procs \ {p} : job'[q] = job[q]
          /\ job'[p].session = job[p].session /\ job'[p].turn = t
      BY <1>0, <2>4 DEF TypeOK, Job
    <3>3. Others(p) /\ lock' # p /\ LockStep(p)
      BY <2>1, <2>4, <3>1, <3>2 DEF Others, LockStep
    <3>4. CASE label = "finish"
      <4>1. pc'[p] \in Free
        BY <3>1, <3>4 DEF Free, Labels, Creating, Appending
      <4> QED
        BY <2>1, <3>3, <4>1, FreeHolds, ControlStep
    <3>5. CASE label = "prompt"
      <4>1. k \in refs /\ k \notin abandoned /\ k \in Checkpoint
        BY <1>0, <2>4 DEF Inv, ActiveBacked, TypeOK
      <4>2. \A c \in Checkpoint : Uses(p, c)' => c = k
        <5>1. Home(p)' = Primary
          BY <1>0, <3>2, SameHome DEF Home
        <5> QED
          BY <3>1, <3>2, <3>5, <5>1 DEF Uses, Appending
      <4>3. ASSUME NEW q \in Procs \ {p}, pc[q] \in Creating, job[q].item = k PROVE FALSE
        <5>1. /\ job[q].item.session = job[q].session
              /\ job[q].item.phase = "pre" => active[Own(q)] = 0
          BY <4>3 DEF Inv, ProcInv, Creator
        <5>2. job[q].session = job[p].session /\ job[q].item.phase = "pre"
          BY <4>3, <5>1 DEF Key
        <5>3. Own(q) = Own(p)
          BY <1>0, <5>2, SameHome DEF Own
        <5> QED
          BY <2>4, <5>1, <5>2, <5>3
      <4>4. JoinsFinished(p)
        BY <4>2, <4>3 DEF JoinsFinished
      <4>5. ProcInv(p)'
        BY <2>1, <3>1, <3>3, <3>5, <4>1, <4>2
           DEF ProcInv, Locked, Creator, Follower, Listed, Creating, Appending, SharedSame
      <4> QED
        BY <2>1, <3>3, <4>4, <4>5, ControlStep
    <3> QED
      BY <3>4, <3>5
  <2>5. \/ Fail(p) \/ Leave(p)
        \/ Goto(p, "start") /\ UNCHANGED <<job, lock, sessionLock>>
        \/ \E label \in {"prompt", "finish"} :
               /\ t # 0 /\ Goto(p, label) /\ job' = [job EXCEPT ![p].turn = t]
               /\ UNCHANGED <<lock, sessionLock>>
    BY <1>1 DEF Hook
  <2> QED
    BY <1>0, <2>2, <2>3, <2>4, <2>5, LeaveReleases, FailReleases
<1>2. CASE AppendError(p)
  BY <1>0, <1>2, LeaveReleases, ReleaseStep DEF AppendError, SharedSame
<1> QED
  BY <1>1, <1>2

\* A process that holds the lock and only recovers.
LEMMA RecovererHolds ==
    ASSUME Inv, NEW p \in Procs, lock = p, lock' = p,
           pc'[p] \in {"recover", "turn", "settle"}, Grows(p), UNCHANGED <<refs, abandoned>>, job'[p].todo \subseteq job[p].todo,
           pc'[p] # "recover" => job'[p].item \in refs, refs \subseteq Checkpoint,
           pc'[p] = "settle" => job'[p].item.phase = "post"
    PROVE  ProcInv(p)'
<1>1. Locked(p)' /\ Creator(p)'
  BY DEF Locked, Creator, Creating, Appending
<1>2. Follower(p)'
  BY DEF Follower, Uses, Appending
<1>3. Listed(p)'
  <2> SUFFICES ASSUME NEW k \in refs \ abandoned, <<k, "finalized">> \in job'[p].todo
               PROVE  CheckpointRecorded(k)'
    BY DEF Listed
  <2>1. CheckpointRecorded(k)
    BY DEF Inv, ProcInv, Listed
  <2> QED
    BY <2>1, CheckpointStays
<1> QED
  BY <1>1, <1>2, <1>3 DEF ProcInv

LEMMA SafeRecovery ==
    ASSUME TypeInv, TypeInv', Inv, OneWorktree, NEW p \in Procs,
           Enter(p) \/ RecoverOne(p) \/ RecoveryDone(p) \/ Settle(p)
    PROVE  Inv'
<1>0. TypeOK /\ job[p].todo \in SUBSET (Checkpoint \X JournalStates) /\ Home(p) = Primary
  BY JobFields, SameHome DEF TypeInv
<1>1. CASE Enter(p)
  <2> DEFINE listed == {<<k, journal[k]>> : k \in {c \in Checkpoint : journal[c] # "none"}}
  <2>1. /\ Work(p, Nil, listed) /\ Goto(p, "recover") /\ lock = NoProc /\ lock' = p
        /\ SharedSame /\ "recover" \in Labels
    BY <1>1 DEF Enter, SharedSame, Labels
  <2>2. listed \in SUBSET (Checkpoint \X JournalStates)
    BY <1>0 DEF TypeOK
  <2> HIDE DEF listed
  <2>3. Others(p) /\ pc'[p] = "recover" /\ job'[p].todo = listed
    <3>1. Others(p) /\ pc'[p] = "recover"
      BY <1>0, <2>1, <2>2, MoveType
    <3>2. job'[p].todo = listed
      BY <1>0, <2>1, <2>2, WorkType
    <3> QED
      BY <3>1, <3>2
  <2>4. Listed(p)'
    <3>0. UNCHANGED <<refs, abandoned>> /\ \A k : CheckpointRecorded(k)' <=> CheckpointRecorded(k)
      BY <2>1 DEF SharedSame, CheckpointRecorded, Recorded
    <3> SUFFICES ASSUME NEW k \in refs \ abandoned, <<k, "finalized">> \in listed
                 PROVE  CheckpointRecorded(k)
      BY <2>3, <3>0 DEF Listed
    <3>1. journal[k] = "finalized"
      BY DEF listed
    <3> QED
      BY <3>1 DEF Inv, RecordedOrJournaled, CheckpointRecorded
  <2>5. ProcInv(p)' /\ JoinsFinished(p)
    BY <2>1, <2>3, <2>4
       DEF ProcInv, Locked, Creator, Follower, Uses, Creating, Appending, JoinsFinished
  <2> QED
    BY <2>1, <2>3, <2>5, ControlStep DEF LockStep
<1>2. CASE RecoverOne(p)
  <2>1. lock = p /\ pc[p] = "recover" /\ UNCHANGED <<refs, active, stream, torn, abandoned, faults>>
    BY <1>2 DEF RecoverOne, Inv, ProcInv, Locked
  <2>2. PICK entry \in job[p].todo :
            LET k == entry[1]
                mine == AsNamedBy(Home(p), k)
                rest == job[p].todo \ {entry}
            IN  \/ /\ entry[2] = "finalized" \/ (entry[2] = "intent" /\ mine \notin refs)
                   /\ journal' = [journal EXCEPT ![mine] = "none"]
                   /\ Work(p, Nil, rest) /\ UNCHANGED <<pc, lock, sessionLock>>
                \/ /\ mine \in refs /\ journal' = [journal EXCEPT ![mine] = "committed"]
                   /\ Work(p, k, rest) /\ Goto(p, "turn") /\ UNCHANGED <<lock, sessionLock>>
                \/ /\ k \in refs
                   /\ Work(p, k, rest) /\ Goto(p, "turn")
                   /\ UNCHANGED <<journal, lock, sessionLock>>
                \/ Leave(p) /\ UNCHANGED journal
    BY <1>2, Zenon DEF RecoverOne
  <2> DEFINE k == entry[1]
             rest == job[p].todo \ {entry}
  <2>3. /\ k \in Checkpoint /\ AsNamedBy(Home(p), k) = k
        /\ rest \in SUBSET (Checkpoint \X JournalStates) /\ entry = <<k, entry[2]>>
    BY <1>0, SameHome
  <2>4. refs \subseteq Checkpoint /\ Grows(p) /\ JoinsFinished(p) /\ ActiveBacked'
    BY <1>0, <2>1, SameGrows, HolderJoinsFinished DEF TypeOK, Inv, ActiveBacked
  <2>5. CASE /\ entry[2] = "finalized" \/ (entry[2] = "intent" /\ k \notin refs)
             /\ journal' = [journal EXCEPT ![k] = "none"]
             /\ Work(p, Nil, rest) /\ UNCHANGED <<pc, lock, sessionLock>>
    <3>1. Others(p) /\ job'[p].todo = rest
      BY <1>0, <2>3, <2>5, WorkType DEF Others
    <3>2. ProcInv(p)'
      BY <2>1, <2>4, <2>5, <3>1, RecovererHolds
    <3>3. RecordedOrJournaled'
      <4>1. k \in refs \ abandoned => CheckpointRecorded(k)
        BY <2>1, <2>3, <2>5 DEF Inv, ProcInv, Listed
      <4>2. \A c \in Checkpoint : CheckpointRecorded(c)' <=> CheckpointRecorded(c)
        BY <2>1 DEF CheckpointRecorded, Recorded
      <4>3. \A c \in Checkpoint : c # k => journal'[c] = journal[c]
        BY <1>0, <2>5 DEF TypeOK
      <4> QED
        BY <1>0, <2>1, <4>1, <4>2, <4>3
           DEF Inv, RecordedOrJournaled, CheckpointRecorded, TypeOK
    <3>4. Disciplined(p)
      BY <2>1, <2>4, <2>5 DEF Disciplined, LockStep
    <3> QED
      BY <2>4, <3>1, <3>2, <3>3, <3>4, SafetyStep
  <2>6. CASE /\ k \in refs /\ (journal' = [journal EXCEPT ![k] = "committed"] \/ UNCHANGED journal)
             /\ Work(p, k, rest) /\ Goto(p, "turn") /\ UNCHANGED <<lock, sessionLock>>
    <3>1. Others(p) /\ job'[p].todo = rest /\ job'[p].item = k /\ pc'[p] = "turn"
      BY <1>0, <2>3, <2>6, WorkType, MoveType DEF Labels
    <3>2. ProcInv(p)'
      BY <2>1, <2>4, <2>6, <3>1, RecovererHolds
    <3>3. RecordedOrJournaled'
      BY <1>0, <2>1, <2>3, <2>6 DEF Inv, RecordedOrJournaled, Recorded, TypeOK
    <3>4. Disciplined(p)
      BY <2>1, <2>4, <2>6 DEF Disciplined, LockStep
    <3> QED
      BY <2>4, <3>1, <3>2, <3>3, <3>4, SafetyStep
  <2>7. CASE Leave(p) /\ UNCHANGED journal
    BY <1>0, <2>1, <2>7, LeaveReleases, ReleaseStep DEF SharedSame
  <2> QED
    BY <2>2, <2>3, <2>5, <2>6, <2>7
<1>3. CASE RecoveryDone(p)
  <2> DEFINE label == IF IsHook(p) THEN "hook" ELSE job[p].kind
  <2>1. job[p].kind \in Calls /\ lock = p
    BY <1>3 DEF RecoveryDone, TypeInv, Held, Inv, ProcInv, Locked
  <2>2. label \in {"hook", "start", "finish"} /\ label \in Labels
    BY <2>1, TurnAssumption DEF IsHook, HookCalls, CLICalls, Labels
  <2>3. Goto(p, label) /\ Work(p, Nil, {}) /\ lock' = NoProc /\ SharedSame
    BY <1>3 DEF RecoveryDone, Proceed, SharedSame
  <2>4. Others(p) /\ pc'[p] = label
    BY <1>0, <2>2, <2>3, MoveType
  <2> HIDE DEF label
  <2>5. pc'[p] \in Free /\ lock' # p
    BY <2>2, <2>3, <2>4, TurnAssumption DEF Free, Labels, Creating, Appending
  <2> QED
    BY <2>1, <2>3, <2>4, <2>5, FreeHolds, ControlStep DEF LockStep
<1>4. CASE Settle(p)
  <2> DEFINE st == <<Home(p), job[p].item.session>>
  <2>1. lock = p /\ pc[p] = "settle" /\ UNCHANGED <<refs, journal, stream, abandoned>>
    BY <1>4 DEF Settle, Inv, ProcInv, Locked
  <2>2. CASE /\ Goto(p, "recover") /\ UNCHANGED <<job, lock, sessionLock>>
             /\ active' = [active EXCEPT ![st] = 0] \/ UNCHANGED active
    <3>1. Others(p) /\ pc'[p] = "recover" /\ job' = job /\ lock' = p
      BY <1>0, <2>1, <2>2, GotoControl DEF Labels
    <3>2. Grows(p) /\ JoinsFinished(p) /\ refs \subseteq Checkpoint
      BY <1>0, <2>1, SameGrows, HolderJoinsFinished DEF TypeOK
    <3>3. ProcInv(p)'
      BY <2>1, <3>1, <3>2, RecovererHolds
    <3>4. RecordedOrJournaled'
      BY <2>1 DEF Inv, RecordedOrJournaled, Recorded
    <3>5. ActiveBacked'
      BY <1>0, <2>1, <2>2 DEF Inv, ActiveBacked, TypeOK
    <3>6. Disciplined(p)
      BY <2>1, <3>1, <3>2 DEF Disciplined, LockStep
    <3> QED
      BY <3>1, <3>3, <3>4, <3>5, <3>6, SafetyStep
  <2>3. CASE Leave(p) /\ UNCHANGED active
    BY <1>0, <2>1, <2>3, LeaveReleases, ReleaseStep DEF SharedSame
  <2> QED
    BY <1>4, <2>2, <2>3 DEF Settle
<1> QED
  BY <1>1, <1>2, <1>3, <1>4

\* What a process at one of the labels of its events knows.
LEMMA AtEvents ==
    ASSUME TypeInv, Inv, OneWorktree, NEW p \in Procs, pc[p] \in Appending
    PROVE  /\ job[p].item \in Checkpoint /\ Uses(p, job[p].item) /\ job[p].item \in refs
           /\ Unscoped(job[p].item) = job[p].item
           /\ StreamFor(p) = <<job[p].item.home, job[p].item.session>>
           /\ StreamFor(p) \in Streams
           /\ Home(p) = Primary /\ job[p].item.home = Primary
           /\ lock # p => job[p].item.session = job[p].session
<1>1. job[p].item \in Checkpoint /\ Uses(p, job[p].item)
  BY DEF TypeInv, Held, Uses
<1>2. job[p].item \in refs /\ (lock # p => job[p].item.session = job[p].session)
  BY <1>1 DEF Inv, ProcInv, Follower
<1>3. Home(p) = Primary /\ job[p].item.home = Primary /\ Unscoped(job[p].item) = job[p].item
  BY <1>1, SameHome DEF TypeInv, Unscoped
<1>4. StreamFor(p) = <<job[p].item.home, job[p].item.session>> /\ StreamFor(p) \in Streams
  BY <1>1, <1>3 DEF StreamFor, Checkpoint, Streams
<1> QED
  BY <1>1, <1>2, <1>3, <1>4

LEMMA AppendOnceGrows ==
    ASSUME TypeInv, Inv, OneWorktree, NEW p \in Procs, pc[p] \in Appending,
           NEW e \in Event, e.of = Primary, e.turn = job[p].item.turn,
           e.phase = job[p].item.phase, AppendOnce(p, e), NEW st, st = StreamFor(p)
    PROVE  Grows(p) /\ Recorded(st, e.kind, e.turn, e.phase)'
<1> DEFINE s == stream[st]
<1>0. /\ st \in Streams /\ st = <<Primary, job[p].item.session>> /\ s \in Seq(Event)
      /\ stream \in [Streams -> Seq(Event)]
      /\ job[p].item \in Checkpoint /\ job[p].item.home = Primary /\ Uses(p, job[p].item)
  BY AtEvents DEF TypeInv, TypeOK
<1>1. CASE Recorded(st, e.kind, e.turn, e.phase)
  <2>1. UNCHANGED stream
    BY <1>1 DEF AppendOnce
  <2> QED
    BY <1>0, <1>1, <2>1, SameGrows DEF Recorded
<1>2. CASE ~Recorded(st, e.kind, e.turn, e.phase)
  <2>1. stream' = [stream EXCEPT ![st] = Append(s, e)]
    BY <1>0, <1>2 DEF AppendOnce
  <2>2. /\ stream'[st] = Append(s, e)
        /\ \A other \in Streams : other # st => stream'[other] = stream[other]
    BY <1>0, <2>1
  <2> HIDE DEF s
  <2>3. /\ DOMAIN stream'[st] = 1 .. Len(s) + 1 /\ DOMAIN s = 1 .. Len(s)
        /\ stream'[st][Len(s) + 1] = e /\ Len(s) \in Nat
        /\ \A i \in 1 .. Len(s) : stream'[st][i] = s[i]
    BY <1>0, <2>2
  <2>4. Key(e.of, st[2], e.turn, e.phase) = job[p].item
    BY <1>0 DEF Key, Checkpoint
  <2>5. Grows(p)
    <3> SUFFICES ASSUME NEW other \in Streams
                 PROVE  /\ \A i \in DOMAIN stream[other] :
                               /\ i \in DOMAIN stream'[other]
                               /\ stream'[other][i] = stream[other][i]
                        /\ \A i \in DOMAIN stream'[other] \ DOMAIN stream[other] :
                               Uses(p, Key(stream'[other][i].of, other[2],
                                           stream'[other][i].turn, stream'[other][i].phase))
      BY DEF Grows
    <3>1. CASE other = st
      <4>1. \A i \in DOMAIN stream'[st] \ DOMAIN s : stream'[st][i] = e
        BY <2>3
      <4>2. \A i \in DOMAIN s : i \in DOMAIN stream'[st] /\ stream'[st][i] = s[i]
        BY <2>3
      <4> QED
        BY <1>0, <2>4, <3>1, <4>1, <4>2 DEF s
    <3>2. CASE other # st
      BY <2>2, <3>2
    <3> QED
      BY <3>1, <3>2
  <2>6. Len(s) + 1 \in DOMAIN stream'[st]
    BY <2>3
  <2> QED
    BY <1>0, <2>3, <2>5, <2>6 DEF Recorded
<1> QED
  BY <1>1, <1>2

\* A process that goes on with its events.
LEMMA FollowerHolds ==
    ASSUME TypeInv, Inv, OneWorktree, NEW p \in Procs, pc[p] \in Appending, pc'[p] \in Appending,
           job' = job, lock' = lock, UNCHANGED <<refs, abandoned>>, Grows(p),
           pc'[p] \in {"read", "write", "clear"} => CheckpointRecorded(job[p].item)'
    PROVE  ProcInv(p)' /\ JoinsFinished(p)
<1>1. \A k \in Checkpoint : Uses(p, k)' => Uses(p, k)
  BY DEF Uses, Appending, Home
<1>2. Locked(p)' /\ Creator(p)'
  BY DEF Locked, Creator, Creating, Appending
<1>3. Follower(p)'
  BY <1>1 DEF Inv, ProcInv, Follower, Appending
<1>4. Listed(p)'
  BY CheckpointStays DEF Inv, ProcInv, Listed, TypeInv, TypeOK
<1> QED
  BY <1>1, <1>2, <1>3, <1>4, KeepsJoined DEF ProcInv

LEMMA AfterEventsSafe ==
    ASSUME TypeInv, TypeInv', Inv, OneWorktree, NEW p \in Procs, pc[p] \in Appending,
           AfterEvents(p), UNCHANGED <<refs, active, stream, abandoned>>
    PROVE  Others(p) /\ LockStep(p) /\ JoinsFinished(p) /\ ProcInv(p)'
<1> DEFINE k == job[p].item
<1>0. /\ TypeOK /\ k \in Checkpoint /\ k \in refs /\ Uses(p, k) /\ Home(p) = Primary
      /\ k.home = Primary /\ (lock # p => k.session = job[p].session) /\ job \in [Procs -> Job]
      /\ refs \subseteq Checkpoint
  BY AtEvents DEF TypeInv, TypeOK
<1> HIDE DEF k
<1>1. CASE Recovering(p)
  <2> DEFINE label == IF k.phase = "post" THEN "settle" ELSE "recover"
  <2>1. Goto(p, label) /\ UNCHANGED <<job, lock, sessionLock>> /\ lock = p
    BY <1>1 DEF AfterEvents, Recovering, k
  <2>2. label \in Labels /\ label \in {"settle", "recover"}
        /\ (label = "settle" => k.phase = "post")
    BY DEF Labels
  <2> HIDE DEF label
  <2>3. Others(p) /\ pc'[p] = label
    BY <1>0, <2>1, <2>2, GotoControl
  <2>4. Grows(p) /\ JoinsFinished(p)
    BY <2>1, SameGrows, HolderJoinsFinished
  <2>5. ProcInv(p)'
    BY <1>0, <2>1, <2>2, <2>3, <2>4, RecovererHolds DEF k
  <2> QED
    BY <2>1, <2>3, <2>4, <2>5 DEF LockStep
<1>2. CASE ~Recovering(p) /\ job[p].kind = "prompt"
  <2> DEFINE label == IF k.phase = "post" THEN "start" ELSE "prompt"
             t == IF k.phase = "post" THEN 0 ELSE k.turn
  <2>1. Goto(p, label) /\ UNCHANGED <<lock, sessionLock>> /\ lock # p
    BY <1>2 DEF AfterEvents, Recovering, k
  <2>2. label \in Labels /\ label \in {"start", "prompt"}
    BY DEF Labels
  <2>3. job' = [job EXCEPT ![p] = [job[p] EXCEPT !.turn = t, !.item = Nil]]
    BY <1>0, <1>2 DEF AfterEvents, k
  <2>4. /\ \A q \in Procs \ {p} : job'[q] = job[q]
        /\ job'[p].session = job[p].session /\ job'[p].turn = t
    BY <1>0, <2>3 DEF Job
  <2>5. pc'[p] = label /\ \A q \in Procs \ {p} : pc'[q] = pc[q]
    BY <1>0, <2>1, <2>2, GotoType
  <2>6. label = "prompt" => t = k.turn /\ k.phase = "pre"
    BY <1>0 DEF Checkpoint, Phases
  <2> HIDE DEF label, t
  <2>7. Others(p) /\ LockStep(p) /\ lock' # p
    BY <2>1, <2>4, <2>5 DEF Others, LockStep
  <2>8. CASE label = "start"
    BY <2>5, <2>7, <2>8, FreeHolds DEF Free, Labels, Creating, Appending
  <2>9. CASE label = "prompt"
    <3>1. \A c \in Checkpoint : Uses(p, c)' => c = k
      <4>1. Home(p)' = Primary
        BY <1>0, <2>4 DEF Home
      <4>2. Key(Primary, job'[p].session, job'[p].turn, "pre") = k
        BY <1>0, <2>1, <2>4, <2>6, <2>9 DEF Key, Checkpoint
      <4> QED
        BY <2>5, <2>9, <4>1, <4>2 DEF Uses, Appending
    <3>2. JoinsFinished(p)
      BY <1>0, <3>1, KeepsJoined
    <3>3. ProcInv(p)'
      BY <1>0, <2>5, <2>7, <2>9, <3>1
         DEF ProcInv, Locked, Creator, Follower, Listed, Creating, Appending
    <3> QED
      BY <2>7, <3>2, <3>3
  <2> QED
    BY <2>2, <2>8, <2>9
<1>3. CASE ~Recovering(p) /\ job[p].kind # "prompt"
  BY <1>0, <1>3, LeaveReleases, ReleasedFree, FreeHolds DEF AfterEvents
<1> QED
  BY <1>1, <1>2, <1>3

LEMMA SafeAppends ==
    ASSUME TypeInv, TypeInv', Inv, OneWorktree, NEW p \in Procs,
           AppendTurn(p) \/ AppendCheckpoint(p)
    PROVE  Inv'
<1>0. /\ TypeOK /\ pc[p] \in {"turn", "checkpoint"} /\ pc[p] \in Appending
      /\ UNCHANGED <<refs, journal, active, abandoned>>
  BY DEF TypeInv, AppendTurn, AppendCheckpoint, Appending
<1>1. PICK k, st : k = job[p].item /\ st = StreamFor(p)
  OBVIOUS
<1>2. PICK kind, label : /\ pc[p] = "turn" => kind = TurnKind(k) /\ label = "checkpoint"
                         /\ pc[p] = "checkpoint" => kind = "checkpoint" /\ label = "read"
  <2>1. CASE pc[p] = "turn"
    BY <2>1
  <2>2. CASE pc[p] = "checkpoint"
    BY <2>2
  <2> QED
    BY <1>0, <2>1, <2>2
<1> DEFINE e == [kind |-> kind, turn |-> k.turn, phase |-> k.phase, of |-> Primary]
<1>3. /\ k \in Checkpoint /\ Uses(p, k) /\ k.home = Primary /\ Home(p) = Primary
      /\ st = <<k.home, k.session>>
  BY <1>0, <1>1, AtEvents
<1>4. CASE Broken(p) /\ UNCHANGED stream
  BY <1>0, <1>4, BrokenReleases, ReleaseStep DEF SharedSame
<1>5. CASE AppendOnce(p, e) /\ Goto(p, label) /\ UNCHANGED <<job, lock, sessionLock>>
  <2>1. e \in Event
    BY <1>0, <1>2, <1>3 DEF Event, Checkpoint, Kinds, TurnKind, OneWorktree
  <2>2. Grows(p) /\ Recorded(st, kind, k.turn, k.phase)'
    <3>1. e.of = Primary /\ e.turn = k.turn /\ e.phase = k.phase /\ e.kind = kind
      OBVIOUS
    <3> HIDE DEF e
    <3>2. Grows(p) /\ Recorded(st, e.kind, e.turn, e.phase)'
      BY <1>0, <1>1, <1>5, <2>1, <3>1, AppendOnceGrows
    <3> QED
      BY <3>1, <3>2
  <2>3. label \in Labels /\ label \in {"checkpoint", "read"}
    BY <1>0, <1>2 DEF Labels
  <2>4. Others(p) /\ pc'[p] = label
    BY <1>0, <1>5, <2>3, GotoControl
  <2>5. label = "read" => CheckpointRecorded(job[p].item)'
    <3>1. label = "read" => kind = "checkpoint"
      BY <1>0, <1>2
    <3>2. job'[p].item = k
      BY <1>1, <1>5
    <3> QED
      BY <1>3, <2>2, <3>1, <3>2 DEF CheckpointRecorded
  <2>6. ProcInv(p)' /\ JoinsFinished(p)
    BY <1>0, <1>5, <2>2, <2>3, <2>4, <2>5, FollowerHolds DEF Appending
  <2>7. Disciplined(p)
    BY <1>0, <1>5, <2>2, <2>6 DEF Disciplined, LockStep
  <2>8. ActiveBacked'
    BY <1>0 DEF Inv, ActiveBacked
  <2>9. RecordedOrJournaled'
    BY <1>0, <2>2, CheckpointStays DEF Inv, RecordedOrJournaled, CheckpointRecorded, TypeOK
  <2> QED
    BY <2>4, <2>6, <2>7, <2>8, <2>9, SafetyStep
<1> QED
  BY <1>0, <1>1, <1>2, <1>3, <1>4, <1>5 DEF AppendTurn, AppendCheckpoint

LEMMA SafeJournals ==
    ASSUME TypeInv, TypeInv', Inv, OneWorktree, NEW p \in Procs,
           ReadJournal(p) \/ WriteFinalized(p) \/ ClearJournal(p)
    PROVE  Inv'
<1> DEFINE k == job[p].item
<1>0. /\ TypeOK /\ pc[p] \in {"read", "write", "clear"} /\ pc[p] \in Appending
      /\ UNCHANGED <<refs, active, stream, abandoned>>
  BY DEF TypeInv, ReadJournal, WriteFinalized, ClearJournal, Appending
<1>1. k \in Checkpoint /\ Uses(p, k) /\ Unscoped(k) = k
  BY <1>0, AtEvents
<1>2. CheckpointRecorded(k)
  BY <1>0 DEF Inv, ProcInv, Follower
<1> HIDE DEF k
<1>3. \A c \in Checkpoint : c # k => journal'[c] = journal[c]
  BY <1>0, <1>1 DEF ReadJournal, WriteFinalized, ClearJournal, TypeOK, k
<1>4. RecordedOrJournaled'
  BY <1>0, <1>2, <1>3 DEF Inv, RecordedOrJournaled, CheckpointRecorded, Recorded, TypeOK
<1>5. ActiveBacked'
  BY <1>0 DEF Inv, ActiveBacked
<1>6. Grows(p)
  BY <1>0, SameGrows
<1>7. Others(p) /\ LockStep(p) /\ JoinsFinished(p) /\ ProcInv(p)'
  <2>1. CASE AfterEvents(p)
    BY <1>0, <2>1, AfterEventsSafe
  <2>2. CASE /\ Goto(p, "write") \/ Goto(p, "clear")
             /\ UNCHANGED <<job, lock, sessionLock>>
    <3>1. Others(p) /\ pc'[p] \in {"write", "clear"}
      BY <1>0, <2>2, GotoControl DEF Labels
    <3>2. CheckpointRecorded(job[p].item)'
      BY <1>0, <1>2, <2>2 DEF CheckpointRecorded, Recorded, k
    <3>3. ProcInv(p)' /\ JoinsFinished(p)
      BY <1>0, <1>6, <2>2, <3>1, <3>2, FollowerHolds DEF Appending
    <3> QED
      BY <2>2, <3>1, <3>3 DEF LockStep
  <2> QED
    BY <2>1, <2>2 DEF ReadJournal, WriteFinalized, ClearJournal
<1>8. Disciplined(p)
  BY <1>0, <1>1, <1>3, <1>6, <1>7 DEF Disciplined
<1> QED
  BY <1>4, <1>5, <1>7, <1>8, SafetyStep

LEMMA SafePrompt ==
    ASSUME TypeInv, TypeInv', Inv, OneWorktree, NEW p \in Procs, AppendPrompt(p)
    PROVE  Inv'
<1>0. /\ TypeOK /\ pc[p] = "prompt" /\ job[p].turn \in Turns /\ job[p].session \in Sessions
      /\ UNCHANGED <<refs, journal, active, abandoned>> /\ Home(p) = Primary
      /\ Own(p) \in Streams /\ Own(p) = <<Primary, job[p].session>>
  BY JobFields, SameHome DEF TypeInv, AppendPrompt, Held, Own
<1>1. PICK t, st : t = job[p].turn /\ st = Own(p)
  OBVIOUS
<1>2. PICK s : s = stream[st]
  OBVIOUS
<1> DEFINE k == Key(Primary, st[2], t, "pre")
           e == [kind |-> "prompt.user", turn |-> t, phase |-> "pre", of |-> Primary]
<1>3. Uses(p, k)
  BY <1>0, <1>1 DEF Uses
<1>4. e \in Event /\ s \in Seq(Event) /\ stream' = [stream EXCEPT ![st] = Append(s, e)]
  BY <1>0, <1>1, <1>2
     DEF Event, Kinds, Phases, OneWorktree, TypeOK, AppendPrompt
<1>5. /\ stream'[st] = Append(s, e) /\ st \in Streams
      /\ \A other \in Streams : other # st => stream'[other] = stream[other]
  BY <1>0, <1>1, <1>4 DEF TypeOK
<1>6. Key(e.of, st[2], e.turn, e.phase) = k
  OBVIOUS
<1> HIDE DEF e
<1>7. /\ \A i \in DOMAIN stream'[st] \ DOMAIN s : stream'[st][i] = e
      /\ \A i \in DOMAIN s : i \in DOMAIN stream'[st] /\ stream'[st][i] = s[i]
  BY <1>4, <1>5
<1>8. Grows(p)
  <2> SUFFICES ASSUME NEW other \in Streams
               PROVE  /\ \A i \in DOMAIN stream[other] :
                             /\ i \in DOMAIN stream'[other]
                             /\ stream'[other][i] = stream[other][i]
                      /\ \A i \in DOMAIN stream'[other] \ DOMAIN stream[other] :
                             Uses(p, Key(stream'[other][i].of, other[2],
                                         stream'[other][i].turn, stream'[other][i].phase))
    BY DEF Grows
  <2>1. CASE other = st
    BY <1>2, <1>3, <1>6, <1>7, <2>1
  <2>2. CASE other # st
    BY <1>5, <2>2
  <2> QED
    BY <2>1, <2>2
<1>9. Released(p)
  BY <1>0, LeaveReleases DEF AppendPrompt
<1>10. Disciplined(p) /\ ProcInv(p)' /\ Others(p)
  BY <1>0, <1>8, <1>9, ReleasedFree, FreeHolds DEF Disciplined
<1>11. RecordedOrJournaled'
  BY <1>0, <1>8, CheckpointStays DEF Inv, RecordedOrJournaled, CheckpointRecorded, TypeOK
<1>12. ActiveBacked'
  BY <1>0 DEF Inv, ActiveBacked
<1> QED
  BY <1>10, <1>11, <1>12, SafetyStep

\* Start or Finish found that the checkpoint it makes is new.
LEMMA NewCheckpoint ==
    ASSUME TypeInv, TypeInv', Inv, OneWorktree, NEW p \in Procs,
           NEW t \in Turns, NEW phase \in Phases, NEW k, k = Key(Home(p), job[p].session, t, phase),
           k \notin refs, active[Own(p)] \in {0, t}, phase = "pre" => active[Own(p)] = 0,
           lock = NoProc, lock' = p, Work(p, k, {}), Goto(p, "begin"), SharedSame
    PROVE  Inv'
<1>0. /\ TypeOK /\ Home(p) = Primary /\ job[p].session \in Sessions /\ k \in Checkpoint
      /\ k.session = job[p].session /\ k.turn = t /\ k.phase = phase
  BY JobFields, SameHome DEF TypeInv, Key, Checkpoint, OneWorktree
<1>1. Others(p) /\ pc'[p] = "begin" /\ job'[p].item = k
  BY <1>0, MoveType DEF Labels
<1>2. job'[p].todo = {} /\ job'[p].session = job[p].session
  BY <1>0, WorkType
<1>3. Own(p)' = Own(p)
  BY <1>2 DEF Own, Home
<1>4. Exclusive(p)'
  <2>1. ASSUME NEW q \in Procs \ {p}, Uses(q, k)' PROVE FALSE
    <3>1. Uses(q, k)
      BY <1>1, <2>1 DEF Others, Uses, Home
    <3> QED
      BY <1>0, <3>1 DEF Inv, ProcInv, Follower
  <2>2. ASSUME NEW st \in Streams, NEW i \in DOMAIN stream[st]
        PROVE  Key(stream[st][i].of, st[2], stream[st][i].turn, stream[st][i].phase) # k
    BY DEF Inv, EventsBacked
  <2> QED
    BY <1>1, <2>1, <2>2 DEF Exclusive, SharedSame
<1>5. Creator(p)'
  BY <1>0, <1>1, <1>2, <1>3, <1>4 DEF Creator, SharedSame
<1>6. ProcInv(p)' /\ JoinsFinished(p)
  BY <1>1, <1>2, <1>5
     DEF ProcInv, Locked, Follower, Listed, Uses, Creating, Appending, JoinsFinished
<1> QED
  BY <1>1, <1>6, ControlStep DEF LockStep

LEMMA SafeTurns ==
    ASSUME TypeInv, TypeInv', Inv, OneWorktree, NEW p \in Procs, StartTurn(p) \/ FinishTurn(p)
    PROVE  Inv'
<1>0. /\ TypeOK /\ Home(p) = Primary /\ job[p].session \in Sessions /\ lock = NoProc
      /\ job[p].turn \in Turns \union {0} /\ active[Own(p)] \in Turns \union {0}
      /\ SharedSame
  BY JobFields, SameHome DEF TypeInv, TypeOK, StartTurn, FinishTurn, SharedSame
<1>1. CASE Released(p)
  BY <1>0, <1>1, ReleaseStep
<1>2. CASE StartTurn(p)
  <2>1. PICK t : t = IF job[p].turn = 0 THEN NextTurnID(Home(p), job[p].session)
                     ELSE job[p].turn
    OBVIOUS
  <2>2. \/ Fail(p)
        \/ /\ active[Own(p)] = 0 /\ ~(job[p].turn = 0 /\ NoNextTurn(Home(p), job[p].session))
           /\ ~\E r \in RefsOf(Home(p), job[p].session) : r.turn = t
           /\ lock' = p
           /\ Work(p, Key(Home(p), job[p].session, t, "pre"), {}) /\ Goto(p, "begin")
    BY <1>2, <2>1 DEF StartTurn
  <2>3. CASE /\ active[Own(p)] = 0
             /\ ~(job[p].turn = 0 /\ NoNextTurn(Home(p), job[p].session))
             /\ ~\E r \in RefsOf(Home(p), job[p].session) : r.turn = t
             /\ lock' = p
             /\ Work(p, Key(Home(p), job[p].session, t, "pre"), {}) /\ Goto(p, "begin")
    <3>1. t \in Turns
      <4>1. CASE job[p].turn = 0
        <5>1. t \in Nat \ {0} /\ ~(t > MaxTurns) /\ MaxTurns \in Nat
          BY <1>0, <2>1, <2>3, <4>1, NextTurnIDType, TurnAssumption DEF NoNextTurn
        <5> QED
          BY <5>1 DEF Turns
      <4>2. CASE job[p].turn # 0
        BY <1>0, <2>1, <4>2
      <4> QED
        BY <4>1, <4>2
    <3>2. PICK k : k = Key(Home(p), job[p].session, t, "pre")
      OBVIOUS
    <3>3. k \notin refs
      BY <1>0, <2>3, <3>2 DEF RefsOf, Key
    <3> QED
      BY <1>0, <2>3, <3>1, <3>2, <3>3, NewCheckpoint DEF Phases
  <2> QED
    BY <1>0, <1>1, <2>2, <2>3, FailReleases
<1>3. CASE FinishTurn(p)
  <2>1. PICK t : t = IF job[p].turn = 0 THEN active[Own(p)] ELSE job[p].turn
    OBVIOUS
  <2>2. \/ Fail(p) \/ Leave(p)
        \/ /\ Goto(p, "start") /\ job' = [job EXCEPT ![p].turn = 0]
           /\ UNCHANGED <<lock, sessionLock>>
        \/ /\ t # 0 /\ active[Own(p)] \in {0, t}
           /\ ~\E r \in RefsOf(Home(p), job[p].session) : r.turn = t /\ r.phase = "post"
           /\ lock' = p
           /\ Work(p, Key(Home(p), job[p].session, t, "post"), {}) /\ Goto(p, "begin")
    BY <1>3, <2>1 DEF FinishTurn
  <2>3. CASE /\ Goto(p, "start") /\ job' = [job EXCEPT ![p].turn = 0]
             /\ UNCHANGED <<lock, sessionLock>>
    <3>1. pc'[p] = "start" /\ Others(p)
      BY <1>0, <2>3, GotoType DEF Labels, Others, TypeOK
    <3>2. pc'[p] \in Free /\ lock' # p
      BY <1>0, <2>3, <3>1, TurnAssumption DEF Free, Labels, Creating, Appending
    <3> QED
      BY <1>0, <2>3, <3>1, <3>2, FreeHolds, ControlStep DEF LockStep
  <2>4. CASE /\ t # 0 /\ active[Own(p)] \in {0, t}
             /\ ~\E r \in RefsOf(Home(p), job[p].session) : r.turn = t /\ r.phase = "post"
             /\ lock' = p
             /\ Work(p, Key(Home(p), job[p].session, t, "post"), {}) /\ Goto(p, "begin")
    <3>1. t \in Turns
      BY <1>0, <2>1, <2>4
    <3>2. PICK k : k = Key(Home(p), job[p].session, t, "post")
      OBVIOUS
    <3>3. k \notin refs
      BY <1>0, <2>4, <3>2 DEF RefsOf, Key
    <3> QED
      BY <1>0, <2>4, <3>1, <3>2, <3>3, NewCheckpoint DEF Phases
  <2> QED
    BY <1>0, <1>1, <2>2, <2>3, <2>4, LeaveReleases, FailReleases
<1> QED
  BY <1>2, <1>3

\* What the process that makes a checkpoint knows.
LEMMA AtCreation ==
    ASSUME TypeInv, Inv, OneWorktree, NEW p \in Procs, pc[p] \in Creating
    PROVE  /\ lock = p /\ JoinsFinished(p)
           /\ job[p].item \in Checkpoint /\ Creator(p) /\ Home(p) = Primary
           /\ job[p].item.home = Primary /\ Own(p) \in Streams
           /\ Own(p) = <<Primary, job[p].item.session>>
           /\ \A st \in Streams : active[st] # 0 =>
                  Key(st[1], st[2], active[st], "pre") # job[p].item
<1>1. /\ lock = p /\ JoinsFinished(p) /\ Creator(p) /\ job[p].item \in Checkpoint
      /\ Home(p) = Primary /\ job[p].item.home = Primary /\ Own(p) \in Streams
      /\ Own(p) = <<Primary, job[p].item.session>>
  BY JobFields, SameHome, HolderJoinsFinished
     DEF Inv, ProcInv, Locked, Creator, TypeInv, Held, Own
<1>2. ASSUME NEW st \in Streams, active[st] # 0,
             Key(st[1], st[2], active[st], "pre") = job[p].item
      PROVE  FALSE
  <2>1. job[p].item.phase = "pre" /\ st[2] = job[p].item.session
    BY <1>2 DEF Key
  <2>2. st = Own(p)
    BY <1>1, <2>1, SameHome DEF TypeInv
  <2> QED
    BY <1>1, <1>2, <2>1, <2>2 DEF Creator
<1> QED
  BY <1>1, <1>2

\* The process goes on making its checkpoint.
LEMMA CreatorHolds ==
    ASSUME TypeInv, Inv, OneWorktree, NEW p \in Procs, pc[p] \in Creating, pc'[p] \in Creating,
           Others(p), job' = job, lock' = lock, UNCHANGED <<active, stream>>,
           pc'[p] \in {"begin", "ref"} => job[p].item \notin refs',
           pc'[p] \in {"commit", "active"} => job[p].item \in refs' \ abandoned',
           pc'[p] = "ref" => journal'[job[p].item] = "intent"
    PROVE  ProcInv(p)'
<1>1. Creator(p) /\ lock = p
  BY AtCreation
<1>2. Exclusive(p)'
  <2>1. \A q \in Procs \ {p} : \A k : Uses(q, k)' <=> Uses(q, k)
    BY DEF Others, Uses, Home
  <2> QED
    BY <1>1, <2>1 DEF Creator, Exclusive
<1>3. Own(p)' = Own(p)
  BY DEF Own, Home
<1>4. Creator(p)'
  BY <1>1, <1>2, <1>3 DEF Creator
<1>5. Locked(p)' /\ Follower(p)'
  BY <1>1 DEF Locked, Follower, Uses, Creating, Appending
<1>6. Listed(p)'
  BY <1>1 DEF Creator, Listed
<1> QED
  BY <1>4, <1>5, <1>6 DEF ProcInv

LEMMA SafeCreation ==
    ASSUME TypeInv, TypeInv', Inv, OneWorktree, NEW p \in Procs,
           BeginJournal(p) \/ CreateRef(p) \/ MarkCommitted(p) \/ StepFails(p)
    PROVE  Inv'
<1>0. /\ TypeOK /\ pc[p] \in Creating /\ job' = job /\ lock' = lock
      /\ UNCHANGED <<active, stream>>
  BY DEF TypeInv, Creating, BeginJournal, CreateRef, MarkCommitted, StepFails
<1>1. PICK k : k = job[p].item
  OBVIOUS
<1>2. /\ k \in Checkpoint /\ lock = p /\ JoinsFinished(p) /\ Creator(p)
      /\ \A st \in Streams : active[st] # 0 => Key(st[1], st[2], active[st], "pre") # k
  BY <1>0, <1>1, AtCreation
<1>3. ASSUME NEW label \in Labels, Goto(p, label) PROVE Others(p) /\ pc'[p] = label
  BY <1>0, <1>3, GotoType DEF Others
<1>4. Others(p)
  BY <1>3 DEF BeginJournal, CreateRef, MarkCommitted, StepFails, Labels
<1>5. refs \subseteq refs' /\ Grows(p)
  BY <1>0, SameGrows DEF BeginJournal, CreateRef, MarkCommitted, StepFails
<1>6. Disciplined(p)
  BY <1>0, <1>2, <1>5 DEF Disciplined, LockStep
<1>7. CASE BeginJournal(p)
  <2>1. /\ pc[p] = "begin" /\ pc'[p] = "ref" /\ k \notin refs'
        /\ journal' = [journal EXCEPT ![k] = "intent"] /\ UNCHANGED <<refs, abandoned>>
    BY <1>1, <1>2, <1>3, <1>7 DEF BeginJournal, Labels, Creator, Creating
  <2>2. ProcInv(p)'
    BY <1>0, <1>1, <1>2, <1>4, <2>1, CreatorHolds DEF TypeOK, Creating
  <2>3. RecordedOrJournaled' /\ ActiveBacked'
    BY <1>0, <1>2, <2>1 DEF Inv, RecordedOrJournaled, Recorded, ActiveBacked, TypeOK
  <2> QED
    BY <1>4, <1>6, <2>2, <2>3, SafetyStep
<1>8. CASE CreateRef(p)
  <2>1. /\ pc[p] = "ref" /\ pc'[p] = "commit" /\ journal[k] = "intent" /\ UNCHANGED journal
        /\ refs' = refs \union {k} /\ abandoned' = abandoned \ {k}
    BY <1>1, <1>2, <1>3, <1>8 DEF CreateRef, Labels, Creator, Creating
  <2>2. ProcInv(p)'
    BY <1>0, <1>1, <1>2, <1>4, <2>1, CreatorHolds DEF Creating
  <2>3. RecordedOrJournaled' /\ ActiveBacked'
    BY <1>0, <2>1 DEF Inv, RecordedOrJournaled, Recorded, ActiveBacked
  <2> QED
    BY <1>4, <1>6, <2>2, <2>3, SafetyStep
<1>9. CASE MarkCommitted(p)
  <2>1. /\ pc[p] = "commit" /\ pc'[p] = "active" /\ k \in refs' \ abandoned'
        /\ journal' = [journal EXCEPT ![k] = "committed"] /\ UNCHANGED <<refs, abandoned>>
    BY <1>1, <1>2, <1>3, <1>9 DEF MarkCommitted, Labels, Creator, Creating
  <2>2. ProcInv(p)'
    BY <1>0, <1>1, <1>2, <1>4, <2>1, CreatorHolds DEF Creating
  <2>3. RecordedOrJournaled' /\ ActiveBacked'
    BY <1>0, <1>2, <2>1 DEF Inv, RecordedOrJournaled, Recorded, ActiveBacked, TypeOK
  <2> QED
    BY <1>4, <1>6, <2>2, <2>3, SafetyStep
<1>10. CASE StepFails(p)
  <2>1. /\ pc'[p] = "undo" /\ UNCHANGED refs /\ abandoned' = abandoned \union {k}
        /\ \A c \in Checkpoint \ {k} : journal'[c] = journal[c]
    BY <1>0, <1>1, <1>3, <1>10 DEF StepFails, Labels, TypeOK
  <2>2. ProcInv(p)'
    BY <1>0, <1>4, <2>1, CreatorHolds DEF Creating
  <2>3. RecordedOrJournaled'
    BY <1>0, <1>2, <2>1 DEF Inv, RecordedOrJournaled, Recorded, TypeOK
  <2>4. ActiveBacked'
    BY <1>0, <1>2, <2>1 DEF Inv, ActiveBacked
  <2> QED
    BY <1>4, <1>6, <2>2, <2>3, <2>4, SafetyStep
<1> QED
  BY <1>7, <1>8, <1>9, <1>10

LEMMA SafeSetActive ==
    ASSUME TypeInv, TypeInv', Inv, OneWorktree, NEW p \in Procs, SetActive(p)
    PROVE  Inv'
<1>0. /\ TypeOK /\ pc[p] = "active" /\ job' = job /\ lock' = NoProc
      /\ UNCHANGED <<refs, journal, stream, abandoned>> /\ pc[p] \in Creating
  BY DEF TypeInv, SetActive, Proceed, Creating
<1>1. PICK k : k = job[p].item
  OBVIOUS
<1>2. /\ k \in Checkpoint /\ lock = p /\ JoinsFinished(p) /\ Creator(p) /\ Own(p) \in Streams
      /\ Own(p) = <<Primary, k.session>> /\ k \in refs \ abandoned /\ k.home = Primary
      /\ k.session = job[p].session
  BY <1>0, <1>1, AtCreation DEF Creator
<1>3. Others(p) /\ pc'[p] = "turn"
  BY <1>0, GotoType DEF SetActive, Proceed, Others, Labels
<1>4. Disciplined(p)
  BY <1>0, <1>2, SameGrows DEF Disciplined, LockStep
<1>5. ProcInv(p)'
  BY <1>0, <1>1, <1>2, <1>3, TurnAssumption
     DEF ProcInv, Locked, Creator, Follower, Listed, Uses, Creating, Appending
<1>6. ActiveBacked'
  <2> SUFFICES ASSUME NEW st \in Streams, active'[st] # 0
               PROVE  Key(st[1], st[2], active'[st], "pre") \in refs \ abandoned
    BY <1>0 DEF ActiveBacked
  <2>1. CASE st = Own(p)
    <3>1. active'[st] = IF k.phase = "pre" THEN k.turn ELSE 0
      BY <1>0, <1>1, <1>2, <2>1 DEF SetActive, TypeOK
    <3>2. Key(Primary, k.session, k.turn, "pre") = k
      BY <1>2, <3>1 DEF Key, Checkpoint
    <3> QED
      BY <1>2, <2>1, <3>1, <3>2
  <2>2. CASE st # Own(p)
    BY <1>0, <1>2, <2>2 DEF SetActive, TypeOK, Inv, ActiveBacked
  <2> QED
    BY <2>1, <2>2
<1>7. RecordedOrJournaled'
  BY <1>0 DEF Inv, RecordedOrJournaled, Recorded
<1> QED
  BY <1>3, <1>4, <1>5, <1>6, <1>7, SafetyStep

\* The failures after which the call is over, and the undo.
LEMMA SafeFailures ==
    ASSUME TypeInv, TypeInv', Inv, OneWorktree, NEW p \in Procs,
           Undo(p) \/ CreateFails(p) \/ ClearActiveFails(p) \/ Kill(p) \/ Tear(p)
    PROVE  Inv'
<1>0. TypeOK /\ Released(p)
  BY LeaveReleases, FailReleases
     DEF TypeInv, Undo, CreateFails, ClearActiveFails, Kill, Tear
<1>1. ProcInv(p)' /\ JoinsFinished(p) /\ LockStep(p) /\ Others(p)
  BY <1>0, ReleasedFree, FreeHolds
<1>2. CASE Undo(p) \/ CreateFails(p)
  <2>1. PICK k : k = job[p].item
    OBVIOUS
  <2>2. /\ pc[p] \in Creating /\ UNCHANGED <<active, stream, abandoned>>
    BY <1>2 DEF Undo, CreateFails, Creating
  <2>3. /\ k \in Checkpoint /\ lock = p /\ Creator(p)
        /\ \A st \in Streams : active[st] # 0 => Key(st[1], st[2], active[st], "pre") # k
    BY <2>1, <2>2, AtCreation
  <2>4. /\ refs' \subseteq refs /\ refs \subseteq refs' \union {k} /\ k \notin refs'
        /\ \A c \in Checkpoint \ {k} : journal'[c] = journal[c]
    BY <1>0, <1>2, <2>1, <2>2, <2>3 DEF Undo, CreateFails, Creator, TypeOK
  <2>5. Disciplined(p)
    BY <1>1, <2>1, <2>2, <2>3, <2>4, SameGrows DEF Disciplined
  <2>6. RecordedOrJournaled'
    BY <1>0, <2>2, <2>4 DEF Inv, RecordedOrJournaled, Recorded, TypeOK
  <2>7. ActiveBacked'
    BY <2>2, <2>3, <2>4 DEF Inv, ActiveBacked
  <2> QED
    BY <1>1, <2>5, <2>6, <2>7, SafetyStep
<1>3. CASE ClearActiveFails(p) \/ Kill(p) \/ Tear(p)
  <2>1. SharedSame
    BY <1>3 DEF ClearActiveFails, Kill, Tear, SharedSame
  <2> QED
    BY <1>0, <2>1, ReleaseStep
<1> QED
  BY <1>2, <1>3

LEMMA SafeInit == Init => Inv
<1> SUFFICES ASSUME Init PROVE Inv
  OBVIOUS
<1>1. RecordedOrJournaled /\ ActiveBacked
  BY DEF Init, RecordedOrJournaled, ActiveBacked
<1>2. EventsBacked
  BY DEF Init, EventsBacked
<1>3. ASSUME NEW p \in Procs PROVE ProcInv(p)
  BY TurnAssumption
     DEF Init, ProcInv, Locked, Creator, Follower, Listed, Uses, Creating, Appending
<1> QED
  BY <1>1, <1>2, <1>3 DEF Inv

LEMMA SafeNext == OneWorktree /\ TypeInv /\ TypeInv' /\ Inv /\ [Next]_vars => Inv'
<1> SUFFICES ASSUME OneWorktree, TypeInv, TypeInv', Inv, [Next]_vars PROVE Inv'
  OBVIOUS
<1>1. CASE UNCHANGED vars
  BY <1>1 DEF vars, Inv, RecordedOrJournaled, EventsBacked, ActiveBacked, Recorded, ProcInv,
              Locked, Creator, Follower, Listed, Uses, Exclusive, CheckpointRecorded, Own, Home
<1>2. ASSUME NEW p \in Procs, CallAny(p) \/ Step(p) \/ Fault(p) PROVE Inv'
  BY <1>2, SafeCalls, SafeRecovery, SafeAppends, SafeJournals, SafeHook, SafePrompt, SafeTurns,
     SafeCreation, SafeSetActive, SafeFailures DEF Step, Fault
<1> QED
  BY <1>1, <1>2 DEF Next

LEMMA SafeAlways ==
    ASSUME OneWorktree
    PROVE  Spec => [](TypeInv /\ Inv)
<1>1. Init => TypeInv /\ Inv
  BY TypeInit, SafeInit
<1>2. TypeInv /\ Inv /\ [Next]_vars => (TypeInv /\ Inv)'
  BY TypeNext, SafeNext
<1> QED
  BY <1>1, <1>2, PTL DEF Spec

\* In a store that one worktree uses, and whatever number of processes and sessions
\* interleave, are killed and fail: no checkpoint is lost, because its journal stays
\* until its event is in the stream.
THEOREM NothingLost ==
    ASSUME OneWorktree
    PROVE  Spec => []RecordedOrJournaled
<1>1. Inv => RecordedOrJournaled
  BY DEF Inv
<1> QED
  BY <1>1, SafeAlways, PTL

\* And no event names a checkpoint that is not there: what Start and Finish undo is
\* known to nobody else.
THEOREM NothingInvented ==
    ASSUME OneWorktree
    PROVE  Spec => []EventsBacked
<1>1. Inv => EventsBacked
  BY DEF Inv
<1> QED
  BY <1>1, SafeAlways, PTL

\* And an active turn always has the pre checkpoint that Finish and recovery look up.
THEOREM ActiveHasPre ==
    ASSUME OneWorktree
    PROVE  Spec => []ActiveBacked
<1>1. Inv => ActiveBacked
  BY DEF Inv
<1> QED
  BY <1>1, SafeAlways, PTL


\* The active turn changes under the lock only: Start sets it when there is none, and
\* Finish and recovery clear it when they hold its post checkpoint.
LEMMA ActiveStep ==
    ASSUME OneWorktree, TypeInv, Inv, NEW p \in Procs, SetActive(p) \/ Settle(p),
           NEW st \in Streams, active[st] # 0, active'[st] # active[st]
    PROVE  active'[st] = 0 /\ Key(st[1], st[2], active[st], "post") \in refs'
<1> DEFINE k == job[p].item
<1>0. TypeOK /\ k \in Checkpoint /\ k.home = Primary /\ Home(p) = Primary
  BY SameHome DEF TypeInv, Held, Creating, SetActive, Settle
<1>1. CASE SetActive(p)
  <2>1. pc[p] \in Creating /\ pc[p] = "active" /\ refs' = refs
    BY <1>1 DEF SetActive, Creating
  <2>2. /\ Creator(p) /\ Own(p) \in Streams /\ Own(p) = <<Primary, k.session>>
    BY <2>1, AtCreation
  <2>3. st = Own(p)
    BY <1>0, <1>1, <2>2 DEF SetActive, TypeOK
  <2>4. k.phase # "pre" /\ active[st] = k.turn /\ k \in refs
    BY <2>1, <2>2, <2>3 DEF Creator
  <2>5. active'[st] = 0
    BY <1>0, <1>1, <2>2, <2>3, <2>4 DEF SetActive, TypeOK
  <2>6. Key(Primary, k.session, k.turn, "post") = k
    BY <1>0, <2>4 DEF Key, Checkpoint, Phases
  <2> QED
    BY <2>1, <2>2, <2>3, <2>4, <2>5, <2>6
<1>2. CASE Settle(p)
  <2>1. pc[p] = "settle" /\ refs' = refs /\ Uses(p, k)
    BY <1>2 DEF Settle, Uses
  <2>2. k \in refs /\ k.phase = "post"
    BY <1>0, <2>1 DEF Inv, ProcInv, Follower
  <2>3. PICK own : own = <<Primary, k.session>>
    OBVIOUS
  <2>4. own \in Streams /\ (UNCHANGED active \/ (/\ active[own] = k.turn
                                                 /\ active' = [active EXCEPT ![own] = 0]))
    BY <1>0, <1>2, <2>3 DEF Settle, Streams, Checkpoint, OneWorktree
  <2>5. st = own /\ active[st] = k.turn /\ active'[st] = 0
    BY <1>0, <2>4 DEF TypeOK
  <2>6. Key(Primary, k.session, k.turn, "post") = k
    BY <1>0, <2>2 DEF Key, Checkpoint
  <2> QED
    BY <2>1, <2>2, <2>3, <2>5, <2>6
<1> QED
  BY <1>1, <1>2

\* An active turn ends only with its post checkpoint in the store, in every step of
\* every interleaving of Finish and recovery.
THEOREM TurnsEndWithPost ==
    ASSUME OneWorktree
    PROVE  Spec => ActiveEndsWithPost
<1> DEFINE A == \A st \in Streams :
                    active[st] # 0 /\ active'[st] # active[st]
                        => active'[st] = 0 /\ Key(st[1], st[2], active[st], "post") \in refs'
<1>1. ASSUME TypeInv, Inv, [Next]_vars PROVE A
  <2>1. CASE UNCHANGED active
    BY <2>1
  <2>2. CASE \E p \in Procs : SetActive(p) \/ Settle(p)
    BY <1>1, <2>2, ActiveStep
  <2>3. ASSUME NEW p \in Procs, CallAny(p) \/ Step(p) \/ Fault(p)
        PROVE  UNCHANGED active \/ SetActive(p) \/ Settle(p)
    <3>1. CASE CallAny(p) \/ Fault(p)
      BY <3>1 DEF CallAny, Call, Fault, CreateFails, StepFails, ClearActiveFails, Kill, Tear
    <3>2. CASE LockSession(p) \/ TimeOut(p) \/ Enter(p) \/ RecoverOne(p) \/ RecoveryDone(p)
      BY <3>2 DEF LockSession, TimeOut, Enter, RecoverOne, RecoveryDone
    <3>3. CASE \/ AppendTurn(p) \/ AppendCheckpoint(p)
               \/ ReadJournal(p) \/ WriteFinalized(p) \/ ClearJournal(p)
      BY <3>3 DEF AppendTurn, AppendCheckpoint, ReadJournal, WriteFinalized, ClearJournal
    <3>4. CASE \/ Hook(p) \/ AppendPrompt(p) \/ AppendError(p) \/ StartTurn(p) \/ FinishTurn(p)
      BY <3>4 DEF Hook, AppendPrompt, AppendError, StartTurn, FinishTurn
    <3>5. CASE BeginJournal(p) \/ CreateRef(p) \/ MarkCommitted(p) \/ Undo(p)
      BY <3>5 DEF BeginJournal, CreateRef, MarkCommitted, Undo
    <3> QED
      BY <2>3, <3>1, <3>2, <3>3, <3>4, <3>5 DEF Step
  <2>4. UNCHANGED active \/ \E p \in Procs : SetActive(p) \/ Settle(p)
    BY <1>1, <2>3 DEF vars, Next
  <2> QED
    BY <2>1, <2>2, <2>4
<1>2. TypeInv /\ Inv /\ [Next]_vars => [A]_vars
  BY <1>1
<1> QED
  BY <1>2, SafeAlways, PTL DEF Spec, ActiveEndsWithPost

----------------------------------------------------------------------------
(* When only hooks write                                                   *)

\* The agents' hooks are all that runs, and in one worktree.
HooksOnly == OneWorktree /\ Calls \subseteq HookCalls

InCall(p) == pc[p] \notin {"idle", "session"}

\* A journal that is not finalized yet.
Live(k) == journal[k] \in {"intent", "committed"}

Making(p, k) == pc[p] \in Creating /\ job[p].item = k

\* The hooks of a session exclude each other.
SessionHeld(p) == InCall(p) => sessionLock[job[p].session] = p

\* What recovery listed as begun is still no more than that, and nothing else is.
Listing(p) ==
    lock = p => \A e \in job[p].todo : (e[2] = "intent") <=> (journal[e[1]] = "intent")

Journaled(p) ==
    /\ pc[p] \in Appending => journal[job[p].item] # "intent"
    /\ pc[p] \in {"ref", "commit"} => journal[job[p].item] = "intent"
    /\ pc[p] = "active" => journal[job[p].item] = "committed"

\* Past its recovery a hook leaves no journal in its session but its own.
Covered(p) ==
    pc[p] \notin {"idle", "session", "enter", "error"} =>
        \A k \in Checkpoint : k.session = job[p].session /\ Live(k) =>
            \/ pc[p] \in (Creating \union Appending) \ {"clear"} /\ job[p].item = k
            \/ lock = p /\ \E e \in job[p].todo : e[1] = k

Orderly(p) == SessionHeld(p) /\ Listing(p) /\ Journaled(p) /\ Covered(p)

HookInv == \A p \in Procs : Orderly(p)

\* What a step of p does to the locks and journals.
LocksKept(p) ==
    /\ Others(p) /\ LockStep(p)
    /\ \A s \in Sessions : sessionLock'[s] = sessionLock[s] \/ sessionLock[s] \in {p, NoProc}

JournalsKept(p) ==
    \A k \in Checkpoint :
        /\ Live(k)' => Live(k) \/ (pc[p] = "begin" /\ Making(p, k))
        /\ journal'[k] = "intent" => journal[k] = "intent" \/ Making(p, k)
        /\ journal'[k] = journal[k] \/ lock = p \/ (journal[k] # "intent" /\ Uses(p, k))

LEMMA SameJournals ==
    ASSUME NEW p \in Procs, UNCHANGED journal
    PROVE  JournalsKept(p)
  BY DEF JournalsKept, Live

LEMMA HooksAreHooks ==
    ASSUME TypeInv, HooksOnly, NEW p \in Procs, pc[p] # "idle"
    PROVE  IsHook(p)
  BY DEF TypeInv, Held, HooksOnly, IsHook

\* A step of p hurts no other hook.
LEMMA OthersOrderly ==
    ASSUME TypeInv, Inv, HookInv, OneWorktree, NEW p \in Procs, LocksKept(p), JournalsKept(p),
           NEW q \in Procs \ {p}
    PROVE  Orderly(q)'
<1>0. /\ Orderly(q) /\ Orderly(p) /\ ProcInv(q) /\ ProcInv(p)
      /\ pc'[q] = pc[q] /\ job'[q] = job[q] /\ q # NoProc /\ q # p
      /\ job[q].session \in Sessions /\ job[p].session \in Sessions
      /\ job[q].todo \in SUBSET (Checkpoint \X JournalStates)
  BY TurnAssumption, JobFields DEF HookInv, Inv, LocksKept, Others, TypeInv
<1>1. (lock' = q) <=> (lock = q)
  BY <1>0 DEF LocksKept, LockStep
<1>2. SessionHeld(q)'
  BY <1>0 DEF Orderly, SessionHeld, InCall, LocksKept
<1>3. Listing(q)'
  <2> SUFFICES ASSUME lock = q, NEW e \in job[q].todo
               PROVE  (e[2] = "intent") <=> (journal'[e[1]] = "intent")
    BY <1>0, <1>1 DEF Listing
  <2>1. (e[2] = "intent") <=> (journal[e[1]] = "intent")
    BY <1>0 DEF Orderly, Listing
  <2>2. e[1] \in Checkpoint
    BY <1>0
  <2>3. pc[p] \notin Creating
    BY <1>0 DEF ProcInv, Locked
  <2> QED
    BY <1>0, <2>1, <2>2, <2>3 DEF JournalsKept, Making
<1>4. Journaled(q)'
  <2>1. ASSUME pc[q] \in Appending PROVE journal'[job[q].item] # "intent"
    <3>1. journal[job[q].item] # "intent" /\ job[q].item \in Checkpoint /\ Uses(q, job[q].item)
      BY <1>0, <2>1 DEF Orderly, Journaled, TypeInv, Held, Uses
    <3>2. ~Making(p, job[q].item)
      BY <1>0, <3>1 DEF ProcInv, Creator, Exclusive, Making
    <3> QED
      BY <3>1, <3>2 DEF JournalsKept
  <2>2. ASSUME pc[q] \in {"ref", "commit", "active"}
        PROVE  journal'[job[q].item] = journal[job[q].item]
    <3>1. job[q].item \in Checkpoint /\ lock = q
      BY <1>0, <2>2 DEF TypeInv, Held, ProcInv, Locked, Creating
    <3>2. ~Uses(p, job[q].item)
      BY <1>0, <2>2 DEF ProcInv, Creator, Exclusive, Creating
    <3> QED
      BY <1>0, <3>1, <3>2 DEF JournalsKept
  <2> QED
    BY <1>0, <2>1, <2>2 DEF Orderly, Journaled
<1>5. Covered(q)'
  <2> SUFFICES ASSUME pc[q] \notin {"idle", "session", "enter", "error"},
                      NEW k \in Checkpoint, k.session = job[q].session, Live(k)'
               PROVE  \/ /\ pc[q] \in (Creating \union Appending) \ {"clear"}
                         /\ job[q].item = k
                      \/ lock = q /\ \E e \in job[q].todo : e[1] = k
    BY <1>0, <1>1 DEF Covered
  <2>1. Live(k) \/ Making(p, k)
    BY DEF JournalsKept
  <2>2. ~Making(p, k)
    <3> SUFFICES ASSUME Making(p, k) PROVE FALSE
      OBVIOUS
    <3>1. k.session = job[p].session /\ InCall(p)
      BY <1>0 DEF Making, ProcInv, Creator, InCall, Creating
    <3>2. sessionLock[job[q].session] = p
      BY <1>0, <3>1 DEF Orderly, SessionHeld
    <3>3. sessionLock[job[q].session] = q
      BY <1>0 DEF Orderly, SessionHeld, InCall
    <3> QED
      BY <1>0, <3>2, <3>3
  <2> QED
    BY <1>0, <2>1, <2>2 DEF Orderly, Covered
<1> QED
  BY <1>2, <1>3, <1>4, <1>5 DEF Orderly

Preserves(p) == HookInv' /\ JournalsKept(p) /\ LocksKept(p)

LEMMA HookStep ==
    ASSUME TypeInv, Inv, HookInv, OneWorktree, NEW p \in Procs, LocksKept(p), JournalsKept(p),
           Orderly(p)'
    PROVE  Preserves(p)
<1> SUFFICES ASSUME NEW q \in Procs PROVE Orderly(q)'
  BY DEF HookInv, Preserves
<1> QED
  BY OthersOrderly

\* The end of a call or its failure.
Ends(p) == Leave(p) \/ (Fail(p) /\ InCall(p))

LEMMA EndOrderly ==
    ASSUME TypeInv, Inv, HookInv, HooksOnly, NEW p \in Procs, Ends(p)
    PROVE  LocksKept(p) /\ Orderly(p)'
<1>0. TypeOK
  BY DEF TypeInv
<1>1. Released(p)
  BY <1>0, LeaveReleases, FailReleases DEF Ends
<1>2. Others(p) /\ LockStep(p) /\ lock' # p /\ pc'[p] \in {"idle", "error"}
  BY <1>1, ReleasedFree DEF Released
<1>3. \A s \in Sessions : sessionLock'[s] = sessionLock[s] \/ sessionLock[s] = p
  BY <1>0 DEF Ends, Fail, Leave, TypeOK
<1>4. SessionHeld(p)'
  <2>1. CASE Leave(p)
    BY <2>1, <1>0, GotoType DEF Leave, Labels, SessionHeld, InCall
  <2>2. CASE Fail(p) /\ InCall(p)
    <3>1. IsHook(p) /\ sessionLock[job[p].session] = p
      BY <2>2, HooksAreHooks DEF InCall, HookInv, Orderly, SessionHeld
    <3>2. job[p] \in Job /\ sessionLock' = sessionLock
          /\ job' = [job EXCEPT ![p] = [job[p] EXCEPT !.turn = 0, !.item = Nil]]
      BY <1>0, <2>2, <3>1, JobFields DEF Fail, TypeOK
    <3>3. job'[p].session = job[p].session
      BY <1>0, <3>2 DEF Job, TypeOK
    <3> QED
      BY <3>1, <3>2, <3>3 DEF SessionHeld
  <2> QED
    BY <2>1, <2>2 DEF Ends
<1>5. Listing(p)' /\ Journaled(p)' /\ Covered(p)'
  BY <1>2 DEF Listing, Journaled, Covered, Appending
<1> QED
  BY <1>2, <1>3, <1>4, <1>5 DEF LocksKept, Orderly

LEMMA EndStep ==
    ASSUME TypeInv, Inv, HookInv, HooksOnly, NEW p \in Procs, Ends(p), UNCHANGED journal
    PROVE  Preserves(p)
  BY EndOrderly, SameJournals, HookStep DEF HooksOnly

\* p goes on in its session.
InSession(p) ==
    /\ Others(p) /\ LockStep(p) /\ InCall(p)
    /\ job'[p].session = job[p].session /\ UNCHANGED sessionLock

LEMMA GoesOn ==
    ASSUME HookInv, NEW p \in Procs, InSession(p)
    PROVE  LocksKept(p) /\ SessionHeld(p)'
  BY DEF HookInv, Orderly, SessionHeld, InSession, LocksKept

\* Work and Goto, seen from the process.
LEMMA Moves ==
    ASSUME TypeOK, NEW p \in Procs, NEW label \in Labels, Goto(p, label),
           NEW item \in Checkpoint \union {Nil},
           NEW todo \in SUBSET (Checkpoint \X JournalStates), Work(p, item, todo)
    PROVE  /\ Others(p) /\ pc'[p] = label
           /\ job'[p].item = item /\ job'[p].todo = todo /\ job'[p].session = job[p].session
  BY MoveType, WorkType

LEMMA CallsHooks ==
    ASSUME TypeInv, TypeInv', Inv, HookInv, HooksOnly, NEW p \in Procs,
           CallAny(p) \/ LockSession(p) \/ TimeOut(p)
    PROVE  Preserves(p)
<1>0. TypeOK /\ OneWorktree /\ ProcInv(p) /\ job[p].session \in Sessions /\ Orderly(p)
  BY JobFields DEF TypeInv, HooksOnly, Inv, HookInv
<1>1. CASE CallAny(p)
  <2>1. PICK kind \in Calls, s \in Sessions, t \in Requested : Call(p, kind, s, t)
    BY <1>1 DEF CallAny
  <2>2. /\ pc[p] = "idle" /\ kind \in HookCalls
        /\ Goto(p, "session") /\ UNCHANGED <<journal, lock, sessionLock>>
    BY <2>1 DEF Call, HooksOnly
  <2>3. pc'[p] = "session" /\ \A q \in Procs \ {p} : pc'[q] = pc[q]
    BY <1>0, <2>2, GotoType DEF Labels
  <2>4. \A q \in Procs \ {p} : job'[q] = job[q]
    BY <1>0, <2>1 DEF Call, TypeOK
  <2>5. LocksKept(p)
    BY <2>2, <2>3, <2>4 DEF LocksKept, Others, LockStep
  <2>6. lock # p
    BY <1>0, <2>2 DEF ProcInv, Locked, Creating, Appending
  <2>7. Orderly(p)'
    BY <2>2, <2>3, <2>6
       DEF Orderly, SessionHeld, InCall, Listing, Journaled, Covered, Creating, Appending
  <2> QED
    BY <1>0, <2>2, <2>5, <2>7, SameJournals, HookStep
<1>2. CASE LockSession(p)
  <2>1. /\ pc[p] = "session" /\ sessionLock[job[p].session] = NoProc
        /\ sessionLock' = [sessionLock EXCEPT ![job[p].session] = p]
        /\ Goto(p, "enter") /\ UNCHANGED <<journal, lock, job>>
    BY <1>2 DEF LockSession
  <2>2. pc'[p] = "enter" /\ \A q \in Procs \ {p} : pc'[q] = pc[q]
    BY <1>0, <2>1, GotoType DEF Labels
  <2>3. lock # p
    BY <1>0, <2>1 DEF ProcInv, Locked, Creating, Appending
  <2>4. LocksKept(p)
    BY <1>0, <2>1, <2>2 DEF LocksKept, Others, LockStep, TypeOK
  <2>5. SessionHeld(p)'
    BY <1>0, <2>1 DEF SessionHeld, TypeOK
  <2>6. Orderly(p)'
    BY <2>1, <2>2, <2>3, <2>5 DEF Orderly, Listing, Journaled, Covered, Creating, Appending
  <2> QED
    BY <1>0, <2>1, <2>4, <2>6, SameJournals, HookStep
<1>3. CASE TimeOut(p)
  <2>1. Ends(p) /\ UNCHANGED journal
    BY <1>3 DEF TimeOut, Ends, InCall
  <2> QED
    BY <2>1, EndStep
<1> QED
  BY <1>1, <1>2, <1>3

LEMMA RecoveryHooks ==
    ASSUME TypeInv, TypeInv', Inv, HookInv, HooksOnly, NEW p \in Procs,
           Enter(p) \/ RecoverOne(p) \/ RecoveryDone(p) \/ Settle(p)
    PROVE  Preserves(p)
<1>0. /\ TypeOK /\ OneWorktree /\ ProcInv(p) /\ job[p].session \in Sessions /\ Orderly(p)
      /\ job[p].todo \in SUBSET (Checkpoint \X JournalStates) /\ Home(p) = Primary
  BY JobFields, SameHome DEF TypeInv, HooksOnly, Inv, HookInv
<1>1. CASE Enter(p)
  <2> DEFINE listed == {<<k, journal[k]>> : k \in {c \in Checkpoint : journal[c] # "none"}}
  <2>1. /\ Work(p, Nil, listed) /\ Goto(p, "recover") /\ lock = NoProc /\ lock' = p
        /\ UNCHANGED <<journal, sessionLock>> /\ pc[p] = "enter"
    BY <1>1 DEF Enter
  <2>2. listed \in SUBSET (Checkpoint \X JournalStates)
    BY <1>0 DEF TypeOK
  <2>3. \A e \in listed : e[2] = journal[e[1]]
    OBVIOUS
  <2>4. \A k \in Checkpoint : Live(k) => \E e \in listed : e[1] = k
    <3> SUFFICES ASSUME NEW k \in Checkpoint, Live(k) PROVE \E e \in listed : e[1] = k
      OBVIOUS
    <3>1. <<k, journal[k]>> \in listed
      BY DEF Live
    <3> QED
      BY <3>1
  <2> HIDE DEF listed
  <2>5. /\ Others(p) /\ pc'[p] = "recover" /\ job'[p].todo = listed
        /\ job'[p].session = job[p].session
    BY <1>0, <2>1, <2>2, Moves DEF Labels
  <2>6. LocksKept(p) /\ SessionHeld(p)'
    BY <2>1, <2>5, GoesOn DEF InSession, InCall, LockStep
  <2>7. Listing(p)' /\ Journaled(p)'
    BY <2>1, <2>3, <2>5 DEF Listing, Journaled, Appending
  <2>8. Covered(p)'
    BY <2>1, <2>4, <2>5 DEF Covered, Live
  <2> QED
    BY <1>0, <2>1, <2>6, <2>7, <2>8, SameJournals, HookStep DEF Orderly
<1>2. CASE RecoverOne(p)
  <2>1. lock = p /\ pc[p] = "recover" /\ pc[p] \notin Creating \union Appending
    BY <1>0, <1>2 DEF RecoverOne, ProcInv, Locked, Creating, Appending
  <2>2. PICK entry \in job[p].todo :
            LET k == entry[1]
                mine == AsNamedBy(Home(p), k)
                rest == job[p].todo \ {entry}
            IN  \/ /\ journal' = [journal EXCEPT ![mine] = "none"]
                   /\ Work(p, Nil, rest) /\ UNCHANGED <<pc, lock, sessionLock>>
                \/ /\ entry[2] = "intent" /\ journal' = [journal EXCEPT ![mine] = "committed"]
                   /\ Work(p, k, rest) /\ Goto(p, "turn") /\ UNCHANGED <<lock, sessionLock>>
                \/ /\ entry[2] = "committed"
                   /\ Work(p, k, rest) /\ Goto(p, "turn")
                   /\ UNCHANGED <<journal, lock, sessionLock>>
                \/ Leave(p) /\ UNCHANGED journal
    BY <1>2, Zenon DEF RecoverOne
  <2> DEFINE k == entry[1]
             rest == job[p].todo \ {entry}
  <2>3. /\ k \in Checkpoint /\ AsNamedBy(Home(p), k) = k
        /\ rest \in SUBSET (Checkpoint \X JournalStates) /\ entry = <<k, entry[2]>>
    BY <1>0, SameHome
  <2>4. \A e \in job[p].todo : (e[2] = "intent") <=> (journal[e[1]] = "intent")
    BY <1>0, <2>1 DEF Orderly, Listing
  <2>5. \A c \in Checkpoint : c.session = job[p].session /\ Live(c) =>
                                  c = k \/ \E e \in rest : e[1] = c
    BY <1>0, <2>1 DEF Orderly, Covered
  <2>6. InCall(p) /\ (UNCHANGED lock => LockStep(p))
    BY <2>1 DEF InCall, LockStep
  <2>7. \A e \in rest : /\ e[1] \in Checkpoint /\ (e[1] = k => e[2] # "intent")
                        /\ (e[2] = "intent" <=> journal[e[1]] = "intent")
    BY <1>0, <2>2, <2>3, <2>4
  <2> HIDE DEF rest
  <2>8. CASE /\ journal' = [journal EXCEPT ![k] = "none"]
             /\ Work(p, Nil, rest) /\ UNCHANGED <<pc, lock, sessionLock>>
    <3>1. Others(p) /\ pc'[p] = "recover" /\ job'[p].todo = rest /\ job'[p].session = job[p].session
      BY <1>0, <2>1, <2>3, <2>8, WorkType DEF Others
    <3>2. \A c \in Checkpoint : journal'[c] = IF c = k THEN "none" ELSE journal[c]
      BY <1>0, <2>8 DEF TypeOK
    <3>3. JournalsKept(p)
      BY <2>1, <3>2 DEF JournalsKept, Live
    <3>4. LocksKept(p) /\ SessionHeld(p)'
      BY <2>6, <2>8, <3>1, GoesOn DEF InSession
    <3>5. Listing(p)'
      BY <2>7, <3>1, <3>2 DEF Listing
    <3>6. Covered(p)'
      BY <2>1, <2>5, <2>8, <3>1, <3>2 DEF Covered, Live
    <3>7. Journaled(p)'
      BY <3>1 DEF Journaled, Appending
    <3> QED
      BY <1>0, <3>3, <3>4, <3>5, <3>6, <3>7, HookStep DEF Orderly
  <2>9. CASE /\ \/ entry[2] = "intent" /\ journal' = [journal EXCEPT ![k] = "committed"]
                \/ entry[2] = "committed" /\ UNCHANGED journal
             /\ Work(p, k, rest) /\ Goto(p, "turn") /\ UNCHANGED <<lock, sessionLock>>
    <3>1. /\ Others(p) /\ pc'[p] = "turn" /\ job'[p].todo = rest /\ job'[p].item = k
          /\ job'[p].session = job[p].session
      BY <1>0, <2>3, <2>9, Moves DEF Labels
    <3>2. /\ \A c \in Checkpoint \ {k} : journal'[c] = journal[c]
          /\ journal'[k] # "intent" /\ (Live(k)' => Live(k))
      BY <1>0, <2>3, <2>4, <2>9 DEF TypeOK, Live
    <3>3. JournalsKept(p)
      BY <2>1, <3>2 DEF JournalsKept, Live
    <3>4. LocksKept(p) /\ SessionHeld(p)'
      BY <2>6, <2>9, <3>1, GoesOn DEF InSession
    <3>5. Listing(p)'
      BY <2>7, <3>1, <3>2 DEF Listing
    <3>6. Covered(p)'
      BY <2>1, <2>5, <2>9, <3>1, <3>2 DEF Covered, Live, Appending
    <3>7. Journaled(p)'
      BY <3>1, <3>2 DEF Journaled
    <3> QED
      BY <1>0, <3>3, <3>4, <3>5, <3>6, <3>7, HookStep DEF Orderly
  <2>10. CASE Leave(p) /\ UNCHANGED journal
    BY <2>10, EndStep DEF Ends
  <2> QED
    BY <2>2, <2>3, <2>8, <2>9, <2>10 DEF rest
<1>3. CASE RecoveryDone(p)
  <2>1. /\ pc[p] = "recover" /\ IsHook(p) /\ lock = p /\ job[p].todo = {}
        /\ pc[p] \notin Creating \union Appending
    BY <1>0, <1>3, HooksAreHooks DEF RecoveryDone, ProcInv, Locked, Creating, Appending
  <2>2. Goto(p, "hook") /\ Work(p, Nil, {}) /\ lock' = NoProc /\ UNCHANGED <<journal, sessionLock>>
    BY <1>3, <2>1 DEF RecoveryDone, Proceed
  <2>3. Others(p) /\ pc'[p] = "hook" /\ job'[p].session = job[p].session
    BY <1>0, <2>2, Moves DEF Labels
  <2>4. LocksKept(p) /\ SessionHeld(p)'
    BY <2>1, <2>2, <2>3, GoesOn DEF InSession, InCall, LockStep
  <2>5. \A k \in Checkpoint : k.session = job[p].session => ~Live(k)
    BY <1>0, <2>1 DEF Orderly, Covered
  <2>6. lock' # p
    BY <2>2, TurnAssumption
  <2>7. Listing(p)' /\ Journaled(p)' /\ Covered(p)'
    BY <2>2, <2>3, <2>5, <2>6 DEF Listing, Journaled, Covered, Live, Appending
  <2> QED
    BY <1>0, <2>2, <2>4, <2>7, SameJournals, HookStep DEF Orderly
<1>4. CASE Settle(p)
  <2>1. pc[p] = "settle" /\ UNCHANGED journal /\ pc[p] \notin Creating \union Appending
    BY <1>4 DEF Settle, Creating, Appending
  <2>2. CASE Leave(p)
    BY <2>1, <2>2, EndStep DEF Ends
  <2>3. CASE Goto(p, "recover") /\ UNCHANGED <<job, lock, sessionLock>>
    <3>1. Others(p) /\ pc'[p] = "recover"
      BY <1>0, <2>3, GotoType DEF Others, Labels
    <3>2. LocksKept(p) /\ SessionHeld(p)'
      BY <2>1, <2>3, <3>1, GoesOn DEF InSession, InCall, LockStep
    <3>3. Listing(p)' /\ Journaled(p)' /\ Covered(p)'
      BY <1>0, <2>1, <2>3, <3>1 DEF Orderly, Listing, Journaled, Covered, Live, Appending
    <3> QED
      BY <1>0, <2>1, <3>2, <3>3, SameJournals, HookStep DEF Orderly
  <2> QED
    BY <1>4, <2>2, <2>3 DEF Settle
<1> QED
  BY <1>1, <1>2, <1>3, <1>4

\* After the events of a checkpoint, its journal is no longer live.
LEMMA AfterOrderly ==
    ASSUME TypeInv, Inv, HookInv, HooksOnly, NEW p \in Procs, pc[p] \in Appending,
           AfterEvents(p), journal'[job[p].item] \notin {"intent", "committed"},
           \A k \in Checkpoint : k # job[p].item => journal'[k] = journal[k]
    PROVE  LocksKept(p) /\ Orderly(p)'
<1> DEFINE k == job[p].item
<1>0. /\ TypeOK /\ k \in Checkpoint /\ ProcInv(p) /\ Orderly(p) /\ IsHook(p) /\ InCall(p)
      /\ job \in [Procs -> Job] /\ job[p] \in Job
      /\ job[p].todo \in SUBSET (Checkpoint \X JournalStates)
      /\ journal[k] # "intent" /\ journal'[k] # "intent"
  <2>1. k \in Checkpoint /\ OneWorktree
    BY AtEvents DEF HooksOnly
  <2>2. TypeOK /\ ProcInv(p) /\ Orderly(p) /\ IsHook(p) /\ InCall(p)
    BY HooksAreHooks DEF TypeInv, Inv, HookInv, InCall, Appending
  <2> QED
    BY <2>1, <2>2, JobFields DEF Orderly, Journaled, Live, TypeOK
<1>1. \A c \in Checkpoint : c.session = job[p].session /\ Live(c)' =>
          c # k /\ lock = p /\ \E e \in job[p].todo : e[1] = c
  <2> SUFFICES ASSUME NEW c \in Checkpoint, c.session = job[p].session, Live(c)'
               PROVE  c # k /\ lock = p /\ \E e \in job[p].todo : e[1] = c
    OBVIOUS
  <2>1. c # k /\ Live(c)
    BY DEF Live
  <2> QED
    BY <1>0, <2>1 DEF Orderly, Covered, Appending
<1>2. lock = p => \A e \in job[p].todo : (e[2] = "intent") <=> (journal'[e[1]] = "intent")
  <2> SUFFICES ASSUME lock = p, NEW e \in job[p].todo
               PROVE  (e[2] = "intent") <=> (journal'[e[1]] = "intent")
    OBVIOUS
  <2>1. e[1] \in Checkpoint /\ (e[2] = "intent" <=> journal[e[1]] = "intent")
    BY <1>0 DEF Orderly, Listing
  <2> QED
    BY <1>0, <2>1
<1> HIDE DEF k
<1>3. CASE Recovering(p)
  <2> DEFINE label == IF k.phase = "post" THEN "settle" ELSE "recover"
  <2>1. Goto(p, label) /\ UNCHANGED <<job, lock, sessionLock>> /\ lock = p
    BY <1>3 DEF AfterEvents, Recovering, k
  <2>2. label \in Labels /\ label \in {"settle", "recover"}
    BY DEF Labels
  <2> HIDE DEF label
  <2>3. Others(p) /\ pc'[p] = label
    BY <1>0, <2>1, <2>2, GotoControl
  <2>4. LocksKept(p) /\ SessionHeld(p)'
    BY <1>0, <2>1, <2>3, GoesOn DEF InSession, LockStep
  <2>5. Listing(p)' /\ Journaled(p)' /\ Covered(p)'
    BY <1>1, <1>2, <2>1, <2>2, <2>3 DEF Listing, Journaled, Covered, Live, Appending
  <2> QED
    BY <2>4, <2>5 DEF Orderly
<1>4. CASE ~Recovering(p) /\ job[p].kind = "prompt"
  <2> DEFINE label == IF k.phase = "post" THEN "start" ELSE "prompt"
             t == IF k.phase = "post" THEN 0 ELSE k.turn
  <2>1. Goto(p, label) /\ UNCHANGED <<lock, sessionLock>> /\ lock # p
    BY <1>4 DEF AfterEvents, Recovering, k
  <2>2. label \in Labels /\ label \in {"start", "prompt"}
    BY DEF Labels
  <2>3. job' = [job EXCEPT ![p] = [job[p] EXCEPT !.turn = t, !.item = Nil]]
    BY <1>0, <1>4 DEF AfterEvents, k
  <2>4. /\ \A q \in Procs \ {p} : job'[q] = job[q]
        /\ job'[p].session = job[p].session
    BY <1>0, <2>3 DEF Job
  <2>5. pc'[p] = label /\ \A q \in Procs \ {p} : pc'[q] = pc[q]
    BY <1>0, <2>1, <2>2, GotoType
  <2> HIDE DEF label, t
  <2>6. LocksKept(p) /\ SessionHeld(p)'
    BY <1>0, <2>1, <2>4, <2>5, GoesOn DEF InSession, LockStep, Others
  <2>7. Listing(p)' /\ Journaled(p)' /\ Covered(p)'
    BY <1>1, <2>1, <2>2, <2>4, <2>5 DEF Listing, Journaled, Covered, Live, Appending
  <2> QED
    BY <2>6, <2>7 DEF Orderly
<1>5. CASE ~Recovering(p) /\ job[p].kind # "prompt"
  BY <1>0, <1>5, EndOrderly DEF AfterEvents, Ends
<1> QED
  BY <1>3, <1>4, <1>5

LEMMA EventHooks ==
    ASSUME TypeInv, TypeInv', Inv, HookInv, HooksOnly, NEW p \in Procs,
           \/ AppendTurn(p) \/ AppendCheckpoint(p)
           \/ ReadJournal(p) \/ WriteFinalized(p) \/ ClearJournal(p)
    PROVE  Preserves(p)
<1>0. /\ TypeOK /\ OneWorktree /\ ProcInv(p) /\ Orderly(p) /\ pc[p] \in Appending /\ InCall(p)
      /\ job[p].todo \in SUBSET (Checkpoint \X JournalStates)
  BY JobFields
     DEF TypeInv, HooksOnly, Inv, HookInv, InCall, Appending,
         AppendTurn, AppendCheckpoint, ReadJournal, WriteFinalized, ClearJournal
<1>1. PICK k : k = job[p].item
  OBVIOUS
<1>2. /\ k \in Checkpoint /\ Unscoped(k) = k /\ journal[k] # "intent" /\ Uses(p, k)
  BY <1>0, <1>1, AtEvents DEF Orderly, Journaled
<1>3. ASSUME NEW label \in {"checkpoint", "read", "write", "clear"},
             Goto(p, label), UNCHANGED <<job, lock, sessionLock>>
      PROVE  LocksKept(p) /\ SessionHeld(p)' /\ pc'[p] = label
  <2>1. Others(p) /\ pc'[p] = label
    BY <1>0, <1>3, GotoControl DEF Labels
  <2> QED
    BY <1>0, <1>3, <2>1, GoesOn DEF InSession, LockStep
<1>4. CASE AppendTurn(p) \/ AppendCheckpoint(p)
  <2>1. UNCHANGED journal /\ pc[p] # "clear"
    BY <1>4 DEF AppendTurn, AppendCheckpoint
  <2>2. CASE Broken(p)
    BY <1>0, <2>1, <2>2, EndStep DEF Broken, Ends
  <2>3. CASE ~Broken(p)
    <3>1. /\ \E label \in {"checkpoint", "read"} : Goto(p, label)
          /\ UNCHANGED <<job, lock, sessionLock>>
      BY <1>4, <2>3 DEF AppendTurn, AppendCheckpoint
    <3>2. LocksKept(p) /\ SessionHeld(p)' /\ pc'[p] \in {"checkpoint", "read"}
      BY <1>3, <3>1
    <3>3. Listing(p)' /\ Journaled(p)' /\ Covered(p)'
      BY <1>0, <2>1, <3>1, <3>2 DEF Orderly, Listing, Journaled, Covered, Live, Appending
    <3> QED
      BY <1>0, <2>1, <3>2, <3>3, SameJournals, HookStep DEF Orderly
  <2> QED
    BY <2>2, <2>3
<1>5. CASE ReadJournal(p)
  <2>1. UNCHANGED journal /\ pc[p] = "read"
    BY <1>5 DEF ReadJournal
  <2>2. CASE journal[k] = "none"
    <3>1. AfterEvents(p)
      BY <1>1, <1>2, <1>5, <2>2 DEF ReadJournal
    <3>2. LocksKept(p) /\ Orderly(p)'
      BY <1>0, <1>1, <2>1, <2>2, <3>1, AfterOrderly DEF Live
    <3> QED
      BY <1>0, <2>1, <3>2, SameJournals, HookStep
  <2>3. CASE journal[k] # "none"
    <3>1. Goto(p, "write") /\ UNCHANGED <<job, lock, sessionLock>>
      BY <1>1, <1>2, <1>5, <2>3 DEF ReadJournal
    <3>2. LocksKept(p) /\ SessionHeld(p)' /\ pc'[p] = "write"
      BY <1>3, <3>1
    <3>3. Listing(p)' /\ Journaled(p)' /\ Covered(p)'
      BY <1>0, <2>1, <3>1, <3>2 DEF Orderly, Listing, Journaled, Covered, Live, Appending
    <3> QED
      BY <1>0, <2>1, <3>2, <3>3, SameJournals, HookStep DEF Orderly
  <2> QED
    BY <2>2, <2>3
<1>6. CASE WriteFinalized(p)
  <2>1. \A c \in Checkpoint : journal'[c] = IF c = k THEN "finalized" ELSE journal[c]
    BY <1>0, <1>1, <1>2, <1>6 DEF WriteFinalized, TypeOK
  <2>2. Goto(p, "clear") /\ UNCHANGED <<job, lock, sessionLock>>
    BY <1>6 DEF WriteFinalized
  <2>3. LocksKept(p) /\ SessionHeld(p)' /\ pc'[p] = "clear"
    BY <1>3, <2>2
  <2>4. JournalsKept(p)
    BY <1>2, <2>1 DEF JournalsKept, Live
  <2>5. Listing(p)'
    <3> SUFFICES ASSUME lock = p, NEW e \in job[p].todo
                 PROVE  (e[2] = "intent") <=> (journal'[e[1]] = "intent")
      BY <2>2 DEF Listing
    <3>1. e[1] \in Checkpoint /\ (e[2] = "intent" <=> journal[e[1]] = "intent")
      BY <1>0 DEF Orderly, Listing
    <3> QED
      BY <1>2, <2>1, <3>1
  <2>6. Journaled(p)' /\ Covered(p)'
    BY <1>0, <1>1, <1>2, <2>1, <2>2, <2>3 DEF Orderly, Journaled, Covered, Live, Appending
  <2> QED
    BY <1>0, <2>3, <2>4, <2>5, <2>6, HookStep DEF Orderly
<1>7. CASE ClearJournal(p)
  <2>1. \A c \in Checkpoint : journal'[c] = IF c = k THEN "none" ELSE journal[c]
    BY <1>0, <1>1, <1>2, <1>7 DEF ClearJournal, TypeOK
  <2>2. JournalsKept(p)
    BY <1>2, <2>1 DEF JournalsKept, Live
  <2>3. journal'[job[p].item] = "none"
    BY <1>1, <1>2, <2>1
  <2>4. LocksKept(p) /\ Orderly(p)'
    BY <1>0, <1>1, <1>7, <2>1, <2>3, AfterOrderly DEF ClearJournal
  <2> QED
    BY <1>0, <2>2, <2>4, HookStep
<1> QED
  BY <1>4, <1>5, <1>6, <1>7

\* p goes on in its session with no journal of it to care for.
LEMMA FreeOrderly ==
    ASSUME TypeInv, Inv, HookInv, HooksOnly, NEW p \in Procs, InSession(p), UNCHANGED journal,
           pc[p] \in {"hook", "start", "finish"}, lock # p, pc'[p] \in {"start", "finish", "prompt"},
           lock' # p
    PROVE  Preserves(p)
<1>1. \A k \in Checkpoint : k.session = job[p].session => ~Live(k)
  BY DEF HookInv, Orderly, Covered, Creating, Appending
<1>2. Listing(p)' /\ Journaled(p)' /\ Covered(p)'
  BY <1>1 DEF InSession, Listing, Journaled, Covered, Live, Appending
<1> QED
  BY <1>2, GoesOn, SameJournals, HookStep DEF HooksOnly, Orderly

LEMMA HookHooks ==
    ASSUME TypeInv, TypeInv', Inv, HookInv, HooksOnly, NEW p \in Procs,
           Hook(p) \/ AppendPrompt(p) \/ AppendError(p)
    PROVE  Preserves(p)
<1>0. TypeOK /\ UNCHANGED journal /\ InCall(p)
  BY DEF TypeInv, InCall, Hook, AppendPrompt, AppendError
<1>1. CASE Ends(p)
  BY <1>0, <1>1, EndStep
<1>2. CASE ~Ends(p)
  <2>1. /\ pc[p] = "hook" /\ \E label \in {"start", "prompt", "finish"} : Goto(p, label)
        /\ UNCHANGED <<lock, sessionLock>>
        /\ job' = job \/ job' = [job EXCEPT ![p].turn = active[Own(p)]]
    BY <1>0, <1>2 DEF Ends, Hook, AppendPrompt, AppendError
  <2>2. pc'[p] \in {"start", "prompt", "finish"} /\ \A q \in Procs \ {p} : pc'[q] = pc[q]
    BY <1>0, <2>1, GotoType DEF Labels
  <2>3. job'[p].session = job[p].session /\ \A q \in Procs \ {p} : job'[q] = job[q]
    <3>1. job' = [job EXCEPT ![p] = job'[p]]
          /\ (job'[p] = job[p] \/ job'[p] = [job[p] EXCEPT !.turn = active[Own(p)]])
      BY <1>0, <2>1 DEF TypeOK
    <3>2. job \in [Procs -> Job] /\ job[p] \in Job
      BY <1>0 DEF TypeOK
    <3> QED
      BY <3>1, <3>2 DEF Job
  <2>4. lock # p
    BY <2>1 DEF Inv, ProcInv, Locked, Creating, Appending
  <2> QED
    BY <1>0, <2>1, <2>2, <2>3, <2>4, FreeOrderly DEF InSession, Others, LockStep
<1> QED
  BY <1>1, <1>2

LEMMA TurnHooks ==
    ASSUME TypeInv, TypeInv', Inv, HookInv, HooksOnly, NEW p \in Procs,
           StartTurn(p) \/ FinishTurn(p)
    PROVE  Preserves(p)
<1>0. /\ TypeOK /\ UNCHANGED journal /\ pc[p] \in {"start", "finish"} /\ lock # p /\ lock = NoProc
      /\ InCall(p) /\ Orderly(p) /\ OneWorktree
  BY TurnAssumption DEF TypeInv, InCall, StartTurn, FinishTurn, HookInv, HooksOnly
<1>1. CASE Ends(p)
  BY <1>0, <1>1, EndStep
<1>2. CASE Goto(p, "start") /\ job' = [job EXCEPT ![p].turn = 0] /\ UNCHANGED <<lock, sessionLock>>
  <2>1. pc'[p] = "start" /\ \A q \in Procs \ {p} : pc'[q] = pc[q]
    BY <1>0, <1>2, GotoType DEF Labels
  <2>2. job'[p].session = job[p].session /\ \A q \in Procs \ {p} : job'[q] = job[q]
    <3>1. job' = [job EXCEPT ![p] = [job[p] EXCEPT !.turn = 0]] /\ job \in [Procs -> Job]
      BY <1>0, <1>2 DEF TypeOK
    <3> QED
      BY <3>1 DEF Job
  <2> QED
    BY <1>0, <1>2, <2>1, <2>2, FreeOrderly DEF InSession, Others, LockStep
<1>3. ASSUME NEW item, Work(p, item, {}), Goto(p, "begin"), lock' = p, UNCHANGED sessionLock,
             item \in Checkpoint
      PROVE  Preserves(p)
  <2>1. /\ Others(p) /\ pc'[p] = "begin" /\ job'[p].todo = {} /\ job'[p].session = job[p].session
    BY <1>0, <1>3, Moves DEF Labels
  <2>2. LocksKept(p) /\ SessionHeld(p)'
    BY <1>0, <1>3, <2>1, GoesOn DEF InSession, LockStep, HookInv
  <2>3. \A k \in Checkpoint : k.session = job[p].session => ~Live(k)
    BY <1>0 DEF Orderly, Covered, Creating, Appending
  <2>4. Listing(p)' /\ Journaled(p)' /\ Covered(p)'
    BY <1>0, <2>1, <2>3 DEF Listing, Journaled, Covered, Live, Appending
  <2> QED
    BY <1>0, <2>2, <2>4, SameJournals, HookStep DEF Orderly
<1>4. CASE StartTurn(p) /\ ~Ends(p)
  <2> DEFINE t == IF job[p].turn = 0 THEN NextTurnID(Home(p), job[p].session) ELSE job[p].turn
  <2>1. /\ Work(p, Key(Home(p), job[p].session, t, "pre"), {}) /\ Goto(p, "begin") /\ lock' = p
        /\ UNCHANGED sessionLock
    BY <1>0, <1>4 DEF StartTurn, Ends
  <2> HIDE DEF t
  <2>2. job'[p].item = Key(Home(p), job[p].session, t, "pre") /\ pc'[p] = "begin"
    <3>1. pc'[p] = "begin"
      BY <1>0, <2>1, GotoType DEF Labels
    <3>2. job[p] \in Job /\ job' = [job EXCEPT ![p] = [job[p] EXCEPT
             !.item = Key(Home(p), job[p].session, t, "pre"), !.todo = {}]]
      BY <1>0, <2>1 DEF Work, TypeOK
    <3> QED
      BY <1>0, <3>1, <3>2 DEF TypeOK, Job
  <2>3. Key(Home(p), job[p].session, t, "pre") \in Checkpoint
    <3>1. job'[p].item \in Checkpoint
      BY <2>2 DEF TypeInv, Held, Creating
    <3> QED
      BY <2>2, <3>1
  <2> QED
    BY <1>3, <2>1, <2>3
<1>5. CASE FinishTurn(p) /\ ~Ends(p) /\ ~Goto(p, "start")
  <2> DEFINE t == IF job[p].turn = 0 THEN active[Own(p)] ELSE job[p].turn
  <2>1. /\ Work(p, Key(Home(p), job[p].session, t, "post"), {}) /\ Goto(p, "begin") /\ lock' = p
        /\ UNCHANGED sessionLock
    BY <1>0, <1>5 DEF FinishTurn, Ends
  <2> HIDE DEF t
  <2>2. job'[p].item = Key(Home(p), job[p].session, t, "post") /\ pc'[p] = "begin"
    <3>1. pc'[p] = "begin"
      BY <1>0, <2>1, GotoType DEF Labels
    <3>2. job[p] \in Job /\ job' = [job EXCEPT ![p] = [job[p] EXCEPT
             !.item = Key(Home(p), job[p].session, t, "post"), !.todo = {}]]
      BY <1>0, <2>1 DEF Work, TypeOK
    <3> QED
      BY <1>0, <3>1, <3>2 DEF TypeOK, Job
  <2>3. Key(Home(p), job[p].session, t, "post") \in Checkpoint
    <3>1. job'[p].item \in Checkpoint
      BY <2>2 DEF TypeInv, Held, Creating
    <3> QED
      BY <2>2, <3>1
  <2> QED
    BY <1>3, <2>1, <2>3
<1>6. CASE FinishTurn(p) /\ ~Ends(p) /\ Goto(p, "start")
  <2>1. pc'[p] = "start"
    BY <1>0, <1>6, GotoType DEF Labels
  <2>2. ~Goto(p, "begin")
    <3>1. Goto(p, "begin") => pc'[p] = "begin"
      BY <1>0, GotoType DEF Labels
    <3> QED
      BY <2>1, <3>1
  <2>3. job' = [job EXCEPT ![p].turn = 0] /\ UNCHANGED <<lock, sessionLock>>
    BY <1>0, <1>6, <2>2 DEF FinishTurn, Ends
  <2> QED
    BY <1>2, <1>6, <2>3
<1> QED
  BY <1>1, <1>4, <1>5, <1>6

LEMMA CreationHooks ==
    ASSUME TypeInv, TypeInv', Inv, HookInv, HooksOnly, NEW p \in Procs,
           \/ BeginJournal(p) \/ CreateRef(p) \/ MarkCommitted(p) \/ SetActive(p)
           \/ StepFails(p)
    PROVE  Preserves(p)
<1>0. /\ TypeOK /\ OneWorktree /\ Orderly(p) /\ pc[p] \in Creating /\ InCall(p)
      /\ UNCHANGED <<job, sessionLock>>
  BY DEF TypeInv, HooksOnly, HookInv, InCall, Creating,
         BeginJournal, CreateRef, MarkCommitted, SetActive, StepFails, Proceed
<1>1. PICK k : k = job[p].item
  OBVIOUS
<1>2. k \in Checkpoint /\ lock = p /\ job[p].todo = {}
  BY <1>0, <1>1, AtCreation DEF Creator
<1>3. /\ Others(p) /\ pc'[p] \in {"ref", "commit", "active", "turn", "undo"}
      /\ pc'[p] = "ref" => BeginJournal(p)
      /\ pc'[p] = "commit" => CreateRef(p)
      /\ pc'[p] = "active" => MarkCommitted(p)
      /\ pc'[p] = "turn" => SetActive(p)
  <2>1. ASSUME NEW label \in Labels, Goto(p, label) PROVE Others(p) /\ pc'[p] = label
    BY <1>0, <2>1, GotoType DEF Others
  <2> QED
    BY <2>1 DEF BeginJournal, CreateRef, MarkCommitted, SetActive, StepFails, Proceed, Labels
<1>4. LocksKept(p) /\ SessionHeld(p)'
  <2>1. LockStep(p)
    BY <1>2 DEF BeginJournal, CreateRef, MarkCommitted, SetActive, StepFails, Proceed, LockStep
  <2> QED
    BY <1>0, <1>3, <2>1, GoesOn DEF InSession
<1>5. \A c \in Checkpoint \ {k} : journal'[c] = journal[c]
  BY <1>0, <1>1
     DEF BeginJournal, CreateRef, MarkCommitted, SetActive, StepFails, TypeOK
<1>6. JournalsKept(p)
  <2>1. pc[p] \in {"ref", "commit", "active"} => Live(k)
    BY <1>0, <1>1 DEF Orderly, Journaled, Live
  <2>2. Live(k)' => Live(k) \/ pc[p] = "begin"
    BY <2>1 DEF BeginJournal, CreateRef, MarkCommitted, SetActive, StepFails
  <2> QED
    BY <1>0, <1>1, <1>2, <1>5, <2>2 DEF JournalsKept, Live, Making
<1>7. Listing(p)'
  BY <1>0, <1>2 DEF Listing
<1>8. Journaled(p)'
  <2>1. pc'[p] = "active" => journal'[k] = "committed"
    BY <1>0, <1>1, <1>2, <1>3 DEF MarkCommitted, TypeOK
  <2>3. pc'[p] = "ref" => journal'[k] = "intent"
    BY <1>0, <1>1, <1>2, <1>3 DEF BeginJournal, TypeOK
  <2>4. pc'[p] = "commit" => journal'[k] = "intent"
    BY <1>0, <1>1, <1>3 DEF CreateRef, Orderly, Journaled
  <2>2. pc'[p] = "turn" => journal'[k] # "intent"
    BY <1>0, <1>1, <1>3 DEF SetActive, Orderly, Journaled
  <2> QED
    BY <1>0, <1>1, <1>3, <2>1, <2>2, <2>3, <2>4 DEF Journaled, Appending
<1>9. Covered(p)'
  <2> SUFFICES ASSUME NEW c \in Checkpoint, c.session = job[p].session, Live(c)'
               PROVE  c = k
    BY <1>0, <1>1, <1>3 DEF Covered, Creating, Appending
  <2>1. c # k => Live(c)
    BY <1>5 DEF Live
  <2> QED
    BY <1>0, <1>1, <1>2, <2>1 DEF Orderly, Covered, Creating, Appending
<1> QED
  BY <1>0, <1>4, <1>6, <1>7, <1>8, <1>9, HookStep DEF Orderly

LEMMA FailureHooks ==
    ASSUME TypeInv, TypeInv', Inv, HookInv, HooksOnly, NEW p \in Procs,
           Undo(p) \/ CreateFails(p) \/ ClearActiveFails(p) \/ Kill(p) \/ Tear(p)
    PROVE  Preserves(p)
<1>1. Ends(p)
  BY DEF Ends, InCall, Undo, CreateFails, ClearActiveFails, Kill, Tear
<1>2. CASE ~CreateFails(p)
  <2>1. UNCHANGED journal
    BY <1>2 DEF Undo, ClearActiveFails, Kill, Tear
  <2> QED
    BY <1>1, <2>1, EndStep
<1>3. CASE CreateFails(p)
  <2>1. /\ TypeOK /\ OneWorktree /\ lock = p /\ job[p].item \in Checkpoint
        /\ journal' = [journal EXCEPT ![job[p].item] = "none"]
    BY <1>3, AtCreation DEF CreateFails, Creating, TypeInv, HooksOnly
  <2>2. JournalsKept(p)
    BY <2>1 DEF JournalsKept, Live, TypeOK
  <2> QED
    BY <1>1, <2>1, <2>2, EndOrderly, HookStep
<1> QED
  BY <1>2, <1>3

LEMMA HookInit == Init => HookInv
  BY TurnAssumption
     DEF Init, HookInv, Orderly, SessionHeld, InCall, Listing, Journaled, Covered, Appending

LEMMA HooksKeep ==
    ASSUME HooksOnly, TypeInv, TypeInv', Inv, HookInv, NEW p \in Procs,
           CallAny(p) \/ Step(p) \/ Fault(p)
    PROVE  Preserves(p)
  BY CallsHooks, RecoveryHooks, EventHooks, HookHooks, TurnHooks, CreationHooks, FailureHooks
     DEF Step, Fault

LEMMA HookNext == HooksOnly /\ TypeInv /\ TypeInv' /\ Inv /\ HookInv /\ [Next]_vars => HookInv'
<1> SUFFICES ASSUME HooksOnly, TypeInv, TypeInv', Inv, HookInv, [Next]_vars PROVE HookInv'
  OBVIOUS
<1>1. CASE UNCHANGED vars
  BY <1>1 DEF vars, HookInv, Orderly, SessionHeld, InCall, Listing, Journaled, Covered, Live
<1>2. ASSUME NEW p \in Procs, CallAny(p) \/ Step(p) \/ Fault(p) PROVE HookInv'
  BY <1>2, HooksKeep DEF Preserves
<1> QED
  BY <1>1, <1>2 DEF Next

----------------------------------------------------------------------------
(* What doctor relies on                                                   *)

\* The post checkpoint of a turn that is not the active one is not left to recovery.
PostOpen ==
    \A k \in Checkpoint : Live(k) /\ k.phase = "post" => active[<<k.home, k.session>>] \in {0, k.turn}

LEMMA PostStep ==
    ASSUME TypeInv, Inv, HookInv, HooksOnly, PostOpen, NEW p \in Procs,
           CallAny(p) \/ Step(p) \/ Fault(p), JournalsKept(p)
    PROVE  PostOpen'
<1>0. TypeOK /\ OneWorktree /\ Orderly(p) /\ ProcInv(p)
  BY DEF TypeInv, HooksOnly, HookInv, Inv
<1> SUFFICES ASSUME NEW k \in Checkpoint, Live(k)', k.phase = "post"
             PROVE  active'[<<k.home, k.session>>] \in {0, k.turn}
  BY DEF PostOpen
<1>1. <<k.home, k.session>> \in Streams
  BY DEF Checkpoint, Streams
<1>2. active[<<k.home, k.session>>] \in {0, k.turn}
  <2>1. CASE Live(k)
    BY <2>1 DEF PostOpen
  <2>2. CASE Making(p, k)
    <3>1. Own(p) = <<Primary, k.session>> /\ k.home = Primary /\ Creator(p)
      BY <1>0, <2>2, AtCreation DEF Making
    <3> QED
      BY <2>2, <3>1 DEF Making, Creator
  <2> QED
    BY <2>1, <2>2 DEF JournalsKept
<1>3. CASE UNCHANGED active
  BY <1>2, <1>3
<1>4. CASE Settle(p)
  BY <1>0, <1>1, <1>2, <1>4 DEF Settle, TypeOK
<1>5. CASE SetActive(p)
  <2>1. /\ pc[p] = "active" /\ UNCHANGED journal
        /\ active' = [active EXCEPT ![Own(p)] =
                          IF job[p].item.phase = "pre" THEN job[p].item.turn ELSE 0]
    BY <1>5 DEF SetActive
  <2>2. Own(p) = <<Primary, job[p].session>> /\ job[p].todo = {} /\ k.home = Primary
    BY <1>0, <2>1, AtCreation, SameHome DEF Creator, Creating, TypeInv
  <2>3. CASE k.session = job[p].session
    <3>1. job[p].item = k
      BY <1>0, <2>1, <2>2, <2>3 DEF Orderly, Covered, Live
    <3> QED
      BY <1>0, <1>1, <2>1, <2>2, <2>3, <3>1 DEF TypeOK
  <2>4. CASE k.session # job[p].session
    BY <1>0, <1>1, <1>2, <2>1, <2>2, <2>4 DEF TypeOK
  <2> QED
    BY <2>3, <2>4
<1> QED
  BY <1>3, <1>4, <1>5
     DEF Step, Fault, CallAny, Call, LockSession, TimeOut, Enter, RecoverOne, RecoveryDone,
         AppendTurn, AppendCheckpoint, ReadJournal, WriteFinalized, ClearJournal, Hook,
         AppendPrompt, AppendError, StartTurn, FinishTurn, BeginJournal, CreateRef,
         MarkCommitted, Undo, CreateFails, StepFails, ClearActiveFails, Kill, Tear

\* As long as nothing went wrong, every journal is in somebody's hands.
FaultFree ==
    faults = 0 =>
        /\ \A st \in Streams : ~torn[st]
        /\ \A p \in Procs : pc[p] # "undo"
        /\ \A k \in Checkpoint :
             /\ journal[k] = "intent" => \E p \in Procs : pc[p] \in {"ref", "commit"} /\ job[p].item = k
             /\ journal[k] = "finalized" => \E p \in Procs : pc[p] = "clear" /\ job[p].item = k
             /\ journal[k] = "committed" => k \in refs

\* What a step does to a journal.
JournalStep(p, k) ==
    \/ /\ journal'[k] = journal[k]
       /\ job[p].item = k /\ pc[p] \in {"ref", "commit"} => pc'[p] = "commit" /\ job'[p].item = k
       /\ ~(job[p].item = k /\ pc[p] = "clear")
    \/ journal'[k] = "none"
    \/ journal'[k] = "intent" /\ pc'[p] = "ref" /\ job'[p].item = k
    \/ journal'[k] = "finalized" /\ pc'[p] = "clear" /\ job'[p].item = k
    \/ journal'[k] = "committed" /\ k \in refs

LEMMA JournalSteps ==
    ASSUME TypeInv, Inv, OneWorktree, NEW p \in Procs, CallAny(p) \/ Step(p), NEW k \in Checkpoint
    PROVE  JournalStep(p, k)
<1>0. TypeOK /\ Home(p) = Primary /\ AsNamedBy(Primary, k) = k /\ job \in [Procs -> Job]
  BY SameHome DEF TypeInv, TypeOK
<1>1. ASSUME UNCHANGED journal, pc[p] \notin {"ref", "commit", "clear"} PROVE JournalStep(p, k)
  BY <1>1 DEF JournalStep
<1>2. CASE RecoverOne(p)
  <2>1. pc[p] = "recover"
    BY <1>2 DEF RecoverOne
  <2>2. PICK entry \in job[p].todo :
            LET mine == AsNamedBy(Home(p), entry[1])
            IN  \/ journal' = [journal EXCEPT ![mine] = "none"]
                \/ mine \in refs /\ journal' = [journal EXCEPT ![mine] = "committed"]
                \/ UNCHANGED journal
    BY <1>2, Zenon DEF RecoverOne
  <2> DEFINE mine == AsNamedBy(Home(p), entry[1])
  <2>3. journal'[k] = journal[k] \/ (mine = k /\ (journal'[k] = "none" \/ (k \in refs /\ journal'[k] = "committed")))
    <3>1. mine = k \/ mine # k
      OBVIOUS
    <3> HIDE DEF mine
    <3>2. \/ journal' = [journal EXCEPT ![mine] = "none"]
          \/ mine \in refs /\ journal' = [journal EXCEPT ![mine] = "committed"]
          \/ UNCHANGED journal
      BY <2>2 DEF mine
    <3> QED
      BY <1>0, <3>1, <3>2 DEF TypeOK
  <2> QED
    BY <2>1, <2>3 DEF JournalStep
<1>3. CASE WriteFinalized(p) \/ ClearJournal(p)
  <2>1. pc[p] \in Appending /\ Unscoped(job[p].item) = job[p].item
    BY <1>3, AtEvents DEF WriteFinalized, ClearJournal, Appending
  <2>2. CASE WriteFinalized(p)
    <3>1. pc'[p] = "clear" /\ job' = job /\ pc[p] = "write"
          /\ journal' = [journal EXCEPT ![job[p].item] = "finalized"]
      BY <1>0, <2>1, <2>2, GotoType DEF WriteFinalized, Labels
    <3> QED
      BY <1>0, <3>1 DEF JournalStep, TypeOK
  <2>3. CASE ClearJournal(p)
    BY <1>0, <2>1, <2>3 DEF ClearJournal, JournalStep, TypeOK
  <2> QED
    BY <1>3, <2>2, <2>3
<1>4. CASE BeginJournal(p) \/ CreateRef(p) \/ MarkCommitted(p)
  <2>1. Creator(p) /\ job' = job
    BY <1>4, AtCreation DEF BeginJournal, CreateRef, MarkCommitted, Creating
  <2>2. CASE BeginJournal(p)
    <3>1. pc'[p] = "ref" /\ pc[p] = "begin"
      BY <1>0, <2>2, GotoType DEF BeginJournal, Labels
    <3> QED
      BY <1>0, <2>1, <2>2, <3>1 DEF BeginJournal, JournalStep, TypeOK
  <2>3. CASE CreateRef(p)
    <3>1. pc'[p] = "commit" /\ pc[p] = "ref"
      BY <1>0, <2>3, GotoType DEF CreateRef, Labels
    <3> QED
      BY <1>0, <2>1, <2>3, <3>1 DEF CreateRef, JournalStep
  <2>4. CASE MarkCommitted(p)
    <3>1. pc[p] = "commit" /\ job[p].item \in refs
      BY <2>1, <2>4 DEF MarkCommitted, Creator, Creating
    <3> QED
      BY <1>0, <2>1, <2>4, <3>1 DEF MarkCommitted, JournalStep, TypeOK
  <2> QED
    BY <1>4, <2>2, <2>3, <2>4
<1> QED
  BY <1>1, <1>2, <1>3, <1>4
     DEF Step, CallAny, Call, LockSession, TimeOut, Enter, RecoveryDone, Settle,
         AppendTurn, AppendCheckpoint, ReadJournal, Hook,
         AppendPrompt, AppendError, StartTurn, FinishTurn, SetActive, Undo

LEMMA TornSteps ==
    ASSUME TypeOK, NEW p \in Procs, CallAny(p) \/ Step(p), NEW st \in Streams, torn'[st]
    PROVE  torn[st]
  BY DEF Step, CallAny, Call, LockSession, TimeOut, Enter, RecoverOne, RecoveryDone, Settle,
         AppendTurn, AppendCheckpoint, ReadJournal, WriteFinalized, ClearJournal, Hook,
         AppendPrompt, AppendError, StartTurn, FinishTurn, BeginJournal, CreateRef,
         MarkCommitted, SetActive, Undo, TypeOK

LEMMA FaultFreeStep ==
    ASSUME TypeInv, TypeInv', Inv, OneWorktree, FaultFree, NEW p \in Procs,
           CallAny(p) \/ Step(p) \/ Fault(p), Others(p)
    PROVE  FaultFree'
<1> SUFFICES ASSUME faults' = 0 PROVE FaultFree'
  BY DEF FaultFree
<1>0. TypeOK /\ faults \in Nat /\ ProcInv(p)
  BY DEF TypeInv, TypeOK, Inv
<1>1. CallAny(p) \/ Step(p)
  BY <1>0 DEF Fault, CreateFails, StepFails, ClearActiveFails, Kill, Tear
<1>2. faults = 0
  BY <1>1 DEF Step, CallAny, Call, LockSession, TimeOut, Enter, RecoverOne, RecoveryDone, Settle,
              AppendTurn, AppendCheckpoint, ReadJournal, WriteFinalized, ClearJournal, Hook,
              AppendPrompt, AppendError, StartTurn, FinishTurn, BeginJournal, CreateRef,
              MarkCommitted, SetActive, Undo
<1>3. \A st \in Streams : ~torn'[st]
  BY <1>0, <1>1, <1>2, TornSteps DEF FaultFree
<1>4. pc[p] # "undo" /\ refs \subseteq refs'
  <2>1. pc[p] # "undo"
    BY <1>2 DEF FaultFree
  <2> QED
    BY <1>1, <2>1
       DEF Step, CallAny, Call, LockSession, TimeOut, Enter, RecoverOne, RecoveryDone, Settle,
           AppendTurn, AppendCheckpoint, ReadJournal, WriteFinalized, ClearJournal, Hook,
           AppendPrompt, AppendError, StartTurn, FinishTurn, BeginJournal, CreateRef,
           MarkCommitted, SetActive, Undo
<1>5. pc'[p] # "undo"
  <2>1. ASSUME NEW label \in Labels \ {"undo"}, Goto(p, label) PROVE pc'[p] # "undo"
    BY <1>0, <2>1, GotoType
  <2>2. ASSUME Leave(p) \/ Fail(p) PROVE pc'[p] # "undo"
    BY <1>0, <2>2, LeaveReleases, FailReleases DEF Released
  <2>3. ASSUME AfterEvents(p) PROVE pc'[p] # "undo"
    <3>1. Leave(p) \/ \E label \in Labels \ {"undo"} : Goto(p, label)
      BY <2>3 DEF AfterEvents, Labels
    <3> QED
      BY <2>1, <2>2, <3>1
  <2>4. CASE RecoverOne(p)
    <3>1. pc[p] = "recover"
      BY <2>4 DEF RecoverOne
    <3>2. UNCHANGED pc \/ Goto(p, "turn") \/ Leave(p)
      BY <2>4, Zenon DEF RecoverOne
    <3> QED
      BY <2>1, <2>2, <3>1, <3>2 DEF Labels
  <2>5. CASE RecoveryDone(p)
    <3>1. job[p].kind \in {"start", "finish"} \/ IsHook(p)
      BY <2>5, TurnAssumption DEF RecoveryDone, TypeInv, Held, IsHook, CLICalls
    <3>2. \E label \in Labels \ {"undo"} : Goto(p, label)
      BY <2>5, <3>1 DEF RecoveryDone, Proceed, Labels
    <3> QED
      BY <2>1, <3>2
  <2>6. CASE ~RecoverOne(p) /\ ~RecoveryDone(p)
    <3>1. \/ Leave(p) \/ Fail(p) \/ AfterEvents(p)
          \/ \E label \in Labels \ {"undo"} : Goto(p, label)
      BY <1>1, <2>6
         DEF Step, CallAny, Call, LockSession, TimeOut, Enter, Settle, Broken, Proceed,
             AppendTurn, AppendCheckpoint, ReadJournal, WriteFinalized, ClearJournal, Hook,
             AppendPrompt, AppendError, StartTurn, FinishTurn, BeginJournal, CreateRef,
             MarkCommitted, SetActive, Undo, Labels
    <3> QED
      BY <2>1, <2>2, <2>3, <3>1
  <2> QED
    BY <2>4, <2>5, <2>6
<1>6. \A q \in Procs : pc'[q] # "undo"
  BY <1>2, <1>5 DEF FaultFree, Others
<1>7. ASSUME NEW k \in Checkpoint
      PROVE  /\ journal'[k] = "intent" =>
                    \E q \in Procs : pc'[q] \in {"ref", "commit"} /\ job'[q].item = k
             /\ journal'[k] = "finalized" => \E q \in Procs : pc'[q] = "clear" /\ job'[q].item = k
             /\ journal'[k] = "committed" => k \in refs'
  <2>1. JournalStep(p, k)
    BY <1>1, JournalSteps
  <2>2. CASE journal'[k] = journal[k] /\ journal[k] = "intent"
    <3>1. PICK q \in Procs : pc[q] \in {"ref", "commit"} /\ job[q].item = k
      BY <1>2, <2>2 DEF FaultFree
    <3>2. pc'[q] \in {"ref", "commit"} /\ job'[q].item = k
      BY <2>1, <2>2, <3>1 DEF JournalStep, Others
    <3> QED
      BY <2>2, <3>2
  <2>3. CASE journal'[k] = journal[k] /\ journal[k] = "finalized"
    <3>1. PICK q \in Procs : pc[q] = "clear" /\ job[q].item = k
      BY <1>2, <2>3 DEF FaultFree
    <3>2. pc'[q] = "clear" /\ job'[q].item = k
      BY <2>1, <2>3, <3>1 DEF JournalStep, Others
    <3> QED
      BY <2>3, <3>2
  <2>4. CASE journal'[k] = journal[k] /\ journal[k] \notin {"intent", "finalized"}
    BY <1>2, <1>4, <2>4 DEF FaultFree
  <2>5. CASE journal'[k] # journal[k]
    BY <1>4, <2>1, <2>5 DEF JournalStep
  <2> QED
    BY <2>2, <2>3, <2>4, <2>5
<1> QED
  BY <1>3, <1>6, <1>7 DEF FaultFree

LEMMA DoctorHolds ==
    ASSUME TypeInv, Inv, HooksOnly, PostOpen, FaultFree
    PROVE  DoctorTrue
<1>0. TypeOK /\ OneWorktree /\ refs \subseteq Checkpoint
  BY DEF TypeInv, HooksOnly, TypeOK
<1> SUFFICES ASSUME \A p \in Procs : pc[p] = "idle"
             PROVE  /\ faults = 0 => Inspect = NoProblems
                    /\ Inspect = NoProblems => \A w \in Worktrees : ~RecoveryFails(w)
  BY DEF DoctorTrue
<1>1. lock = NoProc
  <2>1. ASSUME NEW p \in Procs PROVE lock # p
    BY DEF Inv, ProcInv, Locked, Creating, Appending
  <2> QED
    BY <1>0, <2>1 DEF TypeOK
<1>2. ASSUME faults = 0 PROVE Inspect = NoProblems
  <2>1. EventProblems = {}
    <3>1. ASSUME NEW st \in Streams, NEW i \in DOMAIN stream[st]
          PROVE  Key(stream[st][i].of, st[2], stream[st][i].turn, stream[st][i].phase) \in refs
      BY DEF Inv, EventsBacked
    <3>2. \A st \in Streams : ~torn[st]
      BY <1>2 DEF FaultFree
    <3> QED
      BY <3>1, <3>2 DEF EventProblems
  <2>2. JournalProblems = {}
    BY <1>2 DEF JournalProblems, FaultFree
  <2> QED
    BY <1>1, <2>1, <2>2 DEF Inspect, NoProblems
<1>3. ASSUME Inspect = NoProblems, NEW w \in Worktrees, RecoveryFails(w)
      PROVE  FALSE
  <2>1. EventProblems = {} /\ JournalProblems = {}
    BY <1>3 DEF Inspect, NoProblems
  <2>2. PICK k \in Checkpoint :
            LET st == <<w, k.session>>
                mine == AsNamedBy(w, k)
            IN  \/ journal[k] = "committed" /\ k \notin refs
                \/ /\ journal[k] = "committed" \/ (journal[k] = "intent" /\ mine \in refs)
                   /\ \/ torn[st]
                      \/ /\ k.phase = "post" /\ active[st] # 0
                         /\ \/ active[st] # k.turn
                            \/ AsNamedBy(w, [k EXCEPT !.phase = "pre"]) \notin refs
    BY <1>3 DEF RecoveryFails
  <2>3. journal[k] # "intent" /\ ~(journal[k] = "committed" /\ k \notin refs)
    BY <2>1 DEF JournalProblems
  <2>4. w = Primary /\ k.home = Primary /\ <<w, k.session>> \in Streams
    BY <1>0, SameHome DEF OneWorktree, Checkpoint, Streams
  <2>5. ~torn[<<w, k.session>>]
    BY <2>1, <2>4 DEF EventProblems
  <2>6. /\ Live(k) /\ k.phase = "post" /\ active[<<w, k.session>>] # 0
        /\ \/ active[<<w, k.session>>] # k.turn
           \/ AsNamedBy(w, [k EXCEPT !.phase = "pre"]) \notin refs
    BY <2>2, <2>3, <2>5 DEF Live
  <2>7. active[<<w, k.session>>] = k.turn
    BY <2>4, <2>6 DEF PostOpen
  <2>8. Key(w, k.session, k.turn, "pre") \in refs
    BY <2>4, <2>6, <2>7 DEF Inv, ActiveBacked
  <2>9. AsNamedBy(w, [k EXCEPT !.phase = "pre"]) = Key(w, k.session, k.turn, "pre")
    <3>1. [k EXCEPT !.phase = "pre"] = Key(k.home, k.session, k.turn, "pre")
      BY DEF Key, Checkpoint
    <3>2. AsNamedBy(w, Key(k.home, k.session, k.turn, "pre")) = Key(w, k.session, k.turn, "pre")
      BY DEF AsNamedBy, Key
    <3> QED
      BY <3>1, <3>2
  <2> QED
    BY <2>6, <2>7, <2>8, <2>9
<1> QED
  BY <1>2, <1>3

LEMMA DoctorNext ==
    ASSUME HooksOnly, TypeInv, TypeInv', Inv, HookInv, PostOpen, FaultFree, [Next]_vars
    PROVE  HookInv' /\ PostOpen' /\ FaultFree'
<1>1. CASE UNCHANGED vars
  <2>1. HookInv'
    BY <1>1, HookNext
  <2>2. PostOpen' /\ FaultFree'
    BY <1>1 DEF vars, PostOpen, FaultFree, Live
  <2> QED
    BY <2>1, <2>2
<1>2. ASSUME NEW p \in Procs, CallAny(p) \/ Step(p) \/ Fault(p)
      PROVE  HookInv' /\ PostOpen' /\ FaultFree'
  <2>1. Preserves(p)
    BY <1>2, HooksKeep
  <2>2. PostOpen'
    BY <1>2, <2>1, PostStep DEF Preserves
  <2>3. FaultFree'
    BY <1>2, <2>1, FaultFreeStep DEF Preserves, HooksOnly, LocksKept
  <2> QED
    BY <2>1, <2>2, <2>3 DEF Preserves
<1> QED
  BY <1>1, <1>2 DEF Next

\* When only hooks write, and in one worktree, doctor is right about whatever was
\* killed, torn or failed: it reports nothing as long as nothing went wrong, and when
\* it reports nothing the next hook's recovery does not fail.
THEOREM DoctorIsRight ==
    ASSUME HooksOnly
    PROVE  Spec => []DoctorTrue
<1> DEFINE All == TypeInv /\ Inv /\ HookInv /\ PostOpen /\ FaultFree
<1>1. Init => All
  <2>1. Init => PostOpen /\ FaultFree
    BY DEF Init, PostOpen, FaultFree, Live
  <2> QED
    BY <2>1, TypeInit, SafeInit, HookInit
<1>2. All /\ [Next]_vars => All'
  BY TypeNext, SafeNext, DoctorNext DEF HooksOnly
<1>3. All => DoctorTrue
  BY DoctorHolds
<1> QED
  BY <1>1, <1>2, <1>3, PTL DEF Spec

----------------------------------------------------------------------------
(* The way of a hook                                                       *)

\* Where a hook may go, and with which turn.
Recovers(p) == lock = p /\ pc[p] \in Appending \union {"recover", "settle"}

Follows(p) == lock # p /\ pc[p] \in Appending

Entering(p) ==
    \/ pc'[p] \in {"idle", "error"} /\ lock' # p
    \/ pc'[p] = "session" /\ job'[p].turn = 0 /\ lock' # p
    \/ pc[p] = "session" /\ pc'[p] = "enter" /\ job'[p].turn = job[p].turn
    \/ pc[p] = "enter" /\ Recovers(p)' /\ job'[p].turn = job[p].turn
    \/ Recovers(p) /\ Recovers(p)' /\ job'[p].turn = job[p].turn
    \/ pc[p] = "recover" /\ pc'[p] = "hook" /\ job'[p].turn = job[p].turn

Turning(p) ==
    \/ pc[p] = "hook" /\ pc'[p] = "start" /\ job'[p].turn = job[p].turn
    \/ /\ pc[p] = "hook" /\ pc'[p] \in {"prompt", "finish"}
       /\ job'[p].turn = active[Own(p)] /\ active[Own(p)] # 0
       /\ pc'[p] = "prompt" => ~HasPrompt(Own(p), active[Own(p)])
    \/ pc[p] = "finish" /\ pc'[p] = "start" /\ job'[p].turn = 0
    \/ /\ pc[p] = "start" /\ pc'[p] = "begin" /\ job'[p].item.phase = "pre"
       /\ job[p].turn = 0 => job'[p].item.turn = NextTurnID(Home(p), job[p].session)
    \/ /\ pc[p] = "finish" /\ pc'[p] = "begin" /\ job'[p].item.phase = "post"
       /\ job[p].turn # 0 => job'[p].item.turn = job[p].turn

Recording(p) ==
    \/ /\ pc[p] \in Creating /\ pc'[p] \in Creating \ {"begin"} /\ job'[p] = job[p]
       /\ pc'[p] = "ref" => pc[p] = "begin"
    \/ pc[p] = "active" /\ Follows(p)' /\ job'[p] = job[p]
    \/ Follows(p) /\ Follows(p)' /\ job'[p] = job[p]
    \/ Follows(p) /\ pc'[p] = "start" /\ job'[p].turn = 0
    \/ /\ Follows(p) /\ pc[p] \in {"read", "clear"} /\ pc'[p] = "prompt"
       /\ job[p].item.phase = "pre" /\ job'[p].turn = job[p].item.turn

Way(p) ==
    /\ Entering(p) \/ Turning(p) \/ Recording(p)
    /\ InCall(p)' /\ pc[p] # "idle" => job'[p].session = job[p].session

\* job'[p] after an EXCEPT of some fields.
LEMMA NewTurn ==
    ASSUME TypeOK, NEW p \in Procs, NEW t \in Turns \union {0}, job' = [job EXCEPT ![p].turn = t]
    PROVE  /\ job'[p].turn = t /\ job'[p].session = job[p].session /\ job'[p].item = job[p].item
           /\ job'[p].kind = job[p].kind
<1>1. job' = [job EXCEPT ![p] = [job[p] EXCEPT !.turn = t]] /\ job \in [Procs -> Job]
  BY DEF TypeOK
<1> QED
  BY <1>1 DEF Job

LEMMA Stays ==
    ASSUME TypeOK, NEW p \in Procs, NEW label \in Labels, Goto(p, label), UNCHANGED <<job, lock>>
    PROVE  pc'[p] = label /\ job'[p] = job[p] /\ lock' = lock
  BY GotoType

LEMMA EndWay ==
    ASSUME TypeInv, HooksOnly, NEW p \in Procs, Ends(p)
    PROVE  Way(p)
<1>1. TypeOK
  BY DEF TypeInv
<1>2. Released(p)
  BY <1>1, LeaveReleases, FailReleases DEF Ends
<1>3. pc'[p] \in {"idle", "error"} /\ lock' # p
  BY <1>2, ReleasedFree DEF Released
<1>4. CASE Leave(p)
  <2>1. pc'[p] = "idle"
    BY <1>1, <1>4, GotoType DEF Leave, Labels
  <2> QED
    BY <1>3, <2>1 DEF Way, Entering, InCall
<1>5. CASE Fail(p) /\ InCall(p)
  <2>1. IsHook(p)
    BY <1>5, HooksAreHooks DEF InCall
  <2>2. /\ job \in [Procs -> Job]
        /\ job' = [job EXCEPT ![p] = [job[p] EXCEPT !.turn = 0, !.item = Nil]]
    BY <1>1, <1>5, <2>1 DEF Fail, TypeOK
  <2>3. job'[p].session = job[p].session
    BY <2>2 DEF Job
  <2> QED
    BY <1>3, <2>3 DEF Way, Entering
<1> QED
  BY <1>4, <1>5 DEF Ends

LEMMA CallsWay ==
    ASSUME TypeInv, Inv, HooksOnly, NEW p \in Procs,
           CallAny(p) \/ LockSession(p) \/ TimeOut(p)
    PROVE  Way(p)
<1>0. TypeOK /\ ProcInv(p)
  BY DEF TypeInv, Inv
<1>1. CASE CallAny(p)
  <2>1. PICK kind \in Calls, s \in Sessions, t \in Requested : Call(p, kind, s, t)
    BY <1>1 DEF CallAny
  <2>2. /\ pc[p] = "idle" /\ t = 0 /\ Goto(p, "session") /\ lock' = lock
        /\ job' = [job EXCEPT ![p] = [job[p] EXCEPT !.kind = kind, !.session = s, !.turn = 0]]
    BY <1>0, <2>1 DEF Call, HooksOnly, TypeOK
  <2>3. pc'[p] = "session" /\ job'[p].turn = 0 /\ lock # p
    BY <1>0, <2>2, GotoType DEF TypeOK, Job, Labels, ProcInv, Locked, Creating, Appending
  <2> QED
    BY <2>2, <2>3 DEF Way, Entering
<1>2. CASE LockSession(p)
  <2>1. pc[p] = "session" /\ pc'[p] = "enter" /\ job' = job
    BY <1>0, <1>2, GotoType DEF LockSession, Labels
  <2> QED
    BY <2>1 DEF Way, Entering
<1>3. CASE TimeOut(p)
  BY <1>3, EndWay DEF TimeOut, Ends, InCall
<1> QED
  BY <1>1, <1>2, <1>3

LEMMA RecoveryWay ==
    ASSUME TypeInv, Inv, HooksOnly, NEW p \in Procs,
           Enter(p) \/ RecoverOne(p) \/ RecoveryDone(p) \/ Settle(p)
    PROVE  Way(p)
<1>0. /\ TypeOK /\ ProcInv(p) /\ job[p].todo \in SUBSET (Checkpoint \X JournalStates)
  BY JobFields DEF TypeInv, Inv
<1>1. ASSUME NEW label \in Labels, Goto(p, label), NEW item \in Checkpoint \union {Nil},
             NEW todo \in SUBSET (Checkpoint \X JournalStates), Work(p, item, todo)
      PROVE  pc'[p] = label /\ job'[p].session = job[p].session /\ job'[p].turn = job[p].turn
  BY <1>0, <1>1, GotoType, WorkType
<1>2. CASE Enter(p)
  <2>1. /\ Goto(p, "recover") /\ pc[p] = "enter" /\ lock' = p
        /\ Work(p, Nil, {<<k, journal[k]>> : k \in {c \in Checkpoint : journal[c] # "none"}})
    BY <1>2 DEF Enter
  <2>2. {<<k, journal[k]>> : k \in {c \in Checkpoint : journal[c] # "none"}}
            \in SUBSET (Checkpoint \X JournalStates)
    BY <1>0 DEF TypeOK
  <2>3. pc'[p] = "recover" /\ job'[p].session = job[p].session /\ job'[p].turn = job[p].turn
    BY <1>1, <2>1, <2>2 DEF Labels
  <2> QED
    BY <2>1, <2>3 DEF Way, Entering, Recovers
<1>3. CASE RecoverOne(p)
  <2>1. lock = p /\ pc[p] = "recover"
    BY <1>0, <1>3 DEF RecoverOne, ProcInv, Locked
  <2>2. PICK entry \in job[p].todo :
            LET rest == job[p].todo \ {entry}
            IN  \/ Work(p, Nil, rest) /\ UNCHANGED <<pc, lock, sessionLock>>
                \/ Work(p, entry[1], rest) /\ Goto(p, "turn") /\ UNCHANGED <<lock, sessionLock>>
                \/ Leave(p)
    BY <1>3, Zenon DEF RecoverOne
  <2> DEFINE rest == job[p].todo \ {entry}
  <2>3. rest \in SUBSET (Checkpoint \X JournalStates) /\ entry[1] \in Checkpoint
    BY <1>0
  <2> HIDE DEF rest
  <2>4. CASE Work(p, Nil, rest) /\ UNCHANGED <<pc, lock, sessionLock>>
    <3>1. job'[p].session = job[p].session /\ job'[p].turn = job[p].turn
      BY <1>0, <2>3, <2>4, WorkType
    <3> QED
      BY <2>1, <2>4, <3>1 DEF Way, Entering, Recovers
  <2>5. CASE Work(p, entry[1], rest) /\ Goto(p, "turn") /\ UNCHANGED <<lock, sessionLock>>
    <3>1. pc'[p] = "turn" /\ job'[p].session = job[p].session /\ job'[p].turn = job[p].turn
      BY <1>1, <2>3, <2>5 DEF Labels
    <3> QED
      BY <2>1, <2>5, <3>1 DEF Way, Entering, Recovers, Appending
  <2> QED
    BY <2>2, <2>4, <2>5, EndWay DEF Ends, rest
<1>4. CASE RecoveryDone(p)
  <2>1. pc[p] = "recover" /\ IsHook(p)
    BY <1>4, HooksAreHooks DEF RecoveryDone
  <2>2. Goto(p, "hook") /\ Work(p, Nil, {})
    BY <1>4, <2>1 DEF RecoveryDone, Proceed
  <2>3. pc'[p] = "hook" /\ job'[p].session = job[p].session /\ job'[p].turn = job[p].turn
    BY <1>1, <2>2 DEF Labels
  <2> QED
    BY <2>1, <2>3 DEF Way, Entering
<1>5. CASE Settle(p)
  <2>1. pc[p] = "settle" /\ lock = p
    BY <1>0, <1>5 DEF Settle, ProcInv, Locked
  <2>2. CASE Goto(p, "recover") /\ UNCHANGED <<job, lock, sessionLock>>
    <3>1. pc'[p] = "recover" /\ job' = job /\ lock' = p
      BY <1>0, <2>1, <2>2, Stays DEF Labels
    <3> QED
      BY <2>1, <3>1 DEF Way, Entering, Recovers
  <2> QED
    BY <1>5, <2>2, EndWay DEF Settle, Ends
<1> QED
  BY <1>2, <1>3, <1>4, <1>5

LEMMA AfterWay ==
    ASSUME TypeInv, Inv, HooksOnly, NEW p \in Procs, pc[p] \in {"read", "clear"}, AfterEvents(p)
    PROVE  Way(p)
<1>0. TypeOK /\ job[p].item \in Checkpoint /\ job \in [Procs -> Job] /\ pc[p] \in Appending
  BY DEF TypeInv, Held, TypeOK, Appending
<1>1. CASE Recovering(p)
  <2>1. /\ \E label \in {"settle", "recover"} : Goto(p, label)
        /\ UNCHANGED <<job, lock, sessionLock>> /\ lock = p
    BY <1>1 DEF AfterEvents, Recovering
  <2>2. pc'[p] \in {"settle", "recover"}
    BY <1>0, <2>1, GotoType DEF Labels
  <2> QED
    BY <1>0, <2>1, <2>2 DEF Way, Entering, Recovers
<1>2. CASE ~Recovering(p) /\ job[p].kind = "prompt"
  <2>1. lock # p /\ job[p].item.phase \in {"pre", "post"} /\ job[p].item.turn \in Turns
    BY <1>0, <1>2 DEF Recovering, Checkpoint, Phases
  <2>2. CASE job[p].item.phase = "post"
    <3>1. Goto(p, "start") /\ job' = [job EXCEPT ![p] = [job[p] EXCEPT !.turn = 0, !.item = Nil]]
      BY <1>0, <1>2, <2>2 DEF AfterEvents
    <3>2. pc'[p] = "start" /\ job'[p].turn = 0 /\ job'[p].session = job[p].session
      BY <1>0, <3>1, GotoType DEF Labels, Job
    <3> QED
      BY <1>0, <2>1, <3>2 DEF Way, Recording, Follows
  <2>3. CASE job[p].item.phase = "pre"
    <3>1. /\ Goto(p, "prompt")
          /\ job' = [job EXCEPT ![p] = [job[p] EXCEPT !.turn = job[p].item.turn, !.item = Nil]]
      BY <1>0, <1>2, <2>3 DEF AfterEvents
    <3>2. pc'[p] = "prompt" /\ job'[p].turn = job[p].item.turn /\ job'[p].session = job[p].session
      BY <1>0, <3>1, GotoType DEF Labels, Job
    <3> QED
      BY <1>0, <2>1, <2>3, <3>2 DEF Way, Recording, Follows
  <2> QED
    BY <2>1, <2>2, <2>3
<1>3. CASE ~Recovering(p) /\ job[p].kind # "prompt"
  BY <1>3, EndWay DEF AfterEvents, Ends
<1> QED
  BY <1>1, <1>2, <1>3

LEMMA EventWay ==
    ASSUME TypeInv, Inv, HooksOnly, NEW p \in Procs,
           \/ AppendTurn(p) \/ AppendCheckpoint(p)
           \/ ReadJournal(p) \/ WriteFinalized(p) \/ ClearJournal(p)
    PROVE  Way(p)
<1>0. TypeOK /\ pc[p] \in Appending /\ InCall(p)
  BY DEF TypeInv, InCall, Appending,
         AppendTurn, AppendCheckpoint, ReadJournal, WriteFinalized, ClearJournal
<1>1. \/ /\ \E label \in {"checkpoint", "read", "write", "clear"} : Goto(p, label)
         /\ UNCHANGED <<job, lock, sessionLock>>
      \/ (AfterEvents(p) /\ pc[p] \in {"read", "clear"}) \/ Leave(p) \/ Fail(p)
  BY DEF AppendTurn, AppendCheckpoint, ReadJournal, WriteFinalized, ClearJournal, Broken
<1>2. CASE /\ \E label \in {"checkpoint", "read", "write", "clear"} : Goto(p, label)
           /\ UNCHANGED <<job, lock, sessionLock>>
  <2>1. pc'[p] \in Appending /\ job' = job /\ lock' = lock
    BY <1>0, <1>2, GotoType DEF Labels, Appending
  <2> QED
    BY <1>0, <2>1 DEF Way, Entering, Recording, Recovers, Follows
<1> QED
  BY <1>0, <1>1, <1>2, AfterWay, EndWay DEF Ends

LEMMA HookWay ==
    ASSUME TypeInv, Inv, HooksOnly, NEW p \in Procs,
           Hook(p) \/ AppendPrompt(p) \/ AppendError(p)
    PROVE  Way(p)
<1>0. TypeOK /\ InCall(p) /\ active[Own(p)] \in Turns \union {0}
  BY JobFields DEF TypeInv, TypeOK, InCall, Hook, AppendPrompt, AppendError
<1>1. CASE Ends(p)
  BY <1>1, EndWay
<1>2. CASE ~Ends(p)
  <2>1. /\ pc[p] = "hook"
        /\ \/ Goto(p, "start") /\ job' = job
           \/ /\ \E label \in {"prompt", "finish"} :
                    Goto(p, label) /\ (label = "prompt" => ~HasPrompt(Own(p), active[Own(p)]))
              /\ job' = [job EXCEPT ![p].turn = active[Own(p)]] /\ active[Own(p)] # 0
    BY <1>0, <1>2 DEF Ends, Hook, AppendPrompt, AppendError
  <2>2. CASE Goto(p, "start") /\ job' = job
    <3>1. pc'[p] = "start"
      BY <1>0, <2>2, GotoType DEF Labels
    <3> QED
      BY <2>1, <2>2, <3>1 DEF Way, Turning
  <2>3. ASSUME NEW label \in {"prompt", "finish"}, Goto(p, label),
               label = "prompt" => ~HasPrompt(Own(p), active[Own(p)]),
               job' = [job EXCEPT ![p].turn = active[Own(p)]], active[Own(p)] # 0
        PROVE  Way(p)
    <3>1. pc'[p] = label
      BY <1>0, <2>3, GotoType DEF Labels
    <3>2. job'[p].turn = active[Own(p)] /\ job'[p].session = job[p].session
      BY <1>0, <2>3, NewTurn
    <3> QED
      BY <2>1, <2>3, <3>1, <3>2 DEF Way, Turning
  <2> QED
    BY <2>1, <2>2, <2>3
<1> QED
  BY <1>1, <1>2

LEMMA TurnWay ==
    ASSUME TypeInv, TypeInv', Inv, HooksOnly, NEW p \in Procs, StartTurn(p) \/ FinishTurn(p)
    PROVE  Way(p)
<1>0. /\ TypeOK /\ InCall(p) /\ pc[p] \in {"start", "finish"} /\ job \in [Procs -> Job]
      /\ job[p] \in Job
  BY DEF TypeInv, TypeOK, InCall, StartTurn, FinishTurn
<1>1. CASE Ends(p)
  BY <1>1, EndWay
<1>2. ASSUME NEW item, Work(p, item, {}), Goto(p, "begin")
      PROVE  /\ pc'[p] = "begin" /\ job'[p].item = item /\ job'[p].session = job[p].session
             /\ job'[p].turn = job[p].turn
  <2>1. job' = [job EXCEPT ![p] = [job[p] EXCEPT !.item = item, !.todo = {}]]
    BY <1>0, <1>2 DEF Work
  <2> QED
    BY <1>0, <1>2, <2>1, GotoType DEF Job, Labels
<1>3. CASE StartTurn(p) /\ ~Ends(p)
  <2> DEFINE t == IF job[p].turn = 0 THEN NextTurnID(Home(p), job[p].session) ELSE job[p].turn
  <2>1. /\ Work(p, Key(Home(p), job[p].session, t, "pre"), {}) /\ Goto(p, "begin")
        /\ pc[p] = "start"
    BY <1>0, <1>3 DEF StartTurn, Ends
  <2>2. job[p].turn = 0 => t = NextTurnID(Home(p), job[p].session)
    OBVIOUS
  <2> HIDE DEF t
  <2>3. /\ pc'[p] = "begin" /\ job'[p].item = Key(Home(p), job[p].session, t, "pre")
        /\ job'[p].session = job[p].session
    BY <1>2, <2>1
  <2> QED
    BY <2>1, <2>2, <2>3 DEF Way, Turning, Key
<1>4. CASE FinishTurn(p) /\ ~Ends(p) /\ ~(Goto(p, "start") /\ job' = [job EXCEPT ![p].turn = 0])
  <2> DEFINE t == IF job[p].turn = 0 THEN active[Own(p)] ELSE job[p].turn
  <2>1. /\ Work(p, Key(Home(p), job[p].session, t, "post"), {}) /\ Goto(p, "begin")
        /\ pc[p] = "finish"
    BY <1>0, <1>4 DEF FinishTurn, Ends
  <2>2. job[p].turn # 0 => t = job[p].turn
    OBVIOUS
  <2> HIDE DEF t
  <2>3. /\ pc'[p] = "begin" /\ job'[p].item = Key(Home(p), job[p].session, t, "post")
        /\ job'[p].session = job[p].session
    BY <1>2, <2>1
  <2> QED
    BY <2>1, <2>2, <2>3 DEF Way, Turning, Key
<1>5. CASE FinishTurn(p) /\ Goto(p, "start") /\ job' = [job EXCEPT ![p].turn = 0]
  <2>1. pc'[p] = "start" /\ job'[p].turn = 0 /\ job'[p].session = job[p].session /\ pc[p] = "finish"
    BY <1>0, <1>5, GotoType, NewTurn DEF Labels, FinishTurn
  <2> QED
    BY <2>1 DEF Way, Turning
<1> QED
  BY <1>1, <1>3, <1>4, <1>5

LEMMA CreationWay ==
    ASSUME TypeInv, Inv, HooksOnly, NEW p \in Procs,
           \/ BeginJournal(p) \/ CreateRef(p) \/ MarkCommitted(p) \/ SetActive(p)
           \/ StepFails(p)
    PROVE  Way(p)
<1>0. TypeOK /\ job' = job /\ lock = p /\ pc[p] \in Creating
  <2>1. pc[p] \in Creating /\ job' = job
    BY DEF Creating, BeginJournal, CreateRef, MarkCommitted, SetActive, StepFails, Proceed
  <2> QED
    BY <2>1 DEF TypeInv, Inv, ProcInv, Locked
<1>1. CASE SetActive(p)
  <2>1. pc[p] = "active" /\ pc'[p] = "turn" /\ lock' = NoProc
    BY <1>0, <1>1, GotoType DEF SetActive, Proceed, Labels
  <2> QED
    BY <1>0, <2>1, TurnAssumption DEF Way, Recording, Follows, Appending
<1>2. CASE BeginJournal(p)
  <2>1. pc[p] = "begin" /\ pc'[p] = "ref"
    BY <1>0, <1>2, GotoType DEF BeginJournal, Labels
  <2> QED
    BY <1>0, <2>1 DEF Way, Recording, Creating
<1>3. CASE CreateRef(p) \/ MarkCommitted(p) \/ StepFails(p)
  <2>1. pc'[p] \in {"commit", "active", "undo"}
    BY <1>0, <1>3, GotoType DEF CreateRef, MarkCommitted, StepFails, Labels
  <2> QED
    BY <1>0, <2>1 DEF Way, Recording, Creating
<1> QED
  BY <1>1, <1>2, <1>3

LEMMA FailureWay ==
    ASSUME TypeInv, HooksOnly, NEW p \in Procs,
           Undo(p) \/ CreateFails(p) \/ ClearActiveFails(p) \/ Kill(p) \/ Tear(p)
    PROVE  Way(p)
  BY EndWay DEF Ends, InCall, Undo, CreateFails, ClearActiveFails, Kill, Tear

LEMMA EveryWay ==
    ASSUME TypeInv, TypeInv', Inv, HooksOnly, NEW p \in Procs, CallAny(p) \/ Step(p) \/ Fault(p)
    PROVE  Way(p)
  BY CallsWay, RecoveryWay, EventWay, HookWay, TurnWay, CreationWay, FailureWay DEF Step, Fault

----------------------------------------------------------------------------
(* What a step does to the shared state                                    *)

\* Only CreateRef makes a ref.
RefStep(p) ==
    \A r \in refs' : r \in refs \/ (pc[p] = "ref" /\ r = job[p].item)

\* Recovery and Finish clear the active turn, Start sets it.
ActiveStepOf(p) ==
    \A st \in Streams :
        \/ active'[st] \in {0, active[st]}
        \/ /\ pc[p] = "active" /\ UNCHANGED refs /\ st = Own(p)
           /\ active'[st] = job[p].item.turn /\ job[p].item.phase = "pre"

\* The event appended at a label.
EventAt(p) ==
    LET k == job[p].item
    IN  CASE pc[p] = "turn" ->
               [kind |-> TurnKind(k), turn |-> k.turn, phase |-> k.phase, of |-> Home(p)]
          [] pc[p] = "checkpoint" ->
               [kind |-> "checkpoint", turn |-> k.turn, phase |-> k.phase, of |-> k.home]
          [] OTHER ->
               [kind |-> "prompt.user", turn |-> job[p].turn, phase |-> "pre", of |-> Home(p)]

StreamAt(p) == IF pc[p] = "prompt" THEN Own(p) ELSE StreamFor(p)

StreamStep(p) ==
    \/ UNCHANGED stream
    \/ /\ pc[p] \in {"turn", "checkpoint", "prompt"}
       /\ stream' = [stream EXCEPT ![StreamAt(p)] = Append(@, EventAt(p))]
       /\ UNCHANGED <<refs, journal>>
       /\ pc[p] # "prompt" =>
              ~Recorded(StreamAt(p), EventAt(p).kind, EventAt(p).turn, EventAt(p).phase)

LEMMA SharedSteps ==
    ASSUME TypeInv, NEW p \in Procs, CallAny(p) \/ Step(p) \/ Fault(p)
    PROVE  RefStep(p) /\ ActiveStepOf(p)
<1>0. TypeOK
  BY DEF TypeInv
<1>1. CASE CreateRef(p) \/ Undo(p)
  BY <1>1 DEF CreateRef, Undo, RefStep, ActiveStepOf
<1>2. CASE Settle(p)
  BY <1>0, <1>2 DEF Settle, RefStep, ActiveStepOf, TypeOK
<1>3. CASE SetActive(p)
  BY <1>0, <1>3 DEF SetActive, RefStep, ActiveStepOf, TypeOK
<1>4. CASE UNCHANGED <<refs, active>>
  BY <1>4 DEF RefStep, ActiveStepOf
<1> QED
  BY <1>1, <1>2, <1>3, <1>4
     DEF Step, Fault, CallAny, Call, LockSession, TimeOut, Enter, RecoverOne, RecoveryDone,
         AppendTurn, AppendCheckpoint, ReadJournal, WriteFinalized, ClearJournal, Hook,
         AppendPrompt, AppendError, StartTurn, FinishTurn, BeginJournal,
         MarkCommitted, CreateFails, StepFails, ClearActiveFails, Kill, Tear

LEMMA StreamSteps ==
    ASSUME TypeInv, NEW p \in Procs, CallAny(p) \/ Step(p) \/ Fault(p)
    PROVE  StreamStep(p)
<1>1. CASE AppendTurn(p)
  <2> DEFINE e == [kind |-> TurnKind(job[p].item), turn |-> job[p].item.turn,
                   phase |-> job[p].item.phase, of |-> Home(p)]
  <2>1. pc[p] = "turn" /\ UNCHANGED <<refs, journal>> /\ (UNCHANGED stream \/ AppendOnce(p, e))
    BY <1>1 DEF AppendTurn
  <2>2. EventAt(p) = e /\ StreamAt(p) = StreamFor(p)
    BY <2>1 DEF EventAt, StreamAt
  <2> HIDE DEF e
  <2> QED
    BY <2>1, <2>2 DEF StreamStep, AppendOnce
<1>2. CASE AppendCheckpoint(p)
  <2> DEFINE e == [kind |-> "checkpoint", turn |-> job[p].item.turn,
                   phase |-> job[p].item.phase, of |-> job[p].item.home]
  <2>1. pc[p] = "checkpoint" /\ UNCHANGED <<refs, journal>> /\ (UNCHANGED stream \/ AppendOnce(p, e))
    BY <1>2 DEF AppendCheckpoint
  <2>2. EventAt(p) = e /\ StreamAt(p) = StreamFor(p)
    BY <2>1 DEF EventAt, StreamAt
  <2> HIDE DEF e
  <2> QED
    BY <2>1, <2>2 DEF StreamStep, AppendOnce
<1>3. CASE AppendPrompt(p)
  BY <1>3 DEF AppendPrompt, StreamStep, StreamAt, EventAt
<1>4. CASE UNCHANGED stream
  BY <1>4 DEF StreamStep
<1> QED
  BY <1>1, <1>2, <1>3, <1>4
     DEF Step, Fault, CallAny, Call, LockSession, TimeOut, Enter, RecoverOne, RecoveryDone, Settle,
         ReadJournal, WriteFinalized, ClearJournal, Hook,
         AppendError, StartTurn, FinishTurn, BeginJournal, CreateRef,
         MarkCommitted, SetActive, Undo, CreateFails, StepFails, ClearActiveFails, Kill, Tear

----------------------------------------------------------------------------
(* The turn at work is a session's last                                    *)

\* Until it finds out, or after it has finished one, a hook has no turn.
Unnumbered(p) ==
    pc[p] \in {"session", "enter", "hook", "start"} \/ Recovers(p) => job[p].turn = 0

\* Then its turn is the session's highest.
Highest(p) ==
    LET mine == {r \in refs : r.session = job[p].session}
    IN  /\ pc[p] \in {"finish", "prompt"} =>
               job[p].turn \in Turns /\ \A r \in mine : r.turn <= job[p].turn
        /\ pc[p] \in Creating \/ Follows(p) => \A r \in mine : r.turn <= job[p].item.turn
        /\ pc[p] \in {"begin", "ref"} /\ job[p].item.phase = "pre" =>
               \A r \in mine : r.turn < job[p].item.turn

\* The active turn is the session's last.
ActiveTop ==
    \A st \in Streams : active[st] # 0 =>
        \A r \in refs : r.session = st[2] => r.turn <= active[st]

TurnInv == ActiveTop /\ \A p \in Procs : Unnumbered(p) /\ Highest(p)

LEMMA NextTurnIsNew ==
    ASSUME TypeOK, NEW w, NEW s, NEW r \in RefsOf(w, s)
    PROVE  r.turn < NextTurnID(w, s)
<1> DEFINE used == {c.turn : c \in RefsOf(w, s)}
           top == CHOOSE t \in used : \A u \in used : u <= t
<1>1. RefsOf(w, s) \subseteq Checkpoint
  BY DEF RefsOf, TypeOK
<1>2. used \in SUBSET (1 .. MaxTurns) /\ MaxTurns \in Nat /\ used # {} /\ r.turn \in used
  BY <1>1, TurnAssumption DEF Checkpoint, Turns
<1>3. \E t \in used : \A u \in used : u <= t
  BY <1>2, LastPosition
<1>4. top \in used /\ r.turn <= top
  BY <1>2, <1>3
<1>5. NextTurnID(w, s) = 1 + top
  BY <1>2 DEF NextTurnID
<1> HIDE DEF used, top
<1>6. top \in Nat
  BY <1>2, <1>4
<1>7. \A u \in used : u \in Nat
  BY <1>2
<1>8. PICK u \in used : u = r.turn
  BY <1>2
<1> QED
  BY <1>4, <1>5, <1>6, <1>7, <1>8

\* Two hooks are not in one session.
LEMMA Elsewhere ==
    ASSUME HookInv, NEW p \in Procs, NEW q \in Procs \ {p}, InCall(p), InCall(q)
    PROVE  job[q].session # job[p].session
  BY DEF HookInv, Orderly, SessionHeld

LEMMA OthersTurns ==
    ASSUME TypeInv, Inv, HookInv, TurnInv, OneWorktree, NEW p \in Procs, LocksKept(p), RefStep(p),
           NEW q \in Procs \ {p}
    PROVE  Unnumbered(q)' /\ Highest(q)'
<1>0. /\ pc'[q] = pc[q] /\ job'[q] = job[q] /\ Unnumbered(q) /\ Highest(q) /\ q # NoProc
      /\ p # NoProc /\ (lock' = q <=> lock = q)
  BY TurnAssumption DEF LocksKept, Others, LockStep, TurnInv
<1>1. Unnumbered(q)'
  BY <1>0 DEF Unnumbered, Recovers
<1>2. ASSUME InCall(q), NEW r \in refs', r.session = job[q].session PROVE r \in refs
  <2> SUFFICES ASSUME pc[p] = "ref", r = job[p].item PROVE FALSE
    BY DEF RefStep
  <2>1. Creator(p) /\ InCall(p)
    BY AtCreation DEF Creating, InCall
  <2> QED
    BY <1>2, <2>1, Elsewhere DEF Creator, Creating
<1>3. Highest(q)'
  BY <1>0, <1>2 DEF Highest, Follows, InCall, Creating, Appending
<1> QED
  BY <1>1, <1>3

LEMMA OwnTurns ==
    ASSUME TypeInv, TypeInv', Inv, HookInv, TurnInv, OneWorktree, NEW p \in Procs, Way(p),
           RefStep(p)
    PROVE  Unnumbered(p)' /\ Highest(p)'
<1>0. /\ TypeOK /\ TypeOK' /\ Unnumbered(p) /\ Highest(p) /\ ProcInv(p) /\ Home(p) = Primary
      /\ job[p].session \in Sessions /\ refs \subseteq Checkpoint /\ refs' \subseteq Checkpoint
      /\ Held(p)' /\ job[p].turn \in Turns \union {0} /\ Own(p) \in Streams
      /\ Own(p)[2] = job[p].session /\ Held(p)
  BY JobFields, SameHome DEF TypeInv, TypeOK, TurnInv, Inv, Own
<1>1. Turns \subseteq Nat \ {0} /\ \A n \in Turns : n <= n
  BY TurnAssumption DEF Turns
<1>2. CASE Entering(p)
  <2>1. CASE pc'[p] \in {"idle", "error", "session", "enter", "hook"}
    <3>1. Highest(p)' /\ ~Recovers(p)'
      BY <2>1 DEF Highest, Follows, Recovers, Creating, Appending
    <3>2. pc'[p] \in {"session", "enter", "hook"} => job'[p].turn = 0
      <4>1. pc[p] = "recover" => Recovers(p)
        BY <1>0 DEF ProcInv, Locked, Recovers
      <4> QED
        BY <1>0, <1>2, <2>1, <4>1 DEF Entering, Unnumbered, Recovers, Appending
    <3> QED
      BY <2>1, <3>1, <3>2 DEF Unnumbered
  <2>2. CASE Recovers(p)'
    <3>1. Highest(p)'
      BY <2>2 DEF Highest, Follows, Recovers, Creating, Appending
    <3>2. pc'[p] \notin {"idle", "error", "session", "enter", "hook"}
      BY <2>2 DEF Recovers, Appending
    <3>3. job'[p].turn = 0
      BY <1>0, <1>2, <3>2 DEF Entering, Unnumbered
    <3> QED
      BY <3>1, <3>3 DEF Unnumbered
  <2> QED
    BY <1>2, <2>1, <2>2 DEF Entering
<1>3. CASE Turning(p)
  <2>0. InCall(p) /\ InCall(p)' /\ job'[p].session = job[p].session /\ pc[p] # "ref" /\ refs' \subseteq refs
        /\ pc'[p] \notin Appending \union {"recover", "settle"}
    BY <1>3 DEF Turning, InCall, Way, RefStep, Appending
  <2>1. CASE pc'[p] = "start"
    BY <1>0, <1>3, <2>1 DEF Turning, Unnumbered, Highest, Recovers, Follows, Creating, Appending
  <2>2. CASE pc'[p] \in {"prompt", "finish"}
    <3>1. job'[p].turn = active[Own(p)] /\ active[Own(p)] # 0
      BY <1>3, <2>2 DEF Turning
    <3>2. \A r \in refs : r.session = job[p].session => r.turn <= job'[p].turn
      BY <1>0, <3>1 DEF TurnInv, ActiveTop
    <3>3. job'[p].turn \in Turns
      BY <1>0, <3>1 DEF TypeOK
    <3> QED
      BY <2>0, <2>2, <3>2, <3>3 DEF Unnumbered, Highest, Recovers, Follows, Creating
  <2>3. CASE pc[p] = "start" /\ pc'[p] = "begin"
    <3>1. job'[p].item.turn = NextTurnID(Home(p), job[p].session)
      BY <1>0, <1>3, <2>3 DEF Turning, Unnumbered
    <3>2. \A r \in refs : r.session = job[p].session =>
              r.turn < NextTurnID(Home(p), job[p].session)
      <4>1. \A r \in refs : r.session = job[p].session => r \in RefsOf(Home(p), job[p].session)
        BY <1>0, SameHome DEF RefsOf
      <4> QED
        BY <1>0, <4>1, NextTurnIsNew
    <3>3. \A r \in refs : r.turn \in Nat
      BY <1>0, <1>1 DEF Checkpoint
    <3>4. NextTurnID(Home(p), job[p].session) \in Nat
      BY <1>0, NextTurnIDType
    <3>5. \A r \in refs' : r.session = job'[p].session =>
              r.turn < job'[p].item.turn /\ r.turn <= job'[p].item.turn
      BY <2>0, <3>1, <3>2, <3>3, <3>4
    <3> QED
      BY <2>0, <2>3, <3>5 DEF Unnumbered, Highest, Recovers, Follows
  <2>4. CASE pc[p] = "finish" /\ pc'[p] = "begin"
    <3>1. job[p].turn \in Turns /\ \A r \in refs : r.session = job[p].session => r.turn <= job[p].turn
      BY <1>0, <2>4 DEF Highest
    <3>2. job'[p].item.turn = job[p].turn /\ job'[p].item.phase = "post"
      BY <1>1, <1>3, <2>4, <3>1 DEF Turning
    <3> QED
      BY <2>0, <2>4, <3>1, <3>2 DEF Unnumbered, Highest, Recovers, Follows
  <2> QED
    BY <1>3, <2>1, <2>2, <2>3, <2>4 DEF Turning
<1>4. CASE Recording(p)
  <2>0. /\ InCall(p) /\ InCall(p)' /\ job'[p].session = job[p].session /\ job[p].item \in Checkpoint
        /\ pc'[p] \notin {"begin", "finish", "enter", "hook", "session"}
    BY <1>0, <1>4 DEF Recording, InCall, Way, Follows, Held, Creating, Appending
  <2>1. CASE pc[p] \in Creating
    <3>1. /\ job'[p] = job[p] /\ (pc'[p] = "ref" => pc[p] = "begin")
          /\ pc'[p] \in Creating \union Appending /\ ~Recovers(p)'
      BY <1>0, <1>4, <2>1, <2>0 DEF Recording, Follows, Recovers, Creating, Appending, ProcInv, Locked
    <3>2. \A r \in refs' : r.session = job[p].session => r.turn <= job[p].item.turn
      <4>0. job[p].item.turn \in Turns
        BY <2>0 DEF Checkpoint
      <4>1. job[p].item.turn <= job[p].item.turn
        BY <1>1, <4>0
      <4> QED
        BY <1>0, <2>1, <4>1 DEF Highest, RefStep
    <3>3. pc'[p] = "ref" /\ job[p].item.phase = "pre" =>
              \A r \in refs' : r.session = job[p].session => r.turn < job[p].item.turn
      BY <1>0, <3>1 DEF Highest, RefStep
    <3> QED
      BY <2>0, <3>1, <3>2, <3>3 DEF Unnumbered, Highest, Creating, Appending
  <2>2. CASE Follows(p)
    <3>1. refs' \subseteq refs /\ \A r \in refs : r.session = job[p].session => r.turn <= job[p].item.turn
      BY <1>0, <2>2 DEF Follows, RefStep, Highest, Appending
    <3>2. job[p].item.turn \in Turns
      BY <2>0 DEF Checkpoint
    <3> QED
      BY <1>4, <2>0, <2>2, <3>1, <3>2
         DEF Recording, Follows, Recovers, Unnumbered, Highest, Creating, Appending
  <2> QED
    BY <1>4, <2>1, <2>2 DEF Recording, Creating
<1> QED
  BY <1>2, <1>3, <1>4 DEF Way

LEMMA TurnInvStep ==
    ASSUME TypeInv, TypeInv', Inv, HookInv, TurnInv, OneWorktree, NEW p \in Procs, Way(p),
           LocksKept(p), RefStep(p), ActiveStepOf(p)
    PROVE  TurnInv'
<1>1. \A q \in Procs : Unnumbered(q)' /\ Highest(q)'
  BY OwnTurns, OthersTurns
<1>2. ActiveTop'
  <2> SUFFICES ASSUME NEW st \in Streams, active'[st] # 0, NEW r \in refs', r.session = st[2]
               PROVE  r.turn <= active'[st]
    BY DEF ActiveTop
  <2>1. CASE active'[st] = active[st] /\ r \in refs
    BY <2>1 DEF TurnInv, ActiveTop
  <2>2. CASE active'[st] = active[st] /\ r \notin refs
    <3>1. pc[p] = "ref" /\ r = job[p].item
      BY <2>2 DEF RefStep
    <3>2. Creator(p) /\ Own(p) = <<Primary, r.session>> /\ r \in Checkpoint
      BY <3>1, AtCreation DEF Creating
    <3>3. st = Own(p)
      BY <3>2, SameHome DEF TypeInv
    <3>4. active[st] = r.turn /\ r.turn \in Nat
      BY <2>2, <3>1, <3>2, <3>3, TurnAssumption DEF Creator, Creating, Checkpoint, Turns
    <3> QED
      BY <2>2, <3>4
  <2>3. CASE active'[st] # active[st]
    <3>1. /\ pc[p] = "active" /\ r \in refs /\ st = Own(p) /\ active'[st] = job[p].item.turn
      BY <2>3 DEF ActiveStepOf
    <3>2. r.session = job[p].session
      BY <3>1 DEF Own
    <3> QED
      BY <3>1, <3>2 DEF TurnInv, Highest, Creating
  <2> QED
    BY <2>1, <2>2, <2>3
<1> QED
  BY <1>1, <1>2 DEF TurnInv

----------------------------------------------------------------------------
(* A journal goes when its events are there                                *)

TurnRecorded(k) == Recorded(<<k.home, k.session>>, TurnKind(k), k.turn, k.phase)

\* The phase is that of the kind.
PhasesFit ==
    \A st \in Streams : \A i \in DOMAIN stream[st] :
        LET e == stream[st][i]
        IN  /\ e.kind \in {"turn.start", "prompt.user"} => e.phase = "pre"
            /\ e.kind = "turn.finish" => e.phase = "post"

Paired == \A k \in Checkpoint : CheckpointRecorded(k) => TurnRecorded(k)

Finalized == \A k \in Checkpoint : journal[k] = "finalized" => CheckpointRecorded(k)

\* Whoever appends an event of a checkpoint has its journal, or it is done already.
Traced(p) ==
    /\ pc[p] \in {"turn", "checkpoint"} => CheckpointRecorded(job[p].item) \/ Live(job[p].item)
    /\ pc[p] = "checkpoint" => TurnRecorded(job[p].item)
    /\ lock = p => \A e \in job[p].todo :
           /\ e[2] = "finalized" => CheckpointRecorded(e[1])
           /\ e[2] = "committed" => CheckpointRecorded(e[1]) \/ Live(e[1])

EventInv == PhasesFit /\ Paired /\ Finalized /\ \A p \in Procs : Traced(p)

\* How a journal may end.
JournalEnd(p) ==
    \A k \in Checkpoint :
        /\ Live(k) => \/ Live(k)' \/ CheckpointRecorded(k)
                      \/ lock = p /\ ((k \notin refs /\ journal[k] = "intent") \/ Making(p, k))
        /\ journal'[k] = "finalized" => journal[k] = "finalized" \/ CheckpointRecorded(k)

\* What is appended, and where.
LEMMA Appended ==
    ASSUME TypeInv, NEW p \in Procs, StreamStep(p), NEW st \in Streams
    PROVE  /\ \A i \in DOMAIN stream[st] : i \in DOMAIN stream'[st] /\ stream'[st][i] = stream[st][i]
           /\ \A i \in DOMAIN stream'[st] \ DOMAIN stream[st] :
                  /\ st = StreamAt(p) /\ pc[p] \in {"turn", "checkpoint", "prompt"}
                  /\ stream'[st][i] = EventAt(p) /\ \A j \in DOMAIN stream[st] : j < i
                  /\ \A j \in DOMAIN stream'[st] : j <= i
<1>1. stream \in [Streams -> Seq(Event)]
  BY DEF TypeInv, TypeOK
<1>2. CASE UNCHANGED stream
  BY <1>2
<1>3. CASE stream'[st] = stream[st]
  BY <1>3
<1>4. CASE /\ pc[p] \in {"turn", "checkpoint", "prompt"} /\ st = StreamAt(p)
           /\ stream' = [stream EXCEPT ![StreamAt(p)] = Append(@, EventAt(p))]
  <2> DEFINE s == stream[st]  e == EventAt(p)
  <2>1. s \in Seq(Event) /\ stream'[st] = Append(s, e)
    BY <1>1, <1>4
  <2> HIDE DEF s, e
  <2>2. /\ DOMAIN s = 1 .. Len(s) /\ Len(s) \in Nat /\ DOMAIN Append(s, e) = 1 .. Len(s) + 1
        /\ \A i \in DOMAIN s : Append(s, e)[i] = s[i]
        /\ Append(s, e)[Len(s) + 1] = e
    BY <2>1
  <2>3. \A i \in DOMAIN s : i \in DOMAIN stream'[st] /\ stream'[st][i] = s[i]
    BY <2>1, <2>2
  <2>4. \A i \in DOMAIN stream'[st] \ DOMAIN s : i = Len(s) + 1
    BY <2>1, <2>2
  <2>5. /\ \A j \in DOMAIN s : j < Len(s) + 1
        /\ \A j \in DOMAIN Append(s, e) : j <= Len(s) + 1
    BY <2>2
  <2> QED
    BY <1>4, <2>1, <2>2, <2>3, <2>4, <2>5 DEF s, e
<1> QED
  BY <1>1, <1>2, <1>3, <1>4 DEF StreamStep

LEMMA RecordedKept ==
    ASSUME TypeInv, NEW p \in Procs, StreamStep(p), NEW st \in Streams, NEW kind, NEW t, NEW phase,
           Recorded(st, kind, t, phase)
    PROVE  Recorded(st, kind, t, phase)'
<1>1. PICK i \in DOMAIN stream[st] :
          stream[st][i].kind = kind /\ stream[st][i].turn = t /\ stream[st][i].phase = phase
  BY DEF Recorded
<1>2. i \in DOMAIN stream'[st] /\ stream'[st][i] = stream[st][i]
  BY Appended
<1> QED
  BY <1>1, <1>2 DEF Recorded

LEMMA BothKept ==
    ASSUME TypeInv, NEW p \in Procs, StreamStep(p), NEW k \in Checkpoint
    PROVE  /\ CheckpointRecorded(k) => CheckpointRecorded(k)'
           /\ TurnRecorded(k) => TurnRecorded(k)'
<1>1. <<k.home, k.session>> \in Streams
  BY DEF Checkpoint, Streams
<1> QED
  BY <1>1, RecordedKept DEF CheckpointRecorded, TurnRecorded

LEMMA OthersTraced ==
    ASSUME TypeInv, Inv, EventInv, NEW p \in Procs, LocksKept(p), StreamStep(p), JournalEnd(p),
           NEW q \in Procs \ {p}
    PROVE  Traced(q)'
<1>0. /\ pc'[q] = pc[q] /\ job'[q] = job[q] /\ Traced(q) /\ ProcInv(q) /\ ProcInv(p)
      /\ q # NoProc /\ p # NoProc /\ (lock' = q <=> lock = q)
      /\ job[q].todo \in SUBSET (Checkpoint \X JournalStates)
  BY TurnAssumption, JobFields DEF LocksKept, Others, LockStep, EventInv, Inv, TypeInv
<1>1. ASSUME pc[q] \in {"turn", "checkpoint"}, NEW k, k = job[q].item
      PROVE  /\ CheckpointRecorded(k)' \/ Live(k)'
             /\ pc[q] = "checkpoint" => TurnRecorded(k)'
  <2>1. k \in Checkpoint /\ Uses(q, k) /\ k \in refs
    BY <1>0, <1>1 DEF TypeInv, Held, Uses, Appending, ProcInv, Follower
  <2>2. ~Making(p, k)
    BY <1>0, <2>1 DEF Making, ProcInv, Creator, Exclusive
  <2>3. CheckpointRecorded(k) \/ Live(k)
    BY <1>0, <1>1 DEF Traced
  <2>4. pc[q] = "checkpoint" => TurnRecorded(k)
    BY <1>0, <1>1 DEF Traced
  <2> QED
    BY <2>1, <2>2, <2>3, <2>4, BothKept DEF JournalEnd
<1>2. ASSUME lock = q, NEW e \in job[q].todo
      PROVE  /\ e[2] = "finalized" => CheckpointRecorded(e[1])'
             /\ e[2] = "committed" => CheckpointRecorded(e[1])' \/ Live(e[1])'
  <2>1. PICK k \in Checkpoint : k = e[1]
    BY <1>0, <1>2
  <2>2. /\ e[2] = "finalized" => CheckpointRecorded(k)
        /\ e[2] = "committed" => CheckpointRecorded(k) \/ Live(k)
    BY <1>0, <1>2, <2>1 DEF Traced
  <2>3. CheckpointRecorded(k) => CheckpointRecorded(k)'
    BY BothKept
  <2>4. Live(k) => Live(k)' \/ CheckpointRecorded(k)
    BY <1>2 DEF JournalEnd
  <2>5. e' = e
    OBVIOUS
  <2> QED
    BY <2>1, <2>2, <2>3, <2>4
<1> QED
  BY <1>0, <1>1, <1>2 DEF Traced

\* The journal of a checkpoint ends under the lock of who makes it, or when its event
\* is in the stream.
LEMMA JournalEnds ==
    ASSUME TypeInv, Inv, HookInv, EventInv, OneWorktree, NEW p \in Procs,
           CallAny(p) \/ Step(p) \/ Fault(p)
    PROVE  JournalEnd(p)
<1>0. TypeOK /\ Traced(p) /\ Orderly(p) /\ ProcInv(p) /\ journal \in [Checkpoint -> JournalStates]
  BY DEF TypeInv, TypeOK, EventInv, Inv, HookInv
<1>1. CASE UNCHANGED journal
  BY <1>1 DEF JournalEnd, Live
<1>2. CASE RecoverOne(p)
  <2>1. PICK entry \in job[p].todo :
            LET mine == AsNamedBy(Home(p), entry[1])
            IN  \/ /\ entry[2] = "finalized" \/ (entry[2] = "intent" /\ mine \notin refs)
                   /\ journal' = [journal EXCEPT ![mine] = "none"]
                \/ journal' = [journal EXCEPT ![mine] = "committed"]
                \/ UNCHANGED journal
    BY <1>2, Zenon DEF RecoverOne
  <2>2. PICK k : k = entry[1]
    OBVIOUS
  <2>3. k \in Checkpoint /\ AsNamedBy(Home(p), k) = k /\ lock = p
    BY <1>0, <1>2, <2>2, JobFields, SameHome DEF RecoverOne, ProcInv, Locked, OneWorktree
  <2>4. /\ entry[2] = "finalized" => CheckpointRecorded(k)
        /\ entry[2] = "intent" => journal[k] = "intent"
    BY <1>0, <2>2, <2>3 DEF Traced, Orderly, Listing
  <2>5. CASE /\ journal' = [journal EXCEPT ![k] = "none"]
             /\ CheckpointRecorded(k) \/ (journal[k] = "intent" /\ k \notin refs)
    BY <1>0, <2>3, <2>5 DEF JournalEnd, Live
  <2>6. CASE journal' = [journal EXCEPT ![k] = "committed"]
    BY <1>0, <2>3, <2>6 DEF JournalEnd, Live
  <2> QED
    BY <1>1, <2>1, <2>2, <2>3, <2>4, <2>5, <2>6
<1>3. CASE WriteFinalized(p) \/ ClearJournal(p)
  <2>1. PICK k : k = job[p].item
    OBVIOUS
  <2>2. k \in Checkpoint /\ Unscoped(k) = k /\ CheckpointRecorded(k)
    BY <1>0, <1>3, <2>1, AtEvents DEF WriteFinalized, ClearJournal, Appending, ProcInv, Follower
  <2>3. \A c \in Checkpoint \ {k} : journal'[c] = journal[c]
    BY <1>0, <1>3, <2>1, <2>2 DEF WriteFinalized, ClearJournal
  <2> QED
    BY <2>2, <2>3 DEF JournalEnd, Live
<1>4. CASE BeginJournal(p) \/ MarkCommitted(p) \/ CreateFails(p) \/ StepFails(p)
  <2>1. PICK k : k = job[p].item
    OBVIOUS
  <2>2. k \in Checkpoint /\ lock = p /\ Making(p, k)
    BY <1>4, <2>1, AtCreation DEF BeginJournal, MarkCommitted, CreateFails, StepFails, Creating, Making
  <2>3. journal'[k] # "finalized" /\ \A c \in Checkpoint \ {k} : journal'[c] = journal[c]
    BY <1>0, <1>4, <2>1, <2>2 DEF BeginJournal, MarkCommitted, CreateFails, StepFails
  <2> QED
    BY <2>2, <2>3 DEF JournalEnd, Live
<1> QED
  BY <1>1, <1>2, <1>3, <1>4
     DEF Step, Fault, CallAny, Call, LockSession, TimeOut, Enter, RecoveryDone, Settle,
         AppendTurn, AppendCheckpoint, ReadJournal, Hook, AppendPrompt, AppendError, StartTurn,
         FinishTurn, CreateRef, SetActive, Undo, ClearActiveFails, Kill, Tear

\* Where the steps that append events come from, and what is left of recovery's list.
LEMMA Arrivals ==
    ASSUME TypeInv, Inv, NEW p \in Procs, CallAny(p) \/ Step(p) \/ Fault(p)
    PROVE  /\ pc'[p] = "turn" => RecoverOne(p) \/ SetActive(p)
           /\ pc'[p] = "checkpoint" => AppendTurn(p)
           /\ lock' = p => \/ Enter(p) \/ job'[p].todo = {}
                           \/ lock = p /\ job'[p].todo \subseteq job[p].todo
<1>0. TypeOK /\ p # NoProc /\ job[p] \in Job /\ job \in [Procs -> Job]
  BY TurnAssumption DEF TypeInv, TypeOK
<1> DEFINE Elsewhither == pc'[p] \notin {"turn", "checkpoint"}
           Fewer == lock' # p \/ job'[p].todo = {} \/ (lock = p /\ job'[p].todo \subseteq job[p].todo)
<1>1. ASSUME NEW label \in Labels \ {"turn", "checkpoint"}, Goto(p, label) PROVE Elsewhither
  BY <1>0, <1>1, GotoType
<1>2. ASSUME Leave(p) \/ Fail(p) PROVE Elsewhither /\ Fewer
  BY <1>0, <1>2, LeaveReleases, FailReleases, ReleasedFree DEF Released
<1>3. ASSUME UNCHANGED <<job, lock>> PROVE Fewer
  BY <1>3
<1>4. CASE CallAny(p)
  <2>1. Goto(p, "session") \/ Goto(p, "enter")
    BY <1>4 DEF CallAny, Call
  <2>2. lock' # p
    BY <1>4 DEF CallAny, Call, Inv, ProcInv, Locked, Creating, Appending
  <2>3. "session" \in Labels \ {"turn", "checkpoint"} /\ "enter" \in Labels \ {"turn", "checkpoint"}
    BY DEF Labels
  <2>4. Elsewhither
    BY <1>1, <2>1, <2>3
  <2> QED
    BY <2>2, <2>4
<1>5. ASSUME AfterEvents(p) PROVE Elsewhither /\ Fewer
  <2>1. CASE Recovering(p)
    <3>1. UNCHANGED <<job, lock>> /\ \E label \in Labels \ {"turn", "checkpoint"} : Goto(p, label)
      BY <1>5, <2>1 DEF AfterEvents, Labels
    <3> QED
      BY <1>1, <1>3, <3>1
  <2>2. CASE ~Recovering(p) /\ job[p].kind = "prompt"
    <3>1. lock' # p /\ \E label \in Labels \ {"turn", "checkpoint"} : Goto(p, label)
      BY <1>5, <2>2 DEF AfterEvents, Labels, Recovering
    <3> QED
      BY <1>1, <3>1
  <2>3. CASE ~Recovering(p) /\ job[p].kind # "prompt"
    BY <1>2, <1>5, <2>3 DEF AfterEvents
  <2> QED
    BY <2>1, <2>2, <2>3
<1>6. CASE Enter(p)
  BY <1>1, <1>6 DEF Enter, Labels
<1>7. CASE RecoverOne(p)
  <2>1. pc[p] = "recover" /\ lock = p
    BY <1>7 DEF RecoverOne, Inv, ProcInv, Locked
  <2>2. \/ \E todo \in SUBSET job[p].todo, item \in Checkpoint \union {Nil} :
              Work(p, item, todo) /\ (UNCHANGED pc \/ Goto(p, "turn"))
        \/ Leave(p)
    <3>1. PICK entry \in job[p].todo :
              LET rest == job[p].todo \ {entry}
              IN  \/ Work(p, Nil, rest) /\ UNCHANGED pc
                  \/ Work(p, entry[1], rest) /\ Goto(p, "turn")
                  \/ Leave(p)
      BY <1>7, Zenon DEF RecoverOne
    <3>2. entry[1] \in Checkpoint
      BY <1>0, JobFields
    <3> QED
      BY <3>1, <3>2
  <2>3. ASSUME NEW todo \in SUBSET job[p].todo, NEW item \in Checkpoint \union {Nil},
               Work(p, item, todo)
        PROVE  job'[p].todo \subseteq job[p].todo
    BY <1>0, <2>3, JobFields, WorkType
  <2>4. ASSUME UNCHANGED pc \/ Goto(p, "turn") PROVE pc'[p] \in {"recover", "turn"}
    BY <1>0, <2>1, <2>4, GotoType DEF Labels
  <2> QED
    BY <1>2, <1>7, <2>1, <2>2, <2>3, <2>4
<1>8. CASE RecoveryDone(p)
  <2>1. job[p].kind \in {"start", "finish"} \/ IsHook(p)
    BY <1>8, TurnAssumption DEF RecoveryDone, TypeInv, Held, IsHook, CLICalls
  <2>2. lock' # p /\ \E label \in Labels \ {"turn", "checkpoint"} : Goto(p, label)
    BY <1>0, <1>8, <2>1 DEF RecoveryDone, Proceed, Labels
  <2> QED
    BY <1>1, <2>2
<1>9. CASE Settle(p)
  <2>1. Leave(p) \/ (Goto(p, "recover") /\ UNCHANGED <<job, lock>>)
    BY <1>9 DEF Settle
  <2> QED
    BY <1>1, <1>2, <1>3, <2>1 DEF Labels
<1>10. CASE AppendTurn(p) \/ AppendCheckpoint(p)
  <2>1. \/ Leave(p) \/ Fail(p)
        \/ UNCHANGED <<job, lock>> /\ Goto(p, "checkpoint") /\ AppendTurn(p)
        \/ UNCHANGED <<job, lock>> /\ Goto(p, "read")
    BY <1>10 DEF AppendTurn, AppendCheckpoint, Broken
  <2>2. CASE UNCHANGED <<job, lock>> /\ Goto(p, "checkpoint") /\ AppendTurn(p)
    <3>1. pc'[p] = "checkpoint"
      BY <1>0, <2>2, GotoType DEF Labels
    <3> QED
      BY <1>3, <2>2, <3>1
  <2> QED
    BY <1>1, <1>2, <1>3, <2>1, <2>2 DEF Labels
<1>11. CASE ReadJournal(p) \/ WriteFinalized(p) \/ ClearJournal(p)
  <2>1. \/ AfterEvents(p)
        \/ UNCHANGED <<job, lock>> /\ Goto(p, "write")
        \/ UNCHANGED <<job, lock>> /\ Goto(p, "clear")
    BY <1>11 DEF ReadJournal, WriteFinalized, ClearJournal
  <2> QED
    BY <1>1, <1>3, <1>5, <2>1 DEF Labels
<1>12. CASE Hook(p) \/ AppendPrompt(p) \/ AppendError(p)
  <2>1. \/ Leave(p) \/ Fail(p)
        \/ /\ pc[p] = "hook" /\ UNCHANGED lock
           /\ \E label \in Labels \ {"turn", "checkpoint"} : Goto(p, label)
    BY <1>12 DEF Hook, AppendPrompt, AppendError, Labels
  <2>2. pc[p] = "hook" => lock # p
    BY DEF Inv, ProcInv, Locked, Creating, Appending
  <2> QED
    BY <1>1, <1>2, <2>1, <2>2
<1>13. CASE StartTurn(p) \/ FinishTurn(p)
  <2>1. \/ Leave(p) \/ Fail(p)
        \/ Goto(p, "begin") /\ \E item : Work(p, item, {})
        \/ Goto(p, "start") /\ UNCHANGED lock /\ lock = NoProc
    BY <1>13 DEF StartTurn, FinishTurn
  <2>2. ASSUME NEW item, Work(p, item, {}) PROVE job'[p].todo = {}
    <3>1. job' = [job EXCEPT ![p] = [job[p] EXCEPT !.item = item, !.todo = {}]]
      BY <1>0, <2>2 DEF Work
    <3> QED
      BY <1>0, <3>1 DEF Job
  <2> QED
    BY <1>0, <1>1, <1>2, <2>1, <2>2 DEF Labels
<1>14. CASE LockSession(p) \/ BeginJournal(p) \/ CreateRef(p) \/ MarkCommitted(p) \/ StepFails(p)
  <2>1. UNCHANGED <<job, lock>> /\ \E label \in Labels \ {"turn", "checkpoint"} : Goto(p, label)
    BY <1>14 DEF LockSession, BeginJournal, CreateRef, MarkCommitted, StepFails, Labels
  <2> QED
    BY <1>1, <1>3, <2>1
<1>15. CASE SetActive(p)
  <2>1. lock' # p /\ pc'[p] = "turn"
    BY <1>0, <1>15, GotoType DEF SetActive, Proceed, Labels
  <2> QED
    BY <1>15, <2>1
<1>16. CASE TimeOut(p) \/ Undo(p) \/ CreateFails(p) \/ ClearActiveFails(p) \/ Kill(p) \/ Tear(p)
  BY <1>2, <1>16 DEF TimeOut, Undo, CreateFails, ClearActiveFails, Kill, Tear
<1> QED
  BY <1>4, <1>6, <1>7, <1>8, <1>9, <1>10, <1>11, <1>12, <1>13, <1>14, <1>15, <1>16
     DEF Step, Fault

LEMMA OwnTraced ==
    ASSUME TypeInv, TypeInv', Inv, HookInv, EventInv, OneWorktree, NEW p \in Procs,
           CallAny(p) \/ Step(p) \/ Fault(p), StreamStep(p)
    PROVE  Traced(p)'
<1>0. /\ TypeOK /\ ProcInv(p) /\ Traced(p) /\ Orderly(p) /\ Home(p) = Primary
      /\ JournalEnd(p) /\ p # NoProc
      /\ job[p].todo \in SUBSET (Checkpoint \X JournalStates)
  BY TurnAssumption, JobFields, JournalEnds, SameHome DEF TypeInv, Inv, EventInv, HookInv
<1>1. ASSUME pc'[p] \in {"turn", "checkpoint"}, NEW k, k = job'[p].item
      PROVE  /\ CheckpointRecorded(k)' \/ Live(k)'
             /\ pc'[p] = "checkpoint" => TurnRecorded(k)'
  <2>1. CASE RecoverOne(p)
    <3>1. lock = p /\ pc[p] = "recover"
      BY <1>0, <2>1 DEF RecoverOne, ProcInv, Locked
    <3>2. PICK entry \in job[p].todo :
              LET mine == AsNamedBy(Home(p), entry[1])
                  rest == job[p].todo \ {entry}
              IN  \/ UNCHANGED pc
                  \/ /\ journal' = [journal EXCEPT ![mine] = "committed"]
                     /\ Work(p, entry[1], rest) /\ Goto(p, "turn")
                  \/ /\ UNCHANGED journal /\ entry[2] = "committed"
                     /\ Work(p, entry[1], rest) /\ Goto(p, "turn")
                  \/ Leave(p)
      BY <2>1, Zenon DEF RecoverOne
    <3>3. ~UNCHANGED pc /\ ~Leave(p)
      <4>1. Leave(p) => pc'[p] = "idle"
        BY <1>0, GotoType DEF Leave, Labels
      <4> QED
        BY <1>1, <3>1, <4>1
    <3>4. PICK c \in Checkpoint : c = entry[1]
      BY <1>0
    <3>5. AsNamedBy(Home(p), c) = c /\ job[p].todo \ {entry} \in SUBSET (Checkpoint \X JournalStates)
      BY <1>0, SameHome
    <3>6. Work(p, c, job[p].todo \ {entry}) /\ Goto(p, "turn")
      BY <3>2, <3>3, <3>4, Zenon
    <3>7. c = k /\ pc'[p] = "turn"
      BY <1>0, <1>1, <3>5, <3>6, WorkType, GotoType DEF Labels
    <3>8. Live(c)' \/ CheckpointRecorded(c)'
      <4>1. CASE journal' = [journal EXCEPT ![c] = "committed"]
        BY <1>0, <4>1 DEF Live, TypeOK
      <4>2. CASE UNCHANGED journal /\ entry[2] = "committed"
        <5>1. CheckpointRecorded(c) \/ Live(c)
          BY <1>0, <3>1, <3>4, <4>2 DEF Traced
        <5> QED
          BY <4>2, <5>1, BothKept DEF Live
      <4>3. journal' = [journal EXCEPT ![c] = "committed"] \/ (UNCHANGED journal /\ entry[2] = "committed")
        BY <3>2, <3>3, <3>4, <3>5, Zenon
      <4> QED
        BY <4>1, <4>2, <4>3
    <3> QED
      BY <3>7, <3>8
  <2>2. CASE SetActive(p)
    <3>1. /\ pc[p] = "active" /\ UNCHANGED <<job, journal>> /\ pc'[p] = "turn"
      BY <1>0, <2>2, GotoType DEF SetActive, Proceed, Labels
    <3>2. journal'[k] = "committed"
      BY <1>0, <1>1, <3>1 DEF Orderly, Journaled
    <3> QED
      BY <3>1, <3>2 DEF Live
  <2>3. CASE AppendTurn(p) /\ pc'[p] = "checkpoint"
    <3>1. pc[p] = "turn" /\ UNCHANGED journal /\ pc[p] \in Appending
      BY <2>3 DEF AppendTurn, Appending
    <3>3. job[p].item \in Checkpoint /\ StreamFor(p) = <<job[p].item.home, job[p].item.session>> /\ StreamFor(p) \in Streams
      BY <3>1, AtEvents
    <3>4. ~Broken(p)
      <4>1. Leave(p) \/ Fail(p) => pc'[p] \in {"idle", "error"}
        BY <1>0, LeaveReleases, FailReleases DEF Released
      <4> QED
        BY <2>3, <4>1 DEF Broken
    <3>5. job' = job
      BY <2>3, <3>4 DEF AppendTurn
    <3>2. k \in Checkpoint /\ k = job[p].item /\ StreamFor(p) = <<k.home, k.session>>
      BY <1>1, <3>3, <3>5
    <3>6. TurnRecorded(k)'
      <4> DEFINE e == [kind |-> TurnKind(k), turn |-> k.turn, phase |-> k.phase, of |-> Home(p)]
      <4>1. AppendOnce(p, e) /\ e.kind = TurnKind(k) /\ e.turn = k.turn /\ e.phase = k.phase
        BY <2>3, <3>2, <3>4 DEF AppendTurn
      <4> HIDE DEF e
      <4>2. CASE TurnRecorded(k)
        BY <3>2, <4>2, BothKept
      <4>3. CASE ~TurnRecorded(k)
        <5>1. stream' = [stream EXCEPT ![StreamFor(p)] = Append(@, e)]
          BY <3>2, <3>3, <4>1, <4>3 DEF AppendOnce, TurnRecorded
        <5>2. stream[StreamFor(p)] \in Seq(Event)
          BY <1>0, <3>3 DEF TypeOK
        <5>3. PICK i : i = Len(stream[StreamFor(p)]) + 1
          OBVIOUS
        <5>4. i \in DOMAIN stream'[StreamFor(p)] /\ stream'[StreamFor(p)][i] = e
          BY <1>0, <3>3, <5>1, <5>2, <5>3 DEF TypeOK
        <5> QED
          BY <3>2, <4>1, <5>4 DEF TurnRecorded, Recorded
      <4> QED
        BY <4>2, <4>3
    <3>7. CheckpointRecorded(k)' \/ Live(k)'
      BY <1>0, <3>1, <3>2, BothKept DEF Traced, Live
    <3> QED
      BY <3>6, <3>7
  <2> QED
    BY <1>1, <2>1, <2>2, <2>3, Arrivals
<1>2. ASSUME lock' = p, NEW e \in job'[p].todo
      PROVE  /\ e[2] = "finalized" => CheckpointRecorded(e[1])'
             /\ e[2] = "committed" => CheckpointRecorded(e[1])' \/ Live(e[1])'
  <2>1. PICK k : k = e[1]
    OBVIOUS
  <2>2. CASE Enter(p)
    <3> DEFINE listed == {<<c, journal[c]>> : c \in {d \in Checkpoint : journal[d] # "none"}}
    <3>1. Work(p, Nil, listed) /\ UNCHANGED <<journal, stream>>
      BY <2>2 DEF Enter
    <3>2. listed \in SUBSET (Checkpoint \X JournalStates)
      BY <1>0 DEF TypeOK
    <3>3. job'[p].todo = listed
      BY <1>0, <3>1, <3>2, WorkType
    <3>4. k \in Checkpoint /\ e[2] = journal[k]
      BY <1>2, <2>1, <3>3
    <3> HIDE DEF listed
    <3>5. e[2] = "finalized" => CheckpointRecorded(k)'
      BY <3>4, BothKept DEF EventInv, Finalized
    <3>6. e[2] = "committed" => Live(k)'
      BY <3>1, <3>4 DEF Live
    <3> QED
      BY <2>1, <3>5, <3>6
  <2>3. CASE lock = p /\ job'[p].todo \subseteq job[p].todo /\ job'[p].todo # {}
    <3>1. k \in Checkpoint /\ e \in job[p].todo
      BY <1>0, <1>2, <2>1, <2>3
    <3>2. /\ e[2] = "finalized" => CheckpointRecorded(k)
          /\ e[2] = "committed" => CheckpointRecorded(k) \/ Live(k)
      BY <1>0, <2>1, <2>3, <3>1 DEF Traced
    <3>3. CheckpointRecorded(k) => CheckpointRecorded(k)'
      BY <3>1, BothKept
    <3>4. CASE e[2] = "committed" /\ ~CheckpointRecorded(k)
      <4>1. journal[k] # "intent"
        BY <1>0, <2>1, <2>3, <3>1, <3>4 DEF Orderly, Listing
      <4>2. ~Making(p, k)
        BY <1>0, <2>3, <3>1 DEF Making, ProcInv, Creator
      <4> QED
        BY <1>0, <2>1, <3>1, <3>2, <3>4, <4>1, <4>2 DEF JournalEnd
    <3> QED
      BY <2>1, <3>2, <3>3, <3>4
  <2> QED
    BY <1>2, <2>2, <2>3, Arrivals
<1>3. /\ pc'[p] \in {"turn", "checkpoint"} =>
             CheckpointRecorded(job[p].item)' \/ Live(job[p].item)'
      /\ pc'[p] = "checkpoint" => TurnRecorded(job[p].item)'
  BY <1>1
<1> QED
  BY <1>2, <1>3 DEF Traced

LEMMA EventInvStep ==
    ASSUME TypeInv, TypeInv', Inv, HookInv, EventInv, OneWorktree, NEW p \in Procs,
           CallAny(p) \/ Step(p) \/ Fault(p), StreamStep(p), LocksKept(p)
    PROVE  EventInv'
<1>0. TypeOK /\ Traced(p) /\ JournalEnd(p)
  BY JournalEnds DEF TypeInv, EventInv
<1>1. \A q \in Procs : Traced(q)'
  BY <1>0, OwnTraced, OthersTraced
<1>2. ASSUME pc[p] \in {"turn", "checkpoint"}
      PROVE  /\ job[p].item \in Checkpoint /\ StreamAt(p) = <<job[p].item.home, job[p].item.session>>
             /\ pc[p] = "turn" => EventAt(p).kind = TurnKind(job[p].item)
             /\ pc[p] = "checkpoint" => EventAt(p).kind = "checkpoint"
             /\ EventAt(p).phase = job[p].item.phase /\ EventAt(p).turn = job[p].item.turn
  BY <1>2, AtEvents DEF Appending, StreamAt, EventAt
<1>3. pc[p] = "prompt" => EventAt(p).kind = "prompt.user" /\ EventAt(p).phase = "pre"
  BY DEF EventAt
<1>4. PhasesFit'
  <2> SUFFICES ASSUME NEW st \in Streams, NEW i \in DOMAIN stream'[st], NEW e, e = stream'[st][i]
               PROVE  /\ e.kind \in {"turn.start", "prompt.user"} => e.phase = "pre"
                      /\ e.kind = "turn.finish" => e.phase = "post"
    BY DEF PhasesFit
  <2>1. CASE i \in DOMAIN stream[st]
    <3>1. e = stream[st][i]
      BY <2>1, Appended
    <3> QED
      BY <2>1, <3>1 DEF EventInv, PhasesFit
  <2>2. CASE i \notin DOMAIN stream[st]
    <3>1. e = EventAt(p) /\ pc[p] \in {"turn", "checkpoint", "prompt"}
      BY <2>2, Appended
    <3> QED
      BY <1>2, <1>3, <3>1 DEF TurnKind, Checkpoint, Phases
  <2> QED
    BY <2>1, <2>2
<1>5. Paired'
  <2> SUFFICES ASSUME NEW k \in Checkpoint, CheckpointRecorded(k)' PROVE TurnRecorded(k)'
    BY DEF Paired
  <2>1. PICK st \in Streams : st = <<k.home, k.session>>
    BY DEF Checkpoint, Streams
  <2>2. PICK i \in DOMAIN stream'[st] :
            /\ stream'[st][i].kind = "checkpoint" /\ stream'[st][i].turn = k.turn
            /\ stream'[st][i].phase = k.phase
    BY <2>1 DEF CheckpointRecorded, Recorded
  <2>3. CASE i \in DOMAIN stream[st]
    <3>1. CheckpointRecorded(k)
      BY <2>1, <2>2, <2>3, Appended DEF CheckpointRecorded, Recorded
    <3> QED
      BY <3>1, BothKept DEF EventInv, Paired
  <2>4. CASE i \notin DOMAIN stream[st]
    <3>1. /\ stream'[st][i] = EventAt(p) /\ pc[p] \in {"turn", "checkpoint", "prompt"}
          /\ st = StreamAt(p)
      BY <2>4, Appended
    <3>2. pc[p] = "checkpoint"
      BY <1>2, <1>3, <2>2, <3>1 DEF TurnKind
    <3>3. job[p].item = k
      BY <1>2, <2>1, <2>2, <3>1, <3>2 DEF Checkpoint
    <3> QED
      BY <1>0, <3>2, <3>3, BothKept DEF Traced
  <2> QED
    BY <2>3, <2>4
<1>6. Finalized'
  <2> SUFFICES ASSUME NEW k \in Checkpoint, journal'[k] = "finalized" PROVE CheckpointRecorded(k)'
    BY DEF Finalized
  <2>1. CheckpointRecorded(k)
    BY <1>0 DEF JournalEnd, EventInv, Finalized
  <2> QED
    BY <2>1, BothKept
<1> QED
  BY <1>1, <1>4, <1>5, <1>6 DEF EventInv

----------------------------------------------------------------------------
(* The order of a session's events                                         *)

\* A turn that a hook joins has no prompt yet.
Unprompted(p) ==
    /\ pc[p] = "prompt" => ~HasPrompt(Own(p), job[p].turn)
    /\ Follows(p) /\ job[p].item.phase = "pre" => ~HasPrompt(Own(p), job[p].item.turn)

\* A session has one journal at a time that is not finalized.
OneLive == \A k, l \in Checkpoint : Live(k) /\ Live(l) /\ k.session = l.session => k = l

\* The rank of the first event of a checkpoint.
RankTurn(k) == 5 * k.turn + (IF k.phase = "pre" THEN 0 ELSE 3)

\* And nothing that comes after its events is in the stream.
NextInOrder ==
    \A k \in Checkpoint : Live(k) /\ ~CheckpointRecorded(k) =>
        LET st == <<k.home, k.session>>
        IN  \A i \in DOMAIN stream[st] : Rank(stream[st][i]) <= RankTurn(k)

OrderInv == OneLive /\ NextInOrder /\ StreamOrder /\ \A p \in Procs : Unprompted(p)

LEMMA Ranks ==
    ASSUME NEW e \in Event, e.kind \in {"turn.start", "prompt.user"} => e.phase = "pre",
           e.kind = "turn.finish" => e.phase = "post"
    PROVE  /\ e.turn \in Nat /\ Rank(e) \in Nat
           /\ 5 * e.turn <= Rank(e) /\ Rank(e) <= 5 * e.turn + 4
           /\ e.phase = "pre" => Rank(e) <= 5 * e.turn + 2
           /\ e.phase = "post" => Rank(e) >= 5 * e.turn + 3
           /\ Rank(e) = 5 * e.turn <=> e.kind = "turn.start"
           /\ Rank(e) = 5 * e.turn + 1 <=> e.kind = "checkpoint" /\ e.phase = "pre"
           /\ Rank(e) = 5 * e.turn + 2 <=> e.kind = "prompt.user"
           /\ Rank(e) = 5 * e.turn + 3 <=> e.kind = "turn.finish"
           /\ Rank(e) = 5 * e.turn + 4 <=> e.kind = "checkpoint" /\ e.phase = "post"
<1>1. e.turn \in Nat /\ e.kind \in Kinds /\ e.phase \in {"pre", "post"}
  BY TurnAssumption DEF Event, Turns, Phases
<1>2. CASE e.kind = "turn.start"
  BY <1>1, <1>2 DEF Rank
<1>3. CASE e.kind = "checkpoint" /\ e.phase = "pre"
  BY <1>1, <1>3 DEF Rank
<1>4. CASE e.kind = "prompt.user"
  BY <1>1, <1>4 DEF Rank
<1>5. CASE e.kind = "turn.finish"
  BY <1>1, <1>5 DEF Rank
<1>6. CASE e.kind = "checkpoint" /\ e.phase = "post"
  BY <1>1, <1>6 DEF Rank
<1> QED
  BY <1>1, <1>2, <1>3, <1>4, <1>5, <1>6 DEF Kinds

\* What is known of an event in a stream.
LEMMA InStream ==
    ASSUME TypeInv, Inv, EventInv, OneWorktree, NEW st \in Streams, NEW i \in DOMAIN stream[st]
    PROVE  /\ stream[st][i] \in Event /\ i \in Nat /\ stream[st][i].of = st[1]
           /\ stream[st][i].kind \in {"turn.start", "prompt.user"} => stream[st][i].phase = "pre"
           /\ stream[st][i].kind = "turn.finish" => stream[st][i].phase = "post"
           /\ Key(st[1], st[2], stream[st][i].turn, stream[st][i].phase) \in refs
<1>1. stream[st] \in Seq(Event)
  BY DEF TypeInv, TypeOK
<1>2. stream[st][i] \in Event /\ i \in Nat
  BY <1>1
<1>3. stream[st][i].of = st[1]
  <2>1. stream[st][i].of = Primary
    BY <1>2 DEF Event, OneWorktree
  <2>2. st[1] = Primary
    BY SameHome DEF TypeInv
  <2> QED
    BY <2>1, <2>2
<1>4. Key(stream[st][i].of, st[2], stream[st][i].turn, stream[st][i].phase) \in refs
  BY DEF Inv, EventsBacked
<1> QED
  BY <1>2, <1>3, <1>4 DEF EventInv, PhasesFit

LEMMA RanksIn ==
    ASSUME TypeInv, Inv, EventInv, OneWorktree, NEW st \in Streams, NEW i \in DOMAIN stream[st],
           NEW e, e = stream[st][i]
    PROVE  /\ e.turn \in Nat /\ Rank(e) \in Nat
           /\ 5 * e.turn <= Rank(e) /\ Rank(e) <= 5 * e.turn + 4
           /\ e.phase = "pre" => Rank(e) <= 5 * e.turn + 2
           /\ e.phase = "post" => Rank(e) >= 5 * e.turn + 3
           /\ Rank(e) = 5 * e.turn <=> e.kind = "turn.start"
           /\ Rank(e) = 5 * e.turn + 1 <=> e.kind = "checkpoint" /\ e.phase = "pre"
           /\ Rank(e) = 5 * e.turn + 2 <=> e.kind = "prompt.user"
           /\ Rank(e) = 5 * e.turn + 3 <=> e.kind = "turn.finish"
           /\ Rank(e) = 5 * e.turn + 4 <=> e.kind = "checkpoint" /\ e.phase = "post"
           /\ e.phase \in {"pre", "post"}
<1>1. /\ e \in Event /\ (e.kind \in {"turn.start", "prompt.user"} => e.phase = "pre")
      /\ (e.kind = "turn.finish" => e.phase = "post")
  BY InStream
<1>2. e.phase \in {"pre", "post"}
  BY <1>1 DEF Event, Phases
<1> QED
  BY <1>1, <1>2, Ranks

\* No step but AppendPrompt adds a prompt.
LEMMA PromptsKept ==
    ASSUME TypeInv, NEW p \in Procs, StreamStep(p), NEW st \in Streams, NEW t,
           HasPrompt(st, t)', ~HasPrompt(st, t)
    PROVE  pc[p] = "prompt" /\ st = Own(p) /\ t = job[p].turn
<1>1. PICK i \in DOMAIN stream'[st] :
          /\ stream'[st][i].kind = "prompt.user" /\ stream'[st][i].turn = t
          /\ stream'[st][i].phase = "pre"
  BY DEF HasPrompt, Recorded
<1>2. i \notin DOMAIN stream[st]
  <2> SUFFICES ASSUME i \in DOMAIN stream[st] PROVE FALSE
    OBVIOUS
  <2>1. stream'[st][i] = stream[st][i]
    BY Appended
  <2> QED
    BY <1>1, <2>1 DEF HasPrompt, Recorded
<1>3. /\ stream'[st][i] = EventAt(p) /\ pc[p] \in {"turn", "checkpoint", "prompt"}
      /\ st = StreamAt(p)
  BY <1>2, Appended
<1>4. pc[p] = "prompt"
  BY <1>1, <1>3 DEF EventAt, TurnKind
<1> QED
  BY <1>1, <1>3, <1>4 DEF StreamAt, EventAt

\* A pre checkpoint in the making has no prompt.
LEMMA NoPromptYet ==
    ASSUME TypeInv, Inv, EventInv, OneWorktree, NEW p \in Procs, pc[p] \in Creating,
           job[p].item.phase = "pre"
    PROVE  ~HasPrompt(Own(p), job[p].item.turn)
<1> SUFFICES ASSUME HasPrompt(Own(p), job[p].item.turn) PROVE FALSE
  OBVIOUS
<1>1. /\ job[p].item \in Checkpoint /\ Own(p) \in Streams /\ job[p].item.home = Primary
      /\ Own(p) = <<Primary, job[p].item.session>> /\ Exclusive(p)
  BY AtCreation DEF Creator
<1>2. PICK i \in DOMAIN stream[Own(p)] :
          stream[Own(p)][i].turn = job[p].item.turn /\ stream[Own(p)][i].phase = "pre"
  BY DEF HasPrompt, Recorded
<1>3. Key(stream[Own(p)][i].of, Own(p)[2], stream[Own(p)][i].turn, stream[Own(p)][i].phase) # job[p].item
  BY <1>1 DEF Exclusive
<1>4. stream[Own(p)][i].of = Primary
  BY <1>1, InStream
<1> QED
  BY <1>1, <1>2, <1>3, <1>4 DEF Key, Checkpoint

LEMMA OthersUnprompted ==
    ASSUME TypeInv, Inv, HookInv, OrderInv, NEW p \in Procs, LocksKept(p), StreamStep(p),
           NEW q \in Procs \ {p}
    PROVE  Unprompted(q)'
<1>0. /\ pc'[q] = pc[q] /\ job'[q] = job[q] /\ Unprompted(q) /\ (lock' = q <=> lock = q)
      /\ Own(q) \in Streams
  BY TurnAssumption, JobFields DEF LocksKept, Others, LockStep, OrderInv, TypeInv
<1>1. ASSUME InCall(q), NEW t, HasPrompt(Own(q), t)' PROVE HasPrompt(Own(q), t)
  <2> SUFFICES ASSUME ~HasPrompt(Own(q), t) PROVE FALSE
    OBVIOUS
  <2>1. PICK st \in Streams : st = Own(q)
    BY <1>0
  <2>2. Own(q)' = st
    BY <1>0, <2>1 DEF Own, Home
  <2>3. HasPrompt(st, t)'
    BY <1>1, <2>2 DEF HasPrompt, Recorded
  <2>4. pc[p] = "prompt" /\ st = Own(p)
    BY <2>1, <2>3, PromptsKept
  <2>5. job[p].session = job[q].session
    BY <2>1, <2>4 DEF Own
  <2> QED
    BY <1>1, <2>4, <2>5, Elsewhere DEF InCall
<1>2. ASSUME NEW t, InCall(q), ~HasPrompt(Own(q), t) PROVE ~HasPrompt(Own(q), t)'
  BY <1>1, <1>2
<1>3. pc[q] = "prompt" => ~HasPrompt(Own(q), job[q].turn)'
  <2> SUFFICES ASSUME pc[q] = "prompt", NEW t, t = job[q].turn PROVE ~HasPrompt(Own(q), t)'
    BY <1>0 DEF HasPrompt, Recorded
  <2> QED
    BY <1>0, <1>2 DEF InCall, Unprompted
<1>4. Follows(q)' /\ job[q].item.phase = "pre" => ~HasPrompt(Own(q), job[q].item.turn)'
  <2> SUFFICES ASSUME Follows(q), job[q].item.phase = "pre", NEW t, t = job[q].item.turn
               PROVE ~HasPrompt(Own(q), t)'
    BY <1>0 DEF HasPrompt, Recorded, Follows
  <2> QED
    BY <1>0, <1>2 DEF InCall, Unprompted, Follows, Appending
<1> QED
  BY <1>0, <1>3, <1>4 DEF Unprompted, HasPrompt, Recorded

LEMMA OwnUnprompted ==
    ASSUME TypeInv, TypeInv', Inv, HookInv, EventInv, OrderInv, OneWorktree, NEW p \in Procs,
           Way(p), StreamStep(p)
    PROVE  Unprompted(p)'
<1>0. Unprompted(p) /\ Own(p) \in Streams
  BY JobFields DEF OrderInv, TypeInv
<1>1. ASSUME NEW t, InCall(p)', pc[p] # "idle", pc[p] # "prompt", ~HasPrompt(Own(p), t)
      PROVE  ~HasPrompt(Own(p), t)'
  <2>1. PICK st \in Streams : st = Own(p)
    BY <1>0
  <2>2. Own(p)' = st
    BY <1>1, <2>1 DEF Own, Home, Way
  <2>3. ~HasPrompt(st, t)'
    BY <1>1, <2>1, PromptsKept
  <2> QED
    BY <2>2, <2>3 DEF HasPrompt, Recorded
<1>2. ASSUME pc'[p] = "prompt", NEW t, t = job'[p].turn PROVE ~HasPrompt(Own(p), t)'
  <2>1. CASE pc[p] = "hook"
    <3>1. t = active[Own(p)] /\ ~HasPrompt(Own(p), t)
      BY <1>2, <2>1 DEF Way, Entering, Turning, Recording, Recovers, Follows, Creating, Appending
    <3> QED
      BY <1>1, <1>2, <2>1, <3>1 DEF InCall
  <2>2. CASE pc[p] # "hook"
    <3>1. Follows(p) /\ job[p].item.phase = "pre" /\ t = job[p].item.turn
      BY <1>2, <2>2 DEF Way, Entering, Turning, Recording, Recovers, Follows, Creating, Appending
    <3> QED
      BY <1>0, <1>1, <1>2, <3>1 DEF InCall, Unprompted, Follows, Appending
  <2> QED
    BY <2>1, <2>2
<1>3. ASSUME Follows(p)', job'[p].item.phase = "pre", NEW t, t = job'[p].item.turn
      PROVE  ~HasPrompt(Own(p), t)'
  <2>1. /\ Follows(p) \/ pc[p] \in Creating
        /\ job'[p] = job[p] /\ pc[p] # "idle" /\ pc[p] # "prompt"
    BY <1>3 DEF Way, Entering, Turning, Recording, Recovers, Follows, Creating, Appending
  <2>2. ~HasPrompt(Own(p), t)
    BY <1>0, <1>3, <2>1, NoPromptYet DEF Unprompted
  <2> QED
    BY <1>1, <1>3, <2>1, <2>2 DEF InCall, Follows, Appending
<1>4. pc'[p] = "prompt" => ~HasPrompt(Own(p), job[p].turn)'
  <2> SUFFICES ASSUME pc'[p] = "prompt", NEW t, t = job'[p].turn PROVE ~HasPrompt(Own(p), t)'
    BY DEF HasPrompt, Recorded
  <2> QED
    BY <1>2
<1>5. Follows(p)' /\ job'[p].item.phase = "pre" => ~HasPrompt(Own(p), job[p].item.turn)'
  <2> SUFFICES ASSUME Follows(p)', job'[p].item.phase = "pre", NEW t, t = job'[p].item.turn
               PROVE ~HasPrompt(Own(p), t)'
    BY DEF HasPrompt, Recorded
  <2> QED
    BY <1>3
<1> QED
  BY <1>4, <1>5 DEF Unprompted

LEMMA OneLiveStep ==
    ASSUME TypeInv, Inv, HookInv, OrderInv, OneWorktree, NEW p \in Procs, JournalsKept(p)
    PROVE  OneLive'
<1> SUFFICES ASSUME NEW k \in Checkpoint, NEW l \in Checkpoint, Live(k)', Live(l)',
                    k.session = l.session
             PROVE  k = l
  BY DEF OneLive
<1>1. Live(k) \/ Making(p, k)
  BY DEF JournalsKept
<1>2. Live(l) \/ Making(p, l)
  BY DEF JournalsKept
<1>3. ASSUME NEW a \in Checkpoint, NEW b \in Checkpoint, Making(p, a), Live(b),
             a.session = b.session
      PROVE  b = a
  <2>1. Creator(p) /\ job[p].item = a
    BY <1>3, AtCreation DEF Making
  <2>2. job[p].todo = {} /\ a.session = job[p].session
    BY <1>3, <2>1 DEF Creator, Making
  <2> QED
    BY <1>3, <2>1, <2>2 DEF HookInv, Orderly, Covered, Making, Creating
<1> QED
  BY <1>1, <1>2, <1>3 DEF OrderInv, OneLive, Making

\* What is appended has not been, and its checkpoint's journal is live.
LEMMA AppendsLive ==
    ASSUME TypeInv, Inv, EventInv, OneWorktree, NEW p \in Procs, StreamStep(p),
           pc[p] \in {"turn", "checkpoint"}, ~UNCHANGED stream, NEW k, k = job[p].item
    PROVE  /\ k \in Checkpoint /\ StreamAt(p) = <<k.home, k.session>> /\ StreamAt(p) \in Streams
           /\ Live(k) /\ ~CheckpointRecorded(k)
           /\ pc[p] = "turn" => ~TurnRecorded(k) /\ EventAt(p).kind = TurnKind(k)
           /\ pc[p] = "checkpoint" => EventAt(p).kind = "checkpoint"
           /\ EventAt(p).turn = k.turn /\ EventAt(p).phase = k.phase
<1>1. /\ k \in Checkpoint /\ StreamAt(p) = <<k.home, k.session>> /\ StreamAt(p) \in Streams
  BY AtEvents DEF Appending, StreamAt
<1>2. /\ pc[p] = "turn" => EventAt(p).kind = TurnKind(k)
      /\ pc[p] = "checkpoint" => EventAt(p).kind = "checkpoint"
      /\ EventAt(p).turn = k.turn /\ EventAt(p).phase = k.phase
  BY DEF EventAt
<1>3. ~Recorded(StreamAt(p), EventAt(p).kind, EventAt(p).turn, EventAt(p).phase)
  BY DEF StreamStep
<1>4. pc[p] = "turn" => ~TurnRecorded(k)
  BY <1>1, <1>2, <1>3 DEF TurnRecorded
<1>5. ~CheckpointRecorded(k)
  <2>1. pc[p] = "checkpoint" => ~CheckpointRecorded(k)
    BY <1>1, <1>2, <1>3 DEF CheckpointRecorded
  <2> QED
    BY <1>1, <1>4, <2>1 DEF EventInv, Paired
<1>6. Live(k)
  BY <1>5 DEF EventInv, Traced
<1> QED
  BY <1>1, <1>2, <1>4, <1>5, <1>6

LEMMA NextInOrderStep ==
    ASSUME TypeInv, Inv, HookInv, TurnInv, EventInv, OrderInv, OneWorktree, NEW p \in Procs,
           JournalsKept(p), StreamStep(p)
    PROVE  NextInOrder'
<1> SUFFICES ASSUME NEW k \in Checkpoint, Live(k)', ~CheckpointRecorded(k)',
                    NEW st \in Streams, st = <<k.home, k.session>>, NEW i \in DOMAIN stream'[st],
                    NEW e, e = stream'[st][i]
             PROVE  Rank(e) <= RankTurn(k)
  BY DEF NextInOrder, Checkpoint, Streams
<1>0. /\ ~CheckpointRecorded(k) /\ k.turn \in Nat /\ k.phase \in {"pre", "post"}
      /\ RankTurn(k) \in Nat /\ 5 * k.turn <= RankTurn(k) /\ k.home = Primary
      /\ k.phase = "post" => RankTurn(k) = 5 * k.turn + 3
      /\ k.phase = "pre" => RankTurn(k) = 5 * k.turn
  <2>1. k.turn \in Nat /\ k.phase \in {"pre", "post"} /\ k.home = Primary
    BY TurnAssumption, SameHome DEF Checkpoint, Turns, Phases, TypeInv
  <2>2. ~CheckpointRecorded(k)
    BY BothKept
  <2> QED
    BY <2>1, <2>2 DEF RankTurn
<1>1. CASE i \in DOMAIN stream[st]
  <2>1. e = stream[st][i]
    BY <1>1, Appended
  <2>2. CASE Live(k)
    BY <1>0, <1>1, <2>1, <2>2 DEF OrderInv, NextInOrder
  <2>3. CASE ~Live(k)
    <3>1. pc[p] = "begin" /\ job[p].item = k /\ pc[p] \in Creating
      BY <2>3 DEF JournalsKept, Making, Creating
    <3>2. Exclusive(p) /\ k.session = job[p].session
      BY <3>1, AtCreation DEF Creator
    <3>3. /\ e.of = st[1] /\ e.turn \in Nat /\ Rank(e) \in Nat
          /\ Key(st[1], st[2], e.turn, e.phase) \in refs
          /\ Rank(e) <= 5 * e.turn + 4 /\ (e.phase = "pre" => Rank(e) <= 5 * e.turn + 2)
          /\ e.phase \in {"pre", "post"}
      BY <1>1, <2>1, InStream, RanksIn
    <3>4. PICK r \in refs : r = Key(st[1], st[2], e.turn, e.phase)
      BY <3>3
    <3>5. r.session = job[p].session /\ r.turn = e.turn
      BY <3>2, <3>4 DEF Key
    <3>6. e.turn <= k.turn /\ (k.phase = "pre" => e.turn < k.turn)
      BY <3>1, <3>4, <3>5 DEF TurnInv, Highest
    <3>7. e.turn = k.turn => e.phase # k.phase
      <4>1. Key(e.of, st[2], e.turn, e.phase) # k
        BY <1>1, <2>1, <3>1, <3>2 DEF Exclusive
      <4>2. e.turn = k.turn /\ e.phase = k.phase => Key(e.of, st[2], e.turn, e.phase) = k
        BY <3>3 DEF Key, Checkpoint
      <4> QED
        BY <4>1, <4>2
    <3>8. CASE k.phase = "pre"
      BY <1>0, <3>3, <3>6, <3>8
    <3>9. CASE k.phase = "post" /\ e.turn = k.turn
      BY <1>0, <3>3, <3>7, <3>9
    <3>10. CASE k.phase = "post" /\ e.turn < k.turn
      BY <1>0, <3>3, <3>10
    <3> QED
      BY <1>0, <3>3, <3>6, <3>8, <3>9, <3>10
  <2> QED
    BY <2>2, <2>3
<1>2. CASE i \notin DOMAIN stream[st]
  <2>1. /\ e = EventAt(p) /\ pc[p] \in {"turn", "checkpoint", "prompt"} /\ st = StreamAt(p)
        /\ ~UNCHANGED stream
    BY <1>2, Appended
  <2>2. Live(k)
    BY <2>1 DEF StreamStep, Live
  <2>3. CASE pc[p] \in {"turn", "checkpoint"}
    <3>1. PICK c : c = job[p].item
      OBVIOUS
    <3>2. /\ c \in Checkpoint /\ StreamAt(p) = <<c.home, c.session>> /\ Live(c)
          /\ e.turn = c.turn /\ e.phase = c.phase
          /\ pc[p] = "turn" => e.kind = TurnKind(c)
          /\ pc[p] = "checkpoint" => e.kind = "checkpoint"
      BY <2>1, <2>3, <3>1, AppendsLive
    <3>3. c = k
      BY <2>1, <2>2, <3>2 DEF OrderInv, OneLive
    <3>4. pc[p] = "turn"
      <4> SUFFICES ASSUME pc[p] = "checkpoint" PROVE FALSE
        BY <2>3
      <4>1. Recorded(st, "checkpoint", k.turn, k.phase)'
        BY <3>2, <3>3 DEF Recorded
      <4> QED
        BY <4>1 DEF CheckpointRecorded
    <3>5. e.kind = TurnKind(k) /\ e.turn = k.turn
      BY <3>2, <3>3, <3>4
    <3>6. Rank(e) = RankTurn(k)
      BY <1>0, <3>5 DEF Rank, RankTurn, TurnKind
    <3> QED
      BY <1>0, <3>6
  <2>4. CASE pc[p] = "prompt"
    <3>1. st = Own(p) /\ lock # p
      BY <2>1, <2>4 DEF StreamAt, Inv, ProcInv, Locked, Creating, Appending
    <3>2. k.session = job[p].session
      BY <3>1 DEF Own
    <3> QED
      BY <2>2, <2>4, <3>1, <3>2 DEF HookInv, Orderly, Covered, Creating, Appending
  <2> QED
    BY <2>1, <2>3, <2>4
<1> QED
  BY <1>1, <1>2

LEMMA StreamOrderStep ==
    ASSUME TypeInv, TypeInv', Inv, HookInv, TurnInv, EventInv, OrderInv, OneWorktree,
           NEW p \in Procs, StreamStep(p)
    PROVE  StreamOrder'
<1> SUFFICES ASSUME NEW st \in Streams, NEW i \in DOMAIN stream'[st], NEW j \in DOMAIN stream'[st],
                    i < j, NEW f, f = stream'[st][i], NEW e, e = stream'[st][j]
             PROVE  Rank(f) < Rank(e) \/ Late(e, f)
  BY DEF StreamOrder
<1>1. CASE i \in DOMAIN stream[st] /\ j \in DOMAIN stream[st]
  <2>1. f = stream[st][i] /\ e = stream[st][j]
    BY <1>1, Appended
  <2> QED
    BY <1>1, <2>1 DEF OrderInv, StreamOrder
<1>2. CASE i \notin DOMAIN stream[st]
  <2>1. j <= i
    BY <1>2, Appended
  <2>2. i \in Nat /\ j \in Nat
    <3>1. stream'[st] \in Seq(Event)
      BY DEF TypeInv, TypeOK
    <3> QED
      BY <3>1
  <2> QED
    BY <2>1, <2>2
<1>3. CASE i \in DOMAIN stream[st] /\ j \notin DOMAIN stream[st]
  <2>1. /\ f = stream[st][i] /\ e = EventAt(p) /\ st = StreamAt(p) /\ ~UNCHANGED stream
        /\ pc[p] \in {"turn", "checkpoint", "prompt"}
    BY <1>3, Appended
  <2>2. /\ f.turn \in Nat /\ Rank(f) \in Nat /\ f.phase \in {"pre", "post"}
        /\ 5 * f.turn <= Rank(f) /\ Rank(f) <= 5 * f.turn + 4
        /\ f.phase = "pre" => Rank(f) <= 5 * f.turn + 2
        /\ Rank(f) = 5 * f.turn <=> f.kind = "turn.start"
        /\ Rank(f) = 5 * f.turn + 2 <=> f.kind = "prompt.user"
        /\ Rank(f) = 5 * f.turn + 3 <=> f.kind = "turn.finish"
        /\ f.kind = "turn.start" => f.phase = "pre"
        /\ f.kind = "turn.finish" => f.phase = "post"
        /\ Key(st[1], st[2], f.turn, f.phase) \in refs
    BY <1>3, <2>1, InStream, RanksIn
  <2>3. CASE pc[p] \in {"turn", "checkpoint"}
    <3>1. PICK k : k = job[p].item
      OBVIOUS
    <3>2. /\ k \in Checkpoint /\ st = <<k.home, k.session>> /\ Live(k)
          /\ ~CheckpointRecorded(k) /\ e.turn = k.turn /\ e.phase = k.phase
          /\ pc[p] = "turn" => e.kind = TurnKind(k) /\ ~TurnRecorded(k)
          /\ pc[p] = "checkpoint" => e.kind = "checkpoint"
      BY <2>1, <2>3, <3>1, AppendsLive
    <3>3. k.turn \in Nat /\ k.phase \in {"pre", "post"}
      BY <3>2, TurnAssumption DEF Checkpoint, Turns, Phases
    <3>4. Rank(f) <= RankTurn(k)
      BY <1>3, <2>1, <3>2 DEF OrderInv, NextInOrder
    <3>5. CASE pc[p] = "checkpoint"
      <4>1. Rank(e) = RankTurn(k) + 1 /\ RankTurn(k) \in Nat
        BY <3>2, <3>3, <3>5 DEF Rank, RankTurn
      <4> QED
        BY <2>2, <3>4, <4>1
    <3>6. CASE pc[p] = "turn"
      <4>1. Rank(e) = RankTurn(k) /\ RankTurn(k) \in Nat
        BY <3>2, <3>3, <3>6 DEF Rank, RankTurn, TurnKind
      <4>2. Rank(f) # RankTurn(k)
        <5> SUFFICES ASSUME Rank(f) = RankTurn(k) PROVE FALSE
          OBVIOUS
        <5>1. CASE k.phase = "pre"
          <6>1. Rank(f) = 5 * k.turn
            BY <3>3, <5>1 DEF RankTurn
          <6>2. f.turn = k.turn
            BY <2>2, <3>3, <6>1
          <6> QED
            BY <1>3, <2>1, <2>2, <3>2, <3>6, <5>1, <6>1, <6>2 DEF TurnRecorded, Recorded, TurnKind
        <5>2. CASE k.phase = "post"
          <6>1. Rank(f) = 5 * k.turn + 3
            BY <3>3, <5>2 DEF RankTurn
          <6>2. f.turn = k.turn
            BY <2>2, <3>3, <6>1
          <6> QED
            BY <1>3, <2>1, <2>2, <3>2, <3>6, <5>2, <6>1, <6>2 DEF TurnRecorded, Recorded, TurnKind
        <5> QED
          BY <3>3, <5>1, <5>2
      <4> QED
        BY <2>2, <3>4, <4>1, <4>2
    <3> QED
      BY <2>3, <3>5, <3>6
  <2>4. CASE pc[p] = "prompt"
    <3>1. st = Own(p) /\ e.kind = "prompt.user" /\ e.turn = job[p].turn
      BY <2>1, <2>4 DEF StreamAt, EventAt
    <3>2. PICK r \in refs : r = Key(st[1], st[2], f.turn, f.phase)
      BY <2>2
    <3>3. r.session = job[p].session /\ r.turn = f.turn
      BY <3>1, <3>2 DEF Key, Own
    <3>4. f.turn <= e.turn /\ e.turn \in Nat
      BY <2>4, <3>1, <3>2, <3>3, TurnAssumption DEF TurnInv, Highest, Turns
    <3>5. Rank(e) = 5 * e.turn + 2
      BY <3>1, <3>4 DEF Rank
    <3>6. CASE f.turn < e.turn
      BY <2>2, <3>4, <3>5, <3>6
    <3>7. CASE f.turn = e.turn /\ f.phase = "post"
      BY <3>1, <3>7 DEF Late
    <3>8. CASE f.turn = e.turn /\ f.phase = "pre"
      <4>1. ~HasPrompt(Own(p), job[p].turn)
        BY <2>4 DEF OrderInv, Unprompted
      <4>2. f.kind # "prompt.user"
        BY <1>3, <2>1, <3>1, <3>8, <4>1 DEF HasPrompt, Recorded
      <4> QED
        BY <2>2, <3>4, <3>5, <3>8, <4>2
    <3> QED
      BY <2>2, <3>4, <3>6, <3>7, <3>8
  <2> QED
    BY <2>1, <2>3, <2>4
<1> QED
  BY <1>1, <1>2, <1>3

HistoryInv == HookInv /\ TurnInv /\ EventInv /\ OrderInv

LEMMA HistoryInit == Init => HistoryInv
<1> SUFFICES ASSUME Init PROVE HistoryInv
  OBVIOUS
<1>1. HookInv
  BY HookInit
<1>2. /\ refs = {} /\ \A p \in Procs : pc[p] = "idle" /\ job[p].turn = 0 /\ lock # p
      /\ \A st \in Streams : active[st] = 0 /\ stream[st] = <<>>
      /\ \A k \in Checkpoint : journal[k] = "none"
  BY TurnAssumption DEF Init
<1>3. TurnInv
  BY <1>2 DEF TurnInv, ActiveTop, Unnumbered, Highest, Recovers, Follows, Creating, Appending
<1>4. \A st \in Streams : DOMAIN stream[st] = {}
  BY <1>2
<1>5. \A k \in Checkpoint : ~CheckpointRecorded(k) /\ ~Live(k)
  BY <1>2, <1>4 DEF CheckpointRecorded, Recorded, Live, Checkpoint, Streams
<1>6. EventInv
  BY <1>2, <1>4, <1>5 DEF EventInv, PhasesFit, Paired, Finalized, Traced
<1>7. OrderInv
  BY <1>2, <1>4, <1>5
     DEF OrderInv, OneLive, NextInOrder, StreamOrder, Unprompted, Follows, Appending
<1> QED
  BY <1>1, <1>3, <1>6, <1>7 DEF HistoryInv

LEMMA HistoryStep ==
    ASSUME HooksOnly, TypeInv, TypeInv', Inv, HistoryInv, NEW p \in Procs,
           CallAny(p) \/ Step(p) \/ Fault(p)
    PROVE  HistoryInv'
<1>0. OneWorktree /\ HookInv /\ TurnInv /\ EventInv /\ OrderInv
  BY DEF HooksOnly, HistoryInv
<1>1. /\ Preserves(p) /\ Way(p) /\ RefStep(p) /\ ActiveStepOf(p) /\ StreamStep(p)
  BY <1>0, HooksKeep, EveryWay, SharedSteps, StreamSteps
<1>2. JournalsKept(p) /\ LocksKept(p) /\ HookInv'
  BY <1>1 DEF Preserves
<1>3. TurnInv'
  BY <1>0, <1>1, <1>2, TurnInvStep
<1>4. EventInv'
  BY <1>0, <1>1, <1>2, EventInvStep
<1>5. OneLive' /\ NextInOrder' /\ StreamOrder'
  BY <1>0, <1>1, <1>2, OneLiveStep, NextInOrderStep, StreamOrderStep
<1>6. \A q \in Procs : Unprompted(q)'
  BY <1>0, <1>1, <1>2, OwnUnprompted, OthersUnprompted
<1> QED
  BY <1>2, <1>3, <1>4, <1>5, <1>6 DEF HistoryInv, OrderInv

LEMMA HistoryNext ==
    HooksOnly /\ TypeInv /\ TypeInv' /\ Inv /\ HistoryInv /\ [Next]_vars => HistoryInv'
<1> SUFFICES ASSUME HooksOnly, TypeInv, TypeInv', Inv, HistoryInv, [Next]_vars PROVE HistoryInv'
  OBVIOUS
<1>1. CASE UNCHANGED vars
  <2>1. HookInv'
    BY <1>1, HookNext DEF HistoryInv
  <2>2. TurnInv'
    BY <1>1 DEF vars, HistoryInv, TurnInv, ActiveTop, Unnumbered, Highest, Recovers, Follows
  <2>3. EventInv'
    <3>1. PhasesFit'
      BY <1>1 DEF vars, HistoryInv, EventInv, PhasesFit
    <3>2. Paired'
      BY <1>1 DEF vars, HistoryInv, EventInv, Paired, CheckpointRecorded, TurnRecorded,
                  Recorded
    <3>3. Finalized'
      BY <1>1 DEF vars, HistoryInv, EventInv, Finalized, CheckpointRecorded, TurnRecorded,
                  Recorded, Live
    <3>4. \A p \in Procs : Traced(p)'
      BY <1>1 DEF vars, HistoryInv, EventInv, Traced, CheckpointRecorded, TurnRecorded,
                  Recorded, Live
    <3> QED
      BY <3>1, <3>2, <3>3, <3>4 DEF EventInv
  <2>4. OrderInv'
    BY <1>1 DEF vars, HistoryInv, OrderInv, OneLive, NextInOrder, StreamOrder, Unprompted,
                HasPrompt, CheckpointRecorded, Recorded, Live, Follows, Own, Home
  <2> QED
    BY <2>1, <2>2, <2>3, <2>4 DEF HistoryInv
<1>2. ASSUME NEW p \in Procs, CallAny(p) \/ Step(p) \/ Fault(p) PROVE HistoryInv'
  BY <1>2, HistoryStep
<1> QED
  BY <1>1, <1>2 DEF Next

LEMMA HistoryAlways ==
    ASSUME HooksOnly
    PROVE  Spec => [](TypeInv /\ Inv /\ HistoryInv)
<1>1. Init => TypeInv /\ Inv /\ HistoryInv
  BY TypeInit, SafeInit, HistoryInit
<1>2. TypeInv /\ Inv /\ HistoryInv /\ [Next]_vars => (TypeInv /\ Inv /\ HistoryInv)'
  BY TypeNext, SafeNext, HistoryNext DEF HooksOnly
<1> QED
  BY <1>1, <1>2, PTL DEF Spec

\* When only hooks write, and in one worktree, the events of a session are in the one
\* order that `turnal recall` takes, whoever appended them and whatever was killed, torn
\* or failed in between; only a prompt may come after the end of its own turn.
THEOREM HistoryInOrder ==
    ASSUME HooksOnly
    PROVE  Spec => []StreamOrder
<1>1. HistoryInv => StreamOrder
  BY DEF HistoryInv, OrderInv
<1> QED
  BY <1>1, HistoryAlways, PTL

----------------------------------------------------------------------------
(* What recall relies on                                                   *)

\* The end of a turn, and its prompt, are only written behind its pre checkpoint.
Founded ==
    \A c \in Checkpoint : c.phase = "pre" =>
        /\ HasPrompt(<<c.home, c.session>>, c.turn) => CheckpointRecorded(c)
        /\ \A k \in Checkpoint :
               /\ k.session = c.session /\ k.turn = c.turn /\ k.phase = "post"
               /\ Live(k) \/ TurnRecorded(k)
               => CheckpointRecorded(c)

\* A hook that has found a turn to finish or to join has found its pre checkpoint recorded.
AtTurn(p) ==
    \A c \in Checkpoint :
        /\ c.phase = "pre" /\ c.session = job[p].session
        /\ \/ pc[p] \in {"finish", "prompt"} /\ c.turn = job[p].turn
           \/ pc[p] = "begin" /\ job[p].item.phase = "post" /\ c.turn = job[p].item.turn
        => CheckpointRecorded(c)

RecallInv == Founded /\ \A p \in Procs : AtTurn(p)

\* Past recovery no journal of the session is left, so its active turn is recorded.
LEMMA ActiveRecorded ==
    ASSUME TypeInv, Inv, HookInv, OneWorktree, NEW p \in Procs, pc[p] = "hook",
           active[Own(p)] # 0, NEW c \in Checkpoint, c.phase = "pre",
           c.session = job[p].session, c.turn = active[Own(p)]
    PROVE  CheckpointRecorded(c)
<1>1. Own(p) \in Streams /\ Own(p) = <<c.home, c.session>>
  BY JobFields, SameHome DEF TypeInv, Own, Streams, OneWorktree
<1>2. c = Key(Own(p)[1], Own(p)[2], active[Own(p)], "pre")
  BY <1>1 DEF Key, Checkpoint
<1>3. c \in refs \ abandoned
  BY <1>1, <1>2 DEF Inv, ActiveBacked
<1>4. ~Live(c)
  <2>1. lock # p
    BY DEF Inv, ProcInv, Locked, Creating, Appending
  <2> QED
    BY <2>1 DEF HookInv, Orderly, Covered, Creating, Appending
<1> QED
  BY <1>3, <1>4 DEF Inv, RecordedOrJournaled, CheckpointRecorded, Live

LEMMA OwnAtTurn ==
    ASSUME TypeInv, Inv, Inv', HookInv, TurnInv, OneWorktree, NEW p \in Procs,
           Way(p), StreamStep(p), AtTurn(p)
    PROVE  AtTurn(p)'
<1> SUFFICES ASSUME NEW c \in Checkpoint, c.phase = "pre", c.session = job'[p].session,
                    \/ pc'[p] \in {"finish", "prompt"} /\ c.turn = job'[p].turn
                    \/ /\ pc'[p] = "begin" /\ job'[p].item.phase = "post"
                       /\ c.turn = job'[p].item.turn
             PROVE  CheckpointRecorded(c)'
  BY DEF AtTurn
<1> SUFFICES CheckpointRecorded(c)
  BY BothKept
<1>1. CASE pc'[p] \in {"finish", "prompt"} /\ pc[p] = "hook"
  <2>1. /\ job'[p].turn = active[Own(p)] /\ active[Own(p)] # 0
        /\ job'[p].session = job[p].session
    BY <1>1 DEF Way, Entering, Turning, Recording, Recovers, Follows, Creating, Appending, InCall
  <2> QED
    BY <1>1, <2>1, ActiveRecorded
<1>2. CASE pc'[p] \in {"finish", "prompt"} /\ pc[p] # "hook"
  <2>1. /\ Follows(p) /\ pc[p] \in {"read", "clear"} /\ job[p].item.phase = "pre"
        /\ job'[p].turn = job[p].item.turn /\ job'[p].session = job[p].session
    BY <1>2 DEF Way, Entering, Turning, Recording, Recovers, Follows, Creating, Appending, InCall
  <2>2. /\ job[p].item \in Checkpoint /\ job[p].item.home = Primary
        /\ job[p].item.session = job[p].session
    BY <2>1, AtEvents DEF Follows
  <2>3. c = job[p].item
    BY <1>2, <2>1, <2>2 DEF Checkpoint, OneWorktree
  <2> QED
    BY <2>1, <2>3 DEF Inv, ProcInv, Follower
<1>3. CASE pc'[p] = "begin"
  <2>1. /\ pc[p] = "finish" /\ job'[p].session = job[p].session
        /\ job[p].turn # 0 => job'[p].item.turn = job[p].turn
    BY <1>3 DEF Way, Entering, Turning, Recording, Recovers, Follows, Creating, Appending, InCall
  <2>2. job[p].turn # 0
    BY <2>1, TurnAssumption DEF TurnInv, Highest, Turns
  <2> QED
    BY <1>3, <2>1, <2>2 DEF AtTurn
<1> QED
  BY <1>1, <1>2, <1>3

LEMMA OthersAtTurn ==
    ASSUME TypeInv, NEW p \in Procs, LocksKept(p), StreamStep(p), NEW q \in Procs \ {p}, AtTurn(q)
    PROVE  AtTurn(q)'
  BY BothKept DEF AtTurn, LocksKept, Others

LEMMA FoundedStep ==
    ASSUME TypeInv, Inv, EventInv, RecallInv, OneWorktree, NEW p \in Procs,
           JournalsKept(p), StreamStep(p)
    PROVE  Founded'
<1> SUFFICES ASSUME NEW c \in Checkpoint, c.phase = "pre",
                    \/ HasPrompt(<<c.home, c.session>>, c.turn)'
                    \/ \E k \in Checkpoint :
                           /\ k.session = c.session /\ k.turn = c.turn /\ k.phase = "post"
                           /\ Live(k)' \/ TurnRecorded(k)'
             PROVE  CheckpointRecorded(c)
  BY BothKept DEF Founded
<1>0. Founded /\ AtTurn(p) /\ <<c.home, c.session>> \in Streams
  BY DEF RecallInv, Checkpoint, Streams
<1>1. CASE HasPrompt(<<c.home, c.session>>, c.turn)'
  <2>1. CASE HasPrompt(<<c.home, c.session>>, c.turn)
    BY <1>0, <2>1 DEF Founded
  <2>2. CASE ~HasPrompt(<<c.home, c.session>>, c.turn)
    <3>1. pc[p] = "prompt" /\ c.session = job[p].session /\ c.turn = job[p].turn
      BY <1>0, <1>1, <2>2, PromptsKept DEF Own
    <3> QED
      BY <1>0, <3>1 DEF AtTurn
  <2> QED
    BY <2>1, <2>2
<1>2. ASSUME NEW k \in Checkpoint, k.session = c.session, k.turn = c.turn, k.phase = "post",
             Live(k)' \/ TurnRecorded(k)'
      PROVE  CheckpointRecorded(c)
  <2>1. CASE Live(k) \/ TurnRecorded(k)
    BY <1>0, <1>2, <2>1 DEF Founded
  <2>2. CASE pc[p] = "begin" /\ Making(p, k)
    <3>1. job[p].item = k /\ k.session = job[p].session
      BY <2>2, AtCreation DEF Making, Creator
    <3> QED
      BY <1>0, <1>2, <2>2, <3>1 DEF AtTurn
  <2>3. CASE TurnRecorded(k)' /\ ~TurnRecorded(k)
    <3>1. <<k.home, k.session>> \in Streams /\ TurnKind(k) = "turn.finish"
      BY <1>2 DEF Checkpoint, Streams, TurnKind
    <3>2. PICK st \in Streams : st = <<k.home, k.session>>
      BY <3>1
    <3>3. PICK i \in DOMAIN stream'[st] :
              /\ stream'[st][i].kind = "turn.finish" /\ stream'[st][i].turn = k.turn
              /\ stream'[st][i].phase = "post"
      BY <1>2, <2>3, <3>1, <3>2 DEF TurnRecorded, Recorded, TurnKind
    <3>4. i \notin DOMAIN stream[st]
      <4> SUFFICES ASSUME i \in DOMAIN stream[st] PROVE FALSE
        OBVIOUS
      <4>1. stream'[st][i] = stream[st][i]
        BY Appended
      <4> QED
        BY <1>2, <2>3, <3>1, <3>2, <3>3, <4>1 DEF TurnRecorded, Recorded
    <3>5. /\ stream'[st][i] = EventAt(p) /\ pc[p] \in {"turn", "checkpoint", "prompt"}
          /\ st = StreamAt(p) /\ ~UNCHANGED stream
      BY <3>3, <3>4, Appended
    <3>6. pc[p] = "turn"
      BY <3>3, <3>5 DEF EventAt
    <3>7. PICK l : l = job[p].item
      OBVIOUS
    <3>8. /\ l \in Checkpoint /\ StreamAt(p) = <<l.home, l.session>> /\ Live(l)
          /\ EventAt(p).turn = l.turn /\ EventAt(p).phase = l.phase
      BY <3>5, <3>6, <3>7, AppendsLive
    <3>9. l = k
      BY <1>2, <3>2, <3>3, <3>5, <3>8 DEF Checkpoint
    <3> QED
      BY <1>0, <1>2, <3>8, <3>9 DEF Founded
  <2> QED
    BY <1>2, <2>1, <2>2, <2>3 DEF JournalsKept
<1> QED
  BY <1>1, <1>2

LEMMA RecallInvStep ==
    ASSUME HooksOnly, TypeInv, TypeInv', Inv, Inv', HistoryInv, RecallInv, NEW p \in Procs,
           CallAny(p) \/ Step(p) \/ Fault(p)
    PROVE  RecallInv'
<1>0. OneWorktree /\ HookInv /\ TurnInv /\ EventInv
  BY DEF HooksOnly, HistoryInv
<1>1. Preserves(p) /\ Way(p) /\ StreamStep(p)
  BY <1>0, HooksKeep, EveryWay, StreamSteps
<1>2. JournalsKept(p) /\ LocksKept(p)
  BY <1>1 DEF Preserves
<1>3. Founded'
  BY <1>0, <1>1, <1>2, FoundedStep
<1>4. \A q \in Procs : AtTurn(q)'
  BY <1>0, <1>1, <1>2, OwnAtTurn, OthersAtTurn DEF RecallInv
<1> QED
  BY <1>3, <1>4 DEF RecallInv

----------------------------------------------------------------------------
(* Recall accepts what is in a stream                                      *)

Place == [start |-> 0, pre |-> 1, prompt |-> 2, finish |-> 3, post |-> 4]

HasPart(st, t, part) == \E j \in EventsOf(st, t) : PartOf(stream[st][j]) = part

\* A part's place in its turn gives its rank.
LEMMA Parts ==
    ASSUME TypeInv, Inv, EventInv, OneWorktree, NEW st \in Streams, NEW i \in DOMAIN stream[st],
           NEW e, e = stream[st][i]
    PROVE  /\ PartOf(e) \in {"start", "pre", "prompt", "finish", "post"}
           /\ PartOf(e) = "start" <=> e.kind = "turn.start"
           /\ PartOf(e) = "prompt" <=> e.kind = "prompt.user"
           /\ PartOf(e) = "finish" <=> e.kind = "turn.finish"
           /\ PartOf(e) = "pre" <=> e.kind = "checkpoint" /\ e.phase = "pre"
           /\ PartOf(e) = "post" <=> e.kind = "checkpoint" /\ e.phase = "post"
           /\ Place[PartOf(e)] \in 0 .. 4 /\ Rank(e) = 5 * e.turn + Place[PartOf(e)]
           /\ e.turn \in Nat /\ i \in Nat
<1>1. e.kind \in Kinds /\ e.phase \in {"pre", "post"} /\ i \in Nat
  BY InStream DEF Event, Phases
<1>2. e.turn \in Nat
  BY RanksIn
<1>3. CASE e.kind = "turn.start"
  BY <1>1, <1>2, <1>3 DEF PartOf, Place, Rank
<1>4. CASE e.kind = "turn.finish"
  BY <1>1, <1>2, <1>4 DEF PartOf, Place, Rank
<1>5. CASE e.kind = "prompt.user"
  BY <1>1, <1>2, <1>5 DEF PartOf, Place, Rank
<1>6. CASE e.kind = "checkpoint"
  BY <1>1, <1>2, <1>6 DEF PartOf, Place, Rank
<1> QED
  BY <1>1, <1>3, <1>4, <1>5, <1>6 DEF Kinds

\* What a part stands for: a turn's or a checkpoint's event, or a prompt.
LEMMA PartsOfCheckpoints ==
    ASSUME TypeInv, Inv, EventInv, OneWorktree, NEW c \in Checkpoint, NEW st,
           st = <<c.home, c.session>>
    PROVE  /\ c.phase = "pre" => /\ CheckpointRecorded(c) <=> HasPart(st, c.turn, "pre")
                                 /\ TurnRecorded(c) <=> HasPart(st, c.turn, "start")
                                 /\ HasPrompt(st, c.turn) <=> HasPart(st, c.turn, "prompt")
           /\ c.phase = "post" => /\ CheckpointRecorded(c) <=> HasPart(st, c.turn, "post")
                                  /\ TurnRecorded(c) <=> HasPart(st, c.turn, "finish")
<1>1. st \in Streams
  BY DEF Checkpoint, Streams
<1>2. ASSUME NEW i \in DOMAIN stream[st], NEW e, e = stream[st][i]
      PROVE  /\ PartOf(e) = "start" <=> e.kind = "turn.start" /\ e.phase = "pre"
             /\ PartOf(e) = "prompt" <=> e.kind = "prompt.user" /\ e.phase = "pre"
             /\ PartOf(e) = "finish" <=> e.kind = "turn.finish" /\ e.phase = "post"
             /\ PartOf(e) = "pre" <=> e.kind = "checkpoint" /\ e.phase = "pre"
             /\ PartOf(e) = "post" <=> e.kind = "checkpoint" /\ e.phase = "post"
  BY <1>1, <1>2, Parts, InStream
<1>3. ASSUME c.phase = "pre"
      PROVE  /\ CheckpointRecorded(c) <=> HasPart(st, c.turn, "pre")
             /\ TurnRecorded(c) <=> HasPart(st, c.turn, "start")
             /\ HasPrompt(st, c.turn) <=> HasPart(st, c.turn, "prompt")
  BY <1>2, <1>3 DEF CheckpointRecorded, TurnRecorded, HasPrompt, Recorded, TurnKind, HasPart,
                    EventsOf
<1>4. ASSUME c.phase = "post"
      PROVE  /\ CheckpointRecorded(c) <=> HasPart(st, c.turn, "post")
             /\ TurnRecorded(c) <=> HasPart(st, c.turn, "finish")
  BY <1>2, <1>4 DEF CheckpointRecorded, TurnRecorded, Recorded, TurnKind, HasPart, EventsOf
<1> QED
  BY <1>3, <1>4

\* No part without those it needs.
LEMMA PartsNeeded ==
    ASSUME TypeInv, Inv, EventInv, Founded, OneWorktree, NEW st \in Streams, NEW t \in Turns
    PROVE  /\ HasPart(st, t, "pre") => HasPart(st, t, "start")
           /\ HasPart(st, t, "prompt") => HasPart(st, t, "pre")
           /\ HasPart(st, t, "finish") => HasPart(st, t, "pre")
           /\ HasPart(st, t, "post") => HasPart(st, t, "finish")
<1>1. PICK c \in Checkpoint : c.home = st[1] /\ c.session = st[2] /\ c.turn = t /\ c.phase = "pre"
  <2>1. Key(st[1], st[2], t, "pre") \in Checkpoint
    BY DEF Key, Checkpoint, Streams, Phases
  <2> QED
    BY <2>1 DEF Key
<1>2. PICK k \in Checkpoint : k.home = st[1] /\ k.session = st[2] /\ k.turn = t /\ k.phase = "post"
  <2>1. Key(st[1], st[2], t, "post") \in Checkpoint
    BY DEF Key, Checkpoint, Streams, Phases
  <2> QED
    BY <2>1 DEF Key
<1>3. st = <<c.home, c.session>> /\ st = <<k.home, k.session>>
  BY <1>1, <1>2 DEF Streams
<1>4. /\ CheckpointRecorded(c) <=> HasPart(st, t, "pre")
      /\ TurnRecorded(c) <=> HasPart(st, t, "start")
      /\ HasPrompt(st, t) <=> HasPart(st, t, "prompt")
  BY <1>1, <1>3, PartsOfCheckpoints
<1>5. /\ CheckpointRecorded(k) <=> HasPart(st, t, "post")
      /\ TurnRecorded(k) <=> HasPart(st, t, "finish")
  BY <1>2, <1>3, PartsOfCheckpoints
<1>6. HasPrompt(st, t) \/ TurnRecorded(k) => CheckpointRecorded(c)
  BY <1>1, <1>2, <1>3 DEF Founded
<1> QED
  BY <1>4, <1>5, <1>6 DEF EventInv, Paired

\* Within a turn no part comes later than its place, but for a late prompt.
LEMMA PlaceOrder ==
    ASSUME TypeInv, Inv, EventInv, StreamOrder, OneWorktree, NEW st \in Streams, NEW t,
           NEW i \in EventsOf(st, t), NEW j \in EventsOf(st, t),
           InTime(st, t) \/ PartOf(stream[st][j]) # "prompt"
    PROVE  i < j => Place[PartOf(stream[st][i])] < Place[PartOf(stream[st][j])]
<1> SUFFICES ASSUME i < j
             PROVE  Place[PartOf(stream[st][i])] < Place[PartOf(stream[st][j])]
  OBVIOUS
<1>1. PICK e : e = stream[st][i]
  OBVIOUS
<1>2. PICK f : f = stream[st][j]
  OBVIOUS
<1>3. i \in DOMAIN stream[st] /\ j \in DOMAIN stream[st] /\ e.turn = t /\ f.turn = t
  BY <1>1, <1>2 DEF EventsOf
<1>4. Rank(e) = 5 * t + Place[PartOf(e)] /\ Place[PartOf(e)] \in 0 .. 4 /\ t \in Nat
  BY <1>1, <1>3, Parts
<1>5. /\ Rank(f) = 5 * t + Place[PartOf(f)] /\ Place[PartOf(f)] \in 0 .. 4
      /\ PartOf(f) = "prompt" <=> f.kind = "prompt.user"
  BY <1>2, <1>3, Parts
<1>6. ~Late(f, e)
  BY <1>1, <1>2, <1>5 DEF InTime, Late
<1>7. Rank(e) < Rank(f)
  BY <1>1, <1>2, <1>3, <1>6 DEF StreamOrder
<1> QED
  BY <1>1, <1>2, <1>4, <1>5, <1>7

\* Before an event its turn has brought just the parts with an earlier place.
LEMMA PartsSeen ==
    ASSUME TypeInv, Inv, EventInv, StreamOrder, OneWorktree, NEW st \in Streams, NEW t,
           InTime(st, t), NEW i \in EventsOf(st, t)
    PROVE  Seen(st, i) = {part \in {"start", "pre", "finish", "post"} :
                              HasPart(st, t, part) /\ Place[part] < Place[PartOf(stream[st][i])]}
<1>1. i \in DOMAIN stream[st] /\ stream[st][i].turn = t /\ i \in Nat
      /\ Place[PartOf(stream[st][i])] \in 0 .. 4
  BY Parts DEF EventsOf
<1>2. ASSUME NEW j \in EventsOf(st, t)
      PROVE  /\ j \in Nat /\ Place[PartOf(stream[st][j])] \in 0 .. 4
             /\ PartOf(stream[st][j]) \in {"start", "pre", "prompt", "finish", "post"}
             /\ j < i <=> Place[PartOf(stream[st][j])] < Place[PartOf(stream[st][i])]
  <2>1. j \in DOMAIN stream[st]
    BY DEF EventsOf
  <2>2. /\ j \in Nat /\ Place[PartOf(stream[st][j])] \in 0 .. 4
        /\ PartOf(stream[st][j]) \in {"start", "pre", "prompt", "finish", "post"}
    BY <2>1, Parts
  <2>3. /\ j < i => Place[PartOf(stream[st][j])] < Place[PartOf(stream[st][i])]
        /\ i < j => Place[PartOf(stream[st][i])] < Place[PartOf(stream[st][j])]
    BY PlaceOrder
  <2> QED
    BY <1>1, <2>2, <2>3
<1> DEFINE earlier == {n \in EventsOf(st, t) : n < i}
           parts == {part \in {"start", "pre", "finish", "post"} :
                         HasPart(st, t, part) /\ Place[part] < Place[PartOf(stream[st][i])]}
<1>3. Seen(st, i) = {PartOf(stream[st][j]) : j \in earlier} \ {"prompt"}
  BY <1>1 DEF Seen
<1>4. ASSUME NEW part \in Seen(st, i) PROVE part \in parts
  <2>1. PICK j \in earlier : part = PartOf(stream[st][j]) /\ part # "prompt"
    BY <1>3, <1>4
  <2> QED
    BY <1>2, <2>1 DEF HasPart
<1>5. ASSUME NEW part \in parts PROVE part \in Seen(st, i)
  <2>1. PICK j \in EventsOf(st, t) : PartOf(stream[st][j]) = part
    BY <1>5 DEF HasPart
  <2>2. j \in earlier /\ part # "prompt"
    BY <1>2, <1>5, <2>1
  <2> QED
    BY <1>3, <2>1, <2>2
<1> QED
  BY <1>4, <1>5

\* The checkpoint before a post checkpoint is the pre checkpoint of its turn.
LEMMA PostContinues ==
    ASSUME TypeInv, Inv, EventInv, StreamOrder, Founded, OneWorktree, NEW st \in Streams,
           NEW t \in Turns, NEW i \in EventsOf(st, t), PartOf(stream[st][i]) = "post"
    PROVE  Continues(st, i)
<1> DEFINE s == stream[st]
           earlier == {j \in 1 .. i - 1 : s[j].kind = "checkpoint"}
<1>1. /\ i \in DOMAIN s /\ s[i].turn = t /\ i \in Nat /\ s[i].kind = "checkpoint"
      /\ s[i].phase = "post" /\ Rank(s[i]) = 5 * t + 4 /\ t \in Nat
  BY Parts, RanksIn DEF EventsOf
<1>2. DOMAIN s = 1 .. Len(s) /\ Len(s) \in Nat
  BY DEF TypeInv, TypeOK
<1>3. HasPart(st, t, "pre")
  BY PartsNeeded DEF HasPart
<1>4. PICK c \in EventsOf(st, t) : PartOf(s[c]) = "pre"
  BY <1>3 DEF HasPart
<1>5. /\ c \in DOMAIN s /\ s[c].turn = t /\ s[c].kind = "checkpoint" /\ s[c].phase = "pre"
      /\ c \in Nat /\ Rank(s[c]) = 5 * t + 1
  BY <1>4, Parts, RanksIn DEF EventsOf
<1>6. ASSUME NEW a \in DOMAIN s, NEW b \in DOMAIN s, a < b, s[b].kind = "checkpoint"
      PROVE  Rank(s[a]) < Rank(s[b])
  <2>1. ~Late(s[b], s[a])
    BY <1>6 DEF Late
  <2> QED
    BY <1>6, <2>1 DEF StreamOrder
<1>7. c < i
  BY <1>1, <1>5, <1>6
<1>8. c \in earlier
  BY <1>2, <1>5, <1>7, <1>1
<1>9. PICK m \in earlier : \A j \in earlier : m >= j
  <2>1. i - 1 \in Nat
    BY <1>1, <1>2
  <2>2. PICK m \in earlier : \A j \in earlier : j <= m
    BY <1>8, <2>1, LastPosition
  <2> QED
    BY <1>1, <2>2
<1> DEFINE last == Max(earlier)
<1>10. last \in earlier /\ \A j \in earlier : last >= j
  BY <1>9 DEF Max
<1> HIDE DEF last
<1>11. /\ last \in DOMAIN s /\ last \in Nat /\ last < i /\ last >= c
       /\ s[last].kind = "checkpoint"
  BY <1>1, <1>2, <1>8, <1>10
<1>12. last = c
  <2> SUFFICES ASSUME c < last PROVE FALSE
    BY <1>5, <1>11
  <2>1. 5 * t + 1 < Rank(s[last]) /\ Rank(s[last]) < 5 * t + 4
    BY <1>1, <1>5, <1>6, <1>11
  <2>2. s[last].turn \in Nat /\ Rank(s[last]) \in {5 * s[last].turn + 1, 5 * s[last].turn + 4}
    BY <1>11, RanksIn
  <2> QED
    BY <1>1, <2>1, <2>2
<1> QED
  BY <1>1, <1>5, <1>8, <1>12 DEF Continues, last

\* So recall accepts every event of a turn.
LEMMA EventAccepted ==
    ASSUME TypeInv, Inv, EventInv, StreamOrder, Founded, OneWorktree, NEW st \in Streams,
           NEW t \in Turns, InTime(st, t), NEW i \in EventsOf(st, t)
    PROVE  Accepts(st, i)
<1>1. PICK part \in {"start", "pre", "prompt", "finish", "post"} : part = PartOf(stream[st][i])
  BY Parts DEF EventsOf
<1>2. HasPart(st, t, part)
  BY <1>1 DEF HasPart
<1>3. PayloadFits(st, stream[st][i])
  BY InStream DEF PayloadFits, EventsOf
<1>4. part = "post" => Continues(st, i)
  BY <1>1, PostContinues
<1>5. Seen(st, i) = {q \in {"start", "pre", "finish", "post"} :
                         HasPart(st, t, q) /\ Place[q] < Place[part]}
  BY <1>1, PartsSeen
<1>6. Seen(st, i) \in Before[part]
  <2>1. CASE part = "start"
    <3>1. Seen(st, i) = {}
      BY <1>5, <2>1 DEF Place
    <3> QED
      BY <2>1, <3>1 DEF Before
  <2>2. CASE part = "pre"
    <3>1. Seen(st, i) = {"start"}
      BY <1>2, <1>5, <2>2, PartsNeeded DEF Place
    <3> QED
      BY <2>2, <3>1 DEF Before
  <2>3. CASE part = "prompt"
    <3>1. Seen(st, i) = {"start", "pre"}
      BY <1>2, <1>5, <2>3, PartsNeeded DEF Place
    <3> QED
      BY <2>3, <3>1 DEF Before
  <2>4. CASE part = "finish"
    <3>1. Seen(st, i) = {"start", "pre"}
      BY <1>2, <1>5, <2>4, PartsNeeded DEF Place
    <3> QED
      BY <2>4, <3>1 DEF Before
  <2>5. CASE part = "post"
    <3>1. Seen(st, i) = {"start", "pre", "finish"}
      BY <1>2, <1>5, <2>5, PartsNeeded DEF Place
    <3> QED
      BY <2>5, <3>1 DEF Before
  <2> QED
    BY <2>1, <2>2, <2>3, <2>4, <2>5
<1> QED
  BY <1>1, <1>3, <1>4, <1>6 DEF Accepts

\* The one stream that has the turn is found.
LEMMA TurnRecalled ==
    ASSUME TypeInv, Inv, EventInv, StreamOrder, Founded, OneWorktree, NEW s \in Sessions,
           Legible(s), NEW st, st = <<HomeOf[s], s>>, NEW t \in Turns, EventsOf(st, t) # {},
           InTime(st, t)
    PROVE  RecallTurn(s, t, {HomeOf[s]}) = PartsIn(st, t)
           /\ PartsIn(st, t) = {PartOf(stream[st][i]) : i \in EventsOf(st, t)} \ {"prompt"}
<1>1. st \in Streams
  BY TurnAssumption DEF Streams
<1> DEFINE candidates == {x \in StreamsOf(s) : x[1] \in {HomeOf[s]} /\ EventsOf(x, t) # {}}
<1>2. candidates = {st}
  BY <1>1 DEF StreamsOf, Streams
<1>3. Cardinality(candidates) = 1 /\ (CHOOSE x \in candidates : TRUE) = st
  BY <1>2, FS_Singleton
<1> HIDE DEF candidates
<1>4. RecallTurn(s, t, {HomeOf[s]}) = PartsIn(st, t)
  BY <1>3 DEF RecallTurn, candidates
<1>5. \A i \in EventsOf(st, t) : Accepts(st, i)
  BY <1>1, EventAccepted
<1> QED
  BY <1>4, <1>5 DEF PartsIn

LEMMA RecallHolds ==
    OneWorktree /\ TypeInv /\ Inv /\ HistoryInv /\ RecallInv => RecallAnswers
<1> SUFFICES ASSUME OneWorktree, TypeInv, Inv, HistoryInv, RecallInv,
                    NEW s \in Sessions, NEW st, st = <<HomeOf[s], s>>, Legible(s)
             PROVE  /\ \A t \in Turns : EventsOf(st, t) # {} /\ InTime(st, t) =>
                           RecallTurn(s, t, {HomeOf[s]}) # Unreadable
                    /\ \A i \in DOMAIN stream[st] : stream[st][i].turn <= LatestTurn(st)
  BY DEF RecallAnswers
<1>0. EventInv /\ StreamOrder /\ Founded /\ st \in Streams
  BY TurnAssumption DEF HistoryInv, OrderInv, RecallInv, Streams
<1>1. ASSUME NEW t \in Turns, EventsOf(st, t) # {}, InTime(st, t)
      PROVE  RecallTurn(s, t, {HomeOf[s]}) # Unreadable
  <2>1. RecallTurn(s, t, {HomeOf[s]})
            = {PartOf(stream[st][i]) : i \in EventsOf(st, t)} \ {"prompt"}
    BY <1>0, <1>1, TurnRecalled
  <2>2. ASSUME NEW i \in EventsOf(st, t) PROVE PartOf(stream[st][i]) # "unreadable"
    BY <1>0, Parts DEF EventsOf
  <2> QED
    BY <2>1, <2>2 DEF Unreadable
<1>2. ASSUME NEW i \in DOMAIN stream[st] PROVE stream[st][i].turn <= LatestTurn(st)
  <2> DEFINE n == Len(stream[st])
  <2>1. stream[st] # <<>> /\ n \in DOMAIN stream[st] /\ i \in Nat /\ i <= n /\ n \in Nat
    <3>1. stream[st] \in Seq(Event)
      BY <1>0 DEF TypeInv, TypeOK
    <3> QED
      BY <3>1
  <2>2. PICK e : e = stream[st][i]
    OBVIOUS
  <2>3. PICK f : f = stream[st][n]
    OBVIOUS
  <2>4. e.turn \in Nat /\ Rank(e) \in Nat /\ 5 * e.turn <= Rank(e)
    BY <1>0, <2>2, RanksIn
  <2>5. f.turn \in Nat /\ Rank(f) \in Nat /\ Rank(f) <= 5 * f.turn + 4
    BY <1>0, <2>1, <2>3, RanksIn
  <2>6. CASE i = n
    BY <2>1, <2>2, <2>3, <2>4, <2>6 DEF LatestTurn
  <2>7. CASE i < n
    <3>1. Rank(e) < Rank(f) \/ e.turn = f.turn
      BY <1>0, <2>1, <2>2, <2>3, <2>7 DEF StreamOrder, Late
    <3>2. e.turn <= f.turn
      BY <2>4, <2>5, <3>1
    <3> QED
      BY <2>1, <2>2, <2>3, <3>2 DEF LatestTurn
  <2> QED
    BY <2>1, <2>6, <2>7
<1> QED
  BY <1>1, <1>2

LEMMA RecallInit == Init => RecallInv
<1> SUFFICES ASSUME Init PROVE RecallInv
  OBVIOUS
<1>1. /\ \A p \in Procs : pc[p] = "idle"
      /\ \A st \in Streams : DOMAIN stream[st] = {}
      /\ \A k \in Checkpoint : journal[k] = "none" /\ <<k.home, k.session>> \in Streams
  BY DEF Init, Checkpoint, Streams
<1> QED
  BY <1>1 DEF RecallInv, Founded, AtTurn, HasPrompt, TurnRecorded, Recorded, Live

LEMMA RecallNext ==
    HooksOnly /\ TypeInv /\ TypeInv' /\ Inv /\ Inv' /\ HistoryInv /\ RecallInv /\ [Next]_vars
        => RecallInv'
<1> SUFFICES ASSUME HooksOnly, TypeInv, TypeInv', Inv, Inv', HistoryInv, RecallInv, [Next]_vars
             PROVE  RecallInv'
  OBVIOUS
<1>1. CASE UNCHANGED vars
  BY <1>1 DEF vars, RecallInv, Founded, AtTurn, HasPrompt, CheckpointRecorded, TurnRecorded,
              Recorded, Live
<1>2. ASSUME NEW p \in Procs, CallAny(p) \/ Step(p) \/ Fault(p) PROVE RecallInv'
  BY <1>2, RecallInvStep
<1> QED
  BY <1>1, <1>2 DEF Next

LEMMA RecallInvAlways ==
    ASSUME HooksOnly
    PROVE  Spec => []RecallInv
<1>1. Spec => [](TypeInv /\ Inv /\ HistoryInv)
  BY HistoryAlways
<1>2. Init => RecallInv
  BY RecallInit
<1>3. TypeInv /\ TypeInv' /\ Inv /\ Inv' /\ HistoryInv /\ RecallInv /\ [Next]_vars => RecallInv'
  BY RecallNext
<1> QED
  BY <1>1, <1>2, <1>3, PTL DEF Spec

\* When only hooks write, and in one worktree, `turnal recall` answers for every turn of
\* a session whose log can be read, at any moment and whatever was killed, torn or failed
\* before: none of its checks of a turn's events refuses one, unless a prompt came after
\* the end of the turn.  And `latest` is the session's last turn.
THEOREM RecallAlwaysAnswers ==
    ASSUME HooksOnly
    PROVE  Spec => []RecallAnswers
<1>1. TypeInv /\ Inv /\ HistoryInv /\ RecallInv => RecallAnswers
  BY RecallHolds DEF HooksOnly
<1> QED
  BY <1>1, HistoryAlways, RecallInvAlways, PTL

----------------------------------------------------------------------------
(* The readers agree                                                       *)

LEMMA OneStream ==
    ASSUME OneWorktree, NEW s \in Sessions, NEW st, st = <<HomeOf[s], s>>
    PROVE  /\ st \in Streams /\ st[1] = HomeOf[s] /\ st[2] = s /\ HomeOf[s] = Primary
           /\ StreamsOf(s) = {st}
           /\ \A c \in Checkpoint : c.session = s => <<c.home, c.session>> = st
<1>1. HomeOf[s] = Primary
  BY TurnAssumption DEF OneWorktree
<1> QED
  BY <1>1, TurnAssumption DEF Streams, StreamsOf, OneWorktree, Checkpoint

\* When all is settled, doctor found no torn stream, and refs and events say the same.
LEMMA SettledRefs ==
    ASSUME TypeInv, Inv, EventInv, OneWorktree, Settled
    PROVE  /\ \A s \in Sessions : Legible(s)
           /\ \A c \in Checkpoint : c \in refs <=> CheckpointRecorded(c)
<1>1. EventProblems = {} /\ refs \cap abandoned = {} /\ \A k \in Checkpoint : journal[k] = "none"
  <2>1. Inspect.streams = NoProblems.streams
    BY DEF Settled
  <2> QED
    BY <2>1 DEF Settled, Inspect, NoProblems
<1>2. \A st \in Streams : ~torn[st]
  BY <1>1 DEF EventProblems
<1>3. ASSUME NEW c \in Checkpoint, c \in refs PROVE CheckpointRecorded(c)
  BY <1>1, <1>3 DEF Inv, RecordedOrJournaled, CheckpointRecorded
<1>4. ASSUME NEW c \in Checkpoint, CheckpointRecorded(c) PROVE c \in refs
  <2>1. PICK st \in Streams : st = <<c.home, c.session>>
    BY DEF Checkpoint, Streams
  <2>2. PICK i \in DOMAIN stream[st] : stream[st][i].turn = c.turn /\ stream[st][i].phase = c.phase
    BY <1>4, <2>1 DEF CheckpointRecorded, Recorded
  <2>3. Key(st[1], st[2], c.turn, c.phase) \in refs
    BY <2>2, InStream
  <2> QED
    BY <2>1, <2>3 DEF Key, Checkpoint
<1> QED
  BY <1>2, <1>3, <1>4 DEF Legible, StreamsOf

LEMMA SettledTurn ==
    ASSUME TypeInv, Inv, EventInv, OneWorktree, Settled, NEW s \in Sessions,
           NEW st, st = <<HomeOf[s], s>>, NEW t \in Turns
    PROVE  /\ \A phase \in Phases : phase \in PhasesOf(st, t) <=> HasPart(st, t, phase)
           /\ EventsOf(st, t) # {} <=> \E r \in refs : r.session = s /\ r.turn = t
<1>1. /\ st \in Streams /\ st[1] = HomeOf[s] /\ st[2] = s /\ refs \subseteq Checkpoint
      /\ \A c \in Checkpoint : c.session = s => <<c.home, c.session>> = st
  BY OneStream DEF TypeInv, TypeOK
<1>2. ASSUME NEW c \in Checkpoint, c.session = s, c.turn = t
      PROVE  c \in refs <=> HasPart(st, t, c.phase)
  <2>1. c \in refs <=> CheckpointRecorded(c)
    BY SettledRefs
  <2>2. c.phase \in {"pre", "post"}
    BY DEF Checkpoint, Phases
  <2> QED
    BY <1>1, <1>2, <2>1, <2>2, PartsOfCheckpoints
<1>3. ASSUME NEW phase \in Phases PROVE phase \in PhasesOf(st, t) <=> HasPart(st, t, phase)
  <2>1. PICK c \in Checkpoint : c = Key(st[1], st[2], t, phase)
    BY <1>1 DEF Key, Checkpoint, Streams
  <2>2. c.home = st[1] /\ c.session = s /\ c.turn = t /\ c.phase = phase
    BY <1>1, <2>1 DEF Key
  <2>3. phase \in PhasesOf(st, t) <=> c \in refs
    <3>1. c \in refs => phase \in PhasesOf(st, t)
      BY <1>1, <2>2 DEF PhasesOf
    <3>2. ASSUME phase \in PhasesOf(st, t) PROVE c \in refs
      <4>1. PICK r \in refs : r.home = st[1] /\ r.session = st[2] /\ r.turn = t /\ r.phase = phase
        BY <3>2 DEF PhasesOf
      <4>2. r = c
        BY <1>1, <2>2, <4>1 DEF Checkpoint
      <4> QED
        BY <4>2
    <3> QED
      BY <3>1, <3>2
  <2> QED
    BY <1>2, <2>2, <2>3
<1>4. ASSUME NEW i \in EventsOf(st, t) PROVE \E r \in refs : r.session = s /\ r.turn = t
  <2>1. /\ Key(st[1], st[2], stream[st][i].turn, stream[st][i].phase) \in refs 
        /\ stream[st][i].turn = t
    BY <1>1, InStream DEF EventsOf
  <2> QED
    BY <1>1, <2>1 DEF Key
<1>5. ASSUME NEW r \in refs, r.session = s, r.turn = t PROVE EventsOf(st, t) # {}
  BY <1>1, <1>2, <1>5 DEF HasPart
<1> QED
  BY <1>3, <1>4, <1>5

EventTurns(st) == {t \in Turns : EventsOf(st, t) # {}}

\* All list the turns that have a ref.
LEMMA SameTurns ==
    ASSUME TypeInv, Inv, EventInv, OneWorktree, Settled, NEW s \in Sessions,
           NEW st, st = <<HomeOf[s], s>>
    PROVE  /\ EventTurns(st) = {r.turn : r \in {c \in refs : c.session = s}}
           /\ EventTurns(st) = SessionTurns(s) /\ EventTurns(st) = RecordTurns(st)
           /\ EventTurns(st) = TurnsOf(GraphTurns(s, {HomeOf[s]}))
           /\ EventTurns(st) = TurnsOf(IndexedTurns(s, HomeOf[s]))
           /\ GraphTurns(s, {HomeOf[s]}) = {GraphTurn(st, t) : t \in EventTurns(st)}
           /\ TranscriptTurns(s, {HomeOf[s]}) = GraphTurns(s, {HomeOf[s]})
<1>1. /\ st \in Streams /\ st[1] = HomeOf[s] /\ st[2] = s /\ StreamsOf(s) = {st}
      /\ refs \subseteq Checkpoint /\ HomeOf[s] = Primary
      /\ \A c \in Checkpoint : c.session = s => <<c.home, c.session>> = st
  BY OneStream DEF TypeInv, TypeOK
<1> DEFINE mine == {c \in refs : c.session = s}
           turns == EventTurns(st)
<1>2. \A r \in mine : r.turn \in Turns /\ <<r.home, s>> = st /\ r.home = HomeOf[s]
  BY <1>1 DEF Checkpoint
<1>3. turns = {r.turn : r \in mine}
  <2>1. \A t \in Turns : EventsOf(st, t) # {} <=> \E r \in mine : r.turn = t
    BY SettledTurn
  <2> QED
    BY <1>2, <2>1 DEF EventTurns
<1>4. turns = SessionTurns(s)
  <2>1. {t \in Turns : \E x \in StreamsOf(s) : EventsOf(x, t) # {}} = turns
    BY <1>1 DEF EventTurns
  <2> QED
    BY <1>3, <2>1 DEF SessionTurns
<1>5. turns = RecordTurns(st)
  <2>1. {c \in refs : <<c.home, c.session>> = st} = mine
    BY <1>1 DEF Checkpoint
  <2> QED
    BY <1>3, <2>1 DEF RecordTurns, EventTurns
<1>6. ASSUME NEW worktrees, HomeOf[s] \in worktrees
      PROVE  GraphTurns(s, worktrees) = {GraphTurn(st, t) : t \in turns}
  <2>1. {c \in refs : c.session = s /\ InScope(c, worktrees)} = mine
    BY <1>2, <1>6 DEF InScope
  <2>2. GraphTurns(s, worktrees) = {GraphTurn(<<r.home, s>>, r.turn) : r \in mine}
    BY <2>1 DEF GraphTurns
  <2>3. {GraphTurn(<<r.home, s>>, r.turn) : r \in mine} = {GraphTurn(st, r.turn) : r \in mine}
    <3>1. \A r \in mine : <<r.home, s>> = st
      BY <1>2
    <3>2. \A r \in mine : GraphTurn(<<r.home, s>>, r.turn) = GraphTurn(st, r.turn)
      BY <3>1
    <3> QED
      BY <3>2
  <2> QED
    BY <1>3, <2>2, <2>3
<1>7. \A t : GraphTurn(st, t).turn = t /\ GraphTurn(st, t).of = st
  BY DEF GraphTurn
<1>8. turns = TurnsOf(GraphTurns(s, {HomeOf[s]}))
  BY <1>6, <1>7 DEF TurnsOf
<1>9. turns = TurnsOf(IndexedTurns(s, HomeOf[s]))
  <2>1. HomeOf[s] \in Worktrees
    BY TurnAssumption
  <2>2. IndexedTurns(s, HomeOf[s]) = {GraphTurn(st, t) : t \in turns}
    BY <1>1, <1>6, <1>7, <2>1 DEF IndexedTurns
  <2> QED
    BY <1>7, <2>2 DEF TurnsOf
<1>10. TranscriptTurns(s, {HomeOf[s]}) = GraphTurns(s, {HomeOf[s]})
  <2>1. {x \in StreamsOf(s) : x[1] \in {HomeOf[s]}} = {st}
    BY <1>1
  <2> DEFINE added == {{GraphTurn(x, t) : t \in {n \in Turns : EventsOf(x, n) # {}}} :
                           x \in {y \in StreamsOf(s) : y[1] \in {HomeOf[s]}}}
  <2>2. added = {{GraphTurn(st, t) : t \in turns}}
    BY <2>1 DEF EventTurns
  <2>3. UNION added = {GraphTurn(st, t) : t \in turns}
    BY <2>2
  <2>4. UNION added = GraphTurns(s, {HomeOf[s]})
    BY <1>6, <2>3
  <2> QED
    BY <2>4 DEF TranscriptTurns
<1> QED
  BY <1>3, <1>4, <1>5, <1>6, <1>8, <1>9, <1>10

\* And all find the same turns finished.
LEMMA SameStatus ==
    ASSUME TypeInv, Inv, EventInv, StreamOrder, Founded, OneWorktree, Settled,
           NEW s \in Sessions, NEW st, st = <<HomeOf[s], s>>,
           NEW t \in Turns, EventsOf(st, t) # {}
    PROVE  /\ ViewerTurn(st, t) = Complete <=> PhasesOf(st, t) = Phases
           /\ SessionTurnStatus(s, t) = "complete" <=> PhasesOf(st, t) = Phases
           /\ ViewerTurnStatus(st, t) = "complete" <=> PhasesOf(st, t) = Phases
           /\ GraphTurn(st, t).status = "complete" <=> PhasesOf(st, t) = Phases
           /\ DiffTurn(HomeOf[s], s, t) <=> PhasesOf(st, t) = Phases
<1>0. Phases # {"pre"} /\ Phases # {"post"}
  BY DEF Phases
<1>1. /\ st \in Streams /\ st[1] = HomeOf[s] /\ st[2] = s /\ StreamsOf(s) = {st}
      /\ refs \subseteq Checkpoint /\ HomeOf[s] = Primary
      /\ \A c \in Checkpoint : c.session = s => <<c.home, c.session>> = st
  BY OneStream DEF TypeInv, TypeOK
<1>2. PhasesOf(st, t) \subseteq Phases
  BY <1>1 DEF PhasesOf, Checkpoint
<1>3. PhasesOf(st, t) = Phases <=> HasPart(st, t, "post")
  <2>1. \A phase \in Phases : phase \in PhasesOf(st, t) <=> HasPart(st, t, phase)
    BY SettledTurn
  <2>2. HasPart(st, t, "post") => HasPart(st, t, "pre")
    BY <1>1, PartsNeeded
  <2> QED
    BY <1>2, <2>1, <2>2 DEF Phases
<1>4. ViewerTurn(st, t) = Complete <=> HasPart(st, t, "post")
  <2> DEFINE parts == {PartOf(stream[st][i]) : i \in EventsOf(st, t)} \ {"prompt"}
  <2>1. Legible(s) /\ InTime(st, t)
    BY <1>1, SettledRefs DEF Settled
  <2>2. RecallTurn(s, t, {HomeOf[s]}) = parts
    BY <2>1, TurnRecalled
  <2>3. t \in RecordTurns(st)
    BY DEF RecordTurns
  <2>4. ViewerTurn(st, t) = parts
    BY <1>1, <2>2, <2>3 DEF ViewerTurn
  <2>5. \A i \in EventsOf(st, t) :
            PartOf(stream[st][i]) \in {"start", "pre", "prompt", "finish", "post"}
    BY <1>1, Parts DEF EventsOf
  <2>6. \A part \in Complete : part \in parts <=> HasPart(st, t, part)
    BY DEF HasPart, Complete
  <2>7. parts \subseteq Complete
    BY <2>5 DEF Complete
  <2>8. HasPart(st, t, "post") => \A part \in Complete : HasPart(st, t, part)
    BY <1>1, PartsNeeded DEF Complete
  <2> HIDE DEF parts
  <2>9. parts = Complete <=> HasPart(st, t, "post")
    BY <2>6, <2>7, <2>8 DEF Complete
  <2> QED
    BY <2>4, <2>9
<1>5. SessionTurnStatus(s, t) = "complete" <=> PhasesOf(st, t) = Phases
  <2>1. UNION {PhasesOf(x, t) : x \in StreamsOf(s)} = PhasesOf(st, t)
    BY <1>1
  <2> QED
    BY <1>0, <2>1 DEF SessionTurnStatus
<1>6. ViewerTurnStatus(st, t) = "complete" <=> PhasesOf(st, t) = Phases
  BY DEF ViewerTurnStatus
<1>7. GraphTurn(st, t).status = "complete" <=> PhasesOf(st, t) = Phases
  BY <1>0 DEF GraphTurn, StatusOf
<1>8. DiffTurn(HomeOf[s], s, t) <=> PhasesOf(st, t) = Phases
  <2> DEFINE found == {phase \in Phases :
                       \E r \in RefsOf(HomeOf[s], s) : r.turn = t /\ r.phase = phase}
  <2>1. RefsOf(HomeOf[s], s) = {r \in refs : r.session = s /\ r.home = HomeOf[s]}
    BY <1>1 DEF RefsOf, Checkpoint
  <2>2. found = PhasesOf(st, t)
    BY <1>1, <1>2, <2>1 DEF PhasesOf
  <2> QED
    BY <2>2 DEF DiffTurn
<1> QED
  BY <1>3, <1>4, <1>5, <1>6, <1>7, <1>8

LEMMA SameSessionStatus ==
    ASSUME NEW s \in Sessions, NEW st, NEW turns, turns = SessionTurns(s),
           turns = RecordTurns(st), turns # {},
           \A t \in turns : SessionTurnStatus(s, t) = "complete"
                                <=> ViewerTurnStatus(st, t) = "complete"
    PROVE  SessionStatus(s) = "complete" <=> ViewerSessionStatus(st) = "complete"
<1> DEFINE statuses == {SessionTurnStatus(s, t) : t \in SessionTurns(s)}
<1>1. ViewerSessionStatus(st) = "complete" <=> \A t \in turns : SessionTurnStatus(s, t) = "complete"
  BY DEF ViewerSessionStatus
<1>2. statuses = {"complete"} <=> \A t \in turns : SessionTurnStatus(s, t) = "complete"
  OBVIOUS
<1> HIDE DEF statuses
<1>3. SessionStatus(s) =
          IF "active" \in statuses THEN "active"
          ELSE IF statuses \in {{"complete"}, {"events-only"}}
          THEN CHOOSE status \in statuses : TRUE
          ELSE IF statuses # {} THEN "partial" ELSE "empty"
  BY DEF SessionStatus, statuses
<1>4. CASE statuses = {"complete"}
  <2>1. (CHOOSE status \in statuses : TRUE) = "complete"
    BY <1>4
  <2>2. "active" \notin statuses
    BY <1>4
  <2> QED
    BY <1>1, <1>2, <1>3, <1>4, <2>1, <2>2
<1>5. CASE statuses = {"events-only"}
  <2>1. (CHOOSE status \in statuses : TRUE) = "events-only"
    BY <1>5
  <2>2. "active" \notin statuses /\ statuses # {"complete"}
    BY <1>5
  <2>3. SessionStatus(s) = "events-only"
    BY <1>3, <1>5, <2>1, <2>2
  <2> QED
    BY <1>1, <1>2, <2>2, <2>3
<1>6. CASE statuses \notin {{"complete"}, {"events-only"}}
  <2>1. SessionStatus(s) \in {"active", "partial", "empty"}
    BY <1>3, <1>6
  <2> QED
    BY <1>1, <1>2, <1>6, <2>1
<1> QED
  BY <1>4, <1>5, <1>6

\* The last turn of all is that of the last event.
LEMMA SameLatest ==
    ASSUME TypeInv, Inv, EventInv, OneWorktree, Settled, NEW s \in Sessions,
           NEW st, st = <<HomeOf[s], s>>, EventTurns(st) # {},
           \A i \in DOMAIN stream[st] : stream[st][i].turn <= LatestTurn(st)
    PROVE  /\ \A r \in LatestCheckpoint(s) : r.turn = LatestTurn(st)
           /\ TurnsOf(LatestTurns(GraphTurns(s, {HomeOf[s]}), 1)) = {LatestTurn(st)}
<1> DEFINE turns == EventTurns(st)
           graph == GraphTurns(s, {HomeOf[s]})
<1>1. /\ turns = {r.turn : r \in {c \in refs : c.session = s}}
      /\ graph = {GraphTurn(st, t) : t \in turns}
  BY SameTurns
<1>2. LatestTurn(st) \in turns /\ \A t \in turns : t <= LatestTurn(st)
  <2>1. stream[st] \in Seq(Event)
    BY OneStream DEF TypeInv, TypeOK
  <2>2. PICK t \in Turns : EventsOf(st, t) # {}
    BY DEF EventTurns
  <2>3. stream[st] # <<>> /\ Len(stream[st]) \in DOMAIN stream[st]
    BY <2>1, <2>2 DEF EventsOf
  <2>4. LatestTurn(st) = stream[st][Len(stream[st])].turn
    BY <2>3 DEF LatestTurn
  <2>5. LatestTurn(st) \in Turns
    <3>1. stream[st][Len(stream[st])] \in Event
      BY <2>1, <2>3
    <3> QED
      BY <2>4, <3>1 DEF Event
  <2> QED
    BY <2>3, <2>4, <2>5 DEF EventsOf, EventTurns
<1>3. turns \subseteq Nat /\ IsFiniteSet(turns)
  <2>1. turns \subseteq 1 .. MaxTurns /\ MaxTurns \in Nat
    BY TurnAssumption DEF Turns, EventTurns
  <2>2. IsFiniteSet(1 .. MaxTurns)
    BY <2>1, FS_Interval
  <2> QED
    BY <2>1, <2>2, FS_Subset
<1>4. ASSUME NEW r \in LatestCheckpoint(s) PROVE r.turn = LatestTurn(st)
  <2>1. r \in refs /\ r.session = s /\ \A c \in refs : c.session = s => c.turn <= r.turn
    BY <1>4 DEF LatestCheckpoint
  <2>2. r.turn \in turns /\ \A t \in turns : t <= r.turn
    BY <1>1, <2>1
  <2> QED
    BY <1>2, <1>3, <2>2
<1>5. IsFiniteSet(graph)
  <2> DEFINE f == [t \in turns |-> GraphTurn(st, t)]
  <2>1. f \in Surjection(turns, graph)
    BY <1>1 DEF Surjection
  <2> QED
    BY <1>3, <2>1, FS_Surjection
<1>6. \A t : GraphTurn(st, t).turn = t
  BY DEF GraphTurn
<1> HIDE DEF turns, graph
<1>7. ASSUME NEW g \in graph
      PROVE  Cardinality({h \in graph : h.turn > g.turn}) < 1 <=> g.turn = LatestTurn(st)
  <2> DEFINE later == {h \in graph : h.turn > g.turn}
  <2>1. later = {} <=> g.turn = LatestTurn(st)
    <3>1. g.turn \in turns
      BY <1>1, <1>6
    <3>2. PICK n \in Nat : n = LatestTurn(st) /\ n \in turns
      BY <1>2, <1>3
    <3>3. PICK m \in Nat : m = g.turn /\ m <= n
      BY <1>2, <1>3, <3>1, <3>2
    <3>4. ASSUME m < n PROVE GraphTurn(st, n) \in later
      <4>1. GraphTurn(st, n) \in graph /\ GraphTurn(st, n).turn = n
        BY <1>1, <1>6, <3>2
      <4>2. n > m
        BY <3>4
      <4> QED
        BY <3>3, <4>1, <4>2
    <3>5. ASSUME NEW h \in later PROVE m < n
      <4>1. h.turn \in turns /\ h.turn > m
        BY <1>1, <1>6, <3>3
      <4>2. h.turn \in Nat /\ h.turn <= n
        BY <1>2, <1>3, <3>2, <4>1
      <4> QED
        BY <4>1, <4>2
    <3> HIDE DEF later
    <3> QED
      BY <3>2, <3>3, <3>4, <3>5
  <2>2. IsFiniteSet(later)
    BY <1>5, FS_Subset
  <2> HIDE DEF later
  <2>3. Cardinality(later) \in Nat /\ (Cardinality(later) = 0 <=> later = {})
    BY <2>2, FS_CardinalityType, FS_EmptySet
  <2>4. Cardinality(later) < 1 <=> g.turn = LatestTurn(st)
    BY <2>1, <2>3
  <2> QED
    BY <2>4 DEF later
<1>8. LatestTurns(graph, 1) = {g \in graph : g.turn = LatestTurn(st)}
  BY <1>7 DEF LatestTurns
<1>9. TurnsOf(LatestTurns(graph, 1)) = {LatestTurn(st)}
  <2>1. GraphTurn(st, LatestTurn(st)) \in LatestTurns(graph, 1)
    BY <1>1, <1>2, <1>6, <1>8
  <2> QED
    BY <1>6, <1>8, <2>1 DEF TurnsOf
<1> QED
  BY <1>4, <1>9 DEF graph

LEMMA ReadersHold ==
    OneWorktree /\ TypeInv /\ Inv /\ HistoryInv /\ RecallInv => ReadersAgree
<1> SUFFICES ASSUME OneWorktree, TypeInv, Inv, HistoryInv, RecallInv, Settled PROVE ReadersAgree
  BY DEF ReadersAgree
<1>0. EventInv /\ StreamOrder /\ Founded /\ RecallAnswers
  BY RecallHolds DEF HistoryInv, OrderInv, RecallInv
<1>1. \A s \in Sessions : Legible(s)
  BY <1>0, SettledRefs
<1>2. ASSUME NEW s \in Sessions, NEW st, st = <<HomeOf[s], s>>, NEW t \in EventTurns(st)
      PROVE  LET recalled == ViewerTurn(st, t) = Complete
             IN  /\ recalled = (SessionTurnStatus(s, t) = "complete")
                 /\ recalled = (ViewerTurnStatus(st, t) = "complete")
                 /\ recalled = (GraphTurn(st, t).status = "complete")
                 /\ recalled = DiffTurn(HomeOf[s], s, t)
  <2>1. t \in Turns /\ EventsOf(st, t) # {}
    BY DEF EventTurns
  <2>2. DiffTurn(HomeOf[s], s, t) \in BOOLEAN
    BY DEF DiffTurn
  <2> QED
    BY <1>0, <1>2, <2>1, <2>2, SameStatus
<1>3. ASSUME NEW s \in Sessions, NEW st, st = <<HomeOf[s], s>>, EventTurns(st) # {}
      PROVE  /\ (SessionStatus(s) = "complete") = (ViewerSessionStatus(st) = "complete")
             /\ \A r \in LatestCheckpoint(s) : r.turn = LatestTurn(st)
             /\ TurnsOf(LatestTurns(GraphTurns(s, {HomeOf[s]}), 1)) = {LatestTurn(st)}
  <2>1. EventTurns(st) = SessionTurns(s) /\ EventTurns(st) = RecordTurns(st)
    BY <1>0, <1>3, SameTurns
  <2>2. \A t \in EventTurns(st) :
            SessionTurnStatus(s, t) = "complete" <=> ViewerTurnStatus(st, t) = "complete"
    BY <1>2, <1>3
  <2>3. SessionStatus(s) = "complete" <=> ViewerSessionStatus(st) = "complete"
    BY <1>3, <2>1, <2>2, SameSessionStatus
  <2>4. \A i \in DOMAIN stream[st] : stream[st][i].turn <= LatestTurn(st)
    BY <1>0, <1>1, <1>3 DEF RecallAnswers
  <2> QED
    BY <1>0, <1>3, <2>3, <2>4, SameLatest
<1>4. ASSUME NEW s \in Sessions, NEW st, st = <<HomeOf[s], s>>
      PROVE  /\ EventTurns(st) = SessionTurns(s) /\ EventTurns(st) = RecordTurns(st)
             /\ EventTurns(st) = TurnsOf(GraphTurns(s, {HomeOf[s]}))
             /\ EventTurns(st) = TurnsOf(IndexedTurns(s, HomeOf[s]))
             /\ TranscriptTurns(s, {HomeOf[s]}) = GraphTurns(s, {HomeOf[s]})
  BY <1>0, <1>4, SameTurns
<1> QED
  BY <1>1, <1>2, <1>3, <1>4 DEF ReadersAgree, RebuildReads, ViewerReads, EventTurns

\* When only hooks write, and in one worktree, then whenever nothing runs, nothing is left
\* to recover and doctor finds nothing, `turnal recall`, `sessions`, `log`, `diff`, the
\* query index and the viewer list the same turns of a session, agree on which are
\* finished and name the same last turn.
THEOREM ReadersAlwaysAgree ==
    ASSUME HooksOnly
    PROVE  Spec => []ReadersAgree
<1>1. TypeInv /\ Inv /\ HistoryInv /\ RecallInv => ReadersAgree
  BY ReadersHold DEF HooksOnly
<1> QED
  BY <1>1, HistoryAlways, RecallInvAlways, PTL
=============================================================================
