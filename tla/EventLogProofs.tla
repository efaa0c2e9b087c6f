--------------------------- MODULE EventLogProofs ---------------------------
(* What holds of EventLog for every value of its constants. *)
EXTENDS EventLog, WellFoundedInduction, TLAPS

----------------------------------------------------------------------------
(* The operators the model is built from                                   *)

\* A non-empty set of positions has a last one.
LEMMA LastPosition ==
    ASSUME NEW n \in Nat, NEW S \in SUBSET (1 .. n), S # {}
    PROVE  \E i \in S : \A j \in S : j <= i
<1> DEFINE R == {ss \in Nat \X Nat : ss[1] < ss[2]}
           T == {n - i : i \in S}
<1>0. IsWellFoundedOn(R, Nat)
  BY NatLessThanWellFounded, Zenon DEF OpToRel, R
<1>1. T \subseteq Nat /\ T # {}
  <2>1. PICK i \in S : TRUE
    OBVIOUS
  <2>2. n - i \in T
    BY DEF T
  <2>3. \A j \in S : n - j \in Nat
    OBVIOUS
  <2> QED
    BY <2>2, <2>3, Zenon DEF T
<1>2. PICK x \in T : \A y \in T : ~(<<y, x>> \in R)
  BY <1>0, <1>1, WFMin
<1>3. \A y \in T : ~(y < x)
  BY <1>1, <1>2 DEF R
<1>4. PICK i \in S : x = n - i
  BY <1>2 DEF T
<1>5. \A j \in S : j <= i
  <2> TAKE j \in S
  <2>1. n - j \in T /\ ~(n - j < x)
    BY <1>3 DEF T
  <2> QED
    BY <2>1, <1>4
<1> QED
  BY <1>5

\* Scan returns the newest line with the source, and Nil when there is none.
LEMMA ScanFinds ==
    ASSUME NEW ls \in Seq(Event), NEW s
    PROVE  \/ /\ Scan(ls, s) = Nil
              /\ s = NoSource \/ \A i \in DOMAIN ls : ls[i].src # s
           \/ /\ s # NoSource
              /\ \E i \in DOMAIN ls : /\ Scan(ls, s) = ls[i] /\ ls[i].src = s
                                      /\ \A j \in DOMAIN ls : ls[j].src = s => j <= i
<1> DEFINE found == {i \in DOMAIN ls : ls[i].src = s}
<1>1. CASE s = NoSource \/ found = {}
  BY <1>1 DEF Scan, found
<1>2. CASE s # NoSource /\ found # {}
  <2>1. found \in SUBSET (1 .. Len(ls)) /\ Len(ls) \in Nat
    BY DEF found
  <2>2. \E i \in found : \A j \in found : j <= i
    BY <1>2, <2>1, LastPosition
  <2>3. (CHOOSE i \in found : \A j \in found : j <= i) \in found
    BY <2>2
  <2>4. \A j \in found : j <= (CHOOSE i \in found : \A j1 \in found : j1 <= i)
    BY <2>2
  <2> QED
    BY <1>2, <2>3, <2>4 DEF Scan, found
<1> QED
  BY <1>1, <1>2

LEMMA ScanType ==
    ASSUME NEW ls \in Seq(Event), NEW s
    PROVE  /\ Scan(ls, s) \in Event \union {Nil}
           /\ Scan(ls, s) # Nil => ls # <<>>
  BY ScanFinds, NilAssumption

\* The tail state computed for an event is one.
LEMMA TailForType ==
    ASSUME NEW t \in TailState \union {Nil}, NEW e \in Event, NEW size \in Nat, NEW time \in Nat,
           nextGen \in Nat
    PROVE  TailFor(t, e, size, time) \in TailState
  BY NilAssumption DEF TailFor, Continues, TailState, Event

LEMMA FileTypes ==
    ASSUME TypeOK
    PROVE  /\ Size(lines, torn) \in Nat
           /\ LastLine \in Event \union {Nil}
           /\ lines # <<>> => LastLine \in Event
  BY DEF TypeOK, Size, LastLine

LEMMA WriteTailStateType ==
    ASSUME TypeOK, NEW e \in Event, WriteTailState(e)
    PROVE  tail' \in TailState /\ nextGen' \in Nat
<1>1. nextGen \in Nat /\ mtime \in Nat /\ tail \in TailState \union {Nil}
  BY DEF TypeOK
<1>2. TailFor(tail, e, Size(lines, torn), mtime) \in TailState
  BY <1>1, FileTypes, TailForType
<1> QED
  BY <1>1, <1>2 DEF WriteTailState

----------------------------------------------------------------------------
(* Type correctness                                                        *)

\* What a process holds at each point of its call.
Held(p) ==
    /\ pc[p] \in {"rebuild", "marker", "find", "cached", "recheck", "aggregate", "scan",
                  "refresh", "stat", "install", "mark"} => call[p].src \in Sources
    /\ pc[p] \in {"tail", "marker", "advance", "refresh", "stat", "install", "mark"}
         => work[p].event \in Event
    /\ pc[p] = "refresh" => lines # <<>>
    /\ pc[p] = "stat" => work[p].last \in Event
    /\ pc[p] = "install" => work[p].tail \in TailState

TypeInv == TypeOK /\ \A p \in Procs : Held(p)

LEMMA TypeInit == Init => TypeInv
<1> SUFFICES ASSUME Init PROVE TypeInv
  OBVIOUS
<1>1. marker \in [Sources -> SourceMarker \union {Nil}] /\ index \in IndexState
  BY DEF Init, IndexState
<1>2. work \in [Procs -> Work] /\ call \in [Procs -> Call]
  BY DEF Init, Work, NoWork, Call, NoCall
<1>3. TypeOK
  <2>1. lines \in Seq(Event) /\ torn \in BOOLEAN /\ tail \in TailState \union {Nil}
    <3>1. <<>> \in Seq(Event)
      OBVIOUS
    <3> QED
      BY <3>1 DEF Init
  <2>2. {mtime, clock, nextGen, writes, crashes, chops} \subseteq Nat
    BY DEF Init
  <2>3. /\ lock \in Procs \union {NoProc} /\ pc \in [Procs -> Labels]
        /\ window \in [Procs -> SUBSET (Event \union {Nil})]
    BY DEF Init, Labels
  <2> QED
    BY <1>1, <1>2, <2>1, <2>2, <2>3 DEF TypeOK
<1>4. \A p \in Procs : Held(p)
  BY DEF Init, Held
<1> QED
  BY <1>3, <1>4 DEF TypeInv

\* Only p moves, to one of these labels.
Moves(p, labels) ==
    /\ pc' \in [Procs -> Labels] /\ pc'[p] \in labels
    /\ work' \in [Procs -> Work]
    /\ lock' \in Procs \union {NoProc}
    /\ \A q \in Procs \ {p} : pc'[q] = pc[q] /\ work'[q] = work[q]

LEMMA HoldMoves ==
    ASSUME TypeOK, NEW p \in Procs, NEW label \in Labels, Goto(p, label),
           NEW last \in Event \union {Nil}, NEW event \in Event \union {Nil},
           NEW t \in TailState \union {Nil}, Hold(p, last, event, t),
           lock' \in Procs \union {NoProc}
    PROVE  /\ Moves(p, {label})
           /\ work'[p] = [last |-> last, event |-> event, tail |-> t]
  BY DEF TypeOK, Moves, Goto, Hold, Work

LEMMA GotoMoves ==
    ASSUME TypeOK, NEW p \in Procs, NEW label \in Labels, Goto(p, label), work' = work,
           lock' \in Procs \union {NoProc}
    PROVE  Moves(p, {label})
  BY DEF TypeOK, Moves, Goto

LEMMA ReturnMoves ==
    ASSUME TypeOK, NEW p \in Procs, NEW outcome \in {"hit", "miss", "failed"},
           NEW e \in Event \union {Nil}, Return(p, outcome, e)
    PROVE  Moves(p, {"hit", "miss", "failed"})
<1>1. lock' \in Procs \union {NoProc} /\ outcome \in Labels
  BY DEF TypeOK, Return, Unlocked, Labels
<1> QED
  BY <1>1, HoldMoves DEF Return, Moves

LEMMA AnsweredMoves ==
    ASSUME TypeOK, NEW p \in Procs, NEW e \in Event \union {Nil}, Answered(p, e)
    PROVE  Moves(p, {"hit", "miss", "last", "write"})
<1>1. CASE e # Nil
  <2>1. pc'[p] = "hit"
    BY <1>1 DEF Answered, Return, Goto, TypeOK
  <2> QED
    BY <1>1, <2>1, ReturnMoves DEF Answered, Moves
<1>2. CASE e = Nil /\ call[p].kind = "find"
  <2>1. pc'[p] = "miss"
    BY <1>2 DEF Answered, Return, Goto, TypeOK
  <2> QED
    BY <1>2, <2>1, ReturnMoves DEF Answered, Moves
<1>3. CASE e = Nil /\ call[p].kind # "find"
  <2>1. lock' \in Procs \union {NoProc}
    BY <1>3 DEF Answered, TypeOK
  <2>2. CASE call[p].kind = "build"
    <3>1. Goto(p, "write") /\ Hold(p, LastLine, Nil, Nil)
      BY <1>3, <2>2 DEF Answered
    <3>2. LastLine \in Event \union {Nil} /\ "write" \in Labels
      BY FileTypes DEF Labels
    <3>3. Moves(p, {"write"})
      BY <2>1, <3>1, <3>2, HoldMoves
    <3> QED
      BY <3>3 DEF Moves
  <2>3. CASE call[p].kind # "build"
    <3>1. Goto(p, "last") /\ Hold(p, Nil, Nil, Nil)
      BY <1>3, <2>3 DEF Answered
    <3>2. Moves(p, {"last"})
      BY <2>1, <3>1, HoldMoves DEF Labels
    <3> QED
      BY <3>2 DEF Moves
  <2> QED
    BY <2>2, <2>3
<1> QED
  BY <1>1, <1>2, <1>3

LEMMA ScanFileMoves ==
    ASSUME TypeOK, NEW p \in Procs, ScanFile(p)
    PROVE  Moves(p, {"hit", "miss", "failed", "last", "write"})
<1>1. CASE torn
  BY <1>1, ReturnMoves DEF ScanFile, Moves
<1>2. CASE ~torn
  <2>1. Scan(lines, call[p].src) \in Event \union {Nil}
    BY ScanType DEF TypeOK
  <2> QED
    BY <1>2, <2>1, AnsweredMoves DEF ScanFile, Moves
<1> QED
  BY <1>1, <1>2

\* A process that does not move keeps what it holds.
LEMMA HeldByOthers ==
    ASSUME TypeInv, NEW p, NEW labels, Moves(p, labels), NEW q \in Procs \ {p},
           call'[q] = call[q], lines # <<>> => lines' # <<>>
    PROVE  Held(q)'
  BY DEF TypeInv, Held, Moves

\* A step of p that does not change its call keeps the invariant when it keeps
\* the types of the files and p holds what its next label needs.
LEMMA StepType ==
    ASSUME TypeInv, NEW p \in Procs, NEW labels, Moves(p, labels), Held(p)',
           call' = call, window' \in [Procs -> SUBSET (Event \union {Nil})],
           lines' \in Seq(Event), lines # <<>> => lines' # <<>>, torn' \in BOOLEAN,
           {mtime', clock', nextGen', writes', crashes', chops'} \subseteq Nat,
           tail' \in TailState \union {Nil},
           marker' \in [Sources -> SourceMarker \union {Nil}],
           index' \in IndexState
    PROVE  TypeInv'
<1>1. TypeOK'
  BY DEF TypeInv, TypeOK, Moves
<1>2. \A q \in Procs \ {p} : Held(q)'
  BY HeldByOthers
<1> QED
  BY <1>1, <1>2 DEF TypeInv

LEMMA LockTypes ==
    ASSUME TypeInv, NEW p \in Procs, Acquire(p) \/ Busy(p) \/ Recover(p)
    PROVE  TypeInv'
<1> USE DEF fileVars, derivedVars, boundVars
<1>1. CASE Acquire(p)
  <2>1. PICK label \in {"lookup", "recover"} : Goto(p, label)
    BY <1>1 DEF Acquire
  <2>2. Moves(p, {label})
    BY <1>1, <2>1, GotoMoves DEF Acquire, TypeInv, Labels
  <2>3. Held(p)'
    BY <2>1, <2>2 DEF Held, Moves
  <2> QED
    BY <1>1, <2>2, <2>3, StepType DEF Acquire, TypeInv, TypeOK
<1>2. CASE Busy(p)
  <2>1. Moves(p, {"hit", "miss", "failed"})
    BY <1>2, ReturnMoves DEF Busy, TypeInv
  <2>2. Held(p)'
    BY <2>1 DEF Held, Moves
  <2> QED
    BY <1>2, <2>1, <2>2, StepType DEF Busy, TypeInv, TypeOK
<1>3. CASE Recover(p)
  <2>1. Moves(p, {"lookup"})
    BY <1>3, GotoMoves DEF Recover, TypeInv, TypeOK, Labels
  <2>2. Held(p)'
    BY <2>1 DEF Held, Moves
  <2> QED
    BY <1>3, <2>1, <2>2, StepType DEF Recover, TypeInv, TypeOK
<1> QED
  BY <1>1, <1>2, <1>3

LEMMA LookupType ==
    ASSUME TypeInv, NEW p \in Procs, Lookup(p)
    PROVE  TypeInv'
<1> DEFINE s == call[p].src
           opened == index.exists \/ (s # NoSource /\ Len(lines) >= IndexThreshold)
           indexed == opened /\ s # NoSource /\ call[p].kind # "build"
           answers == indexed /\ IndexCovers /\ ~RowRefused(index.rows, s, tail)
           rebuilds == indexed /\ ~IndexCovers /\ ~torn
<1> USE DEF fileVars, derivedVars, boundVars
<1>1. index' = [index EXCEPT !.exists = opened]
  BY DEF Lookup
<1>2. index' \in IndexState
  BY <1>1, ConstantsAssumption DEF TypeInv, TypeOK, IndexState
<1>3. CASE answers /\ Answered(p, index.rows[s]) /\ UNCHANGED <<tail, nextGen>>
  <2>1. index.rows[s] \in Event \union {Nil}
    BY <1>3 DEF TypeInv, TypeOK, IndexState, Call
  <2>2. Moves(p, {"hit", "miss", "last", "write"})
    BY <1>3, <2>1, AnsweredMoves DEF TypeInv
  <2>3. Held(p)'
    BY <2>2 DEF Held, Moves
  <2> QED
    BY <1>2, <1>3, <2>2, <2>3, StepType DEF Lookup, TypeInv, TypeOK
<1>4. CASE /\ rebuilds
           /\ IF lines = <<>> THEN UNCHANGED <<tail, nextGen>> ELSE WriteTailState(LastLine)
           /\ Goto(p, "rebuild")
           /\ UNCHANGED <<work, lock>>
  <2>1. tail' \in TailState \union {Nil} /\ nextGen' \in Nat
    BY <1>4, FileTypes, WriteTailStateType DEF TypeInv, TypeOK
  <2>2. Moves(p, {"rebuild"})
    BY <1>4, GotoMoves DEF TypeInv, TypeOK, Labels
  <2>3. Held(p)'
    BY <1>4, <2>2 DEF Held, Moves, Lookup, TypeInv, TypeOK, Call
  <2> QED
    BY <1>2, <2>1, <2>2, <2>3, StepType DEF Lookup, TypeInv, TypeOK
<1>5. CASE ~answers /\ ~rebuilds /\ ScanFile(p) /\ UNCHANGED <<tail, nextGen>>
  <2>1. Moves(p, {"hit", "miss", "failed", "last", "write"})
    BY <1>5, ScanFileMoves DEF TypeInv
  <2>2. Held(p)'
    BY <2>1 DEF Held, Moves
  <2> QED
    BY <1>2, <1>5, <2>1, <2>2, StepType DEF Lookup, TypeInv, TypeOK
<1> QED
  BY <1>3, <1>4, <1>5 DEF Lookup

LEMMA RebuildType ==
    ASSUME TypeInv, NEW p \in Procs, Rebuild(p)
    PROVE  TypeInv'
<1> DEFINE s == call[p].src
           current == IF lines = <<>> THEN ZeroTail ELSE tail
           rows == [r \in Sources |-> Scan(lines, r)]
<1> USE DEF fileVars, derivedVars, boundVars
<1>1. s \in Sources /\ rows \in [Sources -> Event \union {Nil}]
  BY ScanType DEF Rebuild, TypeInv, TypeOK, Held
<1>2. CASE lines # <<>> /\ ~TailCurrent(tail)
  <2>1. Moves(p, {"hit", "miss", "failed", "last", "write"})
    BY <1>2, ScanFileMoves DEF Rebuild, TypeInv
  <2>2. Held(p)'
    BY <2>1 DEF Held, Moves
  <2> QED
    BY <1>2, <2>1, <2>2, StepType DEF Rebuild, TypeInv, TypeOK
<1>3. CASE ~(lines # <<>> /\ ~TailCurrent(tail))
  <2>1. current \in TailState \union {Nil}
    BY DEF TypeInv, TypeOK, ZeroTail, TailState, Genesis
  <2>2. index' = [index EXCEPT !.rows = rows, !.covered = current]
    BY <1>3 DEF Rebuild
  <2>3. index' \in IndexState
    BY <1>1, <2>1, <2>2 DEF TypeInv, TypeOK, IndexState
  <2>4. CASE ScanFile(p)
    <3>1. Moves(p, {"hit", "miss", "failed", "last", "write"})
      BY <2>4, ScanFileMoves DEF TypeInv
    <3>2. Held(p)'
      BY <3>1 DEF Held, Moves
    <3> QED
      BY <2>3, <3>1, <3>2, StepType DEF Rebuild, TypeInv, TypeOK
  <2>5. CASE Answered(p, rows[s])
    <3>1. Moves(p, {"hit", "miss", "last", "write"})
      BY <1>1, <2>5, AnsweredMoves DEF TypeInv
    <3>2. Held(p)'
      BY <3>1 DEF Held, Moves
    <3> QED
      BY <2>3, <3>1, <3>2, StepType DEF Rebuild, TypeInv, TypeOK
  <2> QED
    BY <1>3, <2>4, <2>5 DEF Rebuild
<1> QED
  BY <1>2, <1>3

LEMMA WriterTypes ==
    ASSUME TypeInv, NEW p \in Procs, ReadLast(p) \/ WriteLine(p) \/ TearLine(p)
    PROVE  TypeInv'
<1> USE DEF fileVars, derivedVars, boundVars
<1>1. CASE ReadLast(p)
  <2>1. Moves(p, {"write"})
    BY <1>1, HoldMoves, FileTypes DEF ReadLast, TypeInv, TypeOK, Labels
  <2>2. tail' \in TailState \union {Nil} /\ nextGen' \in Nat
    BY <1>1, FileTypes, WriteTailStateType DEF ReadLast, TypeInv, TypeOK
  <2>3. Held(p)'
    BY <2>1 DEF Held, Moves
  <2> QED
    BY <1>1, <2>1, <2>2, <2>3, StepType DEF ReadLast, TypeInv, TypeOK
<1>2. CASE WriteLine(p)
  <2> DEFINE e == NextEvent(p, work[p].last)
  <2>1. e \in Event
    BY NilAssumption DEF NextEvent, TypeInv, TypeOK, Call, Work, Event, Genesis
  <2>2. lines' \in Seq(Event) /\ lines' # <<>>
    BY <1>2, <2>1 DEF WriteLine, TypeInv, TypeOK
  <2>3. window' \in [Procs -> SUBSET (Event \union {Nil})]
    <3>1. \A q \in Procs : Scan(lines', call[q].src) \in Event \union {Nil}
      BY <2>2, ScanType
    <3> QED
      BY <1>2, <3>1 DEF WriteLine, Observe, TypeInv, TypeOK
  <2>4. Moves(p, {"tail"}) /\ work'[p].event = e
    <3>1. /\ Goto(p, "tail") /\ Hold(p, work[p].last, e, Nil) /\ lock' = lock
          /\ work[p].last \in Event \union {Nil} /\ "tail" \in Labels
          /\ TypeOK /\ lock \in Procs \union {NoProc}
      BY <1>2 DEF WriteLine, TypeInv, TypeOK, Work, Labels
    <3>2. work'[p].event = e
      BY <3>1 DEF Hold, TypeOK
    <3> HIDE DEF e
    <3>3. Moves(p, {"tail"})
      BY <2>1, <3>1, HoldMoves
    <3> QED
      BY <3>2, <3>3
  <2>5. Held(p)'
    BY <2>1, <2>4 DEF Held, Moves
  <2>6. /\ call' = call /\ torn' \in BOOLEAN
        /\ {mtime', clock', nextGen', writes', crashes', chops'} \subseteq Nat
    BY <1>2 DEF WriteLine, TypeInv, TypeOK
  <2>7. /\ tail' \in TailState \union {Nil} /\ marker' \in [Sources -> SourceMarker \union {Nil}]
        /\ index' \in IndexState
    BY <1>2 DEF WriteLine, TypeInv, TypeOK
  <2> QED
    BY <2>2, <2>3, <2>4, <2>5, <2>6, <2>7, StepType
<1>3. CASE TearLine(p)
  <2>1. Moves(p, {"hit", "miss", "failed"})
    BY <1>3, ReturnMoves DEF TearLine, TypeInv
  <2>2. Held(p)'
    BY <2>1 DEF Held, Moves
  <2> QED
    BY <1>3, <2>1, <2>2, StepType DEF TearLine, TypeInv, TypeOK
<1> QED
  BY <1>1, <1>2, <1>3

LEMMA DerivedTypes ==
    ASSUME TypeInv, NEW p \in Procs, WriteTail(p) \/ WriteMarker(p) \/ Advance(p)
    PROVE  TypeInv'
<1> USE DEF fileVars, derivedVars, boundVars
<1>1. CASE WriteTail(p)
  <2>1. PICK label \in {"advance", "marker"} :
            Goto(p, label) /\ (label = "marker" => call[p].src # NoSource)
    BY <1>1 DEF WriteTail
  <2>2. Moves(p, {label})
    BY <1>1, <2>1, GotoMoves DEF WriteTail, TypeInv, TypeOK, Labels
  <2>3. Held(p)'
    BY <1>1, <2>1, <2>2 DEF Held, Moves, WriteTail, TypeInv, TypeOK, Call
  <2>4. tail' \in TailState \union {Nil} /\ nextGen' \in Nat
    BY <1>1, WriteTailStateType DEF WriteTail, TypeInv, Held
  <2> QED
    BY <1>1, <2>2, <2>3, <2>4, StepType DEF WriteTail, TypeInv, TypeOK
<1>2. CASE WriteMarker(p)
  <2>1. call[p].src \in Sources /\ work[p].event \in Event
    BY <1>2 DEF WriteMarker, TypeInv, Held
  <2>2. CASE TailCurrent(tail)
    <3>1. tail \in TailState
      BY <2>2 DEF TailCurrent, TypeInv, TypeOK
    <3>2. [gen |-> tail.gen, event |-> work[p].event] \in SourceMarker
      BY <2>1, <3>1 DEF SourceMarker, TailState
    <3>3. marker' \in [Sources -> SourceMarker \union {Nil}]
      BY <1>2, <2>1, <2>2, <3>2 DEF WriteMarker, TypeInv, TypeOK
    <3>4. Moves(p, {"advance"})
      BY <1>2, <2>2, GotoMoves DEF WriteMarker, TypeInv, TypeOK, Labels
    <3>5. Held(p)'
      BY <1>2, <2>1, <2>2, <3>4 DEF Held, Moves, WriteMarker
    <3> QED
      BY <1>2, <3>3, <3>4, <3>5, StepType DEF WriteMarker, TypeInv, TypeOK
  <2>3. CASE ~TailCurrent(tail)
    <3>1. Moves(p, {"hit", "miss", "failed"})
      BY <1>2, <2>3, ReturnMoves DEF WriteMarker, TypeInv
    <3>2. Held(p)'
      BY <3>1 DEF Held, Moves
    <3> QED
      BY <1>2, <2>3, <3>1, <3>2, StepType DEF WriteMarker, TypeInv, TypeOK
  <2> QED
    BY <2>2, <2>3
<1>3. CASE Advance(p)
  <2> DEFINE e == work[p].event
  <2>1. e \in Event
    BY <1>3 DEF Advance, TypeInv, Held
  <2>2. index' \in IndexState
    <3>1. CASE index' = index
      BY <3>1 DEF TypeInv, TypeOK
    <3>2. CASE /\ TailCurrent(tail)
               /\ index' = [index EXCEPT !.covered = tail,
                              !.rows = IF e.src = NoSource THEN @ ELSE [@ EXCEPT ![e.src] = e]]
      <4>1. tail \in TailState /\ index.rows \in [Sources -> Event \union {Nil}]
        BY <3>2 DEF TailCurrent, TypeInv, TypeOK, IndexState
      <4>2. [index.rows EXCEPT ![e.src] = e] \in [Sources -> Event \union {Nil}]
        BY <2>1, <4>1
      <4> QED
        BY <3>2, <4>1, <4>2 DEF IndexState, TypeInv, TypeOK
    <3> QED
      BY <1>3, <3>1, <3>2 DEF Advance, Advanced
  <2>3. Moves(p, {"hit", "miss", "failed"})
    BY <1>3, <2>1, ReturnMoves DEF Advance, TypeInv
  <2>4. Held(p)'
    BY <2>3 DEF Held, Moves
  <2> QED
    BY <1>3, <2>2, <2>3, <2>4, StepType DEF Advance, TypeInv, TypeOK
<1> QED
  BY <1>1, <1>2, <1>3

LEMMA FindTypes ==
    ASSUME TypeInv, NEW p \in Procs, Find(p) \/ Cached(p) \/ Recheck(p)
    PROVE  TypeInv'
<1> USE DEF fileVars, derivedVars, boundVars
<1>1. CASE Find(p)
  <2>1. Moves(p, {"hit", "miss", "failed", "last", "write", "cached", "lock"})
    <3>1. CASE ScanFile(p)
      BY <3>1, ScanFileMoves DEF TypeInv, Moves
    <3>2. CASE Goto(p, "cached") /\ Hold(p, Nil, Nil, tail) /\ UNCHANGED lock
      <4>1. /\ TypeOK /\ lock' \in Procs \union {NoProc} /\ "cached" \in Labels
            /\ tail \in TailState \union {Nil}
        BY <3>2 DEF TypeInv, TypeOK, Labels
      <4>2. Moves(p, {"cached"})
        BY <3>2, <4>1, HoldMoves
      <4> QED
        BY <4>2 DEF Moves
    <3>3. CASE Goto(p, "lock") /\ UNCHANGED <<work, lock>>
      BY <3>3, GotoMoves DEF TypeInv, TypeOK, Moves, Labels
    <3> QED
      BY <1>1, <3>1, <3>2, <3>3 DEF Find
  <2>2. Held(p)'
    BY <1>1, <2>1 DEF Held, Moves, Find, TypeInv
  <2> QED
    BY <1>1, <2>1, <2>2, StepType DEF Find, TypeInv, TypeOK
<1>2. CASE Cached(p)
  <2> DEFINE row == index.rows[call[p].src]
  <2>1. row \in Event \union {Nil} /\ work[p].tail \in TailState \union {Nil}
    BY <1>2 DEF Cached, TypeInv, TypeOK, IndexState, Held, Work
  <2>2. Moves(p, {"lock", "recheck"})
    <3>1. CASE Goto(p, "lock") /\ Hold(p, Nil, Nil, Nil)
      <4>1. TypeOK /\ lock' \in Procs \union {NoProc} /\ "lock" \in Labels
        BY <1>2 DEF Cached, TypeInv, TypeOK, Labels
      <4>2. Moves(p, {"lock"})
        BY <3>1, <4>1, HoldMoves
      <4> QED
        BY <4>2 DEF Moves
    <3>2. CASE Goto(p, "recheck") /\ Hold(p, Nil, row, work[p].tail)
      <4>1. TypeOK /\ lock' \in Procs \union {NoProc} /\ "recheck" \in Labels
        BY <1>2 DEF Cached, TypeInv, TypeOK, Labels
      <4> HIDE DEF row
      <4>2. Moves(p, {"recheck"})
        BY <2>1, <3>2, <4>1, HoldMoves
      <4> QED
        BY <4>2 DEF Moves
    <3> QED
      BY <1>2, <3>1, <3>2 DEF Cached
  <2>3. Held(p)'
    BY <1>2, <2>2 DEF Held, Moves, Cached, TypeInv
  <2> QED
    BY <1>2, <2>2, <2>3, StepType DEF Cached, TypeInv, TypeOK
<1>3. CASE Recheck(p)
  <2>1. work[p].event \in Event \union {Nil}
    BY DEF TypeInv, TypeOK, Work
  <2>2. Moves(p, {"hit", "miss", "failed", "lock"})
    <3>1. CASE TailCurrent(tail) /\ tail = work[p].tail
      BY <1>3, <2>1, <3>1, ReturnMoves DEF Recheck, TypeInv, Moves
    <3>2. CASE Goto(p, "lock") /\ Hold(p, Nil, Nil, Nil) /\ UNCHANGED lock
      <4>1. TypeOK /\ lock' \in Procs \union {NoProc} /\ "lock" \in Labels
        BY <3>2 DEF TypeInv, TypeOK, Labels
      <4>2. Moves(p, {"lock"})
        BY <3>2, <4>1, HoldMoves
      <4> QED
        BY <4>2 DEF Moves
    <3> QED
      BY <1>3, <3>1, <3>2 DEF Recheck
  <2>3. Held(p)'
    BY <2>2 DEF Held, Moves
  <2> QED
    BY <1>3, <2>2, <2>3, StepType DEF Recheck, TypeInv, TypeOK
<1> QED
  BY <1>1, <1>2, <1>3

LEMMA AggregateTypes ==
    ASSUME TypeInv, NEW p \in Procs, Aggregate(p) \/ AggregateScan(p)
    PROVE  TypeInv'
<1> DEFINE s == call[p].src
<1> USE DEF fileVars, derivedVars, boundVars
<1>1. CASE Aggregate(p)
  <2>1. s \in Sources
    BY <1>1 DEF Aggregate, TypeInv, Held
  <2>2. CASE MarkerTrusted(s)
    <3>1. marker[s].event \in Event
      BY <2>1, <2>2 DEF MarkerTrusted, SourceMarker, TypeInv, TypeOK
    <3>2. Moves(p, {"hit", "miss", "failed"})
      BY <1>1, <2>2, <3>1, ReturnMoves DEF Aggregate, TypeInv
    <3>3. Held(p)'
      BY <3>2 DEF Held, Moves
    <3> QED
      BY <1>1, <2>2, <3>2, <3>3, StepType DEF Aggregate, TypeInv, TypeOK
  <2>3. CASE ~MarkerTrusted(s)
    <3>1. marker' \in [Sources -> SourceMarker \union {Nil}]
      BY <1>1, <2>3 DEF Aggregate, TypeInv, TypeOK
    <3>2. Moves(p, {"scan"})
      BY <1>1, <2>3, GotoMoves DEF Aggregate, TypeInv, TypeOK, Labels
    <3>3. Held(p)'
      BY <1>1, <2>1, <3>2 DEF Held, Moves, Aggregate
    <3> QED
      BY <1>1, <3>1, <3>2, <3>3, StepType DEF Aggregate, TypeInv, TypeOK
  <2> QED
    BY <2>2, <2>3
<1>2. CASE AggregateScan(p)
  <2> DEFINE e == Scan(lines, s)
  <2>1. s \in Sources /\ TypeOK /\ lock \in Procs \union {NoProc} /\ "refresh" \in Labels
    BY <1>2 DEF AggregateScan, TypeInv, TypeOK, Held, Labels
  <2>2. CASE torn \/ e = Nil
    <3>1. Moves(p, {"hit", "miss", "failed"})
      BY <1>2, <2>2, ReturnMoves DEF AggregateScan, TypeInv
    <3>2. Held(p)'
      BY <3>1 DEF Held, Moves
    <3> QED
      BY <1>2, <3>1, <3>2, StepType DEF AggregateScan, TypeInv, TypeOK
  <2>3. CASE ~torn /\ e # Nil
    <3>1. e \in Event /\ lines # <<>>
      BY <2>1, <2>3, ScanType DEF TypeOK
    <3>2. Goto(p, "refresh") /\ Hold(p, Nil, e, Nil) /\ lock' = lock
      BY <1>2, <2>3 DEF AggregateScan
    <3>3. work'[p].event = e
      BY <2>1, <3>2 DEF Hold, TypeOK
    <3> HIDE DEF e
    <3>5. Moves(p, {"refresh"})
      BY <2>1, <3>1, <3>2, HoldMoves
    <3>4. Held(p)'
      BY <1>2, <2>1, <3>1, <3>3, <3>5 DEF Held, Moves, AggregateScan, fileVars
    <3> QED
      BY <1>2, <3>4, <3>5, StepType DEF AggregateScan, TypeInv, TypeOK
  <2> QED
    BY <2>2, <2>3
<1> QED
  BY <1>1, <1>2

LEMMA RefreshTypes ==
    ASSUME TypeInv, NEW p \in Procs, Refresh(p) \/ Stat(p) \/ Install(p) \/ Mark(p)
    PROVE  TypeInv'
<1> USE DEF fileVars, derivedVars, boundVars
<1>0. TypeOK /\ lock \in Procs \union {NoProc} /\ {"stat", "install", "mark"} \subseteq Labels
  BY DEF TypeInv, TypeOK, Labels
<1>1. CASE Refresh(p)
  <2>1. /\ call[p].src \in Sources /\ work[p].event \in Event /\ LastLine \in Event
    BY <1>1, FileTypes DEF Refresh, TypeInv, Held
  <2>2. CASE torn
    <3>1. Moves(p, {"hit", "miss", "failed"})
      BY <1>0, <1>1, <2>2, ReturnMoves DEF Refresh
    <3>2. Held(p)'
      BY <3>1 DEF Held, Moves
    <3> QED
      BY <1>1, <3>1, <3>2, StepType DEF Refresh, TypeInv, TypeOK
  <2>3. CASE ~torn
    <3>1. Goto(p, "stat") /\ Hold(p, LastLine, work[p].event, Nil) /\ lock' = lock
      BY <1>1, <2>3 DEF Refresh
    <3>2. /\ Moves(p, {"stat"})
          /\ work'[p] = [last |-> LastLine, event |-> work[p].event, tail |-> Nil]
      BY <1>0, <2>1, <3>1, HoldMoves
    <3>3. Held(p)'
      BY <1>1, <2>1, <3>2 DEF Held, Moves, Refresh
    <3> QED
      BY <1>1, <3>2, <3>3, StepType DEF Refresh, TypeInv, TypeOK
  <2> QED
    BY <2>2, <2>3
<1>2. CASE Stat(p)
  <2> DEFINE t == TailFor(tail, work[p].last, Size(lines, torn), mtime)
  <2>1. /\ call[p].src \in Sources /\ work[p].event \in Event /\ work[p].last \in Event
        /\ nextGen \in Nat /\ mtime \in Nat /\ tail \in TailState \union {Nil}
    BY <1>2 DEF Stat, TypeInv, TypeOK, Held
  <2>2. t \in TailState
    BY <1>0, <2>1, FileTypes, TailForType
  <2>3. Goto(p, "install") /\ Hold(p, Nil, work[p].event, t) /\ lock' = lock
    BY <1>2 DEF Stat
  <2> HIDE DEF t
  <2>4. Moves(p, {"install"}) /\ work'[p] = [last |-> Nil, event |-> work[p].event, tail |-> t]
    BY <1>0, <2>1, <2>2, <2>3, HoldMoves
  <2>5. Held(p)'
    BY <1>2, <2>1, <2>2, <2>4 DEF Held, Moves, Stat
  <2> QED
    BY <1>2, <2>1, <2>4, <2>5, StepType DEF Stat, TypeInv, TypeOK
<1>3. CASE Install(p)
  <2>1. tail' \in TailState
    BY <1>3 DEF Install, TypeInv, Held
  <2>2. Moves(p, {"mark"})
    BY <1>0, <1>3, GotoMoves DEF Install
  <2>3. Held(p)'
    BY <1>3, <2>2 DEF Held, Moves, Install, TypeInv
  <2> QED
    BY <1>3, <2>1, <2>2, <2>3, StepType DEF Install, TypeInv, TypeOK
<1>4. CASE Mark(p)
  <2>1. call[p].src \in Sources /\ work[p].event \in Event
    BY <1>4 DEF Mark, TypeInv, Held
  <2>2. Moves(p, {"hit", "miss", "failed"})
    BY <1>0, <1>4, <2>1, ReturnMoves DEF Mark
  <2>3. Held(p)'
    BY <2>2 DEF Held, Moves
  <2>4. marker' \in [Sources -> SourceMarker \union {Nil}]
    <3>1. CASE TailCurrent(tail)
      <4>1. tail \in TailState
        BY <3>1 DEF TailCurrent, TypeInv, TypeOK
      <4>2. [gen |-> tail.gen, event |-> work[p].event] \in SourceMarker
        BY <2>1, <4>1 DEF SourceMarker, TailState
      <4> QED
        BY <1>4, <2>1, <3>1, <4>2 DEF Mark, TypeInv, TypeOK
    <3>2. CASE ~TailCurrent(tail)
      BY <1>4, <3>2 DEF Mark, TypeInv, TypeOK
    <3> QED
      BY <3>1, <3>2
  <2> QED
    BY <1>4, <2>2, <2>3, <2>4, StepType DEF Mark, TypeInv, TypeOK
<1> QED
  BY <1>1, <1>2, <1>3, <1>4

LEMMA CallTypes ==
    ASSUME TypeInv, NEW p \in Procs, StartAny(p) \/ Finish(p) \/ Crash(p)
    PROVE  TypeInv'
<1> USE DEF fileVars, derivedVars, boundVars
<1>1. CASE StartAny(p)
  <2>1. PICK kind \in Calls, s \in Sources \union {NoSource} : Start(p, kind, s)
    BY <1>1 DEF StartAny
  <2>2. PICK label \in {"find", "aggregate", "lock"} :
            Goto(p, label) /\ (label # "lock" => s # NoSource)
    BY <2>1 DEF Start
  <2>3. Moves(p, {label})
    BY <2>1, <2>2, GotoMoves DEF Start, TypeInv, TypeOK, Labels
  <2>4. /\ call' \in [Procs -> Call] /\ call'[p].src = s
        /\ \A q \in Procs \ {p} : call'[q] = call[q]
    BY <2>1, ConstantsAssumption DEF Start, TypeInv, TypeOK, Call
  <2>5. window' \in [Procs -> SUBSET (Event \union {Nil})]
    BY <2>1, ScanType DEF Start, TypeInv, TypeOK
  <2>6. TypeOK'
    BY <2>1, <2>3, <2>4, <2>5 DEF Start, TypeInv, TypeOK, Moves
  <2>7. Held(p)'
    BY <2>2, <2>3, <2>4 DEF Held, Moves
  <2>8. \A q \in Procs \ {p} : Held(q)'
    BY <2>1, <2>3, <2>4, HeldByOthers DEF Start
  <2> QED
    BY <2>6, <2>7, <2>8 DEF TypeInv
<1>2. CASE Finish(p) \/ Crash(p)
  <2>1. Moves(p, {"idle"})
    <3>1. /\ Goto(p, "idle") /\ Hold(p, Nil, Nil, Nil) /\ lock' \in Procs \union {NoProc}
          /\ TypeOK /\ "idle" \in Labels
      BY <1>2 DEF Finish, Crash, Unlocked, TypeInv, TypeOK, Labels
    <3> QED
      BY <3>1, HoldMoves
  <2>2. call' \in [Procs -> Call] /\ \A q \in Procs \ {p} : call'[q] = call[q]
    <3>1. call \in [Procs -> Call] /\ call' = [call EXCEPT ![p] = NoCall]
      BY <1>2 DEF Finish, Crash, TypeInv, TypeOK
    <3>2. NoCall \in Call
      BY DEF Call, NoCall
    <3> QED
      BY <3>1, <3>2
  <2>3. TypeOK'
    BY <1>2, <2>1, <2>2 DEF Finish, Crash, TypeInv, TypeOK, Moves
  <2>4. Held(p)'
    BY <2>1 DEF Held, Moves
  <2>5. \A q \in Procs \ {p} : Held(q)'
    BY <1>2, <2>1, <2>2, HeldByOthers DEF Finish, Crash
  <2> QED
    BY <2>3, <2>4, <2>5 DEF TypeInv
<1> QED
  BY <1>1, <1>2

LEMMA EnvironmentTypes ==
    ASSUME TypeInv, Chop \/ Tick \/ UNCHANGED vars
    PROVE  TypeInv'
<1> USE DEF fileVars, derivedVars, boundVars
<1>1. CASE Chop
  <2>1. lines' \in Seq(Event)
    BY <1>1 DEF Chop, TypeInv, TypeOK
  <2>2. TypeOK'
    <3>1. {mtime, clock, nextGen, writes, crashes, chops}' \subseteq Nat /\ torn' \in BOOLEAN
      <4>1. /\ mtime' = clock /\ chops' = chops + 1 /\ torn' = FALSE
            /\ UNCHANGED <<clock, nextGen, writes, crashes>>
        BY <1>1 DEF Chop
      <4>2. /\ mtime \in Nat /\ clock \in Nat /\ nextGen \in Nat
            /\ writes \in Nat /\ crashes \in Nat /\ chops \in Nat
        BY DEF TypeInv, TypeOK
      <4>3. torn' \in BOOLEAN
        BY <4>1, Zenon
      <4>4. mtime' \in Nat /\ chops' \in Nat
        BY <4>1, <4>2
      <4> QED
        BY <4>1, <4>2, <4>3, <4>4, Zenon
    <3> QED
      BY <1>1, <2>1, <3>1 DEF Chop, TypeInv, TypeOK
  <2>3. \A p \in Procs : Held(p)'
    BY <1>1 DEF Chop, Held
  <2> QED
    BY <2>2, <2>3 DEF TypeInv
<1>2. CASE Tick
  <2>1. TypeOK'
    BY <1>2 DEF Tick, TypeInv, TypeOK
  <2> QED
    BY <1>2, <2>1 DEF Tick, TypeInv, Held
<1>3. CASE UNCHANGED vars
  BY <1>3 DEF vars, TypeInv, TypeOK, Held
<1> QED
  BY <1>1, <1>2, <1>3

LEMMA TypeNext == TypeInv /\ [Next]_vars => TypeInv'
  BY LockTypes, LookupType, RebuildType, WriterTypes, DerivedTypes, FindTypes, AggregateTypes,
     RefreshTypes, CallTypes, EnvironmentTypes DEF Next, Step, Environment

\* Whatever the processes, sources and bounds are, every variable has its type:
\* no step reads a row, a marker or a held event that is not there.
THEOREM TypeCorrect == Spec => []TypeOK
<1>1. Spec => []TypeInv
  BY TypeInit, TypeNext, PTL DEF Spec
<1>2. TypeInv => TypeOK
  BY DEF TypeInv
<1> QED
  BY <1>1, <1>2, PTL

----------------------------------------------------------------------------
(* The chain                                                               *)

\* Where Append and the locked lookup work under the stream lock.
Critical == {"recover", "lookup", "rebuild", "last", "write", "tail", "marker", "advance"}

\* A process in the critical part holds the lock; what it will write follows the
\* last line of the file.
WriterInv(p) ==
    /\ pc[p] \in Critical => lock = p
    /\ pc[p] = "find" => call[p].kind = "find"
    /\ pc[p] = "write" => work[p].last = LastLine

ChainInv == TypeOK /\ Chain /\ \A p \in Procs : WriterInv(p)

\* Other processes stay where they are and the lock is not taken from them.
Alone(p) ==
    /\ \A q \in Procs \ {p} : pc'[q] = pc[q] /\ work'[q] = work[q] /\ call'[q] = call[q]
    /\ lock' = lock \/ lock \in {p, NoProc}

\* p leaves the critical part, or goes on inside it.
Resolves(p) ==
    \/ pc'[p] \in {"hit", "miss", "failed"}
    \/ /\ call[p].kind # "find" /\ lock' = lock /\ pc'[p] \in {"last", "write"}
       /\ pc'[p] = "write" => work'[p].last = LastLine

LEMMA ReturnAlone ==
    ASSUME TypeOK, NEW p \in Procs, NEW outcome \in {"hit", "miss", "failed"}, NEW e,
           Return(p, outcome, e), call' = call
    PROVE  Alone(p) /\ Resolves(p)
  BY DEF TypeOK, Return, Unlocked, Goto, Hold, Alone, Resolves

LEMMA AnsweredAlone ==
    ASSUME TypeOK, NEW p \in Procs, NEW e, Answered(p, e), call' = call
    PROVE  Alone(p) /\ Resolves(p)
<1>1. CASE e # Nil \/ call[p].kind = "find"
  BY <1>1, ReturnAlone DEF Answered
<1>2. CASE e = Nil /\ call[p].kind # "find"
  BY <1>2 DEF TypeOK, Answered, Goto, Hold, Alone, Resolves
<1> QED
  BY <1>1, <1>2

LEMMA ScanFileAlone ==
    ASSUME TypeOK, NEW p \in Procs, ScanFile(p), call' = call
    PROVE  Alone(p) /\ Resolves(p)
  BY AnsweredAlone, ReturnAlone DEF ScanFile

\* A step that leaves the lines alone keeps the invariant when p keeps its part.
LEMMA QuietStep ==
    ASSUME ChainInv, TypeOK', NEW p \in Procs, Alone(p), lines' = lines, WriterInv(p)'
    PROVE  ChainInv'
<1>1. \A q \in Procs \ {p} : WriterInv(q)'
  BY ConstantsAssumption DEF ChainInv, WriterInv, Alone, LastLine, Critical
<1>2. Chain'
  BY DEF ChainInv, Chain
<1> QED
  BY <1>1, <1>2 DEF ChainInv

LEMMA ChainInit == Init => ChainInv
<1> SUFFICES ASSUME Init PROVE ChainInv
  OBVIOUS
<1>1. TypeOK
  BY TypeInit DEF TypeInv
<1>2. Chain
  BY DEF Init, Chain
<1>3. \A p \in Procs : WriterInv(p)
  BY DEF Init, WriterInv, Critical
<1> QED
  BY <1>1, <1>2, <1>3 DEF ChainInv

LEMMA ChainCalls ==
    ASSUME ChainInv, TypeOK', NEW p \in Procs,
           StartAny(p) \/ Finish(p) \/ Crash(p) \/ Acquire(p) \/ Busy(p)
    PROVE  ChainInv'
<1> USE DEF fileVars, derivedVars, boundVars
<1>1. CASE StartAny(p)
  <2>1. PICK kind \in Calls, s \in Sources \union {NoSource} : Start(p, kind, s)
    BY <1>1 DEF StartAny
  <2>2. PICK label \in {"find", "aggregate", "lock"} :
            Goto(p, label) /\ (label = "find" => kind = "find")
    BY <2>1 DEF Start
  <2>3. /\ Alone(p) /\ lines' = lines /\ pc'[p] = label /\ call'[p].kind = kind
    BY <2>1, <2>2 DEF Start, Goto, Alone, ChainInv, TypeOK
  <2>4. WriterInv(p)'
    BY <2>2, <2>3 DEF WriterInv, Critical
  <2> QED
    BY <2>3, <2>4, QuietStep
<1>2. CASE Finish(p) \/ Crash(p)
  <2>1. Alone(p) /\ lines' = lines /\ pc'[p] = "idle"
    BY <1>2 DEF Finish, Crash, Unlocked, Goto, Hold, Alone, ChainInv, TypeOK
  <2>2. WriterInv(p)'
    BY <2>1 DEF WriterInv, Critical
  <2> QED
    BY <2>1, <2>2, QuietStep
<1>3. CASE Acquire(p)
  <2>1. /\ Alone(p) /\ lines' = lines /\ lock' = p
        /\ pc'[p] \in {"lookup", "recover"}
    BY <1>3 DEF Acquire, Goto, Alone, ChainInv, TypeOK
  <2>2. WriterInv(p)'
    BY <2>1 DEF WriterInv, Critical
  <2> QED
    BY <2>1, <2>2, QuietStep
<1>4. CASE Busy(p)
  <2>1. Alone(p) /\ Resolves(p) /\ lines' = lines /\ pc'[p] = "failed"
    BY <1>4, ReturnAlone DEF Busy, Return, Goto, ChainInv, TypeOK
  <2>2. WriterInv(p)'
    BY <2>1 DEF WriterInv, Critical
  <2> QED
    BY <2>1, <2>2, QuietStep
<1> QED
  BY <1>1, <1>2, <1>3, <1>4

\* The lookups, with the lock and without it.
LEMMA ChainLookups ==
    ASSUME ChainInv, TypeOK', NEW p \in Procs,
           Recover(p) \/ Lookup(p) \/ Rebuild(p) \/ Find(p) \/ Cached(p) \/ Recheck(p)
    PROVE  ChainInv'
<1> USE DEF fileVars, derivedVars, boundVars
<1>0. TypeOK /\ call' = call /\ lines' = lines
  BY DEF ChainInv, Recover, Lookup, Rebuild, Find, Cached, Recheck
<1>1. CASE Recover(p)
  <2>1. Alone(p) /\ lock' = p /\ pc'[p] = "lookup"
    BY <1>0, <1>1 DEF Recover, Goto, Alone, ChainInv, WriterInv, Critical, TypeOK
  <2> QED
    BY <1>0, <2>1, QuietStep DEF WriterInv, Critical
<1>2. CASE Lookup(p)
  <2>1. lock = p
    BY <1>2 DEF Lookup, ChainInv, WriterInv, Critical
  <2>2. \/ Alone(p) /\ Resolves(p)
        \/ Alone(p) /\ lock' = lock /\ pc'[p] = "rebuild"
    <3>1. CASE \E e : Answered(p, e)
      BY <1>0, <3>1, AnsweredAlone
    <3>2. CASE ScanFile(p)
      BY <1>0, <3>2, ScanFileAlone
    <3>3. CASE Goto(p, "rebuild") /\ UNCHANGED <<work, lock>>
      BY <1>0, <3>3 DEF Goto, Alone, TypeOK
    <3> QED
      BY <1>2, <3>1, <3>2, <3>3 DEF Lookup
  <2>3. WriterInv(p)'
    BY <1>0, <2>1, <2>2 DEF WriterInv, Resolves, Critical, LastLine
  <2> QED
    BY <1>0, <2>2, <2>3, QuietStep
<1>3. CASE Rebuild(p)
  <2>1. lock = p
    BY <1>3 DEF Rebuild, ChainInv, WriterInv, Critical
  <2>2. Alone(p) /\ Resolves(p)
    <3>1. CASE \E e : Answered(p, e)
      BY <1>0, <3>1, AnsweredAlone
    <3>2. CASE ScanFile(p)
      BY <1>0, <3>2, ScanFileAlone
    <3> QED
      BY <1>3, <3>1, <3>2 DEF Rebuild
  <2>3. WriterInv(p)'
    BY <1>0, <2>1, <2>2 DEF WriterInv, Resolves, Critical, LastLine
  <2> QED
    BY <1>0, <2>2, <2>3, QuietStep
<1>4. CASE Find(p)
  <2>1. call[p].kind = "find"
    BY <1>4 DEF Find, ChainInv, WriterInv
  <2>2. Alone(p) /\ pc'[p] \in {"hit", "miss", "failed", "cached", "lock"}
    <3>1. CASE ScanFile(p)
      BY <1>0, <2>1, <3>1, ScanFileAlone DEF Resolves
    <3>2. CASE Goto(p, "cached") /\ Hold(p, Nil, Nil, tail) /\ UNCHANGED lock
      BY <1>0, <3>2 DEF Goto, Hold, Alone, TypeOK
    <3>3. CASE Goto(p, "lock") /\ UNCHANGED <<work, lock>>
      BY <1>0, <3>3 DEF Goto, Alone, TypeOK
    <3> QED
      BY <1>4, <3>1, <3>2, <3>3 DEF Find
  <2>3. WriterInv(p)'
    BY <2>2 DEF WriterInv, Critical
  <2> QED
    BY <1>0, <2>2, <2>3, QuietStep
<1>5. CASE Cached(p)
  <2>1. Alone(p) /\ pc'[p] \in {"lock", "recheck"}
    BY <1>0, <1>5 DEF Cached, Goto, Hold, Alone, TypeOK
  <2>2. WriterInv(p)'
    BY <2>1 DEF WriterInv, Critical
  <2> QED
    BY <1>0, <2>1, <2>2, QuietStep
<1>6. CASE Recheck(p)
  <2>1. Alone(p) /\ pc'[p] \in {"hit", "miss", "lock"}
    BY <1>0, <1>6 DEF Recheck, Return, Unlocked, Goto, Hold, Alone, TypeOK
  <2>2. WriterInv(p)'
    BY <2>1 DEF WriterInv, Critical
  <2> QED
    BY <1>0, <2>1, <2>2, QuietStep
<1> QED
  BY <1>1, <1>2, <1>3, <1>4, <1>5, <1>6

LEMMA ChainAggregates ==
    ASSUME ChainInv, TypeOK', NEW p \in Procs,
           \/ Aggregate(p) \/ AggregateScan(p) \/ Refresh(p)
           \/ Stat(p) \/ Install(p) \/ Mark(p)
    PROVE  ChainInv'
<1> USE DEF fileVars, derivedVars, boundVars
<1>1. TypeOK /\ call' = call /\ lines' = lines
  BY DEF ChainInv, Aggregate, AggregateScan, Refresh, Stat, Install, Mark
<1>2. Alone(p) /\ pc'[p] \in {"hit", "miss", "failed", "scan", "refresh", "stat", "install", "mark"}
  BY <1>1 DEF Aggregate, AggregateScan, Refresh, Stat, Install, Mark,
              Return, Unlocked, Goto, Hold, Alone, TypeOK
<1>3. WriterInv(p)'
  BY <1>2 DEF WriterInv, Critical
<1> QED
  BY <1>1, <1>2, <1>3, QuietStep

LEMMA ChainWriters ==
    ASSUME ChainInv, TypeOK', NEW p \in Procs,
           \/ ReadLast(p) \/ TearLine(p) \/ WriteTail(p) \/ WriteMarker(p) \/ Advance(p)
    PROVE  ChainInv'
<1> USE DEF fileVars, derivedVars, boundVars
<1>1. TypeOK /\ call' = call /\ lines' = lines /\ lock = p
  BY DEF ChainInv, WriterInv, Critical, ReadLast, TearLine, WriteTail, WriteMarker, Advance
<1>2. CASE ReadLast(p)
  <2>1. Alone(p) /\ lock' = lock /\ pc'[p] = "write" /\ work'[p].last = LastLine
    BY <1>1, <1>2 DEF ReadLast, Goto, Hold, Alone, TypeOK
  <2>2. WriterInv(p)'
    BY <1>1, <2>1 DEF WriterInv, LastLine
  <2> QED
    BY <1>1, <2>1, <2>2, QuietStep
<1>3. CASE TearLine(p) \/ Advance(p)
  <2>1. Alone(p) /\ pc'[p] \in {"hit", "failed"}
    BY <1>1, <1>3 DEF TearLine, Advance, Return, Unlocked, Goto, Hold, Alone, TypeOK
  <2>2. WriterInv(p)'
    BY <2>1 DEF WriterInv, Critical
  <2> QED
    BY <1>1, <2>1, <2>2, QuietStep
<1>4. CASE WriteTail(p) \/ WriteMarker(p)
  <2>1. Alone(p) /\ (pc'[p] = "failed" \/ (lock' = lock /\ pc'[p] \in {"marker", "advance"}))
    BY <1>1, <1>4 DEF WriteTail, WriteMarker, Return, Unlocked, Goto, Hold, Alone, TypeOK
  <2>2. WriterInv(p)'
    BY <1>1, <2>1 DEF WriterInv, Critical
  <2> QED
    BY <1>1, <2>1, <2>2, QuietStep
<1> QED
  BY <1>2, <1>3, <1>4

\* The line written is the successor of the last one, and nobody else is writing.
LEMMA ChainWriteLine ==
    ASSUME ChainInv, TypeOK', NEW p \in Procs, WriteLine(p)
    PROVE  ChainInv'
<1> DEFINE e == NextEvent(p, work[p].last)
<1> USE DEF fileVars, derivedVars, boundVars
<1>1. /\ lock = p /\ lock' = lock /\ work[p].last = LastLine
      /\ lines' = Append(lines, e) /\ lines \in Seq(Event) /\ pc'[p] = "tail"
      /\ pc' = [pc EXCEPT ![p] = "tail"] /\ call' = call
  BY DEF WriteLine, Goto, ChainInv, WriterInv, Critical, TypeOK
<1>2. e.seq = Len(lines) + 1 /\ e.prev = IF lines = <<>> THEN Genesis ELSE LastLine.hash
  <2>1. CASE lines = <<>>
    BY <1>1, <2>1, NilAssumption DEF NextEvent, LastLine
  <2>2. CASE lines # <<>>
    <3>1. LastLine = lines[Len(lines)] /\ Len(lines) \in DOMAIN lines /\ LastLine \in Event
      BY <1>1, <2>2 DEF LastLine
    <3>2. LastLine.seq = Len(lines) /\ LastLine # Nil
      BY <3>1, NilAssumption DEF ChainInv, Chain
    <3> QED
      BY <1>1, <2>2, <3>2 DEF NextEvent
  <2> QED
    BY <2>1, <2>2
<1> HIDE DEF e
<1>3. Chain'
  <2> SUFFICES ASSUME NEW i \in DOMAIN lines'
               PROVE  /\ lines'[i].seq = i
                      /\ lines'[i].prev = IF i = 1 THEN Genesis ELSE lines'[i - 1].hash
    BY DEF Chain
  <2>1. CASE i \in DOMAIN lines
    BY <1>1, <2>1 DEF ChainInv, Chain
  <2>2. CASE i = Len(lines) + 1
    BY <1>1, <1>2, <2>2 DEF LastLine
  <2> QED
    BY <1>1, <2>1, <2>2
<1>4. \A q \in Procs : WriterInv(q)'
  <2>1. WriterInv(p)'
    BY <1>1 DEF WriterInv, Critical
  <2>2. \A q \in Procs \ {p} : pc'[q] = pc[q] /\ pc[q] \notin Critical
    BY <1>1 DEF ChainInv, WriterInv, TypeOK
  <2>3. \A q \in Procs \ {p} : WriterInv(q)'
    BY <1>1, <2>2 DEF ChainInv, WriterInv, Critical
  <2> QED
    BY <2>1, <2>3
<1> QED
  BY <1>3, <1>4 DEF ChainInv

LEMMA ChainEnvironment ==
    ASSUME ChainInv, TypeOK', Chop \/ Tick \/ UNCHANGED vars
    PROVE  ChainInv'
<1>1. CASE Chop
  <2>1. PICK n \in 0 .. Len(lines) - 1 : lines' = SubSeq(lines, 1, n)
    BY <1>1 DEF Chop
  <2>2. lines \in Seq(Event) /\ n \in Nat /\ n <= Len(lines)
    BY DEF ChainInv, TypeOK
  <2>3. DOMAIN lines' = 1 .. n /\ \A i \in 1 .. n : lines'[i] = lines[i] /\ i \in DOMAIN lines
    BY <2>1, <2>2
  <2>4. Chain'
    BY <2>2, <2>3 DEF ChainInv, Chain
  <2>5. \A p \in Procs : WriterInv(p)'
    BY <1>1 DEF Chop, WriterInv, Critical
  <2> QED
    BY <2>4, <2>5 DEF ChainInv
<1>2. CASE Tick \/ UNCHANGED vars
  BY <1>2 DEF Tick, vars, fileVars, ChainInv, Chain, WriterInv, LastLine
<1> QED
  BY <1>1, <1>2

LEMMA ChainNext == ChainInv /\ TypeOK' /\ [Next]_vars => ChainInv'
  BY ChainCalls, ChainLookups, ChainAggregates, ChainWriters, ChainWriteLine, ChainEnvironment
     DEF Next, Step, Environment

\* The lines of a stream always form one hash chain with gapless numbers, for any
\* number of processes, crashes, failed writes and replacements of the file:
\* Append reads only the last line, and the stream lock makes that enough.
THEOREM ChainHolds == Spec => []Chain
<1>1. Spec => []ChainInv
  BY ChainInit, ChainNext, TypeCorrect, PTL DEF Spec
<1>2. ChainInv => Chain
  BY DEF ChainInv
<1> QED
  BY <1>1, <1>2, PTL

----------------------------------------------------------------------------
(* One line per source, and the promise of the package                     *)

\* A tail state describes no line and no time that is still to come.
Old(t) == t # Nil => t.hash <= writes /\ t.mtime <= mtime

Ages ==
    /\ mtime <= clock
    /\ \A i \in DOMAIN lines : lines[i].hash <= writes
    /\ Old(tail) /\ Old(index.covered)

Listed(i) == lines[i].src # NoSource => index.rows[lines[i].src] # Nil

\* An index as old as the file lists every line within the size it covers.
CoversSize ==
    index.covered # Nil /\ index.covered.mtime = mtime
    => /\ index.covered.size <= 2 * Len(lines) + 1
       /\ \A i \in DOMAIN lines : 2 * i <= index.covered.size => Listed(i)

\* An index whose last line is a line of the file lists every line up to it.
CoversLine ==
    /\ index.covered # Nil /\ index.covered.seq <= Len(lines)
    /\ index.covered.seq > 0 => lines[index.covered.seq].hash = index.covered.hash
    => \A i \in DOMAIN lines : i <= index.covered.seq => Listed(i)

Absent(s) == s # NoSource => \A i \in DOMAIN lines : lines[i].src # s

InHand(p) ==
    /\ pc[p] = "install" => Old(work[p].tail)
    /\ pc[p] = "stat" => work[p].last.hash <= writes
    /\ pc[p] \in {"tail", "marker", "advance"} => lines # <<>> /\ work[p].event = LastLine
    /\ pc[p] \in {"last", "write"} => Absent(call[p].src)

UniqueInv ==
    /\ Ages /\ CoversSize /\ CoversLine /\ UniqueSources
    /\ \A p \in Procs : InHand(p)

LEMMA UniqueInit == Init => UniqueInv
<1> SUFFICES ASSUME Init PROVE UniqueInv
  OBVIOUS
<1>1. lines = <<>> /\ DOMAIN lines = {} /\ mtime = 0 /\ clock = 0 /\ tail = Nil /\ index.covered = Nil
  BY DEF Init
<1>2. Ages /\ CoversSize /\ CoversLine /\ UniqueSources
  BY <1>1 DEF Ages, Old, CoversSize, CoversLine, UniqueSources
<1>3. \A p \in Procs : InHand(p)
  BY DEF Init, InHand
<1> QED
  BY <1>2, <1>3 DEF UniqueInv

\* A step of p that adds no line and lists none keeps the invariant when it keeps
\* p's part: the file grows no younger.
LEMMA QuietUnique ==
    ASSUME UniqueInv, TypeInv, TypeInv', NEW p \in Procs, InHand(p)', Old(tail)',
           \A q \in Procs \ {p} : pc'[q] = pc[q] /\ work'[q] = work[q] /\ call'[q] = call[q],
           lines' = lines, writes' = writes, clock' = clock, mtime' \in {mtime, clock},
           index'.rows = index.rows, index'.covered = index.covered
    PROVE  UniqueInv'
<1>1. /\ mtime \in Nat /\ clock \in Nat /\ writes \in Nat /\ lines \in Seq(Event)
      /\ index.covered \in TailState \union {Nil}
  BY DEF TypeInv, TypeOK, IndexState
<1>2. mtime <= mtime' /\ mtime' <= clock'
  BY <1>1 DEF UniqueInv, Ages
<1>3. \A t \in TailState \union {Nil} : Old(t) => (t # Nil => t.hash <= writes' /\ t.mtime <= mtime')
  BY <1>1, <1>2 DEF Old, TailState
<1>4. Ages'
  BY <1>1, <1>2, <1>3 DEF UniqueInv, Ages, Old
<1>5. CoversSize' /\ CoversLine'
  <2>1. CoversLine'
    BY DEF UniqueInv, CoversLine, Listed
  <2>2. CASE mtime' = mtime
    BY <2>1, <2>2 DEF UniqueInv, CoversSize, Listed
  <2>3. CASE mtime < mtime'
    <3>1. index.covered # Nil => index.covered.mtime <= mtime /\ index.covered.mtime \in Nat
      BY <1>1 DEF UniqueInv, Ages, Old, TailState
    <3>2. index'.covered # Nil => index'.covered.mtime # mtime'
      BY <1>1, <1>2, <2>3, <3>1
    <3> QED
      BY <2>1, <3>2 DEF CoversSize
  <2> QED
    BY <1>1, <1>2, <2>2, <2>3
<1>6. UniqueSources'
  BY DEF UniqueInv, UniqueSources
<1>7. \A q \in Procs \ {p} : InHand(q)'
  <2> SUFFICES ASSUME NEW q \in Procs \ {p} PROVE InHand(q)'
    OBVIOUS
  <2>1. InHand(q) /\ (pc[q] = "install" => work[q].tail \in TailState)
    BY DEF UniqueInv, TypeInv, Held
  <2>2. pc'[q] = "install" => Old(work[q].tail)'
    BY <1>3, <2>1 DEF InHand, Old
  <2> QED
    BY <2>1, <2>2 DEF InHand, LastLine, Absent
<1> QED
  BY <1>4, <1>5, <1>6, <1>7 DEF UniqueInv

LEMMA LineTypes ==
    ASSUME TypeOK, NEW i \in DOMAIN lines
    PROVE  /\ lines[i] \in Event /\ lines[i] # Nil /\ lines[i].hash \in Nat
           /\ lines[i].src # NoSource => lines[i].src \in Sources
<1>1. lines[i] \in Event /\ lines[i] # Nil
  BY NilAssumption DEF TypeOK
<1> QED
  BY <1>1 DEF Event

\* What a call has found when it goes on to write: no line with its source.
LEMMA AnsweredAbsent ==
    ASSUME TypeOK, NEW p \in Procs, NEW e, Answered(p, e), call' = call
    PROVE  /\ pc'[p] \in {"hit", "miss", "last", "write"}
           /\ pc'[p] \in {"last", "write"} => e = Nil
  BY DEF Answered, Return, Goto, TypeOK

LEMMA ScanFileAbsent ==
    ASSUME TypeOK, NEW p \in Procs, ScanFile(p), call' = call, lines' = lines
    PROVE  InHand(p)'
<1>1. CASE torn
  BY <1>1 DEF ScanFile, Return, Goto, TypeOK, InHand
<1>2. CASE ~torn
  <2> DEFINE e == Scan(lines, call[p].src)
  <2>1. /\ pc'[p] \in {"hit", "miss", "last", "write"}
        /\ pc'[p] \in {"last", "write"} => e = Nil
    BY <1>2, AnsweredAbsent DEF ScanFile
  <2>2. e = Nil => Absent(call[p].src)
    BY ScanFinds, NilAssumption DEF Absent, TypeOK
  <2> HIDE DEF e
  <2> QED
    BY <2>1, <2>2 DEF InHand, Absent
<1> QED
  BY <1>1, <1>2

LEMMA OldTailFor ==
    ASSUME TypeOK, UniqueInv, NEW e \in Event, e.hash <= writes
    PROVE  Old(TailFor(tail, e, Size(lines, torn), mtime))
<1>1. mtime \in Nat
  BY DEF TypeOK
<1> QED
  BY <1>1 DEF Old, TailFor

LEMMA LastLineOld ==
    ASSUME TypeOK, UniqueInv, lines # <<>>
    PROVE  LastLine \in Event /\ LastLine.hash <= writes
  BY DEF TypeOK, UniqueInv, Ages, LastLine

\* Steps that change neither the file nor the tail state nor the index.
LEMMA UniqueCalls ==
    ASSUME UniqueInv, TypeInv, TypeInv', ChainInv, NEW p \in Procs,
           \/ StartAny(p) \/ Finish(p) \/ Crash(p) \/ Acquire(p) \/ Busy(p) \/ Recover(p)
           \/ Find(p) \/ Cached(p) \/ Recheck(p) \/ Aggregate(p) \/ AggregateScan(p)
    PROVE  UniqueInv'
<1> USE DEF fileVars, derivedVars, boundVars
<1>1. /\ lines' = lines /\ writes' = writes /\ clock' = clock /\ tail' = tail /\ index' = index
      /\ mtime' \in {mtime, clock}
  BY DEF StartAny, Start, Finish, Crash, Acquire, Busy, Recover, Find, Cached, Recheck,
         Aggregate, AggregateScan
<1>2. \A q \in Procs \ {p} : pc'[q] = pc[q] /\ work'[q] = work[q] /\ call'[q] = call[q]
  BY DEF StartAny, Start, Finish, Crash, Acquire, Busy, Recover, Find, Cached, Recheck,
         Aggregate, AggregateScan, Goto, Hold, Return, ScanFile, Answered, TypeInv, TypeOK
<1>3. InHand(p)'
  <2>1. CASE Find(p)
    <3>1. CASE ScanFile(p)
      BY <1>1, <2>1, <3>1, ScanFileAbsent DEF Find, TypeInv
    <3>2. CASE pc'[p] \in {"cached", "lock"}
      BY <3>2 DEF InHand
    <3> QED
      BY <2>1, <3>1, <3>2 DEF Find, Goto, TypeInv, TypeOK
  <2>2. CASE ~Find(p)
    <3>1. pc'[p] \in {"find", "aggregate", "lock", "idle", "lookup", "recover", "recheck",
                      "hit", "miss", "failed", "scan", "refresh"}
      BY <2>2 DEF StartAny, Start, Finish, Crash, Acquire, Busy, Recover, Cached, Recheck,
                  Aggregate, AggregateScan, Goto, Return, TypeInv, TypeOK
    <3> QED
      BY <3>1 DEF InHand
  <2> QED
    BY <2>1, <2>2
<1>4. Old(tail)'
  <2>1. mtime \in Nat /\ clock \in Nat /\ tail \in TailState \union {Nil}
    BY DEF TypeInv, TypeOK
  <2>2. Old(tail) /\ mtime <= clock
    BY DEF UniqueInv, Ages
  <2> QED
    BY <1>1, <2>1, <2>2 DEF Old, TailState
<1> QED
  BY <1>1, <1>2, <1>3, <1>4, QuietUnique

\* Steps that rewrite the tail state, or are about to.
LEMMA UniqueTails ==
    ASSUME UniqueInv, TypeInv, TypeInv', ChainInv, NEW p \in Procs,
           \/ ReadLast(p) \/ TearLine(p) \/ WriteTail(p) \/ WriteMarker(p)
           \/ Refresh(p) \/ Stat(p) \/ Install(p) \/ Mark(p)
    PROVE  UniqueInv'
<1> USE DEF fileVars, derivedVars, boundVars
<1>0. TypeOK /\ mtime \in Nat /\ clock \in Nat /\ tail \in TailState \union {Nil}
      /\ mtime <= clock /\ Old(tail)
  BY DEF TypeInv, TypeOK, UniqueInv, Ages
<1>1. /\ lines' = lines /\ writes' = writes /\ clock' = clock /\ index' = index /\ call' = call
      /\ mtime' \in {mtime, clock}
  BY DEF ReadLast, TearLine, WriteTail, WriteMarker, Refresh, Stat, Install, Mark
<1>2. \A q \in Procs \ {p} : pc'[q] = pc[q] /\ work'[q] = work[q] /\ call'[q] = call[q]
  BY DEF ReadLast, TearLine, WriteTail, WriteMarker, Refresh, Stat, Install, Mark,
         Goto, Hold, Return, TypeInv, TypeOK
<1>3. InHand(p)' /\ Old(tail)'
  <2>1. CASE ReadLast(p)
    <3>1. pc'[p] = "write" /\ pc[p] = "last" /\ mtime' = mtime
      BY <2>1 DEF ReadLast, Goto, TypeInv, TypeOK
    <3>2. InHand(p)'
      BY <1>1, <3>1 DEF InHand, UniqueInv, Absent
    <3>3. CASE tail' = tail
      BY <1>0, <1>1, <3>1, <3>2, <3>3 DEF Old
    <3>4. CASE lines # <<>> /\ WriteTailState(LastLine)
      <4>1. Old(tail')
        BY <1>0, <3>4, OldTailFor, LastLineOld DEF WriteTailState
      <4> QED
        BY <1>1, <3>1, <3>2, <4>1 DEF Old
    <3> QED
      BY <2>1, <3>3, <3>4 DEF ReadLast
  <2>2. CASE WriteTail(p)
    <3>1. pc'[p] \in {"marker", "advance"} /\ pc[p] = "tail" /\ mtime' = mtime /\ work' = work
      BY <2>2 DEF WriteTail, Goto, TypeInv, TypeOK
    <3>2. lines # <<>> /\ work[p].event = LastLine
      BY <3>1 DEF UniqueInv, InHand
    <3>3. InHand(p)'
      BY <1>1, <3>1, <3>2 DEF InHand, LastLine
    <3>4. Old(tail')
      BY <1>0, <2>2, <3>2, OldTailFor, LastLineOld DEF WriteTail, WriteTailState
    <3> QED
      BY <1>1, <3>1, <3>3, <3>4 DEF Old
  <2>3. CASE WriteMarker(p) \/ TearLine(p) \/ Mark(p)
    <3>1. tail' = tail
      BY <2>3 DEF WriteMarker, TearLine, Mark
    <3>2. Old(tail)'
      BY <1>0, <1>1, <3>1 DEF Old, TailState
    <3>3. CASE pc'[p] \in {"failed", "hit"}
      BY <3>2, <3>3 DEF InHand
    <3>4. CASE pc[p] = "marker" /\ pc'[p] = "advance" /\ work' = work
      BY <1>1, <3>2, <3>4 DEF InHand, UniqueInv, LastLine
    <3> QED
      BY <2>3, <3>3, <3>4 DEF WriteMarker, TearLine, Mark, Goto, Return, TypeInv, TypeOK
  <2>4. CASE Refresh(p)
    <3>1. tail' = tail /\ mtime' = mtime
      BY <2>4 DEF Refresh
    <3>2. Old(tail)'
      BY <1>0, <1>1, <3>1 DEF Old
    <3>3. CASE pc'[p] = "failed"
      BY <3>2, <3>3 DEF InHand
    <3>4. CASE pc'[p] = "stat" /\ work'[p].last = LastLine
      <4>1. lines # <<>>
        BY <2>4 DEF Refresh, TypeInv, Held
      <4> QED
        BY <1>0, <1>1, <3>2, <3>4, <4>1, LastLineOld DEF InHand
    <3> QED
      BY <2>4, <3>3, <3>4 DEF Refresh, Goto, Hold, Return, TypeInv, TypeOK
  <2>5. CASE Stat(p)
    <3> DEFINE t == TailFor(tail, work[p].last, Size(lines, torn), mtime)
    <3>1. tail' = tail /\ mtime' = mtime /\ pc'[p] = "install" /\ work'[p].tail = t
      BY <2>5 DEF Stat, Goto, Hold, TypeInv, TypeOK
    <3>2. work[p].last \in Event /\ work[p].last.hash <= writes
      BY <2>5 DEF Stat, TypeInv, Held, UniqueInv, InHand
    <3>3. Old(t)
      BY <1>0, <3>2, OldTailFor
    <3> HIDE DEF t
    <3> QED
      BY <1>0, <1>1, <3>1, <3>3 DEF InHand, Old
  <2>6. CASE Install(p)
    <3>1. tail' = work[p].tail /\ mtime' = mtime /\ pc'[p] = "mark" /\ Old(work[p].tail)
      BY <2>6 DEF Install, Goto, TypeInv, TypeOK, UniqueInv, InHand
    <3> QED
      BY <1>1, <3>1 DEF InHand, Old
  <2> QED
    BY <2>1, <2>2, <2>3, <2>4, <2>5, <2>6
<1> QED
  BY <1>1, <1>2, <1>3, QuietUnique

\* An index that covers a current tail state lists every line of the file.
LEMMA CurrentIndexLists ==
    ASSUME UniqueInv, TypeInv, IndexCovers
    PROVE  \A i \in DOMAIN lines : Listed(i)
<1>1. /\ index.covered # Nil /\ index.covered.mtime = mtime
      /\ index.covered.size = Size(lines, torn) /\ Len(lines) \in Nat
  BY DEF IndexCovers, TailCurrent, TypeInv, TypeOK
<1>2. \A i \in DOMAIN lines : 2 * i <= Size(lines, torn)
  BY <1>1 DEF Size, TypeInv, TypeOK
<1> QED
  BY <1>1, <1>2 DEF UniqueInv, CoversSize

LEMMA UniqueLookup ==
    ASSUME UniqueInv, TypeInv, TypeInv', NEW p \in Procs, Lookup(p)
    PROVE  UniqueInv'
<1> DEFINE s == call[p].src
           opened == index.exists \/ (s # NoSource /\ Len(lines) >= IndexThreshold)
           indexed == opened /\ s # NoSource /\ call[p].kind # "build"
           answers == indexed /\ IndexCovers /\ ~RowRefused(index.rows, s, tail)
           rebuilds == indexed /\ ~IndexCovers /\ ~torn
<1> USE DEF fileVars, derivedVars, boundVars
<1>1. /\ lines' = lines /\ writes' = writes /\ clock' = clock /\ mtime' = mtime /\ call' = call
      /\ index'.rows = index.rows /\ index'.covered = index.covered
  BY DEF Lookup, TypeInv, TypeOK, IndexState
<1>2. TypeOK /\ Old(tail)
  BY DEF TypeInv, UniqueInv, Ages
<1>3. CASE answers /\ Answered(p, index.rows[s]) /\ UNCHANGED <<tail, nextGen>>
  <2>1. \A q \in Procs \ {p} : pc'[q] = pc[q] /\ work'[q] = work[q] /\ call'[q] = call[q]
    BY <1>1, <1>2, <1>3, AnsweredAlone DEF Alone
  <2>2. /\ pc'[p] \in {"hit", "miss", "last", "write"}
        /\ pc'[p] \in {"last", "write"} => index.rows[s] = Nil
    BY <1>1, <1>2, <1>3, AnsweredAbsent
  <2>3. index.rows[s] = Nil => Absent(s)
    BY <1>3, CurrentIndexLists DEF Absent, Listed
  <2>4. InHand(p)'
    BY <1>1, <2>2, <2>3 DEF InHand, Absent
  <2> QED
    BY <1>1, <1>2, <1>3, <2>1, <2>4, QuietUnique DEF Old
<1>4. CASE /\ rebuilds
           /\ IF lines = <<>> THEN UNCHANGED <<tail, nextGen>> ELSE WriteTailState(LastLine)
           /\ Goto(p, "rebuild")
           /\ UNCHANGED <<work, lock>>
  <2>1. pc'[p] = "rebuild"
        /\ \A q \in Procs \ {p} : pc'[q] = pc[q] /\ work'[q] = work[q] /\ call'[q] = call[q]
    BY <1>1, <1>2, <1>4 DEF Goto, TypeOK
  <2>2. Old(tail')
    <3>1. CASE tail' = tail
      BY <1>2, <3>1
    <3>2. CASE lines # <<>> /\ WriteTailState(LastLine)
      BY <1>2, <3>2, OldTailFor, LastLineOld DEF WriteTailState
    <3> QED
      BY <1>4, <3>1, <3>2
  <2> QED
    BY <1>1, <2>1, <2>2, QuietUnique DEF Old, InHand
<1>5. CASE ~answers /\ ~rebuilds /\ ScanFile(p) /\ UNCHANGED <<tail, nextGen>>
  <2>1. \A q \in Procs \ {p} : pc'[q] = pc[q] /\ work'[q] = work[q] /\ call'[q] = call[q]
    BY <1>1, <1>2, <1>5, ScanFileAlone DEF Alone
  <2>2. InHand(p)'
    BY <1>1, <1>2, <1>5, ScanFileAbsent
  <2> QED
    BY <1>1, <1>2, <1>5, <2>1, <2>2, QuietUnique DEF Old
<1> QED
  BY <1>3, <1>4, <1>5 DEF Lookup

\* A step of the lock's holder that leaves the file alone and after which the index
\* covers the whole file, and lists all of it.
LEMMA IndexedUnique ==
    ASSUME UniqueInv, TypeInv, TypeInv', NEW p \in Procs, InHand(p)',
           \A q \in Procs \ {p} : pc'[q] = pc[q] /\ work'[q] = work[q] /\ call'[q] = call[q],
           lines' = lines, writes' = writes, clock' = clock, mtime' = mtime, tail' = tail,
           Old(index'.covered), index'.covered # Nil => index'.covered.size <= 2 * Len(lines) + 1,
           \A i \in DOMAIN lines : lines[i].src # NoSource => index'.rows[lines[i].src] # Nil
    PROVE  UniqueInv'
<1>1. Ages'
  BY DEF UniqueInv, Ages, Old
<1>2. CoversSize' /\ CoversLine'
  BY DEF CoversSize, CoversLine, Listed
<1>3. UniqueSources'
  BY DEF UniqueInv, UniqueSources
<1>4. \A q \in Procs \ {p} : InHand(q)'
  BY DEF UniqueInv, InHand, Old, LastLine, Absent
<1> QED
  BY <1>1, <1>2, <1>3, <1>4 DEF UniqueInv

LEMMA UniqueRebuild ==
    ASSUME UniqueInv, TypeInv, TypeInv', NEW p \in Procs, Rebuild(p)
    PROVE  UniqueInv'
<1> DEFINE s == call[p].src
           current == IF lines = <<>> THEN ZeroTail ELSE tail
           rows == [r \in Sources |-> Scan(lines, r)]
<1> USE DEF fileVars, derivedVars, boundVars
<1>1. /\ lines' = lines /\ writes' = writes /\ clock' = clock /\ mtime' = mtime /\ tail' = tail
      /\ call' = call /\ s \in Sources /\ TypeOK /\ Old(tail)
  BY DEF Rebuild, TypeInv, Held, UniqueInv, Ages
<1>2. \A q \in Procs \ {p} : pc'[q] = pc[q] /\ work'[q] = work[q] /\ call'[q] = call[q]
  <2>1. CASE ScanFile(p)
    BY <1>1, <2>1, ScanFileAlone DEF Alone
  <2>2. CASE \E e : Answered(p, e)
    BY <1>1, <2>2, AnsweredAlone DEF Alone
  <2> QED
    BY <2>1, <2>2 DEF Rebuild
<1>3. InHand(p)'
  <2>1. CASE ScanFile(p)
    BY <1>1, <2>1, ScanFileAbsent
  <2>2. CASE Answered(p, rows[s])
    <3>1. /\ pc'[p] \in {"hit", "miss", "last", "write"}
          /\ pc'[p] \in {"last", "write"} => rows[s] = Nil
      BY <1>1, <2>2, AnsweredAbsent
    <3>2. rows[s] = Nil => Absent(s)
      BY <1>1, ScanFinds, NilAssumption DEF Absent, TypeOK
    <3> HIDE DEF rows
    <3> QED
      BY <1>1, <3>1, <3>2 DEF InHand, Absent
  <2> QED
    BY <2>1, <2>2 DEF Rebuild
<1>4. CASE lines # <<>> /\ ~TailCurrent(tail)
  <2>1. index' = index
    BY <1>4 DEF Rebuild
  <2> QED
    BY <1>1, <1>2, <1>3, <2>1, QuietUnique DEF Old
<1>5. CASE ~(lines # <<>> /\ ~TailCurrent(tail))
  <2>1. index'.rows = rows /\ index'.covered = current
    BY <1>5 DEF Rebuild, TypeInv, TypeOK, IndexState
  <2>2. Old(current)
    BY <1>1 DEF Old, ZeroTail, Genesis, TypeOK
  <2>3. current.size <= 2 * Len(lines) + 1
    <3>1. Len(lines) \in Nat
      BY <1>1 DEF TypeOK
    <3>2. CASE lines = <<>>
      BY <3>1, <3>2 DEF ZeroTail
    <3>3. CASE lines # <<>>
      BY <1>5, <3>1, <3>3 DEF TailCurrent, Size
    <3> QED
      BY <3>2, <3>3
  <2>4. \A i \in DOMAIN lines : lines[i].src # NoSource => rows[lines[i].src] # Nil
    <3> SUFFICES ASSUME NEW i \in DOMAIN lines, lines[i].src # NoSource
                 PROVE  rows[lines[i].src] # Nil
      OBVIOUS
    <3>1. lines[i] \in Event /\ lines[i].src \in Sources
      BY <1>1, LineTypes
    <3>2. Scan(lines, lines[i].src) # Nil
      BY <1>1, <3>1, ScanFinds, NilAssumption DEF TypeOK
    <3> QED
      BY <3>1, <3>2
  <2> HIDE DEF current, rows
  <2> QED
    BY <1>1, <1>2, <1>3, <2>1, <2>2, <2>3, <2>4, IndexedUnique
<1> QED
  BY <1>4, <1>5

LEMMA UniqueAdvance ==
    ASSUME UniqueInv, TypeInv, TypeInv', ChainInv, NEW p \in Procs, Advance(p)
    PROVE  UniqueInv'
<1> DEFINE e == work[p].event
<1> USE DEF fileVars, derivedVars, boundVars
<1>1. /\ lines' = lines /\ writes' = writes /\ clock' = clock /\ mtime' = mtime /\ tail' = tail
      /\ call' = call /\ TypeOK /\ Old(tail) /\ pc'[p] = "hit" /\ lines \in Seq(Event)
  BY DEF Advance, Return, Goto, TypeInv, TypeOK, UniqueInv, Ages
<1>2. \A q \in Procs \ {p} : pc'[q] = pc[q] /\ work'[q] = work[q] /\ call'[q] = call[q]
  BY <1>1, ReturnAlone DEF Advance, Alone
<1>3. InHand(p)'
  BY <1>1 DEF InHand
<1>4. lines # <<>> /\ e = lines[Len(lines)] /\ e \in Event
  BY <1>1 DEF Advance, UniqueInv, InHand, LastLine
<1>5. CASE index' = index
  BY <1>1, <1>2, <1>3, <1>5, QuietUnique DEF Old
<1>6. CASE /\ index.covered # Nil /\ index.covered.seq + 1 = e.seq /\ TailCurrent(tail)
           /\ index.covered.seq > 0 => index.covered.hash = e.prev
           /\ index' = [index EXCEPT !.covered = tail,
                          !.rows = IF e.src = NoSource THEN @ ELSE [@ EXCEPT ![e.src] = e]]
  <2>1. /\ index.rows \in [Sources -> Event \union {Nil}] /\ index.covered \in TailState
        /\ index'.covered = tail
        /\ index'.rows = IF e.src = NoSource THEN index.rows ELSE [index.rows EXCEPT ![e.src] = e]
    BY <1>6 DEF TypeInv, TypeOK, IndexState
  <2>2. tail.size <= 2 * Len(lines) + 1
    BY <1>1, <1>6 DEF TailCurrent, Size
  <2>3. index.covered.seq = Len(lines) - 1
        /\ (index.covered.seq > 0 => lines[index.covered.seq].hash = index.covered.hash)
    <3>1. Len(lines) \in DOMAIN lines
      BY <1>1, <1>4
    <3>2. e.seq = Len(lines) /\ e.prev = IF Len(lines) = 1 THEN Genesis ELSE lines[Len(lines) - 1].hash
      BY <1>4, <3>1 DEF ChainInv, Chain
    <3>3. index.covered.seq \in Nat /\ Len(lines) \in Nat /\ index.covered.seq + 1 = Len(lines)
      BY <1>1, <1>6, <2>1, <3>2 DEF TailState
    <3>4. \A a, b \in Nat : a + 1 = b => a = b - 1 /\ (a > 0 => b # 1)
      OBVIOUS
    <3>5. index.covered.seq = Len(lines) - 1 /\ (index.covered.seq > 0 => Len(lines) # 1)
      BY <3>3, <3>4, Zenon
    <3> QED
      BY <1>6, <3>2, <3>5, Zenon
  <2>4. \A i \in DOMAIN lines : i <= Len(lines) - 1 => Listed(i)
    BY <1>1, <1>6, <2>1, <2>3 DEF UniqueInv, CoversLine, TailState
  <2>5. \A i \in DOMAIN lines : lines[i].src # NoSource => index'.rows[lines[i].src] # Nil
    <3> SUFFICES ASSUME NEW i \in DOMAIN lines, lines[i].src # NoSource
                 PROVE  index'.rows[lines[i].src] # Nil
      OBVIOUS
    <3>1. lines[i].src \in Sources /\ e # Nil
      BY <1>1, <1>4, LineTypes, NilAssumption
    <3>2. CASE i <= Len(lines) - 1
      BY <2>1, <2>4, <3>1, <3>2 DEF Listed
    <3>3. CASE i = Len(lines)
      BY <1>4, <2>1, <3>1, <3>3
    <3> QED
      BY <1>1, <3>2, <3>3
  <2> QED
    BY <1>1, <1>2, <1>3, <2>1, <2>2, <2>5, IndexedUnique
<1> QED
  BY <1>5, <1>6 DEF Advance, Advanced

LEMMA UniqueWriteLine ==
    ASSUME UniqueInv, TypeInv, TypeInv', ChainInv, NEW p \in Procs, WriteLine(p)
    PROVE  UniqueInv'
<1> DEFINE e == NextEvent(p, work[p].last)
           n == Len(lines) + 1
<1> USE DEF fileVars, derivedVars, boundVars
<1>1. /\ lines' = Append(lines, e) /\ mtime' = clock /\ writes' = writes + 1 /\ clock' = clock
      /\ tail' = tail /\ index' = index /\ call' = call /\ pc'[p] = "tail" /\ work'[p].event = e
      /\ pc[p] = "write" /\ \A q \in Procs \ {p} : pc'[q] = pc[q] /\ work'[q] = work[q]
  BY DEF WriteLine, Hold, Goto, TypeInv, TypeOK
<1>2. /\ lines \in Seq(Event) /\ mtime \in Nat /\ clock \in Nat /\ writes \in Nat
      /\ tail \in TailState \union {Nil} /\ index.covered \in TailState \union {Nil}
      /\ mtime <= clock /\ Old(tail) /\ Old(index.covered)
  BY DEF TypeInv, TypeOK, IndexState, UniqueInv, Ages
<1>3. e.hash = writes + 1 /\ e.src = call[p].src /\ Absent(call[p].src)
  BY <1>1 DEF NextEvent, UniqueInv, InHand
<1> HIDE DEF e
<1>4. /\ DOMAIN lines' = 1 .. n /\ lines'[n] = e /\ n \in Nat /\ Len(lines') = n
      /\ \A i \in DOMAIN lines : lines'[i] = lines[i] /\ i \in 1 .. n
      /\ \A i \in 1 .. n : i \in DOMAIN lines \/ i = n
  BY <1>1, <1>2
<1>5. \A t \in TailState \union {Nil} : Old(t) => (t # Nil => t.hash <= writes' /\ t.mtime <= mtime')
  BY <1>1, <1>2 DEF Old, TailState
<1>6. Ages'
  <2>1. \A i \in DOMAIN lines' : lines'[i].hash <= writes'
    <3>1. \A i \in DOMAIN lines : lines[i].hash <= writes /\ lines[i].hash \in Nat
      BY LineTypes DEF UniqueInv, Ages, TypeInv
    <3>2. \A i \in DOMAIN lines : lines'[i].hash <= writes'
      BY <1>1, <1>2, <1>4, <3>1
    <3> QED
      BY <1>1, <1>2, <1>3, <1>4, <3>2
  <2> QED
    BY <1>1, <1>2, <1>5, <2>1 DEF Ages, Old
<1>7. CoversSize'
  <2> SUFFICES ASSUME index.covered # Nil, index.covered.mtime = clock
               PROVE  /\ index.covered.size <= 2 * n + 1
                      /\ \A i \in DOMAIN lines' : 2 * i <= index.covered.size => Listed(i)'
    BY <1>1, <1>4 DEF CoversSize
  <2>1. mtime = clock /\ index.covered.size \in Nat
    BY <1>2 DEF Old, TailState
  <2>2. /\ index.covered.size <= 2 * Len(lines) + 1
        /\ \A i \in DOMAIN lines : 2 * i <= index.covered.size => Listed(i)
    BY <2>1 DEF UniqueInv, CoversSize
  <2>3. ~(2 * n <= index.covered.size)
    BY <1>2, <2>1, <2>2
  <2>4. \A i \in DOMAIN lines : Listed(i) => Listed(i)'
    BY <1>1, <1>4 DEF Listed
  <2> QED
    BY <1>2, <1>4, <2>1, <2>2, <2>3, <2>4
<1>8. CoversLine'
  <2> SUFFICES ASSUME index.covered # Nil, index.covered.seq <= n,
                      index.covered.seq > 0 => lines'[index.covered.seq].hash = index.covered.hash,
                      NEW i \in DOMAIN lines', i <= index.covered.seq
               PROVE  Listed(i)'
    BY <1>1, <1>4 DEF CoversLine
  <2>1. index.covered.hash <= writes /\ index.covered.hash \in Nat /\ index.covered.seq \in Nat
    BY <1>2 DEF Old, TailState
  <2>2. index.covered.seq # n
    BY <1>2, <1>3, <1>4, <2>1
  <2>3. index.covered.seq <= Len(lines) /\ i \in DOMAIN lines
    BY <1>2, <1>4, <2>1, <2>2
  <2>4. index.covered.seq > 0 => lines[index.covered.seq].hash = index.covered.hash
    BY <1>2, <1>4, <2>1, <2>3
  <2>5. Listed(i)
    BY <2>3, <2>4 DEF UniqueInv, CoversLine
  <2> QED
    BY <1>1, <1>4, <2>3, <2>5 DEF Listed
<1>9. UniqueSources'
  <2> SUFFICES ASSUME NEW i \in DOMAIN lines', NEW j \in DOMAIN lines',
                      lines'[i].src = lines'[j].src, lines'[i].src # NoSource
               PROVE  i = j
    BY DEF UniqueSources
  <2>1. CASE i \in DOMAIN lines /\ j \in DOMAIN lines
    BY <1>4, <2>1 DEF UniqueInv, UniqueSources
  <2>2. CASE i = n /\ j \in DOMAIN lines
    BY <1>3, <1>4, <2>2 DEF Absent
  <2>3. CASE j = n /\ i \in DOMAIN lines
    BY <1>3, <1>4, <2>3 DEF Absent
  <2> QED
    BY <1>4, <2>1, <2>2, <2>3
<1>10. \A q \in Procs : InHand(q)'
  <2>1. InHand(p)'
    BY <1>1, <1>2, <1>4 DEF InHand, LastLine
  <2>2. ASSUME NEW q \in Procs \ {p} PROVE InHand(q)'
    <3>1. pc[q] \notin Critical
      BY <1>1 DEF ChainInv, WriterInv, Critical
    <3>2. InHand(q) /\ (pc[q] = "install" => work[q].tail \in TailState)
          /\ (pc[q] = "stat" => work[q].last \in Event)
      BY DEF UniqueInv, TypeInv, Held
    <3>3. pc[q] = "install" => Old(work[q].tail)'
      BY <1>1, <1>5, <3>2 DEF InHand, Old
    <3>4. pc[q] = "stat" => work[q].last.hash <= writes'
      BY <1>1, <1>2, <3>2 DEF InHand, Event
    <3> QED
      BY <1>1, <3>1, <3>3, <3>4 DEF InHand, Critical
  <2> QED
    BY <2>1, <2>2
<1> QED
  BY <1>6, <1>7, <1>8, <1>9, <1>10 DEF UniqueInv

LEMMA UniqueEnvironment ==
    ASSUME UniqueInv, TypeInv, TypeInv', Chop \/ Tick \/ UNCHANGED vars
    PROVE  UniqueInv'
<1> USE DEF fileVars, derivedVars, boundVars
<1>1. /\ lines \in Seq(Event) /\ mtime \in Nat /\ clock \in Nat /\ writes \in Nat
      /\ tail \in TailState \union {Nil} /\ index.covered \in TailState \union {Nil}
      /\ mtime <= clock /\ Old(tail) /\ Old(index.covered)
  BY DEF TypeInv, TypeOK, IndexState, UniqueInv, Ages
<1>2. CASE Chop
  <2>1. PICK n \in 0 .. Len(lines) - 1 : lines' = SubSeq(lines, 1, n)
    BY <1>2 DEF Chop
  <2>2. /\ mtime' = clock /\ mtime < clock /\ clock' = clock /\ writes' = writes /\ tail' = tail
        /\ index' = index /\ \A p \in Procs : pc'[p] = "idle"
    BY <1>1, <1>2 DEF Chop
  <2>3. /\ n \in Nat /\ n <= Len(lines) /\ DOMAIN lines' = 1 .. n /\ Len(lines') = n
        /\ \A i \in 1 .. n : lines'[i] = lines[i] /\ i \in DOMAIN lines
    BY <1>1, <2>1
  <2>4. Ages'
    BY <1>1, <2>2, <2>3 DEF UniqueInv, Ages, Old, TailState
  <2>5. CoversSize'
    <3>1. index.covered # Nil => index.covered.mtime \in Nat /\ index.covered.mtime <= mtime
      BY <1>1 DEF Old, TailState
    <3> QED
      BY <1>1, <2>2, <3>1 DEF CoversSize
  <2>6. CoversLine'
    <3> SUFFICES ASSUME index.covered # Nil, index.covered.seq <= n,
                        index.covered.seq > 0 => lines'[index.covered.seq].hash = index.covered.hash,
                        NEW i \in DOMAIN lines', i <= index.covered.seq
                 PROVE  Listed(i)'
      BY <2>2, <2>3 DEF CoversLine
    <3>1. index.covered.seq \in Nat /\ Len(lines) \in Nat
      BY <1>1 DEF TailState
    <3>2. index.covered.seq > 0 => lines[index.covered.seq].hash = index.covered.hash
      BY <2>3, <3>1
    <3>3. Listed(i)
      BY <2>3, <3>1, <3>2 DEF UniqueInv, CoversLine
    <3> QED
      BY <2>2, <2>3, <3>3 DEF Listed
  <2>7. UniqueSources'
    BY <2>3 DEF UniqueInv, UniqueSources
  <2>8. \A p \in Procs : InHand(p)'
    BY <2>2 DEF InHand
  <2> QED
    BY <2>4, <2>5, <2>6, <2>7, <2>8 DEF UniqueInv
<1>3. CASE Tick \/ UNCHANGED vars
  <2>1. /\ lines' = lines /\ mtime' = mtime /\ writes' = writes /\ tail' = tail /\ index' = index
        /\ pc' = pc /\ work' = work /\ call' = call /\ clock' \in {clock, clock + 1}
    BY <1>3 DEF Tick, vars
  <2>2. mtime' <= clock'
    BY <1>1, <2>1
  <2>3. Ages'
    BY <2>1, <2>2 DEF UniqueInv, Ages, Old
  <2>4. CoversSize' /\ CoversLine' /\ UniqueSources' /\ \A p \in Procs : InHand(p)'
    BY <2>1 DEF UniqueInv, CoversSize, CoversLine, Listed, UniqueSources, InHand, Old, Absent, LastLine
  <2> QED
    BY <2>3, <2>4 DEF UniqueInv
<1> QED
  BY <1>2, <1>3

LEMMA UniqueNext == UniqueInv /\ TypeInv /\ TypeInv' /\ ChainInv /\ [Next]_vars => UniqueInv'
  BY UniqueCalls, UniqueTails, UniqueLookup, UniqueRebuild, UniqueAdvance, UniqueWriteLine,
     UniqueEnvironment DEF Next, Step, Environment

LEMMA AllInvariants == Spec => [](TypeInv /\ ChainInv /\ UniqueInv)
<1>1. TypeInv => TypeOK
  BY DEF TypeInv
<1> QED
  BY <1>1, TypeInit, TypeNext, ChainInit, ChainNext, UniqueInit, UniqueNext, PTL DEF Spec

\* No two lines ever carry the same SourceID, whatever the source index, the tail state and
\* an unlocked repair of them held when Append asked, and whatever was killed in between.
THEOREM SourcesUnique == Spec => []UniqueSources
<1>1. UniqueInv => UniqueSources
  BY DEF UniqueInv
<1> QED
  BY <1>1, AllInvariants, PTL

----------------------------------------------------------------------------
(* The refinement of EventStream                                           *)

LEMMA StreamInit == Init => Stream!Init
  BY DEF Init, Stream!Init

\* The line written is a new entry of the stream.
LEMMA StreamRecord ==
    ASSUME TypeInv, ChainInv, UniqueInv, NEW p \in Procs, WriteLine(p)
    PROVE  Stream!Record
<1> DEFINE e == NextEvent(p, work[p].last)
<1>1. /\ lines' = Append(lines, e) /\ chops' = chops /\ lines \in Seq(Event) /\ writes \in Nat
      /\ work[p].last = LastLine /\ pc[p] = "write" /\ call[p].src \in Sources \union {NoSource}
  BY DEF WriteLine, boundVars, TypeInv, TypeOK, Call, ChainInv, WriterInv
<1>2. /\ e.hash = writes + 1 /\ e.src = call[p].src /\ Absent(call[p].src)
  BY <1>1 DEF NextEvent, UniqueInv, InHand
<1>3. e.seq = Len(lines) + 1 /\ e.prev = Stream!LastHash
  <2>1. CASE lines = <<>>
    BY <1>1, <2>1 DEF NextEvent, LastLine, Genesis, Stream!LastHash
  <2>2. CASE lines # <<>>
    <3>1. LastLine = lines[Len(lines)] /\ Len(lines) \in DOMAIN lines
      BY <1>1, <2>2 DEF LastLine
    <3>2. LastLine # Nil /\ LastLine.seq = Len(lines)
      BY <3>1, LineTypes DEF TypeInv, ChainInv, Chain
    <3> QED
      BY <1>1, <2>2, <3>1, <3>2 DEF NextEvent, Stream!LastHash
  <2> QED
    BY <2>1, <2>2
<1> HIDE DEF e
<1>4. Len(lines') = Len(lines) + 1 /\ lines'[Len(lines')] = e
  BY <1>1
<1>5. \A i \in DOMAIN lines : lines[i].hash # e.hash /\ (e.src # NoSource => lines[i].src # e.src)
  <2>1. \A i \in DOMAIN lines : lines[i].hash <= writes /\ lines[i].hash \in Nat
    BY LineTypes DEF UniqueInv, Ages, TypeInv
  <2> QED
    BY <1>1, <1>2, <2>1 DEF Absent
<1>6. Stream!Fresh(e)
  BY <1>1, <1>2, <1>3, <1>5 DEF Stream!Fresh
<1> QED
  BY <1>1, <1>4, <1>6 DEF Stream!Record

\* Every other step is a replacement of the file or leaves the stream as it is.
LEMMA StreamOther ==
    ASSUME [Next]_vars, \A p \in Procs : ~WriteLine(p)
    PROVE  Stream!Replace \/ UNCHANGED Stream!vars
<1> USE DEF fileVars, derivedVars, boundVars, Stream!vars
<1>1. CASE Chop
  BY <1>1 DEF Chop, Stream!Replace
<1>2. CASE Tick \/ UNCHANGED vars
  BY <1>2 DEF Tick, vars
<1>3. ASSUME NEW p \in Procs, StartAny(p) \/ Step(p) \/ Busy(p) \/ TearLine(p) \/ Crash(p)
      PROVE  UNCHANGED Stream!vars
  <2>1. CASE StartAny(p) \/ Finish(p) \/ Busy(p) \/ TearLine(p) \/ Crash(p) \/ Acquire(p)
    BY <2>1 DEF StartAny, Start, Finish, Busy, TearLine, Crash, Acquire
  <2>2. CASE Recover(p) \/ Lookup(p) \/ Rebuild(p) \/ ReadLast(p) \/ WriteTail(p)
             \/ WriteMarker(p) \/ Advance(p)
    BY <2>2 DEF Recover, Lookup, Rebuild, ReadLast, WriteTail, WriteMarker, Advance
  <2>3. CASE \/ Find(p) \/ Cached(p) \/ Recheck(p) \/ Aggregate(p) \/ AggregateScan(p)
             \/ Refresh(p) \/ Stat(p) \/ Install(p) \/ Mark(p)
    BY <2>3 DEF Find, Cached, Recheck, Aggregate, AggregateScan, Refresh, Stat, Install, Mark
  <2> QED
    BY <1>3, <2>1, <2>2, <2>3 DEF Step
<1> QED
  BY <1>1, <1>2, <1>3 DEF Next, Environment

\* The file with its tail state, markers, source index and locks implements EventStream:
\* writing a whole line is the one step that records an event, and what it records is
\* fresh; every derived file can be thrown away.
THEOREM StreamImplemented == Spec => ImplementsStream
<1>1. TypeInv /\ ChainInv /\ UniqueInv /\ [Next]_vars => [Stream!Next]_(Stream!vars)
  <2> SUFFICES ASSUME TypeInv, ChainInv, UniqueInv, [Next]_vars
               PROVE  [Stream!Next]_(Stream!vars)
    OBVIOUS
  <2>1. CASE \E p \in Procs : WriteLine(p)
    BY <2>1, StreamRecord DEF Stream!Next
  <2>2. CASE \A p \in Procs : ~WriteLine(p)
    BY <2>2, StreamOther DEF Stream!Next
  <2> QED
    BY <2>1, <2>2
<1> QED
  BY <1>1, StreamInit, AllInvariants, PTL DEF Spec, ImplementsStream, Stream!Spec

----------------------------------------------------------------------------
(* The answers of the lookups, where nobody searches the aggregate log     *)

\* A tail state as old as the file covers no more than the file, and when it covers all
\* of it names its last line.
TailTrue ==
    tail # Nil /\ tail.mtime = mtime
    => /\ tail.size <= 2 * Len(lines) + 1
       /\ tail.size >= 2 * Len(lines)
            => lines # <<>> /\ tail.seq = Len(lines) /\ tail.hash = lines[Len(lines)].hash

\* The rows of the index are lines of the file, among the first n.
Backed(n) ==
    \A s \in Sources : index.rows[s] # Nil
        => \E i \in DOMAIN lines : i <= n /\ lines[i] = index.rows[s] /\ lines[i].src = s

BackedSize ==
    /\ index.covered # Nil /\ index.covered.mtime = mtime
    /\ index.covered.size >= 2 * Len(lines)
    => Backed(Len(lines))

BackedLine ==
    /\ index.covered # Nil /\ index.covered.seq <= Len(lines)
    /\ index.covered.seq > 0 => lines[index.covered.seq].hash = index.covered.hash
    => Backed(index.covered.seq)

\* What a call holds, and what a lookup would find now, was right during the call.
Seen(p) ==
    /\ pc[p] # "idle" => Scan(lines, call[p].src) \in window[p]
    /\ pc[p] = "cached" => index.rows[call[p].src] \in window[p]
    /\ pc[p] \in {"recheck", "tail", "marker", "advance", "hit"} /\ call[p].src # NoSource
         => work[p].event \in window[p]
    /\ pc[p] = "miss" => Nil \in window[p]

Searching == {"aggregate", "scan", "refresh", "stat", "install", "mark"}

LookupInv ==
    /\ TailTrue /\ BackedSize /\ BackedLine
    /\ \A p \in Procs : pc[p] \notin Searching /\ Seen(p)

LEMMA LookupInit == Init => LookupInv
<1> SUFFICES ASSUME Init PROVE LookupInv
  OBVIOUS
<1>1. TailTrue /\ BackedSize /\ BackedLine
  BY DEF Init, TailTrue, BackedSize, BackedLine
<1>2. \A p \in Procs : pc[p] \notin Searching /\ Seen(p)
  BY DEF Init, Searching, Seen
<1> QED
  BY <1>1, <1>2 DEF LookupInv

\* A line that is the only one with its source is what a scan finds.
LEMMA ScanAlone ==
    ASSUME NEW ls \in Seq(Event), NEW i \in DOMAIN ls, ls[i].src # NoSource,
           \A j \in DOMAIN ls : ls[j].src = ls[i].src => j = i
    PROVE  Scan(ls, ls[i].src) = ls[i]
<1>1. ls[i] \in Event /\ ls[i] # Nil
  BY NilAssumption
<1> QED
  BY <1>1, ScanFinds

LEMMA ScanOnly ==
    ASSUME UniqueSources, TypeOK, NEW i \in DOMAIN lines, lines[i].src # NoSource
    PROVE  Scan(lines, lines[i].src) = lines[i]
  BY ScanAlone DEF UniqueSources, TypeOK

\* An index that lists every line, and nothing but lines, answers like a scan.
LEMMA ExactRows ==
    ASSUME UniqueSources, TypeOK, Backed(Len(lines)), \A i \in DOMAIN lines : Listed(i),
           NEW s \in Sources
    PROVE  index.rows[s] = Scan(lines, s)
<1>0. s # NoSource /\ lines \in Seq(Event)
  BY ConstantsAssumption DEF TypeOK
<1>1. CASE index.rows[s] = Nil
  <2>1. \A i \in DOMAIN lines : lines[i].src # s
    BY <1>0, <1>1 DEF Listed
  <2> QED
    BY <1>0, <1>1, <2>1, ScanFinds
<1>2. CASE index.rows[s] # Nil
  BY <1>0, <1>2, ScanOnly DEF Backed
<1> QED
  BY <1>1, <1>2

LEMMA CurrentIndexExact ==
    ASSUME UniqueInv, LookupInv, TypeInv, index.covered # Nil, TailCurrent(index.covered),
           NEW s \in Sources
    PROVE  index.rows[s] = Scan(lines, s)
<1>1. /\ index.covered.mtime = mtime /\ Len(lines) \in Nat /\ lines \in Seq(Event)
      /\ index.covered.size = Size(lines, torn) /\ Size(lines, torn) >= 2 * Len(lines)
  BY DEF TailCurrent, Size, TypeInv, TypeOK
<1>2. Backed(Len(lines))
  BY <1>1 DEF LookupInv, BackedSize
<1>3. \A i \in DOMAIN lines : Listed(i)
  <2>1. \A i \in DOMAIN lines : 2 * i <= index.covered.size
    BY <1>1 DEF Size
  <2> QED
    BY <1>1, <2>1 DEF UniqueInv, CoversSize
<1> QED
  BY <1>2, <1>3, ExactRows DEF UniqueInv, TypeInv

LEMMA CoveringIndexExact ==
    ASSUME UniqueInv, LookupInv, TypeInv, IndexCovers, NEW s \in Sources
    PROVE  index.rows[s] = Scan(lines, s)
  BY CurrentIndexExact DEF IndexCovers, TailCurrent

\* Writing the tail state for the last line keeps it true.
LEMMA WrittenTailTrue ==
    ASSUME TypeOK, lines # <<>>, WriteTailState(LastLine), Chain, lines' = lines, mtime' = mtime
    PROVE  TailTrue'
<1>1. /\ tail'.size = Size(lines, torn) /\ tail'.seq = LastLine.seq /\ tail'.hash = LastLine.hash
      /\ Len(lines) \in Nat /\ LastLine = lines[Len(lines)] /\ Len(lines) \in DOMAIN lines
  BY DEF WriteTailState, TailFor, LastLine, TypeOK
<1>2. tail'.seq = Len(lines) /\ tail'.size <= 2 * Len(lines) + 1
  BY <1>1 DEF Chain, Size
<1> QED
  BY <1>1, <1>2 DEF TailTrue

LEMMA QuietLookup ==
    ASSUME LookupInv, UniqueInv, TypeInv, NEW p \in Procs, Seen(p)', pc'[p] \notin Searching,
           \A q \in Procs \ {p} : /\ pc'[q] = pc[q] /\ work'[q] = work[q] /\ call'[q] = call[q]
                                 /\ window'[q] = window[q],
           lines' = lines, mtime' \in {mtime, clock}, tail' = tail \/ TailTrue',
           index'.rows = index.rows, index'.covered = index.covered
    PROVE  LookupInv'
<1>1. /\ mtime \in Nat /\ clock \in Nat /\ mtime <= clock /\ Old(tail) /\ Old(index.covered)
      /\ tail \in TailState \union {Nil} /\ index.covered \in TailState \union {Nil}
  BY DEF TypeInv, TypeOK, IndexState, UniqueInv, Ages
<1>2. mtime' = mtime \/ mtime < mtime'
  BY <1>1
<1>3. \A t \in TailState \union {Nil} : Old(t) /\ t # Nil /\ t.mtime = mtime' => mtime' = mtime
  BY <1>1, <1>2 DEF Old, TailState
<1>4. TailTrue'
  BY <1>1, <1>3 DEF LookupInv, TailTrue
<1>5. BackedSize' /\ BackedLine'
  BY <1>1, <1>3 DEF LookupInv, BackedSize, BackedLine, Backed
<1>6. \A q \in Procs \ {p} : Seen(q)' /\ pc'[q] \notin Searching
  BY DEF LookupInv, Seen
<1> QED
  BY <1>4, <1>5, <1>6 DEF LookupInv

LEMMA AnsweredSeen ==
    ASSUME TypeOK, LookupInv, NEW p \in Procs, pc[p] # "idle", NEW e, Answered(p, e),
           e = Scan(lines, call[p].src), call' = call, window' = window, lines' = lines
    PROVE  Seen(p)' /\ pc'[p] \notin Searching
<1>1. e \in window[p]
  BY DEF LookupInv, Seen
<1>2. CASE e # Nil
  BY <1>1, <1>2 DEF Answered, Return, Goto, Hold, TypeOK, Seen, Searching
<1>3. CASE e = Nil /\ call[p].kind = "find"
  BY <1>1, <1>3 DEF Answered, Return, Goto, Hold, TypeOK, Seen, Searching
<1>4. CASE e = Nil /\ call[p].kind # "find"
  BY <1>1, <1>4 DEF Answered, Goto, Hold, TypeOK, Seen, Searching
<1> QED
  BY <1>2, <1>3, <1>4

LEMMA ScanFileSeen ==
    ASSUME TypeOK, LookupInv, NEW p \in Procs, pc[p] # "idle", ScanFile(p),
           call' = call, window' = window, lines' = lines
    PROVE  Seen(p)' /\ pc'[p] \notin Searching
<1>1. CASE torn
  BY <1>1 DEF ScanFile, Return, Goto, TypeOK, LookupInv, Seen, Searching
<1>2. CASE ~torn
  BY <1>2, AnsweredSeen DEF ScanFile
<1> QED
  BY <1>1, <1>2

LEMMA LookupCalls ==
    ASSUME LookupInv, UniqueInv, TypeInv, ChainInv, NEW p \in Procs, "aggregate" \notin Calls,
           \/ StartAny(p) \/ Finish(p) \/ Crash(p) \/ Acquire(p) \/ Busy(p) \/ Recover(p)
           \/ TearLine(p)
    PROVE  LookupInv'
<1> USE DEF fileVars, derivedVars, boundVars
<1>1. /\ lines' = lines /\ tail' = tail /\ index' = index /\ mtime' \in {mtime, clock}
  BY DEF StartAny, Start, Finish, Crash, Acquire, Busy, Recover, TearLine
<1>2. \A q \in Procs \ {p} : /\ pc'[q] = pc[q] /\ work'[q] = work[q] /\ call'[q] = call[q]
                            /\ window'[q] = window[q]
  BY DEF StartAny, Start, Finish, Crash, Acquire, Busy, Recover, TearLine, Goto, Hold, Return,
         TypeInv, TypeOK
<1>3. Seen(p)' /\ pc'[p] \notin Searching
  <2>1. CASE StartAny(p)
    <3>1. PICK kind \in Calls, s \in Sources \union {NoSource} : Start(p, kind, s)
      BY <2>1 DEF StartAny
    <3>2. pc'[p] \in {"find", "lock"} /\ call'[p].src = s /\ window'[p] = {Scan(lines, s)}
      BY <3>1 DEF Start, Goto, TypeInv, TypeOK
    <3> QED
      BY <1>1, <3>2 DEF Seen, Searching
  <2>2. CASE Finish(p) \/ Crash(p)
    BY <2>2 DEF Finish, Crash, Goto, TypeInv, TypeOK, Seen, Searching
  <2>3. CASE Acquire(p) \/ Busy(p) \/ Recover(p) \/ TearLine(p)
    <3>1. /\ pc'[p] \in {"lookup", "recover", "failed"} /\ pc[p] # "idle" /\ call' = call
          /\ window' = window
      BY <2>3 DEF Acquire, Busy, Recover, TearLine, Return, Goto, TypeInv, TypeOK
    <3> QED
      BY <1>1, <3>1 DEF LookupInv, Seen, Searching
  <2> QED
    BY <2>1, <2>2, <2>3
<1> QED
  BY <1>1, <1>2, <1>3, QuietLookup

\* The lookup under the lock.
LEMMA LookupLookup ==
    ASSUME LookupInv, UniqueInv, TypeInv, ChainInv, NEW p \in Procs, Lookup(p)
    PROVE  LookupInv'
<1> DEFINE s == call[p].src
           opened == index.exists \/ (s # NoSource /\ Len(lines) >= IndexThreshold)
           indexed == opened /\ s # NoSource /\ call[p].kind # "build"
           answers == indexed /\ IndexCovers /\ ~RowRefused(index.rows, s, tail)
           rebuilds == indexed /\ ~IndexCovers /\ ~torn
<1> USE DEF fileVars, derivedVars, boundVars
<1>1. /\ lines' = lines /\ mtime' = mtime /\ call' = call /\ window' = window /\ TypeOK /\ Chain
      /\ index'.rows = index.rows /\ index'.covered = index.covered /\ pc[p] = "lookup"
  BY DEF Lookup, TypeInv, TypeOK, IndexState, ChainInv
<1>2. CASE answers /\ Answered(p, index.rows[s]) /\ UNCHANGED <<tail, nextGen>>
  <2>1. \A q \in Procs \ {p} : pc'[q] = pc[q] /\ work'[q] = work[q] /\ call'[q] = call[q]
    BY <1>1, <1>2, AnsweredAlone DEF Alone
  <2>2. s \in Sources
    BY <1>2 DEF TypeInv, TypeOK, Call
  <2>3. index.rows[s] = Scan(lines, s)
    BY <1>2, <2>2, CoveringIndexExact
  <2>4. Seen(p)' /\ pc'[p] \notin Searching
    BY <1>1, <1>2, <2>3, AnsweredSeen
  <2> QED
    BY <1>1, <1>2, <2>1, <2>4, QuietLookup
<1>3. CASE /\ rebuilds
           /\ IF lines = <<>> THEN UNCHANGED <<tail, nextGen>> ELSE WriteTailState(LastLine)
           /\ Goto(p, "rebuild")
           /\ UNCHANGED <<work, lock>>
  <2>1. pc'[p] = "rebuild"
        /\ \A q \in Procs \ {p} : pc'[q] = pc[q] /\ work'[q] = work[q] /\ call'[q] = call[q]
    BY <1>1, <1>3 DEF Goto, TypeOK
  <2>2. Seen(p)' /\ pc'[p] \notin Searching
    BY <1>1, <2>1 DEF LookupInv, Seen, Searching
  <2>3. tail' = tail \/ TailTrue'
    BY <1>1, <1>3, WrittenTailTrue
  <2> QED
    BY <1>1, <2>1, <2>2, <2>3, QuietLookup
<1>4. CASE ~answers /\ ~rebuilds /\ ScanFile(p) /\ UNCHANGED <<tail, nextGen>>
  <2>1. \A q \in Procs \ {p} : pc'[q] = pc[q] /\ work'[q] = work[q] /\ call'[q] = call[q]
    BY <1>1, <1>4, ScanFileAlone DEF Alone
  <2>2. Seen(p)' /\ pc'[p] \notin Searching
    BY <1>1, <1>4, ScanFileSeen
  <2> QED
    BY <1>1, <1>4, <2>1, <2>2, QuietLookup
<1> QED
  BY <1>2, <1>3, <1>4 DEF Lookup

\* The lookup without the lock: the row read at Cached was right at Find, or became the
\* row of a line written since.
LEMMA LookupFinds ==
    ASSUME LookupInv, UniqueInv, TypeInv, ChainInv, NEW p \in Procs,
           Find(p) \/ Cached(p) \/ Recheck(p)
    PROVE  LookupInv'
<1> USE DEF fileVars, derivedVars, boundVars
<1>1. /\ lines' = lines /\ mtime' = mtime /\ call' = call /\ window' = window /\ TypeOK
      /\ index' = index /\ tail' = tail /\ pc[p] # "idle" /\ call[p].src \in Sources
      /\ call[p].src # NoSource
  BY ConstantsAssumption DEF Find, Cached, Recheck, TypeInv, Held
<1>2. Scan(lines, call[p].src) \in window[p]
  BY <1>1 DEF LookupInv, Seen
<1>3. \A q \in Procs \ {p} : pc'[q] = pc[q] /\ work'[q] = work[q] /\ call'[q] = call[q]
  <2>1. CASE ScanFile(p)
    BY <1>1, <2>1, ScanFileAlone DEF Alone
  <2>2. CASE ~ScanFile(p)
    BY <1>1, <2>2 DEF Find, Cached, Recheck, Goto, Hold, Return, TypeOK
  <2> QED
    BY <2>1, <2>2
<1>4. Seen(p)' /\ pc'[p] \notin Searching
  <2>1. CASE Find(p)
    <3>1. CASE ScanFile(p)
      BY <1>1, <3>1, ScanFileSeen
    <3>2. CASE IndexCovers /\ Goto(p, "cached")
      <4>1. index.rows[call[p].src] = Scan(lines, call[p].src)
        BY <1>1, <3>2, CoveringIndexExact
      <4>2. pc'[p] = "cached"
        BY <1>1, <3>2 DEF Goto, TypeOK
      <4> QED
        BY <1>1, <1>2, <4>1, <4>2 DEF Seen, Searching
    <3>3. CASE Goto(p, "lock")
      <4>1. pc'[p] = "lock"
        BY <1>1, <3>3 DEF Goto, TypeOK
      <4> QED
        BY <1>1, <1>2, <4>1 DEF Seen, Searching
    <3> QED
      BY <2>1, <3>1, <3>2, <3>3 DEF Find
  <2>2. CASE Cached(p)
    <3>1. index.rows[call[p].src] \in window[p]
      BY <2>2 DEF Cached, LookupInv, Seen
    <3>2. \/ pc'[p] = "lock"
          \/ pc'[p] = "recheck" /\ work'[p].event = index.rows[call[p].src]
      BY <1>1, <2>2 DEF Cached, Goto, Hold, TypeOK
    <3> QED
      BY <1>1, <1>2, <3>1, <3>2 DEF Seen, Searching
  <2>3. CASE Recheck(p)
    <3>1. work[p].event \in window[p]
      BY <1>1, <2>3 DEF Recheck, LookupInv, Seen
    <3>2. \/ pc'[p] = "lock"
          \/ pc'[p] = "miss" /\ work[p].event = Nil
          \/ pc'[p] = "hit" /\ work'[p].event = work[p].event
      BY <1>1, <2>3 DEF Recheck, Return, Goto, Hold, TypeOK
    <3> QED
      BY <1>1, <1>2, <3>1, <3>2 DEF Seen, Searching
  <2> QED
    BY <2>1, <2>2, <2>3
<1> QED
  BY <1>1, <1>3, <1>4, QuietLookup

LEMMA LookupTails ==
    ASSUME LookupInv, UniqueInv, TypeInv, ChainInv, NEW p \in Procs,
           ReadLast(p) \/ WriteTail(p) \/ WriteMarker(p)
    PROVE  LookupInv'
<1> USE DEF fileVars, derivedVars, boundVars
<1>1. /\ lines' = lines /\ mtime' = mtime /\ call' = call /\ window' = window /\ TypeOK
      /\ index' = index /\ pc[p] # "idle" /\ Chain
  BY DEF ReadLast, WriteTail, WriteMarker, TypeInv, ChainInv
<1>2. \A q \in Procs \ {p} : pc'[q] = pc[q] /\ work'[q] = work[q] /\ call'[q] = call[q]
  BY <1>1 DEF ReadLast, WriteTail, WriteMarker, Goto, Hold, Return, TypeOK
<1>3. Seen(p)' /\ pc'[p] \notin Searching
  <2>1. CASE ReadLast(p)
    BY <1>1, <2>1 DEF ReadLast, Goto, TypeOK, LookupInv, Seen, Searching
  <2>2. CASE WriteTail(p) \/ WriteMarker(p)
    <3>1. /\ pc[p] \in {"tail", "marker"} /\ pc'[p] \in {"marker", "advance", "failed"}
          /\ pc'[p] # "failed" => work' = work
      BY <1>1, <2>2 DEF WriteTail, WriteMarker, Return, Goto, TypeOK
    <3> QED
      BY <1>1, <3>1 DEF LookupInv, Seen, Searching
  <2> QED
    BY <2>1, <2>2
<1>4. tail' = tail \/ TailTrue'
  <2>1. CASE WriteTail(p)
    <3>1. lines # <<>> /\ WriteTailState(LastLine)
      BY <2>1 DEF WriteTail, UniqueInv, InHand
    <3> QED
      BY <1>1, <3>1, WrittenTailTrue
  <2>2. CASE ReadLast(p) \/ WriteMarker(p)
    BY <1>1, <2>2, WrittenTailTrue DEF ReadLast, WriteMarker
  <2> QED
    BY <2>1, <2>2
<1> QED
  BY <1>1, <1>2, <1>3, <1>4, QuietLookup

\* The lock's holder has put an index in place that covers the whole file and whose rows
\* are its lines; a reader that is about to query it sees what a scan finds.
LEMMA IndexedLookup ==
    ASSUME LookupInv, UniqueInv', TypeInv, TypeInv', NEW p \in Procs, Seen(p)', pc'[p] \notin Searching,
           \A q \in Procs \ {p} : pc'[q] = pc[q] /\ work'[q] = work[q] /\ call'[q] = call[q],
           window' = window, lines' = lines, mtime' = mtime, tail' = tail,
           Backed(Len(lines))', index'.covered # Nil => index'.covered.seq = Len(lines),
           \A s \in Sources : index'.rows[s] \in {index.rows[s], Scan(lines, s)}
    PROVE  LookupInv'
<1>1. TailTrue'
  BY DEF LookupInv, TailTrue
<1>2. BackedSize' /\ BackedLine'
  BY DEF BackedSize, BackedLine
<1>3. ASSUME NEW q \in Procs \ {p} PROVE Seen(q)' /\ pc'[q] \notin Searching
  <2>1. Seen(q) /\ pc[q] \notin Searching /\ (pc[q] = "cached" => call[q].src \in Sources)
    BY DEF LookupInv, TypeInv, Held
  <2>2. pc[q] = "cached" => index'.rows[call[q].src] \in window[q]
    BY <2>1 DEF Seen
  <2> QED
    BY <2>1, <2>2 DEF Seen
<1> QED
  BY <1>1, <1>2, <1>3 DEF LookupInv

LEMMA LookupRebuild ==
    ASSUME LookupInv, UniqueInv, UniqueInv', TypeInv, TypeInv', ChainInv, NEW p \in Procs, Rebuild(p)
    PROVE  LookupInv'
<1> DEFINE s == call[p].src
           current == IF lines = <<>> THEN ZeroTail ELSE tail
           rows == [r \in Sources |-> Scan(lines, r)]
<1> USE DEF fileVars, derivedVars, boundVars
<1>1. /\ lines' = lines /\ mtime' = mtime /\ tail' = tail /\ window' = window /\ pc[p] # "idle"
      /\ call' = call /\ s \in Sources /\ TypeOK /\ lines \in Seq(Event) /\ Len(lines) \in Nat
  BY DEF Rebuild, TypeInv, TypeOK, Held
<1>2. \A q \in Procs \ {p} : pc'[q] = pc[q] /\ work'[q] = work[q] /\ call'[q] = call[q]
  <2>1. CASE ScanFile(p)
    BY <1>1, <2>1, ScanFileAlone DEF Alone
  <2>2. CASE \E e : Answered(p, e)
    BY <1>1, <2>2, AnsweredAlone DEF Alone
  <2> QED
    BY <2>1, <2>2 DEF Rebuild
<1>3. Seen(p)' /\ pc'[p] \notin Searching
  <2>1. CASE ScanFile(p)
    BY <1>1, <2>1, ScanFileSeen
  <2>2. CASE Answered(p, rows[s])
    BY <1>1, <2>2, AnsweredSeen
  <2> QED
    BY <2>1, <2>2 DEF Rebuild
<1>4. CASE lines # <<>> /\ ~TailCurrent(tail)
  <2>1. index' = index
    BY <1>4 DEF Rebuild
  <2> QED
    BY <1>1, <1>2, <1>3, <2>1, QuietLookup
<1>5. CASE ~(lines # <<>> /\ ~TailCurrent(tail))
  <2>1. index'.rows = rows /\ index'.covered = current
    BY <1>5 DEF Rebuild, TypeInv, TypeOK, IndexState
  <2>2. current.seq = Len(lines)
    <3>1. CASE lines = <<>>
      BY <3>1 DEF ZeroTail
    <3>2. CASE lines # <<>>
      <4>1. tail # Nil /\ tail.mtime = mtime /\ tail.size >= 2 * Len(lines)
        BY <1>1, <1>5, <3>2 DEF TailCurrent, Size
      <4> QED
        BY <3>2, <4>1 DEF LookupInv, TailTrue
    <3> QED
      BY <3>1, <3>2
  <2>3. Backed(Len(lines))'
    <3> SUFFICES ASSUME NEW r \in Sources, Scan(lines, r) # Nil
                 PROVE  \E i \in DOMAIN lines : /\ i <= Len(lines) /\ lines[i] = Scan(lines, r)
                                              /\ lines[i].src = r
      BY <1>1, <2>1 DEF Backed
    <3> QED
      BY <1>1, ScanFinds
  <2> HIDE DEF current
  <2>4. \A r \in Sources : index'.rows[r] \in {index.rows[r], Scan(lines, r)}
    BY <2>1
  <2> HIDE DEF rows
  <2> QED
    BY <1>1, <1>2, <1>3, <2>1, <2>2, <2>3, <2>4, IndexedLookup
<1> QED
  BY <1>4, <1>5

LEMMA LookupAdvance ==
    ASSUME LookupInv, UniqueInv, UniqueInv', TypeInv, TypeInv', ChainInv, NEW p \in Procs, Advance(p)
    PROVE  LookupInv'
<1> DEFINE e == work[p].event
<1> USE DEF fileVars, derivedVars, boundVars
<1>1. /\ lines' = lines /\ mtime' = mtime /\ tail' = tail /\ window' = window /\ call' = call
      /\ TypeOK /\ pc[p] = "advance" /\ pc'[p] = "hit" /\ work'[p].event = e
      /\ lines \in Seq(Event) /\ Len(lines) \in Nat
  BY DEF Advance, Return, Goto, Hold, TypeInv, TypeOK
<1>2. \A q \in Procs \ {p} : pc'[q] = pc[q] /\ work'[q] = work[q] /\ call'[q] = call[q]
  BY <1>1, ReturnAlone DEF Advance, Alone
<1>3. Seen(p)' /\ pc'[p] \notin Searching
  BY <1>1 DEF LookupInv, Seen, Searching
<1>4. lines # <<>> /\ e = lines[Len(lines)] /\ Len(lines) \in DOMAIN lines
  BY <1>1 DEF UniqueInv, InHand, LastLine
<1>5. CASE index' = index
  BY <1>1, <1>2, <1>3, <1>5, QuietLookup
<1>6. CASE /\ index.covered # Nil /\ index.covered.seq + 1 = e.seq /\ TailCurrent(tail)
           /\ index.covered.seq > 0 => index.covered.hash = e.prev
           /\ index' = [index EXCEPT !.covered = tail,
                          !.rows = IF e.src = NoSource THEN @ ELSE [@ EXCEPT ![e.src] = e]]
  <2>1. /\ index.rows \in [Sources -> Event \union {Nil}] /\ index.covered \in TailState
        /\ index'.covered = tail
        /\ index'.rows = IF e.src = NoSource THEN index.rows ELSE [index.rows EXCEPT ![e.src] = e]
    BY <1>6 DEF TypeInv, TypeOK, IndexState
  <2>2. tail.seq = Len(lines)
    <3>1. tail # Nil /\ tail.mtime = mtime /\ tail.size >= 2 * Len(lines)
      BY <1>1, <1>6 DEF TailCurrent, Size
    <3> QED
      BY <3>1 DEF LookupInv, TailTrue
  <2>3. Backed(index.covered.seq)
    <3>1. e.seq = Len(lines) /\ e.prev = IF Len(lines) = 1 THEN Genesis ELSE lines[Len(lines) - 1].hash
      BY <1>4 DEF ChainInv, Chain
    <3>2. index.covered.seq \in Nat /\ index.covered.seq + 1 = Len(lines)
      BY <1>6, <2>1, <3>1 DEF TailState
    <3>3. \A a, b \in Nat : a + 1 = b => a = b - 1 /\ (a > 0 => b # 1) /\ a <= b
      OBVIOUS
    <3>4. /\ index.covered.seq = Len(lines) - 1 /\ index.covered.seq <= Len(lines)
          /\ (index.covered.seq > 0 => Len(lines) # 1)
      BY <1>1, <3>2, <3>3, Zenon
    <3>5. index.covered.seq > 0 => lines[index.covered.seq].hash = index.covered.hash
      BY <1>6, <3>1, <3>4, Zenon
    <3> QED
      BY <1>6, <3>4, <3>5 DEF LookupInv, BackedLine
  <2>4. Backed(Len(lines))'
    <3> SUFFICES ASSUME NEW s \in Sources, index'.rows[s] # Nil
                 PROVE  \E i \in DOMAIN lines : /\ i <= Len(lines) /\ lines[i] = index'.rows[s]
                                              /\ lines[i].src = s
      BY <1>1 DEF Backed
    <3>1. CASE e.src = s /\ s # NoSource
      BY <1>1, <1>4, <2>1, <3>1
    <3>2. CASE index'.rows[s] = index.rows[s]
      BY <1>1, <2>3, <3>2 DEF Backed
    <3> QED
      BY <2>1, <3>1, <3>2, ConstantsAssumption
  <2>5. \A s \in Sources : index'.rows[s] \in {index.rows[s], Scan(lines, s)}
    <3>1. e.src # NoSource => Scan(lines, e.src) = e
      BY <1>1, <1>4, ScanOnly DEF UniqueInv
    <3> QED
      BY <2>1, <3>1
  <2> QED
    BY <1>1, <1>2, <1>3, <2>1, <2>2, <2>4, <2>5, IndexedLookup
<1> QED
  BY <1>5, <1>6 DEF Advance, Advanced

LEMMA LookupWriteLine ==
    ASSUME LookupInv, UniqueInv, UniqueInv', TypeInv, TypeInv', ChainInv, NEW p \in Procs, WriteLine(p)
    PROVE  LookupInv'
<1> DEFINE e == NextEvent(p, work[p].last)
           n == Len(lines) + 1
<1> USE DEF fileVars, derivedVars, boundVars
<1>1. /\ lines' = Append(lines, e) /\ mtime' = clock /\ tail' = tail /\ index' = index
      /\ call' = call /\ pc'[p] = "tail" /\ work'[p].event = e /\ pc[p] = "write" /\ e.src = call[p].src
      /\ \A q \in Procs \ {p} : pc'[q] = pc[q] /\ work'[q] = work[q]
  BY DEF WriteLine, Hold, Goto, NextEvent, TypeInv, TypeOK
<1>2. /\ lines \in Seq(Event) /\ mtime \in Nat /\ clock \in Nat /\ writes \in Nat
      /\ tail \in TailState \union {Nil} /\ index.covered \in TailState \union {Nil}
      /\ mtime <= clock /\ Old(tail) /\ Old(index.covered) /\ e.hash = writes + 1
  BY DEF TypeInv, TypeOK, IndexState, UniqueInv, Ages, NextEvent
<1>3. \A q \in Procs : window'[q] = IF pc[q] = "idle" THEN {}
                                    ELSE window[q] \union {Scan(lines', call[q].src)}
  BY DEF WriteLine, Observe
<1> HIDE DEF e
<1>4. /\ DOMAIN lines' = 1 .. n /\ lines'[n] = e /\ n \in Nat /\ Len(lines') = n /\ n = Len(lines) + 1
      /\ \A i \in DOMAIN lines : lines'[i] = lines[i] /\ i \in 1 .. n
  BY <1>1, <1>2
<1>5. \A t \in TailState \union {Nil} : Old(t) /\ t # Nil /\ t.mtime = mtime' => t.mtime = mtime
  BY <1>1, <1>2 DEF Old, TailState
<1>6. TailTrue'
  <2> SUFFICES ASSUME tail # Nil, tail.mtime = mtime'
               PROVE  tail.size <= 2 * n + 1 /\ ~(tail.size >= 2 * n)
    BY <1>1, <1>4 DEF TailTrue
  <2>1. tail.size <= 2 * Len(lines) + 1 /\ tail.size \in Nat
    BY <1>2, <1>5 DEF LookupInv, TailTrue, TailState
  <2> QED
    BY <1>2, <2>1
<1>7. BackedSize'
  <2> SUFFICES ASSUME index.covered # Nil, index.covered.mtime = mtime'
               PROVE  ~(index.covered.size >= 2 * n)
    BY <1>1, <1>4 DEF BackedSize
  <2>1. index.covered.size <= 2 * Len(lines) + 1 /\ index.covered.size \in Nat
    BY <1>2, <1>5 DEF UniqueInv, CoversSize, TailState
  <2> QED
    BY <1>2, <2>1
<1>8. BackedLine'
  <2> SUFFICES ASSUME index.covered # Nil, index.covered.seq <= n,
                      index.covered.seq > 0 => lines'[index.covered.seq].hash = index.covered.hash
               PROVE  Backed(index.covered.seq)'
    BY <1>1, <1>4 DEF BackedLine
  <2>1. index.covered.hash <= writes /\ index.covered.hash \in Nat /\ index.covered.seq \in Nat
    BY <1>2 DEF Old, TailState
  <2>2. index.covered.seq # n
    BY <1>2, <1>4, <2>1
  <2>3. index.covered.seq <= Len(lines)
    BY <1>2, <1>4, <2>1, <2>2
  <2>4. index.covered.seq > 0 => lines[index.covered.seq].hash = index.covered.hash
    BY <1>2, <1>4, <2>1, <2>3
  <2>5. Backed(index.covered.seq)
    BY <2>3, <2>4 DEF LookupInv, BackedLine
  <2> QED
    BY <1>1, <1>4, <2>5 DEF Backed
<1>9. Seen(p)' /\ pc'[p] \notin Searching
  <2>1. Scan(lines', call[p].src) \in window'[p]
    BY <1>1, <1>3
  <2>2. call[p].src # NoSource => Scan(lines', call[p].src) = e
    <3> SUFFICES ASSUME call[p].src # NoSource PROVE Scan(lines', call[p].src) = e
      OBVIOUS
    <3>1. UniqueSources' /\ lines' \in Seq(Event) /\ n \in DOMAIN lines' /\ lines'[n].src = call[p].src
      BY <1>1, <1>4 DEF UniqueInv, TypeInv, TypeOK
    <3>2. \A j \in DOMAIN lines' : lines'[j].src = lines'[n].src => j = n
      BY <3>1 DEF UniqueSources
    <3> QED
      BY <1>4, <3>1, <3>2, ScanAlone
  <2> QED
    BY <1>1, <2>1, <2>2 DEF Seen, Searching
<1>10. ASSUME NEW q \in Procs \ {p} PROVE Seen(q)' /\ pc'[q] \notin Searching
  <2>1. Seen(q) /\ pc[q] \notin Searching
    BY DEF LookupInv
  <2>2. pc[q] # "idle" => window[q] \subseteq window'[q] /\ Scan(lines', call[q].src) \in window'[q]
    BY <1>3
  <2> QED
    BY <1>1, <2>1, <2>2 DEF Seen
<1> QED
  BY <1>6, <1>7, <1>8, <1>9, <1>10 DEF LookupInv

LEMMA LookupEnvironment ==
    ASSUME LookupInv, UniqueInv, TypeInv, TypeInv', Chop \/ Tick \/ UNCHANGED vars
    PROVE  LookupInv'
<1> USE DEF fileVars, derivedVars, boundVars
<1>1. CASE Chop
  <2>1. PICK n \in 0 .. Len(lines) - 1 : lines' = SubSeq(lines, 1, n)
    BY <1>1 DEF Chop
  <2>2. /\ mtime' = clock /\ mtime < clock /\ tail' = tail /\ index' = index
        /\ lines \in Seq(Event) /\ mtime \in Nat /\ clock \in Nat
        /\ tail \in TailState \union {Nil} /\ index.covered \in TailState \union {Nil}
        /\ Old(tail) /\ Old(index.covered)
    BY <1>1 DEF Chop, TypeInv, TypeOK, IndexState, UniqueInv, Ages
  <2>3. /\ n \in Nat /\ n <= Len(lines) /\ DOMAIN lines' = 1 .. n /\ Len(lines') = n
        /\ \A i \in 1 .. n : lines'[i] = lines[i] /\ i \in DOMAIN lines
    BY <2>1, <2>2
  <2>4. \A t \in TailState \union {Nil} : Old(t) /\ t # Nil => t.mtime # mtime'
    BY <2>2 DEF Old, TailState
  <2>5. TailTrue' /\ BackedSize'
    BY <2>2, <2>4 DEF TailTrue, BackedSize
  <2>6. BackedLine'
    <3> SUFFICES ASSUME index.covered # Nil, index.covered.seq <= n,
                        index.covered.seq > 0 => lines'[index.covered.seq].hash = index.covered.hash
                 PROVE  Backed(index.covered.seq)'
      BY <2>2, <2>3 DEF BackedLine
    <3>1. index.covered.seq \in Nat /\ Len(lines) \in Nat
      BY <2>2 DEF TailState
    <3>2. index.covered.seq > 0 => lines[index.covered.seq].hash = index.covered.hash
      BY <2>3, <3>1
    <3>3. Backed(index.covered.seq)
      BY <2>3, <3>1, <3>2 DEF LookupInv, BackedLine
    <3>4. \A i \in DOMAIN lines : i <= index.covered.seq => i \in 1 .. n
      BY <2>2, <2>3, <3>1
    <3> QED
      BY <2>2, <2>3, <3>3, <3>4 DEF Backed
  <2>7. \A p \in Procs : Seen(p)' /\ pc'[p] \notin Searching
    BY <1>1 DEF Chop, Seen, Searching
  <2> QED
    BY <2>5, <2>6, <2>7 DEF LookupInv
<1>2. CASE Tick \/ UNCHANGED vars
  <2>1. /\ lines' = lines /\ mtime' = mtime /\ tail' = tail /\ index' = index
        /\ pc' = pc /\ work' = work /\ call' = call /\ window' = window
    BY <1>2 DEF Tick, vars
  <2> QED
    BY <2>1 DEF LookupInv, TailTrue, BackedSize, BackedLine, Backed, Seen
<1> QED
  BY <1>1, <1>2

LEMMA LookupNext ==
    ASSUME "aggregate" \notin Calls, LookupInv, UniqueInv, UniqueInv', TypeInv, TypeInv', ChainInv,
           [Next]_vars
    PROVE  LookupInv'
<1>1. ASSUME NEW p \in Procs, \/ Aggregate(p) \/ AggregateScan(p) \/ Refresh(p)
                              \/ Stat(p) \/ Install(p) \/ Mark(p)
      PROVE  FALSE
  <2>1. pc[p] \in Searching
    BY <1>1 DEF Aggregate, AggregateScan, Refresh, Stat, Install, Mark, Searching
  <2> QED
    BY <2>1 DEF LookupInv
<1> QED
  BY <1>1, LookupCalls, LookupLookup, LookupFinds, LookupTails, LookupRebuild, LookupAdvance,
     LookupWriteLine, LookupEnvironment DEF Next, Step, Environment

\* Where nobody searches the aggregate log, as in the program, every answer of a lookup
\* was right at some moment of the call, and a current index lists exactly the lines with
\* a source; the lookup without the lock relies on no more than two looks at the tail state.
THEOREM LookupsHold ==
    ASSUME "aggregate" \notin Calls
    PROVE  Spec => []LookupsTrue
<1>1. UniqueInv /\ LookupInv /\ TypeInv => LookupsTrue
  <2> SUFFICES ASSUME UniqueInv, LookupInv, TypeInv PROVE LookupsTrue
    OBVIOUS
  <2>1. UniqueSources
    BY DEF UniqueInv
  <2>2. AnswersLinearizable
    BY DEF LookupInv, Seen, AnswersLinearizable
  <2>3. IndexComplete
    BY CurrentIndexExact DEF IndexComplete
  <2> QED
    BY <2>1, <2>2, <2>3 DEF LookupsTrue
<1>2. LookupInv /\ TypeInv /\ ChainInv /\ UniqueInv /\ (TypeInv /\ ChainInv /\ UniqueInv)' /\ [Next]_vars
        => LookupInv'
  BY LookupNext
<1>3. Spec => []LookupInv
  BY <1>2, LookupInit, AllInvariants, PTL DEF Spec
<1> QED
  BY <1>1, <1>3, AllInvariants, PTL
=============================================================================
