------------------------------ MODULE EventLog ------------------------------
(***************************************************************************)
(* One durable event stream of internal/events: the append-only file       *)
(* <session>/<stream>.jsonl and what is derived from it (the tail state,   *)
(* the source markers and the source index), used by several processes.    *)
(*                                                                         *)
(* Append holds the stream's file lock.  FindSourceID runs without it when *)
(* the file is small or the index is current, and the aggregate lookup     *)
(* repairs derived files without ever taking it.  A process may be killed, *)
(* or a write may fail, between any two file operations.                   *)
(*                                                                         *)
(* A hash is a fresh number per event: SHA-256 is taken as collision free. *)
(* A size counts two units per line and one for a trailing partial line.   *)
(***************************************************************************)
EXTENDS Naturals, Sequences, FiniteSets

CONSTANTS
    Procs,          \* processes that use the stream
    Sources,        \* source identifiers callers deduplicate by
    NoSource,       \* the empty SourceID
    NoProc,         \* nobody holds the stream lock
    Nil,            \* a missing file, row or event
    Calls,          \* kinds of call the processes make, a subset of CallKinds
    IndexThreshold, \* lines from which the source index is used (1 MiB)
    MaxWrites,      \* bound: lines ever written
    MaxCrashes,     \* bound: kills and failed writes
    MaxChops,       \* bound: times the file is replaced by a prefix
    MaxClock        \* bound: ticks of the file system's clock

CallKinds == {"append", "build", "find", "aggregate"}

ASSUME ConstantsAssumption ==
    /\ NoSource \notin Sources
    /\ NoProc \notin Procs
    /\ Calls \subseteq CallKinds
    /\ {IndexThreshold, MaxWrites, MaxCrashes, MaxChops, MaxClock} \subseteq Nat

VARIABLES
    lines,   \* complete lines of the file, each a decoded event
    torn,    \* the file ends in a partial line
    mtime,   \* modification time of the file
    clock,   \* the file system's clock
    tail,    \* tail state file
    nextGen, \* source of random generations
    marker,  \* source marker file of each source
    index,   \* SQLite source index: rows and the tail state they cover
    lock,    \* holder of <stream>.jsonl.lock
    pc,      \* where each process is in its call
    call,    \* the call: its kind and its SourceID
    work,    \* what the call read and has not written yet
    window,  \* history: answers that were right at some time during the call
    writes, crashes, chops

vars == <<lines, torn, mtime, clock, tail, nextGen, marker, index, lock,
          pc, call, work, window, writes, crashes, chops>>
fileVars    == <<lines, torn, mtime, writes>>
derivedVars == <<tail, nextGen, marker, index>>
boundVars   == <<clock, crashes, chops>>

Genesis == 0

Event == [seq : Nat, src : Sources \union {NoSource}, prev : Nat, hash : Nat]

TailState == [gen : Nat, seq : Nat, hash : Nat, size : Nat, mtime : Nat]

ZeroTail == [gen |-> 0, seq |-> 0, hash |-> Genesis, size |-> 0, mtime |-> 0]

ASSUME NilAssumption == Nil \notin Event /\ Nil \notin TailState

SourceMarker == [gen : Nat, event : Event]

IndexState == [exists : BOOLEAN, rows : [Sources -> Event \union {Nil}],
               covered : TailState \union {Nil}]

Call == [kind : CallKinds \union {"none"}, src : Sources \union {NoSource}]

Work == [last : Event \union {Nil}, event : Event \union {Nil}, tail : TailState \union {Nil}]

NoWork == [last |-> Nil, event |-> Nil, tail |-> Nil]

NoCall == [kind |-> "none", src |-> NoSource]

Labels == {"idle", "lock", "recover", "lookup", "rebuild", "last", "write", "tail", "marker",
           "advance", "find", "cached", "recheck", "aggregate", "scan", "refresh", "stat",
           "install", "mark", "hit", "miss", "failed"}

----------------------------------------------------------------------------
(* What the code reads from the file                                       *)

Size(ls, partial) == 2 * Len(ls) + (IF partial THEN 1 ELSE 0)

LastLine == IF lines = <<>> THEN Nil ELSE lines[Len(lines)]

\* The newest line with this source: readBytes and the loops over its result.
Scan(ls, s) ==
    LET found == {i \in DOMAIN ls : ls[i].src = s}
    IN  IF s = NoSource \/ found = {} THEN Nil
        ELSE ls[CHOOSE i \in found : \A j \in found : j <= i]

\* Mutant of TailCurrent: the modification time is not compared.
TailSameSize(t) == t # Nil /\ t.size = Size(lines, torn)

\* currentTailState: the tail state is believed while it has the file's size and time.
TailCurrent(t) == t # Nil /\ t.size = Size(lines, torn) /\ t.mtime = mtime

\* sourceIndexCoversTailState
IndexCovers == TailCurrent(tail) /\ index.covered = tail

\* useSourceIndex
UseIndex == index.exists \/ Len(lines) >= IndexThreshold

----------------------------------------------------------------------------
(* Derived files                                                           *)

\* The generation writeTailState keeps: that of a tail state for this event or
\* for its predecessor.
Continues(t, e) ==
    /\ t # Nil
    /\ \/ t.seq = e.seq /\ t.hash = e.hash
       \/ t.seq + 1 = e.seq /\ t.hash = e.prev

TailFor(t, e, size, time) ==
    [gen |-> IF Continues(t, e) THEN t.gen ELSE nextGen,
     seq |-> e.seq, hash |-> e.hash, size |-> size, mtime |-> time]

WriteTailState(e) ==
    /\ tail' = TailFor(tail, e, Size(lines, torn), mtime)
    /\ nextGen' = IF Continues(tail, e) THEN nextGen ELSE nextGen + 1

\* The marker check of FindSourceID.
MarkerTrusted(s) ==
    /\ marker[s] # Nil
    /\ TailCurrent(tail)
    /\ marker[s].gen = tail.gen
    /\ marker[s].event.seq <= tail.seq

\* readIndexedSource: a row newer than the tail state it is read against is refused.
RowRefused(rows, s, t) == rows[s] # Nil /\ rows[s].seq > t.seq

\* advanceSourceIndex: only an index that covers the preceding event moves on.
Advanced(ix, e) ==
    IF /\ ix.exists
       /\ ix.covered # Nil
       /\ ix.covered.seq + 1 = e.seq
       /\ TailCurrent(tail)
       /\ ix.covered.seq > 0 => ix.covered.hash = e.prev /\ ix.covered.gen = tail.gen
    THEN [ix EXCEPT !.covered = tail,
                    !.rows = IF e.src = NoSource THEN @ ELSE [@ EXCEPT ![e.src] = e]]
    ELSE ix

----------------------------------------------------------------------------
Init ==
    /\ lines = <<>> /\ torn = FALSE /\ mtime = 0 /\ clock = 0
    /\ tail = Nil /\ nextGen = 1
    /\ marker = [s \in Sources |-> Nil]
    /\ index = [exists |-> FALSE, rows |-> [s \in Sources |-> Nil], covered |-> Nil]
    /\ lock = NoProc
    /\ pc = [p \in Procs |-> "idle"]
    /\ call = [p \in Procs |-> NoCall]
    /\ work = [p \in Procs |-> NoWork]
    /\ window = [p \in Procs |-> {}]
    /\ writes = 0 /\ crashes = 0 /\ chops = 0

\* Every call still running sees the file change.
Observe(ls) ==
    window' = [q \in Procs |-> IF pc[q] = "idle" THEN {}
                               ELSE window[q] \union {Scan(ls, call[q].src)}]

Goto(p, label) == pc' = [pc EXCEPT ![p] = label]

Hold(p, last, event, t) ==
    work' = [work EXCEPT ![p] = [last |-> last, event |-> event, tail |-> t]]

Unlocked(p) == IF lock = p THEN NoProc ELSE lock

\* The call returns: "hit" with an event, "miss", or "failed" with an error.
Return(p, outcome, e) ==
    /\ Goto(p, outcome)
    /\ Hold(p, Nil, e, Nil)
    /\ lock' = Unlocked(p)

\* Appends that may still write a line; only the bound MaxWrites looks at this.
Pending == {p \in Procs : /\ call[p].kind \in {"append", "build"}
                          /\ pc[p] \in {"lock", "recover", "lookup", "rebuild", "last", "write"}}

\* A caller starts Append, with a payload or with BuildPayload, or a lookup.
Start(p, kind, s) ==
    /\ pc[p] = "idle"
    /\ kind \in {"find", "aggregate"} => s # NoSource
    /\ kind \in {"append", "build"} /\ Scan(lines, s) = Nil
         => writes + Cardinality(Pending) < MaxWrites
    /\ call' = [call EXCEPT ![p] = [kind |-> kind, src |-> s]]
    /\ window' = [window EXCEPT ![p] = {Scan(lines, s)}]
    /\ Goto(p, CASE kind = "find" -> "find"
                 [] kind = "aggregate" -> "aggregate"
                 [] OTHER -> "lock")
    /\ UNCHANGED <<fileVars, derivedVars, boundVars, lock, work>>

\* The caller has the result; the process makes its next call later.
Finish(p) ==
    /\ pc[p] \in {"hit", "miss", "failed"}
    /\ Goto(p, "idle")
    /\ call' = [call EXCEPT ![p] = NoCall]
    /\ Hold(p, Nil, Nil, Nil)
    /\ window' = [window EXCEPT ![p] = {}]
    /\ UNCHANGED <<fileVars, derivedVars, boundVars, lock>>

----------------------------------------------------------------------------
(* The stream lock                                                         *)

Acquire(p) ==
    /\ pc[p] = "lock" /\ lock = NoProc
    /\ lock' = p
    /\ Goto(p, IF call[p].kind = "find" THEN "lookup" ELSE "recover")
    /\ UNCHANGED <<fileVars, derivedVars, boundVars, call, work, window>>

\* filelock.Acquire gives up after 30 seconds with ErrBusy.
Busy(p) ==
    /\ pc[p] = "lock" /\ lock # NoProc
    /\ Return(p, "failed", Nil)
    /\ UNCHANGED <<fileVars, derivedVars, boundVars, call, window>>

----------------------------------------------------------------------------
(* Append                                                                  *)

\* Mutant of Recover: the file is cut one line too early.
RecoverDropsLine(p) ==
    /\ pc[p] = "recover"
    /\ torn' = FALSE
    /\ lines' = IF torn /\ lines # <<>> THEN SubSeq(lines, 1, Len(lines) - 1) ELSE lines
    /\ mtime' = IF torn THEN clock ELSE mtime
    /\ Goto(p, "lookup")
    /\ UNCHANGED <<writes, derivedVars, boundVars, lock, call, work, window>>

\* recoverTrailingPartialPath
Recover(p) ==
    /\ pc[p] = "recover"
    /\ torn' = FALSE
    /\ mtime' = IF torn THEN clock ELSE mtime
    /\ Goto(p, "lookup")
    /\ UNCHANGED <<lines, writes, derivedVars, boundVars, lock, call, work, window>>

\* What a lookup under the lock does with its answer.
Answered(p, e) ==
    IF e # Nil THEN Return(p, "hit", e)
    ELSE IF call[p].kind = "find" THEN Return(p, "miss", Nil)
    ELSE /\ Goto(p, IF call[p].kind = "build" THEN "write" ELSE "last")
         /\ Hold(p, IF call[p].kind = "build" THEN LastLine ELSE Nil, Nil, Nil)
         /\ UNCHANGED lock

\* Append with BuildPayload reads the whole file; so does findSourceInStream
\* without an index, and with an index whose row is refused.
ScanFile(p) == IF torn THEN Return(p, "failed", Nil)
               ELSE Answered(p, Scan(lines, call[p].src))

\* The source check of Append and of the locked path of FindSourceID.  An index
\* that does not cover the tail state is rebuilt: first the tail state, see Rebuild.
Lookup(p) ==
    LET s == call[p].src
        opened == index.exists \/ (s # NoSource /\ Len(lines) >= IndexThreshold)
        indexed == opened /\ s # NoSource /\ call[p].kind # "build"
        answers == indexed /\ IndexCovers /\ ~RowRefused(index.rows, s, tail)
        rebuilds == indexed /\ ~IndexCovers /\ ~torn
    IN  /\ pc[p] = "lookup"
        /\ index' = [index EXCEPT !.exists = opened]
        /\ \/ /\ answers
              /\ Answered(p, index.rows[s])
              /\ UNCHANGED <<tail, nextGen>>
           \/ /\ rebuilds
              /\ IF lines = <<>> THEN UNCHANGED <<tail, nextGen>> ELSE WriteTailState(LastLine)
              /\ Goto(p, "rebuild")
              /\ UNCHANGED <<work, lock>>
           \/ /\ ~answers /\ ~rebuilds
              /\ ScanFile(p)
              /\ UNCHANGED <<tail, nextGen>>
        /\ UNCHANGED <<fileVars, marker, boundVars, call, window>>

\* The rebuild transaction of querySourceIndex and the read that follows it.
Rebuild(p) ==
    LET s == call[p].src
        current == IF lines = <<>> THEN ZeroTail ELSE tail
        rows == [r \in Sources |-> Scan(lines, r)]
    IN  /\ pc[p] = "rebuild"
        /\ IF lines # <<>> /\ ~TailCurrent(tail)
           THEN ScanFile(p) /\ UNCHANGED index
           ELSE /\ index' = [index EXCEPT !.rows = rows, !.covered = current]
                /\ IF RowRefused(rows, s, current) THEN ScanFile(p) ELSE Answered(p, rows[s])
        /\ UNCHANGED <<fileVars, tail, nextGen, marker, boundVars, call, window>>

\* Mutant of ReadLast: the tail state is taken for the last line.
ReadLastFromTail(p) ==
    /\ pc[p] = "last"
    /\ Hold(p, IF tail = Nil THEN LastLine
               ELSE [seq |-> tail.seq, src |-> NoSource, prev |-> 0, hash |-> tail.hash],
            Nil, Nil)
    /\ Goto(p, "write")
    /\ UNCHANGED <<fileVars, derivedVars, boundVars, lock, call, window>>

\* readLastForAppend: a current tail state that names the last line saves the
\* full read; otherwise the file is read and the tail state rewritten.
ReadLast(p) ==
    /\ pc[p] = "last"
    /\ IF \/ lines = <<>>
          \/ TailCurrent(tail) /\ LastLine.seq = tail.seq /\ LastLine.hash = tail.hash
       THEN UNCHANGED <<tail, nextGen>>
       ELSE WriteTailState(LastLine)
    /\ Hold(p, LastLine, Nil, Nil)
    /\ Goto(p, "write")
    /\ UNCHANGED <<fileVars, marker, index, boundVars, lock, call, window>>

\* The event that follows last.
NextEvent(p, last) ==
    [seq |-> IF last = Nil THEN 1 ELSE last.seq + 1,
     src |-> call[p].src,
     prev |-> IF last = Nil THEN Genesis ELSE last.hash,
     hash |-> writes + 1]

\* The whole line reaches the file, and Sync returns.
WriteLine(p) ==
    LET e == NextEvent(p, work[p].last)
    IN  /\ pc[p] = "write"
        /\ lines' = Append(lines, e)
        /\ mtime' = clock /\ writes' = writes + 1
        /\ Hold(p, work[p].last, e, Nil)
        /\ Observe(lines')
        /\ Goto(p, "tail")
        /\ UNCHANGED <<torn, derivedVars, boundVars, lock, call>>

\* A kill or a failed write leaves part of the line.
TearLine(p) ==
    /\ pc[p] = "write" /\ crashes < MaxCrashes
    /\ torn' = TRUE /\ mtime' = clock /\ crashes' = crashes + 1
    /\ Return(p, "failed", Nil)
    /\ UNCHANGED <<lines, writes, derivedVars, clock, chops, call, window>>

WriteTail(p) ==
    /\ pc[p] = "tail"
    /\ WriteTailState(work[p].event)
    /\ Goto(p, IF call[p].src = NoSource THEN "advance" ELSE "marker")
    /\ UNCHANGED <<fileVars, marker, index, boundVars, lock, call, work, window>>

\* writeSourceMarker refuses to write against a tail state that is not current.
WriteMarker(p) ==
    /\ pc[p] = "marker"
    /\ IF TailCurrent(tail)
       THEN /\ marker' = [marker EXCEPT ![call[p].src] =
                              [gen |-> tail.gen, event |-> work[p].event]]
            /\ Goto(p, "advance")
            /\ UNCHANGED <<lock, work>>
       ELSE Return(p, "failed", Nil) /\ UNCHANGED marker
    /\ UNCHANGED <<fileVars, tail, nextGen, index, boundVars, call, window>>

Advance(p) ==
    /\ pc[p] = "advance"
    /\ index' = Advanced(index, work[p].event)
    /\ Return(p, "hit", work[p].event)
    /\ UNCHANGED <<fileVars, tail, nextGen, marker, boundVars, call, window>>

----------------------------------------------------------------------------
(* FindSourceID on one stream                                              *)

\* A small log is scanned.  A large one is answered from the index when the
\* tail state was current and covered; the check is repeated after the query.
Find(p) ==
    /\ pc[p] = "find"
    /\ IF ~UseIndex THEN ScanFile(p)
       ELSE IF IndexCovers
       THEN /\ Goto(p, "cached")
            /\ Hold(p, Nil, Nil, tail)
            /\ UNCHANGED lock
       ELSE Goto(p, "lock") /\ UNCHANGED <<work, lock>>
    /\ UNCHANGED <<fileVars, derivedVars, boundVars, call, window>>

\* The query of cachedSource, against whatever the index now holds.
Cached(p) ==
    LET row == index.rows[call[p].src]
    IN  /\ pc[p] = "cached"
        /\ IF RowRefused(index.rows, call[p].src, work[p].tail)
           THEN Goto(p, "lock") /\ Hold(p, Nil, Nil, Nil)
           ELSE Goto(p, "recheck") /\ Hold(p, Nil, row, work[p].tail)
        /\ UNCHANGED <<fileVars, derivedVars, boundVars, lock, call, window>>

Recheck(p) ==
    /\ pc[p] = "recheck"
    /\ IF TailCurrent(tail) /\ tail = work[p].tail
       THEN Return(p, IF work[p].event = Nil THEN "miss" ELSE "hit", work[p].event)
       ELSE Goto(p, "lock") /\ Hold(p, Nil, Nil, Nil) /\ UNCHANGED lock
    /\ UNCHANGED <<fileVars, derivedVars, boundVars, call, window>>

----------------------------------------------------------------------------
(* FindSourceID on the aggregate log: no lock is ever taken                *)

Aggregate(p) ==
    LET s == call[p].src
    IN  /\ pc[p] = "aggregate"
        /\ IF MarkerTrusted(s)
           THEN Return(p, "hit", marker[s].event) /\ UNCHANGED marker
           ELSE /\ marker' = [marker EXCEPT ![s] = Nil]
                /\ Goto(p, "scan")
                /\ UNCHANGED <<work, lock>>
        /\ UNCHANGED <<fileVars, tail, nextGen, index, boundVars, call, window>>

AggregateScan(p) ==
    LET e == Scan(lines, call[p].src)
    IN  /\ pc[p] = "scan"
        /\ IF torn THEN Return(p, "failed", Nil)
           ELSE IF e = Nil THEN Return(p, "miss", Nil)
           ELSE /\ Goto(p, "refresh")
                /\ Hold(p, Nil, e, Nil)
                /\ UNCHANGED lock
        /\ UNCHANGED <<fileVars, derivedVars, boundVars, call, window>>

\* refreshTailState reads the file again; its writeTailState then stats the file
\* (Stat) and installs what it computed (Install), while writers go on.
Refresh(p) ==
    /\ pc[p] = "refresh"
    /\ IF torn THEN Return(p, "failed", Nil)
       ELSE /\ Goto(p, "stat")
            /\ Hold(p, LastLine, work[p].event, Nil)
            /\ UNCHANGED lock
    /\ UNCHANGED <<fileVars, derivedVars, boundVars, call, window>>

Stat(p) ==
    LET last == work[p].last
    IN  /\ pc[p] = "stat"
        /\ Hold(p, Nil, work[p].event, TailFor(tail, last, Size(lines, torn), mtime))
        /\ nextGen' = IF Continues(tail, last) THEN nextGen ELSE nextGen + 1
        /\ Goto(p, "install")
        /\ UNCHANGED <<fileVars, tail, marker, index, boundVars, lock, call, window>>

Install(p) ==
    /\ pc[p] = "install"
    /\ tail' = work[p].tail
    /\ Goto(p, "mark")
    /\ UNCHANGED <<fileVars, nextGen, marker, index, boundVars, lock, call, work, window>>

Mark(p) ==
    /\ pc[p] = "mark"
    /\ IF TailCurrent(tail)
       THEN /\ marker' = [marker EXCEPT ![call[p].src] =
                              [gen |-> tail.gen, event |-> work[p].event]]
            /\ Return(p, "hit", work[p].event)
       ELSE Return(p, "failed", Nil) /\ UNCHANGED marker
    /\ UNCHANGED <<fileVars, tail, nextGen, index, boundVars, call, window>>

----------------------------------------------------------------------------
(* The environment                                                         *)

\* A process is killed, or an operation fails and the call gives up: the system
\* releases its lock and what it wrote stays.
Crash(p) ==
    /\ pc[p] \notin {"idle", "hit", "miss", "failed"} /\ crashes < MaxCrashes
    /\ crashes' = crashes + 1
    /\ Goto(p, "idle")
    /\ lock' = Unlocked(p)
    /\ call' = [call EXCEPT ![p] = NoCall]
    /\ Hold(p, Nil, Nil, Nil)
    /\ window' = [window EXCEPT ![p] = {}]
    /\ UNCHANGED <<fileVars, derivedVars, clock, chops>>

\* Nobody is running and the file is replaced by an older copy of itself.
Chop ==
    /\ \A p \in Procs : pc[p] = "idle"
    /\ chops < MaxChops /\ clock > mtime
    /\ \E n \in 0 .. Len(lines) - 1 : lines' = SubSeq(lines, 1, n)
    /\ torn' = FALSE /\ mtime' = clock /\ chops' = chops + 1
    /\ UNCHANGED <<writes, derivedVars, clock, crashes, lock, pc, call, work, window>>

Tick ==
    /\ clock < MaxClock
    /\ clock' = clock + 1
    /\ UNCHANGED <<fileVars, derivedVars, crashes, chops, lock, pc, call, work, window>>

Step(p) ==
    \/ Finish(p) \/ Acquire(p)
    \/ Recover(p) \/ Lookup(p) \/ Rebuild(p) \/ ReadLast(p)
    \/ WriteLine(p) \/ WriteTail(p) \/ WriteMarker(p) \/ Advance(p)
    \/ Find(p) \/ Cached(p) \/ Recheck(p)
    \/ Aggregate(p) \/ AggregateScan(p)
    \/ Refresh(p) \/ Stat(p) \/ Install(p) \/ Mark(p)

StartAny(p) == \E kind \in Calls, s \in Sources \union {NoSource} : Start(p, kind, s)

Environment == Chop \/ Tick

Next ==
    \/ \E p \in Procs : StartAny(p) \/ Step(p) \/ Busy(p) \/ TearLine(p) \/ Crash(p)
    \/ Environment

Spec == Init /\ [][Next]_vars

StartAppend(p) == \E s \in Sources \union {NoSource} : Start(p, "append", s)

AcquireForAppend(p) == call[p].kind = "append" /\ Acquire(p)

\* Nobody holds the lock for as long as 30 seconds.
PromptNext ==
    \/ \E p \in Procs : StartAny(p) \/ Step(p) \/ TearLine(p) \/ Crash(p)
    \/ Environment

\* A live process carries its call through in far less than the 30 seconds after
\* which Acquire gives up, and an Append gets the lock it polls for; the agent's
\* hooks go on, so each process appends again and again.
FairSpec ==
    /\ Init /\ [][PromptNext]_vars
    /\ \A p \in Procs : /\ WF_vars(Step(p))
                        /\ SF_vars(AcquireForAppend(p))
                        /\ SF_vars(StartAppend(p))

----------------------------------------------------------------------------
\* Every variable is of its type: no derived file or call ever holds a value that
\* the code could not decode.
TypeOK ==
    /\ lines \in Seq(Event) /\ torn \in BOOLEAN
    /\ {mtime, clock, nextGen, writes, crashes, chops} \subseteq Nat
    /\ tail \in TailState \union {Nil}
    /\ marker \in [Sources -> SourceMarker \union {Nil}]
    /\ index \in IndexState
    /\ lock \in Procs \union {NoProc}
    /\ pc \in [Procs -> Labels]
    /\ call \in [Procs -> Call]
    /\ work \in [Procs -> Work]
    /\ window \in [Procs -> SUBSET (Event \union {Nil})]

\* Every line is the successor of the line before it: what readBytes verifies
\* and Append must keep, although it usually reads the last line only.
Chain ==
    \A i \in DOMAIN lines :
        /\ lines[i].seq = i
        /\ lines[i].prev = IF i = 1 THEN Genesis ELSE lines[i - 1].hash

\* No two lines carry the same SourceID, whatever the index answered Append.
UniqueSources ==
    \A i, j \in DOMAIN lines :
        lines[i].src = lines[j].src /\ lines[i].src # NoSource => i = j

\* A call's answer was right at some moment while the call ran: an event that
\* was there is not missed, and an event that was never there is not returned.
AnswersLinearizable ==
    \A p \in Procs :
        /\ pc[p] = "miss" => Nil \in window[p]
        /\ pc[p] = "hit" /\ call[p].src # NoSource => work[p].event \in window[p]

\* An index that covers a current tail state naming the last line holds
\* exactly the lines with a source.
IndexComplete ==
    index.covered # Nil /\ TailCurrent(index.covered) /\ index.covered.seq = Len(lines)
        => \A s \in Sources : index.rows[s] = Scan(lines, s)

\* A source marker that would be believed names a line of the file.
MarkersTrue ==
    \A s \in Sources : MarkerTrusted(s) => \E i \in DOMAIN lines : lines[i] = marker[s].event

\* The index and the tail state never mislead a caller: no second line for a source, no
\* wrong answer, no index that lacks a line.
LookupsTrue == UniqueSources /\ AnswersLinearizable /\ IndexComplete

Stream == INSTANCE EventStream WITH entries <- lines, replacements <- chops

\* The file, the index and the locks implement the promise of the package.
ImplementsStream == Stream!Spec
=============================================================================
