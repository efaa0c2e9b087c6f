---------------------------- MODULE TurnHistory ----------------------------
(***************************************************************************)
(* The recorded history that `turnal blame` and `turnal bisect` read: the  *)
(* pre and post checkpoints of the turns of several sessions that share a  *)
(* worktree, and the events of each turn.  The state also keeps what the   *)
(* records do not hold, who really made each edit, for the properties to   *)
(* compare the readers' answers with.                                      *)
(***************************************************************************)
EXTENDS Naturals, FiniteSetsExt, SequencesExt

CONSTANTS Sessions,
          Paths,         \* file names of the workspace
          FirstPath,     \* the file there is at the beginning
          Sizes          \* bounds: the sizes of the histories that are recorded

\* A history has records with captured_at ("precise") or without ("legacy"), and so many
\* turns, edits of the workspace, captured actions, recorded intents, and records in all.
ASSUME HistoryAssumption ==
    /\ FirstPath \in Paths
    /\ Sizes \subseteq [records : {"precise", "legacy"}, turns : Nat, edits : Nat,
                         actions : Nat, intents : Nat, time : Nat]

VARIABLES
    work,    \* the workspace: path -> the lines of that file, in their order
    edits,   \* who made the edits so far, in their order
    turns,   \* the turns in the order they started
    now,     \* the time, one tick for every record
    size     \* the size of this repository's history, and the kind of its records

vars == <<work, edits, turns, now, size>>

\* A line is named by the edit that added it; line 0 was there before.
User == 0

Init ==
    /\ work = (FirstPath :> <<0>>)
    /\ edits = <<>>
    /\ turns = <<>>
    /\ now = 1
    /\ size \in Sizes

Open == {i \in DOMAIN turns : turns[i].postAt = 0}

\* A turn counts as complete when its post checkpoint's event is there too.
Complete == {i \in DOMAIN turns : turns[i].toldAt # 0}
Incomplete == DOMAIN turns \ Complete

\* Time is left for every open turn to finish.
Room(more) == now + Cardinality(Open) + more < size.time

\* A turn has just started or ended: what readers answer changes only then.
Fresh ==
    /\ Complete # {}
    /\ \E i \in DOMAIN turns : now - 1 \in {turns[i].preAt, turns[i].postAt, turns[i].toldAt}

Count(type) ==
    LET n[i \in 0 .. Len(turns)] ==
          IF i = 0 THEN 0
          ELSE n[i - 1] + Cardinality({k \in DOMAIN turns[i].events : turns[i].events[k].type = type})
    IN  n[Len(turns)]

-----------------------------------------------------------------------------
(* Recording, each record under the workspace or the session lock.         *)

\* A session's prompt: the pre checkpoint.
StartTurn(s) ==
    /\ Len(turns) < size.turns
    /\ \A i \in Incomplete : turns[i].session # s
    /\ Room(1)
    /\ turns' = Append(turns, [session |-> s, pre |-> work, preAt |-> now, post |-> work,
                               postAt |-> 0, toldAt |-> 0, events |-> <<>>])
    /\ now' = now + 1
    /\ UNCHANGED <<work, edits, size>>

\* Its stop: the post checkpoint and its event, which recovery appends later
\* when the hook is killed between the two.
FinishTurn(i, killed) ==
    /\ i \in Open
    /\ now < size.time
    /\ turns' = [turns EXCEPT ![i].post = work, ![i].postAt = now,
                             ![i].toldAt = IF killed THEN 0 ELSE now]
    /\ now' = now + 1
    /\ UNCHANGED <<work, edits, size>>

RecoverEvent(i) ==
    /\ i \in Incomplete \ Open
    /\ now < size.time
    /\ turns' = [turns EXCEPT ![i].toldAt = now]
    /\ now' = now + 1
    /\ UNCHANGED <<work, edits, size>>

Record(i, event) ==
    /\ Room(0)
    /\ turns' = [turns EXCEPT ![i].events = Append(@, event)]
    /\ now' = now + 1
    /\ UNCHANGED <<work, edits, size>>

Of(i, type) == {k \in DOMAIN turns[i].events : turns[i].events[k].type = type}
Running(i) == {k \in Of(i, "call") : ~\E r \in Of(i, "result") : turns[i].events[r].call = k}
MaxOf(S) == IF S = {} THEN 0 ELSE CHOOSE m \in S : \A k \in S : k <= m

\* The hook of a tool that may change files: a snapshot before, and the intent
\* the agent stated last, which older records do not name.
Call(i) ==
    /\ i \in Open
    /\ Count("call") < size.actions
    /\ Record(i, [type |-> "call", snap |-> work, call |-> 0,
                  intent |-> IF size.records = "legacy" THEN 0 ELSE MaxOf(Of(i, "intent"))])

\* The hook after it: a snapshot of what the workspace is by now.
Result(i, k) ==
    /\ i \in Open /\ k \in Running(i)
    /\ Record(i, [type |-> "result", snap |-> work, call |-> k, intent |-> 0])

StateIntent(i) ==
    /\ i \in Open
    /\ Count("intent") < size.intents
    /\ Record(i, [type |-> "intent", snap |-> <<>>, call |-> 0, intent |-> 0])

-----------------------------------------------------------------------------
(* Edits, by a running action of an open turn, by its agent while none     *)
(* runs, or by the user between turns.                                     *)

Editors ==
    IF Open = {} THEN IF Len(turns) \in 1 .. size.turns - 1 THEN {<<User, 0>>} ELSE {}
    ELSE UNION {IF Running(i) = {} THEN {<<i, 0>>} ELSE {<<i, k>> : k \in Running(i)} : i \in Open}

\* An edit puts lines into a file, the one it adds or all that it moves there, and
\* cuts lines from one.
Edits(by, files, put, cut) ==
    /\ Len(edits) < size.edits
    /\ Room(0)
    /\ work' = files
    /\ now' = now + 1
    /\ edits' = Append(edits, [turn |-> by[1], action |-> by[2], put |-> put, cut |-> cut])
    /\ UNCHANGED <<turns, size>>

LinesOf(files, p) == IF p \in DOMAIN files THEN files[p] ELSE <<>>

AddLine(by, p, ontop) ==
    LET l == Len(edits) + 1
        old == LinesOf(work, p)
    IN  Edits(by, (p :> IF ontop THEN <<l>> \o old ELSE Append(old, l)) @@ work, {l}, {})

DropLine(by, p, l) ==
    Edits(by, [work EXCEPT ![p] = SelectSeq(@, LAMBDA m : m # l)], {}, {l})

\* To the end of the file.
MoveLine(by, p, l) ==
    /\ l # Last(work[p])
    /\ Edits(by, [work EXCEPT ![p] = Append(SelectSeq(@, LAMBDA m : m # l), l)], {}, {})

Rename(by, p, q) ==
    /\ q \notin DOMAIN work
    /\ Edits(by, [f \in (DOMAIN work \ {p}) \cup {q} |-> IF f = q THEN work[p] ELSE work[f]],
             ToSet(work[p]), ToSet(work[p]))

Edit ==
    \E by \in Editors :
        \/ \E p \in Paths, ontop \in BOOLEAN : AddLine(by, p, ontop)
        \/ \E p \in DOMAIN work : \E l \in ToSet(work[p]) : DropLine(by, p, l) \/ MoveLine(by, p, l)
        \/ \E p \in DOMAIN work, q \in Paths : Rename(by, p, q)

Next ==
    \/ \E s \in Sessions : StartTurn(s)
    \/ \E i \in DOMAIN turns :
           FinishTurn(i, FALSE) \/ FinishTurn(i, TRUE) \/ RecoverEvent(i) \/ Call(i) \/ StateIntent(i)
    \/ \E i \in DOMAIN turns : \E k \in Running(i) : Result(i, k)
    \/ Edit

Spec == Init /\ [][Next]_vars

-----------------------------------------------------------------------------
(* What a reader derives from the records about time (blame/history.go).   *)

\* Git keeps whole seconds; four ticks are one.
Second(t) == t - (t % 4)

\* completeTurnStart, completeTurnEnd: captured_at, or else the second of the pre
\* commit and the time of the post checkpoint's event.
StartOf(i) == IF size.records = "legacy" THEN Second(turns[i].preAt) ELSE turns[i].preAt
EndOf(i) == IF size.records = "legacy" THEN turns[i].toldAt ELSE turns[i].postAt

\* Two checkpoints whose order the records do not tell.
SameInstant(t, u) == size.records = "legacy" /\ Second(t) = Second(u)

\* sortCompleteTurns
EndsBefore(i, j) ==
    IF size.records = "precise" THEN turns[i].postAt < turns[j].postAt
    ELSE IF ~SameInstant(turns[i].postAt, turns[j].postAt) THEN turns[i].postAt < turns[j].postAt
    ELSE IF turns[i].session = turns[j].session THEN i < j
    ELSE EndOf(i) < EndOf(j)

\* The completed turns of a query, in the order of their ends.
Selected(session) ==
    SetToSortSeq({i \in Complete : session \in {"", turns[i].session}}, EndsBefore)

Queries == {""} \cup Sessions
=============================================================================
