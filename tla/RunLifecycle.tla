---------------------------- MODULE RunLifecycle ----------------------------
(***************************************************************************)
(* Runs: one supervised execution of an agent each (internal/runs, and the *)
(* wrapper of internal/cli/run.go that owns a run).                        *)
(*                                                                         *)
(* A run is a set of events in the log.  Its owner keeps a journal and     *)
(* holds the lifecycle lock of the run until it has recorded how the run   *)
(* ended; an owner that is killed leaves both behind, and whoever starts   *)
(* next ends the run for it.  Agents' hooks attach what they capture to a  *)
(* run, in processes of their own that may outlive the owner.              *)
(*                                                                         *)
(* Every writer holds the mutation lock of the run it writes to.  A        *)
(* section under that lock is one step here when it makes one durable      *)
(* write, and two when it makes two, so that a kill falls between them.    *)
(***************************************************************************)
EXTENDS Naturals, FiniteSets

CONSTANTS
    Procs,      \* slots for processes: a new process uses an idle one
    Runs,       \* run identifiers; each is drawn at most once
    Nobody,     \* holder of a free lock, and the run of a process that has none
    Commands,   \* what users and agents start
    MaxFaults   \* bound on kills and failing writes together

ASSUME RunAssumption ==
    /\ Nobody \notin Procs /\ Nobody \notin Runs
    /\ Commands \subseteq {"agent", "fork", "hook", "case", "apply"}
    /\ MaxFaults \in Nat

VARIABLES
    events,     \* run events of the log, by run
    kind,       \* what drew the run: "agent" (turnal run) or "fork" (turnal fork)
    journals,   \* runs with a journal in tmp/runs
    lifecycle,  \* runs whose lifecycle lock is held
    mutation,   \* holder of each run's mutation lock
    proc,       \* what each process does
    faults

runVars == <<events, kind, journals, lifecycle, mutation, proc, faults>>

Endings == {"succeeded", "failed", "incomplete"}
RunEvents == {"start", "wrapper", "provider", "attempt"} \cup Endings

\* "turnal run" and "turnal fork" own a run; "hook" is one of the agent's hooks.
Owners == {"agent", "fork"}

Idle == [op |-> "none", at |-> "idle", run |-> Nobody, status |-> "incomplete",
         todo |-> {}, mends |-> Nobody, aborted |-> FALSE]

TypeOK ==
    /\ events \in [Runs -> SUBSET RunEvents]
    /\ kind \in [Runs -> Owners \cup {"none"}]
    /\ journals \subseteq Runs /\ lifecycle \subseteq Runs
    /\ mutation \in [Runs -> Procs \cup {Nobody}]
    /\ faults \in 0..MaxFaults
    /\ \A p \in Procs :
          /\ proc[p].run \in Runs \cup {Nobody} /\ proc[p].mends \in Runs \cup {Nobody}
          /\ proc[p].status \in Endings
          /\ proc[p].todo \subseteq Runs

----------------------------------------------------------------------------
(* Reading a run                                                           *)

Started(r) == "start" \in events[r]
EndingsOf(r) == events[r] \intersect Endings
Running(r) == Started(r) /\ EndingsOf(r) = {}

\* Read refuses a run with two ends, and an attempt without the capture it belongs to.
Readable(r) ==
    /\ Cardinality(EndingsOf(r)) <= 1
    /\ "attempt" \in events[r] =>
          (IF kind[r] = "fork" THEN "wrapper" ELSE "provider") \in events[r]

\* The owner is the process named by process id and start time in the start event.
OwnerAlive(r) == \E p \in Procs : proc[p].op \in Owners /\ proc[p].run = r

\* Mutant of Guarded: whoever holds the lock is taken for the owner.
GuardedByLock(r) == r \in lifecycle

\* What protects a run from recovery.
Guarded(r) == r \in lifecycle /\ OwnerAlive(r)

Accepts(r) == Running(r) /\ r \in journals /\ Guarded(r)

\* appendOnce finds the finish event by its SourceID, whatever status it has.
WithEnding(r, status) ==
    [events EXCEPT ![r] = IF EndingsOf(r) = {} THEN @ \cup {status} ELSE @]

At(p, op, at) == proc[p].op = op /\ proc[p].at = at
AtStep(p, at) == proc[p].at = at
Free(r) == mutation[r] = Nobody
Goto(p, at) == proc' = [proc EXCEPT ![p].at = at]

----------------------------------------------------------------------------
(* RecoverAbandoned: the journals are listed, then handled one by one      *)

Start(p, op) ==
    /\ AtStep(p, "idle")
    /\ proc' = [proc EXCEPT ![p] = [Idle EXCEPT !.op = op, !.at = "scan"]]
    /\ UNCHANGED <<events, kind, journals, lifecycle, mutation, faults>>

ScanJournals(p) ==
    /\ AtStep(p, "scan")
    /\ proc' = [proc EXCEPT ![p].todo = journals, ![p].at = "recover"]
    /\ UNCHANGED <<events, kind, journals, lifecycle, mutation, faults>>

\* Mutant of RecoverRun: a journal without a run is removed without the lock of the run.
RecoverRunUnlocked(p, r) ==
    /\ AtStep(p, "recover") /\ r \in proc[p].todo
    /\ \/ /\ ~ Started(r)
          /\ journals' = journals \ {r}
          /\ UNCHANGED <<events, mutation>>
          /\ proc' = [proc EXCEPT ![p].todo = @ \ {r}]
       \/ /\ Started(r) /\ Free(r) /\ ~ Guarded(r)
          /\ events' = WithEnding(r, "incomplete")
          /\ mutation' = [mutation EXCEPT ![r] = p]
          /\ proc' = [proc EXCEPT ![p].todo = @ \ {r}, ![p].mends = r, ![p].at = "recovered"]
          /\ UNCHANGED journals
    /\ UNCHANGED <<kind, lifecycle, faults>>

\* A journal without a run is the remains of a Begin; a guarded run is left alone; any
\* other run is ended first, and its journal is removed in the next step.
RecoverRun(p, r) ==
    /\ AtStep(p, "recover") /\ r \in proc[p].todo /\ Free(r)
    /\ \/ /\ ~ Started(r)
          /\ journals' = journals \ {r}
          /\ proc' = [proc EXCEPT ![p].todo = @ \ {r}]
          /\ UNCHANGED <<events, mutation>>
       \/ /\ Started(r) /\ Guarded(r)
          /\ proc' = [proc EXCEPT ![p].todo = @ \ {r}]
          /\ UNCHANGED <<events, journals, mutation>>
       \/ /\ Started(r) /\ ~ Guarded(r)
          /\ events' = WithEnding(r, "incomplete")
          /\ mutation' = [mutation EXCEPT ![r] = p]
          /\ proc' = [proc EXCEPT ![p].todo = @ \ {r}, ![p].mends = r, ![p].at = "recovered"]
          /\ UNCHANGED journals
    /\ UNCHANGED <<kind, lifecycle, faults>>

RecoverClear(p) ==
    /\ AtStep(p, "recovered")
    /\ journals' = journals \ {proc[p].mends}
    /\ mutation' = [mutation EXCEPT ![proc[p].mends] = Nobody]
    /\ proc' = [proc EXCEPT ![p].mends = Nobody, ![p].at = "recover"]
    /\ UNCHANGED <<events, kind, lifecycle, faults>>

\* "turnal run" goes on to its own run; the commands about cases have more to recover.
RecoverDone(p) ==
    /\ AtStep(p, "recover") /\ proc[p].todo = {}
    /\ Goto(p, IF proc[p].op = "agent" THEN "begin" ELSE "reconcile")
    /\ UNCHANGED <<events, kind, journals, lifecycle, mutation, faults>>

----------------------------------------------------------------------------
(* The owner of a run                                                      *)

\* The lifecycle lock or the journal cannot be had: nothing is left behind.
BeginFails(p) ==
    /\ AtStep(p, "begin")
    /\ proc' = [proc EXCEPT ![p] = Idle]
    /\ UNCHANGED <<events, kind, journals, lifecycle, mutation, faults>>

\* Begin: the lifecycle lock, then the journal; the start event is the next step.
Begin(p, r) ==
    /\ AtStep(p, "begin") /\ proc[p].op \in Owners
    /\ kind[r] = "none" /\ Free(r)
    /\ kind' = [kind EXCEPT ![r] = proc[p].op]
    /\ lifecycle' = lifecycle \cup {r}
    /\ journals' = journals \cup {r}
    /\ mutation' = [mutation EXCEPT ![r] = p]
    /\ proc' = [proc EXCEPT ![p].run = r, ![p].at = "start"]
    /\ UNCHANGED <<events, faults>>

StartRun(p) ==
    LET r == proc[p].run IN
    /\ AtStep(p, "start")
    /\ events' = [events EXCEPT ![r] = @ \cup {"start"}]
    /\ mutation' = [mutation EXCEPT ![r] = Nobody]
    /\ Goto(p, IF proc[p].op = "agent" THEN "capture" ELSE "mkdir")
    /\ UNCHANGED <<kind, journals, lifecycle, faults>>

\* The append may report an error after the event is durable, so the journal stays.
StartRunFails(p) ==
    LET r == proc[p].run IN
    /\ AtStep(p, "start") /\ faults < MaxFaults
    /\ events' \in {events, [events EXCEPT ![r] = @ \cup {"start"}]}
    /\ mutation' = [mutation EXCEPT ![r] = Nobody]
    /\ lifecycle' = lifecycle \ {r}
    /\ proc' = [proc EXCEPT ![p] = Idle]
    /\ faults' = faults + 1
    /\ UNCHANGED <<kind, journals>>

LinkWrapper(p) ==
    LET r == proc[p].run IN
    /\ AtStep(p, "capture") /\ Free(r) /\ Accepts(r)
    /\ events' = [events EXCEPT ![r] = @ \cup {"wrapper"}]
    /\ Goto(p, IF proc[p].op = "agent" THEN "child" ELSE "attempt")
    /\ UNCHANGED <<kind, journals, lifecycle, mutation, faults>>

\* startRunTurn, the child, finishRunTurn: the turn is the recorder's, the end is what
\* the child and the steps around it made of it.
ChildEnds(p) ==
    /\ At(p, "agent", "child")
    /\ \E status \in Endings : proc' = [proc EXCEPT ![p].status = status, ![p].at = "finish"]
    /\ UNCHANGED <<events, kind, journals, lifecycle, mutation, faults>>

Finish(p) ==
    LET r == proc[p].run IN
    /\ AtStep(p, "finish") /\ Free(r) /\ Accepts(r)
    /\ events' = WithEnding(r, proc[p].status)
    /\ mutation' = [mutation EXCEPT ![r] = p]
    /\ Goto(p, "finished")
    /\ UNCHANGED <<kind, journals, lifecycle, faults>>

\* A fork that ended well still has its workspace to remove; see Experiments.
ClearJournal(p) ==
    LET r == proc[p].run IN
    /\ AtStep(p, "finished")
    /\ journals' = journals \ {r}
    /\ mutation' = [mutation EXCEPT ![r] = Nobody]
    /\ Goto(p, IF proc[p].op = "fork" /\ ~ proc[p].aborted THEN "clean" ELSE "release")
    /\ UNCHANGED <<events, kind, lifecycle, faults>>

\* A Finish that fails before its event is durable is followed by the deferred one, which
\* records "incomplete"; after that, or when the event is durable, the deferred one is
\* refused or fails too, and the process ends with the journal left.
FinishFails(p) ==
    LET r == proc[p].run
        fork == proc[p].op = "fork" IN
    /\ AtStep(p, "finish") /\ faults < MaxFaults
    /\ \/ /\ proc' = [proc EXCEPT ![p].status = "incomplete", ![p].aborted = TRUE,
                        ![p].at = IF proc[p].aborted THEN "release"
                                  ELSE IF fork THEN "clean" ELSE "finish"]
          /\ UNCHANGED events
       \/ /\ events' = WithEnding(r, proc[p].status)
          /\ Goto(p, IF fork /\ ~ proc[p].aborted THEN "clean" ELSE "release")
    /\ faults' = faults + 1
    /\ UNCHANGED <<kind, journals, lifecycle, mutation>>

Release(p) ==
    /\ AtStep(p, "release")
    /\ lifecycle' = lifecycle \ {proc[p].run}
    /\ proc' = [proc EXCEPT ![p] = Idle]
    /\ UNCHANGED <<events, kind, journals, mutation, faults>>

\* An error on the way: the deferred Finish records "incomplete".
OwnerFails(p) ==
    /\ proc[p].op = "agent" /\ proc[p].at \in {"capture", "child"} /\ faults < MaxFaults
    /\ proc' = [proc EXCEPT ![p].status = "incomplete", ![p].aborted = TRUE, ![p].at = "finish"]
    /\ faults' = faults + 1
    /\ UNCHANGED <<events, kind, journals, lifecycle, mutation>>

----------------------------------------------------------------------------
(* Hooks of the agent, told of the run by their environment                *)

StartHook(p, r) ==
    /\ AtStep(p, "idle") /\ "hook" \in Commands
    /\ kind[r] = "agent" /\ "wrapper" \in events[r]
    /\ proc' = [proc EXCEPT ![p] = [Idle EXCEPT !.op = "hook", !.at = "provider", !.run = r]]
    /\ UNCHANGED <<events, kind, journals, lifecycle, mutation, faults>>

\* LinkCapture, and for a prompt EnsureAttempt: each may be refused, and then recorded
\* as an error event only.
Attach(p, at, event, next) ==
    LET r == proc[p].run IN
    /\ At(p, "hook", at) /\ Free(r)
    /\ r \in journals => Guarded(r)
    /\ events' = IF Accepts(r) THEN [events EXCEPT ![r] = @ \cup {event}] ELSE events
    /\ \/ Accepts(r) /\ next # "idle" /\ Goto(p, next)
       \/ proc' = [proc EXCEPT ![p] = Idle]
    /\ UNCHANGED <<kind, journals, lifecycle, mutation, faults>>

LinkProvider(p) == Attach(p, "provider", "provider", "prompt")
EnsureAttempt(p) == Attach(p, "prompt", "attempt", "idle")

\* Before that, recoverRunLocked ends the run of an owner that is gone.
HookRecovers(p) ==
    LET r == proc[p].run IN
    /\ proc[p].op = "hook" /\ proc[p].at \in {"provider", "prompt"} /\ Free(r)
    /\ r \in journals /\ ~ Guarded(r)
    /\ events' = WithEnding(r, "incomplete")
    /\ mutation' = [mutation EXCEPT ![r] = p]
    /\ Goto(p, "unguarded")
    /\ UNCHANGED <<kind, journals, lifecycle, faults>>

HookClears(p) ==
    LET r == proc[p].run IN
    /\ AtStep(p, "unguarded")
    /\ journals' = journals \ {r}
    /\ mutation' = [mutation EXCEPT ![r] = Nobody]
    /\ proc' = [proc EXCEPT ![p] = Idle]
    /\ UNCHANGED <<events, kind, lifecycle, faults>>

----------------------------------------------------------------------------

\* A kill frees the process's locks.  The lifecycle lock may be found held all the same,
\* by a descendant of the owner that opened the file.
Kill(p) ==
    /\ ~ AtStep(p, "idle") /\ faults < MaxFaults
    /\ mutation' = [r \in Runs |-> IF mutation[r] = p THEN Nobody ELSE mutation[r]]
    /\ lifecycle' \in IF proc[p].op \in Owners THEN {lifecycle, lifecycle \ {proc[p].run}}
                                               ELSE {lifecycle}
    /\ proc' = [proc EXCEPT ![p] = Idle]
    /\ faults' = faults + 1
    /\ UNCHANGED <<events, kind, journals>>

Init ==
    /\ events = [r \in Runs |-> {}]
    /\ kind = [r \in Runs |-> "none"]
    /\ journals = {} /\ lifecycle = {}
    /\ mutation = [r \in Runs |-> Nobody]
    /\ proc = [p \in Procs |-> Idle]
    /\ faults = 0

RecoverStep(p) ==
    \/ ScanJournals(p)
    \/ \E r \in Runs : RecoverRun(p, r)
    \/ RecoverClear(p)
    \/ RecoverDone(p)

OwnerStep(p) ==
    \/ BeginFails(p) \/ \E r \in Runs : Begin(p, r)
    \/ StartRun(p) \/ LinkWrapper(p) \/ ChildEnds(p)
    \/ Finish(p) \/ ClearJournal(p) \/ Release(p)

HookStep(p) == LinkProvider(p) \/ EnsureAttempt(p) \/ HookRecovers(p) \/ HookClears(p)

FaultStep(p) == StartRunFails(p) \/ FinishFails(p) \/ OwnerFails(p)

RunStep(p) == RecoverStep(p) \/ OwnerStep(p) \/ HookStep(p)

RunNext ==
    \E p \in Procs :
       \/ \E op \in Commands \ {"hook"} : Start(p, op)
       \/ \E r \in Runs : StartHook(p, r)
       \/ RunStep(p) \/ FaultStep(p) \/ Kill(p)
=============================================================================
