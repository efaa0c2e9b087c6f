---------------------------- MODULE Experiments -----------------------------
(***************************************************************************)
(* Cases and the attempts at them (internal/cases, internal/experiments):  *)
(* "turnal fork" runs a command on the base of a case in a directory of    *)
(* its own, as a run of RunLifecycle, and records what came of it.         *)
(*                                                                         *)
(* Case records are appended under the workspace lock, after the log has   *)
(* been projected anew; run events are appended under the run's lock.      *)
(* RecoverAbandoned, with which every command begins, holds neither while  *)
(* it reads: it works through what it read, link by link and directory by  *)
(* directory, while other commands go on.                                  *)
(*                                                                         *)
(* One worktree; an attempt is identified with its run, of which it is the *)
(* one attempt looked at.                                                  *)
(***************************************************************************)
EXTENDS RunLifecycle, Sequences

CONSTANTS Cases

VARIABLES
    case,       \* the records of each case, as the projection reads them
    workspace,  \* holder of the workspace lock
    dirs,       \* managed directories: <<"fork", r>> and <<"verify", r>>
    markers,    \* runs with a .keep- file
    posts,      \* attempts whose post checkpoint exists
    active,     \* the active turn of each attempt's session: "none", the attempt's "turn",
                \* or a "later" one; "over" once the later one has ended
    pending,    \* applications whose rollback was cut off, by case and attempt
    task        \* what each process has in memory about cases

caseVars == <<case, workspace, dirs, markers, posts, active, pending, task>>
vars == <<runVars, caseVars>>

Unlinked == [state |-> "absent", source |-> Nobody, links |-> [r \in Runs |-> 0], keep |-> {},
             results |-> [r \in Runs |-> <<>>], selected |-> Nobody, ever |-> {}, applied |-> {}]

NoTask == [case |-> Nobody, keep |-> FALSE, open |-> {}, refs |-> {}, gone |-> {},
           post |-> FALSE, link |-> <<>>]

Dirs == {"fork", "verify"} \X Runs
Links == Cases \X Runs

----------------------------------------------------------------------------
(* The projection of the case records                                      *)

Exists(c) == case[c].state = "present"
Linked(c, r) == case[c].links[r] > 0
Done(c, r) == case[c].results[r] # <<>>
Result(c, r) == Head(case[c].results[r])
HasPost(c, r) == Done(c, r) /\ Result(c, r).post

\* What project insists on, for a case that is not deleted.
CaseReadable(c) ==
    Exists(c) => \A r \in Runs :
       /\ case[c].links[r] <= 1 /\ (Linked(c, r) => "attempt" \in events[r])
       /\ Len(case[c].results[r]) <= 1 /\ (Done(c, r) => Linked(c, r))
       /\ r \in case[c].ever => Done(c, r)
       /\ r \in case[c].applied => r \in case[c].ever /\ HasPost(c, r)

OpenLinks == {l \in Links : Exists(l[1]) /\ Linked(l[1], l[2]) /\ ~ Done(l[1], l[2])}

\* Directories recovery spares because a link needs them, and those it removes because
\* a link is done with them.  The link Create makes of the case's source records no workspace.
Referenced ==
    {d \in Dirs : \E c \in Cases :
        /\ Exists(c) /\ Linked(c, d[2])
        /\ d[1] = "fork" => case[c].source # d[2] /\ (d[2] \in case[c].keep \/ ~ Done(c, d[2]))
        /\ d[1] = "verify" => ~ Done(c, d[2])}

Abandoned ==
    {d \in Dirs : \E c \in Cases :
        /\ Exists(c) /\ Linked(c, d[2]) /\ Done(c, d[2])
        /\ d[1] = "fork" => case[c].source # d[2] /\ d[2] \notin case[c].keep}

----------------------------------------------------------------------------
(* Commands: reading and writing case records                              *)

LockFree == workspace = Nobody

Becomes(p, at) == proc' = [proc EXCEPT ![p].at = at]
Ends(p) == proc' = [proc EXCEPT ![p] = Idle] /\ task' = [task EXCEPT ![p] = NoTask]
EndsInAbort(p) ==
    proc' = [proc EXCEPT ![p].status = "incomplete", ![p].aborted = TRUE, ![p].at = "clean"]

lifecycleVars == <<events, kind, journals, lifecycle, mutation, faults>>

AppendResult(c, r, result) == [case EXCEPT ![c].results[r] = Append(@, result)]

----------------------------------------------------------------------------
(* experiments.RecoverAbandoned                                            *)

\* ReconcileAbandonedAttempts: the links that have no result yet.
Reconcile(p) ==
    /\ AtStep(p, "reconcile")
    /\ task' = [task EXCEPT ![p].open = OpenLinks]
    /\ Becomes(p, "settle")
    /\ UNCHANGED <<lifecycleVars, case, workspace, dirs, markers, posts, active, pending>>

\* The run is read now, not when the links were.
LeaveRunning(p, c, r) ==
    /\ AtStep(p, "settle") /\ <<c, r>> \in task[p].open /\ Running(r)
    /\ task' = [task EXCEPT ![p].open = @ \ {<<c, r>>}]
    /\ UNCHANGED <<runVars, case, workspace, dirs, markers, posts, active, pending>>

\* ClearActiveForRecovery refuses when the session is in another turn by now.
Settle(p, c, r) ==
    /\ AtStep(p, "settle") /\ <<c, r>> \in task[p].open /\ ~ Running(r) /\ LockFree
    /\ \/ /\ active[r] = "later"
          /\ Ends(p)
          /\ UNCHANGED active
       \/ /\ active[r] # "later"
          /\ active' = [active EXCEPT ![r] = IF @ = "turn" THEN "none" ELSE @]
          /\ task' = [task EXCEPT ![p].open = @ \ {<<c, r>>}, ![p].link = <<c, r>>,
                                  ![p].post = r \in posts]
          /\ Becomes(p, "conclude")
    /\ UNCHANGED <<lifecycleVars, case, workspace, dirs, markers, posts, pending>>

\* RecordAttemptResult: a result that is there already must be the same one.
Conclude(p) ==
    LET c == task[p].link[1]  r == task[p].link[2]
        result == [status |-> "incomplete", post |-> task[p].post] IN
    /\ AtStep(p, "conclude") /\ LockFree
    /\ \/ /\ Exists(c) /\ (Done(c, r) => Result(c, r) = result)
          /\ case' = IF Done(c, r) THEN case ELSE AppendResult(c, r, result)
          /\ task' = [task EXCEPT ![p].link = <<>>, ![p].post = FALSE]
          /\ Becomes(p, "settle")
       \/ /\ ~ Exists(c) \/ (Done(c, r) /\ Result(c, r) # result)
          /\ Ends(p)
          /\ UNCHANGED case
    /\ UNCHANGED <<lifecycleVars, workspace, dirs, markers, posts, active, pending>>

\* The second projection: which directories are still needed.
Refer(p) ==
    /\ AtStep(p, "settle") /\ task[p].open = {}
    /\ task' = [task EXCEPT ![p].refs = Referenced, ![p].gone = Abandoned \intersect dirs]
    /\ Becomes(p, "remove")
    /\ UNCHANGED <<lifecycleVars, case, workspace, dirs, markers, posts, active, pending>>

RemoveAbandoned(p, d) ==
    /\ AtStep(p, "remove") /\ d \in task[p].gone
    /\ dirs' = dirs \ {d}
    /\ task' = [task EXCEPT ![p].gone = @ \ {d}]
    /\ UNCHANGED <<runVars, case, workspace, markers, posts, active, pending>>

\* removeOrphanedManagedWorkspaces lists the directories that are there by now.
ListOrphans(p) ==
    /\ AtStep(p, "remove") /\ task[p].gone = {}
    /\ task' = [task EXCEPT ![p].gone = dirs \ task[p].refs, ![p].refs = {}]
    /\ Becomes(p, "sweep")
    /\ UNCHANGED <<lifecycleVars, case, workspace, dirs, markers, posts, active, pending>>

\* Mutants of RemoveOrphan: what is kept, or what is live, is not asked, or a run counts
\* as live while its lock is held.
RemoveOrphanIf(p, d, stays) ==
    /\ AtStep(p, "sweep") /\ d \in task[p].gone
    /\ dirs' = IF stays THEN dirs ELSE dirs \ {d}
    /\ task' = [task EXCEPT ![p].gone = @ \ {d}]
    /\ UNCHANGED <<runVars, case, workspace, markers, posts, active, pending>>
RemoveOrphanLive(p, d) == RemoveOrphanIf(p, d, d[1] = "fork" /\ d[2] \in markers)
RemoveOrphanFree(p, d) == RemoveOrphanIf(p, d, d[1] = "fork" /\ d[2] \in markers \cup lifecycle)

\* A kept directory and that of a running run stay.
RemoveOrphan(p, d) ==
    LET r == d[2]
        kept == d[1] = "fork" /\ r \in markers /\ d \in dirs
        live == d[1] = "fork" /\ Running(r) IN
    /\ AtStep(p, "sweep") /\ d \in task[p].gone
    /\ dirs' = IF kept \/ live THEN dirs ELSE dirs \ {d}
    /\ markers' = IF d[1] = "fork" /\ d \notin dirs THEN markers \ {r} ELSE markers
    /\ task' = [task EXCEPT ![p].gone = @ \ {d}]
    /\ UNCHANGED <<runVars, case, workspace, posts, active, pending>>

\* Recovery is over: "turnal fork" looks up its case, the other commands do their work.
Recovered(p) ==
    /\ AtStep(p, "sweep") /\ task[p].gone = {}
    /\ Becomes(p, IF proc[p].op = "fork" THEN "open" ELSE "choose")
    /\ UNCHANGED <<lifecycleVars, caseVars>>

----------------------------------------------------------------------------
(* turnal fork (Execute)                                                   *)

OpenCase(p, c) ==
    /\ AtStep(p, "open") /\ Exists(c)
    /\ \E keep \in BOOLEAN : task' = [task EXCEPT ![p].case = c, ![p].keep = keep]
    /\ Becomes(p, "begin")
    /\ UNCHANGED <<lifecycleVars, case, workspace, dirs, markers, posts, active, pending>>

NoCase(p) ==
    /\ AtStep(p, "open") /\ \A c \in Cases : ~ Exists(c)
    /\ Ends(p)
    /\ UNCHANGED <<lifecycleVars, case, workspace, dirs, markers, posts, active, pending>>

MakeWorkspace(p) ==
    /\ AtStep(p, "mkdir")
    /\ dirs' = dirs \cup {<<"fork", proc[p].run>>}
    /\ Becomes(p, "capture")
    /\ UNCHANGED <<lifecycleVars, case, workspace, markers, posts, active, pending, task>>

\* recorder.Start and EnsureWrapperAttempt
StartAttempt(p) ==
    LET r == proc[p].run IN
    /\ AtStep(p, "attempt") /\ Free(r) /\ Accepts(r)
    /\ active' = [active EXCEPT ![r] = "turn"]
    /\ events' = [events EXCEPT ![r] = @ \cup {"attempt"}]
    /\ Becomes(p, "link")
    /\ UNCHANGED <<kind, journals, lifecycle, mutation, faults,
                   case, workspace, dirs, markers, posts, pending, task>>

\* LinkAttempt is refused when the case was deleted since it was opened.
LinkAttempt(p) ==
    LET c == task[p].case  r == proc[p].run IN
    /\ AtStep(p, "link") /\ LockFree
    /\ \/ /\ Exists(c)
          /\ case' = [case EXCEPT ![c].links[r] = @ + 1,
                                  ![c].keep = IF task[p].keep THEN @ \cup {r} ELSE @]
          /\ Becomes(p, IF task[p].keep THEN "mark" ELSE "command")
       \/ ~ Exists(c) /\ EndsInAbort(p) /\ UNCHANGED case
    /\ UNCHANGED <<lifecycleVars, workspace, dirs, markers, posts, active, pending, task>>

\* persistKeepMarker: from here on the directory is the user's.
MarkKept(p) ==
    /\ AtStep(p, "mark")
    /\ markers' = markers \cup {proc[p].run}
    /\ Becomes(p, "command")
    /\ UNCHANGED <<lifecycleVars, case, workspace, dirs, posts, active, pending, task>>

\* The command, and recorder.Finish
RunCommand(p) ==
    LET r == proc[p].run IN
    /\ AtStep(p, "command")
    /\ posts' = posts \cup {r}
    /\ active' = [active EXCEPT ![r] = "none"]
    /\ \E status \in Endings : proc' = [proc EXCEPT ![p].status = status, ![p].at = "verify"]
    /\ UNCHANGED <<lifecycleVars, case, workspace, dirs, markers, pending, task>>

\* verifyAttempt runs the verifiers of the case, if it has any, in a directory of its
\* own; whatever fails there makes the attempt incomplete.
StartVerification(p) ==
    /\ AtStep(p, "verify")
    /\ \/ /\ dirs' = dirs \cup {<<"verify", proc[p].run>>}
          /\ Becomes(p, "verifying")
       \/ /\ \E status \in {proc[p].status, "incomplete"} :
                proc' = [proc EXCEPT ![p].status = status, ![p].at = "result"]
          /\ UNCHANGED dirs
    /\ UNCHANGED <<lifecycleVars, case, workspace, markers, posts, active, pending, task>>

\* Mutant of EndVerification: the run is finished without a result of the attempt.
EndVerificationFinishes(p) ==
    /\ AtStep(p, "verifying")
    /\ dirs' = dirs \ {<<"verify", proc[p].run>>}
    /\ \E status \in {proc[p].status, "incomplete"} :
          proc' = [proc EXCEPT ![p].status = status, ![p].at = "finish"]
    /\ UNCHANGED <<lifecycleVars, case, workspace, markers, posts, active, pending, task>>

EndVerification(p) ==
    /\ AtStep(p, "verifying")
    /\ dirs' = dirs \ {<<"verify", proc[p].run>>}
    /\ \E status \in {proc[p].status, "incomplete"} :
          proc' = [proc EXCEPT ![p].status = status, ![p].at = "result"]
    /\ UNCHANGED <<lifecycleVars, case, workspace, markers, posts, active, pending, task>>

RecordResult(p) ==
    LET c == task[p].case  r == proc[p].run IN
    /\ AtStep(p, "result") /\ LockFree /\ Exists(c) /\ Linked(c, r) /\ ~ Done(c, r)
    /\ case' = AppendResult(c, r, [status |-> proc[p].status, post |-> TRUE])
    /\ Becomes(p, "finish")
    /\ UNCHANGED <<lifecycleVars, workspace, dirs, markers, posts, active, pending, task>>

\* The deferred steps: the directory goes unless it is kept, then a run that is still
\* open ends as incomplete.
CleanUp(p) ==
    LET r == proc[p].run IN
    /\ AtStep(p, "clean")
    /\ dirs' = IF r \in markers THEN dirs ELSE dirs \ {<<"fork", r>>}
    /\ Becomes(p, IF proc[p].aborted THEN "finish" ELSE "release")
    /\ UNCHANGED <<lifecycleVars, case, workspace, markers, posts, active, pending, task>>

ForkFails(p) ==
    /\ proc[p].op = "fork" /\ faults < MaxFaults
    /\ proc[p].at \in {"mkdir", "capture", "attempt", "link", "mark", "command", "result"}
    /\ EndsInAbort(p)
    /\ faults' = faults + 1
    /\ UNCHANGED <<events, kind, journals, lifecycle, mutation, caseVars>>

----------------------------------------------------------------------------
(* turnal case ("case"), select and apply ("apply")                        *)

\* Create: the case and then its links, appended one by one.  The source turn may be an
\* attempt of a "turnal run", or of a "turnal fork" for another case, running or ended.
CreateCase(p, c) ==
    /\ At(p, "case", "choose") /\ LockFree /\ case[c].state = "absent"
    /\ \/ /\ case' = [case EXCEPT ![c].state = "present"]
          /\ Ends(p)
          /\ UNCHANGED workspace
       \/ \E r \in Runs :
          /\ "attempt" \in events[r]
          /\ case' = [case EXCEPT ![c].state = "present", ![c].source = r]
          /\ task' = [task EXCEPT ![p].case = c]
          /\ workspace' = p
          /\ Becomes(p, "sourceLink")
    /\ UNCHANGED <<lifecycleVars, dirs, markers, posts, active, pending>>

LinkSource(p) ==
    LET c == task[p].case IN
    /\ AtStep(p, "sourceLink")
    /\ case' = [case EXCEPT ![c].links[case[c].source] = @ + 1]
    /\ workspace' = Nobody
    /\ Ends(p)
    /\ UNCHANGED <<lifecycleVars, dirs, markers, posts, active, pending>>

\* Show ends the same way as a command that is refused.
ShowCase(p) ==
    /\ AtStep(p, "choose")
    /\ Ends(p)
    /\ UNCHANGED <<lifecycleVars, case, workspace, dirs, markers, posts, active, pending>>

\* Delete is refused while an attempt has no result.
DeleteCase(p, c) ==
    /\ At(p, "case", "choose") /\ LockFree /\ Exists(c)
    /\ \A r \in Runs : Linked(c, r) => Done(c, r)
    /\ case' = [case EXCEPT ![c].state = "deleted"]
    /\ Ends(p)
    /\ UNCHANGED <<lifecycleVars, workspace, dirs, markers, posts, active, pending>>

WithSelection(c, r) == [case EXCEPT ![c].selected = r, ![c].ever = @ \cup {r}]

SelectAttempt(p, c, r) ==
    /\ At(p, "apply", "choose") /\ LockFree /\ Exists(c) /\ Linked(c, r) /\ HasPost(c, r)
    /\ case' = WithSelection(c, r)
    /\ Ends(p)
    /\ UNCHANGED <<lifecycleVars, workspace, dirs, markers, posts, active, pending>>

\* Apply selects the attempt unless it is selected, then rolls the workspace back to
\* its checkpoint; the rollback event records the application.  An interrupted rollback
\* stands in the way of the next.
Apply(p, c, r) ==
    /\ At(p, "apply", "choose") /\ LockFree /\ Exists(c) /\ Linked(c, r) /\ HasPost(c, r)
    /\ pending = {}
    /\ case' = IF case[c].selected = r THEN case ELSE WithSelection(c, r)
    /\ workspace' = p
    /\ task' = [task EXCEPT ![p].link = <<c, r>>]
    /\ Becomes(p, "applying")
    /\ UNCHANGED <<lifecycleVars, dirs, markers, posts, active, pending>>

Applied(l) == [case EXCEPT ![l[1]].applied = @ \cup {l[2]}]

FinishApply(p) ==
    /\ AtStep(p, "applying")
    /\ case' = Applied(task[p].link)
    /\ workspace' = Nobody
    /\ Ends(p)
    /\ UNCHANGED <<lifecycleVars, dirs, markers, posts, active, pending>>

\* "turnal recovery resume", or the next rollback, records what was restored.
FinishPending(l) ==
    /\ LockFree /\ l \in pending
    /\ case' = Applied(l)
    /\ pending' = pending \ {l}
    /\ UNCHANGED <<runVars, workspace, dirs, markers, posts, active, task>>

----------------------------------------------------------------------------
(* The session of an attempt made by an agent                              *)

TurnEnds(r) ==
    /\ kind[r] = "agent" /\ active[r] \in {"turn", "later"}
    /\ posts' = IF active[r] = "turn" THEN posts \cup {r} ELSE posts
    /\ active' = [active EXCEPT ![r] = IF @ = "turn" THEN "none" ELSE "over"]
    /\ UNCHANGED <<runVars, case, workspace, dirs, markers, pending, task>>

LaterTurn(r) ==
    /\ kind[r] = "agent" /\ active[r] = "none" /\ "attempt" \in events[r]
    /\ active' = [active EXCEPT ![r] = "later"]
    /\ UNCHANGED <<runVars, case, workspace, dirs, markers, posts, pending, task>>

----------------------------------------------------------------------------

\* Steps of RunLifecycle: the first attempt of a run is in a turn, a process that ends
\* forgets, and its workspace lock is free; an apply that is killed may have got as far
\* as its rollback journal.
RunPart(p) ==
    /\ \/ \E op \in Commands \ {"hook"} : Start(p, op)
       \/ \E r \in Runs : StartHook(p, r)
       \/ RunStep(p) \/ FaultStep(p) \/ Kill(p)
    /\ active' = [r \in Runs |->
          IF kind[r] = "agent" /\ "attempt" \in events'[r] \ events[r] THEN "turn" ELSE active[r]]
    /\ task' = [task EXCEPT ![p] = IF proc'[p] = Idle THEN NoTask ELSE @]
    /\ workspace' = IF workspace = p THEN Nobody ELSE workspace
    /\ pending' \in IF AtStep(p, "applying") THEN {pending, pending \cup {task[p].link}}
                                            ELSE {pending}
    /\ UNCHANGED <<case, dirs, markers, posts>>

CaseInit ==
    /\ Init
    /\ case = [c \in Cases |-> Unlinked]
    /\ workspace = Nobody
    /\ dirs = {} /\ markers = {} /\ posts = {} /\ pending = {}
    /\ active = [r \in Runs |-> "none"]
    /\ task = [p \in Procs |-> NoTask]

RecoverCases(p) ==
    \/ Reconcile(p) \/ Conclude(p) \/ Refer(p) \/ ListOrphans(p) \/ Recovered(p)
    \/ \E c \in Cases, r \in Runs : LeaveRunning(p, c, r) \/ Settle(p, c, r)
    \/ \E d \in Dirs : RemoveAbandoned(p, d) \/ RemoveOrphan(p, d)

Fork(p) ==
    \/ NoCase(p) \/ \E c \in Cases : OpenCase(p, c)
    \/ MakeWorkspace(p) \/ StartAttempt(p) \/ LinkAttempt(p) \/ MarkKept(p)
    \/ RunCommand(p) \/ StartVerification(p) \/ EndVerification(p)
    \/ RecordResult(p) \/ CleanUp(p)

CaseCommand(p) ==
    \/ LinkSource(p) \/ ShowCase(p) \/ FinishApply(p)
    \/ \E c \in Cases : CreateCase(p, c) \/ DeleteCase(p, c)
    \/ \E c \in Cases, r \in Runs : SelectAttempt(p, c, r) \/ Apply(p, c, r)

CaseStep(p) == RecoverCases(p) \/ Fork(p) \/ CaseCommand(p)

Next ==
    \/ \E p \in Procs : RunPart(p) \/ CaseStep(p) \/ ForkFails(p)
    \/ \E l \in Links : FinishPending(l)
    \/ \E r \in Runs : TurnEnds(r) \/ LaterTurn(r)

Spec == CaseInit /\ [][Next]_vars

\* A process that is not killed takes its next step; locks are held for a few steps only.
\* Users go on starting commands, interrupted rollbacks are resumed, turns end.
FairSpec ==
    /\ Spec
    /\ \A p \in Procs : SF_vars((RunStep(p) /\ RunPart(p)) \/ CaseStep(p))
    /\ \A p \in Procs : SF_vars(RunPart(p) /\ Start(p, "case"))
    /\ \A r \in Runs : WF_vars(TurnEnds(r))

----------------------------------------------------------------------------
(* Properties                                                              *)

\* An open run that nobody owns any more has a journal, or no command would ever end it.
OpenRunsJournaled ==
    \A r \in Runs : Running(r) /\ ~ OwnerAlive(r) => r \in journals

\* "Live concurrent Runs are untouched" (runs/lifecycle.go), however recovery's reads of
\* journal, log, lock, process, links and directories fall among the owner's steps: until
\* the owner has finished it, its run is open and has its journal, and nobody else records
\* a result for its attempt.
LiveRunsUntouched ==
    \A p \in Procs :
       /\ (\/ proc[p].at \in {"mkdir", "capture", "child", "attempt", "link", "mark", "command",
                             "verify", "verifying", "result", "finish"}
           \/ AtStep(p, "clean") /\ proc[p].aborted) => Accepts(proc[p].run)
       /\ AtStep(p, "result") =>
             LET c == task[p].case IN
             Exists(c) /\ Linked(c, proc[p].run) /\ ~ Done(c, proc[p].run)

\* The log can be projected at every moment, whatever was cut off in the middle:
\* Read and Rebuild, with which every command begins, find no contradiction.
ProjectionsReadable ==
    /\ \A r \in Runs : Readable(r)
    /\ \A c \in Cases : CaseReadable(c)

\* The result of a fork's attempt, in the case it was made for, and the end of its run tell
\* the same, unless the owner got no further than the result: then the run is incomplete.
\* A case made from the turn of a run links that run too: see RecoveredIncomplete.
ResultsAgree ==
    \A l \in Links : LET c == l[1]  r == l[2] IN
       case[c].source # r /\ Done(c, r) /\ EndingsOf(r) # {} =>
          \/ EndingsOf(r) = {"incomplete"}
          \/ EndingsOf(r) = {Result(c, r).status} /\ HasPost(c, r)

\* "terminalizes Case links whose durable Run has already been recovered as incomplete"
\* (cases/attempts.go): what RecoverAbandoned calls incomplete is incomplete.
RecoveredIncomplete ==
    \A l \in Links :
       case[l[1]].source = l[2] /\ Done(l[1], l[2]) => EndingsOf(l[2]) = {"incomplete"}

\* The directory a live fork works in is not removed under it.
ForksKeepWorkspace ==
    \A p \in Procs :
       proc[p].at \in {"capture", "attempt", "link", "mark", "command", "verify", "verifying"}
          /\ proc[p].op = "fork" => <<"fork", proc[p].run>> \in dirs

\* Every attempt gets a result, whatever happened to the process that made it, and
\* every run whose owner is gone gets an end.
AttemptsConclude ==
    /\ \A l \in Links : l \in OpenLinks ~> l \notin OpenLinks
    /\ \A r \in Runs : Running(r) /\ ~ OwnerAlive(r) ~> ~ Running(r)

\* A directory nobody kept is removed in the end.
WorkspacesReclaimed ==
    \A d \in Dirs : d \in dirs ~>
       \/ d \notin dirs \/ d[2] \in markers
       \/ \E c \in Cases : Exists(c) /\ d[2] \in case[c].keep

\* An open run is its owner's while the owner lives, and recovery's afterwards.
RunsOwned == LiveRunsUntouched /\ OpenRunsJournaled

\* The log contradicts itself neither within a run nor between a run and its attempt.
LogConsistent == ProjectionsReadable /\ ResultsAgree
=============================================================================
