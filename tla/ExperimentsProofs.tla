------------------------- MODULE ExperimentsProofs --------------------------
(* What holds of Experiments, and so of RunLifecycle, for every value of the *)
(* constants: any number of processes, runs, cases and faults.               *)
EXTENDS Experiments, FiniteSetTheorems, TLAPS

-----------------------------------------------------------------------------
(* Types                                                                     *)

OwnerAts == {"start", "mkdir", "capture", "child", "attempt", "link", "mark", "command",
             "verify", "verifying", "result", "clean", "finish", "finished", "release"}
ForkAts  == {"mkdir", "attempt", "link", "mark", "command", "verify", "verifying", "result", "clean"}
HookAts  == {"provider", "prompt", "unguarded"}
OtherAts == {"idle", "scan", "recover", "recovered", "begin", "reconcile", "settle", "conclude",
             "remove", "sweep", "open", "choose", "sourceLink", "applying"}
Ats      == OwnerAts \cup HookAts \cup OtherAts
Ops      == {"none", "agent", "fork", "hook", "case", "apply"}

Processes == [op : Ops, at : Ats, run : Runs \cup {Nobody}, status : Endings,
              todo : SUBSET Runs, mends : Runs \cup {Nobody}, aborted : BOOLEAN]
Results   == [status : Endings, post : BOOLEAN]
CaseTypes == [state : {"absent", "present", "deleted"}, source : Runs \cup {Nobody},
              links : [Runs -> Nat], keep : SUBSET Runs, results : [Runs -> Seq(Results)],
              selected : Runs \cup {Nobody}, ever : SUBSET Runs, applied : SUBSET Runs]
Tasks     == [case : Cases \cup {Nobody}, keep : BOOLEAN, open : SUBSET Links,
              refs : SUBSET Dirs, gone : SUBSET Dirs, post : BOOLEAN, link : Links \cup {<<>>}]

\* Which command is where, and whether it has a run.
Placed(c) ==
    /\ c.at = "idle" => c.op = "none"
    /\ c.at \in OwnerAts <=> c.op \in Owners /\ c.run # Nobody
    /\ c.at \in ForkAts => c.op = "fork"
    /\ c.at = "child" => c.op = "agent"
    /\ c.at \in HookAts <=> c.op = "hook"
    /\ c.at \in HookAts => c.run # Nobody
    /\ c.at = "begin" => c.op \in Owners
    /\ c.at = "open" => c.op = "fork"
    /\ c.at \in {"scan", "recover", "recovered"} => c.op # "none"
    /\ c.at \in {"reconcile", "settle", "conclude", "remove", "sweep"} => c.op \in {"fork", "case", "apply"}
    /\ c.at \in {"choose", "sourceLink", "applying"} => c.op \in {"case", "apply"}
    /\ c.at = "recovered" => c.mends # Nobody
    /\ c.aborted => c.at \in {"clean", "finish", "finished", "release"} /\ c.status = "incomplete"

\* What a process must have in memory.
Minded(c, t) ==
    /\ c.op = "fork" /\ c.at \in OwnerAts \cup {"begin"} => t.case \in Cases
    /\ c.at = "sourceLink" => t.case \in Cases
    /\ c.at \in {"conclude", "applying"} => t.link \in Links

RunTypes ==
    /\ events \in [Runs -> SUBSET RunEvents]
    /\ kind \in [Runs -> Owners \cup {"none"}]
    /\ journals \subseteq Runs /\ lifecycle \subseteq Runs
    /\ mutation \in [Runs -> Procs \cup {Nobody}]
    /\ faults \in 0..MaxFaults
    /\ proc \in [Procs -> Processes]
    /\ \A p \in Procs : Placed(proc[p])

RecordTypes ==
    /\ case \in [Cases -> CaseTypes]
    /\ workspace \in Procs \cup {Nobody}
    /\ dirs \subseteq Dirs /\ markers \subseteq Runs /\ posts \subseteq Runs
    /\ active \in [Runs -> {"none", "turn", "later", "over"}]
    /\ pending \subseteq Links

TaskTypes ==
    /\ task \in [Procs -> Tasks]
    /\ \A p \in Procs : Minded(proc[p], task[p])

TypeInv == RunTypes /\ RecordTypes /\ TaskTypes

-----------------------------------------------------------------------------
(* The inductive invariant: runs                                             *)

\* The owner is at work on its run: it has begun and not finished it.
Works(c) ==
    \/ c.at \in {"mkdir", "capture", "child", "attempt", "link", "mark", "command",
                 "verify", "verifying", "result", "finish"}
    \/ c.at = "clean" /\ c.aborted

\* A run has the kind of its owner; hooks are told of runs of agents.
KindKnown(p) ==
    LET c == proc[p] IN
    /\ c.at \in OwnerAts => kind[c.run] = c.op
    /\ c.at \in HookAts => kind[c.run] = "agent" /\ Started(c.run)

\* Begin has made lock and journal, and keeps everybody else out until the run has started.
Opened(p) ==
    LET c == proc[p] IN
    c.at = "start" =>
        events[c.run] = {} /\ mutation[c.run] = p /\ c.run \in journals \cap lifecycle

Worked(p) ==
    LET c == proc[p] IN
    Works(c) => Running(c.run) /\ c.run \in journals \cap lifecycle

\* A journal is removed after the end of its run, under the lock.
Closed(p) ==
    LET c == proc[p] IN
    /\ c.at \in {"finished", "unguarded"} => mutation[c.run] = p /\ EndingsOf(c.run) # {}
    /\ c.at = "recovered" => mutation[c.mends] = p /\ EndingsOf(c.mends) # {}

\* An attempt is recorded behind the capture it belongs to.
Captured(p) ==
    LET c == proc[p] IN
    /\ c.at = "attempt" => "wrapper" \in events[c.run]
    /\ c.at \in {"link", "mark", "command", "verify", "verifying", "result"} => "attempt" \in events[c.run]
    /\ c.at = "prompt" => "provider" \in events[c.run]

OwnerInv(p) == KindKnown(p) /\ Opened(p) /\ Worked(p) /\ Closed(p) /\ Captured(p)

RunInv(r) ==
    /\ kind[r] = "none" => events[r] = {}
    /\ events[r] # {} => Started(r)
    /\ Running(r) => r \in journals
    /\ \A s, t \in EndingsOf(r) : s = t
    /\ "attempt" \in events[r] => (IF kind[r] = "fork" THEN "wrapper" ELSE "provider") \in events[r]

OneOwner ==
    \A p, q \in Procs :
        proc[p].at \in OwnerAts /\ proc[q].at \in OwnerAts /\ proc[p].run = proc[q].run => p = q

RunsInv ==
    /\ \A p \in Procs : OwnerInv(p)
    /\ \A r \in Runs : RunInv(r)
    /\ OneOwner

-----------------------------------------------------------------------------
(* The inductive invariant: cases                                            *)

\* What the records of a case say of a run, and the run of them.
LinkInv(c, r) ==
    /\ case[c].state = "absent" => ~ Linked(c, r)
    /\ case[c].source = r => case[c].state # "absent" /\ "attempt" \in events[r]
    /\ case[c].links[r] <= 1
    /\ Linked(c, r) => "attempt" \in events[r] /\ (case[c].source = r \/ kind[r] = "fork")
    /\ Len(case[c].results[r]) <= 1
    /\ Done(c, r) => Linked(c, r)
    /\ case[c].selected = r => r \in case[c].ever
    /\ r \in case[c].ever => Done(c, r)
    /\ r \in case[c].applied => r \in case[c].ever /\ HasPost(c, r)

\* A fork that ended on its own has recorded its result before, in the case it was made for.
EndInv(c, r) ==
    case[c].source # r /\ Linked(c, r) /\ EndingsOf(r) # {} =>
        \/ EndingsOf(r) = {"incomplete"}
        \/ Done(c, r) /\ EndingsOf(r) = {Result(c, r).status} /\ HasPost(c, r)

\* Nobody but its owner concludes the attempt of a fork that is at work, though cases made
\* from its turn may be linked with it.
ForkInv(p) ==
    LET c == proc[p]  t == task[p] IN
    c.op = "fork" =>
        /\ c.at \in {"begin", "start", "mkdir", "capture", "attempt", "link"} =>
              case[t.case].state # "absent"
        /\ c.at \in {"start", "mkdir", "capture", "attempt", "link"} => ~ Linked(t.case, c.run)
        /\ c.at \in {"mark", "command", "verify", "verifying", "result"} =>
              Exists(t.case) /\ Linked(t.case, c.run)
        /\ c.at \in {"start", "mkdir", "capture", "attempt", "link",
                     "mark", "command", "verify", "verifying", "result"} =>
              /\ case[t.case].source # c.run
              /\ \A d \in Cases : Linked(d, c.run) => d = t.case \/ case[d].source = c.run
              /\ \A d \in Cases : ~ Done(d, c.run)
        /\ c.at = "finish" /\ ~ c.aborted =>
              \A d \in Cases : Linked(d, c.run) /\ case[d].source # c.run =>
                  Done(d, c.run) /\ Result(d, c.run) = [status |-> c.status, post |-> TRUE]

ForkDir(p) ==
    LET c == proc[p] IN
    c.op = "fork" /\ c.at \in {"capture", "attempt", "link", "mark", "command", "verify", "verifying"} =>
        <<"fork", c.run>> \in dirs

Chosen(l) == l[2] \in case[l[1]].ever /\ HasPost(l[1], l[2])

\* What recovery, and the commands about cases, read before they went on.
TaskInv(p) ==
    LET c == proc[p]  t == task[p] IN
    /\ c.at \in {"settle", "conclude"} => \A l \in t.open : Linked(l[1], l[2])
    /\ c.at = "conclude" => Linked(t.link[1], t.link[2]) /\ EndingsOf(t.link[2]) # {}
    /\ c.at = "remove" => \A d \in t.gone : \E e \in Cases : Done(e, d[2])
    /\ c.at = "sourceLink" =>
          LET r == case[t.case].source IN
          /\ workspace = p /\ Exists(t.case)
          /\ r \in Runs /\ "attempt" \in events[r]
          /\ \A s \in Runs : ~ Linked(t.case, s)
    /\ c.at = "applying" => workspace = p /\ Chosen(t.link)

CasesInv ==
    /\ \A c \in Cases, r \in Runs : LinkInv(c, r) /\ EndInv(c, r)
    /\ \A p \in Procs : ForkInv(p) /\ ForkDir(p) /\ TaskInv(p)
    /\ \A l \in pending : Chosen(l)

IInv == RunsInv /\ CasesInv

LEMMA Nobodys == Nobody \notin Procs /\ Nobody \notin Runs
  BY RunAssumption

LEMMA IdleType ==
    /\ Idle \in Processes /\ Placed(Idle)
    /\ NoTask \in Tasks /\ \A t : Minded(Idle, t)
  BY DEF Idle, Processes, Placed, Ops, Ats, OwnerAts, ForkAts, HookAts, OtherAts, Owners,
     Endings, NoTask, Tasks, Minded

LEMMA InitTypes == CaseInit => TypeInv
<1> SUFFICES ASSUME CaseInit PROVE TypeInv
  OBVIOUS
<1>1. RunTypes
  BY IdleType, RunAssumption DEF CaseInit, Init, RunTypes
<1>2. RecordTypes
  BY DEF CaseInit, RecordTypes, Unlinked, CaseTypes
<1>3. TaskTypes
  BY IdleType DEF CaseInit, Init, TaskTypes
<1> QED
  BY <1>1, <1>2, <1>3 DEF TypeInv

\* What a process becomes.
LEMMA BecomeTypes ==
    ASSUME RunTypes, NEW p \in Procs, NEW c \in Processes, Placed(c), proc' = [proc EXCEPT ![p] = c]
    PROVE  proc' \in [Procs -> Processes] /\ \A q \in Procs : Placed(proc'[q])
<1>1. proc' \in [Procs -> Processes] /\ proc'[p] = c /\ \A q \in Procs \ {p} : proc'[q] = proc[q]
  BY DEF RunTypes
<1>2. \A q \in Procs : Placed(proc[q])
  BY DEF RunTypes
<1> QED
  BY <1>1, <1>2

\* The steps of RunLifecycle.
LEMMA RunStepTypes ==
    ASSUME TypeInv, NEW p \in Procs,
           \/ \E op \in Commands \ {"hook"} : Start(p, op)
           \/ \E r \in Runs : StartHook(p, r)
           \/ RunStep(p) \/ FaultStep(p) \/ Kill(p)
    PROVE  RunTypes'
<1> USE RunAssumption, Nobodys
    DEF TypeInv, RunTypes, Processes, Placed, Ats, OwnerAts, ForkAts, HookAts, OtherAts, Ops,
       Owners,
        Endings, RunEvents, AtStep, At, Goto, Idle
<1>1. ASSUME NEW op \in Commands \ {"hook"}, Start(p, op) PROVE RunTypes'
  <2> DEFINE c == [Idle EXCEPT !.op = op, !.at = "scan"]
  <2>1. c \in Processes /\ Placed(c)
    OBVIOUS
  <2>2. proc' = [proc EXCEPT ![p] = c] /\ UNCHANGED <<events, kind, journals, lifecycle, mutation, faults>>
    BY <1>1 DEF Start
  <2> QED
    BY <2>1, <2>2, BecomeTypes
<1>2. ASSUME NEW r \in Runs, StartHook(p, r) PROVE RunTypes'
  <2> DEFINE c == [Idle EXCEPT !.op = "hook", !.at = "provider", !.run = r]
  <2>1. c \in Processes /\ Placed(c)
    OBVIOUS
  <2>2. proc' = [proc EXCEPT ![p] = c] /\ UNCHANGED <<events, kind, journals, lifecycle, mutation, faults>>
    BY <1>2 DEF StartHook
  <2> QED
    BY <2>1, <2>2, BecomeTypes
<1>3. ASSUME ScanJournals(p) PROVE RunTypes'
  BY <1>3 DEF ScanJournals, WithEnding, EndingsOf
<1>4. ASSUME NEW r \in Runs, RecoverRun(p, r) PROVE RunTypes'
  BY <1>4 DEF RecoverRun, WithEnding, EndingsOf
<1>5. ASSUME RecoverClear(p) PROVE RunTypes'
  BY <1>5 DEF RecoverClear, WithEnding, EndingsOf
<1>6. ASSUME RecoverDone(p) PROVE RunTypes'
  BY <1>6 DEF RecoverDone, WithEnding, EndingsOf
<1>7. ASSUME BeginFails(p) PROVE RunTypes'
  BY <1>7 DEF BeginFails, WithEnding, EndingsOf
<1>8. ASSUME NEW r \in Runs, Begin(p, r) PROVE RunTypes'
  BY <1>8 DEF Begin, WithEnding, EndingsOf
<1>9. ASSUME StartRun(p) PROVE RunTypes'
  BY <1>9 DEF StartRun, WithEnding, EndingsOf
<1>10. ASSUME LinkWrapper(p) PROVE RunTypes'
  BY <1>10 DEF LinkWrapper, WithEnding, EndingsOf
<1>11. ASSUME ChildEnds(p) PROVE RunTypes'
  BY <1>11 DEF ChildEnds, WithEnding, EndingsOf
<1>12. ASSUME Finish(p) PROVE RunTypes'
  BY <1>12 DEF Finish, WithEnding, EndingsOf
<1>13. ASSUME ClearJournal(p) PROVE RunTypes'
  BY <1>13 DEF ClearJournal, WithEnding, EndingsOf
<1>14. ASSUME Release(p) PROVE RunTypes'
  BY <1>14 DEF Release, WithEnding, EndingsOf
<1>15. ASSUME HookRecovers(p) PROVE RunTypes'
  BY <1>15 DEF HookRecovers, WithEnding, EndingsOf
<1>16. ASSUME HookClears(p) PROVE RunTypes'
  BY <1>16 DEF HookClears, WithEnding, EndingsOf
<1>17. ASSUME StartRunFails(p) PROVE RunTypes'
  BY <1>17 DEF StartRunFails, WithEnding, EndingsOf
<1>18. ASSUME FinishFails(p) PROVE RunTypes'
  BY <1>18 DEF FinishFails, WithEnding, EndingsOf
<1>19. ASSUME OwnerFails(p) PROVE RunTypes'
  BY <1>19 DEF OwnerFails, WithEnding, EndingsOf
<1>20. ASSUME Kill(p) PROVE RunTypes'
  BY <1>20 DEF Kill, WithEnding, EndingsOf
<1>21. ASSUME LinkProvider(p) PROVE RunTypes'
  <2>1. events' \in {events, [events EXCEPT ![proc[p].run] = @ \cup {"provider"}]}
    BY <1>21 DEF LinkProvider, Attach
  <2>2. proc' \in {[proc EXCEPT ![p].at = "prompt"], [proc EXCEPT ![p] = Idle]} /\ proc[p].op = "hook"
    BY <1>21 DEF LinkProvider, Attach
  <2>3. UNCHANGED <<kind, journals, lifecycle, mutation, faults>>
    BY <1>21 DEF LinkProvider, Attach
  <2>4. CASE proc' = [proc EXCEPT ![p].at = "prompt"]
    BY <2>1, <2>2, <2>3, <2>4
  <2>5. CASE proc' = [proc EXCEPT ![p] = Idle]
    BY <2>1, <2>2, <2>3, <2>5
  <2> QED
    BY <2>2, <2>4, <2>5
<1>22. ASSUME EnsureAttempt(p) PROVE RunTypes'
  <2>1. events' \in {events, [events EXCEPT ![proc[p].run] = @ \cup {"attempt"}]}
    BY <1>22 DEF EnsureAttempt, Attach
  <2>2. proc' \in {[proc EXCEPT ![p].at = "prompt"], [proc EXCEPT ![p] = Idle]} /\ proc[p].op = "hook"
    BY <1>22 DEF EnsureAttempt, Attach
  <2>3. UNCHANGED <<kind, journals, lifecycle, mutation, faults>>
    BY <1>22 DEF EnsureAttempt, Attach
  <2>4. CASE proc' = [proc EXCEPT ![p].at = "prompt"]
    BY <2>1, <2>2, <2>3, <2>4
  <2>5. CASE proc' = [proc EXCEPT ![p] = Idle]
    BY <2>1, <2>2, <2>3, <2>5
  <2> QED
    BY <2>2, <2>4, <2>5
<1> QED
  BY <1>1, <1>2, <1>3, <1>4, <1>5, <1>6, <1>7, <1>8, <1>9, <1>10, <1>11, <1>12, <1>13, <1>14,
     <1>15, <1>16, <1>17, <1>18, <1>19, <1>20, <1>21, <1>22 DEF RunStep, RecoverStep, OwnerStep,
     HookStep, FaultStep

LEMMA RunOf ==
    ASSUME TypeInv, NEW p \in Procs
    PROVE  /\ proc[p].at \in OwnerAts \cup HookAts => proc[p].run \in Runs
           /\ proc[p].op = "fork" /\ proc[p].at \in OwnerAts \cup {"begin"} => task[p].case \in Cases
           /\ proc[p].at = "sourceLink" => task[p].case \in Cases
           /\ proc[p].at \in {"conclude", "applying"} =>
                 /\ task[p].link \in Links
                 /\ task[p].link[1] \in Cases /\ task[p].link[2] \in Runs
<1>1. proc[p].at \in OwnerAts \cup HookAts => proc[p].run \in Runs
  BY DEF TypeInv, RunTypes, Placed, Processes
<1>2. Minded(proc[p], task[p])
  BY DEF TypeInv, TaskTypes
<1> QED
  BY <1>1, <1>2, Zenon DEF Minded, Links

LEMMA CaseStepRunTypes ==
    ASSUME TypeInv, NEW p \in Procs, CaseStep(p) \/ ForkFails(p)
    PROVE  RunTypes'
<1> USE RunAssumption, Nobodys
    DEF TypeInv, RunTypes, Processes, Placed, Ats, OwnerAts, ForkAts, HookAts, OtherAts, Ops,
       Owners,
        Endings, RunEvents, AtStep, At, Idle, Becomes, Ends, EndsInAbort, lifecycleVars, runVars
<1>1. ASSUME Reconcile(p) PROVE RunTypes'
  BY <1>1 DEF Reconcile
<1>2. ASSUME NEW c \in Cases, NEW r \in Runs, LeaveRunning(p, c, r) PROVE RunTypes'
  BY <1>2 DEF LeaveRunning
<1>3. ASSUME NEW c \in Cases, NEW r \in Runs, Settle(p, c, r) PROVE RunTypes'
  <2>1. proc[p].at = "settle" /\ UNCHANGED lifecycleVars
    BY <1>3 DEF Settle
  <2>2. proc' = [proc EXCEPT ![p] = Idle] \/ proc' = [proc EXCEPT ![p].at = "conclude"]
    BY <1>3 DEF Settle
  <2>3. CASE proc' = [proc EXCEPT ![p] = Idle]
    BY <2>1, <2>3
  <2>4. CASE proc' = [proc EXCEPT ![p].at = "conclude"]
    BY <2>1, <2>4
  <2> QED
    BY <2>2, <2>3, <2>4
<1>4. ASSUME Conclude(p) PROVE RunTypes'
  <2>1. proc[p].at = "conclude" /\ UNCHANGED lifecycleVars
    BY <1>4 DEF Conclude
  <2>2. proc' = [proc EXCEPT ![p] = Idle] \/ proc' = [proc EXCEPT ![p].at = "settle"]
    BY <1>4 DEF Conclude
  <2>3. CASE proc' = [proc EXCEPT ![p] = Idle]
    BY <2>1, <2>3
  <2>4. CASE proc' = [proc EXCEPT ![p].at = "settle"]
    BY <2>1, <2>4
  <2> QED
    BY <2>2, <2>3, <2>4
<1>5. ASSUME Refer(p) PROVE RunTypes'
  BY <1>5 DEF Refer
<1>6. ASSUME NEW d \in Dirs, RemoveAbandoned(p, d) PROVE RunTypes'
  BY <1>6 DEF RemoveAbandoned
<1>7. ASSUME ListOrphans(p) PROVE RunTypes'
  BY <1>7 DEF ListOrphans
<1>8. ASSUME NEW d \in Dirs, RemoveOrphan(p, d) PROVE RunTypes'
  BY <1>8 DEF RemoveOrphan
<1>9. ASSUME Recovered(p) PROVE RunTypes'
  BY <1>9 DEF Recovered
<1>10. ASSUME NEW c \in Cases, OpenCase(p, c) PROVE RunTypes'
  BY <1>10 DEF OpenCase
<1>11. ASSUME NoCase(p) PROVE RunTypes'
  BY <1>11 DEF NoCase
<1>12. ASSUME MakeWorkspace(p) PROVE RunTypes'
  BY <1>12 DEF MakeWorkspace
<1>13. ASSUME StartAttempt(p) PROVE RunTypes'
  BY <1>13 DEF StartAttempt
<1>14. ASSUME LinkAttempt(p) PROVE RunTypes'
  <2>1. proc' \in {[proc EXCEPT ![p].at = "mark"], [proc EXCEPT ![p].at = "command"],
                     [proc EXCEPT ![p].status = "incomplete", ![p].aborted = TRUE, ![p].at = "clean"]}
    BY <1>14 DEF LinkAttempt
  <2>2. proc[p].at = "link" /\ UNCHANGED lifecycleVars
    BY <1>14 DEF LinkAttempt
  <2>3. CASE proc' = [proc EXCEPT ![p].at = "mark"]
    BY <2>2, <2>3
  <2>4. CASE proc' = [proc EXCEPT ![p].at = "command"]
    BY <2>2, <2>4
  <2>5. CASE proc' = [proc EXCEPT ![p].status = "incomplete", ![p].aborted = TRUE, ![p].at = "clean"]
    BY <2>2, <2>5
  <2> QED
    BY <2>1, <2>3, <2>4, <2>5
<1>15. ASSUME MarkKept(p) PROVE RunTypes'
  BY <1>15 DEF MarkKept
<1>16. ASSUME RunCommand(p) PROVE RunTypes'
  BY <1>16 DEF RunCommand
<1>17. ASSUME StartVerification(p) PROVE RunTypes'
  BY <1>17 DEF StartVerification
<1>18. ASSUME EndVerification(p) PROVE RunTypes'
  BY <1>18 DEF EndVerification
<1>19. ASSUME RecordResult(p) PROVE RunTypes'
  BY <1>19 DEF RecordResult
<1>20. ASSUME CleanUp(p) PROVE RunTypes'
  BY <1>20 DEF CleanUp
<1>21. ASSUME ForkFails(p) PROVE RunTypes'
  BY <1>21 DEF ForkFails
<1>22. ASSUME LinkSource(p) PROVE RunTypes'
  BY <1>22 DEF LinkSource
<1>23. ASSUME ShowCase(p) PROVE RunTypes'
  BY <1>23 DEF ShowCase
<1>24. ASSUME FinishApply(p) PROVE RunTypes'
  BY <1>24 DEF FinishApply
<1>25. ASSUME NEW c \in Cases, CreateCase(p, c) PROVE RunTypes'
  <2>1. proc[p].at = "choose" /\ UNCHANGED lifecycleVars
    BY <1>25 DEF CreateCase
  <2>2. proc' = [proc EXCEPT ![p] = Idle] \/ proc' = [proc EXCEPT ![p].at = "sourceLink"]
    BY <1>25 DEF CreateCase
  <2>3. CASE proc' = [proc EXCEPT ![p] = Idle]
    BY <2>1, <2>3
  <2>4. CASE proc' = [proc EXCEPT ![p].at = "sourceLink"]
    BY <2>1, <2>4, <1>25 DEF CreateCase
  <2> QED
    BY <2>2, <2>3, <2>4
<1>26. ASSUME NEW c \in Cases, DeleteCase(p, c) PROVE RunTypes'
  BY <1>26 DEF DeleteCase
<1>27. ASSUME NEW c \in Cases, NEW r \in Runs, SelectAttempt(p, c, r) PROVE RunTypes'
  BY <1>27 DEF SelectAttempt
<1>28. ASSUME NEW c \in Cases, NEW r \in Runs, Apply(p, c, r) PROVE RunTypes'
  BY <1>28 DEF Apply
<1> QED
  BY <1>1, <1>2, <1>3, <1>4, <1>5, <1>6, <1>7, <1>8, <1>9, <1>10, <1>11, <1>12, <1>13, <1>14,
     <1>15, <1>16, <1>17, <1>18, <1>19, <1>20, <1>21, <1>22, <1>23, <1>24, <1>25, <1>26, <1>27,
     <1>28, Zenon DEF CaseStep, RecoverCases, Fork, CaseCommand

\* What the writers of case records do.
LEMMA CaseBecomes ==
    ASSUME TypeInv, NEW c \in Cases, NEW k \in CaseTypes, case' = [case EXCEPT ![c] = k]
    PROVE  /\ case' \in [Cases -> CaseTypes] /\ case'[c] = k
           /\ \A d \in Cases \ {c} : case'[d] = case[d]
  BY DEF TypeInv, RecordTypes

LEMMA ResultAppended ==
    ASSUME TypeInv, NEW c \in Cases, NEW r \in Runs, NEW result \in Results,
           case' = AppendResult(c, r, result)
    PROVE  /\ case' \in [Cases -> CaseTypes]
           /\ case'[c] = [case[c] EXCEPT !.results = case'[c].results]
           /\ case'[c].results = [case[c].results EXCEPT ![r] = Append(case[c].results[r], result)]
           /\ \A d \in Cases \ {c} : case'[d] = case[d]
<1> DEFINE longer == [case[c].results EXCEPT ![r] = Append(case[c].results[r], result)]
           k == [case[c] EXCEPT !.results = longer]
<1>4. case[c] \in CaseTypes
  BY DEF TypeInv, RecordTypes
<1>1. k \in CaseTypes
  <2>1. case[c].results \in [Runs -> Seq(Results)]
    BY <1>4 DEF CaseTypes
  <2>2. Append(case[c].results[r], result) \in Seq(Results)
    BY <2>1
  <2>3. longer \in [Runs -> Seq(Results)]
    BY <2>1, <2>2
  <2> HIDE DEF longer
  <2> QED
    BY <1>4, <2>3 DEF CaseTypes
<1>2. case' = [case EXCEPT ![c] = k]
  BY DEF AppendResult
<1>3. case' \in [Cases -> CaseTypes] /\ case'[c] = k /\ \A d \in Cases \ {c} : case'[d] = case[d]
  BY <1>1, <1>2, CaseBecomes
<1> QED
  BY <1>3, <1>4, Zenon DEF CaseTypes

LEMMA LinkAdded ==
    ASSUME TypeInv, NEW c \in Cases, NEW r \in Runs, NEW kept \in SUBSET Runs,
           case' = [case EXCEPT ![c] = [case[c] EXCEPT
                       !.links = [case[c].links EXCEPT ![r] = case[c].links[r] + 1], !.keep = kept]]
    PROVE  /\ case' \in [Cases -> CaseTypes]
           /\ case'[c] = [case[c] EXCEPT !.links = case'[c].links, !.keep = case'[c].keep]
           /\ case'[c].links = [case[c].links EXCEPT ![r] = case[c].links[r] + 1]
           /\ \A d \in Cases \ {c} : case'[d] = case[d]
<1> DEFINE more == [case[c].links EXCEPT ![r] = case[c].links[r] + 1]
           k == [case[c] EXCEPT !.links = more, !.keep = kept]
<1>4. case[c] \in CaseTypes
  BY DEF TypeInv, RecordTypes
<1>1. k \in CaseTypes
  <2>1. case[c].links \in [Runs -> Nat]
    BY <1>4 DEF CaseTypes
  <2>2. more \in [Runs -> Nat]
    BY <2>1
  <2> HIDE DEF more
  <2> QED
    BY <1>4, <2>2 DEF CaseTypes
<1>3. case' \in [Cases -> CaseTypes] /\ case'[c] = k /\ \A d \in Cases \ {c} : case'[d] = case[d]
  BY <1>1, CaseBecomes, Zenon
<1> QED
  BY <1>3, <1>4, Zenon DEF CaseTypes

LEMMA AttemptLinked ==
    ASSUME TypeInv, NEW p \in Procs, LinkAttempt(p), case' # case
    PROVE  LET c == task[p].case  r == proc[p].run IN
           /\ c \in Cases /\ r \in Runs /\ Exists(c)
           /\ case' \in [Cases -> CaseTypes]
           /\ case'[c] = [case[c] EXCEPT !.links = case'[c].links, !.keep = case'[c].keep]
           /\ case'[c].links = [case[c].links EXCEPT ![r] = case[c].links[r] + 1]
           /\ \A d \in Cases \ {c} : case'[d] = case[d]
<1> DEFINE c == task[p].case
           r == proc[p].run
           kept == IF task[p].keep THEN case[c].keep \cup {r} ELSE case[c].keep
<1>1. proc[p].at = "link"
  BY DEF LinkAttempt, AtStep
<1>2. c \in Cases /\ r \in Runs
  BY <1>1, RunOf DEF TypeInv, RunTypes, Placed, OwnerAts, ForkAts
<1>3. case[c] \in CaseTypes
  BY <1>2 DEF TypeInv, RecordTypes
<1>4. kept \in SUBSET Runs
  BY <1>2, <1>3 DEF CaseTypes
<1>5. Exists(c) /\ case' = [case EXCEPT ![c].links[r] = @ + 1,
                                      ![c].keep = IF task[p].keep THEN @ \cup {r} ELSE @]
  BY DEF LinkAttempt
<1> HIDE DEF c, r
<1>6. case' = [case EXCEPT ![c] = [case[c] EXCEPT
                       !.links = [case[c].links EXCEPT ![r] = case[c].links[r] + 1], !.keep = kept]]
  BY <1>2, <1>3, <1>5 DEF CaseTypes, TypeInv, RecordTypes
<1> HIDE DEF kept
<1>7. /\ case' \in [Cases -> CaseTypes]
      /\ case'[c] = [case[c] EXCEPT !.links = case'[c].links, !.keep = case'[c].keep]
      /\ case'[c].links = [case[c].links EXCEPT ![r] = case[c].links[r] + 1]
      /\ \A d \in Cases \ {c} : case'[d] = case[d]
  BY <1>2, <1>4, <1>6, LinkAdded
<1> QED
  BY <1>2, <1>5, <1>7, Zenon DEF c, r

LEMMA SourceLinked ==
    ASSUME TypeInv, NEW p \in Procs, LinkSource(p), case' # case
    PROVE  LET c == task[p].case  r == case[c].source IN
           /\ c \in Cases /\ r \in Runs
           /\ case' \in [Cases -> CaseTypes]
           /\ case'[c] = [case[c] EXCEPT !.links = case'[c].links, !.keep = case'[c].keep]
           /\ case'[c].links = [case[c].links EXCEPT ![r] = case[c].links[r] + 1]
           /\ \A d \in Cases \ {c} : case'[d] = case[d]
<1> DEFINE c == task[p].case
           r == case[c].source
<1>1. proc[p].at = "sourceLink"
  BY DEF LinkSource, AtStep
<1>2. c \in Cases
  BY <1>1, RunOf
<1>3. case[c] \in CaseTypes /\ case \in [Cases -> CaseTypes]
  BY <1>2 DEF TypeInv, RecordTypes
<1>4. case' = [case EXCEPT ![c] = [case[c] EXCEPT
                       !.links = [case[c].links EXCEPT ![r] = case[c].links[r] + 1]]]
  BY DEF LinkSource
<1> HIDE DEF c, r
<1>5. r \in Runs
  <2>1. SUFFICES ASSUME r \notin Runs PROVE case' = case
    OBVIOUS
  <2>2. [case[c].links EXCEPT ![r] = case[c].links[r] + 1] = case[c].links
    BY <1>3, <2>1 DEF CaseTypes
  <2>3. case' = [case EXCEPT ![c] = [case[c] EXCEPT !.links = case[c].links]]
    BY <1>4, <2>2
  <2> QED
    BY <1>3, <2>3 DEF CaseTypes
<1>6. case[c].keep \in SUBSET Runs
  BY <1>3 DEF CaseTypes
<1>7. case' = [case EXCEPT ![c] = [case[c] EXCEPT
                       !.links = [case[c].links EXCEPT ![r] = case[c].links[r] + 1], !.keep = case[c].keep]]
  BY <1>3, <1>4, Zenon DEF CaseTypes
<1>8. /\ case' \in [Cases -> CaseTypes]
      /\ case'[c] = [case[c] EXCEPT !.links = case'[c].links, !.keep = case'[c].keep]
      /\ case'[c].links = [case[c].links EXCEPT ![r] = case[c].links[r] + 1]
      /\ \A d \in Cases \ {c} : case'[d] = case[d]
  BY <1>2, <1>5, <1>6, <1>7, LinkAdded
<1> QED
  BY <1>2, <1>5, <1>8 DEF c, r

LEMMA StateChanged ==
    ASSUME TypeInv, NEW c \in Cases, NEW s \in {"present", "deleted"}, NEW r \in Runs \cup {Nobody},
           case' = [case EXCEPT ![c] = [case[c] EXCEPT !.state = s, !.source = r]]
    PROVE  /\ case' \in [Cases -> CaseTypes]
           /\ case'[c] = [case[c] EXCEPT !.state = s, !.source = r]
           /\ \A d \in Cases \ {c} : case'[d] = case[d]
<1>0. case[c] \in CaseTypes
  BY DEF TypeInv, RecordTypes
<1>1. [case[c] EXCEPT !.state = s, !.source = r] \in CaseTypes
  BY <1>0 DEF CaseTypes
<1> QED
  BY <1>1, CaseBecomes, Zenon

LEMMA Selected ==
    ASSUME TypeInv, NEW c \in Cases, NEW r \in Runs, case' = WithSelection(c, r)
    PROVE  /\ case' \in [Cases -> CaseTypes]
           /\ case'[c] = [case[c] EXCEPT !.selected = r, !.ever = case[c].ever \cup {r}]
           /\ \A d \in Cases \ {c} : case'[d] = case[d]
<1> DEFINE k == [case[c] EXCEPT !.selected = r, !.ever = case[c].ever \cup {r}]
<1>0. case[c] \in CaseTypes
  BY DEF TypeInv, RecordTypes
<1>1. k \in CaseTypes
  BY <1>0 DEF CaseTypes
<1>2. case' = [case EXCEPT ![c] = k]
  BY DEF TypeInv, RecordTypes, CaseTypes, WithSelection
<1> QED
  BY <1>1, <1>2, CaseBecomes

LEMMA AppliedIs ==
    ASSUME TypeInv, NEW l \in Links, case' = Applied(l)
    PROVE  /\ case' \in [Cases -> CaseTypes]
           /\ case'[l[1]] = [case[l[1]] EXCEPT !.applied = case[l[1]].applied \cup {l[2]}]
           /\ \A d \in Cases \ {l[1]} : case'[d] = case[d]
<1> DEFINE c == l[1]
<1> DEFINE k == [case[c] EXCEPT !.applied = case[c].applied \cup {l[2]}]
<1>4. c \in Cases /\ l[2] \in Runs
  BY DEF Links
<1>5. case[c] \in CaseTypes
  BY <1>4 DEF TypeInv, RecordTypes
<1>1. c \in Cases /\ k \in CaseTypes
  BY <1>4, <1>5 DEF CaseTypes
<1>2. case' = [case EXCEPT ![c] = k]
  BY <1>1 DEF TypeInv, RecordTypes, CaseTypes, Applied
<1> QED
  BY <1>1, <1>2, CaseBecomes

LEMMA CaseCreated ==
    ASSUME TypeInv, NEW p \in Procs, NEW c \in Cases, CreateCase(p, c)
    PROVE  \E r \in Runs \cup {Nobody} :
              case' = [case EXCEPT ![c] = [case[c] EXCEPT !.state = "present", !.source = r]]
<1> USE DEF TypeInv, RecordTypes, CaseTypes
<1>1. CASE case' = [case EXCEPT ![c].state = "present"]
  <2>1. case' = [case EXCEPT ![c] = [case[c] EXCEPT !.state = "present", !.source = case[c].source]]
    BY <1>1
  <2> QED
    BY <2>1
<1>2. ASSUME NEW r \in Runs, case' = [case EXCEPT ![c].state = "present", ![c].source = r]
      PROVE  case' = [case EXCEPT ![c] = [case[c] EXCEPT !.state = "present", !.source = r]]
  BY <1>2
<1> QED
  BY <1>1, <1>2 DEF CreateCase

LEMMA CaseDeleted ==
    ASSUME TypeInv, NEW p \in Procs, NEW c \in Cases, DeleteCase(p, c)
    PROVE  \E r \in Runs \cup {Nobody} :
              /\ r = case[c].source
              /\ case' = [case EXCEPT ![c] = [case[c] EXCEPT !.state = "deleted", !.source = r]]
<1> USE DEF TypeInv, RecordTypes, CaseTypes
<1>1. case' = [case EXCEPT ![c] = [case[c] EXCEPT !.state = "deleted", !.source = case[c].source]]
  BY DEF DeleteCase
<1> QED
  BY <1>1

LEMMA CaseStepRecordTypes ==
    ASSUME TypeInv, NEW p \in Procs, CaseStep(p) \/ ForkFails(p)
    PROVE  RecordTypes'
<1> DEFINE Kept == workspace' \in {workspace, p, Nobody} /\ UNCHANGED <<dirs, markers, posts, active>>
<1>0. ASSUME case' \in [Cases -> CaseTypes], Kept, pending' \subseteq pending PROVE RecordTypes'
  BY <1>0 DEF TypeInv, RecordTypes
<1> USE RunOf DEF TypeInv, RecordTypes, AtStep, At, Dirs, OwnerAts, HookAts, caseVars
<1>1. ASSUME Reconcile(p) PROVE RecordTypes'
  BY <1>1 DEF Reconcile
<1>2. ASSUME NEW c \in Cases, NEW r \in Runs, LeaveRunning(p, c, r) PROVE RecordTypes'
  BY <1>2 DEF LeaveRunning
<1>3. ASSUME NEW c \in Cases, NEW r \in Runs, Settle(p, c, r) PROVE RecordTypes'
  BY <1>3 DEF Settle
<1>4. ASSUME Conclude(p) PROVE RecordTypes'
  <2>1. proc[p].at = "conclude" /\ Kept /\ pending' \subseteq pending
    BY <1>4 DEF Conclude
  <2>2. PICK c \in Cases, r \in Runs, result \in Results :
           case' = case \/ case' = AppendResult(c, r, result)
    <3>1. task[p].link[1] \in Cases /\ task[p].link[2] \in Runs
      BY <2>1
    <3>2. [status |-> "incomplete", post |-> task[p].post] \in Results
      BY DEF TaskTypes, Tasks, Results, Endings
    <3> QED
      BY <1>4, <3>1, <3>2 DEF Conclude
  <2>3. CASE case' = case
    BY <2>1, <2>3, <1>0
  <2>4. CASE case' = AppendResult(c, r, result)
    BY <2>1, <2>4, ResultAppended, <1>0
  <2> QED
    BY <2>2, <2>3, <2>4
<1>5. ASSUME Refer(p) PROVE RecordTypes'
  BY <1>5 DEF Refer
<1>6. ASSUME NEW d \in Dirs, RemoveAbandoned(p, d) PROVE RecordTypes'
  BY <1>6 DEF RemoveAbandoned
<1>7. ASSUME ListOrphans(p) PROVE RecordTypes'
  BY <1>7 DEF ListOrphans
<1>8. ASSUME NEW d \in Dirs, RemoveOrphan(p, d) PROVE RecordTypes'
  BY <1>8 DEF RemoveOrphan
<1>9. ASSUME Recovered(p) PROVE RecordTypes'
  BY <1>9 DEF Recovered
<1>10. ASSUME NEW c \in Cases, OpenCase(p, c) PROVE RecordTypes'
  BY <1>10 DEF OpenCase
<1>11. ASSUME NoCase(p) PROVE RecordTypes'
  BY <1>11 DEF NoCase
<1>12. ASSUME MakeWorkspace(p) PROVE RecordTypes'
  <2>1. <<"fork", proc[p].run>> \in Dirs
    BY <1>12 DEF MakeWorkspace
  <2> QED
    BY <1>12, <2>1 DEF MakeWorkspace
<1>13. ASSUME StartAttempt(p) PROVE RecordTypes'
  BY <1>13 DEF StartAttempt
<1>14. ASSUME LinkAttempt(p) PROVE RecordTypes'
  <2>1. Kept /\ pending' \subseteq pending
    BY <1>14 DEF LinkAttempt
  <2>2. case' \in [Cases -> CaseTypes]
    BY <1>14, AttemptLinked, Zenon
  <2> QED
    BY <2>1, <2>2, <1>0, Zenon
<1>15. ASSUME MarkKept(p) PROVE RecordTypes'
  BY <1>15 DEF MarkKept
<1>16. ASSUME RunCommand(p) PROVE RecordTypes'
  BY <1>16 DEF RunCommand
<1>17. ASSUME StartVerification(p) PROVE RecordTypes'
  <2>1. <<"verify", proc[p].run>> \in Dirs
    BY <1>17 DEF StartVerification
  <2>2. dirs' \in {dirs, dirs \cup {<<"verify", proc[p].run>>}}
    BY <1>17 DEF StartVerification
  <2>3. UNCHANGED <<case, workspace, markers, posts, active, pending>>
    BY <1>17 DEF StartVerification
  <2> QED
    BY <2>1, <2>2, <2>3
<1>18. ASSUME EndVerification(p) PROVE RecordTypes'
  BY <1>18 DEF EndVerification
<1>19. ASSUME RecordResult(p) PROVE RecordTypes'
  <2>1. proc[p].at = "result" /\ Kept /\ pending' \subseteq pending
    BY <1>19 DEF RecordResult
  <2>2. task[p].case \in Cases /\ proc[p].run \in Runs
    BY <2>1 DEF RunTypes, Placed, ForkAts
  <2>3. [status |-> proc[p].status, post |-> TRUE] \in Results
    BY DEF RunTypes, Processes, Results
  <2> QED
    BY <1>19, <2>1, <2>2, <2>3, ResultAppended, <1>0 DEF RecordResult
<1>20. ASSUME CleanUp(p) PROVE RecordTypes'
  BY <1>20 DEF CleanUp
<1>21. ASSUME ForkFails(p) PROVE RecordTypes'
  BY <1>21 DEF ForkFails
<1>22. ASSUME LinkSource(p) PROVE RecordTypes'
  <2>1. Kept /\ pending' \subseteq pending
    BY <1>22 DEF LinkSource
  <2>2. case' \in [Cases -> CaseTypes]
    BY <1>22, SourceLinked, Zenon
  <2> QED
    BY <2>1, <2>2, <1>0, Zenon
<1>23. ASSUME ShowCase(p) PROVE RecordTypes'
  BY <1>23 DEF ShowCase
<1>24. ASSUME FinishApply(p) PROVE RecordTypes'
  <2>1. proc[p].at = "applying" /\ Kept /\ pending' \subseteq pending
    BY <1>24 DEF FinishApply
  <2> QED
    BY <1>24, <2>1, AppliedIs, <1>0 DEF FinishApply
<1>25. ASSUME NEW c \in Cases, CreateCase(p, c) PROVE RecordTypes'
  <2>1. Kept /\ pending' \subseteq pending
    BY <1>25 DEF CreateCase
  <2>2. PICK r \in Runs \cup {Nobody} :
           case' = [case EXCEPT ![c] = [case[c] EXCEPT !.state = "present", !.source = r]]
    BY <1>25, CaseCreated
  <2> QED
    BY <2>1, <2>2, StateChanged, <1>0
<1>26. ASSUME NEW c \in Cases, DeleteCase(p, c) PROVE RecordTypes'
  <2>1. Kept /\ pending' \subseteq pending
    BY <1>26 DEF DeleteCase
  <2>2. PICK r \in Runs \cup {Nobody} :
           case' = [case EXCEPT ![c] = [case[c] EXCEPT !.state = "deleted", !.source = r]]
    BY <1>26, CaseDeleted
  <2> QED
    BY <2>1, <2>2, StateChanged, <1>0
<1>27. ASSUME NEW c \in Cases, NEW r \in Runs, SelectAttempt(p, c, r) PROVE RecordTypes'
  <2>1. Kept /\ pending' \subseteq pending /\ case' = WithSelection(c, r)
    BY <1>27 DEF SelectAttempt
  <2> QED
    BY <2>1, Selected, <1>0
<1>28. ASSUME NEW c \in Cases, NEW r \in Runs, Apply(p, c, r) PROVE RecordTypes'
  <2>1. Kept /\ pending' \subseteq pending /\ (case' = case \/ case' = WithSelection(c, r))
    BY <1>28 DEF Apply
  <2> QED
    BY <2>1, Selected, <1>0
<1> QED
  BY <1>1, <1>2, <1>3, <1>4, <1>5, <1>6, <1>7, <1>8, <1>9, <1>10, <1>11, <1>12, <1>13, <1>14,
     <1>15, <1>16, <1>17, <1>18, <1>19, <1>20, <1>21, <1>22, <1>23, <1>24, <1>25, <1>26, <1>27,
     <1>28, Zenon DEF CaseStep, RecoverCases, Fork, CaseCommand

\* What a process has in memory.
LEMMA MindTypes ==
    ASSUME TypeInv, NEW p \in Procs, NEW c, NEW t \in Tasks, Minded(c, t),
           proc' = [proc EXCEPT ![p] = c], task' = [task EXCEPT ![p] = t]
    PROVE  TaskTypes'
  BY DEF TypeInv, RunTypes, TaskTypes

LEMMA EndsTypes ==
    ASSUME TypeInv, NEW p \in Procs, Ends(p)
    PROVE  TaskTypes'
  BY IdleType, MindTypes DEF Ends

LEMMA SetsTyped ==
    OpenLinks \subseteq Links /\ Referenced \subseteq Dirs /\ Abandoned \subseteq Dirs
  BY DEF OpenLinks, Referenced, Abandoned

LEMMA CaseStepTaskTypes ==
    ASSUME TypeInv, NEW p \in Procs, CaseStep(p) \/ ForkFails(p)
    PROVE  TaskTypes'
<1>0. /\ proc[p] \in Processes /\ task[p] \in Tasks /\ Placed(proc[p]) /\ Minded(proc[p], task[p])
      /\ proc \in [Procs -> Processes] /\ task \in [Procs -> Tasks]
      /\ proc = [proc EXCEPT ![p] = proc[p]] /\ task = [task EXCEPT ![p] = task[p]]
  BY DEF TypeInv, RunTypes, TaskTypes
<1> USE <1>0, RunOf, SetsTyped
    DEF AtStep, At, Becomes, EndsInAbort, Minded, Placed, Tasks, Processes, OwnerAts, Owners
<1>1. ASSUME Reconcile(p) PROVE TaskTypes'
  <2> DEFINE k == [proc[p] EXCEPT !.at = "settle"]
             t == [task[p] EXCEPT !.open = OpenLinks]
  <2>1. proc' = [proc EXCEPT ![p] = k] /\ task' = [task EXCEPT ![p] = t]
    BY <1>1 DEF Reconcile
  <2>2. t \in Tasks /\ Minded(k, t)
    BY <1>1 DEF Reconcile, Links, TypeInv, RecordTypes
  <2> HIDE DEF k, t
  <2> QED
    BY <2>1, <2>2, MindTypes
<1>2. ASSUME NEW c \in Cases, NEW r \in Runs, LeaveRunning(p, c, r) PROVE TaskTypes'
  <2> DEFINE k == proc[p]
             t == [task[p] EXCEPT !.open = task[p].open \ {<<c, r>>}]
  <2>1. proc' = [proc EXCEPT ![p] = k] /\ task' = [task EXCEPT ![p] = t]
    BY <1>2 DEF LeaveRunning, runVars
  <2>2. t \in Tasks /\ Minded(k, t)
    BY <1>2 DEF LeaveRunning, Links, TypeInv, RecordTypes
  <2> HIDE DEF k, t
  <2> QED
    BY <2>1, <2>2, MindTypes
<1>3. ASSUME NEW c \in Cases, NEW r \in Runs, Settle(p, c, r) PROVE TaskTypes'
  <2> DEFINE k == [proc[p] EXCEPT !.at = "conclude"]
             t == [task[p] EXCEPT !.open = task[p].open \ {<<c, r>>}, !.link = <<c, r>>,
                              !.post = r \in posts]
  <2>1. Ends(p) \/ (proc' = [proc EXCEPT ![p] = k] /\ task' = [task EXCEPT ![p] = t])
    BY <1>3 DEF Settle
  <2>3. <<c, r>> \in Links /\ task[p].open \ {<<c, r>>} \in SUBSET Links
    BY DEF Links
  <2>4. \A b \in BOOLEAN : LET u == [task[p] EXCEPT !.open = task[p].open \ {<<c, r>>}, !.link = <<c, r>>,
                                                   !.post = b]
                         IN  u \in Tasks /\ Minded(k, u)
    BY <1>3, <2>3 DEF Settle
  <2>5. (r \in posts) \in BOOLEAN
    OBVIOUS
  <2>2. t \in Tasks /\ Minded(k, t)
    BY <2>4, <2>5, Zenon
  <2> HIDE DEF k, t
  <2> QED
    BY <2>1, <2>2, MindTypes, EndsTypes
<1>4. ASSUME Conclude(p) PROVE TaskTypes'
  <2> DEFINE k == [proc[p] EXCEPT !.at = "settle"]
             t == [task[p] EXCEPT !.link = <<>>, !.post = FALSE]
  <2>1. Ends(p) \/ (proc' = [proc EXCEPT ![p] = k] /\ task' = [task EXCEPT ![p] = t])
    BY <1>4 DEF Conclude
  <2>2. t \in Tasks /\ Minded(k, t)
    BY <1>4 DEF Conclude, Links, TypeInv, RecordTypes
  <2> HIDE DEF k, t
  <2> QED
    BY <2>1, <2>2, MindTypes, EndsTypes
<1>5. ASSUME Refer(p) PROVE TaskTypes'
  <2> DEFINE k == [proc[p] EXCEPT !.at = "remove"]
             t == [task[p] EXCEPT !.refs = Referenced, !.gone = Abandoned \intersect dirs]
  <2>1. proc' = [proc EXCEPT ![p] = k] /\ task' = [task EXCEPT ![p] = t]
    BY <1>5 DEF Refer
  <2>2. t \in Tasks /\ Minded(k, t)
    BY <1>5 DEF Refer, Links, TypeInv, RecordTypes
  <2> HIDE DEF k, t
  <2> QED
    BY <2>1, <2>2, MindTypes
<1>6. ASSUME NEW d \in Dirs, RemoveAbandoned(p, d) PROVE TaskTypes'
  <2> DEFINE k == proc[p]
             t == [task[p] EXCEPT !.gone = task[p].gone \ {d}]
  <2>1. proc' = [proc EXCEPT ![p] = k] /\ task' = [task EXCEPT ![p] = t]
    BY <1>6 DEF RemoveAbandoned, runVars
  <2>2. t \in Tasks /\ Minded(k, t)
    BY <1>6 DEF RemoveAbandoned, Links, TypeInv, RecordTypes
  <2> HIDE DEF k, t
  <2> QED
    BY <2>1, <2>2, MindTypes
<1>7. ASSUME ListOrphans(p) PROVE TaskTypes'
  <2> DEFINE k == [proc[p] EXCEPT !.at = "sweep"]
             t == [task[p] EXCEPT !.gone = dirs \ task[p].refs, !.refs = {}]
  <2>1. proc' = [proc EXCEPT ![p] = k] /\ task' = [task EXCEPT ![p] = t]
    BY <1>7 DEF ListOrphans
  <2>2. t \in Tasks /\ Minded(k, t)
    BY <1>7 DEF ListOrphans, Links, TypeInv, RecordTypes
  <2> HIDE DEF k, t
  <2> QED
    BY <2>1, <2>2, MindTypes
<1>8. ASSUME NEW d \in Dirs, RemoveOrphan(p, d) PROVE TaskTypes'
  <2> DEFINE k == proc[p]
             t == [task[p] EXCEPT !.gone = task[p].gone \ {d}]
  <2>1. proc' = [proc EXCEPT ![p] = k] /\ task' = [task EXCEPT ![p] = t]
    BY <1>8 DEF RemoveOrphan, runVars
  <2>2. t \in Tasks /\ Minded(k, t)
    BY <1>8 DEF RemoveOrphan, Links, TypeInv, RecordTypes
  <2> HIDE DEF k, t
  <2> QED
    BY <2>1, <2>2, MindTypes
<1>9. ASSUME Recovered(p) PROVE TaskTypes'
  <2>1. task' = [task EXCEPT ![p] = task[p]] /\ proc' = [proc EXCEPT ![p] = proc'[p]]
    BY <1>9 DEF Recovered, caseVars, TypeInv, RunTypes
  <2>2. Minded(proc'[p], task[p])
    BY <1>9 DEF Recovered, TypeInv, RunTypes
  <2> QED
    BY <2>1, <2>2, MindTypes
<1>10. ASSUME NEW c \in Cases, OpenCase(p, c) PROVE TaskTypes'
  <2>1. PICK keep \in BOOLEAN : task' = [task EXCEPT ![p].case = c, ![p].keep = keep]
    BY <1>10 DEF OpenCase
  <2> DEFINE t == [task[p] EXCEPT !.case = c, !.keep = keep]
             k == [proc[p] EXCEPT !.at = "begin"]
  <2>2. proc' = [proc EXCEPT ![p] = k] /\ task' = [task EXCEPT ![p] = t]
    BY <1>10, <2>1 DEF OpenCase
  <2>3. t \in Tasks /\ Minded(k, t)
    BY <1>10 DEF OpenCase
  <2> QED
    BY <2>2, <2>3, MindTypes
<1>11. ASSUME NoCase(p) PROVE TaskTypes'
  BY <1>11, EndsTypes DEF NoCase
<1>12. ASSUME MakeWorkspace(p) PROVE TaskTypes'
  <2>1. task' = [task EXCEPT ![p] = task[p]] /\ proc' = [proc EXCEPT ![p] = proc'[p]]
    BY <1>12 DEF MakeWorkspace, caseVars, TypeInv, RunTypes
  <2>2. Minded(proc'[p], task[p])
    BY <1>12 DEF MakeWorkspace, TypeInv, RunTypes
  <2> QED
    BY <2>1, <2>2, MindTypes
<1>13. ASSUME StartAttempt(p) PROVE TaskTypes'
  <2>1. task' = [task EXCEPT ![p] = task[p]] /\ proc' = [proc EXCEPT ![p] = proc'[p]]
    BY <1>13 DEF StartAttempt, caseVars, TypeInv, RunTypes
  <2>2. Minded(proc'[p], task[p])
    BY <1>13 DEF StartAttempt, TypeInv, RunTypes
  <2> QED
    BY <2>1, <2>2, MindTypes
<1>14. ASSUME LinkAttempt(p) PROVE TaskTypes'
  <2>1. PICK k \in {[proc[p] EXCEPT !.at = "mark"], [proc[p] EXCEPT !.at = "command"],
                  [proc[p] EXCEPT !.status = "incomplete", !.aborted = TRUE, !.at = "clean"]} :
           proc' = [proc EXCEPT ![p] = k]
    BY <1>14 DEF LinkAttempt
  <2>2. proc[p].at = "link" /\ task' = task
    BY <1>14 DEF LinkAttempt
  <2>5. k.at \in {"mark", "command", "clean"} /\ k.op = proc[p].op
    OBVIOUS
  <2>3. Minded(k, task[p])
    BY <2>2, <2>5
  <2>4. TaskTypes'
    BY <2>1, <2>2, <2>3 DEF TypeInv, TaskTypes
  <2> QED
    BY <2>4
<1>15. ASSUME MarkKept(p) PROVE TaskTypes'
  <2>1. task' = [task EXCEPT ![p] = task[p]] /\ proc' = [proc EXCEPT ![p] = proc'[p]]
    BY <1>15 DEF MarkKept, caseVars, TypeInv, RunTypes
  <2>2. Minded(proc'[p], task[p])
    BY <1>15 DEF MarkKept, TypeInv, RunTypes
  <2> QED
    BY <2>1, <2>2, MindTypes
<1>16. ASSUME RunCommand(p) PROVE TaskTypes'
  <2>1. task' = [task EXCEPT ![p] = task[p]] /\ proc' = [proc EXCEPT ![p] = proc'[p]]
    BY <1>16 DEF RunCommand, caseVars, TypeInv, RunTypes
  <2>2. Minded(proc'[p], task[p])
    BY <1>16 DEF RunCommand, TypeInv, RunTypes
  <2> QED
    BY <2>1, <2>2, MindTypes
<1>17. ASSUME StartVerification(p) PROVE TaskTypes'
  <2>1. task' = [task EXCEPT ![p] = task[p]] /\ proc' = [proc EXCEPT ![p] = proc'[p]]
    BY <1>17 DEF StartVerification, caseVars, TypeInv, RunTypes
  <2>2. Minded(proc'[p], task[p])
    BY <1>17 DEF StartVerification, TypeInv, RunTypes
  <2> QED
    BY <2>1, <2>2, MindTypes
<1>18. ASSUME EndVerification(p) PROVE TaskTypes'
  <2>1. task' = [task EXCEPT ![p] = task[p]] /\ proc' = [proc EXCEPT ![p] = proc'[p]]
    BY <1>18 DEF EndVerification, caseVars, TypeInv, RunTypes
  <2>2. Minded(proc'[p], task[p])
    BY <1>18 DEF EndVerification, TypeInv, RunTypes
  <2> QED
    BY <2>1, <2>2, MindTypes
<1>19. ASSUME RecordResult(p) PROVE TaskTypes'
  <2>1. task' = [task EXCEPT ![p] = task[p]] /\ proc' = [proc EXCEPT ![p] = proc'[p]]
    BY <1>19 DEF RecordResult, caseVars, TypeInv, RunTypes
  <2>2. Minded(proc'[p], task[p])
    BY <1>19 DEF RecordResult, TypeInv, RunTypes
  <2> QED
    BY <2>1, <2>2, MindTypes
<1>20. ASSUME CleanUp(p) PROVE TaskTypes'
  <2>1. task' = [task EXCEPT ![p] = task[p]] /\ proc' = [proc EXCEPT ![p] = proc'[p]]
    BY <1>20 DEF CleanUp, caseVars, TypeInv, RunTypes
  <2>2. Minded(proc'[p], task[p])
    BY <1>20 DEF CleanUp, TypeInv, RunTypes
  <2> QED
    BY <2>1, <2>2, MindTypes
<1>21. ASSUME ForkFails(p) PROVE TaskTypes'
  <2>1. task' = [task EXCEPT ![p] = task[p]] /\ proc' = [proc EXCEPT ![p] = proc'[p]]
    BY <1>21 DEF ForkFails, caseVars, TypeInv, RunTypes
  <2>2. Minded(proc'[p], task[p])
    BY <1>21 DEF ForkFails, TypeInv, RunTypes
  <2> QED
    BY <2>1, <2>2, MindTypes
<1>22. ASSUME LinkSource(p) PROVE TaskTypes'
  BY <1>22, EndsTypes DEF LinkSource
<1>23. ASSUME ShowCase(p) PROVE TaskTypes'
  BY <1>23, EndsTypes DEF ShowCase
<1>24. ASSUME FinishApply(p) PROVE TaskTypes'
  BY <1>24, EndsTypes DEF FinishApply
<1>25. ASSUME NEW c \in Cases, CreateCase(p, c) PROVE TaskTypes'
  <2> DEFINE k == [proc[p] EXCEPT !.at = "sourceLink"]
             t == [task[p] EXCEPT !.case = c]
  <2>1. Ends(p) \/ (proc' = [proc EXCEPT ![p] = k] /\ task' = [task EXCEPT ![p] = t])
    BY <1>25 DEF CreateCase
  <2>2. t \in Tasks /\ Minded(k, t)
    BY <1>25 DEF CreateCase, Links, TypeInv, RecordTypes
  <2> HIDE DEF k, t
  <2> QED
    BY <2>1, <2>2, MindTypes, EndsTypes
<1>26. ASSUME NEW c \in Cases, DeleteCase(p, c) PROVE TaskTypes'
  BY <1>26, EndsTypes DEF DeleteCase
<1>27. ASSUME NEW c \in Cases, NEW r \in Runs, SelectAttempt(p, c, r) PROVE TaskTypes'
  BY <1>27, EndsTypes DEF SelectAttempt
<1>28. ASSUME NEW c \in Cases, NEW r \in Runs, Apply(p, c, r) PROVE TaskTypes'
  <2> DEFINE k == [proc[p] EXCEPT !.at = "applying"]
             t == [task[p] EXCEPT !.link = <<c, r>>]
  <2>1. proc' = [proc EXCEPT ![p] = k] /\ task' = [task EXCEPT ![p] = t]
    BY <1>28 DEF Apply
  <2>2. t \in Tasks /\ Minded(k, t)
    BY <1>28 DEF Apply, Links, TypeInv, RecordTypes
  <2> HIDE DEF k, t
  <2> QED
    BY <2>1, <2>2, MindTypes
<1> QED
  BY <1>1, <1>2, <1>3, <1>4, <1>5, <1>6, <1>7, <1>8, <1>9, <1>10, <1>11, <1>12, <1>13, <1>14,
     <1>15, <1>16, <1>17, <1>18, <1>19, <1>20, <1>21, <1>22, <1>23, <1>24, <1>25, <1>26, <1>27,
     <1>28, Zenon DEF CaseStep, RecoverCases, Fork, CaseCommand

LEMMA RunStepMinds ==
    ASSUME TypeInv, NEW p \in Procs,
           \/ \E op \in Commands \ {"hook"} : Start(p, op)
           \/ \E r \in Runs : StartHook(p, r)
           \/ RunStep(p) \/ FaultStep(p) \/ Kill(p)
    PROVE  /\ proc' = [proc EXCEPT ![p] = proc'[p]]
           /\ proc'[p] = Idle \/ Minded(proc'[p], task[p])
<1> DEFINE Kept == proc' = [proc EXCEPT ![p] = proc'[p]] /\ (proc'[p] = Idle \/ Minded(proc'[p], task[p]))
<1>0. /\ proc \in [Procs -> Processes] /\ Minded(proc[p], task[p]) /\ Placed(proc[p])
  BY DEF TypeInv, RunTypes, TaskTypes
<1> USE <1>0 DEF Processes, Minded, Placed, OwnerAts, ForkAts, Owners, AtStep, At, Goto
<1>1. ASSUME NEW op \in Commands \ {"hook"}, Start(p, op) PROVE Kept
  BY <1>1 DEF Start, Idle
<1>2. ASSUME NEW r \in Runs, StartHook(p, r) PROVE Kept
  BY <1>2 DEF StartHook, Idle
<1>3. ASSUME ScanJournals(p) PROVE Kept
  BY <1>3 DEF ScanJournals
<1>4. ASSUME NEW r \in Runs, RecoverRun(p, r) PROVE Kept
  BY <1>4 DEF RecoverRun
<1>5. ASSUME RecoverClear(p) PROVE Kept
  BY <1>5 DEF RecoverClear
<1>6. ASSUME RecoverDone(p) PROVE Kept
  BY <1>6 DEF RecoverDone
<1>7. ASSUME BeginFails(p) PROVE Kept
  BY <1>7 DEF BeginFails
<1>8. ASSUME NEW r \in Runs, Begin(p, r) PROVE Kept
  BY <1>8 DEF Begin
<1>9. ASSUME StartRun(p) PROVE Kept
  BY <1>9 DEF StartRun
<1>10. ASSUME LinkWrapper(p) PROVE Kept
  BY <1>10 DEF LinkWrapper
<1>11. ASSUME ChildEnds(p) PROVE Kept
  BY <1>11 DEF ChildEnds
<1>12. ASSUME Finish(p) PROVE Kept
  BY <1>12 DEF Finish
<1>13. ASSUME ClearJournal(p) PROVE Kept
  BY <1>13 DEF ClearJournal
<1>14. ASSUME Release(p) PROVE Kept
  BY <1>14 DEF Release
<1>15. ASSUME LinkProvider(p) PROVE Kept
  BY <1>15 DEF LinkProvider, Attach
<1>16. ASSUME EnsureAttempt(p) PROVE Kept
  BY <1>16 DEF EnsureAttempt, Attach
<1>17. ASSUME HookRecovers(p) PROVE Kept
  BY <1>17 DEF HookRecovers
<1>18. ASSUME HookClears(p) PROVE Kept
  BY <1>18 DEF HookClears
<1>19. ASSUME StartRunFails(p) PROVE Kept
  BY <1>19 DEF StartRunFails
<1>20. ASSUME FinishFails(p) PROVE Kept
  BY <1>20 DEF FinishFails
<1>21. ASSUME OwnerFails(p) PROVE Kept
  BY <1>21 DEF OwnerFails
<1>22. ASSUME Kill(p) PROVE Kept
  BY <1>22 DEF Kill
<1> QED
  BY <1>1, <1>2, <1>3, <1>4, <1>5, <1>6, <1>7, <1>8, <1>9, <1>10, <1>11, <1>12, <1>13, <1>14,
     <1>15, <1>16, <1>17, <1>18, <1>19, <1>20, <1>21, <1>22 DEF RunStep, RecoverStep, OwnerStep,
     HookStep, FaultStep

LEMMA RunPartTypes ==
    ASSUME TypeInv, NEW p \in Procs, RunPart(p)
    PROVE  TypeInv'
<1>1. RunTypes'
  BY RunStepTypes DEF RunPart
<1>2. proc' = [proc EXCEPT ![p] = proc'[p]] /\ (proc'[p] = Idle \/ Minded(proc'[p], task[p]))
  BY RunStepMinds DEF RunPart
<1>3. TaskTypes'
  <2> DEFINE t == IF proc'[p] = Idle THEN NoTask ELSE task[p]
  <2>1. task' = [task EXCEPT ![p] = t]
    BY DEF RunPart
  <2>2. t \in Tasks /\ Minded(proc'[p], t)
    BY <1>2, IdleType DEF TypeInv, TaskTypes
  <2> HIDE DEF t
  <2> QED
    BY <1>2, <2>1, <2>2, MindTypes
<1>4. pending' \subseteq Links
  <2>1. pending' \in {pending, pending \cup {task[p].link}} /\ (pending' = pending \/ AtStep(p, "applying"))
    BY DEF RunPart
  <2> QED
    BY <2>1, RunOf DEF TypeInv, RecordTypes, AtStep
<1>5. active' \in [Runs -> {"none", "turn", "later", "over"}]
  BY DEF RunPart, TypeInv, RecordTypes
<1>6. workspace' \in Procs \cup {Nobody} /\ UNCHANGED <<case, dirs, markers, posts>>
  BY DEF RunPart, TypeInv, RecordTypes
<1>7. RecordTypes'
  BY <1>4, <1>5, <1>6 DEF TypeInv, RecordTypes
<1> QED
  BY <1>1, <1>3, <1>7 DEF TypeInv

LEMMA PendingTypes ==
    ASSUME TypeInv, NEW l \in Links, FinishPending(l)
    PROVE  TypeInv'
<1>1. case' \in [Cases -> CaseTypes]
  BY AppliedIs DEF FinishPending
<1> QED
  BY <1>1 DEF FinishPending, TypeInv, RunTypes, RecordTypes, TaskTypes, runVars

LEMMA TurnTypes ==
    ASSUME TypeInv, NEW r \in Runs, TurnEnds(r) \/ LaterTurn(r)
    PROVE  TypeInv'
<1>1. /\ UNCHANGED <<runVars, case, workspace, dirs, markers, pending, task>>
      /\ posts' \in {posts, posts \cup {r}}
      /\ \E a \in {"none", "later", "over"} : active' = [active EXCEPT ![r] = a]
  BY DEF TurnEnds, LaterTurn
<1> QED
  BY <1>1 DEF TypeInv, RunTypes, RecordTypes, TaskTypes, runVars

LEMMA NextTypes == TypeInv /\ [Next]_vars => TypeInv'
<1> SUFFICES ASSUME TypeInv, [Next]_vars PROVE TypeInv'
  OBVIOUS
<1>1. CASE UNCHANGED vars
  BY <1>1 DEF vars, runVars, caseVars, TypeInv, RunTypes, RecordTypes, TaskTypes
<1>2. ASSUME NEW p \in Procs, RunPart(p) PROVE TypeInv'
  BY <1>2, RunPartTypes
<1>3. ASSUME NEW p \in Procs, CaseStep(p) \/ ForkFails(p) PROVE TypeInv'
  BY <1>3, CaseStepRunTypes, CaseStepRecordTypes, CaseStepTaskTypes DEF TypeInv
<1> QED
  BY <1>1, <1>2, <1>3, PendingTypes, TurnTypes DEF Next

-----------------------------------------------------------------------------
(* Runs                                                                      *)

LEMMA InitRuns == CaseInit => RunsInv
  BY DEF CaseInit, Init, RunsInv, OwnerInv, KindKnown, Opened, Worked, Works, Closed, Captured,
     RunInv, OneOwner, Running, Started, EndingsOf, OwnerAts, HookAts, Idle

LEMMA EndingAdded ==
    ASSUME TypeInv, NEW r \in Runs, NEW status \in Endings, events' = WithEnding(r, status)
    PROVE  /\ EndingsOf(r) # {} => events' = events
           /\ EndingsOf(r) = {} => /\ events'[r] = events[r] \cup {status}
                                   /\ events'[r] \cap Endings = {status}
           /\ events'[r] \cap Endings # {} /\ events[r] \subseteq events'[r]
           /\ \A x \in Runs \ {r} : events'[x] = events[x]
  BY DEF TypeInv, RunTypes, WithEnding, EndingsOf

\* The steps of process p that change what is recorded of a run, or who holds it.
RunWrite(p) ==
    \/ \E r \in Runs : RecoverRun(p, r) \/ Begin(p, r)
    \/ RecoverClear(p) \/ StartRun(p) \/ LinkWrapper(p) \/ Finish(p) \/ ClearJournal(p) \/ Release(p)
    \/ HookRecovers(p) \/ HookClears(p) \/ LinkProvider(p) \/ EnsureAttempt(p)
    \/ StartRunFails(p) \/ FinishFails(p) \/ OwnerFails(p) \/ Kill(p) \/ StartAttempt(p)

LEMMA OwnerKept ==
    ASSUME TypeInv, NEW q \in Procs, OwnerInv(q), proc'[q] = proc[q],
           UNCHANGED <<kind, journals, lifecycle, mutation>>,
           \A x \in Runs : /\ events[x] \subseteq events'[x]
                           /\ EndingsOf(x) # {} => EndingsOf(x)' # {},
           proc[q].at \in OwnerAts => events'[proc[q].run] = events[proc[q].run]
    PROVE  OwnerInv(q)'
<1>1. proc[q] \in Processes /\ Placed(proc[q])
  BY DEF TypeInv, RunTypes
<1>6. /\ proc[q].at \in OwnerAts \cup HookAts => proc[q].run \in Runs
      /\ proc[q].at = "recovered" => proc[q].mends \in Runs
  BY <1>1, RunOf DEF Processes, Placed
<1>2. KindKnown(q)' /\ Opened(q)'
  BY <1>6 DEF OwnerInv, KindKnown, Opened, Started, OwnerAts, HookAts
<1>3. Worked(q)'
  BY <1>6 DEF OwnerInv, Worked, Works, Running, Started, EndingsOf, OwnerAts
<1>4. Closed(q)'
  <2>1. proc[q].at \in {"finished", "unguarded"} => proc[q].run \in Runs
    BY <1>6 DEF OwnerAts, HookAts
  <2> QED
    BY <1>6, <2>1 DEF OwnerInv, Closed
<1>5. Captured(q)'
  <2>1. proc[q].at \in OwnerAts \cup {"prompt"} => events[proc[q].run] \subseteq events'[proc[q].run]
    BY <1>6 DEF HookAts
  <2> QED
    BY <2>1, Zenon DEF OwnerInv, Captured, OwnerAts
<1> QED
  BY <1>2, <1>3, <1>4, <1>5 DEF OwnerInv

LEMMA WriteRuns ==
    ASSUME TypeInv, RunsInv, NEW p \in Procs, RunWrite(p)
    PROVE  RunsInv'
<1> DEFINE Others   == \A q \in Procs \ {p} : OwnerInv(q)'
           Own      == OwnerInv(p)'
           EveryRun == \A x \in Runs : RunInv(x)'
           Single   == OneOwner'
           Goal     == RunsInv'
<1>0. Others /\ Own /\ EveryRun /\ Single => Goal
  BY DEF RunsInv
<1> HIDE DEF Others, Own, EveryRun, Single, Goal
<1> USE Nobodys, RunOf
    DEF TypeInv, RunTypes, Processes, Placed, AtStep, At, Goto, Free, Becomes, RunsInv,
       OwnerInv, KindKnown,
        Opened, Worked, Works, Closed, Captured, RunInv, OneOwner, Running, Started, EndingsOf,
        Guarded,
        OwnerAlive, Accepts, Owners, OwnerAts, ForkAts, HookAts, Endings, RunEvents, Idle
<1>1. ASSUME NEW r \in Runs, RecoverRun(p, r) PROVE Goal
  <2>1. Others
    BY <1>1 DEF RecoverRun, WithEnding, Others
  <2>2. Own
    BY <1>1 DEF RecoverRun, WithEnding, Own
  <2>3. EveryRun
    BY <1>1 DEF RecoverRun, WithEnding, EveryRun
  <2>4. Single
    BY <1>1 DEF RecoverRun, WithEnding, Single
  <2> QED
    BY <2>1, <2>2, <2>3, <2>4, <1>0
<1>2. ASSUME NEW r \in Runs, Begin(p, r) PROVE Goal
  <2>1. Others
    BY <1>2 DEF Begin, Others
  <2>2. Own
    BY <1>2 DEF Begin, Own
  <2>3. EveryRun
    BY <1>2 DEF Begin, EveryRun
  <2>4. Single
    BY <1>2 DEF Begin, Single
  <2> QED
    BY <2>1, <2>2, <2>3, <2>4, <1>0
<1>3. ASSUME RecoverClear(p) PROVE Goal
  <2>1. Others
    BY <1>3 DEF RecoverClear, Others
  <2>2. Own
    BY <1>3 DEF RecoverClear, Own
  <2>3. EveryRun
    BY <1>3 DEF RecoverClear, EveryRun
  <2>4. Single
    BY <1>3 DEF RecoverClear, Single
  <2> QED
    BY <2>1, <2>2, <2>3, <2>4, <1>0
<1>4. ASSUME StartRun(p) PROVE Goal
  <2>1. Others
    BY <1>4 DEF StartRun, Others
  <2>2. Own
    BY <1>4 DEF StartRun, Own
  <2>3. EveryRun
    BY <1>4 DEF StartRun, EveryRun
  <2>4. Single
    BY <1>4 DEF StartRun, Single
  <2> QED
    BY <2>1, <2>2, <2>3, <2>4, <1>0
<1>5. ASSUME LinkWrapper(p) PROVE Goal
  <2>1. Others
    BY <1>5 DEF LinkWrapper, Others
  <2>2. Own
    BY <1>5 DEF LinkWrapper, Own
  <2>3. EveryRun
    BY <1>5 DEF LinkWrapper, EveryRun
  <2>4. Single
    BY <1>5 DEF LinkWrapper, Single
  <2> QED
    BY <2>1, <2>2, <2>3, <2>4, <1>0
<1>6. ASSUME Finish(p) PROVE Goal
  <2> DEFINE r == proc[p].run
  <2>0. r \in Runs /\ proc[p].status \in Endings /\ events' = WithEnding(r, proc[p].status)
    BY <1>6 DEF Finish
  <2>6. /\ EndingsOf(r) # {} => events' = events
        /\ EndingsOf(r) = {} => /\ events'[r] = events[r] \cup {proc[p].status}
                                /\ events'[r] \cap Endings = {proc[p].status}
        /\ events'[r] \cap Endings # {} /\ events[r] \subseteq events'[r]
        /\ \A x \in Runs \ {r} : events'[x] = events[x]
    BY <2>0, EndingAdded
  <2>1. Others
    BY <1>6 DEF Finish, WithEnding, Others
  <2>2. Own
    BY <1>6, <2>6 DEF Finish, Own
  <2>3. EveryRun
    BY <1>6, <2>6 DEF Finish, EveryRun
  <2>4. Single
    BY <1>6 DEF Finish, WithEnding, Single
  <2> QED
    BY <2>1, <2>2, <2>3, <2>4, <1>0
<1>7. ASSUME ClearJournal(p) PROVE Goal
  <2>1. Others
    BY <1>7 DEF ClearJournal, Others
  <2>2. Own
    BY <1>7 DEF ClearJournal, Own
  <2>3. EveryRun
    BY <1>7 DEF ClearJournal, EveryRun
  <2>4. Single
    BY <1>7 DEF ClearJournal, Single
  <2> QED
    BY <2>1, <2>2, <2>3, <2>4, <1>0
<1>8. ASSUME Release(p) PROVE Goal
  <2>1. Others
    BY <1>8 DEF Release, Others
  <2>2. Own
    BY <1>8 DEF Release, Own
  <2>3. EveryRun
    BY <1>8 DEF Release, EveryRun
  <2>4. Single
    BY <1>8 DEF Release, Single
  <2> QED
    BY <2>1, <2>2, <2>3, <2>4, <1>0
<1>9. ASSUME HookRecovers(p) PROVE Goal
  <2> DEFINE r == proc[p].run
  <2>0. r \in Runs /\ "incomplete" \in Endings /\ events' = WithEnding(r, "incomplete")
    BY <1>9 DEF HookRecovers
  <2>6. /\ EndingsOf(r) # {} => events' = events
        /\ EndingsOf(r) = {} => /\ events'[r] = events[r] \cup {"incomplete"}
                                /\ events'[r] \cap Endings = {"incomplete"}
        /\ events'[r] \cap Endings # {} /\ events[r] \subseteq events'[r]
        /\ \A x \in Runs \ {r} : events'[x] = events[x]
    BY <2>0, EndingAdded
  <2>1. Others
    BY <1>9 DEF HookRecovers, WithEnding, Others
  <2>2. Own
    BY <1>9, <2>6 DEF HookRecovers, Own
  <2>3. EveryRun
    BY <1>9, <2>6 DEF HookRecovers, EveryRun
  <2>4. Single
    BY <1>9 DEF HookRecovers, WithEnding, Single
  <2> QED
    BY <2>1, <2>2, <2>3, <2>4, <1>0
<1>10. ASSUME HookClears(p) PROVE Goal
  <2>1. Others
    BY <1>10 DEF HookClears, Others
  <2>2. Own
    BY <1>10 DEF HookClears, Own
  <2>3. EveryRun
    BY <1>10 DEF HookClears, EveryRun
  <2>4. Single
    BY <1>10 DEF HookClears, Single
  <2> QED
    BY <2>1, <2>2, <2>3, <2>4, <1>0
<1>11. ASSUME LinkProvider(p) PROVE Goal
  <2>1. Others
    BY <1>11 DEF LinkProvider, Attach, Others
  <2>2. Own
    BY <1>11 DEF LinkProvider, Attach, Own
  <2>3. EveryRun
    BY <1>11 DEF LinkProvider, Attach, EveryRun
  <2>4. Single
    BY <1>11 DEF LinkProvider, Attach, Single
  <2> QED
    BY <2>1, <2>2, <2>3, <2>4, <1>0
<1>12. ASSUME EnsureAttempt(p) PROVE Goal
  <2>1. Others
    BY <1>12 DEF EnsureAttempt, Attach, Others
  <2>2. Own
    BY <1>12 DEF EnsureAttempt, Attach, Own
  <2>3. EveryRun
    BY <1>12 DEF EnsureAttempt, Attach, EveryRun
  <2>4. Single
    BY <1>12 DEF EnsureAttempt, Attach, Single
  <2> QED
    BY <2>1, <2>2, <2>3, <2>4, <1>0
<1>13. ASSUME StartRunFails(p) PROVE Goal
  <2>1. Others
    BY <1>13 DEF StartRunFails, Others
  <2>2. Own
    BY <1>13 DEF StartRunFails, Own
  <2>3. EveryRun
    BY <1>13 DEF StartRunFails, EveryRun
  <2>4. Single
    BY <1>13 DEF StartRunFails, Single
  <2> QED
    BY <2>1, <2>2, <2>3, <2>4, <1>0
<1>14. ASSUME FinishFails(p) PROVE Goal
  <2> DEFINE r == proc[p].run
  <2>0. r \in Runs /\ proc[p].status \in Endings
    BY <1>14 DEF FinishFails
  <2>7. events' = events \/ events' = WithEnding(r, proc[p].status)
    BY <1>14 DEF FinishFails
  <2>6. /\ EndingsOf(r) # {} => events' = events
        /\ events[r] \subseteq events'[r]
        /\ \A x \in Runs \ {r} : events'[x] = events[x]
    BY <2>0, <2>7, EndingAdded
  <2>8. /\ proc[p].at = "finish" /\ UNCHANGED <<kind, journals, lifecycle, mutation>>
        /\ \A q \in Procs \ {p} : proc'[q] = proc[q]
    BY <1>14 DEF FinishFails
  <2>9. \A x \in Runs : /\ events[x] \subseteq events'[x]
                        /\ events[x] \cap Endings # {} => events'[x] \cap Endings # {}
                        /\ x # r => events'[x] = events[x]
    BY <2>0, <2>6
  <2>10. \A q \in Procs \ {p} : proc[q].at \in OwnerAts => proc[q].run # r
    BY <2>0, <2>8
  <2>1. Others
    <3>1. SUFFICES ASSUME NEW q \in Procs \ {p} PROVE OwnerInv(q)'
      BY DEF Others
    <3>2. proc'[q] = proc[q] /\ OwnerInv(q)
      BY <2>8
    <3>3. proc[q].at \in OwnerAts => events'[proc[q].run] = events[proc[q].run]
      BY <2>9, <2>10
    <3> HIDE DEF OwnerInv
    <3> QED
      BY <3>2, <3>3, <2>8, <2>9, OwnerKept
  <2>2. Own
    BY <1>14 DEF FinishFails, WithEnding, Own
  <2>3. EveryRun
    BY <1>14 DEF FinishFails, WithEnding, EveryRun
  <2>4. Single
    BY <1>14 DEF FinishFails, WithEnding, Single
  <2> QED
    BY <2>1, <2>2, <2>3, <2>4, <1>0
<1>15. ASSUME OwnerFails(p) PROVE Goal
  <2>1. Others
    BY <1>15 DEF OwnerFails, Others
  <2>2. Own
    BY <1>15 DEF OwnerFails, Own
  <2>3. EveryRun
    BY <1>15 DEF OwnerFails, EveryRun
  <2>4. Single
    BY <1>15 DEF OwnerFails, Single
  <2> QED
    BY <2>1, <2>2, <2>3, <2>4, <1>0
<1>16. ASSUME Kill(p) PROVE Goal
  <2>1. Others
    BY <1>16 DEF Kill, Others
  <2>2. Own
    BY <1>16 DEF Kill, Own
  <2>3. EveryRun
    BY <1>16 DEF Kill, EveryRun
  <2>4. Single
    BY <1>16 DEF Kill, Single
  <2> QED
    BY <2>1, <2>2, <2>3, <2>4, <1>0
<1>17. ASSUME StartAttempt(p) PROVE Goal
  <2>1. Others
    BY <1>17 DEF StartAttempt, Others
  <2>2. Own
    BY <1>17 DEF StartAttempt, Own
  <2>3. EveryRun
    BY <1>17 DEF StartAttempt, EveryRun
  <2>4. Single
    BY <1>17 DEF StartAttempt, Single
  <2> QED
    BY <2>1, <2>2, <2>3, <2>4, <1>0
<1> QED
  BY <1>1, <1>2, <1>3, <1>4, <1>5, <1>6, <1>7, <1>8, <1>9, <1>10, <1>11, <1>12, <1>13, <1>14,
     <1>15, <1>16, <1>17, Zenon DEF RunWrite, Goal

\* Whatever else a process does, its run and those of the others stay what they are.
LEMMA QuietRuns ==
    ASSUME TypeInv, RunsInv, NEW p \in Procs, NEW c,
           UNCHANGED <<events, kind, journals, lifecycle, mutation>>,
           proc' = [proc EXCEPT ![p] = c], OwnerInv(p)',
           c.at \in OwnerAts => proc[p].at \in OwnerAts /\ c.run = proc[p].run
    PROVE  RunsInv'
<1>1. \A q \in Procs \ {p} : proc'[q] = proc[q]
  BY DEF TypeInv, RunTypes
<1>2. \A q \in Procs \ {p} : OwnerInv(q)'
  BY <1>1 DEF RunsInv, OwnerInv, KindKnown, Opened, Worked, Works, Closed, Captured, Running,
     Started, EndingsOf
<1>3. \A x \in Runs : RunInv(x)'
  BY DEF RunsInv, RunInv, Running, Started, EndingsOf
<1>4. OneOwner'
  BY <1>1 DEF TypeInv, RunTypes, RunsInv, OneOwner
<1> QED
  BY <1>2, <1>3, <1>4, Zenon DEF RunsInv

\* The other steps of a process, at what it keeps of its own.
Quiet(p) ==
    /\ UNCHANGED <<events, kind, journals, lifecycle, mutation>>
    /\ proc' = [proc EXCEPT ![p] = proc'[p]]
    /\ OwnerInv(p)'
    /\ proc'[p].at \in OwnerAts => proc[p].at \in OwnerAts /\ proc'[p].run = proc[p].run

LEMMA RunStepKinds ==
    ASSUME TypeInv, RunsInv, NEW p \in Procs,
           \/ CaseStep(p) \/ ForkFails(p)
           \/ \E op \in Commands \ {"hook"} : Start(p, op)
           \/ \E r \in Runs : StartHook(p, r)
           \/ RunStep(p) \/ FaultStep(p) \/ Kill(p)
    PROVE  RunWrite(p) \/ Quiet(p)
<1>01. /\ proc \in [Procs -> Processes] /\ proc[p] \in Processes /\ Placed(proc[p])
       /\ OwnerInv(p) /\ \A r \in Runs : RunInv(r)
  BY DEF TypeInv, RunTypes, RunsInv
<1> USE <1>01
    DEF Processes, Placed, AtStep, At, Goto, Becomes, Ends, EndsInAbort, OwnerInv, KindKnown,
        Opened, Worked, Works, Closed, Captured, Running, Started, EndingsOf, Owners,
        OwnerAts, ForkAts, HookAts, Idle, lifecycleVars, runVars, Quiet
<1>1. ASSUME Reconcile(p) PROVE Quiet(p)
  BY <1>1 DEF Reconcile
<1>2. ASSUME NEW c \in Cases, NEW r \in Runs, LeaveRunning(p, c, r) PROVE Quiet(p)
  BY <1>2 DEF LeaveRunning
<1>3. ASSUME NEW c \in Cases, NEW r \in Runs, Settle(p, c, r) PROVE Quiet(p)
  BY <1>3 DEF Settle
<1>4. ASSUME Conclude(p) PROVE Quiet(p)
  BY <1>4 DEF Conclude
<1>5. ASSUME Refer(p) PROVE Quiet(p)
  BY <1>5 DEF Refer
<1>6. ASSUME NEW d \in Dirs, RemoveAbandoned(p, d) PROVE Quiet(p)
  BY <1>6 DEF RemoveAbandoned
<1>7. ASSUME ListOrphans(p) PROVE Quiet(p)
  BY <1>7 DEF ListOrphans
<1>8. ASSUME NEW d \in Dirs, RemoveOrphan(p, d) PROVE Quiet(p)
  BY <1>8 DEF RemoveOrphan
<1>9. ASSUME Recovered(p) PROVE Quiet(p)
  BY <1>9 DEF Recovered
<1>10. ASSUME NEW c \in Cases, OpenCase(p, c) PROVE Quiet(p)
  BY <1>10 DEF OpenCase
<1>11. ASSUME NoCase(p) PROVE Quiet(p)
  BY <1>11 DEF NoCase
<1>12. ASSUME MakeWorkspace(p) PROVE Quiet(p)
  BY <1>12 DEF MakeWorkspace
<1>13. ASSUME LinkAttempt(p) PROVE Quiet(p)
  <2>1. CASE Exists(task[p].case)
    BY <1>13, <2>1 DEF LinkAttempt
  <2>2. CASE ~ Exists(task[p].case)
    BY <1>13, <2>2 DEF LinkAttempt
  <2> QED
    BY <2>1, <2>2
<1>14. ASSUME MarkKept(p) PROVE Quiet(p)
  BY <1>14 DEF MarkKept
<1>15. ASSUME RunCommand(p) PROVE Quiet(p)
  BY <1>15 DEF RunCommand
<1>16. ASSUME StartVerification(p) PROVE Quiet(p)
  BY <1>16 DEF StartVerification
<1>17. ASSUME EndVerification(p) PROVE Quiet(p)
  BY <1>17 DEF EndVerification
<1>18. ASSUME RecordResult(p) PROVE Quiet(p)
  BY <1>18 DEF RecordResult
<1>19. ASSUME CleanUp(p) PROVE Quiet(p)
  BY <1>19 DEF CleanUp
<1>20. ASSUME ForkFails(p) PROVE Quiet(p)
  BY <1>20 DEF ForkFails
<1>21. ASSUME LinkSource(p) PROVE Quiet(p)
  BY <1>21 DEF LinkSource
<1>22. ASSUME ShowCase(p) PROVE Quiet(p)
  BY <1>22 DEF ShowCase
<1>23. ASSUME FinishApply(p) PROVE Quiet(p)
  BY <1>23 DEF FinishApply
<1>24. ASSUME NEW c \in Cases, CreateCase(p, c) PROVE Quiet(p)
  BY <1>24 DEF CreateCase
<1>25. ASSUME NEW c \in Cases, DeleteCase(p, c) PROVE Quiet(p)
  BY <1>25 DEF DeleteCase
<1>26. ASSUME NEW c \in Cases, NEW r \in Runs, SelectAttempt(p, c, r) PROVE Quiet(p)
  BY <1>26 DEF SelectAttempt
<1>27. ASSUME NEW c \in Cases, NEW r \in Runs, Apply(p, c, r) PROVE Quiet(p)
  BY <1>27 DEF Apply
<1>28. ASSUME NEW op \in Commands \ {"hook"}, Start(p, op) PROVE Quiet(p)
  BY <1>28 DEF Start
<1>29. ASSUME NEW r \in Runs, StartHook(p, r) PROVE Quiet(p)
  BY <1>29 DEF StartHook, RunInv
<1>30. ASSUME ScanJournals(p) PROVE Quiet(p)
  BY <1>30 DEF ScanJournals
<1>31. ASSUME RecoverDone(p) PROVE Quiet(p)
  BY <1>31 DEF RecoverDone
<1>32. ASSUME BeginFails(p) PROVE Quiet(p)
  BY <1>32 DEF BeginFails
<1>33. ASSUME ChildEnds(p) PROVE Quiet(p)
  BY <1>33 DEF ChildEnds
<1> QED
  BY <1>1, <1>2, <1>3, <1>4, <1>5, <1>6, <1>7, <1>8, <1>9, <1>10, <1>11, <1>12, <1>13, <1>14,
     <1>15, <1>16, <1>17, <1>18, <1>19, <1>20, <1>21, <1>22, <1>23, <1>24, <1>25, <1>26, <1>27,
     <1>28, <1>29, <1>30, <1>31, <1>32, <1>33, Zenon DEF RunWrite, CaseStep, RecoverCases, Fork,
     CaseCommand, RunStep, RecoverStep, OwnerStep, HookStep, FaultStep

LEMMA StepRuns ==
    ASSUME TypeInv, RunsInv, NEW p \in Procs, RunWrite(p) \/ Quiet(p)
    PROVE  RunsInv'
  BY WriteRuns, QuietRuns DEF Quiet

LEMMA NextRuns == TypeInv /\ RunsInv /\ [Next]_vars => RunsInv'
<1> SUFFICES ASSUME TypeInv, RunsInv, [Next]_vars PROVE RunsInv'
  OBVIOUS
<1>1. CASE UNCHANGED runVars
  BY <1>1 DEF runVars, RunsInv, OwnerInv, KindKnown, Opened, Worked, Works, Closed, Captured,
     RunInv, OneOwner, Running, Started, EndingsOf
<1>2. ASSUME NEW p \in Procs, RunPart(p) PROVE RunsInv'
  BY <1>2, RunStepKinds, StepRuns DEF RunPart
<1>3. ASSUME NEW p \in Procs, CaseStep(p) \/ ForkFails(p) PROVE RunsInv'
  BY <1>3, RunStepKinds, StepRuns
<1> QED
  BY <1>1, <1>2, <1>3 DEF Next, vars, FinishPending, TurnEnds, LaterTurn

-----------------------------------------------------------------------------
(* What a step does to the records of cases                                  *)

\* Nothing but case c changes; in it, the case itself, its attempts, or what was selected stay.
OnlyCase(c) == c \in Cases /\ \A d \in Cases \ {c} : case'[d] = case[d]
SameHead(c) == case'[c].state = case[c].state /\ case'[c].source = case[c].source
SameAttempts(c) == case'[c].links = case[c].links /\ case'[c].results = case[c].results
SameSelection(c) ==
    /\ case'[c].selected = case[c].selected
    /\ case'[c].ever = case[c].ever /\ case'[c].applied = case[c].applied

\* Case c gets a link to run r.
NewLink(c, r) ==
    /\ OnlyCase(c) /\ SameHead(c) /\ SameSelection(c) /\ r \in Runs
    /\ case'[c].results = case[c].results
    /\ case'[c].links[r] = case[c].links[r] + 1
    /\ \A s \in Runs \ {r} : case'[c].links[s] = case[c].links[s]

\* The attempt of case c that is run r gets its result.
NewResult(c, r, result) ==
    /\ OnlyCase(c) /\ SameHead(c) /\ SameSelection(c) /\ r \in Runs
    /\ case'[c].links = case[c].links
    /\ case[c].results[r] = <<>> /\ case'[c].results[r] = <<result>>
    /\ \A s \in Runs \ {r} : case'[c].results[s] = case[c].results[s]

\* Case c is created or deleted.
NewState(c, s) ==
    /\ OnlyCase(c) /\ SameAttempts(c) /\ SameSelection(c)
    /\ case'[c].state = s /\ s # "absent"
    /\ case'[c].source # case[c].source =>
          case[c].state = "absent" /\ case'[c].source \in Runs /\ "attempt" \in events[case'[c].source]

\* The attempt of case c that is run r is selected.
NewSelection(c, r) ==
    /\ OnlyCase(c) /\ SameHead(c) /\ SameAttempts(c) /\ r \in Runs
    /\ case'[c].selected = r /\ case'[c].ever = case[c].ever \cup {r}
    /\ case'[c].applied = case[c].applied

\* It is applied.
NewApplication(c, r) ==
    /\ OnlyCase(c) /\ SameHead(c) /\ SameAttempts(c) /\ r \in Runs
    /\ case'[c].selected = case[c].selected /\ case'[c].ever = case[c].ever
    /\ case'[c].applied = case[c].applied \cup {r}

LEMMA LinkAttemptIs ==
    ASSUME TypeInv, NEW p \in Procs, LinkAttempt(p), case' # case
    PROVE  /\ NewLink(task[p].case, proc[p].run) /\ Exists(task[p].case)
           /\ proc[p].at = "link" /\ LockFree
<1> DEFINE c == task[p].case
           r == proc[p].run
<1>1. /\ c \in Cases /\ r \in Runs /\ Exists(c) /\ proc[p].at = "link" /\ LockFree
      /\ case'[c] = [case[c] EXCEPT !.links = case'[c].links, !.keep = case'[c].keep]
      /\ case'[c].links = [case[c].links EXCEPT ![r] = case[c].links[r] + 1]
      /\ \A d \in Cases \ {c} : case'[d] = case[d]
  BY AttemptLinked, Zenon DEF LinkAttempt, AtStep
<1>2. case[c] \in CaseTypes
  BY <1>1 DEF TypeInv, RecordTypes
<1> HIDE DEF c, r
<1>3. NewLink(c, r)
  BY <1>1, <1>2 DEF NewLink, CaseTypes, OnlyCase, SameHead, SameAttempts, SameSelection
<1> QED
  BY <1>1, <1>3, Zenon DEF c, r

LEMMA LinkSourceIs ==
    ASSUME TypeInv, NEW p \in Procs, LinkSource(p), case' # case
    PROVE  NewLink(task[p].case, case[task[p].case].source) /\ proc[p].at = "sourceLink"
<1> DEFINE c == task[p].case
           r == case[c].source
<1>1. /\ c \in Cases /\ r \in Runs /\ proc[p].at = "sourceLink"
      /\ case'[c] = [case[c] EXCEPT !.links = case'[c].links, !.keep = case'[c].keep]
      /\ case'[c].links = [case[c].links EXCEPT ![r] = case[c].links[r] + 1]
      /\ \A d \in Cases \ {c} : case'[d] = case[d]
  BY SourceLinked, Zenon DEF LinkSource, AtStep
<1>2. case[c] \in CaseTypes
  BY <1>1 DEF TypeInv, RecordTypes
<1> HIDE DEF c, r
<1>3. NewLink(c, r)
  BY <1>1, <1>2 DEF NewLink, CaseTypes, OnlyCase, SameHead, SameAttempts, SameSelection
<1> QED
  BY <1>1, <1>3, Zenon DEF c, r

LEMMA ResultIs ==
    ASSUME TypeInv, NEW c \in Cases, NEW r \in Runs, NEW result \in Results,
           case' = AppendResult(c, r, result), ~ Done(c, r)
    PROVE  NewResult(c, r, result)
<1>1. /\ case'[c] = [case[c] EXCEPT !.results = case'[c].results]
      /\ case'[c].results = [case[c].results EXCEPT ![r] = Append(case[c].results[r], result)]
      /\ \A d \in Cases \ {c} : case'[d] = case[d]
  BY ResultAppended
<1>2. case[c] \in CaseTypes
  BY DEF TypeInv, RecordTypes
<1>3. case[c].results[r] = <<>> /\ Append(<<>>, result) = <<result>>
  BY DEF Done
<1>4. case'[c].results[r] = <<result>>
  BY <1>1, <1>2, <1>3 DEF CaseTypes
<1> QED
  BY <1>1, <1>2, <1>3, <1>4 DEF NewResult, CaseTypes, OnlyCase, SameHead, SameAttempts,
     SameSelection

LEMMA ConcludeIs ==
    ASSUME TypeInv, NEW p \in Procs, Conclude(p), case' # case
    PROVE  LET c == task[p].link[1]  r == task[p].link[2] IN
           /\ NewResult(c, r, [status |-> "incomplete", post |-> task[p].post])
           /\ Exists(c) /\ proc[p].at = "conclude" /\ LockFree
<1> DEFINE c == task[p].link[1]
           r == task[p].link[2]
           result == [status |-> "incomplete", post |-> task[p].post]
<1>1. proc[p].at = "conclude" /\ LockFree /\ Exists(c) /\ ~ Done(c, r) /\ case' = AppendResult(c, r, result)
  BY DEF Conclude, AtStep
<1>2. c \in Cases /\ r \in Runs
  BY <1>1, RunOf
<1>3. result \in Results
  BY DEF TypeInv, TaskTypes, Tasks, Results, Endings
<1> HIDE DEF c, r, result
<1>4. NewResult(c, r, result)
  BY <1>1, <1>2, <1>3, ResultIs
<1> QED
  BY <1>1, <1>4 DEF c, r, result

LEMMA RecordResultIs ==
    ASSUME TypeInv, NEW p \in Procs, RecordResult(p)
    PROVE  /\ NewResult(task[p].case, proc[p].run, [status |-> proc[p].status, post |-> TRUE])
           /\ Exists(task[p].case) /\ Linked(task[p].case, proc[p].run) /\ proc[p].at = "result" /\ LockFree
<1> DEFINE c == task[p].case
           r == proc[p].run
           result == [status |-> proc[p].status, post |-> TRUE]
<1>1. /\ proc[p].at = "result" /\ LockFree /\ Exists(c) /\ Linked(c, r) /\ ~ Done(c, r)
      /\ case' = AppendResult(c, r, result)
  BY DEF RecordResult, AtStep
<1>2. c \in Cases /\ r \in Runs
  BY <1>1, RunOf DEF TypeInv, RunTypes, Placed, OwnerAts, ForkAts
<1>3. result \in Results
  BY DEF TypeInv, RunTypes, Processes, Results
<1> HIDE DEF c, r, result
<1>4. NewResult(c, r, result)
  BY <1>1, <1>2, <1>3, ResultIs
<1> QED
  BY <1>1, <1>4 DEF c, r, result

LEMMA CreateCaseIs ==
    ASSUME TypeInv, NEW p \in Procs, NEW c \in Cases, CreateCase(p, c)
    PROVE  /\ NewState(c, "present") /\ case[c].state = "absent" /\ LockFree
           /\ proc'[p].at = "sourceLink" =>
                 LET r == case'[c].source IN
                 /\ r \in Runs /\ "attempt" \in events[r]
                 /\ task'[p].case = c /\ workspace' = p
<1>1. /\ case[c] \in CaseTypes /\ case \in [Cases -> CaseTypes]
      /\ task \in [Procs -> Tasks] /\ proc \in [Procs -> Processes]
  BY DEF TypeInv, RecordTypes, TaskTypes, RunTypes
<1>2. CASE case' = [case EXCEPT ![c].state = "present"] /\ Ends(p)
  <2>1. NewState(c, "present")
    BY <1>1, <1>2 DEF NewState, CaseTypes, OnlyCase, SameHead, SameAttempts, SameSelection
  <2> QED
    BY <1>1, <1>2, <2>1 DEF CreateCase, Ends, Idle
<1>3. ASSUME NEW r \in Runs, "attempt" \in events[r], case[c].state = "absent",
             case' = [case EXCEPT ![c].state = "present", ![c].source = r],
             task' = [task EXCEPT ![p].case = c], workspace' = p
      PROVE  /\ NewState(c, "present")
             /\ case'[c].source = r /\ task'[p].case = c
  BY <1>1, <1>3 DEF NewState, CaseTypes, Tasks, OnlyCase, SameHead, SameAttempts, SameSelection
<1> QED
  BY <1>2, <1>3 DEF CreateCase

LEMMA DeleteCaseIs ==
    ASSUME TypeInv, NEW p \in Procs, NEW c \in Cases, DeleteCase(p, c)
    PROVE  NewState(c, "deleted") /\ LockFree /\ Exists(c) /\ \A r \in Runs : Linked(c, r) => Done(c, r)
<1>1. case[c] \in CaseTypes /\ case \in [Cases -> CaseTypes]
  BY DEF TypeInv, RecordTypes
<1>2. case' = [case EXCEPT ![c].state = "deleted"]
  BY DEF DeleteCase
<1>3. NewState(c, "deleted")
  BY <1>1, <1>2 DEF NewState, CaseTypes, OnlyCase, SameHead, SameAttempts, SameSelection
<1> QED
  BY <1>3 DEF DeleteCase

LEMMA SelectionIs ==
    ASSUME TypeInv, NEW c \in Cases, NEW r \in Runs, case' = WithSelection(c, r)
    PROVE  NewSelection(c, r)
<1>1. case[c] \in CaseTypes
  BY DEF TypeInv, RecordTypes
<1>2. /\ case'[c] = [case[c] EXCEPT !.selected = r, !.ever = case[c].ever \cup {r}]
      /\ \A d \in Cases \ {c} : case'[d] = case[d]
  BY Selected
<1> QED
  BY <1>1, <1>2 DEF NewSelection, CaseTypes, OnlyCase, SameHead, SameAttempts, SameSelection

LEMMA ApplicationIs ==
    ASSUME TypeInv, NEW l \in Links, case' = Applied(l)
    PROVE  NewApplication(l[1], l[2])
<1> DEFINE c == l[1]
           r == l[2]
<1>1. c \in Cases /\ r \in Runs
  BY DEF Links
<1>2. case[c] \in CaseTypes
  BY <1>1 DEF TypeInv, RecordTypes
<1>3. /\ case'[c] = [case[c] EXCEPT !.applied = case[c].applied \cup {r}]
      /\ \A d \in Cases \ {c} : case'[d] = case[d]
  BY AppliedIs
<1> HIDE DEF c, r
<1>4. NewApplication(c, r)
  BY <1>1, <1>2, <1>3 DEF NewApplication, CaseTypes, OnlyCase, SameHead, SameAttempts,
     SameSelection
<1> QED
  BY <1>4 DEF c, r

-----------------------------------------------------------------------------
(* Growth                                                                    *)

\* Events of a run are added only, and none of its ends once it has one: the end is
\* "incomplete", or what its owner came to in the end.
Grown(r) ==
    /\ events[r] \subseteq events'[r]
    /\ kind[r] # "none" => kind'[r] = kind[r]
    /\ EndingsOf(r) # {} => EndingsOf(r)' = EndingsOf(r)
    /\ EndingsOf(r) = {} /\ EndingsOf(r)' # {} =>
          \/ EndingsOf(r)' = {"incomplete"}
          \/ \E p \in Procs : /\ proc[p].at = "finish" /\ proc[p].run = r
                              /\ EndingsOf(r)' = {proc[p].status}

LEMMA WriteGrows ==
    ASSUME TypeInv, RunsInv, NEW p \in Procs, RunWrite(p), NEW x \in Runs
    PROVE  Grown(x)
<1>0. ASSUME UNCHANGED <<events, kind>> PROVE Grown(x)
  BY <1>0 DEF Grown, EndingsOf
<1>1. ASSUME NEW r \in Runs, NEW event \in RunEvents \ Endings,
             events' = events \/ events' = [events EXCEPT ![r] = @ \cup {event}], kind' = kind
      PROVE  Grown(x)
  BY <1>1 DEF Grown, EndingsOf, TypeInv, RunTypes
<1>2. ASSUME NEW r \in Runs, events' = WithEnding(r, "incomplete"), kind' = kind
      PROVE  Grown(x)
  <2>1. "incomplete" \in Endings
    BY DEF Endings
  <2> QED
    BY <1>2, <2>1, EndingAdded DEF Grown, EndingsOf
<1>3. ASSUME NEW r \in Runs, NEW status \in Endings, r = proc[p].run, status = proc[p].status, proc[p].at = "finish",
             events' = WithEnding(r, status), kind' = kind
      PROVE  Grown(x)
  <2>1. /\ EndingsOf(r) # {} => events' = events
        /\ EndingsOf(r) = {} => /\ events'[r] = events[r] \cup {status}
                                /\ events'[r] \cap Endings = {status}
        /\ \A y \in Runs \ {r} : events'[y] = events[y]
    BY <1>3, EndingAdded
  <2> QED
    BY <1>3, <2>1 DEF Grown, EndingsOf
<1>4. {"start", "wrapper", "provider", "attempt"} \subseteq RunEvents \ Endings
  BY DEF RunEvents, Endings
<1>5. /\ proc[p].at \in OwnerAts \cup HookAts => proc[p].run \in Runs
      /\ proc[p].status \in Endings
  BY RunOf DEF TypeInv, RunTypes, Processes
<1> USE DEF AtStep, At, OwnerAts, HookAts
<1>6. ASSUME NEW r \in Runs, RecoverRun(p, r) PROVE Grown(x)
  BY <1>6, <1>0, <1>2 DEF RecoverRun
<1>7. ASSUME NEW r \in Runs, Begin(p, r) PROVE Grown(x)
  BY <1>7 DEF Begin, Grown, EndingsOf, TypeInv, RunTypes
<1>8. ASSUME RecoverClear(p) \/ ClearJournal(p) \/ Release(p) \/ HookClears(p) \/ OwnerFails(p) \/ Kill(p)
      PROVE  Grown(x)
  BY <1>8, <1>0 DEF RecoverClear, ClearJournal, Release, HookClears, OwnerFails, Kill
<1>9. ASSUME StartRun(p) \/ StartRunFails(p) PROVE Grown(x)
  <2>1. /\ proc[p].run \in Runs /\ kind' = kind
        /\ events' = events \/ events' = [events EXCEPT ![proc[p].run] = @ \cup {"start"}]
    BY <1>9, <1>5 DEF StartRun, StartRunFails
  <2> QED
    BY <2>1, <1>1, <1>4
<1>10. ASSUME LinkWrapper(p) PROVE Grown(x)
  <2>1. /\ proc[p].run \in Runs /\ kind' = kind
        /\ events' = [events EXCEPT ![proc[p].run] = @ \cup {"wrapper"}]
    BY <1>10, <1>5 DEF LinkWrapper
  <2> QED
    BY <2>1, <1>1, <1>4
<1>11. ASSUME StartAttempt(p) PROVE Grown(x)
  <2>1. /\ proc[p].run \in Runs /\ kind' = kind
        /\ events' = [events EXCEPT ![proc[p].run] = @ \cup {"attempt"}]
    BY <1>11, <1>5 DEF StartAttempt
  <2> QED
    BY <2>1, <1>1, <1>4
<1>12. ASSUME LinkProvider(p) PROVE Grown(x)
  <2>1. /\ proc[p].run \in Runs /\ kind' = kind
        /\ events' = events \/ events' = [events EXCEPT ![proc[p].run] = @ \cup {"provider"}]
    BY <1>12, <1>5 DEF LinkProvider, Attach
  <2> QED
    BY <2>1, <1>1, <1>4
<1>13. ASSUME EnsureAttempt(p) PROVE Grown(x)
  <2>1. /\ proc[p].run \in Runs /\ kind' = kind
        /\ events' = events \/ events' = [events EXCEPT ![proc[p].run] = @ \cup {"attempt"}]
    BY <1>13, <1>5 DEF EnsureAttempt, Attach
  <2> QED
    BY <2>1, <1>1, <1>4
<1>14. ASSUME HookRecovers(p) PROVE Grown(x)
  <2>1. proc[p].run \in Runs /\ kind' = kind /\ events' = WithEnding(proc[p].run, "incomplete")
    BY <1>14, <1>5 DEF HookRecovers
  <2> QED
    BY <2>1, <1>2
<1>15. ASSUME Finish(p) \/ FinishFails(p) PROVE Grown(x)
  <2>1. /\ proc[p].run \in Runs /\ kind' = kind /\ proc[p].at = "finish"
        /\ events' = events \/ events' = WithEnding(proc[p].run, proc[p].status)
    BY <1>15, <1>5 DEF Finish, FinishFails
  <2> QED
    BY <2>1, <1>0, <1>3, <1>5
<1> QED
  BY <1>6, <1>7, <1>8, <1>9, <1>10, <1>11, <1>12, <1>13, <1>14, <1>15 DEF RunWrite

LEMMA NextGrows ==
    ASSUME TypeInv, RunsInv, [Next]_vars, NEW x \in Runs
    PROVE  Grown(x)
<1>1. ASSUME UNCHANGED <<events, kind>> PROVE Grown(x)
  BY <1>1 DEF Grown, EndingsOf
<1>2. ASSUME NEW p \in Procs, RunWrite(p) \/ Quiet(p) PROVE Grown(x)
  BY <1>1, <1>2, WriteGrows DEF Quiet
<1>3. ASSUME NEW p \in Procs, RunPart(p) \/ CaseStep(p) \/ ForkFails(p) PROVE Grown(x)
  BY <1>2, <1>3, RunStepKinds DEF RunPart
<1> QED
  BY <1>1, <1>3 DEF Next, vars, runVars, FinishPending, TurnEnds, LaterTurn

\* The steps that change the records of cases.
CaseWrite ==
    \/ \E p \in Procs :
          \/ LinkAttempt(p) \/ LinkSource(p) \/ Conclude(p) \/ RecordResult(p) \/ FinishApply(p)
          \/ \E c \in Cases : CreateCase(p, c) \/ DeleteCase(p, c)
          \/ \E c \in Cases, r \in Runs : SelectAttempt(p, c, r) \/ Apply(p, c, r)
    \/ \E l \in Links : FinishPending(l)

LEMMA CaseWrites ==
    ASSUME [Next]_vars, case' # case
    PROVE  CaseWrite
<1>1. ASSUME NEW p \in Procs, CaseStep(p) PROVE CaseWrite
  <2>1. CASE RecoverCases(p)
    BY <1>1, <2>1 DEF RecoverCases, CaseWrite, Reconcile, LeaveRunning, Settle, Refer,
       RemoveAbandoned, ListOrphans, RemoveOrphan, Recovered, caseVars
  <2>2. CASE Fork(p)
    BY <1>1, <2>2 DEF Fork, CaseWrite, OpenCase, NoCase, MakeWorkspace, StartAttempt, MarkKept,
       RunCommand, StartVerification, EndVerification, CleanUp, caseVars
  <2>3. CASE CaseCommand(p)
    BY <1>1, <2>3 DEF CaseCommand, CaseWrite, ShowCase
  <2> QED
    BY <1>1, <2>1, <2>2, <2>3 DEF CaseStep
<1> QED
  BY <1>1 DEF Next, vars, caseVars, RunPart, ForkFails, TurnEnds, LaterTurn, CaseWrite

\* What becomes of the records of cases: NewLink and so on name the step's effect.
CaseChange ==
    \E c \in Cases :
       \/ \E r \in Runs : \/ NewLink(c, r) \/ NewSelection(c, r) \/ NewApplication(c, r)
                         \/ \E result : NewResult(c, r, result)
       \/ \E s : NewState(c, s)

LEMMA CaseChanges ==
    ASSUME TypeInv, CaseWrite
    PROVE  case' = case \/ CaseChange
<1>1. ASSUME NEW p \in Procs, LinkAttempt(p) \/ LinkSource(p), case' # case PROVE CaseChange
  BY <1>1, LinkAttemptIs, LinkSourceIs DEF CaseChange, NewLink, OnlyCase, SameHead,
     SameAttempts, SameSelection
<1>20. ASSUME NEW c, NEW r, NEW result, NewResult(c, r, result) PROVE CaseChange
  BY <1>20 DEF CaseChange, NewResult, OnlyCase, SameHead, SameAttempts, SameSelection
<1>21. ASSUME NEW p \in Procs, Conclude(p), case' # case PROVE CaseChange
  <2>1. NewResult(task[p].link[1], task[p].link[2], [status |-> "incomplete", post |-> task[p].post])
    BY <1>21, ConcludeIs
  <2> QED
    BY <2>1, <1>20
<1>22. ASSUME NEW p \in Procs, RecordResult(p), case' # case PROVE CaseChange
  <2>1. NewResult(task[p].case, proc[p].run, [status |-> proc[p].status, post |-> TRUE])
    BY <1>22, RecordResultIs
  <2> QED
    BY <2>1, <1>20
<1>2. ASSUME NEW p \in Procs, Conclude(p) \/ RecordResult(p), case' # case PROVE CaseChange
  BY <1>2, <1>21, <1>22
<1>3. ASSUME NEW l \in Links, case' = Applied(l) PROVE CaseChange
  BY <1>3, ApplicationIs DEF CaseChange, NewApplication, OnlyCase, SameHead, SameAttempts,
     SameSelection
<1>4. ASSUME NEW p \in Procs, FinishApply(p) PROVE CaseChange
  BY <1>3, <1>4, RunOf DEF FinishApply, AtStep
<1>5. ASSUME NEW l \in Links, FinishPending(l) PROVE CaseChange
  BY <1>3, <1>5 DEF FinishPending
<1>6. ASSUME NEW p \in Procs, NEW c \in Cases, CreateCase(p, c) \/ DeleteCase(p, c) PROVE CaseChange
  BY <1>6, CreateCaseIs, DeleteCaseIs DEF CaseChange
<1>7. ASSUME NEW p \in Procs, NEW c \in Cases, NEW r \in Runs, SelectAttempt(p, c, r) \/ Apply(p, c, r)
      PROVE  case' = case \/ CaseChange
  BY <1>7, SelectionIs DEF SelectAttempt, Apply, CaseChange
<1> QED
  BY <1>1, <1>2, <1>4, <1>5, <1>6, <1>7 DEF CaseWrite

\* Links, results and selections are added only.
LEMMA CasesGrow ==
    ASSUME TypeInv, [Next]_vars, NEW d \in Cases, NEW s \in Runs
    PROVE  /\ Linked(d, s) => Linked(d, s)'
           /\ Done(d, s) => Done(d, s)' /\ case'[d].results[s] = case[d].results[s]
           /\ s \in case[d].ever => s \in case'[d].ever
<1>1. case' = case \/ CaseChange
  BY CaseWrites, CaseChanges
<1>2. case[d].links[s] \in Nat
  BY DEF TypeInv, RecordTypes, CaseTypes
<1> QED
  BY <1>1, <1>2 DEF CaseChange, NewLink, NewResult, NewState, NewSelection, NewApplication,
     Linked, Done, OnlyCase, SameHead, SameAttempts, SameSelection

\* A case that is there stays known, as what it was made from.
LEMMA CasesStay ==
    ASSUME TypeInv, [Next]_vars, NEW d \in Cases, case[d].state # "absent"
    PROVE  case'[d].state # "absent" /\ case'[d].source = case[d].source
<1>1. case' = case \/ CaseChange
  BY CaseWrites, CaseChanges
<1> QED
  BY <1>1 DEF CaseChange, NewLink, NewResult, NewState, NewSelection, NewApplication,
     OnlyCase, SameHead

-----------------------------------------------------------------------------
(* Cases: what a step makes of them                                          *)

\* Who adds to the records of case d on run s, and when a case comes or goes.
Made(d, s) ==
    /\ Linked(d, s)' /\ ~ Linked(d, s) =>
          \E p \in Procs :
             /\ proc'[p] # proc[p]
             /\ \/ proc[p].at = "link" /\ proc[p].run = s /\ LockFree
                \/ proc[p].at = "sourceLink" /\ case[d].source = s /\ workspace = p
    /\ Done(d, s)' /\ ~ Done(d, s) =>
          \/ EndingsOf(s) # {}
          \/ \E p \in Procs : proc'[p] # proc[p] /\ proc[p].at = "result" /\ proc[p].run = s
    /\ case'[d].state # case[d].state =>
          /\ LockFree /\ case'[d].state # "absent"
          /\ Exists(d) => (Linked(d, s) => Done(d, s))
    /\ case'[d].source # case[d].source => LockFree /\ case[d].state = "absent"

\* What a run has is not taken from it.
Kept(s) == events[s] \subseteq events'[s] /\ (kind[s] = "fork" => kind'[s] = "fork")

LEMMA SameMade ==
    ASSUME NEW d \in Cases, NEW s \in Runs, LinkInv(d, s), case' = case,
           Kept(s)
    PROVE  Made(d, s) /\ LinkInv(d, s)'
  BY DEF Made, Kept, LinkInv, Linked, Done, HasPost, Result

LEMMA LinkMakes ==
    ASSUME TypeInv, RunsInv, CasesInv, NEW d \in Cases, NEW s \in Runs, Kept(s),
           NEW p \in Procs, LinkAttempt(p) \/ LinkSource(p), case' # case
    PROVE  Made(d, s) /\ LinkInv(d, s)'
<1>1. LinkInv(d, s) /\ case[d] \in CaseTypes
  BY DEF CasesInv, TypeInv, RecordTypes
<1>2. ASSUME NEW c, NEW r, NewLink(c, r), Exists(c), ~ Linked(c, r), "attempt" \in events[r],
             proc'[p] # proc[p],
             \/ proc[p].at = "link" /\ proc[p].run = r /\ LockFree /\ kind[r] = "fork"
             \/ proc[p].at = "sourceLink" /\ case[c].source = r /\ workspace = p
      PROVE  Made(d, s) /\ LinkInv(d, s)'
  <2>1. c \in Cases /\ case[c] \in CaseTypes
    BY <1>2 DEF NewLink, TypeInv, RecordTypes, OnlyCase, SameHead, SameAttempts, SameSelection
  <2>2. CASE d = c /\ s = r
    BY <1>1, <1>2, <2>1, <2>2 DEF Made, Kept, LinkInv, NewLink, Linked, Done, HasPost, Result, Exists,
       CaseTypes, OnlyCase, SameHead, SameAttempts, SameSelection
  <2>3. CASE d # c
    <3>1. case'[d] = case[d]
      BY <1>2, <2>3 DEF NewLink, OnlyCase
    <3> QED
      BY <1>1, <3>1 DEF Made, Kept, LinkInv, Linked, Done, HasPost, Result
  <2>4. CASE d = c /\ s # r
    <3>1. /\ case'[d].state = case[d].state /\ case'[d].source = case[d].source
          /\ case'[d].links[s] = case[d].links[s] /\ case'[d].results[s] = case[d].results[s]
          /\ case'[d].selected = case[d].selected
          /\ case'[d].ever = case[d].ever /\ case'[d].applied = case[d].applied
      BY <1>2, <2>4 DEF NewLink, SameHead, SameSelection
    <3> QED
      BY <1>1, <3>1 DEF Made, Kept, LinkInv, Linked, Done, HasPost, Result
  <2> QED
    BY <2>2, <2>3, <2>4
<1>3. CASE LinkAttempt(p)
  <2> DEFINE c == task[p].case
             r == proc[p].run
  <2>1. NewLink(c, r) /\ Exists(c) /\ proc[p].at = "link" /\ LockFree
    BY <1>3, LinkAttemptIs
  <2>2. c \in Cases /\ r \in Runs /\ proc[p].op = "fork"
    BY <2>1 DEF NewLink, TypeInv, RunTypes, Placed, ForkAts, OnlyCase, SameHead, SameAttempts,
       SameSelection
  <2>3. ~ Linked(c, r)
    BY <2>1, <2>2 DEF CasesInv, ForkInv
  <2>4. "attempt" \in events[r] /\ kind[r] = "fork"
    BY <2>1, <2>2 DEF RunsInv, OwnerInv, Captured, KindKnown, OwnerAts
  <2>5. proc'[p] # proc[p]
    BY <1>3, <2>1 DEF LinkAttempt, Becomes, TypeInv, RunTypes, Processes
  <2> HIDE DEF c
  <2> QED
    BY <2>1, <2>3, <2>4, <2>5, <1>2
<1>4. CASE LinkSource(p)
  <2> DEFINE c == task[p].case
             r == case[c].source
  <2>1. NewLink(c, r) /\ proc[p].at = "sourceLink"
    BY <1>4, LinkSourceIs
  <2>2. TaskInv(p) /\ r \in Runs
    BY <2>1 DEF CasesInv, NewLink, OnlyCase, SameHead, SameAttempts, SameSelection
  <2>3. workspace = p /\ Exists(c) /\ case[c].source = r /\ "attempt" \in events[r] /\ ~ Linked(c, r)
    BY <2>1, <2>2 DEF TaskInv
  <2>5. proc'[p] # proc[p]
    BY <1>4, <2>1 DEF LinkSource, Ends, Idle, TypeInv, RunTypes, Processes
  <2> HIDE DEF c, r
  <2> QED
    BY <2>1, <2>3, <2>5, <1>2
<1> QED
  BY <1>3, <1>4

LEMMA ResultMakes ==
    ASSUME TypeInv, RunsInv, CasesInv, NEW d \in Cases, NEW s \in Runs, Kept(s),
           NEW p \in Procs, Conclude(p) \/ RecordResult(p), case' # case
    PROVE  Made(d, s) /\ LinkInv(d, s)'
<1>1. LinkInv(d, s) /\ case[d] \in CaseTypes
  BY DEF CasesInv, TypeInv, RecordTypes
<1>2. ASSUME NEW c, NEW r, NEW result, NewResult(c, r, result), Linked(c, r),
             \/ EndingsOf(r) # {}
             \/ proc'[p] # proc[p] /\ proc[p].at = "result" /\ proc[p].run = r
      PROVE  Made(d, s) /\ LinkInv(d, s)'
  <2>1. c \in Cases /\ case[c] \in CaseTypes /\ Len(<<result>>) = 1
    BY <1>2 DEF NewResult, TypeInv, RecordTypes, OnlyCase, SameHead, SameAttempts, SameSelection
  <2>2. CASE d = c /\ s = r
    <3>1. /\ ~ Done(d, s) /\ case'[d].results[s] = <<result>>
          /\ case'[d].state = case[d].state /\ case'[d].source = case[d].source
          /\ case'[d].links[s] = case[d].links[s]
          /\ case'[d].selected = case[d].selected
          /\ case'[d].ever = case[d].ever /\ case'[d].applied = case[d].applied
      BY <1>2, <2>2 DEF NewResult, Done, OnlyCase, SameHead, SameAttempts, SameSelection
    <3> QED
      BY <1>1, <1>2, <2>1, <2>2, <3>1 DEF Made, Kept, LinkInv, Linked, Done, Exists
  <2>3. CASE d # c
    <3>1. case'[d] = case[d]
      BY <1>2, <2>3 DEF NewResult, OnlyCase
    <3> QED
      BY <1>1, <3>1 DEF Made, Kept, LinkInv, Linked, Done, HasPost, Result
  <2>4. CASE d = c /\ s # r
    <3>1. /\ case'[d].state = case[d].state /\ case'[d].source = case[d].source
          /\ case'[d].links[s] = case[d].links[s] /\ case'[d].results[s] = case[d].results[s]
          /\ case'[d].selected = case[d].selected
          /\ case'[d].ever = case[d].ever /\ case'[d].applied = case[d].applied
      BY <1>2, <2>4 DEF NewResult, SameHead, SameSelection
    <3> QED
      BY <1>1, <3>1 DEF Made, Kept, LinkInv, Linked, Done, HasPost, Result
  <2> QED
    BY <2>2, <2>3, <2>4
<1>3. CASE Conclude(p)
  <2> DEFINE c == task[p].link[1]
             r == task[p].link[2]
             result == [status |-> "incomplete", post |-> task[p].post]
  <2>1. NewResult(c, r, result) /\ proc[p].at = "conclude"
    BY <1>3, ConcludeIs
  <2>2. Linked(c, r) /\ EndingsOf(r) # {}
    BY <2>1 DEF CasesInv, TaskInv
  <2> HIDE DEF c, r, result
  <2> QED
    BY <2>1, <2>2, <1>2
<1>4. CASE RecordResult(p)
  <2> DEFINE c == task[p].case
             r == proc[p].run
             result == [status |-> proc[p].status, post |-> TRUE]
  <2>1. NewResult(c, r, result) /\ Linked(c, r) /\ proc[p].at = "result"
    BY <1>4, RecordResultIs
  <2>2. proc'[p] # proc[p]
    BY <1>4, <2>1 DEF RecordResult, Becomes, TypeInv, RunTypes, Processes
  <2> HIDE DEF c, result
  <2> QED
    BY <2>1, <2>2, <1>2
<1> QED
  BY <1>3, <1>4

LEMMA StateMakes ==
    ASSUME TypeInv, RunsInv, CasesInv, NEW d \in Cases, NEW s \in Runs, Kept(s),
           NEW p \in Procs, NEW c \in Cases, CreateCase(p, c) \/ DeleteCase(p, c)
    PROVE  Made(d, s) /\ LinkInv(d, s)'
<1>1. LinkInv(d, s)
  BY DEF CasesInv
<1>2. ASSUME NEW state, NewState(c, state), state # "absent", LockFree,
             Exists(c) => \A r \in Runs : Linked(c, r) => Done(c, r)
      PROVE  Made(d, s) /\ LinkInv(d, s)'
  BY <1>1, <1>2 DEF Made, Kept, LinkInv, NewState, Linked, Done, HasPost, Result, Exists, OnlyCase,
     SameHead, SameAttempts, SameSelection
<1>3. CASE CreateCase(p, c)
  <2>1. NewState(c, "present") /\ case[c].state = "absent" /\ LockFree
    BY <1>3, CreateCaseIs
  <2> QED
    BY <2>1, <1>2 DEF Exists
<1>4. CASE DeleteCase(p, c)
  <2>1. NewState(c, "deleted") /\ LockFree /\ \A r \in Runs : Linked(c, r) => Done(c, r)
    BY <1>4, DeleteCaseIs
  <2> QED
    BY <2>1, <1>2
<1> QED
  BY <1>3, <1>4

LEMMA SelectionMakes ==
    ASSUME TypeInv, RunsInv, CasesInv, NEW d \in Cases, NEW s \in Runs, Kept(s),
           NEW c \in Cases, NEW r \in Runs, HasPost(c, r), case' = WithSelection(c, r)
    PROVE  Made(d, s) /\ LinkInv(d, s)'
<1>1. LinkInv(d, s) /\ NewSelection(c, r)
  BY SelectionIs DEF CasesInv
<1> QED
  BY <1>1 DEF Made, Kept, LinkInv, NewSelection, Linked, Done, HasPost, Result, Exists, OnlyCase,
     SameHead, SameAttempts, SameSelection

LEMMA ApplicationMakes ==
    ASSUME TypeInv, RunsInv, CasesInv, NEW d \in Cases, NEW s \in Runs, Kept(s),
           NEW l \in Links, Chosen(l), case' = Applied(l)
    PROVE  Made(d, s) /\ LinkInv(d, s)'
<1> DEFINE c == l[1]
           r == l[2]
<1>1. LinkInv(d, s) /\ NewApplication(c, r) /\ r \in case[c].ever /\ HasPost(c, r)
  BY ApplicationIs DEF CasesInv, Chosen
<1> HIDE DEF c, r
<1> QED
  BY <1>1 DEF Made, Kept, LinkInv, NewApplication, Linked, Done, HasPost, Result, Exists, OnlyCase,
     SameHead, SameAttempts, SameSelection

LEMMA StepMakes ==
    ASSUME TypeInv, RunsInv, CasesInv, [Next]_vars, NEW d \in Cases, NEW s \in Runs
    PROVE  Made(d, s) /\ LinkInv(d, s)'
<1> DEFINE Goal == Made(d, s) /\ LinkInv(d, s)'
<1>1. Kept(s)
  BY NextGrows DEF Grown, Kept
<1>2. CASE case' = case
  BY <1>1, <1>2, SameMade DEF CasesInv
<1>3. ASSUME NEW p \in Procs, LinkAttempt(p) \/ LinkSource(p), case' # case PROVE Goal
  BY <1>1, <1>3, LinkMakes
<1>4. ASSUME NEW p \in Procs, Conclude(p) \/ RecordResult(p), case' # case PROVE Goal
  BY <1>1, <1>4, ResultMakes
<1>5. ASSUME NEW p \in Procs, FinishApply(p) PROVE Goal
  <2>1. task[p].link \in Links /\ Chosen(task[p].link) /\ case' = Applied(task[p].link)
    BY <1>5, RunOf DEF FinishApply, AtStep, CasesInv, TaskInv
  <2> QED
    BY <1>1, <2>1, ApplicationMakes
<1>6. ASSUME NEW l \in Links, FinishPending(l) PROVE Goal
  <2>1. Chosen(l) /\ case' = Applied(l)
    BY <1>6 DEF FinishPending, CasesInv
  <2> QED
    BY <1>1, <2>1, ApplicationMakes
<1>7. ASSUME NEW p \in Procs, NEW c \in Cases, CreateCase(p, c) \/ DeleteCase(p, c) PROVE Goal
  BY <1>1, <1>7, StateMakes
<1>8. ASSUME NEW p \in Procs, NEW c \in Cases, NEW r \in Runs, SelectAttempt(p, c, r) \/ Apply(p, c, r),
             case' # case
      PROVE  Goal
  <2>1. HasPost(c, r) /\ case' = WithSelection(c, r)
    BY <1>8 DEF SelectAttempt, Apply
  <2> QED
    BY <1>1, <2>1, SelectionMakes
<1> HIDE DEF Goal
<1>9. ASSUME case' # case PROVE Goal
  <2>1. CaseWrite
    BY <1>9, CaseWrites
  <2> QED
    BY <1>9, <2>1, <1>3, <1>4, <1>5, <1>6, <1>7, <1>8 DEF CaseWrite
<1>10. Goal
  BY <1>2, <1>9 DEF Goal
<1> QED
  BY <1>10 DEF Goal

LEMMA StepEnds ==
    ASSUME TypeInv, RunsInv, CasesInv, [Next]_vars, NEW d \in Cases, NEW s \in Runs
    PROVE  EndInv(d, s)'
<1>1. /\ Made(d, s) /\ Grown(s) /\ LinkInv(d, s) /\ EndInv(d, s) /\ RunInv(s)
      /\ Linked(d, s) => Linked(d, s)'
      /\ Done(d, s) => Done(d, s)' /\ case'[d].results[s] = case[d].results[s]
  BY StepMakes, NextGrows, CasesGrow DEF CasesInv, RunsInv
<1>2. SUFFICES ASSUME case'[d].source # s, Linked(d, s)', EndingsOf(s)' # {}, EndingsOf(s)' # {"incomplete"}
               PROVE  Done(d, s)' /\ EndingsOf(s)' = {Result(d, s)'.status} /\ HasPost(d, s)'
  BY DEF EndInv
<1>3. ASSUME NEW p \in Procs, proc[p].at \in {"link", "finish"}, proc[p].run = s
      PROVE  kind[s] = proc[p].op /\ Running(s) /\ proc[p].op \in Owners
  BY <1>3 DEF RunsInv, OwnerInv, KindKnown, Worked, Works, OwnerAts, TypeInv, RunTypes, Placed
<1>4. Linked(d, s) => case[d].source # s
  BY <1>1, <1>2 DEF Made, LinkInv
<1>5. ~ Linked(d, s) => \E p \in Procs : proc'[p] # proc[p] /\ proc[p].at = "link" /\ proc[p].run = s
  <2>1. SUFFICES ASSUME ~ Linked(d, s), NEW p \in Procs, proc[p].at = "sourceLink",
                        case[d].source = s, workspace = p
                 PROVE  FALSE
    BY <1>1, <1>2 DEF Made
  <2>2. ~ LockFree
    BY <2>1, Nobodys DEF LockFree
  <2> QED
    BY <1>1, <1>2, <2>1, <2>2 DEF Made
<1>6. CASE EndingsOf(s) # {}
  <2>1. EndingsOf(s)' = EndingsOf(s)
    BY <1>1, <1>6 DEF Grown
  <2>2. Linked(d, s)
    BY <1>3, <1>5, <1>6 DEF Running
  <2>3. Done(d, s) /\ EndingsOf(s) = {Result(d, s).status} /\ HasPost(d, s)
    BY <1>1, <1>2, <1>4, <1>6, <2>1, <2>2 DEF EndInv
  <2> QED
    BY <1>1, <2>1, <2>3 DEF Result, HasPost
<1>7. CASE EndingsOf(s) = {}
  <2>1. PICK p \in Procs : proc[p].at = "finish" /\ proc[p].run = s /\ EndingsOf(s)' = {proc[p].status}
    BY <1>1, <1>2, <1>7 DEF Grown
  <2>2. ~ proc[p].aborted
    BY <1>2, <2>1 DEF TypeInv, RunTypes, Placed
  <2>3. Linked(d, s)
    <3>1. SUFFICES ASSUME NEW q \in Procs, proc[q].at = "link", proc[q].run = s PROVE FALSE
      BY <1>5
    <3>2. p = q
      BY <2>1, <3>1 DEF RunsInv, OneOwner, OwnerAts
    <3> QED
      BY <2>1, <3>1, <3>2
  <2>4. kind[s] = "fork" /\ proc[p].op = "fork"
    BY <1>1, <1>3, <1>4, <2>1, <2>3 DEF LinkInv
  <2>5. Done(d, s) /\ Result(d, s) = [status |-> proc[p].status, post |-> TRUE]
    BY <1>4, <2>1, <2>2, <2>3, <2>4 DEF CasesInv, ForkInv
  <2> QED
    BY <1>1, <2>1, <2>5 DEF Result, HasPost
<1> QED
  BY <1>6, <1>7

-----------------------------------------------------------------------------
(* Cases: the bystanders of a step                                           *)

\* What a directory is removed for.
Spared(q) ==
    /\ proc[q].op = "fork"
    /\ proc[q].at \in {"capture", "attempt", "link", "mark", "command", "verify", "verifying"}

LEMMA UndoneFork ==
    ASSUME TypeInv, RunsInv, CasesInv, NEW q \in Procs, Spared(q)
    PROVE  proc[q].run \in Runs /\ Running(proc[q].run) /\ \A d \in Cases : ~ Done(d, proc[q].run)
<1> DEFINE r == proc[q].run
<1>1. r \in Runs
  BY RunOf DEF Spared, OwnerAts
<1>2. Running(r)
  BY DEF Spared, RunsInv, OwnerInv, Worked, Works
<1>3. ASSUME NEW d \in Cases PROVE ~ Done(d, r)
  <2>1. ForkInv(q)
    BY DEF CasesInv
  <2> QED
    BY <2>1, <1>3 DEF ForkInv, Spared
<1> QED
  BY <1>1, <1>2, <1>3

LEMMA DirsSpared ==
    ASSUME TypeInv, RunsInv, CasesInv, [Next]_vars, NEW q \in Procs, Spared(q), proc'[q] = proc[q],
           <<"fork", proc[q].run>> \in dirs
    PROVE  <<"fork", proc[q].run>> \in dirs'
<1> DEFINE r == proc[q].run
           e == <<"fork", r>>
<1>1. r \in Runs /\ Running(r) /\ \A d \in Cases : ~ Done(d, r)
  BY UndoneFork
<1> HIDE DEF r
<1>2. ASSUME NEW p \in Procs, NEW d \in Dirs, RemoveAbandoned(p, d) PROVE e \in dirs'
  <2>1. d \in task[p].gone /\ dirs' = dirs \ {d} /\ proc[p].at = "remove"
    BY <1>2 DEF RemoveAbandoned, AtStep
  <2>2. \E c \in Cases : Done(c, d[2])
    BY <2>1 DEF CasesInv, TaskInv
  <2>3. d # e
    BY <1>1, <2>2
  <2> QED
    BY <2>1, <2>3 DEF r
<1>3. ASSUME NEW p \in Procs, NEW d \in Dirs, RemoveOrphan(p, d) PROVE e \in dirs'
  <2>1. dirs' = dirs \/ (dirs' = dirs \ {d} /\ ~ (d[1] = "fork" /\ Running(d[2])))
    BY <1>3 DEF RemoveOrphan
  <2> QED
    BY <1>1, <2>1 DEF r
<1>4. ASSUME NEW p \in Procs, CleanUp(p) PROVE e \in dirs'
  <2>1. proc[p].at = "clean" /\ (dirs' = dirs \/ dirs' = dirs \ {<<"fork", proc[p].run>>})
    BY <1>4 DEF CleanUp, AtStep
  <2>2. proc[p].run # r
    BY <2>1 DEF Spared, RunsInv, OneOwner, OwnerAts, r
  <2> QED
    BY <2>1, <2>2 DEF r
<1>5. ASSUME NEW p \in Procs, EndVerification(p) PROVE e \in dirs'
  BY <1>5 DEF EndVerification, r
<1>6. ASSUME NEW p \in Procs, MakeWorkspace(p) \/ StartVerification(p) PROVE e \in dirs'
  BY <1>6 DEF MakeWorkspace, StartVerification, r
<1>7. ASSUME dirs' = dirs PROVE e \in dirs'
  BY <1>7 DEF r
<1> HIDE DEF e
<1>8. ASSUME NEW p \in Procs, RecoverCases(p) PROVE e \in dirs'
  BY <1>2, <1>3, <1>7, <1>8 DEF RecoverCases, Reconcile, Conclude, Refer, ListOrphans,
     Recovered, LeaveRunning, Settle, caseVars
<1>9. ASSUME NEW p \in Procs, Fork(p) PROVE e \in dirs'
  BY <1>4, <1>5, <1>6, <1>7, <1>9 DEF Fork, NoCase, OpenCase, StartAttempt, LinkAttempt,
     MarkKept, RunCommand, RecordResult
<1>10. ASSUME NEW p \in Procs, CaseCommand(p) PROVE e \in dirs'
  BY <1>7, <1>10 DEF CaseCommand, LinkSource, ShowCase, FinishApply, CreateCase, DeleteCase,
     SelectAttempt, Apply
<1>11. e \in dirs'
  BY <1>7, <1>8, <1>9, <1>10 DEF Next, CaseStep, vars, caseVars, RunPart, ForkFails,
     FinishPending, TurnEnds, LaterTurn
<1> QED
  BY <1>11 DEF e, r

LEMMA WorkspaceKept ==
    ASSUME TypeInv, CasesInv, [Next]_vars, NEW q \in Procs, workspace = q, proc'[q] = proc[q],
           proc[q].at \in {"sourceLink", "applying"}
    PROVE  workspace' = q
<1>1. ~ LockFree
  BY Nobodys DEF LockFree
<1>2. ASSUME NEW p \in Procs, LinkSource(p) \/ FinishApply(p) PROVE p = q /\ FALSE
  <2>1. proc[p].at \in {"sourceLink", "applying"} /\ proc' = [proc EXCEPT ![p] = Idle]
    BY <1>2 DEF LinkSource, FinishApply, AtStep, Ends
  <2>2. workspace = p
    BY <2>1 DEF CasesInv, TaskInv
  <2> QED
    BY <2>1, <2>2 DEF TypeInv, RunTypes, Idle
<1>3. ASSUME NEW p \in Procs, RunPart(p) PROVE workspace' = q
  <2>1. CASE p # q
    BY <1>3, <2>1 DEF RunPart
  <2>2. CASE p = q
    <3>1. Kill(q)
      BY <1>3, <2>2 DEF RunPart, Start, StartHook, RunStep, RecoverStep, OwnerStep, HookStep,
         FaultStep, ScanJournals, RecoverRun, RecoverClear, RecoverDone, BeginFails, Begin,
         StartRun, LinkWrapper, ChildEnds, Finish, ClearJournal, Release, LinkProvider,
         EnsureAttempt, Attach, HookRecovers, HookClears, StartRunFails, FinishFails,
         OwnerFails, At, AtStep
    <3>2. proc'[q].at = "idle"
      BY <3>1 DEF Kill, Idle, TypeInv, RunTypes
    <3>3. proc'[q] # proc[q]
      BY <3>2
    <3> QED
      BY <3>3
  <2> QED
    BY <2>1, <2>2
<1>4. ASSUME NEW p \in Procs, CaseStep(p) PROVE workspace' = q
  <2>1. CASE RecoverCases(p)
    BY <1>4, <2>1, <1>1 DEF RecoverCases, Reconcile, LeaveRunning, Settle, Conclude, Refer,
       RemoveAbandoned, ListOrphans, RemoveOrphan, Recovered, caseVars
  <2>2. CASE Fork(p)
    BY <1>4, <2>2, <1>1 DEF Fork, OpenCase, NoCase, MakeWorkspace, StartAttempt, LinkAttempt,
       MarkKept, RunCommand, StartVerification, EndVerification, RecordResult, CleanUp
  <2>3. CASE CaseCommand(p)
    BY <1>4, <2>3, <1>1, <1>2 DEF CaseCommand, ShowCase, CreateCase, DeleteCase, SelectAttempt,
       Apply
  <2> QED
    BY <1>4, <2>1, <2>2, <2>3 DEF CaseStep
<1> QED
  BY <1>3, <1>4 DEF Next, vars, caseVars, ForkFails, FinishPending, TurnEnds, LaterTurn

LEMMA BystanderForks ==
    ASSUME TypeInv, RunsInv, CasesInv, [Next]_vars, NEW q \in Procs,
           proc'[q] = proc[q], task'[q] = task[q]
    PROVE  ForkInv(q)'
<1>0. SUFFICES ASSUME NEW r, NEW own, r = proc[q].run, own = task[q].case PROVE ForkInv(q)'
  OBVIOUS
<1>1. SUFFICES ASSUME proc[q].op = "fork",
                      proc[q].at \in {"begin", "start", "mkdir", "capture", "attempt", "link", "mark",
                                      "command", "verify", "verifying", "result", "finish"}
               PROVE  ForkInv(q)'
  BY DEF ForkInv
<1>2. own \in Cases /\ ForkInv(q)
  BY <1>0, <1>1, RunOf DEF OwnerAts, CasesInv
<1>3. ASSUME NEW d \in Cases
      PROVE  /\ case[d].state # "absent" => case'[d].state # "absent" /\ case'[d].source = case[d].source
             /\ Exists(d) /\ (\E s \in Runs : Linked(d, s) /\ ~ Done(d, s)) => Exists(d)'
  <2>1. \A s \in Runs : Made(d, s)
    BY <1>3, StepMakes
  <2> QED
    BY <1>3, <2>1, CasesStay DEF Made, Exists
<1>4. proc'[q] = proc[q] /\ task'[q] = task[q] /\ r = proc[q].run /\ own = task[q].case
  BY <1>0
<1>5. CASE proc[q].at = "begin"
  BY <1>2, <1>3, <1>4, <1>5, <1>1 DEF ForkInv
<1>6. CASE proc[q].at # "begin"
  <2>1. r \in Runs /\ kind[r] = "fork" /\ EndingsOf(r) = {}
    <3>1. r \in Runs /\ kind[r] = "fork"
      BY <1>0, <1>1, <1>6, RunOf DEF OwnerAts, RunsInv, OwnerInv, KindKnown
    <3> QED
      BY <3>1, <1>0, <1>1, <1>6 DEF RunsInv, OwnerInv, Opened, Worked, Works, Running, EndingsOf
  <2>2. \A d \in Cases : /\ Made(d, r) /\ LinkInv(d, r)
                         /\ Linked(d, r) => Linked(d, r)'
                         /\ Done(d, r) => Done(d, r)' /\ case'[d].results[r] = case[d].results[r]
    BY <2>1, StepMakes, CasesGrow DEF CasesInv
  <2>3. \A p \in Procs : proc'[p] # proc[p] /\ proc[p].at \in {"link", "result"} => proc[p].run # r
    <3>1. SUFFICES ASSUME NEW p \in Procs, proc'[p] # proc[p], proc[p].at \in {"link", "result"}, proc[p].run = r
                   PROVE  FALSE
      OBVIOUS
    <3>2. p = q
      BY <1>0, <1>1, <1>6, <3>1 DEF RunsInv, OneOwner, OwnerAts
    <3> QED
      BY <3>1, <3>2
  <2>4. ASSUME NEW d \in Cases, Linked(d, r)' PROVE Linked(d, r) \/ case[d].source = r
    BY <2>2, <2>3, <2>4 DEF Made
  <2>5. ASSUME NEW d \in Cases PROVE Done(d, r)' => Done(d, r)
    BY <2>1, <2>2, <2>3, <2>5 DEF Made
  <2>6. ASSUME NEW d \in Cases, case[d].source = r PROVE case'[d].source = r
    <3>1. case[d].state # "absent"
      BY <2>2, <2>6 DEF LinkInv
    <3> QED
      BY <1>3, <2>6, <3>1
  <2>7. ASSUME NEW d \in Cases, Linked(d, r)', case'[d].source # r PROVE Linked(d, r) /\ case[d].source # r
    BY <2>4, <2>6, <2>7
  <2>8. ASSUME proc[q].at # "finish"
        PROVE  /\ case'[own].source # r
               /\ \A d \in Cases : Linked(d, r)' => d = own \/ case'[d].source = r
               /\ \A d \in Cases : ~ Done(d, r)'
               /\ ~ Linked(own, r) => ~ Linked(own, r)'
    <3>1. /\ case[own].source # r
          /\ \A d \in Cases : Linked(d, r) => d = own \/ case[d].source = r
          /\ \A d \in Cases : ~ Done(d, r)
      BY <1>1, <1>2, <1>4, <1>6, <2>8 DEF ForkInv
    <3>2. case[own].state # "absent"
      BY <1>1, <1>2, <1>4, <1>6, <2>8 DEF ForkInv, Exists
    <3>3. case'[own].source # r
      BY <1>2, <1>3, <3>1, <3>2
    <3> QED
      BY <1>2, <2>4, <2>5, <2>6, <3>1, <3>3
  <2>9. ASSUME Exists(own), Linked(own, r), ~ Done(own, r) PROVE Exists(own)'
    BY <1>2, <1>3, <2>1, <2>9
  <2>10. case[own].state # "absent" => case'[own].state # "absent"
    BY <1>2, <1>3
  <2>11. CASE proc[q].at \in {"start", "mkdir", "capture", "attempt", "link"}
    BY <1>1, <1>2, <1>4, <2>8, <2>10, <2>11 DEF ForkInv
  <2>12. CASE proc[q].at \in {"mark", "command", "verify", "verifying", "result"}
    BY <1>1, <1>2, <1>4, <2>2, <2>8, <2>9, <2>12 DEF ForkInv
  <2>13. CASE proc[q].at = "finish"
    <3>1. ASSUME ~ proc[q].aborted, NEW d \in Cases, Linked(d, r)', case'[d].source # r
          PROVE  Done(d, r)' /\ Result(d, r)' = [status |-> proc[q].status, post |-> TRUE]
      <4>1. Done(d, r) /\ Result(d, r) = [status |-> proc[q].status, post |-> TRUE]
        BY <1>1, <1>2, <2>7, <1>4, <2>13, <3>1 DEF ForkInv
      <4> QED
        BY <2>2, <3>1, <4>1 DEF Result
    <3> QED
      BY <1>4, <2>13, <3>1 DEF ForkInv
  <2> QED
    BY <1>1, <1>6, <2>11, <2>12, <2>13
<1> QED
  BY <1>5, <1>6

LEMMA ChosenStays ==
    ASSUME TypeInv, [Next]_vars, NEW l \in Links, Chosen(l)
    PROVE  Chosen(l)'
<1> DEFINE c == l[1]
           r == l[2]
<1>1. c \in Cases /\ r \in Runs /\ r \in case[c].ever /\ HasPost(c, r)
  BY DEF Chosen, Links
<1> HIDE DEF c, r
<1>2. r \in case'[c].ever /\ Done(c, r)' /\ case'[c].results[r] = case[c].results[r]
  BY <1>1, CasesGrow DEF HasPost
<1>3. r \in case'[c].ever /\ HasPost(c, r)'
  BY <1>1, <1>2 DEF HasPost, Result
<1> QED
  BY <1>3 DEF Chosen, c, r

LEMMA BystanderTasks ==
    ASSUME TypeInv, RunsInv, CasesInv, [Next]_vars, NEW q \in Procs,
           proc'[q] = proc[q], task'[q] = task[q]
    PROVE  TaskInv(q)'
<1>0. SUFFICES ASSUME NEW c, NEW t, c = proc[q], t = task[q] PROVE TaskInv(q)'
  OBVIOUS
<1>1. TaskInv(q) /\ t \in Tasks
  BY <1>0 DEF CasesInv, TypeInv, TaskTypes
<1>2. ASSUME NEW d \in Cases, NEW s \in Runs
      PROVE  /\ Made(d, s) /\ Grown(s)
             /\ Linked(d, s) => Linked(d, s)'
             /\ Done(d, s) => Done(d, s)' /\ case'[d].results[s] = case[d].results[s]
             /\ s \in case[d].ever => s \in case'[d].ever
  BY <1>2, StepMakes, NextGrows, CasesGrow
<1>3. ASSUME c.at \in {"settle", "conclude"}, NEW l \in t.open PROVE Linked(l[1], l[2])'
  <2>1. l[1] \in Cases /\ l[2] \in Runs /\ Linked(l[1], l[2])
    BY <1>0, <1>1, <1>3 DEF TaskInv, Tasks, Links
  <2> QED
    BY <1>2, <2>1
<1>4. ASSUME c.at = "conclude" PROVE Linked(t.link[1], t.link[2])' /\ EndingsOf(t.link[2])' # {}
  <2>1. t.link[1] \in Cases /\ t.link[2] \in Runs
    BY <1>0, <1>4, RunOf
  <2>2. Linked(t.link[1], t.link[2]) /\ EndingsOf(t.link[2]) # {}
    BY <1>0, <1>1, <1>4 DEF TaskInv
  <2>3. Linked(t.link[1], t.link[2])' /\ Grown(t.link[2])
    BY <1>2, <2>1, <2>2
  <2> QED
    BY <2>2, <2>3 DEF Grown
<1>5. ASSUME c.at = "remove", NEW d \in t.gone PROVE \E e \in Cases : Done(e, d[2])'
  <2>1. d[2] \in Runs
    BY <1>0, <1>1, <1>5 DEF Tasks, Dirs
  <2>2. PICK e \in Cases : Done(e, d[2])
    BY <1>0, <1>1, <1>5 DEF TaskInv
  <2>3. Done(e, d[2])'
    BY <1>2, <2>1, <2>2
  <2> QED
    BY <2>3
<1>6. ASSUME c.at = "applying" PROVE workspace' = q /\ Chosen(t.link)'
  <2>1. t.link \in Links /\ workspace = q /\ Chosen(t.link)
    BY <1>0, <1>1, <1>6, RunOf DEF TaskInv
  <2>2. workspace' = q
    BY <1>0, <1>6, <2>1, WorkspaceKept
  <2>3. Chosen(t.link)'
    BY <2>1, ChosenStays
  <2> QED
    BY <2>2, <2>3
<1>7. ASSUME c.at = "sourceLink"
      PROVE  /\ workspace' = q /\ Exists(t.case)' /\ case'[t.case].source \in Runs
             /\ "attempt" \in events'[case'[t.case].source]
             /\ \A s \in Runs : ~ Linked(t.case, s)'
  <2>0. SUFFICES ASSUME NEW d, NEW r, d = t.case, r = case[d].source
                 PROVE  /\ workspace' = q /\ Exists(d)' /\ case'[d].source \in Runs
                        /\ "attempt" \in events'[case'[d].source]
                        /\ \A s \in Runs : ~ Linked(d, s)'
    OBVIOUS
  <2>1. /\ d \in Cases /\ workspace = q /\ Exists(d) /\ r \in Runs
        /\ "attempt" \in events[r] /\ \A s \in Runs : ~ Linked(d, s)
    BY <1>0, <1>1, <1>7, <2>0, RunOf DEF TaskInv
  <2>2. ~ LockFree
    BY <2>1, Nobodys DEF LockFree
  <2>3. Made(d, r) /\ Grown(r)
    BY <1>2, <2>1
  <2>4. case'[d].source = r /\ Exists(d)'
    BY <2>0, <2>1, <2>2, <2>3 DEF Made, Exists
  <2>5. "attempt" \in events'[r]
    BY <2>1, <2>3 DEF Grown
  <2>6. ASSUME NEW s \in Runs PROVE ~ Linked(d, s)'
    <3>1. Made(d, s) /\ ~ Linked(d, s)
      BY <1>2, <2>1
    <3>2. \A p \in Procs : workspace = p => p = q /\ proc'[p] = proc[p]
      BY <2>1
    <3> QED
      BY <2>2, <3>1, <3>2 DEF Made
  <2>7. workspace' = q
    BY <1>0, <1>7, <2>1, WorkspaceKept
  <2> QED
    BY <2>1, <2>4, <2>5, <2>6, <2>7
<1>8. c = proc'[q] /\ t = task'[q]
  BY <1>0
<1> QED
  BY <1>3, <1>4, <1>5, <1>6, <1>7, <1>8 DEF TaskInv

LEMMA Bystanders ==
    ASSUME TypeInv, RunsInv, CasesInv, [Next]_vars, NEW q \in Procs,
           proc'[q] = proc[q], task'[q] = task[q]
    PROVE  ForkInv(q)' /\ ForkDir(q)' /\ TaskInv(q)'
<1>1. ForkDir(q)'
  <2>1. ForkDir(q)
    BY DEF CasesInv
  <2>2. Spared(q) => <<"fork", proc[q].run>> \in dirs
    BY <2>1 DEF ForkDir, Spared
  <2>3. Spared(q) => <<"fork", proc[q].run>> \in dirs'
    BY <2>2, DirsSpared
  <2> QED
    BY <2>3 DEF ForkDir, Spared
<1> QED
  BY <1>1, BystanderForks, BystanderTasks

-----------------------------------------------------------------------------
(* Cases: the process that takes the step                                    *)

OwnCases(p) == ForkInv(p) /\ ForkDir(p) /\ TaskInv(p)

\* Where a process is of no concern to the records of cases.
AtRest(c) ==
    /\ c.at \notin {"settle", "conclude", "remove", "sourceLink", "applying"}
    /\ c.op = "fork" =>
          \/ c.at \in (OtherAts \ {"begin"}) \cup {"finished", "clean", "release"}
          \/ c.at = "finish" /\ c.aborted

LEMMA RestsAtCases ==
    ASSUME NEW p \in Procs, AtRest(proc'[p])
    PROVE  OwnCases(p)'
  BY DEF OwnCases, AtRest, ForkInv, ForkDir, TaskInv, OtherAts

LEMMA RunPartOwn ==
    ASSUME TypeInv, RunsInv, CasesInv, [Next]_vars, NEW p \in Procs, RunPart(p)
    PROVE  OwnCases(p)'
<1>1. /\ proc \in [Procs -> Processes] /\ proc[p] \in Processes /\ Placed(proc[p])
      /\ case' = case /\ dirs' = dirs
      /\ ForkInv(p) /\ ForkDir(p) /\ OwnerInv(p)
  BY DEF TypeInv, RunTypes, RunsInv, CasesInv, RunPart
<1> USE <1>1 DEF Processes, Placed, AtStep, At, Goto, OwnerAts, ForkAts, HookAts, OtherAts, Owners, Ops, AtRest, Idle
<1>20. ASSUME NEW op \in Commands \ {"hook"}, Start(p, op) PROVE AtRest(proc'[p])
  BY <1>20, RunAssumption DEF Start
<1>21. ASSUME NEW r \in Runs, StartHook(p, r) PROVE AtRest(proc'[p])
  BY <1>21 DEF StartHook
<1>22. ASSUME ScanJournals(p) PROVE AtRest(proc'[p])
  BY <1>22 DEF ScanJournals
<1>23. ASSUME NEW r \in Runs, RecoverRun(p, r) PROVE AtRest(proc'[p])
  BY <1>23 DEF RecoverRun
<1>24. ASSUME RecoverClear(p) PROVE AtRest(proc'[p])
  BY <1>24 DEF RecoverClear
<1>25. ASSUME RecoverDone(p) PROVE AtRest(proc'[p])
  BY <1>25 DEF RecoverDone
<1>26. ASSUME HookStep(p) PROVE AtRest(proc'[p])
  BY <1>26 DEF HookStep, LinkProvider, EnsureAttempt, Attach, HookRecovers, HookClears
<1>27. ASSUME StartRunFails(p) \/ Kill(p) PROVE AtRest(proc'[p])
  BY <1>27 DEF StartRunFails, Kill
<1>28. ASSUME FinishFails(p) PROVE AtRest(proc'[p])
  BY <1>28 DEF FinishFails
<1>29. ASSUME OwnerFails(p) PROVE AtRest(proc'[p])
  BY <1>29 DEF OwnerFails
<1>30. ASSUME BeginFails(p) \/ Release(p) PROVE AtRest(proc'[p])
  BY <1>30 DEF BeginFails, Release
<1>32. ASSUME ChildEnds(p) PROVE AtRest(proc'[p])
  BY <1>32 DEF ChildEnds
<1>31. ASSUME Finish(p) \/ ClearJournal(p) PROVE AtRest(proc'[p])
  BY <1>31 DEF Finish, ClearJournal
<1>7. ASSUME NEW r \in Runs, Begin(p, r) PROVE OwnCases(p)'
  <2>1. proc'[p].at = "start" /\ proc'[p].run = r /\ kind[r] = "none"
    BY <1>7 DEF Begin
  <2>2. events[r] = {}
    BY <2>1 DEF RunsInv, RunInv
  <2>3. \A d \in Cases : ~ Linked(d, r) /\ ~ Done(d, r) /\ case[d].source # r
    BY <2>2 DEF CasesInv, LinkInv
  <2>4. ASSUME proc[p].op = "fork"
        PROVE  task'[p].case \in Cases /\ task'[p] = task[p] /\ case[task[p].case].state # "absent"
    <3>1. task'[p] = task[p]
      BY <2>1, <1>7 DEF RunPart, Begin, TypeInv, TaskTypes
    <3> QED
      BY <1>7, <2>4, <3>1, RunOf DEF Begin, ForkInv
  <2>5. proc'[p].op = proc[p].op
    BY <1>7 DEF Begin
  <2>6. ForkInv(p)'
    BY <2>1, <2>3, <2>4, <2>5 DEF ForkInv, Linked, Done
  <2> QED
    BY <2>1, <2>6 DEF OwnCases, ForkDir, TaskInv
<1>8. ASSUME StartRun(p) \/ LinkWrapper(p), proc[p].op = "fork" PROVE OwnCases(p)'
  <2>1. /\ proc'[p].at \in {"mkdir", "attempt"} /\ proc'[p].run = proc[p].run
        /\ proc[p].at \in {"start", "capture"} /\ proc'[p].op = "fork"
        /\ proc'[p].at = "attempt" => proc[p].at = "capture"
    BY <1>8 DEF StartRun, LinkWrapper
  <2>2. task'[p] = task[p]
    BY <2>1 DEF RunPart, TypeInv, TaskTypes
  <2>3. proc'[p].at = "attempt" => <<"fork", proc'[p].run>> \in dirs'
    BY <1>8, <2>1 DEF ForkDir
  <2>4. ForkInv(p)'
    BY <1>8, <2>1, <2>2 DEF ForkInv, Linked, Done
  <2> QED
    BY <2>1, <2>3, <2>4 DEF OwnCases, ForkDir, TaskInv
<1>9. ASSUME StartRun(p) \/ LinkWrapper(p), proc[p].op # "fork" PROVE AtRest(proc'[p])
  BY <1>9 DEF StartRun, LinkWrapper
<1> QED
  BY <1>20, <1>21, <1>22, <1>23, <1>24, <1>25, <1>26, <1>27, <1>28, <1>29, <1>30, <1>31, <1>32,
     <1>7, <1>8, <1>9, RestsAtCases DEF RunPart, RunStep, RecoverStep, OwnerStep, FaultStep

LEMMA RecoverOwn ==
    ASSUME TypeInv, RunsInv, CasesInv, [Next]_vars, NEW p \in Procs, RecoverCases(p)
    PROVE  OwnCases(p)'
<1>1. /\ proc \in [Procs -> Processes] /\ proc[p] \in Processes /\ Placed(proc[p])
      /\ task \in [Procs -> Tasks] /\ task[p] \in Tasks /\ TaskInv(p)
  BY DEF TypeInv, RunTypes, TaskTypes, CasesInv
<1>2. \A d \in Cases, s \in Runs : Linked(d, s) => Linked(d, s)'
  BY CasesGrow
<1>3. ASSUME NEW t, t = task'[p], proc'[p].at \in {"settle", "conclude"},
             \A l \in t.open : Linked(l[1], l[2])',
             proc'[p].at = "conclude" => Linked(t.link[1], t.link[2])' /\ EndingsOf(t.link[2])' # {}
      PROVE  OwnCases(p)'
  BY <1>3 DEF OwnCases, ForkInv, ForkDir, TaskInv
<1>4. ASSUME NEW t, t = task'[p], proc'[p].at = "remove",
             \A d \in t.gone : \E e \in Cases : Done(e, d[2])'
      PROVE  OwnCases(p)'
  BY <1>4 DEF OwnCases, ForkInv, ForkDir, TaskInv
<1> USE <1>1 DEF Processes, Tasks, AtStep, Becomes, Ends, Idle
<1>5. ASSUME Reconcile(p) PROVE OwnCases(p)'
  <2>1. proc'[p].at = "settle" /\ task'[p].open = OpenLinks
    BY <1>5 DEF Reconcile
  <2>2. \A l \in OpenLinks : l[1] \in Cases /\ l[2] \in Runs /\ Linked(l[1], l[2])
    BY DEF OpenLinks, Links
  <2>3. \A l \in task'[p].open : Linked(l[1], l[2])'
    BY <1>2, <2>1, <2>2
  <2> QED
    BY <1>3, <2>1, <2>3
<1>6. ASSUME NEW c \in Cases, NEW r \in Runs, LeaveRunning(p, c, r) PROVE OwnCases(p)'
  <2>1. proc'[p].at = "settle" /\ task'[p].open \subseteq task[p].open
    BY <1>6 DEF LeaveRunning, runVars
  <2>2. \A l \in task[p].open : l[1] \in Cases /\ l[2] \in Runs /\ Linked(l[1], l[2])
    BY <1>6 DEF LeaveRunning, TaskInv, Links
  <2>3. \A l \in task'[p].open : Linked(l[1], l[2])'
    BY <1>2, <2>1, <2>2
  <2> QED
    BY <1>3, <2>1, <2>3
<1>7. ASSUME NEW c \in Cases, NEW r \in Runs, Settle(p, c, r) PROVE OwnCases(p)'
  <2>1. CASE Ends(p)
    BY <2>1, RestsAtCases DEF AtRest
  <2>2. CASE task' = [task EXCEPT ![p].open = @ \ {<<c, r>>}, ![p].link = <<c, r>>, ![p].post = r \in posts]
             /\ Becomes(p, "conclude")
    <3>1. /\ proc'[p].at = "conclude" /\ task'[p].open \subseteq task[p].open /\ task'[p].link = <<c, r>>
          /\ <<c, r>> \in task[p].open /\ ~ Running(r) /\ events' = events
      BY <1>7, <2>2 DEF Settle, lifecycleVars
    <3>2. \A l \in task[p].open : l[1] \in Cases /\ l[2] \in Runs /\ Linked(l[1], l[2])
      BY <1>7 DEF Settle, TaskInv, Links
    <3>3. Linked(c, r)
      BY <3>1, <3>2
    <3>4. "attempt" \in events[r]
      BY <3>3 DEF CasesInv, LinkInv
    <3>5. EndingsOf(r) # {}
      BY <3>1, <3>4 DEF RunsInv, RunInv, Running
    <3>6. /\ \A l \in task'[p].open : Linked(l[1], l[2])'
          /\ Linked(c, r)' /\ EndingsOf(r)' # {}
      BY <1>2, <3>1, <3>2, <3>3, <3>5 DEF EndingsOf
    <3> QED
      BY <1>3, <3>1, <3>6 DEF Linked, EndingsOf
  <2> QED
    BY <1>7, <2>1, <2>2 DEF Settle
<1>8. ASSUME Conclude(p) PROVE OwnCases(p)'
  <2>1. CASE Ends(p)
    BY <2>1, RestsAtCases DEF AtRest
  <2>2. CASE task' = [task EXCEPT ![p].link = <<>>, ![p].post = FALSE] /\ Becomes(p, "settle")
    <3>1. proc'[p].at = "settle" /\ task'[p].open = task[p].open
      BY <2>2
    <3>2. \A l \in task[p].open : l[1] \in Cases /\ l[2] \in Runs /\ Linked(l[1], l[2])
      BY <1>8 DEF Conclude, TaskInv, Links
    <3>3. \A l \in task'[p].open : Linked(l[1], l[2])'
      BY <1>2, <3>1, <3>2
    <3> QED
      BY <1>3, <3>1, <3>3
  <2> QED
    BY <1>8, <2>1, <2>2 DEF Conclude
<1>9. ASSUME Refer(p) PROVE OwnCases(p)'
  <2>1. proc'[p].at = "remove" /\ task'[p].gone = Abandoned \cap dirs /\ case' = case
    BY <1>9 DEF Refer
  <2>2. \A d \in Abandoned : \E e \in Cases : Done(e, d[2])
    BY DEF Abandoned
  <2>3. \A d \in task'[p].gone : \E e \in Cases : Done(e, d[2])'
    BY <2>1, <2>2 DEF Done
  <2> QED
    BY <1>4, <2>1, <2>3
<1>10. ASSUME NEW x \in Dirs, RemoveAbandoned(p, x) PROVE OwnCases(p)'
  <2>1. proc'[p].at = "remove" /\ task'[p].gone \subseteq task[p].gone /\ case' = case
    BY <1>10 DEF RemoveAbandoned, runVars
  <2>2. \A d \in task[p].gone : \E e \in Cases : Done(e, d[2])
    BY <1>10 DEF RemoveAbandoned, TaskInv
  <2>3. \A d \in task'[p].gone : \E e \in Cases : Done(e, d[2])'
    BY <2>1, <2>2 DEF Done
  <2> QED
    BY <1>4, <2>1, <2>3
<1>11. ASSUME NEW d \in Dirs, RemoveOrphan(p, d) PROVE AtRest(proc'[p])
  BY <1>11 DEF RemoveOrphan, runVars, AtRest, OtherAts
<1>12. ASSUME ListOrphans(p) \/ Recovered(p) PROVE AtRest(proc'[p])
  BY <1>12 DEF ListOrphans, Recovered, AtRest, OtherAts
<1> QED
  BY <1>5, <1>6, <1>7, <1>8, <1>9, <1>10, <1>11, <1>12, RestsAtCases DEF RecoverCases

LEMMA ForkOwn ==
    ASSUME TypeInv, RunsInv, CasesInv, [Next]_vars, NEW p \in Procs, Fork(p)
    PROVE  OwnCases(p)'
<1>0. SUFFICES ASSUME NEW c, NEW own, NEW r, c = proc[p], own = task[p].case, r = c.run PROVE OwnCases(p)'
  OBVIOUS
<1>1. /\ proc \in [Procs -> Processes] /\ c \in Processes /\ Placed(c)
      /\ task \in [Procs -> Tasks] /\ ForkInv(p) /\ ForkDir(p)
  BY <1>0 DEF TypeInv, RunTypes, TaskTypes, CasesInv
<1>2. ASSUME case' = case, task' = task, NEW at,
             proc'[p].at = at, proc'[p].op = "fork", proc'[p].run = r, c.op = "fork",
             at # "result" => <<"fork", r>> \in dirs',
             <<c.at, at>> \in {<<"mkdir", "capture">>, <<"attempt", "link">>, <<"mark", "command">>,
                               <<"command", "verify">>, <<"verify", "verifying">>, <<"verify", "result">>,
                               <<"verifying", "result">>}
      PROVE  OwnCases(p)'
  <2>1. task'[p].case = own
    BY <1>0, <1>2
  <2>2. TaskInv(p)'
    BY <1>2, <2>1 DEF TaskInv
  <2>3. ForkDir(p)'
    BY <1>2, <2>1 DEF ForkDir
  <2>4. ForkInv(p)'
    <3>1. /\ at \in {"capture", "link"} => case[own].state # "absent" /\ ~ Linked(own, r)
          /\ at \in {"command", "verify", "verifying", "result"} => Exists(own) /\ Linked(own, r)
          /\ case[own].source # r
          /\ \A d \in Cases : Linked(d, r) => d = own \/ case[d].source = r
          /\ \A d \in Cases : ~ Done(d, r)
      BY <1>0, <1>1, <1>2 DEF ForkInv
    <3> QED
      BY <1>2, <2>1, <3>1 DEF ForkInv, Exists, Linked, Done
  <2> QED
    BY <2>2, <2>3, <2>4 DEF OwnCases
<1> USE <1>0, <1>1 DEF Processes, Placed, AtStep, Becomes, Ends, EndsInAbort, Idle, OwnerAts, ForkAts, OtherAts
<1>3. ASSUME NoCase(p) PROVE AtRest(proc'[p])
  BY <1>3 DEF NoCase, AtRest
<1>4. ASSUME NEW d \in Cases, OpenCase(p, d) PROVE OwnCases(p)'
  <2>1. /\ proc'[p].at = "begin" /\ case' = case /\ Exists(d)
        /\ \E keep : task' = [task EXCEPT ![p].case = d, ![p].keep = keep]
    BY <1>4 DEF OpenCase
  <2>2. task'[p].case = d
    BY <2>1 DEF Tasks
  <2> QED
    BY <2>1, <2>2 DEF OwnCases, ForkInv, ForkDir, TaskInv, Exists
<1>5. ASSUME CleanUp(p) PROVE AtRest(proc'[p])
  BY <1>5 DEF CleanUp, AtRest
<1>6. ASSUME MakeWorkspace(p) PROVE OwnCases(p)'
  <2>1. /\ proc'[p].at = "capture" /\ proc'[p].op = "fork" /\ proc'[p].run = r /\ c.at = "mkdir" /\ c.op = "fork"
        /\ case' = case /\ task' = task /\ <<"fork", r>> \in dirs'
    BY <1>6 DEF MakeWorkspace
  <2> QED
    BY <1>2, <2>1
<1>7. ASSUME StartAttempt(p) PROVE OwnCases(p)'
  <2>1. /\ proc'[p].at = "link" /\ proc'[p].op = "fork" /\ proc'[p].run = r /\ c.at = "attempt" /\ c.op = "fork"
        /\ case' = case /\ task' = task /\ <<"fork", r>> \in dirs'
    BY <1>7 DEF StartAttempt, ForkDir
  <2> QED
    BY <1>2, <2>1
<1>8. ASSUME MarkKept(p) PROVE OwnCases(p)'
  <2>1. /\ proc'[p].at = "command" /\ proc'[p].op = "fork" /\ proc'[p].run = r /\ c.at = "mark" /\ c.op = "fork"
        /\ case' = case /\ task' = task /\ <<"fork", r>> \in dirs'
    BY <1>8 DEF MarkKept, ForkDir
  <2> QED
    BY <1>2, <2>1
<1>9. ASSUME RunCommand(p) PROVE OwnCases(p)'
  <2>1. /\ proc'[p].at = "verify" /\ proc'[p].op = "fork" /\ proc'[p].run = r
        /\ c.at = "command" /\ c.op = "fork"
        /\ case' = case /\ task' = task /\ <<"fork", r>> \in dirs'
    BY <1>9 DEF RunCommand, ForkDir
  <2> QED
    BY <1>2, <2>1
<1>10. ASSUME StartVerification(p) PROVE OwnCases(p)'
  <2>1. /\ proc'[p].at \in {"verifying", "result"} /\ proc'[p].op = "fork" /\ proc'[p].run = r
        /\ c.at = "verify" /\ c.op = "fork"
        /\ case' = case /\ task' = task /\ <<"fork", r>> \in dirs'
    BY <1>10 DEF StartVerification, ForkDir, Endings
  <2> QED
    BY <1>2, <2>1
<1>11. ASSUME EndVerification(p) PROVE OwnCases(p)'
  <2>1. /\ proc'[p].at = "result" /\ proc'[p].op = "fork" /\ proc'[p].run = r
        /\ c.at = "verifying" /\ c.op = "fork"
        /\ case' = case /\ task' = task
    BY <1>11 DEF EndVerification, Endings
  <2> QED
    BY <1>2, <2>1
<1>12. ASSUME LinkAttempt(p) PROVE OwnCases(p)'
  <2>1. CASE EndsInAbort(p)
    <3>1. proc'[p].at = "clean"
      BY <2>1
    <3> QED
      BY <3>1, RestsAtCases DEF AtRest
  <2>2. CASE case' # case
    <3>1. NewLink(own, r) /\ Exists(own) /\ c.at = "link" /\ c.op = "fork"
      BY <1>12, <2>2, LinkAttemptIs
    <3>2. /\ proc'[p].at \in {"mark", "command"} /\ proc'[p].op = "fork" /\ proc'[p].run = r
          /\ task' = task /\ <<"fork", r>> \in dirs'
      BY <1>12, <2>2, <3>1 DEF LinkAttempt, ForkDir
    <3>3. /\ own \in Cases /\ r \in Runs /\ case[own].source # r
          /\ \A d \in Cases : Linked(d, r) => d = own \/ case[d].source = r
          /\ \A d \in Cases : ~ Done(d, r)
      BY <3>1 DEF NewLink, OnlyCase, ForkInv
    <3>4. case[own].links[r] \in Nat
      BY <3>3 DEF TypeInv, RecordTypes, CaseTypes
    <3>5. /\ Exists(own)' /\ Linked(own, r)' /\ case'[own].source # r
          /\ \A d \in Cases : Linked(d, r)' => d = own \/ case'[d].source = r
          /\ \A d \in Cases : ~ Done(d, r)'
      <4>1. Exists(own)'
        BY <3>1 DEF NewLink, SameHead, Exists
      <4>2. Linked(own, r)'
        BY <3>1, <3>4 DEF NewLink, Linked
      <4>3. case'[own].source # r
        BY <3>1, <3>3 DEF NewLink, SameHead
      <4>4. ASSUME NEW d \in Cases PROVE ~ Done(d, r)' /\ (Linked(d, r)' => d = own \/ case'[d].source = r)
        BY <3>1, <3>3, <4>4 DEF NewLink, OnlyCase, Linked, Done
      <4> QED
        BY <4>1, <4>2, <4>3, <4>4
    <3>6. task'[p].case = own
      BY <3>2
    <3> QED
      BY <3>2, <3>5, <3>6 DEF OwnCases, ForkInv, ForkDir, TaskInv
  <2>3. CASE case' = case /\ ~ EndsInAbort(p)
    <3>1. /\ own \in Cases /\ r \in Runs
          /\ case' = [case EXCEPT ![own].links[r] = @ + 1,
                                  ![own].keep = IF task[p].keep THEN @ \cup {r} ELSE @]
      BY <1>12, <2>3, RunOf DEF LinkAttempt
    <3>2. case[own] \in CaseTypes /\ case \in [Cases -> CaseTypes]
      BY <3>1 DEF TypeInv, RecordTypes
    <3>3. case'[own].links[r] = case[own].links[r] + 1 /\ case[own].links[r] \in Nat
      BY <3>1, <3>2 DEF CaseTypes
    <3> QED
      BY <2>3, <3>3
  <2> QED
    BY <2>1, <2>2, <2>3
<1>13. ASSUME RecordResult(p) PROVE OwnCases(p)'
  <2> DEFINE result == [status |-> c.status, post |-> TRUE]
  <2>1. /\ NewResult(own, r, result) /\ Exists(own) /\ Linked(own, r) /\ c.at = "result" /\ c.op = "fork"
    BY <1>13, RecordResultIs
  <2>2. /\ proc'[p].at = "finish" /\ proc'[p].run = r /\ proc'[p].status = c.status /\ proc'[p].op = "fork"
    BY <1>13 DEF RecordResult
  <2>3. \A d \in Cases \ {own} : Linked(d, r) => case[d].source = r
    BY <2>1 DEF ForkInv
  <2> HIDE DEF result
  <2>4. /\ Done(own, r)' /\ Result(own, r)' = result
        /\ \A d \in Cases \ {own} : Linked(d, r)' => case'[d].source = r
    BY <2>1, <2>3 DEF NewResult, OnlyCase, Done, Result, Linked
  <2>5. \A d \in Cases : Linked(d, r)' /\ case'[d].source # r => Done(d, r)' /\ Result(d, r)' = [status |-> proc'[p].status, post |-> TRUE]
    BY <2>2, <2>4 DEF result
  <2> QED
    BY <2>2, <2>5 DEF OwnCases, ForkInv, ForkDir, TaskInv
<1> QED
  BY <1>3, <1>4, <1>5, <1>6, <1>7, <1>8, <1>9, <1>10, <1>11, <1>12, <1>13, RestsAtCases DEF Fork

LEMMA CaseCommandOwn ==
    ASSUME TypeInv, RunsInv, CasesInv, [Next]_vars, NEW p \in Procs, CaseCommand(p)
    PROVE  OwnCases(p)'
<1>1. /\ proc \in [Procs -> Processes] /\ proc[p] \in Processes /\ Placed(proc[p])
      /\ task \in [Procs -> Tasks] /\ task[p] \in Tasks
  BY DEF TypeInv, RunTypes, TaskTypes
<1> USE <1>1 DEF Processes, Placed, Tasks, At, AtStep, Becomes, Ends, Idle, OtherAts
<1>2. ASSUME Ends(p) PROVE OwnCases(p)'
  BY <1>2, RestsAtCases DEF AtRest
<1>3. ASSUME NEW c \in Cases, CreateCase(p, c), ~ Ends(p) PROVE OwnCases(p)'
  <2>1. proc'[p].at = "sourceLink" /\ proc'[p].op = "case"
    BY <1>3 DEF CreateCase
  <2>2. SUFFICES ASSUME NEW r, r = case'[c].source PROVE OwnCases(p)'
    OBVIOUS
  <2>3. /\ NewState(c, "present") /\ case[c].state = "absent"
        /\ r \in Runs /\ "attempt" \in events[r]
        /\ task'[p].case = c /\ workspace' = p
    BY <1>3, <2>1, <2>2, CreateCaseIs
  <2>4. events' = events /\ kind' = kind
    BY <1>3 DEF CreateCase, lifecycleVars
  <2>5. \A s \in Runs : ~ Linked(c, s)
    BY <2>3 DEF CasesInv, LinkInv
  <2>6. Exists(c)' /\ \A s \in Runs : ~ Linked(c, s)'
    BY <2>3, <2>5 DEF NewState, SameAttempts, Exists, Linked
  <2> QED
    BY <2>1, <2>2, <2>3, <2>4, <2>6 DEF OwnCases, ForkInv, ForkDir, TaskInv
<1>4. ASSUME NEW c \in Cases, NEW r \in Runs, Apply(p, c, r) PROVE OwnCases(p)'
  <2>1. /\ proc'[p].at = "applying" /\ proc'[p].op = "apply" /\ workspace' = p /\ task'[p].link = <<c, r>>
        /\ HasPost(c, r) /\ (case[c].selected = r \/ case' = WithSelection(c, r))
    BY <1>4 DEF Apply
  <2>2. r \in case'[c].ever
    <3>1. CASE case[c].selected = r
      <4>1. r \in case[c].ever
        BY <3>1 DEF CasesInv, LinkInv
      <4> QED
        BY <4>1, CasesGrow
    <3>2. CASE case' = WithSelection(c, r)
      BY <3>2, SelectionIs DEF NewSelection
    <3> QED
      BY <2>1, <3>1, <3>2
  <2>3. Done(c, r)' /\ case'[c].results[r] = case[c].results[r]
    BY <2>1, CasesGrow DEF HasPost
  <2>4. HasPost(c, r)'
    BY <2>1, <2>3 DEF HasPost, Result
  <2>5. Chosen(<<c, r>>)'
    BY <2>2, <2>4 DEF Chosen
  <2> QED
    BY <2>1, <2>5 DEF OwnCases, ForkInv, ForkDir, TaskInv
<1> QED
  BY <1>2, <1>3, <1>4 DEF CaseCommand, LinkSource, ShowCase, FinishApply, DeleteCase,
     SelectAttempt

LEMMA ProcessOwn ==
    ASSUME TypeInv, RunsInv, CasesInv, [Next]_vars, NEW p \in Procs,
           RunPart(p) \/ CaseStep(p) \/ ForkFails(p)
    PROVE  OwnCases(p)'
<1>1. ASSUME ForkFails(p) PROVE OwnCases(p)'
  <2>1. proc'[p].at = "clean"
    BY <1>1 DEF ForkFails, EndsInAbort, TypeInv, RunTypes, Processes
  <2> QED
    BY <2>1, RestsAtCases DEF AtRest
<1> QED
  BY <1>1, RunPartOwn, RecoverOwn, ForkOwn, CaseCommandOwn DEF CaseStep

-----------------------------------------------------------------------------
(* The inductive invariant, and what it says                                 *)

LEMMA InitCases == CaseInit => CasesInv
<1> SUFFICES ASSUME CaseInit PROVE CasesInv
  OBVIOUS
<1>1. \A c \in Cases, r \in Runs : LinkInv(c, r) /\ EndInv(c, r)
  BY Nobodys DEF CaseInit, Unlinked, LinkInv, EndInv, Linked, Done, HasPost
<1>2. \A p \in Procs : ForkInv(p) /\ ForkDir(p) /\ TaskInv(p)
  BY DEF CaseInit, Init, Idle, ForkInv, ForkDir, TaskInv
<1> QED
  BY <1>1, <1>2 DEF CasesInv, CaseInit

LEMMA PendingKept ==
    ASSUME NEW p \in Procs, CaseStep(p)
    PROVE  pending' = pending
<1>1. CASE RecoverCases(p)
  BY <1>1 DEF RecoverCases, Reconcile, LeaveRunning, Settle, Conclude, Refer, RemoveAbandoned,
     ListOrphans, RemoveOrphan, Recovered, caseVars
<1>2. CASE Fork(p)
  BY <1>2 DEF Fork, OpenCase, NoCase, MakeWorkspace, StartAttempt, LinkAttempt, MarkKept,
     RunCommand, StartVerification, EndVerification, RecordResult, CleanUp
<1>3. CASE CaseCommand(p)
  BY <1>3 DEF CaseCommand, LinkSource, ShowCase, FinishApply, CreateCase, DeleteCase,
     SelectAttempt, Apply
<1> QED
  BY <1>1, <1>2, <1>3 DEF CaseStep

LEMMA OthersStay ==
    ASSUME TypeInv, NEW p \in Procs, NEW q \in Procs \ {p}, RunPart(p) \/ CaseStep(p) \/ ForkFails(p)
    PROVE  proc'[q] = proc[q] /\ task'[q] = task[q]
<1>0. proc \in [Procs -> Processes] /\ task \in [Procs -> Tasks]
  BY DEF TypeInv, RunTypes, TaskTypes
<1> USE <1>0 DEF Becomes, Ends, EndsInAbort, Goto
<1>1. CASE RecoverCases(p)
  BY <1>1, Zenon DEF RecoverCases, Reconcile, LeaveRunning, Settle, Conclude, Refer,
     RemoveAbandoned, ListOrphans, RemoveOrphan, Recovered, caseVars, runVars
<1>2. CASE Fork(p)
  BY <1>2 DEF Fork, OpenCase, NoCase, MakeWorkspace, StartAttempt, LinkAttempt, MarkKept,
     RunCommand, StartVerification, EndVerification, RecordResult, CleanUp
<1>3. CASE CaseCommand(p)
  BY <1>3, Zenon DEF CaseCommand, LinkSource, ShowCase, FinishApply, CreateCase, DeleteCase,
     SelectAttempt, Apply
<1>4. CASE ForkFails(p)
  BY <1>4, Zenon DEF ForkFails, caseVars
<1>5. CASE RunPart(p)
  BY <1>5, Zenon DEF RunPart, Start, StartHook, RunStep, RecoverStep, OwnerStep, HookStep,
     FaultStep, Kill, ScanJournals, RecoverRun, RecoverClear, RecoverDone, BeginFails, Begin,
     StartRun, LinkWrapper, ChildEnds, Finish, ClearJournal, Release, LinkProvider,
     EnsureAttempt, Attach, HookRecovers, HookClears, StartRunFails, FinishFails, OwnerFails
<1> QED
  BY <1>1, <1>2, <1>3, <1>4, <1>5 DEF CaseStep

LEMMA NextCases == TypeInv /\ RunsInv /\ CasesInv /\ [Next]_vars => CasesInv'
<1> SUFFICES ASSUME TypeInv, RunsInv, CasesInv, [Next]_vars PROVE CasesInv'
  OBVIOUS
<1>1. \A c \in Cases, r \in Runs : LinkInv(c, r)' /\ EndInv(c, r)'
  BY StepMakes, StepEnds
<1>2. ASSUME NEW q \in Procs PROVE OwnCases(q)'
  <2>1. CASE proc'[q] = proc[q] /\ task'[q] = task[q]
    BY <2>1, Bystanders DEF OwnCases
  <2>2. CASE RunPart(q) \/ CaseStep(q) \/ ForkFails(q)
    BY <2>2, ProcessOwn
  <2>3. ASSUME NEW p \in Procs \ {q}, RunPart(p) \/ CaseStep(p) \/ ForkFails(p)
        PROVE  proc'[q] = proc[q] /\ task'[q] = task[q]
    BY <2>3, OthersStay
  <2> QED
    BY <2>1, <2>2, <2>3 DEF Next, vars, runVars, caseVars, FinishPending, TurnEnds, LaterTurn
<1>3. ASSUME NEW l \in pending' PROVE Chosen(l)'
  <2>1. l \in pending \/ \E p \in Procs : proc[p].at = "applying" /\ l = task[p].link
    <3>1. ASSUME NEW p \in Procs, RunPart(p), l \notin pending
          PROVE  proc[p].at = "applying" /\ l = task[p].link
      BY <1>3, <3>1 DEF RunPart, AtStep
    <3>2. ASSUME NEW p \in Procs, CaseStep(p) PROVE pending' = pending
      BY <3>2, PendingKept
    <3> QED
      BY <1>3, <3>1, <3>2 DEF Next, vars, caseVars, ForkFails, FinishPending, TurnEnds,
         LaterTurn
  <2>2. l \in Links /\ Chosen(l)
    BY <2>1, RunOf DEF CasesInv, TaskInv, TypeInv, RecordTypes
  <2> QED
    BY <2>2, ChosenStays
<1> QED
  BY <1>1, <1>2, <1>3 DEF CasesInv, OwnCases

\* IInv holds of every state: the types, what is recorded of runs and who is at work on
\* them, and what is recorded of cases.
THEOREM Invariance == Spec => [](TypeInv /\ IInv)
<1>1. CaseInit => TypeInv /\ IInv
  BY InitTypes, InitRuns, InitCases DEF IInv
<1>2. TypeInv /\ IInv /\ [Next]_vars => (TypeInv /\ IInv)'
  BY NextTypes, NextRuns, NextCases DEF IInv
<1> QED
  BY <1>1, <1>2, PTL DEF Spec

\* The variables of RunLifecycle have their types (events and journals of runs, locks,
\* what each process remembers), whatever the commands about cases do to them.
THEOREM TypeCorrect == Spec => []TypeOK
<1>1. TypeInv => TypeOK
  BY DEF TypeInv, RunTypes, TypeOK, Processes
<1> QED
  BY <1>1, Invariance, PTL

\* "Live concurrent Runs are untouched" (runs/lifecycle.go): until the owner of a run has
\* finished it, nobody ends it, takes its journal or concludes its attempt, and a run that
\* has lost its owner can be found by its journal.
THEOREM RunsAreOwned == Spec => []RunsOwned
<1>1. ASSUME TypeInv, IInv PROVE RunsOwned
  <2>1. RunsInv /\ CasesInv
    BY <1>1 DEF IInv
  <2>2. ASSUME NEW p \in Procs, Works(proc[p]) PROVE Accepts(proc[p].run)
    <3>1. proc[p].at \in OwnerAts /\ proc[p].op \in Owners
      BY <1>1, <2>2 DEF Works, OwnerAts, ForkAts, TypeInv, RunTypes, Placed
    <3>2. Running(proc[p].run) /\ proc[p].run \in journals \cap lifecycle
      BY <2>1, <2>2 DEF RunsInv, OwnerInv, Worked
    <3> QED
      BY <3>1, <3>2 DEF Accepts, Guarded, OwnerAlive
  <2>3. ASSUME NEW p \in Procs, proc[p].at = "result"
        PROVE  Exists(task[p].case) /\ Linked(task[p].case, proc[p].run) /\ ~ Done(task[p].case, proc[p].run)
    <3>1. proc[p].op = "fork" /\ ForkInv(p) /\ task[p].case \in Cases
      BY <1>1, <2>1, <2>3, RunOf DEF OwnerAts, ForkAts, TypeInv, RunTypes, Placed, CasesInv
    <3> QED
      BY <2>3, <3>1 DEF ForkInv
  <2>4. LiveRunsUntouched
    BY <2>2, <2>3 DEF LiveRunsUntouched, Works, AtStep
  <2>5. OpenRunsJournaled
    BY <2>1 DEF OpenRunsJournaled, RunsInv, RunInv
  <2> QED
    BY <2>4, <2>5 DEF RunsOwned
<1> QED
  BY <1>1, Invariance, PTL

\* runs.Project and cases.Project find no contradiction in the log at any moment, and the
\* end of a fork's run tells the same as the result of its attempt in the case it was made for.
THEOREM LogIsConsistent == Spec => []LogConsistent
<1>1. ASSUME TypeInv, IInv PROVE LogConsistent
  <2>1. RunsInv /\ CasesInv
    BY <1>1 DEF IInv
  <2>2. ASSUME NEW r \in Runs PROVE Readable(r)
    <3>1. RunInv(r)
      BY <2>1 DEF RunsInv
    <3>2. Cardinality(EndingsOf(r)) <= 1
      <4>1. CASE EndingsOf(r) = {}
        BY <4>1, FS_EmptySet
      <4>2. CASE EndingsOf(r) # {}
        <5>1. PICK s \in EndingsOf(r) : EndingsOf(r) = {s}
          BY <3>1, <4>2 DEF RunInv
        <5> QED
          BY <5>1, FS_Singleton
      <4> QED
        BY <4>1, <4>2
    <3> QED
      BY <3>1, <3>2 DEF Readable, RunInv
  <2>3. ASSUME NEW c \in Cases PROVE CaseReadable(c)
    BY <2>1 DEF CaseReadable, CasesInv, LinkInv
  <2>4. ResultsAgree
    <3>1. ASSUME NEW c \in Cases, NEW r \in Runs, case[c].source # r, Done(c, r), EndingsOf(r) # {}
          PROVE  \/ EndingsOf(r) = {"incomplete"}
                 \/ EndingsOf(r) = {Result(c, r).status} /\ HasPost(c, r)
      BY <2>1, <3>1 DEF CasesInv, LinkInv, EndInv
    <3> QED
      BY <3>1 DEF ResultsAgree, Links
  <2> QED
    BY <2>2, <2>3, <2>4 DEF LogConsistent, ProjectionsReadable
<1> QED
  BY <1>1, Invariance, PTL

\* Neither the owner of another run nor recovery, with what it read before, removes the
\* directory a fork still works in.
THEOREM WorkspacesKept == Spec => []ForksKeepWorkspace
<1>1. IInv => ForksKeepWorkspace
  BY DEF IInv, CasesInv, ForkDir, ForksKeepWorkspace
<1> QED
  BY <1>1, Invariance, PTL
=============================================================================
