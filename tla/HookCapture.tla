---------------------------- MODULE HookCapture ----------------------------
(***************************************************************************)
(* What the provider's hooks leave in a session's event stream.  A coding  *)
(* agent runs one short Turnal process per hook: a prompt was submitted, a *)
(* tool is about to run, a tool has run, the agent stops.  The processes   *)
(* of one session take its lock one after another, but in any order: hooks *)
(* of parallel tools race, a hook may be delivered again, with other       *)
(* bytes, long after the first time, and a hook may be killed between two  *)
(* of its writes.  Starting and finishing a turn are one step each here:   *)
(* TurnRecorder has what is inside them, and its recovery runs at the      *)
(* start of every hook.                                                    *)
(***************************************************************************)
EXTENDS Naturals, Sequences, FiniteSets

CONSTANTS Tools,      \* tool uses of the session, each under its own id
          Mutating,   \* those shouldCaptureAction takes snapshots for
          Unnamed,    \* those an external adapter reports without an id
          Observed,   \* those it reports after they changed the workspace
          Intents,    \* those that run `turnal intent`
          Settings,   \* adapters and what their payloads are like: see Setting
          MaxPrompts, \* bound on the prompts the user submits
          MaxRetries, \* bound on the hooks that are delivered again
          MaxKills,   \* bound on the hooks that are killed or fail
          NoTool

\* style: "builtin" (processHook) or "external" (processNormalizedEvent); named:
\* the provider names its turns; repeats: prompts and last messages of two
\* turns are the same (a name would tell them apart).
Setting == {s \in [style: {"builtin", "external"}, named: BOOLEAN, repeats: BOOLEAN] :
              ~(s.named /\ s.repeats)}

ASSUME CaptureAssumption ==
    /\ Mutating \subseteq Tools /\ Unnamed \subseteq Tools /\ Observed \subseteq Tools
    /\ Intents \subseteq Tools
    /\ Settings \subseteq Setting
    /\ NoTool \notin Tools

VARIABLES
    setting,  \* the adapter, and what its payloads are like
    events,   \* the session's stream
    active,   \* the active turn, 0 when there is none
    snaps,    \* <<turn, tool, phase>> -> the workspace that snapshot ref holds
    job,      \* the hook that holds the session lock
    work,     \* number of the workspace's last change
    asked,    \* prompts submitted so far
    open,     \* the agent is between a prompt and its stop
    tools,    \* tool -> where the agent is with it, and in which of its turns
    sent,     \* hooks the agent has run
    fresh,    \* those whose first process has not had the lock yet
    retries,  \* hooks delivered again so far
    killed    \* hooks that were killed

agent == <<asked, open, tools, sent>>
faults == <<retries, killed>>
vars == <<setting, events, active, snaps, job, work, agent, fresh, faults>>

Hook(kind, turn, id) == [kind |-> kind, turn |-> turn, id |-> id]
ToolHooks == {"call", "result"}

Idle == [pc |-> "idle", hook |-> Hook("none", 0, NoTool), bytes |-> 0,
         turn |-> 0, id |-> NoTool, snap |-> 0]

NewTool == [at |-> "new", turn |-> 0, from |-> 0, pre |-> {}]

Init ==
    /\ setting \in Settings
    /\ events = <<>>
    /\ active = 0
    /\ snaps = <<>>
    /\ job = Idle
    /\ work = 1
    /\ asked = 0
    /\ open = FALSE
    /\ tools = [i \in Tools |-> NewTool]
    /\ sent = {}
    /\ fresh = {}
    /\ retries = 0
    /\ killed = {}

-----------------------------------------------------------------------------
(* The agent.  It waits for the hooks of prompts, of calls and of stops,   *)
(* and goes on when they have ended in any way.                            *)

Waits == \E h \in fresh : h.kind # "result"
Quiet == job.pc = "idle" /\ ~Waits

Sends(h) == /\ sent' = sent \cup {h}
            /\ fresh' = fresh \cup {h}
            /\ UNCHANGED <<setting, events, active, snaps, job, faults>>

\* The user submits a prompt, also while a turn is open: it was interrupted.
Prompt ==
    /\ Quiet
    /\ asked < MaxPrompts
    /\ asked' = asked + 1
    /\ open' = TRUE
    /\ Sends(Hook("prompt", asked + 1, NoTool))
    /\ UNCHANGED <<work, tools>>

CallTool(i) ==
    /\ job.pc = "idle" /\ ~\E h \in fresh : h.kind \in {"prompt", "stop"}
    /\ open
    /\ tools[i].at = "new"
    /\ tools' = [tools EXCEPT ![i] = [NewTool EXCEPT !.at = "called", !.turn = asked]]
    /\ Sends(Hook("call", asked, i))
    /\ UNCHANGED <<work, asked, open>>

\* The tool runs once the hook of its call has ended.
RunTool(i) ==
    LET h == Hook("call", tools[i].turn, i)
    IN  /\ tools[i].at = "called"
        /\ h \notin fresh /\ job.hook # h
        /\ work' = work + 1
        /\ tools' = [tools EXCEPT ![i].at = "ran", ![i].from = work,
                                   ![i].pre = {key \in DOMAIN snaps : key[2] = i}]
        /\ Sends(Hook("result", tools[i].turn, i))
        /\ UNCHANGED <<asked, open>>

\* The agent stops, with or without results of the tools it called.
Stop ==
    /\ Quiet
    /\ open
    /\ open' = FALSE
    /\ Sends(Hook("stop", asked, NoTool))
    /\ UNCHANGED <<work, asked, tools>>

-----------------------------------------------------------------------------
(* Reading the stream                                                      *)

Named(h) == IF setting.named THEN h.turn ELSE 0

\* What a hook says beside its names: a tool's input or output, or a text.
Content(h) == IF h.kind \in ToolHooks THEN h.id ELSE IF setting.repeats THEN 0 ELSE h.turn

\* sourceIDFor: the hook, the provider's names for turn and tool, and a digest
\* of the bytes, or of the id an external adapter gave.
Source(h, bytes) ==
    <<h.kind, Named(h), Content(h), IF setting.style = "external" THEN 0 ELSE bytes>>
NoSource == <<>>

Seen(src) == \E n \in DOMAIN events : events[n].src = src

Event(type, turn, id, src) ==
    [type |-> type, turn |-> turn, id |-> id, src |-> src, by |-> 0, snap |-> 0]

Has(type) == \E n \in DOMAIN events : events[n].type = type
TurnHas(turn, type, id) ==
    \E n \in DOMAIN events : events[n].turn = turn /\ events[n].type = type /\ events[n].id = id

\* Mutant of SessionHas: tool hooks are recognised by their bytes alone.
SessionHasNone(type, h) == FALSE

\* sessionHasToolEvent: by the tool's id, in any turn, unless the provider's
\* names of the turns differ.
SessionHas(type, h) ==
    \E n \in DOMAIN events :
        /\ events[n].type = type /\ events[n].id = h.id
        /\ Named(h) = 0 \/ events[n].by = 0 \/ events[n].by = Named(h)

\* Calls of the turn without a result, in the order of the stream.
Unmatched(turn) ==
    {n \in DOMAIN events : /\ events[n].type = "call" /\ events[n].turn = turn
                           /\ ~TurnHas(turn, "result", events[n].id)}

\* latestUnmatchedToolUseID, for a result without an id: the one call that has
\* no result yet, among several the one with its input, or else the oldest.
Matching(turn, h) ==
    LET waiting == Unmatched(turn)
        ids == {events[n].id : n \in waiting}
    IN  IF waiting = {} \/ (h.id \in ids /\ Cardinality(ids) > 1) THEN h.id
        ELSE events[CHOOSE n \in waiting : \A m \in waiting : n <= m].id

\* priorActionSnapshot, for a change that was observed when it was made: the
\* turn's last snapshot after an action, or the one it started with.
Prior(turn) ==
    LET taken == {n \in DOMAIN events : /\ events[n].turn = turn /\ events[n].snap # 0
                                         /\ events[n].type \in {"turn.start", "result"}}
    IN  events[CHOOSE n \in taken : \A m \in taken : m <= n].snap

-----------------------------------------------------------------------------
(* A hook process, under the session lock                                  *)

Goto(label) == job' = [job EXCEPT !.pc = label]
Done == job' = Idle

InHook == UNCHANGED <<setting, work, agent, fresh, faults>>

\* The process of a hook gets the lock, the first time or again.
Deliver(h, bytes) ==
    /\ job.pc = "idle"
    /\ \/ h \in fresh /\ bytes = 0 /\ fresh' = fresh \ {h} /\ UNCHANGED retries
       \/ /\ h \in sent \ fresh /\ retries < MaxRetries
          /\ retries' = retries + 1 /\ UNCHANGED fresh
          /\ h.kind \in ToolHooks \/ bytes = 0
    /\ job' = [Idle EXCEPT !.pc = "check", !.hook = h, !.bytes = bytes]
    /\ UNCHANGED <<setting, events, active, snaps, work, agent, killed>>

\* What was recorded under the same source is not recorded again; after that
\* the first event of a session is its start.
Check ==
    LET next == CASE job.hook.kind = "prompt" -> "prompt"
                  [] job.hook.kind = "stop" -> "close"
                  [] OTHER -> "tool"
        starts == ~Has("session.start") /\ (setting.style = "builtin" \/ next # "close")
    IN  /\ job.pc = "check"
        /\ IF Seen(Source(job.hook, job.bytes))
           THEN Done /\ UNCHANGED events
           ELSE /\ Goto(next)
                /\ events' = IF starts
                             THEN Append(events, Event("session.start", 0, NoTool, NoSource))
                             ELSE events
        /\ UNCHANGED <<active, snaps>> /\ InHook

\* turns.Manager: Start and Finish with their events.
NextTurn == 1 + Cardinality({n \in DOMAIN events : events[n].type = "turn.start"})

Start(label) ==
    /\ active' = NextTurn
    /\ events' = Append(events, [Event("turn.start", NextTurn, NoTool, NoSource) EXCEPT !.snap = work])
    /\ job' = [job EXCEPT !.pc = label, !.turn = NextTurn, !.id = job.hook.id]
    /\ UNCHANGED snaps /\ InHook

Finish(label) ==
    /\ events' = Append(events, Event("turn.finish", active, NoTool, NoSource))
    /\ active' = 0
    /\ IF label = "done" THEN Done ELSE Goto(label)
    /\ UNCHANGED snaps /\ InHook

\* Mutant of HasPrompt: an open turn takes every prompt.
HasPromptNever(turn) == FALSE

HasPrompt(turn) == TurnHas(turn, "prompt", NoTool)

\* startPromptTurn: an active turn that has a prompt already is finished, one
\* that has none yet takes this prompt.
EndOpenTurn == job.pc = "prompt" /\ active # 0 /\ HasPrompt(active) /\ Finish("prompt")

StartForPrompt == job.pc = "prompt" /\ active = 0 /\ Start("text")

Writes(e) ==
    /\ events' = Append(events, [e EXCEPT !.by = Named(job.hook)])
    /\ UNCHANGED <<active, snaps>> /\ InHook

PromptEvent(turn) == Event("prompt", turn, NoTool, Source(job.hook, job.bytes))

ReuseTurn ==
    /\ job.pc = "prompt" /\ active # 0 /\ ~HasPrompt(active)
    /\ Writes(PromptEvent(active))
    /\ Done

AppendPrompt ==
    /\ job.pc = "text"
    /\ Writes(PromptEvent(job.turn))
    /\ Done

ToolID == IF setting.style = "external" /\ job.hook.kind = "result" /\ job.hook.id \in Unnamed
          THEN Matching(active, job.hook) ELSE job.hook.id

\* shouldCaptureAction: tools that only read get no snapshot.
AfterTurn == IF job.hook.id \in Mutating THEN "snapshot" ELSE "record"

\* A tool hook of a built-in adapter is not recorded twice in the session,
\* whatever its bytes; otherwise it needs a turn.
EnsureTurn ==
    /\ job.pc = "tool"
    /\ \/ /\ setting.style = "builtin" /\ SessionHas(job.hook.kind, job.hook)
          /\ Done
          /\ UNCHANGED <<events, active, snaps>> /\ InHook
       \/ /\ ~(setting.style = "builtin" /\ SessionHas(job.hook.kind, job.hook))
          /\ IF active = 0 THEN Start(AfterTurn)
             ELSE /\ job' = [job EXCEPT !.pc = AfterTurn, !.turn = active, !.id = ToolID]
                  /\ UNCHANGED <<events, active, snaps>> /\ InHook

\* captureActionSnapshotLocked: the ref of this action and phase is created
\* once, later deliveries find it.
SnapshotKey == <<job.turn, job.id, job.hook.kind>>

Snapshot(key) == IF key \in DOMAIN snaps THEN snaps[key] ELSE work

AlreadyApplied ==
    setting.style = "external" /\ job.hook.kind = "call" /\ job.hook.id \in Observed

TakeSnapshot ==
    /\ job.pc = "snapshot"
    /\ IF AlreadyApplied
       THEN job' = [job EXCEPT !.pc = "record", !.snap = Prior(job.turn)] /\ UNCHANGED snaps
       ELSE /\ snaps' = [key \in DOMAIN snaps \cup {SnapshotKey} |-> Snapshot(key)]
            /\ job' = [job EXCEPT !.pc = "record", !.snap = Snapshot(SnapshotKey)]
    /\ UNCHANGED <<events, active>> /\ InHook

ToolEvent(type, src, snap) == [Event(type, job.turn, job.id, src) EXCEPT !.snap = snap]

RecordCall ==
    /\ job.pc = "record" /\ job.hook.kind = "call"
    /\ IF TurnHas(job.turn, "call", job.id)
       THEN UNCHANGED <<events, active, snaps>> /\ InHook
       ELSE Writes(ToolEvent("call", Source(job.hook, job.bytes), job.snap))
    /\ Done

\* A result whose call is not in the turn gets one, without a snapshot; the log
\* takes it once only, whatever turn the first one is in.
CallSource == <<"call of", Source(job.hook, job.bytes)>>
NeedsCall == ~TurnHas(job.turn, "call", job.id) /\ ~Seen(CallSource)

AddCall ==
    /\ job.pc = "record" /\ job.hook.kind = "result"
    /\ IF NeedsCall THEN Writes(ToolEvent("call", CallSource, 0))
       ELSE UNCHANGED <<events, active, snaps>> /\ InHook
    /\ Goto("result")

RecordResult ==
    /\ job.pc = "result"
    /\ IF TurnHas(job.turn, "result", job.id)
       THEN UNCHANGED <<events, active, snaps>> /\ InHook
       ELSE Writes(ToolEvent("result", Source(job.hook, job.bytes), job.snap))
    /\ Done

\* closeUnmatchedToolCalls passes over commands that state an intent.
Unsettled(turn) == {n \in Unmatched(turn) : events[n].id \notin Intents}

\* stop: the other calls of the active turn without a result get one of unknown outcome.
CloseCall ==
    /\ job.pc = "close" /\ active # 0
    /\ \E n \in Unsettled(active) :
         /\ \A m \in Unsettled(active) : n <= m
         /\ events' = Append(events, [Event("result", active, events[n].id, NoSource)
                                        EXCEPT !.by = events[n].by])
    /\ Goto("close")
    /\ UNCHANGED <<active, snaps>> /\ InHook

\* Mutant of Settled: the stop does not wait for the calls to be closed.
SettledAlways(turn) == TRUE

Settled(turn) == Unsettled(turn) = {}

AppendAssistant ==
    /\ job.pc = "close" /\ active # 0 /\ Settled(active)
    /\ Writes(Event("assistant", active, NoTool, Source(job.hook, job.bytes)))
    /\ Goto("finish")

FinishTurn == job.pc = "finish" /\ Finish("done")

\* A stop without an active turn records nothing.
StopIgnored ==
    /\ job.pc = "close" /\ active = 0
    /\ Done
    /\ UNCHANGED <<events, active, snaps>> /\ InHook

\* The process is killed, times out or one of its writes fails.
Kill ==
    /\ job.pc # "idle"
    /\ Cardinality(killed) < MaxKills
    /\ killed' = killed \cup {job.hook}
    /\ Done
    /\ UNCHANGED <<setting, events, active, snaps, work, agent, fresh, retries>>

-----------------------------------------------------------------------------
HookStep ==
    \/ Check \/ EndOpenTurn \/ StartForPrompt \/ ReuseTurn \/ AppendPrompt
    \/ EnsureTurn \/ TakeSnapshot \/ RecordCall \/ AddCall \/ RecordResult
    \/ CloseCall \/ AppendAssistant \/ FinishTurn \/ StopIgnored

Next ==
    \/ Prompt \/ Stop \/ \E i \in Tools : CallTool(i) \/ RunTool(i)
    \/ \E h \in sent, bytes \in {0, 1} : Deliver(h, bytes)
    \/ HookStep \/ Kill

Spec == Init /\ [][Next]_vars

-----------------------------------------------------------------------------
(* Properties                                                              *)

Positions(turn, type, id) ==
    {n \in DOMAIN events : events[n].turn = turn /\ events[n].type = type /\ events[n].id = id}

\* Within a turn a tool use has at most one call and at most one result, and no
\* result comes before every call of its tool use; and the hooks of a built-in
\* adapter leave no second result anywhere in the session, also when they come
\* again with other bytes or after the turn was closed
\* (captureAndAppendToolResult, sessionHasToolEvent).
ToolsPaired ==
    /\ \A n \in DOMAIN events : events[n].type \in ToolHooks =>
        LET e == events[n]
        IN  /\ Positions(e.turn, e.type, e.id) = {n}
            /\ e.type = "result" => \E m \in 1 .. n : events[m].type = "call" /\ events[m].id = e.id
    /\ setting.style = "builtin" => \A m, n \in DOMAIN events :
        events[m].type = "result" /\ events[n].type = "result" /\ events[m].id = events[n].id
            => m = n

\* A prompt is recorded once and a turn has one prompt at most, however often
\* and late its hook is delivered; and a prompt whose hook was not cut short is
\* recorded, or one its payload cannot be told from (processHook, startPromptTurn).
PromptsKept ==
    /\ \A m, n \in DOMAIN events : events[m].type = "prompt" /\ events[n].type = "prompt" /\ m # n
        => events[m].turn # events[n].turn /\ events[m].src # events[n].src
    /\ job.pc = "idle" =>
        \A h \in sent \ (fresh \cup killed) : h.kind = "prompt" => Seen(Source(h, 0))

\* When the agent's last message is recorded every call of the turn has its
\* result, a real one or one of unknown outcome (closeUnmatchedToolCalls); in
\* the stream of a built-in adapter the result comes after the call.  The call
\* hook of an external one may come again after the result.  A call that ran
\* `turnal intent` may stay without a result for ever.
StopSettles ==
    \A n \in DOMAIN events : events[n].type = "assistant" =>
        \A m \in 1 .. n :
            events[m].type = "call" /\ events[m].turn = events[n].turn /\ events[m].id \notin Intents
            => \E k \in 1 .. n : /\ events[k].type = "result" /\ events[k].turn = events[n].turn
                                 /\ events[k].id = events[m].id
                                 /\ setting.style = "builtin" => m < k

\* The snapshot recorded with a call shows the workspace before the tool ran,
\* when its hook took one in that turn by then, however often it was delivered
\* or cut short afterwards (captureActionSnapshotLocked).
CallsSeeBefore ==
    \A n \in DOMAIN events :
        LET e == events[n]
        IN  e.type = "call" /\ e.snap # 0 /\ <<e.turn, e.id, "call">> \in tools[e.id].pre
                => e.snap <= tools[e.id].from

\* A call is paired with its result and tells of the workspace as it was before the tool.
CallsTrue == ToolsPaired /\ CallsSeeBefore
=============================================================================
