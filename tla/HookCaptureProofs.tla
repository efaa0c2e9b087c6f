-------------------------- MODULE HookCaptureProofs --------------------------
(* What is proved of HookCapture for all values of its constants: the stream *)
(* of a session tells of every prompt once, pairs calls with results, and    *)
(* shows the workspace as it was before a tool ran, whatever the order in    *)
(* which hooks get the lock, come again or are killed.                       *)
EXTENDS HookCapture, FiniteSetTheorems, WellFoundedInduction, TLAPS

HookKinds == {"prompt", "stop", "call", "result"}
Ids == Tools \cup {NoTool}
HookType == [kind: HookKinds, turn: Nat, id: Ids]
Types == {"session.start", "turn.start", "turn.finish", "prompt", "assistant", "call", "result"}
Labels == {"idle", "check", "prompt", "text", "tool", "snapshot", "record", "result",
           "close", "finish"}

\* What a hook is recognised by: its kind, the name of its turn, its tool or text, and
\* which bytes; and the source of a call that a result brought along.
HookSources == HookKinds \X Nat \X (Ids \cup Nat) \X {0, 1}
Sources == {NoSource} \cup HookSources \cup ({"call of"} \X HookSources)

EventType == [type: Types, turn: Nat, id: Ids, src: Sources, by: Nat, snap: Nat]

Job == [pc: Labels, hook: HookType \cup {Idle.hook}, bytes: {0, 1},
        turn: Nat, id: Ids, snap: Nat]

Tool == [at: {"new", "called", "ran"}, turn: Nat, from: Nat, pre: SUBSET DOMAIN snaps]

Starts == Cardinality({n \in DOMAIN events : events[n].type = "turn.start"})

-----------------------------------------------------------------------------
(* The inductive invariant                                                  *)

TypeInv ==
    /\ setting \in Setting
    /\ events \in Seq(EventType)
    /\ active \in Nat /\ work \in Nat \ {0} /\ asked \in Nat
    /\ \A key \in DOMAIN snaps : snaps[key] \in Nat
    /\ tools \in [Tools -> Tool]
    /\ job \in Job
    /\ sent \subseteq HookType /\ fresh \subseteq sent

\* Each tool is used once, in one turn of the agent.
SentInv ==
    \A h \in sent : h.kind \in ToolHooks =>
        /\ h.id \in Tools /\ tools[h.id].at # "new" /\ h.turn = tools[h.id].turn

\* Turns are numbered in the order they start in, only the last one is active, and each
\* has a snapshot to begin with.
TurnInv ==
    /\ active \in {0, Starts}
    /\ active # 0 => \E n \in DOMAIN events :
        events[n].type = "turn.start" /\ events[n].turn = active /\ events[n].snap # 0
    /\ \A n \in DOMAIN events : events[n].turn <= Starts
    /\ \A m, n \in DOMAIN events :
        m < n /\ events[n].type # "session.start" => events[m].turn <= events[n].turn

\* Snapshots are of the present or the past, and those that were there before a tool ran
\* do not show what it did.
SnapInv ==
    /\ \A key \in DOMAIN snaps : snaps[key] <= work
    /\ \A i \in Tools : \A key \in tools[i].pre : snaps[key] <= tools[i].from
    /\ setting.style = "external" =>
        \A key \in DOMAIN snaps : ~(key[3] = "call" /\ key[2] \in Observed)

\* The snapshot of a call is the one of its ref, or the tool had already run.
SnapKnown(turn, id, snap) ==
    \/ setting.style = "external" /\ id \in Observed
    \/ /\ <<turn, id, "call">> \in DOMAIN snaps
       /\ snap = snaps[<<turn, id, "call">>]

TurnName(i) == IF setting.named THEN tools[i].turn ELSE 0

CalledBefore(n, id) == \E m \in 1 .. n : events[m].type = "call" /\ events[m].id = id

\* What each event about a tool tells.
EventInv(n) ==
    LET e == events[n] IN
    /\ e.type \in ToolHooks =>
        /\ e.id \in Tools /\ tools[e.id].at # "new"
        /\ setting.style = "builtin" => e.by = TurnName(e.id)
    /\ e.type = "call" /\ e.snap # 0 => SnapKnown(e.turn, e.id, e.snap)
    /\ e.type = "result" => CalledBefore(n, e.id)
    /\ e.type = "prompt" => e.id = NoTool
    /\ e.src # NoSource /\ e.src[1] = "call of" => e.type = "call" /\ e.id = e.src[2][3]

SameUse(d, e) == e.type = d.type /\ e.id = d.id /\ e.turn = d.turn

\* Events of one tool use: one of each kind in a turn, and with a built-in adapter one
\* result in the session, behind all its calls.
PairInv ==
    /\ \A m, n \in DOMAIN events :
        events[m].type \in ToolHooks /\ SameUse(events[m], events[n]) => m = n
    /\ setting.style = "builtin" => \A m, n \in DOMAIN events :
        events[n].type = "result" /\ events[n].id = events[m].id =>
            /\ events[m].type = "result" => m = n
            /\ events[m].type = "call" => m < n

PromptOnce ==
    \A m, n \in DOMAIN events : events[m].type = "prompt" /\ events[n].type = "prompt" /\ m # n
        => events[m].turn # events[n].turn /\ events[m].src # events[n].src

\* A prompt is in the stream, or its hook waits for the lock, has it, or was killed.
PromptHeard ==
    \A h \in sent \ (fresh \cup killed) : h.kind = "prompt" =>
        Seen(Source(h, 0)) \/ (job.pc # "idle" /\ job.hook = h)

\* What the hook that holds the lock is at, and what it has found out.
JobInv ==
    LET h == job.hook IN
    /\ job.pc # "idle" => h \in sent /\ (h.kind \notin ToolHooks => job.bytes = 0)
    /\ job.pc \in {"prompt", "text"} =>
        h.kind = "prompt" /\ ~Seen(Source(h, job.bytes))
    /\ job.pc \in {"close", "finish"} => h.kind = "stop"
    /\ job.pc \in {"tool", "snapshot", "record", "result"} => h.kind \in ToolHooks
    /\ job.pc \in {"check", "tool"} => job.snap = 0
    /\ job.pc = "finish" => active # 0
    /\ job.pc \in {"text", "snapshot", "record", "result"} => job.turn = active /\ active # 0
    /\ job.pc = "text" => ~HasPrompt(job.turn)
    /\ job.pc \in {"snapshot", "record", "result"} =>
        /\ job.id \in Tools /\ tools[job.id].at # "new"
        /\ job.id = h.id \/ (/\ setting.style = "external" /\ h.kind = "result"
                             /\ TurnHas(job.turn, "call", job.id))
        /\ setting.style = "builtin" =>
            \A n \in DOMAIN events : events[n].type = h.kind => events[n].id # h.id
    /\ job.pc = "record" /\ h.kind = "call" /\ job.snap # 0 =>
        SnapKnown(job.turn, job.id, job.snap)
    /\ job.pc = "result" => h.kind = "result" /\ CalledBefore(Len(events), job.id)

StreamInv == \A n \in DOMAIN events : EventInv(n)

IInv == TypeInv /\ SentInv /\ TurnInv /\ SnapInv /\ StreamInv /\ PairInv
        /\ PromptOnce /\ PromptHeard /\ StopSettles /\ JobInv

-----------------------------------------------------------------------------
(* Sources, and what an appended event changes                              *)

LEMMA SourceType ==
    ASSUME TypeInv, NEW h \in HookType, NEW b \in {0, 1}
    PROVE  /\ Source(h, b) \in HookSources
           /\ Source(h, b)[1] = h.kind
           /\ h.kind \in ToolHooks => Source(h, b)[3] = h.id
<1>1. Named(h) \in Nat
  BY DEF Named, HookType
<1>2. Content(h) \in Ids \cup Nat
  BY DEF Content, HookType
<1>3. (IF setting.style = "external" THEN 0 ELSE b) \in {0, 1}
  OBVIOUS
<1>4. h.kind \in HookKinds
  BY DEF HookType
<1>5. h.kind \in ToolHooks => Content(h) = h.id
  BY DEF Content
<1> QED
  BY <1>1, <1>2, <1>3, <1>4, <1>5 DEF Source, HookSources

LEMMA SourceForms ==
    ASSUME NEW src \in HookSources
    PROVE  src # NoSource /\ src[1] # "call of" /\ src \in Sources
           /\ <<"call of", src>> \in Sources /\ <<"call of", src>> # NoSource
           /\ <<"call of", src>>[1] = "call of" /\ <<"call of", src>>[2] = src
<1>1. PICK k \in HookKinds, t \in Nat, c \in Ids \cup Nat, b \in {0, 1} : src = <<k, t, c, b>>
  BY DEF HookSources
<1>2. src # NoSource
  BY <1>1 DEF NoSource
<1>3. src[1] # "call of"
  BY <1>1 DEF HookKinds
<1>4. <<"call of", src>> \in {"call of"} \X HookSources
  OBVIOUS
<1>5. <<"call of", src>> # NoSource
  BY DEF NoSource
<1> QED
  BY <1>2, <1>3, <1>4, <1>5 DEF Sources

LEMMA AppendFacts ==
    ASSUME TypeInv, NEW e \in EventType, events' = Append(events, e)
    PROVE  /\ events' \in Seq(EventType)
           /\ Len(events') = Len(events) + 1 /\ Len(events) \in Nat
           /\ DOMAIN events = 1 .. Len(events) /\ DOMAIN events' = 1 .. Len(events) + 1
           /\ \A n \in DOMAIN events : n \in DOMAIN events' /\ events'[n] = events[n]
           /\ \A n \in DOMAIN events' : n \in DOMAIN events \/ n = Len(events) + 1
           /\ events'[Len(events) + 1] = e /\ Len(events) + 1 \in DOMAIN events'
           /\ \A n \in DOMAIN events : events[n] \in EventType
           /\ \A n \in DOMAIN events : n < Len(events) + 1 /\ n \in Nat
  BY DEF TypeInv

LEMMA StartsCounted ==
    ASSUME TypeInv
    PROVE  Starts \in Nat /\ NextTurn = Starts + 1
<1>1. IsFiniteSet(1 .. Len(events)) /\ DOMAIN events = 1 .. Len(events)
  BY FS_Interval DEF TypeInv
<1>2. IsFiniteSet({n \in DOMAIN events : events[n].type = "turn.start"})
  BY <1>1, FS_Subset
<1> QED
  BY <1>2, FS_CardinalityType DEF Starts, NextTurn

LEMMA StartsGrows ==
    ASSUME TypeInv, NEW e \in EventType, events' = Append(events, e)
    PROVE  Starts' = IF e.type = "turn.start" THEN Starts + 1 ELSE Starts
<1> DEFINE S == {n \in DOMAIN events : events[n].type = "turn.start"}
           T == {n \in DOMAIN events' : events'[n].type = "turn.start"}
<1>1. IsFiniteSet(1 .. Len(events)) /\ DOMAIN events = 1 .. Len(events)
  BY FS_Interval DEF TypeInv
<1>2. IsFiniteSet(S)
  BY <1>1, FS_Subset
<1>3. Len(events) + 1 \notin S
  BY AppendFacts
<1>4. T = IF e.type = "turn.start" THEN S \cup {Len(events) + 1} ELSE S
  BY AppendFacts
<1>5. Cardinality(S \cup {Len(events) + 1}) = Cardinality(S) + 1
  BY <1>2, <1>3, FS_AddElement
<1> QED
  BY <1>4, <1>5 DEF Starts

-----------------------------------------------------------------------------
(* Events that may be added                                                 *)

\* A new event is of the turn that is active, starts the next turn, or the session.
OfTurn(e) ==
    \/ e.type = "turn.start" /\ e.turn = Starts + 1 /\ e.snap # 0
    \/ e.type = "session.start" /\ e.turn = 0
    \/ e.type \notin {"turn.start", "session.start"} /\ e.turn = active /\ active # 0

Toolwise(e) ==
    /\ e.type \in ToolHooks =>
        /\ e.id \in Tools /\ tools[e.id].at # "new"
        /\ setting.style = "builtin" => e.by = TurnName(e.id)
        /\ ~TurnHas(e.turn, e.type, e.id)
        /\ setting.style = "builtin" =>
            \A n \in DOMAIN events : events[n].type = "result" => events[n].id # e.id
    /\ e.type = "call" /\ e.snap # 0 => SnapKnown(e.turn, e.id, e.snap)
    /\ e.type = "result" => CalledBefore(Len(events), e.id)
    /\ e.src # NoSource /\ e.src[1] = "call of" => e.type = "call" /\ e.id = e.src[2][3]

Textwise(e) ==
    /\ e.type = "prompt" => e.id = NoTool /\ ~HasPrompt(e.turn) /\ ~Seen(e.src)
    /\ e.type = "assistant" => Settled(e.turn)

Admissible(e) == e \in EventType /\ OfTurn(e) /\ Toolwise(e) /\ Textwise(e)

\* A turn is active from its start to its finish.
ActiveAfter(e) == active' = IF e.type = "turn.start" THEN e.turn
                            ELSE IF e.type = "turn.finish" THEN 0 ELSE active

\* A step records nothing, or one such event.
Records ==
    \/ UNCHANGED <<events, active>>
    \/ \E e \in EventType : Admissible(e) /\ events' = Append(events, e) /\ ActiveAfter(e)

\* What happens beside the stream: snapshots are added, tools go on.
SnapsStay == \A key \in DOMAIN snaps : key \in DOMAIN snaps' /\ snaps'[key] = snaps[key]
ToolsStay == \A i \in Tools : tools[i].at # "new" =>
                tools'[i].at # "new" /\ tools'[i].turn = tools[i].turn

LEMMA TurnsAdded ==
    ASSUME TypeInv, TurnInv, NEW e \in EventType, OfTurn(e), events' = Append(events, e),
           ActiveAfter(e)
    PROVE  TurnInv'
<1> USE AppendFacts, StartsCounted, StartsGrows
<1>1. active' \in {0, Starts'}
  BY DEF TurnInv, OfTurn, ActiveAfter
<1>2. active' # 0 => \E n \in DOMAIN events' :
        events'[n].type = "turn.start" /\ events'[n].turn = active' /\ events'[n].snap # 0
  <2>1. CASE e.type = "turn.start"
    BY <2>1 DEF ActiveAfter, OfTurn
  <2>2. CASE e.type # "turn.start"
    BY <2>2 DEF ActiveAfter, TurnInv
  <2> QED
    BY <2>1, <2>2
<1>3. Starts <= Starts' /\ e.turn <= Starts'
  BY DEF TurnInv, OfTurn
<1>4. \A n \in DOMAIN events' : events'[n].turn <= Starts'
  <2> SUFFICES ASSUME NEW n \in DOMAIN events' PROVE events'[n].turn <= Starts'
    OBVIOUS
  <2>1. CASE n \in DOMAIN events
    <3>1. events[n].turn <= Starts /\ Starts' \in Nat
      BY <2>1 DEF TurnInv
    <3>2. events[n].turn \in Nat
      BY <2>1 DEF EventType
    <3> QED
      BY <2>1, <3>1, <3>2, <1>3
  <2>2. CASE n = Len(events) + 1
    BY <2>2, <1>3
  <2> QED
    BY <2>1, <2>2
<1>5. ASSUME NEW m \in DOMAIN events', NEW n \in DOMAIN events', m < n,
             events'[n].type # "session.start"
      PROVE  events'[m].turn <= events'[n].turn
  <2>1. m \in DOMAIN events
    BY <1>5
  <2>2. CASE n \in DOMAIN events
    BY <1>5, <2>1, <2>2 DEF TurnInv
  <2>3. CASE n = Len(events) + 1
    <3>1. events[m].turn <= Starts /\ events[m].turn \in Nat /\ e.turn >= Starts
      BY <1>5, <2>1, <2>3 DEF TurnInv, OfTurn, EventType
    <3> QED
      BY <2>1, <2>3, <3>1 DEF EventType
  <2> QED
    BY <2>2, <2>3
<1> QED
  BY <1>1, <1>2, <1>4, <1>5 DEF TurnInv

LEMMA StreamAdded ==
    ASSUME TypeInv, StreamInv, NEW e \in EventType, Toolwise(e), Textwise(e),
           events' = Append(events, e), setting' = setting, SnapsStay, ToolsStay
    PROVE  StreamInv'
<1> USE AppendFacts
<1> SUFFICES ASSUME NEW n \in DOMAIN events' PROVE EventInv(n)'
  BY DEF StreamInv
<1>1. CASE n \in DOMAIN events
  <2>1. EventInv(n) /\ events'[n] = events[n]
    BY <1>1 DEF StreamInv
  <2>2. events'[n].type = "result" => \E m \in 1 .. n : events'[m].type = "call" /\ events'[m].id = events'[n].id
    <3>1. SUFFICES ASSUME events[n].type = "result"
                   PROVE  \E m \in 1 .. n : events'[m].type = "call" /\ events'[m].id = events[n].id
      BY <2>1
    <3>2. PICK m \in 1 .. n : events[m].type = "call" /\ events[m].id = events[n].id
      BY <2>1, <3>1 DEF EventInv, CalledBefore
    <3>3. m \in DOMAIN events
      BY <1>1
    <3> QED
      BY <3>2, <3>3
  <2>3. events[n].type = "call" /\ events[n].snap # 0 =>
          SnapKnown(events[n].turn, events[n].id, events[n].snap)'
    BY <2>1 DEF EventInv, SnapKnown, SnapsStay
  <2>4. events[n].type \in ToolHooks =>
          /\ events[n].id \in Tools /\ tools'[events[n].id].at # "new"
          /\ setting.style = "builtin" => events[n].by = TurnName(events[n].id)'
    BY <2>1 DEF EventInv, TurnName, ToolsStay
  <2> QED
    BY <2>1, <2>2, <2>3, <2>4 DEF EventInv, CalledBefore
<1>2. CASE n = Len(events) + 1
  <2>1. events'[n] = e
    BY <1>2
  <2>2. e.type = "result" => CalledBefore(n, e.id)'
    BY <1>2 DEF Toolwise, CalledBefore
  <2>3. e.type = "call" /\ e.snap # 0 => SnapKnown(e.turn, e.id, e.snap)'
    BY DEF Toolwise, SnapKnown, SnapsStay
  <2>4. e.type \in ToolHooks =>
          /\ e.id \in Tools /\ tools'[e.id].at # "new"
          /\ setting.style = "builtin" => e.by = TurnName(e.id)'
    BY DEF Toolwise, TurnName, ToolsStay
  <2> QED
    BY <2>1, <2>2, <2>3, <2>4 DEF EventInv, Toolwise, Textwise
<1> QED
  BY <1>1, <1>2

LEMMA PairsAdded ==
    ASSUME TypeInv, PairInv, NEW e \in EventType, Toolwise(e),
           events' = Append(events, e), setting' = setting
    PROVE  PairInv'
<1> USE AppendFacts
<1>1. ASSUME NEW m \in DOMAIN events', NEW n \in DOMAIN events',
             events'[m].type \in ToolHooks, SameUse(events'[m], events'[n])
      PROVE  m = n
  <2>1. CASE m \in DOMAIN events /\ n \in DOMAIN events
    BY <1>1, <2>1 DEF PairInv
  <2>2. CASE m \in DOMAIN events /\ n = Len(events) + 1
    BY <1>1, <2>2 DEF Toolwise, TurnHas, SameUse
  <2>3. CASE m = Len(events) + 1 /\ n \in DOMAIN events
    BY <1>1, <2>3 DEF Toolwise, TurnHas, SameUse
  <2> QED
    BY <2>1, <2>2, <2>3
<1>2. ASSUME setting.style = "builtin", NEW m \in DOMAIN events', NEW n \in DOMAIN events',
             events'[n].type = "result", events'[n].id = events'[m].id
      PROVE  /\ events'[m].type = "result" => m = n
             /\ events'[m].type = "call" => m < n
  <2>1. CASE m \in DOMAIN events /\ n \in DOMAIN events
    BY <1>2, <2>1 DEF PairInv
  <2>2. CASE m \in DOMAIN events /\ n = Len(events) + 1
    BY <1>2, <2>2 DEF Toolwise, ToolHooks
  <2>3. CASE m = Len(events) + 1 /\ n \in DOMAIN events
    BY <1>2, <2>3 DEF Toolwise, ToolHooks
  <2>4. CASE m = Len(events) + 1 /\ n = Len(events) + 1
    BY <1>2, <2>4
  <2> QED
    BY <2>1, <2>2, <2>3, <2>4
<1> QED
  BY <1>1, <1>2 DEF PairInv

LEMMA PromptsAdded ==
    ASSUME TypeInv, StreamInv, PromptOnce, NEW e \in EventType, Textwise(e),
           events' = Append(events, e)
    PROVE  PromptOnce'
<1> USE AppendFacts
<1>1. ASSUME NEW m \in DOMAIN events, events[m].type = "prompt", e.type = "prompt"
      PROVE  events[m].turn # e.turn /\ events[m].src # e.src
  BY <1>1 DEF StreamInv, EventInv, Textwise, HasPrompt, TurnHas, Seen
<1>2. ASSUME NEW m \in DOMAIN events', NEW n \in DOMAIN events',
             events'[m].type = "prompt", events'[n].type = "prompt", m # n
      PROVE  events'[m].turn # events'[n].turn /\ events'[m].src # events'[n].src
  <2>1. CASE m \in DOMAIN events /\ n \in DOMAIN events
    BY <1>2, <2>1 DEF PromptOnce
  <2>2. CASE m \in DOMAIN events /\ n = Len(events) + 1
    BY <1>1, <1>2, <2>2
  <2>3. CASE m = Len(events) + 1 /\ n \in DOMAIN events
    BY <1>1, <1>2, <2>3
  <2> QED
    BY <1>2, <2>1, <2>2, <2>3
<1> QED
  BY <1>2 DEF PromptOnce

LEMMA StopAdded ==
    ASSUME TypeInv, PairInv, StopSettles, NEW e \in EventType, Textwise(e),
           events' = Append(events, e), setting' = setting
    PROVE  StopSettles'
<1> USE AppendFacts
<1> SUFFICES ASSUME NEW n \in DOMAIN events', events'[n].type = "assistant",
                    NEW m \in 1 .. n, events'[m].type = "call", events'[m].turn = events'[n].turn,
                    events'[m].id \notin Intents
             PROVE  \E k \in 1 .. n : /\ events'[k].type = "result"
                                      /\ events'[k].turn = events'[n].turn
                                      /\ events'[k].id = events'[m].id
                                      /\ setting.style = "builtin" => m < k
  BY DEF StopSettles
<1>1. CASE n \in DOMAIN events
  <2>1. \A k \in 1 .. n : k \in DOMAIN events
    BY <1>1
  <2>2. /\ events[n].type = "assistant" /\ events[m].type = "call"
        /\ events[m].turn = events[n].turn /\ events[m].id \notin Intents
    BY <1>1, <2>1
  <2>3. PICK k \in 1 .. n : /\ events[k].type = "result" /\ events[k].turn = events[n].turn
                            /\ events[k].id = events[m].id
                            /\ setting.style = "builtin" => m < k
    BY <1>1, <2>2 DEF StopSettles
  <2> QED
    BY <1>1, <2>1, <2>3
<1>2. CASE n = Len(events) + 1
  <2>1. e.type = "assistant" /\ Settled(e.turn) /\ events'[n] = e
    BY <1>2 DEF Textwise
  <2>2. /\ m \in DOMAIN events /\ events[m].type = "call" /\ events[m].turn = e.turn
        /\ events[m].id \notin Intents
    BY <1>2, <2>1
  <2>3. TurnHas(e.turn, "result", events[m].id)
    BY <2>1, <2>2 DEF Settled, Unsettled, Unmatched
  <2>4. PICK k \in DOMAIN events : /\ events[k].turn = e.turn /\ events[k].type = "result"
                                   /\ events[k].id = events[m].id
    BY <2>3 DEF TurnHas
  <2>5. setting.style = "builtin" => m < k
    BY <2>2, <2>4 DEF PairInv
  <2>6. k \in 1 .. n /\ events'[k] = events[k] /\ events'[m] = events[m]
    BY <1>2, <2>2, <2>4
  <2> QED
    BY <2>1, <2>4, <2>5, <2>6
<1> QED
  BY <1>1, <1>2

LEMMA StreamKept ==
    ASSUME TypeInv, TurnInv, StreamInv, PairInv, PromptOnce, StopSettles,
           Records, setting' = setting, SnapsStay, ToolsStay
    PROVE  TurnInv' /\ StreamInv' /\ PairInv' /\ PromptOnce' /\ StopSettles'
<1>1. CASE UNCHANGED <<events, active>>
  <2>1. TurnInv'
    BY <1>1 DEF TurnInv, Starts
  <2>2. StreamInv'
    <3> SUFFICES ASSUME NEW n \in DOMAIN events PROVE EventInv(n)'
      BY <1>1 DEF StreamInv
    <3>1. EventInv(n)
      BY DEF StreamInv
    <3>2. events[n].type = "call" /\ events[n].snap # 0 =>
            SnapKnown(events[n].turn, events[n].id, events[n].snap)'
      BY <1>1, <3>1 DEF EventInv, SnapKnown, SnapsStay
    <3>3. events[n].type \in ToolHooks =>
            /\ events[n].id \in Tools /\ tools'[events[n].id].at # "new"
            /\ setting.style = "builtin" => events[n].by = TurnName(events[n].id)'
      BY <1>1, <3>1 DEF EventInv, TurnName, ToolsStay
    <3> QED
      BY <1>1, <3>1, <3>2, <3>3 DEF EventInv, CalledBefore
  <2>3. PairInv' /\ PromptOnce' /\ StopSettles'
    BY <1>1 DEF PairInv, PromptOnce, StopSettles
  <2> QED
    BY <2>1, <2>2, <2>3
<1>2. ASSUME NEW e \in EventType, Admissible(e), events' = Append(events, e), ActiveAfter(e)
      PROVE  TurnInv' /\ StreamInv' /\ PairInv' /\ PromptOnce' /\ StopSettles'
  <2>1. OfTurn(e) /\ Toolwise(e) /\ Textwise(e)
    BY <1>2 DEF Admissible
  <2> QED
    BY <1>2, <2>1, TurnsAdded, StreamAdded, PairsAdded, PromptsAdded, StopAdded
<1> QED
  BY <1>1, <1>2 DEF Records

\* What was in the stream stays there.
LEMMA EventsStay ==
    ASSUME TypeInv, Records
    PROVE  /\ \A n \in DOMAIN events : n \in DOMAIN events' /\ events'[n] = events[n]
           /\ Len(events) \in Nat /\ Len(events') \in Nat /\ Len(events) <= Len(events')
           /\ events' \in Seq(EventType) /\ DOMAIN events = 1 .. Len(events)
<1>1. CASE UNCHANGED <<events, active>>
  BY <1>1 DEF TypeInv
<1>2. ASSUME NEW e \in EventType, events' = Append(events, e)
      PROVE  /\ \A n \in DOMAIN events : n \in DOMAIN events' /\ events'[n] = events[n]
             /\ Len(events) \in Nat /\ Len(events') \in Nat /\ Len(events) <= Len(events')
             /\ events' \in Seq(EventType) /\ DOMAIN events = 1 .. Len(events)
  BY <1>2, AppendFacts
<1> QED
  BY <1>1, <1>2 DEF Records

LEMMA CalledStays ==
    ASSUME TypeInv, Records, NEW id, CalledBefore(Len(events), id)
    PROVE  CalledBefore(Len(events), id)'
<1>1. PICK m \in 1 .. Len(events) : events[m].type = "call" /\ events[m].id = id
  BY DEF CalledBefore
<1>2. m \in 1 .. Len(events') /\ events'[m] = events[m]
  BY EventsStay
<1> QED
  BY <1>1, <1>2 DEF CalledBefore

LEMMA SeenStays ==
    ASSUME TypeInv, Records, NEW src, Seen(src)
    PROVE  Seen(src)'
  BY EventsStay DEF Seen

LEMMA HasStays ==
    ASSUME TypeInv, Records, NEW turn, NEW type, NEW id, TurnHas(turn, type, id)
    PROVE  TurnHas(turn, type, id)'
  BY EventsStay DEF TurnHas

-----------------------------------------------------------------------------
(* What the steps of a hook have in common                                  *)

LEMMA IdleJob ==
    ASSUME job' = Idle
    PROVE  job' \in Job /\ JobInv'
<1>1. Idle \in Job
  BY DEF Idle, Job, Labels, Ids
<1>2. job'.pc = "idle"
  BY DEF Idle
<1> QED
  BY <1>1, <1>2 DEF JobInv

LEMMA HookTypes ==
    ASSUME TypeInv, SentInv, TurnInv, SnapInv, Records, InHook, UNCHANGED snaps, job' \in Job
    PROVE  TypeInv' /\ SentInv' /\ SnapInv' /\ setting' = setting /\ SnapsStay /\ ToolsStay
<1>1. setting' = setting /\ SnapsStay /\ ToolsStay
  BY DEF InHook, SnapsStay, ToolsStay, agent
<1>2. SentInv' /\ SnapInv'
  BY DEF SentInv, SnapInv, InHook, agent
<1>3. active' \in Nat
  <2>1. CASE UNCHANGED <<events, active>>
    BY <2>1 DEF TypeInv
  <2>2. ASSUME NEW e \in EventType, ActiveAfter(e) PROVE active' \in Nat
    BY <2>2 DEF TypeInv, ActiveAfter, EventType
  <2> QED
    BY <2>1, <2>2 DEF Records
<1>4. events' \in Seq(EventType)
  BY EventsStay
<1>5. tools' \in [Tools -> Tool'] /\ Tool' = Tool
  BY DEF TypeInv, Tool, InHook, agent
<1> QED
  BY <1>1, <1>2, <1>3, <1>4, <1>5 DEF TypeInv, InHook, agent, faults

\* The stream has an event of this source after the step.
Heard(src) == \E n \in DOMAIN events' : events'[n].src = src

\* The turn has no prompt after the step.
Unprompted(turn) == \A n \in DOMAIN events' : events'[n].type = "prompt" => events'[n].turn # turn

LEMMA OtherSource ==
    ASSUME TypeInv, NEW e \in EventType, events' = Append(events, e), NEW src,
           e.src # src, Heard(src)
    PROVE  Seen(src)
  BY AppendFacts DEF Heard, Seen

\* A hook that goes on has its prompt still to hear; one that is done has left it.
LEMMA HeardStays ==
    ASSUME TypeInv, PromptHeard, Records, InHook,
           \/ job'.pc # "idle" /\ job'.hook = job.hook
           \/ job.hook.kind = "prompt" => Heard(Source(job.hook, 0))
    PROVE  PromptHeard'
<1> SUFFICES ASSUME NEW h \in sent \ (fresh \cup killed), h.kind = "prompt"
             PROVE  Seen(Source(h, 0))' \/ (job'.pc # "idle" /\ job'.hook = h)
  BY DEF PromptHeard, InHook, agent, faults
<1>1. Source(h, 0)' = Source(h, 0)
  BY DEF Source, Named, Content, InHook
<1>2. Seen(Source(h, 0)) => Heard(Source(h, 0))
  BY EventsStay DEF Seen, Heard
<1>3. Heard(Source(h, 0)) => Seen(Source(h, 0))'
  BY <1>1 DEF Seen, Heard
<1>4. Seen(Source(h, 0)) \/ (job.pc # "idle" /\ job.hook = h)
  BY DEF PromptHeard
<1> QED
  BY <1>2, <1>3, <1>4

\* Of each step of a hook: it keeps the types, records what may be recorded, and the hook
\* knows afterwards what it relies on.
Steps == TypeInv' /\ SentInv' /\ SnapInv' /\ PromptHeard' /\ JobInv'
         /\ Records /\ setting' = setting /\ SnapsStay /\ ToolsStay

LEMMA SourceStays ==
    ASSUME setting' = setting, NEW h, NEW b
    PROVE  Source(h, b)' = Source(h, b)
  BY DEF Source, Named, Content

LEMMA SentHooks ==
    ASSUME TypeInv, JobInv, job.pc # "idle"
    PROVE  /\ job.hook \in sent /\ job.hook \in HookType /\ job.bytes \in {0, 1}
           /\ job.hook.kind \in HookKinds /\ job.hook.id \in Ids /\ job.hook.turn \in Nat
  BY DEF TypeInv, JobInv, Job, HookType

LEMMA EventTyped ==
    ASSUME NEW type \in Types, NEW turn \in Nat, NEW id \in Ids, NEW src \in Sources,
           NEW snap \in Nat, NEW by \in Nat
    PROVE  /\ Event(type, turn, id, src) \in EventType
           /\ [Event(type, turn, id, src) EXCEPT !.snap = snap] \in EventType
           /\ [Event(type, turn, id, src) EXCEPT !.by = by] \in EventType
           /\ [[Event(type, turn, id, src) EXCEPT !.snap = snap] EXCEPT !.by = by] \in EventType
  BY DEF Event, EventType

LEMMA NoSourceTyped == NoSource \in Sources
  BY DEF Sources

LEMMA StepDone ==
    ASSUME IInv, InHook, UNCHANGED snaps, Records, job' = Idle,
           job.hook.kind = "prompt" => Heard(Source(job.hook, 0))
    PROVE  Steps
<1> USE DEF IInv
<1>1. job' \in Job /\ JobInv'
  BY IdleJob
<1>2. PromptHeard'
  BY HeardStays
<1> QED
  BY <1>1, <1>2, HookTypes DEF Steps

LEMMA StepOn ==
    ASSUME IInv, InHook, UNCHANGED snaps, Records, job' \in Job, job'.pc # "idle",
           job'.hook = job.hook, JobInv'
    PROVE  Steps
<1> USE DEF IInv
<1>1. PromptHeard'
  BY HeardStays
<1> QED
  BY <1>1, HookTypes DEF Steps

LEMMA JobOn ==
    ASSUME TypeInv, NEW label \in Labels, Goto(label)
    PROVE  /\ job' \in Job /\ job'.pc = label /\ job'.hook = job.hook /\ job'.bytes = job.bytes
           /\ job'.turn = job.turn /\ job'.id = job.id /\ job'.snap = job.snap
  BY DEF TypeInv, Job, Goto

-----------------------------------------------------------------------------
(* The steps of a hook                                                      *)

LEMMA StepCheck ==
    ASSUME IInv, Check
    PROVE  Steps
<1> USE DEF IInv
<1> DEFINE next == CASE job.hook.kind = "prompt" -> "prompt"
                     [] job.hook.kind = "stop" -> "close"
                     [] OTHER -> "tool"
           e == Event("session.start", 0, NoTool, NoSource)
<1>0. job.pc = "check" /\ InHook /\ UNCHANGED <<active, snaps>>
  BY DEF Check
<1>1. job.hook \in sent /\ job.hook \in HookType /\ job.bytes \in {0, 1}
      /\ job.hook.kind \in HookKinds
  BY <1>0, SentHooks
<1>2. Records
  <2>1. CASE UNCHANGED events
    BY <1>0, <2>1 DEF Records
  <2>2. CASE events' = Append(events, e)
    <3>1. e \in EventType
      BY EventTyped, NoSourceTyped DEF Types, Ids
    <3>2. Admissible(e)
      BY <3>1 DEF Admissible, OfTurn, Toolwise, Textwise, Event, ToolHooks
    <3>3. ActiveAfter(e)
      BY <1>0 DEF ActiveAfter, Event
    <3> QED
      BY <2>2, <3>1, <3>2, <3>3 DEF Records
  <2> QED
    BY <2>1, <2>2 DEF Check
<1>3. CASE Seen(Source(job.hook, job.bytes))
  <2>1. job' = Idle
    BY <1>3 DEF Check, Done
  <2>2. job.hook.kind = "prompt" => job.bytes = 0
    BY <1>0 DEF JobInv, ToolHooks
  <2>3. Heard(Source(job.hook, job.bytes))
    BY <1>2, <1>3, EventsStay DEF Heard, Seen
  <2> QED
    BY <1>0, <1>2, <2>1, <2>2, <2>3, StepDone
<1>4. CASE ~Seen(Source(job.hook, job.bytes))
  <2>1. Goto(next) /\ next \in {"prompt", "close", "tool"}
    BY <1>4 DEF Check
  <2>2. /\ job' \in Job /\ job'.pc = next /\ job'.hook = job.hook /\ job'.bytes = job.bytes
        /\ job'.snap = 0
    BY <1>0, <2>1, JobOn DEF Labels, JobInv
  <2>3. next = "prompt" => job.hook.kind = "prompt" /\ ~Heard(Source(job.hook, job.bytes))
    <3>1. SUFFICES ASSUME job.hook.kind = "prompt" PROVE ~Heard(Source(job.hook, job.bytes))
      OBVIOUS
    <3>2. e.src # Source(job.hook, job.bytes)
      BY <1>1, SourceType, SourceForms DEF Event
    <3>3. CASE UNCHANGED events
      BY <1>4, <3>3 DEF Heard, Seen
    <3>4. CASE events' = Append(events, e)
      <4>1. e \in EventType
        BY EventTyped, NoSourceTyped DEF Types, Ids
      <4> HIDE DEF e
      <4> QED
        BY <1>4, <3>2, <3>4, <4>1, AppendFacts DEF Heard, Seen
    <3> QED
      BY <1>4, <3>3, <3>4 DEF Check
  <2>4. /\ next = "close" => job.hook.kind = "stop"
        /\ next = "tool" => job.hook.kind \in ToolHooks
    BY <1>1 DEF HookKinds, ToolHooks
  <2>5. JobInv'
    <3>1. Source(job.hook, job.bytes)' = Source(job.hook, job.bytes)
      BY <1>0, <2>2 DEF Source, Named, Content, InHook
    <3>2. next = "prompt" => ~Seen(Source(job.hook, job.bytes))'
      BY <2>3, <3>1 DEF Heard, Seen
    <3>3. job'.hook \in sent' /\ (job'.hook.kind \notin ToolHooks => job'.bytes = 0)
      BY <1>0, <2>2 DEF JobInv, InHook, agent
    <3> HIDE DEF next
    <3> QED
      BY <2>1, <2>2, <2>3, <2>4, <3>2, <3>3 DEF JobInv
  <2> HIDE DEF next
  <2> QED
    BY <1>0, <1>2, <2>1, <2>2, <2>5, StepOn
<1> QED
  BY <1>3, <1>4

\* Finishing a turn adds its end.
LEMMA FinishRecords ==
    ASSUME IInv, NEW label, Finish(label), active # 0
    PROVE  Records /\ InHook /\ UNCHANGED snaps
           /\ \A src \in HookSources : Heard(src) => Seen(src)
<1> DEFINE e == Event("turn.finish", active, NoTool, NoSource)
<1> USE DEF IInv
<1>1. events' = Append(events, e) /\ active' = 0 /\ InHook /\ UNCHANGED snaps
  BY DEF Finish
<1>2. e \in EventType
  BY EventTyped, NoSourceTyped DEF Types, Ids, TypeInv
<1>3. Admissible(e) /\ ActiveAfter(e)
  BY <1>1, <1>2 DEF Admissible, OfTurn, Toolwise, Textwise, Event, ToolHooks, ActiveAfter
<1>4. \A src \in HookSources : e.src # src
  BY SourceForms DEF Event
<1> HIDE DEF e
<1>5. \A src \in HookSources : Heard(src) => Seen(src)
  BY <1>1, <1>2, <1>4, AppendFacts DEF Heard, Seen
<1> QED
  BY <1>1, <1>2, <1>3, <1>5 DEF Records

LEMMA StepEndOpenTurn ==
    ASSUME IInv, EndOpenTurn
    PROVE  Steps
<1> USE DEF IInv
<1>0. job.pc = "prompt" /\ Finish("prompt") /\ Goto("prompt") /\ active # 0
  BY DEF EndOpenTurn, Finish
<1>1. Records /\ InHook /\ UNCHANGED snaps
      /\ \A src \in HookSources : Heard(src) => Seen(src)
  BY <1>0, FinishRecords
<1>2. job' \in Job /\ job'.pc = "prompt" /\ job'.hook = job.hook /\ job'.bytes = job.bytes
  BY <1>0, JobOn DEF Labels
<1>3. job.hook \in HookType /\ job.bytes \in {0, 1}
  BY <1>0, SentHooks
<1>4. ~Heard(Source(job.hook, job.bytes))
  BY <1>0, <1>1, <1>3, SourceType DEF JobInv
<1>5. Source(job.hook, job.bytes)' = Source(job.hook, job.bytes)
  BY <1>1, <1>2 DEF Source, Named, Content, InHook
<1>6. ~Seen(Source(job.hook, job.bytes))'
  BY <1>4, <1>5 DEF Heard, Seen
<1>7. job'.hook \in sent' /\ (job'.hook.kind \notin ToolHooks => job'.bytes = 0)
  BY <1>0, <1>1, <1>2 DEF JobInv, InHook, agent
<1>8. JobInv'
  BY <1>0, <1>2, <1>6, <1>7 DEF JobInv
<1> QED
  BY <1>1, <1>2, <1>8, StepOn

LEMMA StepFinishTurn ==
    ASSUME IInv, FinishTurn
    PROVE  Steps
<1> USE DEF IInv
<1>1. job.pc = "finish" /\ Finish("done") /\ job' = Idle
  BY DEF FinishTurn, Finish, Done
<1>2. active # 0 /\ job.hook.kind = "stop"
  BY <1>1 DEF JobInv
<1> QED
  BY <1>1, <1>2, FinishRecords, StepDone

\* Starting a turn takes its first snapshot and adds its beginning.
LEMMA StartRecords ==
    ASSUME IInv, NEW label \in Labels, Start(label), active = 0, job.pc # "idle"
    PROVE  /\ Records /\ InHook /\ UNCHANGED snaps
           /\ \A src \in HookSources : Heard(src) => Seen(src)
           /\ job' \in Job /\ job'.pc = label /\ job'.hook = job.hook /\ job'.bytes = job.bytes
           /\ job'.id = job.hook.id /\ job'.snap = job.snap
           /\ job'.turn = active' /\ active' # 0 /\ Unprompted(active')
           /\ \A n \in DOMAIN events' : events'[n].type \in ToolHooks =>
                n \in DOMAIN events /\ events'[n] = events[n]
<1> DEFINE e == [Event("turn.start", NextTurn, NoTool, NoSource) EXCEPT !.snap = work]
<1> USE DEF IInv
<1>1. events' = Append(events, e) /\ active' = NextTurn /\ InHook /\ UNCHANGED snaps
  BY DEF Start
<1>2. NextTurn = Starts + 1 /\ Starts \in Nat
  BY StartsCounted
<1>a. e = [type |-> "turn.start", turn |-> NextTurn, id |-> NoTool, src |-> NoSource,
           by |-> 0, snap |-> work]
  BY DEF Event
<1> HIDE DEF e
<1>b. NextTurn \in Nat /\ work \in Nat /\ NoTool \in Ids /\ "turn.start" \in Types
  BY <1>2 DEF TypeInv, Ids, Types
<1>3. e \in EventType /\ e.type = "turn.start" /\ e.turn = NextTurn /\ e.snap = work /\ e.src = NoSource
  BY <1>a, <1>b, NoSourceTyped DEF EventType
<1>4. Admissible(e) /\ ActiveAfter(e)
  <2>1. OfTurn(e)
    BY <1>2, <1>3 DEF OfTurn, TypeInv
  <2>2. Toolwise(e) /\ Textwise(e)
    BY <1>3 DEF Toolwise, Textwise, ToolHooks
  <2>3. ActiveAfter(e)
    BY <1>1, <1>3 DEF ActiveAfter
  <2> QED
    BY <1>3, <2>1, <2>2, <2>3 DEF Admissible
<1>5. \A src \in HookSources : Heard(src) => Seen(src)
  <2> SUFFICES ASSUME NEW src \in HookSources, Heard(src) PROVE Seen(src)
    OBVIOUS
  <2>1. e.src # src
    BY <1>3, SourceForms
  <2> QED
    BY <1>1, <1>3, <2>1, OtherSource
<1>6. job.hook \in HookType /\ job.hook.id \in Ids
  BY SentHooks
<1>7. /\ job' \in Job /\ job'.pc = label /\ job'.hook = job.hook /\ job'.bytes = job.bytes
      /\ job'.id = job.hook.id /\ job'.snap = job.snap /\ job'.turn = NextTurn
  <2>1. job \in Job /\ NextTurn \in Nat
    BY <1>2 DEF TypeInv
  <2>2. job' = [job EXCEPT !.pc = label, !.turn = NextTurn, !.id = job.hook.id]
    BY DEF Start
  <2>3. job' = [pc |-> label, hook |-> job.hook, bytes |-> job.bytes, turn |-> NextTurn,
                id |-> job.hook.id, snap |-> job.snap]
    BY <2>1, <2>2 DEF Job
  <2>4. job.hook \in HookType \cup {Idle.hook} /\ job.bytes \in {0, 1} /\ job.snap \in Nat
    BY <2>1 DEF Job
  <2> QED
    BY <1>6, <2>1, <2>3, <2>4 DEF Job
<1>8. \A n \in DOMAIN events' : events'[n].type = "prompt" => events'[n].turn # NextTurn
  <2> SUFFICES ASSUME NEW n \in DOMAIN events', events'[n].type = "prompt"
               PROVE  events'[n].turn # NextTurn
    OBVIOUS
  <2>1. n \in DOMAIN events /\ events'[n] = events[n]
    BY <1>1, <1>3, AppendFacts
  <2>2. events[n].turn <= Starts /\ events[n].turn \in Nat
    BY <2>1, <1>1, <1>3, AppendFacts DEF TurnInv, EventType
  <2> QED
    BY <2>1, <2>2, <1>2
<1>9. Unprompted(active')
  BY <1>1, <1>8 DEF Unprompted
<1>10. \A n \in DOMAIN events' : events'[n].type \in ToolHooks =>
                n \in DOMAIN events /\ events'[n] = events[n]
  BY <1>1, <1>3, AppendFacts DEF ToolHooks
<1> QED
  BY <1>1, <1>2, <1>3, <1>4, <1>5, <1>7, <1>9, <1>10 DEF Records

LEMMA StepStartForPrompt ==
    ASSUME IInv, StartForPrompt
    PROVE  Steps
<1> USE DEF IInv
<1>0. job.pc = "prompt" /\ active = 0 /\ Start("text")
  BY DEF StartForPrompt
<1>1. /\ Records /\ InHook /\ UNCHANGED snaps
      /\ \A src \in HookSources : Heard(src) => Seen(src)
      /\ job' \in Job /\ job'.pc = "text" /\ job'.hook = job.hook /\ job'.bytes = job.bytes
      /\ job'.turn = active' /\ active' # 0 /\ Unprompted(active')
  BY <1>0, StartRecords DEF Labels
<1>3. job.hook \in HookType /\ job.bytes \in {0, 1}
  BY <1>0, SentHooks
<1>4. ~Heard(Source(job.hook, job.bytes))
  BY <1>0, <1>1, <1>3, SourceType DEF JobInv
<1>5. Source(job.hook, job.bytes)' = Source(job.hook, job.bytes)
  BY <1>1 DEF Source, Named, Content, InHook
<1>6. ~Seen(Source(job.hook, job.bytes))'
  BY <1>4, <1>5 DEF Heard, Seen
<1>7. job'.hook \in sent' /\ (job'.hook.kind \notin ToolHooks => job'.bytes = 0)
  BY <1>0, <1>1 DEF JobInv, InHook, agent
<1>8. ~HasPrompt(job.turn)'
  BY <1>1 DEF HasPrompt, TurnHas, Unprompted
<1>9. JobInv'
  BY <1>0, <1>1, <1>6, <1>7, <1>8 DEF JobInv
<1> QED
  BY <1>1, <1>9, StepOn

\* What a hook writes in the active turn is admissible when its use of a tool, or its text, is.
LEMMA WriteRecords ==
    ASSUME IInv, NEW e \in EventType, events' = Append(events, e), active' = active,
           e.turn = active, active # 0, e.type \in {"prompt", "assistant", "call", "result"},
           Toolwise(e), Textwise(e)
    PROVE  Records
<1>1. OfTurn(e)
  BY DEF OfTurn
<1>2. ActiveAfter(e)
  BY DEF ActiveAfter
<1> QED
  BY <1>1, <1>2 DEF Admissible, Records

\* The prompt's own event: both ways to write it.
LEMMA PromptWritten ==
    ASSUME IInv, Writes(PromptEvent(active)), job.hook.kind = "prompt", active # 0, ~HasPrompt(active),
           ~Seen(Source(job.hook, job.bytes)), job.pc # "idle", Done
    PROVE  Steps
<1> USE DEF IInv
<1> DEFINE src == Source(job.hook, job.bytes)
           e == [PromptEvent(active) EXCEPT !.by = Named(job.hook)]
<1>1. events' = Append(events, e) /\ active' = active /\ InHook /\ UNCHANGED snaps /\ job' = Idle
  BY DEF Writes, Done
<1>2. job.hook \in HookType /\ job.bytes \in {0, 1}
  BY SentHooks
<1>3. src \in HookSources /\ Named(job.hook) \in Nat /\ active \in Nat
  BY <1>2, SourceType DEF Named, HookType, TypeInv
<1>4. src \in Sources /\ src[1] # "call of"
  BY <1>3, SourceForms
<1>5. e = [type |-> "prompt", turn |-> active, id |-> NoTool, src |-> src,
           by |-> Named(job.hook), snap |-> 0]
  BY DEF PromptEvent, Event
<1> HIDE DEF e, src
<1>6. e \in EventType
  BY <1>3, <1>4, <1>5 DEF EventType, Types, Ids
<1>7. Toolwise(e)
  BY <1>4, <1>5 DEF Toolwise, ToolHooks
<1>8. Textwise(e)
  BY <1>5 DEF Textwise, src
<1>9. Records
  BY <1>1, <1>5, <1>6, <1>7, <1>8, WriteRecords
<1>10. Heard(src)
  BY <1>1, <1>5, <1>6, AppendFacts DEF Heard
<1>11. job.bytes = 0
  BY DEF JobInv, ToolHooks
<1> QED
  BY <1>1, <1>9, <1>10, <1>11, StepDone DEF src

LEMMA StepReuseTurn ==
    ASSUME IInv, ReuseTurn
    PROVE  Steps
  BY PromptWritten DEF ReuseTurn, IInv, JobInv

LEMMA StepAppendPrompt ==
    ASSUME IInv, AppendPrompt
    PROVE  Steps
<1>1. job.pc = "text" /\ job.turn = active /\ active # 0 /\ ~HasPrompt(active)
      /\ job.hook.kind = "prompt" /\ ~Seen(Source(job.hook, job.bytes))
  BY DEF AppendPrompt, IInv, JobInv
<1> QED
  BY <1>1, PromptWritten DEF AppendPrompt

LEMMA StepStopIgnored ==
    ASSUME IInv, StopIgnored
    PROVE  Steps
<1>1. Records /\ InHook /\ UNCHANGED snaps /\ job' = Idle /\ job.hook.kind = "stop"
  BY DEF StopIgnored, Records, Done, IInv, JobInv
<1> QED
  BY <1>1, StepDone

LEMMA StepAppendAssistant ==
    ASSUME IInv, AppendAssistant
    PROVE  Steps
<1> USE DEF IInv
<1> DEFINE src == Source(job.hook, job.bytes)
           e == [Event("assistant", active, NoTool, src) EXCEPT !.by = Named(job.hook)]
<1>0. job.pc = "close" /\ active # 0 /\ Settled(active) /\ Goto("finish")
  BY DEF AppendAssistant
<1>1. events' = Append(events, e) /\ active' = active /\ InHook /\ UNCHANGED snaps
  BY DEF AppendAssistant, Writes
<1>2. job.hook \in HookType /\ job.bytes \in {0, 1}
  BY <1>0, SentHooks
<1>3. src \in HookSources /\ Named(job.hook) \in Nat /\ active \in Nat
  BY <1>2, SourceType DEF Named, HookType, TypeInv
<1>4. src \in Sources /\ src[1] # "call of"
  BY <1>3, SourceForms
<1>5. e = [type |-> "assistant", turn |-> active, id |-> NoTool, src |-> src,
           by |-> Named(job.hook), snap |-> 0]
  BY DEF Event
<1> HIDE DEF e, src
<1>6. e \in EventType
  BY <1>3, <1>4, <1>5 DEF EventType, Types, Ids
<1>7. Toolwise(e)
  BY <1>4, <1>5 DEF Toolwise, ToolHooks
<1>8. Textwise(e)
  BY <1>0, <1>5 DEF Textwise
<1>9. Records
  BY <1>0, <1>1, <1>5, <1>6, <1>7, <1>8, WriteRecords
<1>10. job' \in Job /\ job'.pc = "finish" /\ job'.hook = job.hook /\ job'.bytes = job.bytes
  BY <1>0, JobOn DEF Labels
<1>11. JobInv'
  BY <1>0, <1>1, <1>10 DEF JobInv, InHook, agent
<1> QED
  BY <1>1, <1>9, <1>10, <1>11, StepOn

LEMMA StepCloseCall ==
    ASSUME IInv, CloseCall
    PROVE  Steps
<1> USE DEF IInv
<1>0. job.pc = "close" /\ active # 0 /\ Goto("close") /\ active' = active /\ UNCHANGED snaps /\ InHook
  BY DEF CloseCall
<1>1. PICK n \in Unsettled(active) :
        events' = Append(events, [Event("result", active, events[n].id, NoSource)
                                    EXCEPT !.by = events[n].by])
  BY DEF CloseCall
<1> DEFINE e == [Event("result", active, events[n].id, NoSource) EXCEPT !.by = events[n].by]
<1>2. /\ n \in DOMAIN events /\ events[n].type = "call" /\ events[n].turn = active
      /\ ~TurnHas(active, "result", events[n].id)
  BY DEF Unsettled, Unmatched
<1>3. events[n] \in EventType /\ EventInv(n) /\ n \in Nat /\ DOMAIN events = 1 .. Len(events)
      /\ Len(events) \in Nat
  BY <1>2 DEF TypeInv, StreamInv
<1>4. /\ events[n].id \in Tools /\ tools[events[n].id].at # "new"
      /\ setting.style = "builtin" => events[n].by = TurnName(events[n].id)
  BY <1>2, <1>3 DEF EventInv, ToolHooks
<1>5. e = [type |-> "result", turn |-> active, id |-> events[n].id, src |-> NoSource,
           by |-> events[n].by, snap |-> 0]
  BY DEF Event
<1>6. events' = Append(events, e)
  BY <1>1
<1> HIDE DEF e
<1>7. e \in EventType
  BY <1>3, <1>5, NoSourceTyped DEF EventType, Types, TypeInv
<1>8. CalledBefore(Len(events), events[n].id)
  BY <1>2, <1>3 DEF CalledBefore
<1>9. ASSUME setting.style = "builtin", NEW k \in DOMAIN events, events[k].type = "result",
             events[k].id = events[n].id
      PROVE  FALSE
  <2>1. n < k
    BY <1>2, <1>9 DEF PairInv
  <2>2. events[n].turn <= events[k].turn /\ events[k].turn <= Starts
    BY <1>2, <1>9, <2>1 DEF TurnInv
  <2>a. active = Starts
    BY <1>0 DEF TurnInv
  <2>b. events[k] \in EventType /\ active \in Nat
    BY DEF TypeInv
  <2>3. active = Starts /\ Starts \in Nat /\ events[k].turn \in Nat
    BY <2>a, <2>b DEF EventType
  <2>4. events[k].turn = active
    BY <1>2, <2>2, <2>3
  <2> QED
    BY <1>2, <1>9, <2>4 DEF TurnHas
<1>10. Toolwise(e)
  BY <1>2, <1>4, <1>5, <1>8, <1>9 DEF Toolwise
<1>11. Textwise(e)
  BY <1>5 DEF Textwise
<1>12. Records
  BY <1>0, <1>5, <1>6, <1>7, <1>10, <1>11, WriteRecords
<1>13. job' \in Job /\ job'.pc = "close" /\ job'.hook = job.hook /\ job'.bytes = job.bytes
  BY <1>0, JobOn DEF Labels
<1>14. JobInv'
  BY <1>0, <1>13 DEF JobInv, InHook, agent
<1> QED
  BY <1>0, <1>12, <1>13, <1>14, StepOn

-----------------------------------------------------------------------------
(* The hooks of tools                                                       *)

\* A non-empty set of numbers has a first one.
LEMMA FirstNumber ==
    ASSUME NEW S \in SUBSET Nat, S # {}
    PROVE  \E i \in S : \A j \in S : i <= j
<1> DEFINE R == {ss \in Nat \X Nat : ss[1] < ss[2]}
<1>1. IsWellFoundedOn(R, Nat)
  BY NatLessThanWellFounded, Zenon DEF OpToRel, R
<1>2. PICK x \in S : \A y \in S : ~(<<y, x>> \in R)
  BY <1>1, WFMin
<1>3. \A y \in S : ~(y < x)
  BY <1>2 DEF R
<1> QED
  BY <1>3

\* A non-empty set of positions has a last one.
LEMMA LastPosition ==
    ASSUME NEW n \in Nat, NEW S \in SUBSET (1 .. n), S # {}
    PROVE  \E i \in S : \A j \in S : j <= i
<1> DEFINE T == {n - i : i \in S}
<1>1. T \subseteq Nat /\ T # {}
  <2>1. PICK i \in S : TRUE
    OBVIOUS
  <2>2. n - i \in T
    BY DEF T
  <2>3. \A j \in S : n - j \in Nat
    OBVIOUS
  <2> QED
    BY <2>2, <2>3, Zenon DEF T
<1>2. PICK x \in T : \A y \in T : x <= y
  <2> HIDE DEF T
  <2> QED
    BY <1>1, FirstNumber
<1>3. PICK i \in S : x = n - i
  BY <1>2 DEF T
<1>4. \A j \in S : j <= i
  <2> TAKE j \in S
  <2>1. n - j \in T
    BY DEF T
  <2>2. x <= n - j
    BY <1>2, <2>1
  <2> QED
    BY <1>3, <2>2
<1> QED
  BY <1>4

LEMMA MatchingKnown ==
    ASSUME TypeInv, NEW turn, NEW h
    PROVE  \/ Matching(turn, h) = h.id
           \/ \E n \in Unmatched(turn) : Matching(turn, h) = events[n].id
<1> DEFINE waiting == Unmatched(turn)
           first == CHOOSE n \in waiting : \A m \in waiting : n <= m
<1>1. Matching(turn, h) = h.id \/ (waiting # {} /\ Matching(turn, h) = events[first].id)
  BY DEF Matching
<1>2. waiting \in SUBSET Nat
  BY DEF Unmatched, TypeInv
<1>3. waiting # {} => \E n \in waiting : \A m \in waiting : n <= m
  BY <1>2, FirstNumber
<1>4. waiting # {} => first \in waiting
  BY <1>3
<1> QED
  BY <1>1, <1>4

LEMMA PriorTyped ==
    ASSUME TypeInv, TurnInv, active # 0
    PROVE  Prior(active) \in Nat
<1> DEFINE taken == {n \in DOMAIN events : /\ events[n].turn = active /\ events[n].snap # 0
                                           /\ events[n].type \in {"turn.start", "result"}}
           last == CHOOSE n \in taken : \A m \in taken : m <= n
<1>1. taken # {}
  BY DEF TurnInv
<1>2. taken \in SUBSET (1 .. Len(events)) /\ Len(events) \in Nat
  BY DEF TypeInv
<1>3. \E n \in taken : \A m \in taken : m <= n
  <2> HIDE DEF taken
  <2> QED
    BY <1>1, <1>2, LastPosition
<1>4. last \in taken
  <2> HIDE DEF taken
  <2> QED
    BY <1>3
<1>5. events[last] \in EventType
  BY <1>4 DEF TypeInv
<1>6. Prior(active) = events[last].snap
  BY DEF Prior
<1> QED
  BY <1>5, <1>6 DEF EventType

\* A built-in adapter's hook that looks for its tool in the session finds it.
LEMMA SessionSearched ==
    ASSUME IInv, setting.style = "builtin", NEW h \in sent, h.kind \in ToolHooks,
           ~SessionHas(h.kind, h), NEW n \in DOMAIN events, events[n].type = h.kind
    PROVE  events[n].id # h.id
<1> SUFFICES ASSUME events[n].id = h.id PROVE FALSE
  OBVIOUS
<1>1. events[n].by = TurnName(h.id)
  BY DEF IInv, StreamInv, EventInv
<1>2. TurnName(h.id) = Named(h)
  BY DEF IInv, SentInv, TurnName, Named
<1> QED
  BY <1>1, <1>2 DEF SessionHas

LEMMA StepEnsureTurn ==
    ASSUME IInv, EnsureTurn
    PROVE  Steps
<1> USE DEF IInv
<1> DEFINE h == job.hook
<1>0. job.pc = "tool"
  BY DEF EnsureTurn
<1>1. h \in sent /\ h \in HookType /\ job.bytes \in {0, 1} /\ h.kind \in ToolHooks /\ job.snap = 0
  BY <1>0, SentHooks DEF JobInv
<1>2. h.id \in Tools /\ tools[h.id].at # "new" /\ h.kind # "prompt"
  BY <1>1 DEF SentInv, ToolHooks
<1>3. CASE setting.style = "builtin" /\ SessionHas(h.kind, h)
  <2>1. UNCHANGED <<events, active, snaps>> /\ InHook /\ job' = Idle
    BY <1>3 DEF EnsureTurn, Done
  <2> QED
    BY <1>2, <2>1, StepDone DEF Records
<1>4. CASE ~(setting.style = "builtin" /\ SessionHas(h.kind, h))
  <2>1. AfterTurn \in {"snapshot", "record"} /\ AfterTurn \in Labels
    BY DEF AfterTurn, Labels
  <2>2. setting.style = "builtin" =>
          \A n \in DOMAIN events : events[n].type = h.kind => events[n].id # h.id
    BY <1>1, <1>4, SessionSearched
  <2>3. CASE active = 0
    <3>1. Start(AfterTurn)
      BY <1>4, <2>3 DEF EnsureTurn
    <3>2. /\ Records /\ InHook /\ UNCHANGED snaps
          /\ job' \in Job /\ job'.pc = AfterTurn /\ job'.hook = h /\ job'.bytes = job.bytes
          /\ job'.id = h.id /\ job'.snap = 0
          /\ job'.turn = active' /\ active' # 0
          /\ \A n \in DOMAIN events' : events'[n].type \in ToolHooks =>
                n \in DOMAIN events /\ events'[n] = events[n]
      BY <1>0, <1>1, <2>1, <2>3, <3>1, StartRecords
    <3>3. setting.style = "builtin" =>
            \A n \in DOMAIN events' : events'[n].type = h.kind => events'[n].id # h.id
      BY <1>1, <2>2, <3>2
    <3>4. job'.hook \in sent' /\ setting' = setting /\ tools' = tools
      BY <1>1, <3>2 DEF InHook, agent
    <3>5. JobInv'
      BY <1>1, <1>2, <2>1, <3>2, <3>3, <3>4 DEF JobInv
    <3>6. job'.pc # "idle"
      BY <2>1, <3>2
    <3> QED
      BY <3>2, <3>5, <3>6, StepOn
  <2>4. CASE active # 0
    <3>1. job' = [job EXCEPT !.pc = AfterTurn, !.turn = active, !.id = ToolID]
          /\ UNCHANGED <<events, active, snaps>> /\ InHook
      BY <1>4, <2>4 DEF EnsureTurn
    <3>2. /\ ToolID \in Tools /\ tools[ToolID].at # "new"
          /\ ToolID = h.id \/ (/\ setting.style = "external" /\ h.kind = "result"
                               /\ TurnHas(active, "call", ToolID))
      <4>1. CASE ToolID = h.id
        BY <1>2, <4>1
      <4>2. CASE ToolID # h.id
        <5>1. setting.style = "external" /\ h.kind = "result" /\ ToolID = Matching(active, h)
          BY <4>2 DEF ToolID
        <5>2. PICK n \in Unmatched(active) : ToolID = events[n].id
          BY <4>2, <5>1, MatchingKnown
        <5>3. n \in DOMAIN events /\ events[n].type = "call" /\ events[n].turn = active
          BY DEF Unmatched
        <5>4. events[n].id \in Tools /\ tools[events[n].id].at # "new"
          BY <5>3 DEF StreamInv, EventInv, ToolHooks
        <5> QED
          BY <5>1, <5>2, <5>3, <5>4 DEF TurnHas
      <4> QED
        BY <4>1, <4>2
    <3>3. job \in Job /\ active \in Nat
      BY DEF TypeInv
    <3>4. /\ job'.pc = AfterTurn /\ job'.hook = h /\ job'.bytes = job.bytes
          /\ job'.turn = active /\ job'.id = ToolID /\ job'.snap = 0
      BY <1>1, <3>1, <3>3 DEF Job
    <3>5. job' \in Job
      BY <2>1, <3>1, <3>2, <3>3 DEF Job, Ids
    <3>6. Records
      BY <3>1 DEF Records
    <3>7. job'.hook \in sent' /\ setting' = setting /\ tools' = tools /\ events' = events
          /\ active' = active
      BY <1>1, <3>1, <3>4 DEF InHook, agent
    <3>8. TurnHas(active, "call", ToolID) => \E n \in DOMAIN events' : events'[n].turn = active
            /\ events'[n].type = "call" /\ events'[n].id = ToolID
      BY <3>7 DEF TurnHas
    <3>9. JobInv'
      BY <1>1, <2>1, <2>2, <2>4, <3>2, <3>4, <3>7, <3>8 DEF JobInv, TurnHas
    <3>10. job'.pc # "idle"
      BY <2>1, <3>4
    <3> QED
      BY <3>1, <3>4, <3>5, <3>6, <3>9, <3>10, StepOn
  <2> QED
    BY <2>3, <2>4
<1> QED
  BY <1>3, <1>4

\* Snapshots are made once: the ref is there and keeps what it holds.
LEMMA StepTakeSnapshot ==
    ASSUME IInv, TakeSnapshot
    PROVE  Steps
<1> USE DEF IInv
<1> DEFINE h == job.hook
           key == SnapshotKey
<1>0. job.pc = "snapshot" /\ UNCHANGED <<events, active>> /\ InHook
  BY DEF TakeSnapshot
<1>1. /\ h \in sent /\ h \in HookType /\ h.kind \in ToolHooks /\ job.turn = active /\ active # 0
      /\ job.id \in Tools
      /\ job.id = h.id \/ (setting.style = "external" /\ h.kind = "result")
  BY <1>0, SentHooks DEF JobInv
<1>2. job \in Job /\ active \in Nat /\ work \in Nat
  BY DEF TypeInv
<1>3. Records
  BY <1>0 DEF Records
<1>4. CASE AlreadyApplied
  <2>1. job' = [job EXCEPT !.pc = "record", !.snap = Prior(job.turn)] /\ UNCHANGED snaps
    BY <1>4 DEF TakeSnapshot
  <2>2. Prior(job.turn) \in Nat
    BY <1>1, PriorTyped
  <2>3. /\ job' \in Job /\ job'.pc = "record" /\ job'.hook = h /\ job'.bytes = job.bytes
        /\ job'.turn = job.turn /\ job'.id = job.id
    BY <1>2, <2>1, <2>2 DEF Job, Labels
  <2>4. setting.style = "external" /\ h.id \in Observed /\ h.kind = "call" /\ job.id = h.id
    BY <1>1, <1>4 DEF AlreadyApplied
  <2>5. JobInv'
    BY <1>0, <2>3, <2>4 DEF JobInv, InHook, agent, SnapKnown, TurnHas
  <2> QED
    BY <1>0, <1>3, <2>1, <2>3, <2>5, StepOn
<1>5. CASE ~AlreadyApplied
  <2> DEFINE s == Snapshot(key)
  <2>1. snaps' = [k \in DOMAIN snaps \cup {key} |-> Snapshot(k)] /\ job' = [job EXCEPT !.pc = "record", !.snap = s]
    BY <1>5 DEF TakeSnapshot
  <2>2. /\ DOMAIN snaps' = DOMAIN snaps \cup {key}
        /\ snaps'[key] = s
        /\ \A k \in DOMAIN snaps : k # key => snaps'[k] = snaps[k]
    BY <2>1 DEF Snapshot
  <2>3. s \in Nat /\ s <= work
    BY <1>2 DEF Snapshot, TypeInv, SnapInv
  <2>4. key \in DOMAIN snaps => s = snaps[key]
    BY DEF Snapshot
  <2> HIDE DEF s
  <2>5. SnapsStay
    BY <2>2, <2>4 DEF SnapsStay
  <2>6. /\ job' \in Job /\ job'.pc = "record" /\ job'.hook = h /\ job'.bytes = job.bytes
        /\ job'.turn = job.turn /\ job'.id = job.id /\ job'.snap = s
    BY <1>2, <2>1, <2>3 DEF Job, Labels
  <2>7. h.kind = "call" => SnapKnown(job.turn, job.id, job.snap)'
    BY <1>1, <2>2, <2>6 DEF SnapKnown, SnapshotKey
  <2>8. JobInv'
    BY <1>0, <2>6, <2>7 DEF JobInv, InHook, agent, TurnHas
  <2>9. PromptHeard'
    BY <1>0, <1>3, <2>6, HeardStays
  <2>10. tools' \in [Tools -> Tool']
    <3>1. DOMAIN snaps \subseteq DOMAIN snaps'
      BY <2>2
    <3>2. Tool \subseteq Tool'
      BY <3>1 DEF Tool
    <3>3. tools \in [Tools -> Tool] /\ tools' = tools
      BY <1>0 DEF TypeInv, InHook, agent
    <3> QED
      BY <3>2, <3>3
  <2>11. TypeInv'
    BY <1>0, <2>2, <2>3, <2>6, <2>10 DEF TypeInv, InHook, agent, faults
  <2>12. SnapInv'
    <3>1. \A k \in DOMAIN snaps' : snaps'[k] <= work'
      BY <1>0, <2>2, <2>3 DEF SnapInv, InHook
    <3>2. \A i \in Tools : \A k \in tools'[i].pre : snaps'[k] <= tools'[i].from
      <4>1. \A i \in Tools : tools[i].pre \subseteq DOMAIN snaps /\ tools'[i] = tools[i]
        BY <1>0 DEF TypeInv, Tool, InHook, agent
      <4> QED
        BY <4>1, <2>5 DEF SnapsStay, SnapInv
    <3>3. setting'.style = "external" => ~(key[3] = "call" /\ key[2] \in Observed)
      BY <1>0, <1>1, <1>5 DEF AlreadyApplied, SnapshotKey, InHook
    <3>4. setting'.style = "external" =>
            \A k \in DOMAIN snaps' : ~(k[3] = "call" /\ k[2] \in Observed)
      BY <1>0, <2>2, <3>3 DEF SnapInv, InHook
    <3> QED
      BY <3>1, <3>2, <3>4 DEF SnapInv
  <2>13. SentInv' /\ setting' = setting /\ ToolsStay
    BY <1>0 DEF SentInv, InHook, agent, ToolsStay
  <2> QED
    BY <1>3, <2>5, <2>8, <2>9, <2>11, <2>12, <2>13 DEF Steps
<1> QED
  BY <1>4, <1>5

\* What a tool hook that is about to write knows.
LEMMA Recording ==
    ASSUME IInv, job.pc \in {"record", "result"}
    PROVE  /\ job.hook \in sent /\ job.hook \in HookType /\ job.bytes \in {0, 1}
           /\ job.hook.kind \in ToolHooks /\ job.turn = active /\ active # 0 /\ active \in Nat
           /\ job.id \in Tools /\ tools[job.id].at # "new" /\ job.snap \in Nat
           /\ job.id = job.hook.id \/ (/\ setting.style = "external" /\ job.hook.kind = "result"
                                       /\ TurnHas(job.turn, "call", job.id))
           /\ Named(job.hook) \in Nat
           /\ setting.style = "builtin" => Named(job.hook) = TurnName(job.id) /\ job.id = job.hook.id
           /\ setting.style = "builtin" => \A n \in DOMAIN events :
                events[n].type = job.hook.kind => events[n].id # job.id
<1> USE DEF IInv
<1>1. job.hook \in sent /\ job.hook \in HookType /\ job.bytes \in {0, 1}
  BY SentHooks
<1>2. /\ job.hook.kind \in ToolHooks /\ job.turn = active /\ active # 0
      /\ job.id \in Tools /\ tools[job.id].at # "new"
      /\ job.id = job.hook.id \/ (/\ setting.style = "external" /\ job.hook.kind = "result"
                                  /\ TurnHas(job.turn, "call", job.id))
      /\ setting.style = "builtin" => \A n \in DOMAIN events :
            events[n].type = job.hook.kind => events[n].id # job.hook.id
  BY DEF JobInv
<1>3. active \in Nat /\ job.snap \in Nat
  BY DEF TypeInv, Job
<1>4. Named(job.hook) \in Nat
  BY <1>1 DEF Named, HookType
<1>5. setting.style = "builtin" => Named(job.hook) = TurnName(job.id) /\ job.id = job.hook.id
  BY <1>1, <1>2 DEF SentInv, Named, TurnName
<1> QED
  BY <1>1, <1>2, <1>3, <1>4, <1>5

\* The event of a tool hook as it is written, and its fields.
Written(type, src, snap) == [ToolEvent(type, src, snap) EXCEPT !.by = Named(job.hook)]

Fields(e, type, src, snap) ==
    /\ e \in EventType
    /\ e.type = type /\ e.turn = active /\ e.id = job.id /\ e.src = src
    /\ e.by = Named(job.hook) /\ e.snap = snap

LEMMA ToolWritten ==
    ASSUME IInv, job.pc \in {"record", "result"}, NEW type \in {"call", "result"},
           NEW src \in Sources, NEW snap \in Nat
    PROVE  Fields(Written(type, src, snap), type, src, snap)
<1>1. job.turn = active /\ active \in Nat /\ job.id \in Tools /\ Named(job.hook) \in Nat
  BY Recording
<1>2. Written(type, src, snap) =
        [type |-> type, turn |-> active, id |-> job.id, src |-> src,
         by |-> Named(job.hook), snap |-> snap]
  <2>1. ToolEvent(type, src, snap) =
          [type |-> type, turn |-> job.turn, id |-> job.id, src |-> src, by |-> 0, snap |-> snap]
    BY DEF ToolEvent, Event
  <2> QED
    BY <1>1, <2>1 DEF Written
<1>3. type \in Types /\ job.id \in Ids
  BY <1>1 DEF Types, Ids
<1> QED
  BY <1>1, <1>2, <1>3 DEF EventType, Fields

LEMMA StepRecordCall ==
    ASSUME IInv, RecordCall
    PROVE  Steps
<1> USE DEF IInv
<1> DEFINE src == Source(job.hook, job.bytes)
           e == Written("call", src, job.snap)
<1>0. job.pc = "record" /\ job.hook.kind = "call" /\ job' = Idle
  BY DEF RecordCall, Done
<1>1. CASE TurnHas(job.turn, "call", job.id)
  <2>1. UNCHANGED <<events, active, snaps>> /\ InHook
    BY <1>1 DEF RecordCall
  <2> QED
    BY <1>0, <2>1, StepDone DEF Records
<1>2. CASE ~TurnHas(job.turn, "call", job.id)
  <2>1. events' = Append(events, e) /\ active' = active /\ InHook /\ UNCHANGED snaps
    BY <1>2 DEF RecordCall, Writes, Written
  <2>2. src \in Sources /\ src[1] # "call of"
    BY <1>0, Recording, SourceType, SourceForms
  <2> HIDE DEF src
  <2>3. /\ e \in EventType /\ e.type = "call" /\ e.turn = active /\ e.id = job.id /\ e.src = src
        /\ e.by = Named(job.hook) /\ e.snap = job.snap
    <3>1. job.snap \in Nat
      BY <1>0, Recording
    <3>2. Fields(e, "call", src, job.snap)
      BY <1>0, <2>2, <3>1, ToolWritten
    <3> HIDE DEF e
    <3> QED
      BY <3>2 DEF Fields
  <2> HIDE DEF e
  <2>4. job.snap # 0 => SnapKnown(job.turn, job.id, job.snap)
    BY <1>0 DEF JobInv
  <2>5. setting.style = "builtin" =>
          \A n \in DOMAIN events : events[n].type = "result" => events[n].id # job.id
    <3> SUFFICES ASSUME setting.style = "builtin", NEW n \in DOMAIN events,
                        events[n].type = "result", events[n].id = job.id
                 PROVE  FALSE
      OBVIOUS
    <3>1. PICK m \in 1 .. n : events[m].type = "call" /\ events[m].id = job.id
      BY DEF StreamInv, EventInv, CalledBefore
    <3>2. m \in DOMAIN events
      BY DEF TypeInv
    <3> QED
      BY <1>0, <3>1, <3>2, Recording
  <2>6. Toolwise(e)
    BY <1>0, <1>2, <2>2, <2>3, <2>4, <2>5, Recording DEF Toolwise
  <2>7. Textwise(e)
    BY <2>3 DEF Textwise
  <2>8. Records
    BY <1>0, <2>1, <2>3, <2>6, <2>7, Recording, WriteRecords
  <2> QED
    BY <1>0, <2>1, <2>8, StepDone
<1> QED
  BY <1>1, <1>2

LEMMA StepRecordResult ==
    ASSUME IInv, RecordResult
    PROVE  Steps
<1> USE DEF IInv
<1> DEFINE src == Source(job.hook, job.bytes)
           e == Written("result", src, job.snap)
<1>0. job.pc = "result" /\ job' = Idle
  BY DEF RecordResult, Done
<1>a. job.hook.kind = "result" /\ CalledBefore(Len(events), job.id)
  BY <1>0 DEF JobInv
<1>1. CASE TurnHas(job.turn, "result", job.id)
  <2>1. UNCHANGED <<events, active, snaps>> /\ InHook
    BY <1>1 DEF RecordResult
  <2> QED
    BY <1>0, <1>a, <2>1, StepDone DEF Records
<1>2. CASE ~TurnHas(job.turn, "result", job.id)
  <2>1. events' = Append(events, e) /\ active' = active /\ InHook /\ UNCHANGED snaps
    BY <1>2 DEF RecordResult, Writes, Written
  <2>2. src \in Sources /\ src[1] # "call of"
    BY <1>0, Recording, SourceType, SourceForms
  <2> HIDE DEF src
  <2>3. /\ e \in EventType /\ e.type = "result" /\ e.turn = active /\ e.id = job.id /\ e.src = src
        /\ e.by = Named(job.hook) /\ e.snap = job.snap
    <3>1. job.snap \in Nat
      BY <1>0, Recording
    <3>2. Fields(e, "result", src, job.snap)
      BY <1>0, <2>2, <3>1, ToolWritten
    <3> HIDE DEF e
    <3> QED
      BY <3>2 DEF Fields
  <2> HIDE DEF e
  <2>6. Toolwise(e)
    BY <1>0, <1>a, <1>2, <2>2, <2>3, Recording DEF Toolwise
  <2>7. Textwise(e)
    BY <2>3 DEF Textwise
  <2>8. Records
    BY <1>0, <2>1, <2>3, <2>6, <2>7, Recording, WriteRecords
  <2> QED
    BY <1>0, <1>a, <2>1, <2>8, StepDone
<1> QED
  BY <1>1, <1>2

LEMMA StepAddCall ==
    ASSUME IInv, AddCall
    PROVE  Steps
<1> USE DEF IInv
<1> DEFINE h == job.hook
           inner == Source(h, job.bytes)
           e == Written("call", CallSource, 0)
<1>0. job.pc = "record" /\ h.kind = "result" /\ Goto("result")
  BY DEF AddCall
<1>1. h \in sent /\ h \in HookType /\ job.bytes \in {0, 1}
  BY <1>0, Recording
<1>2. job' \in Job /\ job'.pc = "result" /\ job'.hook = h /\ job'.bytes = job.bytes
      /\ job'.turn = job.turn /\ job'.id = job.id
  BY <1>0, JobOn DEF Labels
<1>3. inner \in HookSources /\ inner[3] = h.id /\ CallSource = <<"call of", inner>>
  BY <1>0, <1>1, SourceType DEF CallSource, ToolHooks
<1> HIDE DEF inner
<1>4. /\ CallSource \in Sources /\ CallSource # NoSource
      /\ CallSource[1] = "call of" /\ CallSource[2][3] = h.id
  BY <1>3, SourceForms
<1>5. /\ Records /\ InHook /\ UNCHANGED snaps /\ active' = active
      /\ CalledBefore(Len(events), job.id)'
      /\ setting.style = "builtin" =>
            \A n \in DOMAIN events' : events'[n].type = "result" => events'[n].id # h.id
  <2>1. CASE NeedsCall
    <3>1. events' = Append(events, e) /\ active' = active /\ InHook /\ UNCHANGED snaps
      BY <2>1 DEF AddCall, Writes, Written
    <3>2. /\ e \in EventType /\ e.type = "call" /\ e.turn = active /\ e.id = job.id
          /\ e.src = CallSource /\ e.by = Named(h) /\ e.snap = 0
      <4>1. Fields(e, "call", CallSource, 0)
        BY <1>0, <1>4, ToolWritten
      <4> HIDE DEF e
      <4> QED
        BY <4>1 DEF Fields
    <3> HIDE DEF e
    <3>3. job.id = h.id /\ ~TurnHas(active, "call", job.id)
      BY <1>0, <2>1, Recording DEF NeedsCall
    <3>4. Toolwise(e)
      BY <1>0, <1>4, <3>2, <3>3, Recording DEF Toolwise
    <3>5. Textwise(e)
      BY <3>2 DEF Textwise
    <3>6. Records
      BY <1>0, <3>1, <3>2, <3>4, <3>5, Recording, WriteRecords
    <3>7. CalledBefore(Len(events), job.id)'
      <4>1. /\ Len(events) + 1 \in 1 .. Len(events') /\ events'[Len(events) + 1] = e
        BY <3>1, <3>2, AppendFacts
      <4> QED
        BY <1>2, <3>2, <4>1 DEF CalledBefore
    <3>8. setting.style = "builtin" =>
            \A n \in DOMAIN events' : events'[n].type = "result" => events'[n].id # h.id
      BY <1>0, <3>1, <3>2, <3>3, Recording, AppendFacts
    <3> QED
      BY <3>1, <3>6, <3>7, <3>8
  <2>2. CASE ~NeedsCall
    <3>1. UNCHANGED <<events, active, snaps>> /\ InHook
      BY <2>2 DEF AddCall
    <3>2. TurnHas(job.turn, "call", job.id) \/ (job.id = h.id /\ Seen(CallSource))
      BY <1>0, <2>2, Recording DEF NeedsCall
    <3>3. \E n \in DOMAIN events : events[n].type = "call" /\ events[n].id = job.id
      <4>1. CASE TurnHas(job.turn, "call", job.id)
        BY <4>1 DEF TurnHas
      <4>2. CASE job.id = h.id /\ Seen(CallSource)
        BY <1>4, <4>2 DEF Seen, StreamInv, EventInv
      <4> QED
        BY <3>2, <4>1, <4>2
    <3>4. CalledBefore(Len(events), job.id)'
      BY <1>2, <3>1, <3>3 DEF CalledBefore, TypeInv
    <3>5. setting.style = "builtin" =>
            \A n \in DOMAIN events' : events'[n].type = "result" => events'[n].id # h.id
      BY <1>0, <3>1, Recording
    <3> QED
      BY <3>1, <3>4, <3>5 DEF Records
  <2> QED
    BY <2>1, <2>2
<1>6. job.id = h.id \/ (setting.style = "external" /\ TurnHas(job.turn, "call", job.id)')
  <2>1. CASE job.id # h.id
    <3>1. setting.style = "external" /\ TurnHas(job.turn, "call", job.id)
      BY <1>0, <2>1, Recording
    <3>2. TurnHas(job.turn, "call", job.id)'
      BY <1>2, <1>5, <3>1, EventsStay DEF TurnHas
    <3> QED
      BY <3>1, <3>2
  <2> QED
    BY <2>1
<1>7. /\ job'.hook \in sent' /\ h.kind \in ToolHooks /\ setting' = setting /\ tools' = tools
      /\ job'.turn = active' /\ active' # 0
      /\ job'.id \in Tools /\ tools[job'.id].at # "new"
  BY <1>0, <1>1, <1>2, <1>5, Recording DEF InHook, agent
<1>8. JobInv'
  BY <1>0, <1>2, <1>5, <1>6, <1>7 DEF JobInv
<1> QED
  BY <1>2, <1>5, <1>8, StepOn

LEMMA HookStepKeeps ==
    ASSUME IInv, HookStep
    PROVE  Steps
  BY StepCheck, StepEndOpenTurn, StepStartForPrompt, StepReuseTurn, StepAppendPrompt,
     StepEnsureTurn, StepTakeSnapshot, StepRecordCall, StepAddCall, StepRecordResult,
     StepCloseCall, StepAppendAssistant, StepFinishTurn, StepStopIgnored DEF HookStep

-----------------------------------------------------------------------------
(* The other steps: locks, kills and the agent                              *)

LEMMA StepDeliver ==
    ASSUME IInv, NEW h \in sent, NEW bytes \in {0, 1}, Deliver(h, bytes)
    PROVE  Steps
<1> USE DEF IInv
<1>0. /\ job.pc = "idle" /\ job' = [Idle EXCEPT !.pc = "check", !.hook = h, !.bytes = bytes]
      /\ UNCHANGED <<setting, events, active, snaps, work, agent, killed>>
      /\ h.kind \in ToolHooks \/ bytes = 0
      /\ fresh' \in {fresh, fresh \ {h}}
  BY DEF Deliver
<1>1. h \in HookType
  BY DEF TypeInv
<1>2. job' = [pc |-> "check", hook |-> h, bytes |-> bytes, turn |-> 0, id |-> NoTool, snap |-> 0]
  BY <1>0 DEF Idle
<1>3. job' \in Job
  BY <1>1, <1>2 DEF Job, Labels, Ids
<1>4. JobInv'
  <2>1. job'.pc = "check" /\ job'.hook = h /\ job'.bytes = bytes /\ job'.snap = 0
    BY <1>2
  <2>2. sent' = sent
    BY <1>0 DEF agent
  <2> QED
    BY <1>0, <2>1, <2>2 DEF JobInv
<1>5. PromptHeard'
  <2> SUFFICES ASSUME NEW g \in sent \ (fresh' \cup killed), g.kind = "prompt"
               PROVE  Seen(Source(g, 0))' \/ (job'.pc # "idle" /\ job'.hook = g)
    BY <1>0 DEF PromptHeard, agent
  <2>1. CASE g = h
    BY <1>2, <2>1
  <2>2. CASE g # h
    <3>1. Seen(Source(g, 0))
      BY <1>0, <2>2 DEF PromptHeard
    <3> QED
      BY <1>0, <3>1 DEF Seen, Source, Named, Content
  <2> QED
    BY <2>1, <2>2
<1>6. Records /\ SnapsStay /\ ToolsStay
  BY <1>0 DEF Records, SnapsStay, ToolsStay, agent
<1>7. TypeInv'
  BY <1>0, <1>3 DEF TypeInv, agent, Tool
<1>8. SentInv' /\ SnapInv'
  BY <1>0 DEF SentInv, SnapInv, agent
<1> QED
  BY <1>0, <1>3, <1>4, <1>5, <1>6, <1>7, <1>8 DEF Steps

LEMMA StepKill ==
    ASSUME IInv, Kill
    PROVE  Steps
<1> USE DEF IInv
<1>0. /\ job' = Idle /\ killed' = killed \cup {job.hook}
      /\ UNCHANGED <<setting, events, active, snaps, work, agent, fresh, retries>>
  BY DEF Kill, Done
<1>1. job' \in Job /\ JobInv'
  BY <1>0, IdleJob
<1>2. PromptHeard'
  <2> SUFFICES ASSUME NEW g \in sent \ (fresh \cup killed'), g.kind = "prompt"
               PROVE  Seen(Source(g, 0))'
    BY <1>0 DEF PromptHeard, agent
  <2>1. Seen(Source(g, 0))
    BY <1>0 DEF PromptHeard
  <2> QED
    BY <1>0, <2>1 DEF Seen, Source, Named, Content
<1>3. Records /\ SnapsStay /\ ToolsStay
  BY <1>0 DEF Records, SnapsStay, ToolsStay, agent
<1>4. TypeInv'
  BY <1>0, <1>1 DEF TypeInv, agent, Tool
<1>5. SentInv' /\ SnapInv'
  BY <1>0 DEF SentInv, SnapInv, agent
<1> QED
  BY <1>0, <1>1, <1>2, <1>3, <1>4, <1>5 DEF Steps

\* The agent sends a hook, and nothing else changes for the hook that has the lock.
LEMMA AgentSends ==
    ASSUME IInv, NEW h \in HookType, Sends(h), ToolsStay, SentInv', SnapInv',
           tools' \in [Tools -> Tool], asked' \in Nat, work' \in Nat \ {0}
    PROVE  Steps
<1> USE DEF IInv
<1>0. /\ sent' = sent \cup {h} /\ fresh' = fresh \cup {h}
      /\ UNCHANGED <<setting, events, active, snaps, job, retries, killed>>
  BY DEF Sends, faults
<1>1. TypeInv'
  BY <1>0 DEF TypeInv, Tool
<1>2. PromptHeard'
  <2> SUFFICES ASSUME NEW g \in sent' \ (fresh' \cup killed), g.kind = "prompt"
               PROVE  (Seen(Source(g, 0)) \/ (job.pc # "idle" /\ job.hook = g))'
    BY <1>0 DEF PromptHeard
  <2>1. Seen(Source(g, 0)) \/ (job.pc # "idle" /\ job.hook = g)
    BY <1>0 DEF PromptHeard
  <2> QED
    BY <1>0, <2>1 DEF Seen, Source, Named, Content
<1>3. JobInv'
  <2>1. job.pc # "idle" => job.hook \in sent'
    BY <1>0 DEF JobInv
  <2>2. job.pc \in {"prompt", "text"} => ~Seen(Source(job.hook, job.bytes))'
    BY <1>0 DEF JobInv, Seen, Source, Named, Content
  <2>3. job.pc \in {"snapshot", "record", "result"} => job.id \in Tools /\ tools'[job.id].at # "new"
    BY DEF JobInv, ToolsStay
  <2>4. job.pc = "record" /\ job.hook.kind = "call" /\ job.snap # 0 =>
            SnapKnown(job.turn, job.id, job.snap)'
    BY <1>0 DEF JobInv, SnapKnown
  <2> QED
    BY <1>0, <2>1, <2>2, <2>3, <2>4 DEF JobInv, TurnHas, HasPrompt, CalledBefore
<1>4. Records /\ SnapsStay
  BY <1>0 DEF Records, SnapsStay
<1> QED
  BY <1>0, <1>1, <1>2, <1>3, <1>4 DEF Steps

LEMMA StepPrompt ==
    ASSUME IInv, Prompt \/ Stop
    PROVE  Steps
<1> USE DEF IInv
<1>1. PICK h \in HookType : h.kind \notin ToolHooks /\ Sends(h)
  <2>1. CASE Prompt
    <3>1. Hook("prompt", asked + 1, NoTool) \in HookType
      BY DEF Hook, HookType, HookKinds, Ids, TypeInv
    <3> QED
      BY <2>1, <3>1 DEF Prompt, Hook, ToolHooks
  <2>2. CASE Stop
    <3>1. Hook("stop", asked, NoTool) \in HookType
      BY DEF Hook, HookType, HookKinds, Ids, TypeInv
    <3> QED
      BY <2>2, <3>1 DEF Stop, Hook, ToolHooks
  <2> QED
    BY <2>1, <2>2
<1>2. UNCHANGED <<work, tools>> /\ asked' \in {asked, asked + 1}
  BY DEF Prompt, Stop
<1>3. ToolsStay /\ tools' \in [Tools -> Tool] /\ asked' \in Nat /\ work' \in Nat \ {0}
  BY <1>2 DEF ToolsStay, TypeInv
<1>4. SentInv' /\ SnapInv'
  BY <1>1, <1>2 DEF SentInv, SnapInv, Sends
<1> QED
  BY <1>1, <1>3, <1>4, AgentSends

LEMMA StepCallTool ==
    ASSUME IInv, NEW i \in Tools, CallTool(i)
    PROVE  Steps
<1> USE DEF IInv
<1> DEFINE h == Hook("call", asked, i)
<1>0. /\ tools[i].at = "new" /\ Sends(h) /\ UNCHANGED <<work, asked, open>>
      /\ tools' = [tools EXCEPT ![i] = [NewTool EXCEPT !.at = "called", !.turn = asked]]
  BY DEF CallTool
<1>1. h \in HookType /\ h.id = i /\ h.turn = asked
  BY DEF Hook, HookType, HookKinds, Ids, TypeInv
<1> HIDE DEF h
<1>2. asked \in Nat /\ tools \in [Tools -> Tool] /\ work \in Nat \ {0}
  BY DEF TypeInv
<1>3. tools'[i] = [at |-> "called", turn |-> asked, from |-> 0, pre |-> {}]
      /\ \A j \in Tools \ {i} : tools'[j] = tools[j]
  BY <1>0, <1>2 DEF NewTool
<1>4. [at |-> "called", turn |-> asked, from |-> 0, pre |-> {}] \in Tool
  BY <1>2 DEF Tool
<1>5. tools' \in [Tools -> Tool]
  BY <1>0, <1>2, <1>3, <1>4
<1>6. ToolsStay
  BY <1>0, <1>3 DEF ToolsStay
<1>7. SentInv'
  <2> SUFFICES ASSUME NEW g \in sent', g.kind \in ToolHooks
               PROVE  g.id \in Tools /\ tools'[g.id].at # "new" /\ g.turn = tools'[g.id].turn
    BY DEF SentInv
  <2>1. CASE g \in sent
    BY <2>1, <1>6 DEF SentInv, ToolsStay
  <2>2. CASE g = h
    BY <2>2, <1>1, <1>3
  <2> QED
    BY <1>0, <2>1, <2>2 DEF Sends
<1>8. SnapInv'
  <2>1. setting' = setting /\ snaps' = snaps /\ work' = work
    BY <1>0 DEF Sends
  <2>2. \A j \in Tools : \A key \in tools'[j].pre : snaps[key] <= tools'[j].from
    <3> SUFFICES ASSUME NEW j \in Tools, NEW key \in tools'[j].pre
                 PROVE  snaps[key] <= tools'[j].from
      OBVIOUS
    <3>1. j # i
      BY <1>3
    <3> QED
      BY <1>3, <3>1 DEF SnapInv
  <2> QED
    BY <2>1, <2>2 DEF SnapInv
<1> QED
  BY <1>0, <1>1, <1>2, <1>5, <1>6, <1>7, <1>8, AgentSends

\* What the tool does comes after every snapshot there is.
LEMMA StepRunTool ==
    ASSUME IInv, NEW i \in Tools, RunTool(i)
    PROVE  Steps
<1> USE DEF IInv
<1> DEFINE h == Hook("result", tools[i].turn, i)
           pre == {key \in DOMAIN snaps : key[2] = i}
<1>0. /\ tools[i].at = "called" /\ Sends(h) /\ UNCHANGED <<asked, open>> /\ work' = work + 1
      /\ tools' = [tools EXCEPT ![i].at = "ran", ![i].from = work, ![i].pre = pre]
  BY DEF RunTool
<1>2. asked \in Nat /\ tools \in [Tools -> Tool] /\ work \in Nat \ {0} /\ tools[i] \in Tool
  BY DEF TypeInv
<1>1. h \in HookType /\ h.id = i /\ h.turn = tools[i].turn
  BY <1>2 DEF Hook, HookType, HookKinds, Ids, Tool
<1> HIDE DEF h
<1> HIDE DEF pre
<1>3. tools'[i] = [at |-> "ran", turn |-> tools[i].turn, from |-> work, pre |-> pre]
      /\ \A j \in Tools \ {i} : tools'[j] = tools[j]
  <2> DEFINE t == tools[i]
             t1 == [tools EXCEPT ![i].at = "ran"]
             t2 == [t1 EXCEPT ![i].from = work]
             t3 == [t2 EXCEPT ![i].pre = pre]
  <2>1. t = [at |-> t.at, turn |-> t.turn, from |-> t.from, pre |-> t.pre] /\ DOMAIN tools = Tools
    BY <1>2 DEF Tool
  <2>2. t1[i] = [at |-> "ran", turn |-> t.turn, from |-> t.from, pre |-> t.pre]
        /\ DOMAIN t1 = Tools /\ \A j \in Tools \ {i} : t1[j] = tools[j]
    BY <2>1
  <2>3. t2[i] = [at |-> "ran", turn |-> t.turn, from |-> work, pre |-> t.pre]
        /\ DOMAIN t2 = Tools /\ \A j \in Tools \ {i} : t2[j] = tools[j]
    <3> HIDE DEF t1
    <3> QED
      BY <2>2
  <2>4. t3[i] = [at |-> "ran", turn |-> t.turn, from |-> work, pre |-> pre]
        /\ \A j \in Tools \ {i} : t3[j] = tools[j]
    <3> HIDE DEF t2
    <3> QED
      BY <2>3
  <2>5. tools' = t3
    BY <1>0
  <2> QED
    BY <2>4, <2>5
<1>4. [at |-> "ran", turn |-> tools[i].turn, from |-> work, pre |-> pre] \in Tool
  BY <1>2 DEF Tool, pre
<1>5. tools' \in [Tools -> Tool]
  <2>1. tools' = [j \in Tools |-> tools'[j]]
    BY <1>0, <1>2
  <2>2. \A j \in Tools : tools'[j] \in Tool
    BY <1>2, <1>3, <1>4
  <2> HIDE DEF Tool
  <2> QED
    BY <2>1, <2>2
<1>6. ToolsStay
  <2> SUFFICES ASSUME NEW j \in Tools, tools[j].at # "new"
               PROVE  tools'[j].at # "new" /\ tools'[j].turn = tools[j].turn
    BY DEF ToolsStay
  <2>1. CASE j = i
    BY <2>1, <1>3
  <2>2. CASE j # i
    BY <2>2, <1>3
  <2> QED
    BY <2>1, <2>2
<1>7. SentInv'
  <2> SUFFICES ASSUME NEW g \in sent', g.kind \in ToolHooks
               PROVE  g.id \in Tools /\ tools'[g.id].at # "new" /\ g.turn = tools'[g.id].turn
    BY DEF SentInv
  <2>1. CASE g \in sent
    BY <2>1, <1>6 DEF SentInv, ToolsStay
  <2>2. CASE g = h
    BY <2>2, <1>1, <1>3
  <2> QED
    BY <1>0, <2>1, <2>2 DEF Sends
<1>8. SnapInv'
  <2>1. setting' = setting /\ snaps' = snaps /\ work' = work + 1
    BY <1>0 DEF Sends
  <2>2. \A j \in Tools : \A key \in tools'[j].pre : snaps[key] <= tools'[j].from
    <3> SUFFICES ASSUME NEW j \in Tools, NEW key \in tools'[j].pre
                 PROVE  snaps[key] <= tools'[j].from
      OBVIOUS
    <3>1. CASE j # i
      BY <1>3, <3>1 DEF SnapInv
    <3>2. CASE j = i
      <4>1. key \in DOMAIN snaps /\ snaps[key] <= work
        BY <1>3, <3>2 DEF SnapInv, pre
      <4> QED
        BY <1>3, <3>2, <4>1
    <3> QED
      BY <3>1, <3>2
  <2>3. \A key \in DOMAIN snaps : snaps[key] <= work + 1
    BY <1>2 DEF SnapInv, TypeInv
  <2> QED
    BY <2>1, <2>2, <2>3 DEF SnapInv
<1>9. work' \in Nat \ {0} /\ asked' \in Nat
  BY <1>0, <1>2
<1> QED
  BY <1>0, <1>1, <1>5, <1>6, <1>7, <1>8, <1>9, AgentSends

-----------------------------------------------------------------------------
(* Theorems                                                                 *)

LEMMA InitInv ==
    ASSUME Init
    PROVE  IInv
<1> USE CaptureAssumption DEF Init
<1>1. TypeInv
  <2>1. tools \in [Tools -> Tool]
    BY DEF NewTool, Tool
  <2>2. job \in Job
    BY DEF Idle, Job, Labels, Ids
  <2>3. events \in Seq(EventType)
    OBVIOUS
  <2> QED
    BY <2>1, <2>2, <2>3 DEF TypeInv
<1>2. DOMAIN events = {} /\ DOMAIN snaps = {}
  OBVIOUS
<1>3. SentInv /\ StreamInv /\ PairInv /\ PromptOnce /\ PromptHeard /\ StopSettles
  BY <1>2 DEF SentInv, StreamInv, PairInv, PromptOnce, PromptHeard, StopSettles
<1>4. TurnInv
  BY <1>2 DEF TurnInv
<1>5. SnapInv
  BY <1>2 DEF SnapInv, NewTool
<1>6. JobInv
  BY DEF JobInv, Idle
<1> QED
  BY <1>1, <1>3, <1>4, <1>5, <1>6 DEF IInv

LEMMA NextKeeps ==
    ASSUME IInv, [Next]_vars
    PROVE  IInv'
<1>1. CASE Next
  <2>1. Steps
    BY <1>1, HookStepKeeps, StepDeliver, StepKill, StepPrompt, StepCallTool, StepRunTool
       DEF Next
  <2>2. TurnInv' /\ StreamInv' /\ PairInv' /\ PromptOnce' /\ StopSettles'
    BY <2>1, StreamKept DEF IInv, Steps
  <2> QED
    BY <2>1, <2>2 DEF IInv, Steps
<1>2. CASE UNCHANGED vars
  <2>1. /\ setting' = setting /\ events' = events /\ active' = active /\ snaps' = snaps
        /\ job' = job /\ work' = work /\ asked' = asked /\ tools' = tools /\ sent' = sent
        /\ fresh' = fresh /\ killed' = killed
    BY <1>2 DEF vars, agent, faults
  <2>a. TypeInv'
    <3>1. Tool' = Tool
      BY <2>1 DEF Tool
    <3>2. Job' = Job /\ EventType' = EventType /\ HookType' = HookType
      OBVIOUS
    <3>3. TypeInv
      BY DEF IInv
    <3>4. setting' \in Setting /\ events' \in Seq(EventType) /\ active' \in Nat
          /\ work' \in Nat \ {0} /\ asked' \in Nat
      BY <2>1, <3>3 DEF TypeInv
    <3>5. \A key \in DOMAIN snaps' : snaps'[key] \in Nat
      BY <2>1, <3>3 DEF TypeInv
    <3>6. tools' \in [Tools -> Tool] /\ job' \in Job /\ sent' \subseteq HookType
          /\ fresh' \subseteq sent'
      BY <2>1, <3>3 DEF TypeInv
    <3> QED
      BY <3>1, <3>4, <3>5, <3>6 DEF TypeInv
  <2>b. SentInv' /\ SnapInv'
    BY <2>1 DEF IInv, SentInv, SnapInv
  <2>c. PromptHeard'
    <3> SUFFICES ASSUME NEW g \in sent', g \notin fresh', g \notin killed', g.kind = "prompt"
                 PROVE  Seen(Source(g, 0))' \/ (job'.pc # "idle" /\ job'.hook = g)
      BY DEF PromptHeard
    <3>1. Seen(Source(g, 0)) \/ (job.pc # "idle" /\ job.hook = g)
      BY <2>1 DEF IInv, PromptHeard
    <3>2. CASE Seen(Source(g, 0))
      BY <2>1, <3>2 DEF Seen, Source, Named, Content
    <3> QED
      BY <2>1, <3>1, <3>2
  <2>2. TypeInv' /\ SentInv' /\ SnapInv' /\ PromptHeard'
    BY <2>a, <2>b, <2>c
  <2>3. Records /\ SnapsStay /\ ToolsStay
    BY <2>1 DEF Records, SnapsStay, ToolsStay
  <2>4. TurnInv' /\ StreamInv' /\ PairInv' /\ PromptOnce' /\ StopSettles'
    BY <2>1, <2>3, StreamKept DEF IInv
  <2>5. JobInv'
    BY <2>1 DEF IInv, JobInv, Seen, Source, Named, Content, TurnHas, HasPrompt, SnapKnown,
                CalledBefore
  <2> QED
    BY <2>2, <2>4, <2>5 DEF IInv
<1> QED
  BY <1>1, <1>2

\* The inductive invariant of hook capture holds in every state.
THEOREM Invariance == Spec => []IInv
<1>1. Init => IInv
  BY InitInv
<1>2. IInv /\ [Next]_vars => IInv'
  BY NextKeeps
<1> QED
  BY <1>1, <1>2, PTL DEF Spec

\* Every prompt whose hook was not cut short is recorded, once, in a turn of its own
\* (processHook, startPromptTurn).
THEOREM PromptsAreKept == Spec => []PromptsKept
<1>1. IInv => PromptsKept
  BY DEF IInv, PromptOnce, PromptHeard, PromptsKept
<1> QED
  BY <1>1, Invariance, PTL

\* Calls are paired with their results, and a call's snapshot is of the workspace before
\* its tool ran (captureAndAppendToolResult, captureActionSnapshotLocked).
THEOREM CallsAreTrue == Spec => []CallsTrue
<1>1. ASSUME IInv PROVE ToolsPaired
  <2>1. ASSUME NEW n \in DOMAIN events, events[n].type \in ToolHooks
        PROVE  Positions(events[n].turn, events[n].type, events[n].id) = {n}
    BY <1>1, <2>1 DEF IInv, PairInv, SameUse, Positions
  <2>2. ASSUME NEW n \in DOMAIN events, events[n].type = "result"
        PROVE  \E m \in 1 .. n : events[m].type = "call" /\ events[m].id = events[n].id
    BY <1>1, <2>2 DEF IInv, StreamInv, EventInv, CalledBefore
  <2>3. setting.style = "builtin" => \A m, n \in DOMAIN events :
            events[m].type = "result" /\ events[n].type = "result" /\ events[m].id = events[n].id
                => m = n
    BY <1>1 DEF IInv, PairInv
  <2> QED
    BY <2>1, <2>2, <2>3 DEF ToolsPaired
<1>2. ASSUME IInv PROVE CallsSeeBefore
  <2> SUFFICES ASSUME NEW n \in DOMAIN events, events[n].type = "call", events[n].snap # 0,
                      <<events[n].turn, events[n].id, "call">> \in tools[events[n].id].pre
               PROVE  events[n].snap <= tools[events[n].id].from
    BY DEF CallsSeeBefore
  <2> DEFINE e == events[n]
             key == <<e.turn, e.id, "call">>
  <2>1. e.id \in Tools /\ SnapKnown(e.turn, e.id, e.snap)
    BY <1>2 DEF IInv, StreamInv, EventInv, ToolHooks
  <2>2. key \in DOMAIN snaps
    BY <1>2, <2>1 DEF IInv, TypeInv, Tool
  <2>3. ~(setting.style = "external" /\ e.id \in Observed)
    BY <1>2, <2>2 DEF IInv, SnapInv
  <2>4. e.snap = snaps[key]
    BY <2>1, <2>3 DEF SnapKnown
  <2> QED
    BY <1>2, <2>1, <2>4 DEF IInv, SnapInv
<1>3. IInv => CallsTrue
  BY <1>1, <1>2 DEF CallsTrue
<1> QED
  BY <1>3, Invariance, PTL

\* When the agent's last message is recorded, every call of its turn has a result, real or
\* of unknown outcome, but for calls that ran `turnal intent` (closeUnmatchedToolCalls).
THEOREM StopsSettle == Spec => []StopSettles
<1>1. IInv => StopSettles
  BY DEF IInv
<1> QED
  BY <1>1, Invariance, PTL
=============================================================================
