------------------------- MODULE SharedHistoryProofs -------------------------
(* What holds of SharedHistory for every value of its constants: any number   *)
(* of devices, turns, remotes and faults.                                     *)
EXTENDS SharedHistory, TLAPS

----------------------------------------------------------------------------
(* Types                                                                     *)

Policies == [remote : Remotes, mode : PromptModes, approved : BOOLEAN, disabled : BOOLEAN]
Pcs      == {"idle", "configure"} \union Pushing \union Pulling

LEMMA PcNames ==
    {"look", "send", "confirm", "promote", "scan", "outbox", "list", "read", "write", "configure"} \subseteq Pcs
  BY DEF Pcs, Pushing, Pulling

LEMMA NoneType == None \in Commit /\ \A n \in Nat : At(n) \in Commit
  BY DEF None, At, Commit

LEMMA StartStateType == StartState \in State /\ StartState.remote = StartPolicy.remote
<1>1. NoneSeen \in [Devices -> Commit] /\ NoneHeld \in [Devices -> {"no", "gone", "invalid"}]
  BY NoneType DEF NoneSeen, NoneHeld
<1> QED
  BY <1>1, SharedAssumption DEF StartState, State

LEMMA IdleType ==
    /\ Idle \in Operation /\ Idle.pc = "idle" /\ Idle.from = {} /\ Idle.left = {}
    /\ Idle.state = StartState /\ Idle.last = FALSE
<1>1. NoneSeen \in [Devices -> Commit]
  BY NoneType DEF NoneSeen
<1> QED
  BY <1>1, StartStateType DEF Idle, Operation

\* The fields of state.json are set one at a time.
LEMMA StateFields ==
    ASSUME NEW st \in State
    PROVE  /\ \A x \in SUBSET Turns :
                 LET n == [st EXCEPT !.committed = x]
                 IN  /\ n \in State /\ n.committed = x
                     /\ n.remote = st.remote /\ n.head = st.head /\ n.published = st.published
                     /\ n.lastSeen = st.lastSeen
           /\ \A x \in SUBSET Turns :
                 LET n == [st EXCEPT !.published = x]
                 IN  /\ n \in State /\ n.published = x
                     /\ n.remote = st.remote /\ n.head = st.head /\ n.committed = st.committed
                     /\ n.lastSeen = st.lastSeen
           /\ \A x \in Nat :
                 LET n == [st EXCEPT !.head = x]
                 IN  /\ n \in State /\ n.head = x
                     /\ n.remote = st.remote /\ n.committed = st.committed
                     /\ n.published = st.published /\ n.lastSeen = st.lastSeen
           /\ \A x \in [Devices -> Commit] :
                 LET n == [st EXCEPT !.lastSeen = x]
                 IN  /\ n \in State /\ n.lastSeen = x
                     /\ n.remote = st.remote /\ n.committed = st.committed
                     /\ n.published = st.published /\ n.head = st.head
  BY DEF State

LEMMA AlignedType ==
    ASSUME NEW st \in State, NEW r \in Remotes
    PROVE  /\ Aligned(st, r) \in State
           /\ Aligned(st, r).remote = r
           /\ Aligned(st, r).committed = st.committed /\ Aligned(st, r).head = st.head
           /\ Aligned(st, r).published = st.published
           /\ Aligned(st, r).lastSeen \in {st.lastSeen, NoneSeen}
<1>1. NoneSeen \in [Devices -> Commit] /\ NoneHeld \in [Devices -> {"no", "gone", "invalid"}]
  BY NoneType DEF NoneSeen, NoneHeld
<1> QED
  BY <1>1 DEF Aligned, State

LEMMA OutboxTypes ==
    ASSUME TypeOK, NEW d \in Devices
    PROVE  /\ chain[d] \in Seq(Batch) /\ Len(chain[d]) \in Nat
           /\ \A n \in 1 .. Len(chain[d]) :
                 /\ chain[d][n].turns \in SUBSET Turns
                 /\ chain[d][n].policy \in [remote : Remotes, mode : PromptModes]
           /\ chain[d] = <<>> <=> Len(chain[d]) = 0
           /\ DOMAIN chain[d] = 1 .. Len(chain[d])
<1>1. chain[d] \in Seq(Batch)
  BY DEF TypeOK
<1>2. \A n \in 1 .. Len(chain[d]) : chain[d][n] \in Batch
  BY <1>1
<1> QED
  BY <1>1, <1>2 DEF Batch

LEMMA RecoveredType ==
    ASSUME TypeOK, NEW d \in Devices, NEW st \in State
    PROVE  /\ Recovered(d, st) \in State
           /\ Recovered(d, st).remote = st.remote /\ Recovered(d, st).published = st.published
           /\ Recovered(d, st).lastSeen = st.lastSeen
           /\ \/ Recovered(d, st) = st
                 /\ (st.committed # {} \/ chain[d] = <<>> \/ st.lastSeen[d] = Tip(d))
              \/ /\ st.committed = {} /\ Len(chain[d]) > 0 /\ st.lastSeen[d] # Tip(d)
                 /\ Recovered(d, st).committed = chain[d][Len(chain[d])].turns \ st.published
                 /\ Recovered(d, st).committed # {} => Recovered(d, st).head = Len(chain[d])
<1>1. CASE st.committed # {} \/ chain[d] = <<>> \/ st.lastSeen[d] = Tip(d)
  BY <1>1 DEF Recovered
<1>2. CASE ~ (st.committed # {} \/ chain[d] = <<>> \/ st.lastSeen[d] = Tip(d))
  <2> DEFINE rest == chain[d][Len(chain[d])].turns \ st.published
             place == IF rest = {} THEN 0 ELSE Len(chain[d])
  <2>1. Recovered(d, st) = [st EXCEPT !.committed = rest, !.head = place]
    BY <1>2 DEF Recovered
  <2>2. /\ rest \in SUBSET Turns /\ Len(chain[d]) \in Nat /\ Len(chain[d]) > 0
        /\ place \in Nat /\ (rest # {} => place = Len(chain[d]))
    BY <1>2, OutboxTypes
  <2> HIDE DEF rest, place
  <2>3. /\ Recovered(d, st) \in State
        /\ Recovered(d, st).remote = st.remote /\ Recovered(d, st).published = st.published
        /\ Recovered(d, st).lastSeen = st.lastSeen
        /\ Recovered(d, st).committed = rest
        /\ rest # {} => Recovered(d, st).head = Len(chain[d])
    BY <2>1, <2>2 DEF State
  <2> QED
    BY <1>2, <2>2, <2>3 DEF rest
<1> QED
  BY <1>1, <1>2

LEMMA PolicyTypes ==
    ASSUME TypeOK, NEW d \in Devices
    PROVE  /\ policy[d] \in Policies /\ policy[d].remote \in Remotes
           /\ Digest(policy[d]) \in [remote : Remotes, mode : PromptModes]
           /\ saved[d] \in State
           /\ op[d] \in Operation /\ op[d].state \in State /\ op[d].from \subseteq op[d].left
           /\ op[d].left \subseteq Devices /\ (op[d].pc # "write" => op[d].from = {})
  BY DEF TypeOK, Policies, Digest, Operation, Open

LEMMA LoadedType ==
    ASSUME TypeOK, NEW d \in Devices
    PROVE  Loaded(d) \in State
  BY PolicyTypes, AlignedType, RecoveredType DEF Loaded

\* What an operation may change of itself.
LEMMA ReturnType ==
    ASSUME TypeOK, NEW d \in Devices, Return(d)
    PROVE  /\ op' \in [Devices -> Operation] /\ \A x \in Devices : op'[x].from \subseteq Open(op'[x])
           /\ op'[d] = Idle /\ \A x \in Devices \ {d} : op'[x] = op[x]
  BY IdleType DEF TypeOK, Return

LEMMA GotoType ==
    ASSUME TypeOK, NEW d \in Devices, NEW label \in Pcs, Goto(d, label), op[d].pc # "write"
    PROVE  /\ op' \in [Devices -> Operation] /\ \A x \in Devices : op'[x].from \subseteq Open(op'[x])
           /\ op'[d].pc = label /\ op'[d].state = op[d].state /\ op'[d].last = op[d].last
           /\ op'[d].listed = op[d].listed /\ op'[d].left = op[d].left /\ op'[d].from = op[d].from
           /\ \A x \in Devices \ {d} : op'[x] = op[x]
<1>1. op'[d] = [op[d] EXCEPT !.pc = label] /\ \A x \in Devices \ {d} : op'[x] = op[x]
  BY DEF TypeOK, Goto
<1>2. op'[d] \in Operation /\ op'[d].pc = label /\ op'[d].state = op[d].state /\ op'[d].last = op[d].last
      /\ op'[d].listed = op[d].listed /\ op'[d].left = op[d].left /\ op'[d].from = op[d].from
  BY <1>1, PolicyTypes DEF Operation, Pcs
<1>3. op' \in [Devices -> Operation]
  BY <1>2 DEF TypeOK, Goto
<1>4. op'[d].from \subseteq Open(op'[d])
  BY <1>2, PolicyTypes
<1> QED
  BY <1>1, <1>2, <1>3, <1>4 DEF TypeOK

\* ... when its record is given as a whole.
LEMMA BecomeType ==
    ASSUME TypeOK, NEW d \in Devices, NEW c \in Operation, c.from \subseteq Open(c),
           op' = [op EXCEPT ![d] = c]
    PROVE  /\ op' \in [Devices -> Operation] /\ \A x \in Devices : op'[x].from \subseteq Open(op'[x])
           /\ op'[d] = c /\ \A x \in Devices \ {d} : op'[x] = op[x]
  BY DEF TypeOK

LEMMA SaveType ==
    ASSUME TypeOK, NEW d \in Devices, NEW st \in State, Save(d, st)
    PROVE  /\ saved' \in [Devices -> State]
           /\ saved'[d] = st /\ \A x \in Devices \ {d} : saved'[x] = saved[x]
  BY DEF TypeOK, Save

Started(label, st) == [Idle EXCEPT !.pc = label, !.state = st]

LEMMA StartedType ==
    ASSUME NEW st \in State, NEW label \in Pcs
    PROVE  /\ Started(label, st) \in Operation
           /\ Started(label, st).pc = label /\ Started(label, st).state = st
           /\ Started(label, st).left = {} /\ Started(label, st).from = {}
  BY IdleType DEF Started, Operation, Pcs

LEMMA FaultType ==
    ASSUME TypeOK, NEW kind, Fault(kind)
    PROVE  faults' \in 0 .. MaxFaults
  BY SharedAssumption DEF TypeOK, Fault

LEMMA InitTypes == Init => TypeOK
<1> SUFFICES ASSUME Init PROVE TypeOK
  OBVIOUS
<1>1. NoneSeen \in [Devices -> Commit]
  BY NoneType DEF NoneSeen
<1>2. policy \in [Devices -> Policies]
  BY SharedAssumption DEF Init, Policies
<1>3. saved \in [Devices -> State] /\ op \in [Devices -> Operation]
      /\ \A d \in Devices : op[d].from \subseteq Open(op[d])
  BY StartStateType, IdleType DEF Init
<1>4. chain \in [Devices -> Seq(Batch)]
  <2>1. <<>> \in Seq(Batch)
    OBVIOUS
  <2> QED
    BY <2>1 DEF Init
<1>5. faults \in 0 .. MaxFaults
  BY SharedAssumption DEF Init
<1> QED
  BY <1>1, <1>2, <1>3, <1>4, <1>5 DEF Init, TypeOK, Policies

----------------------------------------------------------------------------
(* Every step keeps the types                                                *)

LEMMA StartPushTypes ==
    ASSUME TypeOK, NEW d \in Devices, StartPush(d)
    PROVE  /\ TypeOK' /\ \A x \in Devices \ {d} : op'[x] = op[x]
           /\ op'[d].pc \in {"scan", "look"} /\ (op'[d].pc = "scan" <=> chain[d] = <<>>)
           /\ op'[d].state = Loaded(d)
<1> DEFINE label == IF chain[d] = <<>> THEN "scan" ELSE "look"
           c == Started(label, Loaded(d))
<1>1. c \in Operation /\ c.pc = label /\ c.state = Loaded(d) /\ c.left = {} /\ c.from = {}
  <2>1. label \in Pcs
    BY PcNames
  <2> HIDE DEF label
  <2> QED
    BY <2>1, LoadedType, StartedType
<1>2. op' = [op EXCEPT ![d] = c]
  BY DEF StartPush, Started
<1> HIDE DEF c
<1>3. /\ op' \in [Devices -> Operation] /\ \A x \in Devices : op'[x].from \subseteq Open(op'[x])
      /\ op'[d] = c /\ \A x \in Devices \ {d} : op'[x] = op[x]
  BY <1>1, <1>2, BecomeType
<1> QED
  BY <1>1, <1>3 DEF StartPush, KeepOutbox, KeepPolicy, KeepPulled, KeepFaults, TypeOK

LEMMA LookTypes ==
    ASSUME TypeOK, NEW d \in Devices, Look(d)
    PROVE  TypeOK'
<1>1. op' \in [Devices -> Operation] /\ \A x \in Devices : op'[x].from \subseteq Open(op'[x])
  BY ReturnType, GotoType, PcNames DEF Look, Pc
<1> QED
  BY <1>1 DEF Look, KeepOutbox, KeepPolicy, KeepPulled, KeepFaults, TypeOK

LEMMA SendTypes ==
    ASSUME TypeOK, NEW d \in Devices, Send(d)
    PROVE  TypeOK'
<1>1. op' \in [Devices -> Operation] /\ \A x \in Devices : op'[x].from \subseteq Open(op'[x])
  BY ReturnType, GotoType, PcNames DEF Send, Pc
<1>2. Tip(d) \in Commit
  BY OutboxTypes, NoneType DEF Tip
<1>3. remote' \in [Remotes -> [Devices -> Commit]]
  <2>1. UNCHANGED remote \/ remote' = [remote EXCEPT ![policy[d].remote][d] = Tip(d)]
    BY DEF Send
  <2>2. CASE UNCHANGED remote
    BY <2>2 DEF TypeOK
  <2>3. CASE remote' = [remote EXCEPT ![policy[d].remote][d] = Tip(d)]
    BY <1>2, <2>3, PolicyTypes DEF TypeOK
  <2> QED
    BY <2>1, <2>2, <2>3
<1> QED
  BY <1>1, <1>3 DEF Send, KeepPolicy, KeepPulled, KeepFaults, TypeOK

LEMMA ConfirmTypes ==
    ASSUME TypeOK, NEW d \in Devices, Confirm(d)
    PROVE  TypeOK'
<1>1. op' \in [Devices -> Operation] /\ \A x \in Devices : op'[x].from \subseteq Open(op'[x])
  BY ReturnType, GotoType, PcNames DEF Confirm, Pc
<1> QED
  BY <1>1 DEF Confirm, KeepOutbox, KeepPolicy, KeepPulled, KeepFaults, TypeOK

\* What Promote leaves in state.json.
PromotedState(d) ==
    [op[d].state EXCEPT !.published = op[d].state.published \union op[d].state.committed, !.committed = {}, !.head = 0,
                        !.lastSeen[d] = Tip(d)]

LEMMA PromotedType ==
    ASSUME TypeOK, NEW d \in Devices
    PROVE  /\ PromotedState(d) \in State
           /\ PromotedState(d).published = op[d].state.published \union op[d].state.committed
           /\ PromotedState(d).committed = {}
           /\ PromotedState(d).lastSeen[d] = Tip(d)
           /\ \A e \in Devices \ {d} : PromotedState(d).lastSeen[e] = op[d].state.lastSeen[e]
<1> DEFINE st == op[d].state
           seen == [st.lastSeen EXCEPT ![d] = Tip(d)]
           all == st.published \union st.committed
<1>1. Tip(d) \in Commit
  BY OutboxTypes, NoneType DEF Tip
<1>2. st \in State
  BY PolicyTypes
<1>3. /\ seen \in [Devices -> Commit] /\ all \in SUBSET Turns
      /\ seen[d] = Tip(d) /\ \A e \in Devices \ {d} : seen[e] = st.lastSeen[e]
  BY <1>1, <1>2 DEF State
<1>4. PromotedState(d) = [st EXCEPT !.published = all, !.committed = {}, !.head = 0, !.lastSeen = seen]
  BY <1>2 DEF PromotedState, State
<1> HIDE DEF seen, all, st
<1>5. /\ PromotedState(d) \in State
      /\ PromotedState(d).published = all /\ PromotedState(d).committed = {}
      /\ PromotedState(d).lastSeen = seen
  <2> DEFINE a == [st EXCEPT !.published = all]
             b == [a EXCEPT !.committed = {}]
             c == [b EXCEPT !.head = 0]
  <2>1. a \in State /\ a.published = all
    BY <1>2, <1>3, StateFields
  <2>2. b \in State /\ b.published = all /\ b.committed = {}
    <3> HIDE DEF a
    <3> QED
      BY <2>1, StateFields
  <2>3. c \in State /\ c.published = all /\ c.committed = {}
    <3> HIDE DEF b
    <3> QED
      BY <2>2, StateFields
  <2>4. PromotedState(d) = [c EXCEPT !.lastSeen = seen]
    BY <1>4
  <2> HIDE DEF c
  <2> QED
    BY <1>3, <2>3, <2>4, StateFields
<1> QED
  BY <1>3, <1>5 DEF all, st

LEMMA PromoteTypes ==
    ASSUME TypeOK, NEW d \in Devices, Promote(d)
    PROVE  /\ TypeOK' /\ saved'[d] = PromotedState(d)
           /\ \/ op'[d] = Idle
              \/ op'[d].pc = "scan" /\ op'[d].state = PromotedState(d)
           /\ \A x \in Devices \ {d} : op'[x] = op[x] /\ saved'[x] = saved[x]
<1>1. Save(d, PromotedState(d))
  BY DEF Promote, PromotedState
<1>2. PromotedState(d) \in State
  BY PromotedType
<1>3. op' = [op EXCEPT ![d] = IF op[d].last THEN Idle
                             ELSE [op[d] EXCEPT !.pc = "scan", !.state = PromotedState(d)]]
  BY DEF Promote, PromotedState
<1> DEFINE c == IF op[d].last THEN Idle ELSE [op[d] EXCEPT !.pc = "scan", !.state = PromotedState(d)]
<1>4. c \in Operation /\ c.from \subseteq Open(c) /\ (c = Idle \/ (c.pc = "scan" /\ c.state = PromotedState(d)))
  <2> DEFINE go == [op[d] EXCEPT !.pc = "scan", !.state = PromotedState(d)]
  <2>1. c = Idle \/ c = go
    OBVIOUS
  <2>2. go \in Operation /\ go.from \subseteq Open(go) /\ go.pc = "scan" /\ go.state = PromotedState(d)
    <3>1. op[d] \in Operation /\ op[d].from = {} /\ "scan" \in Pcs
      BY PolicyTypes, PcNames DEF Promote, Pc
    <3> QED
      BY <1>2, <3>1 DEF Operation, Pcs
  <2> HIDE DEF c, go
  <2> QED
    BY <2>1, <2>2, IdleType
<1>5. op' = [op EXCEPT ![d] = c]
  BY <1>3
<1> HIDE DEF c
<1>6. /\ op' \in [Devices -> Operation] /\ \A x \in Devices : op'[x].from \subseteq Open(op'[x])
      /\ op'[d] = c /\ \A x \in Devices \ {d} : op'[x] = op[x]
  BY <1>4, <1>5, BecomeType
<1>7. /\ saved' \in [Devices -> State] /\ saved'[d] = PromotedState(d)
      /\ \A x \in Devices \ {d} : saved'[x] = saved[x]
  BY <1>1, <1>2, SaveType
<1> QED
  BY <1>4, <1>6, <1>7 DEF Promote, KeepOutbox, KeepPolicy, KeepPulled, KeepFaults, TypeOK

LEMMA SaveAndReturnTypes ==
    ASSUME TypeOK, NEW d \in Devices, Save(d, op[d].state), Return(d)
    PROVE  /\ op' \in [Devices -> Operation] /\ \A x \in Devices : op'[x].from \subseteq Open(op'[x])
           /\ saved' \in [Devices -> State]
           /\ op'[d] = Idle /\ saved'[d] = op[d].state
           /\ \A x \in Devices \ {d} : op'[x] = op[x] /\ saved'[x] = saved[x]
  BY PolicyTypes, ReturnType, SaveType

LEMMA NothingNewTypes ==
    ASSUME TypeOK, NEW d \in Devices, NothingNew(d)
    PROVE  TypeOK'
  BY SaveAndReturnTypes DEF NothingNew, KeepOutbox, KeepPolicy, KeepPulled, KeepFaults, TypeOK

LEMMA FinishPullTypes ==
    ASSUME TypeOK, NEW d \in Devices, FinishPull(d)
    PROVE  TypeOK'
  BY SaveAndReturnTypes DEF FinishPull, KeepOutbox, KeepPolicy, KeepPulled, KeepFaults, TypeOK

LEMMA SaveConfiguredTypes ==
    ASSUME TypeOK, NEW d \in Devices, SaveConfigured(d)
    PROVE  TypeOK'
  BY SaveAndReturnTypes DEF SaveConfigured, KeepOutbox, KeepPolicy, KeepPulled, KeepFaults, TypeOK

LEMMA SaveOutboxTypes ==
    ASSUME TypeOK, NEW d \in Devices, SaveOutbox(d)
    PROVE  /\ TypeOK' /\ saved'[d] = op[d].state
           /\ \A x \in Devices \ {d} : saved'[x] = saved[x]
<1>1. op' \in [Devices -> Operation] /\ \A x \in Devices : op'[x].from \subseteq Open(op'[x])
  BY GotoType, PcNames DEF SaveOutbox, Pc
<1>2. /\ saved' \in [Devices -> State] /\ saved'[d] = op[d].state
      /\ \A x \in Devices \ {d} : saved'[x] = saved[x]
  BY PolicyTypes, SaveType DEF SaveOutbox
<1> QED
  BY <1>1, <1>2 DEF SaveOutbox, KeepOutbox, KeepPolicy, KeepPulled, KeepFaults, TypeOK

\* What CommitBatch leaves in its copy of state.json.
CommittedState(d, S) ==
    [op[d].state EXCEPT !.committed = op[d].state.committed \union S, !.head = Len(chain[d]) + 1]

\* A batch becomes the last commit of the outbox, and waits.
LEMMA CommitBatchTypes ==
    ASSUME TypeOK, NEW d \in Devices, CommitBatch(d)
    PROVE  /\ TypeOK' /\ \A x \in Devices \ {d} : op'[x] = op[x] /\ chain'[x] = chain[x]
           /\ \/ op'[d] = Idle /\ UNCHANGED chain
              \/ \E S \in Batches(d) :
                    /\ chain'[d] = Append(chain[d], [turns |-> S, policy |-> Digest(policy[d])])
                    /\ op'[d].pc = "outbox" /\ op'[d].left = op[d].left /\ op'[d].from = op[d].from
                    /\ LET st == CommittedState(d, S)
                       IN  /\ op'[d].state = st
                           /\ st.committed = op[d].state.committed \union S /\ st.head = Len(chain[d]) + 1
                           /\ st.published = op[d].state.published
                           /\ st.lastSeen = op[d].state.lastSeen
<1>1. PICK S \in Batches(d) :
          IF Immutable(d, S)
          THEN /\ chain' = [chain EXCEPT ![d] = Append(@, [turns |-> S, policy |-> Digest(policy[d])])]
               /\ op' = [op EXCEPT ![d] = [op[d] EXCEPT !.pc = "outbox", !.last = TRUE,
                                                       !.state = CommittedState(d, S)]]
          ELSE UNCHANGED chain /\ Return(d)
  BY DEF CommitBatch, CommittedState
<1>2. CASE Immutable(d, S)
  <2> DEFINE b == [turns |-> S, policy |-> Digest(policy[d])]
             st == CommittedState(d, S)
             c == [op[d] EXCEPT !.pc = "outbox", !.last = TRUE, !.state = st]
  <2>1. S \in SUBSET Turns
    <3>1. S \subseteq Pending(d)
      BY <1>1 DEF Batches
    <3> QED
      BY <3>1 DEF Pending, TypeOK
  <2>2. b \in Batch
    BY <2>1, PolicyTypes DEF Batch
  <2>3. /\ st \in State /\ st.head = Len(chain[d]) + 1 /\ st.committed = op[d].state.committed \union S
        /\ st.published = op[d].state.published /\ st.lastSeen = op[d].state.lastSeen
    <3>1. op[d].state \in State /\ op[d].state.committed \union S \in SUBSET Turns /\ Len(chain[d]) + 1 \in Nat
      BY <2>1, PolicyTypes, OutboxTypes DEF State
    <3> DEFINE all == op[d].state.committed \union S
               place == Len(chain[d]) + 1
               old == op[d].state
    <3>2. st = [old EXCEPT !.committed = all, !.head = place]
      BY DEF CommittedState
    <3>3. old \in State /\ all \in SUBSET Turns /\ place \in Nat
      BY <3>1
    <3> HIDE DEF all, place, old, st
    <3>4. /\ st \in State /\ st.head = place /\ st.committed = all
          /\ st.published = old.published /\ st.lastSeen = old.lastSeen
      BY <3>2, <3>3 DEF State
    <3> QED
      BY <3>4 DEF all, place, old
  <2>4. c \in Operation /\ c.pc = "outbox" /\ c.state = st /\ c.left = op[d].left /\ c.from = op[d].from
    <3>1. op[d] \in Operation /\ "outbox" \in Pcs
      BY PolicyTypes, PcNames
    <3> HIDE DEF st
    <3> QED
      BY <2>3, <3>1 DEF Operation, Pcs
  <2>5. chain' = [chain EXCEPT ![d] = Append(@, b)]
    BY <1>1, <1>2
  <2>6. op' = [op EXCEPT ![d] = c]
    BY <1>1, <1>2
  <2> HIDE DEF b, c
  <2>7. chain' \in [Devices -> Seq(Batch)] /\ chain'[d] = Append(chain[d], b)
        /\ \A x \in Devices \ {d} : chain'[x] = chain[x]
    BY <2>2, <2>5, OutboxTypes DEF TypeOK
  <2>8. /\ op' \in [Devices -> Operation] /\ \A x \in Devices : op'[x].from \subseteq Open(op'[x])
        /\ op'[d] = c /\ \A x \in Devices \ {d} : op'[x] = op[x]
    <3>1. c.from \subseteq Open(c)
      BY <2>4, PolicyTypes DEF CommitBatch, Pc
    <3> QED
      BY <2>4, <2>6, <3>1, BecomeType
  <2>9. TypeOK'
    BY <2>7, <2>8 DEF CommitBatch, KeepPolicy, KeepPulled, KeepFaults, TypeOK
  <2> QED
    BY <1>1, <2>3, <2>4, <2>7, <2>8, <2>9 DEF b
<1>3. CASE ~ Immutable(d, S)
  <2>1. UNCHANGED chain /\ Return(d)
    BY <1>1, <1>3
  <2> QED
    BY <2>1, ReturnType DEF CommitBatch, KeepPolicy, KeepPulled, KeepFaults, TypeOK
<1> QED
  BY <1>2, <1>3

\* The state a pull starts from.
PullState(d) ==
    LET st == Aligned(saved[d], policy[d].remote)
    IN  [st EXCEPT !.lastSeen = Tracked(d, st)]

LEMMA PullStateType ==
    ASSUME TypeOK, NEW d \in Devices
    PROVE  LET st == Aligned(saved[d], policy[d].remote)
           IN  /\ PullState(d) \in State /\ st \in State /\ st.remote \in Remotes
               /\ PullState(d).lastSeen = Tracked(d, st)
               /\ PullState(d).committed = st.committed /\ PullState(d).head = st.head
               /\ PullState(d).published = st.published
<1> DEFINE st == Aligned(saved[d], policy[d].remote)
<1>1. st \in State /\ st.remote \in Remotes
  BY PolicyTypes, AlignedType
<1>2. Tracked(d, st) \in [Devices -> Commit]
  <2> HIDE DEF st
  <2> QED
    BY <1>1 DEF Tracked, TypeOK, State
<1> HIDE DEF st
<1>3. PullState(d) = [st EXCEPT !.lastSeen = Tracked(d, st)]
  BY DEF PullState, st
<1>4. /\ PullState(d) \in State
      /\ PullState(d).lastSeen = Tracked(d, st)
      /\ PullState(d).committed = st.committed /\ PullState(d).head = st.head
      /\ PullState(d).published = st.published
  BY <1>1, <1>2, <1>3 DEF State
<1> QED
  BY <1>1, <1>4 DEF st

LEMMA StartPullTypes ==
    ASSUME TypeOK, NEW d \in Devices, StartPull(d)
    PROVE  /\ TypeOK' /\ op'[d].pc = "list" /\ op'[d].state = PullState(d)
           /\ op'[d].left = {} /\ op'[d].from = {}
           /\ saved'[d] \in {saved[d], PullState(d)}
           /\ \A x \in Devices \ {d} : op'[x] = op[x] /\ saved'[x] = saved[x]
<1> DEFINE c == Started("list", PullState(d))
<1>1. PullState(d) \in State
  BY PullStateType
<1>2. c \in Operation /\ c.pc = "list" /\ c.state = PullState(d) /\ c.left = {} /\ c.from = {}
  BY <1>1, PcNames, StartedType
<1>3. op' = [op EXCEPT ![d] = c]
  BY DEF StartPull, PullState, Started
<1> HIDE DEF c
<1>4. /\ op' \in [Devices -> Operation] /\ \A x \in Devices : op'[x].from \subseteq Open(op'[x])
      /\ op'[d] = c /\ \A x \in Devices \ {d} : op'[x] = op[x]
  BY <1>2, <1>3, BecomeType
<1>5. /\ saved' \in [Devices -> State] /\ saved'[d] \in {saved[d], PullState(d)}
      /\ \A x \in Devices \ {d} : saved'[x] = saved[x]
  <2>1. UNCHANGED saved \/ Save(d, PullState(d))
    BY DEF StartPull, PullState
  <2> QED
    BY <1>1, <2>1, SaveType DEF TypeOK
<1> QED
  BY <1>2, <1>4, <1>5 DEF StartPull, KeepOutbox, KeepPolicy, KeepPulled, KeepFaults, TypeOK

\* How reading a device ends: its cursor moves, the others stay.
LEMMA DoneTypes ==
    ASSUME TypeOK, NEW d \in Devices, NEW e \in Devices, NEW seen \in Commit,
           NEW verdict \in {"no", "gone", "invalid"}, Done(d, e, seen, verdict)
    PROVE  /\ op' \in [Devices -> Operation] /\ \A x \in Devices : op'[x].from \subseteq Open(op'[x])
           /\ op'[d].pc = "read" /\ op'[d].left = op[d].left \ {e} /\ op'[d].from = {}
           /\ op'[d].state.committed = op[d].state.committed /\ op'[d].state.head = op[d].state.head
           /\ op'[d].state.published = op[d].state.published
           /\ op'[d].state.lastSeen[e] = seen
           /\ \A x \in Devices \ {e} : op'[d].state.lastSeen[x] = op[d].state.lastSeen[x]
           /\ seen = op[d].state.lastSeen[e] => op'[d].state.lastSeen = op[d].state.lastSeen
           /\ \A x \in Devices \ {e} : op'[d].listed[x] = op[d].listed[x]
           /\ \A x \in Devices \ {d} : op'[x] = op[x]
<1> DEFINE old == op[d].state
           st == Read(old, e, seen, verdict)
           heads == [op[d].listed EXCEPT ![e] = None]
           c == [op[d] EXCEPT !.pc = "read", !.listed = heads, !.left = op[d].left \ {e}, !.from = {},
                              !.state = st]
<1>1. op[d] \in Operation /\ old \in State /\ "read" \in Pcs
  BY PolicyTypes, PcNames
<1>2. /\ st \in State /\ st.committed = old.committed /\ st.head = old.head
      /\ st.published = old.published /\ st.lastSeen[e] = seen
      /\ \A x \in Devices \ {e} : st.lastSeen[x] = old.lastSeen[x]
      /\ seen = old.lastSeen[e] => st.lastSeen = old.lastSeen
  <2> DEFINE cursors == [old.lastSeen EXCEPT ![e] = seen]
             held == [old.quarantined EXCEPT ![e] = verdict]
             gone == [old.retired EXCEPT ![e] = None]
  <2>1. /\ cursors \in [Devices -> Commit] /\ gone \in [Devices -> Commit]
        /\ held \in [Devices -> {"no", "gone", "invalid"}]
        /\ cursors[e] = seen /\ \A x \in Devices \ {e} : cursors[x] = old.lastSeen[x]
        /\ seen = old.lastSeen[e] => cursors = old.lastSeen
    BY <1>1, NoneType DEF State
  <2>2. st = [old EXCEPT !.lastSeen = cursors, !.quarantined = held, !.retired = gone]
    BY <1>1 DEF Read, State
  <2> HIDE DEF cursors, held, gone, old, st
  <2>3. /\ st \in State /\ st.committed = old.committed /\ st.head = old.head
        /\ st.published = old.published /\ st.lastSeen = cursors
    BY <1>1, <2>1, <2>2 DEF State
  <2> QED
    BY <2>1, <2>3
<1>3. heads \in [Devices -> Commit] /\ \A x \in Devices \ {e} : heads[x] = op[d].listed[x]
  BY <1>1, NoneType DEF Operation
<1>4. op' = [op EXCEPT ![d] = c]
  BY <1>1 DEF Done, Operation
<1> HIDE DEF st, heads
<1>5. /\ c \in Operation /\ c.from \subseteq Open(c) /\ c.pc = "read" /\ c.left = op[d].left \ {e}
      /\ c.from = {} /\ c.state = st /\ c.listed = heads
  BY <1>1, <1>2, <1>3 DEF Operation, Pcs
<1> HIDE DEF c
<1>6. /\ op' \in [Devices -> Operation] /\ \A x \in Devices : op'[x].from \subseteq Open(op'[x])
      /\ op'[d] = c /\ \A x \in Devices \ {d} : op'[x] = op[x]
  BY <1>4, <1>5, BecomeType
<1> QED
  BY <1>2, <1>3, <1>5, <1>6 DEF old

LEMMA ListTypes ==
    ASSUME TypeOK, NEW d \in Devices, List(d)
    PROVE  /\ TypeOK' /\ \A x \in Devices \ {d} : op'[x] = op[x]
           /\ op'[d].pc = "read" /\ op'[d].from = {}
           /\ op'[d].state.lastSeen = op[d].state.lastSeen
           /\ op'[d].state.committed = op[d].state.committed /\ op'[d].state.head = op[d].state.head
           /\ op'[d].state.published = op[d].state.published
           /\ \A e \in op'[d].left : /\ op'[d].listed[e] = remote[policy[d].remote][e]
                                    /\ op'[d].listed[e] # op[d].state.lastSeen[e]
<1> DEFINE heads == remote[policy[d].remote]
           st == op[d].state
           gone == {e \in Devices : heads[e] = None /\ st.lastSeen[e] \notin {None, st.retired[e]}}
           same == {e \in Devices : heads[e] # None /\ heads[e] = st.lastSeen[e]}
           news == {e \in Devices \ same : heads[e] # None}
           held == [e \in Devices |-> IF e \in gone THEN "gone"
                                      ELSE IF e \in same THEN "no" ELSE st.quarantined[e]]
           retd == [e \in Devices |-> IF e \in same THEN None ELSE st.retired[e]]
           lst  == [e \in Devices |-> IF e \in news THEN heads[e] ELSE None]
           new  == [st EXCEPT !.quarantined = held, !.retired = retd]
           c    == [op[d] EXCEPT !.pc = "read", !.left = news, !.state = new, !.listed = lst]
<1>1. op' = [op EXCEPT ![d] = c]
  BY DEF List
<1>2. st \in State /\ op[d] \in Operation /\ "read" \in Pcs /\ heads \in [Devices -> Commit]
  BY PolicyTypes, PcNames DEF TypeOK
<1>3. held \in [Devices -> {"no", "gone", "invalid"}] /\ retd \in [Devices -> Commit]
  <2>1. st.quarantined \in [Devices -> {"no", "gone", "invalid"}] /\ st.retired \in [Devices -> Commit]
    BY <1>2 DEF State
  <2> HIDE DEF same, gone, st
  <2> QED
    BY <2>1, NoneType
<1>4. lst \in [Devices -> Commit] /\ news \subseteq Devices /\ \A e \in news : lst[e] = heads[e]
  <2>1. news \subseteq Devices
    OBVIOUS
  <2> HIDE DEF news, heads
  <2> QED
    BY <1>2, <2>1, NoneType
<1>5. \A e \in news : heads[e] # st.lastSeen[e]
  OBVIOUS
<1> HIDE DEF held, retd, lst, news, heads
<1>6. /\ new \in State /\ new.lastSeen = st.lastSeen /\ new.committed = st.committed
      /\ new.head = st.head /\ new.published = st.published
  <2> HIDE DEF st
  <2> QED
    BY <1>2, <1>3 DEF State
<1>7. op[d].from = {}
  BY PolicyTypes DEF List, Pc
<1> HIDE DEF new
<1>8. c \in Operation /\ c.pc = "read" /\ c.left = news /\ c.state = new /\ c.listed = lst /\ c.from = op[d].from
  BY <1>2, <1>4, <1>6 DEF Operation, Pcs
<1> HIDE DEF c
<1>9. /\ op' \in [Devices -> Operation] /\ \A x \in Devices : op'[x].from \subseteq Open(op'[x])
      /\ op'[d] = c /\ \A x \in Devices \ {d} : op'[x] = op[x]
  <2>1. c \in Operation /\ c.from \subseteq Open(c)
    BY <1>7, <1>8
  <2> QED
    BY <1>1, <2>1, BecomeType
<1>10. TypeOK'
  BY <1>9 DEF List, KeepOutbox, KeepPolicy, KeepPulled, KeepFaults, TypeOK
<1> QED
  BY <1>4, <1>5, <1>6, <1>7, <1>8, <1>9, <1>10 DEF heads, st

LEMMA QuarantineTypes ==
    ASSUME TypeOK, NEW d \in Devices, NEW e \in Devices, Quarantine(d, e)
    PROVE  /\ TypeOK' /\ \A x \in Devices \ {d} : op'[x] = op[x]
           /\ op'[d].pc = "read" /\ op'[d].left = op[d].left \ {e} /\ op'[d].from = {}
           /\ op'[d].state.lastSeen = op[d].state.lastSeen
           /\ op'[d].state.committed = op[d].state.committed /\ op'[d].state.head = op[d].state.head
           /\ op'[d].state.published = op[d].state.published
           /\ \A x \in Devices \ {e} : op'[d].listed[x] = op[d].listed[x]
<1> DEFINE seen == op[d].state.lastSeen[e]
<1>1. seen \in Commit /\ op[d].state \in State
  BY PolicyTypes DEF State
<1>2. Done(d, e, seen, "invalid")
  BY DEF Quarantine
<1>3. /\ op' \in [Devices -> Operation] /\ \A x \in Devices : op'[x].from \subseteq Open(op'[x])
      /\ op'[d].pc = "read" /\ op'[d].left = op[d].left \ {e} /\ op'[d].from = {}
      /\ op'[d].state.committed = op[d].state.committed /\ op'[d].state.head = op[d].state.head
      /\ op'[d].state.published = op[d].state.published
      /\ op'[d].state.lastSeen = op[d].state.lastSeen
      /\ \A x \in Devices \ {e} : op'[d].listed[x] = op[d].listed[x]
      /\ \A x \in Devices \ {d} : op'[x] = op[x]
  BY <1>1, <1>2, DoneTypes
<1>4. TypeOK'
  BY <1>3 DEF Quarantine, KeepOutbox, KeepPolicy, KeepPulled, KeepFaults, TypeOK
<1> QED
  BY <1>3, <1>4

LEMMA FetchTypes ==
    ASSUME TypeOK, NEW d \in Devices, NEW e \in Devices, Fetch(d, e)
    PROVE  /\ TypeOK' /\ \A x \in Devices \ {d} : op'[x] = op[x]
           /\ op'[d].pc = "write" /\ op'[d].left = op[d].left /\ op'[d].from = {e}
           /\ op'[d].state = op[d].state /\ op'[d].listed = op[d].listed
<1> DEFINE c == [op[d] EXCEPT !.pc = "write", !.from = {e}]
<1>1. op[d] \in Operation /\ "write" \in Pcs /\ e \in op[d].left
  BY PolicyTypes, PcNames DEF Fetch, Unread
<1>2. /\ c \in Operation /\ c.pc = "write" /\ c.left = op[d].left /\ c.from = {e}
      /\ c.state = op[d].state /\ c.listed = op[d].listed
  BY <1>1 DEF Operation, Pcs
<1>3. op' = [op EXCEPT ![d] = c]
  BY DEF Fetch
<1> HIDE DEF c
<1>4. c.from \subseteq Open(c)
  BY <1>1, <1>2 DEF Open
<1>5. /\ op' \in [Devices -> Operation] /\ \A x \in Devices : op'[x].from \subseteq Open(op'[x])
      /\ op'[d] = c /\ \A x \in Devices \ {d} : op'[x] = op[x]
  BY <1>2, <1>3, <1>4, BecomeType
<1>6. TypeOK'
  BY <1>5 DEF Fetch, KeepOutbox, KeepPolicy, KeepPulled, KeepFaults, TypeOK
<1> QED
  BY <1>2, <1>5, <1>6

LEMMA ReadFailsTypes ==
    ASSUME TypeOK, NEW d \in Devices, NEW e \in Devices, ReadFails(d, e)
    PROVE  /\ TypeOK' /\ op'[d] = Idle
           /\ \A x \in Devices \ {d} : op'[x] = op[x] /\ saved'[x] = saved[x]
           /\ saved'[d].lastSeen = op[d].state.lastSeen
           /\ saved'[d].committed = op[d].state.committed /\ saved'[d].head = op[d].state.head
           /\ saved'[d].published = op[d].state.published
<1> DEFINE st == op[d].state
           gone == [st.retired EXCEPT ![e] = None]
           new == [st EXCEPT !.retired = gone]
<1>1. st \in State
  BY PolicyTypes
<1>2. gone \in [Devices -> Commit]
  BY <1>1, NoneType DEF State
<1>3. Save(d, new)
  BY <1>1 DEF ReadFails, State
<1> HIDE DEF gone, st
<1>4. /\ new \in State /\ new.lastSeen = st.lastSeen /\ new.committed = st.committed
      /\ new.head = st.head /\ new.published = st.published
  BY <1>1, <1>2 DEF State
<1> HIDE DEF new
<1>5. /\ saved' \in [Devices -> State] /\ saved'[d] = new
      /\ \A x \in Devices \ {d} : saved'[x] = saved[x]
  BY <1>3, <1>4, SaveType
<1>6. Return(d)
  BY DEF ReadFails
<1>7. /\ op' \in [Devices -> Operation] /\ \A x \in Devices : op'[x].from \subseteq Open(op'[x])
      /\ op'[d] = Idle /\ \A x \in Devices \ {d} : op'[x] = op[x]
  BY <1>6, ReturnType
<1>8. faults' \in 0 .. MaxFaults
  <2>1. UNCHANGED faults \/ Fault("stop")
    BY DEF ReadFails
  <2> QED
    BY <2>1, FaultType DEF TypeOK
<1>9. TypeOK'
  BY <1>5, <1>7, <1>8 DEF ReadFails, KeepOutbox, KeepPolicy, KeepPulled, TypeOK
<1> QED
  BY <1>4, <1>5, <1>7, <1>9 DEF st

\* The commit a reader of a head takes next, once the head is one it may take.
LEMMA NextCommitType ==
    ASSUME TypeOK, NEW d \in Devices, NEW e \in Devices
    PROVE  /\ NextCommit(d, e) \in Nat /\ NextCommit(d, e) = op[d].state.lastSeen[e].len + 1
           /\ Observed(d, e) \in Commit
           /\ Observed(d, e).len = NextCommit(d, e) /\ Observed(d, e).forged = FALSE
<1>1. op[d].state.lastSeen[e] \in Commit
  BY PolicyTypes DEF State
<1> QED
  BY <1>1, NoneType DEF NextCommit, Observed, Commit, At

LEMMA MaterializeTypes ==
    ASSUME TypeOK, NEW d \in Devices, Materialize(d),
           \A e \in op[d].from : chain[e][NextCommit(d, e)].turns \subseteq Turns
    PROVE  /\ TypeOK' /\ \A x \in Devices, e \in Devices : pulled[x][e] \subseteq pulled'[x][e]
<1>1. PICK e \in op[d].from : \E b \in Unwritten(d, e) : pulled' = [pulled EXCEPT ![d][e] = @ \union {b}]
  BY DEF Materialize
<1>2. PICK b \in Unwritten(d, e) : pulled' = [pulled EXCEPT ![d][e] = @ \union {b}]
  BY <1>1
<1>3. e \in Devices /\ b \in Turns
  BY <1>1, <1>2, PolicyTypes DEF Unwritten
<1>4. /\ pulled' \in [Devices -> [Devices -> SUBSET Turns]]
      /\ \A x \in Devices, y \in Devices : pulled[x][y] \subseteq pulled'[x][y]
  BY <1>2, <1>3 DEF TypeOK
<1> QED
  BY <1>4 DEF Materialize, KeepOutbox, KeepPolicy, KeepFaults, TypeOK

LEMMA TrackTypes ==
    ASSUME TypeOK, NEW d \in Devices, Track(d)
    PROVE  /\ TypeOK' /\ \A x \in Devices \ {d} : op'[x] = op[x] /\ tracking'[x] = tracking[x]
           /\ \E e \in op[d].from :
                 /\ e \in Devices /\ Unwritten(d, e) = {}
                 /\ op'[d].pc = "read" /\ op'[d].left = op[d].left \ {e} /\ op'[d].from = {}
                 /\ op'[d].state.committed = op[d].state.committed
                 /\ op'[d].state.head = op[d].state.head
                 /\ op'[d].state.published = op[d].state.published
                 /\ op'[d].state.lastSeen[e] = Observed(d, e)
                 /\ \A x \in Devices \ {e} : /\ op'[d].listed[x] = op[d].listed[x]
                                             /\ op'[d].state.lastSeen[x] = op[d].state.lastSeen[x]
                 /\ \A r \in Remotes, x \in Devices :
                       tracking'[d][r][x] = IF r = policy[d].remote /\ x = e THEN Observed(d, e)
                                            ELSE tracking[d][r][x]
                 /\ ownPulled' = IF e = d THEN ownPulled \union {d} ELSE ownPulled
<1>1. PICK e \in op[d].from :
          /\ Unwritten(d, e) = {}
          /\ tracking' = [tracking EXCEPT ![d][policy[d].remote][e] = Observed(d, e)]
          /\ Done(d, e, Observed(d, e), "no")
          /\ ownPulled' = IF e = d THEN ownPulled \union {d} ELSE ownPulled
  BY DEF Track
<1>2. e \in Devices /\ policy[d].remote \in Remotes
  BY <1>1, PolicyTypes
<1>3. Observed(d, e) \in Commit
  BY <1>2, NextCommitType
<1>4. /\ tracking' \in [Devices -> [Remotes -> [Devices -> Commit]]]
      /\ \A x \in Devices \ {d} : tracking'[x] = tracking[x]
      /\ \A r \in Remotes, x \in Devices :
            tracking'[d][r][x] = IF r = policy[d].remote /\ x = e THEN Observed(d, e) ELSE tracking[d][r][x]
  BY <1>1, <1>2, <1>3 DEF TypeOK
<1>5. /\ op' \in [Devices -> Operation] /\ \A x \in Devices : op'[x].from \subseteq Open(op'[x])
      /\ op'[d].pc = "read" /\ op'[d].left = op[d].left \ {e} /\ op'[d].from = {}
      /\ op'[d].state.committed = op[d].state.committed /\ op'[d].state.head = op[d].state.head
      /\ op'[d].state.published = op[d].state.published /\ op'[d].state.lastSeen[e] = Observed(d, e)
      /\ \A x \in Devices \ {e} : /\ op'[d].listed[x] = op[d].listed[x]
                                  /\ op'[d].state.lastSeen[x] = op[d].state.lastSeen[x]
      /\ \A x \in Devices \ {d} : op'[x] = op[x]
  BY <1>1, <1>2, <1>3, DoneTypes
<1>6. ownPulled' \subseteq Devices
  BY <1>1 DEF TypeOK
<1>7. TypeOK'
  BY <1>4, <1>5, <1>6 DEF Track, KeepOutbox, KeepPolicy, KeepFaults, TypeOK
<1> QED
  BY <1>1, <1>2, <1>4, <1>5, <1>7

LEMMA ApproveTypes ==
    ASSUME TypeOK, NEW d \in Devices, Approve(d)
    PROVE  /\ TypeOK' /\ \A x \in Devices \ {d} : policy'[x] = policy[x] /\ agreed'[x] = agreed[x]
           /\ Digest(policy[d])' = Digest(policy[d]) /\ policy'[d].remote = policy[d].remote
           /\ agreed'[d] = agreed[d] \union {Digest(policy[d])}
<1>1. policy[d] \in Policies /\ agreed[d] \subseteq [remote : Remotes, mode : PromptModes \union {"copy"}]
  BY PolicyTypes DEF TypeOK
<1>2. policy'[d] = [policy[d] EXCEPT !.approved = TRUE] /\ \A x \in Devices \ {d} : policy'[x] = policy[x]
  BY DEF Approve, TypeOK
<1>3. policy'[d] \in Policies /\ policy'[d].remote = policy[d].remote /\ policy'[d].mode = policy[d].mode
  BY <1>1, <1>2 DEF Policies
<1>4. policy' \in [Devices -> Policies]
  BY <1>3 DEF Approve, TypeOK, Policies
<1>5. agreed'[d] = agreed[d] \union {Digest(policy[d])} /\ \A x \in Devices \ {d} : agreed'[x] = agreed[x]
  BY DEF Approve, TypeOK
<1>6. Digest(policy[d]) \in [remote : Remotes, mode : PromptModes \union {"copy"}]
  BY <1>1 DEF Digest, Policies
<1>7. agreed' \in [Devices -> SUBSET [remote : Remotes, mode : PromptModes \union {"copy"}]]
  BY <1>1, <1>5, <1>6 DEF Approve, TypeOK
<1>8. TypeOK'
  BY <1>4, <1>7 DEF Approve, KeepOutbox, KeepPulled, KeepFaults, TypeOK, Policies
<1> QED
  BY <1>2, <1>3, <1>5, <1>8 DEF Digest

\* The state share enable saves.
ConfiguredState(d, p) == Aligned(Recovered(d, saved[d]), p.remote)

LEMMA ConfigureTypes ==
    ASSUME TypeOK, NEW d \in Devices, NEW p \in [remote : Remotes, mode : PromptModes],
           NEW consent \in BOOLEAN, Configure(d, p, consent)
    PROVE  /\ TypeOK'
           /\ \A x \in Devices \ {d} : policy'[x] = policy[x] /\ agreed'[x] = agreed[x] /\ op'[x] = op[x]
           /\ Digest(policy[d])' = p /\ policy'[d].remote = p.remote
           /\ policy'[d].approved <=> policy[d].approved /\ p = Digest(policy[d])
           /\ agreed[d] \subseteq agreed'[d] /\ (consent => CopyTo(p.remote) \in agreed'[d])
           /\ op'[d].pc = "configure" /\ op'[d].state = ConfiguredState(d, p)
           /\ op'[d].left = {} /\ op'[d].from = {}
<1> DEFINE new == [remote |-> p.remote, mode |-> p.mode, disabled |-> FALSE,
                   approved |-> policy[d].approved /\ p = Digest(policy[d])]
           c == Started("configure", ConfiguredState(d, p))
<1>1. policy' = [policy EXCEPT ![d] = new]
  BY DEF Configure
<1>2. new \in Policies
  BY PolicyTypes DEF Policies
<1>3. policy' \in [Devices -> Policies] /\ policy'[d] = new /\ \A x \in Devices \ {d} : policy'[x] = policy[x]
  <2> HIDE DEF new
  <2> QED
    BY <1>1, <1>2 DEF TypeOK, Policies
<1>4. p.remote \in Remotes /\ CopyTo(p.remote) \in [remote : Remotes, mode : PromptModes \union {"copy"}]
  BY DEF CopyTo
<1>5. /\ agreed' \in [Devices -> SUBSET [remote : Remotes, mode : PromptModes \union {"copy"}]]
      /\ agreed[d] \subseteq agreed'[d] /\ (consent => CopyTo(p.remote) \in agreed'[d])
      /\ \A x \in Devices \ {d} : agreed'[x] = agreed[x]
  <2>1. CASE consent
    <3>1. agreed' = [agreed EXCEPT ![d] = @ \union {CopyTo(p.remote)}]
      BY <2>1 DEF Configure
    <3> QED
      BY <1>4, <3>1 DEF TypeOK
  <2>2. CASE ~ consent
    <3>1. agreed' = agreed
      BY <2>2 DEF Configure
    <3> QED
      BY <2>2, <3>1 DEF TypeOK
  <2> QED
    BY <2>1, <2>2
<1>6. ConfiguredState(d, p) \in State
  BY <1>4, PolicyTypes, RecoveredType, AlignedType DEF ConfiguredState
<1>7. c \in Operation /\ c.pc = "configure" /\ c.state = ConfiguredState(d, p) /\ c.left = {} /\ c.from = {}
  BY <1>6, PcNames, StartedType
<1>8. op' = [op EXCEPT ![d] = c]
  BY DEF Configure, ConfiguredState, Started
<1> HIDE DEF c
<1>9. /\ op' \in [Devices -> Operation] /\ \A x \in Devices : op'[x].from \subseteq Open(op'[x])
      /\ op'[d] = c /\ \A x \in Devices \ {d} : op'[x] = op[x]
  BY <1>7, <1>8, BecomeType
<1>10. faults' \in 0 .. MaxFaults /\ changed' \in BOOLEAN
  BY FaultType DEF Configure
<1>11. TypeOK'
  BY <1>3, <1>5, <1>9, <1>10 DEF Configure, KeepOutbox, KeepPulled, TypeOK, Policies
<1>12. Digest(policy[d])' = p /\ policy'[d].remote = p.remote
  BY <1>3 DEF Digest
<1>13. policy'[d].approved <=> policy[d].approved /\ p = Digest(policy[d])
  <2>1. policy'[d].approved = (policy[d].approved /\ p = Digest(policy[d]))
    BY <1>3
  <2> QED
    BY <2>1
<1> HIDE DEF new
<1> QED
  BY <1>3, <1>5, <1>7, <1>9, <1>11, <1>12, <1>13

LEMMA DisableTypes ==
    ASSUME TypeOK, NEW d \in Devices, Disable(d)
    PROVE  /\ TypeOK' /\ \A x \in Devices \ {d} : policy'[x] = policy[x]
           /\ Digest(policy[d])' = Digest(policy[d]) /\ policy'[d].remote = policy[d].remote
           /\ policy'[d].approved = policy[d].approved
<1>1. policy'[d] = [policy[d] EXCEPT !.disabled = TRUE] /\ \A x \in Devices \ {d} : policy'[x] = policy[x]
  BY DEF Disable, TypeOK
<1>2. /\ policy'[d] \in Policies /\ policy'[d].remote = policy[d].remote /\ policy'[d].mode = policy[d].mode
      /\ policy'[d].approved = policy[d].approved
  BY <1>1, PolicyTypes DEF Policies
<1>3. policy' \in [Devices -> Policies]
  BY <1>2 DEF Disable, TypeOK, Policies
<1>4. faults' \in 0 .. MaxFaults /\ changed' \in BOOLEAN
  BY FaultType DEF Disable
<1>5. TypeOK'
  BY <1>3, <1>4 DEF Disable, KeepOutbox, KeepPulled, TypeOK, Policies
<1> QED
  BY <1>1, <1>2, <1>5 DEF Digest

LEMMA ForgetDeviceTypes ==
    ASSUME TypeOK, NEW d \in Devices, NEW e \in Devices, ForgetDevice(d, e)
    PROVE  /\ TypeOK' /\ \A x \in Devices \ {d} : saved'[x] = saved[x]
           /\ saved'[d].lastSeen = saved[d].lastSeen
           /\ saved'[d].committed = saved[d].committed /\ saved'[d].head = saved[d].head
           /\ saved'[d].published = saved[d].published
<1> DEFINE st == saved[d]
           gone == [st.retired EXCEPT ![e] = st.lastSeen[e]]
           held == [st.quarantined EXCEPT ![e] = "no"]
           new == [st EXCEPT !.retired = gone, !.quarantined = held]
<1>1. st \in State
  BY PolicyTypes
<1>2. gone \in [Devices -> Commit] /\ held \in [Devices -> {"no", "gone", "invalid"}]
  BY <1>1 DEF State
<1>3. Save(d, new)
  BY <1>1 DEF ForgetDevice, State
<1> HIDE DEF gone, held, st
<1>4. /\ new \in State /\ new.lastSeen = st.lastSeen /\ new.committed = st.committed
      /\ new.head = st.head /\ new.published = st.published
  BY <1>1, <1>2 DEF State
<1> HIDE DEF new
<1>5. /\ saved' \in [Devices -> State] /\ saved'[d] = new
      /\ \A x \in Devices \ {d} : saved'[x] = saved[x]
  BY <1>3, <1>4, SaveType
<1>6. TypeOK'
  BY <1>5 DEF ForgetDevice, KeepOutbox, KeepPolicy, KeepPulled, KeepFaults, TypeOK
<1> QED
  BY <1>4, <1>5, <1>6 DEF st

LEMMA CompleteTypes ==
    ASSUME TypeOK, NEW d \in Devices, Complete(d)
    PROVE  TypeOK'
<1>1. PICK b \in TurnsOf[d] : completed' = [completed EXCEPT ![d] = @ \union {b}]
  BY DEF Complete
<1>2. b \in Turns
  BY <1>1 DEF Turns
<1>3. completed' \in [Devices -> SUBSET Turns]
  BY <1>1, <1>2 DEF TypeOK
<1> QED
  BY <1>3 DEF Complete, KeepPolicy, KeepPulled, KeepFaults, TypeOK

LEMMA StopTypes ==
    ASSUME TypeOK, NEW d \in Devices, Stop(d)
    PROVE  TypeOK'
  BY ReturnType, FaultType DEF Stop, KeepOutbox, KeepPolicy, KeepPulled, TypeOK

LEMMA TamperTypes ==
    ASSUME TypeOK, NEW r \in Remotes, NEW d \in Devices, Tamper(r, d)
    PROVE  /\ TypeOK' /\ tampered' = tampered \union {d} /\ d \notin tampered
           /\ \A q \in Remotes, e \in Devices : (q # r \/ e # d) => remote'[q][e] = remote[q][e]
           /\ \/ ~ remote'[r][d].forged /\ remote'[r][d].len < remote[r][d].len
              \/ remote'[r][d].forged /\ remote'[r][d].len <= remote[r][d].len + 1
<1> DEFINE old == remote[r][d]
<1>1. old \in Commit /\ old.len \in Nat
  BY DEF TypeOK, Commit
<1>2. PICK h \in {At(n) : n \in 0 .. old.len - 1} \union {[len |-> n, forged |-> TRUE] : n \in 1 .. old.len + 1} :
          remote' = [remote EXCEPT ![r][d] = h]
  BY DEF Tamper
<1> HIDE DEF old
<1>3. \/ ~ h.forged /\ h.len < old.len /\ h \in Commit
      \/ h.forged /\ h.len <= old.len + 1 /\ h \in Commit
  <2>1. CASE h \in {At(n) : n \in 0 .. old.len - 1}
    <3>1. PICK n \in 0 .. old.len - 1 : h = [len |-> n, forged |-> FALSE]
      BY <2>1 DEF At
    <3> QED
      BY <1>1, <3>1 DEF Commit
  <2>2. CASE h \in {[len |-> n, forged |-> TRUE] : n \in 1 .. old.len + 1}
    <3>1. PICK n \in 1 .. old.len + 1 : h = [len |-> n, forged |-> TRUE]
      BY <2>2
    <3> QED
      BY <1>1, <3>1 DEF Commit
  <2> QED
    BY <1>2, <2>1, <2>2
<1>4. h \in Commit
  BY <1>3
<1>5. /\ remote' \in [Remotes -> [Devices -> Commit]] /\ remote'[r][d] = h
      /\ \A q \in Remotes, e \in Devices : (q # r \/ e # d) => remote'[q][e] = remote[q][e]
  BY <1>2, <1>4 DEF TypeOK
<1>6. TypeOK'
  BY <1>5, FaultType DEF Tamper, KeepPolicy, KeepPulled, TypeOK
<1> QED
  BY <1>3, <1>5, <1>6 DEF Tamper, old

----------------------------------------------------------------------------
(* The inductive invariant: one part for the copies of state.json of a       *)
(* device, one for its push, one for its pull, and one for what is in the    *)
(* repositories and the policy                                               *)

\* The turns of the n-th commit of e, wherever they are used.
TurnsAt(e, n) == chain[e][n].turns

\* A cursor of d for e names a commit of e, and what it has passed is materialized.
Backed(d, e, h) ==
    /\ ~ h.forged /\ h.len <= Len(chain[e])
    /\ e # d => \A n \in 1 .. h.len : TurnsAt(e, n) \subseteq pulled[d][e]

\* What may be at a ref: a commit of its device, or somebody else's one place further at most.
InPlace(e, h) == h.len <= Len(chain[e]) \/ (h.forged /\ h.len = Len(chain[e]) + 1)

\* Every committed turn is published or waits in the outbox.
Covered(d, st) == \A n \in 1 .. Len(chain[d]) : TurnsAt(d, n) \subseteq st.published \union st.committed

\* What waits fits the policy of now, and is the last commit.
Waiting(d, st) ==
    st.committed # {} => /\ Len(chain[d]) > 0 /\ st.head = Len(chain[d])
                         /\ chain[d][Len(chain[d])].policy = Digest(policy[d])

\* Only the last commit may be one that state.json does not know, and then it fits too.
LastOnly(d, st) ==
    /\ \A n \in 1 .. Len(chain[d]) : n < Len(chain[d]) => TurnsAt(d, n) \subseteq st.published
    /\ Len(chain[d]) > 0 /\ ~ TurnsAt(d, Len(chain[d])) \subseteq st.published =>
           chain[d][Len(chain[d])].policy = Digest(policy[d])

\* A state.json of a device that has read no batch of its own.
Accounted(d, st) ==
    /\ Waiting(d, st) /\ LastOnly(d, st)
    /\ st.committed # {} \/ st.lastSeen[d] = Tip(d) => Covered(d, st)

Uploaded(d, t) == \E r \in Remotes : \E n \in 1 .. Len(chain[d]) : n <= remote[r][d].len /\ t \in TurnsAt(d, n)

StateInv(d, st) ==
    /\ \A e \in Devices : Backed(d, e, st.lastSeen[e])
    /\ \A t \in st.committed : \E n \in 1 .. Len(chain[d]) : t \in TurnsAt(d, n)
    /\ d \notin tampered => \A t \in st.published : Uploaded(d, t)
    /\ d \notin ownPulled => Accounted(d, st)

\* state.json, and the copy of the operation.
Copies(d) == {saved[d]} \union {st \in {op[d].state} : op[d].pc # "idle"}

\* A push, once it has state.json: nothing is committed that it would commit again.
PushInv(d) ==
    LET c == op[d] IN
    /\ c.pc \in Pushing => policy[d].approved /\ (d \notin ownPulled => \A st \in {c.state} : Covered(d, st))
    /\ c.pc = "scan" => /\ c.state.committed = {} /\ saved[d].committed = {}
                        /\ d \notin ownPulled => \A st \in {saved[d]} : Covered(d, st)
    /\ c.pc = "promote" /\ d \notin tampered => remote[policy[d].remote][d] = Tip(d)

\* The head d has still to read of e is new.
New(d, e) == op[d].listed[e] # op[d].state.lastSeen[e] /\ \A h \in {op[d].listed[e]} : InPlace(e, h)

\* What fetchAndIngest found: the next commit is the device's own.
Found(d, e) ==
    /\ Ancestor(op[d].state.lastSeen[e], op[d].listed[e])
    /\ ~ (op[d].listed[e].forged /\ op[d].listed[e].len = op[d].state.lastSeen[e].len + 1)

PullInv(d) ==
    /\ op[d].pc \in {"read", "write"} => \A e \in op[d].left : New(d, e)
    /\ op[d].pc = "write" => \A e \in op[d].from : Found(d, e)

\* A commit built under policy p may be at remote r.
Agreed(d, p, r) == p \in agreed[d] /\ (p.remote = r \/ CopyTo(r) \in agreed[d])

ConsentInv(d) ==
    /\ policy[d].approved => Digest(policy[d]) \in agreed[d]
    /\ \A n \in 1 .. Len(chain[d]) : \A r \in {policy[d].remote} : \A p \in {chain[d][n].policy} : Agreed(d, p, r)

RemoteInv(d) ==
    \A r \in Remotes : \A h \in {remote[r][d]} :
        /\ InPlace(d, h)
        /\ d \notin tampered =>
             /\ ~ h.forged
             /\ \A n \in 1 .. h.len : \A p \in {chain[d][n].policy} : Agreed(d, p, r)

TrackingInv(d) ==
    \A r \in Remotes :
        /\ \A e \in Devices : \A h \in {tracking[d][r][e]} : Backed(d, e, h)
        /\ d \notin ownPulled => tracking[d][r][d] = None

\* A turn is in one batch.
Apart(d) ==
    d \notin ownPulled =>
        \A m \in 1 .. Len(chain[d]), n \in 1 .. Len(chain[d]) :
            m # n => TurnsAt(d, m) \intersect TurnsAt(d, n) = {}

RepositoryInv(d) == ConsentInv(d) /\ RemoteInv(d) /\ TrackingInv(d) /\ Apart(d)

OperationInv(d) == (\A st \in Copies(d) : StateInv(d, st)) /\ PushInv(d) /\ PullInv(d)

DeviceInv(d) == OperationInv(d) /\ RepositoryInv(d)

IInv == \A d \in Devices : DeviceInv(d)

----------------------------------------------------------------------------
(* What an operation does to itself only                                     *)

\* Two copies of state.json that agree on the outbox and the cursors.
LEMMA SameCopy ==
    ASSUME NEW d, NEW st, NEW new, StateInv(d, st),
           new.lastSeen = st.lastSeen, new.committed = st.committed,
           new.head = st.head, new.published = st.published
    PROVE  StateInv(d, new) /\ (Covered(d, st) => Covered(d, new))
  BY DEF StateInv, Covered, Accounted, Waiting, LastOnly

\* The repositories, refs and policies of all devices.
Repositories == <<chain, policy, remote, tracking, pulled, tampered, ownPulled, agreed>>

LEMMA RepositoryKept ==
    ASSUME UNCHANGED Repositories
    PROVE  /\ \A d \in Devices : RepositoryInv(d) => RepositoryInv(d)'
           /\ \A d \in Devices : \A st : StateInv(d, st) => StateInv(d, st)'
           /\ \A d \in Devices : \A st : Covered(d, st) => Covered(d, st)'
           /\ \A e \in Devices : \A h : InPlace(e, h) => InPlace(e, h)'
<1>1. ASSUME NEW d \in Devices, RepositoryInv(d)
      PROVE  RepositoryInv(d)'
  <2>1. ConsentInv(d)'
    BY <1>1 DEF RepositoryInv, ConsentInv, Agreed, Digest, Repositories
  <2>2. RemoteInv(d)'
    BY <1>1 DEF RepositoryInv, RemoteInv, Agreed, InPlace, Repositories
  <2>3. TrackingInv(d)'
    BY <1>1 DEF RepositoryInv, TrackingInv, Backed, TurnsAt, Repositories
  <2>4. Apart(d)'
    BY <1>1 DEF RepositoryInv, Apart, TurnsAt, Repositories
  <2> QED
    BY <2>1, <2>2, <2>3, <2>4 DEF RepositoryInv
<1>2. ASSUME NEW d \in Devices, NEW st, Covered(d, st)
      PROVE  Covered(d, st)'
  BY <1>2 DEF Covered, TurnsAt, Repositories
<1>3. ASSUME NEW d \in Devices, NEW st, StateInv(d, st)
      PROVE  StateInv(d, st)'
  <2>1. (\A e \in Devices : Backed(d, e, st.lastSeen[e]))'
    BY <1>3 DEF StateInv, Backed, TurnsAt, Repositories
  <2>2. (\A t \in st.committed : \E n \in 1 .. Len(chain[d]) : t \in TurnsAt(d, n))'
    BY <1>3 DEF StateInv, TurnsAt, Repositories
  <2>3. (d \notin tampered => \A t \in st.published : Uploaded(d, t))'
    BY <1>3 DEF StateInv, Uploaded, TurnsAt, Repositories
  <2>4. (d \notin ownPulled => Accounted(d, st))'
    BY <1>3 DEF StateInv, Accounted, Waiting, LastOnly, Covered, TurnsAt, Tip, Digest, Repositories
  <2> QED
    BY <2>1, <2>2, <2>3, <2>4 DEF StateInv
<1>4. ASSUME NEW e \in Devices, NEW h, InPlace(e, h)
      PROVE  InPlace(e, h)'
  BY <1>4 DEF InPlace, Repositories
<1> QED
  BY <1>1, <1>2, <1>3, <1>4

LEMMA OwnStep ==
    ASSUME IInv, NEW d \in Devices, UNCHANGED Repositories,
           \A x \in Devices \ {d} : op'[x] = op[x] /\ saved'[x] = saved[x],
           \A st \in Copies(d)' : StateInv(d, st),
           PushInv(d)', PullInv(d)'
    PROVE  IInv'
<1> SUFFICES ASSUME NEW x \in Devices
             PROVE  DeviceInv(x)'
  BY DEF IInv
<1>1. DeviceInv(x)
  BY DEF IInv
<1>2. RepositoryInv(x)'
  BY <1>1, RepositoryKept DEF DeviceInv
<1>3. \A st : StateInv(x, st) => StateInv(x, st)'
  BY RepositoryKept
<1>4. CASE x = d
  <2>1. \A st \in Copies(x)' : StateInv(x, st)'
    BY <1>3, <1>4
  <2> QED
    BY <1>2, <1>4, <2>1 DEF DeviceInv, OperationInv
<1>5. CASE x # d
  <2>1. op'[x] = op[x] /\ saved'[x] = saved[x]
    BY <1>5
  <2>2. Copies(x)' = Copies(x)
    BY <2>1 DEF Copies
  <2>3. \A st \in Copies(x)' : StateInv(x, st)'
    BY <1>1, <1>3, <2>2 DEF DeviceInv, OperationInv
  <2>4. PushInv(x)'
    BY <1>1, <2>1 DEF DeviceInv, OperationInv, PushInv, Covered, TurnsAt, Tip, Repositories
  <2>5. PullInv(x)'
    BY <1>1, <2>1 DEF DeviceInv, OperationInv, PullInv, New, Found, InPlace, Ancestor, Repositories
  <2> QED
    BY <1>2, <2>3, <2>4, <2>5 DEF DeviceInv, OperationInv
<1> QED
  BY <1>4, <1>5

\* What was seen at another remote is forgotten without harm.
LEMMA AlignedInv ==
    ASSUME TypeOK, NEW d \in Devices, NEW st \in State, NEW r \in Remotes, StateInv(d, st)
    PROVE  StateInv(d, Aligned(st, r))
<1> DEFINE new == Aligned(st, r)
<1>1. /\ new.committed = st.committed /\ new.head = st.head /\ new.published = st.published
      /\ new.lastSeen \in {st.lastSeen, NoneSeen}
  BY AlignedType
<1> HIDE DEF new
<1>2. CASE new.lastSeen = st.lastSeen
  BY <1>1, <1>2, SameCopy DEF new
<1>3. CASE new.lastSeen = NoneSeen
  <2>1. \A e \in Devices : new.lastSeen[e] = None
    BY <1>3 DEF NoneSeen
  <2>2. \A e \in Devices : Backed(d, e, None)
    BY OutboxTypes DEF Backed, None, At
  <2>3. d \notin ownPulled => Accounted(d, new)
    <3> SUFFICES ASSUME d \notin ownPulled PROVE Accounted(d, new)
      OBVIOUS
    <3>1. Accounted(d, st)
      BY DEF StateInv
    <3>2. Waiting(d, new) /\ LastOnly(d, new)
      BY <1>1, <3>1 DEF Accounted, Waiting, LastOnly
    <3>3. CASE new.committed # {}
      BY <1>1, <3>1, <3>2, <3>3 DEF Accounted, Covered
    <3>4. CASE new.lastSeen[d] = Tip(d)
      <4>1. Len(chain[d]) = 0
        BY <2>1, <3>4, OutboxTypes DEF None, At, Tip
      <4> QED
        BY <3>2, <4>1 DEF Accounted, Covered
    <3> QED
      BY <3>2, <3>3, <3>4 DEF Accounted
  <2> QED
    BY <1>1, <2>1, <2>2, <2>3 DEF StateInv, new
<1> QED
  BY <1>1, <1>2, <1>3

\* A commit that state.json did not know of waits again (recoverCommittedState).
LEMMA RecoveredInv ==
    ASSUME TypeOK, NEW d \in Devices, NEW st \in State, StateInv(d, st)
    PROVE  /\ StateInv(d, Recovered(d, st))
           /\ d \notin ownPulled => Covered(d, Recovered(d, st))
<1> DEFINE new == Recovered(d, st)
<1>1. new.published = st.published /\ new.lastSeen = st.lastSeen
  BY RecoveredType
<1>2. CASE new = st /\ (st.committed # {} \/ chain[d] = <<>> \/ st.lastSeen[d] = Tip(d))
  <2>1. d \notin ownPulled => Covered(d, st)
    <3>1. CASE chain[d] = <<>>
      BY <3>1, OutboxTypes DEF Covered
    <3>2. CASE st.committed # {} \/ st.lastSeen[d] = Tip(d)
      BY <3>2 DEF StateInv, Accounted
    <3> QED
      BY <1>2, <3>1, <3>2
  <2> QED
    BY <1>2, <2>1
<1>3. CASE /\ st.committed = {} /\ Len(chain[d]) > 0
           /\ new.committed = chain[d][Len(chain[d])].turns \ st.published
           /\ new.committed # {} => new.head = Len(chain[d])
  <2> DEFINE n == Len(chain[d])
  <2>1. n \in Nat /\ n \in 1 .. n
    BY <1>3, OutboxTypes
  <2>2. new.committed = TurnsAt(d, n) \ st.published /\ (new.committed # {} => new.head = n)
    BY <1>3 DEF TurnsAt
  <2> HIDE DEF new
  <2>3. \A t \in new.committed : \E k \in 1 .. Len(chain[d]) : t \in TurnsAt(d, k)
    BY <2>1, <2>2
  <2>4. ASSUME d \notin ownPulled
        PROVE  Accounted(d, new) /\ Covered(d, new)
    <3>1. LastOnly(d, st)
      BY <2>4 DEF StateInv, Accounted
    <3>2. Waiting(d, new)
      BY <1>3, <2>2, <3>1 DEF Waiting, LastOnly
    <3>3. LastOnly(d, new)
      BY <1>1, <3>1 DEF LastOnly
    <3>4. Covered(d, new)
      BY <1>1, <2>1, <2>2, <3>1 DEF LastOnly, Covered
    <3> QED
      BY <3>2, <3>3, <3>4 DEF Accounted
  <2> QED
    BY <1>1, <2>3, <2>4 DEF StateInv, new
<1> HIDE DEF new
<1> QED
  BY <1>2, <1>3, RecoveredType DEF new

LEMMA LoadedInv ==
    ASSUME TypeOK, IInv, NEW d \in Devices
    PROVE  /\ StateInv(d, Loaded(d))
           /\ d \notin ownPulled => Covered(d, Loaded(d))
<1> DEFINE st == Aligned(saved[d], policy[d].remote)
<1>1. StateInv(d, saved[d])
  BY DEF IInv, DeviceInv, OperationInv, Copies
<1>2. saved[d] \in State /\ policy[d].remote \in Remotes
  BY PolicyTypes
<1>3. st \in State /\ StateInv(d, st)
  BY <1>1, <1>2, AlignedType, AlignedInv
<1> HIDE DEF st
<1>4. StateInv(d, Recovered(d, st)) /\ (d \notin ownPulled => Covered(d, Recovered(d, st)))
  BY <1>3, RecoveredInv
<1> QED
  BY <1>4 DEF Loaded, st

LEMMA OwnInv ==
    ASSUME IInv, NEW d \in Devices
    PROVE  /\ StateInv(d, saved[d]) /\ (op[d].pc # "idle" => StateInv(d, op[d].state))
           /\ PushInv(d) /\ PullInv(d) /\ RepositoryInv(d)
  BY DEF IInv, DeviceInv, OperationInv, Copies

\* An operation that ends, with state.json as it is, or saved.
LEMMA ReturnStep ==
    ASSUME IInv, NEW d \in Devices, UNCHANGED Repositories,
           \A x \in Devices \ {d} : op'[x] = op[x] /\ saved'[x] = saved[x],
           op'[d] = Idle, \A st \in {saved'[d]} : StateInv(d, st)
    PROVE  IInv'
<1>1. op'[d].pc = "idle"
  BY IdleType
<1>2. \A st \in Copies(d)' : StateInv(d, st)
  BY <1>1 DEF Copies
<1>3. PushInv(d)'
  BY <1>1 DEF PushInv, Pushing
<1>4. PullInv(d)'
  BY <1>1 DEF PullInv
<1> QED
  BY <1>2, <1>3, <1>4, OwnStep

\* The next step of a push whose copy of state.json stays.
LEMMA GotoStep ==
    ASSUME TypeOK, IInv, NEW d \in Devices, UNCHANGED <<Repositories, saved>>,
           NEW label \in {"look", "send", "confirm", "promote"}, Goto(d, label),
           op[d].pc \in Pushing,
           label = "promote" => remote[policy[d].remote][d] = Tip(d)
    PROVE  IInv'
<1>1. /\ op'[d].pc = label /\ op'[d].state = op[d].state
      /\ \A x \in Devices \ {d} : op'[x] = op[x]
  <2>1. label \in Pcs /\ op[d].pc # "write"
    BY PcNames DEF Pushing
  <2> QED
    BY <2>1, GotoType
<1>2. op[d].pc # "idle"
  BY DEF Pushing
<1>3. \A st \in Copies(d)' : StateInv(d, st)
  BY <1>1, <1>2, OwnInv DEF Copies
<1>4. PushInv(d)'
  <2>1. policy[d].approved /\ (d \notin ownPulled => \A st \in {op[d].state} : Covered(d, st))
    BY OwnInv DEF PushInv
  <2>2. d \notin ownPulled => Covered(d, op[d].state)
    BY <2>1
  <2> QED
    BY <1>1, <2>1, <2>2 DEF PushInv, Covered, TurnsAt, Tip, Repositories
<1>5. PullInv(d)'
  BY <1>1 DEF PullInv
<1> QED
  BY <1>1, <1>3, <1>4, <1>5, OwnStep DEF Repositories

LEMMA StartPushKeeps ==
    ASSUME TypeOK, IInv, NEW d \in Devices, StartPush(d)
    PROVE  IInv'
<1>1. UNCHANGED <<Repositories, saved>> /\ policy[d].approved
  BY DEF StartPush, KeepOutbox, KeepPolicy, KeepPulled, KeepFaults, Repositories
<1>2. /\ op'[d].pc \in {"scan", "look"} /\ (op'[d].pc = "scan" <=> chain[d] = <<>>)
      /\ op'[d].state = Loaded(d) /\ \A x \in Devices \ {d} : op'[x] = op[x]
  BY StartPushTypes
<1>3. StateInv(d, Loaded(d)) /\ (d \notin ownPulled => Covered(d, Loaded(d)))
  BY LoadedInv
<1>4. \A st \in Copies(d)' : StateInv(d, st)
  BY <1>1, <1>2, <1>3, OwnInv DEF Copies
<1>5. ASSUME op'[d].pc = "scan"
      PROVE  Loaded(d).committed = {} /\ saved[d].committed = {} /\ Covered(d, saved[d])
  <2>1. Len(chain[d]) = 0
    BY <1>2, <1>5, OutboxTypes
  <2> QED
    BY <1>3, <2>1, OwnInv DEF StateInv, Covered
<1>6. PushInv(d)'
  BY <1>1, <1>2, <1>3, <1>5 DEF PushInv, Covered, TurnsAt, Repositories
<1>7. PullInv(d)'
  BY <1>2 DEF PullInv
<1> QED
  BY <1>1, <1>2, <1>4, <1>6, <1>7, OwnStep

LEMMA LookKeeps ==
    ASSUME TypeOK, IInv, NEW d \in Devices, Look(d)
    PROVE  IInv'
<1>1. UNCHANGED <<Repositories, saved>> /\ op[d].pc \in Pushing
  BY DEF Look, Pc, Pushing, KeepOutbox, KeepPolicy, KeepPulled, KeepFaults, Repositories
<1>2. \/ Return(d)
      \/ Goto(d, "promote") /\ remote[policy[d].remote][d] = Tip(d)
      \/ Goto(d, "send")
  BY DEF Look
<1> QED
  BY <1>1, <1>2, ReturnType, ReturnStep, GotoStep, OwnInv DEF Repositories

LEMMA ConfirmKeeps ==
    ASSUME TypeOK, IInv, NEW d \in Devices, Confirm(d)
    PROVE  IInv'
<1>1. UNCHANGED <<Repositories, saved>> /\ op[d].pc \in Pushing
  BY DEF Confirm, Pc, Pushing, KeepOutbox, KeepPolicy, KeepPulled, KeepFaults, Repositories
<1>2. \/ Return(d)
      \/ Goto(d, "promote") /\ remote[policy[d].remote][d] = Tip(d)
  BY DEF Confirm
<1> QED
  BY <1>1, <1>2, ReturnType, ReturnStep, GotoStep, OwnInv DEF Repositories

\* What waited is at the remote, so it is published.
LEMMA PromotedInv ==
    ASSUME TypeOK, IInv, NEW d \in Devices, Promote(d)
    PROVE  StateInv(d, PromotedState(d)) /\ (d \notin ownPulled => Covered(d, PromotedState(d)))
<1> DEFINE st == op[d].state
           new == PromotedState(d)
           n == Len(chain[d])
<1>1. op[d].pc = "promote"
  BY DEF Promote, Pc
<1>2. /\ StateInv(d, st) /\ (d \notin ownPulled => \A s \in {st} : Covered(d, s))
      /\ d \notin tampered => remote[policy[d].remote][d] = Tip(d)
  BY <1>1, OwnInv DEF PushInv, Pushing
<1>3. /\ new.published = st.published \union st.committed /\ new.committed = {}
      /\ new.lastSeen[d] = Tip(d) /\ \A e \in Devices \ {d} : new.lastSeen[e] = st.lastSeen[e]
  BY PromotedType
<1>4. n \in Nat /\ Tip(d).len = n /\ Tip(d).forged = FALSE
  BY OutboxTypes DEF Tip, At
<1> HIDE DEF st, new
<1>5. \A e \in Devices : Backed(d, e, new.lastSeen[e])
  <2>1. Backed(d, d, Tip(d))
    BY <1>4 DEF Backed
  <2> QED
    BY <1>2, <1>3, <2>1 DEF StateInv
<1>6. d \notin tampered => \A t \in new.published : Uploaded(d, t)
  <2> SUFFICES ASSUME d \notin tampered, NEW t \in st.published \union st.committed
               PROVE  Uploaded(d, t)
    BY <1>3
  <2>1. CASE t \in st.published
    BY <1>2, <2>1 DEF StateInv
  <2>2. CASE t \in st.committed
    <3>1. PICK k \in 1 .. n : t \in TurnsAt(d, k)
      BY <1>2, <2>2 DEF StateInv
    <3>2. policy[d].remote \in Remotes /\ k <= remote[policy[d].remote][d].len
      BY <1>2, <1>4, <3>1, PolicyTypes
    <3> QED
      BY <3>1, <3>2 DEF Uploaded
  <2> QED
    BY <2>1, <2>2
<1>7. ASSUME d \notin ownPulled
      PROVE  Covered(d, new) /\ Accounted(d, new)
  <2>1. Covered(d, st)
    BY <1>2, <1>7
  <2>2. Covered(d, new)
    BY <1>3, <2>1 DEF Covered
  <2>3. Waiting(d, new) /\ LastOnly(d, new)
    BY <1>3, <1>4, <2>2 DEF Waiting, LastOnly, Covered
  <2> QED
    BY <2>2, <2>3 DEF Accounted
<1> QED
  BY <1>3, <1>5, <1>6, <1>7 DEF StateInv, new

LEMMA PromoteKeeps ==
    ASSUME TypeOK, IInv, NEW d \in Devices, Promote(d)
    PROVE  IInv'
<1> DEFINE new == PromotedState(d)
<1>1. UNCHANGED Repositories /\ op[d].pc = "promote"
  BY DEF Promote, Pc, KeepOutbox, KeepPolicy, KeepPulled, KeepFaults, Repositories
<1>2. /\ saved'[d] = new /\ (op'[d] = Idle \/ (op'[d].pc = "scan" /\ op'[d].state = new))
      /\ \A x \in Devices \ {d} : op'[x] = op[x] /\ saved'[x] = saved[x]
  BY PromoteTypes
<1>3. StateInv(d, new) /\ (d \notin ownPulled => Covered(d, new)) /\ new.committed = {}
  BY PromotedInv, PromotedType
<1>4. policy[d].approved
  BY <1>1, OwnInv DEF PushInv, Pushing
<1> HIDE DEF new
<1>5. CASE op'[d] = Idle
  BY <1>1, <1>2, <1>3, <1>5, ReturnStep
<1>6. CASE op'[d].pc = "scan" /\ op'[d].state = new
  <2>1. \A st \in Copies(d)' : StateInv(d, st)
    BY <1>2, <1>3, <1>6 DEF Copies
  <2>2. PushInv(d)'
    BY <1>1, <1>2, <1>3, <1>4, <1>6 DEF PushInv, Covered, TurnsAt, Repositories
  <2>3. PullInv(d)'
    BY <1>6 DEF PullInv
  <2> QED
    BY <1>1, <1>2, <2>1, <2>2, <2>3, OwnStep
<1> QED
  BY <1>2, <1>5, <1>6

\* The copy of state.json is saved, and the operation ends.
LEMMA SaveAndReturnKeeps ==
    ASSUME TypeOK, IInv, NEW d \in Devices, UNCHANGED Repositories, op[d].pc # "idle",
           Save(d, op[d].state), Return(d)
    PROVE  IInv'
  BY SaveAndReturnTypes, OwnInv, ReturnStep

LEMMA SaveOutboxKeeps ==
    ASSUME TypeOK, IInv, NEW d \in Devices, SaveOutbox(d)
    PROVE  IInv'
<1>1. UNCHANGED Repositories /\ op[d].pc = "outbox" /\ Goto(d, "look")
  BY DEF SaveOutbox, Pc, KeepOutbox, KeepPolicy, KeepPulled, KeepFaults, Repositories
<1>2. saved'[d] = op[d].state /\ \A x \in Devices \ {d} : saved'[x] = saved[x]
  BY SaveOutboxTypes
<1>3. op'[d].pc = "look" /\ op'[d].state = op[d].state /\ \A x \in Devices \ {d} : op'[x] = op[x]
  BY <1>1, GotoType, PcNames
<1>4. StateInv(d, op[d].state) /\ policy[d].approved /\ (d \notin ownPulled => \A s \in {op[d].state} : Covered(d, s))
  BY <1>1, OwnInv DEF PushInv, Pushing
<1>5. \A st \in Copies(d)' : StateInv(d, st)
  BY <1>2, <1>3, <1>4 DEF Copies
<1>6. PushInv(d)'
  BY <1>1, <1>3, <1>4 DEF PushInv, Covered, TurnsAt, Repositories
<1>7. PullInv(d)'
  BY <1>3 DEF PullInv
<1> QED
  BY <1>1, <1>2, <1>3, <1>5, <1>6, <1>7, OwnStep

LEMMA StopKeeps ==
    ASSUME TypeOK, IInv, NEW d \in Devices, Stop(d)
    PROVE  IInv'
<1>1. UNCHANGED Repositories /\ UNCHANGED saved /\ Return(d)
  BY DEF Stop, KeepOutbox, KeepPolicy, KeepPulled, Repositories
<1> QED
  BY <1>1, ReturnType, OwnInv, ReturnStep

LEMMA CompleteKeeps ==
    ASSUME IInv, NEW d \in Devices, Complete(d)
    PROVE  IInv'
<1>1. UNCHANGED <<Repositories, saved, op>>
  BY DEF Complete, KeepPolicy, KeepPulled, KeepFaults, Repositories
<1>2. \A st \in Copies(d)' : StateInv(d, st)
  BY <1>1, OwnInv DEF Copies
<1>3. PushInv(d)'
  BY <1>1, OwnInv DEF PushInv, Covered, TurnsAt, Tip, Repositories
<1>4. PullInv(d)'
  BY <1>1, OwnInv DEF PullInv, New, Found, InPlace, Ancestor, Repositories
<1> QED
  BY <1>1, <1>2, <1>3, <1>4, OwnStep

LEMMA ForgetDeviceKeeps ==
    ASSUME TypeOK, IInv, NEW d \in Devices, NEW e \in Devices, ForgetDevice(d, e)
    PROVE  IInv'
<1>1. UNCHANGED <<Repositories, op>> /\ op[d] = Idle
  BY DEF ForgetDevice, IsIdle, KeepOutbox, KeepPolicy, KeepPulled, KeepFaults, Repositories
<1>2. /\ \A x \in Devices \ {d} : saved'[x] = saved[x]
      /\ saved'[d].lastSeen = saved[d].lastSeen /\ saved'[d].committed = saved[d].committed
      /\ saved'[d].head = saved[d].head /\ saved'[d].published = saved[d].published
  BY ForgetDeviceTypes
<1>3. \A st \in {saved'[d]} : StateInv(d, st)
  BY <1>2, OwnInv, SameCopy
<1> QED
  BY <1>1, <1>2, <1>3, ReturnStep

LEMMA ReadFailsKeeps ==
    ASSUME TypeOK, IInv, NEW d \in Devices, NEW e \in Devices, ReadFails(d, e)
    PROVE  IInv'
<1>1. UNCHANGED Repositories /\ op[d].pc # "idle"
  BY DEF ReadFails, Unread, Pc, KeepOutbox, KeepPolicy, KeepPulled, Repositories
<1>2. /\ op'[d] = Idle /\ \A x \in Devices \ {d} : op'[x] = op[x] /\ saved'[x] = saved[x]
      /\ saved'[d].lastSeen = op[d].state.lastSeen /\ saved'[d].committed = op[d].state.committed
      /\ saved'[d].head = op[d].state.head /\ saved'[d].published = op[d].state.published
  BY ReadFailsTypes
<1>3. \A st \in {saved'[d]} : StateInv(d, st)
  BY <1>1, <1>2, OwnInv, SameCopy
<1> QED
  BY <1>1, <1>2, <1>3, ReturnStep

\* The tracking refs a pull takes over are cursors too.
LEMMA PullStateInv ==
    ASSUME TypeOK, IInv, NEW d \in Devices
    PROVE  StateInv(d, PullState(d))
<1> DEFINE st == Aligned(saved[d], policy[d].remote)
           new == PullState(d)
<1>1. StateInv(d, st) /\ st \in State /\ st.remote \in Remotes
  BY OwnInv, PolicyTypes, AlignedInv, AlignedType
<1>2. /\ new.lastSeen = Tracked(d, st) /\ new.committed = st.committed /\ new.head = st.head
      /\ new.published = st.published
  BY PullStateType
<1>3. TrackingInv(d)
  BY OwnInv DEF RepositoryInv
<1> HIDE DEF st, new
<1>4. \A e \in Devices : \/ new.lastSeen[e] = st.lastSeen[e]
                         \/ /\ new.lastSeen[e] = tracking[d][st.remote][e]
                            /\ tracking[d][st.remote][e] # None
  BY <1>2 DEF Tracked
<1>5. \A e \in Devices : Backed(d, e, new.lastSeen[e])
  <2> SUFFICES ASSUME NEW e \in Devices PROVE Backed(d, e, new.lastSeen[e])
    OBVIOUS
  <2>1. Backed(d, e, st.lastSeen[e])
    BY <1>1 DEF StateInv
  <2>2. \A h \in {tracking[d][st.remote][e]} : Backed(d, e, h)
    BY <1>1, <1>3 DEF TrackingInv
  <2> QED
    BY <1>4, <2>1, <2>2
<1>6. ASSUME d \notin ownPulled
      PROVE  Accounted(d, new)
  <2>1. new.lastSeen[d] = st.lastSeen[d]
    BY <1>1, <1>3, <1>4, <1>6 DEF TrackingInv
  <2>2. Accounted(d, st)
    BY <1>1, <1>6 DEF StateInv
  <2> QED
    BY <1>2, <2>1, <2>2 DEF Accounted, Waiting, LastOnly, Covered
<1> QED
  BY <1>1, <1>2, <1>5, <1>6 DEF StateInv, new

LEMMA StartPullKeeps ==
    ASSUME TypeOK, IInv, NEW d \in Devices, StartPull(d)
    PROVE  IInv'
<1>1. UNCHANGED Repositories
  BY DEF StartPull, KeepOutbox, KeepPolicy, KeepPulled, KeepFaults, Repositories
<1>2. /\ op'[d].pc = "list" /\ op'[d].state = PullState(d) /\ saved'[d] \in {saved[d], PullState(d)}
      /\ \A x \in Devices \ {d} : op'[x] = op[x] /\ saved'[x] = saved[x]
  BY StartPullTypes
<1>3. \A st \in Copies(d)' : StateInv(d, st)
  BY <1>2, PullStateInv, OwnInv DEF Copies
<1>4. PushInv(d)' /\ PullInv(d)'
  BY <1>2 DEF PushInv, PullInv, Pushing
<1> QED
  BY <1>1, <1>2, <1>3, <1>4, OwnStep

LEMMA ListKeeps ==
    ASSUME TypeOK, IInv, NEW d \in Devices, List(d)
    PROVE  IInv'
<1>1. UNCHANGED <<Repositories, saved>> /\ op[d].pc = "list"
  BY DEF List, Pc, KeepOutbox, KeepPolicy, KeepPulled, KeepFaults, Repositories
<1>2. /\ op'[d].pc = "read" /\ op'[d].state.lastSeen = op[d].state.lastSeen
      /\ op'[d].state.committed = op[d].state.committed /\ op'[d].state.head = op[d].state.head
      /\ op'[d].state.published = op[d].state.published
      /\ \A e \in op'[d].left : /\ op'[d].listed[e] = remote[policy[d].remote][e]
                               /\ op'[d].listed[e] # op[d].state.lastSeen[e]
      /\ \A x \in Devices \ {d} : op'[x] = op[x]
      /\ op'[d].left \subseteq Devices
  <2>1. TypeOK'
    BY ListTypes
  <2>2. op'[d].left \subseteq Devices
    BY <2>1 DEF TypeOK, Operation
  <2> QED
    BY <2>2, ListTypes
<1>3. \A st \in {op'[d].state} : StateInv(d, st)
  BY <1>1, <1>2, OwnInv, SameCopy
<1>4. \A st \in Copies(d)' : StateInv(d, st)
  BY <1>1, <1>2, <1>3, OwnInv DEF Copies
<1>5. PushInv(d)'
  BY <1>2 DEF PushInv, Pushing
<1>6. PullInv(d)'
  <2> SUFFICES ASSUME NEW e \in op'[d].left
               PROVE  /\ op'[d].listed[e] # op'[d].state.lastSeen[e]
                      /\ \A h \in {op'[d].listed[e]} : InPlace(e, h)'
    BY <1>2 DEF PullInv, New
  <2>1. policy[d].remote \in Remotes /\ e \in Devices
    BY <1>2, PolicyTypes
  <2>2. \A h \in {remote[policy[d].remote][e]} : InPlace(e, h)
    BY <2>1, OwnInv DEF RepositoryInv, RemoteInv
  <2>3. \A h : InPlace(e, h) => InPlace(e, h)'
    BY <1>1, <2>1, RepositoryKept DEF Repositories
  <2> QED
    BY <1>2, <2>2, <2>3
<1> QED
  BY <1>1, <1>2, <1>4, <1>5, <1>6, OwnStep

LEMMA QuarantineKeeps ==
    ASSUME TypeOK, IInv, NEW d \in Devices, NEW e \in Devices, Quarantine(d, e)
    PROVE  IInv'
<1>1. UNCHANGED <<Repositories, saved>> /\ op[d].pc = "read"
  BY DEF Quarantine, Unread, Pc, KeepOutbox, KeepPolicy, KeepPulled, KeepFaults, Repositories
<1>2. /\ op'[d].pc = "read" /\ op'[d].state.lastSeen = op[d].state.lastSeen
      /\ op'[d].state.committed = op[d].state.committed /\ op'[d].state.head = op[d].state.head
      /\ op'[d].state.published = op[d].state.published
      /\ op'[d].left = op[d].left \ {e} /\ \A x \in Devices \ {e} : op'[d].listed[x] = op[d].listed[x]
      /\ \A x \in Devices \ {d} : op'[x] = op[x]
  BY QuarantineTypes
<1>3. \A st \in {op'[d].state} : StateInv(d, st)
  BY <1>1, <1>2, OwnInv, SameCopy
<1>4. \A st \in Copies(d)' : StateInv(d, st)
  BY <1>1, <1>2, <1>3, OwnInv DEF Copies
<1>5. PushInv(d)'
  BY <1>2 DEF PushInv, Pushing
<1>6. PullInv(d)'
  <2> SUFFICES ASSUME NEW x \in op[d].left \ {e}
               PROVE  New(d, x)'
    BY <1>2 DEF PullInv
  <2>1. x \in Devices \ {e}
    BY PolicyTypes
  <2>2. New(d, x)
    BY <1>1, OwnInv DEF PullInv
  <2>3. op'[d].listed[x] = op[d].listed[x]
    BY <1>2, <2>1
  <2>4. op'[d].listed[x] # op'[d].state.lastSeen[x]
    BY <1>2, <2>2, <2>3 DEF New
  <2>5. \A h \in {op'[d].listed[x]} : InPlace(x, h)'
    BY <1>1, <2>1, <2>2, <2>3, RepositoryKept DEF New, Repositories
  <2> QED
    BY <2>4, <2>5 DEF New
<1> QED
  BY <1>1, <1>2, <1>4, <1>5, <1>6, OwnStep

LEMMA FetchKeeps ==
    ASSUME TypeOK, IInv, NEW d \in Devices, NEW e \in Devices, Fetch(d, e)
    PROVE  IInv'
<1>1. /\ UNCHANGED <<Repositories, saved>> /\ op[d].pc = "read"
      /\ Ancestor(op[d].state.lastSeen[e], op[d].listed[e])
      /\ ~ (op[d].listed[e].forged /\ op[d].listed[e].len = op[d].state.lastSeen[e].len + 1)
  BY DEF Fetch, Unread, Readable, NextCommit, Pc, KeepOutbox, KeepPolicy, KeepPulled, KeepFaults, Repositories
<1>2. /\ op'[d].pc = "write" /\ op'[d].left = op[d].left /\ op'[d].from = {e}
      /\ op'[d].state = op[d].state /\ op'[d].listed = op[d].listed
      /\ \A x \in Devices \ {d} : op'[x] = op[x]
  BY FetchTypes
<1>3. \A st \in Copies(d)' : StateInv(d, st)
  BY <1>1, <1>2, OwnInv DEF Copies
<1>4. PushInv(d)'
  BY <1>2 DEF PushInv, Pushing
<1>5. PullInv(d)'
  <2>1. \A x \in op[d].left : New(d, x)
    BY <1>1, OwnInv DEF PullInv
  <2>2. \A x \in op[d].left : New(d, x)'
    BY <1>1, <1>2, <2>1 DEF New, InPlace, Repositories
  <2>3. Found(d, e)'
    BY <1>1, <1>2 DEF Found, Ancestor
  <2> QED
    BY <1>2, <2>2, <2>3 DEF PullInv
<1> QED
  BY <1>1, <1>2, <1>3, <1>4, <1>5, OwnStep

----------------------------------------------------------------------------
(* What others see of an operation                                           *)

\* Outboxes are appended to only.
Extended == \A e \in Devices : /\ Len(chain[e]) <= Len(chain'[e])
                               /\ \A n \in 1 .. Len(chain[e]) : chain'[e][n] = chain[e][n]

\* The outbox and the refs of x stay, what it has materialized only grows.
Settled(x) ==
    /\ chain'[x] = chain[x] /\ Digest(policy[x])' = Digest(policy[x])
    /\ \A r \in Remotes : remote'[r][x] = remote[r][x]
    /\ \A e \in Devices : pulled[x][e] \subseteq pulled'[x][e]
    /\ tampered \subseteq tampered' /\ ownPulled \subseteq ownPulled'

\* ... and neither its operation nor its records take part in the step.
Quiet(x) ==
    /\ Settled(x)
    /\ op'[x] = op[x] /\ saved'[x] = saved[x] /\ tracking'[x] = tracking[x]
    /\ policy'[x].remote = policy[x].remote
    /\ policy[x].approved => policy'[x].approved
    /\ policy'[x].approved => Digest(policy[x]) \in agreed'[x]
    /\ agreed[x] \subseteq agreed'[x]

LEMMA UnchangedChain == (UNCHANGED chain /\ TypeOK) => Extended
  BY OutboxTypes DEF Extended

LEMMA BackedKept ==
    ASSUME TypeOK, TypeOK', Extended, NEW x \in Devices,
           \A e \in Devices : pulled[x][e] \subseteq pulled'[x][e]
    PROVE  \A e \in Devices : \A h \in Commit : Backed(x, e, h) => Backed(x, e, h)'
<1> SUFFICES ASSUME NEW e \in Devices, NEW h \in Commit, Backed(x, e, h)
             PROVE  Backed(x, e, h)'
  OBVIOUS
<1>1. /\ Len(chain[e]) \in Nat /\ Len(chain'[e]) \in Nat /\ Len(chain[e]) <= Len(chain'[e])
      /\ \A n \in 1 .. Len(chain[e]) : chain'[e][n] = chain[e][n]
  <2>1. Len(chain'[e]) \in Nat
    BY DEF TypeOK
  <2> QED
    BY <2>1, OutboxTypes DEF Extended
<1>2. h.len \in Nat /\ ~ h.forged /\ h.len <= Len(chain[e])
  BY DEF Backed, Commit
<1>3. h.len <= Len(chain'[e]) /\ 1 .. h.len \subseteq 1 .. Len(chain[e])
  BY <1>1, <1>2
<1>4. ASSUME e # x, NEW n \in 1 .. h.len
      PROVE  chain'[e][n].turns \subseteq pulled'[x][e]
  BY <1>1, <1>3, <1>4 DEF Backed, TurnsAt
<1> QED
  BY <1>2, <1>3, <1>4 DEF Backed, TurnsAt

LEMMA InPlaceKept ==
    ASSUME TypeOK, TypeOK', Extended
    PROVE  \A e \in Devices : \A h \in Commit : InPlace(e, h) => InPlace(e, h)'
<1> SUFFICES ASSUME NEW e \in Devices, NEW h \in Commit, InPlace(e, h)
             PROVE  InPlace(e, h)'
  OBVIOUS
<1>1. Len(chain[e]) \in Nat /\ Len(chain'[e]) \in Nat /\ Len(chain[e]) <= Len(chain'[e])
  <2>1. Len(chain'[e]) \in Nat
    BY DEF TypeOK
  <2> QED
    BY <2>1, OutboxTypes DEF Extended
<1> QED
  BY <1>1 DEF InPlace, Commit

\* What a state.json says stays true.
LEMMA StateKept ==
    ASSUME TypeOK, TypeOK', Extended, NEW x \in Devices, Settled(x)
    PROVE  /\ \A st \in State : StateInv(x, st) => StateInv(x, st)'
           /\ \A st : Covered(x, st) => Covered(x, st)'
<1>1. ASSUME NEW st, Covered(x, st)
      PROVE  Covered(x, st)'
  BY <1>1 DEF Covered, TurnsAt, Settled
<1>2. ASSUME NEW st \in State, StateInv(x, st)
      PROVE  StateInv(x, st)'
  <2>1. (\A e \in Devices : Backed(x, e, st.lastSeen[e]))'
    <3>1. \A e \in Devices : st.lastSeen[e] \in Commit
      BY DEF State
    <3>2. \A e \in Devices : \A h \in Commit : Backed(x, e, h) => Backed(x, e, h)'
      BY BackedKept DEF Settled
    <3> QED
      BY <1>2, <3>1, <3>2 DEF StateInv
  <2>2. (\A t \in st.committed : \E n \in 1 .. Len(chain[x]) : t \in TurnsAt(x, n))'
    BY <1>2 DEF StateInv, TurnsAt, Settled
  <2>3. (x \notin tampered => \A t \in st.published : Uploaded(x, t))'
    BY <1>2 DEF StateInv, Uploaded, TurnsAt, Settled
  <2>4. (x \notin ownPulled => Accounted(x, st))'
    <3>1. chain'[x] = chain[x] /\ Digest(policy[x])' = Digest(policy[x]) /\ ownPulled \subseteq ownPulled'
      BY DEF Settled
    <3>2. x \notin ownPulled' => Accounted(x, st)
      BY <1>2, <3>1 DEF StateInv
    <3> QED
      BY <3>1, <3>2 DEF Accounted, Waiting, LastOnly, Covered, TurnsAt, Tip
  <2> QED
    BY <2>1, <2>2, <2>3, <2>4 DEF StateInv
<1> QED
  BY <1>1, <1>2

LEMMA QuietKept ==
    ASSUME TypeOK, TypeOK', Extended, NEW x \in Devices, DeviceInv(x), Quiet(x)
    PROVE  DeviceInv(x)'
<1> USE DEF Quiet
<1>1. Settled(x)
  OBVIOUS
<1>2. \A st \in Copies(x)' : StateInv(x, st)'
  <2>1. Copies(x)' = Copies(x)
    BY DEF Copies
  <2>2. Copies(x) \subseteq State
    BY PolicyTypes DEF Copies
  <2>3. \A st \in State : StateInv(x, st) => StateInv(x, st)'
    BY <1>1, StateKept
  <2> QED
    BY <2>1, <2>2, <2>3 DEF DeviceInv, OperationInv
<1>3. PushInv(x)'
  <2>1. PushInv(x)
    BY DEF DeviceInv, OperationInv
  <2>2. policy[x].remote \in Remotes
    BY PolicyTypes
  <2> QED
    BY <1>1, <2>1, <2>2 DEF PushInv, Covered, TurnsAt, Tip, Settled
<1>4. PullInv(x)'
  <2>1. op'[x] = op[x] /\ PullInv(x)
    BY DEF DeviceInv, OperationInv
  <2>2. \A e \in Devices : \A h \in Commit : InPlace(e, h) => InPlace(e, h)'
    BY InPlaceKept
  <2>3. \A e \in Devices : New(x, e) => New(x, e)'
    <3>1. \A e \in Devices : op[x].listed[e] \in Commit
      BY PolicyTypes DEF Operation
    <3> QED
      BY <2>1, <2>2, <3>1 DEF New
  <2>4. \A e \in Devices : Found(x, e) => Found(x, e)'
    BY <2>1 DEF Found, Ancestor
  <2>5. op[x].left \subseteq Devices /\ op[x].from \subseteq op[x].left
    BY PolicyTypes
  <2> QED
    BY <2>1, <2>3, <2>4, <2>5 DEF PullInv
<1>5. ConsentInv(x)'
  <2>1. \A r, p : Agreed(x, p, r) => Agreed(x, p, r)'
    BY DEF Agreed
  <2>2. (\A n \in 1 .. Len(chain[x]) : \A r \in {policy[x].remote} : \A p \in {chain[x][n].policy} : Agreed(x, p, r))'
    BY <1>1, <2>1 DEF DeviceInv, RepositoryInv, ConsentInv, Settled
  <2>3. (policy[x].approved => Digest(policy[x]) \in agreed[x])'
    BY <1>1 DEF Settled
  <2> QED
    BY <2>2, <2>3 DEF ConsentInv
<1>6. RemoteInv(x)'
  <2>1. \A r, p : Agreed(x, p, r) => Agreed(x, p, r)'
    BY DEF Agreed
  <2>2. \A r \in Remotes : remote'[r][x] = remote[r][x] /\ remote[r][x] \in Commit
    BY <1>1 DEF TypeOK, Settled
  <2>3. chain'[x] = chain[x] /\ tampered \subseteq tampered'
    BY <1>1 DEF Settled
  <2>4. \A h \in Commit : InPlace(x, h) => InPlace(x, h)'
    BY InPlaceKept
  <2>5. RemoteInv(x)
    BY DEF DeviceInv, RepositoryInv
  <2> SUFFICES ASSUME NEW r \in Remotes
               PROVE  /\ \A h \in {remote[r][x]} : InPlace(x, h)'
                      /\ x \notin tampered => /\ ~ remote[r][x].forged
                                              /\ \A n \in 1 .. remote[r][x].len :
                                                    \A p \in {chain[x][n].policy} : Agreed(x, p, r)'
    BY <2>2, <2>3 DEF RemoteInv
  <2> QED
    BY <2>1, <2>2, <2>4, <2>5 DEF RemoteInv
<1>7. TrackingInv(x)'
  <2>1. tracking'[x] = tracking[x] /\ ownPulled \subseteq ownPulled' /\ TrackingInv(x)
    BY <1>1 DEF Settled, DeviceInv, RepositoryInv
  <2>2. \A e \in Devices : \A h \in Commit : Backed(x, e, h) => Backed(x, e, h)'
    BY <1>1, BackedKept DEF Settled
  <2>3. \A r \in Remotes, e \in Devices : tracking[x][r][e] \in Commit
    BY DEF TypeOK
  <2> QED
    BY <2>1, <2>2, <2>3 DEF TrackingInv
<1>8. Apart(x)'
  BY <1>1 DEF Settled, DeviceInv, RepositoryInv, Apart, TurnsAt
<1> QED
  BY <1>2, <1>3, <1>4, <1>5, <1>6, <1>7, <1>8 DEF DeviceInv, OperationInv, RepositoryInv

----------------------------------------------------------------------------
(* The steps others see                                                     *)

\* A commit that is read is one of its device: the head that was listed leads past it.
LEMMA NextIsCommitted ==
    ASSUME TypeOK, IInv, NEW d \in Devices, op[d].pc = "write", NEW e \in op[d].from
    PROVE  /\ e \in Devices /\ NextCommit(d, e) \in 1 .. Len(chain[e])
           /\ ~ op[d].state.lastSeen[e].forged
<1> DEFINE seen == op[d].state.lastSeen[e]
           head == op[d].listed[e]
           n == Len(chain[e])
<1>1. e \in Devices /\ e \in op[d].left
  BY PolicyTypes
<1>2. New(d, e) /\ Found(d, e)
  BY <1>1, OwnInv DEF PullInv
<1>3. seen \in Commit /\ head \in Commit /\ n \in Nat
  BY <1>1, PolicyTypes, OutboxTypes DEF State, Operation
<1>4. seen # head /\ InPlace(e, head) /\ Ancestor(seen, head) /\ ~ (head.forged /\ head.len = seen.len + 1)
  BY <1>2 DEF New, Found
<1>5. NextCommit(d, e) = seen.len + 1
  BY DEF NextCommit
<1> HIDE DEF seen, head, n
<1>6. ~ seen.forged /\ seen.len < head.len
  BY <1>4 DEF Ancestor
<1>7. seen.len + 1 \in 1 .. n
  BY <1>3, <1>4, <1>6 DEF InPlace, Commit, n
<1> QED
  BY <1>1, <1>5, <1>6, <1>7 DEF seen, n

LEMMA MaterializeKeeps ==
    ASSUME TypeOK, IInv, NEW d \in Devices, Materialize(d)
    PROVE  TypeOK' /\ IInv'
<1>1. op[d].pc = "write"
  BY DEF Materialize, Pc
<1>2. \A e \in op[d].from : chain[e][NextCommit(d, e)].turns \subseteq Turns
  BY <1>1, NextIsCommitted, OutboxTypes
<1>3. TypeOK' /\ \A x \in Devices, e \in Devices : pulled[x][e] \subseteq pulled'[x][e]
  BY <1>2, MaterializeTypes
<1>4. UNCHANGED <<completed, chain, remote, policy, changed, agreed, saved, op, tracking, ownPulled, tampered>>
  BY DEF Materialize, KeepOutbox, KeepPolicy, KeepFaults
<1>5. ASSUME NEW x \in Devices
      PROVE  DeviceInv(x)'
  <2>1. Quiet(x)
    BY <1>3, <1>4, OwnInv DEF Quiet, Settled, Digest, RepositoryInv, ConsentInv
  <2> QED
    BY <1>3, <1>4, <2>1, UnchangedChain, QuietKept DEF IInv
<1> QED
  BY <1>3, <1>5 DEF IInv

LEMMA ApproveKeeps ==
    ASSUME TypeOK, IInv, NEW d \in Devices, Approve(d)
    PROVE  IInv'
<1>1. /\ TypeOK' /\ \A x \in Devices \ {d} : policy'[x] = policy[x] /\ agreed'[x] = agreed[x]
      /\ Digest(policy[d])' = Digest(policy[d]) /\ policy'[d].remote = policy[d].remote
      /\ agreed'[d] = agreed[d] \union {Digest(policy[d])}
  BY ApproveTypes
<1>2. UNCHANGED <<chain, remote, saved, op, tracking, pulled, ownPulled, tampered>> /\ ~ policy[d].approved
  BY DEF Approve, KeepOutbox, KeepPulled, KeepFaults
<1>3. ASSUME NEW x \in Devices
      PROVE  DeviceInv(x)'
  <2>1. Quiet(x)
    <3>1. CASE x = d
      BY <1>1, <1>2, <3>1 DEF Quiet, Settled
    <3>2. CASE x # d
      <4>1. policy'[x] = policy[x] /\ agreed'[x] = agreed[x]
        BY <1>1, <3>2
      <4> QED
        BY <1>2, <4>1, OwnInv DEF Quiet, Settled, Digest, RepositoryInv, ConsentInv
    <3> QED
      BY <3>1, <3>2
  <2> QED
    BY <1>1, <1>2, <2>1, UnchangedChain, QuietKept DEF IInv
<1> QED
  BY <1>3 DEF IInv

LEMMA DisableKeeps ==
    ASSUME TypeOK, IInv, NEW d \in Devices, Disable(d)
    PROVE  IInv'
<1>1. /\ TypeOK' /\ \A x \in Devices \ {d} : policy'[x] = policy[x]
      /\ Digest(policy[d])' = Digest(policy[d]) /\ policy'[d].remote = policy[d].remote
      /\ policy'[d].approved = policy[d].approved
  BY DisableTypes
<1>2. UNCHANGED <<chain, remote, saved, op, tracking, pulled, ownPulled, tampered, agreed>>
  BY DEF Disable, KeepOutbox, KeepPulled
<1>3. ASSUME NEW x \in Devices
      PROVE  DeviceInv(x)'
  <2>1. /\ Digest(policy[x])' = Digest(policy[x]) /\ policy'[x].remote = policy[x].remote
        /\ policy'[x].approved = policy[x].approved
    <3>1. CASE x = d
      BY <1>1, <3>1
    <3>2. CASE x # d
      <4>1. policy'[x] = policy[x]
        BY <1>1, <3>2
      <4> QED
        BY <4>1 DEF Digest
    <3> QED
      BY <3>1, <3>2
  <2>2. Quiet(x)
    BY <1>2, <2>1, OwnInv DEF Quiet, Settled, RepositoryInv, ConsentInv
  <2> QED
    BY <1>1, <1>2, <2>2, UnchangedChain, QuietKept DEF IInv
<1> QED
  BY <1>3 DEF IInv

\* A device that others have nothing to do with.
LEMMA OtherQuiet ==
    ASSUME IInv, NEW x \in Devices, UNCHANGED <<saved, pulled>>,
           op'[x] = op[x], tracking'[x] = tracking[x], chain'[x] = chain[x],
           policy'[x] = policy[x], agreed'[x] = agreed[x],
           \A r \in Remotes : remote'[r][x] = remote[r][x],
           tampered \subseteq tampered', ownPulled \subseteq ownPulled'
    PROVE  Quiet(x)
  BY OwnInv DEF Quiet, Settled, Digest, RepositoryInv, ConsentInv

LEMMA TamperKeeps ==
    ASSUME TypeOK, IInv, NEW r \in Remotes, NEW d \in Devices, Tamper(r, d)
    PROVE  IInv'
<1>1. /\ TypeOK' /\ tampered' = tampered \union {d} /\ d \notin tampered
      /\ \A q \in Remotes, e \in Devices : (q # r \/ e # d) => remote'[q][e] = remote[q][e]
      /\ \/ ~ remote'[r][d].forged /\ remote'[r][d].len < remote[r][d].len
         \/ remote'[r][d].forged /\ remote'[r][d].len <= remote[r][d].len + 1
  BY TamperTypes
<1>2. UNCHANGED <<chain, policy, saved, op, tracking, pulled, ownPulled, agreed>>
  BY DEF Tamper, KeepPolicy, KeepPulled
<1>3. Extended
  BY <1>2, UnchangedChain
<1>4. ASSUME NEW x \in Devices \ {d}
      PROVE  DeviceInv(x)'
  <2>1. x \in Devices /\ \A q \in Remotes : remote'[q][x] = remote[q][x]
    BY <1>1
  <2>2. Quiet(x)
    BY <1>1, <1>2, <2>1, OtherQuiet
  <2> QED
    BY <1>1, <1>3, <2>1, <2>2, QuietKept DEF IInv
<1>5. DeviceInv(d)'
  <2>1. \A st \in Copies(d)' : StateInv(d, st)'
    <3>1. Copies(d)' = Copies(d) /\ d \in tampered'
      BY <1>1, <1>2 DEF Copies
    <3>2. \A st \in Copies(d) : StateInv(d, st)
      BY DEF IInv, DeviceInv, OperationInv
    <3>3. ASSUME NEW st, StateInv(d, st)
          PROVE  StateInv(d, st)'
      <4>1. (\A e \in Devices : Backed(d, e, st.lastSeen[e]))'
        BY <1>2, <3>3 DEF StateInv, Backed, TurnsAt
      <4>2. (\A t \in st.committed : \E n \in 1 .. Len(chain[d]) : t \in TurnsAt(d, n))'
        BY <1>2, <3>3 DEF StateInv, TurnsAt
      <4>3. (d \notin ownPulled => Accounted(d, st))'
        BY <1>2, <3>3 DEF StateInv, Accounted, Waiting, LastOnly, Covered, TurnsAt, Tip, Digest
      <4> QED
        BY <3>1, <4>1, <4>2, <4>3 DEF StateInv
    <3> QED
      BY <3>1, <3>2, <3>3
  <2>2. PushInv(d)'
    BY <1>1, <1>2, OwnInv DEF PushInv, Covered, TurnsAt, Tip
  <2>3. PullInv(d)'
    BY <1>2, OwnInv DEF PullInv, New, Found, InPlace, Ancestor
  <2>4. ConsentInv(d)'
    BY <1>2, OwnInv DEF RepositoryInv, ConsentInv, Agreed, Digest
  <2>5. RemoteInv(d)'
    <3>1. \A q \in Remotes : remote[q][d].len \in Nat /\ remote'[q][d].len \in Nat
      <4>1. \A q \in Remotes : remote[q][d] \in Commit /\ remote'[q][d] \in Commit
        BY <1>1 DEF TypeOK
      <4> QED
        BY <4>1 DEF Commit
    <3>2. \A q \in Remotes : InPlace(d, remote[q][d]) /\ ~ remote[q][d].forged
      BY <1>1, OwnInv DEF RepositoryInv, RemoteInv
    <3>3. Len(chain[d]) \in Nat
      BY OutboxTypes
    <3>4. ASSUME NEW q \in Remotes
          PROVE  /\ remote'[q][d].len <= Len(chain[d])
                    \/ (remote'[q][d].forged /\ remote'[q][d].len = Len(chain[d]) + 1)
      <4>1. CASE q = r
        BY <1>1, <3>1, <3>2, <3>3, <4>1 DEF InPlace
      <4>2. CASE q # r
        <5>1. remote'[q][d] = remote[q][d]
          BY <1>1, <4>2
        <5> QED
          BY <3>2, <5>1 DEF InPlace
      <4> QED
        BY <4>1, <4>2
    <3> QED
      BY <1>1, <1>2, <3>4 DEF RemoteInv, InPlace
  <2>6. TrackingInv(d)'
    BY <1>2, OwnInv DEF RepositoryInv, TrackingInv, Backed, TurnsAt
  <2>7. Apart(d)'
    BY <1>2, OwnInv DEF RepositoryInv, Apart, TurnsAt
  <2> QED
    BY <2>1, <2>2, <2>3, <2>4, <2>5, <2>6, <2>7 DEF DeviceInv, OperationInv, RepositoryInv
<1> QED
  BY <1>4, <1>5 DEF IInv

LEMMA SendKeeps ==
    ASSUME TypeOK, IInv, NEW d \in Devices, Send(d)
    PROVE  IInv'
<1> DEFINE r == policy[d].remote
<1>1. /\ op[d].pc = "send" /\ op[d].pc \in Pushing
      /\ UNCHANGED <<chain, policy, tracking, pulled, tampered, ownPulled, agreed, saved>>
  BY DEF Send, Pc, Pushing, KeepPolicy, KeepPulled, KeepFaults
<1>2. CASE UNCHANGED remote /\ Return(d)
  BY <1>1, <1>2, ReturnType, OwnInv, ReturnStep DEF Repositories
<1>3. CASE /\ Ancestor(remote[r][d], Tip(d)) /\ Goto(d, "confirm")
           /\ remote' = [remote EXCEPT ![r][d] = Tip(d)]
  <2>1. r \in Remotes /\ TypeOK'
    BY PolicyTypes, SendTypes
  <2>2. /\ remote'[r][d] = Tip(d)
        /\ \A q \in Remotes, e \in Devices : (q # r \/ e # d) => remote'[q][e] = remote[q][e]
    <3> HIDE DEF r
    <3> QED
      BY <1>3, <2>1 DEF TypeOK
  <2>3. op'[d].pc = "confirm" /\ op'[d].state = op[d].state /\ \A x \in Devices \ {d} : op'[x] = op[x]
    BY <1>1, <1>3, GotoType, PcNames
  <2>4. Len(chain[d]) \in Nat /\ Tip(d).len = Len(chain[d]) /\ Tip(d).forged = FALSE
    BY OutboxTypes DEF Tip, At
  <2>5. ASSUME NEW x \in Devices \ {d}
        PROVE  DeviceInv(x)'
    <3>1. Quiet(x)
      BY <1>1, <2>2, <2>3, OtherQuiet
    <3> QED
      BY <1>1, <2>1, <3>1, UnchangedChain, QuietKept DEF IInv
  <2> HIDE DEF r
  <2>6. \A st \in Copies(d)' : StateInv(d, st)'
    <3>1. \A st \in Copies(d)' : StateInv(d, st)
      BY <1>1, <2>3, OwnInv DEF Copies
    <3>2. ASSUME NEW st, StateInv(d, st)
          PROVE  StateInv(d, st)'
      <4>1. (\A e \in Devices : Backed(d, e, st.lastSeen[e]))'
        BY <1>1, <3>2 DEF StateInv, Backed, TurnsAt
      <4>2. (\A t \in st.committed : \E n \in 1 .. Len(chain[d]) : t \in TurnsAt(d, n))'
        BY <1>1, <3>2 DEF StateInv, TurnsAt
      <4>3. (d \notin tampered => \A t \in st.published : Uploaded(d, t))'
        <5> SUFFICES ASSUME d \notin tampered, NEW t \in st.published
                     PROVE  \E q \in Remotes : \E n \in 1 .. Len(chain[d]) :
                                n <= remote'[q][d].len /\ t \in TurnsAt(d, n)
          BY <1>1 DEF Uploaded, TurnsAt
        <5>1. PICK q \in Remotes : \E n \in 1 .. Len(chain[d]) : n <= remote[q][d].len /\ t \in TurnsAt(d, n)
          BY <3>2 DEF StateInv, Uploaded
        <5>2. PICK n \in 1 .. Len(chain[d]) : n <= remote[q][d].len /\ t \in TurnsAt(d, n)
          BY <5>1
        <5>3. n <= remote'[q][d].len
          <6>1. CASE q = r
            BY <2>2, <2>4, <6>1
          <6>2. CASE q # r
            BY <2>2, <5>2, <6>2
          <6> QED
            BY <6>1, <6>2
        <5> QED
          BY <5>2, <5>3
      <4>4. (d \notin ownPulled => Accounted(d, st))'
        BY <1>1, <3>2 DEF StateInv, Accounted, Waiting, LastOnly, Covered, TurnsAt, Tip, Digest
      <4> QED
        BY <4>1, <4>2, <4>3, <4>4 DEF StateInv
    <3> QED
      BY <3>1, <3>2
  <2>7. PushInv(d)'
    <3>1. policy[d].approved /\ (d \notin ownPulled => \A st \in {op[d].state} : Covered(d, st))
      BY <1>1, OwnInv DEF PushInv
    <3>2. d \notin ownPulled => Covered(d, op[d].state)
      BY <3>1
    <3> QED
      BY <1>1, <2>3, <3>1, <3>2 DEF PushInv, Covered, TurnsAt
  <2>8. PullInv(d)'
    BY <2>3 DEF PullInv
  <2>9. ConsentInv(d)'
    BY <1>1, OwnInv DEF RepositoryInv, ConsentInv, Agreed, Digest
  <2>10. RemoteInv(d)'
    <3> SUFFICES ASSUME NEW q \in Remotes
                 PROVE  \A h \in {remote'[q][d]} :
                          /\ InPlace(d, h)
                          /\ d \notin tampered => /\ ~ h.forged
                                                  /\ \A n \in 1 .. h.len : \A p \in {chain[d][n].policy} : Agreed(d, p, q)
      BY <1>1 DEF RemoteInv, InPlace, Agreed
    <3>1. CASE q = r
      <4>1. \A n \in 1 .. Len(chain[d]) : \A p \in {chain[d][n].policy} : Agreed(d, p, r)
        BY OwnInv DEF RepositoryInv, ConsentInv, r
      <4> QED
        BY <2>2, <2>4, <3>1, <4>1 DEF InPlace
    <3>2. CASE q # r
      BY <2>2, <3>2, OwnInv DEF RepositoryInv, RemoteInv
    <3> QED
      BY <3>1, <3>2
  <2>11. TrackingInv(d)'
    BY <1>1, OwnInv DEF RepositoryInv, TrackingInv, Backed, TurnsAt
  <2>12. Apart(d)'
    BY <1>1, OwnInv DEF RepositoryInv, Apart, TurnsAt
  <2>13. DeviceInv(d)'
    BY <2>6, <2>7, <2>8, <2>9, <2>10, <2>11, <2>12 DEF DeviceInv, OperationInv, RepositoryInv
  <2> QED
    BY <2>5, <2>13 DEF IInv
<1>4. \/ UNCHANGED remote /\ Return(d)
      \/ /\ Ancestor(remote[r][d], Tip(d)) /\ Goto(d, "confirm")
         /\ remote' = [remote EXCEPT ![r][d] = Tip(d)]
  BY DEF Send
<1> QED
  BY <1>2, <1>3, <1>4

\* A state.json with nothing waiting, when a batch S is appended to the outbox.
LEMMA AppendedState ==
    ASSUME TypeOK, TypeOK', Extended, NEW d \in Devices, NEW S, NEW st \in State,
           chain'[d] = Append(chain[d], [turns |-> S, policy |-> Digest(policy[d])]),
           UNCHANGED <<policy, remote, tampered, ownPulled, pulled>>,
           StateInv(d, st), st.committed = {}, d \notin ownPulled => Covered(d, st)
    PROVE  /\ (\A e \in Devices : Backed(d, e, st.lastSeen[e]))'
           /\ (d \notin tampered => \A t \in st.published : Uploaded(d, t))'
           /\ d \notin ownPulled => LastOnly(d, st)'
           /\ st.lastSeen[d] # Tip(d)'
<1> DEFINE n == Len(chain[d])
<1>1. /\ n \in Nat /\ Len(chain'[d]) = n + 1 /\ chain[d] \in Seq(Batch)
      /\ \A k \in 1 .. n : chain'[d][k] = chain[d][k]
      /\ chain'[d][n + 1].turns = S /\ chain'[d][n + 1].policy = Digest(policy[d])
  BY OutboxTypes DEF Extended
<1>2. (\A e \in Devices : Backed(d, e, st.lastSeen[e]))'
  <2>1. \A e \in Devices : st.lastSeen[e] \in Commit
    BY DEF State
  <2>2. \A e \in Devices : \A h \in Commit : Backed(d, e, h) => Backed(d, e, h)'
    BY BackedKept
  <2> QED
    BY <2>1, <2>2 DEF StateInv
<1> HIDE DEF n
<1>3. (d \notin tampered => \A t \in st.published : Uploaded(d, t))'
  <2> SUFFICES ASSUME d \notin tampered, NEW t \in st.published
               PROVE  Uploaded(d, t)'
    OBVIOUS
  <2>1. PICK q \in Remotes : \E k \in 1 .. n : k <= remote[q][d].len /\ t \in TurnsAt(d, k)
    BY DEF StateInv, Uploaded, n
  <2>2. PICK k \in 1 .. n : k <= remote[q][d].len /\ t \in chain[d][k].turns
    BY <2>1 DEF TurnsAt
  <2>3. k \in 1 .. Len(chain'[d]) /\ t \in chain'[d][k].turns
    BY <1>1, <2>2
  <2> QED
    BY <2>2, <2>3 DEF Uploaded, TurnsAt
<1>4. ASSUME d \notin ownPulled
      PROVE  LastOnly(d, st)'
  <2>1. \A k \in 1 .. n : chain'[d][k].turns \subseteq st.published
    BY <1>1, <1>4 DEF Covered, TurnsAt, n
  <2>2. Digest(policy[d])' = Digest(policy[d])
    BY DEF Digest
  <2> QED
    BY <1>1, <2>1, <2>2 DEF LastOnly, TurnsAt
<1>5. st.lastSeen[d] # Tip(d)'
  <2>1. st.lastSeen[d].len <= n /\ st.lastSeen[d].len \in Nat
    BY DEF StateInv, Backed, State, Commit, n
  <2>2. Tip(d)' = At(n + 1)
    BY <1>1 DEF Tip
  <2>3. st.lastSeen[d].len # n + 1
    BY <1>1, <2>1
  <2> QED
    BY <2>2, <2>3 DEF At
<1> QED
  BY <1>2, <1>3, <1>4, <1>5

LEMMA CommitBatchKeeps ==
    ASSUME TypeOK, IInv, NEW d \in Devices, CommitBatch(d)
    PROVE  IInv'
<1>1. /\ op[d].pc = "scan" /\ op[d].pc \in Pushing /\ op[d].pc # "idle"
      /\ UNCHANGED <<policy, remote, tracking, pulled, tampered, ownPulled, agreed, saved>>
  BY DEF CommitBatch, Pc, Pushing, KeepPolicy, KeepPulled, KeepFaults
<1>2. TypeOK' /\ \A x \in Devices \ {d} : op'[x] = op[x] /\ chain'[x] = chain[x]
  BY CommitBatchTypes
<1>3. CASE op'[d] = Idle /\ UNCHANGED chain
  BY <1>1, <1>2, <1>3, OwnInv, ReturnStep DEF Repositories
<1>4. ASSUME NEW S \in Batches(d), NEW new \in {CommittedState(d, S)},
             chain'[d] = Append(chain[d], [turns |-> S, policy |-> Digest(policy[d])]),
             op'[d].pc = "outbox", op'[d].state = new,
             new.committed = op[d].state.committed \union S, new.head = Len(chain[d]) + 1,
             new.published = op[d].state.published, new.lastSeen = op[d].state.lastSeen
      PROVE  IInv'
  <2> DEFINE n == Len(chain[d])
             st == op[d].state
  <2> USE <1>4
  <2>1. /\ n \in Nat /\ Len(chain'[d]) = n + 1
        /\ \A k \in 1 .. n : chain'[d][k] = chain[d][k]
        /\ chain'[d][n + 1].turns = S /\ chain'[d][n + 1].policy = Digest(policy[d])
    BY OutboxTypes
  <2>2. Extended
    <3> SUFFICES ASSUME NEW e \in Devices
                 PROVE  /\ Len(chain[e]) <= Len(chain'[e])
                        /\ \A k \in 1 .. Len(chain[e]) : chain'[e][k] = chain[e][k]
      BY DEF Extended
    <3>1. CASE e = d
      BY <2>1, <3>1
    <3>2. CASE e # d
      BY <1>2, <3>2, OutboxTypes
    <3> QED
      BY <3>1, <3>2
  <2> HIDE DEF n
  <2>3. ASSUME NEW x \in Devices \ {d}
        PROVE  DeviceInv(x)'
    <3>1. Quiet(x)
      BY <1>1, <1>2, OtherQuiet
    <3> QED
      BY <1>2, <2>2, <3>1, QuietKept DEF IInv
  <2>4. /\ st \in State /\ saved[d] \in State
        /\ StateInv(d, st) /\ StateInv(d, saved[d]) /\ st.committed = {} /\ saved[d].committed = {}
        /\ policy[d].approved
    BY <1>1, PolicyTypes, OwnInv DEF PushInv
  <2>5. d \notin ownPulled => \A s \in {st, saved[d]} : Covered(d, s)
    BY <1>1, OwnInv DEF PushInv
  <2>6. S # {} /\ S \intersect (st.published \union st.committed) = {}
    BY DEF Batches, Pending
  <2> HIDE DEF st
  <2>7. ASSUME NEW s \in {st, saved[d]}
        PROVE  /\ (\A e \in Devices : Backed(d, e, s.lastSeen[e]))'
               /\ (d \notin tampered => \A t \in s.published : Uploaded(d, t))'
               /\ d \notin ownPulled => LastOnly(d, s)'
               /\ s.lastSeen[d] # Tip(d)'
    <3>1. s \in State /\ StateInv(d, s) /\ s.committed = {} /\ (d \notin ownPulled => Covered(d, s))
      BY <2>4, <2>5
    <3> QED
      BY <1>1, <1>2, <2>2, <3>1, AppendedState
  <2>8. \A s \in {saved[d]} : StateInv(d, s)'
    <3>1. ASSUME NEW s \in {saved[d]}
          PROVE  StateInv(d, s)'
      <4>1. s.committed = {} /\ s.lastSeen[d] # Tip(d)'
        BY <2>4, <2>7
      <4>2. (d \notin ownPulled => Accounted(d, s))'
        BY <1>1, <2>7, <4>1 DEF Accounted, Waiting
      <4> QED
        BY <2>7, <4>1, <4>2 DEF StateInv
    <3> QED
      BY <3>1
  <2>9. d \notin ownPulled => Covered(d, new)'
    <3> SUFFICES ASSUME d \notin ownPulled, NEW k \in 1 .. n + 1
                 PROVE  chain'[d][k].turns \subseteq new.published \union new.committed
      BY <2>1 DEF Covered, TurnsAt
    <3>1. CASE k = n + 1
      BY <2>1, <3>1
    <3>2. CASE k \in 1 .. n
      <4>1. Covered(d, st)
        BY <2>5
      <4>2. TurnsAt(d, k) \subseteq st.published \union st.committed
        BY <3>2, <4>1 DEF Covered, n
      <4> QED
        BY <2>1, <3>2, <4>2 DEF TurnsAt, st
    <3> QED
      BY <2>1, <3>1, <3>2
  <2>10. StateInv(d, new)'
    <3>1. PICK s \in {st, saved[d]} : s = st
      OBVIOUS
    <3>2. /\ new.committed = s.committed \union S /\ new.head = n + 1
          /\ new.published = s.published /\ new.lastSeen = s.lastSeen
      BY <3>1 DEF st, n
    <3>3. (\A e \in Devices : Backed(d, e, new.lastSeen[e]))'
      BY <2>7, <3>2
    <3>4. (d \notin tampered => \A t \in new.published : Uploaded(d, t))'
      BY <2>7, <3>2
    <3>5. (\A t \in new.committed : \E k \in 1 .. Len(chain[d]) : t \in TurnsAt(d, k))'
      <4>1. new.committed = S /\ n + 1 \in 1 .. Len(chain'[d])
        BY <2>1, <2>4, <3>1, <3>2
      <4>2. \A t \in new.committed : n + 1 \in 1 .. Len(chain'[d]) /\ t \in chain'[d][n + 1].turns
        BY <2>1, <4>1
      <4> QED
        BY <4>2 DEF TurnsAt
    <3>6. (d \notin ownPulled => Accounted(d, new))'
      <4> SUFFICES ASSUME d \notin ownPulled
                   PROVE  Accounted(d, new)'
        BY <1>1
      <4>1. LastOnly(d, s)'
        BY <2>7
      <4>2. LastOnly(d, new)'
        BY <3>2, <4>1 DEF LastOnly
      <4>3. Digest(policy[d])' = Digest(policy[d])
        BY <1>1 DEF Digest
      <4>4. Waiting(d, new)'
        BY <2>1, <3>2, <4>3 DEF Waiting
      <4> QED
        BY <2>9, <4>2, <4>4 DEF Accounted
    <3> QED
      BY <3>3, <3>4, <3>5, <3>6 DEF StateInv
  <2>11. \A s \in Copies(d)' : StateInv(d, s)'
    BY <1>1, <2>8, <2>10 DEF Copies
  <2>12. PushInv(d)'
    BY <1>1, <2>4, <2>9 DEF PushInv, Covered, TurnsAt
  <2>13. PullInv(d)'
    BY DEF PullInv
  <2>14. ConsentInv(d)'
    <3>1. ConsentInv(d)
      BY OwnInv DEF RepositoryInv
    <3>2. Digest(policy[d]) \in agreed[d] /\ Digest(policy[d]).remote = policy[d].remote
      BY <2>4, <3>1 DEF ConsentInv, Digest
    <3>3. \A k \in 1 .. n + 1 : LET p == chain'[d][k].policy
                              IN  p \in agreed[d] /\ (p.remote = policy[d].remote \/ CopyTo(policy[d].remote) \in agreed[d])
      <4> SUFFICES ASSUME NEW k \in 1 .. n + 1
                   PROVE  LET p == chain'[d][k].policy
                          IN  p \in agreed[d] /\ (p.remote = policy[d].remote \/ CopyTo(policy[d].remote) \in agreed[d])
        OBVIOUS
      <4>1. CASE k = n + 1
        BY <2>1, <3>2, <4>1
      <4>2. CASE k \in 1 .. n
        BY <2>1, <3>1, <4>2 DEF ConsentInv, Agreed, n
      <4> QED
        BY <2>1, <4>1, <4>2
    <3> QED
      BY <1>1, <2>1, <3>1, <3>3 DEF ConsentInv, Agreed, Digest
  <2>15. RemoteInv(d)'
    <3>1. RemoteInv(d)
      BY OwnInv DEF RepositoryInv
    <3>2. \A q \in Remotes : remote[q][d] \in Commit
      BY DEF TypeOK
    <3>3. ASSUME NEW q \in Remotes, NEW h \in {remote[q][d]}
          PROVE  /\ InPlace(d, h)'
                 /\ d \notin tampered => /\ ~ h.forged
                                         /\ \A k \in 1 .. h.len : \A p \in {chain'[d][k].policy} : Agreed(d, p, q)
      <4>1. h \in Commit /\ InPlace(d, h)
        BY <3>1, <3>2 DEF RemoteInv
      <4>2. InPlace(d, h)'
        BY <1>2, <2>2, <4>1, InPlaceKept
      <4>3. ASSUME d \notin tampered
            PROVE  /\ ~ h.forged
                   /\ \A k \in 1 .. h.len : \A p \in {chain'[d][k].policy} : Agreed(d, p, q)
        <5>1. ~ h.forged /\ \A k \in 1 .. h.len : \A p \in {chain[d][k].policy} : Agreed(d, p, q)
          BY <3>1, <4>3 DEF RemoteInv
        <5>2. h.len <= n /\ h.len \in Nat
          BY <4>1, <5>1 DEF InPlace, Commit, n
        <5>3. \A k \in 1 .. h.len : chain'[d][k] = chain[d][k]
          BY <2>1, <5>2
        <5> QED
          BY <5>1, <5>3
      <4> QED
        BY <4>2, <4>3
    <3>4. \A q \in Remotes : \A h \in {remote'[q][d]} :
             /\ InPlace(d, h)'
             /\ d \notin tampered' => /\ ~ h.forged
                                      /\ \A k \in 1 .. h.len : \A p \in {chain'[d][k].policy} : Agreed(d, p, q)'
      <4> SUFFICES ASSUME NEW q \in Remotes, NEW h \in {remote[q][d]}
                   PROVE  /\ InPlace(d, h)'
                          /\ d \notin tampered => /\ ~ h.forged
                                                  /\ \A k \in 1 .. h.len : \A p \in {chain'[d][k].policy} : Agreed(d, p, q)'
        BY <1>1
      <4>1. \A p : Agreed(d, p, q) => Agreed(d, p, q)'
        BY <1>1 DEF Agreed
      <4> QED
        BY <3>3, <4>1
    <3> QED
      BY <3>4 DEF RemoteInv
  <2>16. TrackingInv(d)'
    <3>1. TrackingInv(d)
      BY OwnInv DEF RepositoryInv
    <3>2. \A e \in Devices : \A h \in Commit : Backed(d, e, h) => Backed(d, e, h)'
      BY <1>1, <1>2, <2>2, BackedKept
    <3>3. \A r \in Remotes, e \in Devices : tracking[d][r][e] \in Commit
      BY DEF TypeOK
    <3> QED
      BY <1>1, <3>1, <3>2, <3>3 DEF TrackingInv
  <2>17. Apart(d)'
    <3> SUFFICES ASSUME d \notin ownPulled, NEW i \in 1 .. n + 1, NEW k \in 1 .. n + 1, i # k
                 PROVE  chain'[d][i].turns \intersect chain'[d][k].turns = {}
      BY <1>1, <2>1 DEF Apart, TurnsAt
    <3>1. \A m \in 1 .. n : TurnsAt(d, m) \intersect S = {}
      BY <2>5, <2>6 DEF Covered, n
    <3>2. \A m \in 1 .. n, o \in 1 .. n : m # o => TurnsAt(d, m) \intersect TurnsAt(d, o) = {}
      BY OwnInv DEF RepositoryInv, Apart, n
    <3>3. CASE i \in 1 .. n /\ k \in 1 .. n
      BY <2>1, <3>2, <3>3 DEF TurnsAt
    <3>4. CASE i = n + 1 /\ k \in 1 .. n
      BY <2>1, <3>1, <3>4 DEF TurnsAt
    <3>5. CASE i \in 1 .. n /\ k = n + 1
      BY <2>1, <3>1, <3>5 DEF TurnsAt
    <3> QED
      BY <2>1, <3>3, <3>4, <3>5
  <2>18. DeviceInv(d)'
    BY <2>11, <2>12, <2>13, <2>14, <2>15, <2>16, <2>17 DEF DeviceInv, OperationInv, RepositoryInv
  <2> QED
    BY <2>3, <2>18 DEF IInv
<1> QED
  BY <1>2, <1>3, <1>4, CommitBatchTypes

LEMMA TrackKeeps ==
    ASSUME TypeOK, IInv, NEW d \in Devices, Track(d)
    PROVE  IInv'
<1>1. /\ op[d].pc = "write" /\ UNCHANGED <<chain, policy, remote, pulled, tampered, agreed, saved>>
  BY DEF Track, Pc, KeepOutbox, KeepPolicy, KeepFaults
<1>2. /\ TypeOK' /\ \A x \in Devices \ {d} : op'[x] = op[x] /\ tracking'[x] = tracking[x]
      /\ ownPulled \subseteq ownPulled'
  BY TrackTypes
<1>3. Extended
  BY <1>1, UnchangedChain
<1>4. ASSUME NEW x \in Devices \ {d}
      PROVE  DeviceInv(x)'
  <2>1. Quiet(x)
    BY <1>1, <1>2, OtherQuiet
  <2> QED
    BY <1>2, <1>3, <2>1, QuietKept DEF IInv
<1>5. ASSUME NEW e \in op[d].from, e \in Devices, Unwritten(d, e) = {},
             op'[d].pc = "read", op'[d].left = op[d].left \ {e},
             op'[d].state.committed = op[d].state.committed, op'[d].state.head = op[d].state.head,
             op'[d].state.published = op[d].state.published,
             op'[d].state.lastSeen[e] = Observed(d, e),
             \A x \in Devices \ {e} : /\ op'[d].listed[x] = op[d].listed[x]
                                      /\ op'[d].state.lastSeen[x] = op[d].state.lastSeen[x],
             \A r \in Remotes, x \in Devices :
                tracking'[d][r][x] = IF r = policy[d].remote /\ x = e THEN Observed(d, e) ELSE tracking[d][r][x],
             ownPulled' = IF e = d THEN ownPulled \union {d} ELSE ownPulled
      PROVE  DeviceInv(d)'
  <2> USE <1>5
  <2>1. Settled(d)
    BY <1>1 DEF Settled, Digest
  <2>2. /\ NextCommit(d, e) \in 1 .. Len(chain[e]) /\ NextCommit(d, e) = op[d].state.lastSeen[e].len + 1
        /\ Observed(d, e).len = NextCommit(d, e) /\ Observed(d, e).forged = FALSE
        /\ Observed(d, e) \in Commit /\ op[d].state.lastSeen[e] \in Commit
    <3>1. op[d].state.lastSeen[e] \in Commit
      BY PolicyTypes DEF State
    <3> QED
      BY <1>1, <3>1, NextIsCommitted, NextCommitType
  <2>3. \A h \in {Observed(d, e)} : Backed(d, e, h)
    <3> DEFINE k == NextCommit(d, e)
               seen == op[d].state.lastSeen[e]
    <3>1. Backed(d, e, seen) /\ Len(chain[e]) \in Nat
      BY <1>1, OwnInv, OutboxTypes DEF StateInv
    <3>2. chain[e][k].turns \subseteq pulled[d][e]
      BY DEF Unwritten
    <3>3. k = seen.len + 1 /\ k \in 1 .. Len(chain[e]) /\ seen.len \in Nat
      BY <2>2 DEF Commit
    <3> HIDE DEF k, seen
    <3>4. e # d => \A n \in 1 .. k : TurnsAt(e, n) \subseteq pulled[d][e]
      <4> SUFFICES ASSUME e # d, NEW n \in 1 .. k
                   PROVE  TurnsAt(e, n) \subseteq pulled[d][e]
        OBVIOUS
      <4>1. CASE n = k
        BY <3>2, <4>1 DEF TurnsAt
      <4>2. CASE n \in 1 .. seen.len
        BY <3>1, <4>2 DEF Backed
      <4> QED
        BY <3>3, <4>1, <4>2
    <3>5. Observed(d, e).len = k /\ k <= Len(chain[e]) /\ ~ Observed(d, e).forged
      BY <2>2, <3>3 DEF k
    <3> QED
      BY <3>4, <3>5 DEF Backed
  <2>4. \A h \in Commit, x \in Devices : Backed(d, x, h) => Backed(d, x, h)'
    BY <1>2, <1>3, <2>1, BackedKept DEF Settled
  <2>5. /\ op[d].state \in State /\ StateInv(d, op[d].state)
        /\ \A x \in Devices : op[d].state.lastSeen[x] \in Commit
    <3>1. op[d].state \in State
      BY PolicyTypes
    <3> QED
      BY <1>1, <3>1, OwnInv DEF State
  <2>6. \A st \in {op[d].state} : StateInv(d, st)'
    BY <1>2, <1>3, <2>1, <2>5, StateKept
  <2>7. \A st \in {op'[d].state} : StateInv(d, st)'
    <3> SUFFICES ASSUME NEW new \in {op'[d].state}, NEW st \in {op[d].state}
                 PROVE  StateInv(d, new)'
      OBVIOUS
    <3>1. /\ new.committed = st.committed /\ new.head = st.head /\ new.published = st.published
          /\ new.lastSeen[e] = Observed(d, e)
          /\ \A x \in Devices \ {e} : new.lastSeen[x] = st.lastSeen[x]
      OBVIOUS
    <3>2. StateInv(d, st)'
      BY <2>6
    <3>3. ASSUME NEW x \in Devices
          PROVE  Backed(d, x, new.lastSeen[x])'
      <4>1. CASE x = e
        BY <2>2, <2>3, <2>4, <3>1, <4>1
      <4>2. CASE x # e
        BY <3>1, <3>2, <4>2 DEF StateInv
      <4> QED
        BY <4>1, <4>2
    <3>4. (d \notin ownPulled => Accounted(d, new))'
      <4> SUFFICES ASSUME d \notin ownPulled'
                   PROVE  Accounted(d, new)'
        OBVIOUS
      <4>1. e # d
        OBVIOUS
      <4>2. new.lastSeen[d] = st.lastSeen[d]
        BY <3>1, <4>1
      <4>3. Accounted(d, st)'
        BY <3>2 DEF StateInv
      <4> QED
        BY <3>1, <4>2, <4>3 DEF Accounted, Waiting, LastOnly, Covered
    <3> QED
      BY <3>1, <3>2, <3>3, <3>4 DEF StateInv
  <2>8. \A st \in Copies(d)' : StateInv(d, st)'
    <3>1. \A st \in {saved[d]} : StateInv(d, st)'
      BY <1>2, <1>3, <2>1, PolicyTypes, OwnInv, StateKept
    <3> QED
      BY <1>1, <2>7, <3>1 DEF Copies
  <2>9. PushInv(d)'
    BY DEF PushInv, Pushing
  <2>10. PullInv(d)'
    <3> SUFFICES ASSUME NEW x \in op[d].left \ {e}
                 PROVE  New(d, x)'
      BY DEF PullInv
    <3>1. x \in Devices \ {e}
      BY PolicyTypes
    <3>2. New(d, x)
      BY <1>1, OwnInv DEF PullInv
    <3>3. op'[d].listed[x] = op[d].listed[x] /\ op'[d].state.lastSeen[x] = op[d].state.lastSeen[x]
      BY <3>1
    <3> QED
      BY <1>1, <3>2, <3>3 DEF New, InPlace
  <2>11. ConsentInv(d)'
    BY <1>1, OwnInv DEF RepositoryInv, ConsentInv, Agreed, Digest
  <2>12. RemoteInv(d)'
    BY <1>1, OwnInv DEF RepositoryInv, RemoteInv, InPlace, Agreed
  <2>13. TrackingInv(d)'
    <3>1. TrackingInv(d) /\ \A r \in Remotes, x \in Devices : tracking[d][r][x] \in Commit
      BY OwnInv DEF RepositoryInv, TypeOK
    <3>2. ASSUME NEW r \in Remotes, NEW x \in Devices
          PROVE  \A h \in {tracking'[d][r][x]} : Backed(d, x, h)'
      <4>1. CASE r = policy[d].remote /\ x = e
        BY <2>2, <2>3, <2>4, <4>1
      <4>2. CASE ~ (r = policy[d].remote /\ x = e)
        BY <2>4, <3>1, <4>2 DEF TrackingInv
      <4> QED
        BY <4>1, <4>2
    <3>3. ASSUME d \notin ownPulled', NEW r \in Remotes
          PROVE  tracking'[d][r][d] = None
      BY <3>1, <3>3 DEF TrackingInv
    <3> QED
      BY <3>2, <3>3 DEF TrackingInv
  <2>14. Apart(d)'
    BY <1>1, <1>2, OwnInv DEF RepositoryInv, Apart, TurnsAt
  <2> QED
    BY <2>8, <2>9, <2>10, <2>11, <2>12, <2>13, <2>14 DEF DeviceInv, OperationInv, RepositoryInv
<1>6. DeviceInv(d)'
  BY <1>5, TrackTypes
<1> QED
  BY <1>4, <1>6 DEF IInv

\* The policy changes with an empty outbox only, so nothing waits that does not fit it.
LEMMA ConfigureKeeps ==
    ASSUME TypeOK, IInv, NEW d \in Devices, NEW p \in [remote : Remotes, mode : PromptModes],
           NEW consent \in BOOLEAN, Configure(d, p, consent)
    PROVE  IInv'
<1> DEFINE rec == Recovered(d, saved[d])
           new == ConfiguredState(d, p)
           n == Len(chain[d])
<1>1. /\ UNCHANGED <<chain, remote, tracking, pulled, tampered, ownPulled, saved>>
      /\ p # Digest(policy[d]) => rec.committed = {}
      /\ p.remote # policy[d].remote /\ chain[d] # <<>> => consent
  BY DEF Configure, Configurable, KeepOutbox, KeepPulled
<1>2. /\ TypeOK'
      /\ \A x \in Devices \ {d} : policy'[x] = policy[x] /\ agreed'[x] = agreed[x] /\ op'[x] = op[x]
      /\ Digest(policy[d])' = p /\ policy'[d].remote = p.remote
      /\ policy'[d].approved <=> policy[d].approved /\ p = Digest(policy[d])
      /\ agreed[d] \subseteq agreed'[d] /\ (consent => CopyTo(p.remote) \in agreed'[d])
      /\ op'[d].pc = "configure" /\ op'[d].state = new
  BY ConfigureTypes
<1>3. Extended
  BY <1>1, UnchangedChain
<1>4. ASSUME NEW x \in Devices \ {d}
      PROVE  DeviceInv(x)'
  <2>1. Quiet(x)
    BY <1>1, <1>2, OtherQuiet
  <2> QED
    BY <1>2, <1>3, <2>1, QuietKept DEF IInv
<1>5. saved[d] \in State /\ StateInv(d, saved[d]) /\ p.remote \in Remotes /\ n \in Nat
  BY PolicyTypes, OwnInv, OutboxTypes
<1>6. rec \in State /\ StateInv(d, rec) /\ (d \notin ownPulled => Covered(d, rec))
  BY <1>5, RecoveredType, RecoveredInv
<1>7. StateInv(d, new) /\ new.committed = rec.committed /\ new.published = rec.published
  BY <1>5, <1>6, AlignedInv, AlignedType DEF ConfiguredState
<1>8. /\ rec.committed = {} => saved[d].committed = {}
      /\ rec.published = saved[d].published
  BY <1>5, RecoveredType
<1> HIDE DEF rec, new, n
\* A state.json that says so little that any policy fits it.
<1>9. ASSUME NEW st, StateInv(d, st),
             p # Digest(policy[d]) /\ d \notin ownPulled =>
                 st.committed = {} /\ \A k \in 1 .. n : TurnsAt(d, k) \subseteq st.published
      PROVE  StateInv(d, st)'
  <2>1. (\A e \in Devices : Backed(d, e, st.lastSeen[e]))'
    BY <1>1, <1>9 DEF StateInv, Backed, TurnsAt
  <2>2. (\A t \in st.committed : \E k \in 1 .. Len(chain[d]) : t \in TurnsAt(d, k))'
    BY <1>1, <1>9 DEF StateInv, TurnsAt
  <2>3. (d \notin tampered => \A t \in st.published : Uploaded(d, t))'
    BY <1>1, <1>9 DEF StateInv, Uploaded, TurnsAt
  <2>4. (d \notin ownPulled => Accounted(d, st))'
    <3> SUFFICES ASSUME d \notin ownPulled
                 PROVE  Accounted(d, st)'
      BY <1>1
    <3>1. Accounted(d, st)
      BY <1>9 DEF StateInv
    <3>2. CASE p = Digest(policy[d])
      <4>1. Digest(policy[d])' = Digest(policy[d])
        BY <1>2, <3>2
      <4> QED
        BY <1>1, <3>1, <4>1 DEF Accounted, Waiting, LastOnly, Covered, TurnsAt, Tip
    <3>3. CASE p # Digest(policy[d])
      <4>1. st.committed = {} /\ \A k \in 1 .. n : TurnsAt(d, k) \subseteq st.published
        BY <1>9, <3>3
      <4>2. n > 0 => n \in 1 .. n
        BY <1>5
      <4> QED
        BY <1>1, <4>1, <4>2 DEF Accounted, Waiting, LastOnly, Covered, TurnsAt, n
    <3> QED
      BY <3>2, <3>3
  <2> QED
    BY <2>1, <2>2, <2>3, <2>4 DEF StateInv
<1>10. p # Digest(policy[d]) /\ d \notin ownPulled =>
           rec.committed = {} /\ \A k \in 1 .. n : TurnsAt(d, k) \subseteq rec.published
  BY <1>1, <1>6 DEF Covered, n
<1>11. \A st \in Copies(d)' : StateInv(d, st)'
  <2>1. \A st \in {saved[d]} : StateInv(d, st)'
    BY <1>5, <1>8, <1>9, <1>10
  <2>2. \A st \in {new} : StateInv(d, st)'
    BY <1>7, <1>9, <1>10
  <2> QED
    BY <1>1, <1>2, <2>1, <2>2 DEF Copies
<1>12. PushInv(d)' /\ PullInv(d)'
  BY <1>2 DEF PushInv, PullInv, Pushing
<1>13. ConsentInv(d)'
  <2>1. ConsentInv(d)
    BY OwnInv DEF RepositoryInv
  <2>2. (policy[d].approved => Digest(policy[d]) \in agreed[d])'
    BY <1>2, <2>1 DEF ConsentInv
  <2>3. ASSUME NEW k \in 1 .. n, NEW q \in {chain[d][k].policy}
        PROVE  q \in agreed'[d] /\ (q.remote = p.remote \/ CopyTo(p.remote) \in agreed'[d])
    <3>1. q \in agreed[d] /\ (q.remote = policy[d].remote \/ CopyTo(policy[d].remote) \in agreed[d])
      BY <2>1 DEF ConsentInv, Agreed, n
    <3>2. CASE p.remote = policy[d].remote
      BY <1>2, <3>1, <3>2
    <3>3. CASE p.remote # policy[d].remote
      <4>1. consent
        BY <1>1, <1>5, <3>3, OutboxTypes DEF n
      <4> QED
        BY <1>2, <3>1, <4>1
    <3> QED
      BY <3>2, <3>3
  <2> QED
    BY <1>1, <1>2, <2>2, <2>3 DEF ConsentInv, Agreed, CopyTo, n
<1>14. RemoteInv(d)'
  <2>1. RemoteInv(d)
    BY OwnInv DEF RepositoryInv
  <2>2. \A r, q : Agreed(d, q, r) => Agreed(d, q, r)'
    BY <1>2 DEF Agreed
  <2> QED
    BY <1>1, <2>1, <2>2 DEF RemoteInv, InPlace
<1>15. TrackingInv(d)'
  BY <1>1, OwnInv DEF RepositoryInv, TrackingInv, Backed, TurnsAt
<1>16. Apart(d)'
  BY <1>1, OwnInv DEF RepositoryInv, Apart, TurnsAt
<1>17. DeviceInv(d)'
  BY <1>11, <1>12, <1>13, <1>14, <1>15, <1>16 DEF DeviceInv, OperationInv, RepositoryInv
<1> QED
  BY <1>4, <1>17 DEF IInv

----------------------------------------------------------------------------
(* The theorems                                                             *)

LEMMA InitInv == Init => IInv
<1> SUFFICES ASSUME Init, NEW d \in Devices
             PROVE  DeviceInv(d)
  BY DEF IInv
<1>1. Copies(d) = {StartState} /\ op[d].pc = "idle" /\ Len(chain[d]) = 0
  BY IdleType DEF Init, Copies
<1>2. StateInv(d, StartState)
  BY <1>1 DEF StateInv, StartState, NoneSeen, None, At, Backed, Accounted, Waiting, LastOnly, Covered
<1>3. PushInv(d) /\ PullInv(d)
  BY <1>1 DEF PushInv, PullInv, Pushing
<1>4. ConsentInv(d) /\ Apart(d)
  BY <1>1 DEF Init, ConsentInv, Apart
<1>5. RemoteInv(d)
  BY <1>1 DEF Init, RemoteInv, NoneSeen, None, At, InPlace
<1>6. TrackingInv(d)
  BY <1>1 DEF Init, TrackingInv, NoneSeen, None, At, Backed
<1> QED
  BY <1>1, <1>2, <1>3, <1>4, <1>5, <1>6 DEF DeviceInv, OperationInv, RepositoryInv

LEMMA StepKeeps ==
    ASSUME TypeOK, IInv, NEW d \in Devices, Step(d)
    PROVE  TypeOK' /\ IInv'
<1>1. CASE Look(d)
  BY <1>1, LookTypes, LookKeeps
<1>2. CASE Send(d)
  BY <1>2, SendTypes, SendKeeps
<1>3. CASE Confirm(d)
  BY <1>3, ConfirmTypes, ConfirmKeeps
<1>4. CASE Promote(d)
  BY <1>4, PromoteTypes, PromoteKeeps
<1>5. CASE NothingNew(d)
  <2>1. UNCHANGED Repositories /\ op[d].pc # "idle" /\ Save(d, op[d].state) /\ Return(d)
    BY <1>5 DEF NothingNew, Pc, KeepOutbox, KeepPolicy, KeepPulled, KeepFaults, Repositories
  <2> QED
    BY <1>5, <2>1, NothingNewTypes, SaveAndReturnKeeps
<1>6. CASE CommitBatch(d)
  BY <1>6, CommitBatchTypes, CommitBatchKeeps
<1>7. CASE SaveOutbox(d)
  BY <1>7, SaveOutboxTypes, SaveOutboxKeeps
<1>8. CASE List(d)
  BY <1>8, ListTypes, ListKeeps
<1>9. CASE Materialize(d)
  BY <1>9, MaterializeKeeps
<1>10. CASE Track(d)
  BY <1>10, TrackTypes, TrackKeeps
<1>11. CASE FinishPull(d)
  <2>1. UNCHANGED Repositories /\ op[d].pc # "idle" /\ Save(d, op[d].state) /\ Return(d)
    BY <1>11 DEF FinishPull, Pc, KeepOutbox, KeepPolicy, KeepPulled, KeepFaults, Repositories
  <2> QED
    BY <1>11, <2>1, FinishPullTypes, SaveAndReturnKeeps
<1>12. CASE SaveConfigured(d)
  <2>1. UNCHANGED Repositories /\ op[d].pc # "idle" /\ Save(d, op[d].state) /\ Return(d)
    BY <1>12 DEF SaveConfigured, Pc, KeepOutbox, KeepPolicy, KeepPulled, KeepFaults, Repositories
  <2> QED
    BY <1>12, <2>1, SaveConfiguredTypes, SaveAndReturnKeeps
<1>13. CASE \E e \in Devices : Quarantine(d, e) \/ Fetch(d, e) \/ ReadFails(d, e)
  BY <1>13, QuarantineTypes, QuarantineKeeps, FetchTypes, FetchKeeps, ReadFailsTypes, ReadFailsKeeps
<1> QED
  BY <1>1, <1>2, <1>3, <1>4, <1>5, <1>6, <1>7, <1>8, <1>9, <1>10, <1>11, <1>12, <1>13 DEF Step

LEMMA NextKeeps ==
    ASSUME TypeOK, IInv, Next
    PROVE  TypeOK' /\ IInv'
<1>1. ASSUME NEW d \in Devices,
             \/ StartPush(d) \/ StartPull(d) \/ Step(d) \/ Approve(d)
             \/ Disable(d) \/ Complete(d) \/ Stop(d)
      PROVE  TypeOK' /\ IInv'
  BY <1>1, StartPushTypes, StartPushKeeps, StartPullTypes, StartPullKeeps, StepKeeps,
     ApproveTypes, ApproveKeeps, DisableTypes, DisableKeeps, CompleteTypes, CompleteKeeps, StopTypes, StopKeeps
<1>2. ASSUME NEW d \in Devices, NEW p \in [remote : Remotes, mode : PromptModes], NEW consent \in BOOLEAN,
             Configure(d, p, consent)
      PROVE  TypeOK' /\ IInv'
  BY <1>2, ConfigureTypes, ConfigureKeeps
<1>3. ASSUME NEW d \in Devices, NEW e \in Devices, ForgetDevice(d, e)
      PROVE  TypeOK' /\ IInv'
  BY <1>3, ForgetDeviceTypes, ForgetDeviceKeeps
<1>4. ASSUME NEW r \in Remotes, NEW d \in Devices, Tamper(r, d)
      PROVE  TypeOK' /\ IInv'
  BY <1>4, TamperTypes, TamperKeeps
<1> QED
  BY <1>1, <1>2, <1>3, <1>4 DEF Next

LEMMA StutterKeeps ==
    ASSUME TypeOK, IInv, UNCHANGED vars
    PROVE  TypeOK' /\ IInv'
<1> USE DEF vars
<1>1. TypeOK'
  BY DEF TypeOK
<1>2. UNCHANGED Repositories
  BY DEF Repositories
<1>3. ASSUME NEW d \in Devices
      PROVE  DeviceInv(d)'
  <2>1. RepositoryInv(d)'
    BY <1>2, RepositoryKept, OwnInv
  <2>2. \A st \in Copies(d)' : StateInv(d, st)'
    <3>1. Copies(d)' = Copies(d) /\ \A st \in Copies(d) : StateInv(d, st)
      BY DEF Copies, IInv, DeviceInv, OperationInv
    <3> QED
      BY <1>2, <3>1, RepositoryKept
  <2>3. PushInv(d)'
    BY OwnInv DEF PushInv, Covered, TurnsAt, Tip
  <2>4. PullInv(d)'
    BY OwnInv DEF PullInv, New, Found, InPlace, Ancestor
  <2> QED
    BY <2>1, <2>2, <2>3, <2>4 DEF DeviceInv, OperationInv
<1> QED
  BY <1>1, <1>3 DEF IInv

\* What every device holds of its turns, of its outbox, of its own copies of the state and
\* of the remotes agrees at every step of commits, pushes, pulls, settings and kills.
THEOREM Invariance == Spec => [](TypeOK /\ IInv)
<1>1. Init => TypeOK /\ IInv
  BY InitTypes, InitInv
<1>2. TypeOK /\ IInv /\ [Next]_vars => (TypeOK /\ IInv)'
  BY NextKeeps, StutterKeeps
<1> QED
  BY <1>1, <1>2, PTL DEF Spec

\* Every variable keeps its type, and an operation reads only what it has yet to read.
THEOREM TypeCorrect == Spec => []TypeOK
<1> QED
  BY Invariance, PTL

\* A cursor, in state.json or a tracking ref, never passes a turn of another device that is
\* not materialized, however pulls end and refs change (fetchAndIngest, syncPull).
THEOREM CursorsBacked == Spec => []CursorBacked
<1>1. TypeOK /\ IInv => CursorBacked
  <2> SUFFICES ASSUME TypeOK, IInv, NEW d \in Devices, NEW e \in Devices, e # d,
                      NEW h \in {saved[d].lastSeen[e]} \union {tracking[d][r][e] : r \in Remotes}
               PROVE  TurnsUpTo(e, h) \subseteq pulled[d][e]
    BY DEF CursorBacked
  <2>1. Backed(d, e, h)
    <3>1. CASE h = saved[d].lastSeen[e]
      BY <3>1, OwnInv DEF StateInv
    <3>2. ASSUME NEW r \in Remotes, h = tracking[d][r][e]
          PROVE  Backed(d, e, h)
      BY <3>2, OwnInv DEF RepositoryInv, TrackingInv
    <3> QED
      BY <3>1, <3>2
  <2> SUFFICES ASSUME NEW t \in TurnsUpTo(e, h)
               PROVE  t \in pulled[d][e]
    OBVIOUS
  <2>2. PICK n \in DOMAIN chain[e] \intersect 1 .. h.len : t \in chain[e][n].turns
    BY DEF TurnsUpTo
  <2> QED
    BY <2>1, <2>2 DEF Backed, TurnsAt
<1> QED
  BY <1>1, Invariance, PTL

\* Whatever a device put at a remote was built under a policy the user approved, for that
\* remote or with consent to copy it there (syncPush, configureLocked).
THEOREM PublishedAsAgreed == Spec => []OnlyAgreed
<1>1. TypeOK /\ IInv => OnlyAgreed
  <2> SUFFICES ASSUME TypeOK, IInv, NEW r \in Remotes, NEW d \in Devices \ tampered, NEW n \in 1 .. remote[r][d].len
               PROVE  LET p == chain[d][n].policy
                      IN  p \in agreed[d] /\ (p.remote = r \/ CopyTo(r) \in agreed[d])
    BY DEF OnlyAgreed
  <2>1. d \in Devices /\ d \notin tampered
    OBVIOUS
  <2>2. RemoteInv(d)
    BY <2>1, OwnInv DEF RepositoryInv
  <2> QED
    BY <2>1, <2>2 DEF RemoteInv, Agreed
<1> QED
  BY <1>1, Invariance, PTL

\* What state.json and the refs say of published bundles is true: each is in one batch, is
\* at a remote, and what waits can be pushed, also after a crash (syncPush,
\* recoverCommittedState, validateCommittedPolicy).
THEOREM PublicationHolds == Spec => []PublishedTrue
<1>1. ASSUME TypeOK, IInv
      PROVE  PublishedOnce
  <2> SUFFICES ASSUME NEW d \in Devices, d \notin ownPulled
               PROVE  InOneBatch(d)
    BY DEF PublishedOnce
  <2>1. Apart(d)
    BY <1>1, OwnInv DEF RepositoryInv
  <2> QED
    BY <1>1, <2>1, OutboxTypes DEF Apart, InOneBatch, TurnsAt
<1>2. ASSUME TypeOK, IInv
      PROVE  PublishedArrived
  <2> SUFFICES ASSUME NEW d \in Devices, d \notin tampered, NEW t \in saved[d].published
               PROVE  t \in UNION {TurnsUpTo(d, remote[r][d]) : r \in Remotes}
    BY DEF PublishedArrived
  <2>1. Uploaded(d, t)
    BY <1>2, OwnInv DEF StateInv
  <2>2. PICK r \in Remotes : \E n \in 1 .. Len(chain[d]) : n <= remote[r][d].len /\ t \in TurnsAt(d, n)
    BY <2>1 DEF Uploaded
  <2>3. PICK n \in 1 .. Len(chain[d]) : n <= remote[r][d].len /\ t \in TurnsAt(d, n)
    BY <2>2
  <2>4. n \in DOMAIN chain[d] \intersect 1 .. remote[r][d].len
    <3>1. DOMAIN chain[d] = 1 .. Len(chain[d]) /\ remote[r][d].len \in Nat
      BY <1>2, OutboxTypes DEF TypeOK, Commit
    <3> QED
      BY <2>3, <3>1
  <2>5. t \in TurnsUpTo(d, remote[r][d])
    BY <2>3, <2>4 DEF TurnsUpTo, TurnsAt
  <2> QED
    BY <2>5
<1>3. ASSUME TypeOK, IInv
      PROVE  OutboxFits
  <2> SUFFICES ASSUME NEW d \in Devices, d \notin ownPulled
               PROVE  OutboxPushable(d, Loaded(d))
    BY DEF OutboxFits
  <2>1. Waiting(d, Loaded(d))
    BY <1>3, LoadedInv DEF StateInv, Accounted
  <2> QED
    BY <2>1 DEF Waiting, OutboxPushable
<1>4. TypeOK /\ IInv => PublishedTrue
  BY <1>1, <1>2, <1>3 DEF PublishedTrue
<1> QED
  BY <1>4, Invariance, PTL

==============================================================================
