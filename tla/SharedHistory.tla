--------------------------- MODULE SharedHistory ---------------------------
(***************************************************************************)
(* Publishing turns to a remote and reading what other devices published  *)
(* (internal/sharedhistory).                                               *)
(*                                                                         *)
(* A device commits bundles, one per turn, to a Git repository of its own, *)
(* the outbox, and pushes that to its ref at the remote.  state.json says  *)
(* which bundles are committed, which are published, and the last head it  *)
(* saw of every device.  Three things change one after the other: outbox,  *)
(* remote, state.json; a push may end between any two, and its answer may  *)
(* get lost.  Pulling reads the other refs, one batch of each per run.     *)
(*                                                                         *)
(* A device takes a lock for each of its operations, so devices meet at    *)
(* the remote only.  A commit is identified by its place in the device's   *)
(* outbox, which only grows; what somebody else puts at a ref is forged.   *)
(***************************************************************************)
EXTENDS Naturals, Sequences, FiniteSets

CONSTANTS
    Devices,      \* publishers and readers
    TurnsOf,      \* the turns of each device whose projection is not refused, numbered in
                  \* the order of listCompletedTurns
    Remotes, PromptModes,
    StartPolicy,  \* what every device is configured with at first
    MaxBundlesPerBatch,
    FaultKinds,   \* "stop": an operation ends in the middle; "tamper": a ref is changed by
                  \* somebody else; "change": the configuration is changed
    MaxFaults     \* bound on the number of these

Turns == UNION {TurnsOf[d] : d \in Devices}

ASSUME SharedAssumption ==
    /\ TurnsOf \in [Devices -> SUBSET Nat] /\ IsFiniteSet(Turns)
    /\ \A d, e \in Devices : d # e => TurnsOf[d] \intersect TurnsOf[e] = {}
    /\ StartPolicy \in [remote : Remotes, mode : PromptModes] /\ "copy" \notin PromptModes
    /\ MaxBundlesPerBatch \in Nat \ {0}
    /\ FaultKinds \subseteq {"stop", "tamper", "change"} /\ MaxFaults \in Nat

VARIABLES
    completed, \* finished turns in the event log of each device
    chain,     \* the commits of each outbox
    policy,    \* policy.json
    saved,     \* state.json
    tracking,  \* tracking refs: verified head by reader, remote and publisher
    pulled,    \* bundles materialized, by reader and publisher
    remote,    \* refs/turnal/v1/history/<device> of each remote
    op,        \* the operation that holds the device's lock
    faults,
    tampered,  \* history: devices whose ref somebody else changed
    changed,   \* history: the configuration was changed
    agreed,    \* history: policies the user approved, and remotes to copy old history to
    ownPulled  \* history: devices that pulled a batch of their own

vars == <<completed, chain, policy, saved, tracking, pulled, remote, op,
          faults, tampered, changed, agreed, ownPulled>>

----------------------------------------------------------------------------
(* Heads, state, operations                                                *)

\* The head of the first len commits of an outbox, or a commit somebody else put there
\* as number len: one that the checks of its signature, manifests and events refuse.
Commit == [len : Nat, forged : BOOLEAN]

At(n) == [len |-> n, forged |-> FALSE]

None == At(0)

\* git merge-base --is-ancestor
Ancestor(g, h) == g = h \/ (~ g.forged /\ g.len < h.len)

Tip(d) == At(Len(chain[d]))

Digest(p) == [remote |-> p.remote, mode |-> p.mode]

NoneSeen == [e \in Devices |-> None]
NoneHeld == [e \in Devices |-> "no"]

State == [remote : Remotes, committed : SUBSET Turns, head : Nat, published : SUBSET Turns,
          lastSeen : [Devices -> Commit], quarantined : [Devices -> {"no", "gone", "invalid"}],
          retired : [Devices -> Commit]]

StartState == [remote |-> StartPolicy.remote, committed |-> {}, head |-> 0, published |-> {},
               lastSeen |-> NoneSeen, quarantined |-> NoneHeld, retired |-> NoneSeen]

\* The next step of an operation, its copy of state.json; of a push, whether its new
\* batch is committed; of a pull, the refs listed, the devices still to read and the
\* one that is read.
Idle == [pc |-> "idle", state |-> StartState, last |-> FALSE, listed |-> NoneSeen,
         left |-> {}, from |-> {}]

\* alignStateScope: what was seen at another remote counts for nothing.
Aligned(st, r) ==
    IF st.remote = r THEN st
    ELSE [st EXCEPT !.remote = r, !.lastSeen = NoneSeen, !.quarantined = NoneHeld, !.retired = NoneSeen]

\* Mutant of Recovered: a commit that state.json does not know is not looked for.
RecoveredNothing(d, st) == st

\* recoverCommittedState
Recovered(d, st) ==
    IF st.committed # {} \/ chain[d] = <<>> \/ st.lastSeen[d] = Tip(d) THEN st
    ELSE LET rest == chain[d][Len(chain[d])].turns \ st.published
         IN  [st EXCEPT !.committed = rest, !.head = IF rest = {} THEN 0 ELSE Len(chain[d])]

Loaded(d) == Recovered(d, Aligned(saved[d], policy[d].remote))

Init ==
    /\ completed = [d \in Devices |-> {}]
    /\ chain = [d \in Devices |-> <<>>]
    /\ policy = [d \in Devices |-> [remote |-> StartPolicy.remote, mode |-> StartPolicy.mode,
                                    approved |-> FALSE, disabled |-> FALSE]]
    /\ saved = [d \in Devices |-> StartState]
    /\ tracking = [d \in Devices |-> [r \in Remotes |-> NoneSeen]]
    /\ pulled = [d \in Devices |-> [e \in Devices |-> {}]]
    /\ remote = [r \in Remotes |-> NoneSeen]
    /\ op = [d \in Devices |-> Idle]
    /\ faults = 0 /\ tampered = {} /\ changed = FALSE
    /\ agreed = [d \in Devices |-> {}]
    /\ ownPulled = {}

IsIdle(d) == op[d] = Idle

Pc(d, label) == op[d].pc = label

Goto(d, label) == op' = [op EXCEPT ![d].pc = label]

Return(d) == op' = [op EXCEPT ![d] = Idle]

Save(d, st) == saved' = [saved EXCEPT ![d] = st]

Allowed(d) == ~ policy[d].disabled

\* What the operations of a device, or of its user, leave alone.
KeepOutbox == UNCHANGED <<completed, chain, remote>>
KeepPolicy == UNCHANGED <<policy, changed, agreed>>
KeepPulled == UNCHANGED <<tracking, pulled, ownPulled>>
KeepFaults == UNCHANGED <<faults, tampered>>

Fault(kind) == kind \in FaultKinds /\ faults < MaxFaults /\ faults' = faults + 1

----------------------------------------------------------------------------
(* sync push                                                               *)

\* validateCommittedPolicy, and the outbox in state.json is the local tip.
OutboxPushable(d, st) ==
    st.committed # {} => st.head = Len(chain[d]) /\ chain[d][st.head].policy = Digest(policy[d])

StartPush(d) ==
    /\ IsIdle(d) /\ Allowed(d) /\ policy[d].approved
    /\ OutboxPushable(d, Loaded(d))
    /\ op' = [op EXCEPT ![d] = [Idle EXCEPT !.pc = IF chain[d] = <<>> THEN "scan" ELSE "look",
                                            !.state = Loaded(d)]]
    /\ UNCHANGED saved /\ KeepOutbox /\ KeepPolicy /\ KeepPulled /\ KeepFaults

\* The refs that push refuses to write to: gone or changed since they were seen, or not a
\* part of the outbox.
Refused(d) ==
    LET h == remote[policy[d].remote][d]
        seen == op[d].state.lastSeen[d]
    IN  /\ h # Tip(d)
        /\ \/ seen # None /\ h # seen
           \/ ~ Ancestor(h, Tip(d))

Look(d) ==
    /\ Pc(d, "look")
    /\ IF Refused(d) THEN Return(d)
       ELSE Goto(d, IF remote[policy[d].remote][d] = Tip(d) THEN "promote" ELSE "send")
    /\ UNCHANGED saved /\ KeepOutbox /\ KeepPolicy /\ KeepPulled /\ KeepFaults

\* git push, which takes a fast-forward only.
Send(d) ==
    /\ Pc(d, "send")
    /\ LET r == policy[d].remote
       IN  IF Ancestor(remote[r][d], Tip(d))
           THEN remote' = [remote EXCEPT ![r][d] = Tip(d)] /\ Goto(d, "confirm")
           ELSE UNCHANGED remote /\ Return(d)
    /\ UNCHANGED <<saved, completed, chain>> /\ KeepPolicy /\ KeepPulled /\ KeepFaults

Confirm(d) ==
    /\ Pc(d, "confirm")
    /\ IF remote[policy[d].remote][d] = Tip(d) THEN Goto(d, "promote") ELSE Return(d)
    /\ UNCHANGED saved /\ KeepOutbox /\ KeepPolicy /\ KeepPulled /\ KeepFaults

\* promoteCommitted and saveState
Promote(d) ==
    /\ Pc(d, "promote")
    /\ LET st == op[d].state
           new == [st EXCEPT !.published = st.published \union st.committed, !.committed = {}, !.head = 0,
                             !.lastSeen[d] = Tip(d)]
       IN  /\ Save(d, new)
           /\ op' = [op EXCEPT ![d] = IF op[d].last THEN Idle
                                      ELSE [op[d] EXCEPT !.pc = "scan", !.state = new]]
    /\ KeepOutbox /\ KeepPolicy /\ KeepPulled /\ KeepFaults

Pending(d) ==
    completed[d] \ (op[d].state.published \union op[d].state.committed)

NothingNew(d) ==
    /\ Pc(d, "scan") /\ Pending(d) = {}
    /\ Save(d, op[d].state)
    /\ Return(d)
    /\ KeepOutbox /\ KeepPolicy /\ KeepPulled /\ KeepFaults

\* Mutant of Batches: a batch is full one bundle too early.
BatchesOneShort(d) ==
    {S \in SUBSET Pending(d) : Cardinality(S) < MaxBundlesPerBatch /\ \E b \in S : \A c \in Pending(d) : b <= c}

\* The batches that are cut off by their number or size of bundles.
Batches(d) ==
    {S \in SUBSET Pending(d) :
        /\ S # {} /\ Cardinality(S) <= MaxBundlesPerBatch
        /\ \A b \in S, c \in Pending(d) \ S : b < c}

\* ensureImmutableFile: a bundle that is in the outbox already must be the same as then.
Immutable(d, S) ==
    \A n \in DOMAIN chain[d] : S \intersect chain[d][n].turns # {} => chain[d][n].policy = Digest(policy[d])

CommitBatch(d) ==
    /\ Pc(d, "scan")
    /\ \E S \in Batches(d) :
          LET st == op[d].state
              new == [st EXCEPT !.committed = st.committed \union S, !.head = Len(chain[d]) + 1]
          IN  IF Immutable(d, S)
              THEN /\ chain' = [chain EXCEPT ![d] = Append(@, [turns |-> S, policy |-> Digest(policy[d])])]
                   /\ op' = [op EXCEPT ![d] = [op[d] EXCEPT !.pc = "outbox", !.last = TRUE, !.state = new]]
              ELSE UNCHANGED chain /\ Return(d)
    /\ UNCHANGED <<saved, completed, remote>> /\ KeepPolicy /\ KeepPulled /\ KeepFaults

SaveOutbox(d) ==
    /\ Pc(d, "outbox")
    /\ Save(d, op[d].state)
    /\ Goto(d, "look")
    /\ KeepOutbox /\ KeepPolicy /\ KeepPulled /\ KeepFaults

----------------------------------------------------------------------------
(* sync pull                                                               *)

\* recoverTrackingState: a verified head that state.json has not seen must extend what it
\* has seen.
Tracked(d, st) ==
    [e \in Devices |-> LET h == tracking[d][st.remote][e] IN IF h = None THEN st.lastSeen[e] ELSE h]

TrackingExtends(d, st) == \A e \in Devices : Ancestor(st.lastSeen[e], Tracked(d, st)[e])

StartPull(d) ==
    /\ IsIdle(d) /\ Allowed(d)
    /\ LET st == Aligned(saved[d], policy[d].remote)
           new == [st EXCEPT !.lastSeen = Tracked(d, st)]
       IN  /\ TrackingExtends(d, st)
           /\ IF new = st THEN UNCHANGED saved ELSE Save(d, new)
           /\ op' = [op EXCEPT ![d] = [Idle EXCEPT !.pc = "list", !.state = new]]
    /\ KeepOutbox /\ KeepPolicy /\ KeepPulled /\ KeepFaults

\* listRemoteHistory.  A ref that was seen and is gone, unless its device was retired there,
\* is quarantined, one that brings nothing new is not any more.
List(d) ==
    /\ Pc(d, "list")
    /\ LET heads == remote[policy[d].remote]
           st == op[d].state
           gone == {e \in Devices : heads[e] = None /\ st.lastSeen[e] \notin {None, st.retired[e]}}
           same == {e \in Devices : heads[e] # None /\ heads[e] = st.lastSeen[e]}
           news == {e \in Devices \ same : heads[e] # None}
           new == [st EXCEPT
               !.quarantined = [e \in Devices |-> IF e \in gone THEN "gone"
                                                  ELSE IF e \in same THEN "no" ELSE st.quarantined[e]],
               !.retired = [e \in Devices |-> IF e \in same THEN None ELSE st.retired[e]]]
       IN  op' = [op EXCEPT ![d] = [op[d] EXCEPT
               !.pc = "read", !.left = news, !.state = new,
               !.listed = [e \in Devices |-> IF e \in news THEN heads[e] ELSE None]]]
    /\ UNCHANGED saved /\ KeepOutbox /\ KeepPolicy /\ KeepPulled /\ KeepFaults

\* The first commit after the last verified one.
NextCommit(d, e) == op[d].state.lastSeen[e].len + 1

\* fetchAndIngest: the listed head extends what was seen, and its next commit is signed,
\* in its place, and rewrites no bundle.
Readable(d, e) ==
    LET h == op[d].listed[e]
        n == NextCommit(d, e)
    IN  /\ Ancestor(op[d].state.lastSeen[e], h)
        /\ ~ (h.forged /\ h.len = n)
        /\ \A k \in 1 .. n - 1 : chain[e][k].turns \intersect chain[e][n].turns = {}

\* Mutant of Observed: the head that was listed, however many commits led to it.
ObservedListed(d, e) == op[d].listed[e]

\* The last commit that was read: one per pull.
Observed(d, e) == At(NextCommit(d, e))

\* How reading e ends, with what is remembered of it.
Read(st, e, seen, verdict) ==
    [st EXCEPT !.lastSeen[e] = seen, !.quarantined[e] = verdict, !.retired[e] = None]

Done(d, e, seen, verdict) ==
    op' = [op EXCEPT ![d] = [op[d] EXCEPT
              !.pc = "read", !.listed[e] = None, !.left = op[d].left \ {e}, !.from = {},
              !.state = Read(op[d].state, e, seen, verdict)]]

Unread(d, e) == Pc(d, "read") /\ e \in op[d].left

\* A ref that was rewound since it was listed may be unreadable.
Quarantine(d, e) ==
    /\ Unread(d, e)
    /\ remote[policy[d].remote][e] # None
    /\ ~ Readable(d, e) \/ ~ Ancestor(op[d].listed[e], remote[policy[d].remote][e])
    /\ Done(d, e, op[d].state.lastSeen[e], "invalid")
    /\ UNCHANGED saved /\ KeepOutbox /\ KeepPolicy /\ KeepPulled /\ KeepFaults

Fetch(d, e) ==
    /\ Unread(d, e)
    /\ remote[policy[d].remote][e] # None
    /\ Readable(d, e)
    /\ op' = [op EXCEPT ![d] = [op[d] EXCEPT !.pc = "write", !.from = {e}]]
    /\ UNCHANGED saved /\ KeepOutbox /\ KeepPolicy /\ KeepPulled /\ KeepFaults

\* Fetching or materializing fails, and ends the pull: what was read of others is saved.
ReadFails(d, e) ==
    /\ Unread(d, e) \/ (Pc(d, "write") /\ e \in op[d].from)
    /\ \/ Pc(d, "read") /\ remote[policy[d].remote][e] = None /\ UNCHANGED faults
       \/ Fault("stop")
    /\ Save(d, [op[d].state EXCEPT !.retired[e] = None])
    /\ Return(d)
    /\ KeepOutbox /\ KeepPolicy /\ KeepPulled /\ UNCHANGED tampered

\* The turns of the commit that is read which are not materialized yet.
Unwritten(d, e) == chain[e][NextCommit(d, e)].turns \ pulled[d][e]

\* materializePulled
Materialize(d) ==
    /\ Pc(d, "write")
    /\ \E e \in op[d].from : \E b \in Unwritten(d, e) : pulled' = [pulled EXCEPT ![d][e] = @ \union {b}]
    /\ UNCHANGED <<saved, op, tracking, ownPulled>> /\ KeepOutbox /\ KeepPolicy /\ KeepFaults

Track(d) ==
    /\ Pc(d, "write")
    /\ \E e \in op[d].from :
          LET h == Observed(d, e)
          IN  /\ Unwritten(d, e) = {}
              /\ tracking' = [tracking EXCEPT ![d][policy[d].remote][e] = h]
              /\ Done(d, e, h, "no")
              /\ ownPulled' = IF e = d THEN ownPulled \union {d} ELSE ownPulled
    /\ UNCHANGED <<saved, pulled>> /\ KeepOutbox /\ KeepPolicy /\ KeepFaults

FinishPull(d) ==
    /\ Pc(d, "read") /\ op[d].left = {}
    /\ Save(d, op[d].state)
    /\ Return(d)
    /\ KeepOutbox /\ KeepPolicy /\ KeepPulled /\ KeepFaults

----------------------------------------------------------------------------
(* share preview, enable, disable, forget-device                           *)

Approve(d) ==
    /\ IsIdle(d) /\ Allowed(d) /\ ~ policy[d].approved
    /\ completed[d] # {}
    /\ policy' = [policy EXCEPT ![d].approved = TRUE]
    /\ agreed' = [agreed EXCEPT ![d] = @ \union {Digest(policy[d])}]
    /\ UNCHANGED <<saved, op, changed>> /\ KeepOutbox /\ KeepPulled /\ KeepFaults

\* The consent to copy what is in the outbox to remote r.
CopyTo(r) == [remote |-> r, mode |-> "copy"]

ConfigurableWithoutConsent(d, p, consent) ==
    p # Digest(policy[d]) => Recovered(d, saved[d]).committed = {}

\* configureLocked: the policy changes with an empty outbox only, the remote with consent.
Configurable(d, p, consent) ==
    /\ p # Digest(policy[d]) => Recovered(d, saved[d]).committed = {}
    /\ p.remote # policy[d].remote /\ chain[d] # <<>> => consent

Configure(d, p, consent) ==
    /\ IsIdle(d) /\ Fault("change") /\ changed' = TRUE
    /\ Configurable(d, p, consent)
    /\ policy' = [policy EXCEPT ![d] = [remote |-> p.remote, mode |-> p.mode, disabled |-> FALSE,
                                        approved |-> @.approved /\ p = Digest(@)]]
    /\ agreed' = IF consent THEN [agreed EXCEPT ![d] = @ \union {CopyTo(p.remote)}] ELSE agreed
    /\ op' = [op EXCEPT ![d] = [Idle EXCEPT !.pc = "configure",
                                            !.state = Aligned(Recovered(d, saved[d]), p.remote)]]
    /\ UNCHANGED <<saved, tampered>> /\ KeepOutbox /\ KeepPulled

SaveConfigured(d) ==
    /\ Pc(d, "configure")
    /\ Save(d, op[d].state)
    /\ Return(d)
    /\ KeepOutbox /\ KeepPolicy /\ KeepPulled /\ KeepFaults

Disable(d) ==
    /\ IsIdle(d) /\ Allowed(d) /\ Fault("change") /\ changed' = TRUE
    /\ policy' = [policy EXCEPT ![d].disabled = TRUE]
    /\ UNCHANGED <<saved, op, agreed, tampered>> /\ KeepOutbox /\ KeepPulled

ForgetDevice(d, e) ==
    /\ IsIdle(d) /\ e # d
    /\ saved[d].quarantined[e] = "gone" /\ saved[d].lastSeen[e] # None
    /\ Save(d, [saved[d] EXCEPT !.retired[e] = saved[d].lastSeen[e], !.quarantined[e] = "no"])
    /\ UNCHANGED op /\ KeepOutbox /\ KeepPolicy /\ KeepPulled /\ KeepFaults

----------------------------------------------------------------------------
(* Turns finish; operations are killed, fail or lose an answer; refs are   *)
(* rewound, deleted or replaced by somebody else                           *)

Complete(d) ==
    /\ \E b \in TurnsOf[d] \ completed[d] : completed' = [completed EXCEPT ![d] = @ \union {b}]
    /\ UNCHANGED <<chain, remote, saved, op>> /\ KeepPolicy /\ KeepPulled /\ KeepFaults

Stop(d) ==
    /\ ~ IsIdle(d) /\ Fault("stop")
    /\ Return(d)
    /\ UNCHANGED <<saved, tampered>> /\ KeepOutbox /\ KeepPolicy /\ KeepPulled

Tamper(r, d) ==
    /\ remote[r][d] # None /\ d \notin tampered /\ Fault("tamper")
    /\ tampered' = tampered \union {d}
    /\ \E h \in {At(n) : n \in 0 .. remote[r][d].len - 1}
                \union {[len |-> n, forged |-> TRUE] : n \in 1 .. remote[r][d].len + 1} :
          remote' = [remote EXCEPT ![r][d] = h]
    /\ UNCHANGED <<completed, chain, saved, op>> /\ KeepPolicy /\ KeepPulled

\* The operation that holds the lock takes its next step.
Step(d) ==
    \/ Look(d) \/ Send(d) \/ Confirm(d) \/ Promote(d) \/ NothingNew(d) \/ CommitBatch(d) \/ SaveOutbox(d)
    \/ List(d) \/ Materialize(d) \/ Track(d) \/ FinishPull(d) \/ SaveConfigured(d)
    \/ \E e \in Devices : Quarantine(d, e) \/ Fetch(d, e) \/ ReadFails(d, e)

Next ==
    \/ \E d \in Devices :
          \/ StartPush(d) \/ StartPull(d) \/ Step(d)
          \/ Approve(d) \/ Disable(d) \/ Complete(d) \/ Stop(d)
          \/ \E p \in [remote : Remotes, mode : PromptModes], consent \in BOOLEAN : Configure(d, p, consent)
          \/ \E e \in Devices : ForgetDevice(d, e)
    \/ \E r \in Remotes, d \in Devices : Tamper(r, d)

Spec == Init /\ [][Next]_vars

\* Operations go on, and users keep pushing and pulling, and approve what they configured.
FairSpec ==
    /\ Spec
    /\ \A d \in Devices :
          WF_vars(Step(d)) /\ SF_vars(Approve(d) \/ StartPush(d)) /\ SF_vars(StartPull(d))

----------------------------------------------------------------------------
(* Properties                                                              *)

Batch == [turns : SUBSET Turns, policy : [remote : Remotes, mode : PromptModes]]

Pushing == {"look", "send", "confirm", "promote", "scan", "outbox"}
Pulling == {"list", "read", "write"}

Operation == [pc : {"idle", "configure"} \union Pushing \union Pulling, state : State, last : BOOLEAN,
              listed : [Devices -> Commit], left : SUBSET Devices, from : SUBSET Devices]

\* The devices an operation may be reading.
Open(c) == IF c.pc = "write" THEN c.left ELSE {}

TypeOK ==
    /\ completed \in [Devices -> SUBSET Turns]
    /\ chain \in [Devices -> Seq(Batch)]
    /\ policy \in [Devices -> [remote : Remotes, mode : PromptModes, approved : BOOLEAN, disabled : BOOLEAN]]
    /\ saved \in [Devices -> State]
    /\ tracking \in [Devices -> [Remotes -> [Devices -> Commit]]]
    /\ pulled \in [Devices -> [Devices -> SUBSET Turns]]
    /\ remote \in [Remotes -> [Devices -> Commit]]
    /\ op \in [Devices -> Operation] /\ \A d \in Devices : op[d].from \subseteq Open(op[d])
    /\ agreed \in [Devices -> SUBSET [remote : Remotes, mode : PromptModes \union {"copy"}]]
    /\ faults \in 0 .. MaxFaults /\ changed \in BOOLEAN
    /\ tampered \subseteq Devices /\ ownPulled \subseteq Devices

\* The bundles at a head; a forged commit holds none.
TurnsUpTo(d, h) == UNION {chain[d][n].turns : n \in DOMAIN chain[d] \intersect 1 .. h.len}

InOneBatch(d) ==
    \A m, n \in DOMAIN chain[d] : m # n => chain[d][m].turns \intersect chain[d][n].turns = {}

\* A bundle is put in one batch of a device only, however its pushes end, as readers refuse
\* a ref that brings a bundle twice: as long as the device reads no batch of its own
\* (syncPush, recoverCommittedState).
PublishedOnce == \A d \in Devices \ ownPulled : InOneBatch(d)

\* The same without the exception: what the comment in syncPush says.
NeverRegenerated == \A d \in Devices : InOneBatch(d)

\* A cursor, in state.json or a tracking ref, never passes a bundle that is not
\* materialized: such a bundle would not be read again (fetchAndIngest, syncPull).
CursorBacked ==
    \A d \in Devices, e \in Devices : e # d =>
        \A h \in {saved[d].lastSeen[e]} \union {tracking[d][r][e] : r \in Remotes} :
            TurnsUpTo(e, h) \subseteq pulled[d][e]

\* A bundle that state.json calls published is at a remote, unless somebody changed the
\* ref: it would never be pushed again (promoteCommitted).
PublishedArrived ==
    \A d \in Devices \ tampered :
        saved[d].published \subseteq UNION {TurnsUpTo(d, remote[r][d]) : r \in Remotes}

\* An outbox that waits, also one found again after a crash, can be pushed under the
\* policy of now: otherwise push refuses it and share enable waits for the push
\* (validateCommittedPolicy, configureLocked).
OutboxFits ==
    \A d \in Devices \ ownPulled : IsIdle(d) => OutboxPushable(d, Loaded(d))

\* Whatever a device put at a remote was built under a policy the user approved, for that
\* remote or with consent to copy it there (syncPush, configureLocked).
OnlyAgreed ==
    \A r \in Remotes, d \in Devices \ tampered : \A n \in 1 .. remote[r][d].len :
        LET p == chain[d][n].policy
        IN  p \in agreed[d] /\ (p.remote = r \/ CopyTo(r) \in agreed[d])

Troubled(d) == d \in tampered \union ownPulled

\* Finished turns reach every other device, in spite of pushes and pulls that were cut off,
\* unless somebody changed the ref, a device read a batch of its own or the configuration
\* was changed (syncPush, syncPull).
TurnsArrive ==
    []<>\A d \in Devices, e \in Devices : d # e =>
            \/ completed[d] \subseteq pulled[e][d]
            \/ Troubled(d) \/ Troubled(e) \/ changed

\* What state.json and the refs say of published bundles is true: each is in one batch, is
\* at a remote, and what waits can be pushed.
PublishedTrue == PublishedOnce /\ PublishedArrived /\ OutboxFits
=============================================================================
