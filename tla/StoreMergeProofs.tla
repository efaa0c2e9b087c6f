-------------------------- MODULE StoreMergeProofs --------------------------
(* What holds of StoreMerge for every value of its constants: any number of  *)
(* stores, streams and merges, at any lengths.                               *)
EXTENDS StoreMerge, TLAPS

-----------------------------------------------------------------------------
(* Types                                                                     *)

EventSet == [stream : Streams, gen : Nat, i : Nat \ {0}]
RefSet   == [via : Seq(Stores \cup Nat), kind : Kinds, of : EventSet]

\* A copy is of one stream, and of some of its events.
CopySet == {x \in [id : Nat, stream : Streams, events : SUBSET EventSet] :
               x.events # {} /\ \A e \in x.events : e.stream = x.stream}

Working == {"fetch", "inspectAgain", "copy", "alias", "install", "describe", "clear", "cleared"}
Pcs     == {"idle", "inspect", "lock"} \cup Working

Imports == [pc : Pcs, src : Stores \cup {None}, dst : Stores \cup {None}, id : Nat,
            listing : SUBSET EventSet, todo : SUBSET Streams, again : BOOLEAN, gone : SUBSET Streams]

\* An import has two stores, a process that merges nothing none, and what is
\* left to do was listed.
Parties(c) ==
    /\ \/ c.pc = "idle" /\ c.src = None /\ c.dst = None
       \/ c.pc # "idle" /\ c.src \in Stores /\ c.dst \in Stores /\ c.src # c.dst
    /\ c.todo \subseteq StreamsOf(c.listing)

TypeInv ==
    /\ files \in [Stores -> SUBSET EventSet]
    /\ described \in [Stores -> SUBSET Streams]
    /\ refs \in [Stores -> SUBSET RefSet]
    /\ staged \in [Stores -> SUBSET [id : Nat, ref : RefSet]]
    /\ copies \in [Stores -> SUBSET CopySet]
    /\ journals \in [Stores -> SUBSET [id : Nat, src : Stores]]
    /\ \A s \in Stores : \A j \in journals[s] : j.src # s
    /\ manifests = [s \in Stores |-> manifests[s]]
    /\ lock \in [Stores -> Procs \cup {None}]
    /\ procs \in [Procs -> Imports]
    /\ \A p \in Procs : Parties(procs[p])
    /\ late \in [Stores -> SUBSET EventSet]
    /\ left \in [imports : Nat, faults : Nat, gen : [Streams -> Nat]]

LEMMA Bounds ==
    /\ MaxTurns \in [Streams -> Nat] /\ MaxImports \in Nat /\ MaxFaults \in Nat
    /\ None \notin Nat /\ None \notin Stores /\ None \notin Procs
    /\ Owner \in [Streams -> Stores] /\ Linked \subseteq Streams
  BY BoundsAssumption, NoneAssumption, OwnerAssumption, LinkedAssumption

LEMMA StreamsAre ==
    ASSUME NEW es, NEW st
    PROVE  st \in StreamsOf(es) <=> \E e \in es : e.stream = st
  BY DEF StreamsOf

LEMMA StreamsType ==
    ASSUME NEW es \in SUBSET EventSet
    PROVE  StreamsOf(es) \subseteq Streams
  BY DEF StreamsOf, EventSet

LEMMA IdleType == Idle \in Imports /\ Parties(Idle)
  BY DEF Idle, Imports, Pcs, Working, Parties

\* A stream is there when one of its events is.
LEMMA HasEvent ==
    ASSUME NEW s, NEW st
    PROVE  Has(s, st) <=> \E e \in files[s] : e.stream = st
  BY DEF Has, Of

LEMMA EventType ==
    ASSUME NEW st \in Streams, NEW n \in Nat, NEW i \in Nat \ {0}
    PROVE  /\ Event(st, n, i) \in EventSet
           /\ Event(st, n, i).stream = st /\ Event(st, n, i).gen = n /\ Event(st, n, i).i = i
  BY DEF Event, EventSet

LEMMA RefType ==
    ASSUME NEW e \in EventSet, NEW kind \in Kinds
    PROVE  /\ Ref(kind, e) \in RefSet
           /\ Ref(kind, e).kind = kind /\ Ref(kind, e).of = e /\ Ref(kind, e).via = <<>>
  BY DEF Ref, RefSet

LEMMA CreatedType ==
    ASSUME NEW e \in EventSet
    PROVE  /\ Created(e) \subseteq RefSet /\ Aliases(e) \subseteq RefSet
           /\ Ref("byid", e) \in Created(e)
           /\ e.stream \in Linked => Ref("scoped", e) \in Created(e)
  BY RefType DEF Created, Aliases, Named, Kinds

LEMMA UnderType ==
    ASSUME NEW rs \in SUBSET RefSet, NEW origin \in Stores \cup Nat
    PROVE  Under(rs, origin) \subseteq RefSet
<1>1. ASSUME NEW r \in RefSet PROVE [r EXCEPT !.via = Append(@, origin)] \in RefSet
  <2>1. Append(r.via, origin) \in Seq(Stores \cup Nat)
    BY DEF RefSet
  <2> QED
    BY <2>1 DEF RefSet
<1> QED
  BY <1>1 DEF Under

LEMMA OfferedType ==
    ASSUME TypeInv, NEW s \in Stores
    PROVE  Offered(s) \subseteq RefSet
<1>1. refs[s] \subseteq RefSet /\ staged[s] \subseteq [id : Nat, ref : RefSet]
  BY DEF TypeInv
<1>2. ASSUME NEW x \in staged[s] PROVE Under({x.ref}, x.id) \subseteq RefSet
  <2>1. {x.ref} \in SUBSET RefSet /\ x.id \in Stores \cup Nat
    BY <1>1
  <2> QED
    BY <2>1, UnderType
<1> QED
  BY <1>1, <1>2 DEF Offered

LEMMA AliasesType ==
    ASSUME NEW l \in SUBSET EventSet
    PROVE  UNION {Aliases(e) : e \in l} \subseteq RefSet
  BY CreatedType

LEMMA FetchedType ==
    ASSUME TypeInv, NEW p \in Procs, procs[p].pc # "idle"
    PROVE  /\ Fetched(procs[p]) \subseteq RefSet
           /\ Under(Fetched(procs[p]), procs[p].src) \subseteq RefSet
<1>1. staged[procs[p].dst] \subseteq [id : Nat, ref : RefSet] /\ procs[p].src \in Stores
  BY DEF TypeInv, Parties
<1>2. Fetched(procs[p]) \in SUBSET RefSet
  BY <1>1 DEF Fetched
<1> QED
  BY <1>1, <1>2, UnderType

LEMMA InitTypes == Init => TypeInv
<1> SUFFICES ASSUME Init PROVE TypeInv
  OBVIOUS
<1>1. PICK copiedTo \in SUBSET Stores, first \in Streams :
         /\ files = [s \in Stores |-> IF s \in {Owner[first]} \cup copiedTo THEN {Event(first, 0, 1)} ELSE {}]
         /\ described = [s \in Stores |-> IF s \in {Owner[first]} \cup copiedTo THEN {first} ELSE {}]
         /\ refs = [s \in Stores |-> IF s \in {Owner[first]} \cup copiedTo
                                     THEN Created(Event(first, 0, 1)) ELSE {}]
  BY DEF Init
<1>2. Event(first, 0, 1) \in EventSet
  BY EventType
<1>3. files \in [Stores -> SUBSET EventSet] /\ described \in [Stores -> SUBSET Streams]
  BY <1>1, <1>2
<1>4. refs \in [Stores -> SUBSET RefSet]
  <2>1. Created(Event(first, 0, 1)) \subseteq RefSet
    BY <1>2, CreatedType
  <2> QED
    BY <1>1, <2>1
<1>5. procs \in [Procs -> Imports] /\ \A p \in Procs : Parties(procs[p])
  BY IdleType DEF Init
<1>6. left \in [imports : Nat, faults : Nat, gen : [Streams -> Nat]]
  BY Bounds DEF Init
<1> QED
  BY <1>3, <1>4, <1>5, <1>6 DEF Init, TypeInv

LEMMA BecomeTypes ==
    ASSUME TypeInv, NEW p \in Procs, NEW c \in Imports, Parties(c), Become(p, c)
    PROVE  procs' \in [Procs -> Imports] /\ \A q \in Procs : Parties(procs'[q])
  BY DEF TypeInv, Become

LEMMA GotoTypes ==
    ASSUME TypeInv, NEW p \in Procs, ~At(p, "idle"), NEW pc \in Pcs \ {"idle"}, Goto(p, pc)
    PROVE  procs' \in [Procs -> Imports] /\ \A q \in Procs : Parties(procs'[q])
<1> DEFINE c == [procs[p] EXCEPT !.pc = pc]
<1>1. procs[p] \in Imports /\ Parties(procs[p]) /\ procs[p].pc # "idle"
  BY DEF TypeInv, At
<1>2. c \in Imports
  BY <1>1 DEF Imports
<1>3. Parties(c)
  BY <1>1 DEF Parties, Imports
<1>4. Become(p, c)
  BY DEF Goto
<1> QED
  BY <1>2, <1>3, <1>4, BecomeTypes

LEMMA StopTypes ==
    ASSUME TypeInv, NEW p \in Procs, Stop(p)
    PROVE  /\ procs' \in [Procs -> Imports] /\ \A q \in Procs : Parties(procs'[q])
           /\ lock' \in [Stores -> Procs \cup {None}]
<1>1. lock' \in [Stores -> Procs \cup {None}]
  BY DEF TypeInv, Stop
<1> QED
  BY <1>1, IdleType, BecomeTypes DEF Stop

LEMMA RunTypes ==
    ASSUME TypeInv, NEW p \in Procs, Run(p)
    PROVE  TypeInv'
<1>1. PICK src, dst \in Stores :
        /\ At(p, "idle") /\ src # dst /\ left.imports > 0
        /\ left' = [left EXCEPT !.imports = @ - 1]
        /\ Become(p, [Idle EXCEPT !.pc = "inspect", !.src = src, !.dst = dst,
                      !.id = left.imports, !.listing = files[src]])
        /\ UNCHANGED unchangedByPlan
  BY DEF Run
<1> DEFINE c == [Idle EXCEPT !.pc = "inspect", !.src = src, !.dst = dst,
                      !.id = left.imports, !.listing = files[src]]
<1>2. c \in Imports /\ Parties(c)
  <2>1. left.imports \in Nat /\ files[src] \in SUBSET EventSet
    BY DEF TypeInv
  <2> QED
    BY <1>1, <2>1 DEF Idle, Imports, Pcs, Working, Parties
<1>3. procs' \in [Procs -> Imports] /\ \A q \in Procs : Parties(procs'[q])
  BY <1>1, <1>2, BecomeTypes
<1>4. left' \in [imports : Nat, faults : Nat, gen : [Streams -> Nat]]
  <2>1. left \in [imports : Nat, faults : Nat, gen : [Streams -> Nat]] /\ left.imports - 1 \in Nat
    BY <1>1 DEF TypeInv
  <2> QED
    BY <1>1, <2>1
<1> QED
  BY <1>1, <1>3, <1>4 DEF TypeInv, unchangedByPlan

LEMMA RecoverTypes ==
    ASSUME TypeInv, NEW p \in Procs, Recover(p)
    PROVE  TypeInv'
<1>1. PICK s \in Stores : \E j \in Pending(s) :
        /\ At(p, "idle") /\ Cardinality(journals[s]) = 1
        /\ Become(p, [Idle EXCEPT !.pc = "inspect", !.src = j.src, !.dst = s, !.id = j.id,
                      !.listing = files[j.src], !.again = TRUE])
        /\ UNCHANGED <<left, unchangedByPlan>>
  BY DEF Recover
<1>2. PICK j \in Pending(s) :
        /\ Become(p, [Idle EXCEPT !.pc = "inspect", !.src = j.src, !.dst = s, !.id = j.id,
                      !.listing = files[j.src], !.again = TRUE])
        /\ UNCHANGED <<left, unchangedByPlan>>
  BY <1>1
<1> DEFINE c == [Idle EXCEPT !.pc = "inspect", !.src = j.src, !.dst = s, !.id = j.id,
                      !.listing = files[j.src], !.again = TRUE]
<1>3. c \in Imports /\ Parties(c)
  <2>1. j \in journals[s] /\ j.src \in Stores /\ j.id \in Nat /\ j.src # s
    BY DEF Pending, TypeInv
  <2>2. files[j.src] \in SUBSET EventSet
    BY <2>1 DEF TypeInv
  <2> QED
    BY <2>1, <2>2 DEF Idle, Imports, Pcs, Working, Parties
<1>4. procs' \in [Procs -> Imports] /\ \A q \in Procs : Parties(procs'[q])
  BY <1>2, <1>3, BecomeTypes
<1> QED
  BY <1>2, <1>4 DEF TypeInv, unchangedByPlan

LEMMA ImportTypes ==
    ASSUME TypeInv, NEW p \in Procs
    PROVE  /\ procs[p] \in Imports
           /\ ~At(p, "idle") => procs[p].src \in Stores /\ procs[p].dst \in Stores
                                /\ procs[p].src # procs[p].dst
           /\ procs[p].listing \in SUBSET EventSet
           /\ procs[p].todo \subseteq StreamsOf(procs[p].listing)
           /\ StreamsOf(procs[p].listing) \subseteq Streams
  BY StreamsType DEF TypeInv, Parties, At, Imports

LEMMA InspectTypes ==
    ASSUME TypeInv, NEW p \in Procs, Inspect(p)
    PROVE  TypeInv'
<1>1. procs' \in [Procs -> Imports] /\ \A q \in Procs : Parties(procs'[q])
  <2>1. CASE Goto(p, "lock")
    BY <2>1, GotoTypes DEF Inspect, At, Pcs
  <2>2. CASE Become(p, Idle)
    BY <2>2, IdleType, BecomeTypes
  <2> QED
    BY <2>1, <2>2 DEF Inspect
<1> QED
  BY <1>1 DEF Inspect, TypeInv, unchangedByPlan

LEMMA TakeLockTypes ==
    ASSUME TypeInv, NEW p \in Procs, TakeLock(p)
    PROVE  TypeInv'
<1> DEFINE c == procs[p]
<1>1. c.src \in Stores /\ c.dst \in Stores /\ c.src # c.dst /\ c.id \in Nat
  BY ImportTypes DEF TakeLock, At, Imports
<1>2. procs' \in [Procs -> Imports] /\ \A q \in Procs : Parties(procs'[q])
  BY GotoTypes DEF TakeLock, At, Pcs, Working
<1>3. lock' \in [Stores -> Procs \cup {None}]
  BY DEF TakeLock, TypeInv
<1>4. /\ journals' \in [Stores -> SUBSET [id : Nat, src : Stores]]
      /\ \A s \in Stores : \A j \in journals'[s] : j.src # s
  BY <1>1 DEF TakeLock, TypeInv
<1> QED
  BY <1>2, <1>3, <1>4 DEF TakeLock, TypeInv, unchangedByStaging

LEMMA FetchTypes ==
    ASSUME TypeInv, NEW p \in Procs, Fetch(p)
    PROVE  TypeInv'
<1> DEFINE c == procs[p]
<1>1. c.src \in Stores /\ c.dst \in Stores /\ c.id \in Nat
  BY ImportTypes DEF Fetch, At, Imports
<1>2. procs' \in [Procs -> Imports] /\ \A q \in Procs : Parties(procs'[q])
  BY GotoTypes DEF Fetch, At, Pcs, Working
<1>3. staged' \in [Stores -> SUBSET [id : Nat, ref : RefSet]]
  <2> DEFINE offered == {[id |-> c.id, ref |-> r] : r \in Offered(c.src)}
             kept == {x \in staged[c.dst] : x.id # c.id \/ \A r \in Offered(c.src) : ~SameName(r, x.ref)}
  <2>1. offered \subseteq [id : Nat, ref : RefSet]
    BY <1>1, OfferedType
  <2>2. kept \subseteq [id : Nat, ref : RefSet]
    BY <1>1 DEF TypeInv
  <2>3. staged' = [staged EXCEPT ![c.dst] = kept \cup offered]
    BY DEF Fetch
  <2> HIDE DEF offered, kept
  <2> QED
    BY <1>1, <2>1, <2>2, <2>3 DEF TypeInv
<1> QED
  BY <1>2, <1>3 DEF Fetch, TypeInv, unchangedByStaging

LEMMA InspectAgainTypes ==
    ASSUME TypeInv, NEW p \in Procs, InspectAgain(p)
    PROVE  TypeInv'
<1>1. /\ procs' \in [Procs -> Imports] /\ \A q \in Procs : Parties(procs'[q])
      /\ lock' \in [Stores -> Procs \cup {None}]
  <2>1. CASE /\ Become(p, [procs[p] EXCEPT !.pc = "copy", !.todo = StreamsOf(procs[p].listing)])
             /\ UNCHANGED lock
    <3> DEFINE c == [procs[p] EXCEPT !.pc = "copy", !.todo = StreamsOf(procs[p].listing)]
    <3>1. c \in Imports /\ Parties(c)
      BY ImportTypes DEF InspectAgain, At, Imports, Pcs, Working, Parties
    <3> QED
      BY <2>1, <3>1, BecomeTypes DEF TypeInv
  <2>2. CASE Stop(p)
    BY <2>2, StopTypes
  <2> QED
    BY <2>1, <2>2 DEF InspectAgain
<1> QED
  BY <1>1 DEF InspectAgain, TypeInv, unchangedByStaging

LEMMA CopyStreamTypes ==
    ASSUME TypeInv, NEW p \in Procs, CopyStream(p)
    PROVE  TypeInv'
<1> DEFINE c == procs[p]
<1>1. c \in Imports /\ c.src \in Stores /\ c.dst \in Stores /\ c.pc = "copy"
  BY ImportTypes DEF CopyStream, At
<1>2. PICK st \in c.todo :
          IF Has(c.src, st)
          THEN /\ copies' = [copies EXCEPT ![c.dst] = {x \in @ : x.id # c.id \/ x.stream # st}
                                \cup {[id |-> c.id, stream |-> st, events |-> Of(files[c.src], st)]}]
               /\ Become(p, [c EXCEPT !.todo = @ \ {st}])
               /\ UNCHANGED lock
          ELSE Stop(p) /\ UNCHANGED copies
  BY DEF CopyStream
<1>3. /\ procs' \in [Procs -> Imports] /\ \A q \in Procs : Parties(procs'[q])
      /\ lock' \in [Stores -> Procs \cup {None}]
      /\ copies' \in [Stores -> SUBSET CopySet]
  <2>1. CASE Has(c.src, st)
    <3>1. /\ st \in Streams /\ c.id \in Nat /\ Of(files[c.src], st) \in SUBSET EventSet
          /\ Of(files[c.src], st) # {} /\ \A e \in Of(files[c.src], st) : e.stream = st
      BY <1>1, <2>1 DEF Imports, TypeInv, Of, Has
    <3>2. [c EXCEPT !.todo = @ \ {st}] \in Imports /\ Parties([c EXCEPT !.todo = @ \ {st}])
      <4>1. c.todo \ {st} \in SUBSET Streams /\ c.src # c.dst /\ c.todo \subseteq StreamsOf(c.listing)
        BY <1>1, ImportTypes DEF Imports, At
      <4> QED
        BY <1>1, <4>1 DEF Imports, Parties
    <3>3. procs' \in [Procs -> Imports] /\ \A q \in Procs : Parties(procs'[q])
      BY <1>2, <2>1, <3>2, BecomeTypes
    <3>4. copies' \in [Stores -> SUBSET CopySet]
      <4> DEFINE new == [id |-> c.id, stream |-> st, events |-> Of(files[c.src], st)]
                 kept == {x \in copies[c.dst] : x.id # c.id \/ x.stream # st}
      <4>1. new \in CopySet
        BY <3>1 DEF CopySet
      <4>2. kept \cup {new} \subseteq CopySet
        BY <1>1, <4>1 DEF TypeInv
      <4>3. copies' = [copies EXCEPT ![c.dst] = kept \cup {new}]
        BY <1>2, <2>1
      <4> HIDE DEF new, kept
      <4> QED
        BY <1>1, <4>2, <4>3 DEF TypeInv
    <3> QED
      BY <1>2, <2>1, <3>3, <3>4 DEF TypeInv
  <2>2. CASE ~Has(c.src, st)
    BY <1>2, <2>2, StopTypes DEF TypeInv
  <2> QED
    BY <2>1, <2>2
<1> QED
  BY <1>3 DEF CopyStream, TypeInv, unchangedByStaging

LEMMA AddTypes ==
    ASSUME TypeInv, NEW p \in Procs, ~At(p, "idle"), NEW new \in SUBSET RefSet,
           NEW next \in Imports, Parties(next), Add(p, new, next), UNCHANGED unchangedByPromotion
    PROVE  TypeInv'
<1> DEFINE s == procs[p].dst
<1>1. s \in Stores
  BY ImportTypes
<1>2. CASE refs' = [refs EXCEPT ![s] = @ \cup new] /\ Become(p, next) /\ UNCHANGED lock
  <2>1. procs' \in [Procs -> Imports] /\ \A q \in Procs : Parties(procs'[q])
    BY <1>2, BecomeTypes
  <2>2. refs' \in [Stores -> SUBSET RefSet]
    BY <1>1, <1>2 DEF TypeInv
  <2> QED
    BY <1>2, <2>1, <2>2 DEF TypeInv, unchangedByPromotion
<1>3. ASSUME NEW some \in SUBSET new, refs' = [refs EXCEPT ![s] = @ \cup some], Stop(p)
      PROVE  TypeInv'
  <2>1. /\ procs' \in [Procs -> Imports] /\ \A q \in Procs : Parties(procs'[q])
        /\ lock' \in [Stores -> Procs \cup {None}]
    BY <1>3, StopTypes
  <2>2. refs' \in [Stores -> SUBSET RefSet]
    BY <1>1, <1>3 DEF TypeInv
  <2> QED
    BY <2>1, <2>2 DEF TypeInv, unchangedByPromotion
<1> QED
  BY <1>2, <1>3 DEF Add

LEMMA PromoteTypes ==
    ASSUME TypeInv, NEW p \in Procs, Promote(p)
    PROVE  TypeInv'
<1> DEFINE c == procs[p]
           d == [c EXCEPT !.pc = "alias"]
<1>1. /\ c \in Imports /\ Parties(c) /\ c.pc = "copy" /\ ~At(p, "idle")
      /\ Under(Fetched(c), c.src) \in SUBSET RefSet
  BY ImportTypes, FetchedType DEF Promote, At, TypeInv
<1>2. d \in Imports /\ Parties(d)
  BY <1>1 DEF Imports, Pcs, Working, Parties
<1> QED
  BY <1>1, <1>2, AddTypes DEF Promote

LEMMA AliasCheckpointsTypes ==
    ASSUME TypeInv, NEW p \in Procs, AliasCheckpoints(p)
    PROVE  TypeInv'
<1> DEFINE c == procs[p]
           d == [c EXCEPT !.pc = "install", !.todo = StreamsOf(c.listing)]
           new == UNION {Aliases(e) : e \in c.listing}
<1>1. /\ c \in Imports /\ Parties(c) /\ c.pc = "alias" /\ ~At(p, "idle")
      /\ c.listing \in SUBSET EventSet /\ StreamsOf(c.listing) \subseteq Streams
  BY ImportTypes DEF AliasCheckpoints, At, TypeInv
<1>2. new \in SUBSET RefSet
  BY <1>1, AliasesType
<1>3. d \in Imports /\ Parties(d)
  BY <1>1 DEF Imports, Pcs, Working, Parties
<1>4. Add(p, new, d) /\ UNCHANGED unchangedByPromotion
  BY DEF AliasCheckpoints
<1> HIDE DEF new, d
<1> QED
  BY <1>1, <1>2, <1>3, <1>4, AddTypes

LEMMA InstallTypes ==
    ASSUME TypeInv, NEW p \in Procs, Install(p)
    PROVE  TypeInv'
<1> DEFINE c == procs[p]
           d(st) == [c EXCEPT !.todo = @ \ {st}, !.pc = "describe"]
<1>1. c \in Imports /\ c.dst \in Stores /\ c.src # c.dst /\ c.src \in Stores /\ c.pc = "install"
  BY ImportTypes DEF Install, At
<1>2. \A st \in c.todo : d(st) \in Imports /\ Parties(d(st))
  <2> SUFFICES ASSUME NEW st \in c.todo PROVE d(st) \in Imports /\ Parties(d(st))
    OBVIOUS
  <2>1. c.todo \ {st} \in SUBSET Streams /\ c.todo \subseteq StreamsOf(c.listing)
    BY <1>1, ImportTypes DEF Imports
  <2> QED
    BY <1>1, <2>1 DEF Imports, Parties, Pcs, Working
<1>3. ASSUME NEW st \in c.todo, NEW x \in {x \in copies[c.dst] : x.id = c.id /\ x.stream = st},
             files' = [files EXCEPT ![c.dst] = @ \cup x.events],
             copies' = [copies EXCEPT ![c.dst] = @ \ {x}],
             late' = [late EXCEPT ![c.dst] = @ \cup (x.events \ c.listing)],
             Become(p, d(st)), UNCHANGED lock
      PROVE  TypeInv'
  <2>1. x \in CopySet /\ x.events \in SUBSET EventSet
    BY <1>1, <1>3 DEF TypeInv, CopySet
  <2>3. files' \in [Stores -> SUBSET EventSet]
    BY <1>1, <1>3, <2>1 DEF TypeInv
  <2>4. copies' \in [Stores -> SUBSET CopySet]
    BY <1>1, <1>3 DEF TypeInv
  <2>5. late' \in [Stores -> SUBSET EventSet]
    BY <1>1, <1>3, <2>1 DEF TypeInv
  <2>6. procs' \in [Procs -> Imports] /\ \A q \in Procs : Parties(procs'[q])
    BY <1>2, <1>3, BecomeTypes
  <2> QED
    BY <1>3, <2>3, <2>4, <2>5, <2>6 DEF Install, TypeInv
<1>4. ASSUME NEW st \in c.todo, Become(p, d(st)), UNCHANGED <<files, copies, late, lock>>
      PROVE  TypeInv'
  <2>1. procs' \in [Procs -> Imports] /\ \A q \in Procs : Parties(procs'[q])
    BY <1>2, <1>4, BecomeTypes
  <2> QED
    BY <1>4, <2>1 DEF Install, TypeInv
<1>5. ASSUME Stop(p), UNCHANGED <<files, copies, late>>
      PROVE  TypeInv'
  BY <1>5, StopTypes DEF Install, TypeInv
<1> QED
  BY <1>3, <1>4, <1>5 DEF Install

LEMMA DescribeTypes ==
    ASSUME TypeInv, NEW p \in Procs, Describe(p)
    PROVE  TypeInv'
<1> DEFINE c == procs[p]
<1>1. c.dst \in Stores /\ StreamsOf(c.listing) \subseteq Streams
  BY ImportTypes DEF Describe, At
<1>2. procs' \in [Procs -> Imports] /\ \A q \in Procs : Parties(procs'[q])
  BY GotoTypes DEF Describe, At, Pcs, Working
<1>3. described' \in [Stores -> SUBSET Streams]
  BY <1>1 DEF Describe, TypeInv
<1> QED
  BY <1>2, <1>3 DEF Describe, TypeInv

LEMMA WriteManifestTypes ==
    ASSUME TypeInv, NEW p \in Procs, WriteManifest(p)
    PROVE  TypeInv'
<1>1. procs' \in [Procs -> Imports] /\ \A q \in Procs : Parties(procs'[q])
  BY GotoTypes DEF WriteManifest, At, Pcs, Working
<1>2. manifests' = [s \in Stores |-> manifests'[s]]
  BY DEF WriteManifest, TypeInv
<1> QED
  BY <1>1, <1>2 DEF WriteManifest, TypeInv

LEMMA ClearStagingTypes ==
    ASSUME TypeInv, NEW p \in Procs, ClearStaging(p)
    PROVE  TypeInv'
<1>1. procs' \in [Procs -> Imports] /\ \A q \in Procs : Parties(procs'[q])
  BY GotoTypes DEF ClearStaging, At, Pcs, Working
<1>2. staged' \in [Stores -> SUBSET [id : Nat, ref : RefSet]]
  BY DEF ClearStaging, TypeInv
<1> QED
  BY <1>1, <1>2 DEF ClearStaging, TypeInv, unchangedByClear

LEMMA ClearJournalTypes ==
    ASSUME TypeInv, NEW p \in Procs, ClearJournal(p)
    PROVE  TypeInv'
<1>1. /\ procs' \in [Procs -> Imports] /\ \A q \in Procs : Parties(procs'[q])
      /\ lock' \in [Stores -> Procs \cup {None}]
  BY StopTypes DEF ClearJournal
<1>2. copies' \in [Stores -> SUBSET CopySet]
  BY DEF ClearJournal, TypeInv
<1>3. /\ journals' \in [Stores -> SUBSET [id : Nat, src : Stores]]
      /\ \A s \in Stores : \A j \in journals'[s] : j.src # s
  BY DEF ClearJournal, TypeInv
<1> QED
  BY <1>1, <1>2, <1>3 DEF ClearJournal, TypeInv, unchangedByClear

LEMMA FaultTypes ==
    ASSUME TypeInv, Fault
    PROVE  left' \in [imports : Nat, faults : Nat, gen : [Streams -> Nat]]
           /\ left'.imports = left.imports
<1>1. left \in [imports : Nat, faults : Nat, gen : [Streams -> Nat]] /\ left.faults - 1 \in Nat
  BY DEF TypeInv, Fault
<1> QED
  BY <1>1 DEF Fault

LEMMA KillTypes ==
    ASSUME TypeInv, NEW p \in Procs, Kill(p)
    PROVE  TypeInv'
<1>1. procs' \in [Procs -> Imports] /\ \A q \in Procs : Parties(procs'[q])
  BY IdleType, BecomeTypes DEF Kill
<1>2. lock' \in [Stores -> Procs \cup {None}]
  BY DEF Kill, TypeInv
<1>3. left' \in [imports : Nat, faults : Nat, gen : [Streams -> Nat]]
  BY FaultTypes DEF Kill
<1> QED
  BY <1>1, <1>2, <1>3 DEF Kill, TypeInv

\* What a turn leaves: its refs, and its event after them.
LEMMA RecordAdds ==
    ASSUME TypeInv, NEW s \in Stores, NEW st \in Streams, Record(s, st)
    PROVE  \E e \in EventSet :
               /\ Owner[st] = s /\ e.stream = st
               /\ refs' = [refs EXCEPT ![s] = @ \cup Created(e)]
               /\ files' = [files EXCEPT ![s] = @ \cup {e}]
               /\ described' = [described EXCEPT ![s] = @ \cup {st}]
               /\ UNCHANGED <<staged, copies, journals, manifests, lock, procs, late, left>>
<1>1. PICK i \in 1..MaxTurns[st] :
        LET e == Event(st, left.gen[st], i) IN
        /\ Owner[st] = s
        /\ refs' = [refs EXCEPT ![s] = @ \cup Created(e)]
        /\ files' = [files EXCEPT ![s] = @ \cup {e}]
        /\ described' = [described EXCEPT ![s] = @ \cup {st}]
        /\ UNCHANGED <<staged, copies, journals, manifests, lock, procs, late, left>>
  BY DEF Record
<1>2. left.gen[st] \in Nat
  BY DEF TypeInv
<1>3. i \in Nat \ {0}
  BY Bounds
<1>4. Event(st, left.gen[st], i) \in EventSet /\ Event(st, left.gen[st], i).stream = st
  BY <1>2, <1>3, EventType
<1> QED
  BY <1>1, <1>4

LEMMA RecordTypes ==
    ASSUME TypeInv, NEW s \in Stores, NEW st \in Streams, Record(s, st)
    PROVE  TypeInv'
<1>1. PICK e \in EventSet :
               /\ e.stream = st
               /\ refs' = [refs EXCEPT ![s] = @ \cup Created(e)]
               /\ files' = [files EXCEPT ![s] = @ \cup {e}]
               /\ described' = [described EXCEPT ![s] = @ \cup {st}]
               /\ UNCHANGED <<staged, copies, journals, manifests, lock, procs, late, left>>
  BY RecordAdds
<1>2. Created(e) \subseteq RefSet
  BY CreatedType
<1>3. files' \in [Stores -> SUBSET EventSet]
  BY <1>1 DEF TypeInv
<1>4. refs' \in [Stores -> SUBSET RefSet]
  BY <1>1, <1>2 DEF TypeInv
<1>5. described' \in [Stores -> SUBSET Streams]
  BY <1>1 DEF TypeInv
<1> QED
  BY <1>1, <1>3, <1>4, <1>5 DEF TypeInv

LEMMA LostType ==
    ASSUME NEW c \in Imports, NEW st
    PROVE  /\ Lost(c, st) \in Imports
           /\ Lost(c, st) = [c EXCEPT !.gone = Lost(c, st).gone]
           /\ Lost(c, st).gone = c.gone \cup ({st} \cap StreamsOf(c.listing))
           /\ Lost(c, st).pc = c.pc /\ Lost(c, st).src = c.src /\ Lost(c, st).dst = c.dst
           /\ Lost(c, st).id = c.id /\ Lost(c, st).listing = c.listing
           /\ Lost(c, st).todo = c.todo /\ Lost(c, st).again = c.again
<1>1. StreamsOf(c.listing) \subseteq Streams
  BY StreamsType DEF Imports
<1> QED
  BY <1>1 DEF Imports, Lost

LEMMA DropTypes ==
    ASSUME TypeInv, NEW s \in Stores, NEW st \in Streams, Drop(s, st)
    PROVE  TypeInv' /\ left'.imports = left.imports
<1>1. procs' = [p \in Procs |-> IF procs[p].src = s THEN Lost(procs[p], st) ELSE procs[p]]
  BY DEF Drop
<1>2. \A p \in Procs : procs'[p] \in Imports /\ Parties(procs'[p])
  BY <1>1, LostType DEF TypeInv, Parties
<1>3. procs' \in [Procs -> Imports]
  BY <1>1, <1>2
<1>4. files' \in [Stores -> SUBSET EventSet] /\ staged' \in [Stores -> SUBSET [id : Nat, ref : RefSet]]
  BY DEF Drop, TypeInv
<1>5. refs' \in [Stores -> SUBSET RefSet] /\ described' \in [Stores -> SUBSET Streams]
  BY DEF Drop, TypeInv
<1>6. late' \in [Stores -> SUBSET EventSet]
  BY DEF Drop, TypeInv
<1>7. left' \in [imports : Nat, faults : Nat, gen : [Streams -> Nat]] /\ left'.imports = left.imports
  <2>1. /\ left \in [imports : Nat, faults : Nat, gen : [Streams -> Nat]] /\ left.faults - 1 \in Nat
        /\ left.gen[st] + 1 \in Nat
    BY DEF TypeInv, Drop
  <2> QED
    BY <2>1 DEF Drop
<1> QED
  BY <1>2, <1>3, <1>4, <1>5, <1>6, <1>7 DEF Drop, TypeInv

LEMMA PruneTypes ==
    ASSUME TypeInv, NEW s \in Stores, Prune(s)
    PROVE  TypeInv'
<1>1. refs' \in [Stores -> SUBSET RefSet] /\ staged' \in [Stores -> SUBSET [id : Nat, ref : RefSet]]
  BY DEF Prune, TypeInv
<1>2. left' \in [imports : Nat, faults : Nat, gen : [Streams -> Nat]]
  BY FaultTypes DEF Prune
<1> QED
  BY <1>1, <1>2 DEF Prune, TypeInv

LEMMA AbortTypes ==
    ASSUME TypeInv, NEW s \in Stores, Abort(s)
    PROVE  TypeInv'
<1>1. PICK j \in Pending(s) :
        /\ staged' = [staged EXCEPT ![s] = {x \in @ : x.id # j.id}]
        /\ copies' = [copies EXCEPT ![s] = {x \in @ : x.id # j.id}]
        /\ journals' = [journals EXCEPT ![s] = @ \ {j}]
  BY DEF Abort
<1>2. staged' \in [Stores -> SUBSET [id : Nat, ref : RefSet]]
  BY <1>1 DEF TypeInv
<1>3. copies' \in [Stores -> SUBSET CopySet]
  BY <1>1 DEF TypeInv
<1>4. /\ journals' \in [Stores -> SUBSET [id : Nat, src : Stores]]
      /\ \A s1 \in Stores : \A j1 \in journals'[s1] : j1.src # s1
  BY <1>1 DEF TypeInv
<1> QED
  BY <1>2, <1>3, <1>4 DEF Abort, TypeInv

LEMMA NextTypes ==
    ASSUME TypeInv, [Next]_vars
    PROVE  TypeInv'
<1>1. CASE UNCHANGED vars
  BY <1>1 DEF vars, TypeInv
<1>2. ASSUME NEW p \in Procs, Step(p) PROVE TypeInv'
  BY <1>2, RunTypes, RecoverTypes, InspectTypes, TakeLockTypes, FetchTypes, InspectAgainTypes,
     CopyStreamTypes, PromoteTypes, AliasCheckpointsTypes, InstallTypes, DescribeTypes,
     WriteManifestTypes, ClearStagingTypes, ClearJournalTypes, KillTypes DEF Step
<1>3. ASSUME NEW s \in Stores, Store(s) PROVE TypeInv'
  BY <1>3, RecordTypes, DropTypes, PruneTypes, AbortTypes DEF Store
<1> QED
  BY <1>1, <1>2, <1>3 DEF Next

-----------------------------------------------------------------------------
(* The inductive invariant                                                   *)
(*                                                                           *)
(* What a store promises (its checkpoints are found, what is staged has a    *)
(* journal) survives because a merge works under the destination's lock and  *)
(* under an id of its own: nobody else drops or prunes there, and whoever    *)
(* clears up clears its own import.  The source is not locked; there a       *)
(* stream can only have grown since it was listed, or it has been dropped.   *)

Copied(c, st) ==
    \A x \in copies[c.dst] : x.id = c.id /\ x.stream = st =>
        \A e \in c.listing : e.stream = st => e \in x.events
Installed(c, st) ==
    /\ Has(c.dst, st)
    /\ st \in c.gone \/ \A e \in c.listing : e.stream = st => e \in files[c.dst]

\* A merge that writes to its destination holds the lock.
Held(p) == procs[p].pc \in Working => lock[procs[p].dst] = p

\* ... and has a journal, as one that is recovered has before.
Journaled(p) ==
    LET c == procs[p] IN
    c.pc \in Working \/ (c.pc # "idle" /\ c.again) => \E j \in journals[c.dst] : j.id = c.id

\* Ids are given out downwards.
Numbered(p) == procs[p].pc # "idle" => procs[p].id > left.imports

\* What was listed is still in the source, until it is copied.
Sourced(p) ==
    LET c == procs[p] IN
    c.pc \in {"inspect", "lock", "fetch", "inspectAgain", "copy"} =>
        \A e \in c.listing : e.stream \in c.gone \/ e \in files[c.src]

\* The copies of an import hold what was listed.
Brought(p) ==
    LET c == procs[p] IN
    /\ c.pc = "copy" => \A st \in StreamsOf(c.listing) \ (c.todo \cup c.gone) : Copied(c, st)
    /\ c.pc = "alias" => \A st \in StreamsOf(c.listing) \ c.gone : Copied(c, st)
    /\ c.pc \in {"install", "describe"} => \A st \in c.todo \ c.gone : Copied(c, st)

\* The streams are installed after the refs their events need.
Placed(p) ==
    LET c == procs[p] IN
    /\ c.pc \in {"install", "describe"} =>
         /\ \A st \in StreamsOf(c.listing) \ c.todo : Installed(c, st)
         /\ \A e \in c.listing : Aliases(e) \subseteq refs[c.dst]
    /\ c.pc = "install" => StreamsOf(c.listing) \ c.todo \subseteq described[c.dst]

\* The staged refs are gone before the journal.
Cleared(p) ==
    LET c == procs[p] IN c.pc = "cleared" => \A x \in staged[c.dst] : x.id # c.id

ImportInv(p) ==
    /\ Held(p) /\ Journaled(p) /\ Numbered(p) /\ Sourced(p)
    /\ Brought(p) /\ Placed(p) /\ Cleared(p)

\* The refs an event is found by, when it did not slip into a copy.
Kept(s) ==
    \A e \in files[s] :
        \/ e \in late[s]
        \/ /\ Ref("byid", e) \in refs[s]
           /\ e.stream \in Linked => Ref("scoped", e) \in refs[s]

Owned(s) == \A x \in staged[s] \cup copies[s] : \E j \in journals[s] : j.id = x.id
Given(s) == \A j \in journals[s] : j.id > left.imports

StoreInv(s) == Kept(s) /\ Owned(s) /\ Given(s)

\* Two merges into a store are two imports.
Apart ==
    \A p, q \in Procs :
        p # q /\ procs[p].pc # "idle" /\ procs[q].pc # "idle" /\ procs[p].dst = procs[q].dst
            => procs[p].id # procs[q].id

IInv ==
    /\ \A p \in Procs : ImportInv(p)
    /\ \A s \in Stores : StoreInv(s)
    /\ Apart

-----------------------------------------------------------------------------
(* What a step leaves alone                                                  *)

\* Files only grow where they are kept.
Grown(s) == files[s] \subseteq files'[s]

\* The step leaves what the import of q relies on.
Undisturbed(q) ==
    LET c == procs[q] IN
    /\ procs'[q] = c
    /\ left'.imports <= left.imports
    /\ c.pc # "idle" => /\ \A j \in journals[c.dst] : j.id = c.id => j \in journals'[c.dst]
                        /\ Grown(c.src)
    /\ c.pc \in Working =>
         /\ lock'[c.dst] = q
         /\ copies'[c.dst] \subseteq copies[c.dst]
         /\ staged'[c.dst] \subseteq staged[c.dst]
         /\ Grown(c.dst)
         /\ refs[c.dst] \subseteq refs'[c.dst]
         /\ described[c.dst] \subseteq described'[c.dst]

LEMMA WorkingPcs ==
    /\ "idle" \notin Working /\ "inspect" \notin Working /\ "lock" \notin Working
    /\ {"fetch", "inspectAgain", "copy", "alias", "install", "describe", "clear", "cleared"} \subseteq Working
  BY DEF Working

LEMMA UndisturbedKeeps ==
    ASSUME TypeInv, TypeInv', NEW q \in Procs, ImportInv(q), Undisturbed(q)
    PROVE  ImportInv(q)'
<1> DEFINE c == procs[q]
<1>0. procs'[q] = c /\ left'.imports \in Nat /\ left.imports \in Nat /\ c.id \in Nat
      /\ left'.imports <= left.imports
  BY DEF Undisturbed, TypeInv, Imports
<1>1. CASE c.pc = "idle"
  BY <1>0, <1>1 DEF ImportInv, Held, Journaled, Numbered, Sourced, Brought, Placed, Cleared, Working
<1>2. CASE c.pc # "idle"
  <2>1. c.src \in Stores /\ c.dst \in Stores
    BY <1>2, ImportTypes DEF At
  <2>3. Held(q)'
    BY <1>0 DEF ImportInv, Held, Undisturbed
  <2>4. Journaled(q)'
    <3> SUFFICES ASSUME c.pc \in Working \/ c.again
                 PROVE  \E j \in journals'[c.dst] : j.id = c.id
      BY <1>0 DEF Journaled
    <3>1. PICK j \in journals[c.dst] : j.id = c.id
      BY <1>2 DEF ImportInv, Journaled
    <3> QED
      BY <1>2, <3>1 DEF Undisturbed
  <2>5. Numbered(q)'
    BY <1>0, <1>2 DEF ImportInv, Numbered
  <2>6. Sourced(q)'
    BY <1>0, <1>2 DEF ImportInv, Sourced, Undisturbed, Grown
  <2>7. Brought(q)'
    <3>1. c.pc \in Working => \A st : Copied(c, st) => Copied(c, st)'
      BY <1>0 DEF Undisturbed, Copied
    <3> QED
      BY <1>0, <3>1, WorkingPcs DEF ImportInv, Brought
  <2>8. Placed(q)'
    <3>1. c.pc \in Working => \A st \in StreamsOf(c.listing) : Installed(c, st) => Installed(c, st)'
      BY <1>0 DEF Undisturbed, Grown, Installed, Has, Of
    <3>2. c.pc \in Working => refs[c.dst] \subseteq refs'[c.dst] /\ described[c.dst] \subseteq described'[c.dst]
      BY DEF Undisturbed
    <3>3. ASSUME c.pc \in {"install", "describe"}
          PROVE  /\ \A st \in StreamsOf(c.listing) \ c.todo : Installed(c, st)'
                 /\ \A e \in c.listing : Aliases(e) \subseteq refs'[c.dst]
                 /\ c.pc = "install" => StreamsOf(c.listing) \ c.todo \subseteq described'[c.dst]
      BY <3>1, <3>2, <3>3, WorkingPcs DEF ImportInv, Placed
    <3> QED
      BY <1>0, <3>3 DEF Placed, Aliases, Ref
  <2>9. Cleared(q)'
    BY <1>0, WorkingPcs DEF ImportInv, Cleared, Undisturbed
  <2> QED
    BY <2>3, <2>4, <2>5, <2>6, <2>7, <2>8, <2>9 DEF ImportInv
<1> QED
  BY <1>1, <1>2

\* The step of p touches its destination alone, where no other merge works, and
\* of the journals there its own.
Within(p) ==
    LET d == procs[p].dst IN
    /\ \A q \in Procs \ {p} : procs'[q] = procs[q]
    /\ left'.imports = left.imports
    /\ \A s \in Stores \ {d} :
          /\ files'[s] = files[s] /\ described'[s] = described[s] /\ refs'[s] = refs[s]
          /\ staged'[s] = staged[s] /\ copies'[s] = copies[s] /\ journals'[s] = journals[s]
          /\ lock'[s] = lock[s] /\ late'[s] = late[s]
    /\ \A j \in journals[d] : j.id # procs[p].id => j \in journals'[d]
    /\ files[d] \subseteq files'[d]
    /\ lock[d] \in {p, None}

LEMMA OthersKeep ==
    ASSUME TypeInv, TypeInv', IInv, NEW p \in Procs, ~At(p, "idle"), Within(p),
           NEW q \in Procs \ {p}
    PROVE  ImportInv(q)'
<1> DEFINE c == procs[q]
           d == procs[p].dst
<1>1. d \in Stores /\ procs'[q] = c
  BY ImportTypes DEF Within
<1>2. left'.imports <= left.imports
  BY DEF Within, TypeInv
<1>3. CASE c.pc = "idle"
  BY <1>1, <1>2, <1>3, UndisturbedKeeps, WorkingPcs DEF IInv, Undisturbed
<1>4. CASE c.pc # "idle"
  <2>1. c.src \in Stores /\ c.dst \in Stores
    BY <1>4, ImportTypes DEF At
  <2>2. \A j \in journals[c.dst] : j.id = c.id => j \in journals'[c.dst]
    <3>1. c.dst = d => c.id # procs[p].id
      BY <1>4 DEF IInv, Apart, At
    <3> QED
      BY <2>1, <3>1 DEF Within
  <2>3. \A s \in Stores : Grown(s)
    BY DEF Within, Grown
  <2>4. c.pc \in Working => /\ lock'[c.dst] = q
                            /\ copies'[c.dst] = copies[c.dst] /\ staged'[c.dst] = staged[c.dst]
                            /\ refs'[c.dst] = refs[c.dst] /\ described'[c.dst] = described[c.dst]
    <3> SUFFICES ASSUME c.pc \in Working
                 PROVE  c.dst # d /\ lock[c.dst] = q
      BY <2>1 DEF Within
    <3>1. lock[c.dst] = q
      BY DEF IInv, ImportInv, Held
    <3> QED
      BY <3>1, Bounds DEF Within
  <2> QED
    BY <1>1, <1>2, <2>1, <2>2, <2>3, <2>4, UndisturbedKeeps DEF IInv, Undisturbed
<1> QED
  BY <1>3, <1>4

\* A process that merges nothing owes nothing.
LEMMA IdleKeeps ==
    ASSUME NEW p \in Procs, procs'[p].pc = "idle"
    PROVE  ImportInv(p)'
  BY DEF ImportInv, Held, Journaled, Numbered, Sourced, Brought, Placed, Cleared, Working

LEMMA KeptFrame ==
    ASSUME NEW s \in Stores, Kept(s), files'[s] = files[s], refs[s] \subseteq refs'[s], late[s] \subseteq late'[s]
    PROVE  Kept(s)'
  BY DEF Kept, Ref

LEMMA ApartFrame ==
    ASSUME Apart,
           \A q \in Procs : procs'[q].pc # "idle" =>
               procs[q].pc # "idle" /\ procs'[q].dst = procs[q].dst /\ procs'[q].id = procs[q].id
    PROVE  Apart'
  BY DEF Apart

LEMMA StepKeeps ==
    ASSUME TypeInv, TypeInv', IInv, NEW p \in Procs, ~At(p, "idle"), Within(p),
           ImportInv(p)', \A s \in Stores : s = procs[p].dst => StoreInv(s)',
           procs'[p].pc # "idle" => procs'[p].dst = procs[p].dst /\ procs'[p].id = procs[p].id
    PROVE  IInv'
<1>1. \A q \in Procs : ImportInv(q)'
  BY OthersKeep
<1>2. ASSUME NEW s \in Stores, s # procs[p].dst PROVE StoreInv(s)'
  <2>1. StoreInv(s) /\ left'.imports = left.imports
    BY DEF IInv, Within
  <2>2. Kept(s)'
    BY <1>2, <2>1, KeptFrame DEF StoreInv, Within
  <2> QED
    BY <1>2, <2>1, <2>2 DEF StoreInv, Within, Owned, Given
<1>3. Apart'
  <2>1. \A q \in Procs : procs'[q].pc # "idle" =>
               procs[q].pc # "idle" /\ procs'[q].dst = procs[q].dst /\ procs'[q].id = procs[q].id
    BY DEF Within, At
  <2> QED
    BY <2>1, ApartFrame DEF IInv
<1> QED
  BY <1>1, <1>2, <1>3 DEF IInv

-----------------------------------------------------------------------------
(* The steps of an import                                                    *)

\* A listing is what the store has.
LEMMA RunKeeps ==
    ASSUME TypeInv, TypeInv', IInv, NEW p \in Procs, Run(p)
    PROVE  IInv'
<1>1. PICK src, dst \in Stores :
        /\ At(p, "idle") /\ src # dst /\ left.imports > 0
        /\ left' = [left EXCEPT !.imports = @ - 1]
        /\ Become(p, [Idle EXCEPT !.pc = "inspect", !.src = src, !.dst = dst,
                      !.id = left.imports, !.listing = files[src]])
        /\ UNCHANGED unchangedByPlan
  BY DEF Run
<1>2. /\ left.imports \in Nat /\ left'.imports = left.imports - 1
      /\ left'.imports < left.imports /\ left'.imports <= left.imports
  BY <1>1 DEF TypeInv
<1>3. /\ procs'[p].pc = "inspect" /\ procs'[p].src = src /\ procs'[p].dst = dst
      /\ procs'[p].id = left.imports /\ procs'[p].listing = files[src]
      /\ procs'[p].again = FALSE
  BY <1>1 DEF Become, Idle, TypeInv
<1>4. \A q \in Procs \ {p} : procs'[q] = procs[q]
  BY <1>1 DEF Become, TypeInv
<1>5. ImportInv(p)'
  <2>2. Sourced(p)'
    BY <1>1, <1>3 DEF Sourced, unchangedByPlan
  <2> QED
    BY <1>2, <1>3, <2>2 DEF ImportInv, Held, Journaled, Numbered, Brought, Placed, Cleared, Working
<1>6. ASSUME NEW q \in Procs \ {p} PROVE ImportInv(q)'
  <2>1. \A s \in Stores : Grown(s)
    BY <1>1 DEF Grown, unchangedByPlan
  <2>2. procs[q].pc # "idle" => procs[q].src \in Stores /\ procs[q].dst \in Stores
    BY ImportTypes DEF At
  <2>3. Undisturbed(q)
    BY <1>1, <1>2, <1>4, <2>1, <2>2, WorkingPcs DEF IInv, ImportInv, Held, Undisturbed, unchangedByPlan
  <2> QED
    BY <2>3, UndisturbedKeeps DEF IInv
<1>7. ASSUME NEW s \in Stores PROVE StoreInv(s)'
  <2>1. Kept(s)'
    BY <1>1, KeptFrame DEF IInv, StoreInv, unchangedByPlan
  <2>2. Given(s)'
    <3>1. \A j \in journals[s] : j.id \in Nat /\ j.id > left.imports
      BY DEF IInv, StoreInv, Given, TypeInv
    <3> QED
      BY <1>1, <1>2, <3>1 DEF Given, unchangedByPlan
  <2> QED
    BY <1>1, <2>1, <2>2 DEF IInv, StoreInv, Owned, unchangedByPlan
<1>8. Apart'
  <2>1. \A q \in Procs \ {p} : procs[q].pc # "idle" => procs[q].id \in Nat /\ procs[q].id > left.imports
    BY DEF IInv, ImportInv, Numbered, TypeInv, Imports
  <2>2. \A q \in Procs \ {p} : procs'[q].pc # "idle" => procs'[q].id # procs'[p].id
    BY <1>2, <1>3, <1>4, <2>1
  <2> QED
    BY <1>4, <2>2 DEF IInv, Apart
<1> QED
  BY <1>5, <1>6, <1>7, <1>8 DEF IInv

\* Nobody merges into the store when its pending import is taken up again.
LEMMA RecoverKeeps ==
    ASSUME TypeInv, TypeInv', IInv, NEW p \in Procs, Recover(p)
    PROVE  IInv'
<1>1. PICK s \in Stores : \E j \in Pending(s) :
        /\ At(p, "idle")
        /\ Become(p, [Idle EXCEPT !.pc = "inspect", !.src = j.src, !.dst = s, !.id = j.id,
                      !.listing = files[j.src], !.again = TRUE])
        /\ UNCHANGED <<left, unchangedByPlan>>
  BY DEF Recover
<1>2. PICK j \in Pending(s) :
        /\ Become(p, [Idle EXCEPT !.pc = "inspect", !.src = j.src, !.dst = s, !.id = j.id,
                      !.listing = files[j.src], !.again = TRUE])
        /\ UNCHANGED <<left, unchangedByPlan>>
  BY <1>1
<1>3. /\ j \in journals[s] /\ j.src \in Stores /\ j.id \in Nat /\ j.id > left.imports
      /\ \A q \in Procs : procs[q].dst # s
  BY DEF Pending, TypeInv, IInv, StoreInv, Given
<1>4. /\ procs'[p].pc = "inspect" /\ procs'[p].src = j.src /\ procs'[p].dst = s
      /\ procs'[p].id = j.id /\ procs'[p].listing = files[j.src]
  BY <1>2 DEF Become, Idle, TypeInv
<1>5. \A q \in Procs \ {p} : procs'[q] = procs[q]
  BY <1>2 DEF Become, TypeInv
<1>6. ImportInv(p)'
  <2>2. Sourced(p)'
    BY <1>2, <1>4 DEF Sourced, unchangedByPlan
  <2>3. Journaled(p)' /\ Numbered(p)'
    BY <1>2, <1>3, <1>4 DEF Journaled, Numbered, unchangedByPlan
  <2> QED
    BY <1>4, <2>2, <2>3 DEF ImportInv, Held, Brought, Placed, Cleared, Working
<1>7. ASSUME NEW q \in Procs \ {p} PROVE ImportInv(q)'
  <2>1. \A s1 \in Stores : Grown(s1)
    BY <1>2 DEF Grown, unchangedByPlan
  <2>2. procs[q].pc # "idle" => procs[q].src \in Stores /\ procs[q].dst \in Stores
    BY ImportTypes DEF At
  <2>3. Undisturbed(q)
    BY <1>2, <1>5, <2>1, <2>2, WorkingPcs
       DEF IInv, ImportInv, Held, Undisturbed, unchangedByPlan, TypeInv
  <2> QED
    BY <2>3, UndisturbedKeeps DEF IInv
<1>8. ASSUME NEW s1 \in Stores PROVE StoreInv(s1)'
  <2>1. Kept(s1)'
    BY <1>2, KeptFrame DEF IInv, StoreInv, unchangedByPlan
  <2> QED
    BY <1>2, <2>1 DEF IInv, StoreInv, Owned, Given, unchangedByPlan
<1>9. Apart'
  BY <1>3, <1>4, <1>5 DEF IInv, Apart
<1> QED
  BY <1>6, <1>7, <1>8, <1>9 DEF IInv

\* What has no effect but on the import itself.
LEMMA AloneKeeps ==
    ASSUME TypeInv, TypeInv', IInv, NEW p \in Procs, UNCHANGED <<left, unchangedByPlan>>,
           \A q \in Procs \ {p} : procs'[q] = procs[q],
           ImportInv(p)',
           procs'[p].pc # "idle" => /\ procs[p].pc # "idle" /\ procs'[p].dst = procs[p].dst
                                    /\ procs'[p].id = procs[p].id
    PROVE  IInv'
<1>1. ASSUME NEW q \in Procs \ {p} PROVE ImportInv(q)'
  <2>1. \A s \in Stores : Grown(s)
    BY DEF Grown, unchangedByPlan
  <2>2. procs[q].pc # "idle" => procs[q].src \in Stores /\ procs[q].dst \in Stores
    BY ImportTypes DEF At
  <2>3. Undisturbed(q)
    BY <2>1, <2>2, WorkingPcs
       DEF IInv, ImportInv, Held, Undisturbed, unchangedByPlan, TypeInv
  <2> QED
    BY <2>3, UndisturbedKeeps DEF IInv
<1>2. ASSUME NEW s \in Stores PROVE StoreInv(s)'
  <2>1. Kept(s)'
    BY KeptFrame DEF IInv, StoreInv, unchangedByPlan
  <2> QED
    BY <2>1 DEF IInv, StoreInv, Owned, Given, unchangedByPlan
<1>3. Apart'
  BY ApartFrame DEF IInv
<1> QED
  BY <1>1, <1>2, <1>3 DEF IInv

LEMMA InspectKeeps ==
    ASSUME TypeInv, TypeInv', IInv, NEW p \in Procs, Inspect(p)
    PROVE  IInv'
<1>1. \A q \in Procs \ {p} : procs'[q] = procs[q]
  BY DEF Inspect, Goto, Become, TypeInv
<1>2. CASE Goto(p, "lock")
  <2>1. procs'[p] = [procs[p] EXCEPT !.pc = "lock"]
    BY <1>2 DEF Goto, Become, TypeInv
  <2>2. /\ procs'[p].pc = "lock" /\ procs'[p].src = procs[p].src /\ procs'[p].dst = procs[p].dst
        /\ procs'[p].id = procs[p].id /\ procs'[p].listing = procs[p].listing
        /\ procs'[p].gone = procs[p].gone /\ procs'[p].again = procs[p].again
    BY <2>1, ImportTypes DEF Imports
  <2>3. procs[p].pc = "inspect" /\ UNCHANGED <<left, unchangedByPlan>>
    BY DEF Inspect, At
  <2>4. ImportInv(p)'
    BY <2>2, <2>3 DEF IInv, ImportInv, Held, Journaled, Numbered, Sourced, Brought, Placed, Cleared,
                      Working, Has, unchangedByPlan
  <2> QED
    BY <1>1, <2>2, <2>3, <2>4, AloneKeeps
<1>3. CASE Become(p, Idle)
  <2>1. procs'[p].pc = "idle"
    BY <1>3 DEF Become, TypeInv, Idle
  <2> QED
    BY <1>1, <2>1, IdleKeeps, AloneKeeps DEF Inspect
<1> QED
  BY <1>2, <1>3 DEF Inspect

\* No other process has taken the lock, and the journal is the import's own.
LEMMA TakeLockKeeps ==
    ASSUME TypeInv, TypeInv', IInv, NEW p \in Procs, TakeLock(p)
    PROVE  IInv'
<1> DEFINE c == procs[p]
<1>1. /\ c \in Imports /\ c.src \in Stores /\ c.dst \in Stores /\ c.pc = "lock" /\ lock[c.dst] = None
      /\ c.id > left.imports
  BY ImportTypes DEF TakeLock, At, IInv, ImportInv, Numbered
<1>2. procs'[p] = [c EXCEPT !.pc = "fetch"] /\ \A q \in Procs \ {p} : procs'[q] = procs[q]
  BY DEF TakeLock, Goto, Become, TypeInv
<1>3. /\ procs'[p].pc = "fetch" /\ procs'[p].src = c.src /\ procs'[p].dst = c.dst
      /\ procs'[p].id = c.id /\ procs'[p].listing = c.listing
      /\ procs'[p].gone = c.gone /\ procs'[p].again = c.again
  BY <1>1, <1>2 DEF Imports
<1>4. /\ \A s \in Stores \ {c.dst} : lock'[s] = lock[s] /\ journals'[s] = journals[s]
      /\ lock'[c.dst] = p /\ journals[c.dst] \subseteq journals'[c.dst]
      /\ \A j \in journals'[c.dst] : j \in journals[c.dst] \/ j.id = c.id
      /\ \E j \in journals'[c.dst] : j.id = c.id
  <2>1. CASE c.again
    <3>1. \E j \in journals[c.dst] : j.id = c.id
      BY <1>1, <2>1 DEF IInv, ImportInv, Journaled
    <3> QED
      BY <1>1, <2>1, <3>1 DEF TakeLock, TypeInv
  <2>2. CASE ~c.again
    <3>1. journals'[c.dst] = journals[c.dst] \cup {[id |-> c.id, src |-> c.src]}
      BY <1>1, <2>2 DEF TakeLock, TypeInv
    <3>2. [id |-> c.id, src |-> c.src].id = c.id
      OBVIOUS
    <3> QED
      BY <1>1, <3>1, <3>2 DEF TakeLock, TypeInv
  <2> QED
    BY <2>1, <2>2
<1>5. Within(p)
  BY <1>1, <1>2, <1>4 DEF Within, TakeLock, unchangedByStaging, TypeInv
<1>6. ImportInv(p)'
  <2>1. Held(p)' /\ Journaled(p)' /\ Numbered(p)'
    BY <1>1, <1>3, <1>4 DEF Held, Journaled, Numbered, TakeLock, unchangedByStaging
  <2>2. Sourced(p)'
    BY <1>1, <1>3 DEF IInv, ImportInv, Sourced, Has, TakeLock, unchangedByStaging
  <2> QED
    BY <1>3, <2>1, <2>2 DEF ImportInv, Brought, Placed, Cleared
<1>7. StoreInv(c.dst) /\ UNCHANGED <<files, refs, late, left, staged, copies>>
  BY <1>1 DEF IInv, TakeLock, unchangedByStaging
<1>8. ASSUME NEW s \in Stores, s = c.dst PROVE StoreInv(s)'
  <2>1. Kept(s)'
    BY <1>7, <1>8, KeptFrame DEF StoreInv
  <2>2. Owned(s)' /\ Given(s)'
    BY <1>1, <1>4, <1>7, <1>8 DEF StoreInv, Owned, Given
  <2> QED
    BY <2>1, <2>2 DEF StoreInv
<1> QED
  BY <1>1, <1>3, <1>5, <1>6, <1>8, StepKeeps DEF At

LEMMA FetchKeeps ==
    ASSUME TypeInv, TypeInv', IInv, NEW p \in Procs, Fetch(p)
    PROVE  IInv'
<1> DEFINE c == procs[p]
<1>1. /\ c \in Imports /\ c.src \in Stores /\ c.dst \in Stores /\ c.pc = "fetch" /\ lock[c.dst] = p
  BY ImportTypes DEF Fetch, At, IInv, ImportInv, Held, Working
<1>2. procs'[p] = [c EXCEPT !.pc = "inspectAgain"] /\ \A q \in Procs \ {p} : procs'[q] = procs[q]
  BY DEF Fetch, Goto, Become, TypeInv
<1>3. /\ procs'[p].pc = "inspectAgain" /\ procs'[p].src = c.src /\ procs'[p].dst = c.dst
      /\ procs'[p].id = c.id /\ procs'[p].listing = c.listing
      /\ procs'[p].gone = c.gone /\ procs'[p].again = c.again
  BY <1>1, <1>2 DEF Imports
<1>4. /\ \A s \in Stores \ {c.dst} : staged'[s] = staged[s]
      /\ \A x \in staged'[c.dst] : x \in staged[c.dst] \/ x.id = c.id
      /\ UNCHANGED <<files, described, refs, copies, journals, lock, late, left>>
  BY <1>1 DEF Fetch, TypeInv, unchangedByStaging
<1>5. Within(p)
  BY <1>1, <1>2, <1>4 DEF Within
<1>6. ImportInv(p)'
  <2>1. Held(p)' /\ Journaled(p)' /\ Numbered(p)' /\ Sourced(p)'
    BY <1>1, <1>3, <1>4 DEF IInv, ImportInv, Held, Journaled, Numbered, Sourced, Has, Working
  <2> QED
    BY <1>3, <2>1 DEF ImportInv, Brought, Placed, Cleared
<1>7. ASSUME NEW s \in Stores, s = c.dst PROVE StoreInv(s)'
  <2>1. StoreInv(s)
    BY DEF IInv
  <2>2. Kept(s)'
    BY <1>4, <2>1, KeptFrame DEF StoreInv
  <2>3. Owned(s)'
    <3>1. \E j \in journals[s] : j.id = c.id
      BY <1>1, <1>7 DEF IInv, ImportInv, Journaled, Working
    <3> QED
      BY <1>4, <1>7, <2>1, <3>1 DEF StoreInv, Owned
  <2>4. Given(s)'
    BY <1>4, <2>1 DEF StoreInv, Given
  <2> QED
    BY <2>2, <2>3, <2>4 DEF StoreInv
<1> QED
  BY <1>1, <1>3, <1>5, <1>6, <1>7, StepKeeps DEF At

\* An import that stops gives its lock back and leaves the rest to recovery.
LEMMA StopKeeps ==
    ASSUME TypeInv, TypeInv', IInv, NEW p \in Procs, ~At(p, "idle"), lock[procs[p].dst] = p, Stop(p),
           UNCHANGED <<files, described, refs, staged, copies, journals, late, left>>
    PROVE  IInv'
<1> DEFINE c == procs[p]
<1>1. c.dst \in Stores
  BY ImportTypes
<1>2. procs'[p].pc = "idle" /\ \A q \in Procs \ {p} : procs'[q] = procs[q]
  BY DEF Stop, Become, Idle, TypeInv
<1>3. \A s \in Stores \ {c.dst} : lock'[s] = lock[s]
  BY DEF Stop, TypeInv
<1>4. Within(p)
  BY <1>1, <1>2, <1>3 DEF Within
<1>5. ASSUME NEW s \in Stores PROVE StoreInv(s)'
  <2>1. Kept(s)'
    BY KeptFrame DEF IInv, StoreInv
  <2> QED
    BY <2>1 DEF IInv, StoreInv, Owned, Given
<1> QED
  BY <1>2, <1>4, <1>5, IdleKeeps, StepKeeps

LEMMA InspectAgainKeeps ==
    ASSUME TypeInv, TypeInv', IInv, NEW p \in Procs, InspectAgain(p)
    PROVE  IInv'
<1> DEFINE c == procs[p]
<1>1. /\ c \in Imports /\ c.src \in Stores /\ c.dst \in Stores /\ c.pc = "inspectAgain" /\ lock[c.dst] = p
      /\ UNCHANGED <<files, described, refs, staged, copies, journals, late, left>>
  BY ImportTypes DEF InspectAgain, At, IInv, ImportInv, Held, Working, unchangedByStaging
<1>2. CASE Become(p, [c EXCEPT !.pc = "copy", !.todo = StreamsOf(c.listing)]) /\ UNCHANGED lock
  <2>1. /\ procs'[p] = [c EXCEPT !.pc = "copy", !.todo = StreamsOf(c.listing)]
        /\ \A q \in Procs \ {p} : procs'[q] = procs[q]
    BY <1>2 DEF Become, TypeInv
  <2>2. /\ procs'[p].pc = "copy" /\ procs'[p].src = c.src /\ procs'[p].dst = c.dst
        /\ procs'[p].id = c.id /\ procs'[p].listing = c.listing
        /\ procs'[p].gone = c.gone /\ procs'[p].again = c.again /\ procs'[p].todo = StreamsOf(c.listing)
    BY <1>1, <2>1 DEF Imports
  <2>3. Within(p)
    BY <1>1, <1>2, <2>1 DEF Within
  <2>4. ImportInv(p)'
    <3>1. Held(p)' /\ Journaled(p)' /\ Numbered(p)' /\ Sourced(p)'
      BY <1>1, <1>2, <2>2 DEF IInv, ImportInv, Held, Journaled, Numbered, Sourced, Has, Working
    <3> QED
      BY <2>2, <3>1 DEF ImportInv, Brought, Placed, Cleared
  <2>5. ASSUME NEW s \in Stores PROVE StoreInv(s)'
    <3>1. Kept(s)'
      BY <1>1, KeptFrame DEF IInv, StoreInv
    <3> QED
      BY <1>1, <3>1 DEF IInv, StoreInv, Owned, Given
  <2> QED
    BY <1>1, <2>2, <2>3, <2>4, <2>5, StepKeeps DEF At
<1>3. CASE Stop(p)
  BY <1>1, <1>3, StopKeeps DEF At
<1> QED
  BY <1>2, <1>3 DEF InspectAgain

\* What is copied is at least what was listed, unless it was dropped meanwhile.
LEMMA CopyStreamKeeps ==
    ASSUME TypeInv, TypeInv', IInv, NEW p \in Procs, CopyStream(p)
    PROVE  IInv'
<1> DEFINE c == procs[p]
<1>1. /\ c \in Imports /\ c.src \in Stores /\ c.dst \in Stores /\ c.pc = "copy" /\ lock[c.dst] = p
      /\ UNCHANGED <<files, described, refs, staged, journals, late, left>>
      /\ c.todo \subseteq StreamsOf(c.listing)
  BY ImportTypes DEF CopyStream, At, IInv, ImportInv, Held, Working, unchangedByStaging
<1>2. PICK st \in c.todo :
          IF Has(c.src, st)
          THEN /\ copies' = [copies EXCEPT ![c.dst] = {x \in @ : x.id # c.id \/ x.stream # st}
                                \cup {[id |-> c.id, stream |-> st, events |-> Of(files[c.src], st)]}]
               /\ Become(p, [c EXCEPT !.todo = @ \ {st}])
               /\ UNCHANGED lock
          ELSE Stop(p) /\ UNCHANGED copies
  BY DEF CopyStream
<1>3. CASE Has(c.src, st)
  <2> DEFINE new == [id |-> c.id, stream |-> st, events |-> Of(files[c.src], st)]
  <2>1. /\ procs'[p] = [c EXCEPT !.todo = @ \ {st}] /\ UNCHANGED lock
        /\ \A q \in Procs \ {p} : procs'[q] = procs[q]
    BY <1>2, <1>3 DEF Become, TypeInv
  <2>2. /\ procs'[p].pc = "copy" /\ procs'[p].src = c.src /\ procs'[p].dst = c.dst
        /\ procs'[p].id = c.id /\ procs'[p].listing = c.listing
        /\ procs'[p].gone = c.gone /\ procs'[p].again = c.again /\ procs'[p].todo = c.todo \ {st}
    BY <1>1, <2>1 DEF Imports
  <2>3. /\ copies'[c.dst] = {x \in copies[c.dst] : x.id # c.id \/ x.stream # st} \cup {new}
        /\ \A s \in Stores \ {c.dst} : copies'[s] = copies[s]
    BY <1>1, <1>2, <1>3 DEF TypeInv
  <2>4. new.id = c.id /\ new.stream = st /\ new.events = {e \in files[c.src] : e.stream = st}
    BY DEF Of
  <2> HIDE DEF new
  <2>5. Within(p)
    BY <1>1, <2>1, <2>3 DEF Within
  <2>6. Held(p)' /\ Journaled(p)' /\ Numbered(p)' /\ Sourced(p)'
    BY <1>1, <2>1, <2>2 DEF IInv, ImportInv, Held, Journaled, Numbered, Sourced, Has, Working
  <2>7. Brought(p)'
    <3> SUFFICES ASSUME NEW st1 \in StreamsOf(c.listing) \ ((c.todo \ {st}) \cup c.gone),
                        NEW x \in copies'[c.dst], x.id = c.id, x.stream = st1,
                        NEW e \in c.listing, e.stream = st1
                 PROVE  e \in x.events
      BY <2>2 DEF Brought, Copied
    <3>1. CASE st1 = st
      <4>1. x = new
        BY <2>3, <3>1
      <4>2. e \in files[c.src]
        BY <1>1, <3>1 DEF IInv, ImportInv, Sourced
      <4> QED
        BY <2>4, <3>1, <4>1, <4>2
    <3>2. CASE st1 # st
      <4>1. x \in copies[c.dst]
        BY <2>3, <2>4, <3>2
      <4> QED
        BY <1>1, <3>2, <4>1 DEF IInv, ImportInv, Brought, Copied
    <3> QED
      BY <3>1, <3>2
  <2>8. ImportInv(p)'
    BY <2>2, <2>6, <2>7 DEF ImportInv, Placed, Cleared
  <2>9. ASSUME NEW s \in Stores, s = c.dst PROVE StoreInv(s)'
    <3>1. StoreInv(s)
      BY DEF IInv
    <3>2. Kept(s)'
      BY <1>1, <3>1, KeptFrame DEF StoreInv
    <3>3. Owned(s)'
      <4>1. \E j \in journals[s] : j.id = c.id
        BY <1>1, <2>9 DEF IInv, ImportInv, Journaled, Working
      <4> QED
        BY <1>1, <2>3, <2>4, <2>9, <3>1, <4>1 DEF StoreInv, Owned
    <3> QED
      BY <1>1, <3>1, <3>2, <3>3 DEF StoreInv, Given
  <2> QED
    BY <1>1, <2>2, <2>5, <2>8, <2>9, StepKeeps DEF At
<1>4. CASE ~Has(c.src, st)
  BY <1>1, <1>2, <1>4, StopKeeps DEF At
<1> QED
  BY <1>3, <1>4

\* Refs that are added disturb nobody, and what goes on with the import is its own.
LEMMA AddKeeps ==
    ASSUME TypeInv, TypeInv', IInv, NEW p \in Procs, procs[p].pc \in {"copy", "alias"},
           NEW new, NEW next \in Imports, Add(p, new, next), UNCHANGED unchangedByPromotion,
           next.dst = procs[p].dst, next.id = procs[p].id,
           Become(p, next) /\ new \subseteq refs'[procs[p].dst] /\ UNCHANGED lock => ImportInv(p)'
    PROVE  IInv'
<1> DEFINE c == procs[p]
<1>1. /\ c.dst \in Stores /\ lock[c.dst] = p /\ ~At(p, "idle") /\ c.pc # "idle"
      /\ UNCHANGED <<files, described, staged, copies, journals, late, left>>
  BY ImportTypes DEF At, IInv, ImportInv, Held, Working, unchangedByPromotion
<1>2. /\ \A s \in Stores : (s # c.dst => refs'[s] = refs[s] /\ lock'[s] = lock[s]) /\ refs[s] \subseteq refs'[s]
      /\ \A q \in Procs \ {p} : procs'[q] = procs[q]
  <2>1. /\ refs \in [Stores -> SUBSET RefSet] /\ DOMAIN lock = Stores /\ DOMAIN procs = Procs
    BY DEF TypeInv
  <2>2. CASE refs' = [refs EXCEPT ![c.dst] = @ \cup new] /\ Become(p, next) /\ UNCHANGED lock
    BY <1>1, <2>1, <2>2 DEF Become
  <2>3. ASSUME NEW some, refs' = [refs EXCEPT ![c.dst] = @ \cup some], Stop(p)
        PROVE  /\ \A s \in Stores : (s # c.dst => refs'[s] = refs[s] /\ lock'[s] = lock[s]) /\ refs[s] \subseteq refs'[s]
               /\ \A q \in Procs \ {p} : procs'[q] = procs[q]
    BY <1>1, <2>1, <2>3 DEF Stop, Become
  <2> QED
    BY <2>2, <2>3 DEF Add
<1>3. \/ Become(p, next) /\ new \subseteq refs'[c.dst] /\ UNCHANGED lock
      \/ Stop(p)
  BY <1>1 DEF Add, TypeInv
<1>4. Within(p)
  BY <1>1, <1>2 DEF Within
<1>5. ImportInv(p)' /\ (procs'[p].pc # "idle" => procs'[p].dst = c.dst /\ procs'[p].id = c.id)
  <2>1. CASE Stop(p)
    <3>1. procs'[p].pc = "idle"
      BY <2>1 DEF Stop, Become, Idle, TypeInv
    <3> QED
      BY <3>1, IdleKeeps
  <2>2. CASE Become(p, next) /\ new \subseteq refs'[c.dst] /\ UNCHANGED lock
    BY <2>2 DEF Become, TypeInv
  <2> QED
    BY <1>3, <2>1, <2>2
<1>6. ASSUME NEW s \in Stores PROVE StoreInv(s)'
  <2>1. Kept(s)'
    BY <1>1, <1>2, KeptFrame DEF IInv, StoreInv
  <2> QED
    BY <1>1, <2>1 DEF IInv, StoreInv, Owned, Given
<1> QED
  BY <1>1, <1>4, <1>5, <1>6, StepKeeps

LEMMA PromoteKeeps ==
    ASSUME TypeInv, TypeInv', IInv, NEW p \in Procs, Promote(p)
    PROVE  IInv'
<1> DEFINE c == procs[p]
           d == [c EXCEPT !.pc = "alias"]
           new == Under(Fetched(c), c.src)
<1>1. /\ c \in Imports /\ c.dst \in Stores /\ c.pc = "copy" /\ c.todo = {} /\ lock[c.dst] = p
      /\ Add(p, new, d) /\ UNCHANGED unchangedByPromotion
  BY ImportTypes DEF Promote, At, IInv, ImportInv, Held, Working
<1>2. /\ d.pc = "alias" /\ d.dst = c.dst /\ d.id = c.id /\ d.listing = c.listing
      /\ d.gone = c.gone /\ d.again = c.again /\ d \in Imports
  BY <1>1 DEF Imports, Pcs, Working
<1> HIDE DEF new, d
<1>3. ASSUME Become(p, d), UNCHANGED lock PROVE ImportInv(p)'
  <2>1. procs'[p] = d
    BY <1>3 DEF Become, TypeInv
  <2>2. UNCHANGED <<copies, journals, left>>
    BY <1>1 DEF unchangedByPromotion
  <2> QED
    BY <1>1, <1>2, <1>3, <2>1, <2>2
       DEF IInv, ImportInv, Held, Journaled, Numbered, Sourced, Brought, Placed, Cleared, Copied, Working
<1> QED
  BY <1>1, <1>2, <1>3, AddKeeps

\* All listed events have their aliases, or the import stops.
LEMMA AliasCheckpointsKeeps ==
    ASSUME TypeInv, TypeInv', IInv, NEW p \in Procs, AliasCheckpoints(p)
    PROVE  IInv'
<1> DEFINE c == procs[p]
           d == [c EXCEPT !.pc = "install", !.todo = StreamsOf(c.listing)]
           new == UNION {Aliases(e) : e \in c.listing}
<1>1. /\ c \in Imports /\ c.dst \in Stores /\ c.pc = "alias" /\ lock[c.dst] = p
      /\ StreamsOf(c.listing) \subseteq Streams
      /\ Add(p, new, d) /\ UNCHANGED unchangedByPromotion
  BY ImportTypes DEF AliasCheckpoints, At, IInv, ImportInv, Held, Working
<1>2. /\ d.pc = "install" /\ d.dst = c.dst /\ d.id = c.id /\ d.listing = c.listing
      /\ d.gone = c.gone /\ d.again = c.again /\ d.todo = StreamsOf(c.listing) /\ d \in Imports
  BY <1>1 DEF Imports, Pcs, Working
<1>3. \A e \in c.listing : Aliases(e) \subseteq new
  OBVIOUS
<1> HIDE DEF new, d
<1>4. ASSUME Become(p, d), UNCHANGED lock, new \subseteq refs'[c.dst] PROVE ImportInv(p)'
  <2>1. procs'[p] = d
    BY <1>4 DEF Become, TypeInv
  <2>2. UNCHANGED <<copies, journals, left>>
    BY <1>1 DEF unchangedByPromotion
  <2>3. Held(p)' /\ Journaled(p)' /\ Numbered(p)' /\ Sourced(p)' /\ Cleared(p)'
    BY <1>1, <1>2, <1>4, <2>1, <2>2 DEF IInv, ImportInv, Held, Journaled, Numbered, Sourced, Cleared, Working
  <2>4. Brought(p)'
    BY <1>1, <1>2, <2>1, <2>2 DEF IInv, ImportInv, Brought, Copied
  <2>5. \A e \in c.listing : Aliases(e) \subseteq refs'[c.dst]
    BY <1>3, <1>4
  <2>6. Placed(p)'
    BY <1>2, <2>1, <2>5 DEF Placed, Aliases, Ref
  <2> QED
    BY <2>3, <2>4, <2>6 DEF ImportInv
<1> QED
  BY <1>1, <1>2, <1>4, AddKeeps

\* The refs of what was listed are there, and the rest came late.
LEMMA InstallKeeps ==
    ASSUME TypeInv, TypeInv', IInv, NEW p \in Procs, Install(p)
    PROVE  IInv'
<1> DEFINE c == procs[p]
<1>1. /\ c \in Imports /\ c.dst \in Stores /\ c.pc = "install" /\ lock[c.dst] = p
      /\ UNCHANGED <<described, refs, staged, journals, left>>
      /\ c.todo \subseteq StreamsOf(c.listing) /\ StreamsOf(c.listing) \subseteq Streams
  BY ImportTypes DEF Install, At, IInv, ImportInv, Held, Working
<1>2. ASSUME NEW st \in c.todo, Become(p, [c EXCEPT !.todo = @ \ {st}, !.pc = "describe"])
      PROVE  /\ procs'[p].pc = "describe" /\ procs'[p].dst = c.dst
             /\ procs'[p].id = c.id /\ procs'[p].listing = c.listing
             /\ procs'[p].gone = c.gone /\ procs'[p].again = c.again /\ procs'[p].todo = c.todo \ {st}
             /\ \A q \in Procs \ {p} : procs'[q] = procs[q]
  <2>1. procs'[p] = [c EXCEPT !.todo = @ \ {st}, !.pc = "describe"]
    BY <1>2 DEF Become, TypeInv
  <2>2. \A q \in Procs \ {p} : procs'[q] = procs[q]
    BY <1>2 DEF Become, TypeInv
  <2> QED
    BY <1>1, <2>1, <2>2 DEF Imports
<1>3. ASSUME NEW st \in c.todo, ~Has(c.dst, st), NEW x \in copies[c.dst], x.id = c.id, x.stream = st,
             files' = [files EXCEPT ![c.dst] = @ \cup x.events],
             copies' = [copies EXCEPT ![c.dst] = @ \ {x}],
             late' = [late EXCEPT ![c.dst] = @ \cup (x.events \ c.listing)],
             Become(p, [c EXCEPT !.todo = @ \ {st}, !.pc = "describe"]),
             UNCHANGED lock
      PROVE  IInv'
  <2>0. /\ procs'[p].pc = "describe" /\ procs'[p].dst = c.dst
        /\ procs'[p].id = c.id /\ procs'[p].listing = c.listing
        /\ procs'[p].gone = c.gone /\ procs'[p].again = c.again /\ procs'[p].todo = c.todo \ {st}
        /\ \A q \in Procs \ {p} : procs'[q] = procs[q]
    BY <1>2, <1>3
  <2>1. /\ files'[c.dst] = files[c.dst] \cup x.events
        /\ \A s \in Stores \ {c.dst} : files'[s] = files[s]
    BY <1>1, <1>3 DEF TypeInv
  <2>2. /\ copies'[c.dst] = copies[c.dst] \ {x}
        /\ \A s \in Stores \ {c.dst} : copies'[s] = copies[s]
    BY <1>1, <1>3 DEF TypeInv
  <2>3. /\ late'[c.dst] = late[c.dst] \cup (x.events \ c.listing)
        /\ \A s \in Stores \ {c.dst} : late'[s] = late[s]
    BY <1>1, <1>3 DEF TypeInv
  <2>4. x.events # {} /\ \A e \in x.events : e.stream = st
    BY <1>1, <1>3 DEF TypeInv, CopySet
  <2>5. Within(p)
    BY <1>1, <2>0, <1>3, <2>1, <2>2, <2>3 DEF Within
  <2>6. ImportInv(p)'
    <3>1. Held(p)' /\ Journaled(p)' /\ Numbered(p)' /\ Sourced(p)' /\ Cleared(p)'
      BY <1>1, <2>0, <1>3 DEF IInv, ImportInv, Held, Journaled, Numbered, Sourced, Cleared, Working
    <3>2. Brought(p)'
      <4> SUFFICES ASSUME NEW st1 \in (c.todo \ {st}) \ c.gone, NEW y \in copies'[c.dst],
                          y.id = c.id, y.stream = st1, NEW e \in c.listing, e.stream = st1
                   PROVE  e \in y.events
        BY <2>0, <1>3 DEF Brought, Copied
      <4> QED
        BY <1>1, <2>2 DEF IInv, ImportInv, Brought, Copied
    <3>3. ASSUME NEW st1 \in StreamsOf(c.listing) \ (c.todo \ {st})
          PROVE  /\ \E e \in files'[c.dst] : e.stream = st1
                 /\ st1 \in c.gone \/ \A e \in c.listing : e.stream = st1 => e \in files'[c.dst]
      <4>1. CASE st1 = st
        BY <1>1, <1>3, <2>1, <2>4, <4>1 DEF IInv, ImportInv, Brought, Copied
      <4>2. CASE st1 # st
        BY <1>1, <2>1, <3>3, <4>2, HasEvent DEF IInv, ImportInv, Placed, Installed
      <4> QED
        BY <4>1, <4>2
    <3>4. \A e \in c.listing : Aliases(e) \subseteq refs[c.dst]
      BY <1>1 DEF IInv, ImportInv, Placed
    <3>5. Placed(p)'
      BY <1>1, <2>0, <1>3, <3>3, <3>4 DEF Placed, Installed, Has, Of, Aliases, Ref
    <3> QED
      BY <3>1, <3>2, <3>5 DEF ImportInv
  <2>7. ASSUME NEW s \in Stores, s = c.dst PROVE StoreInv(s)'
    <3>1. StoreInv(s)
      BY DEF IInv
    <3>2. ASSUME NEW e \in files'[s]
          PROVE  \/ e \in late'[s]
                 \/ /\ Ref("byid", e) \in refs[s]
                    /\ e.stream \in Linked => Ref("scoped", e) \in refs[s]
      <4>1. CASE e \in files[s]
        BY <2>3, <2>7, <3>1, <4>1 DEF StoreInv, Kept
      <4>2. CASE e \in x.events \cap c.listing
        <5>1. Aliases(e) \subseteq refs[c.dst]
          BY <1>1, <4>2 DEF IInv, ImportInv, Placed
        <5> QED
          BY <2>7, <5>1 DEF Aliases
      <4>3. CASE e \in x.events \ c.listing
        BY <2>3, <2>7, <4>3
      <4> QED
        BY <2>1, <2>7, <3>2, <4>1, <4>2, <4>3
    <3>3. Kept(s)'
      BY <1>1, <3>2 DEF Kept, Ref
    <3>4. Owned(s)' /\ Given(s)'
      BY <1>1, <2>2, <2>7, <3>1 DEF StoreInv, Owned, Given
    <3> QED
      BY <3>3, <3>4 DEF StoreInv
  <2> QED
    BY <1>1, <2>0, <1>3, <2>5, <2>6, <2>7, StepKeeps DEF At
<1>4. ASSUME NEW st \in c.todo, Duplicate(c.dst, c.listing, st),
             Become(p, [c EXCEPT !.todo = @ \ {st}, !.pc = "describe"]),
             UNCHANGED <<files, copies, late, lock>>
      PROVE  IInv'
  <2>0. /\ procs'[p].pc = "describe" /\ procs'[p].dst = c.dst
        /\ procs'[p].id = c.id /\ procs'[p].listing = c.listing
        /\ procs'[p].gone = c.gone /\ procs'[p].again = c.again /\ procs'[p].todo = c.todo \ {st}
        /\ \A q \in Procs \ {p} : procs'[q] = procs[q]
    BY <1>2, <1>4
  <2>1. Within(p)
    BY <1>1, <2>0, <1>4 DEF Within
  <2>2. ImportInv(p)'
    <3>1. Held(p)' /\ Journaled(p)' /\ Numbered(p)' /\ Sourced(p)' /\ Cleared(p)'
      BY <1>1, <2>0, <1>4 DEF IInv, ImportInv, Held, Journaled, Numbered, Sourced, Cleared, Working
    <3>2. Brought(p)'
      BY <1>1, <2>0, <1>4 DEF IInv, ImportInv, Brought, Copied
    <3>3. Installed(c, st)
      BY <1>1, <1>4 DEF Installed, Duplicate, Of
    <3>4. \A st1 \in StreamsOf(c.listing) \ (c.todo \ {st}) : Installed(c, st1)
      BY <1>1, <3>3 DEF IInv, ImportInv, Placed
    <3>5. \A e \in c.listing : Aliases(e) \subseteq refs[c.dst]
      BY <1>1 DEF IInv, ImportInv, Placed
    <3>6. Placed(p)'
      BY <1>1, <2>0, <1>4, <3>4, <3>5 DEF Placed, Installed, Has, Aliases, Ref
    <3> QED
      BY <3>1, <3>2, <3>6 DEF ImportInv
  <2>3. ASSUME NEW s \in Stores PROVE StoreInv(s)'
    <3>1. Kept(s)'
      BY <1>1, <1>4, KeptFrame DEF IInv, StoreInv
    <3> QED
      BY <1>1, <1>4, <3>1 DEF IInv, StoreInv, Owned, Given
  <2> QED
    BY <1>1, <2>0, <1>4, <2>1, <2>2, <2>3, StepKeeps DEF At
<1>5. ASSUME Stop(p), UNCHANGED <<files, copies, late>> PROVE IInv'
  BY <1>1, <1>5, StopKeeps DEF At
<1> QED
  BY <1>3, <1>4, <1>5 DEF Install

LEMMA DescribeKeeps ==
    ASSUME TypeInv, TypeInv', IInv, NEW p \in Procs, Describe(p)
    PROVE  IInv'
<1> DEFINE c == procs[p]
<1>1. /\ c \in Imports /\ c.dst \in Stores /\ c.pc = "describe" /\ lock[c.dst] = p
      /\ UNCHANGED <<files, refs, late, staged, copies, journals, lock, left>>
  BY ImportTypes DEF Describe, At, IInv, ImportInv, Held, Working
<1>2. procs'[p] = [c EXCEPT !.pc = "install"] /\ \A q \in Procs \ {p} : procs'[q] = procs[q]
  BY DEF Describe, Goto, Become, TypeInv
<1>3. /\ procs'[p].pc = "install" /\ procs'[p].dst = c.dst
      /\ procs'[p].id = c.id /\ procs'[p].listing = c.listing /\ procs'[p].todo = c.todo
      /\ procs'[p].gone = c.gone /\ procs'[p].again = c.again
  BY <1>1, <1>2 DEF Imports
<1>4. /\ \A s \in Stores \ {c.dst} : described'[s] = described[s]
      /\ StreamsOf(c.listing) \ c.todo \subseteq described'[c.dst]
  BY <1>1 DEF Describe, TypeInv
<1>5. Within(p)
  BY <1>1, <1>2, <1>4 DEF Within
<1>6. ImportInv(p)'
  <2>1. Held(p)' /\ Journaled(p)' /\ Numbered(p)' /\ Sourced(p)' /\ Cleared(p)' /\ Brought(p)'
    BY <1>1, <1>3 DEF IInv, ImportInv, Held, Journaled, Numbered, Sourced, Cleared, Brought, Copied, Working
  <2>2. /\ \A st \in StreamsOf(c.listing) \ c.todo : Installed(c, st)
        /\ \A e \in c.listing : Aliases(e) \subseteq refs[c.dst]
    BY <1>1 DEF IInv, ImportInv, Placed
  <2>3. Placed(p)'
    BY <1>1, <1>3, <1>4, <2>2 DEF Placed, Installed, Has, Aliases, Ref
  <2> QED
    BY <2>1, <2>3 DEF ImportInv
<1>7. ASSUME NEW s \in Stores PROVE StoreInv(s)'
  <2>1. Kept(s)'
    BY <1>1, KeptFrame DEF IInv, StoreInv
  <2> QED
    BY <1>1, <2>1 DEF IInv, StoreInv, Owned, Given
<1> QED
  BY <1>1, <1>3, <1>5, <1>6, <1>7, StepKeeps DEF At

LEMMA WriteManifestKeeps ==
    ASSUME TypeInv, TypeInv', IInv, NEW p \in Procs, WriteManifest(p)
    PROVE  IInv'
<1> DEFINE c == procs[p]
<1>1. /\ c \in Imports /\ c.dst \in Stores /\ c.pc = "install" /\ lock[c.dst] = p
      /\ UNCHANGED <<files, described, refs, late, staged, copies, journals, lock, left>>
  BY ImportTypes DEF WriteManifest, At, IInv, ImportInv, Held, Working
<1>2. procs'[p] = [c EXCEPT !.pc = "clear"] /\ \A q \in Procs \ {p} : procs'[q] = procs[q]
  BY DEF WriteManifest, Goto, Become, TypeInv
<1>3. /\ procs'[p].pc = "clear" /\ procs'[p].dst = c.dst
      /\ procs'[p].id = c.id /\ procs'[p].again = c.again
  BY <1>1, <1>2 DEF Imports
<1>4. Within(p)
  BY <1>1, <1>2 DEF Within
<1>5. ImportInv(p)'
  BY <1>1, <1>3 DEF IInv, ImportInv, Held, Journaled, Numbered, Sourced, Brought, Placed, Cleared, Working
<1>6. ASSUME NEW s \in Stores PROVE StoreInv(s)'
  <2>1. Kept(s)'
    BY <1>1, KeptFrame DEF IInv, StoreInv
  <2> QED
    BY <1>1, <2>1 DEF IInv, StoreInv, Owned, Given
<1> QED
  BY <1>1, <1>3, <1>4, <1>5, <1>6, StepKeeps DEF At

LEMMA ClearStagingKeeps ==
    ASSUME TypeInv, TypeInv', IInv, NEW p \in Procs, ClearStaging(p)
    PROVE  IInv'
<1> DEFINE c == procs[p]
<1>1. /\ c \in Imports /\ c.dst \in Stores /\ c.pc = "clear" /\ lock[c.dst] = p
      /\ UNCHANGED <<files, described, refs, late, copies, journals, lock, left>>
  BY ImportTypes DEF ClearStaging, At, IInv, ImportInv, Held, Working, unchangedByClear
<1>2. procs'[p] = [c EXCEPT !.pc = "cleared"] /\ \A q \in Procs \ {p} : procs'[q] = procs[q]
  BY DEF ClearStaging, Goto, Become, TypeInv
<1>3. /\ procs'[p].pc = "cleared" /\ procs'[p].dst = c.dst
      /\ procs'[p].id = c.id /\ procs'[p].again = c.again
  BY <1>1, <1>2 DEF Imports
<1>4. /\ \A s \in Stores \ {c.dst} : staged'[s] = staged[s]
      /\ staged'[c.dst] = {x \in staged[c.dst] : x.id # c.id}
  BY <1>1 DEF ClearStaging, TypeInv
<1>5. Within(p)
  BY <1>1, <1>2, <1>4 DEF Within
<1>6. ImportInv(p)'
  BY <1>1, <1>3, <1>4 DEF IInv, ImportInv, Held, Journaled, Numbered, Sourced, Brought, Placed, Cleared, Working
<1>7. ASSUME NEW s \in Stores PROVE StoreInv(s)'
  <2>1. Kept(s)'
    BY <1>1, KeptFrame DEF IInv, StoreInv
  <2> QED
    BY <1>1, <1>4, <2>1 DEF IInv, StoreInv, Owned, Given
<1> QED
  BY <1>1, <1>3, <1>5, <1>6, <1>7, StepKeeps DEF At

LEMMA ClearJournalKeeps ==
    ASSUME TypeInv, TypeInv', IInv, NEW p \in Procs, ClearJournal(p)
    PROVE  IInv'
<1> DEFINE c == procs[p]
<1>1. /\ c \in Imports /\ c.dst \in Stores /\ c.pc = "cleared" /\ lock[c.dst] = p
      /\ UNCHANGED <<files, described, refs, late, staged, left>>
  BY ImportTypes DEF ClearJournal, At, IInv, ImportInv, Held, Working, unchangedByClear
<1>2. procs'[p].pc = "idle" /\ \A q \in Procs \ {p} : procs'[q] = procs[q]
  BY DEF ClearJournal, Stop, Become, TypeInv, Idle
<1>3. /\ \A s \in Stores \ {c.dst} : copies'[s] = copies[s] /\ journals'[s] = journals[s] /\ lock'[s] = lock[s]
      /\ copies'[c.dst] = {x \in copies[c.dst] : x.id # c.id}
      /\ journals'[c.dst] = {j \in journals[c.dst] : j.id # c.id}
  BY <1>1 DEF ClearJournal, Stop, TypeInv
<1>4. Within(p)
  BY <1>1, <1>2, <1>3 DEF Within
<1>5. ASSUME NEW s \in Stores, s = c.dst PROVE StoreInv(s)'
  <2>1. StoreInv(s)
    BY DEF IInv
  <2>2. Kept(s)'
    BY <1>1, <2>1, KeptFrame DEF StoreInv
  <2>3. Owned(s)'
    <3>1. \A x \in staged[s] : x.id # c.id
      BY <1>1, <1>5 DEF IInv, ImportInv, Cleared
    <3> QED
      BY <1>1, <1>3, <1>5, <2>1, <3>1 DEF StoreInv, Owned
  <2> QED
    BY <1>1, <1>3, <1>5, <2>1, <2>2, <2>3 DEF StoreInv, Given
<1> QED
  BY <1>1, <1>2, <1>4, <1>5, IdleKeeps, StepKeeps DEF At

\* The lock of a killed process is free again, as its flock is.
LEMMA KillKeeps ==
    ASSUME TypeInv, TypeInv', IInv, NEW p \in Procs, Kill(p)
    PROVE  IInv'
<1>1. procs'[p].pc = "idle" /\ \A q \in Procs \ {p} : procs'[q] = procs[q]
  BY DEF Kill, Become, TypeInv, Idle
<1>2. /\ UNCHANGED <<files, described, refs, staged, copies, journals, manifests, late>>
      /\ left'.imports = left.imports
  BY FaultTypes DEF Kill
<1>3. ASSUME NEW q \in Procs \ {p} PROVE ImportInv(q)'
  <2>1. \A s \in Stores : Grown(s)
    BY <1>2 DEF Grown
  <2>2. procs[q].pc # "idle" => procs[q].src \in Stores /\ procs[q].dst \in Stores
    BY ImportTypes DEF At
  <2>3. procs[q].pc \in Working => lock'[procs[q].dst] = q
    BY <2>2, WorkingPcs DEF IInv, ImportInv, Held, Kill
  <2>4. Undisturbed(q)
    BY <1>1, <1>2, <2>1, <2>2, <2>3, WorkingPcs DEF Undisturbed, TypeInv
  <2> QED
    BY <2>4, UndisturbedKeeps DEF IInv
<1>4. ASSUME NEW s \in Stores PROVE StoreInv(s)'
  <2>1. Kept(s)'
    BY <1>2, KeptFrame DEF IInv, StoreInv
  <2> QED
    BY <1>2, <2>1 DEF IInv, StoreInv, Owned, Given
<1>5. Apart'
  <2>1. \A q \in Procs : procs'[q].pc # "idle" =>
               procs[q].pc # "idle" /\ procs'[q].dst = procs[q].dst /\ procs'[q].id = procs[q].id
    BY <1>1
  <2> QED
    BY <2>1, ApartFrame DEF IInv
<1> QED
  BY <1>1, <1>3, <1>4, <1>5, IdleKeeps DEF IInv

-----------------------------------------------------------------------------
(* The steps of a store                                                      *)

\* An event comes after its refs.
LEMMA RecordKeeps ==
    ASSUME TypeInv, TypeInv', IInv, NEW s \in Stores, NEW st \in Streams, Record(s, st)
    PROVE  IInv'
<1>1. PICK e \in EventSet :
               /\ Owner[st] = s /\ e.stream = st
               /\ refs' = [refs EXCEPT ![s] = @ \cup Created(e)]
               /\ files' = [files EXCEPT ![s] = @ \cup {e}]
               /\ described' = [described EXCEPT ![s] = @ \cup {st}]
               /\ UNCHANGED <<staged, copies, journals, manifests, lock, procs, late, left>>
  BY RecordAdds
<1>2. /\ files'[s] = files[s] \cup {e} /\ refs'[s] = refs[s] \cup Created(e)
      /\ \A s1 \in Stores \ {s} : files'[s1] = files[s1] /\ refs'[s1] = refs[s1]
      /\ \A s1 \in Stores : refs[s1] \subseteq refs'[s1] /\ described[s1] \subseteq described'[s1]
      /\ \A s1 \in Stores : Grown(s1)
  BY <1>1 DEF TypeInv, Grown
<1>3. ASSUME NEW q \in Procs PROVE ImportInv(q)'
  <2>1. procs[q].pc # "idle" => procs[q].src \in Stores /\ procs[q].dst \in Stores
    BY ImportTypes DEF At
  <2>2. Undisturbed(q)
    BY <1>1, <1>2, <2>1, WorkingPcs DEF IInv, ImportInv, Held, Undisturbed, TypeInv
  <2> QED
    BY <2>2, UndisturbedKeeps DEF IInv
<1>4. ASSUME NEW s1 \in Stores PROVE Kept(s1)'
  <2>1. Kept(s1)
    BY DEF IInv, StoreInv
  <2>2. CASE s1 # s
    BY <1>1, <1>2, <2>1, <2>2, KeptFrame
  <2>3. CASE s1 = s
    <3> SUFFICES ASSUME NEW f \in files'[s]
                 PROVE  \/ f \in late'[s]
                        \/ /\ Ref("byid", f) \in refs'[s]
                           /\ f.stream \in Linked => Ref("scoped", f) \in refs'[s]
      BY <2>3 DEF Kept, Ref
    <3>1. CASE f = e
      BY <1>2, <3>1, CreatedType
    <3>2. CASE f \in files[s]
      BY <1>1, <1>2, <2>1, <2>3, <3>2 DEF Kept
    <3> QED
      BY <1>2, <3>1, <3>2
  <2> QED
    BY <2>2, <2>3
<1>5. Apart'
  BY <1>1, ApartFrame DEF IInv
<1> QED
  BY <1>1, <1>3, <1>4, <1>5 DEF IInv, StoreInv, Owned, Given

\* A store that drops a session is no destination at work, and what was listed of it is gone.
LEMMA DropKeeps ==
    ASSUME TypeInv, TypeInv', IInv, NEW s \in Stores, NEW st \in Streams, Drop(s, st)
    PROVE  IInv'
<1>1. /\ lock[s] = None /\ left'.imports = left.imports
      /\ files' = [files EXCEPT ![s] = @ \ Of(@, st)]
      /\ described' = [described EXCEPT ![s] = @ \ {st}]
      /\ refs' = [refs EXCEPT ![s] = @ \ Dropped(@, st)]
      /\ staged' = [staged EXCEPT ![s] = {x \in @ : x.ref \notin Session({x.ref}, st)}]
      /\ late' = [late EXCEPT ![s] = @ \ Of(@, st)]
      /\ procs' = [p \in Procs |-> IF procs[p].src = s THEN Lost(procs[p], st) ELSE procs[p]]
      /\ UNCHANGED <<copies, journals, manifests, lock>>
  BY DropTypes DEF Drop
<1>2. /\ files'[s] = {e \in files[s] : e.stream # st}
      /\ late'[s] = {e \in late[s] : e.stream # st}
      /\ refs'[s] = refs[s] \ Dropped(refs[s], st)
      /\ \A s1 \in Stores \ {s} : /\ files'[s1] = files[s1] /\ refs'[s1] = refs[s1] /\ late'[s1] = late[s1]
                                  /\ described'[s1] = described[s1]
      /\ \A s1 \in Stores : staged'[s1] \subseteq staged[s1]
  BY <1>1 DEF TypeInv, Of
<1>2a. \A r \in Dropped(refs[s], st) : r.of.stream = st
  BY DEF Dropped, Session, Ref
<1>3. \A s1 \in Stores \ {s} : Grown(s1)
  BY <1>2 DEF Grown
<1>4. ASSUME NEW q \in Procs, procs[q].src # s PROVE ImportInv(q)'
  <2>1. procs[q].pc # "idle" => procs[q].src \in Stores /\ procs[q].dst \in Stores
    BY ImportTypes DEF At
  <2>2. procs[q].pc \in Working => lock[procs[q].dst] = q /\ procs[q].dst \in Stores \ {s}
    BY <1>1, <2>1, Bounds, WorkingPcs DEF IInv, ImportInv, Held
  <2>3. procs'[q] = procs[q]
    BY <1>1, <1>4
  <2>4. procs[q].pc # "idle" => Grown(procs[q].src)
    BY <1>3, <1>4, <2>1
  <2>5. procs[q].pc \in Working => Grown(procs[q].dst)
    BY <1>3, <2>2
  <2>6. left'.imports <= left.imports
    BY <1>1 DEF TypeInv
  <2>7. Undisturbed(q)
    BY <1>1, <1>2, <2>2, <2>3, <2>4, <2>5, <2>6 DEF Undisturbed
  <2> QED
    BY <2>7, UndisturbedKeeps DEF IInv
<1>5. ASSUME NEW q \in Procs, procs[q].src = s PROVE ImportInv(q)'
  <2> DEFINE c == procs[q]
  <2>1. /\ c \in Imports /\ c.pc # "idle" /\ c.dst \in Stores /\ c.src # c.dst
    <3>1. c \in Imports /\ Parties(c)
      BY DEF TypeInv
    <3>2. c.pc # "idle" /\ c.dst \in Stores /\ c.src # c.dst
      BY <1>5, <3>1, Bounds DEF Parties
    <3> QED
      BY <3>1, <3>2
  <2>2. /\ procs'[q].pc = c.pc /\ procs'[q].src = s /\ procs'[q].dst = c.dst /\ procs'[q].id = c.id
        /\ procs'[q].listing = c.listing /\ procs'[q].todo = c.todo /\ procs'[q].again = c.again
        /\ procs'[q].gone = c.gone \cup ({st} \cap StreamsOf(c.listing))
    BY <1>1, <1>5, <2>1, LostType
  <2>3. /\ files'[c.dst] = files[c.dst] /\ refs'[c.dst] = refs[c.dst] /\ described'[c.dst] = described[c.dst]
    BY <1>2, <1>5, <2>1
  <2>4. ImportInv(q)
    BY DEF IInv
  <2>5. Held(q)' /\ Journaled(q)' /\ Numbered(q)' /\ Cleared(q)'
    BY <1>1, <2>2, <2>4 DEF ImportInv, Held, Journaled, Numbered, Cleared
  <2>6. Sourced(q)'
    <3> SUFFICES ASSUME c.pc \in {"inspect", "lock", "fetch", "inspectAgain", "copy"},
                        NEW e \in c.listing, e.stream \notin c.gone \cup ({st} \cap StreamsOf(c.listing))
                 PROVE  e \in files'[s]
      BY <2>2 DEF Sourced
    <3>1. e \in files[s]
      BY <1>5, <2>4 DEF ImportInv, Sourced
    <3>2. e.stream # st
      BY StreamsAre
    <3> QED
      BY <1>2, <3>1, <3>2
  <2>7. Brought(q)'
    BY <1>1, <2>2, <2>4 DEF ImportInv, Brought, Copied
  <2>8. Placed(q)'
    <3>1. c.pc \in {"install", "describe"} =>
            /\ \A st1 \in StreamsOf(c.listing) \ c.todo : Installed(c, st1)
            /\ \A e \in c.listing : Aliases(e) \subseteq refs[c.dst]
      BY <2>4 DEF ImportInv, Placed
    <3>2. c.pc = "install" => StreamsOf(c.listing) \ c.todo \subseteq described[c.dst]
      BY <2>4 DEF ImportInv, Placed
    <3> QED
      BY <2>2, <2>3, <3>1, <3>2 DEF Placed, Installed, Has, Of, Aliases, Ref
  <2> QED
    BY <2>5, <2>6, <2>7, <2>8 DEF ImportInv
<1>6. ASSUME NEW s1 \in Stores PROVE Kept(s1)'
  <2>1. Kept(s1)
    BY DEF IInv, StoreInv
  <2>2. CASE s1 # s
    BY <1>2, <2>1, <2>2, KeptFrame
  <2>3. CASE s1 = s
    <3> SUFFICES ASSUME NEW e \in files'[s]
                 PROVE  \/ e \in late'[s]
                        \/ /\ Ref("byid", e) \in refs'[s]
                           /\ e.stream \in Linked => Ref("scoped", e) \in refs'[s]
      BY <2>3 DEF Kept, Ref
    <3>1. e \in files[s] /\ e.stream # st
      BY <1>2
    <3>2. Ref("byid", e).of = e /\ Ref("scoped", e).of = e
      BY DEF Ref
    <3> QED
      BY <1>2, <1>2a, <2>1, <2>3, <3>1, <3>2 DEF Kept
  <2> QED
    BY <2>2, <2>3
<1>7. Apart'
  <2>1. \A q \in Procs : procs'[q].pc # "idle" =>
               procs[q].pc # "idle" /\ procs'[q].dst = procs[q].dst /\ procs'[q].id = procs[q].id
    BY <1>1, LostType DEF TypeInv
  <2> QED
    BY <2>1, ApartFrame DEF IInv
<1> QED
  BY <1>1, <1>2, <1>4, <1>5, <1>6, <1>7 DEF IInv, StoreInv, Owned, Given

\* What is pruned is no event's, nor kept for one by its checkpoint's id.
LEMMA PruneKeeps ==
    ASSUME TypeInv, TypeInv', IInv, NEW s \in Stores, Prune(s)
    PROVE  IInv'
<1>1. /\ lock[s] = None /\ left'.imports = left.imports
      /\ UNCHANGED <<files, described, copies, journals, manifests, lock, procs, late>>
      /\ \A s1 \in Stores : staged'[s1] \subseteq staged[s1]
      /\ \A s1 \in Stores \ {s} : refs'[s1] = refs[s1]
      /\ refs'[s] = refs[s] \cap Referenced(s)
  BY FaultTypes DEF Prune, TypeInv
<1>2. ASSUME NEW q \in Procs PROVE ImportInv(q)'
  <2>1. procs[q].pc # "idle" => procs[q].src \in Stores /\ procs[q].dst \in Stores
    BY ImportTypes DEF At
  <2>2. \A s1 \in Stores : Grown(s1)
    BY <1>1 DEF Grown
  <2>3. procs[q].pc \in Working => lock[procs[q].dst] = q /\ procs[q].dst \in Stores \ {s}
    BY <1>1, <2>1, Bounds, WorkingPcs DEF IInv, ImportInv, Held
  <2>4. Undisturbed(q)
    BY <1>1, <2>1, <2>2, <2>3, WorkingPcs DEF Undisturbed, TypeInv
  <2> QED
    BY <2>4, UndisturbedKeeps DEF IInv
<1>3. ASSUME NEW s1 \in Stores PROVE Kept(s1)'
  <2>1. Kept(s1)
    BY DEF IInv, StoreInv
  <2>2. CASE s1 # s
    BY <1>1, <2>1, <2>2, KeptFrame
  <2>3. CASE s1 = s
    <3> SUFFICES ASSUME NEW e \in files[s], e \notin late[s]
                 PROVE  /\ Ref("byid", e) \in refs'[s]
                        /\ e.stream \in Linked => Ref("scoped", e) \in refs'[s]
      BY <1>1, <2>3 DEF Kept, Ref
    <3>1. /\ Ref("byid", e) \in refs[s]
          /\ e.stream \in Linked => Ref("scoped", e) \in refs[s]
      BY <2>1, <2>3 DEF Kept
    <3>2. \A r : SameName(r, r)
      BY DEF SameName
    <3>3. Ref("byid", e) \in Created(e) /\ (e.stream \in Linked => Ref("scoped", e) \in Created(e))
      BY DEF Created, Named
    <3>4. \A r \in Created(e) \cap refs[s] : r \in Referenced(s)
      BY <3>2 DEF Referenced
    <3> QED
      BY <1>1, <3>1, <3>3, <3>4
  <2> QED
    BY <2>2, <2>3
<1>4. Apart'
  BY <1>1, ApartFrame DEF IInv
<1> QED
  BY <1>1, <1>2, <1>3, <1>4 DEF IInv, StoreInv, Owned, Given

\* Nobody merges into the store whose pending import is aborted.
LEMMA AbortKeeps ==
    ASSUME TypeInv, TypeInv', IInv, NEW s \in Stores, Abort(s)
    PROVE  IInv'
<1>1. PICK j \in Pending(s) :
        /\ staged' = [staged EXCEPT ![s] = {x \in @ : x.id # j.id}]
        /\ copies' = [copies EXCEPT ![s] = {x \in @ : x.id # j.id}]
        /\ journals' = [journals EXCEPT ![s] = @ \ {j}]
        /\ UNCHANGED <<files, described, refs, manifests, lock, procs, late, left>>
  BY DEF Abort
<1>2. /\ j \in journals[s] /\ \A p \in Procs : procs[p].dst # s
      /\ \A s1 \in Stores \ {s} : staged'[s1] = staged[s1] /\ copies'[s1] = copies[s1]
                                  /\ journals'[s1] = journals[s1]
      /\ staged'[s] = {x \in staged[s] : x.id # j.id} /\ copies'[s] = {x \in copies[s] : x.id # j.id}
      /\ journals'[s] = journals[s] \ {j}
  BY <1>1 DEF Pending, TypeInv
<1>3. ASSUME NEW q \in Procs PROVE ImportInv(q)'
  <2>1. procs[q].pc # "idle" => procs[q].src \in Stores /\ procs[q].dst \in Stores
    BY ImportTypes DEF At
  <2>2. \A s1 \in Stores : Grown(s1)
    BY <1>1 DEF Grown
  <2>3. procs[q].pc \in Working => lock[procs[q].dst] = q
    BY DEF IInv, ImportInv, Held
  <2>4. Undisturbed(q)
    BY <1>1, <1>2, <2>1, <2>2, <2>3, WorkingPcs DEF Undisturbed, TypeInv
  <2> QED
    BY <2>4, UndisturbedKeeps DEF IInv
<1>4. ASSUME NEW s1 \in Stores PROVE StoreInv(s1)'
  <2>1. StoreInv(s1)
    BY DEF IInv
  <2>2. Kept(s1)'
    BY <1>1, <2>1, KeptFrame DEF StoreInv
  <2>3. Owned(s1)'
    BY <1>2, <2>1 DEF StoreInv, Owned
  <2>4. Given(s1)'
    BY <1>1, <1>2, <2>1 DEF StoreInv, Given
  <2> QED
    BY <2>2, <2>3, <2>4 DEF StoreInv
<1>5. Apart'
  BY <1>1, ApartFrame DEF IInv
<1> QED
  BY <1>3, <1>4, <1>5 DEF IInv

LEMMA InitKeeps == Init => IInv
<1> SUFFICES ASSUME Init PROVE IInv
  OBVIOUS
<1>1. PICK copiedTo \in SUBSET Stores, first \in Streams :
         /\ files = [s \in Stores |-> IF s \in {Owner[first]} \cup copiedTo THEN {Event(first, 0, 1)} ELSE {}]
         /\ refs = [s \in Stores |-> IF s \in {Owner[first]} \cup copiedTo
                                     THEN Created(Event(first, 0, 1)) ELSE {}]
  BY DEF Init
<1>2. \A p \in Procs : procs[p].pc = "idle"
  BY DEF Init, Idle
<1>3. ASSUME NEW p \in Procs PROVE ImportInv(p)
  BY <1>2 DEF ImportInv, Held, Journaled, Numbered, Sourced, Brought, Placed, Cleared, Working
<1>4. ASSUME NEW s \in Stores PROVE Kept(s)
  <2>1. \A e \in files[s] : e \in EventSet /\ Created(e) \subseteq refs[s]
    BY <1>1, EventType
  <2> QED
    BY <2>1, CreatedType DEF Kept
<1>5. Apart
  BY <1>2 DEF Apart
<1> QED
  BY <1>3, <1>4, <1>5 DEF IInv, StoreInv, Owned, Given, Init

LEMMA NextKeeps ==
    ASSUME TypeInv, IInv, [Next]_vars
    PROVE  TypeInv' /\ IInv'
<1>1. TypeInv'
  BY NextTypes
<1>2. CASE UNCHANGED vars
  <2>1. /\ \A p \in Procs : ImportInv(p)'
        /\ \A s \in Stores : StoreInv(s)'
    BY <1>2 DEF IInv, vars, ImportInv, Held, Journaled, Numbered, Sourced, Brought, Placed, Cleared,
           Copied, Installed, Has, StoreInv, Kept, Owned, Given
  <2>2. Apart'
    BY <1>2 DEF vars, IInv, Apart
  <2> QED
    BY <1>1, <2>1, <2>2 DEF IInv
<1>3. ASSUME NEW p \in Procs, Step(p) PROVE IInv'
  BY <1>1, <1>3, RunKeeps, RecoverKeeps, InspectKeeps, TakeLockKeeps, FetchKeeps, InspectAgainKeeps,
     CopyStreamKeeps, PromoteKeeps, AliasCheckpointsKeeps, InstallKeeps, DescribeKeeps,
     WriteManifestKeeps, ClearStagingKeeps, ClearJournalKeeps, KillKeeps DEF Step
<1>4. ASSUME NEW s \in Stores, Store(s) PROVE IInv'
  BY <1>1, <1>4, RecordKeeps, DropKeeps, PruneKeeps, AbortKeeps DEF Store
<1> QED
  BY <1>1, <1>2, <1>3, <1>4 DEF Next

LEMMA Invariance == Spec => [](TypeInv /\ IInv)
<1>1. Init => TypeInv /\ IInv
  BY InitTypes, InitKeeps
<1>2. TypeInv /\ IInv /\ [Next]_vars => (TypeInv /\ IInv)'
  BY NextKeeps
<1> QED
  BY <1>1, <1>2, PTL DEF Spec

-----------------------------------------------------------------------------
(* The theorems                                                              *)

\* The state stays well typed, and an import has two different stores.
THEOREM TypeCorrect == Spec => []TypeOK
<1>1. TypeInv => TypeOK
  <2> SUFFICES ASSUME TypeInv PROVE TypeOK
    OBVIOUS
  <2>1. \A s \in Stores : files[s] \cup late[s] \subseteq [stream : Streams, gen : Nat, i : Nat \ {0}]
    BY DEF TypeInv, EventSet
  <2>2. \A s \in Stores : \A r \in refs[s] :
          r.kind \in Kinds /\ r.of \in [stream : Streams, gen : Nat, i : Nat \ {0}]
    BY DEF TypeInv, RefSet, EventSet
  <2>3. \A p \in Procs : procs[p].dst # None => procs[p].src \in Stores \ {procs[p].dst}
    BY DEF TypeInv, Parties
  <2> QED
    BY <2>1, <2>2, <2>3 DEF TypeInv, TypeOK
<1> QED
  BY <1>1, Invariance, PTL

\* Whatever the sources drop and prune meanwhile, and wherever merges stop, are recovered
\* or aborted: a checkpoint is found by the events of every store that has them, and what
\* is staged by the journal of its import.
THEOREM MergedCheckpointsFound == Spec => []ImportsFound
<1>1. TypeInv /\ IInv => ImportsFound
  <2> SUFFICES ASSUME TypeInv, IInv PROVE ImportsFound
    OBVIOUS
  <2>1. ASSUME NEW s \in Stores, NEW e \in Known(s)
        PROVE  /\ Ref("byid", e) \in refs[s]
               /\ e.stream \in Linked => Ref("scoped", e) \in refs[s]
    BY DEF Known, IInv, StoreInv, Kept
  <2>2. CommitsKept
    <3> SUFFICES ASSUME NEW s \in Stores, NEW e \in Known(s)
                 PROVE  \E r \in refs[s] : r.of = e
      BY DEF CommitsKept
    <3>1. Ref("byid", e).of = e
      BY DEF Ref
    <3> QED
      BY <2>1, <3>1
  <2>3. TurnsFound
    BY <2>1 DEF TurnsFound
  <2>4. StagingFound
    BY DEF IInv, StoreInv, Owned, StagingFound
  <2> QED
    BY <2>2, <2>3, <2>4 DEF ImportsFound
<1> QED
  BY <1>1, Invariance, PTL

\* Only WriteManifest takes an import from installing to clearing up.
LEMMA ManifestStep ==
    ASSUME TypeInv, [Next]_vars, NEW p \in Procs, At(p, "install"), procs'[p].pc = "clear"
    PROVE  WriteManifest(p)
<1>1. CASE UNCHANGED vars
  BY <1>1 DEF vars, At
<1>2. ASSUME NEW q \in Procs, Step(q) PROVE WriteManifest(p)
  <2>1. q = p
    BY <1>2 DEF Step, Add, Run, Recover, Inspect, TakeLock, Fetch, InspectAgain, CopyStream, Promote,
           AliasCheckpoints, Install, Describe, WriteManifest, ClearStaging, ClearJournal, Kill,
           Stop, Goto, Become, At, TypeInv
  <2>2. ~(\E c : Become(p, c) /\ c.pc # "clear")
    BY DEF Become, TypeInv
  <2>3. ~Run(p) /\ ~Recover(p) /\ ~Inspect(p) /\ ~TakeLock(p) /\ ~Fetch(p) /\ ~InspectAgain(p)
        /\ ~CopyStream(p) /\ ~Promote(p) /\ ~AliasCheckpoints(p) /\ ~Describe(p)
        /\ ~ClearStaging(p) /\ ~ClearJournal(p)
    BY DEF Run, Recover, Inspect, TakeLock, Fetch, InspectAgain, CopyStream, Promote,
           AliasCheckpoints, Describe, ClearStaging, ClearJournal, At
  <2>4. ~Kill(p)
    BY <2>2 DEF Kill, Idle
  <2>5. ~Install(p)
    <3> SUFFICES ASSUME Install(p) PROVE FALSE
      OBVIOUS
    <3>1. Stop(p) \/ \E st \in procs[p].todo : Become(p, [procs[p] EXCEPT !.todo = @ \ {st}, !.pc = "describe"])
      BY DEF Install
    <3>2. ~Stop(p)
      BY <2>2 DEF Stop, Idle
    <3>3. \A st : [procs[p] EXCEPT !.todo = @ \ {st}, !.pc = "describe"].pc = "describe"
      BY ImportTypes DEF Imports
    <3> QED
      BY <2>2, <3>1, <3>2, <3>3
  <2> QED
    BY <1>2, <2>1, <2>3, <2>4, <2>5 DEF Step
<1>3. ASSUME NEW s \in Stores, Store(s) PROVE FALSE
  <2>1. UNCHANGED procs \/ \E st \in Streams : Drop(s, st)
    BY <1>3 DEF Store, Record, Prune, Abort
  <2>2. ASSUME NEW st \in Streams, Drop(s, st) PROVE procs'[p].pc = procs[p].pc
    BY <2>2, LostType DEF Drop, TypeInv
  <2> QED
    BY <2>1, <2>2 DEF At
<1> QED
  BY <1>1, <1>2, <1>3 DEF Next

\* An import changes no stream the destination has, and its manifest lists streams that
\* are there with their metadata, as long as they were listed unless dropped by the source.
THEOREM MergesAddOnly == Spec => ImportsTrue
<1>1. ASSUME TypeInv, IInv, [Next]_vars, NEW p \in Procs, At(p, "install"), procs'[p].pc = "clear",
             NEW st \in StreamsOf(procs[p].listing)
      PROVE  LET c == procs[p] IN
             /\ Has(c.dst, st) /\ st \in described[c.dst]
             /\ st \in c.gone \/ Of(c.listing, st) \subseteq files[c.dst]
  <2>1. procs[p].todo = {} /\ procs[p].pc = "install"
    BY <1>1, ManifestStep DEF WriteManifest, At
  <2> QED
    BY <1>1, <2>1 DEF IInv, ImportInv, Placed, Installed, Of
<1>2. ASSUME TypeInv, [Next]_vars, NEW s \in Stores, NEW st \in Streams, Of(files[s], st) # {}
      PROVE  LET was == Of(files[s], st)
                 now == Of(files'[s], st)
             IN  \/ now = was
                 \/ Owner[st] = s /\ \E e \in now : now = was \cup {e}
                 \/ now = {} /\ left' # left
  <2> DEFINE was == Of(files[s], st)
             now == Of(files'[s], st)
  <2>1. CASE UNCHANGED vars
    BY <2>1 DEF vars
  <2>2. ASSUME NEW p \in Procs, Step(p) PROVE now = was
    <3>1. UNCHANGED files \/ Install(p)
      BY <2>2 DEF Step, Run, Recover, Inspect, TakeLock, Fetch, InspectAgain, CopyStream, Promote,
             AliasCheckpoints, Describe, WriteManifest, ClearStaging, ClearJournal, Kill,
             unchangedByPlan, unchangedByStaging, unchangedByPromotion, unchangedByClear
    <3>2. CASE Install(p)
      <4>1. CASE UNCHANGED files
        BY <4>1
      <4>2. ASSUME NEW st1 \in procs[p].todo, ~Has(procs[p].dst, st1), NEW x \in copies[procs[p].dst],
                   x.stream = st1, files' = [files EXCEPT ![procs[p].dst] = @ \cup x.events]
            PROVE  now = was
        <5>1. procs[p].dst \in Stores
          BY <1>2, <3>2, ImportTypes DEF Install, At
        <5>2. \A e \in x.events : e.stream = st1
          BY <4>2, <5>1, <1>2 DEF TypeInv, CopySet
        <5>3. procs[p].dst # s \/ st1 # st
          BY <1>2, <4>2 DEF Has
        <5>4. CASE procs[p].dst # s
          BY <1>2, <4>2, <5>1, <5>4 DEF TypeInv
        <5>5. CASE procs[p].dst = s /\ st1 # st
          <6>1. files'[s] = files[s] \cup x.events
            BY <1>2, <4>2, <5>5 DEF TypeInv
          <6> QED
            BY <5>2, <5>5, <6>1 DEF Of
        <5> QED
          BY <5>3, <5>4, <5>5
      <4> QED
        BY <3>2, <4>1, <4>2 DEF Install
    <3> QED
      BY <3>1, <3>2
  <2>3. ASSUME NEW s1 \in Stores, Store(s1)
        PROVE  \/ now = was
               \/ Owner[st] = s /\ \E e \in now : now = was \cup {e}
               \/ now = {} /\ left' # left
    <3>1. ASSUME NEW st1 \in Streams, Record(s1, st1)
          PROVE  now = was \/ (Owner[st] = s /\ \E e \in now : now = was \cup {e})
      <4>1. PICK e \in EventSet : /\ Owner[st1] = s1 /\ e.stream = st1
                                  /\ files' = [files EXCEPT ![s1] = @ \cup {e}]
        BY <1>2, <3>1, RecordAdds
      <4>2. CASE s1 = s /\ st1 = st
        <5>1. files'[s] = files[s] \cup {e}
          BY <1>2, <4>1, <4>2 DEF TypeInv
        <5>2. now = was \cup {e} /\ e \in now
          BY <4>1, <4>2, <5>1 DEF Of
        <5> HIDE DEF now, was
        <5> QED
          BY <4>1, <4>2, <5>2
      <4>3. CASE s1 = s /\ st1 # st
        <5>1. files'[s] = files[s] \cup {e}
          BY <1>2, <4>1, <4>3 DEF TypeInv
        <5> QED
          BY <4>1, <4>3, <5>1 DEF Of
      <4>4. CASE s1 # s
        BY <1>2, <4>1, <4>4 DEF TypeInv
      <4> QED
        BY <4>2, <4>3, <4>4
    <3>2. ASSUME NEW st1 \in Streams, Drop(s1, st1)
          PROVE  now = was \/ (now = {} /\ left' # left)
      <4>1. /\ files' = [files EXCEPT ![s1] = @ \ Of(@, st1)]
            /\ left'.faults = left.faults - 1 /\ left.faults \in Nat
        BY <1>2, <3>2 DEF Drop, TypeInv
      <4>2. left' # left
        BY <4>1
      <4>3. CASE s1 = s
        <5>1. files'[s] = files[s] \ Of(files[s], st1)
          BY <1>2, <4>1, <4>3 DEF TypeInv
        <5> QED
          BY <4>2, <5>1 DEF Of
      <4>4. CASE s1 # s
        BY <1>2, <4>1, <4>4 DEF TypeInv
      <4> QED
        BY <4>3, <4>4
    <3>3. CASE Prune(s1) \/ Abort(s1)
      BY <3>3 DEF Prune, Abort
    <3> HIDE DEF now, was
    <3> QED
      BY <2>3, <3>1, <3>2, <3>3 DEF Store
  <2> HIDE DEF now, was
  <2>4. UNCHANGED vars \/ (\E p \in Procs : Step(p)) \/ (\E s1 \in Stores : Store(s1))
    BY <1>2 DEF Next
  <2>5. \/ now = was
        \/ Owner[st] = s /\ \E e \in now : now = was \cup {e}
        \/ now = {} /\ left' # left
    BY <2>1, <2>2, <2>3, <2>4 DEF now, was
  <2> QED
    BY <2>5 DEF now, was
<1>3. TypeInv /\ IInv /\ [Next]_vars =>
        [\A p \in Procs : At(p, "install") /\ procs'[p].pc = "clear" =>
          LET c == procs[p] IN
          \A st \in StreamsOf(c.listing) :
              /\ Has(c.dst, st) /\ st \in described[c.dst]
              /\ st \in c.gone \/ Of(c.listing, st) \subseteq files[c.dst]]_vars
  BY <1>1
<1>4. TypeInv /\ [Next]_vars =>
        [\A s \in Stores, st \in Streams :
          LET was == Of(files[s], st)
              now == Of(files'[s], st)
          IN  was # {} => \/ now = was
                          \/ Owner[st] = s /\ \E e \in now : now = was \cup {e}
                          \/ now = {} /\ left' # left]_vars
  BY <1>2
<1>5. Spec => ManifestTrue
  BY <1>3, Invariance, PTL DEF Spec, ManifestTrue
<1>6. Spec => NothingOverwritten
  BY <1>4, Invariance, PTL DEF Spec, NothingOverwritten
<1> QED
  BY <1>5, <1>6 DEF ImportsTrue
=============================================================================
