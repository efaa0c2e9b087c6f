----------------------------- MODULE StoreMerge -----------------------------
(* Merging one store into another (turnal merge): the source's event        *)
(* streams are listed, its refs fetched into a staging namespace, the       *)
(* streams copied beside the destination's, the refs promoted, and the      *)
(* copies renamed into place.  Only the destination is locked, so its       *)
(* source goes on recording, dropping sessions and pruning refs, and a      *)
(* merge may stop anywhere, to be recovered or aborted later.               *)
EXTENDS Integers, FiniteSets, Sequences

CONSTANTS
    Stores,      \* stores that are merged into each other
    Streams,     \* event streams, each with checkpoints as its events
    Owner,       \* the store that records a stream
    Linked,      \* the streams recorded in linked worktrees
    Procs,       \* processes that merge
    None,        \* no file, no process
    MaxTurns,    \* bound: the turns of each session
    MaxImports,  \* bound: merges started
    MaxFaults    \* bound: merges killed, sessions dropped, refs pruned

ASSUME OwnerAssumption == Owner \in [Streams -> Stores]
ASSUME LinkedAssumption == Linked \subseteq Streams
ASSUME NoneAssumption == None \notin Nat \cup Stores \cup Procs
ASSUME BoundsAssumption == MaxTurns \in [Streams -> Nat] /\ {MaxImports, MaxFaults} \subseteq Nat

VARIABLES
    files,     \* the events in the stream files of each store
    described, \* the streams each store has metadata of
    refs,      \* the private refs of each store
    staged,    \* refs fetched into the staging namespace of an import
    copies,    \* streams copied into the directory of an import
    journals,  \* the imports a store has a journal of
    manifests, \* what each store's import manifests list
    lock,      \* who holds a store's workspace lock
    procs,     \* the import each process runs
    late,      \* events that came in with a copy, recorded after the listing
    left       \* what is left of the bounds, and how often a session began anew

vars == <<files, described, refs, staged, copies, journals, manifests, lock,
          procs, late, left>>

-----------------------------------------------------------------------------
(* An event is a checkpoint, told by its stream, its turn, and how often the  *)
(* session had been dropped: a stream's path is derived from producer and     *)
(* session, so a session recorded again has the same path and turns.          *)

Event(st, n, i) == [stream |-> st, gen |-> n, i |-> i]
Of(es, st)      == {e \in es : e.stream = st}
StreamsOf(es)   == {e.stream : e \in es}

\* How a checkpoint is referred to: by its turn, by its turn in its worktree
\* and stream, and by its id; once imported, also under the store it is from.
Kinds == {"turn", "scoped", "byid"}
Ref(kind, e) == [via |-> <<>>, kind |-> kind, of |-> e]

\* Names do not tell a turn from the one recorded again; ids do.
SameName(q, r) ==
    /\ q.via = r.via /\ q.kind = r.kind
    /\ q.of.stream = r.of.stream /\ q.of.i = r.of.i
    /\ q.kind = "byid" => q.of.gen = r.of.gen

Clash(rs) == \E q, r \in rs : q # r /\ SameName(q, r)

\* The ref an event names: the primary worktree does not scope its refs.
Named(e)   == Ref(IF e.stream \in Linked THEN "scoped" ELSE "turn", e)
Created(e) == {Named(e), Ref("byid", e)}
Aliases(e) == {Ref("scoped", e), Ref("byid", e)}

Has(s, st) == Of(files[s], st) # {}

\* Every checkpoint event of the listing must have the ref it names, at its commit.
Inspected(listing, available) == \A e \in listing : Named(e) \in available

\* Refs under the store or the pending import that they came from.
Under(rs, origin) == {[r EXCEPT !.via = Append(@, origin)] : r \in rs}

-----------------------------------------------------------------------------
(* The stores record, drop sessions and prune refs.                         *)

\* The turns a session has refs of; the next one has the next number.
Turns(s, st) == {r.of.i : r \in {r \in refs[s] : r.via = <<>> /\ r.kind # "byid" /\ r.of.stream = st}}

\* An event follows the refs of its checkpoint, so that whoever lists the
\* event first and the refs then finds them.
Record(s, st) ==
    \E i \in 1..MaxTurns[st] :
        LET e == Event(st, left.gen[st], i) IN
        /\ Owner[st] = s /\ lock[s] = None
        /\ \A n \in Turns(s, st) : n < i
        /\ i = 1 \/ i - 1 \in Turns(s, st)
        /\ refs' = [refs EXCEPT ![s] = @ \cup Created(e)]
        /\ files' = [files EXCEPT ![s] = @ \cup {e}]
        /\ described' = [described EXCEPT ![s] = @ \cup {st}]
        /\ UNCHANGED <<staged, copies, journals, manifests, lock, procs, late, left>>

\* The refs with the session in their name, wherever they came from.
Session(rs, st) == {r \in rs : r.kind # "byid" /\ r.of.stream = st}

\* These go with their session, and so do the ids of its own checkpoints.
Dropped(rs, st) ==
    Session(rs, st) \cup {Ref("byid", r.of) : r \in {r \in Session(rs, st) : r.via = <<>>}}

\* History: the source has dropped a stream since it was listed.
Lost(c, st) == [c EXCEPT !.gone = @ \cup ({st} \cap StreamsOf(c.listing))]

\* A session is dropped with its refs, at its own store or at another.  Its
\* own store may record it again, at the same path and from the first turn.
Drop(s, st) ==
    /\ lock[s] = None /\ left.faults > 0
    /\ Has(s, st) \/ Session(refs[s], st) # {}
    /\ left' = [left EXCEPT !.faults = @ - 1,
                            !.gen[st] = IF Owner[st] = s THEN @ + 1 ELSE @]
    /\ files' = [files EXCEPT ![s] = @ \ Of(@, st)]
    /\ described' = [described EXCEPT ![s] = @ \ {st}]
    /\ refs' = [refs EXCEPT ![s] = @ \ Dropped(@, st)]
    /\ staged' = [staged EXCEPT ![s] = {x \in @ : x.ref \notin Session({x.ref}, st)}]
    /\ late' = [late EXCEPT ![s] = @ \ Of(@, st)]
    /\ procs' = [p \in Procs |-> IF procs[p].src = s THEN Lost(procs[p], st) ELSE procs[p]]
    /\ UNCHANGED <<copies, journals, manifests, lock>>

\* What an event or a manifest names is kept, and the id of a checkpoint with
\* what is kept of its names.
Referenced(s) ==
    LET named == {r \in refs[s] :
                    \/ \E e \in files[s] : \E q \in Created(e) : SameName(q, r)
                    \/ \E m \in manifests[s] : \E q \in m.refs : SameName(q, r)}
    IN  named \cup {Ref("byid", r.of) : r \in {r \in named : r.via = <<>>}}

Fault == /\ left.faults > 0
         /\ left' = [left EXCEPT !.faults = @ - 1]

\* What is staged is named by none of them.
Prune(s) ==
    /\ Fault /\ lock[s] = None
    /\ refs' = [refs EXCEPT ![s] = @ \cap Referenced(s)]
    /\ staged' = [staged EXCEPT ![s] = {}]
    /\ UNCHANGED <<files, described, copies, journals, manifests, lock, procs, late>>

-----------------------------------------------------------------------------
(* An import.                                                               *)

Idle == [pc |-> "idle", src |-> None, dst |-> None, id |-> 0,
         listing |-> {}, todo |-> {}, again |-> FALSE, gone |-> {}]

At(p, pc)    == procs[p].pc = pc
Become(p, r) == procs' = [procs EXCEPT ![p] = r]
Goto(p, pc)  == Become(p, [procs[p] EXCEPT !.pc = pc])

unchangedByPlan == <<files, described, refs, staged, copies, journals, manifests, lock, late>>

\* A new merge lists the source's streams.
Run(p) ==
    \E src, dst \in Stores :
        /\ At(p, "idle") /\ src # dst /\ left.imports > 0
        /\ left' = [left EXCEPT !.imports = @ - 1]
        /\ Become(p, [Idle EXCEPT !.pc = "inspect", !.src = src, !.dst = dst,
                      !.id = left.imports, !.listing = files[src]])
        /\ UNCHANGED unchangedByPlan

\* `--recover` does the same under the pending import's id.  Neither it nor
\* `--abort` is run while a merge into the store goes on.
Pending(s) == {j \in journals[s] : \A p \in Procs : procs[p].dst # s}

Recover(p) ==
    \E s \in Stores : \E j \in Pending(s) :
        /\ At(p, "idle") /\ Cardinality(journals[s]) = 1
        /\ Become(p, [Idle EXCEPT !.pc = "inspect", !.src = j.src, !.dst = s, !.id = j.id,
                      !.listing = files[j.src], !.again = TRUE])
        /\ UNCHANGED <<left, unchangedByPlan>>

\* Mutant of Abort: the refs of the source's streams go too.
AbortUnpromoting(s) ==
    \E j \in Pending(s) :
        /\ Cardinality(journals[s]) = 1
        /\ staged' = [staged EXCEPT ![s] = {x \in @ : x.id # j.id}]
        /\ copies' = [copies EXCEPT ![s] = {x \in @ : x.id # j.id}]
        /\ journals' = [journals EXCEPT ![s] = @ \ {j}]
        /\ refs' = [refs EXCEPT ![s] = {r \in @ : Owner[r.of.stream] = s}]
        /\ UNCHANGED <<files, described, manifests, lock, procs, late, left>>

Abort(s) ==
    \E j \in Pending(s) :
        /\ Cardinality(journals[s]) = 1
        /\ staged' = [staged EXCEPT ![s] = {x \in @ : x.id # j.id}]
        /\ copies' = [copies EXCEPT ![s] = {x \in @ : x.id # j.id}]
        /\ journals' = [journals EXCEPT ![s] = @ \ {j}]
        /\ UNCHANGED <<files, described, refs, manifests, lock, procs, late, left>>

\* What the destination has under a stream's name, the same as listed or not.
Duplicate(s, listing, st) == Has(s, st) /\ Of(files[s], st) = Of(listing, st)
Divergent(s, listing, st) == Has(s, st) /\ Of(files[s], st) # Of(listing, st)

\* The plan: the refs are there, and no stream has diverged.
Inspect(p) ==
    LET c == procs[p] IN
    /\ At(p, "inspect")
    /\ IF /\ Inspected(c.listing, refs[c.src])
          /\ \A st \in StreamsOf(c.listing) : ~Divergent(c.dst, c.listing, st)
       THEN Goto(p, "lock") ELSE Become(p, Idle)
    /\ UNCHANGED <<left, unchangedByPlan>>

unchangedByStaging == <<files, described, refs, manifests, late, left>>

TakeLock(p) ==
    LET c == procs[p] IN
    /\ At(p, "lock") /\ lock[c.dst] = None
    /\ lock' = [lock EXCEPT ![c.dst] = p]
    /\ journals' = [journals EXCEPT ![c.dst] = IF c.again THEN @ ELSE @ \cup {[id |-> c.id, src |-> c.src]}]
    /\ Goto(p, "fetch")
    /\ UNCHANGED <<staged, copies, unchangedByStaging>>

\* What does not work out leaves the journal, for another try.
Stop(p) == /\ Become(p, Idle)
           /\ lock' = [lock EXCEPT ![procs[p].dst] = None]

\* The source's refs, and what it has staged itself, replace what an earlier
\* try has fetched under their names; what the source has no longer stays.
Offered(s) == refs[s] \cup UNION {Under({x.ref}, x.id) : x \in staged[s]}

Fetch(p) ==
    LET c == procs[p] IN
    /\ At(p, "fetch")
    /\ staged' = [staged EXCEPT ![c.dst] =
                    {x \in @ : x.id # c.id \/ \A r \in Offered(c.src) : ~SameName(r, x.ref)}
                        \cup {[id |-> c.id, ref |-> r] : r \in Offered(c.src)}]
    /\ Goto(p, "inspectAgain")
    /\ UNCHANGED <<copies, journals, lock, unchangedByStaging>>

Fetched(c) == {x.ref : x \in {x \in staged[c.dst] : x.id = c.id}}

InspectAgain(p) ==
    LET c == procs[p] IN
    /\ At(p, "inspectAgain")
    /\ IF Inspected(c.listing, Fetched(c))
       THEN Become(p, [c EXCEPT !.pc = "copy", !.todo = StreamsOf(c.listing)]) /\ UNCHANGED lock
       ELSE Stop(p)
    /\ UNCHANGED <<staged, copies, journals, unchangedByStaging>>

\* Whatever is at a stream's path now is copied: it may be longer than listed,
\* or recorded again after a drop.
CopyStream(p) ==
    LET c == procs[p] IN
    /\ At(p, "copy")
    /\ \E st \in c.todo :
          IF Has(c.src, st)
          THEN /\ copies' = [copies EXCEPT ![c.dst] = {x \in @ : x.id # c.id \/ x.stream # st}
                                \cup {[id |-> c.id, stream |-> st, events |-> Of(files[c.src], st)]}]
               /\ Become(p, [c EXCEPT !.todo = @ \ {st}])
               /\ UNCHANGED lock
          ELSE Stop(p) /\ UNCHANGED copies
    /\ UNCHANGED <<staged, journals, unchangedByStaging>>

unchangedByPromotion == <<files, described, staged, copies, journals, manifests, late, left>>

\* Refs are added one by one, up to one whose name is taken by another commit.
Add(p, new, next) ==
    LET s == procs[p].dst IN
    \/ /\ ~Clash(refs[s] \cup new)
       /\ refs' = [refs EXCEPT ![s] = @ \cup new]
       /\ Become(p, next)
       /\ UNCHANGED lock
    \/ /\ Clash(refs[s] \cup new)
       /\ \E some \in SUBSET (new \ refs[s]) :
             /\ ~Clash(refs[s] \cup some)
             /\ refs' = [refs EXCEPT ![s] = @ \cup some]
       /\ Stop(p)

Promote(p) ==
    LET c == procs[p] IN
    /\ At(p, "copy") /\ c.todo = {}
    /\ Add(p, Under(Fetched(c), c.src), [c EXCEPT !.pc = "alias"])
    /\ UNCHANGED unchangedByPromotion

AliasCheckpoints(p) ==
    LET c == procs[p] IN
    /\ At(p, "alias")
    /\ Add(p, UNION {Aliases(e) : e \in c.listing},
              [c EXCEPT !.pc = "install", !.todo = StreamsOf(c.listing)])
    /\ UNCHANGED unchangedByPromotion

\* Mutant of Install: the copy takes the place of what is there.
InstallOver(p) ==
    LET c == procs[p] IN
    /\ At(p, "install")
    /\ \E st \in c.todo : \E x \in {x \in copies[c.dst] : x.id = c.id /\ x.stream = st} :
          /\ files' = [files EXCEPT ![c.dst] = (@ \ Of(@, st)) \cup x.events]
          /\ copies' = [copies EXCEPT ![c.dst] = @ \ {x}]
          /\ late' = [late EXCEPT ![c.dst] = @ \cup (x.events \ c.listing)]
          /\ Become(p, [c EXCEPT !.todo = @ \ {st}, !.pc = "describe"])
          /\ UNCHANGED lock
    /\ UNCHANGED <<described, refs, staged, journals, manifests, left>>

\* A copy becomes the destination's stream unless it has the stream already.
Install(p) ==
    LET c == procs[p] IN
    /\ At(p, "install")
    /\ \E st \in c.todo :
          \/ /\ ~Has(c.dst, st)
             /\ \E x \in {x \in copies[c.dst] : x.id = c.id /\ x.stream = st} :
                   /\ files' = [files EXCEPT ![c.dst] = @ \cup x.events]
                   /\ copies' = [copies EXCEPT ![c.dst] = @ \ {x}]
                   /\ late' = [late EXCEPT ![c.dst] = @ \cup (x.events \ c.listing)]
                   /\ Become(p, [c EXCEPT !.todo = @ \ {st}, !.pc = "describe"])
                   /\ UNCHANGED lock
          \/ /\ Duplicate(c.dst, c.listing, st)
             /\ Become(p, [c EXCEPT !.todo = @ \ {st}, !.pc = "describe"])
             /\ UNCHANGED <<files, copies, late, lock>>
          \/ /\ Divergent(c.dst, c.listing, st)
             /\ Stop(p)
             /\ UNCHANGED <<files, copies, late>>
    /\ UNCHANGED <<described, refs, staged, journals, manifests, left>>

\* The stream's metadata is written, for a duplicate too.
Describe(p) ==
    LET c == procs[p] IN
    /\ At(p, "describe")
    /\ described' = [described EXCEPT ![c.dst] = @ \cup (StreamsOf(c.listing) \ c.todo)]
    /\ Goto(p, "install")
    /\ UNCHANGED <<files, refs, staged, copies, journals, manifests, lock, late, left>>

WriteManifest(p) ==
    LET c == procs[p] IN
    /\ At(p, "install") /\ c.todo = {}
    /\ manifests' = [manifests EXCEPT ![c.dst] = {m \in @ : m.id # c.id} \cup
                        {[id |-> c.id, streams |-> StreamsOf(c.listing), refs |-> Under(Fetched(c), c.src)]}]
    /\ Goto(p, "clear")
    /\ UNCHANGED <<files, described, refs, staged, copies, journals, lock, late, left>>

unchangedByClear == <<files, described, refs, manifests, late, left>>

ClearStaging(p) ==
    LET c == procs[p] IN
    /\ At(p, "clear")
    /\ staged' = [staged EXCEPT ![c.dst] = {x \in @ : x.id # c.id}]
    /\ Goto(p, "cleared")
    /\ UNCHANGED <<copies, journals, lock, unchangedByClear>>

ClearJournal(p) ==
    LET c == procs[p] IN
    /\ At(p, "cleared")
    /\ copies' = [copies EXCEPT ![c.dst] = {x \in @ : x.id # c.id}]
    /\ journals' = [journals EXCEPT ![c.dst] = {j \in @ : j.id # c.id}]
    /\ Stop(p)
    /\ UNCHANGED <<staged, unchangedByClear>>

Kill(p) ==
    /\ ~At(p, "idle") /\ Fault
    /\ Become(p, Idle)
    /\ lock' = [s \in Stores |-> IF lock[s] = p THEN None ELSE lock[s]]
    /\ UNCHANGED <<files, described, refs, staged, copies, journals, manifests, late>>

-----------------------------------------------------------------------------
\* The stores are new, or one of them is a copy of the other that was given
\* identities of its own.
Init ==
    /\ \E copiedTo \in SUBSET Stores, first \in Streams :
          LET origin == Owner[first]
              with(s, es) == IF s \in {origin} \cup copiedTo THEN es ELSE {}
              e == Event(first, 0, 1)
          IN
          /\ origin \notin copiedTo /\ Cardinality(copiedTo) <= 1
          /\ files = [s \in Stores |-> with(s, {e})]
          /\ described = [s \in Stores |-> with(s, {first})]
          /\ refs = [s \in Stores |-> with(s, Created(e))]
    /\ staged = [s \in Stores |-> {}] /\ copies = [s \in Stores |-> {}]
    /\ journals = [s \in Stores |-> {}] /\ manifests = [s \in Stores |-> {}]
    /\ lock = [s \in Stores |-> None]
    /\ procs = [p \in Procs |-> Idle]
    /\ late = [s \in Stores |-> {}]
    /\ left = [imports |-> MaxImports, faults |-> MaxFaults, gen |-> [st \in Streams |-> 0]]

Step(p) ==
    \/ Run(p) \/ Recover(p) \/ Inspect(p) \/ TakeLock(p) \/ Fetch(p) \/ InspectAgain(p)
    \/ CopyStream(p) \/ Promote(p) \/ AliasCheckpoints(p) \/ Install(p) \/ Describe(p)
    \/ WriteManifest(p) \/ ClearStaging(p) \/ ClearJournal(p) \/ Kill(p)

Store(s) ==
    \/ \E st \in Streams : Record(s, st) \/ Drop(s, st)
    \/ Prune(s) \/ Abort(s)

Next == (\E p \in Procs : Step(p)) \/ (\E s \in Stores : Store(s))

Spec == Init /\ [][Next]_vars

-----------------------------------------------------------------------------
(* Properties.                                                              *)

TypeOK ==
    /\ \A s \in Stores : files[s] \cup late[s] \subseteq [stream : Streams, gen : Nat, i : Nat \ {0}]
    /\ described \in [Stores -> SUBSET Streams]
    /\ \A s \in Stores : \A r \in refs[s] :
          r.kind \in Kinds /\ r.of \in [stream : Streams, gen : Nat, i : Nat \ {0}]
    /\ lock \in [Stores -> Procs \cup {None}]
    /\ \A p \in Procs : procs[p].dst # None => procs[p].src \in Stores \ {procs[p].dst}

\* The events of a store other than those that slipped into a copy after the
\* source was listed, be it because the source dropped the session and records it again.
Known(s) == files[s] \ late[s]

\* Whatever the source drops, records again or prunes meanwhile and wherever
\* a merge stops, a checkpoint a store has the event of can be restored from
\* it: some ref keeps its commit.
CommitsKept ==
    \A s \in Stores : \A e \in Known(s) : \E r \in refs[s] : r.of = e

\* A checkpoint of a linked worktree is also found by its session and turn.
TurnsFound ==
    \A s \in Stores : \A e \in Known(s) : e.stream \in Linked => Ref("scoped", e) \in refs[s]

\* A manifest lists what was imported: when it is written the stream is there with its
\* metadata and with every event listed, unless the source has dropped them since.
ManifestTrue ==
    [][\A p \in Procs : At(p, "install") /\ procs'[p].pc = "clear" =>
          LET c == procs[p] IN
          \A st \in StreamsOf(c.listing) :
              /\ Has(c.dst, st) /\ st \in described[c.dst]
              /\ st \in c.gone \/ Of(c.listing, st) \subseteq files[c.dst]]_vars

\* No merge rewrites a stream the destination has: a file only grows, by what
\* its own store records, until its session is dropped.
NothingOverwritten ==
    [][\A s \in Stores, st \in Streams :
          LET was == Of(files[s], st)
              now == Of(files'[s], st)
          IN  was # {} => \/ now = was
                          \/ Owner[st] = s /\ \E e \in now : now = was \cup {e}
                          \/ now = {} /\ left' # left]_vars

\* What is staged belongs to an import that is running or has a journal, so
\* that `--recover` and `--abort` find it.
StagingFound ==
    \A s \in Stores : \A x \in staged[s] \cup copies[s] : \E j \in journals[s] : j.id = x.id

\* What an import has brought is found: commits by some ref, turns of linked worktrees by
\* session and number, and what is staged by the journal of its import.
ImportsFound == CommitsKept /\ TurnsFound /\ StagingFound

\* An import adds streams, it changes none, and its manifest tells of those it added.
ImportsTrue == ManifestTrue /\ NothingOverwritten
=============================================================================
