------------------------------- MODULE Stores -------------------------------
(* Which store a directory records into, and how the machine knows of it.   *)
(* A store (.turnal) carries its own identity and one binding per worktree  *)
(* that uses it; the user-state registry lists the stores of the machine,   *)
(* and the viewer keeps a derived row for each of them.  Every command that *)
(* opens a store refreshes its binding and its registry entry on the way,   *)
(* and several commands run at once.                                        *)
EXTENDS Integers, FiniteSets, FiniteSetsExt

CONSTANTS
    Roots,       \* directories a project may be in
    Rank,        \* the order of their paths
    Home,        \* the directory the first project is in
    Neighbour,   \* the directory a second one may be in
    Procs,       \* processes that run commands
    None,        \* an empty field, a missing file, nobody
    Uses,        \* bound: ways to use the machine, each what there is to do and how often
    MaxIds       \* bound: identities issued

ASSUME HomeAssumption == Home \in Roots /\ Neighbour \in Roots \ {Home}
ASSUME RankAssumption == Rank \in [Roots -> Nat]

Commands == {"open", "init", "attach", "rekey", "forget", "refresh"}
Acts     == {"add", "move", "copy", "delete", "destroy", "kill"}

\* A use limits the commands that users run, and what they do to directories and processes.
ASSUME UsesAssumption ==
    Uses \subseteq [may : SUBSET (Commands \cup Acts), commands : Nat, acts : Nat]

VARIABLES
    checkouts,     \* what each directory is: missing, plain, or a Git worktree
    stores,        \* the store in each directory
    registry,      \* the entries of registry.json
    registryLock,  \* who made the directory registry.json.lock
    rows,          \* the projects in the viewer's index
    reconcileLock, \* who holds the index's reconcile lock
    procs,         \* the command each process runs
    issued,        \* how many identities were issued
    copied,        \* directories whose store is a copy nobody has rekeyed
    attached,      \* projects the user attached to another project's store
    removed,       \* directories whose store the user removed from the viewer and did not add back
    shared,        \* bindings that a new worktree took over from one that moved away
    overtaken,     \* directories with a store whose registry entry went to a copy of the store
    left           \* what is left of the use

vars == <<checkouts, stores, registry, registryLock, rows, reconcileLock,
          procs, issued, copied, attached, removed, shared, overtaken, left>>

-----------------------------------------------------------------------------
(* Directories, as Git sees them.                                           *)

Missing == [kind |-> "missing", common |-> None, dir |-> None]
Plain   == [kind |-> "plain",   common |-> None, dir |-> None]
Worktree(primary, dir) == [kind |-> "git", common |-> primary, dir |-> dir]

There(r) == checkouts[r].kind # "missing"

\* A linked worktree whose primary is gone is no Git repository to Git.
GitOf(r) == LET c == checkouts[r].common IN
            IF c # None /\ checkouts[c].common = c THEN checkouts[r] ELSE Plain

\* What a directory is told by, wherever it is moved.
Tree(r)   == IF GitOf(r) = Plain THEN r ELSE GitOf(r).dir
Exists(t) == \E r \in Roots : There(r) /\ Tree(r) = t

ProjectOf(r) == IF GitOf(r) = Plain THEN r ELSE GitOf(r).common

NoStore    == [there |-> FALSE, repo |-> None, id |-> None, bindings |-> {}, streams |-> {}]
EmptyStore == [NoStore EXCEPT !.there = TRUE]

\* Identities are random: one that comes second may sort before the first.
Fresh == IF issued = 2 THEN {3, -3} ELSE {issued + 1}
First(bindings) == CHOOSE b \in bindings : \A c \in bindings : b.w <= c.w

\* Mutant of Matching: a binding is told by its repository.
MatchingByCommon(bindings, r) ==
    {b \in bindings : \/ GitOf(r).common # None /\ b.common = GitOf(r).common
                      \/ b.root = r}

\* The bindings a command in r finds to be its own.
Matching(bindings, r) ==
    {b \in bindings : \/ GitOf(r).dir # None /\ b.dir = GitOf(r).dir
                      \/ b.root = r}

\* A binding found by its path alone, though the worktree it names is elsewhere.
TakenOver(b, r) == /\ b.root = r /\ b.dir \notin {None, GitOf(r).dir}
                   /\ \E t \in Roots : GitOf(t).dir = b.dir

Binding(w, r) == [w |-> w, root |-> r, common |-> GitOf(r).common, dir |-> GitOf(r).dir,
                  primary |-> GitOf(r).common \in {None, r}]

\* A store of another Git repository is refused.
Foreign(bindings, r) == /\ GitOf(r).common # None
                        /\ \E b \in bindings : b.common \notin {None, GitOf(r).common}

\* A read-only open writes nothing, so the binding must be right as it is.
Readable(r, path) ==
    LET mine == Matching(stores[path].bindings, r) IN
    /\ stores[path].there /\ stores[path].id # None
    /\ mine # {}
    /\ First(mine) = Binding(First(mine).w, r)

-----------------------------------------------------------------------------
(* The registry.                                                            *)

PathRank(r) == IF r = None THEN -1 ELSE Rank[r]

Sorted(d, e) == \/ PathRank(d.common) < PathRank(e.common)
                \/ d.common = e.common /\ Rank[d.path] <= Rank[e.path]

Firsts(entries) == {e \in entries : \A d \in entries : Sorted(e, d)}

NewEntry == [common |-> None, repo |-> None, id |-> None, path |-> None,
             trees |-> {}, hidden |-> FALSE]

\* The entry after worktree b of the store at path registered itself.
Entered(e, path, id, repo, b, reveal) ==
    [common |-> b.common, repo |-> repo, id |-> id, path |-> path,
     trees |-> {t \in e.trees : t.root # b.root /\ t.w # b.w}
               \cup {[w |-> b.w, root |-> b.root, primary |-> b.primary]},
     hidden |-> e.hidden /\ ~reveal]

Own(entries, id, path) == {e \in entries : e.id = id \/ e.path = path}

Registered(entries, path, id, repo, b, reveal) ==
    LET own == Own(entries, id, path) IN
    IF own = {} THEN {entries \cup {Entered(NewEntry, path, id, repo, b, reveal)}}
    ELSE {(entries \ {e}) \cup {Entered(e, path, id, repo, b, reveal)} : e \in Firsts(own)}

Hidden(entries, id) ==
    {(entries \ {e}) \cup {[e EXCEPT !.hidden = TRUE]} :
        e \in Firsts({e \in entries : e.id = id})}

\* Stores the registry knows for a Git repository and that are still there.
Candidates(common) == {e \in registry : e.common = common /\ stores[e.path].there}

\* Without one, the worktrees Git lists are looked through.
HealCandidates(common) ==
    LET holders == {r \in Roots : /\ checkouts[r].common = common
                                  /\ stores[r].there /\ stores[r].id # None}
    IN  {[NewEntry EXCEPT !.common = common, !.repo = stores[r].repo,
                          !.id = stores[r].id, !.path = r] :
            r \in {r \in holders : \A s \in holders :
                       stores[s].id = stores[r].id => Rank[r] <= Rank[s]}}

ValidCandidate(e) == stores[e.path].id = e.id /\ stores[e.path].repo = e.repo

Resolved(common) ==
    LET known == Candidates(common)
    IN  {e \in IF known # {} THEN known ELSE HealCandidates(common) : ValidCandidate(e)}

\* The directory a project is opened in: its primary worktree while it exists.
PreferredRoot(e) ==
    LET live    == {t \in e.trees : There(t.root)}
        Best(s) == CHOOSE t \in s : \A u \in s : /\ u.primary => t.primary
                                                 /\ u.primary = t.primary => Rank[t.root] <= Rank[u.root]
    IN  IF live # {} THEN Best(live).root
        ELSE IF e.trees # {} THEN Best(e.trees).root ELSE e.path

-----------------------------------------------------------------------------
(* Commands.                                                                *)

Idle == [cmd |-> "none", root |-> None, pc |-> "idle", path |-> None, id |-> None,
         repo |-> None, w |-> None, pass |-> None, mine |-> None, read |-> {}, todo |-> {}]

Become(p, r) == procs' = [procs EXCEPT ![p] = r]
Goto(p, pc)  == Become(p, [procs[p] EXCEPT !.pc = pc])
Leave(p)     == Become(p, Idle)
At(p, pc)    == procs[p].pc = pc

Ready(p) == At(p, "idle") /\ left.commands > 0

\* A store is rekeyed before it is used: nothing else has it open meanwhile.
Start(p, command) ==
    /\ \A q \in Procs : procs[q].path # None /\ procs[q].path = command.path
                      => "rekey" \notin {command.cmd, procs[q].cmd}
    /\ left' = [left EXCEPT !.commands = @ - 1]
    /\ Become(p, command)

Command(cmd, r, path) ==
    [Idle EXCEPT !.cmd = cmd, !.root = r, !.path = path, !.pass = "open", !.pc = "identify"]

unchangedByStart == <<checkouts, registry, registryLock, rows, reconcileLock,
                      issued, copied, removed, shared, overtaken>>

StoreOf(r) ==
    LET known == Resolved(GitOf(r).common) IN
    IF stores[r].there THEN {r}
    ELSE IF GitOf(r) # Plain /\ Cardinality(known) = 1 THEN {e.path : e \in known} ELSE {}

Open(p) ==
    /\ Ready(p)
    /\ \E r \in {r \in Roots : There(r)} :
          \E path \in StoreOf(r), cmd \in {"open", "rekey"} \cap left.may :
              Start(p, Command(cmd, r, path))
    /\ UNCHANGED <<stores, attached, unchangedByStart>>

\* init: likewise, and it makes the store where there is none.
InitProject(p) ==
    /\ Ready(p) /\ "init" \in left.may
    /\ \E r \in Roots :
        LET c     == GitOf(r).common
            known == IF c = None THEN {} ELSE Resolved(c)
            path  == IF stores[r].there \/ c = None THEN r
                     ELSE IF known = {} THEN c ELSE (CHOOSE e \in known : TRUE).path
        IN  /\ There(r)
            /\ stores[r].there \/ Cardinality(known) <= 1
            /\ Start(p, Command("init", r, path))
            /\ stores' = IF stores[path].there THEN stores
                         ELSE [stores EXCEPT ![path] = EmptyStore]
            /\ UNCHANGED <<attached, unchangedByStart>>

\* `turnal worktree attach`, given a store by name, and `repair`, which finds it.
Attach(p) ==
    /\ Ready(p) /\ "attach" \in left.may
    /\ \E r, path \in Roots :
        /\ There(r) /\ stores[path].there
        /\ Start(p, Command("attach", r, path))
        /\ attached' = IF path \in {r, GitOf(r).common} THEN attached ELSE attached \cup {ProjectOf(r)}
        /\ UNCHANGED <<stores, unchangedByStart>>

\* The viewer: the user removes a project it lists, or the page is refreshed.
StartForget(p) ==
    /\ Ready(p) /\ "forget" \in left.may
    /\ \E row \in rows :
        /\ Start(p, [Idle EXCEPT !.cmd = "forget", !.id = row.id, !.pc = "reconcile"])
        /\ UNCHANGED <<stores, attached, unchangedByStart>>

StartRefresh(p) ==
    /\ Ready(p) /\ "refresh" \in left.may
    /\ Start(p, [Idle EXCEPT !.cmd = "refresh", !.pc = "reconcile"])
    /\ UNCHANGED <<stores, attached, unchangedByStart>>

-----------------------------------------------------------------------------
(* Opening a store.                                                         *)

unchangedByIdentify == <<checkouts, registry, registryLock, rows, reconcileLock,
                         copied, attached, removed, overtaken, left>>

\* identity.json is read, or made up and then written.
Identify(p) ==
    LET s == stores[procs[p].path] IN
    /\ At(p, "identify")
    /\ IF s.id # None
       THEN /\ Become(p, [procs[p] EXCEPT !.id = s.id, !.repo = s.repo, !.pc = "bind"])
            /\ UNCHANGED issued
       ELSE /\ issued < MaxIds /\ issued' = issued + 1
            /\ Become(p, [procs[p] EXCEPT !.id = issued', !.repo = issued', !.pc = "writeIdentity"])
    /\ UNCHANGED <<stores, shared, unchangedByIdentify>>

WriteIdentity(p) ==
    /\ At(p, "writeIdentity")
    /\ stores' = [stores EXCEPT ![procs[p].path].id = procs[p].id,
                                ![procs[p].path].repo = procs[p].repo]
    /\ Goto(p, "bind")
    /\ UNCHANGED <<issued, shared, unchangedByIdentify>>

\* The bindings are listed; the worktree's own one is found, or a new one made up.
Bind(p) ==
    LET r    == procs[p].root
        all  == stores[procs[p].path].bindings
        mine == Matching(all, r)
    IN  /\ At(p, "bind")
        /\ IF Foreign(all, r) THEN Leave(p) /\ UNCHANGED <<issued, shared>>
           ELSE IF mine # {}
           THEN /\ Become(p, [procs[p] EXCEPT !.w = First(mine).w, !.pc = "writeBinding"])
                /\ shared' = IF TakenOver(First(mine), r) THEN shared \cup {First(mine).w} ELSE shared
                /\ UNCHANGED issued
           ELSE /\ issued < MaxIds /\ issued' = issued + 1
                /\ \E w \in Fresh : Become(p, [procs[p] EXCEPT !.w = w, !.pc = "writeBinding"])
                /\ UNCHANGED shared
        /\ UNCHANGED <<stores, unchangedByIdentify>>

\* What follows once a store is opened and its worktree bound and registered.
Opened(p) ==
    LET c == procs[p]
        again == c.pass = "open" /\ c.cmd \in {"init", "attach"} /\ GitOf(c.root) # Plain
    IN  CASE again                                    -> [c EXCEPT !.pass = "again", !.pc = "identify"]
          [] ~again /\ c.cmd = "init" /\ c.pass # "adopt" -> [c EXCEPT !.pass = "adopt", !.pc = "lock"]
          [] c.cmd = "open"                           -> [c EXCEPT !.pc = "record"]
          [] c.cmd = "rekey" /\ c.pass = "open"       -> [c EXCEPT !.pc = "rekey"]
          [] OTHER                                    -> Idle

unchangedByBinding == <<checkouts, registry, registryLock, rows, reconcileLock,
                        issued, copied, attached, removed, shared, overtaken, left>>

\* A refresh writes the binding it read before, whatever became of it since.
WriteBinding(p) ==
    LET c == procs[p]
        b == Binding(c.w, c.root)
    IN  /\ At(p, "writeBinding")
        /\ stores' = [stores EXCEPT ![c.path].bindings = {d \in @ : d.w # b.w} \cup {b}]
        /\ Become(p, IF b.common # None THEN [c EXCEPT !.pc = "lock"] ELSE Opened(p))
        /\ UNCHANGED unchangedByBinding

unchangedByLock == <<checkouts, stores, rows, reconcileLock, issued, copied, attached, shared, left>>

\* init registers the store's primary worktree, every command its own.
ToRegister(c) ==
    LET primaries == {b \in stores[c.path].bindings : b.primary} IN
    IF c.pass = "adopt" /\ primaries # {} THEN First(primaries) ELSE Binding(c.w, c.root)

\* The stores whose entry c is about to make its own: the entry of a copied store,
\* found by their common identity, or the one of a store that was moved.
Others(c) == {e.path : e \in Firsts(Own(c.read, c.id, c.path))} \ {c.path}

\* What the user removed stays so when it moves, until it is added back.
StillRemoved(c) == IF c.pass = "adopt" THEN removed \ {c.path}
                   ELSE IF \E r \in Others(c) \cap removed : ~stores[r].there
                   THEN (removed \ Others(c)) \cup {c.path}
                   ELSE removed

\* Mutant of TakeRegistryLock: the lock is not waited for.
TakeRegistryLockAnyway(p) ==
    LET c == procs[p] IN
    /\ At(p, "lock")
    /\ registryLock' = p
    /\ Become(p, [c EXCEPT !.read = registry, !.pc = "register",
                           !.mine = IF c.cmd = "forget" THEN None ELSE ToRegister(c)])
    /\ UNCHANGED <<registry, removed, overtaken, unchangedByLock>>

TakeRegistryLock(p) ==
    LET c == procs[p] IN
    /\ At(p, "lock") /\ registryLock = None
    /\ registryLock' = p
    /\ Become(p, [c EXCEPT !.read = registry, !.pc = "register",
                           !.mine = IF c.cmd = "forget" THEN None ELSE ToRegister(c)])
    /\ UNCHANGED <<registry, removed, overtaken, unchangedByLock>>

\* Mutant of Register: every open shows the project again.
RegisterRevealing(p) ==
    LET c == procs[p] IN
    /\ At(p, "register") /\ c.cmd # "forget"
    /\ registry' \in Registered(c.read, c.path, c.id, c.repo, c.mine, TRUE)
    /\ registryLock' = None
    /\ removed' = StillRemoved(c)
    /\ overtaken' = overtaken \cup {r \in Others(c) : stores[r].there}
    /\ Become(p, [Opened(p) EXCEPT !.mine = None, !.read = {}])
    /\ UNCHANGED unchangedByLock

Register(p) ==
    LET c == procs[p]
        reveal == c.pass = "adopt"
    IN  /\ At(p, "register") /\ c.cmd # "forget"
        /\ registry' \in Registered(c.read, c.path, c.id, c.repo, c.mine, reveal)
        /\ registryLock' = None
        /\ removed' = StillRemoved(c)
        /\ overtaken' = overtaken \cup {r \in Others(c) : stores[r].there}
        /\ Become(p, [Opened(p) EXCEPT !.mine = None, !.read = {}])
        /\ UNCHANGED unchangedByLock

\* A lock somebody else holds is not waited for longer than a second.
GiveUp(p) ==
    /\ \/ At(p, "lock") /\ registryLock # None
       \/ At(p, "reconcile") /\ reconcileLock # None
    /\ Leave(p)
    /\ reconcileLock' = IF reconcileLock = p THEN None ELSE reconcileLock
    /\ UNCHANGED <<checkouts, stores, registry, registryLock, rows, issued, copied, attached, removed, shared, overtaken, left>>

\* The command does its work: it records under the worktree's stream.
Record(p) ==
    LET c == procs[p] IN
    /\ At(p, "record")
    /\ stores' = [stores EXCEPT ![c.path].streams = @ \cup {[w |-> c.w, tree |-> Tree(c.root)]}]
    /\ Leave(p)
    /\ UNCHANGED unchangedByBinding

-----------------------------------------------------------------------------
(* Rekeying a store: a new identity, then one for each binding.             *)

RekeyStore(p) ==
    LET c == procs[p] IN
    /\ At(p, "rekey") /\ issued < MaxIds
    /\ issued' = issued + 1
    /\ stores' = [stores EXCEPT ![c.path].id = issued']
    /\ Become(p, [c EXCEPT !.id = issued', !.todo = stores[c.path].bindings, !.pc = "rekeyBinding"])
    /\ UNCHANGED <<checkouts, registry, registryLock, rows, reconcileLock, copied, attached, removed, shared, overtaken, left>>

RekeyBinding(p) ==
    LET c == procs[p]
        old == First(c.todo)
    IN  /\ At(p, "rekeyBinding") /\ c.todo # {} /\ issued < MaxIds
        /\ issued' = issued + 1
        /\ \E w \in Fresh :
              stores' = [stores EXCEPT ![c.path].bindings = @ \cup {[old EXCEPT !.w = w]}]
        /\ Goto(p, "removeBinding")
        /\ UNCHANGED <<checkouts, registry, registryLock, rows, reconcileLock, copied, attached, removed, shared, overtaken, left>>

RemoveBinding(p) ==
    LET c == procs[p]
        old == First(c.todo)
    IN  /\ At(p, "removeBinding")
        /\ stores' = [stores EXCEPT ![c.path].bindings = {b \in @ : b.w # old.w}]
        /\ Become(p, [c EXCEPT !.todo = @ \ {old}, !.pc = "rekeyBinding"])
        /\ UNCHANGED unchangedByBinding

Rekeyed(p) ==
    LET c == procs[p] IN
    /\ At(p, "rekeyBinding") /\ c.todo = {}
    /\ copied' = copied \ {c.path}
    /\ IF GitOf(c.root) # Plain THEN Become(p, [c EXCEPT !.pass = "again", !.pc = "identify"])
       ELSE Leave(p)
    /\ UNCHANGED <<checkouts, stores, registry, registryLock, rows, reconcileLock, issued,
                   attached, removed, shared, overtaken, left>>
-----------------------------------------------------------------------------
(* The viewer's index of projects.                                          *)

TakeReconcileLock(p) ==
    /\ At(p, "reconcile") /\ reconcileLock = None
    /\ reconcileLock' = p
    /\ Goto(p, IF procs[p].cmd = "forget" THEN "lock" ELSE "list")
    /\ UNCHANGED <<checkouts, stores, registry, registryLock, rows, issued, copied, attached, removed, shared, overtaken, left>>

unchangedByViewer == <<checkouts, stores, issued, copied, attached, shared, overtaken, left>>

\* Deregistering hides the entry, which linked worktrees still need.
HideEntry(p) ==
    LET c == procs[p] IN
    /\ At(p, "register") /\ c.cmd = "forget"
    /\ registryLock' = None
    /\ IF \E e \in c.read : e.id = c.id
       THEN /\ registry' \in Hidden(c.read, c.id)
            /\ removed' = removed \cup {e.path : e \in Firsts({e \in c.read : e.id = c.id})}
            /\ Become(p, [c EXCEPT !.read = {}, !.pc = "dropRow"])
            /\ UNCHANGED reconcileLock
       ELSE /\ Leave(p) /\ reconcileLock' = None
            /\ UNCHANGED <<registry, removed>>
    /\ UNCHANGED <<rows, unchangedByViewer>>

DropRow(p) ==
    /\ At(p, "dropRow")
    /\ rows' = {row \in rows : row.id # procs[p].id}
    /\ reconcileLock' = None
    /\ Leave(p)
    /\ UNCHANGED <<registry, registryLock, removed, unchangedByViewer>>

Listed == {e \in registry : ~e.hidden}

\* A refresh lists the visible stores and drops the rows of all others ...
ListRegistered(p) ==
    /\ At(p, "list")
    /\ rows' = {row \in rows : \E e \in Listed : e.id = row.id}
    /\ Become(p, [procs[p] EXCEPT !.todo = Listed, !.pc = "summarize"])
    /\ UNCHANGED <<registry, registryLock, reconcileLock, removed, unchangedByViewer>>

HistoryOf(e) == stores[e.path].streams

\* ... and then reads each store; what cannot be read keeps what was last read.
RowOf(e) ==
    LET root == PreferredRoot(e)
        last == {row \in rows : row.id = e.id}
        row(state, seen) == [id |-> e.id, path |-> e.path, root |-> root, state |-> state, seen |-> seen]
        kept == IF last = {} THEN {} ELSE (CHOOSE r \in last : TRUE).seen
    IN  IF ~stores[e.path].there THEN row("absent", kept)
        ELSE IF There(root) /\ Readable(root, e.path) THEN row("ready", HistoryOf(e))
        ELSE row("attention", kept)

Summarize(p) ==
    LET c == procs[p]
        e == CHOOSE e \in c.todo : \A d \in c.todo : Rank[e.path] <= Rank[d.path]
    IN  /\ At(p, "summarize") /\ c.todo # {}
        /\ rows' = {row \in rows : row.id # e.id} \cup {RowOf(e)}
        /\ Become(p, [c EXCEPT !.todo = @ \ {e}])
        /\ UNCHANGED <<registry, registryLock, reconcileLock, removed, unchangedByViewer>>

Refreshed(p) ==
    /\ At(p, "summarize") /\ procs[p].todo = {}
    /\ reconcileLock' = None
    /\ Leave(p)
    /\ UNCHANGED <<registry, registryLock, rows, removed, unchangedByViewer>>

-----------------------------------------------------------------------------
(* What the user does to directories while no command uses them.            *)

Quiet == \A p \in Procs : procs[p].cmd \in {"none", "refresh", "forget"}

Act(what) ==
    /\ what \in left.may /\ Quiet /\ left.acts > 0
    /\ left' = [left EXCEPT !.acts = @ - 1]
    /\ UNCHANGED <<registry, registryLock, rows, reconcileLock, procs, issued, attached,
                   shared, overtaken>>

\* The Git directory of a worktree is named after its path, and is given a number
\* when one that moved away has the name.
LinkedDir(r, s) ==
    LET Free(n) == \A t \in Roots : checkouts[t].dir # <<r, s, n>>
    IN  <<r, s, CHOOSE n \in 0..Cardinality(Roots) : Free(n) /\ \A m \in 0..(n - 1) : ~Free(m)>>

\* `git worktree add`.
AddWorktree ==
    \E r, s \in Roots :
        /\ Act("add") /\ GitOf(r).common = r /\ ~There(s)
        /\ checkouts' = [checkouts EXCEPT ![s] = Worktree(r, LinkedDir(r, s))]
        /\ UNCHANGED <<stores, copied, removed>>

\* `git worktree move`, which keeps the name.
MoveWorktree ==
    \E r, s \in Roots :
        /\ Act("move") /\ ~There(s)
        /\ GitOf(r).common \notin {None, r} /\ ~stores[r].there
        /\ checkouts' = [checkouts EXCEPT ![s] = checkouts[r], ![r] = Missing]
        /\ UNCHANGED <<stores, copied, removed>>

\* A whole project is copied, or only its store into a directory without one.
Copy ==
    \E r, s \in Roots :
        /\ Act("copy") /\ r # s /\ stores[r].there /\ ~stores[s].there
        /\ There(s) \/ checkouts[r].common \in {None, r}
        /\ stores' = [stores EXCEPT ![s] = stores[r]]
        /\ copied' = copied \cup {s}
        /\ removed' = removed \ {s}
        /\ IF There(s) THEN UNCHANGED checkouts
           ELSE \E whole \in {IF checkouts[r].dir = r THEN Worktree(s, s) ELSE Plain} :
                   checkouts' = [checkouts EXCEPT ![s] = whole]

\* A directory is deleted and, with it, the store in it.
Delete ==
    \E r \in Roots :
        /\ Act("delete") /\ There(r)
        /\ checkouts' = [checkouts EXCEPT ![r] = Missing]
        /\ stores' = [stores EXCEPT ![r] = NoStore]
        /\ copied' = copied \ {r}
        /\ UNCHANGED removed

\* `turnal destroy` deletes the store the directory uses, its own or another's.
Destroy ==
    \E r \in Roots :
        /\ Act("destroy") /\ There(r)
        /\ \E path \in StoreOf(r) :
              /\ path = r \/ Readable(r, path)
              /\ stores' = [stores EXCEPT ![path] = NoStore]
              /\ copied' = copied \ {path}
        /\ UNCHANGED <<checkouts, removed>>

\* The reconcile lock goes with its process, the registry's directory stays.
Kill(p) ==
    /\ "kill" \in left.may /\ ~At(p, "idle") /\ left.acts > 0
    /\ left' = [left EXCEPT !.acts = @ - 1]
    /\ Leave(p)
    /\ reconcileLock' = IF reconcileLock = p THEN None ELSE reconcileLock
    /\ UNCHANGED <<checkouts, stores, registry, registryLock, rows, issued, copied, attached,
                   removed, shared, overtaken>>

-----------------------------------------------------------------------------
\* The first project, before anybody initialised it, or after that and once the
\* viewer listed it, and perhaps a second one of its kind beside it.
Init ==
    /\ \E git, ready \in BOOLEAN, second \in {"none", "project", "worktree"} :
        LET Project(r) == IF git THEN Worktree(r, r) ELSE Plain
            Second == IF second = "worktree" THEN Worktree(Home, <<Home, Neighbour, 0>>) ELSE Project(Neighbour)
            own == [w |-> 2, root |-> Home, common |-> Project(Home).common,
                    dir |-> Project(Home).dir, primary |-> TRUE]
        IN  /\ second # "none" => ready
            /\ second = "worktree" => git
            /\ checkouts = [r \in Roots |-> CASE r = Home -> Project(r)
                                            [] r = Neighbour /\ second # "none" -> Second
                                            [] OTHER -> Missing]
            /\ stores = [r \in Roots |->
                  IF r # Home \/ ~ready THEN NoStore
                  ELSE [EmptyStore EXCEPT !.repo = 1, !.id = 1, !.bindings = {own}]]
            /\ registry = IF ready THEN {Entered(NewEntry, Home, 1, 1, own, TRUE)} ELSE {}
            /\ rows = IF ready THEN {[id |-> 1, path |-> Home, root |-> Home,
                                      state |-> "ready", seen |-> {}]} ELSE {}
            /\ issued = IF ready THEN 2 ELSE 0
    /\ registryLock = None
    /\ reconcileLock = None
    /\ procs = [p \in Procs |-> Idle]
    /\ copied = {} /\ attached = {} /\ removed = {}
    /\ shared = {} /\ overtaken = {}
    /\ left \in Uses

Step(p) ==
    \/ Open(p) \/ InitProject(p) \/ Attach(p) \/ StartForget(p) \/ StartRefresh(p)
    \/ Identify(p) \/ WriteIdentity(p)
    \/ Bind(p) \/ WriteBinding(p)
    \/ TakeRegistryLock(p) \/ Register(p) \/ GiveUp(p) \/ Record(p)
    \/ RekeyStore(p) \/ RekeyBinding(p) \/ RemoveBinding(p) \/ Rekeyed(p)
    \/ TakeReconcileLock(p) \/ HideEntry(p) \/ DropRow(p)
    \/ ListRegistered(p) \/ Summarize(p) \/ Refreshed(p)
    \/ Kill(p)

Next == \/ \E p \in Procs : Step(p)
        \/ AddWorktree \/ MoveWorktree \/ Copy \/ Delete \/ Destroy

Spec == Init /\ [][Next]_vars

-----------------------------------------------------------------------------
(* Properties.                                                              *)

Ids == -MaxIds..MaxIds

TypeOK ==
    /\ \A r \in Roots : /\ checkouts[r].kind \in {"missing", "plain", "git"}
                         /\ stores[r].id \in 1..MaxIds \cup {None}
                         /\ \A b \in stores[r].bindings : b.w \in Ids /\ b.root \in Roots
    /\ \A e \in registry : e.id \in 1..MaxIds /\ e.path \in Roots /\ e.hidden \in BOOLEAN
    /\ registryLock \in Procs \cup {None} /\ reconcileLock \in Procs \cup {None}
    /\ \A row \in rows : row.state \in {"ready", "attention", "absent"}
    /\ issued \in 0..MaxIds

\* No command loses what another one wrote to the registry: a step of a
\* process leaves every entry but the one of its own store as it is.
OthersKept ==
    [][\A p \in Procs :
         LET c == procs[p] IN
         c # procs'[p] => \A e \in registry :
             e \in registry' \/ e.id = c.id \/ e.path = c.path]_vars

\* A project the user removed from the viewer does not come back by itself:
\* until somebody adds it, it stays hidden in the registry, and no refresh
\* puts back the row that was dropped.  A copy of the store, opened before it is
\* rekeyed, takes the entry and its mark with it: the store's own next entry is new.
RemovedStaysRemoved ==
    [][\A r \in (removed \cap removed') \ overtaken' :
         /\ \A e \in registry' : e.path = r => e.hidden
         /\ \A new \in rows' : new.path = r => \E row \in rows : row.path = r]_vars

\* The same of every store, as the comment on DeregisterStore has it.
RemovedForGood ==
    [][\A r \in removed \cap removed', e \in registry' : e.path = r => e.hidden]_vars

\* Two directories that exist never record under one stream identity, not in
\* one store nor in two, but for the binding of a worktree that was moved and
\* whose path was given to another one.
ProducersApart ==
    \A r, s \in Roots : \A x \in stores[r].streams, y \in stores[s].streams :
        (x.w = y.w /\ Exists(x.tree) /\ Exists(y.tree)) => x.tree = y.tree \/ x.w \in shared

\* The same of every binding, that of a worktree moved away included.
ProducersDistinct ==
    \A r, s \in Roots : \A x \in stores[r].streams, y \in stores[s].streams :
        (x.w = y.w /\ Exists(x.tree) /\ Exists(y.tree)) => x.tree = y.tree

\* A rekeyed copy shares no binding with the store it was copied from, and
\* nor do any two stores that are not copies.
RekeySeparates ==
    \A r, s \in Roots \ copied :
        r # s => {b.w : b \in stores[r].bindings} \cap {b.w : b \in stores[s].bindings} = {}

\* What the viewer showed of a store's history stays, as long as the store is
\* registered, when the store is gone or cannot be read.
LastGoodKept ==
    [][\A row \in rows, new \in rows' :
         (row.id = new.id /\ new.state # "ready") => new.seen = row.seen]_vars

\* Identities tell stores and worktrees apart.
IdentitiesApart == ProducersApart /\ RekeySeparates

\* What a command knows nothing of stays: other projects' registry entries, and what the
\* viewer last read of a store that is out of reach.
OthersUntouched == OthersKept /\ LastGoodKept
=============================================================================
