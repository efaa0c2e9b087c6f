-------------------------- MODULE QueryIndexProofs --------------------------
(* What is proved of QueryIndex for all values of its constants: an index    *)
(* that a query found healthy answers with the records there were when the   *)
(* check began, however many processes rebuild, remove and read it, and      *)
(* although no fingerprint is a snapshot of the records.                     *)
EXTENDS QueryIndex, TLAPS

\* A fingerprint reads numbers of writes, and last a session's refs all at once.
FingerprintSet == Seq(Nat \cup [Sessions -> Nat])

Labels == {"idle", "before", "refs", "sessions", "events", "after", "write", "install"}

-----------------------------------------------------------------------------
(* The inductive invariant.  Records only grow: a later value is greater,   *)
(* unless the session was dropped.  What was read of the records, f and rf, *)
(* is compared with later values of them and with g, the drops.             *)

\* A value v of a session's record was read, at or after "since", before the value w was.
Before(v, w, s, since, g) == v <= w \/ g[s] > since

\* What the fingerprint p read was there before the records were f and rf.
PrintBefore(p, f, rf, since, g) ==
    /\ p \in FingerprintSet /\ Len(p) <= Len(Walk)
    /\ \A i \in DOMAIN p :
        /\ Walk[i] \in Sessions =>
            p[i] \in Nat /\ Before(p[i], f[Walk[i]], Walk[i], since, g)
        /\ Walk[i] = "refs" =>
            /\ p[i] \in [Sessions -> Nat]
            /\ \A s \in Sessions : Before(p[i][s], rf[s], s, since, g)

\* What the fingerprint p read was there after the records were f and rf.
PrintAfter(p, f, rf, since, g) ==
    /\ p \in FingerprintSet /\ Len(p) <= Len(Walk)
    /\ \A i \in DOMAIN p :
        /\ Walk[i] \in Sessions =>
            p[i] \in Nat /\ Before(f[Walk[i]], p[i], Walk[i], since, g)
        /\ Walk[i] = "refs" =>
            /\ p[i] \in [Sessions -> Nat]
            /\ \A s \in Sessions : Before(rf[s], p[i][s], s, since, g)

\* Two values that sessions had one after the other.
AllBefore(v, w, since, g) == \A s \in Sessions : Before(v[s], w[s], s, since, g)

RowsType(rows) ==
    /\ rows = [refs |-> rows.refs, events |-> rows.events, todo |-> rows.todo]
    /\ rows.refs \in [Sessions -> Nat] /\ rows.events \in [Sessions -> Nat]
    /\ rows.todo \subseteq Sessions

\* The rows are what the fingerprint p tells.
Told(rows, p, since, g) ==
    /\ RowsType(rows)
    /\ Len(p) = Len(Walk)
    /\ PrintBefore(p, rows.events, rows.refs, since, g)
    /\ PrintAfter(p, rows.events, rows.refs, since, g)

Shaped(b) == b = [pc |-> b.pc, try |-> b.try, since |-> b.since,
                  before |-> b.before, after |-> b.after, rows |-> b.rows]

\* A rebuild at each label, when the records are f and rf.
RebuildOK(b, f, rf, g, c) ==
    /\ Shaped(b)
    /\ b.pc \in Labels
    /\ b.pc # "idle" => b.since \in Nat /\ b.since <= c /\ PrintBefore(b.before, f, rf, b.since, g)
    /\ b.pc = "before" => Len(b.before) < Len(Walk)
    /\ b.pc \in {"refs", "sessions", "events", "after"} => Len(b.before) = Len(Walk)
    /\ b.pc \in {"before", "refs", "sessions", "events"} => b.after = Nothing
    /\ b.pc \in {"sessions", "events", "after"} =>
        /\ RowsType(b.rows)
        /\ AllBefore(b.rows.refs, rf, b.since, g)
        /\ \A i \in DOMAIN b.before : Walk[i] = "refs" =>
            AllBefore(b.before[i], b.rows.refs, b.since, g)
    /\ b.pc = "sessions" => b.rows.events = [s \in Sessions |-> 0]
    /\ b.pc \in {"events", "after"} =>
        \A s \in Sessions \ b.rows.todo :
            /\ Before(b.rows.events[s], f[s], s, b.since, g)
            /\ \A i \in DOMAIN b.before : Walk[i] = s =>
                Before(b.before[i], b.rows.events[s], s, b.since, g)
    /\ b.pc = "events" => \A s \in b.rows.todo : b.rows.events[s] = 0
    /\ b.pc = "after" =>
        /\ b.rows.todo = {} /\ Len(b.after) < Len(Walk)
        /\ PrintAfter(b.after, b.rows.events, b.rows.refs, b.since, g)
    /\ b.pc \in {"write", "install"} => Told(b.rows, b.before, b.since, g)

\* An index, installed or open in a reader, tells of what was there when its rebuild began
\* or later.
IndexOK(x, f, rf, g, c) ==
    /\ x.kind \in {"none", "empty", "index"}
    /\ x.kind = "index" =>
        /\ x.since \in Nat /\ x.since <= c
        /\ Told(x.rows, x.print, x.since, g)
        /\ PrintBefore(x.print, f, rf, x.since, g)

\* A reader: its index was not newer than the truth, which is what was there when it
\* opened the file, and what its fingerprint has read is not older.
ReadOK(q, f, rf, g, c) ==
    /\ q = [pc |-> q.pc, inode |-> q.inode, print |-> q.print, truth |-> q.truth]
    /\ q.pc \in {"idle", "open", "walk", "answered"}
    /\ q.pc = "idle" => q = IdleReader
    /\ q.pc \in {"idle", "open"} => q.print = Nothing
    /\ q.pc \in {"walk", "answered"} =>
        /\ q.inode.kind = "index"
        /\ q.inode.since \in Nat /\ q.inode.since <= c
        /\ q.truth.files \in [Sessions -> Nat] /\ q.truth.refs \in [Sessions -> Nat]
    /\ q.pc = "walk" =>
        /\ Len(q.print) < Len(Walk)
        /\ Told(q.inode.rows, q.inode.print, q.inode.since, g)
        /\ PrintBefore(q.inode.print, q.truth.files, q.truth.refs, q.inode.since, g)
        /\ PrintAfter(q.print, q.truth.files, q.truth.refs, q.inode.since, g)
        /\ AllBefore(q.truth.files, f, q.inode.since, g)
        /\ AllBefore(q.truth.refs, rf, q.inode.since, g)
    /\ q.pc = "answered" =>
        \A s \in Sessions :
            \/ q.inode.rows.events[s] = q.truth.files[s] /\ q.inode.rows.refs[s] = q.truth.refs[s]
            \/ g[s] > q.inode.since

RecordsOK(f, rf, g, c) ==
    /\ f \in [Sessions -> Nat] /\ rf \in [Sessions -> Nat] /\ g \in [Sessions -> Nat]
    /\ c \in Nat
    /\ \A s \in Sessions : f[s] <= c /\ rf[s] <= c /\ g[s] <= c

TypeInv ==
    /\ RecordsOK(files, refs, gone, clock)
    /\ manual \in Nat
    /\ editor.pc \in {"idle", "refs", "remove"}
    /\ editor.pc = "refs" => editor.session \in Sessions
    /\ DOMAIN rb = Rebuilders /\ DOMAIN rd = Readers

IInv ==
    /\ TypeInv
    /\ IndexOK(db, files, refs, gone, clock)
    /\ \A r \in Rebuilders : RebuildOK(rb[r], files, refs, gone, clock)
    /\ \A d \in Readers : ReadOK(rd[d], files, refs, gone, clock)

-----------------------------------------------------------------------------
(* The walk                                                                 *)

Parts == Sessions \cup {"manual", "refs"}

LEMMA WalkFacts ==
    /\ Walk \in Seq(Parts) /\ Len(Walk) \in Nat /\ Len(Walk) >= 2
    /\ Walk[Len(Walk)] = "refs"
    /\ \A s \in Sessions : \E i \in 1 .. Len(Walk) : Walk[i] = s
    /\ "manual" \notin Sessions /\ "refs" \notin Sessions
<1>1. SessionOrder \in Seq(Sessions) /\ "manual" \notin Sessions /\ "refs" \notin Sessions
  BY WalkAssumption
<1>2. SessionOrder \in Seq(Parts)
  BY <1>1 DEF Parts
<1>3. <<"manual", "refs">> \in Seq(Parts) /\ Len(<<"manual", "refs">>) = 2
  BY DEF Parts
<1>4. Walk \in Seq(Parts) /\ Len(Walk) = Len(SessionOrder) + 2
  BY <1>2, <1>3 DEF Walk
<1>5. Walk[Len(SessionOrder) + 2] = "refs"
  BY <1>2, <1>3 DEF Walk
<1>6. \A i \in 1 .. Len(SessionOrder) : Walk[i] = SessionOrder[i]
  BY <1>2, <1>3 DEF Walk
<1>7. \A s \in Sessions : \E i \in 1 .. Len(SessionOrder) : SessionOrder[i] = s
  <2>1. \A s \in Sessions : \E i \in DOMAIN SessionOrder : SessionOrder[i] = s
    BY WalkAssumption
  <2>2. DOMAIN SessionOrder = 1 .. Len(SessionOrder)
    BY <1>1
  <2> QED
    BY <2>1, <2>2
<1>8. Len(SessionOrder) \in Nat
  BY <1>1
<1> QED
  BY <1>1, <1>4, <1>5, <1>6, <1>7, <1>8

\* What a walk reads next.
LEMMA ReadNext ==
    ASSUME TypeInv, NEW n \in 1 .. Len(Walk)
    PROVE  /\ Current(Walk[n]) \in Nat \cup [Sessions -> Nat]
           /\ Walk[n] \in Sessions => Current(Walk[n]) = files[Walk[n]]
           /\ Walk[n] = "refs" => Current(Walk[n]) = refs
<1>1. Walk[n] \in Parts
  BY WalkFacts
<1>2. CASE Walk[n] \in Sessions
  <2>1. Walk[n] # "manual" /\ Walk[n] # "refs"
    BY <1>2, WalkFacts
  <2>2. Current(Walk[n]) = files[Walk[n]]
    BY <2>1 DEF Current
  <2> QED
    BY <1>2, <2>1, <2>2 DEF TypeInv, RecordsOK
<1>3. CASE Walk[n] = "manual"
  BY <1>3, WalkFacts DEF Current, TypeInv
<1>4. CASE Walk[n] = "refs"
  BY <1>4, WalkFacts DEF Current, TypeInv, RecordsOK
<1> QED
  BY <1>1, <1>2, <1>3, <1>4 DEF Parts

LEMMA WalkedOn ==
    ASSUME TypeInv, NEW p \in FingerprintSet, Len(p) < Len(Walk)
    PROVE  /\ WalkOn(p) \in FingerprintSet /\ Len(WalkOn(p)) = Len(p) + 1
           /\ Len(p) \in Nat /\ Len(p) + 1 \in 1 .. Len(Walk)
           /\ DOMAIN WalkOn(p) = 1 .. Len(p) + 1 /\ DOMAIN p = 1 .. Len(p)
           /\ \A i \in DOMAIN p : WalkOn(p)[i] = p[i]
           /\ WalkOn(p)[Len(p) + 1] = Current(Walk[Len(p) + 1])
<1>1. Len(p) \in Nat /\ Len(p) + 1 \in 1 .. Len(Walk)
  BY WalkFacts DEF FingerprintSet
<1>2. Current(Walk[Len(p) + 1]) \in Nat \cup [Sessions -> Nat]
  BY <1>1, ReadNext
<1> QED
  BY <1>1, <1>2 DEF WalkOn, FingerprintSet

\* A fingerprint that goes on has read what is there now, which is not after what is there
\* now, and after whatever is before that.
LEMMA ReadsBefore ==
    ASSUME TypeInv, NEW p, NEW since, Len(p) < Len(Walk),
           PrintBefore(p, files, refs, since, gone)
    PROVE  PrintBefore(WalkOn(p), files, refs, since, gone)
<1>1. p \in FingerprintSet
  BY DEF PrintBefore
<1>2. \A i \in DOMAIN WalkOn(p) : i \in DOMAIN p \/ i = Len(p) + 1
  BY <1>1, WalkedOn
<1>3. Len(WalkOn(p)) <= Len(Walk) /\ WalkOn(p) \in FingerprintSet
  BY <1>1, WalkedOn, WalkFacts
<1>4. ASSUME NEW i \in DOMAIN WalkOn(p)
      PROVE  /\ Walk[i] \in Sessions => /\ WalkOn(p)[i] \in Nat
                                        /\ Before(WalkOn(p)[i], files[Walk[i]], Walk[i], since, gone)
             /\ Walk[i] = "refs" =>
                /\ WalkOn(p)[i] \in [Sessions -> Nat]
                /\ \A s \in Sessions : Before(WalkOn(p)[i][s], refs[s], s, since, gone)
  <2>1. CASE i \in DOMAIN p
    BY <1>1, <2>1, WalkedOn DEF PrintBefore
  <2>2. CASE i = Len(p) + 1
    <3>1. WalkOn(p)[i] = Current(Walk[i]) /\ i \in 1 .. Len(Walk)
      BY <1>1, <2>2, WalkedOn
    <3> QED
      BY <3>1, ReadNext DEF Before, TypeInv, RecordsOK
  <2> QED
    BY <1>2, <2>1, <2>2
<1> QED
  BY <1>3, <1>4 DEF PrintBefore

LEMMA ReadsAfter ==
    ASSUME TypeInv, NEW p, NEW since, NEW f, NEW rf, Len(p) < Len(Walk),
           PrintAfter(p, f, rf, since, gone),
           AllBefore(f, files, since, gone), AllBefore(rf, refs, since, gone)
    PROVE  PrintAfter(WalkOn(p), f, rf, since, gone)
<1>1. p \in FingerprintSet
  BY DEF PrintAfter
<1>2. \A i \in DOMAIN WalkOn(p) : i \in DOMAIN p \/ i = Len(p) + 1
  BY <1>1, WalkedOn
<1>3. Len(WalkOn(p)) <= Len(Walk) /\ WalkOn(p) \in FingerprintSet
  BY <1>1, WalkedOn, WalkFacts
<1>4. ASSUME NEW i \in DOMAIN WalkOn(p)
      PROVE  /\ Walk[i] \in Sessions => /\ WalkOn(p)[i] \in Nat
                                        /\ Before(f[Walk[i]], WalkOn(p)[i], Walk[i], since, gone)
             /\ Walk[i] = "refs" =>
                /\ WalkOn(p)[i] \in [Sessions -> Nat]
                /\ \A s \in Sessions : Before(rf[s], WalkOn(p)[i][s], s, since, gone)
  <2>1. CASE i \in DOMAIN p
    BY <1>1, <2>1, WalkedOn DEF PrintAfter
  <2>2. CASE i = Len(p) + 1
    <3>1. WalkOn(p)[i] = Current(Walk[i]) /\ i \in 1 .. Len(Walk)
      BY <1>1, <2>2, WalkedOn
    <3> QED
      BY <3>1, ReadNext DEF AllBefore, TypeInv, RecordsOK
  <2> QED
    BY <1>2, <2>1, <2>2
<1> QED
  BY <1>3, <1>4 DEF PrintAfter

LEMMA SameBefore ==
    ASSUME NEW v \in [Sessions -> Nat], NEW since, NEW g
    PROVE  AllBefore(v, v, since, g)
  BY DEF AllBefore, Before

LEMMA NothingRead ==
    ASSUME NEW f, NEW rf, NEW since, NEW g
    PROVE  /\ PrintBefore(Nothing, f, rf, since, g) /\ PrintAfter(Nothing, f, rf, since, g)
           /\ Nothing \in FingerprintSet /\ Len(Nothing) = 0 /\ Len(Nothing) < Len(Walk)
  BY WalkFacts DEF PrintBefore, PrintAfter, FingerprintSet, Nothing

-----------------------------------------------------------------------------
(* Later records                                                            *)

\* The records of sessions go from f1 and r1 to f2 and r2: up, or a session is dropped.
Later(f1, r1, g1, c1, f2, r2, g2, c2) ==
    /\ RecordsOK(f1, r1, g1, c1) /\ RecordsOK(f2, r2, g2, c2)
    /\ c1 <= c2
    /\ \A s \in Sessions :
        /\ f1[s] <= f2[s] \/ g2[s] > c1
        /\ r1[s] <= r2[s] \/ g2[s] > c1
        /\ g1[s] <= g2[s]

LEMMA PrintBeforeStays ==
    ASSUME NEW f1, NEW r1, NEW g1, NEW c1, NEW f2, NEW r2, NEW g2, NEW c2,
           Later(f1, r1, g1, c1, f2, r2, g2, c2),
           NEW p, NEW since \in Nat, since <= c1, PrintBefore(p, f1, r1, since, g1)
    PROVE  PrintBefore(p, f2, r2, since, g2)
<1>1. \A s \in Sessions, v \in Nat : Before(v, f1[s], s, since, g1) => Before(v, f2[s], s, since, g2)
  BY DEF Later, RecordsOK, Before
<1>2. \A s \in Sessions, v \in Nat : Before(v, r1[s], s, since, g1) => Before(v, r2[s], s, since, g2)
  BY DEF Later, RecordsOK, Before
<1> QED
  BY <1>1, <1>2 DEF PrintBefore

\* What was read before or after rows that are kept, while sessions are dropped.
LEMMA DropsStay ==
    ASSUME NEW f1, NEW r1, NEW g1, NEW c1, NEW f2, NEW r2, NEW g2, NEW c2,
           Later(f1, r1, g1, c1, f2, r2, g2, c2),
           NEW since \in Nat
    PROVE  /\ \A s \in Sessions : \A v, w : Before(v, w, s, since, g1) => Before(v, w, s, since, g2)
           /\ \A p, f, rf : PrintBefore(p, f, rf, since, g1) => PrintBefore(p, f, rf, since, g2)
           /\ \A p, f, rf : PrintAfter(p, f, rf, since, g1) => PrintAfter(p, f, rf, since, g2)
           /\ \A v, w : AllBefore(v, w, since, g1) => AllBefore(v, w, since, g2)
           /\ \A rows, p : Told(rows, p, since, g1) => Told(rows, p, since, g2)
<1>1. \A s \in Sessions : g1[s] \in Nat /\ g2[s] \in Nat /\ g1[s] <= g2[s]
  BY DEF Later, RecordsOK
<1>2. \A s \in Sessions : \A v, w : Before(v, w, s, since, g1) => Before(v, w, s, since, g2)
  BY <1>1 DEF Before
<1>3. \A p, f, rf : PrintBefore(p, f, rf, since, g1) => PrintBefore(p, f, rf, since, g2)
  BY <1>2 DEF PrintBefore
<1>4. \A p, f, rf : PrintAfter(p, f, rf, since, g1) => PrintAfter(p, f, rf, since, g2)
  BY <1>2 DEF PrintAfter
<1>5. \A v, w : AllBefore(v, w, since, g1) => AllBefore(v, w, since, g2)
  BY <1>2 DEF AllBefore
<1>6. \A rows, p : Told(rows, p, since, g1) => Told(rows, p, since, g2)
  BY <1>3, <1>4 DEF Told
<1> QED
  BY <1>2, <1>3, <1>4, <1>5, <1>6

LEMMA AllBeforeStays ==
    ASSUME NEW f1, NEW r1, NEW g1, NEW c1, NEW f2, NEW r2, NEW g2, NEW c2,
           Later(f1, r1, g1, c1, f2, r2, g2, c2),
           NEW since \in Nat, since <= c1, NEW v \in [Sessions -> Nat]
    PROVE  /\ AllBefore(v, f1, since, g1) => AllBefore(v, f2, since, g2)
           /\ AllBefore(v, r1, since, g1) => AllBefore(v, r2, since, g2)
  BY DEF Later, RecordsOK, Before, AllBefore

LEMMA IndexStays ==
    ASSUME NEW f1, NEW r1, NEW g1, NEW c1, NEW f2, NEW r2, NEW g2, NEW c2,
           Later(f1, r1, g1, c1, f2, r2, g2, c2),
           NEW x, IndexOK(x, f1, r1, g1, c1)
    PROVE  IndexOK(x, f2, r2, g2, c2)
<1> SUFFICES ASSUME x.kind = "index"
             PROVE  /\ x.since \in Nat /\ x.since <= c2
                    /\ Told(x.rows, x.print, x.since, g2)
                    /\ PrintBefore(x.print, f2, r2, x.since, g2)
  BY DEF IndexOK
<1>1. x.since \in Nat /\ x.since <= c1 /\ c1 \in Nat /\ c2 \in Nat /\ c1 <= c2
  BY DEF IndexOK, Later, RecordsOK
<1>2. Told(x.rows, x.print, x.since, g1) /\ PrintBefore(x.print, f1, r1, x.since, g1)
  BY DEF IndexOK
<1> QED
  BY <1>1, <1>2, DropsStay, PrintBeforeStays

LEMMA RebuildStays ==
    ASSUME NEW f1, NEW r1, NEW g1, NEW c1, NEW f2, NEW r2, NEW g2, NEW c2,
           Later(f1, r1, g1, c1, f2, r2, g2, c2),
           NEW b, RebuildOK(b, f1, r1, g1, c1)
    PROVE  RebuildOK(b, f2, r2, g2, c2)
<1>1. CASE b.pc = "idle"
  BY <1>1 DEF RebuildOK
<1>2. CASE b.pc # "idle"
  <2>1. b.since \in Nat /\ b.since <= c1 /\ c1 \in Nat /\ c2 \in Nat /\ c1 <= c2
    BY <1>2 DEF RebuildOK, Later, RecordsOK
  <2>2. b.since <= c2
    BY <2>1
  <2>3. PrintBefore(b.before, f2, r2, b.since, g2)
    <3>1. PrintBefore(b.before, f1, r1, b.since, g1)
      BY <1>2 DEF RebuildOK
    <3> QED
      BY <2>1, <3>1, PrintBeforeStays
  <2>4. b.pc \in {"sessions", "events", "after"} =>
          /\ AllBefore(b.rows.refs, r2, b.since, g2)
          /\ \A i \in DOMAIN b.before : Walk[i] = "refs" =>
              AllBefore(b.before[i], b.rows.refs, b.since, g2)
    <3> SUFFICES ASSUME b.pc \in {"sessions", "events", "after"}
                 PROVE  /\ AllBefore(b.rows.refs, r2, b.since, g2)
                        /\ \A i \in DOMAIN b.before : Walk[i] = "refs" =>
                            AllBefore(b.before[i], b.rows.refs, b.since, g2)
      OBVIOUS
    <3>1. b.rows.refs \in [Sessions -> Nat] /\ AllBefore(b.rows.refs, r1, b.since, g1)
      BY DEF RebuildOK, RowsType
    <3>2. \A i \in DOMAIN b.before : Walk[i] = "refs" =>
              AllBefore(b.before[i], b.rows.refs, b.since, g1)
      BY DEF RebuildOK
    <3> QED
      BY <2>1, <3>1, <3>2, AllBeforeStays, DropsStay
  <2>5. b.pc \in {"events", "after"} =>
        \A s \in Sessions \ b.rows.todo :
            /\ Before(b.rows.events[s], f2[s], s, b.since, g2)
            /\ \A i \in DOMAIN b.before : Walk[i] = s =>
                Before(b.before[i], b.rows.events[s], s, b.since, g2)
    <3> SUFFICES ASSUME b.pc \in {"events", "after"}, NEW s \in Sessions, s \notin b.rows.todo
                 PROVE  /\ Before(b.rows.events[s], f2[s], s, b.since, g2)
                        /\ \A i \in DOMAIN b.before : Walk[i] = s =>
                            Before(b.before[i], b.rows.events[s], s, b.since, g2)
      OBVIOUS
    <3>1. b.rows.events[s] \in Nat /\ Before(b.rows.events[s], f1[s], s, b.since, g1)
      BY DEF RebuildOK, RowsType
    <3>2. \A i \in DOMAIN b.before : Walk[i] = s =>
              Before(b.before[i], b.rows.events[s], s, b.since, g1)
      BY DEF RebuildOK
    <3>3. Before(b.rows.events[s], f2[s], s, b.since, g2)
      BY <2>1, <3>1 DEF Later, RecordsOK, Before
    <3> QED
      BY <2>1, <3>2, <3>3, DropsStay
  <2>6. b.pc = "after" => PrintAfter(b.after, b.rows.events, b.rows.refs, b.since, g2)
    BY <2>1, DropsStay DEF RebuildOK
  <2>7. b.pc \in {"write", "install"} => Told(b.rows, b.before, b.since, g2)
    BY <2>1, DropsStay DEF RebuildOK
  <2> QED
    BY <1>2, <2>1, <2>2, <2>3, <2>4, <2>5, <2>6, <2>7 DEF RebuildOK
<1> QED
  BY <1>1, <1>2

LEMMA ReadStays ==
    ASSUME NEW f1, NEW r1, NEW g1, NEW c1, NEW f2, NEW r2, NEW g2, NEW c2,
           Later(f1, r1, g1, c1, f2, r2, g2, c2),
           NEW q, ReadOK(q, f1, r1, g1, c1)
    PROVE  ReadOK(q, f2, r2, g2, c2)
<1>1. CASE q.pc \in {"idle", "open"}
  BY <1>1 DEF ReadOK
<1>2. CASE q.pc \in {"walk", "answered"}
  <2> DEFINE since == q.inode.since
  <2>1. since \in Nat /\ since <= c1 /\ c1 \in Nat /\ c2 \in Nat /\ c1 <= c2
        /\ q.truth.files \in [Sessions -> Nat] /\ q.truth.refs \in [Sessions -> Nat]
    BY <1>2 DEF ReadOK, Later, RecordsOK
  <2>2. since <= c2
    BY <2>1
  <2>3. CASE q.pc = "walk"
    <3>1. /\ Told(q.inode.rows, q.inode.print, since, g1)
          /\ PrintBefore(q.inode.print, q.truth.files, q.truth.refs, since, g1)
          /\ PrintAfter(q.print, q.truth.files, q.truth.refs, since, g1)
          /\ AllBefore(q.truth.files, f1, since, g1) /\ AllBefore(q.truth.refs, r1, since, g1)
      BY <2>3 DEF ReadOK
    <3> HIDE DEF since
    <3>2. /\ Told(q.inode.rows, q.inode.print, since, g2)
          /\ PrintBefore(q.inode.print, q.truth.files, q.truth.refs, since, g2)
          /\ PrintAfter(q.print, q.truth.files, q.truth.refs, since, g2)
      BY <2>1, <3>1, DropsStay
    <3>3. AllBefore(q.truth.files, f2, since, g2) /\ AllBefore(q.truth.refs, r2, since, g2)
      BY <2>1, <3>1, AllBeforeStays
    <3> QED
      BY <2>2, <2>3, <3>2, <3>3 DEF ReadOK, since
  <2>4. CASE q.pc = "answered"
    <3>1. \A s \in Sessions : g1[s] > since => g2[s] > since
      BY <2>1 DEF Later, RecordsOK
    <3> QED
      BY <2>2, <2>4, <3>1 DEF ReadOK
  <2> QED
    BY <1>2, <2>3, <2>4
<1> QED
  BY <1>1, <1>2 DEF ReadOK

-----------------------------------------------------------------------------
(* Steps that change records, or remove the index                           *)

LEMMA RecordsChange ==
    ASSUME IInv, TypeInv', rb' = rb, rd' = rd, db' = db,
           Later(files, refs, gone, clock, files', refs', gone', clock')
    PROVE  IInv'
<1>1. IndexOK(db, files', refs', gone', clock')
  BY IndexStays DEF IInv
<1>2. \A r \in Rebuilders : RebuildOK(rb[r], files', refs', gone', clock')
  BY RebuildStays DEF IInv
<1>3. \A d \in Readers : ReadOK(rd[d], files', refs', gone', clock')
  BY ReadStays DEF IInv
<1> QED
  BY <1>1, <1>2, <1>3 DEF IInv

LEMMA StepAppendEvent ==
    ASSUME IInv, NEW s \in Sessions, AppendEvent(s)
    PROVE  IInv'
<1>1. /\ files' = [files EXCEPT ![s] = clock + 1] /\ clock' = clock + 1
      /\ refs' = refs /\ gone' = gone /\ manual' = manual /\ db' = db /\ rb' = rb /\ rd' = rd
      /\ editor' = editor
  BY DEF AppendEvent, Tick
<1>2. Later(files, refs, gone, clock, files', refs', gone', clock')
  BY <1>1 DEF IInv, TypeInv, RecordsOK, Later
<1>3. TypeInv'
  BY <1>1, <1>2 DEF IInv, TypeInv, Later
<1> QED
  BY <1>1, <1>2, <1>3, RecordsChange

LEMMA StepPublishRef ==
    ASSUME IInv, NEW s \in Sessions, PublishRef(s)
    PROVE  IInv'
<1>1. /\ refs' = [refs EXCEPT ![s] = clock + 1] /\ clock' = clock + 1
      /\ files' = files /\ gone' = gone /\ manual' = manual /\ db' = db /\ rb' = rb /\ rd' = rd
      /\ editor' = editor
  BY DEF PublishRef, Tick
<1>2. Later(files, refs, gone, clock, files', refs', gone', clock')
  BY <1>1 DEF IInv, TypeInv, RecordsOK, Later
<1>3. TypeInv'
  BY <1>1, <1>2 DEF IInv, TypeInv, Later
<1> QED
  BY <1>1, <1>2, <1>3, RecordsChange

LEMMA StepSaveManual ==
    ASSUME IInv, SaveManual
    PROVE  IInv'
<1>1. /\ manual' = clock + 1 /\ clock' = clock + 1
      /\ files' = files /\ refs' = refs /\ gone' = gone /\ db' = db /\ rb' = rb /\ rd' = rd
      /\ editor'.pc = "remove"
  BY DEF SaveManual, Tick, IdleEditor
<1>2. Later(files, refs, gone, clock, files', refs', gone', clock')
  BY <1>1 DEF IInv, TypeInv, RecordsOK, Later
<1>3. TypeInv'
  BY <1>1, <1>2 DEF IInv, TypeInv, Later, RecordsOK
<1> QED
  BY <1>1, <1>2, <1>3, RecordsChange

LEMMA StepDropFiles ==
    ASSUME IInv, NEW s \in Sessions, DropFiles(s)
    PROVE  IInv'
<1>1. /\ files' = [files EXCEPT ![s] = 0] /\ gone' = [gone EXCEPT ![s] = clock + 1]
      /\ clock' = clock + 1
      /\ refs' = refs /\ manual' = manual /\ db' = db /\ rb' = rb /\ rd' = rd
      /\ editor'.pc = "refs" /\ editor'.session = s
  BY DEF DropFiles, Tick
<1>2. Later(files, refs, gone, clock, files', refs', gone', clock')
  BY <1>1 DEF IInv, TypeInv, RecordsOK, Later
<1>3. TypeInv'
  BY <1>1, <1>2 DEF IInv, TypeInv, Later
<1> QED
  BY <1>1, <1>2, <1>3, RecordsChange

LEMMA StepDropRefs ==
    ASSUME IInv, DropRefs
    PROVE  IInv'
<1> DEFINE s == editor.session
<1>1. /\ refs' = [refs EXCEPT ![s] = 0] /\ gone' = [gone EXCEPT ![s] = clock + 1]
      /\ clock' = clock + 1
      /\ files' = files /\ manual' = manual /\ db' = db /\ rb' = rb /\ rd' = rd
      /\ editor' = [editor EXCEPT !.pc = "remove"]
  BY DEF DropRefs
<1>2. s \in Sessions
  BY DEF DropRefs, IInv, TypeInv
<1>3. Later(files, refs, gone, clock, files', refs', gone', clock')
  <2> HIDE DEF s
  <2> QED
    BY <1>1, <1>2 DEF IInv, TypeInv, RecordsOK, Later
<1>4. TypeInv'
  BY <1>1, <1>3 DEF IInv, TypeInv, Later
<1> QED
  BY <1>1, <1>3, <1>4, RecordsChange

LEMMA StepInvalidate ==
    ASSUME IInv, Invalidate
    PROVE  IInv'
<1>1. /\ files' = files /\ refs' = refs /\ gone' = gone /\ clock' = clock /\ manual' = manual
      /\ rb' = rb /\ rd' = rd /\ db' = NoFile /\ editor' = IdleEditor
  BY DEF Invalidate, records
<1>2. TypeInv'
  BY <1>1 DEF IInv, TypeInv, IdleEditor
<1>3. IndexOK(db', files', refs', gone', clock')
  BY <1>1 DEF IndexOK, NoFile
<1> QED
  BY <1>1, <1>2, <1>3 DEF IInv

-----------------------------------------------------------------------------
(* Steps of a rebuild                                                       *)

LEMMA RebuildKept ==
    ASSUME IInv, NEW r \in Rebuilders, NEW b, Rebuilding(r, b),
           RebuildOK(b, files, refs, gone, clock), IndexOK(db', files, refs, gone, clock)
    PROVE  IInv'
<1>1. /\ files' = files /\ refs' = refs /\ gone' = gone /\ clock' = clock /\ manual' = manual
      /\ rb' = [rb EXCEPT ![r] = b] /\ rd' = rd /\ editor' = editor
  BY DEF Rebuilding, records
<1>2. TypeInv'
  BY <1>1 DEF IInv, TypeInv
<1>3. \A t \in Rebuilders : RebuildOK(rb'[t], files, refs, gone, clock)
  <2> TAKE t \in Rebuilders
  <2>1. rb'[t] = IF t = r THEN b ELSE rb[t]
    BY <1>1 DEF IInv, TypeInv
  <2> QED
    BY <2>1 DEF IInv
<1> QED
  BY <1>1, <1>2, <1>3 DEF IInv

LEMMA IdleRebuildOK == RebuildOK(IdleRebuild, files, refs, gone, clock)
  BY DEF RebuildOK, Shaped, IdleRebuild, Labels

\* An attempt starts from nothing, now.
LEMMA AttemptOK ==
    ASSUME TypeInv, NEW n
    PROVE  RebuildOK(Attempt(n), files, refs, gone, clock)
<1> DEFINE b == Attempt(n)
<1>1. b.since \in Nat /\ b.since <= clock
  BY DEF TypeInv, RecordsOK, Attempt
<1>2. PrintBefore(b.before, files, refs, b.since, gone) /\ Len(b.before) < Len(Walk)
  BY NothingRead DEF Attempt
<1> QED
  BY <1>1, <1>2 DEF Attempt, RebuildOK, Shaped, Labels

LEMMA StepStartRebuild ==
    ASSUME IInv, NEW r \in Rebuilders, StartRebuild(r)
    PROVE  IInv'
<1>1. Rebuilding(r, Attempt(1)) /\ db' = db
  BY DEF StartRebuild
<1>2. RebuildOK(Attempt(1), files, refs, gone, clock)
  BY AttemptOK DEF IInv
<1> QED
  BY <1>1, <1>2, RebuildKept DEF IInv

LEMMA StepFingerprintBefore ==
    ASSUME IInv, NEW r \in Rebuilders, FingerprintBefore(r)
    PROVE  IInv'
<1> DEFINE b == rb[r]
           print == WalkOn(b.before)
           next == IF Walked(print) THEN "refs" ELSE "before"
           c == [pc |-> next, try |-> b.try,
                 since |-> b.since, before |-> print, after |-> b.after, rows |-> b.rows]
<1>1. b.pc = "before" /\ db' = db
      /\ Rebuilding(r, [b EXCEPT !.before = print, !.pc = next])
  BY DEF FingerprintBefore
<1>2. RebuildOK(b, files, refs, gone, clock) /\ TypeInv
  BY DEF IInv
<1>3. Shaped(b) /\ b.since \in Nat /\ b.since <= clock /\ b.after = Nothing /\ Len(b.before) < Len(Walk)
      /\ PrintBefore(b.before, files, refs, b.since, gone)
  BY <1>1, <1>2 DEF RebuildOK
<1>4. [b EXCEPT !.before = print, !.pc = next] = c
  <2> DEFINE d == [b EXCEPT !.before = print]
  <2> HIDE DEF b, print, next
  <2>1. d = [pc |-> b.pc, try |-> b.try, since |-> b.since, before |-> print,
             after |-> b.after, rows |-> b.rows]
    BY <1>3 DEF Shaped
  <2>2. [d EXCEPT !.pc = next] = c
    <3> HIDE DEF d
    <3> QED
      BY <2>1
  <2> QED
    BY <2>2
<1>5. PrintBefore(print, files, refs, b.since, gone) /\ Len(print) <= Len(Walk)
      /\ Len(print) \in Nat
  <2>1. PrintBefore(print, files, refs, b.since, gone)
    BY <1>2, <1>3, ReadsBefore
  <2> QED
    BY <2>1 DEF PrintBefore, FingerprintSet
<1>6. RebuildOK(c, files, refs, gone, clock)
  <2> HIDE DEF print, b
  <2> QED
    BY <1>3, <1>5, WalkFacts DEF RebuildOK, Shaped, Labels, Walked
<1>7. Rebuilding(r, c)
  BY <1>1, <1>4
<1> HIDE DEF c, b, print
<1> QED
  BY <1>1, <1>6, <1>7, RebuildKept DEF IInv

LEMMA StepCollectRefs ==
    ASSUME IInv, NEW r \in Rebuilders, CollectRefs(r)
    PROVE  IInv'
<1> DEFINE b == rb[r]
           rows == [refs |-> refs, todo |-> {}, events |-> [s \in Sessions |-> 0]]
           c == [pc |-> "sessions", try |-> b.try,
                 since |-> b.since, before |-> b.before, after |-> b.after, rows |-> rows]
<1>1. b.pc = "refs" /\ db' = db /\ Rebuilding(r, [b EXCEPT !.pc = "sessions", !.rows = rows])
  BY DEF CollectRefs
<1>2. RebuildOK(b, files, refs, gone, clock) /\ TypeInv
  BY DEF IInv
<1>3. Shaped(b) /\ b.since \in Nat /\ b.since <= clock /\ b.after = Nothing /\ Len(b.before) = Len(Walk)
      /\ PrintBefore(b.before, files, refs, b.since, gone)
  BY <1>1, <1>2 DEF RebuildOK
<1>4. [b EXCEPT !.pc = "sessions", !.rows = rows] = c
  <2> DEFINE d == [b EXCEPT !.pc = "sessions"]
  <2> HIDE DEF b, rows
  <2>1. d = [pc |-> "sessions", try |-> b.try, since |-> b.since, before |-> b.before,
             after |-> b.after, rows |-> b.rows]
    BY <1>3 DEF Shaped
  <2>2. [d EXCEPT !.rows = rows] = c
    <3> HIDE DEF d
    <3> QED
      BY <2>1
  <2> QED
    BY <2>2
<1>5. RowsType(rows) /\ rows.refs = refs /\ rows.events = [s \in Sessions |-> 0]
  BY <1>2 DEF RowsType, TypeInv, RecordsOK
<1>6. AllBefore(refs, refs, b.since, gone)
  BY <1>2, SameBefore DEF TypeInv, RecordsOK
<1>7. \A i \in DOMAIN b.before : Walk[i] = "refs" => AllBefore(b.before[i], refs, b.since, gone)
  BY <1>3 DEF PrintBefore, AllBefore
<1>8. RebuildOK(c, files, refs, gone, clock)
  <2> HIDE DEF rows, b
  <2> QED
    BY <1>3, <1>5, <1>6, <1>7 DEF RebuildOK, Shaped, Labels
<1>9. Rebuilding(r, c)
  BY <1>1, <1>4
<1> HIDE DEF c, b
<1> QED
  BY <1>1, <1>8, <1>9, RebuildKept DEF IInv

LEMMA StepCollectSessions ==
    ASSUME IInv, NEW r \in Rebuilders, CollectSessions(r)
    PROVE  IInv'
<1> DEFINE b == rb[r]
           found == {s \in Sessions : b.rows.refs[s] # 0 \/ files[s] # 0}
           rows == [refs |-> b.rows.refs, events |-> b.rows.events, todo |-> found]
           c == [pc |-> "events", try |-> b.try,
                 since |-> b.since, before |-> b.before, after |-> b.after, rows |-> rows]
<1>1. b.pc = "sessions" /\ db' = db
      /\ Rebuilding(r, [b EXCEPT !.pc = "events", !.rows.todo = found])
  BY DEF CollectSessions
<1>2. RebuildOK(b, files, refs, gone, clock) /\ TypeInv
  BY DEF IInv
<1>3. Shaped(b) /\ b.since \in Nat /\ b.since <= clock /\ b.after = Nothing /\ Len(b.before) = Len(Walk)
      /\ PrintBefore(b.before, files, refs, b.since, gone)
  BY <1>1, <1>2 DEF RebuildOK
<1>4. RowsType(b.rows) /\ AllBefore(b.rows.refs, refs, b.since, gone)
      /\ b.rows.events = [s \in Sessions |-> 0]
      /\ \A i \in DOMAIN b.before : Walk[i] = "refs" =>
            AllBefore(b.before[i], b.rows.refs, b.since, gone)
  BY <1>1, <1>2 DEF RebuildOK
<1>5. [b EXCEPT !.pc = "events", !.rows.todo = found] = c
  <2>1. b.rows = [refs |-> b.rows.refs, events |-> b.rows.events, todo |-> b.rows.todo]
    BY <1>4 DEF RowsType
  <2> HIDE DEF b, found
  <2>2. [b.rows EXCEPT !.todo = found] = rows
    BY <2>1
  <2> DEFINE d == [b EXCEPT !.pc = "events"]
  <2>3. d = [pc |-> "events", try |-> b.try, since |-> b.since, before |-> b.before,
             after |-> b.after, rows |-> b.rows]
    BY <1>3 DEF Shaped
  <2>4. [d EXCEPT !.rows.todo = found] = c
    <3> HIDE DEF d, rows
    <3>1. d.rows = b.rows
      BY <2>3
    <3>2. [d EXCEPT !.rows = [d.rows EXCEPT !.todo = found]] = c
      <4> DEFINE new == [d.rows EXCEPT !.todo = found]
      <4>1. new = rows
        BY <2>2, <3>1
      <4>2. [d EXCEPT !.rows = new] = c
        <5> HIDE DEF new
        <5> QED
          BY <2>3, <4>1
      <4> QED
        BY <4>2
    <3> QED
      BY <3>2
  <2> QED
    BY <2>4
<1>6. RowsType(rows) /\ rows.refs = b.rows.refs /\ rows.events = b.rows.events /\ rows.todo = found
  BY <1>4 DEF RowsType
<1>7. \A s \in Sessions \ found :
            /\ Before(rows.events[s], files[s], s, b.since, gone)
            /\ \A i \in DOMAIN b.before : Walk[i] = s =>
                Before(b.before[i], rows.events[s], s, b.since, gone)
  <2> TAKE s \in Sessions \ found
  <2>1. files[s] = 0 /\ rows.events[s] = 0
    BY <1>4
  <2>2. \A i \in DOMAIN b.before : Walk[i] = s => Before(b.before[i], files[s], s, b.since, gone)
    BY <1>3 DEF PrintBefore
  <2> QED
    BY <2>1, <2>2 DEF Before
<1>8. \A s \in found : rows.events[s] = 0
  BY <1>4
<1>9. RebuildOK(c, files, refs, gone, clock)
  <2> HIDE DEF rows, b, found
  <2> QED
    BY <1>3, <1>4, <1>6, <1>7, <1>8 DEF RebuildOK, Shaped, Labels
<1>10. Rebuilding(r, c)
  BY <1>1, <1>5
<1> HIDE DEF c, b
<1> QED
  BY <1>1, <1>9, <1>10, RebuildKept DEF IInv

LEMMA StepCollectEvents ==
    ASSUME IInv, NEW r \in Rebuilders, CollectEvents(r)
    PROVE  IInv'
<1> DEFINE b == rb[r]
<1>1. b.pc = "events" /\ db' = db
  BY DEF CollectEvents
<1>2. RebuildOK(b, files, refs, gone, clock) /\ TypeInv
  BY DEF IInv
<1>3. Shaped(b) /\ b.since \in Nat /\ b.since <= clock /\ b.after = Nothing /\ Len(b.before) = Len(Walk)
      /\ PrintBefore(b.before, files, refs, b.since, gone)
  BY <1>1, <1>2 DEF RebuildOK
<1>4. RowsType(b.rows) /\ AllBefore(b.rows.refs, refs, b.since, gone)
      /\ \A i \in DOMAIN b.before : Walk[i] = "refs" =>
            AllBefore(b.before[i], b.rows.refs, b.since, gone)
  BY <1>1, <1>2 DEF RebuildOK
<1>5. \A s \in Sessions \ b.rows.todo :
            /\ Before(b.rows.events[s], files[s], s, b.since, gone)
            /\ \A i \in DOMAIN b.before : Walk[i] = s =>
                Before(b.before[i], b.rows.events[s], s, b.since, gone)
  BY <1>1, <1>2 DEF RebuildOK
<1>6. \A s \in b.rows.todo : b.rows.events[s] = 0
  BY <1>1, <1>2 DEF RebuildOK
<1>7. ASSUME NEW s \in b.rows.todo,
             Rebuilding(r, [b EXCEPT !.rows =
                                   [refs |-> b.rows.refs, todo |-> b.rows.todo \ {s},
                                    events |-> [b.rows.events EXCEPT ![s] = files[s]]]])
      PROVE  IInv'
  <2> DEFINE todo == b.rows.todo \ {s}
             events == [b.rows.events EXCEPT ![s] = files[s]]
             rows == [refs |-> b.rows.refs, events |-> events, todo |-> todo]
             c == [pc |-> "events", try |-> b.try,
                   since |-> b.since, before |-> b.before, after |-> b.after, rows |-> rows]
  <2>1. s \in Sessions /\ b.rows = [refs |-> b.rows.refs, events |-> b.rows.events,
                                    todo |-> b.rows.todo]
    BY <1>4 DEF RowsType
  <2>4. Rebuilding(r, [b EXCEPT !.rows = rows])
    BY <1>7
  <2>5. [b EXCEPT !.rows = rows] = c
    <3> HIDE DEF rows, b
    <3> QED
      BY <1>1, <1>3 DEF Shaped
  <2>6. Rebuilding(r, c)
    <3> HIDE DEF rows, c, b
    <3> QED
      BY <2>4, <2>5
  <2>7. b.rows.events \in [Sessions -> Nat] /\ b.rows.refs \in [Sessions -> Nat]
        /\ b.rows.todo \subseteq Sessions /\ files \in [Sessions -> Nat]
    BY <1>2, <1>4 DEF RowsType, TypeInv, RecordsOK
  <2>8. events \in [Sessions -> Nat] /\ events[s] = files[s]
        /\ \A t \in Sessions \ {s} : events[t] = b.rows.events[t]
    <3> HIDE DEF b
    <3> QED
      BY <2>1, <2>7
  <2>9. todo \subseteq Sessions /\ \A t \in todo : events[t] = 0
    <3> HIDE DEF events, b
    <3> QED
      BY <1>6, <2>7, <2>8
  <2>10. RowsType(rows)
    <3> HIDE DEF events, todo, b
    <3> QED
      BY <2>7, <2>8, <2>9 DEF RowsType
  <2>11. \A t \in Sessions \ todo :
            /\ Before(events[t], files[t], t, b.since, gone)
            /\ \A i \in DOMAIN b.before : Walk[i] = t =>
                Before(b.before[i], events[t], t, b.since, gone)
    <3> TAKE t \in Sessions \ todo
    <3>1. CASE t = s
      <4>1. \A i \in DOMAIN b.before : Walk[i] = t => Before(b.before[i], files[t], t, b.since, gone)
        BY <1>3, <2>1, <3>1 DEF PrintBefore
      <4>2. Before(files[t], files[t], t, b.since, gone)
        <5>1. files[t] \in Nat
          BY <2>7, <2>1, <3>1
        <5> QED
          BY <5>1 DEF Before
      <4>3. events[t] = files[t]
        BY <2>8, <3>1
      <4> HIDE DEF events, b
      <4> QED
        BY <4>1, <4>2, <4>3
    <3>2. CASE t # s
      <4>1. events[t] = b.rows.events[t] /\ t \notin b.rows.todo
        BY <2>8, <3>2
      <4> HIDE DEF events, b
      <4> QED
        BY <1>5, <4>1
    <3> QED
      BY <3>1, <3>2
  <2>12. RebuildOK(c, files, refs, gone, clock)
    <3>1. rows.refs = b.rows.refs /\ rows.events = events /\ rows.todo = todo
      OBVIOUS
    <3> HIDE DEF events, todo, b, rows
    <3> QED
      BY <1>3, <1>4, <2>9, <2>10, <2>11, <3>1 DEF RebuildOK, Shaped, Labels
  <2> HIDE DEF c, b
  <2> QED
    BY <1>1, <2>6, <2>12, RebuildKept DEF IInv
<1>8. ASSUME b.rows.todo = {}, Rebuilding(r, [b EXCEPT !.pc = "after"])
      PROVE  IInv'
  <2> DEFINE c == [pc |-> "after", try |-> b.try, since |-> b.since,
                   before |-> b.before, after |-> b.after, rows |-> b.rows]
  <2>1. [b EXCEPT !.pc = "after"] = c
    <3> HIDE DEF b
    <3> QED
      BY <1>3 DEF Shaped
  <2>2. PrintAfter(b.after, b.rows.events, b.rows.refs, b.since, gone) /\ Len(b.after) < Len(Walk)
    BY <1>3, NothingRead
  <2>3. RebuildOK(c, files, refs, gone, clock)
    <3> HIDE DEF b
    <3> QED
      BY <1>3, <1>4, <1>5, <1>8, <2>2 DEF RebuildOK, Shaped, Labels
  <2>4. Rebuilding(r, c)
    BY <1>8, <2>1
  <2> HIDE DEF c, b
  <2> QED
    BY <1>1, <2>3, <2>4, RebuildKept DEF IInv
<1> QED
  BY <1>7, <1>8 DEF CollectEvents

LEMMA StepFingerprintAfter ==
    ASSUME IInv, NEW r \in Rebuilders, FingerprintAfter(r)
    PROVE  IInv'
<1> DEFINE a == rb[r]
           print == WalkOn(a.after)
           b == [a EXCEPT !.after = WalkOn(@)]
<1>1. a.pc = "after" /\ db' = db
      /\ Rebuilding(r, IF ~Walked(b.after) THEN b
                       ELSE IF Unchanged(b)
                            THEN [pc |-> "write", try |-> 0, since |-> b.since,
                                  before |-> b.before, after |-> Nothing, rows |-> b.rows]
                       ELSE IF b.try < Attempts THEN Attempt(b.try + 1)
                       ELSE IdleRebuild)
  BY DEF FingerprintAfter
<1>2. RebuildOK(a, files, refs, gone, clock) /\ TypeInv
  BY DEF IInv
<1>3. Shaped(a) /\ a.since \in Nat /\ a.since <= clock /\ Len(a.before) = Len(Walk)
      /\ PrintBefore(a.before, files, refs, a.since, gone)
      /\ RowsType(a.rows) /\ AllBefore(a.rows.refs, refs, a.since, gone)
      /\ \A i \in DOMAIN a.before : Walk[i] = "refs" =>
            AllBefore(a.before[i], a.rows.refs, a.since, gone)
  BY <1>1, <1>2 DEF RebuildOK
<1>4. \A s \in Sessions :
            /\ Before(a.rows.events[s], files[s], s, a.since, gone)
            /\ \A i \in DOMAIN a.before : Walk[i] = s =>
                Before(a.before[i], a.rows.events[s], s, a.since, gone)
  BY <1>1, <1>2 DEF RebuildOK
<1>5. a.rows.todo = {} /\ Len(a.after) < Len(Walk)
      /\ PrintAfter(a.after, a.rows.events, a.rows.refs, a.since, gone)
  BY <1>1, <1>2 DEF RebuildOK
<1>6. b = [pc |-> "after", try |-> a.try, since |-> a.since, before |-> a.before,
           after |-> print, rows |-> a.rows]
  <2> DEFINE p == print
  <2>1. [a EXCEPT !.after = p] = [pc |-> "after", try |-> a.try, since |-> a.since,
                                  before |-> a.before, after |-> p, rows |-> a.rows]
    <3> HIDE DEF a, p
    <3> QED
      BY <1>1, <1>3 DEF Shaped
  <2> QED
    BY <2>1
<1>7. PrintAfter(print, a.rows.events, a.rows.refs, a.since, gone)
  <2>1. AllBefore(a.rows.events, files, a.since, gone)
    BY <1>4 DEF AllBefore
  <2> QED
    BY <1>2, <1>3, <1>5, <2>1, ReadsAfter
<1>8. Len(print) <= Len(Walk) /\ Len(print) \in Nat
  BY <1>7 DEF PrintAfter, FingerprintSet
<1>9. CASE ~Walked(b.after)
  <2>1. Rebuilding(r, b)
    BY <1>1, <1>9
  <2>2. Len(print) < Len(Walk)
    BY <1>6, <1>8, <1>9, WalkFacts DEF Walked
  <2>3. RebuildOK(b, files, refs, gone, clock)
    <3> HIDE DEF a, print, b
    <3> QED
      BY <1>3, <1>4, <1>5, <1>6, <1>7, <2>2 DEF RebuildOK, Shaped, Labels
  <2> HIDE DEF b
  <2> QED
    BY <1>1, <2>1, <2>3, RebuildKept DEF IInv
<1>10. CASE Walked(b.after) /\ Unchanged(b)
  <2> DEFINE c == [pc |-> "write", try |-> 0, since |-> a.since, before |-> a.before,
                   after |-> Nothing, rows |-> a.rows]
  <2>1. Rebuilding(r, [pc |-> "write", try |-> 0, since |-> b.since, before |-> b.before,
                       after |-> Nothing, rows |-> b.rows])
    BY <1>1, <1>10
  <2>2. b.since = a.since /\ b.before = a.before /\ b.rows = a.rows
    BY <1>6
  <2>3. a.before = print
    BY <1>6, <1>10 DEF Unchanged
  <2>4. PrintBefore(a.before, a.rows.events, a.rows.refs, a.since, gone)
    BY <1>3, <1>4 DEF PrintBefore, AllBefore
  <2>5. Told(a.rows, a.before, a.since, gone)
    BY <1>3, <1>7, <2>3, <2>4 DEF Told
  <2>6. RebuildOK(c, files, refs, gone, clock)
    <3> HIDE DEF a
    <3> QED
      BY <1>3, <2>5 DEF RebuildOK, Shaped, Labels
  <2>7. Rebuilding(r, c)
    <3> HIDE DEF a, b
    <3> QED
      BY <2>1, <2>2
  <2> HIDE DEF c
  <2> QED
    BY <1>1, <2>6, <2>7, RebuildKept DEF IInv
<1>11. CASE Walked(b.after) /\ ~Unchanged(b)
  <2>1. CASE b.try < Attempts
    <3>1. Rebuilding(r, Attempt(b.try + 1))
      BY <1>1, <1>11, <2>1
    <3>2. RebuildOK(Attempt(b.try + 1), files, refs, gone, clock)
      BY <1>2, AttemptOK
    <3> HIDE DEF b
    <3> QED
      BY <1>1, <3>1, <3>2, RebuildKept DEF IInv
  <2>2. CASE ~(b.try < Attempts)
    <3>1. Rebuilding(r, IdleRebuild)
      BY <1>1, <1>11, <2>2
    <3> QED
      BY <1>1, <3>1, IdleRebuildOK, RebuildKept DEF IInv
  <2> QED
    BY <2>1, <2>2
<1> QED
  BY <1>9, <1>10, <1>11

LEMMA StepWriteTemp ==
    ASSUME IInv, NEW r \in Rebuilders, WriteTemp(r)
    PROVE  IInv'
<1> DEFINE b == rb[r]
           c == [pc |-> "install", try |-> b.try, since |-> b.since,
                 before |-> b.before, after |-> b.after, rows |-> b.rows]
<1>1. b.pc = "write" /\ db' = db
      /\ Rebuilding(r, IF dir THEN [b EXCEPT !.pc = "install"] ELSE IdleRebuild)
  BY DEF WriteTemp
<1>2. RebuildOK(b, files, refs, gone, clock)
  BY DEF IInv
<1>3. [b EXCEPT !.pc = "install"] = c
  <2>1. Shaped(b)
    BY <1>2 DEF RebuildOK
  <2> HIDE DEF b
  <2> QED
    BY <2>1 DEF Shaped
<1>4. RebuildOK(c, files, refs, gone, clock)
  <2> HIDE DEF b
  <2> QED
    BY <1>1, <1>2 DEF RebuildOK, Shaped, Labels
<1>5. CASE dir
  <2>1. Rebuilding(r, c)
    BY <1>1, <1>3, <1>5
  <2> HIDE DEF b, c
  <2> QED
    BY <1>1, <1>4, <2>1, RebuildKept DEF IInv
<1>6. CASE ~dir
  <2>1. Rebuilding(r, IdleRebuild)
    BY <1>1, <1>6
  <2> QED
    BY <1>1, <2>1, IdleRebuildOK, RebuildKept DEF IInv
<1> QED
  BY <1>5, <1>6

LEMMA StepInstall ==
    ASSUME IInv, NEW r \in Rebuilders, Install(r)
    PROVE  IInv'
<1> DEFINE b == rb[r]
           x == Index(b.rows, b.before, b.since)
<1>1. b.pc = "install" /\ db' \in {db, x} /\ Rebuilding(r, IdleRebuild)
  BY DEF Install
<1>2. RebuildOK(b, files, refs, gone, clock)
  BY DEF IInv
<1>3. b.since \in Nat /\ b.since <= clock /\ Told(b.rows, b.before, b.since, gone)
      /\ PrintBefore(b.before, files, refs, b.since, gone)
  BY <1>1, <1>2 DEF RebuildOK
<1>4. IndexOK(x, files, refs, gone, clock)
  <2> HIDE DEF b
  <2> QED
    BY <1>3 DEF IndexOK, Index
<1> HIDE DEF x
<1>5. IndexOK(db', files, refs, gone, clock)
  BY <1>1, <1>4 DEF IInv
<1> QED
  BY <1>1, <1>5, IdleRebuildOK, RebuildKept

-----------------------------------------------------------------------------
(* Steps of a query                                                         *)

LEMMA ReadKept ==
    ASSUME IInv, NEW d \in Readers, NEW q, Reading(d, q),
           ReadOK(q, files, refs, gone, clock), IndexOK(db', files, refs, gone, clock)
    PROVE  IInv'
<1>1. /\ files' = files /\ refs' = refs /\ gone' = gone /\ clock' = clock /\ manual' = manual
      /\ rd' = [rd EXCEPT ![d] = q] /\ rb' = rb /\ editor' = editor
  BY DEF Reading, records
<1>2. TypeInv'
  BY <1>1 DEF IInv, TypeInv
<1>3. \A e \in Readers : ReadOK(rd'[e], files, refs, gone, clock)
  <2> TAKE e \in Readers
  <2>1. rd'[e] = IF e = d THEN q ELSE rd[e]
    BY <1>1 DEF IInv, TypeInv
  <2> QED
    BY <2>1 DEF IInv
<1> QED
  BY <1>1, <1>2, <1>3 DEF IInv

LEMMA IdleReaderOK == ReadOK(IdleReader, files, refs, gone, clock)
  BY DEF ReadOK, IdleReader

LEMMA StepExists ==
    ASSUME IInv, NEW d \in Readers, Exists(d)
    PROVE  IInv'
<1> DEFINE q == [IdleReader EXCEPT !.pc = "open"]
<1>1. Reading(d, q) /\ db' = db
  BY DEF Exists
<1>2. ReadOK(q, files, refs, gone, clock)
  BY DEF ReadOK, IdleReader
<1> HIDE DEF q
<1> QED
  BY <1>1, <1>2, ReadKept DEF IInv

LEMMA StepOpenStore ==
    ASSUME IInv, NEW d \in Readers, OpenStore(d)
    PROVE  IInv'
<1> DEFINE q == rd[d]
           truth == [files |-> files, refs |-> refs]
           n == [q EXCEPT !.pc = "walk", !.inode = Opened, !.truth = truth]
           c == [pc |-> "walk", inode |-> Opened, print |-> Nothing, truth |-> truth]
<1>1. q.pc = "open" /\ db' = Opened
      /\ Reading(d, IF StructurallyHealthy(Opened) THEN n ELSE IdleReader)
  BY DEF OpenStore
<1>2. ReadOK(q, files, refs, gone, clock) /\ TypeInv /\ IndexOK(db, files, refs, gone, clock)
  BY DEF IInv
<1>3. IndexOK(Opened, files, refs, gone, clock)
  BY <1>2 DEF Opened, EmptyFile, IndexOK
<1>4. CASE StructurallyHealthy(Opened)
  <2>1. Reading(d, n)
    BY <1>1, <1>4
  <2>2. n = c
    <3>1. q = [pc |-> "open", inode |-> q.inode, print |-> Nothing, truth |-> q.truth]
      BY <1>1, <1>2 DEF ReadOK
    <3> DEFINE n1 == [q EXCEPT !.pc = "walk"]
               n2 == [n1 EXCEPT !.inode = Opened]
               n3 == [n2 EXCEPT !.truth = truth]
    <3> HIDE DEF q, truth
    <3>2. n1 = [pc |-> "walk", inode |-> q.inode, print |-> Nothing, truth |-> q.truth]
      BY <3>1
    <3>3. n2 = [pc |-> "walk", inode |-> Opened, print |-> Nothing, truth |-> q.truth]
      <4> HIDE DEF n1
      <4> QED
        BY <3>2
    <3>4. n3 = c
      <4> HIDE DEF n2
      <4> QED
        BY <3>3
    <3> QED
      BY <3>4
  <2>3. Opened.kind = "index"
    BY <1>4 DEF StructurallyHealthy
  <2>4. Opened.since \in Nat /\ Opened.since <= clock
        /\ Told(Opened.rows, Opened.print, Opened.since, gone)
        /\ PrintBefore(Opened.print, files, refs, Opened.since, gone)
    BY <1>3, <2>3 DEF IndexOK
  <2>5. files \in [Sessions -> Nat] /\ refs \in [Sessions -> Nat]
    BY <1>2 DEF TypeInv, RecordsOK
  <2>6. AllBefore(files, files, Opened.since, gone) /\ AllBefore(refs, refs, Opened.since, gone)
    BY <2>5, SameBefore
  <2>7. PrintAfter(Nothing, files, refs, Opened.since, gone) /\ Len(Nothing) < Len(Walk)
    BY NothingRead
  <2>8. ReadOK(c, files, refs, gone, clock)
    BY <2>3, <2>4, <2>5, <2>6, <2>7 DEF ReadOK
  <2>9. Reading(d, c)
    <3> HIDE DEF n, c
    <3> QED
      BY <2>1, <2>2
  <2> HIDE DEF c
  <2> QED
    BY <1>1, <1>3, <2>8, <2>9, ReadKept
<1>5. CASE ~StructurallyHealthy(Opened)
  <2>1. Reading(d, IdleReader)
    BY <1>1, <1>5
  <2> QED
    BY <1>1, <1>3, <2>1, IdleReaderOK, ReadKept
<1> QED
  BY <1>4, <1>5

\* A fingerprint that agrees with the index has the rows and the truth between its two
\* readings of each part.
LEMMA HealthyTold ==
    ASSUME NEW rows, NEW p, NEW f \in [Sessions -> Nat], NEW rf \in [Sessions -> Nat],
           NEW since \in Nat, NEW g, Told(rows, p, since, g),
           PrintBefore(p, f, rf, since, g), PrintAfter(p, f, rf, since, g),
           NEW s \in Sessions
    PROVE  (rows.events[s] = f[s] /\ rows.refs[s] = rf[s]) \/ g[s] > since
<1>1. rows.events \in [Sessions -> Nat] /\ rows.refs \in [Sessions -> Nat] /\ Len(p) = Len(Walk)
      /\ PrintBefore(p, rows.events, rows.refs, since, g)
      /\ PrintAfter(p, rows.events, rows.refs, since, g)
  BY DEF Told, RowsType
<1>2. DOMAIN p = 1 .. Len(Walk)
  BY <1>1 DEF PrintBefore, FingerprintSet
<1>3. PICK i \in DOMAIN p : Walk[i] = s
  BY <1>2, WalkFacts
<1>4. /\ p[i] \in Nat
      /\ Before(p[i], f[s], s, since, g) /\ Before(f[s], p[i], s, since, g)
      /\ Before(p[i], rows.events[s], s, since, g) /\ Before(rows.events[s], p[i], s, since, g)
  BY <1>1, <1>3 DEF PrintBefore, PrintAfter
<1>5. rows.events[s] = f[s] \/ g[s] > since
  <2>1. rows.events[s] \in Nat /\ f[s] \in Nat
    BY <1>1
  <2> QED
    BY <1>4, <2>1 DEF Before
<1> DEFINE k == Len(Walk)
<1>6. k \in DOMAIN p /\ Walk[k] = "refs"
  BY <1>2, WalkFacts
<1>7. /\ p[k] \in [Sessions -> Nat]
      /\ Before(p[k][s], rf[s], s, since, g) /\ Before(rf[s], p[k][s], s, since, g)
      /\ Before(p[k][s], rows.refs[s], s, since, g) /\ Before(rows.refs[s], p[k][s], s, since, g)
  <2> HIDE DEF k
  <2> QED
    BY <1>1, <1>6 DEF PrintBefore, PrintAfter
<1>8. rows.refs[s] = rf[s] \/ g[s] > since
  <2>1. rows.refs[s] \in Nat /\ rf[s] \in Nat /\ p[k][s] \in Nat
    BY <1>1, <1>7
  <2> HIDE DEF k
  <2> QED
    BY <1>7, <2>1 DEF Before
<1> QED
  BY <1>5, <1>8

LEMMA StepFingerprintNow ==
    ASSUME IInv, NEW d \in Readers, FingerprintNow(d)
    PROVE  IInv'
<1> DEFINE a == rd[d]
           print == WalkOn(a.print)
           q == [a EXCEPT !.print = WalkOn(@)]
<1>1. a.pc = "walk" /\ db' = db
      /\ Reading(d, IF ~Walked(q.print) THEN q
                     ELSE IF Healthy(q.inode, q.print)
                          THEN [q EXCEPT !.pc = "answered", !.print = Nothing]
                     ELSE IdleReader)
  BY DEF FingerprintNow
<1>2. ReadOK(a, files, refs, gone, clock) /\ TypeInv
  BY DEF IInv
<1>3. /\ a = [pc |-> "walk", inode |-> a.inode, print |-> a.print, truth |-> a.truth]
      /\ a.inode.kind = "index" /\ a.inode.since \in Nat /\ a.inode.since <= clock
      /\ a.truth.files \in [Sessions -> Nat] /\ a.truth.refs \in [Sessions -> Nat]
  BY <1>1, <1>2 DEF ReadOK
<1>4. /\ Len(a.print) < Len(Walk)
      /\ Told(a.inode.rows, a.inode.print, a.inode.since, gone)
      /\ PrintBefore(a.inode.print, a.truth.files, a.truth.refs, a.inode.since, gone)
      /\ PrintAfter(a.print, a.truth.files, a.truth.refs, a.inode.since, gone)
      /\ AllBefore(a.truth.files, files, a.inode.since, gone)
      /\ AllBefore(a.truth.refs, refs, a.inode.since, gone)
  BY <1>1, <1>2 DEF ReadOK
<1>5. PrintAfter(print, a.truth.files, a.truth.refs, a.inode.since, gone)
  BY <1>2, <1>4, ReadsAfter
<1>6. Len(print) <= Len(Walk) /\ Len(print) \in Nat
  BY <1>5 DEF PrintAfter, FingerprintSet
<1>7. q = [pc |-> "walk", inode |-> a.inode, print |-> print, truth |-> a.truth]
  <2> DEFINE p == print
  <2>1. [a EXCEPT !.print = p] = [pc |-> "walk", inode |-> a.inode, print |-> p, truth |-> a.truth]
    <3> HIDE DEF a, p
    <3> QED
      BY <1>3
  <2> QED
    BY <2>1
<1>8. CASE ~Walked(q.print)
  <2>1. Reading(d, q)
    BY <1>1, <1>8
  <2>2. Len(print) < Len(Walk)
    BY <1>6, <1>7, <1>8, WalkFacts DEF Walked
  <2>3. ReadOK(q, files, refs, gone, clock)
    <3> HIDE DEF a, print, q
    <3> QED
      BY <1>3, <1>4, <1>5, <1>7, <2>2 DEF ReadOK
  <2> HIDE DEF q
  <2> QED
    BY <1>1, <2>1, <2>3, ReadKept DEF IInv
<1>9. CASE Walked(q.print) /\ Healthy(q.inode, q.print)
  <2> DEFINE c == [pc |-> "answered", inode |-> a.inode, print |-> Nothing, truth |-> a.truth]
             n == [q EXCEPT !.pc = "answered", !.print = Nothing]
  <2>1. Reading(d, n)
    BY <1>1, <1>9
  <2>2. n = c
    <3> DEFINE n1 == [q EXCEPT !.pc = "answered"]
    <3> HIDE DEF q, a, print
    <3>1. n1 = [pc |-> "answered", inode |-> a.inode, print |-> print, truth |-> a.truth]
      BY <1>7
    <3>2. [n1 EXCEPT !.print = Nothing] = c
      <4> HIDE DEF n1
      <4> QED
        BY <3>1
    <3> QED
      BY <3>2
  <2>3. a.inode.print = print
    BY <1>7, <1>9 DEF Healthy
  <2>4. \A s \in Sessions :
            \/ a.inode.rows.events[s] = a.truth.files[s] /\ a.inode.rows.refs[s] = a.truth.refs[s]
            \/ gone[s] > a.inode.since
    <3> TAKE s \in Sessions
    <3>1. PrintAfter(a.inode.print, a.truth.files, a.truth.refs, a.inode.since, gone)
      BY <1>5, <2>3
    <3> DEFINE x == a.inode
               f == a.truth.files
               rf == a.truth.refs
    <3>2. /\ f \in [Sessions -> Nat] /\ rf \in [Sessions -> Nat] /\ x.since \in Nat
          /\ Told(x.rows, x.print, x.since, gone) /\ PrintBefore(x.print, f, rf, x.since, gone)
          /\ PrintAfter(x.print, f, rf, x.since, gone)
      BY <1>3, <1>4, <3>1
    <3> HIDE DEF x, f, rf
    <3>3. (x.rows.events[s] = f[s] /\ x.rows.refs[s] = rf[s]) \/ gone[s] > x.since
      BY <3>2, HealthyTold
    <3> QED
      BY <3>3 DEF x, f, rf
  <2>5. ReadOK(c, files, refs, gone, clock)
    <3> HIDE DEF a
    <3> QED
      BY <1>3, <2>4 DEF ReadOK
  <2>6. Reading(d, c)
    <3> HIDE DEF n, c
    <3> QED
      BY <2>1, <2>2
  <2> HIDE DEF c
  <2> QED
    BY <1>1, <2>5, <2>6, ReadKept DEF IInv
<1>10. CASE Walked(q.print) /\ ~Healthy(q.inode, q.print)
  <2>1. Reading(d, IdleReader)
    BY <1>1, <1>10
  <2> QED
    BY <1>1, <2>1, IdleReaderOK, ReadKept DEF IInv
<1> QED
  BY <1>8, <1>9, <1>10

LEMMA StepCloseStore ==
    ASSUME IInv, NEW d \in Readers, CloseStore(d)
    PROVE  IInv'
<1>1. Reading(d, IdleReader) /\ db' = db
  BY DEF CloseStore
<1> QED
  BY <1>1, IdleReaderOK, ReadKept DEF IInv

-----------------------------------------------------------------------------
(* The theorems                                                             *)

LEMMA InitInv == ASSUME Init PROVE IInv
<1>1. TypeInv
  BY DEF Init, TypeInv, RecordsOK, IdleEditor
<1>2. IndexOK(db, files, refs, gone, clock)
  BY DEF Init, IndexOK, NoFile
<1>3. \A r \in Rebuilders : RebuildOK(rb[r], files, refs, gone, clock)
  BY IdleRebuildOK DEF Init
<1>4. \A d \in Readers : ReadOK(rd[d], files, refs, gone, clock)
  BY IdleReaderOK DEF Init
<1> QED
  BY <1>1, <1>2, <1>3, <1>4 DEF IInv

LEMMA NextKeeps ==
    ASSUME IInv, [Next]_vars
    PROVE  IInv'
<1>1. ASSUME NEW s \in Sessions, AppendEvent(s) \/ PublishRef(s) \/ DropFiles(s) PROVE IInv'
  BY <1>1, StepAppendEvent, StepPublishRef, StepDropFiles
<1>2. ASSUME NEW r \in Rebuilders, StartRebuild(r) \/ RebuildStep(r) PROVE IInv'
  BY <1>2, StepStartRebuild, StepFingerprintBefore, StepCollectRefs, StepCollectSessions,
     StepCollectEvents, StepFingerprintAfter, StepWriteTemp, StepInstall DEF RebuildStep
<1>3. ASSUME NEW d \in Readers, Exists(d) \/ ReadStep(d) PROVE IInv'
  BY <1>3, StepExists, StepOpenStore, StepFingerprintNow, StepCloseStore DEF ReadStep
<1>4. ASSUME SaveManual \/ DropRefs \/ Invalidate PROVE IInv'
  BY <1>4, StepSaveManual, StepDropRefs, StepInvalidate
<1>5. CASE UNCHANGED vars
  BY <1>5 DEF vars, records, IInv, TypeInv
<1> QED
  BY <1>1, <1>2, <1>3, <1>4, <1>5 DEF Next

\* The inductive invariant of the query index holds in every state.
THEOREM Invariance == Spec => []IInv
<1>1. Init => IInv
  BY InitInv
<1>2. IInv /\ [Next]_vars => IInv'
  BY NextKeeps
<1> QED
  BY <1>1, <1>2, PTL DEF Spec

\* An index that a query found healthy has the records there were when its check began, but
\* for sessions dropped since its rebuild began (Healthy, sourceFingerprint, Rebuild).
THEOREM AnswersAreTrue == Spec => []AnswersTrue
<1>1. IInv => AnswersTrue
  BY DEF IInv, ReadOK, AnswersTrue
<1> QED
  BY <1>1, Invariance, PTL
=============================================================================
