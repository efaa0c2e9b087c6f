--------------------------- MODULE CheckpointTrees ---------------------------
(***************************************************************************)
(* What a checkpoint holds of a directory, and how its files get back      *)
(* (snapshotWorktree, PlanRestoreCommit, restoreCommit and                 *)
(* MaterializeCommit of internal/checkpoint/repo.go).                      *)
(*                                                                         *)
(* A path is the sequence of its names; names are numbers in the order in  *)
(* which a directory lists them.  A tree maps the paths that exist, the    *)
(* root left out, to nodes.  A commit maps the paths of files and links to *)
(* what Git keeps of them (its tree) and, in the mode manifest, to their   *)
(* permissions.                                                            *)
(***************************************************************************)
EXTENDS Naturals, FiniteSets, SequencesExt

CONSTANTS
    Rules,   \* the name .gitignore
    Meta,    \* the name .git: Turnal keeps away from it, and from .turnal
    Scratch, \* the name of the file restoreRegularFile writes before it renames it
    Ignores, \* the paths a version of .gitignore names
    Denied   \* the paths secrets.snapshot_deny_globs names

ASSUME TreesAssumption ==
    /\ {Rules, Meta, Scratch} \subseteq Nat
    /\ DOMAIN Ignores \subseteq Nat

Perms == {"rw", "rwx", "private"}

Dir == [kind |-> "dir", text |-> 0, perm |-> "rwx"]

File(text, perm) == [kind |-> "file", text |-> text, perm |-> perm]

Link(text) == [kind |-> "link", text |-> text, perm |-> "rwx"]

EmptyTree == <<>>

\* filepath.WalkDir and sort.Slice: by name, a directory before what is in it.
Precedes(p, q) ==
    \/ IsStrictPrefix(p, q)
    \/ \E i \in DOMAIN p \intersect DOMAIN q :
           p[i] < q[i] /\ \A j \in 1 .. i - 1 : p[j] = q[j]

FirstPath(S) == CHOOSE p \in S : \A q \in S \ {p} : Precedes(p, q)

Ancestors(p) == {SubSeq(p, 1, i) : i \in 1 .. Len(p) - 1}

Below(t, d) == {q \in DOMAIN t : IsStrictPrefix(d, q)}

Without(t, S) == [q \in DOMAIN t \ S |-> t[q]]

IsDir(t, p) == p \in DOMAIN t /\ t[p] = Dir

----------------------------------------------------------------------------
(* What a checkpoint leaves out                                            *)

Excluded(p) == Meta \in Range(p)

\* A pattern that names a directory stands for all in it.
Matches(patterns, p) == p \in patterns \/ Ancestors(p) \intersect patterns # {}

DeniedPath(p) == Matches(Denied, p)

\* git check-ignore reads the .gitignore that is in the directory now.
Ignored(t, p) ==
    /\ <<Rules>> \in DOMAIN t /\ t[<<Rules>>].kind = "file"
    /\ Matches(Ignores[t[<<Rules>>].text], p)

Protected(t, p) == Excluded(p) \/ DeniedPath(p) \/ Ignored(t, p)

----------------------------------------------------------------------------
(* Snapshots                                                               *)

\* Git tells executables from other files, and nothing else of the permissions.
GitNode(n) ==
    [mode |-> IF n.kind = "link" THEN "120000"
              ELSE IF n.perm = "rwx" THEN "100755" ELSE "100644",
     blob |-> n.text]

Surface(t) == {p \in DOMAIN t : t[p] # Dir /\ ~ Protected(t, p)}

Snapshot(t) ==
    [tree  |-> [p \in Surface(t) |-> GitNode(t[p])],
     perms |-> [p \in {q \in Surface(t) : t[q].kind = "file"} |-> t[p].perm]]

\* Mutant of Restored: the manifest is not read.
RestoredPlain(c, p) ==
    IF c.tree[p].mode = "120000" THEN Link(c.tree[p].blob)
    ELSE File(c.tree[p].blob, IF c.tree[p].mode = "100755" THEN "rwx" ELSE "rw")

\* restoreRegularFile and restoreSymlink: the node an entry becomes.
Restored(c, p) ==
    IF c.tree[p].mode = "120000" THEN Link(c.tree[p].blob)
    ELSE File(c.tree[p].blob,
              IF p \in DOMAIN c.perms THEN c.perms[p]
              ELSE IF c.tree[p].mode = "100755" THEN "rwx" ELSE "rw")

----------------------------------------------------------------------------
(* Previews                                                                *)

\* git diff --raw --no-renames, and restoreAction.
Action(old, new, p) ==
    IF p \notin DOMAIN old THEN "added"
    ELSE IF p \notin DOMAIN new THEN "deleted"
    ELSE IF \/ (old[p].mode = "120000") # (new[p].mode = "120000")
            \/ old[p].blob = new[p].blob
         THEN "mode_changed" ELSE "modified"

\* Mutant of Plan: only contents are compared.
PlanBlobs(t, c) ==
    LET now     == Snapshot(t).tree
        changed == {p \in DOMAIN now \union DOMAIN c.tree :
                      ~ (p \in DOMAIN now /\ p \in DOMAIN c.tree /\ now[p].blob = c.tree[p].blob)}
    IN  [p \in {q \in changed : ~ DeniedPath(q)} |-> Action(now, c.tree, p)]

\* PlanRestoreCommit.
Plan(t, c) ==
    LET now     == Snapshot(t).tree
        changed == {p \in DOMAIN now \union DOMAIN c.tree :
                      ~ (p \in DOMAIN now /\ p \in DOMAIN c.tree /\ now[p] = c.tree[p])}
    IN  [p \in {q \in changed : ~ DeniedPath(q)} |-> Action(now, c.tree, p)]

----------------------------------------------------------------------------
(* Writing files back                                                      *)

\* Mutant of Obstructed: the directory is removed whatever is in it.
ObstructedNever(t, p) == FALSE

\* ensureNoExcludedDescendants: a directory in the way of a file is not removed with
\* a repository inside.
Obstructed(t, p) == IsDir(t, p) /\ \E q \in Below(t, p) : Excluded(q)

\* ensureParentDirsAtRoot and removePathForRestore: the way to p is free.
Cleared(t, p) ==
    LET blocking == {q \in Ancestors(p) : q \in DOMAIN t /\ ~ IsDir(t, q)}
        kept     == DOMAIN t \ (blocking \union {p} \union Below(t, p))
    IN  [q \in kept \union Ancestors(p) |-> IF q \in Ancestors(p) THEN Dir ELSE t[q]]

\* restoreTreeEntryAtRoot.
Put(t, p, n) ==
    LET u == Cleared(t, p) IN [q \in DOMAIN u \union {p} |-> IF q = p THEN n ELSE u[q]]

\* What restoreRegularFile leaves when it is killed before the rename.
HalfPut(t, p) == Put(Cleared(t, p), Append(Front(p), Scratch), File(0, "rw"))

\* removeEmptyDirs, materializeRemoveEmptyDirs: of the directories in C the ones in
\* which nothing but such directories is.
WithoutEmpty(t, C) == Without(t, {d \in C : Below(t, d) \subseteq C})

Dirs(t) == {p \in DOMAIN t : t[p] = Dir}
=============================================================================
