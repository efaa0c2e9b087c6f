----------------------------- MODULE MCWorktrees -----------------------------
(* An instance of Worktrees for TLC: the names .git, .gitignore, a, b and   *)
(* .env, two agents' sessions with three checkpoints, one of them made when *)
(* .env was not denied yet and without a manifest.                          *)
EXTENDS Worktrees

CONSTANTS ws, eval, d1, d2

Swapped == Permutations({d1, d2})

MCIgnores == [v \in 0 .. 1 |-> IF v = 1 THEN {<<4>>} ELSE {}]
MCDenied  == {<<5>>}

Cp(s, n, phase) == [session |-> s, turn |-> n, phase |-> phase]
MCCheckpoints == {Cp(1, 1, "pre"), Cp(1, 1, "post"), Cp(2, 1, "pre")}

RulesPath == <<1>>
A == <<3>>
B == <<4>>
Env == <<5>>
AB == <<3, 4>>
AGit == <<3, 0>>

\* a and b are files; a is a directory and .gitignore names b; a is a link.
T1 == (A :> File(1, "rw")) @@ (B :> File(1, "private"))
T2 == (RulesPath :> File(1, "rw")) @@ (A :> Dir) @@ (AB :> File(1, "rwx")) @@ (B :> File(7, "rw"))
T3 == (A :> Link(1)) @@ (Env :> File(1, "rw"))
\* A repository inside a; other permissions and an empty directory.
T4 == (A :> Dir) @@ (AGit :> Dir) @@ (B :> Dir) @@ (Env :> File(2, "rw"))
T5 == (A :> File(1, "rwx")) @@ (B :> File(2, "rw"))

Captured3 == [tree |-> (A :> GitNode(T3[A])) @@ (Env :> GitNode(T3[Env])), perms |-> <<>>]

MCCommitOf == (Cp(1, 1, "pre") :> Snapshot(T1)) @@ (Cp(1, 1, "post") :> Snapshot(T2))
                @@ (Cp(2, 1, "pre") :> Captured3)

MCStartTrees == {T1, T2, T3, T4, T5}
MCOwnTree == (A :> File(9, "rw"))
MCAdditions == {[path |-> <<6>>, node |-> File(8, "rw")], [path |-> AGit, node |-> Dir],
                [path |-> A, node |-> File(8, "rw")]}
=============================================================================
