----------------------------- MODULE MCRollback -----------------------------
(* Rollback on small instances.  File 1 is .gitignore: its version 1 ignores
   nothing, version 2 file 3, and what is written later nothing.  File 4 is
   deny-listed now; the older checkpoint of session s captured it.           *)
EXTENDS Rollback

Tree4(a, b, c, d) == <<a, b, c, d>>

OwnerDef == [c \in Checkpoints |-> IF c = "turn" THEN "s" ELSE Manual]

TreeDef == [c \in Checkpoints |-> IF c = "turn" THEN Tree4(1, 2, 0, 2) ELSE Tree4(2, 0, 0, 0)]

HeadDef == [c \in Checkpoints |-> IF c = "turn" THEN "topic" ELSE "main"]

StartDef == Tree4(2, 1, 1, 1)

IgnoreDef == [v \in 0 .. MaxVersion |-> IF v = 2 THEN {3} ELSE {}]

CommittedDef == [h \in Heads |-> IF h = "main" THEN Tree4(2, 2, 0, 0) ELSE Tree4(1, 0, 0, 0)]

ASSUME RestoreAssumption
=============================================================================
