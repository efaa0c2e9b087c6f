--------------------------- MODULE MCHookCapture ---------------------------
(* Instances of HookCapture for TLC.                                       *)
EXTENDS HookCapture

CONSTANTS t1, t2

\* The provider's names of turns make no difference to an external adapter, whose
\* payloads carry their own ids.
AllButNamedExternal == {s \in Setting : ~(s.named /\ s.style = "external")}
=============================================================================
