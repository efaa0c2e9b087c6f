---------------------------- MODULE MCQueryIndex ----------------------------
(* Instances of QueryIndex for TLC.                                        *)
EXTENDS QueryIndex, TLC

CONSTANTS s1, r1, r2

One == <<s1>>

Interchangeable == Permutations({r1, r2})

\* Two rebuilds overlap at their first attempt; one tries again while no other runs.
OneRetries ==
    \A r \in Rebuilders : rb'[r].try > 1 => \A t \in Rebuilders \ {r} : rb'[t].pc = "idle"

MCNext == Next /\ OneRetries

MCSpec == Init /\ [][MCNext]_vars
=============================================================================
