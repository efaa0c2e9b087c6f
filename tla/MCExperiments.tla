---------------------------- MODULE MCExperiments ---------------------------
(* Values for the constants of Experiments. *)
EXTENDS Experiments, FiniteSets, TLC

CONSTANTS p1, p2, r1, c1, c2

\* Bound: beside a second case, the run is a fork's and no attempt is selected.
CaseBound ==
    \/ Cardinality({c \in Cases : case[c].state # "absent"}) <= 1
    \/ /\ \A r \in Runs : kind[r] # "agent"
       /\ \A c \in Cases : case[c].ever = {}

Symmetry == Permutations(Procs) \cup Permutations(Cases)
=============================================================================
