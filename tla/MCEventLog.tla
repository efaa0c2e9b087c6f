----------------------------- MODULE MCEventLog -----------------------------
(* EventLog on small instances. *)
EXTENDS EventLog, TLC

Symmetry == Permutations(Procs) \union Permutations(Sources)

\* Two hosts in one run.  On the one the event file may be replaced by a prefix of it;
\* on the other the whole session is searched (no caller in the program does), which is
\* wrong when the file is replaced afterwards.
VARIABLE host

HostInit == Init /\ host \in {"replacing", "searching"}

Allowed ==
    IF host = "replacing"
    THEN \A p \in Procs : call'[p].kind # "aggregate"
    ELSE chops' = 0 /\ writes' < MaxWrites /\ \A p \in Procs : call'[p].kind # "build"

HostNext == Next /\ Allowed /\ UNCHANGED host

HostSpec == HostInit /\ [][HostNext]_<<vars, host>>
=============================================================================
