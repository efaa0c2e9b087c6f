---------------------------- MODULE EventStream ----------------------------
(***************************************************************************)
(* What internal/events promises of one stream, without files, caches or   *)
(* locks: a hash chain that grows by one event at a time and takes each    *)
(* SourceID once.  Only somebody who replaces the file shortens it.        *)
(***************************************************************************)
EXTENDS Naturals, Sequences

CONSTANTS Sources, NoSource

VARIABLES
    entries,
    replacements  \* times the stored stream was replaced from outside

vars == <<entries, replacements>>

LastHash == IF entries = <<>> THEN 0 ELSE entries[Len(entries)].hash

Fresh(e) ==
    /\ e.src \in Sources \union {NoSource}
    /\ e.seq = Len(entries) + 1
    /\ e.prev = LastHash
    /\ \A i \in DOMAIN entries : /\ entries[i].hash # e.hash
                                 /\ e.src # NoSource => entries[i].src # e.src

Init == entries = <<>> /\ replacements = 0

Record ==
    /\ Len(entries') = Len(entries) + 1
    /\ entries' = Append(entries, entries'[Len(entries')])
    /\ Fresh(entries'[Len(entries')])
    /\ UNCHANGED replacements

Replace ==
    /\ replacements' = replacements + 1
    /\ \E n \in 0 .. Len(entries) - 1 : entries' = SubSeq(entries, 1, n)

Next == Record \/ Replace

Spec == Init /\ [][Next]_vars
=============================================================================
