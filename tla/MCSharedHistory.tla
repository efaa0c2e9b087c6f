--------------------------- MODULE MCSharedHistory ---------------------------
(* Values for the constants of SharedHistory.                               *)
EXTENDS SharedHistory, TLC

CONSTANTS a, b, home, mirror

PublisherAndReader == (a :> {1, 2}) @@ (b :> {})

FullTextAtHome == [remote |-> home, mode |-> "redacted_text"]
=============================================================================
