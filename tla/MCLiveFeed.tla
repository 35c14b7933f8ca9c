----------------------------- MODULE MCLiveFeed -----------------------------
(* A quick browser and one that need not read, two topics, channels of one. *)
EXTENDS LiveFeed
CONSTANTS t1, t2, b1, b2
MCMessages == [t \in Topic |-> IF t = t1 THEN 2 ELSE 1]
=============================================================================
