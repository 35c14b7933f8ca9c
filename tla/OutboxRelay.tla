----------------------------- MODULE OutboxRelay -----------------------------
(***************************************************************************)
(* What a transactional outbox promises: only rows that were committed are *)
(* delivered, a row is crossed out only after it was delivered, and what   *)
(* is crossed out stays so.                                                *)
(***************************************************************************)
CONSTANT Row

VARIABLES
  row,       \* row[r]: "absent", "pending" or "published"
  delivered  \* the rows Kafka has

relay == <<row, delivered>>

Init == row = [r \in Row |-> "absent"] /\ delivered = {}

Insert(r) ==
  /\ row[r] = "absent"
  /\ row' = [row EXCEPT ![r] = "pending"]
  /\ UNCHANGED delivered

\* The first copy of a row reaches Kafka; more copies change nothing here.
Deliver(r) ==
  /\ row[r] = "pending"
  /\ delivered' = delivered \cup {r}
  /\ UNCHANGED row

\* A transaction crosses out rows that were delivered.
CrossOut(S) ==
  /\ \A r \in S : row[r] = "pending" /\ r \in delivered
  /\ row' = [r \in Row |-> IF r \in S THEN "published" ELSE row[r]]
  /\ UNCHANGED delivered

Next ==
  \/ \E r \in Row : Insert(r) \/ Deliver(r)
  \/ \E S \in SUBSET Row : CrossOut(S)

Spec == Init /\ [][Next]_relay

=============================================================================
