---------------------------- MODULE OutboxPoller ----------------------------
(***************************************************************************)
(* The pollers that carry the outbox to Kafka (internal/outbox/poller.go). *)
(* Every service runs one, all of them over the same outbox_events table.  *)
(* A poll is one transaction: it locks a batch of unpublished rows, oldest *)
(* first, skipping the rows other pollers have locked; it publishes and    *)
(* marks them one after the other; and it commits.  Saga takes the poll as *)
(* one step for each row; this module is why it may.                       *)
(***************************************************************************)
EXTENDS Naturals, FiniteSets

CONSTANTS
  Poller,    \* the pollers, one per service process
  Row,       \* outbox rows, numbered by created_at
  Poison,    \* rows Kafka never accepts (larger than the broker allows)
  Limit,     \* LIMIT of the SELECT (50)
  MaxFails,  \* bound on failed Publish calls for rows that are not poison
  MaxAborts  \* bound on rolled back polls

ASSUME PollerAssumption ==
  /\ Row \subseteq Nat
  /\ Poison \subseteq Row
  /\ Limit \in Nat \ {0}
  /\ MaxFails \in Nat
  /\ MaxAborts \in Nat

VARIABLES
  row,     \* row[r]: "absent", "pending" or "published" (committed state)
  copies,  \* copies[r]: how many messages Kafka holds for r
  pc,      \* pc[p]: "idle", or in a poll: before "publish" or before "mark"
  held,    \* held[p]: the rows p's transaction has locked
  todo,    \* todo[p]: the rows of its batch the loop has not been through
  marked,  \* marked[p]: the rows it has updated, not committed yet
  fails, aborts

poll == <<pc, held, todo, marked>>
vars == <<row, copies, poll, fails, aborts>>

TypeOK ==
  /\ row \in [Row -> {"absent", "pending", "published"}]
  /\ copies \in [Row -> Nat]
  /\ pc \in [Poller -> {"idle", "publish", "mark"}]
  /\ held \in [Poller -> SUBSET Row]
  /\ \A p \in Poller : todo[p] \subseteq held[p] /\ marked[p] \subseteq held[p]
  /\ todo \in [Poller -> SUBSET Row]
  /\ marked \in [Poller -> SUBSET Row]
  /\ fails \in 0 .. MaxFails
  /\ aborts \in 0 .. MaxAborts

Init ==
  /\ row = [r \in Row |-> "absent"]
  /\ copies = [r \in Row |-> 0]
  /\ pc = [p \in Poller |-> "idle"]
  /\ held = [p \in Poller |-> {}]
  /\ todo = [p \in Poller |-> {}]
  /\ marked = [p \in Poller |-> {}]
  /\ fails = 0
  /\ aborts = 0

-----------------------------------------------------------------------------
\* Some handler commits a transaction with this row.  created_at is the time
\* that transaction began, so a row may turn up after younger ones.
Insert(r) ==
  /\ row[r] = "absent"
  /\ row' = [row EXCEPT ![r] = "pending"]
  /\ UNCHANGED <<copies, poll, fails, aborts>>

\* Mutant: the SELECT does not lock and does not skip.
FreeUnlocked == {r \in Row : row[r] = "pending"}

\* The rows the SELECT may return: unpublished and locked by nobody.
Free == {r \in Row : row[r] = "pending" /\ \A q \in Poller : r \notin held[q]}

\* The oldest Limit of them.
Batch == {r \in Free : Cardinality({s \in Free : s < r}) < Limit}

\* Begin and SELECT ... FOR UPDATE SKIP LOCKED.  (A poll that finds nothing
\* changes nothing and is left out.)
Select(p) ==
  /\ pc[p] = "idle"
  /\ Batch # {}
  /\ pc' = [pc EXCEPT ![p] = "publish"]
  /\ held' = [held EXCEPT ![p] = Batch]
  /\ todo' = [todo EXCEPT ![p] = Batch]
  /\ UNCHANGED <<row, copies, marked, fails, aborts>>

\* The row the loop is at.
Head(p) == CHOOSE r \in todo[p] : \A s \in todo[p] : r <= s

Working(p) == pc[p] = "publish" /\ todo[p] # {}

\* Publish succeeds: all replicas have the message (RequireAll).
Publish(p) ==
  /\ Working(p)
  /\ Head(p) \notin Poison
  /\ copies' = [copies EXCEPT ![Head(p)] = @ + 1]
  /\ pc' = [pc EXCEPT ![p] = "mark"]
  /\ UNCHANGED <<row, held, todo, marked, fails, aborts>>

\* Publish fails because Kafka does not take such a message: the loop goes
\* on with the next row and leaves this one as it is.
Reject(p) ==
  /\ Working(p)
  /\ Head(p) \in Poison
  /\ todo' = [todo EXCEPT ![p] = @ \ {Head(p)}]
  /\ UNCHANGED <<row, copies, pc, held, marked, fails, aborts>>

\* Mutant: the error is logged, and the row is marked all the same.
PublishFailsMarking(p) ==
  /\ Working(p)
  /\ fails < MaxFails
  /\ fails' = fails + 1
  /\ pc' = [pc EXCEPT ![p] = "mark"]
  /\ UNCHANGED <<row, copies, held, todo, marked, aborts>>

\* Publish fails for a passing reason.  The message may have reached the
\* broker nevertheless, when only the answer got lost.
PublishFails(p) ==
  /\ Working(p)
  /\ fails < MaxFails
  /\ fails' = fails + 1
  /\ \/ UNCHANGED copies
     \/ /\ Head(p) \notin Poison
        /\ copies' = [copies EXCEPT ![Head(p)] = @ + 1]
  /\ todo' = [todo EXCEPT ![p] = @ \ {Head(p)}]
  /\ UNCHANGED <<row, pc, held, marked, aborts>>

\* UPDATE ... SET published_at: seen by others only after the commit.
Mark(p) ==
  /\ pc[p] = "mark"
  /\ marked' = [marked EXCEPT ![p] = @ \cup {Head(p)}]
  /\ todo' = [todo EXCEPT ![p] = @ \ {Head(p)}]
  /\ pc' = [pc EXCEPT ![p] = "publish"]
  /\ UNCHANGED <<row, copies, held, fails, aborts>>

\* The transaction is over: its locks are gone, and its poller waits for the
\* next tick.
EndPoll(p) ==
  /\ pc' = [pc EXCEPT ![p] = "idle"]
  /\ held' = [held EXCEPT ![p] = {}]
  /\ todo' = [todo EXCEPT ![p] = {}]
  /\ marked' = [marked EXCEPT ![p] = {}]

\* Mutant: the transaction is never committed.
CommitForgotten(p) ==
  /\ pc[p] = "publish" /\ todo[p] = {}
  /\ EndPoll(p)
  /\ UNCHANGED <<row, copies, fails, aborts>>

\* Commit, after the loop.
Commit(p) ==
  /\ pc[p] = "publish" /\ todo[p] = {}
  /\ row' = [r \in Row |-> IF r \in marked[p] THEN "published" ELSE row[r]]
  /\ EndPoll(p)
  /\ UNCHANGED <<copies, fails, aborts>>

\* Mutant: the connection goes back to the pool inside the transaction.
RollbackKeepingLocks(p) ==
  /\ pc[p] # "idle"
  /\ aborts < MaxAborts
  /\ aborts' = aborts + 1
  /\ pc' = [pc EXCEPT ![p] = "idle"]
  /\ UNCHANGED <<row, copies, held, todo, marked, fails>>

\* Mutant: the loop's variables outlive the transaction.
RollbackKeepingBatch(p) ==
  /\ pc[p] # "idle"
  /\ aborts < MaxAborts
  /\ aborts' = aborts + 1
  /\ pc' = [pc EXCEPT ![p] = "idle"]
  /\ held' = [held EXCEPT ![p] = {}]
  /\ UNCHANGED <<row, copies, todo, marked, fails>>

\* The UPDATE or the COMMIT fails and the deferred Rollback runs, or the
\* process dies and the server rolls back: what was published stays so, but
\* all its rows are pending again.
Rollback(p) ==
  /\ pc[p] # "idle"
  /\ aborts < MaxAborts
  /\ aborts' = aborts + 1
  /\ EndPoll(p)
  /\ UNCHANGED <<row, copies, fails>>

\* What the poller does by itself as long as nothing goes wrong.
Work(p) == Publish(p) \/ Reject(p) \/ Mark(p) \/ Commit(p)

Next ==
  \/ \E r \in Row : Insert(r)
  \/ \E p \in Poller : Select(p) \/ Work(p) \/ PublishFails(p) \/ Rollback(p)

Spec == Init /\ [][Next]_vars

\* The ticker fires for ever and no call blocks for ever; a service that
\* stops is started again.
FairSpec ==
  /\ Spec
  /\ \A p \in Poller : WF_vars(Select(p)) /\ WF_vars(Work(p))

-----------------------------------------------------------------------------
\* SKIP LOCKED: no row is in the hands of two pollers, and a row in
\* somebody's hands is still unpublished, so what is published is done with.
LocksAreExclusive ==
  /\ \A p, q \in Poller : p # q => held[p] \cap held[q] = {}
  /\ \A p \in Poller : \A r \in held[p] : row[r] = "pending"

\* A row that is marked, even by a transaction still open, is in Kafka: the
\* outbox loses nothing.
MarkedIsInKafka ==
  \A r \in Row :
    row[r] = "published" \/ (\E p \in Poller : r \in marked[p]) => copies[r] > 0

\* The pollers duplicate no work among themselves: without a fault each row
\* is published once, and each fault costs at most one more copy of it.
CopiesNeedFaults == \A r \in Row : copies[r] <= 1 + fails + aborts

\* As long as fewer rows are poison than a batch holds, every other row is
\* published in the end.
HealthyRowsGetOut ==
  \A r \in Row \ Poison : row[r] = "pending" ~> row[r] = "published"

\* The pollers together do what OutboxRelay promises.
Relay == INSTANCE OutboxRelay
           WITH delivered <- {r \in Row : copies[r] > 0}
RelaySpec == Relay!Spec

=============================================================================
