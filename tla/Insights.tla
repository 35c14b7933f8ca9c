------------------------------ MODULE Insights ------------------------------
(***************************************************************************)
(* The AI insights service (cmd/ai-insights-service): three consumer loops *)
(* in one process ask a language model about certain events, store what it *)
(* says and announce it through the outbox.  A reply may be useless, and   *)
(* one kind of reply makes the process panic, which ends the other loops   *)
(* too.  The process is then started again and each loop resumes from its  *)
(* committed offset.  Every event carries its saga's id, so the lookup of  *)
(* a missing one is left out.                                              *)
(***************************************************************************)
EXTENDS Naturals, Sequences, SagaEvents

CONSTANTS
  Order,
  Loop,        \* the consumer loops, one for each topic
  Inbox,       \* Inbox[l]: the messages of l's topic, each [type, order]
  MaxResets   \* bound on ends of the process and on rebalances

Event == [type : EventType, order : Order]

ASSUME InboxAssumption ==
  /\ Inbox \in [Loop -> Seq(Event)]
  /\ MaxResets \in Nat

\* The event types the service asks the model about.
TriggeredEvents ==
  {"order.created", "payment.failed", "payment.processed", "order.failed",
   "order.completed"}

VARIABLES
  pos,        \* pos[l]: messages loop l is through with, in this process
  committed,  \* committed[l]: its offset at the broker
  pc,         \* pc[l]: "fetch", "ask", "save" or "commit"
  rows,       \* rows[l][i]: ai_insights rows stored for message i of l
  announced,  \* events whose ai.insight_generated row is in the outbox
  gaveUp,     \* messages <<l, i>> dropped after an error
  up,         \* the process is running
  resets      \* ends of the process and rebalances so far

store == <<rows, announced, gaveUp>>
vars == <<pos, committed, pc, store, up, resets>>

\* <<l, i>> is the i-th message of loop l.
Messages == UNION {{l} \X (1 .. Len(Inbox[l])) : l \in Loop}

TypeOK ==
  /\ pos \in [Loop -> Nat]
  /\ committed \in [Loop -> Nat]
  /\ \A l \in Loop : committed[l] <= pos[l] /\ pos[l] <= Len(Inbox[l])
  /\ pc \in [Loop -> {"fetch", "ask", "save", "commit"}]
  /\ \A l \in Loop : pc[l] # "fetch" => pos[l] < Len(Inbox[l])
  /\ rows \in [Messages -> Nat]
  /\ announced \in SUBSET Event
  /\ gaveUp \in SUBSET Messages
  /\ up \in BOOLEAN
  /\ resets \in 0 .. MaxResets

Init ==
  /\ pos = [l \in Loop |-> 0]
  /\ committed = [l \in Loop |-> 0]
  /\ pc = [l \in Loop |-> "fetch"]
  /\ rows = [m \in Messages |-> 0]
  /\ announced = {}
  /\ gaveUp = {}
  /\ up = TRUE
  /\ resets = 0

-----------------------------------------------------------------------------
\* The message loop l is at, and its event.
Current(l) == <<l, pos[l] + 1>>
EventOf(m) == Inbox[m[1]][m[2]]

Goto(l, label) == pc' = [pc EXCEPT ![l] = label]

\* FetchMessage; Handle returns at once for the types it has no interest in.
Fetch(l) ==
  /\ up /\ pc[l] = "fetch"
  /\ pos[l] < Len(Inbox[l])
  /\ Goto(l, IF EventOf(Current(l)).type \in TriggeredEvents THEN "ask" ELSE "commit")
  /\ UNCHANGED <<pos, committed, store, up, resets>>

\* What the model may answer, as far as the code looks at it: how many lines,
\* whether it begins with a code fence, and whether what is inside is JSON.
Reply == [lines : 1 .. 3, fenced : BOOLEAN, json : BOOLEAN]

\* A fence is stripped by lines[1:len(lines)-1]: of one line this is
\* lines[1:0], which panics; of two lines nothing is left to parse.
Panics(r) == r.fenced /\ r.lines = 1
Parses(r) == r.json /\ (r.fenced => r.lines > 2)

\* Mutant: what cannot be analysed now is tried again.
GiveUpNever(l) ==
  /\ Goto(l, "fetch")
  /\ UNCHANGED gaveUp

\* The error is logged and the message counts as handled.
GiveUp(l) ==
  /\ Goto(l, "commit")
  /\ gaveUp' = gaveUp \cup {Current(l)}

\* The process ends: what its loops were doing is gone.
Die ==
  /\ resets < MaxResets
  /\ resets' = resets + 1
  /\ up' = FALSE
  /\ pc' = [l \in Loop |-> "fetch"]
  /\ UNCHANGED <<pos, committed, store>>

\* generateInsight: the reply makes the process panic (nothing recovers), or
\* is an insight to store, or has no JSON to parse.
Ask(l) ==
  /\ up /\ pc[l] = "ask"
  /\ \E r \in Reply :
       \/ Panics(r) /\ Die
       \/ /\ Parses(r)
          /\ Goto(l, "save")
          /\ UNCHANGED <<pos, committed, store, up, resets>>
       \/ /\ ~Panics(r) /\ ~Parses(r)
          /\ GiveUp(l)
          /\ UNCHANGED <<pos, committed, rows, announced, up, resets>>

\* generateInsight: no reply, or one whose status or envelope is wrong.
AskFails(l) ==
  /\ up /\ pc[l] = "ask"
  /\ GiveUp(l)
  /\ UNCHANGED <<pos, committed, rows, announced, up, resets>>

\* Mutant: the message is not committed but handled again.
SaveAgain(l) ==
  /\ up /\ pc[l] = "save"
  /\ rows' = [rows EXCEPT ![Current(l)] = @ + 1]
  /\ announced' = announced \cup {EventOf(Current(l))}
  /\ Goto(l, "fetch")
  /\ UNCHANGED <<pos, committed, gaveUp, up, resets>>

\* persistInsight: the row has a fresh id, so ON CONFLICT DO NOTHING never
\* meets a conflict; the outbox row has a key made of the event.
Save(l) ==
  /\ up /\ pc[l] = "save"
  /\ rows' = [rows EXCEPT ![Current(l)] = @ + 1]
  /\ announced' = announced \cup {EventOf(Current(l))}
  /\ Goto(l, "commit")
  /\ UNCHANGED <<pos, committed, gaveUp, up, resets>>

\* persistInsight fails (a risk score the column cannot hold, a lost
\* connection): the transaction is rolled back.
SaveFails(l) ==
  /\ up /\ pc[l] = "save"
  /\ GiveUp(l)
  /\ UNCHANGED <<pos, committed, rows, announced, up, resets>>

\* Mutant: a timer commits what has been fetched.
CommitUnhandled(l) ==
  /\ up /\ pc[l] # "fetch"
  /\ pos' = [pos EXCEPT ![l] = @ + 1]
  /\ committed' = [committed EXCEPT ![l] = pos[l] + 1]
  /\ Goto(l, "fetch")
  /\ UNCHANGED <<store, up, resets>>

\* Mutant: the offset of the next message is counted twice.
CommitTooFar(l) ==
  /\ up /\ pc[l] = "commit"
  /\ pos' = [pos EXCEPT ![l] = @ + 1]
  /\ committed' = [committed EXCEPT ![l] = pos[l] + 2]
  /\ Goto(l, "fetch")
  /\ UNCHANGED <<store, up, resets>>

\* CommitMessages, which may fail; either way the loop goes on.
Commit(l) ==
  /\ up /\ pc[l] = "commit"
  /\ pos' = [pos EXCEPT ![l] = @ + 1]
  /\ \/ committed' = [committed EXCEPT ![l] = pos[l] + 1]
     \/ UNCHANGED committed
  /\ Goto(l, "fetch")
  /\ UNCHANGED <<store, up, resets>>

\* The container is stopped, or the process ends for another reason.
Stop == up /\ Die

\* docker-compose starts it again, and each loop resumes from its committed
\* offset.
Restart ==
  /\ ~up
  /\ up' = TRUE
  /\ pos' = committed
  /\ UNCHANGED <<committed, pc, store, resets>>

\* The broker gives the partition of a loop to it anew: the loop falls back to
\* its committed offset while the process runs on.
Rebalance(l) ==
  /\ up /\ pc[l] = "fetch"
  /\ resets < MaxResets
  /\ resets' = resets + 1
  /\ pos' = [pos EXCEPT ![l] = committed[l]]
  /\ UNCHANGED <<committed, pc, store, up>>

Work(l) == Fetch(l) \/ Ask(l) \/ AskFails(l) \/ Save(l) \/ SaveFails(l) \/ Commit(l)

Next ==
  \/ \E l \in Loop : Work(l) \/ Rebalance(l)
  \/ Stop
  \/ Restart

Spec == Init /\ [][Next]_vars

\* Every call of a loop returns (the one of the model after 30 seconds at
\* most), and the process is started again.
FairSpec == Spec /\ WF_vars(Restart) /\ \A l \in Loop : WF_vars(Work(l))

-----------------------------------------------------------------------------
\* Nothing is skipped: of each message of interest before the committed offset
\* of its loop the insight is stored and its event in the outbox, or the
\* message was dropped after an error, although a panic in one loop ends the
\* work of the others half-way.
NothingIsSkipped ==
  \A m \in Messages :
    m[2] <= committed[m[1]] /\ EventOf(m).type \in TriggeredEvents =>
      (rows[m] > 0 /\ EventOf(m) \in announced) \/ m \in gaveUp

\* A message that is handled again is stored again, but no more often than
\* something made its loop fall back.
RowsNeedResets == \A m \in Messages : rows[m] <= 1 + resets

\* However the model answers, as long as it does not make the process panic
\* again and again, the loops get through their messages: no reply, and no
\* row that cannot be stored, holds one up.
LoopsGetThrough == \A l \in Loop : <>(pos[l] = Len(Inbox[l]))

=============================================================================
