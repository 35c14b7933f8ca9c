--------------------------- MODULE InsightsProofs ---------------------------
(***************************************************************************)
(* Safety of the AI insights service for any loops, messages and resets.  *)
(***************************************************************************)
EXTENDS Insights, TLAPS

\* Message m has been dealt with, if it is one of interest.
Done(m) ==
  EventOf(m).type \in TriggeredEvents =>
    (rows[m] > 0 /\ EventOf(m) \in announced) \/ m \in gaveUp

\* What a loop is through with in this process is dealt with, and so is the
\* message it is about to commit.
PassedIsDone ==
  /\ \A m \in Messages : m[2] <= pos[m[1]] => Done(m)
  /\ \A l \in Loop : pc[l] = "commit" => Done(Current(l))

\* A process that is down does nothing.
DownIsIdle == ~up => \A l \in Loop : pc[l] = "fetch"

\* A message that its loop may still store has been stored only before the
\* loop fell back.
AheadIsOlder ==
  \A m \in Messages :
    (~up \/ m[2] > pos[m[1]] + 1 \/ (m[2] = pos[m[1]] + 1 /\ pc[m[1]] # "commit"))
      => rows[m] <= resets

\* The inductive invariant.
IInv ==
  /\ TypeOK
  /\ PassedIsDone
  /\ DownIsIdle
  /\ AheadIsOlder
  /\ RowsNeedResets

-----------------------------------------------------------------------------
\* Messages are pairs of a loop and a position in its inbox.
LEMMA MessagesArePairs ==
  /\ \A m \in Messages : /\ m[1] \in Loop /\ m[2] \in 1 .. Len(Inbox[m[1]])
                         /\ m = <<m[1], m[2]>>
                         /\ EventOf(m) \in Event
  /\ \A l \in Loop, i \in Nat : 1 <= i /\ i <= Len(Inbox[l]) => <<l, i>> \in Messages
  /\ \A l \in Loop : Len(Inbox[l]) \in Nat
<1>1. \A l \in Loop : Inbox[l] \in Seq(Event)
  BY InboxAssumption
<1>2. \A l \in Loop : Len(Inbox[l]) \in Nat
  BY <1>1
<1>3. ASSUME NEW m \in Messages
      PROVE  /\ m[1] \in Loop /\ m[2] \in 1 .. Len(Inbox[m[1]])
             /\ m = <<m[1], m[2]>>
             /\ EventOf(m) \in Event
  <2>1. PICK l \in Loop : m \in {l} \X (1 .. Len(Inbox[l]))
    BY DEF Messages
  <2>2. /\ m[1] = l /\ m[2] \in 1 .. Len(Inbox[l])
        /\ m = <<m[1], m[2]>>
    BY <2>1
  <2>3. Inbox[l][m[2]] \in Event
    BY <1>1, <2>2
  <2> QED
    BY <2>2, <2>3 DEF EventOf
<1>4. ASSUME NEW l \in Loop, NEW i \in Nat, 1 <= i, i <= Len(Inbox[l])
      PROVE  <<l, i>> \in Messages
  <2>1. i \in 1 .. Len(Inbox[l])
    BY <1>2, <1>4
  <2>2. <<l, i>> \in {l} \X (1 .. Len(Inbox[l]))
    BY <2>1
  <2> QED
    BY <2>2 DEF Messages
<1> QED
  BY <1>2, <1>3, <1>4

\* A loop that is at a message is at one of its inbox.
LEMMA CurrentIsMessage ==
  ASSUME TypeOK, NEW l \in Loop, pos[l] < Len(Inbox[l])
  PROVE  /\ Current(l) \in Messages
         /\ Current(l)[1] = l /\ Current(l)[2] = pos[l] + 1
         /\ \A m \in Messages : m[1] = l /\ m[2] = pos[l] + 1 => m = Current(l)
<1>1. pos[l] \in Nat /\ Len(Inbox[l]) \in Nat
  BY MessagesArePairs DEF TypeOK
<1>2. <<l, pos[l] + 1>> \in Messages
  BY <1>1, MessagesArePairs
<1>3. \A m \in Messages : m = <<m[1], m[2]>>
  BY MessagesArePairs
<1> QED
  BY <1>2, <1>3 DEF Current

LEMMA InitEstablishes == Init => IInv
<1> SUFFICES ASSUME Init
             PROVE  IInv
  OBVIOUS
<1>1. \A l \in Loop : Len(Inbox[l]) \in Nat
  BY MessagesArePairs
<1>2. TypeOK
  BY <1>1, InboxAssumption DEF Init, TypeOK
<1>3. PassedIsDone /\ DownIsIdle
  BY MessagesArePairs DEF Init, PassedIsDone, DownIsIdle
<1>4. AheadIsOlder /\ RowsNeedResets
  BY DEF Init, AheadIsOlder, RowsNeedResets
<1> QED
  BY <1>2, <1>3, <1>4 DEF IInv

-----------------------------------------------------------------------------
(* One lemma for each action                                               *)

LEMMA FetchKeeps ==
  ASSUME IInv, NEW l \in Loop, Fetch(l)
  PROVE  IInv'
<1> USE DEF IInv
<1>1. PICK next \in {"ask", "commit"} :
        /\ pc' = [pc EXCEPT ![l] = next]
        /\ next = "commit" => EventOf(Current(l)).type \notin TriggeredEvents
  BY DEF Fetch, Goto
<1>2. /\ up /\ pc[l] = "fetch" /\ pos[l] < Len(Inbox[l])
      /\ UNCHANGED <<pos, committed, rows, announced, gaveUp, up, resets>>
  BY DEF Fetch, store
<1>3. TypeOK'
  BY <1>1, <1>2 DEF TypeOK
<1>4. PassedIsDone'
  BY <1>1, <1>2 DEF PassedIsDone, Done, TypeOK, Current, EventOf
<1>5. DownIsIdle'
  BY <1>2 DEF DownIsIdle
<1>6. AheadIsOlder'
  BY <1>1, <1>2, MessagesArePairs DEF AheadIsOlder, TypeOK
<1>7. RowsNeedResets'
  BY <1>2 DEF RowsNeedResets
<1> QED
  BY <1>3, <1>4, <1>5, <1>6, <1>7

\* Dropping a message after an error.
LEMMA GiveUpKeeps ==
  ASSUME IInv, NEW l \in Loop, up, pc[l] \in {"ask", "save"}, GiveUp(l),
         UNCHANGED <<pos, committed, rows, announced, up, resets>>
  PROVE  IInv'
<1> USE DEF IInv
<1>1. /\ pc' = [pc EXCEPT ![l] = "commit"]
      /\ gaveUp' = gaveUp \cup {Current(l)}
  BY DEF GiveUp, Goto
<1>2. pos[l] < Len(Inbox[l])
  BY DEF TypeOK
<1>3. Current(l) \in Messages
  BY <1>2, CurrentIsMessage
<1>4. TypeOK'
  BY <1>1, <1>2, <1>3 DEF TypeOK
<1>5. PassedIsDone'
  BY <1>1 DEF PassedIsDone, Done, TypeOK, Current, EventOf
<1>6. DownIsIdle'
  BY DEF DownIsIdle
<1>7. AheadIsOlder'
  BY <1>1, MessagesArePairs DEF AheadIsOlder, TypeOK
<1>8. RowsNeedResets'
  BY DEF RowsNeedResets
<1> QED
  BY <1>4, <1>5, <1>6, <1>7, <1>8

\* The end of the process.
LEMMA DieKeeps ==
  ASSUME IInv, up, Die
  PROVE  IInv'
<1> USE DEF IInv
<1>1. /\ resets < MaxResets /\ resets' = resets + 1
      /\ up' = FALSE
      /\ pc' = [l \in Loop |-> "fetch"]
      /\ UNCHANGED <<pos, committed, rows, announced, gaveUp>>
  BY DEF Die, store
<1>2. MaxResets \in Nat /\ resets \in Nat /\ rows \in [Messages -> Nat]
  BY InboxAssumption DEF TypeOK
<1>3. TypeOK'
  <2>1. resets' \in 0 .. MaxResets
    BY <1>1, <1>2
  <2>2. up' \in BOOLEAN
    BY <1>1
  <2>3. pc' \in [Loop -> {"fetch", "ask", "save", "commit"}]
    BY <1>1
  <2>4. \A l \in Loop : pc'[l] = "fetch"
    BY <1>1
  <2> QED
    BY <1>1, <2>1, <2>2, <2>3, <2>4 DEF TypeOK
<1>4. PassedIsDone'
  BY <1>1 DEF PassedIsDone, Done, EventOf
<1>5. DownIsIdle'
  BY <1>1 DEF DownIsIdle
<1>6. AheadIsOlder' /\ RowsNeedResets'
  BY <1>1, <1>2 DEF AheadIsOlder, RowsNeedResets
<1> QED
  BY <1>3, <1>4, <1>5, <1>6

LEMMA AskKeeps ==
  ASSUME IInv, NEW l \in Loop, Ask(l)
  PROVE  IInv'
<1> USE DEF IInv
<1>1. PICK r \in Reply :
        \/ Panics(r) /\ Die
        \/ /\ Parses(r) /\ Goto(l, "save")
           /\ UNCHANGED <<pos, committed, store, up, resets>>
        \/ /\ ~Panics(r) /\ ~Parses(r) /\ GiveUp(l)
           /\ UNCHANGED <<pos, committed, rows, announced, up, resets>>
  BY DEF Ask
<1>2. up /\ pc[l] = "ask"
  BY DEF Ask
<1>3. CASE Die
  BY <1>2, <1>3, DieKeeps
<1>4. CASE GiveUp(l) /\ UNCHANGED <<pos, committed, rows, announced, up, resets>>
  BY <1>2, <1>4, GiveUpKeeps
<1>5. CASE Goto(l, "save") /\ UNCHANGED <<pos, committed, store, up, resets>>
  <2>1. /\ pc' = [pc EXCEPT ![l] = "save"]
        /\ UNCHANGED <<pos, committed, rows, announced, gaveUp, up, resets>>
    BY <1>5 DEF Goto, store
  <2>2. TypeOK'
    BY <1>2, <2>1 DEF TypeOK
  <2>3. PassedIsDone'
    BY <1>2, <2>1 DEF PassedIsDone, Done, TypeOK, Current, EventOf
  <2>4. DownIsIdle'
    BY <1>2, <2>1 DEF DownIsIdle
  <2>5. AheadIsOlder'
    BY <1>2, <2>1, MessagesArePairs DEF AheadIsOlder, TypeOK
  <2>6. RowsNeedResets'
    BY <2>1 DEF RowsNeedResets
  <2> QED
    BY <2>2, <2>3, <2>4, <2>5, <2>6
<1> QED
  BY <1>1, <1>3, <1>4, <1>5

LEMMA SaveKeeps ==
  ASSUME IInv, NEW l \in Loop, Save(l)
  PROVE  IInv'
<1> USE DEF IInv
<1> DEFINE c == Current(l)
<1>1. /\ up /\ pc[l] = "save"
      /\ rows' = [rows EXCEPT ![c] = @ + 1]
      /\ announced' = announced \cup {EventOf(c)}
      /\ pc' = [pc EXCEPT ![l] = "commit"]
      /\ UNCHANGED <<pos, committed, gaveUp, up, resets>>
  BY DEF Save, Goto
<1>2. pos[l] < Len(Inbox[l])
  BY <1>1 DEF TypeOK
<1>3. /\ c \in Messages /\ c[1] = l /\ c[2] = pos[l] + 1
      /\ \A m \in Messages : m[1] = l /\ m[2] = pos[l] + 1 => m = c
  BY <1>2, CurrentIsMessage
<1>4. EventOf(c) \in Event /\ c' = c
  BY <1>1, <1>3, MessagesArePairs DEF Current
<1>5. rows \in [Messages -> Nat] /\ rows[c] \in Nat /\ rows'[c] = rows[c] + 1
  BY <1>1, <1>3 DEF TypeOK
<1>6. \A m \in Messages : m # c => rows'[m] = rows[m]
  BY <1>1, <1>5
<1> HIDE DEF c
<1>7. TypeOK'
  BY <1>1, <1>2, <1>3, <1>4, <1>5 DEF TypeOK
<1>8. PassedIsDone'
  <2>1. \A m \in Messages : rows[m] > 0 => rows'[m] > 0
    BY <1>5, <1>6
  <2>2. \A m \in Messages : Done(m) => Done(m)'
    BY <1>1, <2>1 DEF Done, EventOf
  <2>3. Done(c)'
    BY <1>1, <1>4, <1>5 DEF Done, EventOf
  <2>4. ASSUME NEW m \in Messages, m[2] <= pos'[m[1]]
        PROVE  Done(m)'
    BY <1>1, <2>2, <2>4 DEF PassedIsDone
  <2>5. ASSUME NEW k \in Loop, pc'[k] = "commit"
        PROVE  Done(Current(k))'
    <3>1. CASE k = l
      BY <2>3, <1>4, <3>1 DEF c
    <3>2. CASE k # l
      <4>1. pc[k] = "commit" /\ Current(k)' = Current(k)
        BY <1>1, <2>5, <3>2 DEF TypeOK, Current
      <4>2. pos[k] < Len(Inbox[k])
        BY <4>1 DEF TypeOK
      <4>3. Current(k) \in Messages /\ Done(Current(k))
        BY <4>1, <4>2, CurrentIsMessage DEF PassedIsDone
      <4> QED
        BY <4>1, <4>3, <2>2
    <3> QED
      BY <3>1, <3>2
  <2> QED
    BY <2>4, <2>5 DEF PassedIsDone
<1>9. DownIsIdle'
  BY <1>1 DEF DownIsIdle
<1>10. rows[c] <= resets
  BY <1>1, <1>3 DEF AheadIsOlder
<1>11. AheadIsOlder'
  <2> SUFFICES ASSUME NEW m \in Messages,
                      \/ ~up'
                      \/ m[2] > pos'[m[1]] + 1
                      \/ m[2] = pos'[m[1]] + 1 /\ pc'[m[1]] # "commit"
               PROVE  rows'[m] <= resets'
    BY DEF AheadIsOlder
  <2>1. m # c
    BY <1>1, <1>3 DEF TypeOK
  <2>2. rows[m] <= resets
    <3>1. CASE m[1] = l
      BY <1>1, <1>3, <3>1 DEF AheadIsOlder, TypeOK
    <3>2. CASE m[1] # l
      BY <1>1, <3>2, MessagesArePairs DEF AheadIsOlder, TypeOK
    <3> QED
      BY <3>1, <3>2
  <2> QED
    BY <1>1, <1>6, <2>1, <2>2
<1>12. RowsNeedResets'
  BY <1>1, <1>5, <1>6, <1>10 DEF RowsNeedResets, TypeOK
<1> QED
  BY <1>7, <1>8, <1>9, <1>11, <1>12

LEMMA CommitKeeps ==
  ASSUME IInv, NEW l \in Loop, Commit(l)
  PROVE  IInv'
<1> USE DEF IInv
<1>1. /\ up /\ pc[l] = "commit"
      /\ pos' = [pos EXCEPT ![l] = @ + 1]
      /\ \/ committed' = [committed EXCEPT ![l] = pos[l] + 1]
         \/ committed' = committed
      /\ pc' = [pc EXCEPT ![l] = "fetch"]
      /\ UNCHANGED <<rows, announced, gaveUp, up, resets>>
  BY DEF Commit, Goto, store
<1>2. /\ pos[l] < Len(Inbox[l]) /\ pos[l] \in Nat /\ Len(Inbox[l]) \in Nat
      /\ committed[l] \in Nat /\ committed[l] <= pos[l]
  BY <1>1, MessagesArePairs DEF TypeOK
<1>3. \A m \in Messages : m[1] = l /\ m[2] = pos[l] + 1 => m = Current(l)
  BY <1>2, CurrentIsMessage
<1>4. /\ \A m \in Messages : m[1] \in Loop /\ m[2] \in Nat
      /\ pos'[l] = pos[l] + 1
      /\ \A k \in Loop : k # l => pos'[k] = pos[k]
  BY <1>1, MessagesArePairs DEF TypeOK
<1>5. TypeOK'
  <2>1. committed' \in [Loop -> Nat] /\ pos' \in [Loop -> Nat]
    BY <1>1, <1>2 DEF TypeOK
  <2>2. \A k \in Loop : committed'[k] <= pos'[k] /\ pos'[k] <= Len(Inbox[k])
    BY <1>1, <1>2 DEF TypeOK
  <2>3. \A k \in Loop : pc'[k] # "fetch" => pos'[k] < Len(Inbox[k])
    BY <1>1 DEF TypeOK
  <2> QED
    BY <1>1, <2>1, <2>2, <2>3 DEF TypeOK
<1>6. PassedIsDone'
  <2>1. \A m \in Messages : Done(m)' <=> Done(m)
    BY <1>1 DEF Done, EventOf
  <2>2. Done(Current(l))
    BY <1>1 DEF PassedIsDone
  <2>3. ASSUME NEW m \in Messages, m[2] <= pos'[m[1]]
        PROVE  Done(m)
    <3>1. CASE m[1] = l /\ m[2] = pos[l] + 1
      BY <1>3, <2>2, <3>1
    <3>2. CASE ~(m[1] = l /\ m[2] = pos[l] + 1)
      <4>1. m[2] <= pos[m[1]]
        BY <1>2, <1>4, <2>3, <3>2
      <4> QED
        BY <4>1 DEF PassedIsDone
    <3> QED
      BY <3>1, <3>2
  <2>4. ASSUME NEW k \in Loop, pc'[k] = "commit"
        PROVE  Done(Current(k))'
    <3>1. k # l /\ pc[k] = "commit" /\ Current(k)' = Current(k)
      BY <1>1, <1>4, <2>4 DEF TypeOK, Current
    <3>2. Done(Current(k)) /\ pos[k] < Len(Inbox[k])
      BY <3>1 DEF PassedIsDone, TypeOK
    <3>3. Current(k) \in Messages
      BY <3>2, CurrentIsMessage
    <3> QED
      BY <2>1, <3>1, <3>2, <3>3
  <2> QED
    BY <2>1, <2>3, <2>4 DEF PassedIsDone
<1>7. DownIsIdle'
  BY <1>1 DEF DownIsIdle
<1>8. AheadIsOlder'
  <2> SUFFICES ASSUME NEW m \in Messages,
                      \/ ~up'
                      \/ m[2] > pos'[m[1]] + 1
                      \/ m[2] = pos'[m[1]] + 1 /\ pc'[m[1]] # "commit"
               PROVE  rows[m] <= resets
    BY <1>1 DEF AheadIsOlder
  <2>1. CASE m[1] = l
    <3>1. m[2] > pos[l] + 1
      BY <1>1, <1>2, <1>4, <2>1
    <3> QED
      BY <2>1, <3>1 DEF AheadIsOlder
  <2>2. CASE m[1] # l
    <3>1. pc'[m[1]] = pc[m[1]] /\ pos'[m[1]] = pos[m[1]]
      BY <1>1, <1>4, <2>2 DEF TypeOK
    <3> QED
      BY <1>1, <3>1 DEF AheadIsOlder
  <2> QED
    BY <2>1, <2>2
<1>9. RowsNeedResets'
  BY <1>1 DEF RowsNeedResets
<1> QED
  BY <1>5, <1>6, <1>7, <1>8, <1>9

LEMMA RestartKeeps ==
  ASSUME IInv, Restart
  PROVE  IInv'
<1> USE DEF IInv
<1>1. /\ ~up /\ up' = TRUE /\ pos' = committed
      /\ UNCHANGED <<committed, pc, rows, announced, gaveUp, resets>>
  BY DEF Restart, store
<1>2. \A l \in Loop : pc[l] = "fetch"
  BY <1>1 DEF DownIsIdle
<1>3. /\ \A l \in Loop : /\ committed[l] \in Nat /\ pos[l] \in Nat
                         /\ Len(Inbox[l]) \in Nat
                         /\ committed[l] <= pos[l] /\ pos[l] <= Len(Inbox[l])
      /\ \A m \in Messages : m[1] \in Loop /\ m[2] \in Nat
  BY MessagesArePairs DEF TypeOK
<1>4. TypeOK'
  BY <1>1, <1>2, <1>3 DEF TypeOK
<1>5. PassedIsDone'
  <2>1. \A m \in Messages : m[2] <= committed[m[1]] => m[2] <= pos[m[1]]
    BY <1>3
  <2>2. \A m \in Messages : Done(m)' <=> Done(m)
    BY <1>1 DEF Done, EventOf
  <2> QED
    BY <1>1, <1>2, <2>1, <2>2 DEF PassedIsDone
<1>6. DownIsIdle' /\ AheadIsOlder'
  BY <1>1 DEF DownIsIdle, AheadIsOlder
<1>7. RowsNeedResets'
  BY <1>1 DEF RowsNeedResets
<1> QED
  BY <1>4, <1>5, <1>6, <1>7

LEMMA RebalanceKeeps ==
  ASSUME IInv, NEW l \in Loop, Rebalance(l)
  PROVE  IInv'
<1> USE DEF IInv
<1>1. /\ up /\ pc[l] = "fetch"
      /\ resets < MaxResets /\ resets' = resets + 1
      /\ pos' = [pos EXCEPT ![l] = committed[l]]
      /\ UNCHANGED <<committed, pc, rows, announced, gaveUp, up>>
  BY DEF Rebalance, store
<1>2. /\ MaxResets \in Nat /\ resets \in Nat /\ rows \in [Messages -> Nat]
      /\ \A k \in Loop : pos'[k] = IF k = l THEN committed[k] ELSE pos[k]
      /\ \A k \in Loop : /\ committed[k] \in Nat /\ pos[k] \in Nat
                         /\ Len(Inbox[k]) \in Nat
                         /\ committed[k] <= pos[k] /\ pos[k] <= Len(Inbox[k])
      /\ \A m \in Messages : m[1] \in Loop /\ m[2] \in Nat
  BY <1>1, MessagesArePairs, InboxAssumption DEF TypeOK
<1>3. TypeOK'
  <2>1. resets' \in 0 .. MaxResets
    BY <1>1, <1>2
  <2>2. pos' \in [Loop -> Nat]
    BY <1>1, <1>2 DEF TypeOK
  <2>3. \A k \in Loop : committed[k] <= pos'[k] /\ pos'[k] <= Len(Inbox[k])
    BY <1>2
  <2>4. \A k \in Loop : pc[k] # "fetch" => pos'[k] < Len(Inbox[k])
    BY <1>1, <1>2 DEF TypeOK
  <2> QED
    BY <1>1, <2>1, <2>2, <2>3, <2>4 DEF TypeOK
<1>4. PassedIsDone'
  <2>1. \A m \in Messages : m[2] <= pos'[m[1]] => m[2] <= pos[m[1]]
    BY <1>2
  <2>2. \A m \in Messages : Done(m)' <=> Done(m)
    BY <1>1 DEF Done, EventOf
  <2>3. ASSUME NEW k \in Loop, pc'[k] = "commit"
        PROVE  Done(Current(k))'
    <3>1. k # l /\ pc[k] = "commit" /\ Current(k)' = Current(k)
      BY <1>1, <1>2, <2>3 DEF Current
    <3>2. Done(Current(k)) /\ pos[k] < Len(Inbox[k])
      BY <3>1 DEF PassedIsDone, TypeOK
    <3>3. Current(k) \in Messages
      BY <3>2, CurrentIsMessage
    <3> QED
      BY <2>2, <3>1, <3>2, <3>3
  <2> QED
    BY <2>1, <2>2, <2>3 DEF PassedIsDone
<1>5. DownIsIdle'
  BY <1>1 DEF DownIsIdle
<1>6. AheadIsOlder' /\ RowsNeedResets'
  BY <1>1, <1>2 DEF AheadIsOlder, RowsNeedResets
<1> QED
  BY <1>3, <1>4, <1>5, <1>6

\* Every step keeps the inductive invariant.
LEMMA NextKeeps == IInv /\ [Next]_vars => IInv'
<1> SUFFICES ASSUME IInv, [Next]_vars
             PROVE  IInv'
  OBVIOUS
<1>1. ASSUME NEW l \in Loop, Fetch(l) PROVE IInv'
  BY <1>1, FetchKeeps
<1>2. ASSUME NEW l \in Loop, Ask(l) PROVE IInv'
  BY <1>2, AskKeeps
<1>3. ASSUME NEW l \in Loop, AskFails(l) PROVE IInv'
  BY <1>3, GiveUpKeeps DEF AskFails
<1>4. ASSUME NEW l \in Loop, Save(l) PROVE IInv'
  BY <1>4, SaveKeeps
<1>5. ASSUME NEW l \in Loop, SaveFails(l) PROVE IInv'
  BY <1>5, GiveUpKeeps DEF SaveFails
<1>6. ASSUME NEW l \in Loop, Commit(l) PROVE IInv'
  BY <1>6, CommitKeeps
<1>7. CASE Stop
  BY <1>7, DieKeeps DEF Stop
<1>8. CASE Restart
  BY <1>8, RestartKeeps
<1>9. ASSUME NEW l \in Loop, Rebalance(l) PROVE IInv'
  BY <1>9, RebalanceKeeps
<1>10. CASE UNCHANGED vars
  BY <1>10 DEF vars, store, IInv, TypeOK, PassedIsDone, Done, DownIsIdle,
              AheadIsOlder, RowsNeedResets, Current, EventOf
<1> QED
  BY <1>1, <1>2, <1>3, <1>4, <1>5, <1>6, <1>7, <1>8, <1>9, <1>10 DEF Next, Work

-----------------------------------------------------------------------------
(* The theorems                                                            *)

\* The inductive invariant holds, for any loops, messages and resets.
THEOREM InvariantHolds == Spec => []IInv
BY InitEstablishes, NextKeeps, PTL DEF Spec

\* The state of the loops keeps its type, and no offset is ahead of its loop.
THEOREM TypeCorrect == Spec => []TypeOK
<1>1. IInv => TypeOK
  BY DEF IInv
<1> QED
  BY <1>1, InvariantHolds, PTL

\* No end of the process makes a loop skip a message it should ask about: what
\* is committed has its insight stored and announced, or met an error.
THEOREM NoneSkipped == Spec => []NothingIsSkipped
<1>1. IInv => NothingIsSkipped
  <2> SUFFICES ASSUME IInv, NEW m \in Messages, m[2] <= committed[m[1]]
               PROVE  Done(m)
    BY DEF NothingIsSkipped, Done
  <2>1. m[1] \in Loop /\ m[2] \in Nat
    BY MessagesArePairs
  <2>2. m[2] <= pos[m[1]]
    BY <2>1 DEF IInv, TypeOK
  <2> QED
    BY <2>2 DEF IInv, PassedIsDone
<1> QED
  BY <1>1, InvariantHolds, PTL

\* A message is stored at most once more than its loops fell back.
THEOREM DuplicatesNeedResets == Spec => []RowsNeedResets
<1>1. IInv => RowsNeedResets
  BY DEF IInv
<1> QED
  BY <1>1, InvariantHolds, PTL

=============================================================================
