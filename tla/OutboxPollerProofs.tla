------------------------- MODULE OutboxPollerProofs -------------------------
(***************************************************************************)
(* Safety of OutboxPoller for every set of pollers and rows, every batch   *)
(* size and every number of faults.                                        *)
(***************************************************************************)
EXTENDS OutboxPoller, WellFoundedInduction, TLAPS

\* Poller p has sent row r in its open transaction.
Sent(p, r) == r \in marked[p] \/ (pc[p] = "mark" /\ r = Head(p))

\* A poll has its loop variables in order.
PollInv ==
  \A p \in Poller :
    /\ todo[p] \cap marked[p] = {}
    /\ pc[p] = "idle" => held[p] = {}
    /\ pc[p] = "mark" => todo[p] # {}

\* What was sent is in Kafka.
SentIsInKafka ==
  /\ \A p \in Poller, r \in Row : Sent(p, r) => copies[r] > 0
  /\ \A r \in Row : row[r] = "published" => copies[r] > 0

\* A row nobody has sent in a transaction that may still commit owes each of
\* its copies to a fault.
UnsentNeedFaults ==
  \A r \in Row :
    row[r] # "published" /\ (\A p \in Poller : ~Sent(p, r)) =>
      copies[r] <= fails + aborts

\* The inductive invariant.
IInv ==
  /\ TypeOK
  /\ PollInv
  /\ LocksAreExclusive
  /\ SentIsInKafka
  /\ UnsentNeedFaults
  /\ CopiesNeedFaults

-----------------------------------------------------------------------------
\* A batch that is not empty has an oldest row.
LEMMA HeadIsInBatch ==
  ASSUME NEW p \in Poller, TypeOK, todo[p] # {}
  PROVE  Head(p) \in todo[p] /\ Head(p) \in Row /\ Head(p) \in held[p]
<1>1. todo[p] \subseteq Nat /\ todo[p] \subseteq Row /\ todo[p] \subseteq held[p]
  BY PollerAssumption DEF TypeOK
<1>2. PICK r \in todo[p] : \A s \in todo[p] : ~(<<s, r>> \in OpToRel(<, Nat))
  BY <1>1, NatLessThanWellFounded, WFMin
<1>3. \A s \in todo[p] : ~(s < r)
  BY <1>1, <1>2 DEF OpToRel
<1>4. \A s \in todo[p] : r <= s
  BY <1>1, <1>3
<1>5. Head(p) \in todo[p]
  BY <1>4 DEF Head
<1> QED
  BY <1>1, <1>5

LEMMA BatchIsFree ==
  ASSUME TypeOK
  PROVE  /\ Batch \in SUBSET Row
         /\ \A r \in Batch : row[r] = "pending" /\ \A q \in Poller : r \notin held[q]
BY DEF Batch, Free

LEMMA InitEstablishes == Init => IInv
<1> SUFFICES ASSUME Init
             PROVE  IInv
  OBVIOUS
<1>1. TypeOK
  BY PollerAssumption DEF Init, TypeOK
<1>2. PollInv /\ LocksAreExclusive
  BY DEF Init, PollInv, LocksAreExclusive
<1>3. SentIsInKafka /\ UnsentNeedFaults /\ CopiesNeedFaults
  BY PollerAssumption DEF Init, SentIsInKafka, UnsentNeedFaults, CopiesNeedFaults, Sent
<1> QED
  BY <1>1, <1>2, <1>3 DEF IInv

-----------------------------------------------------------------------------
(* One lemma for each action                                               *)

LEMMA InsertKeeps ==
  ASSUME IInv, NEW r \in Row, Insert(r)
  PROVE  IInv'
<1> USE DEF IInv
<1>1. /\ UNCHANGED <<copies, pc, held, todo, marked, fails, aborts>>
      /\ row[r] = "absent" /\ row' = [row EXCEPT ![r] = "pending"]
  BY DEF Insert, poll
<1>2. \A p \in Poller, s \in Row : Sent(p, s)' <=> Sent(p, s)
  BY <1>1 DEF Sent, Head
<1>3. TypeOK'
  BY <1>1 DEF TypeOK
<1>4. PollInv'
  BY <1>1 DEF PollInv
<1>5. LocksAreExclusive'
  BY <1>1 DEF LocksAreExclusive, TypeOK
<1>6. SentIsInKafka'
  BY <1>1, <1>2 DEF SentIsInKafka, TypeOK
<1>7. UnsentNeedFaults' /\ CopiesNeedFaults'
  BY <1>1, <1>2 DEF UnsentNeedFaults, CopiesNeedFaults, TypeOK
<1> QED
  BY <1>3, <1>4, <1>5, <1>6, <1>7

LEMMA SelectKeeps ==
  ASSUME IInv, NEW p \in Poller, Select(p)
  PROVE  IInv'
<1> USE DEF IInv
<1>1. /\ pc[p] = "idle"
      /\ pc' = [pc EXCEPT ![p] = "publish"]
      /\ held' = [held EXCEPT ![p] = Batch]
      /\ todo' = [todo EXCEPT ![p] = Batch]
      /\ UNCHANGED <<row, copies, marked, fails, aborts>>
  BY DEF Select
<1>2. /\ Batch \in SUBSET Row
      /\ \A r \in Batch : row[r] = "pending" /\ \A q \in Poller : r \notin held[q]
  BY BatchIsFree
<1> HIDE DEF IInv
<1>3. marked[p] = {}
  BY <1>1 DEF IInv, PollInv, TypeOK
<1>4. \A q \in Poller, r \in Row : Sent(q, r)' <=> Sent(q, r)
  <2> SUFFICES ASSUME NEW q \in Poller, NEW r \in Row
               PROVE  Sent(q, r)' <=> Sent(q, r)
    OBVIOUS
  <2>1. CASE q = p
    BY <1>1, <2>1 DEF Sent, IInv, TypeOK
  <2>2. CASE q # p
    <3>1. todo'[q] = todo[q] /\ pc'[q] = pc[q]
      BY <1>1, <2>2 DEF IInv, TypeOK
    <3>2. Head(q)' = Head(q)
      BY <3>1 DEF Head
    <3> QED
      BY <1>1, <3>1, <3>2 DEF Sent
  <2> QED
    BY <2>1, <2>2
<1>5. TypeOK'
  BY <1>1, <1>2, <1>3 DEF IInv, TypeOK
<1>6. PollInv'
  BY <1>1, <1>3 DEF IInv, PollInv, TypeOK
<1>7. LocksAreExclusive'
  BY <1>1, <1>2 DEF IInv, LocksAreExclusive, TypeOK
<1>8. SentIsInKafka'
  BY <1>1, <1>4 DEF IInv, SentIsInKafka
<1>9. UnsentNeedFaults' /\ CopiesNeedFaults'
  BY <1>1, <1>4 DEF IInv, UnsentNeedFaults, CopiesNeedFaults
<1> QED
  BY <1>5, <1>6, <1>7, <1>8, <1>9 DEF IInv

\* The head of the batch is in nobody else's hands and was not sent yet.
LEMMA HeadIsUnsent ==
  ASSUME IInv, NEW p \in Poller, Working(p)
  PROVE  /\ Head(p) \in todo[p] /\ Head(p) \in Row /\ Head(p) \in held[p]
         /\ row[Head(p)] = "pending"
         /\ \A q \in Poller : ~Sent(q, Head(p))
<1>1. Head(p) \in todo[p] /\ Head(p) \in Row /\ Head(p) \in held[p]
  BY HeadIsInBatch DEF Working, IInv
<1>2. row[Head(p)] = "pending"
  BY <1>1 DEF IInv, LocksAreExclusive
<1>3. ASSUME NEW q \in Poller, Sent(q, Head(p))
      PROVE  FALSE
  <2>1. CASE q = p
    BY <1>1, <1>3, <2>1 DEF Sent, IInv, PollInv, Working
  <2>2. CASE q # p
    <3>1. held[p] \cap held[q] = {}
      BY <2>2 DEF IInv, LocksAreExclusive
    <3>2. Head(p) \in held[q]
      <4>1. CASE Head(p) \in marked[q]
        BY <4>1 DEF IInv, TypeOK
      <4>2. CASE pc[q] = "mark" /\ Head(p) = Head(q)
        <5>1. todo[q] # {}
          BY <4>2 DEF IInv, PollInv
        <5> QED
          BY <4>2, <5>1, HeadIsInBatch DEF IInv
      <4> QED
        BY <1>3, <4>1, <4>2 DEF Sent
    <3> QED
      BY <1>1, <3>1, <3>2
  <2> QED
    BY <2>1, <2>2
<1> QED
  BY <1>1, <1>2, <1>3

LEMMA PublishKeeps ==
  ASSUME IInv, NEW p \in Poller, Publish(p)
  PROVE  IInv'
<1> DEFINE h == Head(p)
<1>1. /\ Working(p)
      /\ copies' = [copies EXCEPT ![h] = @ + 1]
      /\ pc' = [pc EXCEPT ![p] = "mark"]
      /\ UNCHANGED <<row, held, todo, marked, fails, aborts>>
  BY DEF Publish
<1>2. /\ h \in todo[p] /\ h \in Row /\ h \in held[p] /\ row[h] = "pending"
      /\ \A q \in Poller : ~Sent(q, h)
  BY <1>1, HeadIsUnsent
<1>3. \A q \in Poller : Head(q)' = Head(q)
  BY <1>1 DEF Head
<1>4. \A q \in Poller, r \in Row :
        Sent(q, r)' <=> Sent(q, r) \/ (q = p /\ r = h)
  BY <1>1, <1>3 DEF Sent, Working, IInv, TypeOK
<1> HIDE DEF h
<1>5. /\ copies \in [Row -> Nat] /\ fails \in Nat /\ aborts \in Nat
  BY PollerAssumption DEF IInv, TypeOK
<1>6. \A r \in Row : copies'[r] = IF r = h THEN copies[r] + 1 ELSE copies[r]
  BY <1>1, <1>5
<1>7. TypeOK'
  <2>1. copies' \in [Row -> Nat]
    BY <1>1, <1>2, <1>5
  <2> QED
    BY <1>1, <2>1 DEF IInv, TypeOK
<1>8. PollInv'
  BY <1>1 DEF IInv, PollInv, TypeOK, Working
<1>9. LocksAreExclusive'
  BY <1>1 DEF IInv, LocksAreExclusive
<1>10. SentIsInKafka'
  BY <1>1, <1>4, <1>5, <1>6 DEF IInv, SentIsInKafka
<1>11. copies[h] <= fails + aborts
  BY <1>2 DEF IInv, UnsentNeedFaults
<1>12. UnsentNeedFaults'
  BY <1>1, <1>4, <1>5, <1>6 DEF IInv, UnsentNeedFaults
<1>13. CopiesNeedFaults'
  BY <1>1, <1>2, <1>5, <1>6, <1>11 DEF IInv, CopiesNeedFaults
<1> QED
  BY <1>7, <1>8, <1>9, <1>10, <1>12, <1>13 DEF IInv

\* Leaving a row behind does not send it.
LEMMA SkipSendsNothing ==
  ASSUME IInv, NEW p \in Poller, Working(p),
         todo' = [todo EXCEPT ![p] = @ \ {Head(p)}], UNCHANGED <<pc, marked>>
  PROVE  \A q \in Poller, r \in Row : Sent(q, r)' <=> Sent(q, r)
<1> SUFFICES ASSUME NEW q \in Poller, NEW r \in Row
             PROVE  Sent(q, r)' <=> Sent(q, r)
  OBVIOUS
<1>1. CASE q = p
  BY <1>1 DEF Sent, Working
<1>2. CASE q # p
  <2>1. todo'[q] = todo[q]
    BY <1>2 DEF IInv, TypeOK
  <2>2. Head(q)' = Head(q)
    BY <2>1 DEF Head
  <2> QED
    BY <2>2 DEF Sent
<1> QED
  BY <1>1, <1>2

LEMMA RejectKeeps ==
  ASSUME IInv, NEW p \in Poller, Reject(p)
  PROVE  IInv'
<1>1. /\ Working(p)
      /\ todo' = [todo EXCEPT ![p] = @ \ {Head(p)}]
      /\ UNCHANGED <<row, copies, pc, held, marked, fails, aborts>>
  BY DEF Reject
<1>2. \A q \in Poller, r \in Row : Sent(q, r)' <=> Sent(q, r)
  BY <1>1, SkipSendsNothing
<1>3. TypeOK'
  BY <1>1 DEF IInv, TypeOK
<1>4. PollInv'
  BY <1>1 DEF IInv, PollInv, TypeOK, Working
<1>5. LocksAreExclusive'
  BY <1>1 DEF IInv, LocksAreExclusive
<1>6. SentIsInKafka' /\ UnsentNeedFaults' /\ CopiesNeedFaults'
  BY <1>1, <1>2 DEF IInv, SentIsInKafka, UnsentNeedFaults, CopiesNeedFaults
<1> QED
  BY <1>3, <1>4, <1>5, <1>6 DEF IInv

LEMMA PublishFailsKeeps ==
  ASSUME IInv, NEW p \in Poller, PublishFails(p)
  PROVE  IInv'
<1> DEFINE h == Head(p)
<1>1. /\ Working(p) /\ fails < MaxFails /\ fails' = fails + 1
      /\ copies' = copies \/ copies' = [copies EXCEPT ![h] = @ + 1]
      /\ todo' = [todo EXCEPT ![p] = @ \ {h}]
      /\ UNCHANGED <<row, pc, held, marked, aborts>>
  BY DEF PublishFails
<1>2. h \in Row /\ \A q \in Poller : ~Sent(q, h)
  BY <1>1, HeadIsUnsent
<1>3. \A q \in Poller, r \in Row : Sent(q, r)' <=> Sent(q, r)
  BY <1>1, SkipSendsNothing
<1>4. copies \in [Row -> Nat] /\ fails \in Nat /\ aborts \in Nat
  BY PollerAssumption DEF IInv, TypeOK
<1> HIDE DEF h
<1>5. \A r \in Row : copies'[r] \in Nat /\ copies[r] <= copies'[r]
                     /\ copies'[r] <= copies[r] + 1
  BY <1>1, <1>2, <1>4
<1>6. TypeOK'
  <2>1. copies' \in [Row -> Nat]
    BY <1>1, <1>2, <1>4
  <2>2. fails' \in 0 .. MaxFails
    BY <1>1, <1>4, PollerAssumption
  <2> QED
    BY <1>1, <2>1, <2>2 DEF IInv, TypeOK
<1>7. PollInv'
  BY <1>1 DEF IInv, PollInv, TypeOK, Working
<1>8. LocksAreExclusive'
  BY <1>1 DEF IInv, LocksAreExclusive
<1>9. SentIsInKafka'
  BY <1>1, <1>3, <1>4, <1>5 DEF IInv, SentIsInKafka
<1>10. UnsentNeedFaults'
  BY <1>1, <1>3, <1>4, <1>5 DEF IInv, UnsentNeedFaults
<1>11. CopiesNeedFaults'
  BY <1>1, <1>4, <1>5 DEF IInv, CopiesNeedFaults
<1> QED
  BY <1>6, <1>7, <1>8, <1>9, <1>10, <1>11 DEF IInv

LEMMA MarkKeeps ==
  ASSUME IInv, NEW p \in Poller, Mark(p)
  PROVE  IInv'
<1> DEFINE h == Head(p)
<1>1. /\ pc[p] = "mark"
      /\ marked' = [marked EXCEPT ![p] = @ \cup {h}]
      /\ todo' = [todo EXCEPT ![p] = @ \ {h}]
      /\ pc' = [pc EXCEPT ![p] = "publish"]
      /\ UNCHANGED <<row, copies, held, fails, aborts>>
  BY DEF Mark
<1>2. h \in todo[p] /\ h \in Row /\ h \in held[p]
  BY <1>1, HeadIsInBatch DEF IInv, PollInv
<1>3. \A q \in Poller, r \in Row : Sent(q, r)' <=> Sent(q, r)
  <2> SUFFICES ASSUME NEW q \in Poller, NEW r \in Row
               PROVE  Sent(q, r)' <=> Sent(q, r)
    OBVIOUS
  <2>1. CASE q = p
    BY <1>1, <2>1 DEF Sent, IInv, TypeOK
  <2>2. CASE q # p
    <3>1. todo'[q] = todo[q] /\ pc'[q] = pc[q] /\ marked'[q] = marked[q]
      BY <1>1, <2>2 DEF IInv, TypeOK
    <3>2. Head(q)' = Head(q)
      BY <3>1 DEF Head
    <3> QED
      BY <3>1, <3>2 DEF Sent
  <2> QED
    BY <2>1, <2>2
<1> HIDE DEF h
<1>4. TypeOK'
  BY <1>1, <1>2 DEF IInv, TypeOK
<1>5. PollInv'
  BY <1>1, <1>2 DEF IInv, PollInv, TypeOK
<1>6. LocksAreExclusive'
  BY <1>1 DEF IInv, LocksAreExclusive
<1>7. SentIsInKafka' /\ UnsentNeedFaults' /\ CopiesNeedFaults'
  BY <1>1, <1>3 DEF IInv, SentIsInKafka, UnsentNeedFaults, CopiesNeedFaults
<1> QED
  BY <1>4, <1>5, <1>6, <1>7 DEF IInv

\* When a poll ends, the transactions of the other pollers are as before.
LEMMA EndPollEffect ==
  ASSUME IInv, NEW p \in Poller, EndPoll(p)
  PROVE  /\ PollInv'
         /\ \A q \in Poller : held'[q] = (IF q = p THEN {} ELSE held[q])
         /\ /\ pc' \in [Poller -> {"idle", "publish", "mark"}]
            /\ held' \in [Poller -> SUBSET Row]
            /\ todo' \in [Poller -> SUBSET Row]
            /\ marked' \in [Poller -> SUBSET Row]
            /\ \A q \in Poller : todo'[q] \subseteq held'[q]
                                 /\ marked'[q] \subseteq held'[q]
         /\ \A q \in Poller, r \in Row : Sent(q, r)' <=> q # p /\ Sent(q, r)
<1>1. /\ pc' = [pc EXCEPT ![p] = "idle"]
      /\ held' = [held EXCEPT ![p] = {}]
      /\ todo' = [todo EXCEPT ![p] = {}]
      /\ marked' = [marked EXCEPT ![p] = {}]
  BY DEF EndPoll
<1>2. \A q \in Poller :
        /\ q # p => /\ pc'[q] = pc[q] /\ held'[q] = held[q]
                    /\ todo'[q] = todo[q] /\ marked'[q] = marked[q]
        /\ q = p => /\ pc'[q] = "idle" /\ held'[q] = {}
                    /\ todo'[q] = {} /\ marked'[q] = {}
  BY <1>1 DEF IInv, TypeOK
<1>3. PollInv'
  BY <1>2 DEF IInv, PollInv
<1>4. ASSUME NEW q \in Poller, NEW r \in Row
      PROVE  Sent(q, r)' <=> q # p /\ Sent(q, r)
  <2>1. CASE q = p
    BY <1>2, <2>1 DEF Sent
  <2>2. CASE q # p
    <3>1. Head(q)' = Head(q)
      BY <1>2, <2>2 DEF Head
    <3> QED
      BY <1>2, <2>2, <3>1 DEF Sent
  <2> QED
    BY <2>1, <2>2
<1>5. /\ pc' \in [Poller -> {"idle", "publish", "mark"}]
      /\ held' \in [Poller -> SUBSET Row]
      /\ todo' \in [Poller -> SUBSET Row]
      /\ marked' \in [Poller -> SUBSET Row]
  BY <1>1 DEF IInv, TypeOK
<1>6. \A q \in Poller : todo'[q] \subseteq held'[q] /\ marked'[q] \subseteq held'[q]
  BY <1>2 DEF IInv, TypeOK
<1> QED
  BY <1>2, <1>3, <1>4, <1>5, <1>6

LEMMA CommitKeeps ==
  ASSUME IInv, NEW p \in Poller, Commit(p)
  PROVE  IInv'
<1>1. /\ pc[p] = "publish" /\ EndPoll(p)
      /\ row' = [r \in Row |-> IF r \in marked[p] THEN "published" ELSE row[r]]
      /\ UNCHANGED <<copies, fails, aborts>>
  BY DEF Commit
<1>2. /\ PollInv'
      /\ \A q \in Poller : held'[q] = (IF q = p THEN {} ELSE held[q])
      /\ /\ pc' \in [Poller -> {"idle", "publish", "mark"}]
         /\ held' \in [Poller -> SUBSET Row]
         /\ todo' \in [Poller -> SUBSET Row]
         /\ marked' \in [Poller -> SUBSET Row]
         /\ \A q \in Poller : todo'[q] \subseteq held'[q]
                              /\ marked'[q] \subseteq held'[q]
      /\ \A q \in Poller, r \in Row : Sent(q, r)' <=> q # p /\ Sent(q, r)
  BY <1>1, EndPollEffect
<1>3. TypeOK'
  BY <1>1, <1>2 DEF IInv, TypeOK
<1>4. marked[p] \subseteq held[p]
  BY DEF IInv, TypeOK
<1>5. LocksAreExclusive'
  BY <1>1, <1>2, <1>4 DEF IInv, LocksAreExclusive, TypeOK
<1>6. \A r \in Row : r \in marked[p] => Sent(p, r)
  BY DEF Sent
<1>7. SentIsInKafka'
  BY <1>1, <1>2, <1>6 DEF IInv, SentIsInKafka
<1>8. \A r \in Row : row'[r] # "published" => row[r] # "published" /\ ~Sent(p, r)
  BY <1>1 DEF Sent
<1>9. UnsentNeedFaults' /\ CopiesNeedFaults'
  BY <1>1, <1>2, <1>8 DEF IInv, UnsentNeedFaults, CopiesNeedFaults
<1> QED
  BY <1>2, <1>3, <1>5, <1>7, <1>9 DEF IInv

LEMMA RollbackKeeps ==
  ASSUME IInv, NEW p \in Poller, Rollback(p)
  PROVE  IInv'
<1>1. /\ aborts < MaxAborts /\ aborts' = aborts + 1 /\ EndPoll(p)
      /\ UNCHANGED <<row, copies, fails>>
  BY DEF Rollback
<1>2. /\ PollInv'
      /\ \A q \in Poller : held'[q] = (IF q = p THEN {} ELSE held[q])
      /\ /\ pc' \in [Poller -> {"idle", "publish", "mark"}]
         /\ held' \in [Poller -> SUBSET Row]
         /\ todo' \in [Poller -> SUBSET Row]
         /\ marked' \in [Poller -> SUBSET Row]
         /\ \A q \in Poller : todo'[q] \subseteq held'[q]
                              /\ marked'[q] \subseteq held'[q]
      /\ \A q \in Poller, r \in Row : Sent(q, r)' <=> q # p /\ Sent(q, r)
  BY <1>1, EndPollEffect
<1>3. copies \in [Row -> Nat] /\ fails \in Nat /\ aborts \in Nat
  BY PollerAssumption DEF IInv, TypeOK
<1>4. TypeOK'
  <2>1. aborts' \in 0 .. MaxAborts
    BY <1>1, <1>3, PollerAssumption
  <2> QED
    BY <1>1, <1>2, <2>1 DEF IInv, TypeOK
<1>5. LocksAreExclusive'
  BY <1>1, <1>2 DEF IInv, LocksAreExclusive
<1>6. SentIsInKafka'
  BY <1>1, <1>2 DEF IInv, SentIsInKafka
<1>7. \A r \in Row : copies[r] <= fails + aborts + 1
  BY <1>3 DEF IInv, CopiesNeedFaults
<1>8. UnsentNeedFaults' /\ CopiesNeedFaults'
  BY <1>1, <1>3, <1>7 DEF UnsentNeedFaults, CopiesNeedFaults
<1> QED
  BY <1>2, <1>4, <1>5, <1>6, <1>8 DEF IInv

LEMMA NextKeeps == IInv /\ [Next]_vars => IInv'
<1> SUFFICES ASSUME IInv, [Next]_vars
             PROVE  IInv'
  OBVIOUS
<1>1. ASSUME NEW r \in Row, Insert(r)
      PROVE  IInv'
  BY <1>1, InsertKeeps
<1>2. ASSUME NEW p \in Poller, Select(p)
      PROVE  IInv'
  BY <1>2, SelectKeeps
<1>3. ASSUME NEW p \in Poller, Publish(p)
      PROVE  IInv'
  BY <1>3, PublishKeeps
<1>4. ASSUME NEW p \in Poller, Reject(p)
      PROVE  IInv'
  BY <1>4, RejectKeeps
<1>5. ASSUME NEW p \in Poller, PublishFails(p)
      PROVE  IInv'
  BY <1>5, PublishFailsKeeps
<1>6. ASSUME NEW p \in Poller, Mark(p)
      PROVE  IInv'
  BY <1>6, MarkKeeps
<1>7. ASSUME NEW p \in Poller, Commit(p)
      PROVE  IInv'
  BY <1>7, CommitKeeps
<1>8. ASSUME NEW p \in Poller, Rollback(p)
      PROVE  IInv'
  BY <1>8, RollbackKeeps
<1>9. CASE UNCHANGED vars
  BY <1>9 DEF vars, poll, IInv, TypeOK, PollInv, LocksAreExclusive,
              SentIsInKafka, UnsentNeedFaults, CopiesNeedFaults, Sent, Head
<1> QED
  BY <1>1, <1>2, <1>3, <1>4, <1>5, <1>6, <1>7, <1>8, <1>9 DEF Next, Work

-----------------------------------------------------------------------------
(* The theorems                                                            *)

\* The inductive invariant holds, for all pollers, rows and bounds.
THEOREM InvariantHolds == Spec => []IInv
BY InitEstablishes, NextKeeps, PTL DEF Spec

\* The state of the pollers keeps its type, and what a poll has left to do
\* and has marked is locked by it.
THEOREM TypeCorrect == Spec => []TypeOK
<1>1. IInv => TypeOK
  BY DEF IInv
<1> QED
  BY <1>1, InvariantHolds, PTL

\* No two pollers work on one row, and nobody works on a published one.
THEOREM LocksHold == Spec => []LocksAreExclusive
<1>1. IInv => LocksAreExclusive
  BY DEF IInv
<1> QED
  BY <1>1, InvariantHolds, PTL

\* A row is never marked as published without being in Kafka.
THEOREM NothingIsLost == Spec => []MarkedIsInKafka
<1>1. IInv => MarkedIsInKafka
  BY DEF IInv, MarkedIsInKafka, SentIsInKafka, Sent
<1> QED
  BY <1>1, InvariantHolds, PTL

\* Any number of pollers together publish a row once, plus at most once for
\* each fault.
THEOREM DuplicatesNeedFaults == Spec => []CopiesNeedFaults
<1>1. IInv => CopiesNeedFaults
  BY DEF IInv
<1> QED
  BY <1>1, InvariantHolds, PTL

-----------------------------------------------------------------------------
(* Refinement                                                              *)

\* The rows Kafka has.
deliveredView == {r \in Row : copies[r] > 0}

LEMMA StepRelays ==
  ASSUME IInv, [Next]_vars
  PROVE  [Relay!Next]_<<row, deliveredView>>
<1>1. row \in [Row -> {"absent", "pending", "published"}] /\ copies \in [Row -> Nat]
  BY DEF IInv, TypeOK
<1>2. ASSUME UNCHANGED copies
      PROVE  UNCHANGED deliveredView
  BY <1>2 DEF deliveredView
<1>3. ASSUME NEW r \in Row, Insert(r)
      PROVE  Relay!Insert(r)
  BY <1>2, <1>3 DEF Insert, Relay!Insert, deliveredView
<1>4. ASSUME NEW p \in Poller, Working(p),
             copies' = [copies EXCEPT ![Head(p)] = @ + 1], UNCHANGED row
      PROVE  Relay!Next
  <2>1. PICK h \in Row : h = Head(p)
    BY <1>4, HeadIsUnsent
  <2>2. row[h] = "pending"
    BY <1>4, <2>1, HeadIsUnsent
  <2>3. copies' = [copies EXCEPT ![h] = @ + 1]
    BY <1>4, <2>1
  <2>4. deliveredView' = deliveredView \cup {h}
    BY <1>1, <2>3 DEF deliveredView
  <2>5. Relay!Deliver(h)
    BY <1>4, <2>2, <2>4 DEF Relay!Deliver, deliveredView
  <2> QED
    BY <2>5 DEF Relay!Next
<1>5. ASSUME NEW p \in Poller, Commit(p)
      PROVE  Relay!Next
  <2>1. PICK S \in SUBSET Row : S = marked[p]
    BY DEF IInv, TypeOK
  <2>2. \A r \in S : row[r] = "pending" /\ copies[r] > 0
    BY <2>1 DEF IInv, TypeOK, LocksAreExclusive, SentIsInKafka, Sent
  <2>3. UNCHANGED deliveredView
    BY <1>2, <1>5 DEF Commit
  <2>4. row' = [r \in Row |-> IF r \in S THEN "published" ELSE row[r]]
    BY <1>5, <2>1 DEF Commit
  <2>5. Relay!CrossOut(S)
    BY <2>2, <2>3, <2>4 DEF Relay!CrossOut, deliveredView
  <2> QED
    BY <2>5 DEF Relay!Next
<1>6. ASSUME UNCHANGED <<row, copies>>
      PROVE  UNCHANGED <<row, deliveredView>>
  BY <1>2, <1>6
<1>7. ASSUME NEW p \in Poller, Publish(p) \/ PublishFails(p)
      PROVE  [Relay!Next]_<<row, deliveredView>>
  <2>1. Working(p) /\ UNCHANGED row
    BY <1>7 DEF Publish, PublishFails
  <2>2. UNCHANGED copies \/ copies' = [copies EXCEPT ![Head(p)] = @ + 1]
    BY <1>7 DEF Publish, PublishFails
  <2>3. CASE UNCHANGED copies
    BY <1>6, <2>1, <2>3
  <2>4. CASE copies' = [copies EXCEPT ![Head(p)] = @ + 1]
    BY <1>4, <2>1, <2>4
  <2> QED
    BY <2>2, <2>3, <2>4
<1>8. ASSUME NEW p \in Poller, Select(p) \/ Reject(p) \/ Mark(p) \/ Rollback(p)
      PROVE  UNCHANGED <<row, copies>>
  BY <1>8 DEF Select, Reject, Mark, Rollback
<1>9. CASE \E r \in Row : Insert(r)
  BY <1>3, <1>9 DEF Relay!Next
<1>10. CASE \E p \in Poller : Commit(p)
  BY <1>5, <1>10
<1>11. CASE UNCHANGED vars
  BY <1>6, <1>11 DEF vars
<1> QED
  BY <1>6, <1>7, <1>8, <1>9, <1>10, <1>11 DEF Next, Work

\* The pollers implement the outbox they are meant to be.
THEOREM PollersImplementRelay == Spec => RelaySpec
<1>1. Init => Relay!Init
  <2> SUFFICES ASSUME Init
               PROVE  Relay!Init
    OBVIOUS
  <2>1. \A r \in Row : ~(copies[r] > 0)
    BY DEF Init
  <2>2. deliveredView = {}
    BY <2>1 DEF deliveredView
  <2> QED
    BY <2>2 DEF Init, Relay!Init, deliveredView
<1>2. IInv /\ [Next]_vars => [Relay!Next]_<<row, deliveredView>>
  BY StepRelays
<1> QED
  BY <1>1, <1>2, InvariantHolds, PTL
     DEF Spec, RelaySpec, Relay!Spec, Relay!relay, deliveredView

=============================================================================
