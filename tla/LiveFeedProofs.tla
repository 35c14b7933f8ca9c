--------------------------- MODULE LiveFeedProofs ---------------------------
(***************************************************************************)
(* Safety of LiveFeed for every number of topics, messages and browsers    *)
(* and every capacity of a channel.                                        *)
(*                                                                         *)
(* The mutex makes the broadcasts one after the other, so the events have  *)
(* one order (sent), and at any time at most the last of them is still on  *)
(* its way.  What a browser was given follows that order and, together     *)
(* with what was dropped for it, has no gap; and it was given no more than *)
(* was sent since it was registered, so a full channel means that many     *)
(* events have gone by.                                                    *)
(***************************************************************************)
EXTENDS LiveFeed, SequenceTheorems, TLAPS

\* The broadcast under way has not come to b yet.
Awaited(b) == \E t \in busy : b \in todo[t]

\* The event is among those b has been given on this connection.
Given(b, x) == \E k \in 1 .. Len(Received(b)) : Received(b)[k] = x

SentOnce == \A i, j \in 1 .. Len(sent) : sent[i] = sent[j] => i = j

\* What the loops keep to: the mutex has one holder at most, what it sends is
\* the last event, and every event before that is done.
LoopsInv ==
  /\ \A t, u \in busy : t = u
  /\ \A t \in busy : /\ done[t] < Messages[t]
                     /\ Len(sent) # 0
                     /\ sent[Len(sent)] = <<t, done[t] + 1>>
  /\ SentOnce
  /\ \A i \in 1 .. Len(sent) :
       \/ sent[i][2] <= done[sent[i][1]]
       \/ sent[i][1] \in busy /\ sent[i][2] = done[sent[i][1]] + 1

\* What holds of a registered browser.
FeedOf(b) ==
  /\ Awaited(b) => ~Given(b, sent[Len(sent)]) /\ sent[Len(sent)] \notin lost[b]
  /\ \A k \in 1 .. Len(Received(b)) :
       \E i \in 1 .. Len(sent) : i > base[b] /\ Received(b)[k] = sent[i]
  /\ \A k, l \in 1 .. Len(Received(b)), i, j \in 1 .. Len(sent) :
       k < l /\ Received(b)[k] = sent[i] /\ Received(b)[l] = sent[j] => i < j
  /\ \A x \in lost[b] :
       \E i \in 1 .. Len(sent) : i > base[b] + Capacity /\ x = sent[i]
  /\ \A i \in 1 .. Len(sent) :
       i > base[b] =>
         \/ sent[i] \in lost[b]
         \/ Given(b, sent[i])
         \/ Awaited(b) /\ i = Len(sent)
  /\ \A x \in lost[b] : ~Given(b, x)
  /\ Len(Received(b)) + base[b] <= Len(sent)
  /\ Awaited(b) => Len(Received(b)) + base[b] < Len(sent)

BrowserInv(b) == IF conn[b] = "off" THEN ~Awaited(b) ELSE FeedOf(b)

\* The inductive invariant.
IInv == TypeOK /\ LoopsInv /\ \A b \in Browser : BrowserInv(b)

-----------------------------------------------------------------------------
(* Sequences                                                               *)

\* An event that is appended is the last one; the others keep their place.
LEMMA AppendFacts ==
  ASSUME NEW S, NEW s \in Seq(S), NEW x \in S
  PROVE  /\ Append(s, x) \in Seq(S)
         /\ Len(s) \in Nat
         /\ Len(Append(s, x)) = Len(s) + 1
         /\ Append(s, x)[Len(s) + 1] = x
         /\ \A i \in 1 .. Len(s) : Append(s, x)[i] = s[i] /\ s[i] \in S
OBVIOUS

\* Appending commutes with concatenating on the left.
LEMMA ConcatAppend ==
  ASSUME NEW S, NEW s \in Seq(S), NEW t \in Seq(S), NEW x \in S
  PROVE  s \o Append(t, x) = Append(s \o t, x)
<1>1. <<x>> \in Seq(S) /\ s \o t \in Seq(S)
  BY ConcatProperties
<1>2. Append(t, x) = t \o <<x>> /\ Append(s \o t, x) = (s \o t) \o <<x>>
  BY <1>1, AppendIsConcat
<1>3. (s \o t) \o <<x>> = s \o (t \o <<x>>)
  BY <1>1, ConcatAssociative
<1> QED
  BY <1>2, <1>3

\* What b has been given is a sequence of events, at least as long as what is
\* in its channel.
LEMMA ReceivedType ==
  ASSUME TypeOK, NEW b \in Browser
  PROVE  /\ Received(b) \in Seq(Event)
         /\ Len(Received(b)) \in Nat
         /\ Len(chan[b]) \in Nat
         /\ Len(chan[b]) <= Len(Received(b))
<1> DEFINE s == shown[b] \o hand[b]
           c == chan[b]
<1>1. shown[b] \in Seq(Event) /\ hand[b] \in Seq(Event) /\ c \in Seq(Event)
  BY DEF TypeOK
<1>2. s \in Seq(Event)
  BY <1>1, ConcatProperties
<1>3. Received(b) = s \o c
  BY DEF Received
<1> HIDE DEF s, c
<1>4. Received(b) \in Seq(Event) /\ Len(Received(b)) = Len(s) + Len(c)
  BY <1>1, <1>2, <1>3, ConcatProperties
<1>5. Len(s) \in Nat /\ Len(c) \in Nat
  BY <1>1, <1>2, LenProperties
<1>6. Len(Received(b)) \in Nat /\ Len(c) <= Len(Received(b))
  BY <1>4, <1>5
<1> QED
  BY <1>4, <1>5, <1>6 DEF c

\* An event put into the channel is the last one b is given.
LEMMA ReceivedGrows ==
  ASSUME TypeOK, NEW b \in Browser, NEW x \in Event,
         shown'[b] = shown[b], hand'[b] = hand[b], chan'[b] = Append(chan[b], x)
  PROVE  Received(b)' = Append(Received(b), x)
<1> DEFINE s == shown[b] \o hand[b]
           c == chan[b]
<1>1. shown[b] \in Seq(Event) /\ hand[b] \in Seq(Event) /\ c \in Seq(Event)
  BY DEF TypeOK
<1>2. s \in Seq(Event)
  BY <1>1, ConcatProperties
<1>3. Received(b) = s \o c /\ Received(b)' = s \o Append(c, x)
  BY DEF Received
<1> HIDE DEF s, c
<1>4. s \o Append(c, x) = Append(s \o c, x)
  BY <1>1, <1>2, ConcatAppend
<1> QED
  BY <1>3, <1>4

\* Taking an event from the channel, and writing it, change nothing in what b
\* has been given.
LEMMA TakeKeepsReceived ==
  ASSUME TypeOK, NEW b \in Browser, Take(b)
  PROVE  Received(b)' = Received(b)
<1> DEFINE s == shown[b]
           c == chan[b]
<1>1. s \in Seq(Event) /\ c \in Seq(Event) /\ c # <<>> /\ hand[b] = <<>>
  BY DEF TypeOK, Take
<1>2. shown'[b] = s /\ hand'[b] = <<Head(c)>> /\ chan'[b] = Tail(c)
  BY DEF TypeOK, Take
<1>3. Received(b) = s \o c /\ Received(b)' = (s \o <<Head(c)>>) \o Tail(c)
  BY <1>1, <1>2, ConcatEmptySeq DEF Received
<1> HIDE DEF s, c
<1>4. /\ Head(c) \in Event /\ <<Head(c)>> \in Seq(Event) /\ Tail(c) \in Seq(Event)
      /\ c = <<Head(c)>> \o Tail(c)
  BY <1>1
<1>5. (s \o <<Head(c)>>) \o Tail(c) = s \o (<<Head(c)>> \o Tail(c))
  BY <1>1, <1>4, ConcatAssociative
<1> QED
  BY <1>3, <1>4, <1>5

LEMMA WriteKeepsReceived ==
  ASSUME TypeOK, NEW b \in Browser, Write(b)
  PROVE  Received(b)' = Received(b)
<1>1. shown[b] \in Seq(Event) /\ hand[b] \in Seq(Event)
  BY DEF TypeOK
<1>2. /\ shown'[b] = shown[b] \o hand[b] /\ hand'[b] = <<>> /\ chan'[b] = chan[b]
  BY DEF TypeOK, Write
<1>3. shown[b] \o hand[b] \in Seq(Event)
  BY <1>1, ConcatProperties
<1>4. (shown[b] \o hand[b]) \o <<>> = shown[b] \o hand[b]
  BY <1>3, ConcatEmptySeq
<1> QED
  BY <1>2, <1>4 DEF Received

-----------------------------------------------------------------------------
(* What can happen to the feed of a browser                                *)

\* Nothing that concerns it.
LEMMA SameFeed ==
  ASSUME NEW b \in Browser, FeedOf(b),
         Received(b)' = Received(b), base'[b] = base[b], lost'[b] = lost[b],
         sent' = sent, Awaited(b)' <=> Awaited(b)
  PROVE  FeedOf(b)'
BY DEF FeedOf, Given

\* A broadcast begins: its event is new to b, and is on its way.
LEMMA StartedFeed ==
  ASSUME TypeOK, NEW b \in Browser, FeedOf(b), ~Awaited(b), Awaited(b)',
         NEW x \in Event, sent' = Append(sent, x), \A i \in 1 .. Len(sent) : sent[i] # x,
         Received(b)' = Received(b), base'[b] = base[b], lost'[b] = lost[b]
  PROVE  FeedOf(b)'
<1> DEFINE n == Len(sent)
           R == Received(b)
<1>1. /\ n \in Nat /\ Len(sent') = n + 1 /\ sent'[n + 1] = x
      /\ \A i \in 1 .. n : sent'[i] = sent[i] /\ sent[i] # x
  BY AppendFacts DEF TypeOK
<1>2. \A i \in 1 .. n + 1 : i \in 1 .. n \/ i = n + 1
  BY <1>1
<1>3. base[b] \in Nat /\ Len(R) \in Nat /\ Capacity \in Nat
  BY FeedAssumption, ReceivedType DEF TypeOK
<1> HIDE DEF n, R
<1>4. \A k \in 1 .. Len(R) : \E i \in 1 .. n : i > base[b] /\ R[k] = sent[i]
  BY DEF FeedOf, n, R
<1>5. \A y \in lost[b] : \E i \in 1 .. n : i > base[b] + Capacity /\ y = sent[i]
  BY DEF FeedOf, n
<1>6. (\A k \in 1 .. Len(R) : R[k] # x) /\ x \notin lost[b]
  BY <1>1, <1>4, <1>5
<1>7. \A k, l \in 1 .. Len(R), i, j \in 1 .. n + 1 :
        k < l /\ R[k] = sent'[i] /\ R[l] = sent'[j] => i < j
  <2>1. \A k, l \in 1 .. Len(R), i, j \in 1 .. n :
          k < l /\ R[k] = sent[i] /\ R[l] = sent[j] => i < j
    BY DEF FeedOf, n, R
  <2> QED
    BY <1>1, <1>2, <1>6, <2>1
<1>8. \A i \in 1 .. n : i > base[b] =>
        sent[i] \in lost[b] \/ \E k \in 1 .. Len(R) : R[k] = sent[i]
  BY DEF FeedOf, Given, n, R
<1>9. \A i \in 1 .. n + 1 : i > base[b] =>
        \/ sent'[i] \in lost[b]
        \/ \E k \in 1 .. Len(R) : R[k] = sent'[i]
        \/ i = n + 1
  BY <1>1, <1>2, <1>8
<1>10. \A k \in 1 .. Len(R) : \E i \in 1 .. n + 1 : i > base[b] /\ R[k] = sent'[i]
  BY <1>1, <1>4
<1>11. \A y \in lost[b] : \E i \in 1 .. n + 1 : i > base[b] + Capacity /\ y = sent'[i]
  BY <1>1, <1>5
<1>12. Len(R) + base[b] <= n /\ Len(R) + base[b] < n + 1
  BY <1>1, <1>3 DEF FeedOf, n, R
<1>13. Len(R) + base[b] <= n + 1
  BY <1>1, <1>3, <1>12
<1>14. \A y \in lost[b] : ~(\E k \in 1 .. Len(R) : R[k] = y)
  BY DEF FeedOf, Given, R
<1> QED
  BY <1>1, <1>6, <1>7, <1>9, <1>10, <1>11, <1>12, <1>13, <1>14 DEF FeedOf, Given, R

\* The event comes to b.
LEMMA GivenFeed ==
  ASSUME TypeOK, SentOnce, NEW b \in Browser, FeedOf(b), Awaited(b), ~Awaited(b)',
         Len(sent) # 0, sent' = sent,
         Received(b)' = Append(Received(b), sent[Len(sent)]),
         base'[b] = base[b], lost'[b] = lost[b]
  PROVE  FeedOf(b)'
<1> DEFINE n == Len(sent)
           R == Received(b)
           S == Append(R, sent[n])
           m == Len(R)
<1>1. n \in Nat /\ n \in 1 .. n /\ sent[n] \in Event
  <2>1. n \in Nat /\ n # 0 /\ sent \in Seq(Event)
    BY DEF TypeOK
  <2>2. n \in 1 .. n
    BY <2>1
  <2> QED
    BY <2>1, <2>2
<1>2. /\ m \in Nat /\ Len(S) = m + 1 /\ S[m + 1] = sent[n]
      /\ \A k \in 1 .. m : S[k] = R[k]
  BY <1>1, ReceivedType, AppendFacts
<1>3. base[b] \in Nat /\ Received(b)' = S
  BY DEF TypeOK
<1> HIDE DEF n, R, S, m
<1>4. \A k \in 1 .. m + 1 : k \in 1 .. m \/ k = m + 1
  BY <1>2
<1>5. m + base[b] < n
  BY DEF FeedOf, n, R, m
<1>6. n > base[b] /\ m + 1 + base[b] <= n
  BY <1>1, <1>2, <1>3, <1>5
<1>7. /\ \A k \in 1 .. m : R[k] # sent[n]
      /\ sent[n] \notin lost[b]
  BY DEF FeedOf, Given, n, R, m
<1>8. \A k \in 1 .. m + 1 : \E i \in 1 .. n : i > base[b] /\ S[k] = sent[i]
  <2>1. \A k \in 1 .. m : \E i \in 1 .. n : i > base[b] /\ R[k] = sent[i]
    BY DEF FeedOf, n, R, m
  <2> QED
    BY <1>1, <1>2, <1>4, <1>6, <2>1
<1>9. \A k, l \in 1 .. m + 1, i, j \in 1 .. n :
        k < l /\ S[k] = sent[i] /\ S[l] = sent[j] => i < j
  <2>1. \A k, l \in 1 .. m, i, j \in 1 .. n :
          k < l /\ R[k] = sent[i] /\ R[l] = sent[j] => i < j
    BY DEF FeedOf, n, R, m
  <2>2. \A i \in 1 .. n : sent[i] = sent[n] => i = n
    BY <1>1 DEF SentOnce, n
  <2>3. \A i \in 1 .. n : i # n => i < n
    BY <1>1
  <2>4. SUFFICES ASSUME NEW k \in 1 .. m + 1, NEW l \in 1 .. m + 1,
                        NEW i \in 1 .. n, NEW j \in 1 .. n,
                        k < l, S[k] = sent[i], S[l] = sent[j]
                 PROVE  i < j
    OBVIOUS
  <2>5. k \in 1 .. m
    BY <1>2, <2>4
  <2>6. CASE l \in 1 .. m
    BY <1>2, <2>1, <2>4, <2>5, <2>6
  <2>7. CASE l = m + 1
    <3>1. j = n
      BY <1>2, <2>2, <2>4, <2>7
    <3>2. i # n
      BY <1>2, <1>7, <2>4, <2>5
    <3> QED
      BY <2>3, <3>1, <3>2
  <2> QED
    BY <1>4, <2>6, <2>7
<1>10. \A i \in 1 .. n : i > base[b] =>
         sent[i] \in lost[b] \/ \E k \in 1 .. m + 1 : S[k] = sent[i]
  <2>1. \A i \in 1 .. n : i > base[b] =>
          sent[i] \in lost[b] \/ (\E k \in 1 .. m : R[k] = sent[i]) \/ i = n
    BY DEF FeedOf, Given, n, R, m
  <2>2. m + 1 \in 1 .. m + 1 /\ \A k \in 1 .. m : k \in 1 .. m + 1
    BY <1>2
  <2> QED
    BY <1>2, <2>1, <2>2
<1>11. \A y \in lost[b] : ~(\E k \in 1 .. m + 1 : S[k] = y)
  <2>1. \A y \in lost[b] : ~(\E k \in 1 .. m : R[k] = y)
    BY DEF FeedOf, Given, R, m
  <2> QED
    BY <1>2, <1>4, <1>7, <2>1
<1>12. \A y \in lost[b] : \E i \in 1 .. n : i > base[b] + Capacity /\ y = sent[i]
  BY DEF FeedOf, n
<1>13. /\ Len(sent') = n /\ Len(Received(b)') = m + 1
       /\ \A y : Given(b, y)' <=> \E k \in 1 .. m + 1 : S[k] = y
  BY <1>2, <1>3 DEF Given, n
<1> QED
  BY <1>3, <1>6, <1>8, <1>9, <1>10, <1>11, <1>12, <1>13 DEF FeedOf

\* The channel is full, and the event is dropped: b was given at least what
\* is in the channel.
LEMMA DroppedFeed ==
  ASSUME TypeOK, NEW b \in Browser, FeedOf(b), Awaited(b), ~Awaited(b)',
         Capacity <= Len(chan[b]), Len(sent) # 0, sent' = sent,
         Received(b)' = Received(b), base'[b] = base[b],
         lost'[b] = lost[b] \cup {sent[Len(sent)]}
  PROVE  FeedOf(b)'
<1> DEFINE n == Len(sent)
           R == Received(b)
<1>1. n \in Nat /\ n \in 1 .. n
  <2>1. n \in Nat /\ n # 0
    BY DEF TypeOK
  <2> QED
    BY <2>1
<1>2. /\ base[b] \in Nat /\ Len(R) \in Nat /\ Len(chan[b]) \in Nat
      /\ Len(chan[b]) <= Len(R) /\ Capacity \in Nat
  BY FeedAssumption, ReceivedType DEF TypeOK
<1> HIDE DEF n, R
<1>3. Len(R) + base[b] < n /\ Len(R) + base[b] <= n
  BY DEF FeedOf, n, R
<1>4. n > base[b] + Capacity
  BY <1>1, <1>2, <1>3
<1>5. ~Given(b, sent[n])
  BY DEF FeedOf, n
<1>6. \A y \in lost'[b] : \E i \in 1 .. n : i > base[b] + Capacity /\ y = sent[i]
  BY <1>1, <1>4 DEF FeedOf, n
<1>7. \A y \in lost'[b] : ~Given(b, y)
  BY <1>5 DEF FeedOf, n
<1>8. \A i \in 1 .. n : i > base[b] => sent[i] \in lost'[b] \/ Given(b, sent[i])
  BY DEF FeedOf, n
<1>9. /\ \A k \in 1 .. Len(R) : \E i \in 1 .. n : i > base[b] /\ R[k] = sent[i]
      /\ \A k, l \in 1 .. Len(R), i, j \in 1 .. n :
           k < l /\ R[k] = sent[i] /\ R[l] = sent[j] => i < j
  BY DEF FeedOf, n, R
<1> QED
  BY <1>3, <1>6, <1>7, <1>8, <1>9 DEF FeedOf, Given, n, R

\* A browser connects.
LEMMA NewFeed ==
  ASSUME TypeOK, NEW b \in Browser, ~Awaited(b)', sent' = sent,
         Received(b)' = <<>>, base'[b] = Len(sent), lost'[b] = {}
  PROVE  FeedOf(b)'
<1>1. Len(sent) \in Nat /\ \A i \in 1 .. Len(sent) : ~(i > Len(sent))
  BY DEF TypeOK
<1> QED
  BY <1>1 DEF FeedOf, Given

-----------------------------------------------------------------------------
(* The steps                                                               *)

LEMMA InitEstablishes == Init => IInv
<1> SUFFICES ASSUME Init
             PROVE  IInv
  OBVIOUS
<1>1. <<>> \in Seq(Event) /\ Len(<<>>) = 0
  OBVIOUS
<1>2. TypeOK
  BY <1>1, FeedAssumption DEF Init, TypeOK
<1>3. LoopsInv
  BY <1>1 DEF Init, LoopsInv, SentOnce
<1>4. \A b \in Browser : BrowserInv(b)
  BY DEF Init, BrowserInv, Awaited
<1> QED
  BY <1>2, <1>3, <1>4 DEF IInv

LEMMA StartBroadcastKeeps ==
  ASSUME IInv, NEW t \in Topic, StartBroadcast(t)
  PROVE  IInv'
<1> DEFINE x == <<t, done[t] + 1>>
           n == Len(sent)
<1>1. TypeOK /\ LoopsInv
  BY DEF IInv
<1>2. /\ busy = {} /\ busy' = {t} /\ t \notin dead /\ done[t] < Messages[t]
      /\ sent' = Append(sent, x)
      /\ todo' = [todo EXCEPT ![t] = {b \in Browser : conn[b] # "off"}]
      /\ UNCHANGED <<done, dead, client>>
  BY DEF StartBroadcast, MutexFree
<1>3. done[t] \in Nat /\ Messages[t] \in Nat /\ sent \in Seq(Event) /\ n \in Nat
  BY <1>1, FeedAssumption DEF TypeOK
<1>4. x \in Event
  BY <1>2, <1>3 DEF Event
<1>5. /\ sent' \in Seq(Event) /\ Len(sent') = n + 1 /\ sent'[n + 1] = x
      /\ \A i \in 1 .. n : sent'[i] = sent[i]
  BY <1>2, <1>3, <1>4, AppendFacts
<1>6. \A i \in 1 .. n + 1 : i \in 1 .. n \/ i = n + 1
  BY <1>3
<1>7. x[1] = t /\ x[2] = done[t] + 1
  OBVIOUS
<1>8. \A i \in 1 .. n : sent[i][2] <= done[sent[i][1]]
  BY <1>1, <1>2 DEF LoopsInv
<1>9. \A i \in 1 .. n : sent[i] # x
  BY <1>3, <1>7, <1>8
<1>10. /\ \A b \in Browser : base[b] \in Nat /\ base[b] <= n + 1
  BY <1>1, <1>3 DEF TypeOK
<1>11. todo' \in [Topic -> SUBSET Browser] /\ \A u \in Topic \ busy' : todo'[u] = {}
  BY <1>1, <1>2 DEF TypeOK
<1>12. TypeOK'
  BY <1>1, <1>2, <1>5, <1>10, <1>11 DEF TypeOK, client
<1>13. LoopsInv'
  <2>1. SentOnce'
    <3>1. \A i, j \in 1 .. n : sent[i] = sent[j] => i = j
      BY <1>1 DEF LoopsInv, SentOnce
    <3> HIDE DEF n, x
    <3> QED
      BY <1>5, <1>6, <1>9, <3>1 DEF SentOnce
  <2>2. \A i \in 1 .. n + 1 :
          \/ sent'[i][2] <= done[sent'[i][1]]
          \/ sent'[i][1] \in busy' /\ sent'[i][2] = done[sent'[i][1]] + 1
    <3> HIDE DEF n, x
    <3> QED
      BY <1>2, <1>5, <1>6, <1>7, <1>8
  <2>3. n + 1 # 0
    BY <1>3
  <2> QED
    BY <1>2, <1>5, <2>1, <2>2, <2>3 DEF LoopsInv
<1>14. ASSUME NEW b \in Browser
       PROVE  BrowserInv(b)'
  <2>1. ~Awaited(b) /\ (Awaited(b)' <=> conn[b] # "off")
    BY <1>1, <1>2 DEF Awaited, TypeOK
  <2>2. Received(b)' = Received(b) /\ base'[b] = base[b] /\ lost'[b] = lost[b]
    BY <1>2 DEF client, Received
  <2>3. CASE conn[b] = "off"
    BY <1>2, <2>1, <2>3 DEF BrowserInv, client
  <2>4. CASE conn[b] # "off"
    <3>1. FeedOf(b)
      BY <2>4 DEF IInv, BrowserInv
    <3>2. FeedOf(b)'
      <4> HIDE DEF x
      <4> QED
        BY <1>1, <1>2, <1>4, <1>9, <2>1, <2>2, <2>4, <3>1, StartedFeed
    <3> QED
      BY <1>2, <2>4, <3>2 DEF BrowserInv, client
  <2> QED
    BY <2>3, <2>4
<1> QED
  BY <1>12, <1>13, <1>14 DEF IInv

LEMMA SendNextKeeps ==
  ASSUME IInv, NEW t \in Topic, SendNext(t)
  PROVE  IInv'
<1> DEFINE x == <<t, done[t] + 1>>
<1>1. TypeOK /\ LoopsInv
  BY DEF IInv
<1>2. t \in busy /\ UNCHANGED <<done, dead, busy, sent, conn, hand, shown, base>>
  BY DEF SendNext
<1>3. PICK c \in todo[t] : Send(t, c)
  BY DEF SendNext
<1>4. c \in Browser /\ todo' = [todo EXCEPT ![t] = @ \ {c}]
  BY <1>1, <1>3 DEF TypeOK, Send
<1>5. Len(sent) # 0 /\ x = sent[Len(sent)] /\ x \in Event
  <2>1. Len(sent) # 0 /\ x = sent[Len(sent)] /\ sent \in Seq(Event) /\ Len(sent) \in Nat
    BY <1>1, <1>2 DEF LoopsInv, TypeOK
  <2>2. Len(sent) \in 1 .. Len(sent)
    BY <2>1
  <2> QED
    BY <2>1, <2>2
<1> HIDE DEF x
<1>6. \/ /\ Len(chan[c]) < Capacity
         /\ chan' = [chan EXCEPT ![c] = Append(@, x)] /\ UNCHANGED lost
      \/ /\ ~(Len(chan[c]) < Capacity)
         /\ lost' = [lost EXCEPT ![c] = @ \cup {x}] /\ UNCHANGED chan
  BY <1>3 DEF Send, HasRoom, x
<1>7. chan[c] \in Seq(Event) /\ Len(chan[c]) \in Nat /\ Capacity \in Nat
  BY <1>1, <1>4, FeedAssumption DEF TypeOK
<1>8. TypeOK'
  <2>1. todo' \in [Topic -> SUBSET Browser] /\ \A u \in Topic \ busy : todo'[u] = {}
    BY <1>1, <1>2, <1>4 DEF TypeOK
  <2>2. CASE Len(chan[c]) < Capacity /\ chan' = [chan EXCEPT ![c] = Append(@, x)]
             /\ UNCHANGED lost
    <3>1. Append(chan[c], x) \in Seq(Event) /\ Len(Append(chan[c], x)) <= Capacity
      BY <1>5, <1>7, <2>2, AppendFacts
    <3>2. /\ chan' \in [Browser -> Seq(Event)]
          /\ \A b \in Browser : Len(chan'[b]) <= Capacity
      BY <1>1, <2>2, <3>1 DEF TypeOK
    <3> QED
      BY <1>1, <1>2, <2>1, <2>2, <3>2 DEF TypeOK
  <2>3. CASE lost' = [lost EXCEPT ![c] = @ \cup {x}] /\ UNCHANGED chan
    BY <1>1, <1>2, <1>5, <2>1, <2>3 DEF TypeOK
  <2> QED
    BY <1>6, <2>2, <2>3
<1>9. LoopsInv'
  BY <1>1, <1>2 DEF LoopsInv, SentOnce
<1>10. \A b \in Browser : Awaited(b)' <=> Awaited(b) /\ b # c
  BY <1>1, <1>2, <1>3, <1>4 DEF Awaited, LoopsInv, TypeOK
<1>11. Awaited(c)
  BY <1>2, <1>3 DEF Awaited
<1>12. ASSUME NEW b \in Browser, b # c
       PROVE  BrowserInv(b)'
  <2>1. /\ chan'[b] = chan[b] /\ lost'[b] = lost[b] /\ base'[b] = base[b]
        /\ conn'[b] = conn[b] /\ Received(b)' = Received(b)
    BY <1>1, <1>2, <1>6, <1>12 DEF TypeOK, Received
  <2> QED
    BY <1>2, <1>10, <1>12, <2>1, SameFeed DEF IInv, BrowserInv
<1>13. BrowserInv(c)'
  <2>1. conn[c] # "off" /\ FeedOf(c)
    BY <1>4, <1>11 DEF IInv, BrowserInv
  <2>2. ~Awaited(c)'
    BY <1>4, <1>10
  <2>3. base'[c] = base[c] /\ conn'[c] = conn[c] /\ SentOnce
    BY <1>1, <1>2 DEF LoopsInv
  <2>4. CASE chan' = [chan EXCEPT ![c] = Append(@, x)] /\ UNCHANGED lost
    <3>1. chan'[c] = Append(chan[c], x) /\ shown'[c] = shown[c] /\ hand'[c] = hand[c]
      BY <1>1, <1>2, <1>4, <2>4 DEF TypeOK
    <3>2. Received(c)' = Append(Received(c), x)
      BY <1>1, <1>4, <1>5, <3>1, ReceivedGrows
    <3>3. FeedOf(c)'
      BY <1>1, <1>2, <1>4, <1>5, <1>11, <2>1, <2>2, <2>3, <2>4, <3>2, GivenFeed
    <3> QED
      BY <2>1, <2>3, <3>3 DEF BrowserInv
  <2>5. CASE ~(Len(chan[c]) < Capacity)
             /\ lost' = [lost EXCEPT ![c] = @ \cup {x}] /\ UNCHANGED chan
    <3>1. lost'[c] = lost[c] \cup {sent[Len(sent)]} /\ Capacity <= Len(chan[c])
      BY <1>1, <1>4, <1>5, <1>7, <2>5 DEF TypeOK
    <3>2. Received(c)' = Received(c)
      BY <1>2, <2>5 DEF Received
    <3>3. FeedOf(c)'
      BY <1>1, <1>2, <1>4, <1>5, <1>11, <2>1, <2>2, <2>3, <3>1, <3>2, DroppedFeed
    <3> QED
      BY <2>1, <2>3, <3>3 DEF BrowserInv
  <2> QED
    BY <1>6, <2>4, <2>5
<1> QED
  BY <1>8, <1>9, <1>12, <1>13 DEF IInv

LEMMA EndBroadcastKeeps ==
  ASSUME IInv, NEW t \in Topic, EndBroadcast(t)
  PROVE  IInv'
<1>1. TypeOK /\ LoopsInv
  BY DEF IInv
<1>2. /\ t \in busy /\ todo[t] = {} /\ busy' = busy \ {t}
      /\ done' = [done EXCEPT ![t] = @ + 1]
      /\ UNCHANGED <<dead, todo, sent, client>>
  BY DEF EndBroadcast
<1>3. busy = {t} /\ busy' = {}
  BY <1>1, <1>2 DEF LoopsInv
<1>4. /\ done \in [Topic -> Nat] /\ done[t] < Messages[t]
      /\ Messages \in [Topic -> Nat] /\ \A u \in Topic : done[u] <= Messages[u]
  BY <1>1, <1>2, FeedAssumption DEF TypeOK, LoopsInv
<1>5. /\ done' \in [Topic -> Nat] /\ \A u \in Topic : done'[u] <= Messages[u]
      /\ \A u \in Topic : done'[u] = IF u = t THEN done[u] + 1 ELSE done[u]
  BY <1>2, <1>4
<1>6. TypeOK'
  BY <1>1, <1>2, <1>3, <1>5 DEF TypeOK, client
<1>7. \A i \in 1 .. Len(sent) : sent[i][2] <= done'[sent[i][1]]
  <2>1. SUFFICES ASSUME NEW i \in 1 .. Len(sent)
                 PROVE  sent[i][2] <= done'[sent[i][1]]
    OBVIOUS
  <2>2. PICK u \in Topic, k \in Nat : sent[i] = <<u, k>>
    <3>1. sent[i] \in Event
      BY <1>1 DEF TypeOK
    <3> QED
      BY <3>1, <1>4 DEF Event
  <2>3. k <= done[u] \/ (u = t /\ k = done[u] + 1)
    BY <1>1, <1>3, <2>2 DEF LoopsInv
  <2>4. done[u] \in Nat /\ k \in Nat
    BY <1>4
  <2> QED
    BY <1>5, <2>2, <2>3, <2>4
<1>8. LoopsInv'
  BY <1>1, <1>2, <1>3, <1>7 DEF LoopsInv, SentOnce
<1>9. ASSUME NEW b \in Browser
      PROVE  BrowserInv(b)'
  <2>1. Awaited(b)' <=> Awaited(b)
    BY <1>2, <1>3 DEF Awaited
  <2>2. Received(b)' = Received(b) /\ base'[b] = base[b] /\ lost'[b] = lost[b]
        /\ conn'[b] = conn[b]
    BY <1>2 DEF client, Received
  <2> QED
    BY <1>2, <2>1, <2>2, SameFeed DEF IInv, BrowserInv
<1> QED
  BY <1>6, <1>8, <1>9 DEF IInv

LEMMA FetchFailsKeeps ==
  ASSUME IInv, NEW t \in Topic, FetchFails(t)
  PROVE  IInv'
<1>1. /\ t \notin busy /\ dead' = dead \cup {t}
      /\ UNCHANGED <<done, busy, todo, sent, client>>
  BY DEF FetchFails
<1>2. TypeOK'
  BY <1>1 DEF IInv, TypeOK, client
<1>3. LoopsInv'
  BY <1>1 DEF IInv, LoopsInv, SentOnce
<1>4. ASSUME NEW b \in Browser
      PROVE  BrowserInv(b)'
  <2>1. /\ Awaited(b)' <=> Awaited(b)
        /\ Received(b)' = Received(b) /\ base'[b] = base[b] /\ lost'[b] = lost[b]
        /\ conn'[b] = conn[b]
    BY <1>1 DEF client, Received, Awaited
  <2> QED
    BY <1>1, <2>1, SameFeed DEF IInv, BrowserInv
<1> QED
  BY <1>2, <1>3, <1>4 DEF IInv

\* What a browser does leaves the loops alone, and the other browsers.
LEMMA BrowserStep ==
  ASSUME IInv, TypeOK', NEW b \in Browser, UNCHANGED loops, BrowserInv(b)',
         \A c \in Browser \ {b} :
           /\ conn'[c] = conn[c] /\ chan'[c] = chan[c] /\ hand'[c] = hand[c]
           /\ shown'[c] = shown[c] /\ base'[c] = base[c] /\ lost'[c] = lost[c]
  PROVE  IInv'
<1>1. LoopsInv'
  BY DEF IInv, LoopsInv, SentOnce, loops
<1>2. ASSUME NEW c \in Browser \ {b}
      PROVE  BrowserInv(c)'
  <2>1. /\ Awaited(c)' <=> Awaited(c)
        /\ Received(c)' = Received(c) /\ base'[c] = base[c] /\ lost'[c] = lost[c]
        /\ conn'[c] = conn[c] /\ sent' = sent
    BY DEF Received, Awaited, loops
  <2> QED
    BY <2>1, SameFeed DEF IInv, BrowserInv
<1> QED
  BY <1>1, <1>2 DEF IInv

LEMMA ConnectKeeps ==
  ASSUME IInv, NEW b \in Browser, Connect(b)
  PROVE  IInv'
<1>1. TypeOK
  BY DEF IInv
<1>2. /\ busy = {} /\ UNCHANGED loops
      /\ conn' = [conn EXCEPT ![b] = "open"]
      /\ chan' = [chan EXCEPT ![b] = <<>>] /\ hand' = [hand EXCEPT ![b] = <<>>]
      /\ shown' = [shown EXCEPT ![b] = <<>>]
      /\ base' = [base EXCEPT ![b] = Len(sent)] /\ lost' = [lost EXCEPT ![b] = {}]
  BY DEF Connect, MutexFree
<1>3. <<>> \in Seq(Event) /\ Len(<<>>) = 0 /\ <<>> \o <<>> = <<>> /\ Len(sent) \in Nat
  BY <1>1, ConcatEmptySeq DEF TypeOK
<1>4. TypeOK'
  BY <1>1, <1>2, <1>3, FeedAssumption DEF TypeOK, loops
<1>5. BrowserInv(b)'
  <2>1. /\ conn'[b] = "open" /\ base'[b] = Len(sent) /\ lost'[b] = {}
        /\ shown'[b] = <<>> /\ hand'[b] = <<>> /\ chan'[b] = <<>>
    BY <1>1, <1>2 DEF TypeOK
  <2>2. Received(b)' = <<>>
    BY <1>3, <2>1 DEF Received
  <2>3. sent' = sent /\ ~Awaited(b)'
    BY <1>2 DEF loops, Awaited
  <2> QED
    BY <1>1, <2>1, <2>2, <2>3, NewFeed DEF BrowserInv
<1>6. \A c \in Browser \ {b} :
        /\ conn'[c] = conn[c] /\ chan'[c] = chan[c] /\ hand'[c] = hand[c]
        /\ shown'[c] = shown[c] /\ base'[c] = base[c] /\ lost'[c] = lost[c]
  BY <1>1, <1>2 DEF TypeOK
<1> QED
  BY <1>2, <1>4, <1>5, <1>6, BrowserStep

\* Steps after which b has been given what it had been given.
LEMMA ReadingKeeps ==
  ASSUME IInv, TypeOK', NEW b \in Browser, UNCHANGED <<loops, conn, base, lost>>,
         Received(b)' = Received(b),
         \A c \in Browser \ {b} :
           chan'[c] = chan[c] /\ hand'[c] = hand[c] /\ shown'[c] = shown[c]
  PROVE  IInv'
<1>1. BrowserInv(b)'
  <2>1. (Awaited(b)' <=> Awaited(b)) /\ sent' = sent
    BY DEF Awaited, loops
  <2> QED
    BY <2>1, SameFeed DEF IInv, BrowserInv
<1> QED
  BY <1>1, BrowserStep

LEMMA TakeKeeps ==
  ASSUME IInv, NEW b \in Browser, Take(b)
  PROVE  IInv'
<1>1. TypeOK
  BY DEF IInv
<1>2. /\ chan[b] # <<>> /\ UNCHANGED <<loops, conn, shown, base, lost>>
      /\ hand' = [hand EXCEPT ![b] = <<Head(chan[b])>>]
      /\ chan' = [chan EXCEPT ![b] = Tail(@)]
  BY DEF Take
<1>3. /\ Head(chan[b]) \in Event /\ Tail(chan[b]) \in Seq(Event)
      /\ Len(Tail(chan[b])) <= Capacity
  <2>1. chan[b] \in Seq(Event) /\ Len(chan[b]) <= Capacity
    BY <1>1 DEF TypeOK
  <2>2. /\ Head(chan[b]) \in Event /\ Tail(chan[b]) \in Seq(Event)
        /\ Len(Tail(chan[b])) = Len(chan[b]) - 1 /\ Len(chan[b]) \in Nat
    BY <1>2, <2>1, HeadTailProperties
  <2> QED
    BY <2>1, <2>2, FeedAssumption
<1>4. <<Head(chan[b])>> \in Seq(Event) /\ Len(<<Head(chan[b])>>) = 1
  BY <1>3
<1>5. hand' \in [Browser -> Seq(Event)] /\ \A c \in Browser : Len(hand'[c]) <= 1
  BY <1>1, <1>2, <1>4 DEF TypeOK
<1>6. chan' \in [Browser -> Seq(Event)] /\ \A c \in Browser : Len(chan'[c]) <= Capacity
  BY <1>1, <1>2, <1>3 DEF TypeOK
<1>7. TypeOK'
  BY <1>1, <1>2, <1>5, <1>6 DEF TypeOK, loops
<1>8. Received(b)' = Received(b)
  BY <1>1, TakeKeepsReceived
<1>9. \A c \in Browser \ {b} :
        chan'[c] = chan[c] /\ hand'[c] = hand[c] /\ shown'[c] = shown[c]
  BY <1>1, <1>2 DEF TypeOK
<1> QED
  BY <1>2, <1>7, <1>8, <1>9, ReadingKeeps

LEMMA WriteKeeps ==
  ASSUME IInv, NEW b \in Browser, Write(b)
  PROVE  IInv'
<1>1. TypeOK
  BY DEF IInv
<1>2. /\ UNCHANGED <<loops, conn, chan, base, lost>>
      /\ shown' = [shown EXCEPT ![b] = @ \o hand[b]]
      /\ hand' = [hand EXCEPT ![b] = <<>>]
  BY DEF Write
<1>3. shown[b] \o hand[b] \in Seq(Event)
  BY <1>1, ConcatProperties DEF TypeOK
<1>4. <<>> \in Seq(Event) /\ Len(<<>>) = 0
  OBVIOUS
<1>5. TypeOK'
  BY <1>1, <1>2, <1>3, <1>4 DEF TypeOK, loops
<1>6. Received(b)' = Received(b)
  BY <1>1, WriteKeepsReceived
<1>7. \A c \in Browser \ {b} :
        chan'[c] = chan[c] /\ hand'[c] = hand[c] /\ shown'[c] = shown[c]
  BY <1>1, <1>2 DEF TypeOK
<1> QED
  BY <1>2, <1>5, <1>6, <1>7, ReadingKeeps

\* A browser whose request is over stays registered until the mutex is free,
\* so that nothing is under way to it when it is removed.
LEMMA LeaveOrRemoveKeeps ==
  ASSUME IInv, NEW b \in Browser, Leave(b) \/ Remove(b)
  PROVE  IInv'
<1>1. TypeOK
  BY DEF IInv
<1>2. /\ UNCHANGED <<loops, chan, hand, shown, base, lost>>
      /\ conn[b] # "off"
      /\ \/ conn' = [conn EXCEPT ![b] = "gone"]
         \/ conn' = [conn EXCEPT ![b] = "off"] /\ busy = {}
  BY DEF Leave, Remove, MutexFree
<1>3. TypeOK'
  BY <1>1, <1>2 DEF TypeOK, loops
<1>4. \A c \in Browser \ {b} : conn'[c] = conn[c]
  BY <1>1, <1>2 DEF TypeOK
<1>5. BrowserInv(b)'
  <2>1. /\ (Awaited(b)' <=> Awaited(b)) /\ sent' = sent /\ Received(b)' = Received(b)
        /\ base'[b] = base[b] /\ lost'[b] = lost[b]
    BY <1>2 DEF Awaited, loops, Received
  <2>2. FeedOf(b)'
    BY <1>2, <2>1, SameFeed DEF IInv, BrowserInv
  <2>3. conn'[b] # "off" \/ ~Awaited(b)'
    BY <1>1, <1>2 DEF Awaited, loops, TypeOK
  <2>4. conn'[b] = "gone" \/ (conn'[b] = "off" /\ ~Awaited(b)')
    BY <1>1, <1>2, <2>3 DEF TypeOK
  <2> QED
    BY <2>2, <2>4 DEF BrowserInv
<1> QED
  BY <1>2, <1>3, <1>4, <1>5, BrowserStep

LEMMA NextKeeps == IInv /\ [Next]_vars => IInv'
<1> SUFFICES ASSUME IInv, [Next]_vars
             PROVE  IInv'
  OBVIOUS
<1>1. ASSUME NEW t \in Topic,
             StartBroadcast(t) \/ SendNext(t) \/ EndBroadcast(t) \/ FetchFails(t)
      PROVE  IInv'
  BY <1>1, StartBroadcastKeeps, SendNextKeeps, EndBroadcastKeeps, FetchFailsKeeps
<1>2. ASSUME NEW b \in Browser,
             Connect(b) \/ Take(b) \/ Write(b) \/ Leave(b) \/ Remove(b)
      PROVE  IInv'
  BY <1>2, ConnectKeeps, TakeKeeps, WriteKeeps, LeaveOrRemoveKeeps
<1>3. CASE UNCHANGED vars
  <2>1. UNCHANGED <<loops, client>>
    BY <1>3 DEF vars
  <2>2. TypeOK' /\ LoopsInv'
    BY <2>1 DEF IInv, TypeOK, LoopsInv, SentOnce, loops, client
  <2>3. ASSUME NEW b \in Browser
        PROVE  BrowserInv(b)'
    <3>1. /\ (Awaited(b)' <=> Awaited(b)) /\ sent' = sent /\ Received(b)' = Received(b)
          /\ base'[b] = base[b] /\ lost'[b] = lost[b] /\ conn'[b] = conn[b]
      BY <2>1 DEF loops, client, Awaited, Received
    <3> QED
      BY <3>1, SameFeed DEF IInv, BrowserInv
  <2> QED
    BY <2>2, <2>3 DEF IInv
<1> QED
  BY <1>1, <1>2, <1>3 DEF Next

-----------------------------------------------------------------------------
(* The theorems                                                            *)

\* The inductive invariant holds, for every number of topics, messages and
\* browsers and every capacity.
THEOREM InvariantHolds == Spec => []IInv
BY InitEstablishes, NextKeeps, PTL DEF Spec

\* Every variable of LiveFeed keeps its type: no channel holds more than its
\* capacity, and sseStream has one event in hand at most.
THEOREM TypeCorrect == Spec => []TypeOK
<1>1. IInv => TypeOK
  BY DEF IInv
<1> QED
  BY <1>1, InvariantHolds, PTL

\* Nothing is lost that was not dropped for a full channel, nothing comes
\* twice, and nothing of before comes in.
THEOREM NothingIsMislaid == Spec => []EventsAreAccountedFor
<1>1. IInv => EventsAreAccountedFor
  <2>1. SUFFICES ASSUME IInv, NEW b \in Browser, conn[b] # "off",
                        NEW i \in 1 .. Len(sent)
                 PROVE  /\ i <= base[b] => sent[i] \notin Range(Received(b))
                        /\ i > base[b] =>
                             /\ \/ sent[i] \in Coming(b)
                                \/ sent[i] \in lost[b]
                                \/ sent[i] \in Range(Received(b))
                             /\ ~(sent[i] \in lost[b] /\ sent[i] \in Range(Received(b)))
                             /\ sent[i] \in lost[b] => i > base[b] + Capacity
    BY DEF EventsAreAccountedFor
  <2>2. FeedOf(b) /\ TypeOK /\ SentOnce
    BY <2>1 DEF IInv, BrowserInv, LoopsInv
  <2>3. \A x : x \in Range(Received(b)) <=> Given(b, x)
    <3>1. Received(b) \in Seq(Event)
      BY <2>2, ReceivedType
    <3>2. DOMAIN Received(b) = 1 .. Len(Received(b))
      BY <3>1
    <3> QED
      BY <3>2 DEF Range, Given
  <2>4. ASSUME i <= base[b]
        PROVE  ~Given(b, sent[i])
    <3>1. base[b] \in Nat
      BY <2>2 DEF TypeOK
    <3>2. \A j \in 1 .. Len(sent) : j > base[b] => sent[j] # sent[i]
      BY <2>2, <2>4, <3>1 DEF SentOnce
    <3> QED
      BY <2>2, <3>2 DEF FeedOf, Given
  <2>5. Awaited(b) /\ i = Len(sent) => sent[i] \in Coming(b)
    BY <2>1 DEF IInv, LoopsInv, Awaited, Coming
  <2>6. sent[i] \in lost[b] => i > base[b] + Capacity
    BY <2>2 DEF FeedOf, SentOnce
  <2> QED
    BY <2>2, <2>3, <2>4, <2>5, <2>6 DEF FeedOf
<1> QED
  BY <1>1, InvariantHolds, PTL

\* Two browsers never see two events in different orders.
THEOREM AllSeeOneOrder == Spec => []OneOrder
<1>1. IInv => OneOrder
  <2>1. SUFFICES ASSUME IInv, NEW a \in Browser, NEW b \in Browser,
                        conn[a] # "off", conn[b] # "off",
                        NEW i \in 1 .. Len(Received(a)), NEW j \in 1 .. Len(Received(a)),
                        NEW k \in 1 .. Len(Received(b)), NEW l \in 1 .. Len(Received(b)),
                        Received(a)[i] = Received(b)[k], Received(a)[j] = Received(b)[l]
                 PROVE  i < j <=> k < l
    BY DEF OneOrder
  <2>2. FeedOf(a) /\ FeedOf(b) /\ Len(sent) \in Nat
    BY <2>1 DEF IInv, BrowserInv, TypeOK
  <2>3. PICK p \in 1 .. Len(sent) : Received(a)[i] = sent[p]
    BY <2>2 DEF FeedOf
  <2>4. PICK q \in 1 .. Len(sent) : Received(a)[j] = sent[q]
    BY <2>2 DEF FeedOf
  <2>5. (i < j => p < q) /\ (j < i => q < p) /\ (k < l => p < q) /\ (l < k => q < p)
    <3>1. (i < j => p < q) /\ (j < i => q < p)
      BY <2>2, <2>3, <2>4 DEF FeedOf
    <3>2. Received(b)[k] = sent[p] /\ Received(b)[l] = sent[q]
      BY <2>1, <2>3, <2>4
    <3>3. (k < l => p < q) /\ (l < k => q < p)
      BY <2>2, <3>2 DEF FeedOf
    <3> QED
      BY <3>1, <3>3
  <2>6. ~(p < q /\ q < p)
    BY <2>2
  <2>7. (i = j => p = q) /\ (k = l => p = q)
    BY <2>1, <2>3, <2>4 DEF IInv, LoopsInv, SentOnce
  <2>8. /\ i < j \/ i = j \/ j < i
        /\ k < l \/ k = l \/ l < k
        /\ ~(p < q /\ p = q)
    BY <2>1, <2>2
  <2> QED
    BY <2>5, <2>6, <2>7, <2>8
<1> QED
  BY <1>1, InvariantHolds, PTL

=============================================================================
