------------------------------ MODULE LiveFeed ------------------------------
(***************************************************************************)
(* The live feed of the dashboard (cmd/dashboard): one Kafka loop for each *)
(* topic broadcasts every message to the channels of all connected         *)
(* browsers, under one mutex and without waiting for anybody: a channel    *)
(* that is full makes its browser miss the event.                          *)
(***************************************************************************)
EXTENDS Naturals, Sequences, Functions

CONSTANTS
  Topic,
  Messages,  \* Messages[t]: how many messages topic t gets
  Browser,
  Quick,     \* the browsers that read what they are sent
  Capacity   \* of a browser's channel, 64 in the code

ASSUME FeedAssumption ==
  /\ Messages \in [Topic -> Nat]
  /\ Quick \subseteq Browser
  /\ Capacity \in Nat \ {0}

VARIABLES
  done,   \* done[t]: how many messages of t have been broadcast
  dead,   \* topics whose loop has ended
  busy,   \* topics whose loop is in broadcast; it holds d.mu
  todo,   \* todo[t]: the browsers t has still to send its message to
  conn,   \* conn[b]: "off", "open" (registered and served) or "gone" (the
          \*          request is over, the channel is still registered)
  chan,   \* chan[b]: what is in b's channel
  hand,   \* hand[b]: what sseStream has taken and is writing, if anything
  shown,  \* shown[b]: what has been written to b, flushed
  sent,   \* all events in the order their broadcasts began
  base,   \* base[b]: how many of them began before b was registered
  lost    \* lost[b]: the events dropped for b

loops == <<done, dead, busy, todo, sent>>
client == <<conn, chan, hand, shown, base, lost>>
vars == <<loops, client>>

Event == UNION {{t} \X (1 .. Messages[t]) : t \in Topic}

TypeOK ==
  /\ done \in [Topic -> Nat] /\ \A t \in Topic : done[t] <= Messages[t]
  /\ dead \subseteq Topic /\ busy \subseteq Topic \ dead
  /\ todo \in [Topic -> SUBSET Browser]
  /\ \A t \in Topic \ busy : todo[t] = {}
  /\ conn \in [Browser -> {"off", "open", "gone"}]
  /\ chan \in [Browser -> Seq(Event)]
  /\ hand \in [Browser -> Seq(Event)]
  /\ shown \in [Browser -> Seq(Event)]
  /\ base \in [Browser -> Nat]
  /\ lost \in [Browser -> SUBSET Event]
  /\ \A b \in Browser : /\ Len(chan[b]) <= Capacity /\ Len(hand[b]) <= 1
                        /\ base[b] <= Len(sent)
  /\ sent \in Seq(Event)

Init ==
  /\ done = [t \in Topic |-> 0]
  /\ dead = {}
  /\ busy = {}
  /\ todo = [t \in Topic |-> {}]
  /\ conn = [b \in Browser |-> "off"]
  /\ chan = [b \in Browser |-> <<>>]
  /\ hand = [b \in Browser |-> <<>>]
  /\ shown = [b \in Browser |-> <<>>]
  /\ sent = <<>>
  /\ base = [b \in Browser |-> 0]
  /\ lost = [b \in Browser |-> {}]

\* Mutant: no mutex.
MutexFreeAlways == TRUE

\* d.mu can be locked.
MutexFree == busy = {}

-----------------------------------------------------------------------------
(* broadcast, called by the loop of topic t                                *)

\* Lock; the channels to send to are the keys of d.clients.
StartBroadcast(t) ==
  /\ t \notin dead \cup busy
  /\ done[t] < Messages[t]
  /\ MutexFree
  /\ busy' = busy \cup {t}
  /\ todo' = [todo EXCEPT ![t] = {b \in Browser : conn[b] # "off"}]
  /\ sent' = Append(sent, <<t, done[t] + 1>>)
  /\ UNCHANGED <<done, dead, client>>

\* Mutant: one event more than the channel holds.
HasRoomOneMore(b) == Len(chan[b]) <= Capacity

HasRoom(b) == Len(chan[b]) < Capacity

\* Mutant: the channel is not buffered, so only a handler that waits in its
\* select is given the event.
SendUnbuffered(t, b) ==
  /\ todo' = [todo EXCEPT ![t] = @ \ {b}]
  /\ IF hand[b] = <<>> /\ chan[b] = <<>> /\ conn[b] = "open"
     THEN chan' = [chan EXCEPT ![b] = Append(@, <<t, done[t] + 1>>)] /\ UNCHANGED lost
     ELSE lost' = [lost EXCEPT ![b] = @ \cup {<<t, done[t] + 1>>}] /\ UNCHANGED chan

\* Mutant: without the default case the send waits for room.
SendWaiting(t, b) ==
  /\ HasRoom(b)
  /\ todo' = [todo EXCEPT ![t] = @ \ {b}]
  /\ chan' = [chan EXCEPT ![b] = Append(@, <<t, done[t] + 1>>)]
  /\ UNCHANGED lost

\* select: the event goes into the channel or, when that is full, is dropped.
Send(t, b) ==
  /\ todo' = [todo EXCEPT ![t] = @ \ {b}]
  /\ IF HasRoom(b)
     THEN chan' = [chan EXCEPT ![b] = Append(@, <<t, done[t] + 1>>)] /\ UNCHANGED lost
     ELSE lost' = [lost EXCEPT ![b] = @ \cup {<<t, done[t] + 1>>}] /\ UNCHANGED chan

\* One turn of the range over the map, whose order is random.
SendNext(t) ==
  /\ t \in busy
  /\ \E b \in todo[t] : Send(t, b)
  /\ UNCHANGED <<done, dead, busy, sent, conn, hand, shown, base>>

\* Unlock, and the loop commits the message.
EndBroadcast(t) ==
  /\ t \in busy /\ todo[t] = {}
  /\ busy' = busy \ {t}
  /\ done' = [done EXCEPT ![t] = @ + 1]
  /\ UNCHANGED <<dead, todo, sent, client>>

\* FetchMessage fails: Consume returns and nobody looks at its error, so the
\* topic is silent until the dashboard is started again.
FetchFails(t) ==
  /\ t \notin dead \cup busy
  /\ dead' = dead \cup {t}
  /\ UNCHANGED <<done, busy, todo, sent, client>>

-----------------------------------------------------------------------------
(* sseStream, called for browser b                                         *)

\* sseStream makes a channel and addClient registers it: b connects, for the
\* first time or again.
Connect(b) ==
  /\ conn[b] = "off"
  /\ MutexFree
  /\ conn' = [conn EXCEPT ![b] = "open"]
  /\ chan' = [chan EXCEPT ![b] = <<>>]
  /\ hand' = [hand EXCEPT ![b] = <<>>]
  /\ shown' = [shown EXCEPT ![b] = <<>>]
  /\ base' = [base EXCEPT ![b] = Len(sent)]
  /\ lost' = [lost EXCEPT ![b] = {}]
  /\ UNCHANGED loops

\* The handler's select receives from the channel.
Take(b) ==
  /\ conn[b] = "open"
  /\ hand[b] = <<>> /\ chan[b] # <<>>
  /\ hand' = [hand EXCEPT ![b] = <<Head(chan[b])>>]
  /\ chan' = [chan EXCEPT ![b] = Tail(@)]
  /\ UNCHANGED <<loops, conn, shown, base, lost>>

\* Mutant: without Flush the event stays in the response's buffer.
WriteUnflushed(b) ==
  /\ conn[b] = "open"
  /\ hand[b] # <<>>
  /\ UNCHANGED vars

\* Fprintf and Flush.  They wait for a browser that does not read.
Write(b) ==
  /\ conn[b] = "open"
  /\ hand[b] # <<>>
  /\ shown' = [shown EXCEPT ![b] = @ \o hand[b]]
  /\ hand' = [hand EXCEPT ![b] = <<>>]
  /\ UNCHANGED <<loops, conn, chan, base, lost>>

\* ctx.Done: the request is over, the handler is about to return.
Leave(b) ==
  /\ conn[b] = "open"
  /\ conn' = [conn EXCEPT ![b] = "gone"]
  /\ UNCHANGED <<loops, chan, hand, shown, base, lost>>

\* removeClient, deferred.
Remove(b) ==
  /\ conn[b] = "gone"
  /\ MutexFree
  /\ conn' = [conn EXCEPT ![b] = "off"]
  /\ UNCHANGED <<loops, chan, hand, shown, base, lost>>

-----------------------------------------------------------------------------
Next ==
  \/ \E t \in Topic :
       StartBroadcast(t) \/ SendNext(t) \/ EndBroadcast(t) \/ FetchFails(t)
  \/ \E b \in Browser :
       Connect(b) \/ Take(b) \/ Write(b) \/ Leave(b) \/ Remove(b)

Spec == Init /\ [][Next]_vars

\* The loops run, and a mutex that is freed again and again is given to each
\* who waits for it.  Only the quick browsers read what they are sent, and
\* nobody has to connect or to leave.
FairSpec ==
  /\ Spec
  /\ \A t \in Topic : /\ SF_vars(StartBroadcast(t))
                      /\ WF_vars(SendNext(t) \/ EndBroadcast(t))
  /\ \A b \in Quick : WF_vars(Take(b) \/ Write(b))

-----------------------------------------------------------------------------
\* What b has been given on this connection.
Received(b) == shown[b] \o hand[b] \o chan[b]

\* What b is still to be given by a broadcast that is under way.
Coming(b) == {<<t, done[t] + 1>> : t \in {t \in busy : b \in todo[t]}}

\* Since it was registered, every event either is on its way to a browser or
\* was dropped for it, never both, and no event of before comes in, however
\* often it left and came back.  None of the first events that fit the channel
\* is dropped, even if the browser reads nothing.
EventsAreAccountedFor ==
  \A b \in Browser : conn[b] # "off" =>
    \A i \in 1 .. Len(sent) :
      /\ i <= base[b] => sent[i] \notin Range(Received(b))
      /\ i > base[b] =>
           /\ sent[i] \in Coming(b) \/ sent[i] \in lost[b] \/ sent[i] \in Range(Received(b))
           /\ ~(sent[i] \in lost[b] /\ sent[i] \in Range(Received(b)))
           /\ sent[i] \in lost[b] => i > base[b] + Capacity

\* All browsers see the events of all topics in one order, although the loops
\* of the topics broadcast on their own: none sees a payment before the
\* reservation that another sees first.
OneOrder ==
  \A a, b \in Browser : conn[a] # "off" /\ conn[b] # "off" =>
    \A i, j \in 1 .. Len(Received(a)), k, l \in 1 .. Len(Received(b)) :
      Received(a)[i] = Received(b)[k] /\ Received(a)[j] = Received(b)[l] =>
        (i < j <=> k < l)

\* A browser that does not read, or has gone, holds up nobody: each topic is
\* broadcast to its end, unless its loop ended.
FeedDrains == \A t \in Topic : <>(done[t] = Messages[t] \/ t \in dead)

\* A browser that reads and stays is shown what it was not made to miss.
QuickBrowsersSeeEvents ==
  \A b \in Quick, e \in Event :
    conn[b] = "open" /\ e \in Range(Received(b)) ~> conn[b] # "open" \/ e \in Range(shown[b])

=============================================================================
