-------------------------- MODULE StreamOrderProofs --------------------------
(***************************************************************************)
(* What a peer sees, proved for any instance of StreamHub: the welcome     *)
(* comes first, the events of one publisher arrive in order and at most    *)
(* once, a peer that is there misses an event only at a full buffer, and   *)
(* the hub implements EventFeed.                                           *)
(***************************************************************************)
EXTENDS StreamHubProofs, SequenceTheorems

-----------------------------------------------------------------------------
(* The welcome.                                                            *)

\* Nothing reaches the peer before the welcome; a peer that is still there after
\* SendWelcome has it, because a connection that was lost is never open again.
WelcomeInv ==
    /\ \A c \in Clients : handler[c] \in {"accept", "register", "log", "welcome"} => wire[c] = <<>>
    /\ \A c \in Clients : /\ handler[c] \notin {"accept", "register", "log", "welcome"}
                          /\ conn[c] = "open"
                          => wire[c] # <<>>
    /\ WelcomeFirst

\* Appending keeps what was there.
LEMMA AppendIndex ==
  ASSUME NEW S, NEW s \in Seq(S), NEW e \in S
  PROVE  /\ Append(s, e) \in Seq(S) /\ Append(s, e) # <<>>
         /\ Len(s) \in Nat /\ DOMAIN s = 1..Len(s)
         /\ DOMAIN Append(s, e) = 1..(Len(s) + 1)
         /\ \A i \in 1..Len(s) : Append(s, e)[i] = s[i]
         /\ Append(s, e)[Len(s) + 1] = e
         /\ s # <<>> => Len(s) > 0
  BY AppendProperties, LenProperties

\* Every step keeps the welcome first.
LEMMA WelcomeStep == IInv /\ WelcomeInv /\ [Next]_vars => WelcomeInv'
<1> SUFFICES ASSUME IInv, WelcomeInv, [Next]_vars PROVE WelcomeInv'
  OBVIOUS
<1>0. /\ wire \in [Clients -> Seq(Event \cup {Welcome})]
      /\ handler \in [Clients -> HandlerPc]
      /\ conn \in [Clients -> {"none", "open", "gone", "closed"}]
  BY DEF IInv, TypeOK
<1>1. ASSUME NEW p \in Publishers, NEW t \in Topics \cup {AllTopics}, CallPublish(p, t), crashed' = crashed
      PROVE  WelcomeInv'
  BY <1>1, <1>0 DEF CallPublish, WelcomeInv, WelcomeFirst, Goto
<1>2. ASSUME NEW p \in Publishers, RLock(p), crashed' = crashed
      PROVE  WelcomeInv'
  BY <1>2, <1>0 DEF RLock, WelcomeInv, WelcomeFirst, Goto
<1>3. ASSUME NEW p \in Publishers, NEW c \in Clients, Visit(p, c), crashed' = crashed
      PROVE  WelcomeInv'
  BY <1>3, <1>0 DEF Visit, WelcomeInv, WelcomeFirst, Goto
<1>4. ASSUME NEW p \in Publishers, EndPublish(p), crashed' = crashed
      PROVE  WelcomeInv'
  BY <1>4, <1>0 DEF EndPublish, WelcomeInv, WelcomeFirst, Goto
<1>5. ASSUME NEW c \in Clients, Accept(c), crashed' = crashed
      PROVE  WelcomeInv'
  BY <1>5, <1>0 DEF Accept, WelcomeInv, WelcomeFirst, Goto
<1>6. ASSUME NEW c \in Clients, Register(c), crashed' = crashed
      PROVE  WelcomeInv'
  BY <1>6, <1>0 DEF Register, WelcomeInv, WelcomeFirst, Goto
<1>7. ASSUME NEW c \in Clients, LogTotal(c), crashed' = crashed
      PROVE  WelcomeInv'
  BY <1>7, <1>0 DEF LogTotal, WelcomeInv, WelcomeFirst, Goto
<1>8. ASSUME NEW c \in Clients, SendWelcome(c), crashed' = crashed
      PROVE  WelcomeInv'
  <2>1. wire[c] = <<>>
    BY <1>8 DEF SendWelcome, WelcomeInv
  <2>2. CASE conn[c] = "open"
    <3>1. wire' = [wire EXCEPT ![c] = <<Welcome>>]
      BY <1>8, <2>1, <2>2 DEF SendWelcome, Deliver
    <3>2. QED
      BY <1>0, <1>8, <3>1 DEF SendWelcome, Goto, WelcomeInv, WelcomeFirst
  <2>3. CASE conn[c] # "open"
    BY <1>0, <1>8, <2>3 DEF SendWelcome, Deliver, Goto, WelcomeInv, WelcomeFirst
  <2>4. QED
    BY <2>2, <2>3
<1>9. ASSUME NEW c \in Clients, Receive(c), crashed' = crashed
      PROVE  WelcomeInv'
  BY <1>9, <1>0 DEF Receive, WelcomeInv, WelcomeFirst, Goto
<1>10. ASSUME NEW c \in Clients, WriteOk(c), crashed' = crashed
      PROVE  WelcomeInv'
  <2>1. held[c] \in Event /\ held[c] # Welcome
    BY <1>10, MessageAssumption DEF WriteOk, IInv, HandInv
  <2>2. CASE conn[c] = "open"
    <3>1. wire[c] # <<>> /\ wire' = [wire EXCEPT ![c] = Append(@, held[c])]
      BY <1>10, <2>2 DEF WriteOk, Deliver, WelcomeInv
    <3>2. \A i \in DOMAIN wire'[c] : wire'[c][i] = Welcome <=> i = 1
      <4>1. wire[c] \in Seq(Event \cup {Welcome}) /\ wire'[c] = Append(wire[c], held[c])
        BY <1>0, <1>10, <3>1
      <4>2. \A i \in DOMAIN wire[c] : wire[c][i] = Welcome <=> i = 1
        BY <1>10 DEF WelcomeInv, WelcomeFirst
      <4>3. QED
        BY <2>1, <3>1, <4>1, <4>2, AppendIndex
    <3>3. wire'[c] # <<>>
      BY <1>0, <2>1, <3>1, AppendIndex
    <3>4. QED
      BY <1>0, <1>10, <3>1, <3>2, <3>3 DEF WriteOk, Goto, WelcomeInv, WelcomeFirst
  <2>3. CASE conn[c] # "open"
    BY <1>0, <1>10, <2>3 DEF WriteOk, Deliver, Goto, WelcomeInv, WelcomeFirst
  <2>4. QED
    BY <2>2, <2>3
<1>11. ASSUME NEW c \in Clients, WriteFail(c), crashed' = crashed
      PROVE  WelcomeInv'
  BY <1>11, <1>0 DEF WriteFail, WelcomeInv, WelcomeFirst, Goto
<1>12. ASSUME NEW c \in Clients, Unregister(c), crashed' = crashed
      PROVE  WelcomeInv'
  BY <1>12, <1>0 DEF Unregister, WelcomeInv, WelcomeFirst, Goto
<1>13. ASSUME NEW c \in Clients, Unlink(c), crashed' = crashed
      PROVE  WelcomeInv'
  BY <1>13, <1>0 DEF Unlink, WelcomeInv, WelcomeFirst, Goto
<1>14. ASSUME NEW c \in Clients, Cancel(c), crashed' = crashed
      PROVE  WelcomeInv'
  BY <1>14, <1>0 DEF Cancel, WelcomeInv, WelcomeFirst, Goto
<1>15. ASSUME NEW c \in Clients, Close(c), crashed' = crashed
      PROVE  WelcomeInv'
  BY <1>15, <1>0 DEF Close, WelcomeInv, WelcomeFirst, Goto
<1>16. ASSUME NEW c \in Clients, PeerLeaves(c), crashed' = crashed
      PROVE  WelcomeInv'
  BY <1>16, <1>0 DEF PeerLeaves, WelcomeInv, WelcomeFirst, Goto
<1>17. ASSUME NEW c \in Clients, ReaderExit(c), crashed' = crashed
      PROVE  WelcomeInv'
  BY <1>17, <1>0 DEF ReaderExit, WelcomeInv, WelcomeFirst, Goto
<1>18. ASSUME NEW c \in Clients, EndTopic(c), crashed' = crashed
      PROVE  WelcomeInv'
  BY <1>18, <1>0 DEF EndTopic, WelcomeInv, WelcomeFirst, Goto
<1>19. ASSUME NEW c \in Clients, NEW t \in Topics, BeginTopic(c, t), crashed' = crashed
      PROVE  WelcomeInv'
  BY <1>19, <1>0 DEF BeginTopic, WelcomeInv, WelcomeFirst, Goto
<1>20. ASSUME NEW c \in Clients, NEW T \in SUBSET Topics, ReadSubscribe(c, T), crashed' = crashed
      PROVE  WelcomeInv'
  BY <1>20, <1>0 DEF ReadSubscribe, WelcomeInv, WelcomeFirst, Goto
<1>21. ASSUME NEW p \in Publishers, NEW c \in Clients, Fatal(p, c)
      PROVE  WelcomeInv'
  BY <1>21, <1>0 DEF Fatal, WelcomeInv, WelcomeFirst, Goto
<1>22. CASE UNCHANGED vars
  BY <1>22, <1>0 DEF WelcomeInv, WelcomeFirst, Goto, vars
<1>23. QED
  BY <1>1, <1>2, <1>3, <1>4, <1>5, <1>6, <1>7, <1>8, <1>9, <1>10, <1>11, <1>12,
     <1>13, <1>14, <1>15, <1>16, <1>17, <1>18, <1>19, <1>20, <1>21, <1>22
  DEF Next, PublisherStep, HandlerStep, ReaderStep

\* Whatever was queued before it, the first message a peer reads is its welcome.
THEOREM WelcomeIsFirst == Spec => []WelcomeFirst
<1>1. Init => WelcomeInv
  BY DEF Init, WelcomeInv, WelcomeFirst
<1>2. WelcomeInv => WelcomeFirst
  BY DEF WelcomeInv
<1>3. QED
  BY <1>1, <1>2, WelcomeStep, Invariance, PTL DEF Spec

-----------------------------------------------------------------------------
(* The order.  First, what a step does to a sequence.                      *)

Message == Event \cup {Welcome}

\* The sequence s with its n-th element lost.
Without(s, n) == [i \in 1..(Len(s) - 1) |-> IF i < n THEN s[i] ELSE s[i + 1]]

\* Receive: the head of the buffer is now in hand.
LEMMA MoveHead ==
  ASSUME NEW w \in Seq(Message), NEW q \in Seq(Message), q # <<>>
  PROVE  (w \o <<Head(q)>>) \o Tail(q) = (w \o <<>>) \o q
  OBVIOUS

\* WriteOk to a peer that is there: the message in hand is now on the wire.
LEMMA MoveHand ==
  ASSUME NEW w \in Seq(Message), NEW h \in Message, NEW q \in Seq(Message)
  PROVE  (Append(w, h) \o <<>>) \o q = (w \o <<h>>) \o q
  OBVIOUS

\* A failed write: the message in hand is gone.
LEMMA LoseHand ==
  ASSUME NEW w \in Seq(Message), NEW h \in Message, NEW q \in Seq(Message)
  PROVE  /\ Len(w) + 1 \in 1..Len((w \o <<h>>) \o q)
         /\ (w \o <<>>) \o q = Without((w \o <<h>>) \o q, Len(w) + 1)
<1> DEFINE s == (w \o <<h>>) \o q
           t == (w \o <<>>) \o q
           u == Without(s, Len(w) + 1)
<1>1. /\ Len(w) \in Nat /\ Len(q) \in Nat /\ s \in Seq(Message)
      /\ Len(s) = Len(w) + 1 + Len(q)
      /\ \A i \in 1..Len(w) : s[i] = w[i]
      /\ \A i \in (Len(w) + 2)..Len(s) : s[i] = q[i - Len(w) - 1]
  OBVIOUS
<1>2. /\ t \in Seq(Message) /\ Len(t) = Len(w) + Len(q)
      /\ \A i \in 1..Len(w) : t[i] = w[i]
      /\ \A i \in (Len(w) + 1)..Len(t) : t[i] = q[i - Len(w)]
  OBVIOUS
<1>3. \A i \in 1..(Len(s) - 1) : u[i] = t[i]
  <2> SUFFICES ASSUME NEW i \in 1..(Len(s) - 1) PROVE u[i] = t[i]
    OBVIOUS
  <2> HIDE DEF s, t
  <2>1. CASE i < Len(w) + 1
    BY <1>1, <1>2, <2>1 DEF Without
  <2>2. CASE ~(i < Len(w) + 1)
    BY <1>1, <1>2, <2>2 DEF Without
  <2>3. QED
    BY <2>1, <2>2
<1>4. t \in [1..(Len(s) - 1) -> Message] /\ u \in [1..(Len(s) - 1) -> Message]
  <2>1. t \in [1..(Len(s) - 1) -> Message]
    <3> HIDE DEF s, t
    <3>1. Len(t) = Len(s) - 1
      BY <1>1, <1>2
    <3>2. QED
      BY <1>2, <3>1, LenProperties
  <2>2. DOMAIN u = 1..(Len(s) - 1) /\ u = [i \in 1..(Len(s) - 1) |-> u[i]]
    BY DEF Without
  <2>3. QED
    <3> HIDE DEF s, t, u
    <3>1. QED
      BY <1>3, <2>1, <2>2
<1>5. t = u
  <2> HIDE DEF s, t, u
  <2>1. QED
    BY <1>3, <1>4
<1>6. QED
  BY <1>1, <1>5

\* Visit: one more event in the buffer.
LEMMA Enqueue ==
  ASSUME NEW w \in Seq(Message), NEW x \in Seq(Message), NEW q \in Seq(Message), NEW e \in Message
  PROVE  (w \o x) \o Append(q, e) = Append((w \o x) \o q, e)
  OBVIOUS

\* SendWelcome: the welcome is written ahead of what is already queued.
LEMMA WriteWelcome ==
  ASSUME NEW q \in Seq(Message)
  PROVE  (<<Welcome>> \o <<>>) \o q = <<Welcome>> \o ((<<>> \o <<>>) \o q)
  OBVIOUS

\* None of these steps disorders a sequence: a new event must come after all its own.
LEMMA OrderedAppend ==
  ASSUME NEW s \in Seq(Message), Ordered(s), NEW e \in Event,
         \A i \in DOMAIN s : s[i] # Welcome /\ s[i].pub = e.pub => s[i].seq < e.seq
  PROVE  Ordered(Append(s, e))
<1>1. /\ Len(s) \in Nat /\ DOMAIN s = 1..Len(s) /\ DOMAIN Append(s, e) = 1..(Len(s) + 1)
      /\ \A i \in 1..Len(s) : Append(s, e)[i] = s[i]
      /\ Append(s, e)[Len(s) + 1] = e
  BY AppendIndex DEF Message
<1>2. SUFFICES ASSUME NEW i \in 1..(Len(s) + 1), NEW j \in 1..(Len(s) + 1), i < j,
                      Append(s, e)[i] # Welcome, Append(s, e)[j] # Welcome,
                      Append(s, e)[i].pub = Append(s, e)[j].pub
               PROVE  Append(s, e)[i].seq < Append(s, e)[j].seq
  BY <1>1 DEF Ordered
<1>3. i \in 1..Len(s) /\ Append(s, e)[i] = s[i]
  BY <1>1, <1>2
<1>4. CASE j = Len(s) + 1
  BY <1>1, <1>2, <1>3, <1>4
<1>5. CASE j \in 1..Len(s)
  BY <1>1, <1>2, <1>3, <1>5 DEF Ordered
<1>6. QED
  BY <1>1, <1>4, <1>5

LEMMA OrderedWelcome ==
  ASSUME NEW s \in Seq(Message), Ordered(s)
  PROVE  Ordered(<<Welcome>> \o s)
<1>1. DOMAIN (<<Welcome>> \o s) = 1..(Len(s) + 1) /\ DOMAIN s = 1..Len(s) /\ Len(s) \in Nat
  OBVIOUS
<1>2. \A i \in 1..(Len(s) + 1) : (<<Welcome>> \o s)[i] = IF i = 1 THEN Welcome ELSE s[i - 1]
  OBVIOUS
<1>3. QED
  BY <1>1, <1>2 DEF Ordered

LEMMA OrderedWithout ==
  ASSUME NEW s \in Seq(Message), Ordered(s), NEW n \in 1..Len(s)
  PROVE  Ordered(Without(s, n))
<1>1. DOMAIN s = 1..Len(s) /\ Len(s) \in Nat /\ DOMAIN Without(s, n) = 1..(Len(s) - 1)
  BY LenProperties DEF Without
<1>2. \A i \in 1..(Len(s) - 1) : Without(s, n)[i] = IF i < n THEN s[i] ELSE s[i + 1]
  BY DEF Without
<1>3. SUFFICES ASSUME NEW i \in 1..(Len(s) - 1), NEW j \in 1..(Len(s) - 1), i < j,
                      Without(s, n)[i] # Welcome, Without(s, n)[j] # Welcome,
                      Without(s, n)[i].pub = Without(s, n)[j].pub
               PROVE  Without(s, n)[i].seq < Without(s, n)[j].seq
  BY <1>1 DEF Ordered
<1>4. PICK k \in 1..Len(s), l \in 1..Len(s) :
        k < l /\ Without(s, n)[i] = s[k] /\ Without(s, n)[j] = s[l]
  <2>1. CASE i < n /\ j < n
    BY <1>1, <1>2, <1>3, <2>1
  <2>2. CASE i < n /\ ~(j < n)
    BY <1>1, <1>2, <1>3, <2>2
  <2>3. CASE ~(i < n)
    BY <1>1, <1>2, <1>3, <2>3
  <2>4. QED
    BY <2>1, <2>2, <2>3
<1>5. QED
  BY <1>1, <1>3, <1>4 DEF Ordered

-----------------------------------------------------------------------------
(* The invariant: what a publisher has still to send is newer than all that *)
(* the clients it has still to visit were ever sent by it.                 *)

\* A message of publisher p that client c may hold while p is where it is.
Behind(c, m) ==
    m # Welcome =>
        IF pubPc[m.pub] = "rlock" \/ (pubPc[m.pub] = "iterate" /\ c \in todo[m.pub])
          THEN m.seq < published[m.pub]
          ELSE m.seq <= published[m.pub]

AllBehind == \A c \in Clients : \A i \in DOMAIN Stream(c) : Behind(c, Stream(c)[i])

\* The event being published is the latest of its publisher.
Latest == \A p \in Publishers :
            pubPc[p] # "idle" => cur[p].pub = p /\ cur[p].seq = published[p]

OrderInv == Latest /\ AllBehind /\ PublisherOrder

\* What a step does to the stream of a client.
StreamChange(c) ==
    \/ Stream(c)' = Stream(c)
    \/ \E p \in Publishers : Visit(p, c) /\ Stream(c)' = Append(Stream(c), cur[p])
    \/ Stream(c)' = <<Welcome>> \o Stream(c)
    \/ conn[c] # "open" /\ \E n \in 1..Len(Stream(c)) : Stream(c)' = Without(Stream(c), n)

\* The pieces of a stream are sequences of messages.
LEMMA StreamType ==
  ASSUME IInv, NEW c \in Clients
  PROVE  /\ wire[c] \in Seq(Message) /\ queue[c] \in Seq(Message) /\ Hand(c) \in Seq(Message)
         /\ Stream(c) \in Seq(Message)
<1>1. wire[c] \in Seq(Message) /\ queue[c] \in Seq(Event)
  BY DEF IInv, TypeOK, Message
<1>2. queue[c] \in Seq(Message)
  BY <1>1, SeqMonotonic DEF Message
<1>3. Hand(c) \in Seq(Message)
  <2>1. CASE held[c] = NoEvent
    BY <2>1 DEF Hand
  <2>2. CASE held[c] # NoEvent
    <3>1. held[c] \in Message
      BY <2>2 DEF IInv, TypeOK, Message
    <3>2. QED
      BY <2>2, <3>1 DEF Hand
  <2>3. QED
    BY <2>1, <2>2
<1>4. QED
  BY <1>1, <1>2, <1>3 DEF Stream

\* A step appends the event a publisher is visiting with, puts the welcome in front,
\* loses one message if the peer is gone, or moves messages along.
LEMMA StreamStep ==
  ASSUME IInv, IInv', WelcomeInv, [Next]_vars, NEW c \in Clients
  PROVE  StreamChange(c)
<1> USE DEF Message
<1>0. /\ wire \in [Clients -> Seq(Message)] /\ queue \in [Clients -> Seq(Event)]
      /\ held \in [Clients -> Event \cup {NoEvent}]
      /\ wire[c] \in Seq(Message) /\ queue[c] \in Seq(Message)
  BY StreamType DEF IInv, TypeOK
<1>1. CASE UNCHANGED <<wire, held, queue>>
  BY <1>1 DEF StreamChange, Stream, Hand
<1>2. ASSUME NEW p \in Publishers, NEW d \in Clients, Visit(p, d)
      PROVE  StreamChange(c)
  <2>1. UNCHANGED <<wire, held>> /\ cur[p] \in Event
    BY <1>2 DEF Visit, IInv, HandInv
  <2>2. CASE UNCHANGED queue
    BY <1>1, <2>1, <2>2
  <2>3. CASE queue' # queue
    <3>1. queue' = [queue EXCEPT ![d] = Append(@, cur[p])]
      BY <1>2, <2>3 DEF Visit, TrySend
    <3>2. CASE d = c
      <4>1. queue'[c] = Append(queue[c], cur[p])
        BY <1>0, <3>1, <3>2
      <4>2. Stream(c)' = Append(Stream(c), cur[p])
        <5>1. Hand(c)' = Hand(c) /\ wire'[c] = wire[c]
          BY <2>1 DEF Hand
        <5>2. Hand(c) \in Seq(Message) /\ cur[p] \in Message
          BY <2>1, StreamType
        <5>3. (wire[c] \o Hand(c)) \o Append(queue[c], cur[p])
                = Append((wire[c] \o Hand(c)) \o queue[c], cur[p])
          BY <1>0, <5>2, Enqueue
        <5>4. QED
          BY <4>1, <5>1, <5>3 DEF Stream
      <4>3. QED
        BY <1>2, <3>2, <4>2 DEF StreamChange
    <3>3. CASE d # c
      BY <1>0, <2>1, <3>1, <3>3 DEF StreamChange, Stream, Hand
    <3>4. QED
      BY <3>2, <3>3
  <2>4. QED
    BY <2>2, <2>3
<1>3. ASSUME NEW d \in Clients, SendWelcome(d)
      PROVE  StreamChange(c)
  <2>1. UNCHANGED <<queue, held>>
    BY <1>3 DEF SendWelcome, chanVars
  <2>2. CASE wire' = wire \/ d # c
    BY <1>0, <1>3, <2>1, <2>2 DEF SendWelcome, Deliver, StreamChange, Stream, Hand
  <2>3. CASE wire' # wire /\ d = c
    <3>1. wire[c] = <<>> /\ held[c] = NoEvent
      BY <1>0, <1>3, <2>3 DEF SendWelcome, WelcomeInv, IInv, HandInv
    <3>2. wire'[c] = <<Welcome>>
      BY <1>0, <1>3, <2>3, <3>1 DEF SendWelcome, Deliver
    <3>3. Stream(c)' = <<Welcome>> \o Stream(c)
      BY <1>0, <2>1, <3>1, <3>2, WriteWelcome DEF Stream, Hand
    <3>4. QED
      BY <3>3 DEF StreamChange
  <2>4. QED
    BY <2>2, <2>3
<1>4. ASSUME NEW d \in Clients, Receive(d)
      PROVE  StreamChange(c)
  <2>1. CASE d # c
    BY <1>0, <1>4, <2>1 DEF Receive, StreamChange, Stream, Hand
  <2>2. CASE d = c
    <3>1. held[c] = NoEvent /\ queue[c] # <<>> /\ Head(queue[c]) \in Event
      BY <1>0, <1>4, <2>2 DEF Receive, IInv, HandInv
    <3>2. held'[c] = Head(queue[c]) /\ queue'[c] = Tail(queue[c]) /\ wire' = wire
      BY <1>0, <1>4, <2>2 DEF Receive
    <3>3. Stream(c)' = Stream(c)
      BY <1>0, <3>1, <3>2, MoveHead, MessageAssumption DEF Stream, Hand
    <3>4. QED
      BY <3>3 DEF StreamChange
  <2>3. QED
    BY <2>1, <2>2
<1>5. ASSUME NEW d \in Clients, WriteOk(d) \/ WriteFail(d)
      PROVE  StreamChange(c)
  <2>1. UNCHANGED queue /\ held[d] \in Event /\ held[d] # NoEvent /\ held'[d] = NoEvent
    BY <1>0, <1>5, MessageAssumption DEF WriteOk, WriteFail, chanVars, IInv, HandInv
  <2>2. CASE d # c
    BY <1>0, <1>5, <2>2, <2>1 DEF WriteOk, WriteFail, Deliver, StreamChange, Stream, Hand
  <2>3. CASE d = c /\ wire' = [wire EXCEPT ![c] = Append(@, held[c])]
    <3>1. wire'[c] = Append(wire[c], held[c])
      BY <1>0, <2>3
    <3>2. Stream(c)' = Stream(c)
      BY <1>0, <2>1, <2>3, <3>1, MoveHand DEF Stream, Hand
    <3>3. QED
      BY <3>2 DEF StreamChange
  <2>4. CASE d = c /\ wire' = wire /\ conn[c] # "open"
    <3>1. \E n \in 1..Len(Stream(c)) : Stream(c)' = Without(Stream(c), n)
      BY <1>0, <2>1, <2>4, LoseHand DEF Stream, Hand
    <3>2. QED
      BY <2>4, <3>1 DEF StreamChange
  <2>5. QED
    BY <1>5, <2>2, <2>3, <2>4 DEF WriteOk, WriteFail, Deliver
<1>6. QED
  <2>1. ASSUME NEW p \in Publishers, RLock(p) \/ EndPublish(p)
                  \/ \E t \in Topics \cup {AllTopics} : CallPublish(p, t)
        PROVE  UNCHANGED <<wire, held, queue>>
    BY <2>1 DEF RLock, EndPublish, CallPublish, chanVars
  <2>2. ASSUME NEW d \in Clients, \/ Accept(d) \/ Register(d) \/ LogTotal(d) \/ Unregister(d)
                                  \/ Unlink(d) \/ Cancel(d) \/ Close(d)
        PROVE  UNCHANGED <<wire, held, queue>>
    BY <2>2 DEF Accept, Register, LogTotal, Unregister, Unlink, Cancel, Close, chanVars
  <2>3. ASSUME NEW d \in Clients, ReaderStep(d) \/ PeerLeaves(d)
        PROVE  UNCHANGED <<wire, held, queue>>
    BY <2>3 DEF ReaderStep, ReadSubscribe, BeginTopic, EndTopic, ReaderExit, PeerLeaves, chanVars
  <2>4. ASSUME NEW p \in Publishers, NEW d \in Clients, Fatal(p, d)
        PROVE  UNCHANGED <<wire, held, queue>>
    BY <2>4 DEF Fatal, chanVars
  <2>5. CASE UNCHANGED vars
    BY <1>1, <2>5 DEF vars, chanVars
  <2>6. QED
    BY <1>1, <1>2, <1>3, <1>4, <1>5, <2>1, <2>2, <2>3, <2>4, <2>5
    DEF Next, PublisherStep, HandlerStep

\* Only four actions move a publisher.
LEMMA PublisherFrame ==
  ASSUME [Next]_vars
  PROVE  \/ UNCHANGED pubVars
         \/ \E p \in Publishers : \/ \E t \in Topics \cup {AllTopics} : CallPublish(p, t)
                                 \/ RLock(p) \/ EndPublish(p)
                                 \/ \E c \in Clients : Visit(p, c)
<1>1. CASE UNCHANGED vars
  BY <1>1 DEF vars
<1>2. ASSUME NEW c \in Clients, HandlerStep(c)
      PROVE  UNCHANGED pubVars
  BY <1>2 DEF HandlerStep, Accept, Register, LogTotal, SendWelcome, Receive, WriteOk, WriteFail,
              Unregister, Unlink, Cancel, Close
<1>3. ASSUME NEW c \in Clients, ReaderStep(c) \/ PeerLeaves(c)
      PROVE  UNCHANGED pubVars
  BY <1>3 DEF ReaderStep, ReadSubscribe, BeginTopic, EndTopic, ReaderExit, PeerLeaves
<1>4. ASSUME NEW p \in Publishers, NEW c \in Clients, Fatal(p, c)
      PROVE  UNCHANGED pubVars
  BY <1>4 DEF Fatal
<1>5. QED
  BY <1>1, <1>2, <1>3, <1>4 DEF Next, PublisherStep

\* The event in hand stays the latest of its publisher.
LEMMA LatestStep == IInv /\ Latest /\ [Next]_vars => Latest'
<1> SUFFICES ASSUME IInv, Latest, [Next]_vars PROVE Latest'
  OBVIOUS
<1>0. /\ pubPc \in [Publishers -> {"idle", "rlock", "iterate"}]
      /\ published \in [Publishers -> 0..MaxEvents]
      /\ cur \in [Publishers -> Event \cup {NoEvent}]
  BY DEF IInv, TypeOK
<1>1. CASE UNCHANGED pubVars
  BY <1>1 DEF Latest, pubVars
<1>2. ASSUME NEW p \in Publishers, NEW t \in Topics \cup {AllTopics}, CallPublish(p, t)
      PROVE  Latest'
  BY <1>0, <1>2 DEF CallPublish, Latest
<1>3. ASSUME NEW p \in Publishers, RLock(p) \/ EndPublish(p)
      PROVE  Latest'
  BY <1>0, <1>3 DEF RLock, EndPublish, Latest
<1>4. ASSUME NEW p \in Publishers, NEW c \in Clients, Visit(p, c)
      PROVE  Latest'
  BY <1>4 DEF Visit, Latest
<1>5. QED
  BY <1>1, <1>2, <1>3, <1>4, PublisherFrame

\* What a client has from a publisher stays behind what is still to come.
LEMMA BehindStable ==
  ASSUME IInv, [Next]_vars, NEW c \in Clients, NEW m \in Message, Behind(c, m)
  PROVE  Behind(c, m)'
<1>0. /\ pubPc \in [Publishers -> {"idle", "rlock", "iterate"}]
      /\ published \in [Publishers -> 0..MaxEvents]
      /\ todo \in [Publishers -> SUBSET Clients]
  BY DEF IInv, TypeOK
<1>1. SUFFICES ASSUME m # Welcome PROVE Behind(c, m)'
  BY DEF Behind
<1>2. m \in Event /\ m.pub \in Publishers /\ m.seq \in Nat
  BY <1>1, MaxAssumption DEF Message, Event
<1> HIDE DEF Message
<1>3. CASE UNCHANGED pubVars
  BY <1>3 DEF Behind, pubVars
<1>4. ASSUME NEW p \in Publishers, NEW t \in Topics \cup {AllTopics}, CallPublish(p, t)
      PROVE  Behind(c, m)'
  BY <1>0, <1>1, <1>2, <1>4, MaxAssumption DEF CallPublish, Behind
<1>5. ASSUME NEW p \in Publishers, RLock(p) \/ EndPublish(p)
      PROVE  Behind(c, m)'
  BY <1>0, <1>1, <1>2, <1>5, MaxAssumption DEF RLock, EndPublish, Behind
<1>6. ASSUME NEW p \in Publishers, NEW d \in Clients, Visit(p, d)
      PROVE  Behind(c, m)'
  BY <1>0, <1>1, <1>2, <1>6, MaxAssumption DEF Visit, Behind
<1>7. QED
  BY <1>3, <1>4, <1>5, <1>6, PublisherFrame

\* The order is kept: what Visit appends is newer than all the client has from there.
LEMMA OrderStep ==
  IInv /\ IInv' /\ WelcomeInv /\ OrderInv /\ [Next]_vars => OrderInv'
<1> SUFFICES ASSUME IInv, IInv', WelcomeInv, OrderInv, [Next]_vars PROVE OrderInv'
  OBVIOUS
<1>1. Latest'
  BY LatestStep DEF OrderInv
<1>2. ASSUME NEW c \in Clients
      PROVE  (\A i \in DOMAIN Stream(c) : Behind(c, Stream(c)[i]))' /\ Ordered(Stream(c))'
  <2>1. PICK s : s = Stream(c)
    OBVIOUS
  <2>2. PICK t : t = Stream(c)'
    OBVIOUS
  <2>3. SUFFICES (\A i \in DOMAIN t : Behind(c, t[i])') /\ Ordered(t)
    BY <2>2 DEF Ordered
  <2>4. /\ s \in Seq(Message) /\ DOMAIN s = 1..Len(s) /\ Len(s) \in Nat
        /\ Ordered(s) /\ \A i \in DOMAIN s : Behind(c, s[i])
    BY <2>1, StreamType, LenProperties DEF OrderInv, AllBehind, PublisherOrder
  <2>5. \A i \in DOMAIN s : Behind(c, s[i])'
    <3>1. \A m \in Message : Behind(c, m) => Behind(c, m)'
      BY BehindStable
    <3>2. \A i \in DOMAIN s : s[i] \in Message
      BY <2>4, ElementOfSeq
    <3>3. QED
      BY <2>4, <3>1, <3>2
  <2>6. CASE t = s
    BY <2>4, <2>5, <2>6
  <2>7. ASSUME NEW p \in Publishers, NEW e, e = cur[p], Visit(p, c), t = Append(s, e)
        PROVE  (\A i \in DOMAIN t : Behind(c, t[i])') /\ Ordered(t)
    <3>1. /\ e \in Event /\ e \in Message /\ e # Welcome
          /\ e.pub = p /\ e.seq = published[p] /\ pubPc[p] = "iterate" /\ c \in todo[p]
      BY <2>7, MessageAssumption DEF Visit, IInv, HandInv, OrderInv, Latest, Message
    <3>2. /\ pubPc' = pubPc /\ published' = published /\ c \notin todo'[p] /\ published[p] \in Nat
      BY <2>7, MaxAssumption DEF Visit, IInv, TypeOK
    <3>3. Behind(c, e)'
      BY <3>1, <3>2 DEF Behind
    <3>4. \A i \in DOMAIN s : s[i] # Welcome /\ s[i].pub = e.pub => s[i].seq < e.seq
      BY <2>4, <3>1 DEF Behind
    <3>5. Ordered(t)
      BY <2>4, <2>7, <3>1, <3>4, OrderedAppend
    <3>6. \A i \in DOMAIN t : (i \in DOMAIN s /\ t[i] = s[i]) \/ t[i] = e
      BY <2>4, <2>7, <3>1, AppendIndex
    <3>7. QED
      BY <2>5, <3>3, <3>5, <3>6
  <2>8. CASE t = <<Welcome>> \o s
    <3>1. Ordered(t)
      BY <2>4, <2>8, OrderedWelcome
    <3>2. \A i \in DOMAIN t : t[i] = Welcome \/ \E j \in DOMAIN s : t[i] = s[j]
      <4>1. DOMAIN t = 1..(Len(s) + 1)
        BY <2>4, <2>8
      <4>2. \A i \in 1..(Len(s) + 1) : t[i] = IF i = 1 THEN Welcome ELSE s[i - 1]
        BY <2>4, <2>8
      <4>3. QED
        BY <2>4, <4>1, <4>2
    <3>3. Behind(c, Welcome)'
      BY DEF Behind
    <3>4. QED
      BY <2>5, <3>1, <3>2, <3>3
  <2>9. ASSUME NEW n \in 1..Len(s), t = Without(s, n)
        PROVE  (\A i \in DOMAIN t : Behind(c, t[i])') /\ Ordered(t)
    <3>1. Ordered(t)
      BY <2>4, <2>9, OrderedWithout
    <3>2. \A i \in DOMAIN t : \E j \in DOMAIN s : t[i] = s[j]
      BY <2>4, <2>9 DEF Without
    <3>3. QED
      BY <2>5, <3>1, <3>2
  <2>10. QED
    <3>1. StreamChange(c)
      BY StreamStep
    <3>2. QED
      BY <2>1, <2>2, <2>6, <2>7, <2>8, <2>9, <3>1 DEF StreamChange
<1>3. AllBehind' /\ PublisherOrder'
  BY <1>2 DEF AllBehind, PublisherOrder
<1>4. QED
  BY <1>1, <1>3 DEF OrderInv

\* Every client receives the events of a publisher in the order of publication and at
\* most once, whatever is dropped at a full buffer or lost with a connection.
THEOREM PublisherOrderHolds == Spec => []PublisherOrder
<1>1. Init => OrderInv
  <2> SUFFICES ASSUME Init PROVE OrderInv
    OBVIOUS
  <2>1. \A c \in Clients : Stream(c) = <<>>
    BY DEF Init, Stream, Hand
  <2>2. QED
    BY <2>1 DEF Init, OrderInv, Latest, AllBehind, PublisherOrder, Ordered
<1>2. Init => WelcomeInv
  BY DEF Init, WelcomeInv, WelcomeFirst
<1>3. OrderInv => PublisherOrder
  BY DEF OrderInv
<1>4. QED
  BY <1>1, <1>2, <1>3, OrderStep, WelcomeStep, Invariance, PTL DEF Spec

-----------------------------------------------------------------------------
(* What the clients hold and what the hub promises.                        *)

\* A publisher has an event in hand except between two calls, and clients ahead of it only
\* while it iterates; a connection exists once accepted; a topic in effect was asked for.
FeedInv ==
    /\ \A p \in Publishers : /\ pubPc[p] = "idle" <=> cur[p] = NoEvent
                             /\ pubPc[p] # "iterate" => todo[p] = {}
    /\ \A c \in Clients : /\ conn[c] = "none" <=> handler[c] = "accept"
                          /\ asking[c] \cup writing[c] \cup topics[c] \subseteq asked[c]

LEMMA FeedStep == IInv /\ FeedInv /\ [Next]_vars => FeedInv'
<1> SUFFICES ASSUME IInv, FeedInv, [Next]_vars PROVE FeedInv'
  OBVIOUS
<1>0. /\ pubPc \in [Publishers -> {"idle", "rlock", "iterate"}]
      /\ cur \in [Publishers -> Event \cup {NoEvent}] /\ todo \in [Publishers -> SUBSET Clients]
      /\ handler \in [Clients -> HandlerPc]
      /\ conn \in [Clients -> {"none", "open", "gone", "closed"}]
      /\ asking \in [Clients -> SUBSET Topics] /\ asked \in [Clients -> SUBSET Topics]
      /\ topics \in [Clients -> SUBSET Topics] /\ writing \in [Clients -> Maybe(Topics)]
      /\ published \in [Publishers -> 0..MaxEvents]
      /\ ClosedInv
  BY DEF IInv, TypeOK
<1>1. ASSUME NEW p \in Publishers, NEW t \in Topics \cup {AllTopics}, CallPublish(p, t) PROVE FeedInv'
  <2>1. [pub |-> p, seq |-> published[p] + 1, topic |-> t] \in Event
    BY <1>0, <1>1, MaxAssumption DEF CallPublish, Event
  <2> QED
    BY <1>0, <1>1, <2>1, MessageAssumption DEF CallPublish, FeedInv, readerVars
<1>2. ASSUME NEW p \in Publishers, RLock(p) PROVE FeedInv'
  BY <1>0, <1>2 DEF RLock, FeedInv, HandlerPc, Goto, ClosedInv, pubVars, readerVars
<1>3. ASSUME NEW p \in Publishers, NEW c \in Clients, Visit(p, c) PROVE FeedInv'
  BY <1>0, <1>3 DEF Visit, FeedInv, HandlerPc, Goto, ClosedInv, pubVars, readerVars
<1>4. ASSUME NEW p \in Publishers, EndPublish(p) PROVE FeedInv'
  BY <1>0, <1>4 DEF EndPublish, FeedInv, HandlerPc, Goto, ClosedInv, pubVars, readerVars
<1>5. ASSUME NEW c \in Clients, Accept(c) PROVE FeedInv'
  BY <1>0, <1>5 DEF Accept, FeedInv, HandlerPc, Goto, ClosedInv, pubVars, readerVars
<1>6. ASSUME NEW c \in Clients, Register(c) PROVE FeedInv'
  BY <1>0, <1>6 DEF Register, FeedInv, HandlerPc, Goto, ClosedInv, pubVars, readerVars
<1>7. ASSUME NEW c \in Clients, LogTotal(c) PROVE FeedInv'
  BY <1>0, <1>7 DEF LogTotal, FeedInv, HandlerPc, Goto, ClosedInv, pubVars, readerVars
<1>8. ASSUME NEW c \in Clients, SendWelcome(c) PROVE FeedInv'
  BY <1>0, <1>8 DEF SendWelcome, FeedInv, HandlerPc, Goto, ClosedInv, pubVars, readerVars
<1>9. ASSUME NEW c \in Clients, Receive(c) PROVE FeedInv'
  BY <1>0, <1>9 DEF Receive, FeedInv, HandlerPc, Goto, ClosedInv, pubVars, readerVars
<1>10. ASSUME NEW c \in Clients, WriteOk(c) PROVE FeedInv'
  BY <1>0, <1>10 DEF WriteOk, FeedInv, HandlerPc, Goto, ClosedInv, pubVars, readerVars
<1>11. ASSUME NEW c \in Clients, WriteFail(c) PROVE FeedInv'
  BY <1>0, <1>11 DEF WriteFail, FeedInv, HandlerPc, Goto, ClosedInv, pubVars, readerVars
<1>12. ASSUME NEW c \in Clients, Unregister(c) PROVE FeedInv'
  BY <1>0, <1>12 DEF Unregister, FeedInv, HandlerPc, Goto, ClosedInv, pubVars, readerVars
<1>13. ASSUME NEW c \in Clients, Unlink(c) PROVE FeedInv'
  BY <1>0, <1>13 DEF Unlink, FeedInv, HandlerPc, Goto, ClosedInv, pubVars, readerVars
<1>14. ASSUME NEW c \in Clients, Cancel(c) PROVE FeedInv'
  BY <1>0, <1>14 DEF Cancel, FeedInv, HandlerPc, Goto, ClosedInv, pubVars, readerVars
<1>15. ASSUME NEW c \in Clients, Close(c) PROVE FeedInv'
  BY <1>0, <1>15 DEF Close, FeedInv, HandlerPc, Goto, ClosedInv, pubVars, readerVars
<1>16. ASSUME NEW c \in Clients, PeerLeaves(c) PROVE FeedInv'
  BY <1>0, <1>16 DEF PeerLeaves, FeedInv, HandlerPc, Goto, ClosedInv, pubVars, readerVars
<1>17. ASSUME NEW c \in Clients, ReaderExit(c) PROVE FeedInv'
  BY <1>0, <1>17 DEF ReaderExit, FeedInv, HandlerPc, Goto, ClosedInv, pubVars, readerVars
<1>18. ASSUME NEW c \in Clients, EndTopic(c) PROVE FeedInv'
  BY <1>0, <1>18 DEF EndTopic, FeedInv, HandlerPc, Goto, ClosedInv, pubVars, readerVars
<1>19. ASSUME NEW c \in Clients, NEW t \in Topics, BeginTopic(c, t) PROVE FeedInv'
  BY <1>0, <1>19 DEF BeginTopic, FeedInv, HandlerPc, Goto, ClosedInv, pubVars, readerVars
<1>20. ASSUME NEW c \in Clients, NEW T \in SUBSET Topics, ReadSubscribe(c, T) PROVE FeedInv'
  BY <1>0, <1>20 DEF ReadSubscribe, FeedInv, HandlerPc, Goto, ClosedInv, pubVars, readerVars
<1>21. ASSUME NEW p \in Publishers, NEW c \in Clients, Fatal(p, c) PROVE FeedInv'
  BY <1>0, <1>21 DEF Fatal, FeedInv, HandlerPc, Goto, ClosedInv, pubVars, readerVars
<1>22. CASE UNCHANGED vars
  BY <1>22 DEF FeedInv, vars, pubVars, readerVars
<1> QED
  BY <1>1, <1>2, <1>3, <1>4, <1>5, <1>6, <1>7, <1>8, <1>9, <1>10, <1>11, <1>12,
     <1>13, <1>14, <1>15, <1>16, <1>17, <1>18, <1>19, <1>20, <1>21, <1>22
  DEF Next, PublisherStep, HandlerStep, ReaderStep

\* What a step cannot do behind a client's back.
LEMMA ClientFrame ==
  ASSUME IInv, [Next]_vars, NEW c \in Clients
  PROVE  /\ conn'[c] = "open" => conn[c] = "open" \/ Accept(c)
         /\ asked[c] \subseteq asked'[c]
         /\ c \in hubClients' => c \in hubClients \/ Register(c)
         /\ dropped[c] \subseteq dropped'[c]
<1>0. /\ conn \in [Clients -> {"none", "open", "gone", "closed"}]
      /\ asked \in [Clients -> SUBSET Topics] /\ dropped \in [Clients -> SUBSET Event]
  BY DEF IInv, TypeOK
<1>1. ASSUME NEW p \in Publishers, \/ RLock(p) \/ EndPublish(p)
                                   \/ \E t \in Topics \cup {AllTopics} : CallPublish(p, t)
                                   \/ \E d \in Clients : Fatal(p, d)
      PROVE  UNCHANGED <<conn, asked, hubClients, dropped>>
  BY <1>1 DEF RLock, EndPublish, CallPublish, Fatal, hubVars, readerVars, chanVars
<1>2. ASSUME NEW p \in Publishers, NEW d \in Clients, Visit(p, d)
      PROVE  UNCHANGED <<conn, asked, hubClients>> /\ dropped[c] \subseteq dropped'[c]
  BY <1>0, <1>2 DEF Visit, TrySend, hubVars, readerVars
<1>3. ASSUME NEW d \in Clients, HandlerStep(d)
      PROVE  /\ UNCHANGED <<asked, dropped>>
             /\ c \in hubClients' => c \in hubClients \/ Register(c)
             /\ conn'[c] = "open" => conn[c] = "open" \/ Accept(c)
  <2>1. CASE Accept(d)
    BY <1>0, <2>1 DEF Accept, readerVars, chanVars
  <2>2. CASE Register(d)
    BY <2>2 DEF Register, readerVars, chanVars
  <2>3. CASE \/ LogTotal(d) \/ SendWelcome(d) \/ Receive(d) \/ WriteOk(d) \/ WriteFail(d) \/ Unregister(d)
             \/ Unlink(d) \/ Cancel(d) \/ Close(d)
    BY <2>3 DEF LogTotal, SendWelcome, Receive, WriteOk, WriteFail, Unregister, Unlink,
                Cancel, Close, hubVars, readerVars, chanVars
  <2>4. QED
    BY <1>3, <2>1, <2>2, <2>3 DEF HandlerStep
<1>4. ASSUME NEW d \in Clients, ReaderStep(d) \/ PeerLeaves(d)
      PROVE  /\ UNCHANGED <<hubClients, dropped>> /\ asked[c] \subseteq asked'[c]
             /\ conn'[c] = "open" => conn[c] = "open"
  <2>1. CASE \E T \in SUBSET Topics : ReadSubscribe(d, T)
    BY <1>0, <2>1 DEF ReadSubscribe, hubVars, chanVars
  <2>2. CASE ReaderExit(d) \/ PeerLeaves(d)
    BY <1>0, <2>2 DEF ReaderExit, PeerLeaves, hubVars, chanVars, readerVars
  <2>3. CASE EndTopic(d) \/ \E t \in Topics : BeginTopic(d, t)
    BY <2>3 DEF EndTopic, BeginTopic, hubVars, chanVars
  <2>4. QED
    BY <1>4, <2>1, <2>2, <2>3 DEF ReaderStep
<1>5. CASE UNCHANGED vars
  BY <1>5 DEF vars, hubVars, readerVars, chanVars
<1>6. \/ UNCHANGED vars
      \/ \E p \in Publishers, d \in Clients : Fatal(p, d) \/ Visit(p, d)
      \/ \E p \in Publishers : \/ RLock(p) \/ EndPublish(p)
                              \/ \E t \in Topics \cup {AllTopics} : CallPublish(p, t)
      \/ \E d \in Clients : HandlerStep(d) \/ ReaderStep(d) \/ PeerLeaves(d)
  BY DEF Next, PublisherStep
<1>7. CASE \E p \in Publishers, d \in Clients : Fatal(p, d) \/ Visit(p, d)
  BY <1>1, <1>2, <1>7
<1>8. CASE \E p \in Publishers : \/ RLock(p) \/ EndPublish(p)
                                \/ \E t \in Topics \cup {AllTopics} : CallPublish(p, t)
  BY <1>1, <1>8
<1>9. CASE \E d \in Clients : HandlerStep(d) \/ ReaderStep(d) \/ PeerLeaves(d)
  BY <1>3, <1>4, <1>9
<1>10. QED
  BY <1>5, <1>6, <1>7, <1>8, <1>9

\* Appending, or putting the welcome in front, loses nothing.
LEMMA RangeGrows ==
  ASSUME NEW s \in Seq(Message), NEW e \in Message
  PROVE  /\ Range(Append(s, e)) = Range(s) \cup {e}
         /\ Range(s) \subseteq Range(<<Welcome>> \o s)
<1>1. DOMAIN s = 1..Len(s) /\ Len(s) \in Nat
  BY LenProperties
<1>2. /\ DOMAIN Append(s, e) = 1..(Len(s) + 1) /\ Append(s, e)[Len(s) + 1] = e
      /\ \A i \in 1..Len(s) : Append(s, e)[i] = s[i]
  BY AppendIndex DEF Message
<1>3. DOMAIN (<<Welcome>> \o s) = 1..(Len(s) + 1)
  OBVIOUS
<1>4. \A i \in 1..Len(s) : (<<Welcome>> \o s)[i + 1] = s[i] /\ i + 1 \in 1..(Len(s) + 1)
  BY <1>1
<1>5. Range(Append(s, e)) = Range(s) \cup {e}
  BY <1>1, <1>2 DEF Range
<1>6. QED
  BY <1>1, <1>3, <1>4, <1>5 DEF Range

\* A visit to a client that never subscribed leaves the event with it, or counts it dropped.
LEMMA VisitGives ==
  ASSUME IInv, FeedInv, NEW p \in Publishers, NEW c \in Clients, Visit(p, c), asked[c] = {}
  PROVE  cur[p] \in Range(Stream(c))' \cup dropped'[c]
<1>0. /\ wire[c] \in Seq(Message) /\ queue[c] \in Seq(Message) /\ Hand(c) \in Seq(Message)
      /\ Stream(c) \in Seq(Message)
      /\ queue \in [Clients -> Seq(Event)] /\ dropped \in [Clients -> SUBSET Event]
  BY StreamType DEF IInv, TypeOK
<1>1. topics[c] = {} /\ writing[c] = {}
  BY DEF FeedInv
<1>2. TrySend(c, cur[p])
  BY <1>1 DEF Visit, MayRefuse, SubscribedTo
<1>3. CASE Len(queue[c]) < BufSize
  <2>1. queue'[c] = Append(queue[c], cur[p]) /\ wire'[c] = wire[c] /\ Hand(c)' = Hand(c)
    BY <1>0, <1>2, <1>3 DEF TrySend, Visit, Hand
  <2>2. cur[p] \in Message
    BY DEF Visit, IInv, HandInv, Message
  <2>3. Stream(c)' = Append(Stream(c), cur[p])
    <3>1. Stream(c)' = (wire[c] \o Hand(c)) \o Append(queue[c], cur[p])
      BY <2>1 DEF Stream
    <3>2. QED
      BY <1>0, <2>2, <3>1, Enqueue DEF Stream
  <2>4. Range(Append(Stream(c), cur[p])) = Range(Stream(c)) \cup {cur[p]}
    BY <1>0, <2>2, RangeGrows
  <2>5. QED
    BY <2>3, <2>4
<1>4. CASE ~(Len(queue[c]) < BufSize)
  BY <1>0, <1>2, <1>4 DEF TrySend
<1>5. QED
  BY <1>3, <1>4

\* What the range loop has passed stays with the client while its peer is there.
LEMMA LossStep ==
  IInv /\ IInv' /\ WelcomeInv /\ FeedInv /\ NothingLost /\ [Next]_vars => NothingLost'
<1> SUFFICES ASSUME IInv, IInv', WelcomeInv, FeedInv, NothingLost, [Next]_vars,
                    NEW p \in Publishers, NEW c \in Clients,
                    pubPc'[p] = "iterate", c \in hubClients' \ todo'[p],
                    conn'[c] = "open", asked'[c] = {}
             PROVE  cur'[p] \in Range(Stream(c))' \cup dropped'[c]
  BY DEF NothingLost
<1>0. /\ pubPc \in [Publishers -> {"idle", "rlock", "iterate"}] /\ todo \in [Publishers -> SUBSET Clients]
      /\ handler \in [Clients -> HandlerPc] /\ asked \in [Clients -> SUBSET Topics]
  BY DEF IInv, TypeOK
<1>1. asked[c] = {} /\ dropped[c] \subseteq dropped'[c]
  BY ClientFrame
<1>2. conn[c] = "open"
  <2>1. ~Accept(c)
    BY <1>0 DEF Accept, Goto, IInv, MemberInv
  <2>2. QED
    BY <2>1, ClientFrame
<1>3. \/ Visit(p, c)
      \/ pubPc[p] = "iterate" /\ cur'[p] = cur[p] /\ todo'[p] = todo[p]
      \/ pubPc[p] = "iterate" /\ cur'[p] = cur[p] /\ c \notin todo[p]
  <2>1. CASE UNCHANGED pubVars
    BY <2>1 DEF pubVars
  <2>2. ASSUME NEW q \in Publishers, NEW t \in Topics \cup {AllTopics}, CallPublish(q, t)
        PROVE  q # p /\ pubPc[p] = "iterate" /\ cur'[p] = cur[p] /\ todo'[p] = todo[p]
    BY <1>0, <2>2 DEF CallPublish, IInv, TypeOK
  <2>3. ASSUME NEW q \in Publishers, RLock(q)
        PROVE  q # p /\ pubPc[p] = "iterate" /\ cur'[p] = cur[p] /\ todo'[p] = todo[p]
    BY <1>0, <2>3 DEF RLock, hubVars
  <2>4. ASSUME NEW q \in Publishers, EndPublish(q)
        PROVE  q # p /\ pubPc[p] = "iterate" /\ cur'[p] = cur[p] /\ todo'[p] = todo[p]
    BY <1>0, <2>4 DEF EndPublish, IInv, TypeOK
  <2>5. ASSUME NEW q \in Publishers, NEW d \in Clients, Visit(q, d)
        PROVE  \/ Visit(p, c)
               \/ pubPc[p] = "iterate" /\ cur'[p] = cur[p] /\ todo'[p] = todo[p]
               \/ pubPc[p] = "iterate" /\ cur'[p] = cur[p] /\ c \notin todo[p]
    BY <1>0, <2>5 DEF Visit
  <2>6. QED
    BY <2>1, <2>2, <2>3, <2>4, <2>5, PublisherFrame
<1>4. CASE Visit(p, c)
  <2>1. cur'[p] = cur[p]
    BY <1>4 DEF Visit
  <2>2. QED
    BY <1>1, <1>4, <2>1, VisitGives
<1>5. CASE pubPc[p] = "iterate" /\ cur'[p] = cur[p] /\ c \notin todo[p]
  <2>1. c \in hubClients
    <3>1. ~Register(c)
      BY <1>5 DEF Register, HasLock, Readers
    <3>2. QED
      BY <3>1, ClientFrame
  <2>2. cur[p] \in Range(Stream(c)) \cup dropped[c]
    BY <1>1, <1>2, <1>5, <2>1 DEF NothingLost
  <2>3. Range(Stream(c)) \subseteq Range(Stream(c)')
    <3>1. StreamChange(c) /\ Stream(c) \in Seq(Message)
      BY StreamStep, StreamType
    <3>2. ASSUME NEW q \in Publishers, Visit(q, c), Stream(c)' = Append(Stream(c), cur[q])
          PROVE  Range(Stream(c)) \subseteq Range(Stream(c)')
      <4>1. cur[q] \in Message
        BY <3>2 DEF Visit, IInv, HandInv, Message
      <4>2. QED
        BY <3>1, <3>2, <4>1, RangeGrows
    <3>3. CASE Stream(c)' = <<Welcome>> \o Stream(c)
      <4>1. Welcome \in Message
        BY DEF Message
      <4>2. QED
        BY <3>1, <3>3, <4>1, RangeGrows
    <3>4. QED
      BY <1>2, <3>1, <3>2, <3>3 DEF StreamChange
  <2>4. Range(Stream(c))' = Range(Stream(c)')
    BY DEF Range
  <2>5. QED
    BY <1>1, <1>5, <2>2, <2>3, <2>4
<1>6. QED
  BY <1>3, <1>4, <1>5

\* What the range loop has passed is with every client that takes all topics and whose peer
\* is there, or was dropped at its full buffer.
THEOREM NothingIsLost == Spec => []NothingLost
<1>1. Init => WelcomeInv /\ FeedInv /\ NothingLost
  BY MessageAssumption DEF Init, WelcomeInv, WelcomeFirst, FeedInv, NothingLost
<1>2. QED
  BY <1>1, LossStep, FeedStep, WelcomeStep, Invariance, PTL DEF Spec

-----------------------------------------------------------------------------
(* The hub implements EventFeed: every step is one of the feed, or none.   *)

\* What the feed does not see.
Unseen == UNCHANGED <<hubClients, cur, Readers, todo, published, asked, topics, Pending, wire, Present>>

LEMMA Stutter == Unseen => [Feed!Next]_(Feed!vars)
  BY DEF Unseen, Feed!vars

\* The feed's variables follow from those of the hub that they are made of.
LEMMA Seen ==
  /\ UNCHANGED pubPc => UNCHANGED Readers
  /\ UNCHANGED <<held, queue>> => UNCHANGED Pending
  /\ UNCHANGED conn => UNCHANGED Present
  BY DEF Readers, Pending, Hand, Present

\* A publisher's steps.
LEMMA FeedPublish ==
  ASSUME IInv, FeedInv, NEW p \in Publishers, NEW t \in Topics \cup {AllTopics}, CallPublish(p, t)
  PROVE  Feed!Next
<1>0. pubPc \in [Publishers -> {"idle", "rlock", "iterate"}]
  BY DEF IInv, TypeOK
<1>1. UNCHANGED Readers
  BY <1>0 DEF CallPublish, Readers
<1>2. Feed!Begin(p, t)
  BY <1>1, Seen DEF CallPublish, Feed!Begin, FeedInv, hubVars, readerVars, chanVars
<1>3. QED
  BY <1>2 DEF Feed!Next

LEMMA FeedOpen ==
  ASSUME IInv, FeedInv, NEW p \in Publishers, RLock(p)
  PROVE  Feed!Next
<1>0. pubPc \in [Publishers -> {"idle", "rlock", "iterate"}]
  BY DEF IInv, TypeOK
<1>1. Readers' = Readers \cup {p} /\ p \notin Readers
  BY <1>0 DEF RLock, Readers
<1>2. Feed!Open(p)
  BY <1>1, Seen DEF RLock, Feed!Open, FeedInv, hubVars, readerVars, chanVars
<1>3. QED
  BY <1>2 DEF Feed!Next

LEMMA FeedFinish ==
  ASSUME IInv, FeedInv, NEW p \in Publishers, EndPublish(p)
  PROVE  Feed!Next
<1>0. pubPc \in [Publishers -> {"idle", "rlock", "iterate"}]
  BY DEF IInv, TypeOK
<1>1. Readers' = Readers \ {p} /\ p \in Readers
  BY <1>0 DEF EndPublish, Readers
<1>2. Feed!Finish(p)
  BY <1>1, Seen DEF EndPublish, Feed!Finish, FeedInv, hubVars, readerVars, chanVars
<1>3. QED
  BY <1>2 DEF Feed!Next

\* Lengths and ends of what is pending.
LEMMA PendingFacts ==
  ASSUME IInv, NEW c \in Clients
  PROVE  /\ queue[c] \in Seq(Event) /\ Pending[c] = Hand(c) \o queue[c]
         /\ Len(queue[c]) <= Len(Pending[c]) /\ Len(Pending[c]) <= Len(queue[c]) + 1
<1>1. queue[c] \in Seq(Event) /\ held[c] \in Event \cup {NoEvent}
  BY DEF IInv, TypeOK
<1>2. Pending[c] = Hand(c) \o queue[c]
  BY DEF Pending
<1>3. CASE held[c] = NoEvent
  <2>1. <<>> \o queue[c] = queue[c]
    BY <1>1
  <2>2. QED
    BY <1>1, <1>2, <1>3, <2>1 DEF Hand
<1>4. CASE held[c] # NoEvent
  <2>1. Len(<<held[c]>> \o queue[c]) = Len(queue[c]) + 1
    BY <1>1, <1>4
  <2>2. QED
    BY <1>1, <1>2, <1>4, <2>1 DEF Hand
<1>5. QED
  BY <1>3, <1>4

LEMMA FeedOffer ==
  ASSUME IInv, FeedInv, NEW p \in Publishers, NEW c \in Clients, Visit(p, c)
  PROVE  Feed!Next
<1>0. /\ pubPc[p] = "iterate" /\ c \in todo[p] /\ p \in Readers
      /\ todo' = [todo EXCEPT ![p] = @ \ {c}]
      /\ UNCHANGED <<hubClients, Readers, cur, published, asked, topics, wire, Present>>
      /\ UNCHANGED <<held>> /\ cur[p] \in Event
  BY Seen DEF Visit, hubVars, readerVars, Readers, IInv, HandInv
<1>1. MayWant(c, cur[p].topic) => Feed!MayTake(c, cur[p].topic)
  BY DEF MayWant, SubscribedTo, Feed!MayTake, FeedInv
<1>2. MayRefuse(c, cur[p].topic) => Feed!MayRefuse(c, cur[p].topic)
  BY DEF MayRefuse, SubscribedTo, Feed!MayRefuse, FeedInv
<1>3. /\ Len(queue[c]) \in Nat /\ Len(Pending[c]) \in Nat /\ BufSize \in Nat
      /\ Len(queue[c]) <= Len(Pending[c]) /\ Len(Pending[c]) <= Len(queue[c]) + 1
  BY PendingFacts, BufAssumption DEF IInv, TypeOK, Pending, Hand
<1>4. CASE MayRefuse(c, cur[p].topic) /\ UNCHANGED <<queue, dropped>>
  <2>1. UNCHANGED Pending
    BY <1>0, <1>4, Seen
  <2>2. Feed!Offer(p, c)
    BY <1>0, <1>2, <1>4, <2>1 DEF Feed!Offer
  <2>3. QED
    BY <2>2 DEF Feed!Next
<1>5. CASE MayWant(c, cur[p].topic) /\ TrySend(c, cur[p]) /\ Len(queue[c]) < BufSize
  <2>1. Pending' = [Pending EXCEPT ![c] = Append(@, cur[p])]
    <3>1. queue' = [queue EXCEPT ![c] = Append(@, cur[p])] /\ queue \in [Clients -> Seq(Event)]
      BY <1>5 DEF TrySend, IInv, TypeOK
    <3>2. Hand(c) \in Seq(Message) /\ queue[c] \in Seq(Message) /\ cur[p] \in Message
      BY <1>0, StreamType DEF Message
    <3>3. Hand(c) \o Append(queue[c], cur[p]) = Append(Hand(c) \o queue[c], cur[p])
      BY <3>2
    <3>4. \A d \in Clients : Hand(d)' = Hand(d)
      BY <1>0 DEF Hand
    <3>5. QED
      BY <3>1, <3>3, <3>4 DEF Pending
  <2>2. Feed!Offer(p, c)
    BY <1>0, <1>1, <1>3, <1>5, <2>1 DEF Feed!Offer
  <2>3. QED
    BY <2>2 DEF Feed!Next
<1>6. CASE MayWant(c, cur[p].topic) /\ TrySend(c, cur[p]) /\ ~(Len(queue[c]) < BufSize)
  <2>1. UNCHANGED Pending
    BY <1>0, <1>6, Seen DEF TrySend
  <2>2. Feed!Offer(p, c)
    BY <1>0, <1>1, <1>3, <1>6, <2>1 DEF Feed!Offer
  <2>3. QED
    BY <2>2 DEF Feed!Next
<1>7. QED
  BY <1>4, <1>5, <1>6 DEF Visit

\* The steps of a handler, of readPump and of the peer.
LEMMA FeedWelcome ==
  ASSUME IInv, WelcomeInv, NEW c \in Clients, SendWelcome(c)
  PROVE  [Feed!Next]_(Feed!vars)
<1>0. /\ UNCHANGED <<hubClients, Readers, cur, todo, published, asked, topics, Pending, Present>>
      /\ c \in hubClients /\ wire[c] = <<>> /\ handler[c] = "welcome"
      /\ wire \in [Clients -> Seq(Event \cup {Welcome})]
  BY Seen DEF SendWelcome, hubVars, pubVars, chanVars, IInv, TypeOK, MemberInv, WelcomeInv
<1>1. CASE conn[c] = "open"
  <2>1. wire' = [wire EXCEPT ![c] = <<Welcome>>]
    BY <1>0, <1>1 DEF SendWelcome, Deliver
  <2>2. c \in Present
    BY <1>1 DEF Present
  <2>3. Feed!Greet(c)
    BY <1>0, <2>1, <2>2 DEF Feed!Greet
  <2>4. QED
    BY <2>3 DEF Feed!Next
<1>2. CASE conn[c] # "open"
  <2>1. UNCHANGED wire
    BY <1>2 DEF SendWelcome, Deliver
  <2>2. QED
    BY <1>0, <2>1, Stutter DEF Unseen
<1>3. QED
  BY <1>1, <1>2

LEMMA FeedReceive ==
  ASSUME IInv, NEW c \in Clients, Receive(c)
  PROVE  [Feed!Next]_(Feed!vars)
<1>0. /\ UNCHANGED <<hubClients, Readers, cur, todo, published, asked, topics, wire, Present>>
      /\ queue[c] # <<>> /\ queue[c] \in Seq(Event) /\ held[c] = NoEvent
      /\ held \in [Clients -> Event \cup {NoEvent}] /\ queue \in [Clients -> Seq(Event)]
      /\ held' = [held EXCEPT ![c] = Head(queue[c])] /\ queue' = [queue EXCEPT ![c] = Tail(@)]
  BY Seen DEF Receive, hubVars, pubVars, readerVars, IInv, TypeOK, HandInv
<1>1. Head(queue[c]) # NoEvent
  BY <1>0, MessageAssumption
<1>2. <<Head(queue[c])>> \o Tail(queue[c]) = <<>> \o queue[c]
  BY <1>0
<1>3. \A d \in Clients : (Hand(d) \o queue[d])' = Hand(d) \o queue[d]
  BY <1>0, <1>1, <1>2 DEF Hand
<1>4. UNCHANGED Pending
  BY <1>3 DEF Pending
<1>5. QED
  BY <1>0, <1>4, Stutter DEF Unseen

\* Writing, or failing to, takes what was in hand from what is pending.
LEMMA HandGone ==
  ASSUME IInv, NEW c \in Clients, handler[c] = "write",
         held' = [held EXCEPT ![c] = NoEvent], UNCHANGED queue
  PROVE  /\ Pending[c] # <<>> /\ Head(Pending[c]) = held[c]
         /\ Pending' = [Pending EXCEPT ![c] = Tail(@)]
<1>0. /\ queue[c] \in Seq(Event) /\ held[c] \in Event /\ held[c] # NoEvent
      /\ held \in [Clients -> Event \cup {NoEvent}]
  BY MessageAssumption DEF IInv, TypeOK, HandInv
<1>1. Pending[c] = <<held[c]>> \o queue[c]
  BY <1>0 DEF Pending, Hand
<1>2. /\ Head(<<held[c]>> \o queue[c]) = held[c] /\ <<held[c]>> \o queue[c] # <<>>
      /\ Tail(<<held[c]>> \o queue[c]) = <<>> \o queue[c]
  BY <1>0
<1>3. \A d \in Clients : (Hand(d) \o queue[d])' = IF d = c THEN Tail(Pending[c]) ELSE Hand(d) \o queue[d]
  BY <1>0, <1>1, <1>2 DEF Hand
<1>4. Pending' = [Pending EXCEPT ![c] = Tail(@)]
  BY <1>3 DEF Pending
<1>5. QED
  BY <1>1, <1>2, <1>4

LEMMA FeedWrite ==
  ASSUME IInv, WelcomeInv, FeedInv, NEW c \in Clients, WriteOk(c) \/ WriteFail(c)
  PROVE  [Feed!Next]_(Feed!vars)
<1>0. /\ UNCHANGED <<hubClients, Readers, cur, todo, published, asked, topics, Present>>
      /\ handler[c] = "write" /\ conn[c] # "none"
      /\ Pending[c] # <<>> /\ Head(Pending[c]) = held[c]
      /\ Pending' = [Pending EXCEPT ![c] = Tail(@)]
  BY Seen, HandGone DEF WriteOk, WriteFail, hubVars, pubVars, readerVars, chanVars, FeedInv
<1>1. CASE WriteOk(c) /\ conn[c] = "open"
  <2>1. c \in Present /\ wire[c] # <<>> /\ wire' = [wire EXCEPT ![c] = Append(@, held[c])]
    BY <1>0, <1>1 DEF Present, WriteOk, Deliver, WelcomeInv
  <2>2. Feed!Deliver(c)
    BY <1>0, <2>1 DEF Feed!Deliver
  <2>3. QED
    BY <2>2 DEF Feed!Next
<1>2. CASE conn[c] # "open"
  <2>1. c \notin Present /\ UNCHANGED wire
    BY <1>0, <1>2 DEF Present, WriteOk, WriteFail, Deliver
  <2>2. Feed!Discard(c)
    BY <1>0, <2>1 DEF Feed!Discard
  <2>3. QED
    BY <2>2 DEF Feed!Next
<1>3. QED
  BY <1>1, <1>2 DEF WriteFail

LEMMA FeedMember ==
  ASSUME IInv, FeedInv, NEW c \in Clients, Register(c) \/ Unlink(c)
  PROVE  Feed!Next
<1>0. UNCHANGED <<Readers, cur, todo, published, asked, topics, Pending, wire, Present>>
  BY Seen DEF Register, Unlink, pubVars, readerVars, chanVars
<1>1. CASE Register(c)
  <2>1. Feed!Join(c)
    BY <1>0, <1>1 DEF Register, Feed!Join
  <2>2. QED
    BY <2>1 DEF Feed!Next
<1>2. CASE Unlink(c)
  <2>1. \A p \in Publishers : c \notin todo[p]
    BY <1>2 DEF Unlink, HasLock, Readers, FeedInv
  <2>2. Feed!Leave(c)
    BY <1>0, <1>2, <2>1 DEF Unlink, Feed!Leave
  <2>3. QED
    BY <2>2 DEF Feed!Next
<1>3. QED
  BY <1>1, <1>2

LEMMA FeedUnseen ==
  ASSUME IInv, FeedInv, NEW c \in Clients,
         \/ Accept(c) \/ LogTotal(c) \/ Unregister(c) \/ Cancel(c) \/ Close(c)
         \/ \E t \in Topics : BeginTopic(c, t)
  PROVE  Unseen
<1>1. CASE Accept(c)
  <2>1. /\ UNCHANGED <<hubClients, Readers, cur, todo, published, asked, topics, Pending, wire>>
        /\ conn \in [Clients -> {"none", "open", "gone", "closed"}] /\ conn' = [conn EXCEPT ![c] = "open"]
    BY <1>1, Seen DEF Accept, pubVars, readerVars, chanVars, IInv, TypeOK
  <2>2. conn[c] = "none"
    BY <1>1 DEF Accept, FeedInv
  <2>3. UNCHANGED Present
    BY <2>1, <2>2 DEF Present
  <2>4. QED
    BY <2>1, <2>3 DEF Unseen
<1>2. CASE LogTotal(c) \/ Unregister(c) \/ Cancel(c) \/ Close(c) \/ \E t \in Topics : BeginTopic(c, t)
  BY <1>2, Seen DEF LogTotal, Unregister, Cancel, Close, BeginTopic, Unseen,
                    hubVars, pubVars, readerVars, chanVars
<1>3. QED
  BY <1>1, <1>2

LEMMA FeedPeer ==
  ASSUME IInv, FeedInv, NEW c \in Clients,
         \/ PeerLeaves(c) \/ ReaderExit(c) \/ EndTopic(c)
         \/ \E T \in SUBSET Topics : ReadSubscribe(c, T)
  PROVE  [Feed!Next]_(Feed!vars)
<1>0. /\ UNCHANGED <<hubClients, Readers, cur, todo, published, Pending, wire>>
      /\ conn \in [Clients -> {"none", "open", "gone", "closed"}]
  BY Seen DEF PeerLeaves, ReaderExit, EndTopic, ReadSubscribe, hubVars, pubVars, chanVars, IInv, TypeOK
<1>1. ASSUME NEW x \in {"gone", "closed"}, conn' = [conn EXCEPT ![c] = x], UNCHANGED <<asked, topics>>,
             conn[c] # "none"
      PROVE  [Feed!Next]_(Feed!vars)
  <2>1. Present' = Present \ {c}
    BY <1>0, <1>1 DEF Present
  <2>2. CASE c \in Present
    <3>1. Feed!PeerLeaves(c)
      BY <1>0, <1>1, <2>1, <2>2 DEF Feed!PeerLeaves
    <3>2. QED
      BY <3>1 DEF Feed!Next
  <2>3. CASE c \notin Present
    <3>1. UNCHANGED Present
      BY <1>0, <1>1, <2>3 DEF Present
    <3>2. QED
      BY <1>0, <1>1, <3>1, Stutter DEF Unseen
  <2>4. QED
    BY <2>2, <2>3
<1>2. CASE PeerLeaves(c)
  BY <1>1, <1>2 DEF PeerLeaves, readerVars
<1>3. CASE ReaderExit(c)
  <2>1. conn[c] # "none"
    BY <1>3 DEF ReaderExit, IInv, ClosedInv, FeedInv
  <2>2. QED
    BY <1>1, <1>3, <2>1 DEF ReaderExit
<1>4. CASE EndTopic(c)
  <2>0. writing[c] \in Maybe(Topics) /\ writing[c] # {}
    BY <1>4 DEF EndTopic, IInv, TypeOK
  <2>1. PICK t \in Topics : writing[c] = {t}
    BY <2>0 DEF Maybe
  <2>2. t \in asked[c]
    BY <2>1 DEF FeedInv
  <2>3. Feed!Apply(c, t)
    BY <1>0, <1>4, <2>1, <2>2, Seen DEF EndTopic, Feed!Apply
  <2>4. QED
    BY <2>3 DEF Feed!Next
<1>5. ASSUME NEW T \in SUBSET Topics, ReadSubscribe(c, T) PROVE [Feed!Next]_(Feed!vars)
  <2>1. Feed!Ask(c, T)
    BY <1>0, <1>5, Seen DEF ReadSubscribe, Feed!Ask
  <2>2. QED
    BY <2>1 DEF Feed!Next
<1>6. QED
  BY <1>2, <1>3, <1>4, <1>5

LEMMA FeedSim ==
  IInv /\ WelcomeInv /\ FeedInv /\ [Next]_vars => [Feed!Next]_(Feed!vars)
<1> SUFFICES ASSUME IInv, WelcomeInv, FeedInv, [Next]_vars PROVE [Feed!Next]_(Feed!vars)
  OBVIOUS
<1>1. CASE UNCHANGED vars
  BY <1>1, Seen, Stutter DEF vars, hubVars, pubVars, readerVars, chanVars, Unseen
<1>2. ASSUME NEW p \in Publishers, NEW c \in Clients, Fatal(p, c) PROVE [Feed!Next]_(Feed!vars)
  BY <1>2, Seen, Stutter DEF Fatal, hubVars, pubVars, readerVars, chanVars, Unseen
<1>3. ASSUME NEW p \in Publishers, \/ PublisherStep(p)
                                   \/ \E t \in Topics \cup {AllTopics} : CallPublish(p, t)
      PROVE  [Feed!Next]_(Feed!vars)
  BY <1>3, FeedPublish, FeedOpen, FeedFinish, FeedOffer DEF PublisherStep
<1>4. ASSUME NEW c \in Clients, HandlerStep(c) \/ ReaderStep(c) \/ PeerLeaves(c)
      PROVE  [Feed!Next]_(Feed!vars)
  BY <1>4, FeedWelcome, FeedReceive, FeedWrite, FeedMember, FeedUnseen, Stutter, FeedPeer
     DEF HandlerStep, ReaderStep
<1>5. QED
  BY <1>1, <1>2, <1>3, <1>4 DEF Next

\* Seen from the publishers and the peers, the hub with its lock, its goroutines and its
\* channels does nothing that EventFeed does not allow.
THEOREM HubImplementsFeed == Spec => ImplementsFeed
<1>1. Init => Feed!Init
  <2> SUFFICES ASSUME Init PROVE Feed!Init
    OBVIOUS
  <2>1. Readers = {} /\ Present = Clients
    BY DEF Init, Readers, Present
  <2>2. \A c \in Clients : Hand(c) \o queue[c] = <<>>
    BY DEF Init, Hand
  <2>3. Pending = [c \in Clients |-> <<>>]
    BY <2>2 DEF Pending
  <2>4. QED
    BY <2>1, <2>3 DEF Init, Feed!Init
<1>2. Init => WelcomeInv /\ FeedInv
  BY MessageAssumption DEF Init, WelcomeInv, WelcomeFirst, FeedInv
<1>3. QED
  BY <1>1, <1>2, FeedSim, FeedStep, WelcomeStep, Invariance, PTL DEF Spec, ImplementsFeed, Feed!Spec

=============================================================================
