--------------------------- MODULE StreamHubProofs ---------------------------
(***************************************************************************)
(* Proofs about StreamHub, for any sets of connections, publishers and     *)
(* topics, any buffer size and any number of events.                       *)
(***************************************************************************)
EXTENDS StreamHub, TLAPS

-----------------------------------------------------------------------------
(* Where a handler is decides what the hub and its channel look like.      *)

\* The announced writer is the handler that waits for, or holds, the lock.
LockInv == \A c \in Clients : writer = {c} <=> handler[c] \in {"register", "unlink"}

\* A client is in the map from Register to the deletion of Unregister.
MemberInv ==
    \A c \in Clients :
        c \in hubClients <=>
            handler[c] \in {"log", "welcome", "pump", "write", "unregister", "unlink"}

\* cancel() and close(send) come after the deletion.
ClosedInv ==
    \A c \in Clients : /\ cancelled[c] => handler[c] \in {"close", "done"}
                       /\ closed[c] => handler[c] = "done"

\* The clients a range loop has ahead of it are still in the map: the read lock keeps
\* every deletion out until the loop is over.
IterInv == \A p \in Publishers : pubPc[p] = "iterate" => todo[p] \subseteq hubClients

\* An event is in hand exactly where the code has one.
HandInv ==
    /\ \A p \in Publishers : pubPc[p] # "idle" => cur[p] \in Event
    /\ \A c \in Clients : held[c] \in Event <=> handler[c] = "write"

IInv == TypeOK /\ HandInv /\ LockInv /\ MemberInv /\ ClosedInv /\ IterInv

-----------------------------------------------------------------------------

\* Every step keeps every variable in its type.
LEMMA TypeStep == TypeOK /\ HandInv /\ [Next]_vars => TypeOK'
<1> SUFFICES ASSUME TypeOK, HandInv, [Next]_vars PROVE TypeOK'
  OBVIOUS
<1> USE BufAssumption, MaxAssumption
<1>1. ASSUME NEW p \in Publishers, NEW t \in Topics \cup {AllTopics}, CallPublish(p, t), crashed' = crashed
      PROVE  TypeOK'
  <2>1. published' \in [Publishers -> 0..MaxEvents] /\ published[p] + 1 \in 1..MaxEvents
    BY <1>1 DEF CallPublish, TypeOK
  <2>2. cur' \in [Publishers -> Event \cup {NoEvent}]
    BY <1>1, <2>1 DEF CallPublish, TypeOK, Event
  <2>3. QED
    BY <1>1, <2>1, <2>2 DEF CallPublish, TypeOK, Goto, Maybe, hubVars, pubVars, readerVars, chanVars
<1>2. ASSUME NEW p \in Publishers, RLock(p), crashed' = crashed
      PROVE  TypeOK'
  BY <1>2 DEF RLock, TypeOK, Goto, Maybe, hubVars, pubVars, readerVars, chanVars, Readers
<1>3. ASSUME NEW p \in Publishers, NEW c \in Clients, Visit(p, c), crashed' = crashed
      PROVE  TypeOK'
  <2>1. CASE UNCHANGED <<queue, dropped>>
    BY <1>3, <2>1 DEF Visit, TypeOK, Goto, Maybe, hubVars, pubVars, readerVars, chanVars
  <2>2. CASE TrySend(c, cur[p])
    <3>1. cur[p] \in Event
      BY <1>3 DEF Visit, TypeOK, HandInv
    <3>2. queue' \in [Clients -> Seq(Event)] /\ dropped' \in [Clients -> SUBSET Event]
      <4>1. queue[c] \in Seq(Event) /\ Append(queue[c], cur[p]) \in Seq(Event)
        BY <3>1 DEF TypeOK
      <4>2. queue \in [Clients -> Seq(Event)] /\ dropped \in [Clients -> SUBSET Event]
        BY DEF TypeOK
      <4>3. CASE Len(queue[c]) < BufSize
        BY <2>2, <4>1, <4>2, <4>3 DEF TrySend
      <4>4. CASE ~(Len(queue[c]) < BufSize)
        BY <2>2, <3>1, <4>2, <4>4 DEF TrySend
      <4>5. QED
        BY <4>3, <4>4
    <3>3. QED
      BY <1>3, <3>2 DEF Visit, TypeOK, Goto, Maybe, hubVars, pubVars, readerVars, chanVars
  <2>3. QED
    BY <1>3, <2>1, <2>2 DEF Visit
<1>4. ASSUME NEW p \in Publishers, EndPublish(p), crashed' = crashed
      PROVE  TypeOK'
  BY <1>4 DEF EndPublish, TypeOK, Goto, Maybe, hubVars, pubVars, readerVars, chanVars
<1>5. ASSUME NEW c \in Clients, Accept(c), crashed' = crashed
      PROVE  TypeOK'
  BY <1>5 DEF Accept, TypeOK, Goto, Maybe, hubVars, pubVars, readerVars, chanVars, HandlerPc
<1>6. ASSUME NEW c \in Clients, Register(c), crashed' = crashed
      PROVE  TypeOK'
  BY <1>6 DEF Register, TypeOK, Goto, Maybe, hubVars, pubVars, readerVars, chanVars, HandlerPc
<1>7. ASSUME NEW c \in Clients, LogTotal(c), crashed' = crashed
      PROVE  TypeOK'
  BY <1>7 DEF LogTotal, TypeOK, Goto, Maybe, hubVars, pubVars, readerVars, chanVars, HandlerPc
<1>8. ASSUME NEW c \in Clients, SendWelcome(c), crashed' = crashed
      PROVE  TypeOK'
  <2>1. wire' \in [Clients -> Seq(Event \cup {Welcome})]
    BY <1>8 DEF SendWelcome, Deliver, TypeOK
  <2>2. QED
    BY <1>8, <2>1 DEF SendWelcome, HandlerPc, TypeOK, Goto, Maybe, hubVars, pubVars, readerVars, chanVars
<1>9. ASSUME NEW c \in Clients, Receive(c), crashed' = crashed
      PROVE  TypeOK'
  <2>1. queue[c] \in Seq(Event) /\ queue[c] # <<>>
    BY <1>9 DEF Receive, TypeOK
  <2>2. Head(queue[c]) \in Event /\ Tail(queue[c]) \in Seq(Event)
    BY <2>1
  <2>3. QED
    BY <1>9, <2>2 DEF Receive, HandlerPc, TypeOK, Goto, Maybe, hubVars, pubVars, readerVars, chanVars
<1>10. ASSUME NEW c \in Clients, WriteOk(c), crashed' = crashed
      PROVE  TypeOK'
  <2>1. held[c] \in Event
    BY <1>10 DEF WriteOk, TypeOK, HandInv
  <2>2. wire' \in [Clients -> Seq(Event \cup {Welcome})]
    BY <1>10, <2>1 DEF WriteOk, Deliver, TypeOK
  <2>3. QED
    BY <1>10, <2>2 DEF WriteOk, HandlerPc, TypeOK, Goto, Maybe, hubVars, pubVars, readerVars, chanVars
<1>11. ASSUME NEW c \in Clients, WriteFail(c), crashed' = crashed
      PROVE  TypeOK'
  BY <1>11 DEF WriteFail, TypeOK, Goto, Maybe, hubVars, pubVars, readerVars, chanVars, HandlerPc
<1>12. ASSUME NEW c \in Clients, Unregister(c), crashed' = crashed
      PROVE  TypeOK'
  BY <1>12 DEF Unregister, TypeOK, Goto, Maybe, hubVars, pubVars, readerVars, chanVars, HandlerPc
<1>13. ASSUME NEW c \in Clients, Unlink(c), crashed' = crashed
      PROVE  TypeOK'
  BY <1>13 DEF Unlink, TypeOK, Goto, Maybe, hubVars, pubVars, readerVars, chanVars, HandlerPc
<1>14. ASSUME NEW c \in Clients, Cancel(c), crashed' = crashed
      PROVE  TypeOK'
  BY <1>14 DEF Cancel, TypeOK, Goto, Maybe, hubVars, pubVars, readerVars, chanVars, HandlerPc
<1>15. ASSUME NEW c \in Clients, Close(c), crashed' = crashed
      PROVE  TypeOK'
  BY <1>15 DEF Close, TypeOK, Goto, Maybe, hubVars, pubVars, readerVars, chanVars, HandlerPc
<1>16. ASSUME NEW c \in Clients, PeerLeaves(c), crashed' = crashed
      PROVE  TypeOK'
  BY <1>16 DEF PeerLeaves, TypeOK, Goto, Maybe, hubVars, pubVars, readerVars, chanVars
<1>17. ASSUME NEW c \in Clients, ReaderExit(c), crashed' = crashed
      PROVE  TypeOK'
  BY <1>17 DEF ReaderExit, TypeOK, Goto, Maybe, hubVars, pubVars, readerVars, chanVars
<1>18. ASSUME NEW c \in Clients, EndTopic(c), crashed' = crashed
      PROVE  TypeOK'
  <2>1. writing[c] \in Maybe(Topics)
    BY DEF TypeOK
  <2>2. writing[c] \subseteq Topics
    BY <2>1 DEF Maybe
  <2>3. topics' \in [Clients -> SUBSET Topics] /\ writing' \in [Clients -> Maybe(Topics)]
    BY <1>18, <2>2 DEF EndTopic, TypeOK, Maybe
  <2>4. QED
    BY <1>18, <2>3 DEF EndTopic, TypeOK, Goto, hubVars, pubVars, readerVars, chanVars
<1>19. ASSUME NEW c \in Clients, NEW t \in Topics, BeginTopic(c, t), crashed' = crashed
      PROVE  TypeOK'
  BY <1>19 DEF BeginTopic, TypeOK, Goto, Maybe, hubVars, pubVars, readerVars, chanVars
<1>20. ASSUME NEW c \in Clients, NEW T \in SUBSET Topics, ReadSubscribe(c, T), crashed' = crashed
      PROVE  TypeOK'
  BY <1>20 DEF ReadSubscribe, TypeOK, Goto, Maybe, hubVars, pubVars, readerVars, chanVars
<1>21. ASSUME NEW p \in Publishers, NEW c \in Clients, Fatal(p, c)
      PROVE  TypeOK'
  BY <1>21 DEF Fatal, TypeOK, Goto, Maybe, hubVars, pubVars, readerVars, chanVars
<1>22. CASE UNCHANGED vars
  BY <1>22 DEF TypeOK, Goto, Maybe, hubVars, pubVars, readerVars, chanVars, vars
<1>23. QED
  BY <1>1, <1>2, <1>3, <1>4, <1>5, <1>6, <1>7, <1>8, <1>9, <1>10, <1>11, <1>12,
     <1>13, <1>14, <1>15, <1>16, <1>17, <1>18, <1>19, <1>20, <1>21, <1>22
  DEF Next, PublisherStep, HandlerStep, ReaderStep

\* Every step keeps the event in hand in step with the program counters.
LEMMA HandStep == TypeOK /\ HandInv /\ [Next]_vars => HandInv'
<1> SUFFICES ASSUME TypeOK, HandInv, [Next]_vars PROVE HandInv'
  OBVIOUS
<1> USE MessageAssumption
<1>1. ASSUME NEW p \in Publishers, NEW t \in Topics \cup {AllTopics}, CallPublish(p, t), crashed' = crashed
      PROVE  HandInv'
  <2>1. [pub |-> p, seq |-> published[p] + 1, topic |-> t] \in Event
    BY <1>1, MaxAssumption DEF CallPublish, TypeOK, Event
  <2>2. QED
    BY <1>1, <2>1 DEF CallPublish, TypeOK, HandInv, Goto, hubVars, pubVars, readerVars, chanVars
<1>2. ASSUME NEW p \in Publishers, RLock(p), crashed' = crashed
      PROVE  HandInv'
  BY <1>2 DEF RLock, TypeOK, HandInv, Goto, hubVars, pubVars, readerVars, chanVars
<1>3. ASSUME NEW p \in Publishers, NEW c \in Clients, Visit(p, c), crashed' = crashed
      PROVE  HandInv'
  BY <1>3 DEF Visit, TypeOK, HandInv, Goto, hubVars, pubVars, readerVars, chanVars
<1>4. ASSUME NEW p \in Publishers, EndPublish(p), crashed' = crashed
      PROVE  HandInv'
  BY <1>4 DEF EndPublish, TypeOK, HandInv, Goto, hubVars, pubVars, readerVars, chanVars
<1>5. ASSUME NEW c \in Clients, Accept(c), crashed' = crashed
      PROVE  HandInv'
  BY <1>5 DEF Accept, TypeOK, HandInv, Goto, hubVars, pubVars, readerVars, chanVars
<1>6. ASSUME NEW c \in Clients, Register(c), crashed' = crashed
      PROVE  HandInv'
  BY <1>6 DEF Register, TypeOK, HandInv, Goto, hubVars, pubVars, readerVars, chanVars
<1>7. ASSUME NEW c \in Clients, LogTotal(c), crashed' = crashed
      PROVE  HandInv'
  BY <1>7 DEF LogTotal, TypeOK, HandInv, Goto, hubVars, pubVars, readerVars, chanVars
<1>8. ASSUME NEW c \in Clients, SendWelcome(c), crashed' = crashed
      PROVE  HandInv'
  BY <1>8 DEF SendWelcome, TypeOK, HandInv, Goto, hubVars, pubVars, readerVars, chanVars
<1>9. ASSUME NEW c \in Clients, Receive(c), crashed' = crashed
      PROVE  HandInv'
  <2>1. Head(queue[c]) \in Event
    BY <1>9 DEF Receive, TypeOK
  <2>2. QED
    BY <1>9, <2>1 DEF Receive, TypeOK, HandInv, Goto, hubVars, pubVars, readerVars, chanVars
<1>10. ASSUME NEW c \in Clients, WriteOk(c), crashed' = crashed
      PROVE  HandInv'
  BY <1>10 DEF WriteOk, TypeOK, HandInv, Goto, hubVars, pubVars, readerVars, chanVars
<1>11. ASSUME NEW c \in Clients, WriteFail(c), crashed' = crashed
      PROVE  HandInv'
  BY <1>11 DEF WriteFail, TypeOK, HandInv, Goto, hubVars, pubVars, readerVars, chanVars
<1>12. ASSUME NEW c \in Clients, Unregister(c), crashed' = crashed
      PROVE  HandInv'
  BY <1>12 DEF Unregister, TypeOK, HandInv, Goto, hubVars, pubVars, readerVars, chanVars
<1>13. ASSUME NEW c \in Clients, Unlink(c), crashed' = crashed
      PROVE  HandInv'
  BY <1>13 DEF Unlink, TypeOK, HandInv, Goto, hubVars, pubVars, readerVars, chanVars
<1>14. ASSUME NEW c \in Clients, Cancel(c), crashed' = crashed
      PROVE  HandInv'
  BY <1>14 DEF Cancel, TypeOK, HandInv, Goto, hubVars, pubVars, readerVars, chanVars
<1>15. ASSUME NEW c \in Clients, Close(c), crashed' = crashed
      PROVE  HandInv'
  BY <1>15 DEF Close, TypeOK, HandInv, Goto, hubVars, pubVars, readerVars, chanVars
<1>16. ASSUME NEW c \in Clients, PeerLeaves(c), crashed' = crashed
      PROVE  HandInv'
  BY <1>16 DEF PeerLeaves, TypeOK, HandInv, Goto, hubVars, pubVars, readerVars, chanVars
<1>17. ASSUME NEW c \in Clients, ReaderExit(c), crashed' = crashed
      PROVE  HandInv'
  BY <1>17 DEF ReaderExit, TypeOK, HandInv, Goto, hubVars, pubVars, readerVars, chanVars
<1>18. ASSUME NEW c \in Clients, EndTopic(c), crashed' = crashed
      PROVE  HandInv'
  BY <1>18 DEF EndTopic, TypeOK, HandInv, Goto, hubVars, pubVars, readerVars, chanVars
<1>19. ASSUME NEW c \in Clients, NEW t \in Topics, BeginTopic(c, t), crashed' = crashed
      PROVE  HandInv'
  BY <1>19 DEF BeginTopic, TypeOK, HandInv, Goto, hubVars, pubVars, readerVars, chanVars
<1>20. ASSUME NEW c \in Clients, NEW T \in SUBSET Topics, ReadSubscribe(c, T), crashed' = crashed
      PROVE  HandInv'
  BY <1>20 DEF ReadSubscribe, TypeOK, HandInv, Goto, hubVars, pubVars, readerVars, chanVars
<1>21. ASSUME NEW p \in Publishers, NEW c \in Clients, Fatal(p, c)
      PROVE  HandInv'
  BY <1>21 DEF Fatal, TypeOK, HandInv, Goto, hubVars, pubVars, readerVars, chanVars
<1>22. CASE UNCHANGED vars
  BY <1>22 DEF TypeOK, HandInv, Goto, hubVars, pubVars, readerVars, chanVars, vars
<1>23. QED
  BY <1>1, <1>2, <1>3, <1>4, <1>5, <1>6, <1>7, <1>8, <1>9, <1>10, <1>11, <1>12,
     <1>13, <1>14, <1>15, <1>16, <1>17, <1>18, <1>19, <1>20, <1>21, <1>22
  DEF Next, PublisherStep, HandlerStep, ReaderStep

\* Only the handler that announced itself takes, and gives back, the lock.
LEMMA LockStep == TypeOK /\ LockInv /\ [Next]_vars => LockInv'
<1> SUFFICES ASSUME TypeOK, LockInv, [Next]_vars PROVE LockInv'
  OBVIOUS
<1>1. ASSUME NEW p \in Publishers, NEW t \in Topics \cup {AllTopics}, CallPublish(p, t), crashed' = crashed
      PROVE  LockInv'
  BY <1>1 DEF CallPublish, LockInv, TypeOK, Goto, CanAnnounce, HasLock, hubVars, pubVars,
     readerVars, chanVars
<1>2. ASSUME NEW p \in Publishers, RLock(p), crashed' = crashed
      PROVE  LockInv'
  BY <1>2 DEF RLock, LockInv, TypeOK, Goto, CanAnnounce, HasLock, hubVars, pubVars, readerVars, chanVars
<1>3. ASSUME NEW p \in Publishers, NEW c \in Clients, Visit(p, c), crashed' = crashed
      PROVE  LockInv'
  BY <1>3 DEF Visit, LockInv, TypeOK, Goto, CanAnnounce, HasLock, hubVars, pubVars, readerVars, chanVars
<1>4. ASSUME NEW p \in Publishers, EndPublish(p), crashed' = crashed
      PROVE  LockInv'
  BY <1>4 DEF EndPublish, LockInv, TypeOK, Goto, CanAnnounce, HasLock, hubVars, pubVars,
     readerVars, chanVars
<1>5. ASSUME NEW c \in Clients, Accept(c), crashed' = crashed
      PROVE  LockInv'
  BY <1>5 DEF Accept, LockInv, TypeOK, Goto, CanAnnounce, HasLock, hubVars, pubVars, readerVars, chanVars
<1>6. ASSUME NEW c \in Clients, Register(c), crashed' = crashed
      PROVE  LockInv'
  BY <1>6 DEF Register, LockInv, TypeOK, Goto, CanAnnounce, HasLock, hubVars, pubVars, readerVars,
     chanVars
<1>7. ASSUME NEW c \in Clients, LogTotal(c), crashed' = crashed
      PROVE  LockInv'
  BY <1>7 DEF LogTotal, LockInv, TypeOK, Goto, CanAnnounce, HasLock, hubVars, pubVars,
     readerVars, chanVars
<1>8. ASSUME NEW c \in Clients, SendWelcome(c), crashed' = crashed
      PROVE  LockInv'
  BY <1>8 DEF SendWelcome, LockInv, TypeOK, Goto, CanAnnounce, HasLock, hubVars, pubVars,
     readerVars, chanVars
<1>9. ASSUME NEW c \in Clients, Receive(c), crashed' = crashed
      PROVE  LockInv'
  BY <1>9 DEF Receive, LockInv, TypeOK, Goto, CanAnnounce, HasLock, hubVars, pubVars, readerVars,
     chanVars
<1>10. ASSUME NEW c \in Clients, WriteOk(c), crashed' = crashed
      PROVE  LockInv'
  BY <1>10 DEF WriteOk, LockInv, TypeOK, Goto, CanAnnounce, HasLock, hubVars, pubVars, readerVars,
     chanVars
<1>11. ASSUME NEW c \in Clients, WriteFail(c), crashed' = crashed
      PROVE  LockInv'
  BY <1>11 DEF WriteFail, LockInv, TypeOK, Goto, CanAnnounce, HasLock, hubVars, pubVars,
     readerVars, chanVars
<1>12. ASSUME NEW c \in Clients, Unregister(c), crashed' = crashed
      PROVE  LockInv'
  BY <1>12 DEF Unregister, LockInv, TypeOK, Goto, CanAnnounce, HasLock, hubVars, pubVars,
     readerVars, chanVars
<1>13. ASSUME NEW c \in Clients, Unlink(c), crashed' = crashed
      PROVE  LockInv'
  BY <1>13 DEF Unlink, LockInv, TypeOK, Goto, CanAnnounce, HasLock, hubVars, pubVars, readerVars,
     chanVars
<1>14. ASSUME NEW c \in Clients, Cancel(c), crashed' = crashed
      PROVE  LockInv'
  BY <1>14 DEF Cancel, LockInv, TypeOK, Goto, CanAnnounce, HasLock, hubVars, pubVars, readerVars,
     chanVars
<1>15. ASSUME NEW c \in Clients, Close(c), crashed' = crashed
      PROVE  LockInv'
  BY <1>15 DEF Close, LockInv, TypeOK, Goto, CanAnnounce, HasLock, hubVars, pubVars, readerVars, chanVars
<1>16. ASSUME NEW c \in Clients, PeerLeaves(c), crashed' = crashed
      PROVE  LockInv'
  BY <1>16 DEF PeerLeaves, LockInv, TypeOK, Goto, CanAnnounce, HasLock, hubVars, pubVars,
     readerVars, chanVars
<1>17. ASSUME NEW c \in Clients, ReaderExit(c), crashed' = crashed
      PROVE  LockInv'
  BY <1>17 DEF ReaderExit, LockInv, TypeOK, Goto, CanAnnounce, HasLock, hubVars, pubVars,
     readerVars, chanVars
<1>18. ASSUME NEW c \in Clients, EndTopic(c), crashed' = crashed
      PROVE  LockInv'
  BY <1>18 DEF EndTopic, LockInv, TypeOK, Goto, CanAnnounce, HasLock, hubVars, pubVars, readerVars,
     chanVars
<1>19. ASSUME NEW c \in Clients, NEW t \in Topics, BeginTopic(c, t), crashed' = crashed
      PROVE  LockInv'
  BY <1>19 DEF BeginTopic, LockInv, TypeOK, Goto, CanAnnounce, HasLock, hubVars, pubVars,
     readerVars, chanVars
<1>20. ASSUME NEW c \in Clients, NEW T \in SUBSET Topics, ReadSubscribe(c, T), crashed' = crashed
      PROVE  LockInv'
  BY <1>20 DEF ReadSubscribe, LockInv, TypeOK, Goto, CanAnnounce, HasLock, hubVars, pubVars,
     readerVars, chanVars
<1>21. ASSUME NEW p \in Publishers, NEW c \in Clients, Fatal(p, c)
      PROVE  LockInv'
  BY <1>21 DEF Fatal, LockInv, TypeOK, Goto, CanAnnounce, HasLock, hubVars, pubVars, readerVars, chanVars
<1>22. CASE UNCHANGED vars
  BY <1>22 DEF LockInv, TypeOK, Goto, CanAnnounce, HasLock, hubVars, pubVars, readerVars, chanVars, vars
<1>23. QED
  BY <1>1, <1>2, <1>3, <1>4, <1>5, <1>6, <1>7, <1>8, <1>9, <1>10, <1>11, <1>12,
     <1>13, <1>14, <1>15, <1>16, <1>17, <1>18, <1>19, <1>20, <1>21, <1>22
  DEF Next, PublisherStep, HandlerStep, ReaderStep

\* Only Register inserts a client and only Unlink removes it.
LEMMA MemberStep == TypeOK /\ MemberInv /\ [Next]_vars => MemberInv'
<1> SUFFICES ASSUME TypeOK, MemberInv, [Next]_vars PROVE MemberInv'
  OBVIOUS
<1>1. ASSUME NEW p \in Publishers, NEW t \in Topics \cup {AllTopics}, CallPublish(p, t), crashed' = crashed
      PROVE  MemberInv'
  BY <1>1 DEF CallPublish, MemberInv, TypeOK, Goto, hubVars, pubVars, readerVars, chanVars
<1>2. ASSUME NEW p \in Publishers, RLock(p), crashed' = crashed
      PROVE  MemberInv'
  BY <1>2 DEF RLock, MemberInv, TypeOK, Goto, hubVars, pubVars, readerVars, chanVars
<1>3. ASSUME NEW p \in Publishers, NEW c \in Clients, Visit(p, c), crashed' = crashed
      PROVE  MemberInv'
  BY <1>3 DEF Visit, MemberInv, TypeOK, Goto, hubVars, pubVars, readerVars, chanVars
<1>4. ASSUME NEW p \in Publishers, EndPublish(p), crashed' = crashed
      PROVE  MemberInv'
  BY <1>4 DEF EndPublish, MemberInv, TypeOK, Goto, hubVars, pubVars, readerVars, chanVars
<1>5. ASSUME NEW c \in Clients, Accept(c), crashed' = crashed
      PROVE  MemberInv'
  BY <1>5 DEF Accept, MemberInv, TypeOK, Goto, hubVars, pubVars, readerVars, chanVars
<1>6. ASSUME NEW c \in Clients, Register(c), crashed' = crashed
      PROVE  MemberInv'
  BY <1>6 DEF Register, MemberInv, TypeOK, Goto, hubVars, pubVars, readerVars, chanVars
<1>7. ASSUME NEW c \in Clients, LogTotal(c), crashed' = crashed
      PROVE  MemberInv'
  BY <1>7 DEF LogTotal, MemberInv, TypeOK, Goto, hubVars, pubVars, readerVars, chanVars
<1>8. ASSUME NEW c \in Clients, SendWelcome(c), crashed' = crashed
      PROVE  MemberInv'
  BY <1>8 DEF SendWelcome, MemberInv, TypeOK, Goto, hubVars, pubVars, readerVars, chanVars
<1>9. ASSUME NEW c \in Clients, Receive(c), crashed' = crashed
      PROVE  MemberInv'
  BY <1>9 DEF Receive, MemberInv, TypeOK, Goto, hubVars, pubVars, readerVars, chanVars
<1>10. ASSUME NEW c \in Clients, WriteOk(c), crashed' = crashed
      PROVE  MemberInv'
  BY <1>10 DEF WriteOk, MemberInv, TypeOK, Goto, hubVars, pubVars, readerVars, chanVars
<1>11. ASSUME NEW c \in Clients, WriteFail(c), crashed' = crashed
      PROVE  MemberInv'
  BY <1>11 DEF WriteFail, MemberInv, TypeOK, Goto, hubVars, pubVars, readerVars, chanVars
<1>12. ASSUME NEW c \in Clients, Unregister(c), crashed' = crashed
      PROVE  MemberInv'
  BY <1>12 DEF Unregister, MemberInv, TypeOK, Goto, hubVars, pubVars, readerVars, chanVars
<1>13. ASSUME NEW c \in Clients, Unlink(c), crashed' = crashed
      PROVE  MemberInv'
  BY <1>13 DEF Unlink, MemberInv, TypeOK, Goto, hubVars, pubVars, readerVars, chanVars
<1>14. ASSUME NEW c \in Clients, Cancel(c), crashed' = crashed
      PROVE  MemberInv'
  BY <1>14 DEF Cancel, MemberInv, TypeOK, Goto, hubVars, pubVars, readerVars, chanVars
<1>15. ASSUME NEW c \in Clients, Close(c), crashed' = crashed
      PROVE  MemberInv'
  BY <1>15 DEF Close, MemberInv, TypeOK, Goto, hubVars, pubVars, readerVars, chanVars
<1>16. ASSUME NEW c \in Clients, PeerLeaves(c), crashed' = crashed
      PROVE  MemberInv'
  BY <1>16 DEF PeerLeaves, MemberInv, TypeOK, Goto, hubVars, pubVars, readerVars, chanVars
<1>17. ASSUME NEW c \in Clients, ReaderExit(c), crashed' = crashed
      PROVE  MemberInv'
  BY <1>17 DEF ReaderExit, MemberInv, TypeOK, Goto, hubVars, pubVars, readerVars, chanVars
<1>18. ASSUME NEW c \in Clients, EndTopic(c), crashed' = crashed
      PROVE  MemberInv'
  BY <1>18 DEF EndTopic, MemberInv, TypeOK, Goto, hubVars, pubVars, readerVars, chanVars
<1>19. ASSUME NEW c \in Clients, NEW t \in Topics, BeginTopic(c, t), crashed' = crashed
      PROVE  MemberInv'
  BY <1>19 DEF BeginTopic, MemberInv, TypeOK, Goto, hubVars, pubVars, readerVars, chanVars
<1>20. ASSUME NEW c \in Clients, NEW T \in SUBSET Topics, ReadSubscribe(c, T), crashed' = crashed
      PROVE  MemberInv'
  BY <1>20 DEF ReadSubscribe, MemberInv, TypeOK, Goto, hubVars, pubVars, readerVars, chanVars
<1>21. ASSUME NEW p \in Publishers, NEW c \in Clients, Fatal(p, c)
      PROVE  MemberInv'
  BY <1>21 DEF Fatal, MemberInv, TypeOK, Goto, hubVars, pubVars, readerVars, chanVars
<1>22. CASE UNCHANGED vars
  BY <1>22 DEF MemberInv, TypeOK, Goto, hubVars, pubVars, readerVars, chanVars, vars
<1>23. QED
  BY <1>1, <1>2, <1>3, <1>4, <1>5, <1>6, <1>7, <1>8, <1>9, <1>10, <1>11, <1>12,
     <1>13, <1>14, <1>15, <1>16, <1>17, <1>18, <1>19, <1>20, <1>21, <1>22
  DEF Next, PublisherStep, HandlerStep, ReaderStep

\* cancel and close run after Unlink, in this order.
LEMMA ClosedStep == TypeOK /\ ClosedInv /\ [Next]_vars => ClosedInv'
<1> SUFFICES ASSUME TypeOK, ClosedInv, [Next]_vars PROVE ClosedInv'
  OBVIOUS
<1>1. ASSUME NEW p \in Publishers, NEW t \in Topics \cup {AllTopics}, CallPublish(p, t), crashed' = crashed
      PROVE  ClosedInv'
  BY <1>1 DEF CallPublish, ClosedInv, TypeOK, Goto, hubVars, pubVars, readerVars, chanVars
<1>2. ASSUME NEW p \in Publishers, RLock(p), crashed' = crashed
      PROVE  ClosedInv'
  BY <1>2 DEF RLock, ClosedInv, TypeOK, Goto, hubVars, pubVars, readerVars, chanVars
<1>3. ASSUME NEW p \in Publishers, NEW c \in Clients, Visit(p, c), crashed' = crashed
      PROVE  ClosedInv'
  BY <1>3 DEF Visit, ClosedInv, TypeOK, Goto, hubVars, pubVars, readerVars, chanVars
<1>4. ASSUME NEW p \in Publishers, EndPublish(p), crashed' = crashed
      PROVE  ClosedInv'
  BY <1>4 DEF EndPublish, ClosedInv, TypeOK, Goto, hubVars, pubVars, readerVars, chanVars
<1>5. ASSUME NEW c \in Clients, Accept(c), crashed' = crashed
      PROVE  ClosedInv'
  BY <1>5 DEF Accept, ClosedInv, TypeOK, Goto, hubVars, pubVars, readerVars, chanVars
<1>6. ASSUME NEW c \in Clients, Register(c), crashed' = crashed
      PROVE  ClosedInv'
  BY <1>6 DEF Register, ClosedInv, TypeOK, Goto, hubVars, pubVars, readerVars, chanVars
<1>7. ASSUME NEW c \in Clients, LogTotal(c), crashed' = crashed
      PROVE  ClosedInv'
  BY <1>7 DEF LogTotal, ClosedInv, TypeOK, Goto, hubVars, pubVars, readerVars, chanVars
<1>8. ASSUME NEW c \in Clients, SendWelcome(c), crashed' = crashed
      PROVE  ClosedInv'
  BY <1>8 DEF SendWelcome, ClosedInv, TypeOK, Goto, hubVars, pubVars, readerVars, chanVars
<1>9. ASSUME NEW c \in Clients, Receive(c), crashed' = crashed
      PROVE  ClosedInv'
  BY <1>9 DEF Receive, ClosedInv, TypeOK, Goto, hubVars, pubVars, readerVars, chanVars
<1>10. ASSUME NEW c \in Clients, WriteOk(c), crashed' = crashed
      PROVE  ClosedInv'
  BY <1>10 DEF WriteOk, ClosedInv, TypeOK, Goto, hubVars, pubVars, readerVars, chanVars
<1>11. ASSUME NEW c \in Clients, WriteFail(c), crashed' = crashed
      PROVE  ClosedInv'
  BY <1>11 DEF WriteFail, ClosedInv, TypeOK, Goto, hubVars, pubVars, readerVars, chanVars
<1>12. ASSUME NEW c \in Clients, Unregister(c), crashed' = crashed
      PROVE  ClosedInv'
  BY <1>12 DEF Unregister, ClosedInv, TypeOK, Goto, hubVars, pubVars, readerVars, chanVars
<1>13. ASSUME NEW c \in Clients, Unlink(c), crashed' = crashed
      PROVE  ClosedInv'
  BY <1>13 DEF Unlink, ClosedInv, TypeOK, Goto, hubVars, pubVars, readerVars, chanVars
<1>14. ASSUME NEW c \in Clients, Cancel(c), crashed' = crashed
      PROVE  ClosedInv'
  BY <1>14 DEF Cancel, ClosedInv, TypeOK, Goto, hubVars, pubVars, readerVars, chanVars
<1>15. ASSUME NEW c \in Clients, Close(c), crashed' = crashed
      PROVE  ClosedInv'
  BY <1>15 DEF Close, ClosedInv, TypeOK, Goto, hubVars, pubVars, readerVars, chanVars
<1>16. ASSUME NEW c \in Clients, PeerLeaves(c), crashed' = crashed
      PROVE  ClosedInv'
  BY <1>16 DEF PeerLeaves, ClosedInv, TypeOK, Goto, hubVars, pubVars, readerVars, chanVars
<1>17. ASSUME NEW c \in Clients, ReaderExit(c), crashed' = crashed
      PROVE  ClosedInv'
  BY <1>17 DEF ReaderExit, ClosedInv, TypeOK, Goto, hubVars, pubVars, readerVars, chanVars
<1>18. ASSUME NEW c \in Clients, EndTopic(c), crashed' = crashed
      PROVE  ClosedInv'
  BY <1>18 DEF EndTopic, ClosedInv, TypeOK, Goto, hubVars, pubVars, readerVars, chanVars
<1>19. ASSUME NEW c \in Clients, NEW t \in Topics, BeginTopic(c, t), crashed' = crashed
      PROVE  ClosedInv'
  BY <1>19 DEF BeginTopic, ClosedInv, TypeOK, Goto, hubVars, pubVars, readerVars, chanVars
<1>20. ASSUME NEW c \in Clients, NEW T \in SUBSET Topics, ReadSubscribe(c, T), crashed' = crashed
      PROVE  ClosedInv'
  BY <1>20 DEF ReadSubscribe, ClosedInv, TypeOK, Goto, hubVars, pubVars, readerVars, chanVars
<1>21. ASSUME NEW p \in Publishers, NEW c \in Clients, Fatal(p, c)
      PROVE  ClosedInv'
  BY <1>21 DEF Fatal, ClosedInv, TypeOK, Goto, hubVars, pubVars, readerVars, chanVars
<1>22. CASE UNCHANGED vars
  BY <1>22 DEF ClosedInv, TypeOK, Goto, hubVars, pubVars, readerVars, chanVars, vars
<1>23. QED
  BY <1>1, <1>2, <1>3, <1>4, <1>5, <1>6, <1>7, <1>8, <1>9, <1>10, <1>11, <1>12,
     <1>13, <1>14, <1>15, <1>16, <1>17, <1>18, <1>19, <1>20, <1>21, <1>22
  DEF Next, PublisherStep, HandlerStep, ReaderStep

\* No deletion takes the lock while a range loop runs.
LEMMA IterStep == TypeOK /\ IterInv /\ [Next]_vars => IterInv'
<1> SUFFICES ASSUME TypeOK, IterInv, [Next]_vars PROVE IterInv'
  OBVIOUS
<1>1. ASSUME NEW p \in Publishers, NEW t \in Topics \cup {AllTopics}, CallPublish(p, t), crashed' = crashed
      PROVE  IterInv'
  BY <1>1 DEF CallPublish, IterInv, TypeOK, HasLock, Readers, hubVars, pubVars, readerVars, chanVars
<1>2. ASSUME NEW p \in Publishers, RLock(p), crashed' = crashed
      PROVE  IterInv'
  BY <1>2 DEF RLock, IterInv, TypeOK, HasLock, Readers, hubVars, pubVars, readerVars, chanVars
<1>3. ASSUME NEW p \in Publishers, NEW c \in Clients, Visit(p, c), crashed' = crashed
      PROVE  IterInv'
  BY <1>3 DEF Visit, IterInv, TypeOK, HasLock, Readers, hubVars, pubVars, readerVars, chanVars
<1>4. ASSUME NEW p \in Publishers, EndPublish(p), crashed' = crashed
      PROVE  IterInv'
  BY <1>4 DEF EndPublish, IterInv, TypeOK, HasLock, Readers, hubVars, pubVars, readerVars, chanVars
<1>5. ASSUME NEW c \in Clients, Accept(c), crashed' = crashed
      PROVE  IterInv'
  BY <1>5 DEF Accept, IterInv, TypeOK, HasLock, Readers, hubVars, pubVars, readerVars, chanVars
<1>6. ASSUME NEW c \in Clients, Register(c), crashed' = crashed
      PROVE  IterInv'
  BY <1>6 DEF Register, IterInv, TypeOK, HasLock, Readers, hubVars, pubVars, readerVars, chanVars
<1>7. ASSUME NEW c \in Clients, LogTotal(c), crashed' = crashed
      PROVE  IterInv'
  BY <1>7 DEF LogTotal, IterInv, TypeOK, HasLock, Readers, hubVars, pubVars, readerVars, chanVars
<1>8. ASSUME NEW c \in Clients, SendWelcome(c), crashed' = crashed
      PROVE  IterInv'
  BY <1>8 DEF SendWelcome, IterInv, TypeOK, HasLock, Readers, hubVars, pubVars, readerVars, chanVars
<1>9. ASSUME NEW c \in Clients, Receive(c), crashed' = crashed
      PROVE  IterInv'
  BY <1>9 DEF Receive, IterInv, TypeOK, HasLock, Readers, hubVars, pubVars, readerVars, chanVars
<1>10. ASSUME NEW c \in Clients, WriteOk(c), crashed' = crashed
      PROVE  IterInv'
  BY <1>10 DEF WriteOk, IterInv, TypeOK, HasLock, Readers, hubVars, pubVars, readerVars, chanVars
<1>11. ASSUME NEW c \in Clients, WriteFail(c), crashed' = crashed
      PROVE  IterInv'
  BY <1>11 DEF WriteFail, IterInv, TypeOK, HasLock, Readers, hubVars, pubVars, readerVars, chanVars
<1>12. ASSUME NEW c \in Clients, Unregister(c), crashed' = crashed
      PROVE  IterInv'
  BY <1>12 DEF Unregister, IterInv, TypeOK, HasLock, Readers, hubVars, pubVars, readerVars, chanVars
<1>13. ASSUME NEW c \in Clients, Unlink(c), crashed' = crashed
      PROVE  IterInv'
  BY <1>13 DEF Unlink, IterInv, TypeOK, HasLock, Readers, hubVars, pubVars, readerVars, chanVars
<1>14. ASSUME NEW c \in Clients, Cancel(c), crashed' = crashed
      PROVE  IterInv'
  BY <1>14 DEF Cancel, IterInv, TypeOK, HasLock, Readers, hubVars, pubVars, readerVars, chanVars
<1>15. ASSUME NEW c \in Clients, Close(c), crashed' = crashed
      PROVE  IterInv'
  BY <1>15 DEF Close, IterInv, TypeOK, HasLock, Readers, hubVars, pubVars, readerVars, chanVars
<1>16. ASSUME NEW c \in Clients, PeerLeaves(c), crashed' = crashed
      PROVE  IterInv'
  BY <1>16 DEF PeerLeaves, IterInv, TypeOK, HasLock, Readers, hubVars, pubVars, readerVars, chanVars
<1>17. ASSUME NEW c \in Clients, ReaderExit(c), crashed' = crashed
      PROVE  IterInv'
  BY <1>17 DEF ReaderExit, IterInv, TypeOK, HasLock, Readers, hubVars, pubVars, readerVars, chanVars
<1>18. ASSUME NEW c \in Clients, EndTopic(c), crashed' = crashed
      PROVE  IterInv'
  BY <1>18 DEF EndTopic, IterInv, TypeOK, HasLock, Readers, hubVars, pubVars, readerVars, chanVars
<1>19. ASSUME NEW c \in Clients, NEW t \in Topics, BeginTopic(c, t), crashed' = crashed
      PROVE  IterInv'
  BY <1>19 DEF BeginTopic, IterInv, TypeOK, HasLock, Readers, hubVars, pubVars, readerVars, chanVars
<1>20. ASSUME NEW c \in Clients, NEW T \in SUBSET Topics, ReadSubscribe(c, T), crashed' = crashed
      PROVE  IterInv'
  BY <1>20 DEF ReadSubscribe, IterInv, TypeOK, HasLock, Readers, hubVars, pubVars, readerVars, chanVars
<1>21. ASSUME NEW p \in Publishers, NEW c \in Clients, Fatal(p, c)
      PROVE  IterInv'
  BY <1>21 DEF Fatal, IterInv, TypeOK, HasLock, Readers, hubVars, pubVars, readerVars, chanVars
<1>22. CASE UNCHANGED vars
  BY <1>22 DEF IterInv, TypeOK, HasLock, Readers, hubVars, pubVars, readerVars, chanVars, vars
<1>23. QED
  BY <1>1, <1>2, <1>3, <1>4, <1>5, <1>6, <1>7, <1>8, <1>9, <1>10, <1>11, <1>12,
     <1>13, <1>14, <1>15, <1>16, <1>17, <1>18, <1>19, <1>20, <1>21, <1>22
  DEF Next, PublisherStep, HandlerStep, ReaderStep

\* The invariant holds in every reachable state.
THEOREM Invariance == Spec => []IInv
<1>1. Init => IInv
  <2> SUFFICES ASSUME Init PROVE IInv
    OBVIOUS
  <2>1. TypeOK
    <3>1. {} \in Maybe(Clients) /\ {} \in Maybe(Topics) /\ 0 \in 0..MaxEvents
      BY MaxAssumption DEF Maybe
    <3>2. queue \in [Clients -> Seq(Event)] /\ wire \in [Clients -> Seq(Event \cup {Welcome})]
      BY DEF Init
    <3>3. QED
      BY <3>1, <3>2 DEF Init, TypeOK, HandlerPc
  <2>2. HandInv
    BY MessageAssumption DEF Init, HandInv
  <2>3. QED
    BY <2>1, <2>2 DEF Init, IInv, LockInv, MemberInv, ClosedInv, IterInv
<1>2. IInv /\ [Next]_vars => IInv'
  BY TypeStep, HandStep, LockStep, MemberStep, ClosedStep, IterStep DEF IInv
<1>3. QED
  BY <1>1, <1>2, PTL DEF Spec

\* All values are well-typed.
THEOREM TypeCorrect == Spec => []TypeOK
BY Invariance, PTL DEF IInv

\* No publisher ever has a closed channel ahead of it in its range loop: the client it
\* visits is in the map, and a channel is closed only after its client has left it.
THEOREM SendsAreSafe == Spec => []NoSendOnClosed
<1>1. IInv => NoSendOnClosed
  BY DEF IInv, NoSendOnClosed, IterInv, MemberInv, ClosedInv
<1>2. QED
  BY Invariance, <1>1, PTL

\* writePump runs only while its client is registered, its channel open, its context alive.
THEOREM PumpIsAlone == Spec => []PumpAlone
<1>1. IInv => PumpAlone
  BY DEF IInv, PumpAlone, MemberInv, ClosedInv
<1>2. QED
  BY Invariance, <1>1, PTL

\* The only thing that can stop the process is the map of a client being read by a
\* publisher while readPump is writing to it.
OnlyMapRaceIsFatal == crashed => \E c \in Clients : writing[c] # {}

\* Of the two errors that would stop the process only the unlocked map remains.
THEOREM OnlyMapRaceStops == Spec => []OnlyMapRaceIsFatal
<1>1. Init => OnlyMapRaceIsFatal
  BY DEF Init, OnlyMapRaceIsFatal
<1>2. IInv /\ OnlyMapRaceIsFatal /\ [Next]_vars => OnlyMapRaceIsFatal'
  <2> SUFFICES ASSUME IInv, OnlyMapRaceIsFatal, [Next]_vars PROVE OnlyMapRaceIsFatal'
    OBVIOUS
  <2>1. ASSUME NEW p \in Publishers, NEW c \in Clients, Fatal(p, c)
        PROVE  OnlyMapRaceIsFatal'
    <3>1. ~closed[c]
      BY <2>1 DEF Fatal, IInv, IterInv, MemberInv, ClosedInv
    <3>2. QED
      BY <2>1, <3>1 DEF Fatal, OnlyMapRaceIsFatal, readerVars
  <2>2. CASE ~crashed /\ crashed' = crashed
    BY <2>2 DEF OnlyMapRaceIsFatal
  <2>3. CASE UNCHANGED vars
    BY <2>3 DEF OnlyMapRaceIsFatal, vars, readerVars
  <2>4. QED
    BY <2>1, <2>2, <2>3 DEF Next
<1>3. QED
  BY <1>1, <1>2, Invariance, PTL DEF Spec

-----------------------------------------------------------------------------
(* Why everybody gets the lock: it never comes to rest with somebody       *)
(* waiting, and there is only so much that can come in between.            *)

\* As long as a publisher is in Publish or a handler wants the lock, one of them can go on: a
\* range loop, which nothing holds up, else the writer, else a publisher that waits for RLock.
LockMovesOn ==
    (\E p \in Publishers : pubPc[p] # "idle") \/ writer # {} =>
        \/ \E p \in Readers : todo[p] = {} \/ \E c \in todo[p] : ~closed[c]
        \/ \E c \in Clients : HasLock(c) /\ handler[c] \in {"register", "unlink"}
        \/ \E p \in Publishers : pubPc[p] = "rlock" /\ CanRLock

\* Publishers, writers and peers never wait for each other in a circle (Publish, Register and
\* Unregister in hub.go).
THEOREM LockNeverRests == Spec => []LockMovesOn
<1>1. IInv => LockMovesOn
  <2> SUFFICES ASSUME IInv, (\E p \in Publishers : pubPc[p] # "idle") \/ writer # {}
               PROVE  \/ \E p \in Readers : todo[p] = {} \/ \E c \in todo[p] : ~closed[c]
                      \/ \E c \in Clients : HasLock(c) /\ handler[c] \in {"register", "unlink"}
                      \/ \E p \in Publishers : pubPc[p] = "rlock" /\ CanRLock
    BY DEF LockMovesOn
  <2>1. CASE Readers # {}
    <3>1. PICK p \in Publishers : pubPc[p] = "iterate"
      BY <2>1 DEF Readers
    <3>2. \A c \in todo[p] : ~closed[c]
      BY <3>1 DEF IInv, TypeOK, IterInv, MemberInv, ClosedInv
    <3> QED
      BY <3>1, <3>2 DEF Readers
  <2>2. CASE Readers = {} /\ writer # {}
    <3>1. PICK c \in Clients : writer = {c}
      BY <2>2 DEF IInv, TypeOK, Maybe
    <3> QED
      BY <2>2, <3>1 DEF IInv, LockInv, HasLock
  <2>3. CASE Readers = {} /\ writer = {}
    BY <2>3 DEF IInv, TypeOK, Readers, CanRLock
  <2> QED
    BY <2>1, <2>2, <2>3
<1> QED
  BY Invariance, <1>1, PTL

\* The times the lock will yet be asked for: each handler registers once, unregisters once.
Turns ==
    {<<c, "register">> : c \in {x \in Clients : handler[x] \in {"accept", "register"}}}
    \cup {<<c, "unlink">> : c \in {x \in Clients : handler[x] \notin {"cancel", "close", "done"}}}

\* No turn is added, a writer that lets go of the lock has used up its own, and nobody who
\* comes in meanwhile makes the way of a range loop longer.
WaitsRunOut ==
    [][/\ Turns' \subseteq Turns
       /\ writer # {} /\ writer' # writer => Turns' # Turns
       /\ \A p \in Publishers :
            pubPc[p] = "iterate" /\ pubPc'[p] = "iterate" => todo'[p] \subseteq todo[p]]_vars

\* The turns where a handler stands still, and where one goes from pc to pc2.
LEMMA TurnsStay == ASSUME UNCHANGED handler PROVE Turns' = Turns
  BY DEF Turns

LEMMA TurnsGo ==
  ASSUME TypeOK, NEW c \in Clients, NEW to, handler' = [handler EXCEPT ![c] = to],
         to \in {"accept", "register"} => handler[c] \in {"accept", "register"},
         handler[c] \in {"cancel", "close", "done"} => to \in {"cancel", "close", "done"}
  PROVE  Turns' \subseteq Turns
  BY DEF Turns, TypeOK

LEMMA TurnUsed ==
  ASSUME TypeOK, LockInv, NEW c \in Clients, Register(c) \/ Unlink(c)
  PROVE  Turns' \subseteq Turns /\ Turns' # Turns
<1>1. CASE Register(c)
  <2>1. handler' = [handler EXCEPT ![c] = "log"] /\ handler[c] = "register"
    BY <1>1 DEF Register, Goto
  <2>2. Turns' \subseteq Turns
    BY <2>1, TurnsGo
  <2>3. <<c, "register">> \in Turns /\ <<c, "register">> \notin Turns'
    BY <2>1 DEF Turns, TypeOK
  <2> QED
    BY <2>2, <2>3
<1>2. CASE Unlink(c)
  <2>1. PICK to \in {"cancel", "done"} : handler' = [handler EXCEPT ![c] = to]
    BY <1>2 DEF Unlink, Goto
  <2>2. handler[c] = "unlink"
    BY <1>2 DEF Unlink
  <2>3. Turns' \subseteq Turns
    BY <2>1, <2>2, TurnsGo
  <2>4. <<c, "unlink">> \in Turns /\ <<c, "unlink">> \notin Turns'
    BY <2>1, <2>2 DEF Turns, TypeOK
  <2> QED
    BY <2>3, <2>4
<1> QED
  BY <1>1, <1>2

\* What a handler does without letting go of the lock.
LEMMA TurnKept ==
  ASSUME TypeOK, LockInv, NEW c \in Clients, HandlerStep(c), ~Register(c), ~Unlink(c)
  PROVE  Turns' \subseteq Turns /\ (writer # {} => writer' = writer)
<1>1. PICK to \in HandlerPc :
        /\ handler' = [handler EXCEPT ![c] = to]
        /\ to \in {"accept", "register"} => handler[c] \in {"accept", "register"}
        /\ handler[c] \in {"cancel", "close", "done"} => to \in {"cancel", "close", "done"}
  BY DEF HandlerStep, Accept, LogTotal, SendWelcome, Receive, WriteOk, WriteFail, Unregister,
     Cancel, Close, Goto, HandlerPc
<1>2. writer # {} => writer' = writer
  BY DEF HandlerStep, Accept, LogTotal, SendWelcome, Receive, WriteOk, WriteFail, Unregister,
     Cancel, Close, CanAnnounce, hubVars
<1> QED
  BY <1>1, <1>2, TurnsGo

LEMMA LoopShrinks ==
  ASSUME TypeOK, [Next]_vars, NEW p \in Publishers, pubPc[p] = "iterate", pubPc'[p] = "iterate"
  PROVE  todo'[p] \subseteq todo[p]
<1>1. ASSUME NEW q \in Publishers, RLock(q) PROVE todo'[p] \subseteq todo[p]
  BY <1>1 DEF RLock, TypeOK
<1>2. ASSUME NEW q \in Publishers, NEW c \in Clients, Visit(q, c) PROVE todo'[p] \subseteq todo[p]
  BY <1>2 DEF Visit, TypeOK
<1>3. ASSUME NEW q \in Publishers,
             EndPublish(q) \/ \E t \in Topics \cup {AllTopics} : CallPublish(q, t)
      PROVE  todo' = todo
  BY <1>3 DEF EndPublish, CallPublish
<1>4. ASSUME NEW c \in Clients, HandlerStep(c) PROVE todo' = todo
  BY <1>4 DEF HandlerStep, Accept, Register, LogTotal, SendWelcome, Receive, WriteOk, WriteFail,
     Unregister, Unlink, Cancel, Close, pubVars
<1>5. ASSUME NEW c \in Clients, ReaderStep(c) \/ PeerLeaves(c) PROVE todo' = todo
  BY <1>5 DEF ReaderStep, ReaderExit, EndTopic, BeginTopic, ReadSubscribe, PeerLeaves, pubVars
<1>6. ASSUME NEW q \in Publishers, NEW c \in Clients, Fatal(q, c) PROVE todo' = todo
  BY <1>6 DEF Fatal, pubVars
<1>7. CASE UNCHANGED vars
  BY <1>7 DEF vars, pubVars
<1> QED
  BY <1>1, <1>2, <1>3, <1>4, <1>5, <1>6, <1>7 DEF Next, PublisherStep

\* Only so many writers go before a publisher that waits for the lock, at most two for each
\* connection there is, and only so many clients before a writer: a waiting Publish, Register
\* or Unregister is not overtaken for ever (hub.go).
THEOREM NobodyOvertakenForEver == Spec => WaitsRunOut
<1> DEFINE A == /\ Turns' \subseteq Turns
                /\ writer # {} /\ writer' # writer => Turns' # Turns
                /\ \A p \in Publishers :
                     pubPc[p] = "iterate" /\ pubPc'[p] = "iterate" => todo'[p] \subseteq todo[p]
<1>1. ASSUME IInv, [Next]_vars PROVE A
  <2>1. TypeOK /\ LockInv
    BY <1>1 DEF IInv
  <2>2. ASSUME NEW c \in Clients, Register(c) \/ Unlink(c) PROVE Turns' \subseteq Turns /\ Turns' # Turns
    BY <2>1, <2>2, TurnUsed
  <2>3. ASSUME NEW c \in Clients, HandlerStep(c), ~Register(c), ~Unlink(c)
        PROVE  Turns' \subseteq Turns /\ (writer # {} => writer' = writer)
    BY <2>1, <2>3, TurnKept
  <2>4. ASSUME UNCHANGED <<handler, writer>> PROVE Turns' \subseteq Turns /\ writer' = writer
    BY <2>4, TurnsStay
  <2>5. ASSUME NEW p \in Publishers,
               PublisherStep(p) \/ \E t \in Topics \cup {AllTopics} : CallPublish(p, t)
        PROVE  UNCHANGED <<handler, writer>>
    BY <2>5 DEF PublisherStep, RLock, EndPublish, Visit, CallPublish, hubVars
  <2>6. ASSUME NEW c \in Clients, ReaderStep(c) \/ PeerLeaves(c) PROVE UNCHANGED <<handler, writer>>
    BY <2>6 DEF ReaderStep, ReaderExit, EndTopic, BeginTopic, ReadSubscribe, PeerLeaves, hubVars
  <2>7. ASSUME NEW p \in Publishers, NEW c \in Clients, Fatal(p, c) PROVE UNCHANGED <<handler, writer>>
    BY <2>7 DEF Fatal, hubVars
  <2>8. UNCHANGED vars => UNCHANGED <<handler, writer>>
    BY DEF vars, hubVars
  <2>9. /\ Turns' \subseteq Turns
        /\ writer # {} /\ writer' # writer => Turns' # Turns
    BY <1>1, <2>2, <2>3, <2>4, <2>5, <2>6, <2>7, <2>8 DEF Next
  <2> QED
    BY <1>1, <2>1, <2>9, LoopShrinks
<1> HIDE DEF A
<1>2. IInv /\ [Next]_vars => [A]_vars
  BY <1>1
<1>3. Spec => [][A]_vars
  BY <1>2, Invariance, PTL DEF Spec
<1> QED
  BY <1>3 DEF A, WaitsRunOut
=============================================================================
