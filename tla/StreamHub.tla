------------------------------ MODULE StreamHub ------------------------------
(***************************************************************************)
(* The event fan-out of internal/stream/hub.go together with its only     *)
(* users: the WebSocket handler, readPump and writePump of                *)
(* internal/server/server.go, and the goroutines that call Publish (the    *)
(* plugin bridges, the collection scheduler, the resource watchers).       *)
(*                                                                         *)
(* The interleaving is that of the Go code.  The RWMutex is kept: Publish  *)
(* holds the read lock during the whole iteration, a writer that waits for *)
(* the readers to drain keeps new readers out.  close(send) and cancel()   *)
(* happen after the lock is released, and Subscribe writes the topic map   *)
(* of a client without any lock.                                           *)
(***************************************************************************)
EXTENDS Naturals, Sequences, Functions

CONSTANTS
    Clients,     \* WebSocket connections; each is accepted at most once
    Publishers,  \* goroutines that call Hub.Publish or Hub.Broadcast
    Topics,      \* the topics of pkg/event
    AllTopics,   \* stands for the ignored topic of an event given to Broadcast
    BufSize,     \* capacity of Client.send (256 in the code)
    MaxEvents,   \* bound: events per publisher
    Welcome,     \* the "connected" event written by handleStream
    NoEvent      \* no event in hand

ASSUME BufAssumption == BufSize \in Nat \ {0}
ASSUME MaxAssumption == MaxEvents \in Nat
ASSUME TopicAssumption == AllTopics \notin Topics

Event == [pub : Publishers, seq : 1..MaxEvents, topic : Topics \cup {AllTopics}]

ASSUME MessageAssumption ==
    Welcome \notin Event /\ NoEvent \notin Event /\ Welcome # NoEvent

VARIABLES
    hubClients,  \* Hub.clients
    writer,      \* the handler that has called mu.Lock: {} or a singleton
    pubPc,       \* publisher: "idle", "rlock" or "iterate"
    cur,         \* the event a publisher is publishing
    todo,        \* clients its range loop has still to visit
    published,   \* events begun so far by each publisher
    handler,     \* program counter of handleStream, writePump and Unregister
    held,        \* message writePump took from send and has not yet written
    reader,      \* readPump: "off", "read", "subscribe" or "exited"
    asking,      \* topics of the subscribe request being applied
    writing,     \* topic whose map write is in progress: {} or a singleton
    asked,       \* history: topics the peer has asked for
    topics,      \* Client.topics
    queue,       \* contents of Client.send
    closed,      \* close(send) was executed
    cancelled,   \* Client.ctx is cancelled
    conn,        \* "none", "open", "gone" (peer left), "closed" (CloseNow)
    wire,        \* history: messages that reached the peer
    dropped,     \* history: events dropped because send was full
    crashed      \* the Go runtime stopped the process

hubVars == <<hubClients, writer>>
pubVars == <<pubPc, cur, todo, published>>
readerVars == <<reader, asking, writing, asked, topics>>
chanVars == <<queue, closed, cancelled, dropped>>
vars == <<hubVars, pubVars, handler, held, readerVars, chanVars, conn, wire, crashed>>

HandlerPc == {"accept", "register", "log", "welcome", "pump", "write",
              "unregister", "unlink", "cancel", "close", "done"}

Init ==
    /\ hubClients = {} /\ writer = {}
    /\ pubPc = [p \in Publishers |-> "idle"]
    /\ cur = [p \in Publishers |-> NoEvent]
    /\ todo = [p \in Publishers |-> {}]
    /\ published = [p \in Publishers |-> 0]
    /\ handler = [c \in Clients |-> "accept"]
    /\ held = [c \in Clients |-> NoEvent]
    /\ reader = [c \in Clients |-> "off"]
    /\ asking = [c \in Clients |-> {}]
    /\ writing = [c \in Clients |-> {}]
    /\ asked = [c \in Clients |-> {}]
    /\ topics = [c \in Clients |-> {}]
    /\ queue = [c \in Clients |-> <<>>]
    /\ closed = [c \in Clients |-> FALSE]
    /\ cancelled = [c \in Clients |-> FALSE]
    /\ conn = [c \in Clients |-> "none"]
    /\ wire = [c \in Clients |-> <<>>]
    /\ dropped = [c \in Clients |-> {}]
    /\ crashed = FALSE

-----------------------------------------------------------------------------
(* sync.RWMutex: a writer announces itself, then waits for the readers.    *)
(* (The definitions named Bad... are used by no action: each is a plausible *)
(* slip in the code of the definition it precedes, on which some property  *)
(* must fail.)                                                             *)

Readers == {p \in Publishers : pubPc[p] = "iterate"}
CanRLock == writer = {}
CanAnnounce == writer = {}
HasLock(c) == writer = {c} /\ Readers = {}

-----------------------------------------------------------------------------
(* Publishers.                                                             *)

\* Publish(e) or, when t is AllTopics, Broadcast(e): marshalled, the lock wanted.
CallPublish(p, t) ==
    /\ pubPc[p] = "idle" /\ published[p] < MaxEvents
    /\ published' = [published EXCEPT ![p] = @ + 1]
    /\ cur' = [cur EXCEPT ![p] = [pub |-> p, seq |-> published[p] + 1, topic |-> t]]
    /\ pubPc' = [pubPc EXCEPT ![p] = "rlock"]
    /\ UNCHANGED <<hubVars, todo, handler, held, readerVars, chanVars, conn, wire>>

\* mu.RLock; the range loop sees the map as it is while the lock is held.
RLock(p) ==
    /\ pubPc[p] = "rlock" /\ CanRLock
    /\ todo' = [todo EXCEPT ![p] = hubClients]
    /\ pubPc' = [pubPc EXCEPT ![p] = "iterate"]
    /\ UNCHANGED <<hubVars, cur, published, handler, held, readerVars, chanVars, conn, wire>>

\* subscribedTo, for a given content of the topic map.
BadEmptyFilter(filter, t) == t \in filter  \* no filter taken for no topic
BadNoFilter(filter, t) == TRUE  \* the filter is never applied
SubscribedTo(filter, t) == filter = {} \/ t \in filter

\* What subscribedTo may answer: during an unlocked map write, the old or the new map.
MayWant(c, t) == \/ t = AllTopics
                 \/ SubscribedTo(topics[c], t)
                 \/ SubscribedTo(topics[c] \cup writing[c], t)
MayRefuse(c, t) == /\ t # AllTopics
                   /\ \/ ~SubscribedTo(topics[c], t)
                      \/ ~SubscribedTo(topics[c] \cup writing[c], t)

\* The non-blocking send: enqueue, or drop when the buffer is full.
TrySend(c, e) ==
    IF Len(queue[c]) < BufSize
      THEN /\ queue' = [queue EXCEPT ![c] = Append(@, e)]
           /\ UNCHANGED dropped
      ELSE /\ dropped' = [dropped EXCEPT ![c] = @ \cup {e}]
           /\ UNCHANGED queue

\* One round of the range loop.
BadVisit(p, c) ==  \* a full buffer is tried again instead of dropping the event
    /\ pubPc[p] = "iterate" /\ c \in todo[p] /\ ~closed[c]
    /\ todo' = [todo EXCEPT ![p] = IF Len(queue[c]) < BufSize THEN @ \ {c} ELSE @]
    /\ MayWant(c, cur[p].topic) /\ TrySend(c, cur[p])
    /\ UNCHANGED <<hubVars, pubPc, cur, published, handler, held, readerVars,
                   closed, cancelled, conn, wire>>

Visit(p, c) ==
    /\ pubPc[p] = "iterate" /\ c \in todo[p] /\ ~closed[c]
    /\ todo' = [todo EXCEPT ![p] = @ \ {c}]
    /\ \/ MayWant(c, cur[p].topic) /\ TrySend(c, cur[p])
       \/ MayRefuse(c, cur[p].topic) /\ UNCHANGED <<queue, dropped>>
    /\ UNCHANGED <<hubVars, pubPc, cur, published, handler, held, readerVars,
                   closed, cancelled, conn, wire>>

\* "concurrent map read and map write", or a send on a closed channel.
Fatal(p, c) ==
    /\ pubPc[p] = "iterate" /\ c \in todo[p]
    /\ closed[c] \/ (writing[c] # {} /\ cur[p].topic # AllTopics)
    /\ crashed' = TRUE
    /\ UNCHANGED <<hubVars, pubVars, handler, held, readerVars, chanVars, conn, wire>>

\* The loop is over and the deferred RUnlock runs.
EndPublish(p) ==
    /\ pubPc[p] = "iterate" /\ todo[p] = {}
    /\ pubPc' = [pubPc EXCEPT ![p] = "idle"]
    /\ cur' = [cur EXCEPT ![p] = NoEvent]
    /\ UNCHANGED <<hubVars, todo, published, handler, held, readerVars, chanVars, conn, wire>>

-----------------------------------------------------------------------------
(* handleStream, writePump, Unregister: one goroutine per connection.      *)

Goto(c, pc) == handler' = [handler EXCEPT ![c] = pc]

\* websocket.Accept succeeded; Register builds the client and calls mu.Lock.
Accept(c) ==
    /\ handler[c] = "accept" /\ CanAnnounce
    /\ conn' = [conn EXCEPT ![c] = "open"]
    /\ writer' = {c}
    /\ Goto(c, "register")
    /\ UNCHANGED <<hubClients, pubVars, held, readerVars, chanVars, wire>>

\* The insertion under the lock, and Unlock.
BadRegister(c) ==  \* the pump starts without the welcome
    /\ handler[c] = "register" /\ HasLock(c)
    /\ hubClients' = hubClients \cup {c}
    /\ writer' = {}
    /\ Goto(c, "pump")
    /\ UNCHANGED <<pubVars, held, readerVars, chanVars, conn, wire>>

Register(c) ==
    /\ handler[c] = "register" /\ HasLock(c)
    /\ hubClients' = hubClients \cup {c}
    /\ writer' = {}
    /\ Goto(c, "log")
    /\ UNCHANGED <<pubVars, held, readerVars, chanVars, conn, wire>>

\* Len() of the log line takes the read lock, for an instant.
LogTotal(c) ==
    /\ handler[c] = "log" /\ CanRLock
    /\ Goto(c, "welcome")
    /\ UNCHANGED <<hubVars, pubVars, held, readerVars, chanVars, conn, wire>>

\* Conn().Write as the peer sees it: it arrives only while the peer is there.
Deliver(c, m) ==
    wire' = IF conn[c] = "open" THEN [wire EXCEPT ![c] = Append(@, m)] ELSE wire

\* The welcome message is written (its error ignored), readPump starts and writePump is
\* entered.
BadSendWelcome(c) ==  \* the wrong message is written
    /\ handler[c] = "welcome"
    /\ Deliver(c, held[c])
    /\ reader' = [reader EXCEPT ![c] = "read"]
    /\ Goto(c, "pump")
    /\ UNCHANGED <<hubVars, pubVars, held, asking, writing, asked, topics, chanVars, conn>>

SendWelcome(c) ==
    /\ handler[c] = "welcome"
    /\ Deliver(c, Welcome)
    /\ reader' = [reader EXCEPT ![c] = "read"]
    /\ Goto(c, "pump")
    /\ UNCHANGED <<hubVars, pubVars, held, asking, writing, asked, topics, chanVars, conn>>

\* case msg, ok := <-c.Send() with a message.  The other two ways out of writePump,
\* a closed channel and a done context, are never taken (PumpAlone below): only this
\* goroutine unregisters the client, and nothing cancels the context of a hijacked
\* request before its handler returns.
BadReceive(c) ==  \* the message stays in the buffer
    /\ handler[c] = "pump" /\ queue[c] # <<>>
    /\ held' = [held EXCEPT ![c] = Head(queue[c])]
    /\ Goto(c, "write")
    /\ UNCHANGED <<hubVars, pubVars, readerVars, chanVars, conn, wire>>

Receive(c) ==
    /\ handler[c] = "pump" /\ queue[c] # <<>>
    /\ held' = [held EXCEPT ![c] = Head(queue[c])]
    /\ queue' = [queue EXCEPT ![c] = Tail(@)]
    /\ Goto(c, "write")
    /\ UNCHANGED <<hubVars, pubVars, readerVars, closed, cancelled, dropped, conn, wire>>

\* Conn().Write succeeds; after the peer has left it may still, into the void.
WriteOk(c) ==
    /\ handler[c] = "write" /\ conn[c] # "closed"
    /\ Deliver(c, held[c])
    /\ held' = [held EXCEPT ![c] = NoEvent]
    /\ Goto(c, "pump")
    /\ UNCHANGED <<hubVars, pubVars, readerVars, chanVars, conn>>

\* Conn().Write fails: writePump returns, and the deferred Unregister begins.
WriteFail(c) ==
    /\ handler[c] = "write" /\ conn[c] # "open"
    /\ held' = [held EXCEPT ![c] = NoEvent]
    /\ Goto(c, "unregister")
    /\ UNCHANGED <<hubVars, pubVars, readerVars, chanVars, conn, wire>>

\* Unregister calls mu.Lock.
Unregister(c) ==
    /\ handler[c] = "unregister" /\ CanAnnounce
    /\ writer' = {c}
    /\ Goto(c, "unlink")
    /\ UNCHANGED <<hubClients, pubVars, held, readerVars, chanVars, conn, wire>>

\* The deletion under the lock; a client that was not there is left alone.
BadUnlink(c) ==  \* the readers are not kept out
    /\ handler[c] = "unlink" /\ writer = {c}
    /\ hubClients' = hubClients \ {c}
    /\ writer' = {}
    /\ Goto(c, IF c \in hubClients THEN "cancel" ELSE "done")
    /\ UNCHANGED <<pubVars, held, readerVars, chanVars, conn, wire>>

Unlink(c) ==
    /\ handler[c] = "unlink" /\ HasLock(c)
    /\ hubClients' = hubClients \ {c}
    /\ writer' = {}
    /\ Goto(c, IF c \in hubClients THEN "cancel" ELSE "done")
    /\ UNCHANGED <<pubVars, held, readerVars, chanVars, conn, wire>>

\* c.cancel(), outside the lock.
Cancel(c) ==
    /\ handler[c] = "cancel"
    /\ cancelled' = [cancelled EXCEPT ![c] = TRUE]
    /\ Goto(c, "close")
    /\ UNCHANGED <<hubVars, pubVars, held, readerVars, queue, closed, dropped, conn, wire>>

\* close(c.send), once, outside the lock.  The log line that follows reads Len() under
\* the lock, but nothing comes after it: the goroutine is done here.
Close(c) ==
    /\ handler[c] = "close"
    /\ closed' = [closed EXCEPT ![c] = TRUE]
    /\ Goto(c, "done")
    /\ UNCHANGED <<hubVars, pubVars, held, readerVars, queue, cancelled, dropped, conn, wire>>

-----------------------------------------------------------------------------
(* The peer and readPump.                                                  *)

PeerLeaves(c) ==
    /\ conn[c] = "open"
    /\ conn' = [conn EXCEPT ![c] = "gone"]
    /\ UNCHANGED <<hubVars, pubVars, handler, held, readerVars, chanVars, wire>>

\* A subscribe request arrives.  Bound: a peer asks for a topic once.
ReadSubscribe(c, T) ==
    /\ reader[c] = "read" /\ conn[c] = "open" /\ ~cancelled[c]
    /\ T \cap asked[c] = {}
    /\ asking' = [asking EXCEPT ![c] = T]
    /\ asked' = [asked EXCEPT ![c] = @ \cup T]
    /\ reader' = [reader EXCEPT ![c] = "subscribe"]
    /\ UNCHANGED <<hubVars, pubVars, handler, held, writing, topics, chanVars, conn, wire>>

\* Subscribe: c.topics[t] = struct{}{} begins, without a lock ...
BeginTopic(c, t) ==
    /\ reader[c] = "subscribe" /\ writing[c] = {} /\ t \in asking[c]
    /\ writing' = [writing EXCEPT ![c] = {t}]
    /\ asking' = [asking EXCEPT ![c] = @ \ {t}]
    /\ UNCHANGED <<hubVars, pubVars, handler, held, reader, asked, topics, chanVars, conn, wire>>

\* ... and is complete; after the last topic readPump reads again.
EndTopic(c) ==
    /\ reader[c] = "subscribe" /\ writing[c] # {}
    /\ topics' = [topics EXCEPT ![c] = @ \cup writing[c]]
    /\ writing' = [writing EXCEPT ![c] = {}]
    /\ reader' = [reader EXCEPT ![c] = IF asking[c] = {} THEN "read" ELSE @]
    /\ UNCHANGED <<hubVars, pubVars, handler, held, asking, asked, chanVars, conn, wire>>

\* Read fails because the peer left or the context is cancelled: CloseNow.
BadReaderExit(c) ==  \* no CloseNow
    /\ reader[c] = "read" /\ (conn[c] = "gone" \/ cancelled[c])
    /\ reader' = [reader EXCEPT ![c] = "exited"]
    /\ UNCHANGED <<hubVars, pubVars, handler, held, asking, writing, asked, topics,
                   chanVars, conn, wire>>

BadReaderCancels(c) ==  \* readPump cancels and closes on its own
    /\ reader[c] = "read" /\ (conn[c] = "gone" \/ cancelled[c])
    /\ reader' = [reader EXCEPT ![c] = "exited"]
    /\ conn' = [conn EXCEPT ![c] = "closed"]
    /\ cancelled' = [cancelled EXCEPT ![c] = TRUE]
    /\ UNCHANGED <<hubVars, pubVars, handler, held, asking, writing, asked, topics,
                   queue, closed, dropped, wire>>

ReaderExit(c) ==
    /\ reader[c] = "read" /\ (conn[c] = "gone" \/ cancelled[c])
    /\ reader' = [reader EXCEPT ![c] = "exited"]
    /\ conn' = [conn EXCEPT ![c] = "closed"]
    /\ UNCHANGED <<hubVars, pubVars, handler, held, asking, writing, asked, topics,
                   chanVars, wire>>

-----------------------------------------------------------------------------

PublisherStep(p) ==
    \/ RLock(p)
    \/ EndPublish(p)
    \/ \E c \in Clients : Visit(p, c)

HandlerStep(c) ==
    \/ Accept(c) \/ Register(c) \/ LogTotal(c) \/ SendWelcome(c)
    \/ Receive(c) \/ WriteOk(c) \/ WriteFail(c)
    \/ Unregister(c) \/ Unlink(c) \/ Cancel(c) \/ Close(c)

ReaderStep(c) ==
    \/ ReaderExit(c) \/ EndTopic(c)
    \/ \E t \in Topics : BeginTopic(c, t)
    \/ \E T \in SUBSET Topics \ {{}} : ReadSubscribe(c, T)

\* Everything is over, or the connections that remain wait for the next event.
Quiescent ==
    \/ crashed
    \/ /\ \A p \in Publishers : pubPc[p] = "idle" /\ published[p] = MaxEvents
       /\ \A c \in Clients : /\ conn[c] = "closed"
                             /\ handler[c] = "pump" => queue[c] = <<>>
                             /\ handler[c] \in {"pump", "done"}

Next ==
    \/ /\ ~crashed
       /\ \/ /\ crashed' = crashed
             /\ \/ \E p \in Publishers : \/ PublisherStep(p)
                                         \/ \E t \in Topics \cup {AllTopics} : CallPublish(p, t)
                \/ \E c \in Clients : HandlerStep(c) \/ ReaderStep(c) \/ PeerLeaves(c)
          \/ \E p \in Publishers, c \in Clients : Fatal(p, c)
    \/ Quiescent /\ UNCHANGED vars

Spec == Init /\ [][Next]_vars

(***************************************************************************)
(* Fairness.  Goroutines that can run do run: publishers inside Publish,   *)
(* the holder of the lock, readPump after a read error, writePump and      *)
(* Unregister.  Nothing is assumed of a peer or of the network (WriteOk),  *)
(* nor of the arrival of events and requests.                              *)
(***************************************************************************)
LiveSpec ==
    /\ Spec
    /\ \A p \in Publishers : WF_vars(~crashed /\ crashed' = crashed /\ PublisherStep(p))
    /\ \A c \in Clients :
        /\ WF_vars(~crashed /\ crashed' = crashed
                     /\ (Register(c) \/ LogTotal(c) \/ SendWelcome(c) \/ Unlink(c)))
        /\ WF_vars(~crashed /\ crashed' = crashed
                     /\ (Receive(c) \/ WriteFail(c) \/ Unregister(c) \/ Cancel(c) \/ Close(c)))
        /\ WF_vars(~crashed /\ crashed' = crashed
                     /\ (ReaderExit(c) \/ EndTopic(c) \/ \E t \in Topics : BeginTopic(c, t)))

-----------------------------------------------------------------------------
(* Properties.                                                             *)

Maybe(S) == {{}} \cup {{x} : x \in S}

\* Every variable has the values its Go counterpart can hold.
TypeOK ==
    /\ hubClients \subseteq Clients
    /\ writer \in Maybe(Clients)
    /\ pubPc \in [Publishers -> {"idle", "rlock", "iterate"}]
    /\ cur \in [Publishers -> Event \cup {NoEvent}]
    /\ todo \in [Publishers -> SUBSET Clients]
    /\ published \in [Publishers -> 0..MaxEvents]
    /\ handler \in [Clients -> HandlerPc]
    /\ held \in [Clients -> Event \cup {NoEvent}]
    /\ reader \in [Clients -> {"off", "read", "subscribe", "exited"}]
    /\ asking \in [Clients -> SUBSET Topics]
    /\ writing \in [Clients -> Maybe(Topics)]
    /\ asked \in [Clients -> SUBSET Topics]
    /\ topics \in [Clients -> SUBSET Topics]
    /\ queue \in [Clients -> Seq(Event)]
    /\ closed \in [Clients -> BOOLEAN]
    /\ cancelled \in [Clients -> BOOLEAN]
    /\ conn \in [Clients -> {"none", "open", "gone", "closed"}]
    /\ wire \in [Clients -> Seq(Event \cup {Welcome})]
    /\ dropped \in [Clients -> SUBSET Event]
    /\ crashed \in BOOLEAN

\* Unregister closes send after it has released the lock, and yet no range loop of a
\* publisher can still have that client ahead of it: no send on a closed channel.
NoSendOnClosed ==
    \A p \in Publishers, c \in Clients :
        pubPc[p] = "iterate" /\ c \in todo[p] => ~closed[c]

\* While writePump runs, its channel is open and its context alive: a client is
\* never unregistered behind the back of its handler.
PumpAlone ==
    \A c \in Clients :
        handler[c] \in {"log", "welcome", "pump", "write"} =>
            c \in hubClients /\ ~closed[c] /\ ~cancelled[c]

\* A client can be sent events from the moment Register returns, before its welcome
\* is written; still a peer that reads anything reads the welcome first, and once.
WelcomeFirst ==
    \A c \in Clients : \A i \in DOMAIN wire[c] : wire[c][i] = Welcome <=> i = 1

\* What a client was sent, in order: at the peer, in writePump's hand, in the buffer.
Hand(c) == IF held[c] = NoEvent THEN <<>> ELSE <<held[c]>>
Stream(c) == wire[c] \o Hand(c) \o queue[c]

\* There is no order between publishers, but the events of one publisher reach every
\* client in the order they were published and at most once, losses included.
Ordered(s) ==
    \A i, j \in DOMAIN s :
        /\ i < j /\ s[i] # Welcome /\ s[j] # Welcome
        /\ s[i].pub = s[j].pub
        => s[i].seq < s[j].seq

PublisherOrder == \A c \in Clients : Ordered(Stream(c))

\* A client the range loop has passed, that never subscribed and whose peer is there,
\* has the event, unless its buffer was full.
NothingLost ==
    \A p \in Publishers, c \in Clients :
        /\ pubPc[p] = "iterate" /\ c \in hubClients \ todo[p]
        /\ conn[c] = "open" /\ asked[c] = {}
        => cur[p] \in Range(Stream(c)) \cup dropped[c]

\* What a client has taken and its peer has not; the clients whose peer has not left.
Pending == [c \in Clients |-> Hand(c) \o queue[c]]
Present == {c \in Clients : conn[c] \in {"none", "open"}}

Feed == INSTANCE EventFeed WITH
    Capacity <- BufSize,
    members <- hubClients,
    event <- cur,
    open <- Readers,
    owed <- todo,
    count <- published,
    wanted <- asked,
    filter <- topics,
    pending <- Pending,
    received <- wire,
    present <- Present

\* The hub does what EventFeed promises: the lock, the two halves of a map write and the
\* steps of Unregister are invisible, and no subscription in progress lets a topic
\* through that was not asked for.
ImplementsFeed == Feed!Spec

\* A Publish that has begun returns although peers stall and writers queue for the
\* lock: a slow client holds back neither other clients nor the publisher.
PublishReturns ==
    \A p \in Publishers : (pubPc[p] # "idle") ~> (pubPc[p] = "idle" \/ crashed)

\* readPump notices that the peer has left and closes the connection, and from then on
\* an event in the buffer or in writePump's hand makes the hub forget the client.
\* (Without such an event the client stays registered: nobody cancels its context.)
DeadClientReaped ==
    \A c \in Clients :
        /\ (conn[c] = "gone") ~> (conn[c] = "closed" \/ crashed)
        /\ (conn[c] = "closed" /\ (queue[c] # <<>> \/ held[c] # NoEvent))
              ~> (c \notin hubClients \/ crashed)

=============================================================================
