------------------------------ MODULE EventFeed ------------------------------
(***************************************************************************)
(* What the event hub promises to publishers and peers, without the lock,  *)
(* the goroutines and the closing of channels by which StreamHub keeps it: *)
(* an event is offered once to each client that is registered when its     *)
(* publication starts and cannot leave before it was offered; it is        *)
(* refused only by a filter, lost only at a full buffer, and what was      *)
(* taken reaches the peer in order, after a welcome, unless the peer has   *)
(* left.                                                                   *)
(***************************************************************************)
EXTENDS Naturals, Sequences

CONSTANTS
    Clients, Publishers, Topics,
    AllTopics,  \* the topic of a broadcast
    Capacity,   \* events a client can have waiting
    MaxEvents,  \* bound: events per publisher
    Welcome, NoEvent

VARIABLES
    members,   \* the registered clients
    event,     \* the event a publisher is publishing, or NoEvent
    open,      \* publishers that have begun to offer their event
    owed,      \* clients a publisher has still to offer it to
    count,     \* events begun so far
    wanted,    \* topics a peer has asked for
    filter,    \* topics that are in effect for a client; none lets everything through
    pending,   \* what a client has taken and its peer has not
    received,  \* what its peer has
    present    \* the clients whose peer has not left

vars == <<members, event, open, owed, count, wanted, filter, pending, received, present>>

Init ==
    /\ members = {} /\ open = {}
    /\ event = [p \in Publishers |-> NoEvent]
    /\ owed = [p \in Publishers |-> {}]
    /\ count = [p \in Publishers |-> 0]
    /\ wanted = [c \in Clients |-> {}]
    /\ filter = [c \in Clients |-> {}]
    /\ pending = [c \in Clients |-> <<>>]
    /\ received = [c \in Clients |-> <<>>]
    /\ present = Clients

-----------------------------------------------------------------------------
\* A publisher begins an event, ...
Begin(p, t) ==
    /\ event[p] = NoEvent /\ count[p] < MaxEvents
    /\ count' = [count EXCEPT ![p] = @ + 1]
    /\ event' = [event EXCEPT ![p] = [pub |-> p, seq |-> count[p] + 1, topic |-> t]]
    /\ UNCHANGED <<members, open, owed, wanted, filter, pending, received, present>>

\* ... owes it to whoever is registered, ...
Open(p) ==
    /\ event[p] # NoEvent /\ p \notin open
    /\ open' = open \cup {p}
    /\ owed' = [owed EXCEPT ![p] = members]
    /\ UNCHANGED <<members, event, count, wanted, filter, pending, received, present>>

\* While a request is being applied, the old filter or the new one may be in effect.
MayTake(c, t) == t = AllTopics \/ filter[c] = {} \/ t \in wanted[c]
MayRefuse(c, t) == t # AllTopics /\ wanted[c] # {} /\ t \notin filter[c]

\* ... offers it to each of them once, ...
Offer(p, c) ==
    /\ p \in open /\ c \in owed[p]
    /\ owed' = [owed EXCEPT ![p] = @ \ {c}]
    /\ \/ /\ MayTake(c, event[p].topic) /\ Len(pending[c]) <= Capacity
          /\ pending' = [pending EXCEPT ![c] = Append(@, event[p])]
       \/ /\ MayTake(c, event[p].topic) /\ Len(pending[c]) >= Capacity
          /\ UNCHANGED pending
       \/ MayRefuse(c, event[p].topic) /\ UNCHANGED pending
    /\ UNCHANGED <<members, event, open, count, wanted, filter, received, present>>

\* ... and is done when it owes it to nobody.
Finish(p) ==
    /\ p \in open /\ owed[p] = {}
    /\ open' = open \ {p}
    /\ event' = [event EXCEPT ![p] = NoEvent]
    /\ UNCHANGED <<members, owed, count, wanted, filter, pending, received, present>>

Join(c) ==
    /\ members' = members \cup {c}
    /\ UNCHANGED <<event, open, owed, count, wanted, filter, pending, received, present>>

\* Nobody leaves an event that is being offered.
Leave(c) ==
    /\ \A p \in Publishers : c \notin owed[p]
    /\ members' = members \ {c}
    /\ UNCHANGED <<event, open, owed, count, wanted, filter, pending, received, present>>

Greet(c) ==
    /\ c \in members /\ received[c] = <<>> /\ c \in present
    /\ received' = [received EXCEPT ![c] = <<Welcome>>]
    /\ UNCHANGED <<members, event, open, owed, count, wanted, filter, pending, present>>

\* The oldest event reaches a peer that is there and was welcomed, ...
Deliver(c) ==
    /\ pending[c] # <<>> /\ c \in present /\ received[c] # <<>>
    /\ received' = [received EXCEPT ![c] = Append(@, Head(pending[c]))]
    /\ pending' = [pending EXCEPT ![c] = Tail(@)]
    /\ UNCHANGED <<members, event, open, owed, count, wanted, filter, present>>

\* ... and is thrown away only if the peer has left.
Discard(c) ==
    /\ pending[c] # <<>> /\ c \notin present
    /\ pending' = [pending EXCEPT ![c] = Tail(@)]
    /\ UNCHANGED <<members, event, open, owed, count, wanted, filter, received, present>>

PeerLeaves(c) ==
    /\ c \in present /\ present' = present \ {c}
    /\ UNCHANGED <<members, event, open, owed, count, wanted, filter, pending, received>>

\* A peer asks for topics ...
Ask(c, T) ==
    /\ wanted' = [wanted EXCEPT ![c] = @ \cup T]
    /\ UNCHANGED <<members, event, open, owed, count, filter, pending, received, present>>

\* ... which come into effect one by one.
Apply(c, t) ==
    /\ t \in wanted[c] /\ filter' = [filter EXCEPT ![c] = @ \cup {t}]
    /\ UNCHANGED <<members, event, open, owed, count, wanted, pending, received, present>>

Next ==
    \/ \E p \in Publishers :
        \/ \E t \in Topics \cup {AllTopics} : Begin(p, t)
        \/ Open(p) \/ Finish(p)
        \/ \E c \in Clients : Offer(p, c)
    \/ \E c \in Clients :
        \/ Join(c) \/ Leave(c) \/ Greet(c) \/ Deliver(c) \/ Discard(c) \/ PeerLeaves(c)
        \/ \E T \in SUBSET Topics : Ask(c, T)
        \/ \E t \in Topics : Apply(c, t)

Spec == Init /\ [][Next]_vars
=============================================================================
