--------------------------- MODULE PluginLifecycle ---------------------------
(***************************************************************************)
(* The life of the compiled-in plugins: main registers and initializes     *)
(* them, each runs a poll loop and has its events bridged to the hub, a    *)
(* signal cancels the context, ShutdownAll closes the event channels and   *)
(* the process ends (cmd/finguard/main.go, internal/plugin/manager.go,     *)
(* plugins/budgets/plugin.go, plugins/costbreakdown/plugin.go).            *)
(*                                                                         *)
(* The goroutines are main, one poll loop and one bridge per plugin.       *)
(* Shutdown closes a channel a poll loop may be about to send on.          *)
(***************************************************************************)
EXTENDS Naturals, Sequences

CONSTANTS
    Plugins,     \* the registered plugins
    EventFirst,  \* those that send an event before storing the result (budgets)
    CanFail,     \* those whose Initialize may return an error
    EventCap,    \* capacity of Plugin.events (100 in the code)
    Items,       \* how many budgets one check goes through
    MaxChecks,   \* bound: checks whose fetch succeeds, per plugin
    None         \* no event in hand

ASSUME PluginAssumption == EventFirst \subseteq Plugins /\ CanFail \subseteq Plugins
ASSUME SizeAssumption == EventCap \in Nat \ {0} /\ Items \in Nat /\ MaxChecks \in Nat

\* An event is what it announces: a finding of a check.
Event == [check : 1..MaxChecks, item : 0..Items]
ASSUME NoneAssumption == None \notin Event

VARIABLES
    main,        \* program counter of main
    registered,  \* Manager.plugins
    left,        \* plugins the loop of InitializeAll or ShutdownAll has still to visit
    signalled,   \* the context of main, and of all it derives, is cancelled
    poll,        \* program counter of each poll loop
    item,        \* budgets still to look at in the current check
    checks,      \* checks that got their costs so far
    stored,      \* the check whose result the status endpoint returns; 0: none yet
    events,      \* contents of Plugin.events
    closed,      \* Shutdown has closed it
    bridge,      \* program counter of bridgeEvents
    hand,        \* the event bridgeEvents is publishing
    sent,        \* history: events that got into the channel
    published,   \* history: events given to Hub.Publish
    panicked     \* a send on a closed channel

mainVars == <<main, registered, left, signalled>>
pollVars == <<poll, item, checks, stored>>
bridgeVars == <<bridge, hand, published>>
chanVars == <<events, closed, sent>>
vars == <<mainVars, pollVars, bridgeVars, chanVars, panicked>>

MainPc == {"register", "init", "run", "shutdown", "server", "stopped", "failed"}
PollPc == {"off", "fetch", "scan", "store", "send", "wait", "exited"}
BridgePc == {"off", "select", "publish", "exited"}

Init ==
    /\ main = "register" /\ registered = {} /\ left = {} /\ signalled = FALSE
    /\ poll = [p \in Plugins |-> "off"]
    /\ item = [p \in Plugins |-> 0]
    /\ checks = [p \in Plugins |-> 0]
    /\ stored = [p \in Plugins |-> 0]
    /\ events = [p \in Plugins |-> <<>>]
    /\ closed = [p \in Plugins |-> FALSE]
    /\ bridge = [p \in Plugins |-> "off"]
    /\ hand = [p \in Plugins |-> None]
    /\ sent = [p \in Plugins |-> <<>>]
    /\ published = [p \in Plugins |-> <<>>]
    /\ panicked = FALSE

-----------------------------------------------------------------------------
(* main.  The names starting with Bad are used by no action: each is a     *)
(* plausible slip in the definition it precedes.                           *)

\* Manager.Register; a name is taken once.
Register(p) ==
    /\ main = "register" /\ p \notin registered
    /\ registered' = registered \cup {p}
    /\ UNCHANGED <<main, left, signalled, pollVars, bridgeVars, chanVars, panicked>>

\* All plugins are registered, the context exists, InitializeAll begins.
BeginInitialize ==
    /\ main = "register" /\ registered = Plugins
    /\ main' = "init" /\ left' = registered
    /\ UNCHANGED <<registered, signalled, pollVars, bridgeVars, chanVars, panicked>>

\* One plugin of InitializeAll: its poll loop and its bridge are started.
Initialize(p) ==
    /\ main = "init" /\ p \in left
    /\ left' = left \ {p}
    /\ poll' = [poll EXCEPT ![p] = "fetch"]
    /\ bridge' = [bridge EXCEPT ![p] = "select"]
    /\ UNCHANGED <<main, registered, signalled, item, checks, stored, hand, published,
                   chanVars, panicked>>

\* Initialize returned an error: logged, the loop continues.
InitializeFails(p) ==
    /\ main = "init" /\ p \in left \cap CanFail
    /\ left' = left \ {p}
    /\ UNCHANGED <<main, registered, signalled, pollVars, bridgeVars, chanVars, panicked>>

\* InitializeAll is over, the server is started; main waits for the signal.
Run ==
    /\ main = "init" /\ left = {}
    /\ main' = "run"
    /\ UNCHANGED <<registered, left, signalled, pollVars, bridgeVars, chanVars, panicked>>

\* SIGINT or SIGTERM, at any time after signal.NotifyContext.
Signal ==
    /\ main \in {"init", "run"} /\ ~signalled
    /\ signalled' = TRUE
    /\ UNCHANGED <<main, registered, left, pollVars, bridgeVars, chanVars, panicked>>

\* <-ctx.Done() returns; ShutdownAll begins.
BeginShutdown ==
    /\ main = "run" /\ signalled
    /\ main' = "shutdown" /\ left' = registered
    /\ UNCHANGED <<registered, signalled, pollVars, bridgeVars, chanVars, panicked>>

BadShutdown(p) ==  \* the plugin is shut down, the loop does not advance
    /\ main = "shutdown" /\ p \in left
    /\ closed' = [closed EXCEPT ![p] = TRUE]
    /\ UNCHANGED <<mainVars, events, sent, pollVars, bridgeVars, panicked>>

\* One plugin of ShutdownAll.  rp.cancel() adds nothing: its context is a child of the
\* cancelled one.  Shutdown closes the channel whatever the poll loop is doing.
Shutdown(p) ==
    /\ main = "shutdown" /\ p \in left
    /\ left' = left \ {p}
    /\ closed' = [closed EXCEPT ![p] = TRUE]
    /\ UNCHANGED <<main, registered, signalled, events, sent, pollVars, bridgeVars, panicked>>

\* ShutdownAll has returned; main stops the cache and calls srv.Shutdown ...
EndShutdown ==
    /\ main = "shutdown" /\ left = {}
    /\ main' = "server"
    /\ UNCHANGED <<registered, left, signalled, pollVars, bridgeVars, chanVars, panicked>>

\* ... which returns within its timeout; the process ends, with all its goroutines.
Exit ==
    /\ main = "server"
    /\ main' = "stopped"
    /\ UNCHANGED <<registered, left, signalled, pollVars, bridgeVars, chanVars, panicked>>

\* srv.Start returns an error, such as a port in use: its goroutine ends the process by
\* os.Exit, whatever main is doing; no plugin is shut down that was not before.
ServerFails ==
    /\ main \in {"run", "shutdown", "server"}
    /\ main' = "failed"
    /\ UNCHANGED <<registered, left, signalled, pollVars, bridgeVars, chanVars, panicked>>

-----------------------------------------------------------------------------
(* The poll loops: checkBudgets (EventFirst) and detectIdle.               *)

PollAt(p, from, to) == poll[p] = from /\ poll' = [poll EXCEPT ![p] = to]

BadFetchOk(p) ==  \* the previous check is not counted as over
    /\ PollAt(p, "fetch", IF p \in EventFirst THEN "scan" ELSE "send")
    /\ ~signalled /\ checks[p] < MaxChecks
    /\ checks' = [checks EXCEPT ![p] = @ + 1]
    /\ item' = [item EXCEPT ![p] = Items]
    /\ UNCHANGED <<mainVars, stored, bridgeVars, chanVars, panicked>>

\* The costs arrive.  The request carries the context, so not after the signal.
FetchOk(p) ==
    /\ PollAt(p, "fetch", IF p \in EventFirst THEN "scan" ELSE "store")
    /\ ~signalled /\ checks[p] < MaxChecks
    /\ checks' = [checks EXCEPT ![p] = @ + 1]
    /\ item' = [item EXCEPT ![p] = Items]
    /\ UNCHANGED <<mainVars, stored, bridgeVars, chanVars, panicked>>

\* The request fails, or its answer cannot be parsed: the check returns.
FetchFails(p) ==
    /\ PollAt(p, "fetch", "wait")
    /\ UNCHANGED <<mainVars, item, checks, stored, bridgeVars, chanVars, panicked>>

\* select { case p.events <- e: default: } on an open channel.
TrySend(p, e) ==
    IF Len(events[p]) < EventCap
      THEN /\ events' = [events EXCEPT ![p] = Append(@, e)]
           /\ sent' = [sent EXCEPT ![p] = Append(@, e)]
      ELSE UNCHANGED <<events, sent>>

\* A budget that is unknown to the costs, or is within its limits.
BudgetOk(p) ==
    /\ poll[p] = "scan" /\ item[p] > 0
    /\ item' = [item EXCEPT ![p] = @ - 1]
    /\ UNCHANGED <<mainVars, poll, checks, stored, bridgeVars, chanVars, panicked>>

BadBudgetAlert(p) ==  \* one budget too many
    /\ poll[p] = "scan" /\ ~closed[p]
    /\ item' = [item EXCEPT ![p] = @ - 1]
    /\ TrySend(p, [check |-> checks[p], item |-> item[p]])
    /\ UNCHANGED <<mainVars, poll, checks, stored, bridgeVars, closed, panicked>>

\* A budget in state "warning" or "exceeded": an event, before the statuses are stored.
BudgetAlert(p) ==
    /\ poll[p] = "scan" /\ item[p] > 0 /\ ~closed[p]
    /\ item' = [item EXCEPT ![p] = @ - 1]
    /\ TrySend(p, [check |-> checks[p], item |-> item[p]])
    /\ UNCHANGED <<mainVars, poll, checks, stored, bridgeVars, closed, panicked>>

EndScan(p) ==
    /\ PollAt(p, "scan", "store") /\ item[p] = 0
    /\ UNCHANGED <<mainVars, item, checks, stored, bridgeVars, chanVars, panicked>>

\* p.mu.Lock(); statuses or recommendations are replaced as a whole.
Store(p) ==
    /\ PollAt(p, "store", IF p \in EventFirst THEN "wait" ELSE "send")
    /\ stored' = [stored EXCEPT ![p] = checks[p]]
    /\ UNCHANGED <<mainVars, item, checks, bridgeVars, chanVars, panicked>>

\* detectIdle announces its recommendations after storing them.
IdleDetected(p) ==
    /\ PollAt(p, "send", "wait") /\ ~closed[p]
    /\ TrySend(p, [check |-> checks[p], item |-> 0])
    /\ UNCHANGED <<mainVars, item, checks, stored, bridgeVars, closed, panicked>>

\* There is no recommendation to announce.
NothingIdle(p) ==
    /\ PollAt(p, "send", "wait")
    /\ UNCHANGED <<mainVars, item, checks, stored, bridgeVars, chanVars, panicked>>

\* The same send when Shutdown has closed the channel: select panics too.
Panic(p) ==
    /\ poll[p] = "send" \/ (poll[p] = "scan" /\ item[p] > 0)
    /\ closed[p]
    /\ panicked' = TRUE
    /\ UNCHANGED <<mainVars, pollVars, bridgeVars, chanVars>>

\* The ticker fires; after the signal select may still prefer it.
Tick(p) ==
    /\ PollAt(p, "wait", "fetch") /\ checks[p] < MaxChecks
    /\ UNCHANGED <<mainVars, item, checks, stored, bridgeVars, chanVars, panicked>>

\* case <-ctx.Done().
PollExit(p) ==
    /\ PollAt(p, "wait", "exited") /\ signalled
    /\ UNCHANGED <<mainVars, item, checks, stored, bridgeVars, chanVars, panicked>>

-----------------------------------------------------------------------------
(* bridgeEvents.                                                           *)

BadTake(p) ==  \* the received event is not removed
    /\ bridge[p] = "select" /\ events[p] # <<>>
    /\ hand' = [hand EXCEPT ![p] = Head(events[p])]
    /\ bridge' = [bridge EXCEPT ![p] = "publish"]
    /\ UNCHANGED <<mainVars, pollVars, published, chanVars, panicked>>

\* case evt, ok := <-events with an event, which a closed channel still delivers.
Take(p) ==
    /\ bridge[p] = "select" /\ events[p] # <<>>
    /\ hand' = [hand EXCEPT ![p] = Head(events[p])]
    /\ events' = [events EXCEPT ![p] = Tail(@)]
    /\ bridge' = [bridge EXCEPT ![p] = "publish"]
    /\ UNCHANGED <<mainVars, pollVars, published, closed, sent, panicked>>

BadPublish(p) ==  \* the loop ends after one event
    /\ bridge[p] = "publish"
    /\ published' = [published EXCEPT ![p] = Append(@, hand[p])]
    /\ hand' = [hand EXCEPT ![p] = None]
    /\ bridge' = [bridge EXCEPT ![p] = "exited"]
    /\ UNCHANGED <<mainVars, pollVars, chanVars, panicked>>

\* m.hub.Publish(streamEvt).
Publish(p) ==
    /\ bridge[p] = "publish"
    /\ published' = [published EXCEPT ![p] = Append(@, hand[p])]
    /\ hand' = [hand EXCEPT ![p] = None]
    /\ bridge' = [bridge EXCEPT ![p] = "select"]
    /\ UNCHANGED <<mainVars, pollVars, chanVars, panicked>>

\* The context is done, or the channel is closed and empty.
BridgeExit(p) ==
    /\ bridge[p] = "select"
    /\ signalled \/ (closed[p] /\ events[p] = <<>>)
    /\ bridge' = [bridge EXCEPT ![p] = "exited"]
    /\ UNCHANGED <<mainVars, pollVars, hand, published, chanVars, panicked>>

-----------------------------------------------------------------------------
(* Requests to the route of a plugin.  They change nothing, are answered   *)
(* from the start of the server on, whether or not Initialize succeeded,   *)
(* and read under the lock that Store takes.                               *)

\* GET /plugins/budgets/status: the statuses of the last check, empty before the first.
HandleStatus(p) == stored[p]

\* GET /plugins/costbreakdown/recommendations, likewise.
HandleRecommendations(p) == stored[p]

\* What the handler mounted for the plugin answers: 200, and the data of Execute.
Execute(p) == IF p \in EventFirst THEN HandleStatus(p) ELSE HandleRecommendations(p)

-----------------------------------------------------------------------------

MainStep ==
    \/ BeginInitialize \/ Run \/ BeginShutdown \/ EndShutdown \/ Exit
    \/ \E p \in Plugins : Register(p) \/ Initialize(p) \/ InitializeFails(p) \/ Shutdown(p)

CheckStep(p) ==
    \/ FetchOk(p) \/ FetchFails(p) \/ BudgetOk(p) \/ BudgetAlert(p) \/ EndScan(p)
    \/ Store(p) \/ IdleDetected(p) \/ NothingIdle(p) \/ Panic(p)

BridgeStep(p) == Take(p) \/ Publish(p) \/ BridgeExit(p)

Ended == main \in {"stopped", "failed"} \/ panicked

Next ==
    \/ /\ ~Ended
       /\ \/ MainStep \/ Signal \/ ServerFails
          \/ \E p \in Plugins : CheckStep(p) \/ Tick(p) \/ PollExit(p) \/ BridgeStep(p)
    \/ Ended /\ UNCHANGED vars

Spec == Init /\ [][Next]_vars

\* Every goroutine that can run does; no fairness for the signal, the ticker and what makes
\* the server fail.
LiveSpec ==
    /\ Spec
    /\ WF_vars(~Ended /\ MainStep)
    /\ \A p \in Plugins : WF_vars(~Ended /\ CheckStep(p)) /\ WF_vars(~Ended /\ BridgeStep(p))

-----------------------------------------------------------------------------
(* Properties.                                                             *)

\* Every variable has the values its Go counterpart can hold.
TypeOK ==
    /\ main \in MainPc
    /\ registered \subseteq Plugins /\ left \subseteq Plugins
    /\ signalled \in BOOLEAN /\ panicked \in BOOLEAN
    /\ poll \in [Plugins -> PollPc]
    /\ item \in [Plugins -> 0..Items]
    /\ checks \in [Plugins -> 0..MaxChecks]
    /\ stored \in [Plugins -> 0..MaxChecks]
    /\ events \in [Plugins -> Seq(Event)]
    /\ closed \in [Plugins -> BOOLEAN]
    /\ bridge \in [Plugins -> BridgePc]
    /\ hand \in [Plugins -> Event \cup {None}]
    /\ sent \in [Plugins -> Seq(Event)]
    /\ published \in [Plugins -> Seq(Event)]

\* Bridging neither loses, repeats nor reorders: what went into the channel is what was
\* published, what is being published and what is still in the channel, in this order.
Hand(p) == IF hand[p] = None THEN <<>> ELSE <<hand[p]>>
BridgeFaithful == \A p \in Plugins : (published[p] \o Hand(p)) \o events[p] = sent[p]

\* A client that hears of a check and asks the plugin over its route gets that check's
\* result or a later one from costbreakdown; budgets may still answer with the one before.
AnnouncedIsStored ==
    \A p \in Plugins : \A i \in DOMAIN published[p] :
        published[p][i].check <= Execute(p) + (IF p \in EventFirst THEN 1 ELSE 0)

\* After the signal the process ends: ShutdownAll has no one to wait for.
ShutdownEnds == signalled ~> Ended

\* As long as the process lives and has no signal, whatever gets into the channel of a plugin
\* reaches the hub, the last event as well as the first: the bridge catches up again and again,
\* and what is published is, in order, what was sent.
EventsReachHub ==
    \A p \in Plugins : []<>(published[p] = sent[p] \/ signalled \/ Ended)

\* "ShutdownAll shuts down all plugins" (internal/plugin/manager.go:185): unless the server
\* fails, which ends the process on the spot, it does not end before every registered plugin
\* is shut down.
AllShutDown == Ended /\ main # "failed" => \A p \in registered : closed[p]

=============================================================================
