------------------------------ MODULE CostLedger ------------------------------
(***************************************************************************)
(* What the collection of costs promises, without the runs, the windows    *)
(* and the stale reads by which CostCollection keeps it: the costs a run   *)
(* has of a source are entered at once and at most once, only while the    *)
(* source is there, and go only with it; a source is marked as collected   *)
(* only while it is there and never in the future, though a mark may fall  *)
(* behind an earlier one; and of costs that were entered nobody is told    *)
(* before they are.                                                        *)
(***************************************************************************)
EXTENDS Naturals

CONSTANTS
    Projects, Sources, Runs,
    Never, None

VARIABLES
    now,       \* the time
    open,      \* the projects
    account,   \* the project of a source, or None
    used,      \* ids of projects and sources there are or have been
    entries,   \* what counts: the costs of a run for a source of a project
    mark,      \* when a source was last collected
    told       \* entries that were announced

vars == <<now, open, account, used, entries, mark, told>>

Init ==
    /\ now = 0 /\ open = {} /\ used = {} /\ entries = {} /\ told = {}
    /\ account = [s \in Sources |-> None]
    /\ mark = [s \in Sources |-> Never]

-----------------------------------------------------------------------------
Tick == now' = now + 1 /\ UNCHANGED <<open, account, used, entries, mark, told>>

Use(id) == id \notin used /\ used' = used \cup {id}

OpenProject(p) ==
    /\ Use(p) /\ open' = open \cup {p}
    /\ UNCHANGED <<now, account, entries, mark, told>>

OpenAccount(s, p) ==
    /\ Use(s) /\ p \in open /\ account' = [account EXCEPT ![s] = p]
    /\ UNCHANGED <<now, open, entries, mark, told>>

\* Accounts that are closed take their entries and their mark with them.
Close(S) ==
    /\ account' = [s \in Sources |-> IF s \in S THEN None ELSE account[s]]
    /\ mark' = [s \in Sources |-> IF s \in S THEN Never ELSE mark[s]]
    /\ entries' = {e \in entries : e.source \notin S}

CloseAccount(s) == Close({s}) /\ UNCHANGED <<now, open, used, told>>

CloseProject(p) ==
    /\ p \in open /\ open' = open \ {p} /\ Close({s \in Sources : account[s] = p})
    /\ UNCHANGED <<now, used, told>>

Entry(r, s, p) == [run |-> r, source |-> s, project |-> p]

Post(r, s) ==
    /\ account[s] # None /\ Entry(r, s, account[s]) \notin entries
    /\ entries' = entries \cup {Entry(r, s, account[s])}
    /\ UNCHANGED <<now, open, account, used, mark, told>>

\* A time that was the present once.
Mark(s) ==
    /\ account[s] # None /\ \E t \in 0..now : mark' = [mark EXCEPT ![s] = t]
    /\ UNCHANGED <<now, open, account, used, entries, told>>

\* The account may have been closed since.
Tell(r, s, p) ==
    /\ account[s] # None => Entry(r, s, p) \in entries
    /\ told' = told \cup {Entry(r, s, p)}
    /\ UNCHANGED <<now, open, account, used, entries, mark>>

Next ==
    \/ Tick
    \/ \E p \in Projects : OpenProject(p) \/ CloseProject(p)
    \/ \E s \in Sources :
        \/ CloseAccount(s) \/ Mark(s)
        \/ \E p \in Projects : OpenAccount(s, p)
        \/ \E r \in Runs : Post(r, s) \/ \E p \in Projects : Tell(r, s, p)

Spec == Init /\ [][Next]_vars
=============================================================================
