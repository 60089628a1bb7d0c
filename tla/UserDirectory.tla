---------------------------- MODULE UserDirectory ----------------------------
(***************************************************************************)
(* What a login promises, without the tables and statements by which       *)
(* Provision keeps it: finding or creating a user is one step that nothing *)
(* comes between.  A subject and an email have each one user at most, for  *)
(* good.  Whoever asks gets a user with its subject, if there was one when *)
(* it asked, and otherwise one with its subject or its email; and without  *)
(* a fault only a login that found neither, or whose session does not fit  *)
(* into its cookie, is turned away.                                        *)
(***************************************************************************)
EXTENDS Naturals

CONSTANTS
    Logins,    \* a user is named after the login that entered it
    Accounts,  \* who asks: [subject, email]
    None

VARIABLES
    directory,  \* the users: [id, subject, email]
    status,     \* of a login: "new", "asked", "in" or "failed"
    asks,       \* the account it asks with
    had,        \* which of "subject" and "email" had a user when it asked
    fits,       \* its session fits into a cookie
    given,      \* the user it was given
    faults      \* faults that have happened

vars == <<directory, status, asks, had, fits, given, faults>>

Init ==
    /\ directory = {}
    /\ status = [l \in Logins |-> "new"]
    /\ asks = [l \in Logins |-> None]
    /\ had = [l \in Logins |-> {}]
    /\ fits = [l \in Logins |-> TRUE]
    /\ given = [l \in Logins |-> None]
    /\ faults = 0

-----------------------------------------------------------------------------
Becomes(l, from, to) == status[l] = from /\ status' = [status EXCEPT ![l] = to]

HasSubject(a) == \E u \in directory : u.subject = a.subject
HasEmail(a) == \E u \in directory : u.email = a.email
Matches(u, a) == u.subject = a.subject \/ u.email = a.email

Ask(l, a, fit) ==
    /\ Becomes(l, "new", "asked")
    /\ asks' = [asks EXCEPT ![l] = a] /\ fits' = [fits EXCEPT ![l] = fit]
    /\ had' = [had EXCEPT ![l] =
        {k \in {"subject", "email"} : IF k = "subject" THEN HasSubject(a) ELSE HasEmail(a)}]
    /\ UNCHANGED <<directory, given, faults>>

Refuse(l) == Becomes(l, "new", "failed") /\ UNCHANGED <<directory, asks, had, fits, given, faults>>

\* Subject and email of l get their user; the answer to l comes later.
Enter(l) ==
    /\ status[l] = "asked" /\ \A u \in directory : ~Matches(u, asks[l])
    /\ directory' = directory \cup {[id |-> l, subject |-> asks[l].subject, email |-> asks[l].email]}
    /\ UNCHANGED <<status, asks, had, fits, given, faults>>

Answer(l) ==
    /\ Becomes(l, "asked", "in") /\ fits[l]
    /\ \E u \in directory :
        /\ Matches(u, asks[l]) /\ ("subject" \in had[l] => u.subject = asks[l].subject)
        /\ given' = [given EXCEPT ![l] = u.id]
    /\ UNCHANGED <<directory, asks, had, fits, faults>>

\* There is a user, but no session for it.
TurnAway(l) ==
    /\ Becomes(l, "asked", "failed") /\ ~fits[l] /\ \E u \in directory : Matches(u, asks[l])
    /\ UNCHANGED <<directory, asks, had, fits, given, faults>>

\* Another login has entered the subject or the email since l asked.
Lose(l) ==
    /\ Becomes(l, "asked", "failed") /\ had[l] = {}
    /\ \E u \in directory : Matches(u, asks[l]) /\ u.id # l
    /\ UNCHANGED <<directory, asks, had, fits, given, faults>>

\* A fault, which may end any logins under way and never undoes an entry.
Break(L) ==
    /\ \A l \in L : status[l] = "asked"
    /\ status' = [l \in Logins |-> IF l \in L THEN "failed" ELSE status[l]]
    /\ faults' = faults + 1
    /\ UNCHANGED <<directory, asks, had, fits, given>>

Next ==
    \/ \E l \in Logins :
        \/ \E a \in Accounts, fit \in BOOLEAN : Ask(l, a, fit)
        \/ Refuse(l) \/ Enter(l) \/ Answer(l) \/ TurnAway(l) \/ Lose(l)
    \/ \E L \in SUBSET Logins : Break(L)

Spec == Init /\ [][Next]_vars
=============================================================================
