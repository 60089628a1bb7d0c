------------------------------ MODULE Provision ------------------------------
(***************************************************************************)
(* Logins through OIDC: the callback finds or creates the user, on the     *)
(* first login puts it into the groups of its claims, and gives out a      *)
(* session (internal/auth/auth.go, internal/store/sql.go).                 *)
(*                                                                         *)
(* Each login is a request of its own; each statement of the store is      *)
(* atomic and the UNIQUE constraints hold, but what a login has read may   *)
(* be stale when it writes.                                                *)
(***************************************************************************)
EXTENDS Naturals, FiniteSets

CONSTANTS
    Logins,     \* the callback requests
    Accounts,   \* what the provider can say of who logs in: [subject, email]
    Claims,     \* the groups it can claim
    TooLong,    \* the lists of groups whose session does not fit into a cookie
    MaxFaults,  \* bound: failed statements and crashes
    None        \* no user, no group

ASSUME TooLongAssumption == TooLong \subseteq (SUBSET Claims) \ {{}}
ASSUME FaultAssumption == MaxFaults \in Nat
ASSUME NoneAssumption == None \notin Logins \cup Accounts \cup Claims

VARIABLES
    users,     \* table users: the row a login has inserted; its id is that login
    groups,    \* table groups: by claim, the login that inserted the row
    members,   \* table group_members
    pc,        \* program counter of each login
    account,   \* who it says it is ...
    claims,    \* ... and the groups claimed
    todo,      \* claims provisionUser has still to sync
    claim,     \* the claim syncGroup is at
    user,      \* the user found or created
    known,     \* history: which keys of the account a user had when the login began
    unseen,    \* history: the claims looked up when they had no group
    faults     \* faults that have happened

tables == <<users, groups, members>>
local == <<account, claims, todo, claim, user, known, unseen>>
vars == <<tables, pc, local, faults>>

Pc == {"idle", "subject", "email", "create", "sync", "group", "member", "session", "failed"}
Ended == {"session", "failed"}

Init ==
    /\ users = {} /\ members = {}
    /\ groups = [c \in Claims |-> None]
    /\ pc = [l \in Logins |-> "idle"]
    /\ account = [l \in Logins |-> None]
    /\ claims = [l \in Logins |-> {}] /\ todo = [l \in Logins |-> {}]
    /\ claim = [l \in Logins |-> None]
    /\ user = [l \in Logins |-> None]
    /\ known = [l \in Logins |-> {}] /\ unseen = [l \in Logins |-> {}]
    /\ faults = 0

-----------------------------------------------------------------------------
(* The names starting with Bad are used by no action: each is a plausible  *)
(* slip in the definition it precedes.                                     *)

At(l, from, to) == pc[l] = from /\ pc' = [pc EXCEPT ![l] = to]

Fault == faults < MaxFaults /\ faults' = faults + 1

BySubject(a) == {u \in users : u.subject = a.subject}
ByEmail(a) == {u \in users : u.email = a.email}

KnownKeys(a) ==
    (IF BySubject(a) # {} THEN {"subject"} ELSE {}) \cup (IF ByEmail(a) # {} THEN {"email"} ELSE {})

\* The answer to a login with a user: the cookie of its session, or 500 if securecookie refuses
\* a session with that many groups.
Encoded(l) == IF claims[l] \in TooLong THEN "failed" ELSE "session"

\* The state cookie, the code and the token are good and say who logs in; provisionUser begins.
Callback(l, a, groupClaims) ==
    /\ At(l, "idle", "subject")
    /\ account' = [account EXCEPT ![l] = a] /\ claims' = [claims EXCEPT ![l] = groupClaims]
    /\ known' = [known EXCEPT ![l] = KnownKeys(a)]
    /\ UNCHANGED <<tables, todo, claim, user, unseen, faults>>

\* One of them is not: 400, 401 or 500 before anything is read.
Reject(l) ==
    /\ At(l, "idle", "failed")
    /\ UNCHANGED <<tables, local, faults>>

BadFound(l, from, rows) ==  \* the session is given out for no user
    /\ At(l, from, Encoded(l)) /\ rows # {}
    /\ UNCHANGED <<tables, local, faults>>

\* A user that is found, by subject or by email, is the one of the session; its groups stay.
Found(l, from, rows) ==
    /\ At(l, from, Encoded(l))
    /\ \E u \in rows : user' = [user EXCEPT ![l] = u.id]
    /\ UNCHANGED <<tables, account, claims, todo, claim, known, unseen, faults>>

NotFound(l, from, to, rows) ==
    /\ At(l, from, to) /\ rows = {}
    /\ UNCHANGED <<tables, local, faults>>

GetUserByOIDCSubject(l) ==
    \/ Found(l, "subject", BySubject(account[l]))
    \/ NotFound(l, "subject", "email", BySubject(account[l]))

BadGetUserByEmail(l) ==  \* a user with another subject is not found
    NotFound(l, "email", "create", {})

GetUserByEmail(l) ==
    \/ Found(l, "email", ByEmail(account[l]))
    \/ NotFound(l, "email", "create", ByEmail(account[l]))

Row(l) == [id |-> l, subject |-> account[l].subject, email |-> account[l].email]

BadCreateUser(l) ==  \* without the UNIQUE constraints
    /\ At(l, "create", "sync")
    /\ users' = users \cup {Row(l)}
    /\ user' = [user EXCEPT ![l] = l] /\ todo' = [todo EXCEPT ![l] = claims[l]]
    /\ UNCHANGED <<groups, members, account, claims, claim, known, unseen, faults>>

\* The row is new, or another login has inserted one with its email or its subject (500).
CreateUser(l) ==
    \/ /\ At(l, "create", "sync")
       /\ BySubject(account[l]) \cup ByEmail(account[l]) = {}
       /\ users' = users \cup {Row(l)}
       /\ user' = [user EXCEPT ![l] = l] /\ todo' = [todo EXCEPT ![l] = claims[l]]
       /\ UNCHANGED <<groups, members, account, claims, claim, known, unseen, faults>>
    \/ /\ At(l, "create", "failed")
       /\ BySubject(account[l]) \cup ByEmail(account[l]) # {}
       /\ UNCHANGED <<tables, local, faults>>

\* A statement of provisionUser fails: 500.
LookupFails(l) ==
    /\ pc[l] \in {"subject", "email", "create"} /\ Fault
    /\ pc' = [pc EXCEPT ![l] = "failed"]
    /\ UNCHANGED <<tables, local>>

-----------------------------------------------------------------------------
(* syncGroup, once for each claim of a user just created.                  *)

GetGroupByOIDCClaim(l, c) ==
    /\ c \in todo[l] /\ At(l, "sync", IF groups[c] = None THEN "group" ELSE "member")
    /\ todo' = [todo EXCEPT ![l] = @ \ {c}] /\ claim' = [claim EXCEPT ![l] = c]
    /\ unseen' = [unseen EXCEPT ![l] = IF groups[c] = None THEN @ \cup {c} ELSE @]
    /\ UNCHANGED <<tables, account, claims, user, known, faults>>

BadCreateGroup(l) ==  \* the creator is not added
    /\ At(l, "group", "sync") /\ groups[claim[l]] = None
    /\ groups' = [groups EXCEPT ![claim[l]] = l]
    /\ UNCHANGED <<users, members, local, faults>>

\* The group is new, or another login has created it meanwhile: logged, the claim is skipped.
CreateGroup(l) ==
    \/ /\ At(l, "group", "member") /\ groups[claim[l]] = None
       /\ groups' = [groups EXCEPT ![claim[l]] = l]
       /\ UNCHANGED <<users, members, local, faults>>
    \/ /\ At(l, "group", "sync") /\ groups[claim[l]] # None
       /\ UNCHANGED <<tables, local, faults>>

AddGroupMember(l) ==
    /\ At(l, "member", "sync")
    /\ members' = members \cup {<<claim[l], user[l]>>}
    /\ UNCHANGED <<users, groups, local, faults>>

\* A statement of syncGroup fails: logged, the claim is skipped.
SyncFails(l) ==
    /\ Fault
    /\ \/ At(l, "group", "sync") /\ UNCHANGED todo
       \/ At(l, "member", "sync") /\ UNCHANGED todo
       \/ \E c \in todo[l] : At(l, "sync", "sync") /\ todo' = [todo EXCEPT ![l] = @ \ {c}]
    /\ UNCHANGED <<tables, account, claims, claim, user, known, unseen>>

\* All claims are synced; the session is encoded.
GiveSession(l) ==
    /\ todo[l] = {} /\ At(l, "sync", Encoded(l))
    /\ UNCHANGED <<tables, local, faults>>

\* The process dies and the logins under way with it; the tables stay.
Crash ==
    /\ Fault
    /\ \E l \in Logins : pc[l] \notin Ended \cup {"idle"}
    /\ pc' = [l \in Logins |-> IF pc[l] \in Ended \cup {"idle"} THEN pc[l] ELSE "failed"]
    /\ UNCHANGED <<tables, local>>

-----------------------------------------------------------------------------
Step(l) ==
    \/ GetUserByOIDCSubject(l) \/ GetUserByEmail(l) \/ CreateUser(l) \/ LookupFails(l)
    \/ \E c \in Claims : GetGroupByOIDCClaim(l, c)
    \/ CreateGroup(l) \/ AddGroupMember(l) \/ SyncFails(l) \/ GiveSession(l)

Next ==
    \/ \E l \in Logins, a \in Accounts, groupClaims \in SUBSET Claims : Callback(l, a, groupClaims)
    \/ \E l \in Logins : Reject(l) \/ Step(l)
    \/ Crash
    \/ (\A l \in Logins : pc[l] \in Ended) /\ UNCHANGED vars

Spec == Init /\ [][Next]_vars

-----------------------------------------------------------------------------
\* Every variable has the values the code gives it; who has a session has a user.
TypeOK ==
    /\ \A u \in users : u.id \in Logins /\ \E a \in Accounts : a.subject = u.subject /\ a.email = u.email
    /\ groups \in [Claims -> Logins \cup {None}] /\ members \subseteq Claims \X Logins
    /\ pc \in [Logins -> Pc] /\ account \in [Logins -> Accounts \cup {None}]
    /\ claims \in [Logins -> SUBSET Claims] /\ todo \in [Logins -> SUBSET Claims]
    /\ claim \in [Logins -> Claims \cup {None}] /\ known \in [Logins -> SUBSET {"subject", "email"}]
    /\ unseen \in [Logins -> SUBSET Claims]
    /\ user \in [Logins -> Logins \cup {None}] /\ faults \in 0..MaxFaults
    /\ \A l \in Logins :
        /\ pc[l] \notin {"idle", "failed"} => account[l] # None
        /\ pc[l] \in {"sync", "group", "member"} => user[l] = l
        /\ pc[l] \in {"group", "member"} => claim[l] # None
        /\ pc[l] = "session" => user[l] # None

\* Two logins with one account get sessions of one user, also when both are its first; unless
\* a user is recorded with its subject and another email, so that subject and email of the
\* account may be those of two users.
OneUserPerAccount ==
    \A k, l \in Logins :
        pc[k] = "session" /\ pc[l] = "session" /\ account[k] = account[l] =>
            \/ user[k] = user[l]
            \/ \E u \in users : u.subject = account[l].subject /\ u.email # account[l].email

\* A login whose subject or email was known when it began fails only when a statement fails,
\* the process dies or it has too many groups for a session: who lost the race of first logins
\* gets in with the next.
KnownAccountsGetIn ==
    \A l \in Logins : pc[l] = "failed" /\ known[l] # {} => faults > 0 \/ claims[l] \in TooLong

\* A user who got a session with its first login is in every group it claimed, unless a
\* statement failed, or another login created the group between its lookup and its insert.
\* Later logins do not repair that: they find the user and sync nothing.
MissingOnlyByRace ==
    \A l \in Logins : pc[l] = "session" /\ user[l] = l =>
        \A c \in claims[l] :
            <<c, l>> \in members \/ faults > 0 \/ (c \in unseen[l] /\ groups[c] \notin {None, l})

\* What a login looks like from outside; the directory is the table of users.
Status ==
    [l \in Logins |->
        IF pc[l] = "idle" THEN "new"
        ELSE IF pc[l] = "session" THEN "in"
        ELSE IF pc[l] = "failed" THEN "failed" ELSE "asked"]
Fits == [l \in Logins |-> claims[l] \notin TooLong]
Given == [l \in Logins |-> IF pc[l] = "session" THEN user[l] ELSE None]

Directory == INSTANCE UserDirectory WITH
    directory <- users, status <- Status, asks <- account, had <- known, fits <- Fits, given <- Given

\* The statements of provisionUser, which run without a transaction and next to those of
\* other logins, are together one atomic find-or-create: to whoever logs in it looks as if
\* UserDirectory had answered.
ImplementsDirectory == Directory!Spec
=============================================================================
