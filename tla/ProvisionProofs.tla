--------------------------- MODULE ProvisionProofs ---------------------------
(***************************************************************************)
(* Proofs about Provision, for any number of logins, accounts, claims and  *)
(* faults.                                                                 *)
(***************************************************************************)
EXTENDS Provision, TLAPS

USE NoneAssumption, FaultAssumption, TooLongAssumption

-----------------------------------------------------------------------------
LEMMA TypeInit == Init => TypeOK
  BY DEF Init, TypeOK, Pc

\* Every action keeps the types, and gives a session only with a user.
LEMMA TypeStep == TypeOK /\ [Next]_vars => TypeOK'
<1> SUFFICES ASSUME TypeOK, [Next]_vars PROVE TypeOK'
  OBVIOUS
<1>1. ASSUME NEW l \in Logins, NEW a \in Accounts, NEW groupClaims \in SUBSET Claims, Callback(l, a, groupClaims)
      PROVE  TypeOK'
  BY <1>1 DEF Callback, KnownKeys, At, tables, TypeOK, Pc
<1>2. ASSUME NEW l \in Logins, Reject(l) PROVE TypeOK'
  BY <1>2 DEF Reject, At, tables, local, TypeOK, Pc
<1>3. ASSUME NEW l \in Logins, GetUserByOIDCSubject(l) PROVE TypeOK'
  BY <1>3 DEF GetUserByOIDCSubject, Found, NotFound, Encoded, BySubject, At, tables, local, TypeOK, Pc
<1>4. ASSUME NEW l \in Logins, GetUserByEmail(l) PROVE TypeOK'
  BY <1>4 DEF GetUserByEmail, Found, NotFound, Encoded, ByEmail, At, tables, local, TypeOK, Pc
<1>5. ASSUME NEW l \in Logins, CreateUser(l) PROVE TypeOK'
  BY <1>5 DEF CreateUser, Row, BySubject, ByEmail, At, tables, local, TypeOK, Pc
<1>6. ASSUME NEW l \in Logins, LookupFails(l) PROVE TypeOK'
  BY <1>6 DEF LookupFails, Fault, tables, local, TypeOK, Pc
<1>7. ASSUME NEW l \in Logins, NEW c \in Claims, GetGroupByOIDCClaim(l, c) PROVE TypeOK'
  BY <1>7 DEF GetGroupByOIDCClaim, At, tables, TypeOK, Pc
<1>8. ASSUME NEW l \in Logins, CreateGroup(l) PROVE TypeOK'
  BY <1>8 DEF CreateGroup, At, tables, local, TypeOK, Pc
<1>9. ASSUME NEW l \in Logins, AddGroupMember(l) PROVE TypeOK'
  BY <1>9 DEF AddGroupMember, At, local, TypeOK, Pc
<1>10. ASSUME NEW l \in Logins, SyncFails(l) PROVE TypeOK'
  BY <1>10 DEF SyncFails, Fault, At, tables, TypeOK, Pc
<1>11. ASSUME NEW l \in Logins, GiveSession(l) PROVE TypeOK'
  BY <1>11 DEF GiveSession, Encoded, At, tables, local, TypeOK, Pc
<1>12. ASSUME Crash PROVE TypeOK'
  BY <1>12 DEF Crash, Fault, Ended, tables, local, TypeOK, Pc
<1>13. ASSUME UNCHANGED vars PROVE TypeOK'
  BY <1>13 DEF vars, tables, local, TypeOK, Pc
<1>14. QED
  BY <1>1, <1>2, <1>3, <1>4, <1>5, <1>6, <1>7, <1>8, <1>9, <1>10, <1>11, <1>12, <1>13 DEF Next, Step

\* In every reachable state tables and logins are well-typed; who has a session has a user.
THEOREM TypeCorrect == Spec => []TypeOK
<1>1. QED
  BY TypeInit, TypeStep, PTL DEF Spec

-----------------------------------------------------------------------------
(* One user per account.                                                   *)

\* The UNIQUE constraints; a login has a user with its subject or its email.
Matches(u, a) == u.subject = a.subject \/ u.email = a.email

UserInv ==
    /\ \A u, v \in users : Matches(u, v) => u.id = v.id
    /\ \A l \in Logins : user[l] # None => \E u \in users : u.id = user[l] /\ Matches(u, account[l])
    /\ \A l \in Logins : pc[l] = "idle" => user[l] = None

\* A user is found by its subject or by its email, or inserted with both.
LEMMA UserStep == TypeOK /\ UserInv /\ [Next]_vars => UserInv'
<1> SUFFICES ASSUME TypeOK, UserInv, [Next]_vars PROVE UserInv'
  OBVIOUS
<1>0. \A l \in Logins : pc[l] \in {"subject", "email", "create"} => account[l] \in Accounts
  BY DEF TypeOK
<1>1. ASSUME NEW l \in Logins, NEW a \in Accounts, NEW groupClaims \in SUBSET Claims, Callback(l, a, groupClaims)
      PROVE  UserInv'
  BY <1>0, <1>1 DEF Callback, At, tables, TypeOK, UserInv, Matches
<1>2. ASSUME NEW l \in Logins, Reject(l) PROVE UserInv'
  BY <1>0, <1>2 DEF Reject, At, tables, local, TypeOK, UserInv, Matches
<1>3. ASSUME NEW l \in Logins, GetUserByOIDCSubject(l) PROVE UserInv'
  BY <1>0, <1>3 DEF GetUserByOIDCSubject, Found, NotFound, Encoded, BySubject, At, tables, local, TypeOK, UserInv, Matches
<1>4. ASSUME NEW l \in Logins, GetUserByEmail(l) PROVE UserInv'
  BY <1>0, <1>4 DEF GetUserByEmail, Found, NotFound, Encoded, ByEmail, At, tables, local, TypeOK, UserInv, Matches
<1>5. ASSUME NEW l \in Logins, CreateUser(l) PROVE UserInv'
  <2>1. CASE pc'[l] = "failed"
    <3>1. users' = users /\ user' = user /\ account' = account /\ pc' = [pc EXCEPT ![l] = "failed"]
      BY <1>5, <2>1 DEF CreateUser, At, tables, local, TypeOK
    <3>2. QED
      BY <3>1 DEF TypeOK, UserInv, Matches
  <2>2. CASE pc'[l] # "failed"
    <3> DEFINE row == Row(l)
    <3>1. /\ \A u \in users : ~Matches(u, account[l])
          /\ users' = users \cup {row} /\ user' = [user EXCEPT ![l] = l]
          /\ account' = account /\ pc' = [pc EXCEPT ![l] = "sync"]
      BY <1>5, <2>2 DEF CreateUser, At, tables, local, TypeOK, BySubject, ByEmail, Matches
    <3>2. row.id = l /\ row.email = account[l].email /\ row.subject = account[l].subject
      BY DEF Row
    <3> HIDE DEF row
    <3>3. \A u, v \in users' : Matches(u, v) => u.id = v.id
      BY <3>1, <3>2 DEF UserInv, Matches
    <3>4. \A q \in Logins : user'[q] # None => \E u \in users' : u.id = user'[q] /\ Matches(u, account'[q])
      <4>1. user \in [Logins -> Logins \cup {None}]
        BY DEF TypeOK
      <4>2. QED
        BY <3>1, <3>2, <4>1 DEF UserInv, Matches
    <3>5. \A q \in Logins : pc'[q] = "idle" => user'[q] = None
      BY <1>5, <3>1 DEF TypeOK, UserInv, CreateUser, At
    <3>6. QED
      BY <3>3, <3>4, <3>5 DEF UserInv
  <2>3. QED
    BY <2>1, <2>2
<1>6. ASSUME NEW l \in Logins, LookupFails(l) PROVE UserInv'
  BY <1>0, <1>6 DEF LookupFails, Fault, tables, local, TypeOK, UserInv, Matches
<1>7. ASSUME NEW l \in Logins, NEW c \in Claims, GetGroupByOIDCClaim(l, c) PROVE UserInv'
  BY <1>0, <1>7 DEF GetGroupByOIDCClaim, At, tables, TypeOK, UserInv, Matches
<1>8. ASSUME NEW l \in Logins, CreateGroup(l) PROVE UserInv'
  BY <1>0, <1>8 DEF CreateGroup, At, tables, local, TypeOK, UserInv, Matches
<1>9. ASSUME NEW l \in Logins, AddGroupMember(l) PROVE UserInv'
  BY <1>0, <1>9 DEF AddGroupMember, At, local, TypeOK, UserInv, Matches
<1>10. ASSUME NEW l \in Logins, SyncFails(l) PROVE UserInv'
  BY <1>0, <1>10 DEF SyncFails, Fault, At, tables, TypeOK, UserInv, Matches
<1>11. ASSUME NEW l \in Logins, GiveSession(l) PROVE UserInv'
  BY <1>0, <1>11 DEF GiveSession, Encoded, At, tables, local, TypeOK, UserInv, Matches
<1>12. ASSUME Crash PROVE UserInv'
  BY <1>0, <1>12 DEF Crash, Fault, Ended, tables, local, TypeOK, UserInv, Matches
<1>13. ASSUME UNCHANGED vars PROVE UserInv'
  BY <1>0, <1>13 DEF vars, tables, local, TypeOK, UserInv, Matches
<1>14. QED
  BY <1>1, <1>2, <1>3, <1>4, <1>5, <1>6, <1>7, <1>8, <1>9, <1>10, <1>11, <1>12, <1>13 DEF Next, Step

\* Two sessions for one account are sessions of one user, whatever interleaves and fails, unless
\* its subject is recorded with another email.
THEOREM AccountsHaveOneUser == Spec => []OneUserPerAccount
<1>1. Init => UserInv
  BY DEF Init, UserInv
<1>2. TypeOK /\ UserInv => OneUserPerAccount
  BY DEF TypeOK, UserInv, OneUserPerAccount, Matches
<1>3. QED
  BY <1>1, <1>2, UserStep, TypeCorrect, PTL DEF Spec

-----------------------------------------------------------------------------
(* Who is known gets in.                                                   *)

\* What made an account known is still there when the login looks for it.
KnownInv ==
    /\ \A l \in Logins : pc[l] = "subject" => known[l] \subseteq KnownKeys(account[l])
    /\ \A l \in Logins : pc[l] = "email" =>
        known[l] \subseteq {"email"} /\ known[l] \subseteq KnownKeys(account[l])
    /\ \A l \in Logins : pc[l] \notin {"subject", "email"} \cup Ended => known[l] = {}
    /\ KnownAccountsGetIn

\* Users are never removed, so a known account stays known.
LEMMA KnownStep == TypeOK /\ KnownInv /\ [Next]_vars => KnownInv'
<1> SUFFICES ASSUME TypeOK, KnownInv, [Next]_vars PROVE KnownInv'
  OBVIOUS
<1>0. \A l \in Logins : pc[l] \in {"subject", "email", "create"} => account[l] \in Accounts
  BY DEF TypeOK
<1>1. ASSUME NEW l \in Logins, NEW a \in Accounts, NEW groupClaims \in SUBSET Claims, Callback(l, a, groupClaims)
      PROVE  KnownInv'
  BY <1>0, <1>1 DEF Callback, At, tables, TypeOK, KnownInv, Ended, KnownKeys, KnownAccountsGetIn, BySubject, ByEmail
<1>2. ASSUME NEW l \in Logins, Reject(l) PROVE KnownInv'
  BY <1>0, <1>2 DEF Reject, At, tables, local, TypeOK, KnownInv, Ended, KnownKeys, KnownAccountsGetIn, BySubject, ByEmail
<1>3. ASSUME NEW l \in Logins, GetUserByOIDCSubject(l) PROVE KnownInv'
  BY <1>0, <1>3 DEF GetUserByOIDCSubject, Found, NotFound, Encoded, BySubject, At, tables, local, TypeOK,
     KnownInv, Ended, KnownKeys, KnownAccountsGetIn, BySubject, ByEmail
<1>4. ASSUME NEW l \in Logins, GetUserByEmail(l) PROVE KnownInv'
  BY <1>0, <1>4 DEF GetUserByEmail, Found, NotFound, Encoded, ByEmail, At, tables, local, TypeOK, KnownInv,
     Ended, KnownKeys, KnownAccountsGetIn, BySubject, ByEmail
<1>5. ASSUME NEW l \in Logins, CreateUser(l) PROVE KnownInv'
  BY <1>0, <1>5 DEF CreateUser, Row, BySubject, ByEmail, At, tables, local, TypeOK, KnownInv,
     Ended, KnownKeys, KnownAccountsGetIn, BySubject, ByEmail
<1>6. ASSUME NEW l \in Logins, LookupFails(l) PROVE KnownInv'
  BY <1>0, <1>6 DEF LookupFails, Fault, tables, local, TypeOK, KnownInv, Ended, KnownKeys, KnownAccountsGetIn,
     BySubject, ByEmail
<1>7. ASSUME NEW l \in Logins, NEW c \in Claims, GetGroupByOIDCClaim(l, c) PROVE KnownInv'
  BY <1>0, <1>7 DEF GetGroupByOIDCClaim, At, tables, TypeOK, KnownInv, Ended, KnownKeys, KnownAccountsGetIn,
     BySubject, ByEmail
<1>8. ASSUME NEW l \in Logins, CreateGroup(l) PROVE KnownInv'
  BY <1>0, <1>8 DEF CreateGroup, At, tables, local, TypeOK, KnownInv, Ended, KnownKeys, KnownAccountsGetIn,
     BySubject, ByEmail
<1>9. ASSUME NEW l \in Logins, AddGroupMember(l) PROVE KnownInv'
  BY <1>0, <1>9 DEF AddGroupMember, At, local, TypeOK, KnownInv, Ended, KnownKeys, KnownAccountsGetIn, BySubject, ByEmail
<1>10. ASSUME NEW l \in Logins, SyncFails(l) PROVE KnownInv'
  BY <1>0, <1>10 DEF SyncFails, Fault, At, tables, TypeOK, KnownInv, Ended, KnownKeys, KnownAccountsGetIn, BySubject,
     ByEmail
<1>11. ASSUME NEW l \in Logins, GiveSession(l) PROVE KnownInv'
  BY <1>0, <1>11 DEF GiveSession, Encoded, At, tables, local, TypeOK, KnownInv, Ended, KnownKeys, KnownAccountsGetIn,
     BySubject, ByEmail
<1>12. ASSUME Crash PROVE KnownInv'
  BY <1>0, <1>12 DEF Crash, Fault, tables, local, TypeOK, KnownInv, Ended, KnownKeys, KnownAccountsGetIn,
     BySubject, ByEmail
<1>13. ASSUME UNCHANGED vars PROVE KnownInv'
  BY <1>0, <1>13 DEF vars, tables, local, TypeOK, KnownInv, Ended, KnownKeys, KnownAccountsGetIn, BySubject, ByEmail
<1>14. QED
  BY <1>1, <1>2, <1>3, <1>4, <1>5, <1>6, <1>7, <1>8, <1>9, <1>10, <1>11, <1>12, <1>13 DEF Next, Step

\* A login with a known account fails only by a failed statement, a crash or too many groups.
THEOREM KnownGetIn == Spec => []KnownAccountsGetIn
<1>1. Init => KnownInv
  BY DEF Init, KnownInv, Ended, KnownAccountsGetIn
<1>2. KnownInv => KnownAccountsGetIn
  BY DEF KnownInv
<1>3. QED
  BY <1>1, <1>2, KnownStep, TypeCorrect, PTL DEF Spec

-----------------------------------------------------------------------------
(* Memberships.                                                            *)

Early == {"idle", "subject", "email", "create"}

\* A claim is in the list, in hand, or settled; a group is created by a login that had its claim in hand.
GroupInv ==
    /\ \A u \in users : pc[u.id] \notin Early
    /\ \A l \in Logins : pc[l] \in Early => user[l] = None
    /\ \A l \in Logins : pc[l] \in {"group", "member"} => claim[l] \notin todo[l]
    /\ \A l \in Logins : pc[l] = "group" => claim[l] \in unseen[l]
    /\ \A l \in Logins, c \in Claims : groups[c] = l =>
        c \notin todo[l] /\ pc[l] \notin Early /\ (pc[l] = "group" => claim[l] # c)
    /\ \A l \in Logins : pc[l] \in {"sync", "group", "member", "session"} /\ user[l] = l =>
        \A c \in claims[l] :
            \/ <<c, l>> \in members \/ faults > 0 \/ (c \in unseen[l] /\ groups[c] \notin {None, l})
            \/ c \in todo[l] \/ (pc[l] \in {"group", "member"} /\ claim[l] = c)
    /\ \A l \in Logins : pc[l] = "session" => todo[l] = {} \/ user[l] # l

\* No claim is dropped without a reason.
LEMMA GroupStep == TypeOK /\ GroupInv /\ [Next]_vars => GroupInv'
<1> SUFFICES ASSUME TypeOK, GroupInv, [Next]_vars PROVE GroupInv'
  OBVIOUS
<1>1. ASSUME NEW l \in Logins, NEW a \in Accounts, NEW groupClaims \in SUBSET Claims, Callback(l, a, groupClaims)
      PROVE  GroupInv'
  BY <1>1 DEF Callback, At, tables, TypeOK, GroupInv, Early
<1>2. ASSUME NEW l \in Logins, Reject(l) PROVE GroupInv'
  BY <1>2 DEF Reject, At, tables, local, TypeOK, GroupInv, Early
<1>3. ASSUME NEW l \in Logins, GetUserByOIDCSubject(l) PROVE GroupInv'
  BY <1>3 DEF GetUserByOIDCSubject, Found, NotFound, Encoded, BySubject, At, tables, local, TypeOK,
     GroupInv, Early
<1>4. ASSUME NEW l \in Logins, GetUserByEmail(l) PROVE GroupInv'
  BY <1>4 DEF GetUserByEmail, Found, NotFound, Encoded, ByEmail, At, tables, local, TypeOK, GroupInv, Early
<1>5. ASSUME NEW l \in Logins, CreateUser(l) PROVE GroupInv'
  BY <1>5 DEF CreateUser, Row, BySubject, ByEmail, At, tables, local, TypeOK, GroupInv, Early
<1>6. ASSUME NEW l \in Logins, LookupFails(l) PROVE GroupInv'
  BY <1>6 DEF LookupFails, Fault, tables, local, TypeOK, GroupInv, Early
<1>7. ASSUME NEW l \in Logins, NEW c \in Claims, GetGroupByOIDCClaim(l, c) PROVE GroupInv'
  BY <1>7 DEF GetGroupByOIDCClaim, At, tables, TypeOK, GroupInv, Early
<1>8. ASSUME NEW l \in Logins, CreateGroup(l) PROVE GroupInv'
  BY <1>8 DEF CreateGroup, At, tables, local, TypeOK, GroupInv, Early
<1>9. ASSUME NEW l \in Logins, AddGroupMember(l) PROVE GroupInv'
  BY <1>9 DEF AddGroupMember, At, local, TypeOK, GroupInv, Early
<1>10. ASSUME NEW l \in Logins, SyncFails(l) PROVE GroupInv'
  BY <1>10 DEF SyncFails, Fault, At, tables, TypeOK, GroupInv, Early
<1>11. ASSUME NEW l \in Logins, GiveSession(l) PROVE GroupInv'
  BY <1>11 DEF GiveSession, Encoded, At, tables, local, TypeOK, GroupInv, Early
<1>12. ASSUME Crash PROVE GroupInv'
  BY <1>12 DEF Crash, Fault, Ended, tables, local, TypeOK, GroupInv, Early
<1>13. ASSUME UNCHANGED vars PROVE GroupInv'
  BY <1>13 DEF vars, tables, local, TypeOK, GroupInv, Early
<1>14. QED
  BY <1>1, <1>2, <1>3, <1>4, <1>5, <1>6, <1>7, <1>8, <1>9, <1>10, <1>11, <1>12, <1>13 DEF Next, Step

\* Who is not in a claimed group after the first login lost it to a failure or to another login
\* that created the group between its lookup and its insert.
THEOREM MissingHasReason == Spec => []MissingOnlyByRace
<1>1. Init => GroupInv
  BY DEF Init, GroupInv, Early
<1>2. TypeOK /\ GroupInv => MissingOnlyByRace
  BY DEF TypeOK, GroupInv, MissingOnlyByRace
<1>3. QED
  BY <1>1, <1>2, GroupStep, TypeCorrect, PTL DEF Spec

-----------------------------------------------------------------------------
(* Provisioning implements UserDirectory: every step is one of the         *)
(* directory, or none.                                                     *)

DirInv == TypeOK /\ UserInv /\ KnownInv /\ GroupInv

\* What the directory does not see.
Hidden == UNCHANGED <<users, Status, account, known, Fits, Given, faults>>

LEMMA Stutter == Hidden => [Directory!Next]_(Directory!vars)
  BY DEF Hidden, Directory!vars

\* The mapped variables follow from the logins they are made of.
LEMMA Seen ==
  /\ UNCHANGED claims => UNCHANGED Fits
  /\ UNCHANGED pc => UNCHANGED Status
  /\ UNCHANGED <<pc, user>> => UNCHANGED Given
  BY DEF Fits, Status, Given

\* A row is found by one of the keys of the account, for the store and for the directory.
LEMMA MatchingRows ==
  ASSUME NEW a
  PROVE  /\ \A u : u \in BySubject(a) \cup ByEmail(a) <=> u \in users /\ Directory!Matches(u, a)
         /\ \A u : Directory!Matches(u, a) <=> Matches(u, a)
  BY DEF BySubject, ByEmail, Matches, Directory!Matches

\* A login is asked as long as it is neither new nor ended.
LEMMA StatusNow ==
  ASSUME NEW l \in Logins
  PROVE  /\ pc[l] = "idle" => Status[l] = "new"
         /\ pc[l] \notin Ended \cup {"idle"} => Status[l] = "asked"
  BY DEF Status, Ended

\* One login moves on.
LEMMA StatusOf ==
  ASSUME TypeOK, NEW l \in Logins, NEW s, s # "idle", pc' = [pc EXCEPT ![l] = s]
  PROVE  /\ s = "session" => Status' = [Status EXCEPT ![l] = "in"]
         /\ s = "failed" => Status' = [Status EXCEPT ![l] = "failed"]
         /\ s \notin {"session", "failed"} => Status' = [Status EXCEPT ![l] = "asked"]
<1>1. pc \in [Logins -> Pc]
  BY DEF TypeOK
<1>2. QED
  BY <1>1 DEF Status

\* Only a session shows whose it is.
LEMMA GivenKept ==
  ASSUME NEW l \in Logins, pc[l] # "session", pc'[l] # "session",
         \A q \in Logins \ {l} : pc'[q] = pc[q] /\ user'[q] = user[q]
  PROVE  UNCHANGED Given
  BY DEF Given

LEMMA DirCallback ==
  ASSUME DirInv, NEW l \in Logins, NEW a \in Accounts, NEW groupClaims \in SUBSET Claims,
         Callback(l, a, groupClaims)
  PROVE  Directory!Next
<1>1. /\ pc[l] = "idle" /\ pc' = [pc EXCEPT ![l] = "subject"] /\ UNCHANGED <<users, user, faults>>
      /\ account' = [account EXCEPT ![l] = a] /\ claims' = [claims EXCEPT ![l] = groupClaims]
      /\ known' = [known EXCEPT ![l] = KnownKeys(a)]
  BY DEF Callback, At, tables
<1>2. Status[l] = "new" /\ Status' = [Status EXCEPT ![l] = "asked"]
  <2>1. "subject" \notin {"idle", "session", "failed"}
    OBVIOUS
  <2>2. TypeOK
    BY DEF DirInv
  <2>3. QED
    BY <1>1, <2>1, <2>2, StatusNow, StatusOf
<1>3. Fits' = [Fits EXCEPT ![l] = groupClaims \notin TooLong]
  <2>1. claims \in [Logins -> SUBSET Claims]
    BY DEF DirInv, TypeOK
  <2>2. QED
    BY <1>1, <2>1 DEF Fits
<1>4. UNCHANGED Given
  <2>1. pc \in [Logins -> Pc]
    BY DEF DirInv, TypeOK
  <2>2. QED
    BY <1>1, <2>1, GivenKept
<1>5. KnownKeys(a) =
        {k \in {"subject", "email"} : IF k = "subject" THEN Directory!HasSubject(a) ELSE Directory!HasEmail(a)}
  BY DEF KnownKeys, BySubject, ByEmail, Directory!HasSubject, Directory!HasEmail
<1>6. Directory!Ask(l, a, groupClaims \notin TooLong)
  BY <1>1, <1>2, <1>3, <1>4, <1>5 DEF Directory!Ask, Directory!Becomes
<1>7. QED
  BY <1>6 DEF Directory!Next

LEMMA DirReject ==
  ASSUME DirInv, NEW l \in Logins, Reject(l) PROVE Directory!Next
<1>1. /\ pc[l] = "idle" /\ pc' = [pc EXCEPT ![l] = "failed"]
      /\ UNCHANGED <<users, user, account, claims, known, faults>>
  BY DEF Reject, At, tables, local
<1>2. Status[l] = "new" /\ Status' = [Status EXCEPT ![l] = "failed"]
  BY <1>1, StatusNow, StatusOf DEF DirInv, Ended
<1>3. UNCHANGED Given
  <2>1. pc \in [Logins -> Pc]
    BY DEF DirInv, TypeOK
  <2>2. QED
    BY <1>1, <2>1, GivenKept
<1>4. Directory!Refuse(l)
  BY <1>1, <1>2, <1>3, Seen DEF Directory!Refuse, Directory!Becomes
<1>5. QED
  BY <1>4 DEF Directory!Next

\* A step within a login shows nothing.
LEMMA DirMove ==
  ASSUME DirInv, NEW l \in Logins, NEW s, s \notin Ended \cup {"idle"},
         pc[l] \notin Ended \cup {"idle"}, pc' = [pc EXCEPT ![l] = s],
         UNCHANGED <<users, account, claims, user, known, faults>>
  PROVE  Hidden
<1>1. pc \in [Logins -> Pc]
  BY DEF DirInv, TypeOK
<1>2. UNCHANGED Status
  <2>1. Status[l] = "asked"
    BY StatusNow
  <2>2. Status' = [Status EXCEPT ![l] = "asked"]
    <3>1. TypeOK /\ s \notin {"idle", "session", "failed"}
      BY DEF DirInv, Ended
    <3>2. QED
      BY <3>1, StatusOf
  <2>3. QED
    BY <2>1, <2>2 DEF Status
<1>3. UNCHANGED Given
  BY <1>1, GivenKept DEF Ended
<1>4. QED
  BY <1>2, <1>3, Seen DEF Hidden

\* The session is given for a user that the directory has for the account, or refused.
LEMMA DirAnswer ==
  ASSUME DirInv, NEW l \in Logins, pc[l] \notin Ended \cup {"idle"}, pc' = [pc EXCEPT ![l] = Encoded(l)],
         UNCHANGED <<users, account, claims, known, faults>>,
         NEW u \in users, Matches(u, account[l]), user' = [user EXCEPT ![l] = u.id],
         "subject" \in known[l] => u.subject = account[l].subject
  PROVE  Directory!Next
<1>0. /\ pc \in [Logins -> Pc] /\ user \in [Logins -> Logins \cup {None}] /\ TypeOK
      /\ Directory!Matches(u, account[l]) /\ Status[l] = "asked"
  BY MatchingRows, StatusNow DEF DirInv, TypeOK
<1>1. CASE claims[l] \notin TooLong
  <2>1. pc' = [pc EXCEPT ![l] = "session"] /\ Fits[l]
    BY <1>1 DEF Encoded, Fits
  <2>2. Status' = [Status EXCEPT ![l] = "in"]
    BY <1>0, <2>1, StatusOf
  <2>3. Given' = [Given EXCEPT ![l] = u.id]
    BY <1>0, <2>1 DEF Given
  <2>4. Directory!Answer(l)
    BY <1>0, <2>1, <2>2, <2>3, Seen DEF Directory!Answer, Directory!Becomes
  <2>5. QED
    BY <2>4 DEF Directory!Next
<1>2. CASE claims[l] \in TooLong
  <2>1. pc' = [pc EXCEPT ![l] = "failed"] /\ ~Fits[l]
    BY <1>2 DEF Encoded, Fits
  <2>2. Status' = [Status EXCEPT ![l] = "failed"]
    BY <1>0, <2>1, StatusOf
  <2>3. UNCHANGED Given
    BY <1>0, <2>1, GivenKept DEF Ended
  <2>4. Directory!TurnAway(l)
    BY <1>0, <2>1, <2>2, <2>3, Seen DEF Directory!TurnAway, Directory!Becomes
  <2>5. QED
    BY <2>4 DEF Directory!Next
<1>3. QED
  BY <1>1, <1>2

\* A lookup finds the user of the login, the one by the subject if the subject was known.
LEMMA DirLookup ==
  ASSUME DirInv, NEW l \in Logins, GetUserByOIDCSubject(l) \/ GetUserByEmail(l)
  PROVE  Directory!Next \/ Hidden
<1> DEFINE Hit(from, rows) == Found(l, from, rows)
           Miss(from, to, rows) == NotFound(l, from, to, rows)
<1>1. CASE Hit("subject", BySubject(account[l])) \/ Hit("email", ByEmail(account[l]))
  <2>1. /\ pc[l] \in {"subject", "email"} /\ pc' = [pc EXCEPT ![l] = Encoded(l)]
        /\ UNCHANGED <<users, account, claims, known, faults>>
    BY <1>1 DEF Found, At, tables
  <2>2. PICK u \in users : /\ user' = [user EXCEPT ![l] = u.id] /\ Matches(u, account[l])
                           /\ pc[l] = "subject" => u.subject = account[l].subject
    BY <1>1 DEF Found, At, BySubject, ByEmail, Matches
  <2>3. pc[l] = "email" => "subject" \notin known[l]
    BY DEF DirInv, KnownInv
  <2>4. QED
    BY <2>1, <2>2, <2>3, DirAnswer DEF Ended
<1>2. CASE \/ Miss("subject", "email", BySubject(account[l]))
           \/ Miss("email", "create", ByEmail(account[l]))
  <2>1. PICK s \in {"email", "create"} : pc' = [pc EXCEPT ![l] = s]
    BY <1>2 DEF NotFound, At
  <2>2. pc[l] \in {"subject", "email"} /\ UNCHANGED <<users, account, claims, user, known, faults>>
    BY <1>2 DEF NotFound, At, tables, local
  <2>3. QED
    BY <2>1, <2>2, DirMove DEF Ended
<1>3. QED
  BY <1>1, <1>2 DEF GetUserByOIDCSubject, GetUserByEmail

\* The insert enters the user, or another login has entered one since this one began.
LEMMA DirCreate ==
  ASSUME DirInv, NEW l \in Logins, CreateUser(l) PROVE Directory!Next
<1>1. /\ pc[l] = "create" /\ Status[l] = "asked" /\ known[l] = {}
      /\ pc \in [Logins -> Pc] /\ user \in [Logins -> Logins \cup {None}] /\ TypeOK
  BY StatusNow DEF CreateUser, At, DirInv, TypeOK, KnownInv, Ended
<1>2. CASE pc'[l] = "failed"
  <2>1. /\ pc' = [pc EXCEPT ![l] = "failed"] /\ UNCHANGED <<users, account, claims, user, known, faults>>
        /\ BySubject(account[l]) \cup ByEmail(account[l]) # {}
    BY <1>1, <1>2 DEF CreateUser, At, tables, local
  <2>2. \E u \in users : Directory!Matches(u, account[l]) /\ u.id # l
    <3>1. PICK u \in users : Directory!Matches(u, account[l])
      BY <2>1, MatchingRows
    <3>2. pc[u.id] # "create"
      BY <3>1 DEF DirInv, GroupInv, Early
    <3>3. QED
      BY <1>1, <3>1, <3>2
  <2>3. Status' = [Status EXCEPT ![l] = "failed"]
    BY <1>1, <2>1, StatusOf
  <2>4. UNCHANGED Given
    BY <1>1, <1>2, <2>1, GivenKept
  <2>5. Directory!Lose(l)
    BY <1>1, <2>1, <2>2, <2>3, <2>4, Seen DEF Directory!Lose, Directory!Becomes
  <2>6. QED
    BY <2>5 DEF Directory!Next
<1>3. CASE pc'[l] # "failed"
  <2>1. /\ pc' = [pc EXCEPT ![l] = "sync"] /\ users' = users \cup {Row(l)} /\ user' = [user EXCEPT ![l] = l]
        /\ UNCHANGED <<account, claims, known, faults>>
        /\ BySubject(account[l]) \cup ByEmail(account[l]) = {}
    BY <1>1, <1>3 DEF CreateUser, At, tables, local
  <2>2. \A u \in users : ~Directory!Matches(u, account[l])
    BY <2>1, MatchingRows
  <2>3. UNCHANGED Status
    <3>1. "sync" \notin {"idle", "session", "failed"}
      OBVIOUS
    <3>2. Status' = [Status EXCEPT ![l] = "asked"]
      BY <1>1, <2>1, <3>1, StatusOf
    <3>3. QED
      BY <1>1, <3>2 DEF Status
  <2>4. UNCHANGED Given
    BY <1>1, <2>1, GivenKept
  <2>5. Directory!Enter(l)
    BY <1>1, <2>1, <2>2, <2>3, <2>4, Seen DEF Directory!Enter, Row
  <2>6. QED
    BY <2>5 DEF Directory!Next
<1>4. QED
  BY <1>2, <1>3

\* A fault ends the logins under way that it hits, and nothing else is seen of it.
LEMMA DirBreak ==
  ASSUME DirInv, NEW L \in SUBSET Logins, \A l \in L : pc[l] \notin Ended \cup {"idle"},
         pc' = [l \in Logins |-> IF l \in L THEN "failed" ELSE pc[l]], Fault,
         UNCHANGED <<users, account, claims, user, known>>
  PROVE  Directory!Next
<1>1. \A l \in L : Status[l] = "asked"
  BY StatusNow
<1>2. Status' = [l \in Logins |-> IF l \in L THEN "failed" ELSE Status[l]]
  BY DEF Status
<1>3. UNCHANGED Given
  BY DEF Given, Ended
<1>4. faults' = faults + 1
  BY DEF Fault
<1>5. Directory!Break(L)
  BY <1>1, <1>2, <1>3, <1>4, Seen DEF Directory!Break
<1>6. QED
  BY <1>5 DEF Directory!Next

LEMMA DirLookupFails ==
  ASSUME DirInv, NEW l \in Logins, LookupFails(l) PROVE Directory!Next
<1>1. Fault /\ UNCHANGED <<users, account, claims, user, known>>
  BY DEF LookupFails, tables, local
<1>2. pc' = [q \in Logins |-> IF q \in {l} THEN "failed" ELSE pc[q]]
  BY DEF LookupFails, DirInv, TypeOK
<1>3. {l} \in SUBSET Logins /\ \A q \in {l} : pc[q] \notin Ended \cup {"idle"}
  BY DEF LookupFails, Ended
<1>4. QED
  BY <1>1, <1>2, <1>3, DirBreak

\* Whatever becomes of the groups is not seen.
LEMMA DirSync ==
  ASSUME DirInv, NEW l \in Logins,
         \/ \E c \in Claims : GetGroupByOIDCClaim(l, c)
         \/ CreateGroup(l) \/ AddGroupMember(l)
  PROVE  Hidden
<1>1. PICK s \in {"sync", "group", "member"} :
        /\ pc[l] \in {"sync", "group", "member"} /\ pc' = [pc EXCEPT ![l] = s]
        /\ UNCHANGED <<users, account, claims, user, known, faults>>
  BY DEF GetGroupByOIDCClaim, CreateGroup, AddGroupMember, At, tables, local
<1>2. s \notin Ended \cup {"idle"} /\ pc[l] \notin Ended \cup {"idle"}
  BY <1>1 DEF Ended
<1>3. QED
  BY <1>1, <1>2, DirMove

\* A failed statement of syncGroup is a fault that ends no login.
LEMMA DirSyncFails ==
  ASSUME DirInv, NEW l \in Logins, SyncFails(l) PROVE Directory!Next
<1>1. Fault /\ UNCHANGED <<users, account, claims, user, known>>
  BY DEF SyncFails, tables
<1>2. pc[l] \in {"sync", "group", "member"} /\ pc' = [pc EXCEPT ![l] = "sync"]
  BY DEF SyncFails, At
<1>3. UNCHANGED Status /\ UNCHANGED Given
  BY <1>1, <1>2 DEF Status, Given, DirInv, TypeOK
<1>4. faults' = faults + 1
  BY <1>1 DEF Fault
<1>5. Directory!Break({})
  <2>1. Status' = [q \in Logins |-> IF q \in {} THEN "failed" ELSE Status[q]]
    BY <1>3 DEF Status
  <2>2. QED
    BY <1>1, <1>3, <1>4, <2>1, Seen DEF Directory!Break
<1>6. QED
  BY <1>5 DEF Directory!Next

\* The user of a first session is the row this login has inserted.
LEMMA DirGiveSession ==
  ASSUME DirInv, NEW l \in Logins, GiveSession(l) PROVE Directory!Next
<1>1. /\ pc[l] = "sync" /\ pc' = [pc EXCEPT ![l] = Encoded(l)]
      /\ UNCHANGED <<users, account, claims, user, known, faults>>
  BY DEF GiveSession, At, tables, local
<1>2. user[l] = l /\ user \in [Logins -> Logins \cup {None}] /\ known[l] = {}
  BY <1>1 DEF DirInv, TypeOK, KnownInv, Ended
<1>3. PICK u \in users : u.id = user[l] /\ Matches(u, account[l])
  BY <1>2 DEF DirInv, UserInv
<1>4. user' = [user EXCEPT ![l] = u.id]
  BY <1>1, <1>2, <1>3
<1>5. pc[l] \notin Ended \cup {"idle"}
  BY <1>1 DEF Ended
<1>6. QED
  BY <1>1, <1>2, <1>3, <1>4, <1>5, DirAnswer

LEMMA DirCrash == DirInv /\ Crash => Directory!Next
<1> SUFFICES ASSUME DirInv, Crash PROVE Directory!Next
  OBVIOUS
<1> DEFINE L == {l \in Logins : pc[l] \notin Ended \cup {"idle"}}
<1>1. L \in SUBSET Logins /\ \A l \in L : pc[l] \notin Ended \cup {"idle"}
  OBVIOUS
<1>2. pc' = [l \in Logins |-> IF l \in L THEN "failed" ELSE pc[l]]
  BY DEF Crash
<1>3. Fault /\ UNCHANGED <<users, account, claims, user, known>>
  BY DEF Crash, tables, local
<1> HIDE DEF L
<1>4. QED
  BY <1>1, <1>2, <1>3, DirBreak

\* A step is one of the directory, or the directory does not see it.
LEMMA DirStep == DirInv /\ [Next]_vars => [Directory!Next]_(Directory!vars)
<1> SUFFICES ASSUME DirInv, [Next]_vars PROVE Directory!Next \/ Hidden
  BY Stutter
<1>1. ASSUME NEW l \in Logins, NEW a \in Accounts, NEW groupClaims \in SUBSET Claims, Callback(l, a, groupClaims)
      PROVE  Directory!Next
  BY <1>1, DirCallback
<1>2. ASSUME NEW l \in Logins, Reject(l) PROVE Directory!Next
  BY <1>2, DirReject
<1>3. ASSUME NEW l \in Logins, Step(l) PROVE Directory!Next \/ Hidden
  BY <1>3, DirLookup, DirCreate, DirLookupFails, DirSync, DirSyncFails, DirGiveSession DEF Step
<1>4. ASSUME Crash PROVE Directory!Next
  BY <1>4, DirCrash
<1>5. ASSUME UNCHANGED vars PROVE Hidden
  BY <1>5, Seen DEF Hidden, vars, tables, local
<1>6. QED
  BY <1>1, <1>2, <1>3, <1>4, <1>5 DEF Next

\* The statements of provisionUser, each atomic and none in a transaction, are together the one
\* step of UserDirectory that finds or creates the user, for any number of logins that interleave,
\* lose statements and die.
THEOREM ProvisionImplementsDirectory == Spec => ImplementsDirectory
<1>1. Init => Directory!Init
  <2>1. {} \notin TooLong
    OBVIOUS
  <2>2. ASSUME Init PROVE Fits = [l \in Logins |-> TRUE]
    <3>1. \A l \in Logins : claims[l] \notin TooLong
      BY <2>1, <2>2 DEF Init
    <3>2. \A l \in Logins : (claims[l] \notin TooLong) = TRUE
      BY <3>1
    <3>3. QED
      BY <3>2 DEF Fits
  <2>3. QED
    BY <2>2 DEF Init, Directory!Init, Status, Given
<1>2. Init => UserInv /\ KnownInv /\ GroupInv
  BY DEF Init, UserInv, KnownInv, Ended, KnownAccountsGetIn, GroupInv, Early
<1>3. DirInv /\ [Next]_vars => (UserInv /\ KnownInv /\ GroupInv)'
  BY UserStep, KnownStep, GroupStep DEF DirInv
<1>4. DirInv <=> TypeOK /\ UserInv /\ KnownInv /\ GroupInv
  BY DEF DirInv
<1>5. QED
  BY <1>1, <1>2, <1>3, <1>4, DirStep, TypeCorrect, PTL DEF Spec, ImplementsDirectory, Directory!Spec
=============================================================================
