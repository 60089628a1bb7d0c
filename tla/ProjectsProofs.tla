--------------------------- MODULE ProjectsProofs ---------------------------
(***************************************************************************)
(* Proofs about Projects, for any number of requests, projects and members.*)
(***************************************************************************)
EXTENDS Projects, SequenceTheorems, TLAPS

USE NoneAssumption, SubjectAssumption

\* Appending keeps what was there.
LEMMA AppendIndex ==
  ASSUME NEW S, NEW s \in Seq(S), NEW e \in S
  PROVE  /\ Append(s, e) \in Seq(S)
         /\ Len(s) \in Nat /\ DOMAIN s = 1..Len(s)
         /\ Len(Append(s, e)) = Len(s) + 1 /\ DOMAIN Append(s, e) = 1..(Len(s) + 1)
         /\ \A i \in 1..Len(s) : Append(s, e)[i] = s[i]
         /\ Append(s, e)[Len(s) + 1] = e
  BY AppendProperties, LenProperties

-----------------------------------------------------------------------------
LEMMA TypeInit == Init => TypeOK
  BY DEF Init, TypeOK, OneRole, Row

\* Upserting, removing and cascading keep the primary key of project_roles.
LEMMA RoleStep == TypeOK /\ [Next]_vars => OneRole'
<1> SUFFICES ASSUME OneRole, [Next]_vars PROVE OneRole'
  BY DEF TypeOK
<1>1. CASE roles' \subseteq roles
  BY <1>1 DEF OneRole
<1>2. ASSUME NEW r \in Requests, NEW p \in Ids, NEW s \in Subjects, NEW role \in Roles,
             SetProjectRole(r, p, s, role)
      PROVE  OneRole'
  <2> DEFINE new == [key |-> <<p, s>>, role |-> role]
  <2>1. roles' = roles \/ \A m \in roles' : (m \in roles /\ m.key # <<p, s>>) \/ m = new
    BY <1>2 DEF SetProjectRole, rows
  <2>2. new.key = <<p, s>> /\ new.role = role /\ <<p, s>> \in Ids \X Subjects
    OBVIOUS
  <2> HIDE DEF new
  <2>3. \A m \in roles' : m.key \in Ids \X Subjects /\ m.role \in Roles
    BY <2>1, <2>2 DEF OneRole
  <2>4. ASSUME NEW m \in roles', NEW n \in roles', m.key = n.key PROVE m = n
    BY <2>1, <2>2, <2>4 DEF OneRole
  <2>5. QED
    BY <2>3, <2>4 DEF OneRole
<1>3. ASSUME NEW r \in Requests, Step(r) PROVE OneRole'
  <2>1. CASE \E p \in Ids, s \in Subjects, role \in Roles : SetProjectRole(r, p, s, role)
    BY <2>1, <1>2
  <2>2. CASE ~\E p \in Ids, s \in Subjects, role \in Roles : SetProjectRole(r, p, s, role)
    <3>1. roles' \subseteq roles
      BY <1>3, <2>2 DEF Step, RejectBody, StatementFails, UpdateFails, UpdateProject, CreateProject, BeginUpdate,
         DeleteProject, GetProject, RemoveProjectRole, rows
    <3>2. QED
      BY <3>1, <1>1
  <2>3. QED
    BY <2>1, <2>2
<1>4. QED
  BY <1>1, <1>3 DEF Next, vars, rows

\* TypeOK without the roles.
Types ==
    /\ projects \in [Ids -> Row \cup {None}]
    /\ pc \in [Requests -> {"idle", "merge", "done"}]
    /\ id \in [Requests -> Ids \cup {None}] /\ given \in [Requests -> SUBSET Fields]
    /\ name \in [Requests -> Names \cup {None}]
    /\ copy \in [Requests -> Row \cup {None}]
    /\ answer \in [Requests -> {0, 200, 201, 400, 404, 500}]
    /\ deleted \subseteq Ids
    /\ writes \in [Ids -> Seq(Requests)] /\ seen \in [Requests -> SUBSET Requests]
    /\ \A r \in Requests : pc[r] = "merge" => id[r] # None /\ copy[r] # None

LEMMA TypeParts == TypeOK <=> OneRole /\ Types
  BY DEF TypeOK, Types

\* An answer ends its request and no other.
LEMMA ReplyTypes ==
  ASSUME Types, NEW r \in Requests, NEW from, NEW status \in {200, 201, 404, 500}, Reply(r, from, status)
  PROVE  /\ pc' \in [Requests -> {"idle", "merge", "done"}]
         /\ answer' \in [Requests -> {0, 200, 201, 400, 404, 500}]
         /\ \A q \in Requests : pc'[q] = "merge" => pc[q] = "merge"
<1>1. /\ pc \in [Requests -> {"idle", "merge", "done"}] /\ pc' = [pc EXCEPT ![r] = "done"]
      /\ answer \in [Requests -> {0, 200, 201, 400, 404, 500}] /\ answer' = [answer EXCEPT ![r] = status]
  BY DEF Types, Reply
<1>2. QED
  BY <1>1

LEMMA TypeStep == Types /\ [Next]_vars => Types'
<1> SUFFICES ASSUME Types, [Next]_vars PROVE Types'
  OBVIOUS
<1>0. /\ projects \in [Ids -> Row \cup {None}] /\ writes \in [Ids -> Seq(Requests)]
      /\ given \in [Requests -> SUBSET Fields] /\ name \in [Requests -> Names \cup {None}]
  BY DEF Types
<1>1. ASSUME NEW r \in Requests, RejectBody(r) \/ StatementFails(r) PROVE Types'
  <2>1. CASE RejectBody(r)
    BY <2>1 DEF RejectBody, Reply, Types, rows, local, history
  <2>2. CASE StatementFails(r)
    BY <2>2 DEF StatementFails, Reply, Types, rows, local, history
  <2>3. QED
    BY <1>1, <2>1, <2>2
<1>2. ASSUME NEW r \in Requests, UpdateFails(r) PROVE Types'
  BY <1>2 DEF UpdateFails, Reply, Types, rows, local, history
<1>3. ASSUME NEW r \in Requests, NEW fs \in SUBSET Fields, NEW n \in Names, UpdateProject(r, fs, n)
      PROVE  Types'
  <2>1. id[r] \in Ids /\ copy[r] \in Row
    BY <1>3 DEF UpdateProject, Types
  <2>2. Merge(r, fs) \in Row
    BY <2>1 DEF Merge, Row
  <2>3. projects' \in [Ids -> Row \cup {None}]
    BY <1>0, <1>3, <2>1, <2>2 DEF UpdateProject
  <2>4. writes[id[r]] \in Seq(Requests) /\ Append(writes[id[r]], r) \in Seq(Requests)
    BY <2>1, AppendIndex DEF Types
  <2>5. writes' \in [Ids -> Seq(Requests)]
    BY <1>0, <1>3, <2>1, <2>4 DEF UpdateProject
  <2>6. UNCHANGED <<roles, id, copy, deleted, seen>>
    BY <1>3 DEF UpdateProject
  <2>7. given' \in [Requests -> SUBSET Fields] /\ name' \in [Requests -> Names \cup {None}]
    BY <1>0, <1>3 DEF UpdateProject
  <2>8. Reply(r, "merge", 200) \/ Reply(r, "merge", 500)
    BY <1>3 DEF UpdateProject
  <2>9. /\ pc' \in [Requests -> {"idle", "merge", "done"}]
        /\ answer' \in [Requests -> {0, 200, 201, 400, 404, 500}]
        /\ \A q \in Requests : pc'[q] = "merge" => pc[q] = "merge"
    BY <2>8, ReplyTypes
  <2>10. /\ id' \in [Requests -> Ids \cup {None}] /\ copy' \in [Requests -> Row \cup {None}]
        /\ deleted' \subseteq Ids /\ seen' \in [Requests -> SUBSET Requests]
    BY <2>6 DEF Types
  <2>11. \A q \in Requests : pc'[q] = "merge" => id'[q] # None /\ copy'[q] # None
    BY <2>9, <2>6 DEF Types
  <2>12. QED
    BY <2>3, <2>5, <2>7, <2>9, <2>10, <2>11 DEF Types
<1>4. ASSUME NEW r \in Requests, NEW p \in Ids, NEW fs \in SUBSET Fields, NEW n \in Names,
             CreateProject(r, p, fs, n)
      PROVE  Types'
  <2> DEFINE row == [fld \in Fields |-> IF fld \in fs THEN r ELSE None]
  <2>1. row \in Row
    BY DEF Row
  <2>2. \/ projects' = [projects EXCEPT ![p] = row] /\ writes' = [writes EXCEPT ![p] = <<r>>]
        \/ UNCHANGED <<projects, writes>>
    BY <1>4 DEF CreateProject
  <2>3. projects' \in [Ids -> Row \cup {None}]
    <3> HIDE DEF row
    <3> QED BY <1>0, <2>1, <2>2
  <2>4. writes' \in [Ids -> Seq(Requests)]
    <3> HIDE DEF row
    <3>1. <<r>> \in Seq(Requests)
      OBVIOUS
    <3>2. QED
      BY <1>0, <2>2, <3>1
  <2>5. UNCHANGED <<roles, id, copy, deleted, seen>>
    BY <1>4 DEF CreateProject
  <2>6. given' \in [Requests -> SUBSET Fields] /\ name' \in [Requests -> Names \cup {None}]
    BY <1>0, <1>4 DEF CreateProject
  <2>7. Reply(r, "idle", 201) \/ Reply(r, "idle", 500)
    BY <1>4 DEF CreateProject
  <2>8. /\ pc' \in [Requests -> {"idle", "merge", "done"}]
        /\ answer' \in [Requests -> {0, 200, 201, 400, 404, 500}]
        /\ \A q \in Requests : pc'[q] = "merge" => pc[q] = "merge"
    BY <2>7, ReplyTypes
  <2>9. /\ id' \in [Requests -> Ids \cup {None}] /\ copy' \in [Requests -> Row \cup {None}]
        /\ deleted' \subseteq Ids /\ seen' \in [Requests -> SUBSET Requests]
    BY <2>5 DEF Types
  <2>10. \A q \in Requests : pc'[q] = "merge" => id'[q] # None /\ copy'[q] # None
    BY <2>8, <2>5 DEF Types
  <2>11. QED
    BY <2>3, <2>4, <2>6, <2>8, <2>9, <2>10 DEF Types
<1>5. ASSUME NEW r \in Requests, NEW p \in Ids, BeginUpdate(r, p) PROVE Types'
  <2>1. CASE Exists(p)
    <3>1. projects[p] \in Row /\ projects[p] # None /\ p # None
      BY <2>1 DEF Exists, Types
    <3>2. ToSet(writes[p]) \subseteq Requests
      BY DEF Types, ToSet
    <3>3. /\ pc' = [pc EXCEPT ![r] = "merge"] /\ id' = [id EXCEPT ![r] = p]
          /\ copy' = [copy EXCEPT ![r] = projects[p]] /\ seen' = [seen EXCEPT ![r] = ToSet(writes[p])]
          /\ UNCHANGED <<projects, roles, given, name, answer, deleted, writes>>
      BY <1>5, <2>1 DEF BeginUpdate, rows
    <3>4. QED
      BY <3>1, <3>2, <3>3 DEF Types
  <2>2. CASE ~Exists(p)
    <3>1. Reply(r, "idle", 404) /\ UNCHANGED <<rows, local, history>>
      BY <1>5, <2>2 DEF BeginUpdate
    <3>2. QED
      BY <3>1 DEF Reply, Types, rows, local, history
  <2>3. QED
    BY <2>1, <2>2
<1>6. ASSUME NEW r \in Requests, NEW p \in Ids, DeleteProject(r, p) PROVE Types'
  BY <1>6 DEF DeleteProject, Reply, Types, local
<1>7. ASSUME NEW r \in Requests, NEW p \in Ids, GetProject(r, p) PROVE Types'
  BY <1>7 DEF GetProject, Reply, Types, rows, local, history
<1>8. ASSUME NEW r \in Requests, NEW p \in Ids, NEW s \in Subjects, NEW role \in Roles,
             SetProjectRole(r, p, s, role)
      PROVE  Types'
  <2>1. /\ Reply(r, "idle", 201) \/ Reply(r, "idle", 500)
        /\ UNCHANGED <<projects, local, history>>
    BY <1>8 DEF SetProjectRole, rows
  <2>2. /\ pc' \in [Requests -> {"idle", "merge", "done"}]
        /\ answer' \in [Requests -> {0, 200, 201, 400, 404, 500}]
        /\ \A q \in Requests : pc'[q] = "merge" => pc[q] = "merge"
    BY <2>1, ReplyTypes
  <2>3. QED
    BY <2>1, <2>2 DEF Types, local, history
<1>9. ASSUME NEW r \in Requests, NEW p \in Ids, NEW s \in Subjects, NEW typed \in BOOLEAN,
             RemoveProjectRole(r, p, s, typed)
      PROVE  Types'
  BY <1>9 DEF RemoveProjectRole, Reply, Types, local, history
<1>10. ASSUME UNCHANGED vars PROVE Types'
  BY <1>10 DEF Types, vars, rows, local, history
<1>11. QED
  BY <1>1, <1>2, <1>3, <1>4, <1>5, <1>6, <1>7, <1>8, <1>9, <1>10 DEF Next, Step

\* In every reachable state the tables and the requests have the values the code gives them.
THEOREM TypeCorrect == Spec => []TypeOK
<1>1. TypeOK /\ [Next]_vars => TypeOK'
  <2>1. TypeOK' <=> OneRole' /\ Types'
    BY DEF TypeOK, Types
  <2>2. QED
    BY <2>1, TypeParts, RoleStep, TypeStep
<1>2. QED
  BY <1>1, TypeInit, PTL DEF Spec
-----------------------------------------------------------------------------
(* What a request has read stays true of the writes it has seen.           *)

Gone == \A p \in deleted : projects[p] = None

\* The project of an update under way was there when it began.
MergeOK == \A r \in Requests : pc[r] = "merge" => Exists(id[r]) \/ id[r] \in deleted

\* Who has written, and who has been seen, has ended.
DoneOK ==
    /\ \A p \in Ids : \A i \in DOMAIN writes[p] : pc[writes[p][i]] = "done"
    /\ \A r \in Requests : \A w \in seen[r] : pc[w] = "done"

\* The j-th write of project p may have undone the i-th in this field.
MayUndo(p, i, j, fld) == fld \in given[writes[p][j]] \/ writes[p][i] \notin seen[writes[p][j]]

\* The copy of an update under way has what the writes it has seen gave, as far as nobody undid it.
CopyOK ==
    \A r \in Requests : pc[r] = "merge" =>
        \A i \in DOMAIN writes[id[r]] : \A fld \in given[writes[id[r]][i]] :
            writes[id[r]][i] \in seen[r] =>
                \/ copy[r][fld] = writes[id[r]][i]
                \/ \E j \in i + 1 .. Len(writes[id[r]]) : MayUndo(id[r], i, j, fld)

WriteInv == Gone /\ MergeOK /\ DoneOK /\ CopyOK /\ LossNeedsOverlap

LEMMA WriteInit == Init => WriteInv
  BY DEF Init, WriteInv, Gone, MergeOK, DoneOK, CopyOK, LossNeedsOverlap, Exists

\* A step that writes no row but may remove one.
LEMMA QuietStep ==
  ASSUME Types, WriteInv, UNCHANGED <<id, given, copy, writes, seen>>,
         \A p \in Ids : projects'[p] = projects[p] \/ (projects'[p] = None /\ (Exists(p) => p \in deleted')),
         deleted \subseteq deleted', Gone',
         \A q \in Requests : (pc'[q] = "merge" => pc[q] = "merge") /\ (pc[q] = "done" => pc'[q] = "done")
  PROVE  WriteInv'
<1>1. /\ id \in [Requests -> Ids \cup {None}] /\ writes \in [Ids -> Seq(Requests)]
      /\ seen \in [Requests -> SUBSET Requests]
      /\ \A q \in Requests : pc[q] = "merge" => id[q] \in Ids
  BY DEF Types
<1>2. MergeOK'
  BY <1>1 DEF WriteInv, MergeOK, Exists
<1>3. DoneOK'
  BY <1>1 DEF WriteInv, DoneOK
<1>4. CopyOK'
  BY <1>1 DEF WriteInv, CopyOK, MayUndo
<1>5. LossNeedsOverlap'
  BY <1>1 DEF WriteInv, LossNeedsOverlap, Exists
<1>6. QED
  BY <1>2, <1>3, <1>4, <1>5 DEF WriteInv

\* handleUpdateProject reads the row: what it has seen is kept in it, as LossNeedsOverlap says.
LEMMA ReadStep ==
  ASSUME Types, WriteInv, NEW r \in Requests, NEW p \in Ids, Exists(p), BeginUpdate(r, p)
  PROVE  WriteInv'
<1>1. /\ pc \in [Requests -> {"idle", "merge", "done"}] /\ pc[r] = "idle" /\ pc' = [pc EXCEPT ![r] = "merge"]
      /\ id \in [Requests -> Ids \cup {None}] /\ id' = [id EXCEPT ![r] = p]
      /\ copy \in [Requests -> Row \cup {None}] /\ copy' = [copy EXCEPT ![r] = projects[p]]
      /\ seen \in [Requests -> SUBSET Requests] /\ seen' = [seen EXCEPT ![r] = ToSet(writes[p])]
      /\ writes \in [Ids -> Seq(Requests)]
      /\ UNCHANGED <<projects, given, deleted, writes>>
  BY DEF BeginUpdate, Reply, rows, Types
<1>2. \A q \in Requests : pc[q] = "merge" => id[q] \in Ids
  BY DEF Types
<1>3. \A q \in Ids : \A i \in DOMAIN writes[q] : writes[q][i] \in Requests /\ writes[q][i] # r
  BY <1>1 DEF WriteInv, DoneOK
<1>4. \A q \in Ids : \A i, j \in DOMAIN writes[q] : \A fld \in Fields :
        MayUndo(q, i, j, fld)' <=> MayUndo(q, i, j, fld)
  BY <1>1, <1>3 DEF MayUndo
<1>5. \A q \in Requests : given[q] \subseteq Fields
  BY DEF Types
<1>6. Gone' /\ MergeOK'
  BY <1>1, <1>2 DEF WriteInv, Gone, MergeOK, Exists
<1>7. DoneOK'
  <2>1. \A w \in ToSet(writes[p]) : pc[w] = "done" /\ w \in Requests
    BY <1>1, <1>3 DEF WriteInv, DoneOK, ToSet
  <2>2. QED
    BY <1>1, <2>1 DEF WriteInv, DoneOK
<1>8. ASSUME NEW q \in Ids, Exists(q), NEW i \in DOMAIN writes[q], NEW fld \in given[writes[q][i]]
      PROVE  \/ projects[q][fld] = writes[q][i]
             \/ \E j \in i + 1 .. Len(writes[q]) : MayUndo(q, i, j, fld)'
  <2>1. \/ projects[q][fld] = writes[q][i]
        \/ \E j \in i + 1 .. Len(writes[q]) : MayUndo(q, i, j, fld)
    BY <1>8 DEF WriteInv, LossNeedsOverlap, MayUndo
  <2>2. \A j \in i + 1 .. Len(writes[q]) : j \in DOMAIN writes[q]
    BY <1>1, LenProperties
  <2>3. fld \in Fields
    BY <1>3, <1>5
  <2>4. QED
    BY <1>4, <2>1, <2>2, <2>3
<1>9. LossNeedsOverlap'
  BY <1>1, <1>8 DEF LossNeedsOverlap, Exists, MayUndo
<1>10. CopyOK'
  <2>1. ASSUME NEW q \in Requests, NEW o \in Ids, pc'[q] = "merge", o = id'[q],
               NEW i \in DOMAIN writes[o], NEW fld \in given[writes[o][i]],
               writes[o][i] \in seen'[q]
        PROVE  \/ copy'[q][fld] = writes[o][i]
               \/ \E j \in i + 1 .. Len(writes[o]) : MayUndo(o, i, j, fld)'
    <3>1. CASE q = r
      <4>1. o = p /\ copy'[q] = projects[p]
        BY <1>1, <2>1, <3>1
      <4>2. QED
        BY <1>8, <2>1, <4>1
    <3>2. CASE q # r
      <4>1. pc[q] = "merge" /\ o = id[q] /\ copy'[q] = copy[q] /\ seen'[q] = seen[q]
        BY <1>1, <2>1, <3>2
      <4>2. \/ copy[q][fld] = writes[o][i]
            \/ \E j \in i + 1 .. Len(writes[o]) : MayUndo(o, i, j, fld)
        BY <2>1, <4>1 DEF WriteInv, CopyOK
      <4>3. \A j \in i + 1 .. Len(writes[o]) : j \in DOMAIN writes[o]
        BY <1>1, <2>1, LenProperties
      <4>4. fld \in Fields
        BY <1>3, <1>5, <2>1
      <4>5. QED
        BY <1>4, <2>1, <4>1, <4>2, <4>3, <4>4
    <3>3. QED
      BY <3>1, <3>2
  <2>2. \A q \in Requests : pc'[q] = "merge" => id'[q] \in Ids
    BY <1>1, <1>2
  <2>3. ASSUME NEW q \in Requests, pc'[q] = "merge",
               NEW i \in DOMAIN writes'[id'[q]], NEW fld \in given'[writes'[id'[q]][i]],
               writes'[id'[q]][i] \in seen'[q]
        PROVE  \/ copy'[q][fld] = writes'[id'[q]][i]
               \/ \E j \in i + 1 .. Len(writes'[id'[q]]) :
                    \/ fld \in given'[writes'[id'[q]][j]]
                    \/ writes'[id'[q]][i] \notin seen'[writes'[id'[q]][j]]
    <3>1. PICK o \in Ids : o = id'[q]
      BY <2>2, <2>3
    <3>2. writes' = writes /\ given' = given
      BY <1>1
    <3>3. QED
      BY <2>1, <2>3, <3>1, <3>2 DEF MayUndo
  <2>4. QED
    BY <2>3 DEF CopyOK, MayUndo
<1>11. QED
  BY <1>6, <1>7, <1>9, <1>10 DEF WriteInv

\* handleCreateProject writes a row nobody has read.
LEMMA CreateStep ==
  ASSUME Types, WriteInv, NEW r \in Requests, NEW p \in Ids, NEW fs \in SUBSET Fields,
         pc[r] = "idle", pc' = [pc EXCEPT ![r] = "done"], ~Exists(p), p \notin deleted,
         projects' = [projects EXCEPT ![p] = [fld \in Fields |-> IF fld \in fs THEN r ELSE None]],
         writes' = [writes EXCEPT ![p] = <<r>>], given' = [given EXCEPT ![r] = fs],
         UNCHANGED <<id, copy, deleted, seen>>
  PROVE  WriteInv'
<1> DEFINE row == [fld \in Fields |-> IF fld \in fs THEN r ELSE None]
<1>1. /\ pc \in [Requests -> {"idle", "merge", "done"}] /\ projects \in [Ids -> Row \cup {None}]
      /\ id \in [Requests -> Ids \cup {None}] /\ writes \in [Ids -> Seq(Requests)]
      /\ given \in [Requests -> SUBSET Fields] /\ seen \in [Requests -> SUBSET Requests]
      /\ deleted \subseteq Ids
  BY DEF Types
<1>2. \A q \in Requests : pc[q] = "merge" => id[q] \in Ids
  BY DEF Types
<1>3. \A q \in Ids : \A i \in DOMAIN writes[q] : writes[q][i] \in Requests /\ writes[q][i] # r
  BY <1>1 DEF WriteInv, DoneOK
<1>4. row \in Row /\ row # None
  BY DEF Row
<1>5. projects' = [projects EXCEPT ![p] = row]
  OBVIOUS
<1>6. \A fld \in fs : row[fld] = r
  OBVIOUS
<1> HIDE DEF row
<1>7. \A q \in Requests : pc[q] = "merge" => id[q] # p
  BY DEF WriteInv, MergeOK
<1>8. <<r>> \in Seq(Requests) /\ DOMAIN <<r>> = {1} /\ <<r>>[1] = r
  OBVIOUS
<1>9. \A q \in Ids \ {p} : writes'[q] = writes[q] /\ projects'[q] = projects[q]
  BY <1>1, <1>5
<1>10. \A q \in Requests \ {r} : given'[q] = given[q]
  BY <1>1
<1>11. Gone' /\ MergeOK'
  BY <1>1, <1>2, <1>4, <1>5, <1>7, <1>9 DEF WriteInv, Gone, MergeOK, Exists
<1>12. DoneOK'
  BY <1>1, <1>8 DEF WriteInv, DoneOK
<1>13. LossNeedsOverlap'
  <2>1. ASSUME NEW q \in Ids, Exists(q)', NEW i \in DOMAIN writes'[q], NEW fld \in given'[writes'[q][i]]
        PROVE  \/ projects'[q][fld] = writes'[q][i]
               \/ \E j \in i + 1 .. Len(writes'[q]) : MayUndo(q, i, j, fld)'
    <3>1. CASE q = p
      BY <1>1, <1>5, <1>6, <1>8, <2>1, <3>1
    <3>2. CASE q # p
      <4>1. writes'[q] = writes[q] /\ projects'[q] = projects[q]
        BY <1>9, <3>2
      <4>2. \A j \in i + 1 .. Len(writes[q]) : j \in DOMAIN writes[q]
        BY <1>1, <2>1, <4>1, LenProperties
      <4>3. \/ projects[q][fld] = writes[q][i]
            \/ \E j \in i + 1 .. Len(writes[q]) : MayUndo(q, i, j, fld)
        BY <1>3, <1>10, <2>1, <4>1 DEF WriteInv, LossNeedsOverlap, MayUndo, Exists
      <4>4. QED
        BY <1>3, <1>10, <2>1, <4>1, <4>2, <4>3 DEF MayUndo
    <3>3. QED
      BY <3>1, <3>2
  <2>2. QED
    BY <2>1 DEF LossNeedsOverlap, MayUndo
<1>14. CopyOK'
  <2>1. ASSUME NEW q \in Requests, pc'[q] = "merge",
               NEW i \in DOMAIN writes'[id[q]], NEW fld \in given'[writes'[id[q]][i]],
               writes'[id[q]][i] \in seen[q]
        PROVE  \/ copy[q][fld] = writes'[id[q]][i]
               \/ \E j \in i + 1 .. Len(writes'[id[q]]) : MayUndo(id[q], i, j, fld)'
    <3>1. pc[q] = "merge" /\ id[q] \in Ids \ {p}
      BY <1>1, <1>2, <1>7, <2>1
    <3>2. writes'[id[q]] = writes[id[q]]
      BY <1>9, <3>1
    <3>3. \A j \in i + 1 .. Len(writes[id[q]]) : j \in DOMAIN writes[id[q]]
      BY <1>1, <2>1, <3>1, <3>2, LenProperties
    <3>4. \/ copy[q][fld] = writes[id[q]][i]
          \/ \E j \in i + 1 .. Len(writes[id[q]]) : MayUndo(id[q], i, j, fld)
      BY <1>3, <1>10, <2>1, <3>1, <3>2 DEF WriteInv, CopyOK
    <3>5. QED
      BY <1>3, <1>10, <2>1, <3>1, <3>2, <3>3, <3>4 DEF MayUndo
  <2>2. QED
    BY <2>1 DEF CopyOK, MayUndo
<1>15. QED
  BY <1>11, <1>12, <1>13, <1>14 DEF WriteInv

\* The UPDATE: what it loses of the row is what its copy had not seen.
LEMMA StoreStep ==
  ASSUME Types, WriteInv, NEW r \in Requests, NEW fs \in SUBSET Fields, NEW p \in Ids, p = id[r],
         pc[r] = "merge", pc' = [pc EXCEPT ![r] = "done"], Exists(p),
         projects' = [projects EXCEPT ![p] = Merge(r, fs)],
         writes' = [writes EXCEPT ![p] = Append(@, r)], given' = [given EXCEPT ![r] = fs],
         UNCHANGED <<id, copy, deleted, seen>>
  PROVE  WriteInv'
<1> DEFINE row == Merge(r, fs)
<1>1. /\ pc \in [Requests -> {"idle", "merge", "done"}] /\ projects \in [Ids -> Row \cup {None}]
      /\ id \in [Requests -> Ids \cup {None}] /\ writes \in [Ids -> Seq(Requests)]
      /\ given \in [Requests -> SUBSET Fields] /\ seen \in [Requests -> SUBSET Requests]
      /\ deleted \subseteq Ids
  BY DEF Types
<1>2. copy[r] \in Row /\ \A q \in Requests : pc[q] = "merge" => id[q] \in Ids
  BY DEF Types
<1>3. \A q \in Ids : \A i \in DOMAIN writes[q] : writes[q][i] \in Requests /\ writes[q][i] # r
  BY <1>1 DEF WriteInv, DoneOK
<1>4. row \in Row /\ row # None
  BY <1>2 DEF Merge, Row
<1>5. \A fld \in Fields : row[fld] = IF fld \in fs THEN r ELSE copy[r][fld]
  BY DEF Merge
<1>6. projects' = [projects EXCEPT ![p] = row]
  OBVIOUS
<1>k. PICK k \in Nat : k = Len(writes[p])
  BY <1>1, LenProperties
<1>7. /\ writes[p] \in Seq(Requests) /\ writes'[p] = Append(writes[p], r)
      /\ DOMAIN writes[p] = 1..k /\ Len(writes'[p]) = k + 1 /\ DOMAIN writes'[p] = 1..(k + 1)
      /\ writes'[p][k + 1] = r /\ \A i \in 1..k : writes'[p][i] = writes[p][i]
  <2>1. writes[p] \in Seq(Requests) /\ writes'[p] = Append(writes[p], r)
    BY <1>1
  <2>2. QED
    BY <1>k, <2>1, AppendIndex
<1> HIDE DEF row
<1>8. \A q \in Ids \ {p} : writes'[q] = writes[q] /\ projects'[q] = projects[q]
  BY <1>1, <1>6
<1>9. given'[r] = fs /\ \A q \in Requests \ {r} : given'[q] = given[q]
  BY <1>1
\* The writes that were there may undo each other as before; the new one may undo what it has
\* not seen and what it gives.
<1>10. ASSUME NEW q \in Ids, NEW i \in DOMAIN writes[q], NEW j \in DOMAIN writes[q], NEW fld
       PROVE  /\ writes'[q][i] = writes[q][i] /\ given'[writes'[q][i]] = given[writes[q][i]]
              /\ MayUndo(q, i, j, fld) => MayUndo(q, i, j, fld)'
  <2>1. writes'[q][i] = writes[q][i] /\ writes'[q][j] = writes[q][j]
    BY <1>7, <1>8
  <2>2. QED
    BY <1>3, <1>9, <2>1 DEF MayUndo
<1>11. \A i \in DOMAIN writes[p], fld \in Fields :
         fld \in fs \/ writes[p][i] \notin seen[r] => MayUndo(p, i, k + 1, fld)'
  BY <1>7, <1>9 DEF MayUndo
<1>12. Gone' /\ MergeOK'
  BY <1>1, <1>2, <1>4, <1>6, <1>8 DEF WriteInv, Gone, MergeOK, Exists
<1>13. DoneOK'
  <2>1. ASSUME NEW q \in Ids, NEW i \in DOMAIN writes'[q] PROVE pc'[writes'[q][i]] = "done"
    <3>1. CASE q = p /\ i = k + 1
      BY <1>1, <1>7, <3>1
    <3>2. CASE ~(q = p /\ i = k + 1)
      <4>1. i \in DOMAIN writes[q] /\ writes'[q][i] = writes[q][i]
        BY <1>7, <1>8, <2>1, <3>2
      <4>2. QED
        BY <1>1, <1>3, <4>1 DEF WriteInv, DoneOK
    <3>3. QED
      BY <3>1, <3>2
  <2>2. \A q \in Requests : \A w \in seen[q] : pc'[w] = "done"
    BY <1>1 DEF WriteInv, DoneOK
  <2>3. QED
    BY <2>1, <2>2 DEF DoneOK
<1>14. LossNeedsOverlap'
  <2>1. ASSUME NEW q \in Ids, Exists(q)', NEW i \in DOMAIN writes'[q], NEW fld \in given'[writes'[q][i]]
        PROVE  \/ projects'[q][fld] = writes'[q][i]
               \/ \E j \in i + 1 .. Len(writes'[q]) : MayUndo(q, i, j, fld)'
    <3>1. CASE q = p /\ i = k + 1
      <4>1. fld \in fs /\ fld \in Fields /\ writes'[q][i] = r
        BY <1>7, <1>9, <2>1, <3>1
      <4>2. QED
        BY <1>1, <1>5, <1>6, <3>1, <4>1
    <3>2. CASE q = p /\ i # k + 1
      <4>1. i \in 1..k /\ i \in DOMAIN writes[p] /\ writes'[p][i] = writes[p][i] /\ fld \in given[writes[p][i]]
        <5>1. i \in 1..k /\ i \in DOMAIN writes[p]
          BY <1>7, <2>1, <3>2
        <5>2. writes'[p][i] = writes[p][i] /\ given'[writes[p][i]] = given[writes[p][i]]
          BY <1>3, <1>7, <1>9, <5>1
        <5>3. fld \in given'[writes'[p][i]]
          BY <2>1, <3>2
        <5>4. QED
          BY <5>1, <5>2, <5>3
      <4>2. fld \in Fields
        BY <1>1, <1>3, <4>1
      <4>3. CASE fld \in fs \/ writes[p][i] \notin seen[r]
        <5>1. MayUndo(p, i, k + 1, fld)'
          BY <1>11, <4>1, <4>2, <4>3
        <5>2. k + 1 \in i + 1 .. Len(writes'[p])
          BY <1>7, <4>1
        <5>3. QED
          BY <3>2, <5>1, <5>2
      <4>4. CASE fld \notin fs /\ writes[p][i] \in seen[r]
        <5>1. \/ copy[r][fld] = writes[p][i]
              \/ \E j \in i + 1 .. k : MayUndo(p, i, j, fld)
          BY <1>k, <4>1, <4>4 DEF WriteInv, CopyOK
        <5>2. projects'[p][fld] = copy[r][fld]
          BY <1>1, <1>5, <1>6, <4>2, <4>4
        <5>3. \A j \in i + 1 .. k : j \in DOMAIN writes[p] /\ j \in i + 1 .. k + 1
          BY <1>7, <4>1
        <5>4. QED
          BY <1>7, <1>10, <3>2, <4>1, <5>1, <5>2, <5>3
      <4>5. QED
        BY <4>3, <4>4
    <3>3. CASE q # p
      <4>1. writes'[q] = writes[q] /\ projects'[q] = projects[q] /\ i \in DOMAIN writes[q] /\ fld \in given[writes[q][i]]
        BY <1>8, <1>10, <2>1, <3>3
      <4>2. \A j \in i + 1 .. Len(writes[q]) : j \in DOMAIN writes[q]
        BY <1>1, <4>1, LenProperties
      <4>3. \/ projects[q][fld] = writes[q][i]
            \/ \E j \in i + 1 .. Len(writes[q]) : MayUndo(q, i, j, fld)
        BY <2>1, <4>1 DEF WriteInv, LossNeedsOverlap, MayUndo, Exists
      <4>4. QED
        BY <1>10, <4>1, <4>2, <4>3
    <3>4. QED
      BY <3>1, <3>2, <3>3
  <2>2. QED
    BY <2>1 DEF LossNeedsOverlap, MayUndo
<1>15. CopyOK'
  <2>1. ASSUME NEW q \in Requests, NEW o \in Ids, pc'[q] = "merge", o = id[q],
               NEW i \in DOMAIN writes'[o], NEW fld \in given'[writes'[o][i]],
               writes'[o][i] \in seen[q]
        PROVE  \/ copy[q][fld] = writes'[o][i]
               \/ \E j \in i + 1 .. Len(writes'[o]) : MayUndo(o, i, j, fld)'
    <3>1. pc[q] = "merge" /\ r \notin seen[q]
      BY <1>1, <2>1 DEF WriteInv, DoneOK
    <3>2. i \in DOMAIN writes[o]
      BY <1>7, <1>8, <2>1, <3>1
    <3>3. writes'[o][i] = writes[o][i] /\ fld \in given[writes[o][i]]
      BY <1>10, <2>1, <3>2
    <3>4. \/ copy[q][fld] = writes[o][i]
          \/ \E j \in i + 1 .. Len(writes[o]) : MayUndo(o, i, j, fld)
      BY <2>1, <3>1, <3>2, <3>3 DEF WriteInv, CopyOK
    <3>5. \A j \in i + 1 .. Len(writes[o]) : j \in DOMAIN writes[o] /\ j \in i + 1 .. Len(writes'[o])
      <4>1. Len(writes[o]) \in Nat /\ DOMAIN writes[o] = 1..Len(writes[o]) /\ i \in 1..Len(writes[o])
        BY <1>1, <3>2, LenProperties
      <4>2. Len(writes'[o]) = Len(writes[o]) \/ Len(writes'[o]) = Len(writes[o]) + 1
        BY <1>k, <1>7, <1>8
      <4>3. QED
        BY <4>1, <4>2
    <3>6. QED
      BY <1>10, <3>2, <3>3, <3>4, <3>5
  <2>2. \A q \in Requests : pc'[q] = "merge" => id[q] \in Ids
    BY <1>1, <1>2
  <2>3. ASSUME NEW q \in Requests, pc'[q] = "merge",
               NEW i \in DOMAIN writes'[id'[q]], NEW fld \in given'[writes'[id'[q]][i]],
               writes'[id'[q]][i] \in seen'[q]
        PROVE  \/ copy'[q][fld] = writes'[id'[q]][i]
               \/ \E j \in i + 1 .. Len(writes'[id'[q]]) :
                    \/ fld \in given'[writes'[id'[q]][j]]
                    \/ writes'[id'[q]][i] \notin seen'[writes'[id'[q]][j]]
    BY <2>1, <2>2, <2>3 DEF MayUndo
  <2>4. QED
    BY <2>3 DEF CopyOK, MayUndo
<1>16. QED
  BY <1>12, <1>13, <1>14, <1>15 DEF WriteInv

LEMMA WriteStep == Types /\ WriteInv /\ [Next]_vars => WriteInv'
<1> SUFFICES ASSUME Types, WriteInv, [Next]_vars PROVE WriteInv'
  OBVIOUS
<1>0. /\ pc \in [Requests -> {"idle", "merge", "done"}] /\ projects \in [Ids -> Row \cup {None}]
      /\ deleted \subseteq Ids /\ Gone
  BY DEF Types, WriteInv
\* An answer that leaves the tables of projects alone.
<1>1. ASSUME NEW r \in Requests, NEW from, NEW status, Reply(r, from, status),
             UNCHANGED <<projects, id, given, copy, history>>
      PROVE  WriteInv'
  <2>1. /\ Gone' /\ UNCHANGED <<deleted, writes, seen>>
        /\ \A q \in Requests : (pc'[q] = "merge" => pc[q] = "merge") /\ (pc[q] = "done" => pc'[q] = "done")
    BY <1>0, <1>1 DEF Reply, Gone, history
  <2>2. QED
    BY <1>1, <2>1, QuietStep
<1>2. ASSUME NEW r \in Requests, RejectBody(r) \/ StatementFails(r) \/ UpdateFails(r) PROVE WriteInv'
  BY <1>1, <1>2 DEF RejectBody, StatementFails, UpdateFails, rows, local
<1>3. ASSUME NEW r \in Requests, NEW fs \in SUBSET Fields, NEW n \in Names, UpdateProject(r, fs, n)
      PROVE  WriteInv'
  <2>1. id[r] \in Ids
    BY <1>3 DEF UpdateProject, Types
  <2>2. PICK p \in Ids : p = id[r]
    BY <2>1
  <2>3. CASE /\ Exists(id[r]) /\ Reply(r, "merge", 200)
             /\ projects' = [projects EXCEPT ![id[r]] = Merge(r, fs)]
             /\ writes' = [writes EXCEPT ![id[r]] = Append(@, r)]
             /\ given' = [given EXCEPT ![r] = fs]
    BY <1>3, <2>2, <2>3, StoreStep DEF UpdateProject, Reply
  <2>4. CASE /\ Reply(r, "merge", 500) \/ Reply(r, "merge", 200)
             /\ UNCHANGED <<projects, writes, given>>
    BY <1>1, <1>3, <2>4 DEF UpdateProject, history
  <2>5. QED
    BY <1>3, <2>3, <2>4 DEF UpdateProject
<1>4. ASSUME NEW r \in Requests, NEW p \in Ids, NEW fs \in SUBSET Fields, NEW n \in Names,
             CreateProject(r, p, fs, n)
      PROVE  WriteInv'
  <2>1. CASE /\ Reply(r, "idle", 201)
             /\ projects' = [projects EXCEPT ![p] = [fld \in Fields |-> IF fld \in fs THEN r ELSE None]]
             /\ writes' = [writes EXCEPT ![p] = <<r>>]
             /\ given' = [given EXCEPT ![r] = fs]
    BY <1>4, <2>1, CreateStep DEF CreateProject, Reply
  <2>2. CASE Reply(r, "idle", 500) /\ UNCHANGED <<projects, writes, given>>
    BY <1>1, <1>4, <2>2 DEF CreateProject, history
  <2>3. QED
    BY <1>4, <2>1, <2>2 DEF CreateProject
<1>5. ASSUME NEW r \in Requests, NEW p \in Ids, BeginUpdate(r, p) PROVE WriteInv'
  <2>1. CASE Exists(p)
    BY <1>5, <2>1, ReadStep
  <2>2. CASE ~Exists(p)
    BY <1>1, <1>5, <2>2 DEF BeginUpdate, rows, local
  <2>3. QED
    BY <2>1, <2>2
<1>6. ASSUME NEW r \in Requests, NEW p \in Ids, DeleteProject(r, p) PROVE WriteInv'
  <2>1. /\ \A q \in Requests : (pc'[q] = "merge" => pc[q] = "merge") /\ (pc[q] = "done" => pc'[q] = "done")
        /\ deleted \subseteq deleted' /\ Gone'
        /\ \A q \in Ids : projects'[q] = projects[q] \/ (projects'[q] = None /\ (Exists(q) => q \in deleted'))
    BY <1>0, <1>6 DEF DeleteProject, Reply, Gone, Exists
  <2>2. QED
    BY <1>6, <2>1, QuietStep DEF DeleteProject, local
<1>7. ASSUME NEW r \in Requests, NEW p \in Ids, GetProject(r, p) PROVE WriteInv'
  BY <1>1, <1>7 DEF GetProject, rows, local
<1>8. ASSUME NEW r \in Requests, NEW p \in Ids, NEW s \in Subjects, NEW role \in Roles,
             SetProjectRole(r, p, s, role)
      PROVE  WriteInv'
  BY <1>1, <1>8 DEF SetProjectRole, rows, local
<1>9. ASSUME NEW r \in Requests, NEW p \in Ids, NEW s \in Subjects, NEW typed \in BOOLEAN,
             RemoveProjectRole(r, p, s, typed)
      PROVE  WriteInv'
  BY <1>1, <1>9 DEF RemoveProjectRole, local
<1>10. ASSUME UNCHANGED vars PROVE WriteInv'
  BY <1>0, <1>10, QuietStep DEF vars, rows, local, history, Gone
<1>11. QED
  BY <1>2, <1>3, <1>4, <1>5, <1>6, <1>7, <1>8, <1>9, <1>10 DEF Next, Step

\* What one PUT after another has set stays set: only an update that read the row before a
\* value was stored can undo it.
THEOREM OnlyOverlapLoses == Spec => []LossNeedsOverlap
<1>1. TypeOK /\ WriteInv /\ [Next]_vars => WriteInv'
  BY TypeParts, WriteStep
<1>2. WriteInv => LossNeedsOverlap
  BY DEF WriteInv
<1>3. QED
  BY <1>1, <1>2, WriteInit, TypeCorrect, PTL DEF Spec

\* A deleted project does not come back, whatever updates were under way.
THEOREM DeletedStaysDeleted == Spec => NoResurrection
<1>1. TypeOK /\ WriteInv /\ [Next]_vars => WriteInv' /\ [\A p \in deleted : projects'[p] = None]_vars
  <2> SUFFICES ASSUME TypeOK, WriteInv, [Next]_vars
               PROVE  WriteInv' /\ \A p \in deleted : projects'[p] = None
    OBVIOUS
  <2>1. WriteInv'
    BY TypeParts, WriteStep
  <2>2. deleted \subseteq deleted'
    <3>1. ASSUME NEW r \in Requests, Step(r) PROVE deleted \subseteq deleted'
      BY <3>1 DEF Step, history, RejectBody, StatementFails, UpdateFails, UpdateProject, CreateProject, BeginUpdate,
         DeleteProject, GetProject, SetProjectRole, RemoveProjectRole
    <3>2. QED
      BY <3>1 DEF Next, vars, history
  <2>3. QED
    BY <2>1, <2>2 DEF WriteInv, Gone
<1>2. QED
  BY <1>1, WriteInit, TypeCorrect, PTL DEF Spec, NoResurrection

-----------------------------------------------------------------------------
\* No role outlives its project, though members are added while projects are deleted.
THEOREM RolesNeverOrphaned == Spec => []RolesHaveProject
<1>1. Init => RolesHaveProject
  BY DEF Init, RolesHaveProject
<1>2. TypeOK /\ RolesHaveProject /\ [Next]_vars => RolesHaveProject'
  <2> SUFFICES ASSUME Types, OneRole, RolesHaveProject, [Next]_vars PROVE RolesHaveProject'
    BY TypeParts
  <2>0. projects \in [Ids -> Row \cup {None}] /\ \A m \in roles : m.key[1] \in Ids /\ Exists(m.key[1])
    BY DEF Types, OneRole, RolesHaveProject
  \* Roles that were there, of projects that are still there.
  <2>1. CASE roles' \subseteq roles /\ \A p \in Ids : Exists(p) => Exists(p)'
    BY <2>0, <2>1 DEF RolesHaveProject
  <2>2. ASSUME NEW r \in Requests, NEW fs \in SUBSET Fields, NEW n \in Names, UpdateProject(r, fs, n)
        PROVE  RolesHaveProject'
    <3>1. id[r] \in Ids /\ copy[r] \in Row
      BY <2>2 DEF UpdateProject, Types
    <3>2. Merge(r, fs) # None
      BY <3>1 DEF Merge, Row
    <3>3. QED
      BY <2>0, <2>1, <2>2, <3>1, <3>2 DEF UpdateProject, Exists
  <2>3. ASSUME NEW r \in Requests, NEW p \in Ids, NEW fs \in SUBSET Fields, NEW n \in Names,
               CreateProject(r, p, fs, n)
        PROVE  RolesHaveProject'
    BY <2>0, <2>1, <2>3 DEF CreateProject, Exists
  <2>4. ASSUME NEW r \in Requests, NEW p \in Ids, DeleteProject(r, p) PROVE RolesHaveProject'
    BY <2>0, <2>4 DEF DeleteProject, Cascade, RolesHaveProject, Exists
  <2>5. ASSUME NEW r \in Requests, NEW p \in Ids, NEW s \in Subjects, NEW role \in Roles,
               SetProjectRole(r, p, s, role)
        PROVE  RolesHaveProject'
    BY <2>0, <2>5 DEF SetProjectRole, RolesHaveProject, Exists, rows
  <2>6. ASSUME NEW r \in Requests, NEW p \in Ids, NEW s \in Subjects, NEW typed \in BOOLEAN,
               RemoveProjectRole(r, p, s, typed)
        PROVE  RolesHaveProject'
    BY <2>1, <2>6 DEF RemoveProjectRole, Exists
  <2>7. ASSUME NEW r \in Requests, NEW p \in Ids, BeginUpdate(r, p) \/ GetProject(r, p)
        PROVE  RolesHaveProject'
    BY <2>1, <2>7 DEF BeginUpdate, GetProject, Exists, rows
  <2>8. ASSUME NEW r \in Requests, RejectBody(r) \/ StatementFails(r) \/ UpdateFails(r) PROVE RolesHaveProject'
    BY <2>1, <2>8 DEF RejectBody, StatementFails, UpdateFails, Exists, rows
  <2>9. CASE UNCHANGED vars
    BY <2>1, <2>9 DEF vars, rows, Exists
  <2>10. QED
    BY <2>2, <2>3, <2>4, <2>5, <2>6, <2>7, <2>8, <2>9 DEF Next, Step
<1>3. QED
  BY <1>1, <1>2, TypeCorrect, PTL DEF Spec

-----------------------------------------------------------------------------
(* Rows are merged from a copy that may be old, and yet never mixed up.    *)

\* Each field of a row that the requests w wrote is as one of them gave it; g: what they gave.
Own(row, g, w) ==
    /\ row["name"] # None
    /\ \A fld \in Fields : row[fld] # None => fld \in g[row[fld]] /\ row[fld] \in ToSet(w)

\* So is the row of every project, and the copy of every update under way.
OwnInv ==
    /\ \A p \in Ids : Exists(p) => Own(projects[p], given, writes[p])
    /\ \A r \in Requests : pc[r] = "merge" => Own(copy[r], given, writes[id[r]])

\* Requests that have not written yet give their fields, and others write too.
LEMMA OwnKept ==
  ASSUME NEW row \in Row, NEW g, NEW g2, NEW w, NEW w2, NEW r, Own(row, g, w), r \notin ToSet(w),
         \A q \in Requests \ {r} : g2[q] = g[q], ToSet(w) \subseteq ToSet(w2)
  PROVE  Own(row, g2, w2)
  BY DEF Own, Row

LEMMA WritersAreDone ==
  ASSUME Types, DoneOK, NEW p \in Ids
  PROVE  \A w \in ToSet(writes[p]) : w \in Requests /\ pc[w] = "done"
  BY DEF Types, DoneOK, ToSet

\* A step that writes no row but may remove one.
LEMMA OwnQuiet ==
  ASSUME OwnInv, UNCHANGED <<id, given, copy, writes>>,
         \A p \in Ids : projects'[p] = projects[p] \/ projects'[p] = None,
         \A q \in Requests : pc'[q] = "merge" => pc[q] = "merge"
  PROVE  OwnInv'
  BY DEF OwnInv, Exists

LEMMA OwnRead ==
  ASSUME Types, OwnInv, NEW r \in Requests, NEW p \in Ids, Exists(p), BeginUpdate(r, p)
  PROVE  OwnInv'
<1>1. /\ pc \in [Requests -> {"idle", "merge", "done"}] /\ id \in [Requests -> Ids \cup {None}]
      /\ copy \in [Requests -> Row \cup {None}]
  BY DEF Types
<1>2. /\ pc' = [pc EXCEPT ![r] = "merge"] /\ id' = [id EXCEPT ![r] = p]
      /\ copy' = [copy EXCEPT ![r] = projects[p]] /\ UNCHANGED <<projects, given, writes>>
  BY DEF BeginUpdate, Reply, rows
<1> QED
  BY <1>1, <1>2 DEF OwnInv, Exists

\* A request r writes a row, its own as far as it gave it, over p.
LEMMA OwnWrite ==
  ASSUME Types, DoneOK, OwnInv, NEW r \in Requests, NEW p \in Ids, NEW row \in Row, NEW w,
         NEW fs \in SUBSET Fields,
         pc[r] # "done", pc' = [pc EXCEPT ![r] = "done"], UNCHANGED <<id, copy>>,
         projects' = [projects EXCEPT ![p] = row], given' = [given EXCEPT ![r] = fs],
         writes' = [writes EXCEPT ![p] = w], Own(row, given', w),
         \A q \in Requests : pc'[q] = "merge" /\ id[q] = p => ToSet(writes[p]) \subseteq ToSet(w)
  PROVE  OwnInv'
<1>1. /\ pc \in [Requests -> {"idle", "merge", "done"}] /\ id \in [Requests -> Ids \cup {None}]
      /\ projects \in [Ids -> Row \cup {None}] /\ given \in [Requests -> SUBSET Fields]
      /\ writes \in [Ids -> Seq(Requests)]
      /\ \A q \in Requests : pc[q] = "merge" => id[q] \in Ids /\ copy[q] \in Row
  BY DEF Types
<1>2. \A q \in Ids : r \notin ToSet(writes[q])
  BY WritersAreDone
<1>3. \A q \in Requests \ {r} : given'[q] = given[q]
  BY <1>1
<1>4. ASSUME NEW q \in Ids, Exists(q)' PROVE Own(projects'[q], given', writes'[q])
  <2>1. CASE q = p
    BY <1>1, <2>1
  <2>2. CASE q # p
    <3>1. projects'[q] = projects[q] /\ writes'[q] = writes[q] /\ projects[q] \in Row
      BY <1>1, <1>4, <2>2 DEF Exists
    <3>2. Own(projects[q], given, writes[q])
      BY <1>4, <3>1 DEF OwnInv, Exists
    <3>3. r \notin ToSet(writes[q]) /\ ToSet(writes[q]) \subseteq ToSet(writes'[q])
      BY <1>2, <3>1
    <3>4. Own(projects[q], given', writes'[q])
      BY <1>3, <3>1, <3>2, <3>3, OwnKept
    <3> QED
      BY <3>1, <3>4
  <2> QED
    BY <2>1, <2>2
<1>5. ASSUME NEW q \in Requests, pc'[q] = "merge" PROVE Own(copy[q], given', writes'[id[q]])
  <2>1. pc[q] = "merge" /\ id[q] \in Ids /\ copy[q] \in Row
    BY <1>1, <1>5
  <2>2. Own(copy[q], given, writes[id[q]]) /\ r \notin ToSet(writes[id[q]])
    BY <1>2, <2>1 DEF OwnInv
  <2>3. ToSet(writes[id[q]]) \subseteq ToSet(writes'[id[q]])
    BY <1>1, <1>5, <2>1
  <2> QED
    BY <1>3, <2>1, <2>2, <2>3, OwnKept
<1> QED
  BY <1>4, <1>5 DEF OwnInv

\* A row that CreateProject makes is all its own.
LEMMA CreatedOwn ==
  ASSUME Types, NEW r \in Requests, NEW fs \in SUBSET Fields, "name" \in fs, given' = [given EXCEPT ![r] = fs]
  PROVE  /\ [fld \in Fields |-> IF fld \in fs THEN r ELSE None] \in Row
         /\ Own([fld \in Fields |-> IF fld \in fs THEN r ELSE None], given', <<r>>)
         /\ ToSet(<<r>>) = {r}
<1>1. ToSet(<<r>>) = {r}
  BY DEF ToSet
<1>2. given'[r] = fs
  BY DEF Types
<1> QED
  BY <1>1, <1>2 DEF Own, Row, Fields

\* What UpdateProject merges is its own and what its copy has.
LEMMA MergedOwn ==
  ASSUME Types, DoneOK, OwnInv, NEW r \in Requests, NEW p \in Ids, NEW fs \in SUBSET Fields,
         pc[r] = "merge", id[r] = p, given' = [given EXCEPT ![r] = fs]
  PROVE  /\ Merge(r, fs) \in Row /\ Own(Merge(r, fs), given', Append(writes[p], r))
         /\ ToSet(Append(writes[p], r)) = ToSet(writes[p]) \cup {r}
<1>1. copy[r] \in Row /\ Own(copy[r], given, writes[p]) /\ writes[p] \in Seq(Requests)
  BY DEF Types, OwnInv
<1>2. ToSet(Append(writes[p], r)) = ToSet(writes[p]) \cup {r}
  BY <1>1, AppendIndex DEF ToSet
<1>3. /\ given'[r] = fs /\ \A q \in Requests \ {r} : given'[q] = given[q]
  BY DEF Types
<1>4. r \notin ToSet(writes[p])
  BY WritersAreDone
<1>5. Own(copy[r], given', writes[p])
  BY <1>1, <1>3, <1>4 DEF Own, Row
<1>6. Merge(r, fs) \in Row
  BY <1>1 DEF Merge, Row
<1>7. Own(Merge(r, fs), given', Append(writes[p], r))
  BY <1>2, <1>3, <1>5 DEF Own, Merge, Fields
<1> QED
  BY <1>2, <1>6, <1>7

LEMMA OwnStep == Types /\ WriteInv /\ OwnInv /\ [Next]_vars => OwnInv'
<1> SUFFICES ASSUME Types, WriteInv, OwnInv, [Next]_vars PROVE OwnInv'
  OBVIOUS
<1>0. /\ pc \in [Requests -> {"idle", "merge", "done"}] /\ projects \in [Ids -> Row \cup {None}]
      /\ DoneOK
  BY DEF Types, WriteInv
\* An answer that leaves the tables of projects alone.
<1>1. ASSUME NEW r \in Requests, NEW from, NEW status, Reply(r, from, status),
             UNCHANGED <<projects, id, given, copy, writes>>
      PROVE  OwnInv'
  BY <1>0, <1>1, OwnQuiet DEF Reply
<1>2. ASSUME NEW r \in Requests, RejectBody(r) \/ StatementFails(r) \/ UpdateFails(r) PROVE OwnInv'
  BY <1>1, <1>2 DEF RejectBody, StatementFails, UpdateFails, rows, local, history
<1>3. ASSUME NEW r \in Requests, NEW fs \in SUBSET Fields, NEW n \in Names, UpdateProject(r, fs, n)
      PROVE  OwnInv'
  <2>1. PICK p \in Ids : p = id[r] /\ pc[r] = "merge"
    BY <1>3 DEF UpdateProject, Types
  <2>2. CASE /\ Exists(id[r]) /\ Reply(r, "merge", 200)
             /\ projects' = [projects EXCEPT ![id[r]] = Merge(r, fs)]
             /\ writes' = [writes EXCEPT ![id[r]] = Append(@, r)]
             /\ given' = [given EXCEPT ![r] = fs]
    <3>1. /\ Merge(r, fs) \in Row /\ Own(Merge(r, fs), given', Append(writes[p], r))
          /\ ToSet(writes[p]) \subseteq ToSet(Append(writes[p], r))
      BY <1>0, <2>1, <2>2, MergedOwn
    <3>2. /\ projects' = [projects EXCEPT ![p] = Merge(r, fs)]
          /\ writes' = [writes EXCEPT ![p] = Append(writes[p], r)]
          /\ pc' = [pc EXCEPT ![r] = "done"] /\ UNCHANGED <<id, copy>>
      BY <1>3, <2>1, <2>2 DEF UpdateProject, Reply
    <3> QED
      BY <1>0, <2>1, <2>2, <3>1, <3>2, OwnWrite
  <2>3. CASE /\ Reply(r, "merge", 500) \/ Reply(r, "merge", 200)
             /\ UNCHANGED <<projects, writes, given>>
    BY <1>1, <1>3, <2>3 DEF UpdateProject
  <2> QED
    BY <1>3, <2>2, <2>3 DEF UpdateProject
<1>4. ASSUME NEW r \in Requests, NEW p \in Ids, NEW fs \in SUBSET Fields, NEW n \in Names,
             CreateProject(r, p, fs, n)
      PROVE  OwnInv'
  <2> DEFINE row == [fld \in Fields |-> IF fld \in fs THEN r ELSE None]
  <2>1. CASE /\ Reply(r, "idle", 201)
             /\ projects' = [projects EXCEPT ![p] = row]
             /\ writes' = [writes EXCEPT ![p] = <<r>>]
             /\ given' = [given EXCEPT ![r] = fs]
    <3>1. row \in Row /\ Own(row, given', <<r>>)
      BY <1>4, <2>1, CreatedOwn DEF CreateProject
    <3>2. /\ pc[r] # "done" /\ pc' = [pc EXCEPT ![r] = "done"] /\ UNCHANGED <<id, copy>>
          /\ ~Exists(p) /\ p \notin deleted
      BY <1>4, <2>1 DEF CreateProject, Reply
    <3>3. \A q \in Requests : pc'[q] = "merge" => id[q] # p
      BY <1>0, <3>2 DEF WriteInv, MergeOK
    <3> HIDE DEF row
    <3> QED
      BY <1>0, <2>1, <3>1, <3>2, <3>3, OwnWrite
  <2>2. CASE Reply(r, "idle", 500) /\ UNCHANGED <<projects, writes, given>>
    BY <1>1, <1>4, <2>2 DEF CreateProject
  <2> QED
    BY <1>4, <2>1, <2>2 DEF CreateProject
<1>5. ASSUME NEW r \in Requests, NEW p \in Ids, BeginUpdate(r, p) PROVE OwnInv'
  <2>1. CASE Exists(p)
    BY <1>5, <2>1, OwnRead
  <2>2. CASE ~Exists(p)
    BY <1>1, <1>5, <2>2 DEF BeginUpdate, rows, local, history
  <2> QED
    BY <2>1, <2>2
<1>6. ASSUME NEW r \in Requests, NEW p \in Ids, DeleteProject(r, p) PROVE OwnInv'
  BY <1>0, <1>6, OwnQuiet DEF DeleteProject, Reply, local
<1>7. ASSUME NEW r \in Requests, NEW p \in Ids, GetProject(r, p) PROVE OwnInv'
  BY <1>1, <1>7 DEF GetProject, rows, local, history
<1>8. ASSUME NEW r \in Requests, NEW p \in Ids, NEW s \in Subjects, NEW role \in Roles,
             SetProjectRole(r, p, s, role)
      PROVE  OwnInv'
  BY <1>1, <1>8 DEF SetProjectRole, rows, local, history
<1>9. ASSUME NEW r \in Requests, NEW p \in Ids, NEW s \in Subjects, NEW typed \in BOOLEAN,
             RemoveProjectRole(r, p, s, typed)
      PROVE  OwnInv'
  BY <1>1, <1>9 DEF RemoveProjectRole, local, history
<1>10. ASSUME UNCHANGED vars PROVE OwnInv'
  BY <1>10, OwnQuiet DEF vars, rows, local, history
<1> QED
  BY <1>2, <1>3, <1>4, <1>5, <1>6, <1>7, <1>8, <1>9, <1>10 DEF Next, Step

\* However updates interleave, a project has no value that no request gave it, and in no other
\* field than it was given for: its row is a mixture of what its own writers gave.
NoMixUp ==
    \A p \in Ids : Exists(p) => Own(projects[p], given, writes[p])

\* The UNIQUE constraint on the name, kept by statements that check a name another request
\* gave, or one that was read before.
NamesUnique ==
    \A p, q \in Ids : p # q /\ Exists(p) /\ Exists(q) =>
        name[projects[p]["name"]] # name[projects[q]["name"]]

\* A step gives no name but that of the request it ends, and writes no row but over p, after
\* the constraint.
LEMMA NamesKept ==
  ASSUME Types, DoneOK, OwnInv, NamesUnique, NEW r \in Requests, NEW p \in Ids, pc[r] # "done",
         \A q \in Requests \ {r} : name'[q] = name[q],
         \A q \in Ids \ {p} : projects'[q] = projects[q] \/ projects'[q] = None,
         \/ projects'[p] = projects[p] \/ projects'[p] = None
         \/ \A q \in Ids \ {p} : Exists(q) =>
                name'[projects[q]["name"]] # name'[projects'[p]["name"]]
  PROVE  NamesUnique'
<1>1. ASSUME NEW q \in Ids, Exists(q) PROVE name'[projects[q]["name"]] = name[projects[q]["name"]]
  <2>1. projects[q] \in Row /\ Own(projects[q], given, writes[q])
    BY <1>1 DEF Types, OwnInv, Exists
  <2>2. projects[q]["name"] \in ToSet(writes[q])
    BY <2>1 DEF Own, Fields
  <2>3. projects[q]["name"] \in Requests /\ pc[projects[q]["name"]] = "done"
    BY <2>2, WritersAreDone
  <2> QED
    BY <2>3
<1>2. \A q \in Ids \ {p} : Exists(q)' => Exists(q) /\ projects'[q] = projects[q]
  BY DEF Exists
<1>3. Exists(p)' => \/ Exists(p) /\ projects'[p] = projects[p]
                    \/ \A q \in Ids \ {p} : Exists(q) =>
                          name'[projects[q]["name"]] # name'[projects'[p]["name"]]
  BY DEF Exists
<1>4. ASSUME NEW a \in Ids, NEW b \in Ids, a # b, Exists(a)', Exists(b)', a # p
      PROVE  name'[projects'[a]["name"]] # name'[projects'[b]["name"]]
  <2>1. CASE b = p
    <3>1. Exists(a) /\ projects'[a] = projects[a]
      BY <1>2, <1>4
    <3>2. CASE Exists(p) /\ projects'[p] = projects[p]
      BY <1>1, <1>4, <2>1, <3>1, <3>2 DEF NamesUnique
    <3> QED
      BY <1>3, <1>4, <2>1, <3>1, <3>2
  <2>2. CASE b # p
    BY <1>1, <1>2, <1>4, <2>2 DEF NamesUnique
  <2> QED
    BY <2>1, <2>2
<1> QED
  BY <1>4 DEF NamesUnique

LEMMA NamesStep == Types /\ WriteInv /\ OwnInv /\ NamesUnique /\ [Next]_vars => NamesUnique'
<1> SUFFICES ASSUME Types, DoneOK, OwnInv, NamesUnique, [Next]_vars PROVE NamesUnique'
  BY DEF WriteInv
<1>0. /\ projects \in [Ids -> Row \cup {None}] /\ name \in [Requests -> Names \cup {None}]
      /\ \A r \in Requests : pc[r] = "merge" => id[r] \in Ids
  BY DEF Types
<1>1. ASSUME UNCHANGED <<projects, name>> PROVE NamesUnique'
  BY <1>1 DEF NamesUnique, Exists
<1>2. ASSUME NEW r \in Requests, NEW fs \in SUBSET Fields, NEW n \in Names, UpdateProject(r, fs, n)
      PROVE  NamesUnique'
  <2>1. PICK p \in Ids : p = id[r] /\ pc[r] = "merge"
    BY <1>0, <1>2 DEF UpdateProject
  <2>2. /\ pc[r] # "done" /\ \A q \in Requests \ {r} : name'[q] = name[q]
        /\ \A q \in Ids \ {p} : projects'[q] = projects[q]
    BY <1>0, <1>2, <2>1 DEF UpdateProject
  <2>3. \/ projects'[p] = projects[p]
        \/ \A q \in Ids \ {p} : Exists(q) =>
               name'[projects[q]["name"]] # name'[projects'[p]["name"]]
    BY <1>0, <1>2, <2>1 DEF UpdateProject, NameFree
  <2> QED
    BY <2>2, <2>3, NamesKept
<1>3. ASSUME NEW r \in Requests, NEW p \in Ids, NEW fs \in SUBSET Fields, NEW n \in Names,
             CreateProject(r, p, fs, n)
      PROVE  NamesUnique'
  <2>1. /\ pc[r] # "done" /\ \A q \in Requests \ {r} : name'[q] = name[q]
        /\ \A q \in Ids \ {p} : projects'[q] = projects[q]
    BY <1>0, <1>3 DEF CreateProject, Reply
  <2>2. \/ projects'[p] = projects[p]
        \/ \A q \in Ids \ {p} : Exists(q) =>
               name'[projects[q]["name"]] # name'[projects'[p]["name"]]
    BY <1>0, <1>3 DEF CreateProject, NameFree
  <2> QED
    BY <2>1, <2>2, NamesKept
<1>4. ASSUME NEW r \in Requests, NEW p \in Ids, DeleteProject(r, p) PROVE NamesUnique'
  BY <1>0, <1>4 DEF DeleteProject, local, NamesUnique, Exists
<1>5. ASSUME NEW r \in Requests, RejectBody(r) \/ StatementFails(r) \/ UpdateFails(r) PROVE NamesUnique'
  BY <1>1, <1>5 DEF RejectBody, StatementFails, UpdateFails, rows, local
<1>6. ASSUME NEW r \in Requests, NEW p \in Ids, BeginUpdate(r, p) \/ GetProject(r, p)
      PROVE  NamesUnique'
  BY <1>1, <1>6 DEF BeginUpdate, GetProject, rows, local
<1>7. ASSUME NEW r \in Requests, NEW p \in Ids, NEW s \in Subjects, NEW role \in Roles,
             SetProjectRole(r, p, s, role)
      PROVE  NamesUnique'
  BY <1>1, <1>7 DEF SetProjectRole, rows, local
<1>8. ASSUME NEW r \in Requests, NEW p \in Ids, NEW s \in Subjects, NEW typed \in BOOLEAN,
             RemoveProjectRole(r, p, s, typed)
      PROVE  NamesUnique'
  BY <1>1, <1>8 DEF RemoveProjectRole, local
<1>9. CASE UNCHANGED vars
  BY <1>1, <1>9 DEF vars, rows, local
<1> QED
  BY <1>2, <1>3, <1>4, <1>5, <1>6, <1>7, <1>8, <1>9 DEF Next, Step

LEMMA OwnInvariant == Spec => [](OwnInv /\ NamesUnique)
<1>1. Init => WriteInv /\ OwnInv /\ NamesUnique
  BY WriteInit DEF Init, OwnInv, NamesUnique, Exists
<1>2. TypeOK /\ WriteInv /\ OwnInv /\ NamesUnique /\ [Next]_vars
        => (WriteInv /\ OwnInv /\ NamesUnique)'
  BY TypeParts, WriteStep, OwnStep, NamesStep
<1> QED
  BY <1>1, <1>2, TypeCorrect, PTL DEF Spec

\* The two statements of an update never mix up fields or projects (handleUpdateProject in
\* projects.go, UpdateProject in sql.go).
THEOREM RowsAreNotMixedUp == Spec => []NoMixUp
<1>1. OwnInv => NoMixUp
  BY DEF OwnInv, NoMixUp
<1> QED
  BY <1>1, OwnInvariant, PTL

\* No two projects ever have the same name, although an update writes back a name it read
\* before (UNIQUE in migrations/000001_init.up.sql).
LEMMA NamesStayUnique == Spec => []NamesUnique
  BY OwnInvariant, PTL
=============================================================================
