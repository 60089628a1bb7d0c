------------------------------ MODULE Projects ------------------------------
(***************************************************************************)
(* The project handlers and the tables they share                          *)
(* (internal/server/projects.go, internal/store/sql.go): projects are      *)
(* created, read, updated and deleted, members get and lose their roles.   *)
(*                                                                         *)
(* Each request is a goroutine of its own.  A statement of the store is    *)
(* atomic; an update reads the row, merges the fields it was given and     *)
(* writes the whole row, in two statements without a transaction.          *)
(*                                                                         *)
(* The value of a field is the request that gave it.                       *)
(***************************************************************************)
EXTENDS Naturals, Sequences, SequencesExt

CONSTANTS
    Requests,   \* the HTTP requests
    Names,      \* what a project can be called
    Ids,        \* the uuids CreateProject may draw
    Subjects,   \* users and groups, each with its subject type
    Users,      \* those of them that are users
    Roles,      \* viewer, editor, admin, ...
    None        \* no row; a description that was not given

ASSUME SubjectAssumption == Users \subseteq Subjects

Fields == {"name", "description"}
Row == [Fields -> Requests \cup {None}]

ASSUME NoneAssumption == None \notin Requests \cup Names \cup Ids \cup Subjects /\ None \notin Row

VARIABLES
    projects,   \* table projects
    roles,      \* table project_roles: key <<project, subject>> and role
    pc,         \* program counter of each request
    id,         \* the project in its path
    given,      \* the fields in its body that were stored
    name,       \* the name in its body
    copy,       \* the row handleUpdateProject has read
    answer,     \* its status; 0: none yet
    deleted,    \* history: projects that were deleted
    writes,     \* history: by project, the requests that wrote its row, in order
    seen        \* history: by request, those of them it has read

rows == <<projects, roles>>
local == <<id, given, name, copy>>
history == <<deleted, writes, seen>>
vars == <<rows, pc, local, answer, history>>

Init ==
    /\ projects = [p \in Ids |-> None] /\ roles = {}
    /\ pc = [r \in Requests |-> "idle"]
    /\ id = [r \in Requests |-> None] /\ given = [r \in Requests |-> {}]
    /\ name = [r \in Requests |-> None]
    /\ copy = [r \in Requests |-> None]
    /\ answer = [r \in Requests |-> 0]
    /\ deleted = {} /\ writes = [p \in Ids |-> <<>>] /\ seen = [r \in Requests |-> {}]

-----------------------------------------------------------------------------
(* The names starting with Bad are used by no action: each is a plausible  *)
(* slip in the definition it precedes.                                     *)

Reply(r, from, status) ==
    /\ pc[r] = from /\ pc' = [pc EXCEPT ![r] = "done"]
    /\ answer' = [answer EXCEPT ![r] = status]

Exists(p) == projects[p] # None

\* The UNIQUE constraint on the name lets this row in; text: the names given so far.
NameFree(p, row, text) ==
    \A q \in Ids \ {p} : Exists(q) => text[projects[q]["name"]] # text[row["name"]]

\* A project or a member to create whose body is no JSON, or a project without a name: 400.
RejectBody(r) == Reply(r, "idle", 400) /\ UNCHANGED <<rows, local, history>>

\* The first statement of a handler fails, whichever handler it is: 500.
StatementFails(r) == Reply(r, "idle", 500) /\ UNCHANGED <<rows, local, history>>

\* Whoever creates a project names it; the description may be missing.  A name in use: 500.
CreateProject(r, p, fs, n) ==
    LET row == [fld \in Fields |-> IF fld \in fs THEN r ELSE None]
    IN  /\ ~Exists(p) /\ p \notin deleted /\ "name" \in fs
        /\ name' = [name EXCEPT ![r] = n]
        /\ \/ /\ NameFree(p, row, name') /\ Reply(r, "idle", 201)
              /\ projects' = [projects EXCEPT ![p] = row]
              /\ writes' = [writes EXCEPT ![p] = <<r>>]
              /\ given' = [given EXCEPT ![r] = fs]
           \/ /\ ~NameFree(p, row, name') /\ Reply(r, "idle", 500)
              /\ UNCHANGED <<projects, writes, given>>
        /\ UNCHANGED <<roles, id, copy, deleted, seen>>

\* GetProject, first statement of handleUpdateProject: 404, or the copy to merge into.
BeginUpdate(r, p) ==
    \/ /\ ~Exists(p) /\ Reply(r, "idle", 404)
       /\ UNCHANGED <<rows, local, history>>
    \/ /\ Exists(p) /\ pc[r] = "idle" /\ pc' = [pc EXCEPT ![r] = "merge"]
       /\ id' = [id EXCEPT ![r] = p] /\ copy' = [copy EXCEPT ![r] = projects[p]]
       /\ seen' = [seen EXCEPT ![r] = ToSet(writes[p])]
       /\ UNCHANGED <<rows, given, name, answer, deleted, writes>>

\* The body cannot be decoded (400), or the UPDATE fails (500).
UpdateFails(r) ==
    /\ \E status \in {400, 500} : Reply(r, "merge", status)
    /\ UNCHANGED <<rows, local, history>>

BadMerge(r, fs) == [fld \in Fields |-> IF fld \in fs THEN r ELSE None]  \* a missing field is written empty

Merge(r, fs) == [fld \in Fields |-> IF fld \in fs THEN r ELSE copy[r][fld]]

BadUpdateProject(r, fs, n) ==  \* INSERT ... ON CONFLICT UPDATE
    /\ Reply(r, "merge", 200)
    /\ given' = [given EXCEPT ![r] = fs] /\ name' = [name EXCEPT ![r] = n]
    /\ projects' = [projects EXCEPT ![id[r]] = Merge(r, fs)]
    /\ writes' = [writes EXCEPT ![id[r]] = Append(@, r)]
    /\ UNCHANGED <<roles, id, copy, deleted, seen>>

\* The UPDATE writes the merged row, unless its name, given or read, is in use by now (500).
\* Of a project deleted meanwhile it touches no row (200).
UpdateProject(r, fs, n) ==
    /\ pc[r] = "merge"
    /\ name' = [name EXCEPT ![r] = IF "name" \in fs THEN n ELSE None]
    /\ \/ /\ Exists(id[r]) /\ NameFree(id[r], Merge(r, fs), name')
          /\ Reply(r, "merge", 200)
          /\ projects' = [projects EXCEPT ![id[r]] = Merge(r, fs)]
          /\ writes' = [writes EXCEPT ![id[r]] = Append(@, r)]
          /\ given' = [given EXCEPT ![r] = fs]
       \/ /\ Exists(id[r]) /\ ~NameFree(id[r], Merge(r, fs), name')
          /\ Reply(r, "merge", 500)
          /\ UNCHANGED <<projects, writes, given>>
       \/ /\ ~Exists(id[r])
          /\ Reply(r, "merge", 200)
          /\ UNCHANGED <<projects, writes, given>>
    /\ UNCHANGED <<roles, id, copy, deleted, seen>>

BadCascade(p) == {}  \* project_roles without ON DELETE CASCADE

\* The rows of project_roles that go with a project.
Cascade(p) == {m \in roles : m.key[1] = p}

\* 200 whether or not the project was there.
DeleteProject(r, p) ==
    /\ Reply(r, "idle", 200)
    /\ projects' = [projects EXCEPT ![p] = None]
    /\ roles' = roles \ Cascade(p)
    /\ deleted' = deleted \cup (IF Exists(p) THEN {p} ELSE {})
    /\ UNCHANGED <<local, writes, seen>>

\* GET of one project.
GetProject(r, p) ==
    /\ Reply(r, "idle", IF Exists(p) THEN 200 ELSE 404)
    /\ UNCHANGED <<rows, local, history>>

-----------------------------------------------------------------------------
(* Members.                                                                *)

BadSetProjectRole(r, p, s, role) ==  \* the old role stays beside the new one
    /\ Exists(p) /\ Reply(r, "idle", 201)
    /\ roles' = roles \cup {[key |-> <<p, s>>, role |-> role]}
    /\ UNCHANGED <<projects, local, history>>

\* The new role replaces the old one; without the project the foreign key fails (500).
SetProjectRole(r, p, s, role) ==
    \/ /\ Exists(p) /\ Reply(r, "idle", 201)
       /\ roles' = {m \in roles : m.key # <<p, s>>} \cup {[key |-> <<p, s>>, role |-> role]}
       /\ UNCHANGED <<projects, local, history>>
    \/ /\ ~Exists(p) /\ Reply(r, "idle", 500)
       /\ UNCHANGED <<rows, local, history>>

\* Without subjectType in the query the subject is taken for a user: a group keeps its role.
RemoveProjectRole(r, p, s, typed) ==
    /\ Reply(r, "idle", 200)
    /\ roles' = {m \in roles : m.key # <<p, s>> \/ (~typed /\ s \notin Users)}
    /\ UNCHANGED <<projects, local, history>>

-----------------------------------------------------------------------------
Step(r) ==
    \/ RejectBody(r) \/ StatementFails(r) \/ UpdateFails(r)
    \/ \E fs \in SUBSET Fields, n \in Names : UpdateProject(r, fs, n)
    \/ \E p \in Ids :
        \/ \E fs \in SUBSET Fields, n \in Names : CreateProject(r, p, fs, n)
        \/ BeginUpdate(r, p) \/ DeleteProject(r, p) \/ GetProject(r, p)
        \/ \E s \in Subjects, role \in Roles : SetProjectRole(r, p, s, role)
        \/ \E s \in Subjects, typed \in BOOLEAN : RemoveProjectRole(r, p, s, typed)

Next ==
    \/ \E r \in Requests : Step(r)
    \/ (\A r \in Requests : pc[r] = "done") /\ UNCHANGED vars

Spec == Init /\ [][Next]_vars

-----------------------------------------------------------------------------
\* The primary key of project_roles: a subject has one role in a project.
OneRole ==
    /\ \A m \in roles : m.key \in Ids \X Subjects /\ m.role \in Roles
    /\ \A m, n \in roles : m.key = n.key => m = n

\* Every variable has the values the code gives it.
TypeOK ==
    /\ projects \in [Ids -> Row \cup {None}]
    /\ OneRole
    /\ pc \in [Requests -> {"idle", "merge", "done"}]
    /\ id \in [Requests -> Ids \cup {None}] /\ given \in [Requests -> SUBSET Fields]
    /\ name \in [Requests -> Names \cup {None}]
    /\ copy \in [Requests -> Row \cup {None}]
    /\ answer \in [Requests -> {0, 200, 201, 400, 404, 500}]
    /\ deleted \subseteq Ids
    /\ writes \in [Ids -> Seq(Requests)] /\ seen \in [Requests -> SUBSET Requests]
    /\ \A r \in Requests : pc[r] = "merge" => id[r] # None /\ copy[r] # None

\* A value that a request has stored is replaced only by a request that gave the same field,
\* or by one that had read the row before the value was stored and wrote it back after: what
\* one PUT after another has set stays set, and only PUTs that overlap undo each other.
LossNeedsOverlap ==
    \A p \in Ids : Exists(p) =>
        \A i \in DOMAIN writes[p] : \A fld \in given[writes[p][i]] :
            \/ projects[p][fld] = writes[p][i]
            \/ \E j \in i + 1 .. Len(writes[p]) :
                fld \in given[writes[p][j]] \/ writes[p][i] \notin seen[writes[p][j]]

\* An update under way when its project is deleted does not bring it back.
NoResurrection == [][\A p \in deleted : projects'[p] = None]_vars

\* A project leaves no roles behind, whatever is under way when it is deleted.
RolesHaveProject == \A m \in roles : Exists(m.key[1])
=============================================================================
