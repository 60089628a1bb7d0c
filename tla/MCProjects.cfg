\* Five requests on two projects with a user and a group as members.
CONSTANTS
    Requests = {r1, r2, r3, r4, r5}
    Names = {n1, n2}
    Ids = {p1, p2}
    Subjects = {u1, g1}
    Users = {u1}
    Roles = {viewer, admin}
    None = None
SPECIFICATION Spec
INVARIANTS
    TypeOK
    LossNeedsOverlap
    RolesHaveProject
PROPERTY NoResurrection
SYMMETRY Symmetry
