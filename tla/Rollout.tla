------------------------------- MODULE Rollout -------------------------------
(***************************************************************************)
(* What starting over a shared database promises, without the table of     *)
(* versions, the transactions and the reads by which Startup keeps it: the *)
(* migrations are applied one at a time and for good, each by a replica    *)
(* that needs it and is not up yet, and a replica comes up once all of its *)
(* image are applied.                                                      *)
(***************************************************************************)
EXTENDS Naturals

CONSTANTS
    Servers,
    MaxVersion

VARIABLES
    applied,  \* the number of migrations applied
    image,    \* the number of migrations in the image of a replica
    up,       \* the replicas past their migrations
    faults    \* faults that have happened

vars == <<applied, image, up, faults>>

Init ==
    /\ applied = 0 /\ up = {} /\ faults = 0
    /\ image \in [Servers -> 0..MaxVersion]

-----------------------------------------------------------------------------
\* A replica that is not up may be started again from a newer image.
Launch(s, r) ==
    /\ s \notin up /\ r >= image[s]
    /\ image' = [image EXCEPT ![s] = r]
    /\ UNCHANGED <<applied, up, faults>>

\* The next migration, of a replica that lacks it.
Apply(s) ==
    /\ s \notin up /\ applied < image[s]
    /\ applied' = applied + 1
    /\ UNCHANGED <<image, up, faults>>

\* Nothing is left to apply; it matters to nobody who has applied it.
ComeUp(s) ==
    /\ s \notin up /\ image[s] <= applied
    /\ up' = up \cup {s}
    /\ UNCHANGED <<applied, image, faults>>

\* Only a fault takes a replica down, and it never undoes a migration.
Fail(s) ==
    /\ up' = up \ {s} /\ faults' = faults + 1
    /\ UNCHANGED <<applied, image>>

Next == \E s \in Servers :
    \/ \E r \in 0..MaxVersion : Launch(s, r)
    \/ Apply(s) \/ ComeUp(s) \/ Fail(s)

Spec == Init /\ [][Next]_vars
=============================================================================
