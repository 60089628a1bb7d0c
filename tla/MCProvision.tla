----------------------------- MODULE MCProvision -----------------------------
(* A small instance of Provision for TLC; the other values are in the .cfg file. *)
EXTENDS Provision, TLC

\* One email with two subjects, and one subject with two emails.
MCAccounts ==
    {[subject |-> "s1", email |-> "e1"], [subject |-> "s2", email |-> "e1"],
     [subject |-> "s1", email |-> "e2"]}

\* A session takes one group and no more.
MCTooLong == {groupClaims \in SUBSET Claims : Cardinality(groupClaims) > 1}

\* No action and no property tells one login or one group from another.
MCSymmetry == Permutations(Logins) \cup Permutations(Claims)
=============================================================================
