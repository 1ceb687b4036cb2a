------------------------------ MODULE MCGrants ------------------------------
(* Grants for TLC: who signs in, what tokens are asked for, and symmetry. *)
EXTENDS Grants, TLC

CONSTANTS seed, mail, a, b

\* A token for one endpoint, and a short-lived one for all and the control plane.
Choices == {[slugs |-> {a}, control |-> FALSE, days |-> NoExpiry],
            [slugs |-> {}, control |-> TRUE, days |-> 1]}

\* Everybody signs in with the address of the first user, vouched for, or with
\* another that is not.
SomePeople == {[subject |-> s, email |-> e, verified |-> e = seed] : s \in Subjects, e \in Emails}

Start == <<a>>

Symmetry == Permutations(Tasks) \cup Permutations(Subjects)
=============================================================================
