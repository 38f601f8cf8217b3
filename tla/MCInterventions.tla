-------------------------- MODULE MCInterventions --------------------------
(***************************************************************************)
(* Model values for Interventions: two panels are the least that can be    *)
(* rivals for one intervention, one of them possibly a row of the Pending  *)
(* tab and the other the detail of its notification.                       *)
(***************************************************************************)
EXTENDS Interventions, FiniteSets

CONSTANTS d1, s1, a1, i1, p1, p2

\* One kind of trouble at a time.
OneLapse == Cardinality(lapses) <= 1

\* With the devcontainer every item is gone for good: one thing at a time is followed
\* from there.
DeletionIsTheEnd ==
    devcontainers[d1] = None /\ d1 \in minted =>
        Cardinality({<<p, k>> \in Panels \X Kinds : posts[p][k] # None}) + Len(pipe[d1]) <= 1
=============================================================================
