-------------------------- MODULE MCAgentSessions --------------------------
(***************************************************************************)
(* Model values for AgentSessions: one devcontainer, because channels,     *)
(* dict entries and the one-active rule are all per devcontainer, and two  *)
(* sessions, the least that can break that rule.                           *)
(***************************************************************************)
EXTENDS AgentSessions, TLC

CONSTANTS d1, s1, s2, a1, i1, i2, r1, r2, t1

\* Ids of one pool are interchangeable: one symmetry set per choice of pools.
Pair(x, y) == Permutations({x, y})
PairSymmetry == Pair(s1, s2) \cup Pair(i1, i2) \cup Pair(r1, r2)
IdSymmetry   == Pair(s1, s2) \cup Pair(i1, i2)

\* Nothing is claimed of a devcontainer once two of its runs may have been
\* confused, so behaviours are followed up to that point.
NotConfused == lapses \cap {"resumed_over_stop"} = {}
=============================================================================
