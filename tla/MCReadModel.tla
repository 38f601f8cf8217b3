---------------------------- MODULE MCReadModel ----------------------------
(***************************************************************************)
(* Model values for ReadModel.  The ids of a pool are interchangeable, so  *)
(* permuting the sessions and the inbox events is sound for the invariants *)
(* checked with it.                                                        *)
(***************************************************************************)
EXTENDS ReadModel, TLC

CONSTANTS d1, s1, s2, a1, i1, i2, t1

MCSymmetry == Permutations({s1, s2}) \cup Permutations({i1, i2})
=============================================================================
