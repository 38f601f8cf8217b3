--------------------------- MODULE MCLiveUpdates ---------------------------
(***************************************************************************)
(* Model values for LiveUpdates: the keys of a query.                      *)
(***************************************************************************)
EXTENDS LiveUpdates

CONSTANTS k1, k2
=============================================================================
