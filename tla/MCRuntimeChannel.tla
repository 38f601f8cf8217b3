-------------------------- MODULE MCRuntimeChannel --------------------------
(***************************************************************************)
(* Model values for RuntimeChannel: two runtimes contend for the slot.     *)
(* Three connections let one be half-open while its client reconnects and  *)
(* the other runtime dials.                                                *)
(***************************************************************************)
EXTENDS RuntimeChannel, TLC

CONSTANTS c1, c2, k1, k2, k3, q1

ChannelSymmetry == Permutations({c1, c2}) \cup Permutations({k1, k2, k3})
=============================================================================
