---------------------- MODULE MCDevcontainerLifecycle ----------------------
(***************************************************************************)
(* Model values for DevcontainerLifecycle: rows that share one folder, the *)
(* case in which they can get in each other's way.                         *)
(***************************************************************************)
EXTENDS DevcontainerLifecycle, TLC

CONSTANTS d1, d2, f1

OneFolder == [d \in Devcontainers |-> f1]
=============================================================================
