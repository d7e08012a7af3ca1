--------------------------- MODULE MCMountDaemon ---------------------------
(* MountDaemon for TLC: clients are interchangeable. *)
EXTENDS MountDaemon, TLC

Symmetry == Permutations(Clients)
=============================================================================
