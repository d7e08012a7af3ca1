------------------------ MODULE MCConnectionLimiter ------------------------
(* ConnectionLimiter for TLC: clients and connections are interchangeable. *)
EXTENDS ConnectionLimiter, TLC

Symmetry == Permutations(Peers) \cup Permutations(Conns)
=============================================================================
