-------------------------- MODULE MCTunnelRequests --------------------------
(* The symmetry of TunnelRequests, for its safety runs. *)
EXTENDS TunnelRequests, TLC

Symmetry == Permutations(Conns) \cup Permutations(Reqs)
=============================================================================
