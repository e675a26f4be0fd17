--------------------------- MODULE MCRunnerTunnel ---------------------------
(* The symmetry of RunnerTunnel, for its safety runs: connections and        *)
(* sessions are interchangeable.                                             *)
EXTENDS RunnerTunnel, TLC

Symmetry == Permutations(Conns) \cup Permutations(Sessions)
=============================================================================
