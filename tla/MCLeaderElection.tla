-------------------------- MODULE MCLeaderElection --------------------------
(* Symmetry for TLC: daemon slots are interchangeable, and so are clients.  *)
EXTENDS LeaderElection, TLC

Symmetry == Permutations(Clients) \cup Permutations(Daemons)
=============================================================================
