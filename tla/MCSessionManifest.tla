-------------------------- MODULE MCSessionManifest --------------------------
(* The session manifest with values from the configuration.                 *)
EXTENDS SessionManifest, TLC

(* Sessions differ in nothing but their name, and neither do daemons.       *)
Names == Permutations(Sessions) \cup Permutations(Daemons)
==============================================================================
