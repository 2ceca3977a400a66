-------------------------- MODULE MCFollowerSessions --------------------------
(* The followers' sessions with values from the configuration.              *)
EXTENDS FollowerSessions
=============================================================================
