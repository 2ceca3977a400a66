---------------------------- MODULE MCScreencast ----------------------------
(* The preview of one session with values from the configuration.           *)
EXTENDS Screencast
=============================================================================
