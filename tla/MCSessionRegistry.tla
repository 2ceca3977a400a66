-------------------------- MODULE MCSessionRegistry --------------------------
(* The registry with values from the configuration.                        *)
EXTENDS SessionRegistry
==============================================================================
