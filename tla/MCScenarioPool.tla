--------------------------- MODULE MCScenarioPool ---------------------------
(* The scenario pool with values from the configuration.                    *)
EXTENDS ScenarioPool
==============================================================================
