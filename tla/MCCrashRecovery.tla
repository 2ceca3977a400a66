--------------------------- MODULE MCCrashRecovery ---------------------------
(* Crash recovery with values from the configuration.                       *)
EXTENDS CrashRecovery
==============================================================================
