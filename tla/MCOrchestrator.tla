--------------------------- MODULE MCOrchestrator ---------------------------
(* An instance of Orchestrator for TLC; the cfg gives the constants.       *)
EXTENDS Orchestrator
=============================================================================
