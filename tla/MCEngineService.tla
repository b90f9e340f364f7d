--------------------------- MODULE MCEngineService ---------------------------
(* An instance of EngineService for TLC.                                   *)
EXTENDS EngineService

CONSTANTS io, cpu, api, probe

TwoSignals == <<io, cpu>>
=============================================================================
