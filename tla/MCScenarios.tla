---------------------------- MODULE MCScenarios ----------------------------
(* An instance of Scenarios for TLC.                                       *)
EXTENDS Scenarios, TLC

CONSTANTS ann, bob

TwoUsers == {ann, bob}
=============================================================================
