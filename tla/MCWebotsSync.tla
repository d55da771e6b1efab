---------------------------- MODULE MCWebotsSync ----------------------------
(***************************************************************************)
(* An instance of WebotsSync for TLC: two controllers, one whose cycle is  *)
(* the basic step and one whose cycle is two steps.                        *)
(***************************************************************************)
EXTENDS WebotsSync, TLC

CONSTANTS r1, r2

StepAndTwoSteps == (r1 :> Step) @@ (r2 :> 2 * Step)

=============================================================================
