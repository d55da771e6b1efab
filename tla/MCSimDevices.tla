---------------------------- MODULE MCSimDevices ----------------------------
(***************************************************************************)
(* An instance of SimDevices for TLC: two controllers, one whose cycle is  *)
(* the basic step and one whose cycle is two steps, a motor and an imu.    *)
(***************************************************************************)
EXTENDS SimDevices, TLC

CONSTANTS r1, r2

CellSequence == <<"angle", "imu">>
StepAndTwoSteps == (r1 :> Step) @@ (r2 :> 2 * Step)

=============================================================================
