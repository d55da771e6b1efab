----------------------------- MODULE MCRobotRun -----------------------------
(***************************************************************************)
(* An instance of RobotRun for TLC: two ports that carry the joints and    *)
(* the wheel.                                                              *)
(***************************************************************************)
EXTENDS RobotRun, TLC

CONSTANTS io1, io2, c1, c2, j1, j2, w1

\* The joints hang on one port, as Aokee's motors do, the wheel on another.
TwoBuses == (j1 :> io1) @@ (j2 :> io1) @@ (w1 :> io2)

=============================================================================
