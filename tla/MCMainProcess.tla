--------------------------- MODULE MCMainProcess ---------------------------
(***************************************************************************)
(* An instance of MainProcess for TLC: one port carries every motor.       *)
(***************************************************************************)
EXTENDS MainProcess

CONSTANT io1

OneBus == [m \in Motors |-> io1]

=============================================================================
