----------------------------- MODULE MCMotorLink -----------------------------
(* An instance of MotorLink for TLC: a motor mounted in reverse, torques      *)
(* within the limit of the protocol and beyond that of an int16_t.            *)
EXTENDS MotorLink

MCDir == -1
MCTorques == {-40000, 0, 100, 32768}
=============================================================================
