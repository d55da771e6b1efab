----------------------------- MODULE MCSerialRx -----------------------------
(* Instances of SerialRx for TLC: the motors are interchangeable.           *)
EXTENDS SerialRx, TLC

Symmetry == Permutations(Ids)
=============================================================================
