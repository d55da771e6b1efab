---------------------------- MODULE ChassisLoop ----------------------------
(***************************************************************************)
(* WheelLeggedChassis::ctrlLoop with its two legs (vir::FiveLink), pass    *)
(* after pass, while the io thread stores new joint angles.                *)
(*                                                                         *)
(* Of a number only whether it is one is kept.  forward_solve takes acosf  *)
(* of a ratio that exceeds 1 when the two angles of a leg do not close the *)
(* linkage: the length, the Jacobian and all that follows are then NaN.    *)
(***************************************************************************)
EXTENDS Naturals, Sequences

CONSTANT Poses  \* pairs of joint angles at which the linkage closes

ASSUME PosesAssumption == \A p \in Poses : p = <<p[1], p[2]>>

Legs == {"left", "right"}
Joints == Legs \X {1, 2}
Verdicts == {"none", "finite", "nan"}

VARIABLES pose,    \* where each leg stands
          joint,   \* the angle member of each joint's motor
          step,    \* what ctrlLoop does next
          varphi,  \* varphi_1 and varphi_2 of each leg
          solved,  \* l and jacobian_trans of each leg
          memory,  \* i_out and error of pid_l
          force,   \* F_l
          torque,  \* what each joint was commanded last
          still    \* history: since its first joint was read, the leg has stood at what its joints report

chassisVars == <<pose, joint, step, varphi, solved, memory, force, torque, still>>

NanIf(b) == IF b THEN "nan" ELSE "finite"

ChassisInit ==
    /\ pose \in [Legs -> Poses]
    /\ joint = [j \in Joints |-> pose[j[1]][j[2]]]
    /\ step = 1
    /\ varphi = [g \in Legs |-> pose[g]]
    /\ solved = [g \in Legs |-> "none"]
    /\ memory = "finite" /\ force = "none"
    /\ torque = [j \in Joints |-> "none"]
    /\ still = [g \in Legs |-> FALSE]

-----------------------------------------------------------------------------
(* The robot and its motors' reports.                                      *)

Move(g) ==
    /\ \E p \in Poses : pose' = [pose EXCEPT ![g] = p]
    /\ still' = [still EXCEPT ![g] = FALSE]
    /\ UNCHANGED <<joint, step, varphi, solved, memory, force, torque>>

Report(j) ==
    /\ joint' = [joint EXCEPT ![j] = pose[j[1]][j[2]]]
    /\ UNCHANGED <<pose, step, varphi, solved, memory, force, torque, still>>

-----------------------------------------------------------------------------
(* ctrlLoop.                                                               *)

\* The order in which the joints are read, and commanded.
Order == << <<"left", 1>>, <<"left", 2>>, <<"right", 1>>, <<"right", 2>> >>

\* Variant of Varphi that takes each joint for the other.
VarphiSwapped(i) == 3 - i

\* varphi_1 = motor1.getAngle(), varphi_2 = motor2.getAngle()
Varphi(i) == i

\* forward_solve and jacobian_calc are functions of the two angles alone.
Solve(angles) == NanIf(angles \notin Poses)

\* FiveLink::update: one joint is read; after the second, the leg is solved.
ReadJoint ==
    /\ step \in 1 .. 4
    /\ LET j == Order[step]
           g == j[1]
       IN  /\ varphi' = [varphi EXCEPT ![g][Varphi(j[2])] = joint[j]]
           /\ solved' = IF j[2] = 1 THEN solved
                        ELSE [solved EXCEPT ![g] = Solve(varphi'[g])]
           /\ still' = IF j[2] = 2 THEN still
                       ELSE [still EXCEPT ![g] = pose[g] = <<joint[<<g, 1>>], joint[<<g, 2>>]>>]
    /\ step' = step + 1
    /\ UNCHANGED <<pose, joint, memory, force, torque>>

BadLength == \E g \in Legs : solved[g] = "nan"

\* Variant of Control in which pid_l is taken by reference.
ControlByReference ==
    /\ step = 5
    /\ force' = NanIf(BadLength \/ memory = "nan")
    /\ memory' = force'
    /\ step' = 6
    /\ UNCHANGED <<pose, joint, varphi, solved, torque, still>>

\* l_set - mean of the lengths >> pid_l >> F_l: a copy of pid_l computes.  The
\* limits compare, and a NaN passes every comparison.
Control ==
    /\ step = 5
    /\ force' = NanIf(BadLength \/ memory = "nan")
    /\ step' = 6
    /\ UNCHANGED <<pose, joint, varphi, solved, memory, torque, still>>

\* FiveLink::setForce, joint after joint: the Jacobian of the leg times a force
\* that holds F_l.
Command ==
    /\ step \in 6 .. 9
    /\ LET j == Order[step - 5]
       IN  torque' = [torque EXCEPT ![j] = NanIf(force = "nan" \/ solved[j[1]] = "nan")]
    /\ step' = step + 1
    /\ UNCHANGED <<pose, joint, varphi, solved, memory, force, still>>

\* 0.0f >> wheel[0], 0.0f >> wheel[1], and the next cycle
Wheels ==
    /\ step = 10
    /\ step' = 1
    /\ UNCHANGED <<pose, joint, varphi, solved, memory, force, torque, still>>

ChassisNext ==
    \/ \E g \in Legs : Move(g)
    \/ \E j \in Joints : Report(j)
    \/ ReadJoint \/ Control \/ Command \/ Wheels

ChassisSpec == ChassisInit /\ [][ChassisNext]_chassisVars

-----------------------------------------------------------------------------
\* A leg that stands still between the two reads, with both joints reported, is
\* solved for the pose it stands at; a NaN takes a leg that moved between the
\* reports of its two joints or between the two reads.
StillLegIsSolved ==
    /\ step \in 3 .. 10 /\ still["left"] => solved["left"] = "finite" /\ varphi["left"] = pose["left"]
    /\ step \in 5 .. 10 /\ still["right"] => solved["right"] = "finite" /\ varphi["right"] = pose["right"]

\* One leg that does not close makes every torque NaN, but only for that pass:
\* in a pass whose angles fit, the joints of both legs get finite torques
\* whatever was computed before.  What saves the later passes is the copy of
\* pid_l: an integrator that keeps a NaN never loses it.
NanLastsOnePass ==
    step = 10 => \A j \in Joints :
        torque[j] = NanIf(\E g \in Legs : varphi[g] \notin Poses)

=============================================================================
