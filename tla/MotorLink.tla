------------------------------ MODULE MotorLink ------------------------------
(***************************************************************************)
(* dev::UnitreeMotor (src/dev/unitree_motor.cc) between two threads that   *)
(* share its members without a lock: the thread of its port, which unpacks *)
(* the motor's reports, and the one thread at a time that sends torques    *)
(* (main in Aokee::devInit, then a controller; RobotRun shows that they    *)
(* never overlap) and that calibrates the angle once, in between.          *)
(*                                                                         *)
(* Angles and torques are integers: an angle counts steps of the encoder,  *)
(* a torque counts the 256ths of what the protocol calls 1.  The members are *)
(* aligned words: a read that races a write sees the old or the new value. *)
(* The speed and the temperature are stored with the angle and left out.   *)
(***************************************************************************)
EXTENDS Integers, Sequences

CONSTANTS Dir,         \* dir: 1 or -1, how the motor is mounted
          Torques,     \* torques that are asked for
          Positions,   \* raw readings of the encoder
          LimitAngle,  \* JOINT_LIMIT_ANGLE, the true angle at the stop
          MaxReports   \* bound: reports on their way

MaxSet == 32742        \* 127.9f * 256.0f as an int16_t

ASSUME MotorAssumption ==
    /\ Dir \in {1, -1}
    /\ Torques \subseteq Int /\ Positions \subseteq Int
    /\ LimitAngle \in Int
    /\ MaxReports \in Nat

Errors == {"NORMAL", "FAULT"}
Reports == [angle : Positions, err : Errors]

VARIABLES err, angle, angleOffset,  \* members of the motor
          torqueSet,    \* send_data.msg.torque_set
          spc,          \* where the sending thread is
          torque,       \* its argument, after the test of err
          asked,        \* the argument as it was given
          target,       \* angle as setAngel has read it
          upc,          \* where unpack is
          fbk,          \* the report that is unpacked
          newAngle,     \* the right-hand side of the assignment to angle
          reports,      \* reports on their way
          calibrated,   \* history: setAngel has returned
          heard,        \* history: raw reading that angle stands for
          base,         \* history: raw reading that setAngel took for the stop
          stores,       \* history: angles stored since setAngel, 2 for more
          late          \* history: torques sent since a fault was stored

sendVars == <<torqueSet, spc, torque, asked, target>>
unpackVars == <<upc, fbk, newAngle, reports>>
calibration == <<calibrated, base>>
vars == <<err, angle, angleOffset, sendVars, unpackVars, calibration, heard, stores, late>>

Directed(x) == IF Dir = 1 THEN x ELSE -x

Init ==
    /\ err = "NORMAL" /\ angle = 0 /\ angleOffset = 0
    /\ torqueSet = 0 /\ spc = "idle" /\ torque = 0 /\ asked = 0 /\ target = 0
    /\ upc = "idle" /\ newAngle = 0 /\ reports = <<>>
    /\ fbk \in Reports
    /\ calibrated = FALSE /\ heard = 0 /\ base = 0
    /\ stores = 0 /\ late = 0

-----------------------------------------------------------------------------
(* setTorque *)

AbsLimit(x, lim) == IF x < -lim THEN -lim ELSE IF x > lim THEN lim ELSE x
Int16(x) == ((x + 32768) % 65536) - 32768

(* Variant of Encode: no limit before the conversion.                      *)
EncodeUnlimited(t) == Int16(Directed(t))

Encode(t) == Int16(AbsLimit(Directed(t), MaxSet))

(* Variant of TestError: the error is left to the motor.                   *)
TestErrorNever(t) ==
    /\ spc = "idle"
    /\ asked' = t
    /\ torque' = t
    /\ spc' = "build"
    /\ UNCHANGED <<err, angle, angleOffset, torqueSet, target, unpackVars, calibration, heard, stores, late>>

TestError(t) ==
    /\ spc = "idle"
    /\ asked' = t
    /\ torque' = IF err # "NORMAL" THEN 0 ELSE t
    /\ spc' = "build"
    /\ UNCHANGED <<err, angle, angleOffset, torqueSet, target, unpackVars, calibration, heard, stores, late>>

Build ==
    /\ spc = "build"
    /\ torqueSet' = Encode(torque)
    /\ spc' = "send"
    /\ UNCHANGED <<err, angle, angleOffset, torque, asked, target, unpackVars, calibration, heard, stores, late>>

(* io.send: the motor takes the command and answers, or the answer is lost. *)
Send ==
    /\ spc = "send"
    /\ spc' = "idle"
    /\ late' = IF err # "NORMAL" /\ torqueSet # 0 THEN late + 1 ELSE late
    /\ \/ \E r \in Reports : Len(reports) < MaxReports /\ reports' = Append(reports, r)
       \/ UNCHANGED reports
    /\ UNCHANGED <<err, angle, angleOffset, torqueSet, torque, asked, target, upc, fbk, newAngle, calibration, heard, stores>>

-----------------------------------------------------------------------------
(* setAngel, once, by main at the end of Aokee::devInit's loop. *)

ReadAngle ==
    /\ spc = "idle" /\ ~calibrated
    /\ target' = angle
    /\ base' = heard
    /\ spc' = "setAngel"
    /\ UNCHANGED <<err, angle, angleOffset, torqueSet, torque, asked, unpackVars, calibrated, heard, stores, late>>

(* Variant of Offset: the difference the other way round.                  *)
OffsetSwapped(reading, current) == current - reading

Offset(reading, current) == reading - current

SetOffset ==
    /\ spc = "setAngel"
    /\ angleOffset' = Offset(target, LimitAngle)
    /\ calibrated' = TRUE /\ stores' = 0
    /\ spc' = "idle"
    /\ UNCHANGED <<err, angle, torqueSet, torque, asked, target, unpackVars, base, heard, late>>

-----------------------------------------------------------------------------
(* unpack, in the thread of the port; a report that fails the checks of     *)
(* unpack changes nothing and is left out.                                 *)

TakeReport ==
    /\ upc = "idle" /\ reports # <<>>
    /\ fbk' = reports[1]
    /\ reports' = Tail(reports)
    /\ newAngle' = Directed(reports[1].angle) - angleOffset
    /\ upc' = "angle"
    /\ UNCHANGED <<err, angle, angleOffset, sendVars, calibration, heard, stores, late>>

StoreAngle ==
    /\ upc = "angle"
    /\ angle' = newAngle /\ heard' = Directed(fbk.angle)
    /\ stores' = IF stores < 2 THEN stores + 1 ELSE 2
    /\ upc' = "err"
    /\ UNCHANGED <<err, angleOffset, sendVars, fbk, newAngle, reports, calibration, late>>

StoreError ==
    /\ upc = "err"
    /\ err' = fbk.err
    /\ late' = IF fbk.err = "NORMAL" \/ err = "NORMAL" THEN 0 ELSE late
    /\ upc' = "idle"
    /\ UNCHANGED <<angle, angleOffset, sendVars, fbk, newAngle, reports, calibration, heard, stores>>

-----------------------------------------------------------------------------
Next ==
    \/ \E t \in Torques : TestError(t)
    \/ Build \/ Send \/ ReadAngle \/ SetOffset
    \/ TakeReport \/ StoreAngle \/ StoreError

Spec == Init /\ [][Next]_vars

-----------------------------------------------------------------------------
(* The members and the threads hold what they are meant to hold; a command  *)
(* is within the limit of the protocol.                                    *)
MotorTypeOK ==
    /\ err \in {"NORMAL", "FAULT"}
    /\ angle \in Int /\ angleOffset \in Int /\ target \in Int /\ newAngle \in Int
    /\ torqueSet \in -MaxSet .. MaxSet
    /\ spc \in {"idle", "build", "send", "setAngel"}
    /\ torque \in Torques \cup {0} /\ asked \in Torques \cup {0}
    /\ upc \in {"idle", "angle", "err"}
    /\ fbk \in Reports
    /\ reports \in Seq(Reports) /\ Len(reports) <= MaxReports
    /\ calibrated \in BOOLEAN
    /\ heard \in Int /\ base \in Int
    /\ stores \in 0 .. 2
    /\ late \in Nat

(* A motor that has reported a fault is sent at most one more torque, the   *)
(* one whose setTorque had tested err before the report was stored, until   *)
(* it reports to be normal again.                                          *)
AtMostOneLate == late <= 1

(* The command that goes out never pushes against what was asked for, and   *)
(* is exactly that within the limits of the protocol, unless a fault makes  *)
(* it zero: the limit comes before the conversion to int16_t, which would   *)
(* turn a large torque round.                                              *)
CommandFollows ==
    spc = "send" =>
        \/ torqueSet = 0
        \/ asked \in -MaxSet .. MaxSet /\ torqueSet = Directed(asked)
        \/ asked > MaxSet /\ torqueSet = Directed(MaxSet)
        \/ asked < -MaxSet /\ torqueSet = Directed(-MaxSet)

(* Before the calibration an angle is the reading of the encoder.  From the *)
(* second report that is stored after it the angle counts from the stop:    *)
(* setAngel itself leaves angle as it is, and the first report may be one   *)
(* that unpack was in the middle of when the offset changed.  Of a motor    *)
(* that never answers again nothing is said.                                *)
AngleCalibrated ==
    /\ ~calibrated => angle = heard
    /\ calibrated /\ stores = 2 => angle = LimitAngle + heard - base
=============================================================================
