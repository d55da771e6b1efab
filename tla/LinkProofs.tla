----------------------------- MODULE LinkProofs -----------------------------
(***************************************************************************)
(* Proofs about what arrives at a device and what leaves it: a motor of    *)
(* any mounting, any torques and readings and any number of reports on     *)
(* their way (MotorLink), and a UDP port with any senders, devices and     *)
(* keys (SocketRx).                                                        *)
(***************************************************************************)
EXTENDS MotorLink, SocketRx, FiniteSetTheorems, TLAPS

(* What setTorque has tested but not sent: only one such torque can be under *)
(* way when a fault is stored.                                               *)
InFlight == \/ spc = "build" /\ torque # 0
            \/ spc = "send" /\ torqueSet # 0

LateInv ==
    /\ err = "NORMAL" => late = 0
    /\ err # "NORMAL" /\ InFlight => late = 0
    /\ AtMostOneLate

CommandInv ==
    /\ spc = "build" => torque \in {0, asked}
    /\ CommandFollows

(* The offset that angle and a report in the middle of unpack are based on.  *)
AngleInv ==
    /\ ~calibrated =>
          /\ angleOffset = 0
          /\ upc = "angle" => newAngle = Directed(fbk.angle)
    /\ spc = "setAngel" => ~calibrated /\ target = base
    /\ calibrated =>
          /\ angleOffset = base - LimitAngle
          /\ upc = "angle" /\ stores > 0 => newAngle = Directed(fbk.angle) - angleOffset
    /\ AngleCalibrated

IInv == MotorTypeOK /\ LateInv /\ CommandInv /\ AngleInv

-----------------------------------------------------------------------------
(* All that the proofs need of the limit.                                    *)
LEMMA MaxSetFits == MaxSet \in Int /\ 0 < MaxSet /\ MaxSet < 32768
BY DEF MaxSet

(* The three ranges of a torque: beyond the limit on either side or within.  *)
Over(t) == t > MaxSet
Under(t) == t < -MaxSet
Within(t) == -MaxSet <= t /\ t <= MaxSet

LEMMA Int16Within ==
    ASSUME NEW y \in Int, Within(y)
    PROVE  Int16(y) = y
<1>1. y + 32768 \in Int /\ 0 <= y + 32768 /\ y + 32768 < 65536
  BY MaxSetFits DEF Within
<1>2. \A z \in Int : 0 <= z /\ z < 65536 => z % 65536 = z
  OBVIOUS
<1>3. (y + 32768) % 65536 = y + 32768
  BY <1>1, <1>2
<1> QED
  BY <1>3 DEF Int16

(* A torque within the limit is converted as it is, one beyond it becomes    *)
(* the limit: the conversion never leaves the range of an int16_t.           *)
LEMMA LimitedInt16 ==
    ASSUME NEW y \in Int
    PROVE  /\ Over(y) => Int16(AbsLimit(y, MaxSet)) = MaxSet
           /\ Under(y) => Int16(AbsLimit(y, MaxSet)) = -MaxSet
           /\ Within(y) => Int16(AbsLimit(y, MaxSet)) = y
<1>1. ASSUME Over(y) PROVE Int16(AbsLimit(y, MaxSet)) = MaxSet
  <2>1. AbsLimit(y, MaxSet) = MaxSet
    BY <1>1, MaxSetFits DEF Over, AbsLimit
  <2>2. Within(MaxSet)
    BY MaxSetFits DEF Within
  <2> QED
    BY <2>1, <2>2, Int16Within, MaxSetFits
<1>2. ASSUME Under(y) PROVE Int16(AbsLimit(y, MaxSet)) = -MaxSet
  <2>1. AbsLimit(y, MaxSet) = -MaxSet
    BY <1>2 DEF Under, AbsLimit
  <2>2. -MaxSet \in Int /\ Within(-MaxSet)
    BY MaxSetFits DEF Within
  <2> QED
    BY <2>1, <2>2, Int16Within
<1>3. ASSUME Within(y) PROVE Int16(AbsLimit(y, MaxSet)) = y
  <2>1. ~(y < -MaxSet) /\ ~(y > MaxSet)
    BY <1>3, MaxSetFits DEF Within
  <2>2. AbsLimit(y, MaxSet) = y
    BY <2>1 DEF AbsLimit
  <2> QED
    BY <1>3, <2>2, Int16Within
<1> QED
  BY <1>1, <1>2, <1>3

(* What a command is, whichever way the motor is mounted.                    *)
LEMMA EncodeValue ==
    ASSUME NEW t \in Int
    PROVE  /\ Over(t) => Encode(t) = Directed(MaxSet)
           /\ Under(t) => Encode(t) = Directed(-MaxSet)
           /\ Within(t) => Encode(t) = Directed(t)
<1>1. CASE Dir = 1
  <2>1. Directed(t) = t /\ Directed(MaxSet) = MaxSet /\ Directed(-MaxSet) = -MaxSet
    BY <1>1 DEF Directed
  <2>2. Encode(t) = Int16(AbsLimit(t, MaxSet))
    BY <2>1 DEF Encode
  <2> QED
    BY <2>1, <2>2, LimitedInt16
<1>2. CASE Dir # 1
  <2>1. Directed(t) = -t /\ Directed(MaxSet) = -MaxSet /\ Directed(-MaxSet) = MaxSet
    BY <1>2, MaxSetFits DEF Directed
  <2>2. Encode(t) = Int16(AbsLimit(-t, MaxSet))
    BY <2>1 DEF Encode
  <2>3. /\ Over(t) => Under(-t)
        /\ Under(t) => Over(-t)
        /\ Within(t) => Within(-t)
    BY MaxSetFits DEF Over, Under, Within
  <2>4. -t \in Int
    OBVIOUS
  <2> QED
    BY <2>1, <2>2, <2>3, <2>4, LimitedInt16
<1> QED
  BY <1>1, <1>2

LEMMA Ranges ==
    ASSUME NEW t \in Int
    PROVE  /\ Over(t) \/ Under(t) \/ Within(t)
           /\ Within(t) => t \in -MaxSet .. MaxSet
BY MaxSetFits DEF Over, Under, Within

LEMMA EncodeInRange ==
    ASSUME NEW t \in Int
    PROVE  Encode(t) \in -MaxSet .. MaxSet /\ (t = 0 => Encode(t) = 0)
<1>1. \A y \in Int : Within(y) => Within(Directed(y)) /\ Directed(y) \in Int
  BY MaxSetFits DEF Within, Directed
<1>2. Within(MaxSet) /\ Within(-MaxSet) /\ MaxSet \in Int /\ -MaxSet \in Int
  BY MaxSetFits DEF Within
<1>3. Within(Encode(t)) /\ Encode(t) \in Int
  <2>1. CASE Over(t)
    BY <1>1, <1>2, <2>1, EncodeValue
  <2>2. CASE Under(t)
    BY <1>1, <1>2, <2>2, EncodeValue
  <2>3. CASE Within(t)
    BY <1>1, <2>3, EncodeValue
  <2>4. Over(t) \/ Under(t) \/ Within(t)
    BY Ranges
  <2> QED
    BY <2>1, <2>2, <2>3, <2>4
<1>4. ASSUME t = 0 PROVE Encode(t) = 0
  <2>1. Within(t)
    BY <1>4, MaxSetFits DEF Within
  <2>2. Directed(t) \in Int /\ (t + Directed(t) = 0 \/ Directed(t) = t)
    BY DEF Directed
  <2>3. Encode(t) = Directed(t)
    BY <2>1, EncodeValue
  <2> QED
    BY <1>4, <2>2, <2>3
<1> QED
  BY <1>3, <1>4, Ranges

LEMMA DirectedInt == \A x \in Int : Directed(x) \in Int
BY DEF Directed

LEMMA ReportParts == \A r \in Reports : r.angle \in Int /\ r.err \in {"NORMAL", "FAULT"}
BY MotorAssumption DEF Reports, Errors

(* Every initial state satisfies the inductive invariant.                    *)
LEMMA InitIInv == Init => IInv
<1> SUFFICES ASSUME Init PROVE IInv
  OBVIOUS
<1>1. MotorTypeOK
  <2>1. 0 \in -MaxSet .. MaxSet
    BY MaxSetFits
  <2>2. <<>> \in Seq(Reports) /\ Len(<<>>) <= MaxReports
    BY MotorAssumption
  <2>3. reports \in Seq(Reports) /\ Len(reports) <= MaxReports
    BY <2>2 DEF Init
  <2>4. /\ torqueSet \in -MaxSet .. MaxSet
        /\ torque \in Torques \cup {0} /\ asked \in Torques \cup {0}
        /\ fbk \in Reports
    BY <2>1 DEF Init
  <2>5. /\ angle \in Int /\ angleOffset \in Int /\ target \in Int /\ newAngle \in Int
        /\ heard \in Int /\ base \in Int
        /\ stores \in 0 .. 2 /\ late \in Nat
    BY DEF Init
  <2> QED
    BY <2>3, <2>4, <2>5 DEF Init, MotorTypeOK
<1>2. LateInv /\ CommandInv /\ AngleInv
  BY DEF Init, LateInv, AtMostOneLate, InFlight, CommandInv, CommandFollows, AngleInv, AngleCalibrated
<1> QED
  BY <1>1, <1>2 DEF IInv

-----------------------------------------------------------------------------
(* Every step keeps the types.                                               *)
LEMMA TypeStep ==
    ASSUME MotorTypeOK, [Next]_vars
    PROVE  MotorTypeOK'
<1> USE MotorAssumption DEF MotorTypeOK
<1>1. ASSUME NEW t \in Torques, TestError(t) PROVE MotorTypeOK'
  BY <1>1 DEF TestError, unpackVars, calibration
<1>2. CASE Build
  <2>1. torque \in Int
    OBVIOUS
  <2>2. Encode(torque) \in -MaxSet .. MaxSet
    BY <2>1, EncodeInRange
  <2> QED
    BY <1>2, <2>2 DEF Build, unpackVars, calibration
<1>3. CASE Send
  BY <1>3 DEF Send, calibration
<1>4. CASE ReadAngle
  BY <1>4 DEF ReadAngle, unpackVars
<1>5. CASE SetOffset
  BY <1>5 DEF SetOffset, Offset, unpackVars
<1>6. CASE TakeReport
  <2>1. reports[1] \in Reports
    BY <1>6 DEF TakeReport
  <2>2. Tail(reports) \in Seq(Reports) /\ Len(Tail(reports)) <= MaxReports
    BY <1>6 DEF TakeReport
  <2> QED
    BY <1>6, <2>1, <2>2, DirectedInt, ReportParts DEF TakeReport, sendVars, calibration
<1>7. CASE StoreAngle
  <2>1. Directed(fbk.angle) \in Int
    BY DirectedInt, ReportParts
  <2>2. (IF stores < 2 THEN stores + 1 ELSE 2) \in 0 .. 2
    OBVIOUS
  <2> QED
    BY <1>7, <2>1, <2>2 DEF StoreAngle, sendVars, calibration
<1>8. CASE StoreError
  BY <1>8, ReportParts DEF StoreError, sendVars, calibration
<1>9. CASE UNCHANGED vars
  BY <1>9 DEF vars, sendVars, unpackVars, calibration
<1> QED
  BY <1>1, <1>2, <1>3, <1>4, <1>5, <1>6, <1>7, <1>8, <1>9 DEF Next

(* Every step keeps the count of late torques: setTorque tests err for each  *)
(* torque, and there is one sender.                                          *)
LEMMA LateStep ==
    ASSUME MotorTypeOK, LateInv, [Next]_vars
    PROVE  LateInv'
<1> USE MotorAssumption DEF MotorTypeOK, LateInv, AtMostOneLate, InFlight
<1>1. ASSUME NEW t \in Torques, TestError(t) PROVE LateInv'
  BY <1>1 DEF TestError
<1>2. CASE Build
  <2>1. torque \in Int /\ (torque = 0 => Encode(torque) = 0)
    BY EncodeInRange
  <2> QED
    BY <1>2, <2>1 DEF Build
<1>3. CASE Send
  BY <1>3 DEF Send
<1>4. CASE ReadAngle
  BY <1>4 DEF ReadAngle
<1>5. CASE SetOffset
  BY <1>5 DEF SetOffset
<1>6. CASE TakeReport
  BY <1>6 DEF TakeReport, sendVars
<1>7. CASE StoreAngle
  BY <1>7 DEF StoreAngle, sendVars
<1>8. CASE StoreError
  BY <1>8 DEF StoreError, sendVars
<1>9. CASE UNCHANGED vars
  BY <1>9 DEF vars, sendVars
<1> QED
  BY <1>1, <1>2, <1>3, <1>4, <1>5, <1>6, <1>7, <1>8, <1>9 DEF Next

(* Every step keeps the command what was asked for.                          *)
LEMMA CommandStep ==
    ASSUME MotorTypeOK, CommandInv, [Next]_vars
    PROVE  CommandInv'
<1> USE DEF CommandInv, CommandFollows
<1>1. ASSUME NEW t \in Torques, TestError(t) PROVE CommandInv'
  BY <1>1 DEF TestError
<1>2. CASE Build
  <2>1. torque \in Int /\ asked \in Int /\ torque \in {0, asked}
    BY <1>2, MotorAssumption DEF Build, MotorTypeOK
  <2>2. spc' = "send" /\ asked' = asked /\ torqueSet' = Encode(torque)
    BY <1>2 DEF Build
  <2>3. CASE torque = 0
    BY <2>1, <2>2, <2>3, EncodeInRange
  <2>4. CASE torque = asked
    <3>1. asked \in Int
      BY <2>1
    <3>2. \/ Within(asked) /\ Encode(asked) = Directed(asked)
          \/ Over(asked) /\ Encode(asked) = Directed(MaxSet)
          \/ Under(asked) /\ Encode(asked) = Directed(-MaxSet)
      BY <3>1, EncodeValue, Ranges
    <3>3. \/ asked' \in -MaxSet .. MaxSet /\ torqueSet' = Directed(asked')
          \/ asked' > MaxSet /\ torqueSet' = Directed(MaxSet)
          \/ asked' < -MaxSet /\ torqueSet' = Directed(-MaxSet)
      <4>1. asked' = asked /\ torqueSet' = Encode(asked)
        BY <2>2, <2>4
      <4>2. CASE Within(asked) /\ Encode(asked) = Directed(asked)
        BY <3>1, <4>1, <4>2, Ranges
      <4>3. CASE Over(asked) /\ Encode(asked) = Directed(MaxSet)
        BY <4>1, <4>3 DEF Over
      <4>4. CASE Under(asked) /\ Encode(asked) = Directed(-MaxSet)
        BY <4>1, <4>4 DEF Under
      <4> QED
        BY <3>2, <4>2, <4>3, <4>4
    <3> QED
      BY <2>2, <3>3
  <2> QED
    BY <2>1, <2>3, <2>4
<1>3. CASE Send
  BY <1>3 DEF Send
<1>4. CASE ReadAngle
  BY <1>4 DEF ReadAngle
<1>5. CASE SetOffset
  BY <1>5 DEF SetOffset
<1>6. CASE TakeReport \/ StoreAngle \/ StoreError \/ UNCHANGED vars
  BY <1>6 DEF TakeReport, StoreAngle, StoreError, vars, sendVars, Directed
<1> QED
  BY <1>1, <1>2, <1>3, <1>4, <1>5, <1>6 DEF Next

(* Every step keeps what angle, its offset and a report in the middle of     *)
(* unpack say of the reading that calibrated them.                           *)
LEMMA AngleStep ==
    ASSUME MotorTypeOK, AngleInv, [Next]_vars
    PROVE  AngleInv'
<1> USE MotorAssumption DEF MotorTypeOK, AngleInv, AngleCalibrated
<1>1. ASSUME NEW t \in Torques, TestError(t) PROVE AngleInv'
  BY <1>1 DEF TestError, unpackVars, calibration, Directed
<1>2. CASE Build
  BY <1>2 DEF Build, unpackVars, calibration, Directed
<1>3. CASE Send
  BY <1>3 DEF Send, calibration, Directed
<1>4. CASE ReadAngle
  BY <1>4 DEF ReadAngle, unpackVars, Directed
<1>5. CASE SetOffset
  BY <1>5 DEF SetOffset, Offset, unpackVars, Directed
<1>6. CASE TakeReport
  <2>1. reports[1] \in Reports
    BY <1>6 DEF TakeReport
  <2>2. Directed(reports[1].angle) \in Int
    BY <2>1, DirectedInt, ReportParts
  <2> QED
    BY <1>6, <2>2 DEF TakeReport, sendVars, calibration
<1>7. CASE StoreAngle
  <2>1. Directed(fbk.angle) \in Int
    BY DirectedInt, ReportParts
  <2> QED
    BY <1>7, <2>1 DEF StoreAngle, sendVars, calibration
<1>8. CASE StoreError
  BY <1>8 DEF StoreError, sendVars, calibration
<1>9. CASE UNCHANGED vars
  BY <1>9 DEF vars, sendVars, unpackVars, calibration, Directed
<1> QED
  BY <1>1, <1>2, <1>3, <1>4, <1>5, <1>6, <1>7, <1>8, <1>9 DEF Next

-----------------------------------------------------------------------------
LEMMA Invariance == Spec => []IInv
<1>1. IInv /\ [Next]_vars => IInv'
  BY TypeStep, LateStep, CommandStep, AngleStep DEF IInv
<1> QED
  BY InitIInv, <1>1, PTL DEF Spec

(* The members and the threads hold what they are meant to hold, and a       *)
(* command is within the limit of the protocol, whatever torque is asked     *)
(* for.                                                                      *)
THEOREM MotorTypeCorrect == Spec => []MotorTypeOK
<1>1. IInv => MotorTypeOK
  BY DEF IInv
<1> QED
  BY Invariance, <1>1, PTL

(* At most one torque goes out after a fault has been stored, the one that   *)
(* setTorque had tested before.                                              *)
THEOREM AtMostOneLateHolds == Spec => []AtMostOneLate
<1>1. IInv => AtMostOneLate
  BY DEF IInv, LateInv
<1> QED
  BY Invariance, <1>1, PTL

(* A command never pushes against what was asked for, whatever was asked.    *)
THEOREM CommandFollowsHolds == Spec => []CommandFollows
<1>1. IInv => CommandFollows
  BY DEF IInv, CommandInv
<1> QED
  BY Invariance, <1>1, PTL

(* From the second report after the calibration on, the angle counts from    *)
(* the stop, however setAngel and unpack overlap.                            *)
THEOREM AngleCalibratedHolds == Spec => []AngleCalibrated
<1>1. IInv => AngleCalibrated
  BY DEF IInv, AngleInv
<1> QED
  BY Invariance, <1>1, PTL

-----------------------------------------------------------------------------
(* The UDP port: who gets a datagram.                                       *)

Unbuilt == {"open", "bind", "ready", "exited"}

SockTypes ==
    /\ iopc \in Unbuilt \cup {"test", "read", "find", "done"}
    /\ unpackers \in [Senders -> Devices \cup {None}]
    /\ made \in Seq(Devices)
    /\ net \subseteq Grams /\ queue \in Seq(Grams) /\ sent \in Nat
    /\ taken \in Seq(Grams)
    /\ delivered \in Seq(Devices \X Grams)

\* Nothing is received before the thread runs, and devices are made before.
NotYet == iopc \in Unbuilt => taken = <<>> /\ delivered = <<>>

\* A key leads to the device that was made first with it, and to none as long
\* as there is no such device.
FirstBound ==
    \A k \in Senders :
        \/ unpackers[k] = None /\ \A i \in DOMAIN made : KeyOf[made[i]] # k
        \/ \E i \in DOMAIN made : IsFirst(i, k) /\ unpackers[k] = made[i]

\* The thread looks for the device of the datagram it has just read.
Found ==
    iopc = "find" =>
        /\ taken # <<>> /\ buffer = taken[Len(taken)]
        /\ buffer.len > 0 /\ key = buffer.key

\* What was delivered went to the device that still has the key.
ToOwner == \A i \in DOMAIN delivered : unpackers[delivered[i][2].key] = delivered[i][1]

OwnerInv == SockTypes /\ NotYet /\ FirstBound /\ Found /\ ToOwner

LEMMA OwnerInit == SockInit => OwnerInv
<1> SUFFICES ASSUME SockInit PROVE OwnerInv
  OBVIOUS
<1>1. SockTypes
  BY DEF SockInit, SockTypes, Unbuilt
<1> QED
  BY <1>1 DEF SockInit, OwnerInv, NotYet, FirstBound, Found, ToOwner

\* Dev<IoKey>: a new device gets its key only if nobody has it.
LEMMA MakeDeviceKeeps ==
    ASSUME OwnerInv, NEW d \in Devices, MakeDevice(d)
    PROVE  OwnerInv'
<1> USE DEF OwnerInv
<1>1. iopc = "ready" /\ made' = Append(made, d)
      /\ UNCHANGED <<iopc, taken, delivered, net, queue, sent, key, buffer>>
  BY DEF MakeDevice, reading, network
<1>2. KeyOf[d] \in Senders /\ made \in Seq(Devices) /\ made' \in Seq(Devices)
  BY <1>1, SocketAssumption DEF SockTypes
<1>3. /\ DOMAIN made' = DOMAIN made \cup {Len(made) + 1}
      /\ \A i \in DOMAIN made : made'[i] = made[i]
      /\ made'[Len(made) + 1] = d
  BY <1>1, <1>2
<1>4. SockTypes'
  BY <1>1, <1>2 DEF MakeDevice, SockTypes
<1>5. NotYet' /\ Found' /\ ToOwner'
  BY <1>1 DEF NotYet, Found, ToOwner, Unbuilt
<1>6. ASSUME NEW k \in Senders, NEW i \in DOMAIN made, IsFirst(i, k) PROVE IsFirst(i, k)'
  <2>1. \A j \in 1 .. i - 1 : j \in DOMAIN made
    BY <1>2
  <2> QED
    BY <1>3, <1>6, <2>1 DEF IsFirst
<1>7. ASSUME NEW k \in Senders
      PROVE  \/ unpackers'[k] = None /\ \A i \in DOMAIN made' : KeyOf[made'[i]] # k
             \/ \E i \in DOMAIN made' : IsFirst(i, k)' /\ unpackers'[k] = made'[i]
  <2>1. CASE \E i \in DOMAIN made : IsFirst(i, k) /\ unpackers[k] = made[i]
    <3>1. PICK i \in DOMAIN made : IsFirst(i, k) /\ unpackers[k] = made[i]
      BY <2>1
    <3>2. unpackers[k] # None /\ unpackers'[k] = unpackers[k]
      BY <1>2, <3>1, SocketAssumption DEF MakeDevice, SockTypes
    <3> QED
      BY <1>3, <1>6, <3>1, <3>2
  <2>2. CASE unpackers[k] = None /\ \A i \in DOMAIN made : KeyOf[made[i]] # k
    <3>1. CASE KeyOf[d] = k
      <4>1. unpackers'[k] = d
        BY <2>2, <3>1 DEF MakeDevice, SockTypes
      <4>2. PICK n \in Nat : n = Len(made) + 1
        BY <1>2
      <4>3. IsFirst(n, k)'
        <5>1. \A j \in 1 .. n - 1 : j \in DOMAIN made
          BY <1>2, <4>2
        <5> QED
          BY <1>3, <2>2, <3>1, <4>2, <5>1 DEF IsFirst
      <4> QED
        BY <1>3, <4>1, <4>2, <4>3
    <3>2. CASE KeyOf[d] # k
      <4>1. unpackers'[k] = None
        BY <2>2, <3>2 DEF MakeDevice, SockTypes
      <4> QED
        BY <1>3, <2>2, <3>2, <4>1
    <3> QED
      BY <3>1, <3>2
  <2> QED
    BY <2>1, <2>2 DEF FirstBound
<1>8. FirstBound'
  BY <1>7 DEF FirstBound
<1> QED
  BY <1>4, <1>5, <1>8

\* recvfrom returns a datagram.
LEMMA ReceiveKeeps ==
    ASSUME OwnerInv, Receive
    PROVE  OwnerInv'
<1> USE DEF OwnerInv
<1> DEFINE g == Head(queue)
<1>1. g \in Grams /\ queue' \in Seq(Grams) /\ taken' = Append(taken, g)
      /\ taken' \in Seq(Grams) /\ taken'[Len(taken')] = g /\ taken' # <<>>
  BY DEF Receive, SockTypes
<1>2. iopc' = Returned(g.len) /\ UNCHANGED <<unpackers, made, net, sent, delivered>>
  BY DEF Receive, binding
<1>3. SockTypes'
  BY <1>1, <1>2 DEF SockTypes, Returned
<1>4. NotYet'
  BY <1>2 DEF NotYet, Returned, Unbuilt
<1>5. FirstBound' /\ ToOwner'
  BY <1>2 DEF FirstBound, ToOwner, IsFirst
<1>6. Found'
  <2>1. CASE g.len > 0
    BY <1>1, <2>1 DEF Receive, Found
  <2>2. CASE ~(g.len > 0)
    BY <1>2, <2>2 DEF Found, Returned
  <2> QED
    BY <2>1, <2>2
<1> QED
  BY <1>3, <1>4, <1>5, <1>6

\* The unpacker is called.
LEMMA UnpackKeeps ==
    ASSUME OwnerInv, Unpack
    PROVE  OwnerInv'
<1> USE DEF OwnerInv
<1>1. iopc = "find" /\ iopc' = "test"
      /\ UNCHANGED <<unpackers, made, net, queue, sent, key, buffer, taken>>
  BY DEF Unpack, binding, network
<1>2. buffer \in Grams /\ key = buffer.key /\ key \in Senders
  <2>1. buffer \in Grams
    BY <1>1 DEF Found, SockTypes
  <2> QED
    BY <1>1, <2>1 DEF Found, Grams
<1>3. \/ delivered' = delivered
      \/ /\ unpackers[key] \in Devices
         /\ delivered' = Append(delivered, <<unpackers[key], buffer>>)
  BY <1>2 DEF Unpack, SockTypes
<1>4. SockTypes'
  <2>1. delivered' \in Seq(Devices \X Grams)
    <3>1. unpackers[key] \in Devices => <<unpackers[key], buffer>> \in Devices \X Grams
      BY <1>2
    <3> DEFINE S == Devices \X Grams
               call == <<unpackers[key], buffer>>
    <3>2. delivered \in Seq(S) /\ (delivered' = delivered \/ (call \in S /\ delivered' = Append(delivered, call)))
      BY <1>3, <3>1 DEF SockTypes
    <3> HIDE DEF S, call
    <3>3. delivered' \in Seq(S)
      BY <3>2
    <3> QED
      BY <3>3 DEF S
  <2> QED
    BY <1>1, <2>1 DEF SockTypes
<1>5. NotYet' /\ FirstBound' /\ Found'
  BY <1>1 DEF NotYet, FirstBound, IsFirst, Found, Unbuilt
<1>6. ToOwner'
  <2>1. CASE delivered' = delivered
    BY <1>1, <2>1 DEF ToOwner
  <2>2. CASE delivered' = Append(delivered, <<unpackers[key], buffer>>)
    <3>1. \A i \in DOMAIN delivered' :
              IF i \in DOMAIN delivered THEN delivered'[i] = delivered[i]
              ELSE delivered'[i] = <<unpackers[key], buffer>>
      BY <2>2 DEF SockTypes
    <3> QED
      BY <1>1, <1>2, <3>1 DEF ToOwner
  <2> QED
    BY <1>3, <2>1, <2>2
<1> QED
  BY <1>4, <1>5, <1>6

\* Construction, run, stop, the network, the test of the flag and a read that
\* fails.
LEMMA OthersKeep ==
    ASSUME OwnerInv,
           \/ MakeSocket \/ RunPort \/ StopPort \/ TestFlag \/ ReceiveFails
           \/ \E k \in Senders, len \in {0, 1} : SendGram(k, len)
           \/ \E g \in net : Arrive(g)
    PROVE  OwnerInv' /\ UNCHANGED <<unpackers, taken, delivered>>
<1> USE DEF OwnerInv
<1>1. UNCHANGED <<unpackers, made, key, buffer, taken, delivered>>
  BY DEF MakeSocket, RunPort, StopPort, TestFlag, ReceiveFails, SendGram, Arrive, binding, reading
<1>2. /\ iopc' \in Unbuilt => iopc \in Unbuilt
      /\ iopc' \in Unbuilt \cup {"test", "read", "find", "done"}
      /\ iopc' = "find" => iopc = "find"
  BY DEF MakeSocket, RunPort, StopPort, TestFlag, ReceiveFails, SendGram, Arrive, Returned,
         Unbuilt, SockTypes
<1>3. net' \subseteq Grams /\ queue' \in Seq(Grams) /\ sent' \in Nat
  <2>1. ASSUME NEW k \in Senders, NEW len \in {0, 1}, SendGram(k, len)
        PROVE  net' \subseteq Grams /\ queue' = queue /\ sent' \in Nat
    BY <2>1, SocketAssumption DEF SendGram, SockTypes, Grams
  <2>2. ASSUME NEW g \in net, Arrive(g)
        PROVE  net' \subseteq Grams /\ queue' \in Seq(Grams) /\ sent' = sent
    <3>1. g \in Grams /\ queue \in Seq(Grams)
      BY DEF SockTypes
    <3>2. Append(queue, g) \in Seq(Grams)
      BY <3>1
    <3> QED
      BY <2>2, <3>1, <3>2 DEF Arrive, SockTypes
  <2> QED
    BY <2>1, <2>2 DEF MakeSocket, RunPort, StopPort, TestFlag, ReceiveFails, network, SockTypes
<1>4. SockTypes'
  BY <1>1, <1>2, <1>3 DEF SockTypes
<1> QED
  BY <1>1, <1>2, <1>4 DEF NotYet, FirstBound, IsFirst, Found, ToOwner

LEMMA OwnerNext == OwnerInv /\ [SockNext]_sockVars => OwnerInv'
<1> SUFFICES ASSUME OwnerInv, [SockNext]_sockVars PROVE OwnerInv'
  OBVIOUS
<1>1. ASSUME UNCHANGED sockVars PROVE OwnerInv'
  BY <1>1 DEF sockVars, binding, network, reading, OwnerInv, SockTypes, NotYet, FirstBound,
              IsFirst, Found, ToOwner
<1> QED
  BY <1>1, MakeDeviceKeeps, ReceiveKeeps, UnpackKeeps, OthersKeep DEF SockNext, Thread

LEMMA OwnerInvariant == SockSpec => []OwnerInv
BY OwnerInit, OwnerNext, PTL DEF SockSpec

\* There is only one first device of a key.
LEMMA FirstIsUnique ==
    ASSUME made \in Seq(Devices), NEW k, NEW i \in DOMAIN made, IsFirst(i, k)
    PROVE  FirstWith(k) = made[i]
<1>1. ASSUME NEW j \in DOMAIN made, IsFirst(j, k) PROVE j = i
  <2>1. i \in Nat \ {0} /\ j \in Nat \ {0}
    OBVIOUS
  <2>2. ~(j < i) /\ ~(i < j)
    BY <1>1, <2>1 DEF IsFirst
  <2> QED
    BY <2>1, <2>2
<1> QED
  BY <1>1 DEF FirstWith

\* Whatever is lost, doubled or reordered, and in whatever order devices with
\* equal and different keys were made: a datagram reaches the device that bound
\* its sender first and no other (IoKey::thread_func, Dev<IoKey>).
THEOREM RightDeviceHolds == SockSpec => []RightDevice
<1>1. OwnerInv => RightDevice
  <2> SUFFICES ASSUME OwnerInv, NEW i \in DOMAIN delivered
               PROVE  delivered[i][1] = FirstWith(delivered[i][2].key)
    BY DEF RightDevice
  <2>1. delivered[i][1] \in Devices /\ delivered[i][2].key \in Senders
        /\ unpackers[delivered[i][2].key] = delivered[i][1] /\ made \in Seq(Devices)
    BY DEF OwnerInv, SockTypes, ToOwner, Grams
  <2>2. PICK j \in DOMAIN made : IsFirst(j, delivered[i][2].key) /\ delivered[i][1] = made[j]
    BY <2>1, SocketAssumption DEF OwnerInv, FirstBound
  <2> QED
    BY <2>1, <2>2, FirstIsUnique
<1> QED
  BY OwnerInvariant, <1>1, PTL

-----------------------------------------------------------------------------
(* The UDP port: what arrives is delivered once, in order.                  *)

PortInv == OwnerInv /\ DeliversWhatArrives

\* The datagram at n is the one of those due that its rank says, and the ranks
\* of those handed over are the places of the deliveries.
LEMMA RankRange ==
    ASSUME SockTypes, NEW n \in Handed
    PROVE  Rank(n) \in 1 .. Cardinality(Handed)
<1>1. Due \subseteq 1 .. Len(taken) /\ Handed \subseteq Due
  BY DEF Due, Handed, SockTypes
<1>2. IsFiniteSet(Handed)
  <2>1. Len(taken) \in Nat
    BY DEF SockTypes
  <2>2. IsFiniteSet(1 .. Len(taken))
    BY <2>1, FS_Interval
  <2> QED
    BY <1>1, <2>2, FS_Subset
<1> DEFINE upTo == {m \in Due : m <= n}
<1>3. upTo \subseteq Handed
  <2>1. SUFFICES ASSUME NEW m \in upTo PROVE m \in Handed
    OBVIOUS
  <2>2. m \in Int /\ n \in Int /\ m <= n /\ m \in Due /\ n \in 1 .. Len(taken) /\ Len(taken) \in Nat
    BY <1>1 DEF SockTypes
  <2>3. CASE iopc = "find"
    BY <2>2, <2>3 DEF Handed
  <2>4. CASE iopc # "find"
    BY <2>2, <2>4 DEF Handed
  <2> QED
    BY <2>3, <2>4
<1>4. n \in upTo
  BY <1>1
<1>5. Rank(n) = Cardinality(upTo)
  BY DEF Rank
<1> HIDE DEF upTo
<1>6. IsFiniteSet(upTo) /\ Cardinality(upTo) <= Cardinality(Handed)
  BY <1>2, <1>3, FS_Subset
<1>7. Cardinality(upTo) # 0
  BY <1>4, <1>6, FS_EmptySet
<1>8. Cardinality(upTo) \in Nat /\ Cardinality(Handed) \in Nat
  BY <1>2, <1>6, FS_CardinalityType
<1> QED
  BY <1>5, <1>6, <1>7, <1>8

LEMMA DeliversInit == SockInit => DeliversWhatArrives
<1> SUFFICES ASSUME SockInit PROVE DeliversWhatArrives
  OBVIOUS
<1>1. Due = {} /\ Handed = {} /\ Len(delivered) = 0
  BY DEF SockInit, Due, Handed
<1> QED
  BY <1>1, FS_EmptySet DEF DeliversWhatArrives

\* What is due and handed over, and the ranks, when nothing is taken or bound.
LEMMA SameDue ==
    ASSUME UNCHANGED <<unpackers, taken>>
    PROVE  Due' = Due /\ \A n : Rank(n)' = Rank(n)
BY DEF Due, Rank

\* A new device has no datagram that was taken before.
LEMMA MakeDeviceDelivers ==
    ASSUME PortInv, NEW d \in Devices, MakeDevice(d)
    PROVE  DeliversWhatArrives'
<1>1. taken = <<>> /\ delivered = <<>> /\ UNCHANGED <<taken, delivered, iopc>>
  BY DEF MakeDevice, reading, PortInv, OwnerInv, NotYet, Unbuilt
<1>2. Handed' = {} /\ Len(delivered') = 0
  BY <1>1 DEF Handed, Due
<1> QED
  BY <1>2, FS_EmptySet DEF DeliversWhatArrives

\* A datagram that is taken is not delivered yet, and does not move the others.
LEMMA ReceiveDelivers ==
    ASSUME PortInv, Receive
    PROVE  DeliversWhatArrives'
<1> USE DEF PortInv, OwnerInv
<1> DEFINE g == Head(queue)
<1>1. PICK L \in Nat : L = Len(taken)
  BY DEF SockTypes
<1>2. g \in Grams /\ taken' = Append(taken, g) /\ taken \in Seq(Grams)
      /\ UNCHANGED <<unpackers, delivered>> /\ iopc = "read" /\ iopc' = Returned(g.len)
  BY DEF Receive, SockTypes, binding
<1>3. Len(taken') = L + 1 /\ DOMAIN taken' = DOMAIN taken \cup {L + 1} /\ taken'[L + 1] = g
      /\ \A n \in DOMAIN taken : taken'[n] = taken[n] /\ n < L + 1
  BY <1>1, <1>2
<1>4. Due \subseteq Due' /\ Due' \subseteq Due \cup {L + 1} /\ Due \subseteq DOMAIN taken
  BY <1>2, <1>3 DEF Due
<1>5. Handed = Due /\ Handed' = Due
  <2>1. CASE g.len > 0
    <3>1. Handed' = Due' \ {L + 1}
      BY <1>2, <1>3, <2>1 DEF Handed, Returned
    <3>2. L + 1 \notin Due
      BY <1>3, <1>4
    <3> QED
      BY <1>2, <1>4, <3>1, <3>2 DEF Handed
  <2>2. CASE ~(g.len > 0)
    <3>1. Handed' = Due'
      BY <1>2, <2>2 DEF Handed, Returned
    <3>2. L + 1 \notin Due'
      BY <1>3, <2>2 DEF Due
    <3> QED
      BY <1>2, <1>4, <3>1, <3>2 DEF Handed
  <2> QED
    BY <2>1, <2>2
<1>6. ASSUME NEW n \in Due PROVE Rank(n)' = Rank(n)
  <2>1. \A m \in Due' : m <= n => m \in Due
    <3>1. n < L + 1 /\ n \in Nat
      BY <1>2, <1>3, <1>4
    <3> QED
      BY <1>4, <3>1
  <2>2. {m \in Due' : m <= n} = {m \in Due : m <= n}
    BY <1>4, <2>1
  <2> QED
    BY <2>2 DEF Rank
<1>7. \A n \in Due : delivered[Rank(n)][2] = taken'[n] /\ Len(delivered) = Cardinality(Due)
  BY <1>3, <1>4, <1>5 DEF DeliversWhatArrives
<1> QED
  BY <1>2, <1>5, <1>6, <1>7 DEF DeliversWhatArrives

\* What Append does.
LEMMA OneMore ==
    ASSUME NEW S, NEW s \in Seq(S), NEW e \in S
    PROVE  /\ Len(Append(s, e)) = Len(s) + 1
           /\ Append(s, e)[Len(s) + 1] = e
           /\ \A i \in 1 .. Len(s) : Append(s, e)[i] = s[i]
OBVIOUS

\* The call of the unpacker is the next delivery.
LEMMA UnpackDelivers ==
    ASSUME PortInv, Unpack
    PROVE  DeliversWhatArrives'
<1> USE DEF PortInv, OwnerInv
<1>1. PICK L \in Nat : L = Len(taken)
  BY DEF SockTypes
<1>2. iopc = "find" /\ iopc' = "test" /\ UNCHANGED <<unpackers, taken>>
  BY DEF Unpack, binding
<1>3. L \in DOMAIN taken /\ buffer = taken[L] /\ buffer.len > 0 /\ key = buffer.key
  BY <1>1, <1>2 DEF Found, SockTypes
<1>4. Due' = Due /\ Handed' = Due /\ Handed = Due \ {L} /\ \A n : Rank(n)' = Rank(n)
  BY <1>1, <1>2, SameDue DEF Handed
<1>5. CASE unpackers[key] = None
  <2>1. L \notin Due /\ delivered' = delivered
    BY <1>3, <1>5 DEF Due, Unpack
  <2> QED
    BY <1>2, <1>4, <2>1 DEF DeliversWhatArrives
<1>6. CASE unpackers[key] # None
  <2>1. L \in Due /\ delivered' = Append(delivered, <<unpackers[key], buffer>>)
    BY <1>3, <1>6 DEF Due, Unpack
  <2>2. Due \subseteq 1 .. L /\ IsFiniteSet(Due)
    <3>1. Due \subseteq 1 .. L
      BY <1>1 DEF Due, SockTypes
    <3>2. IsFiniteSet(1 .. L)
      BY FS_Interval
    <3> QED
      BY <3>1, <3>2, FS_Subset
  <2>3. Cardinality(Due) = Cardinality(Handed) + 1
    <3>1. Cardinality(Handed) = Cardinality(Due) - 1 /\ Cardinality(Due) \in Nat
      BY <1>4, <2>1, <2>2, FS_RemoveElement, FS_CardinalityType
    <3> QED
      BY <3>1
  <2>4. PICK N \in Nat : N = Len(delivered) /\ N = Cardinality(Handed)
    BY DEF DeliversWhatArrives, SockTypes
  <2>5. Len(delivered') = N + 1 /\ delivered'[N + 1][2] = buffer
        /\ \A i \in 1 .. N : delivered'[i] = delivered[i]
    <3> DEFINE S == Devices \X Grams
               call == <<unpackers[key], buffer>>
    <3>1. delivered \in Seq(S) /\ delivered' = Append(delivered, call) /\ call[2] = buffer
          /\ call \in S
      <4>1. buffer \in Grams /\ key \in Senders
        <5>1. buffer \in Grams
          BY <1>3 DEF SockTypes
        <5> QED
          BY <1>3, <5>1 DEF Grams
      <4>2. unpackers[key] \in Devices
        BY <1>6, <4>1 DEF SockTypes
      <4> QED
        BY <2>1, <4>1, <4>2 DEF SockTypes
    <3> HIDE DEF S, call
    <3>2. Len(delivered') = N + 1 /\ delivered'[N + 1] = call
          /\ \A i \in 1 .. N : delivered'[i] = delivered[i]
      <4>1. /\ Len(Append(delivered, call)) = Len(delivered) + 1
            /\ Append(delivered, call)[Len(delivered) + 1] = call
            /\ \A i \in 1 .. Len(delivered) : Append(delivered, call)[i] = delivered[i]
        BY <3>1, OneMore
      <4> QED
        BY <2>4, <3>1, <4>1
    <3> QED
      BY <3>1, <3>2
  <2>6. Rank(L) = N + 1
    <3>1. \A m \in Due : m <= L
      BY <2>2
    <3>2. {m \in Due : m <= L} = Due
      BY <3>1
    <3> QED
      BY <2>3, <2>4, <3>2 DEF Rank
  <2>7. ASSUME NEW n \in Handed PROVE delivered'[Rank(n)][2] = taken[n]
    BY <2>4, <2>5, <2>7, RankRange DEF DeliversWhatArrives
  <2>8. \A n \in Due : delivered'[Rank(n)][2] = taken[n]
    BY <1>3, <1>4, <2>5, <2>6, <2>7
  <2> QED
    BY <1>2, <1>4, <2>3, <2>4, <2>5, <2>8 DEF DeliversWhatArrives
<1> QED
  BY <1>5, <1>6

LEMMA PortNext == PortInv /\ [SockNext]_sockVars => PortInv'
<1> SUFFICES ASSUME PortInv, [SockNext]_sockVars PROVE PortInv'
  OBVIOUS
<1>1. OwnerInv'
  BY OwnerNext DEF PortInv
<1>2. ASSUME UNCHANGED <<unpackers, taken, delivered>>, Handed' = Handed
      PROVE  DeliversWhatArrives'
  BY <1>2, SameDue DEF PortInv, DeliversWhatArrives
<1>3. ASSUME UNCHANGED sockVars PROVE DeliversWhatArrives'
  <2>1. UNCHANGED <<unpackers, taken, delivered, iopc>>
    BY <1>3 DEF sockVars, binding, reading
  <2> QED
    BY <1>2, <2>1, SameDue DEF Handed
<1>4. ASSUME \/ MakeSocket \/ RunPort \/ StopPort \/ TestFlag \/ ReceiveFails
             \/ \E k \in Senders, len \in {0, 1} : SendGram(k, len)
             \/ \E g \in net : Arrive(g)
      PROVE  DeliversWhatArrives'
  <2>1. UNCHANGED <<unpackers, taken, delivered>>
    BY <1>4, OthersKeep DEF PortInv
  <2>2. iopc' = "find" <=> iopc = "find"
    BY <1>4 DEF MakeSocket, RunPort, StopPort, TestFlag, ReceiveFails, SendGram, Arrive, Returned
  <2> QED
    BY <1>2, <2>1, <2>2, SameDue DEF Handed
<1> QED
  BY <1>1, <1>3, <1>4, MakeDeviceDelivers, ReceiveDelivers, UnpackDelivers
  DEF PortInv, SockNext, Thread

\* However many reads time out or return nothing between them, the datagrams
\* that carry something and have a device reach it once for every copy that
\* arrived, in the order of arrival (Socket::read, IoKey::thread_func).
THEOREM DeliversWhatArrivesHolds == SockSpec => []DeliversWhatArrives
<1>1. SockInit => PortInv
  BY OwnerInit, DeliversInit DEF PortInv
<1>2. PortInv => DeliversWhatArrives
  BY DEF PortInv
<1> QED
  BY <1>1, <1>2, PortNext, PTL DEF SockSpec

=============================================================================
