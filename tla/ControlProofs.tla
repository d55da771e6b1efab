--------------------------- MODULE ControlProofs ---------------------------
(***************************************************************************)
(* Proofs about the blocks a controller is built from, for every gain,     *)
(* limit and error (SisoPid), and about a controller pass after pass, for  *)
(* every set of poses at which the linkage closes (ChassisLoop).           *)
(***************************************************************************)
EXTENDS SisoPid, ChassisLoop, TLAPS

\* The symmetric limiter returns a value within its limit, and an integer.
LEMMA LimitRange ==
    ASSUME NEW m \in Nat, NEW x \in Int
    PROVE  Limit(-m, m, x) \in -m .. m /\ Limit(-m, m, x) \in Int
BY DEF Limit

\* Whatever the block is given and however it is called, its integrator stays
\* within max_iout and its output within max_out.
Types == iOut \in Int /\ last \in Int /\ out \in Int /\ input \in Int

\* One call computes integers within the limits.
LEMMA OutputRange ==
    ASSUME Types, NEW e \in Int
    PROVE  /\ Integrated(e) \in -MaxIout .. MaxIout
           /\ Integrated(e) \in Int
           /\ Output(e) \in -MaxOut .. MaxOut
           /\ Output(e) \in Int
<1>1. iOut + Ki * e \in Int
  BY PidAssumption DEF Types
<1>2. Integrated(e) \in -MaxIout .. MaxIout /\ Integrated(e) \in Int
  BY <1>1, LimitRange, PidAssumption DEF Integrated
<1>3. Kp * e \in Int /\ Kd * (e - last) \in Int
  BY PidAssumption DEF Types
<1>4. Kp * e + Integrated(e) + Kd * (e - last) \in Int
  BY <1>2, <1>3
<1> QED
  BY <1>2, <1>4, LimitRange, PidAssumption DEF Output

LInv == Types /\ WithinLimits

LEMMA LimitsInit == PidInit => LInv
BY PidAssumption DEF PidInit, LInv, Types, WithinLimits

LEMMA LimitsNext == LInv /\ [PidNext]_sisoVars => LInv'
<1> SUFFICES ASSUME LInv, [PidNext]_sisoVars PROVE LInv'
  OBVIOUS
<1> USE DEF LInv
<1>1. ASSUME NEW e \in Errors, Calc(e) \/ Chain(e) PROVE LInv'
  <2>1. e \in Int
    BY PidAssumption
  <2>2. out' = Output(e) /\ input' = e
    BY <1>1 DEF Calc, Chain, Returns
  <2>3. (iOut' = Integrated(e) /\ last' = e) \/ (iOut' = iOut /\ last' = last)
    BY <1>1 DEF Calc, Chain
  <2> QED
    BY <2>1, <2>2, <2>3, OutputRange DEF Types, WithinLimits
<1>2. ASSUME UNCHANGED sisoVars PROVE LInv'
  BY <1>2 DEF sisoVars, Types, WithinLimits
<1> QED
  BY <1>1, <1>2 DEF PidNext

\* However long an error lasts and however the block is called, the integrator
\* stays within max_iout and the output within max_out (Pid::calc), for every
\* choice of the gains, signs included.
THEOREM WithinLimitsHolds == PidSpec => []WithinLimits
<1>1. LInv => WithinLimits
  BY DEF LInv
<1> QED
  BY LimitsInit, LimitsNext, <1>1, PTL DEF PidSpec

-----------------------------------------------------------------------------
(* A block that is only used in chains stays as it was made.                *)

MInv == Types /\ (~own => iOut = 0 /\ last = 0) /\ ChainIsMemoryless

\* What a chain computes with a block as it was made.
LEMMA FreshOutput ==
    ASSUME NEW e \in Int, iOut = 0, last = 0
    PROVE  Output(e) = Limit(-MaxOut, MaxOut, (Kp + Kd) * e + Limit(-MaxIout, MaxIout, Ki * e))
<1>1. Kp * e \in Int /\ Kd * e \in Int /\ Ki * e \in Int /\ Kd * (e - last) = Kd * e
  BY PidAssumption
<1>2. Integrated(e) = Limit(-MaxIout, MaxIout, Ki * e)
  BY <1>1 DEF Integrated
<1>3. Limit(-MaxIout, MaxIout, Ki * e) \in Int
  BY <1>1, LimitRange, PidAssumption
<1>4. (Kp + Kd) * e = Kp * e + Kd * e
  BY PidAssumption
<1>5. Kp * e + Integrated(e) + Kd * (e - last) = (Kp + Kd) * e + Limit(-MaxIout, MaxIout, Ki * e)
  BY <1>1, <1>2, <1>3, <1>4
<1> QED
  BY <1>5 DEF Output

LEMMA MemoryInit == PidInit => MInv
BY DEF PidInit, MInv, Types, ChainIsMemoryless

LEMMA MemoryNext == MInv /\ [PidNext]_sisoVars => MInv'
<1> SUFFICES ASSUME MInv, [PidNext]_sisoVars PROVE MInv'
  OBVIOUS
<1> USE DEF MInv
<1>1. ASSUME NEW e \in Errors, Calc(e) PROVE MInv'
  BY <1>1, OutputRange, PidAssumption DEF Calc, Returns, Types, ChainIsMemoryless
<1>2. ASSUME NEW e \in Errors, Chain(e) PROVE MInv'
  <2>1. e \in Int
    BY PidAssumption
  <2>2. out' = Output(e) /\ input' = e /\ UNCHANGED <<iOut, last, own>>
    BY <1>2 DEF Chain, Returns
  <2>3. Types'
    BY <2>1, <2>2, OutputRange DEF Types
  <2>4. ChainIsMemoryless'
    BY <2>1, <2>2, FreshOutput DEF ChainIsMemoryless
  <2> QED
    BY <2>2, <2>3, <2>4
<1>3. ASSUME UNCHANGED sisoVars PROVE MInv'
  BY <1>3 DEF sisoVars, Types, ChainIsMemoryless
<1> QED
  BY <1>1, <1>2, <1>3 DEF PidNext

\* The integrator and the derivative of a Pid that is only used as a link of a
\* chain (operator>> takes it by value) never come into effect: every output is
\* a function of its own error alone.
THEOREM ChainIsMemorylessHolds == PidSpec => []ChainIsMemoryless
<1>1. MInv => ChainIsMemoryless
  BY DEF MInv
<1> QED
  BY MemoryInit, MemoryNext, <1>1, PTL DEF PidSpec

-----------------------------------------------------------------------------
(* WheelLeggedChassis::ctrlLoop, pass after pass.                           *)

\* The angles of a leg are two.
PairOf(t) == <<t[1], t[2]>>

ChassisTypes ==
    /\ step \in 1 .. 10
    /\ pose \in [Legs -> Poses]
    /\ joint = [j \in Joints |-> joint[j]]
    /\ varphi = [g \in Legs |-> PairOf(varphi[g])]
    /\ solved \in [Legs -> Verdicts]
    /\ memory = "finite" /\ force \in Verdicts
    /\ torque \in [Joints -> Verdicts]
    /\ still \in [Legs -> BOOLEAN]

\* While a leg stands still, its joints report its pose.
Reported == \A g \in Legs : still[g] => pose[g] = <<joint[<<g, 1>>], joint[<<g, 2>>]>>

\* From which step on a leg has been solved in this pass.
SolvedFrom(g) == IF g = "left" THEN 3 ELSE 5

\* What one pass has read and solved so far, leg by leg.
Solving ==
    \A g \in Legs :
        /\ step = SolvedFrom(g) - 1 /\ still[g] => varphi[g][1] = pose[g][1]
        /\ step \in SolvedFrom(g) .. 10 =>
               /\ solved[g] = Solve(varphi[g])
               /\ still[g] => varphi[g] = pose[g]

\* A leg that does not close spoils the force, and with it every torque.
Spoilt == NanIf(\E g \in Legs : varphi[g] \notin Poses)

Commanded ==
    /\ step \in 6 .. 10 => force = Spoilt
    /\ \A n \in 1 .. 4 : step \in n + 6 .. 10 => torque[Order[n]] = Spoilt

CInv == ChassisTypes /\ Reported /\ Solving /\ Commanded

LEMMA OrderIs ==
    /\ Order[1] = <<"left", 1>> /\ Order[2] = <<"left", 2>>
    /\ Order[3] = <<"right", 1>> /\ Order[4] = <<"right", 2>>
    /\ \A n \in 1 .. 4 : Order[n] \in Joints
    /\ \A j \in Joints : \E n \in 1 .. 4 : j = Order[n]
<1>1. /\ Order[1] = <<"left", 1>> /\ Order[2] = <<"left", 2>>
      /\ Order[3] = <<"right", 1>> /\ Order[4] = <<"right", 2>>
  BY DEF Order
<1>2. \A n \in 1 .. 4 : n = 1 \/ n = 2 \/ n = 3 \/ n = 4
  OBVIOUS
<1>3. Joints = {<<"left", 1>>, <<"left", 2>>, <<"right", 1>>, <<"right", 2>>}
  BY DEF Joints, Legs
<1> HIDE DEF Order
<1> QED
  BY <1>1, <1>2, <1>3

\* Replacing one of two angles.
LEMMA OneOfTwo ==
    ASSUME NEW t, t = PairOf(t), NEW x
    PROVE  [t EXCEPT ![1] = x] = <<x, t[2]>> /\ [t EXCEPT ![2] = x] = <<t[1], x>>
BY DEF PairOf

LEMMA ChassisStarts == ChassisInit => CInv
<1> SUFFICES ASSUME ChassisInit PROVE CInv
  OBVIOUS
<1>1. pose \in [Legs -> Poses] /\ varphi = [g \in Legs |-> pose[g]] /\ step = 1
  BY DEF ChassisInit
<1>2. \A g \in Legs : varphi[g] = PairOf(varphi[g])
  BY <1>1, PosesAssumption DEF PairOf
<1>3. ChassisTypes
  <2>1. varphi = [g \in Legs |-> PairOf(varphi[g])]
    BY <1>1, <1>2
  <2> QED
    BY <1>1, <2>1 DEF ChassisInit, ChassisTypes, Verdicts
<1> QED
  BY <1>1, <1>3 DEF ChassisInit, CInv, Reported, Solving, SolvedFrom, Commanded

\* The robot moves, or a motor reports.
LEMMA OutsideKeeps ==
    ASSUME CInv, (\E g \in Legs : Move(g)) \/ (\E j \in Joints : Report(j))
    PROVE  CInv'
<1> USE DEF CInv
<1>1. ASSUME NEW g \in Legs, Move(g) PROVE CInv'
  <2>1. PICK p \in Poses : pose' = [pose EXCEPT ![g] = p]
    BY <1>1 DEF Move
  <2>2. still' = [still EXCEPT ![g] = FALSE]
        /\ UNCHANGED <<joint, step, varphi, solved, memory, force, torque>>
    BY <1>1 DEF Move
  <2>3. ChassisTypes'
    BY <2>1, <2>2 DEF ChassisTypes
  <2>4. \A h \in Legs : still'[h] => still[h] /\ pose'[h] = pose[h]
    BY <2>1, <2>2 DEF ChassisTypes
  <2>5. Reported' /\ Solving'
    BY <2>2, <2>4 DEF Reported, Solving
  <2> QED
    BY <2>2, <2>3, <2>5 DEF Commanded, Spoilt
<1>2. ASSUME NEW j \in Joints, Report(j) PROVE CInv'
  <2>1. joint' = [joint EXCEPT ![j] = pose[j[1]][j[2]]]
        /\ UNCHANGED <<pose, step, varphi, solved, memory, force, torque, still>>
    BY <1>2 DEF Report
  <2>2. ChassisTypes'
    BY <2>1 DEF ChassisTypes
  <2>3. Reported'
    <3>1. SUFFICES ASSUME NEW g \in Legs, still[g]
                   PROVE  pose[g] = <<joint'[<<g, 1>>], joint'[<<g, 2>>]>>
      BY <2>1 DEF Reported
    <3>2. pose[g] = <<joint[<<g, 1>>], joint[<<g, 2>>]>>
      BY <3>1 DEF Reported
    <3>3. pose[g][1] = joint[<<g, 1>>] /\ pose[g][2] = joint[<<g, 2>>]
      BY <3>2
    <3>4. <<g, 1>> \in Joints /\ <<g, 2>> \in Joints
      BY DEF Joints
    <3>5. joint'[<<g, 1>>] = joint[<<g, 1>>] /\ joint'[<<g, 2>>] = joint[<<g, 2>>]
      BY <2>1, <3>3, <3>4 DEF ChassisTypes
    <3> QED
      BY <3>2, <3>5
  <2> QED
    BY <2>1, <2>2, <2>3 DEF Solving, Commanded, Spoilt
<1> QED
  BY <1>1, <1>2

\* One joint is read: the first of a leg, or the second, which solves it.
LEMMA ReadKeeps ==
    ASSUME CInv, ReadJoint
    PROVE  CInv'
<1> USE DEF CInv
<1>1. PICK n \in 1 .. 4 : n = step
  BY DEF ReadJoint
<1>2. PICK j \in Joints : j = Order[n]
  BY OrderIs
<1>3. PICK g \in Legs, i \in {1, 2} : j = <<g, i>>
  BY DEF Joints
<1>4. /\ varphi' = [varphi EXCEPT ![g][i] = joint[j]]
      /\ solved' = IF i = 1 THEN solved ELSE [solved EXCEPT ![g] = Solve(varphi'[g])]
      /\ still' = IF i = 2 THEN still
                  ELSE [still EXCEPT ![g] = pose[g] = <<joint[<<g, 1>>], joint[<<g, 2>>]>>]
      /\ step' = n + 1
      /\ UNCHANGED <<pose, joint, memory, force, torque>>
  BY <1>1, <1>2, <1>3 DEF ReadJoint, Varphi
<1>5. n = SolvedFrom(g) - 3 + i
  <2>1. n = 1 \/ n = 2 \/ n = 3 \/ n = 4
    OBVIOUS
  <2>2. j[1] = g /\ j[2] = i
    BY <1>3
  <2> QED
    BY <1>2, <2>1, <2>2, OrderIs DEF SolvedFrom
<1>6. /\ varphi'[g] = IF i = 1 THEN <<joint[j], varphi[g][2]>> ELSE <<varphi[g][1], joint[j]>>
      /\ \A h \in Legs \ {g} : varphi'[h] = varphi[h]
      /\ \A h \in Legs : varphi'[h] = PairOf(varphi'[h])
      /\ varphi' = [h \in Legs |-> PairOf(varphi'[h])]
  <2>1. \A h \in Legs : varphi[h] = PairOf(varphi[h])
    BY DEF ChassisTypes
  <2>2. varphi'[g] = [varphi[g] EXCEPT ![i] = joint[j]]
        /\ \A h \in Legs \ {g} : varphi'[h] = varphi[h]
    BY <1>4 DEF ChassisTypes
  <2>3. varphi'[g] = IF i = 1 THEN <<joint[j], varphi[g][2]>> ELSE <<varphi[g][1], joint[j]>>
    <3>1. varphi[g] = PairOf(varphi[g])
      BY <2>1
    <3>2. /\ [varphi[g] EXCEPT ![1] = joint[j]] = <<joint[j], varphi[g][2]>>
          /\ [varphi[g] EXCEPT ![2] = joint[j]] = <<varphi[g][1], joint[j]>>
      BY <3>1, OneOfTwo
    <3> QED
      BY <2>2, <3>2
  <2>4. varphi'[g] = PairOf(varphi'[g])
    BY <2>3 DEF PairOf
  <2>5. \A h \in Legs : varphi'[h] = PairOf(varphi'[h])
    BY <2>1, <2>2, <2>4
  <2>6. varphi' = [h \in Legs |-> varphi'[h]]
    BY <1>4 DEF ChassisTypes
  <2> QED
    BY <2>2, <2>3, <2>5, <2>6
<1>7. /\ \A h \in Legs \ {g} : solved'[h] = solved[h] /\ still'[h] = still[h]
      /\ i = 1 => still'[g] = (pose[g] = <<joint[<<g, 1>>], joint[<<g, 2>>]>>)
      /\ i = 2 => solved'[g] = Solve(varphi'[g]) /\ still'[g] = still[g]
  BY <1>4 DEF ChassisTypes
<1>8. ChassisTypes'
  <2>1. step' \in 1 .. 10 /\ solved' \in [Legs -> Verdicts] /\ still' \in [Legs -> BOOLEAN]
    BY <1>4 DEF ChassisTypes, Solve, NanIf, Verdicts
  <2> QED
    BY <1>4, <1>6, <2>1 DEF ChassisTypes
<1>9. Reported'
  BY <1>4, <1>7 DEF Reported
<1>10. Solving'
  <2>1. SUFFICES ASSUME NEW h \in Legs
        PROVE  /\ n + 1 = SolvedFrom(h) - 1 /\ still'[h] => varphi'[h][1] = pose[h][1]
               /\ n + 1 \in SolvedFrom(h) .. 10 =>
                      /\ solved'[h] = Solve(varphi'[h])
                      /\ still'[h] => varphi'[h] = pose[h]
    BY <1>4 DEF Solving
  <2>2. CASE h # g
    <3>1. n + 1 # SolvedFrom(h) - 1 /\ n + 1 # SolvedFrom(h)
      BY <1>5, <2>2 DEF SolvedFrom, Legs
    <3>2. n + 1 \in SolvedFrom(h) .. 10 => n \in SolvedFrom(h) .. 10
      BY <3>1 DEF SolvedFrom
    <3> QED
      BY <1>1, <1>6, <1>7, <2>2, <3>1, <3>2 DEF Solving
  <2>3. CASE h = g /\ i = 1
    <3>1. n + 1 = SolvedFrom(g) - 1 /\ n + 1 \notin SolvedFrom(g) .. 10
      BY <1>5, <2>3 DEF SolvedFrom
    <3>2. still'[g] => varphi'[g][1] = pose[g][1]
      <4>1. varphi'[g][1] = joint[<<g, 1>>]
        BY <1>3, <1>6, <2>3
      <4>2. still'[g] => pose[g][1] = joint[<<g, 1>>]
        <5>1. still'[g] => pose[g] = <<joint[<<g, 1>>], joint[<<g, 2>>]>>
          BY <1>7, <2>3, Zenon
        <5>2. still'[g] => pose[g][1] = <<joint[<<g, 1>>], joint[<<g, 2>>]>>[1]
          BY <5>1, Zenon
        <5> QED
          BY <5>2
      <4> QED
        BY <4>1, <4>2
    <3> QED
      BY <2>3, <3>1, <3>2
  <2>4. CASE h = g /\ i = 2
    <3>1. n = SolvedFrom(g) - 1 /\ n + 1 # SolvedFrom(g) - 1
      BY <1>5, <2>4 DEF SolvedFrom
    <3>2. still[g] => varphi'[g] = pose[g]
      <4>1. SUFFICES ASSUME still[g] PROVE varphi'[g] = pose[g]
        OBVIOUS
      <4>2. varphi[g][1] = pose[g][1] /\ pose[g] = <<joint[<<g, 1>>], joint[<<g, 2>>]>>
        BY <1>1, <3>1, <4>1 DEF Solving, Reported
      <4>3. varphi'[g] = <<pose[g][1], joint[<<g, 2>>]>>
        BY <1>3, <1>6, <2>4, <4>2
      <4> QED
        BY <4>2, <4>3
    <3> QED
      BY <1>7, <2>4, <3>1, <3>2
  <2> QED
    BY <1>3, <2>2, <2>3, <2>4
<1>11. Commanded'
  BY <1>4 DEF Commanded
<1> QED
  BY <1>8, <1>9, <1>10, <1>11

\* The force is a NaN exactly when a length is.
LEMMA ControlKeeps ==
    ASSUME CInv, Control
    PROVE  CInv'
<1> USE DEF CInv
<1>1. step = 5 /\ step' = 6 /\ force' = NanIf(BadLength \/ memory = "nan")
      /\ UNCHANGED <<pose, joint, varphi, solved, memory, torque, still>>
  BY DEF Control
<1>2. \A g \in Legs : solved[g] = Solve(varphi[g])
  BY <1>1 DEF Solving, SolvedFrom
<1>3. force' = Spoilt
  BY <1>1, <1>2 DEF BadLength, Spoilt, Solve, NanIf, ChassisTypes
<1>4. ChassisTypes'
  BY <1>1 DEF ChassisTypes, NanIf, Verdicts
<1>5. Solving'
  BY <1>1, <1>2 DEF Solving, SolvedFrom
<1>6. Reported' /\ Spoilt' = Spoilt
  BY <1>1 DEF Reported, Spoilt
<1>7. Commanded'
  BY <1>1, <1>3, <1>6 DEF Commanded
<1> QED
  BY <1>4, <1>5, <1>6, <1>7

\* The next joint is commanded.
LEMMA CommandKeeps ==
    ASSUME CInv, Command
    PROVE  CInv'
<1> USE DEF CInv
<1>1. PICK n \in 1 .. 4 : step = n + 5
  <2>1. step - 5 \in 1 .. 4 /\ step = (step - 5) + 5
    BY DEF Command
  <2> QED
    BY <2>1
<1>2. PICK j \in Joints : j = Order[n] /\ j[1] \in Legs
  BY OrderIs DEF Joints
<1>3. torque' = [torque EXCEPT ![j] = NanIf(force = "nan" \/ solved[j[1]] = "nan")]
      /\ step' = n + 6 /\ UNCHANGED <<pose, joint, varphi, solved, memory, force, still>>
  <2>1. step - 5 = n
    BY <1>1
  <2> QED
    BY <1>1, <1>2, <2>1 DEF Command
<1>4. force = Spoilt /\ solved[j[1]] = Solve(varphi[j[1]])
  BY <1>1, <1>2 DEF Commanded, Solving, SolvedFrom
<1>5. torque'[j] = Spoilt
  <2>1. torque'[j] = NanIf(force = "nan" \/ solved[j[1]] = "nan")
    BY <1>3 DEF ChassisTypes
  <2> QED
    BY <1>2, <1>4, <2>1 DEF Spoilt, Solve, NanIf
<1>6. ChassisTypes'
  BY <1>1, <1>3 DEF ChassisTypes, NanIf, Verdicts
<1>7. Solving'
  BY <1>1, <1>3 DEF Solving, SolvedFrom
<1>8. Commanded'
  <2>1. ASSUME NEW m \in 1 .. 4, step' \in m + 6 .. 10 PROVE torque'[Order[m]] = Spoilt
    <3>1. CASE m = n
      BY <1>2, <1>5, <3>1
    <3>2. CASE m # n
      <4>1. step \in m + 6 .. 10
        BY <1>1, <1>3, <2>1, <3>2
      <4>2. torque[Order[m]] = Spoilt
        BY <4>1 DEF Commanded
      <4> QED
        BY <1>2, <1>3, <1>5, <4>2, OrderIs DEF ChassisTypes
    <3> QED
      BY <3>1, <3>2
  <2>2. Spoilt' = Spoilt
    BY <1>3 DEF Spoilt
  <2> QED
    BY <1>1, <1>3, <1>4, <2>1, <2>2 DEF Commanded
<1> QED
  BY <1>3, <1>6, <1>7, <1>8 DEF Reported

LEMMA ChassisKeeps == CInv /\ [ChassisNext]_chassisVars => CInv'
<1> SUFFICES ASSUME CInv, [ChassisNext]_chassisVars PROVE CInv'
  OBVIOUS
<1>1. ASSUME UNCHANGED chassisVars PROVE CInv'
  BY <1>1 DEF chassisVars, CInv, ChassisTypes, Reported, Solving, Commanded, Spoilt
<1>2. CASE Wheels
  <2>1. step = 10 /\ step' = 1
        /\ UNCHANGED <<pose, joint, varphi, solved, memory, force, torque, still>>
    BY <1>2 DEF Wheels
  <2>2. ChassisTypes' /\ Reported'
    BY <2>1 DEF CInv, ChassisTypes, Reported
  <2>3. Solving' /\ Commanded'
    BY <2>1 DEF Solving, SolvedFrom, Commanded
  <2> QED
    BY <2>2, <2>3 DEF CInv
<1> QED
  BY <1>1, <1>2, OutsideKeeps, ReadKeeps, ControlKeeps, CommandKeeps DEF ChassisNext

LEMMA ChassisInvariant == ChassisSpec => []CInv
BY ChassisStarts, ChassisKeeps, PTL DEF ChassisSpec

\* Wherever a leg stands, moves and stops, and however the reports of its
\* joints fall between the steps of a pass: a leg that stood still is solved
\* for its pose (FiveLink::update, forward_solve).
THEOREM StillLegIsSolvedHolds == ChassisSpec => []StillLegIsSolved
<1>1. CInv => StillLegIsSolved
  <2> SUFFICES ASSUME CInv PROVE StillLegIsSolved
    OBVIOUS
  <2>1. ASSUME NEW g \in Legs, step \in SolvedFrom(g) .. 10, still[g]
        PROVE  solved[g] = "finite" /\ varphi[g] = pose[g]
    BY <2>1 DEF CInv, Solving, Solve, NanIf, ChassisTypes
  <2> QED
    BY <2>1 DEF StillLegIsSolved, SolvedFrom, Legs
<1> QED
  BY ChassisInvariant, <1>1, PTL

\* A leg that does not close makes every torque of its pass a NaN and none of
\* the next pass whose angles fit (WheelLeggedChassis::ctrlLoop, which computes
\* with a copy of pid_l).
THEOREM NanLastsOnePassHolds == ChassisSpec => []NanLastsOnePass
<1>1. CInv => NanLastsOnePass
  <2> SUFFICES ASSUME CInv, step = 10, NEW j \in Joints PROVE torque[j] = Spoilt
    BY DEF NanLastsOnePass, Spoilt
  <2>1. PICK n \in 1 .. 4 : j = Order[n]
    BY OrderIs
  <2> QED
    BY <2>1 DEF CInv, Commanded
<1> QED
  BY ChassisInvariant, <1>1, PTL

=============================================================================
