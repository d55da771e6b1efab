-------------------------- MODULE WebotsSyncProofs --------------------------
(***************************************************************************)
(* The simulator build for any number of controllers, whatever their       *)
(* cycles: main and the controllers stay in step at the barrier.  And what *)
(* they exchange there, for any devices: how old the values are a task     *)
(* reads, and how many commands it gives after the simulation has ended.   *)
(***************************************************************************)
EXTENDS SimDevices, FiniteSetTheorems, TLAPS

Everybody == {Main} \cup Runners

\* The barrier is made once, for all the runners and main.
Barrier ==
    /\ mpc # "bind" => boundNum = Cardinality(Runners)
    /\ expected \in {0, Cardinality(Runners) + 1}
    /\ expected = 0 => arrived = {} /\ released = {} /\ mpc \notin {"simulate", "arrive", "wait"}

\* Who is inside the barrier waits there, in one phase.
Places ==
    /\ arrived \cap released = {}
    /\ \A r \in Runners : r \in arrived \cup released => pc[r] = "wait"
    /\ Main \in arrived \cup released => mpc = "wait"

\* The phases a runner has been through, and whether main is still due in the
\* phase of its last step.
Through(r) == passes[r] + IF r \in released THEN 1 ELSE 0
Due == IF mpc = "arrive" \/ Main \in arrived THEN 1 ELSE 0

\* Everybody has been through the same phases.
Met == \A r \in Runners : Through(r) + Due = steps

SInv == TypeOK /\ Barrier /\ Places /\ Met

LEMMA Participants == Cardinality(Runners) \in Nat /\ IsFiniteSet(Everybody)
                  /\ Cardinality(Everybody) = Cardinality(Runners) + 1
BY SyncAssumption, FS_CardinalityType, FS_AddElement DEF Everybody

LEMMA SyncInit == Init => SInv
<1> SUFFICES ASSUME Init PROVE SInv
  OBVIOUS
<1>1. TypeOK
  BY SyncAssumption, Participants DEF Init, TypeOK, MainPCs, RunnerPCs
<1>2. Barrier /\ Places
  BY DEF Init, Barrier, Places
<1>3. Met
  BY DEF Init, Met, Through, Due
<1> QED
  BY <1>1, <1>2, <1>3 DEF SInv

\* An arrival either adds to those who wait or lets everybody go.
LEMMA Arrival ==
    ASSUME SInv, NEW th \in Everybody, th \notin arrived \cup released,
           expected = Cardinality(Runners) + 1, Arrive(th)
    PROVE  \/ arrived' = arrived \cup {th} /\ released' = released
           \/ arrived \cup {th} = Everybody /\ arrived' = {} /\ released' = Everybody
<1> DEFINE all == arrived \cup {th}
<1>1. all \in SUBSET Everybody
  BY DEF SInv, TypeOK, Everybody
<1>2. CASE Cardinality(all) = expected
  <2>1. all = Everybody
    BY <1>1, <1>2, Participants, FS_Subset
  <2>2. released \subseteq Everybody
    BY DEF SInv, TypeOK, Everybody
  <2> QED
    BY <1>2, <2>1, <2>2 DEF Arrive
<1>3. CASE Cardinality(all) # expected
  BY <1>3 DEF Arrive
<1> QED
  BY <1>2, <1>3

\* Main at the barrier.
LEMMA MainArrivesKeeps == ASSUME SInv, MainArrives PROVE SInv'
<1> USE DEF SInv
<1>1. /\ mpc = "arrive" /\ mpc' = "wait" /\ Arrive(Main)
      /\ UNCHANGED <<running, boundNum, expected, flag, pc, timeSet, free, passes, time, toStop, joining, steps>>
  BY DEF MainArrives, threadVars
<1>2. Main \notin arrived \cup released /\ expected = Cardinality(Runners) + 1 /\ Main \in Everybody
  BY <1>1, Participants DEF Places, Barrier, Everybody
<1>3. \/ arrived' = arrived \cup {Main} /\ released' = released
      \/ arrived \cup {Main} = Everybody /\ arrived' = {} /\ released' = Everybody
  BY <1>1, <1>2, Arrival
<1>4. TypeOK'
  BY <1>1, <1>3 DEF TypeOK, MainPCs, Everybody
<1>5. Barrier'
  BY <1>1, <1>2, Participants DEF Barrier
<1>6. CASE arrived' = arrived \cup {Main} /\ released' = released
  <2>1. Places'
    BY <1>1, <1>2, <1>6, SyncAssumption DEF Places
  <2>2. Met'
    BY <1>1, <1>6 DEF Met, Through, Due
  <2> QED
    BY <1>4, <1>5, <2>1, <2>2
<1>7. CASE arrived \cup {Main} = Everybody /\ arrived' = {} /\ released' = Everybody
  <2>1. \A r \in Runners : r \in arrived /\ r \notin released
    BY <1>7, SyncAssumption DEF Everybody, Places
  <2>2. Places'
    BY <1>1, <1>7, <2>1, SyncAssumption DEF Places, Everybody
  <2>3. ASSUME NEW r \in Runners PROVE Through(r)' + Due' = steps'
    <3>1. Through(r) = passes[r] /\ Through(r)' = passes[r] + 1 /\ passes[r] \in Nat
      BY <1>1, <1>7, <2>1 DEF Through, Everybody, TypeOK
    <3>2. Due = 1 /\ Due' = 0
      BY <1>1, <1>7 DEF Due
    <3> QED
      BY <1>1, <3>1, <3>2 DEF Met
  <2> QED
    BY <1>4, <1>5, <2>2, <2>3 DEF Met
<1> QED
  BY <1>3, <1>6, <1>7

\* A controller's thread at the barrier.
LEMMA RunnerArrivesKeeps == ASSUME SInv, NEW q \in Runners, RunnerArrives(q) PROVE SInv'
<1> USE DEF SInv
<1>1. /\ pc[q] = "sync" /\ expected # 0 /\ pc' = [pc EXCEPT ![q] = "wait"] /\ Arrive(q)
      /\ UNCHANGED <<running, boundNum, expected, flag, timeSet, free, passes, mpc, time, toStop, joining, steps>>
  BY DEF RunnerArrives, mainVars
<1>2. q \notin arrived \cup released /\ expected = Cardinality(Runners) + 1 /\ q \in Everybody /\ q # Main
  BY <1>1, SyncAssumption DEF Places, Barrier, Everybody
<1>3. \/ arrived' = arrived \cup {q} /\ released' = released
      \/ arrived \cup {q} = Everybody /\ arrived' = {} /\ released' = Everybody
  BY <1>1, <1>2, Arrival
<1>4. TypeOK'
  BY <1>1, <1>3 DEF TypeOK, RunnerPCs, Everybody
<1>5. Barrier'
  BY <1>1, <1>2, Participants DEF Barrier
<1>6. \A r \in Runners : pc'[r] = IF r = q THEN "wait" ELSE pc[r]
  BY <1>1 DEF TypeOK
<1>7. CASE arrived' = arrived \cup {q} /\ released' = released
  <2>1. Places'
    BY <1>1, <1>2, <1>6, <1>7 DEF Places
  <2>2. Met'
    BY <1>1, <1>2, <1>7 DEF Met, Through, Due
  <2> QED
    BY <1>4, <1>5, <2>1, <2>2
<1>8. CASE arrived \cup {q} = Everybody /\ arrived' = {} /\ released' = Everybody
  <2>1. Main \in arrived /\ mpc = "wait"
    BY <1>2, <1>8 DEF Everybody, Places
  <2>2. \A r \in Runners : (r = q \/ r \in arrived) /\ r \notin released
    BY <1>2, <1>8 DEF Everybody, Places
  <2>3. Places'
    BY <1>1, <1>6, <1>8, <2>1, <2>2 DEF Places, Everybody
  <2>4. ASSUME NEW r \in Runners PROVE Through(r)' + Due' = steps'
    <3>1. Through(r) = passes[r] /\ Through(r)' = passes[r] + 1 /\ passes[r] \in Nat
      BY <1>1, <1>8, <2>2 DEF Through, Everybody, TypeOK
    <3>2. Due = 1 /\ Due' = 0
      BY <1>1, <1>8, <2>1 DEF Due
    <3> QED
      BY <1>1, <3>1, <3>2 DEF Met
  <2> QED
    BY <1>4, <1>5, <2>3, <2>4 DEF Met
<1> QED
  BY <1>3, <1>7, <1>8

\* Main leaves the barrier.
LEMMA MainDepartsKeeps == ASSUME SInv, MainDeparts PROVE SInv'
<1> USE DEF SInv
<1>1. /\ mpc = "wait" /\ mpc' = "loop" /\ Main \in released /\ released' = released \ {Main}
      /\ UNCHANGED <<running, arrived, boundNum, expected, flag, pc, timeSet, free, passes, time, toStop, joining, steps>>
  BY DEF MainDeparts, Depart, threadVars
<1>2. TypeOK'
  BY <1>1 DEF TypeOK, MainPCs
<1>3. Barrier' /\ Places'
  BY <1>1 DEF Barrier, Places
<1>4. Met'
  BY <1>1, SyncAssumption DEF Met, Through, Due, Places
<1> QED
  BY <1>2, <1>3, <1>4

\* A controller's thread leaves the barrier.
LEMMA RunnerDepartsKeeps == ASSUME SInv, NEW q \in Runners, RunnerDeparts(q) PROVE SInv'
<1> USE DEF SInv
<1>1. /\ pc[q] = "wait" /\ pc' = [pc EXCEPT ![q] = "check"]
      /\ q \in released /\ released' = released \ {q} /\ passes' = [passes EXCEPT ![q] = @ + 1]
      /\ UNCHANGED <<running, arrived, boundNum, expected, flag, timeSet, free, mpc, time, toStop, joining, steps>>
  BY DEF RunnerDeparts, Depart, mainVars
<1>2. TypeOK'
  BY <1>1 DEF TypeOK, RunnerPCs
<1>3. Barrier'
  BY <1>1 DEF Barrier
<1>4. Places'
  BY <1>1, SyncAssumption DEF Places, TypeOK
<1>5. ASSUME NEW r \in Runners PROVE Through(r)' = Through(r)
  BY <1>1 DEF Through, TypeOK
<1>6. Due' = Due
  BY <1>1 DEF Due
<1> QED
  BY <1>1, <1>2, <1>3, <1>4, <1>5, <1>6 DEF Met

\* A step of the simulation makes main due at the barrier.
LEMMA SimulateKeeps == ASSUME SInv, Simulate PROVE SInv'
<1> USE DEF SInv
<1>1. /\ mpc = "simulate"
      /\ UNCHANGED <<running, boundNum, expected, arrived, released, flag, pc, timeSet, free, passes, toStop, joining>>
  BY DEF Simulate, barrierVars, threadVars
<1>2. Main \notin arrived /\ Due = 0
  BY <1>1 DEF Places, Due
<1>3. CASE time + Step <= MaxTime /\ time' = time + Step /\ steps' = steps + 1 /\ mpc' = "arrive"
  <2>1. TypeOK'
    BY <1>1, <1>3, SyncAssumption DEF TypeOK, MainPCs
  <2>2. Barrier' /\ Places'
    BY <1>1, <1>2, <1>3 DEF Barrier, Places
  <2>3. Met'
    BY <1>1, <1>2, <1>3 DEF Met, Through, Due, TypeOK
  <2> QED
    BY <2>1, <2>2, <2>3
<1>4. CASE time' = -1 /\ mpc' = "stop" /\ steps' = steps
  <2>1. TypeOK'
    BY <1>1, <1>4, SyncAssumption DEF TypeOK, MainPCs
  <2>2. Barrier' /\ Places'
    BY <1>1, <1>2, <1>4 DEF Barrier, Places
  <2>3. Met'
    BY <1>1, <1>2, <1>4 DEF Met, Through, Due
  <2> QED
    BY <2>1, <2>2, <2>3
<1> QED
  BY <1>3, <1>4 DEF Simulate

\* The steps of main that leave the barrier and the simulation alone.
LEMMA MainKeeps ==
    ASSUME SInv, \/ BindRunners \/ RunRunner \/ AllRun \/ TestRunning \/ MakeBarrier
                 \/ StopRunner \/ JoinRunner \/ AllStopped \/ ClearRunning
    PROVE  SInv'
<1> USE DEF SInv
<1>1. /\ UNCHANGED <<arrived, released, timeSet, free, passes, time, steps>>
      /\ mpc' = mpc \/ (mpc \notin {"arrive", "wait"} /\ mpc' \notin {"bind", "arrive", "wait"} /\ mpc' \in MainPCs)
  BY DEF BindRunners, RunRunner, AllRun, TestRunning, MakeBarrier, StopRunner, JoinRunner, AllStopped,
         ClearRunning, threadVars, barrierVars, mainVars, MainPCs
<1>2. \/ boundNum' = boundNum /\ (mpc' = mpc \/ mpc # "bind")
      \/ mpc' = "run" /\ boundNum' = Cardinality(Runners)
  BY DEF BindRunners, RunRunner, AllRun, TestRunning, MakeBarrier, StopRunner, JoinRunner, AllStopped,
         ClearRunning, threadVars, barrierVars, mainVars
<1>3. \/ expected' = expected /\ (mpc' = mpc \/ mpc' # "simulate")
      \/ mpc = "step" /\ mpc' = "simulate" /\ expected' = IF expected = 0 THEN boundNum + 1 ELSE expected
  BY DEF BindRunners, RunRunner, AllRun, TestRunning, MakeBarrier, StopRunner, JoinRunner, AllStopped,
         ClearRunning, threadVars, barrierVars, mainVars
<1>4. Barrier'
  BY <1>1, <1>2, <1>3, Participants DEF Barrier
<1>5. pc' \in [Runners -> RunnerPCs] /\ flag' \in [Runners -> BOOLEAN]
      /\ \A r \in Runners : pc[r] = "wait" => pc'[r] = "wait"
  BY DEF BindRunners, RunRunner, AllRun, TestRunning, MakeBarrier, StopRunner, JoinRunner, AllStopped,
         ClearRunning, threadVars, barrierVars, mainVars, TypeOK, RunnerPCs
<1>6. /\ toStop' \subseteq Runners /\ joining' \in {{}} \cup {{r} : r \in Runners} /\ running' \in BOOLEAN
  BY DEF BindRunners, RunRunner, AllRun, TestRunning, MakeBarrier, StopRunner, JoinRunner, AllStopped,
         ClearRunning, threadVars, barrierVars, mainVars, TypeOK
<1>7. boundNum' \in 0 .. Cardinality(Runners) /\ expected' \in 0 .. Cardinality(Runners) + 1
  BY <1>2, <1>4, Participants DEF Barrier, TypeOK
<1>8. TypeOK'
  BY <1>1, <1>5, <1>6, <1>7 DEF TypeOK
<1>9. Places'
  BY <1>1, <1>5 DEF Places
<1>10. Met'
  BY <1>1 DEF Met, Through, Due
<1> QED
  BY <1>4, <1>8, <1>9, <1>10

\* The steps of a controller's thread outside the barrier.
LEMMA RunnerKeeps ==
    ASSUME SInv, NEW q \in Runners,
           Begin(q) \/ NextPass(q) \/ Leave(q) \/ PassFreely(q) \/ Check(q) \/ TaskReturns(q)
    PROVE  SInv'
<1> USE DEF SInv
<1>1. UNCHANGED <<running, boundNum, expected, arrived, released, flag, passes, mpc, time, toStop, joining, steps>>
  BY DEF Begin, NextPass, Leave, PassFreely, Check, TaskReturns, barrierVars, mainVars
<1>2. pc[q] # "wait" /\ \E p \in RunnerPCs : pc' = [pc EXCEPT ![q] = p]
  BY DEF Begin, NextPass, Leave, PassFreely, Check, TaskReturns, RunnerPCs
<1>3. timeSet' \in [Runners -> Int] /\ free' \in [Runners -> Nat]
  BY SyncAssumption DEF Begin, NextPass, Leave, PassFreely, Check, TaskReturns, TypeOK
<1>4. TypeOK'
  BY <1>1, <1>2, <1>3 DEF TypeOK
<1>5. Barrier' /\ Places'
  BY <1>1, <1>2 DEF Barrier, Places, TypeOK
<1>6. Met'
  BY <1>1 DEF Met, Through, Due
<1> QED
  BY <1>4, <1>5, <1>6

LEMMA SyncNext == SInv /\ [Next]_vars => SInv'
<1> SUFFICES ASSUME SInv, [Next]_vars PROVE SInv'
  OBVIOUS
<1>1. CASE MainStep
  BY <1>1, MainArrivesKeeps, MainDepartsKeeps, SimulateKeeps, MainKeeps DEF MainStep
<1>2. CASE \E r \in Runners : RunnerStep(r)
  BY <1>2, RunnerArrivesKeeps, RunnerDepartsKeeps, RunnerKeeps DEF RunnerStep
<1>3. CASE ClearRunning
  BY <1>3, MainKeeps
<1>4. CASE UNCHANGED vars
  BY <1>4 DEF vars, barrierVars, threadVars, mainVars, SInv, TypeOK, Barrier, Places, Met, Through, Due
<1> QED
  BY <1>1, <1>2, <1>3, <1>4 DEF Next

LEMMA SyncInvariance == Spec => []SInv
BY SyncInit, SyncNext, PTL DEF Spec

-----------------------------------------------------------------------------
(* The clocks of the controllers against the simulated time.               *)

\* The rounds a runner has begun: each one adds a cycle to its clock.
Rounds(r) == passes[r] + free[r] + IF pc[r] \in {"sync", "wait"} THEN 1 ELSE 0

\* A cycle of k steps buys k steps per round, until the simulation has ended.
Ahead(r, k) == time # -1 /\ Cycle[r] >= k * Step => timeSet[r] >= k * (Rounds(r) * Step)

Pace(r) ==
    /\ timeSet[r] >= -1
    /\ pc[r] \in {"none", "start"} => timeSet[r] = 0 /\ Rounds(r) = 0
    /\ pc[r] = "check" => Rounds(r) >= 1
    /\ Ahead(r, 1) /\ Ahead(r, 2)

Clocks ==
    /\ time = -1 => mpc \in {"stop", "returned"}
    /\ time # -1 => time = steps * Step
    /\ \A r \in Runners : Pace(r)

KInv == SInv /\ Clocks

\* Products with the step.
LEMMA StepSum ==
    ASSUME NEW n \in Nat
    PROVE  n * Step \in Nat /\ (n + 1) * Step = n * Step + Step
BY SyncAssumption

LEMMA StepMonotone ==
    ASSUME NEW m \in Nat, NEW n \in Nat, m <= n
    PROVE  m * Step <= n * Step
<1>1. n - m \in Nat /\ n * Step = m * Step + (n - m) * Step
  BY SyncAssumption
<1>2. (n - m) * Step \in Nat /\ m * Step \in Nat
  BY <1>1, StepSum
<1> QED
  BY <1>1, <1>2

LEMMA ClocksInit == Init => Clocks
<1> SUFFICES ASSUME Init PROVE Clocks
  OBVIOUS
<1>1. \A r \in Runners : Rounds(r) = 0 /\ timeSet[r] = 0 /\ pc[r] = "none"
  BY DEF Init, Rounds
<1>2. 0 * Step = 0
  BY SyncAssumption
<1> QED
  BY <1>1, <1>2 DEF Init, Clocks, Pace, Ahead

\* What a runner's clock does when its rounds, its clock and time stand still.
LEMMA PaceStays ==
    ASSUME NEW r \in Runners, Pace(r), timeSet'[r] = timeSet[r], Rounds(r)' = Rounds(r),
           time' # -1 => time # -1,
           pc'[r] = "check" => Rounds(r) >= 1,
           pc'[r] \in {"none", "start"} => pc[r] \in {"none", "start"}
    PROVE  Pace(r)'
BY DEF Pace, Ahead

\* The steps of main and the showtime thread.
LEMMA MainClocks == ASSUME KInv, MainStep \/ ClearRunning PROVE Clocks'
<1> USE DEF KInv, Clocks
<1>1. UNCHANGED <<timeSet, free, passes>>
      /\ \A r \in Runners : pc'[r] = pc[r] \/ (pc[r] = "none" /\ pc'[r] = "start")
  BY DEF SInv, TypeOK, MainStep, BindRunners, RunRunner, AllRun, TestRunning, MakeBarrier, Simulate,
         MainArrives, MainDeparts, StopRunner, JoinRunner, AllStopped, ClearRunning, threadVars
<1>2. \/ time' = time /\ steps' = steps /\ (time = -1 => mpc' \in {"stop", "returned"})
      \/ time' = time + Step /\ steps' = steps + 1 /\ mpc = "simulate" /\ mpc' = "arrive"
      \/ time' = -1 /\ mpc' = "stop"
  BY DEF MainStep, BindRunners, RunRunner, AllRun, TestRunning, MakeBarrier, Simulate, MainArrives,
         MainDeparts, StopRunner, JoinRunner, AllStopped, ClearRunning, mainVars
<1>3. time \in Int /\ time >= -1 /\ steps \in Nat
  BY SyncAssumption DEF SInv, TypeOK
<1>4. (time' = -1 => mpc' \in {"stop", "returned"}) /\ (time' # -1 => time # -1)
  BY <1>2, <1>3, SyncAssumption
<1>5. time' # -1 => time' = steps' * Step
  BY <1>2, <1>3, StepSum
<1>6. ASSUME NEW r \in Runners PROVE Pace(r)'
  <2>1. Rounds(r)' = Rounds(r)
    BY <1>1 DEF Rounds
  <2> QED
    BY <1>1, <1>4, <2>1, PaceStays DEF Pace
<1> QED
  BY <1>4, <1>5, <1>6

\* A runner's own steps leave the others' clocks alone.
LEMMA RunnerClocks == ASSUME KInv, NEW q \in Runners, RunnerStep(q) PROVE Clocks'
<1> USE DEF KInv, Clocks
<1>1. UNCHANGED <<time, steps, mpc>>
  BY DEF RunnerStep, Begin, NextPass, Leave, PassFreely, RunnerArrives, RunnerDeparts, Check, TaskReturns,
         mainVars
<1>2. /\ \A r \in Runners : passes[r] \in Nat /\ free[r] \in Nat /\ timeSet[r] \in Int
      /\ time \in Int /\ time >= -1
  BY SyncAssumption DEF SInv, TypeOK
<1>3. ASSUME NEW r \in Runners, r # q PROVE Pace(r)'
  <2>1. pc'[r] = pc[r] /\ timeSet'[r] = timeSet[r] /\ passes'[r] = passes[r] /\ free'[r] = free[r]
    BY <1>3 DEF RunnerStep, Begin, NextPass, Leave, PassFreely, RunnerArrives, RunnerDeparts, Check,
                TaskReturns, SInv, TypeOK
  <2> QED
    BY <1>1, <2>1, PaceStays DEF Rounds, Pace
<1>4. CASE Begin(q)
  <2>1. timeSet'[q] = time /\ pc[q] = "start" /\ pc'[q] = "test" /\ UNCHANGED <<passes, free>>
    BY <1>4 DEF Begin, SInv, TypeOK
  <2>2. Rounds(q) = 0 /\ Rounds(q)' = 0
    BY <2>1 DEF Rounds, Pace
  <2>3. 0 * Step = 0
    BY SyncAssumption
  <2> QED
    BY <1>1, <1>2, <1>3, <2>1, <2>2, <2>3 DEF Pace, Ahead
<1>5. CASE NextPass(q)
  <2>1. timeSet'[q] = timeSet[q] + Cycle[q] /\ pc[q] = "test" /\ pc'[q] = "sync"
        /\ UNCHANGED <<passes, free>>
    BY <1>5 DEF NextPass, SInv, TypeOK
  <2>2. Rounds(q) \in Nat /\ Rounds(q)' = Rounds(q) + 1
    BY <1>2, <2>1 DEF Rounds
  <2>3. (Rounds(q) * Step) \in Nat /\ (Rounds(q)' * Step) = (Rounds(q) * Step) + Step
    BY <2>2, StepSum
  <2>4. Cycle[q] \in Nat /\ Step \in Nat
    BY SyncAssumption
  <2>5. Ahead(q, 1)'
    BY <1>1, <1>2, <2>1, <2>3, <2>4 DEF Pace, Ahead
  <2>6. Ahead(q, 2)'
    BY <1>1, <1>2, <2>1, <2>3, <2>4 DEF Pace, Ahead
  <2> QED
    BY <1>1, <1>2, <1>3, <2>1, <2>4, <2>5, <2>6 DEF Pace
<1>6. CASE PassFreely(q) \/ RunnerDeparts(q)
  <2>1. pc[q] \in {"sync", "wait"} /\ pc'[q] = "check" /\ timeSet' = timeSet
        /\ passes'[q] + free'[q] = passes[q] + free[q] + 1
    BY <1>2, <1>6 DEF PassFreely, RunnerDeparts, SInv, TypeOK
  <2>2. Rounds(q)' = Rounds(q) /\ Rounds(q) >= 1
    BY <1>2, <2>1 DEF Rounds
  <2> QED
    BY <1>1, <1>3, <2>1, <2>2, PaceStays
<1>7. CASE Leave(q) \/ RunnerArrives(q) \/ Check(q) \/ TaskReturns(q)
  <2>1. /\ UNCHANGED <<timeSet, passes, free>> /\ pc'[q] \notin {"none", "start", "check"}
        /\ pc[q] \in {"sync", "wait"} <=> pc'[q] \in {"sync", "wait"}
    BY <1>7 DEF Leave, RunnerArrives, Check, TaskReturns, SInv, TypeOK
  <2>2. Rounds(q)' = Rounds(q)
    BY <2>1 DEF Rounds
  <2> QED
    BY <1>1, <1>3, <2>1, <2>2, PaceStays
<1> QED
  BY <1>4, <1>5, <1>6, <1>7 DEF RunnerStep

LEMMA ClocksNext == KInv /\ [Next]_vars => KInv'
<1>1. KInv /\ [Next]_vars => Clocks'
  <2> SUFFICES ASSUME KInv, [Next]_vars PROVE Clocks'
    OBVIOUS
  <2>1. ASSUME UNCHANGED vars PROVE Clocks'
    BY <2>1 DEF vars, threadVars, mainVars, KInv, Clocks, Pace, Ahead, Rounds
  <2> QED
    BY <2>1, MainClocks, RunnerClocks DEF Next
<1> QED
  BY <1>1, SyncNext DEF KInv

LEMMA ClocksInvariance == Spec => []KInv
<1>1. Init => KInv
  BY SyncInit, ClocksInit DEF KInv
<1> QED
  BY <1>1, ClocksNext, PTL DEF Spec

-----------------------------------------------------------------------------
\* The variables of main, of the barrier and of the threads keep their types.
THEOREM TypeCorrect == Spec => []TypeOK
<1>1. SInv => TypeOK
  BY DEF SInv
<1> QED
  BY <1>1, SyncInvariance, PTL

\* However many controllers there are and whatever their cycles, none is more
\* than one step of the simulation behind main, and none is ahead of it.
THEOREM LockStepHolds == Spec => []LockStep
<1>1. SInv => LockStep
  <2> SUFFICES ASSUME SInv, NEW r \in Runners, pc[r] \in {"check", "task"}
               PROVE  steps - passes[r] \in {0, 1}
    BY DEF LockStep
  <2>1. Through(r) = passes[r] /\ passes[r] \in Nat
    BY DEF SInv, Places, Through, TypeOK
  <2>2. Through(r) + Due = steps /\ Due \in {0, 1} /\ steps \in Nat
    BY DEF SInv, Met, Due, TypeOK
  <2> QED
    BY <2>1, <2>2
<1> QED
  BY <1>1, SyncInvariance, PTL

\* The controller's clock keeps up with the simulation, whatever the step and
\* the cycle are, provided the cycle is not shorter than the step.
THEOREM KeepsUpHolds == Spec => []KeepsUp
<1>1. KInv => KeepsUp
  <2> SUFFICES ASSUME KInv, NEW r \in Runners, pc[r] = "check"
               PROVE  /\ Cycle[r] >= Step => timeSet[r] + Step >= time
                      /\ Cycle[r] >= 2 * Step => timeSet[r] >= time
    BY DEF KeepsUp
  <2>1. /\ passes[r] \in Nat /\ free[r] \in Nat /\ timeSet[r] \in Int
        /\ time \in Int /\ steps \in Nat /\ Step \in Nat /\ Cycle[r] \in Nat
    BY SyncAssumption DEF KInv, SInv, TypeOK
  <2>2. timeSet[r] >= -1 /\ Rounds(r) = passes[r] + free[r] /\ Rounds(r) >= 1
        /\ Ahead(r, 1) /\ Ahead(r, 2)
    BY <2>1 DEF KInv, Clocks, Pace, Rounds
  <2>3. steps <= passes[r] + 1
    BY <2>1 DEF KInv, SInv, Met, Places, Through, Due
  <2>4. CASE time = -1
    BY <2>1, <2>2, <2>4
  <2>5. CASE time # -1
    <3> DEFINE n == Rounds(r)
    <3>1. n \in Nat /\ steps <= n + 1 /\ steps <= n + n
      BY <2>1, <2>2, <2>3
    <3>2. time = steps * Step
      BY <2>5 DEF KInv, Clocks
    <3>3. n * Step \in Nat /\ (n + 1) * Step = n * Step + Step /\ (n + n) * Step = n * Step + n * Step
      BY <3>1, <2>1, StepSum
    <3>4. steps * Step <= (n + 1) * Step /\ steps * Step <= (n + n) * Step
      BY <3>1, <2>1, StepMonotone
    <3>5. Cycle[r] >= Step => timeSet[r] >= n * Step
      BY <2>1, <2>2, <2>5, <3>3 DEF Ahead
    <3>6. Cycle[r] >= 2 * Step => timeSet[r] >= n * Step + n * Step
      BY <2>1, <2>2, <2>5, <3>3 DEF Ahead
    <3> HIDE DEF n
    <3> QED
      BY <2>1, <3>2, <3>3, <3>4, <3>5, <3>6
  <2> QED
    BY <2>4, <2>5
<1> QED
  BY <1>1, ClocksInvariance, PTL

-----------------------------------------------------------------------------
(* What the two sides exchange.                                            *)

\* The variables of the devices and the tasks.
SimTypes ==
    /\ upd \in 1 .. Len(Cells) + 1
    /\ stamp \in [CellSet -> Int]
    /\ timeLast \in [MotorCells -> Int]
    /\ read \in [Runners -> 0 .. Len(Cells)]
    /\ seen \in [Runners -> SUBSET Int]
    /\ given \in [Runners -> Nat]
    /\ checked \in [Runners -> BOOLEAN]
    /\ late \in [Runners -> Nat]

\* A cell holds the sample of the n-th step: before the first of them a motor
\* holds its initialiser.
SampleOf(c, n) == stamp[c] = n * Step \/ (n = 0 /\ stamp[c] = Initial)

\* The cells hold the time before main's last step or the time after it; the
\* former as long as main is due at the barrier, the latter in the cells the
\* updaters have already passed.
Fresh ==
    /\ mpc = "simulate" =>
         \A i \in DOMAIN Cells : i < upd => SampleOf(Cells[i], steps)
    /\ mpc \in {"arrive", "wait"} =>
         \A c \in CellSet : SampleOf(c, steps - 1)
    /\ steps > 0 =>
         \A c \in CellSet : stamp[c] = steps * Step \/ SampleOf(c, steps - 1)

\* A motor's time_last is the time of its sample, 0 before there is one.
LastTimes == \A c \in MotorCells : timeLast[c] = IF stamp[c] = Initial THEN 0 ELSE stamp[c]

\* What a controller may still command once the simulation has ended.
Spent ==
    \A r \in Runners :
        /\ late[r] <= IF checked[r] THEN 0 ELSE 1
        /\ late[r] > 0 => time = -1

DInv == KInv /\ SimTypes /\ Fresh /\ LastTimes /\ SnapshotAge /\ Spent

LEMMA CellDomain ==
    /\ DOMAIN Cells = 1 .. Len(Cells) /\ Len(Cells) \in Nat
    /\ \A i \in DOMAIN Cells : Cells[i] \in CellSet
    /\ \A c \in CellSet : \E i \in DOMAIN Cells : c = Cells[i]
    /\ MotorCells \subseteq CellSet /\ ImuCells \subseteq CellSet
BY DevicesAssumption DEF CellSet, MotorCells

\* Every step of the simulator build is one of the synchronisation or leaves
\* it alone.
LEMMA SimStepIsSyncStep == SimNext => [Next]_vars
<1>1. SimMain => [Next]_vars
  BY DEF SimMain, StartStep, Update, UpdateImu, UpdateMotor, Updating, Advance, OtherMain, Next, MainStep
<1>2. ASSUME NEW r \in Runners, SimRunner(r) PROVE [Next]_vars
  BY <1>2 DEF SimRunner, EnterTask, ReadCell, TestTime, SetTorque, LeaveTask, OtherRunner, Next, RunnerStep
<1> QED
  BY <1>1, <1>2 DEF SimNext, Next

LEMMA SimInitDInv == SimInit => DInv
<1> SUFFICES ASSUME SimInit PROVE DInv
  OBVIOUS
<1>1. KInv
  BY SyncInit, ClocksInit DEF KInv, SimInit
<1>2. SimTypes
  BY CellDomain DEF SimInit, SimTypes, Unwritten, Initial
<1>3. Fresh /\ LastTimes /\ SnapshotAge /\ Spent
  BY CellDomain DEF SimInit, Init, Fresh, LastTimes, MotorCells, SnapshotAge, InTask, Spent
<1> QED
  BY <1>1, <1>2, <1>3 DEF DInv

\* An updater leaves its cell with the sample of the step main is about to
\* take, or a motor with its initialiser before the first one.
LEMMA UpdateSamples ==
    ASSUME DInv, NEW c \in CellSet, UpdateImu(c) \/ UpdateMotor(c)
    PROVE  /\ SimTypes' /\ LastTimes' /\ SampleOf(c, steps)'
           /\ \A b \in CellSet : b # c => stamp'[b] = stamp[b]
           /\ c = Cells[upd] /\ upd' = upd + 1 /\ upd \in DOMAIN Cells
           /\ mpc = "simulate" /\ mpc' = mpc /\ steps' = steps
           /\ stamp'[c] = steps * Step \/ stamp'[c] = stamp[c]
<1> USE DEF DInv
<1>1. /\ upd \in DOMAIN Cells /\ c = Cells[upd] /\ upd' = upd + 1 /\ mpc = "simulate"
      /\ UNCHANGED <<time, mpc, steps, read, seen, given, checked, late>>
  BY DEF UpdateImu, UpdateMotor, Updating, vars, mainVars, taskVars
<1>2. steps \in Nat /\ Step \in Nat \ {0} /\ time = steps * Step /\ time \in Int
  BY <1>1, SyncAssumption DEF KInv, SInv, TypeOK, Clocks
<1>3. time >= 0 /\ (time = 0 => steps = 0)
  BY <1>2, StepMonotone
<1>4. upd' \in 1 .. Len(Cells) + 1
  BY <1>1, CellDomain
<1>5. CASE stamp' = [stamp EXCEPT ![c] = time] /\ c \in ImuCells /\ timeLast' = timeLast
  <2>1. c \notin MotorCells
    BY <1>5 DEF MotorCells
  <2> QED
    BY <1>1, <1>2, <1>4, <1>5, <2>1, CellDomain DEF SimTypes, LastTimes, SampleOf
<1>6. CASE /\ c \in MotorCells /\ stamp' = [stamp EXCEPT ![c] = time]
           /\ timeLast' = [timeLast EXCEPT ![c] = time]
  <2>1. time # Initial
    BY <1>2, <1>3 DEF Initial
  <2> QED
    BY <1>1, <1>2, <1>4, <1>6, <2>1, CellDomain DEF SimTypes, LastTimes, SampleOf
<1>7. CASE c \in MotorCells /\ time = timeLast[c] /\ stamp' = stamp /\ timeLast' = timeLast
  <2>1. stamp[c] = time \/ (stamp[c] = Initial /\ time = 0)
    BY <1>7 DEF LastTimes
  <2> QED
    BY <1>1, <1>2, <1>3, <1>4, <1>7, <2>1, CellDomain DEF SimTypes, LastTimes, SampleOf
<1> QED
  BY <1>5, <1>6, <1>7 DEF UpdateImu, UpdateMotor

\* The main thread's steps: a round of updaters, then a step of the simulation.
LEMMA SimMainKeeps == ASSUME DInv, SimMain, Clocks' PROVE SimTypes' /\ Fresh' /\ LastTimes'
<1> USE DEF DInv
<1>0. /\ time \in Int /\ steps \in Nat /\ Step \in Nat
      /\ \A n \in Nat : n * Step \in Int
  BY SyncAssumption, StepSum DEF KInv, SInv, TypeOK
<1>1. CASE StartStep
  <2>1. /\ upd' = 1 /\ UNCHANGED <<stamp, timeLast, read, seen, given, checked, late, steps>>
        /\ mpc' = "simulate"
    BY <1>1 DEF StartStep, MakeBarrier, taskVars
  <2> QED
    BY <2>1, CellDomain DEF SimTypes, Fresh, SampleOf, LastTimes
<1>2. CASE Update
  <2>1. PICK c \in CellSet : UpdateImu(c) \/ UpdateMotor(c)
    BY <1>2 DEF Update
  <2>2. /\ SimTypes' /\ LastTimes' /\ SampleOf(c, steps)'
        /\ \A b \in CellSet : b # c => stamp'[b] = stamp[b]
        /\ c = Cells[upd] /\ upd' = upd + 1 /\ upd \in DOMAIN Cells
        /\ mpc = "simulate" /\ mpc' = mpc /\ steps' = steps
        /\ stamp'[c] = steps * Step \/ stamp'[c] = stamp[c]
    BY <2>1, UpdateSamples
  <2>3. \A i \in DOMAIN Cells : i < upd' => i < upd \/ i = upd
    BY <2>2, CellDomain DEF SimTypes
  <2>4. ASSUME NEW i \in DOMAIN Cells, i < upd' PROVE SampleOf(Cells[i], steps)'
    <3>1. CASE Cells[i] = c
      BY <2>2, <3>1
    <3>2. CASE Cells[i] # c
      BY <2>2, <2>3, <2>4, <3>2, CellDomain DEF Fresh, SampleOf
    <3> QED
      BY <3>1, <3>2
  <2>5. ASSUME steps > 0, NEW b \in CellSet
        PROVE  stamp'[b] = steps * Step \/ SampleOf(b, steps - 1)'
    BY <2>2, <2>5 DEF Fresh, SampleOf
  <2> QED
    BY <2>2, <2>4, <2>5 DEF Fresh
<1>3. CASE Advance
  <2>1. /\ UNCHANGED <<upd, stamp, timeLast, read, seen, given, checked, late>>
        /\ mpc = "simulate" /\ upd \notin DOMAIN Cells
        /\ \/ mpc' = "arrive" /\ steps' = steps + 1
           \/ mpc' = "stop" /\ steps' = steps
    BY <1>3 DEF Advance, Simulate, deviceVars, taskVars
  <2>2. ASSUME NEW c \in CellSet PROVE SampleOf(c, steps)
    <3>1. PICK i \in DOMAIN Cells : c = Cells[i]
      BY CellDomain
    <3>2. i < upd
      BY <2>1, CellDomain DEF SimTypes
    <3> QED
      BY <2>1, <3>1, <3>2 DEF Fresh
  <2>3. (steps + 1) - 1 = steps
    BY <1>0
  <2> QED
    BY <2>1, <2>2, <2>3, <1>0 DEF SimTypes, Fresh, SampleOf, LastTimes
<1>4. CASE OtherMain
  <2>1. /\ UNCHANGED <<upd, stamp, timeLast, read, seen, given, checked, late, steps>>
        /\ mpc' = "simulate" => mpc = "simulate"
        /\ mpc' \in {"arrive", "wait"} => mpc \in {"arrive", "wait"}
    BY <1>4 DEF OtherMain, deviceVars, taskVars, BindRunners, RunRunner, AllRun, TestRunning,
                MainArrives, MainDeparts, StopRunner, JoinRunner, AllStopped, mainVars
  <2> QED
    BY <2>1 DEF SimTypes, Fresh, SampleOf, LastTimes
<1> QED
  BY <1>1, <1>2, <1>3, <1>4 DEF SimMain

\* A controller's thread leaves the devices alone and keeps to its types.
LEMMA SimRunnerKeeps == ASSUME DInv, NEW r \in Runners, SimRunner(r) PROVE SimTypes' /\ Fresh' /\ LastTimes'
<1> USE DEF DInv
<1>1. UNCHANGED <<upd, stamp, timeLast, mpc, steps>>
  BY DEF SimRunner, EnterTask, ReadCell, TestTime, SetTorque, LeaveTask, OtherRunner, deviceVars,
         Begin, NextPass, Leave, PassFreely, RunnerArrives, RunnerDeparts, Check, TaskReturns, vars, mainVars
<1>2. Fresh' /\ LastTimes'
  BY <1>1 DEF Fresh, SampleOf, LastTimes
<1>3. CASE EnterTask(r)
  <2>1. /\ read' = [read EXCEPT ![r] = 0] /\ seen' = [seen EXCEPT ![r] = {}]
        /\ given' = [given EXCEPT ![r] = 0] /\ UNCHANGED <<checked, late>>
    BY <1>3 DEF EnterTask
  <2>2. 0 \in 0 .. Len(Cells) /\ {} \in SUBSET Int
    BY CellDomain
  <2> QED
    BY <1>1, <1>2, <2>1, <2>2 DEF SimTypes
<1>4. CASE ReadCell(r)
  <2>1. read[r] + 1 \in DOMAIN Cells
    BY <1>4, CellDomain DEF ReadCell, SimTypes
  <2>2. stamp[Cells[read[r] + 1]] \in Int
    BY <2>1, CellDomain DEF SimTypes
  <2> QED
    BY <1>1, <1>2, <1>4, <2>1, <2>2, CellDomain DEF ReadCell, SimTypes
<1>5. CASE TestTime(r)
  <2>1. /\ UNCHANGED <<read, seen, late>>
        /\ \/ checked' = [checked EXCEPT ![r] = TRUE] /\ given' = given
           \/ given' = [given EXCEPT ![r] = @ + 1] /\ checked' = checked
    BY <1>5 DEF TestTime
  <2>2. given[r] + 1 \in Nat
    BY DEF SimTypes
  <2> QED
    BY <1>1, <1>2, <2>1, <2>2 DEF SimTypes
<1>6. CASE SetTorque(r)
  BY <1>1, <1>2, <1>6 DEF SetTorque, SimTypes
<1>7. CASE LeaveTask(r) \/ OtherRunner(r)
  BY <1>1, <1>2, <1>7 DEF LeaveTask, OtherRunner, taskVars, SimTypes
<1> QED
  BY <1>2, <1>3, <1>4, <1>5, <1>6, <1>7 DEF SimRunner

\* How old what a task reads in its p-th synchronised pass may be.
Ages(p) == {(p - 1) * Step, p * Step} \cup (IF p = 1 THEN {Initial} ELSE {})

\* What a task reads is as old as SnapshotAge says: a controller in its task
\* is through the barrier, so main has taken the step of its pass, and the
\* next one only if it is due at the barrier again.
LEMMA CellAge ==
    ASSUME DInv, NEW r \in Runners, InTask(r), passes[r] > 0, NEW c \in CellSet
    PROVE  stamp[c] \in Ages(passes[r])
<1> USE DEF DInv
<1>1. passes[r] \in Nat /\ steps \in Nat /\ passes[r] + Due = steps
  BY DEF KInv, SInv, TypeOK, Places, Met, Through, InTask
<1>2. CASE Due = 0
  BY <1>1, <1>2 DEF Fresh, SampleOf, Ages
<1>3. CASE Due = 1
  <2>1. mpc \in {"arrive", "wait"} /\ steps - 1 = passes[r]
    BY <1>1, <1>3 DEF KInv, SInv, Places, Due
  <2> QED
    BY <1>1, <2>1 DEF Fresh, SampleOf, Ages
<1> QED
  BY <1>2, <1>3 DEF Due

LEMMA SnapshotNext == ASSUME DInv, SimNext PROVE SnapshotAge'
<1> USE DEF DInv
<1>1. ASSUME SimMain \/ (ClearRunning /\ UNCHANGED <<deviceVars, taskVars>>) PROVE SnapshotAge'
  <2>1. /\ UNCHANGED <<passes, seen>>
        /\ \A q \in Runners : pc'[q] = "task" => pc[q] = "task"
    BY <1>1 DEF SimMain, StartStep, Update, UpdateImu, UpdateMotor, Updating, Advance, OtherMain,
                taskVars, vars, threadVars, KInv, SInv, TypeOK, MainStep, BindRunners, RunRunner, AllRun, TestRunning, MakeBarrier, Simulate, MainArrives,
                MainDeparts, StopRunner, JoinRunner, AllStopped, ClearRunning
  <2> QED
    BY <2>1 DEF SnapshotAge, InTask
<1>2. ASSUME NEW r \in Runners, SimRunner(r) PROVE SnapshotAge'
  <2>1. ASSUME NEW q \in Runners, q # r, InTask(q)' PROVE InTask(q) /\ passes'[q] = passes[q] /\ seen'[q] = seen[q]
    BY <1>2, <2>1 DEF SimRunner, EnterTask, ReadCell, TestTime, SetTorque, LeaveTask, OtherRunner, taskVars,
                Begin, NextPass, Leave, PassFreely, RunnerArrives, RunnerDeparts, Check, TaskReturns, vars,
                threadVars, InTask, KInv, SInv, TypeOK, SimTypes
  <2>2. ASSUME InTask(r)', passes'[r] > 0
        PROVE  seen'[r] \subseteq Ages(passes'[r])
    <3>1. CASE EnterTask(r)
      BY <3>1 DEF EnterTask, SimTypes
    <3>2. CASE ReadCell(r)
      <4>1. /\ InTask(r) /\ passes' = passes /\ read[r] + 1 \in DOMAIN Cells
            /\ seen'[r] = seen[r] \cup {stamp[Cells[read[r] + 1]]}
        BY <3>2, CellDomain DEF ReadCell, vars, threadVars, SimTypes
      <4> QED
        BY <2>2, <4>1, CellAge, CellDomain DEF SnapshotAge, Ages
    <3>3. CASE TestTime(r) \/ SetTorque(r)
      BY <2>2, <3>3 DEF TestTime, SetTorque, vars, threadVars, SnapshotAge, Ages, InTask
    <3>4. CASE LeaveTask(r) \/ OtherRunner(r)
      BY <2>2, <3>4 DEF LeaveTask, OtherRunner, Begin, NextPass, Leave, PassFreely, RunnerArrives,
                RunnerDeparts, TaskReturns, InTask, KInv, SInv, TypeOK
    <3> QED
      BY <1>2, <3>1, <3>2, <3>3, <3>4 DEF SimRunner
  <2> QED
    BY <2>1, <2>2 DEF SnapshotAge, Ages
<1> QED
  BY <1>1, <1>2 DEF SimNext

LEMMA SpentNext == ASSUME DInv, SimNext, Clocks' PROVE Spent'
<1> USE DEF DInv
<1>1. time = -1 => time' = -1
  <2>1. SimMain => time' = time \/ mpc = "simulate"
    BY DEF SimMain, StartStep, Update, UpdateImu, UpdateMotor, Updating, Advance, OtherMain, vars,
           MainStep, BindRunners, RunRunner, AllRun,
           TestRunning, MakeBarrier, Simulate, MainArrives, MainDeparts, StopRunner, JoinRunner, AllStopped,
           mainVars
  <2>2. ~SimMain => time' = time
    BY DEF SimNext, SimRunner, EnterTask, ReadCell, TestTime, SetTorque, LeaveTask, OtherRunner, ClearRunning,
           Begin, NextPass, Leave, PassFreely, RunnerArrives, RunnerDeparts, Check, TaskReturns, vars, mainVars
  <2> QED
    BY <2>1, <2>2 DEF KInv, Clocks
<1>2. CASE UNCHANGED <<checked, late>>
  BY <1>1, <1>2 DEF Spent
<1>3. ASSUME NEW r \in Runners, TestTime(r) PROVE Spent'
  <2>1. /\ time' = time /\ late' = late /\ ~checked[r]
        /\ \/ checked' = [checked EXCEPT ![r] = TRUE] /\ time # -1
           \/ checked' = checked
    BY <1>3 DEF TestTime, vars, mainVars
  <2> QED
    BY <2>1 DEF Spent, SimTypes
<1>4. ASSUME NEW r \in Runners, SetTorque(r) PROVE Spent'
  <2>1. /\ time' = time /\ checked[r] /\ checked' = [checked EXCEPT ![r] = FALSE]
        /\ late' = [late EXCEPT ![r] = @ + (IF time = -1 THEN 1 ELSE 0)]
    BY <1>4 DEF SetTorque, vars, mainVars
  <2> QED
    BY <2>1 DEF Spent, SimTypes
<1>5. SimNext => \/ UNCHANGED <<checked, late>>
                 \/ \E r \in Runners : TestTime(r) \/ SetTorque(r)
  BY DEF SimNext, SimMain, StartStep, Update, UpdateImu, UpdateMotor, Updating, Advance, OtherMain,
         SimRunner, EnterTask, ReadCell,
         LeaveTask, OtherRunner, taskVars
<1> QED
  BY <1>2, <1>3, <1>4, <1>5

LEMMA SimNextDInv == DInv /\ [SimNext]_simVars => DInv'
<1> SUFFICES ASSUME DInv, [SimNext]_simVars PROVE DInv'
  OBVIOUS
<1>1. [Next]_vars
  BY SimStepIsSyncStep DEF simVars
<1>2. KInv'
  BY <1>1, ClocksNext DEF DInv
<1>3. CASE SimNext
  <2>1. SnapshotAge' /\ Spent'
    BY <1>2, <1>3, SnapshotNext, SpentNext DEF KInv
  <2>2. SimTypes' /\ Fresh' /\ LastTimes'
    <3>1. ASSUME ClearRunning /\ UNCHANGED <<deviceVars, taskVars>>
          PROVE  SimTypes' /\ Fresh' /\ LastTimes'
      BY <3>1 DEF DInv, ClearRunning, deviceVars, taskVars, mainVars, SimTypes, Fresh, SampleOf, LastTimes
    <3> QED
      BY <1>2, <1>3, <3>1, SimMainKeeps, SimRunnerKeeps DEF SimNext, KInv
  <2> QED
    BY <1>2, <2>1, <2>2 DEF DInv
<1>4. CASE UNCHANGED simVars
  BY <1>2, <1>4 DEF DInv, simVars, vars, deviceVars, taskVars, threadVars, mainVars, SimTypes, Fresh,
                    SampleOf, LastTimes, SnapshotAge, InTask, Spent
<1> QED
  BY <1>3, <1>4

LEMMA SimInvariance == SimSpec => []DInv
BY SimInitDInv, SimNextDInv, PTL DEF SimSpec

\* With devices and tasks the simulator build is still the synchronisation it
\* is made of, so what holds of that holds of it.
THEOREM SimRefines == SimSpec => Init /\ [][Next]_vars
<1>1. SimInit => Init
  BY DEF SimInit
<1>2. [SimNext]_simVars => [Next]_vars
  BY SimStepIsSyncStep DEF simVars
<1> QED
  BY <1>1, <1>2, PTL DEF SimSpec

\* For any devices and any number of controllers, what a task reads was sampled
\* at the step before its synchronised pass or at its own; only in the first of
\* these passes a motor may still be at its initialiser, an imu never is unfilled
\* (WebotsMotor::update, WebotsImu::update, Webots::step).
THEOREM SnapshotAgeHolds == SimSpec => []SnapshotAge
<1>1. DInv => SnapshotAge
  BY DEF DInv
<1> QED
  BY <1>1, SimInvariance, PTL

\* However often a task commands the motors, one command at most goes out
\* after the simulation has ended.
THEOREM OneLateTorqueHolds == SimSpec => []OneLateTorque
<1>1. DInv => OneLateTorque
  BY DEF DInv, SimTypes, Spent, OneLateTorque
<1> QED
  BY <1>1, SimInvariance, PTL

=============================================================================
