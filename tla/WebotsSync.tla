----------------------------- MODULE WebotsSync -----------------------------
(***************************************************************************)
(* The simulator build: Robot::run (src/robot/robot.cc), io::Webots::step  *)
(* (src/io/webots.cc) and the controller threads of run::Runner            *)
(* (src/ctrl/runner.cc), which meet at a std::barrier once per step of the *)
(* simulation.                                                             *)
(*                                                                         *)
(* What the updaters copy between the devices and the simulator is left    *)
(* out.  The simulator is external: a step of it advances the simulated    *)
(* time or answers -1 when the simulation ends.                            *)
(***************************************************************************)
EXTENDS Integers, FiniteSets

CONSTANTS Main,     \* the main thread
          Runners,  \* the controllers' runners
          Cycle,    \* (int) cycle_ms of each runner
          Step,     \* basic_time_step, in ms
          MaxTime,  \* bound: simulated time at which the simulation ends at the latest
          MaxFree   \* bound: passes of a runner before the barrier exists

ASSUME SyncAssumption ==
    /\ IsFiniteSet(Runners)
    /\ Main \notin Runners
    /\ Step \in Nat \ {0}
    /\ Cycle \in [Runners -> Nat]
    /\ MaxTime \in Nat /\ MaxFree \in Nat

VARIABLES running,    \* the flag Robot::run is given
          mpc,        \* where main is
          time,       \* Webots::time, -1 when the simulation has ended
          boundNum,   \* Webots::bind_runner_num
          expected,   \* participants of *sync_point, 0 while the pointer is null
          arrived,    \* threads that have arrived in the barrier's current phase
          released,   \* threads still inside, of a completed phase
          flag,       \* Runner::running
          pc,         \* where each runner's thread is
          timeSet,    \* time_set of Runner::thread_func
          toStop,     \* runners main has still to stop
          joining,    \* the runner main is joining, if any
          free,       \* history: passes of each runner without the barrier
          passes,     \* history: times each runner went through the barrier
          steps       \* history: simulation steps that have succeeded

barrierVars == <<boundNum, expected, arrived, released>>
threadVars == <<flag, pc, timeSet, free, passes>>
mainVars == <<mpc, time, toStop, joining, steps>>
vars == <<running, barrierVars, threadVars, mainVars>>

Init ==
    /\ running = TRUE
    /\ mpc = "bind" /\ time = 0 /\ toStop = Runners /\ joining = {} /\ steps = 0
    /\ boundNum = 0 /\ expected = 0 /\ arrived = {} /\ released = {}
    /\ flag = [r \in Runners |-> FALSE]
    /\ pc = [r \in Runners |-> "none"]
    /\ timeSet = [r \in Runners |-> 0]
    /\ free = [r \in Runners |-> 0]
    /\ passes = [r \in Runners |-> 0]

-----------------------------------------------------------------------------
(* std::barrier::arrive_and_wait in two steps: the arrival, which completes *)
(* the phase when it is the last one expected, and the departure.           *)

Arrive(th) ==
    LET all == arrived \cup {th}
    IN  IF Cardinality(all) = expected
        THEN arrived' = {} /\ released' = released \cup all
        ELSE arrived' = all /\ UNCHANGED released

Depart(th) ==
    /\ th \in released
    /\ released' = released \ {th}
    /\ UNCHANGED arrived

-----------------------------------------------------------------------------
(* The main thread.                                                        *)

\* Variant of BindRunners in which the constructor has bound them before.
BindRunnersTwice ==
    /\ mpc = "bind"
    /\ mpc' = "run"
    /\ boundNum' = 2 * Cardinality(Runners)
    /\ UNCHANGED <<running, expected, arrived, released, threadVars, time, toStop, joining, steps>>

\* ctrl->runner.bind(webots_io) for every controller
BindRunners ==
    /\ mpc = "bind"
    /\ mpc' = "run"
    /\ boundNum' = Cardinality(Runners)
    /\ UNCHANGED <<running, expected, arrived, released, threadVars, time, toStop, joining, steps>>

\* Runner::run
RunRunner ==
    /\ mpc = "run"
    /\ \E r \in Runners :
         /\ pc[r] = "none"
         /\ flag' = [flag EXCEPT ![r] = TRUE]
         /\ pc' = [pc EXCEPT ![r] = "start"]
    /\ UNCHANGED <<running, barrierVars, timeSet, free, passes, mainVars>>

AllRun ==
    /\ mpc = "run"
    /\ \A r \in Runners : pc[r] # "none"
    /\ mpc' = "loop"
    /\ UNCHANGED <<running, barrierVars, threadVars, time, toStop, joining, steps>>

\* while (running && ...
TestRunning ==
    /\ mpc = "loop"
    /\ mpc' = IF running THEN "step" ELSE "stop"
    /\ UNCHANGED <<running, barrierVars, threadVars, time, toStop, joining, steps>>

\* Variant of MakeBarrier that does not count the main thread.
MakeBarrierForRunners ==
    /\ mpc = "step"
    /\ mpc' = "simulate"
    /\ expected' = IF expected = 0 THEN boundNum ELSE expected
    /\ UNCHANGED <<running, boundNum, arrived, released, threadVars, time, toStop, joining, steps>>

\* The first call of Webots::step makes the barrier; then the updaters run.
MakeBarrier ==
    /\ mpc = "step"
    /\ mpc' = "simulate"
    /\ expected' = IF expected = 0 THEN boundNum + 1 ELSE expected
    /\ UNCHANGED <<running, boundNum, arrived, released, threadVars, time, toStop, joining, steps>>

\* robot.step(basic_time_step): time advances, or the simulation has ended
\* and main leaves its loop without arriving at the barrier.
Simulate ==
    /\ mpc = "simulate"
    /\ \/ time + Step <= MaxTime /\ time' = time + Step /\ steps' = steps + 1 /\ mpc' = "arrive"
       \/ time' = -1 /\ mpc' = "stop" /\ UNCHANGED steps
    /\ UNCHANGED <<running, barrierVars, threadVars, toStop, joining>>

MainArrives ==
    /\ mpc = "arrive"
    /\ mpc' = "wait"
    /\ Arrive(Main)
    /\ UNCHANGED <<running, boundNum, expected, threadVars, time, toStop, joining, steps>>

\* ... and sleeps MAIN_SLEEP_MS, which orders nothing.
MainDeparts ==
    /\ mpc = "wait"
    /\ mpc' = "loop"
    /\ Depart(Main)
    /\ UNCHANGED <<running, boundNum, expected, threadVars, time, toStop, joining, steps>>

\* Runner::stop: clear the flag, then join.
StopRunner ==
    /\ mpc = "stop" /\ joining = {}
    /\ \E r \in toStop : /\ flag' = [flag EXCEPT ![r] = FALSE]
                         /\ joining' = {r}
    /\ UNCHANGED <<running, barrierVars, pc, timeSet, free, passes, mpc, time, toStop, steps>>

JoinRunner ==
    /\ \E r \in joining : pc[r] = "done" /\ toStop' = toStop \ {r}
    /\ joining' = {}
    /\ UNCHANGED <<running, barrierVars, threadVars, mpc, time, steps>>

AllStopped ==
    /\ mpc = "stop" /\ toStop = {}
    /\ mpc' = "returned"
    /\ UNCHANGED <<running, barrierVars, threadVars, time, toStop, joining, steps>>

MainStep ==
    \/ BindRunners \/ RunRunner \/ AllRun
    \/ TestRunning \/ MakeBarrier \/ Simulate \/ MainArrives \/ MainDeparts
    \/ StopRunner \/ JoinRunner \/ AllStopped

-----------------------------------------------------------------------------
(* Runner::thread_func.                                                    *)

\* int time_set = webots_io->time
Begin(r) ==
    /\ pc[r] = "start"
    /\ pc' = [pc EXCEPT ![r] = "test"]
    /\ timeSet' = [timeSet EXCEPT ![r] = time]
    /\ UNCHANGED <<running, barrierVars, flag, free, passes, mainVars>>

\* Variant of NextPass that does not advance time_set.
NextPassStale(r) ==
    /\ pc[r] = "test" /\ flag[r]
    /\ expected = 0 => free[r] < MaxFree
    /\ pc' = [pc EXCEPT ![r] = "sync"]
    /\ UNCHANGED <<running, barrierVars, flag, timeSet, free, passes, mainVars>>

\* while (running) time_set += cycle_ms
NextPass(r) ==
    /\ pc[r] = "test" /\ flag[r]
    /\ expected = 0 => free[r] < MaxFree
    /\ pc' = [pc EXCEPT ![r] = "sync"]
    /\ timeSet' = [timeSet EXCEPT ![r] = @ + Cycle[r]]
    /\ UNCHANGED <<running, barrierVars, flag, free, passes, mainVars>>

Leave(r) ==
    /\ pc[r] = "test" /\ ~flag[r]
    /\ pc' = [pc EXCEPT ![r] = "done"]
    /\ UNCHANGED <<running, barrierVars, flag, timeSet, free, passes, mainVars>>

\* sync_point == nullptr: the pass is not synchronised.
PassFreely(r) ==
    /\ pc[r] = "sync" /\ expected = 0
    /\ pc' = [pc EXCEPT ![r] = "check"]
    /\ free' = [free EXCEPT ![r] = @ + 1]
    /\ UNCHANGED <<running, barrierVars, flag, timeSet, passes, mainVars>>

RunnerArrives(r) ==
    /\ pc[r] = "sync" /\ expected # 0
    /\ pc' = [pc EXCEPT ![r] = "wait"]
    /\ Arrive(r)
    /\ UNCHANGED <<running, boundNum, expected, flag, timeSet, free, passes, mainVars>>

RunnerDeparts(r) ==
    /\ pc[r] = "wait"
    /\ pc' = [pc EXCEPT ![r] = "check"]
    /\ Depart(r)
    /\ passes' = [passes EXCEPT ![r] = @ + 1]
    /\ UNCHANGED <<running, boundNum, expected, flag, timeSet, free, mainVars>>

\* if (time_set >= webots_io->time) task()
Check(r) ==
    /\ pc[r] = "check"
    /\ pc' = [pc EXCEPT ![r] = IF timeSet[r] >= time THEN "task" ELSE "test"]
    /\ UNCHANGED <<running, barrierVars, flag, timeSet, free, passes, mainVars>>

TaskReturns(r) ==
    /\ pc[r] = "task"
    /\ pc' = [pc EXCEPT ![r] = "test"]
    /\ UNCHANGED <<running, barrierVars, flag, timeSet, free, passes, mainVars>>

RunnerStep(r) ==
    \/ Begin(r) \/ NextPass(r) \/ Leave(r)
    \/ PassFreely(r) \/ RunnerArrives(r) \/ RunnerDeparts(r)
    \/ Check(r) \/ TaskReturns(r)

-----------------------------------------------------------------------------
\* The showtime thread, which shares the flag, clears it.
ClearRunning ==
    /\ running
    /\ running' = FALSE
    /\ UNCHANGED <<barrierVars, threadVars, mainVars>>

Next == MainStep \/ (\E r \in Runners : RunnerStep(r)) \/ ClearRunning

\* Every thread is scheduled, and a step of the simulator ends.
Fairness == WF_vars(MainStep) /\ \A r \in Runners : WF_vars(RunnerStep(r))

Spec == Init /\ [][Next]_vars /\ Fairness

-----------------------------------------------------------------------------
MainPCs == {"bind", "run", "loop", "step", "simulate", "arrive", "wait", "stop", "returned"}
RunnerPCs == {"none", "start", "test", "sync", "wait", "check", "task", "done"}

\* Every variable keeps its type.
TypeOK ==
    /\ running \in BOOLEAN
    /\ mpc \in MainPCs
    /\ time \in -1 .. MaxTime
    /\ boundNum \in 0 .. Cardinality(Runners)
    /\ expected \in 0 .. Cardinality(Runners) + 1
    /\ arrived \subseteq {Main} \cup Runners
    /\ released \subseteq {Main} \cup Runners
    /\ flag \in [Runners -> BOOLEAN]
    /\ pc \in [Runners -> RunnerPCs]
    /\ timeSet \in [Runners -> Int]
    /\ toStop \subseteq Runners
    /\ joining \in {{}} \cup {{r} : r \in Runners}
    /\ free \in [Runners -> Nat]
    /\ passes \in [Runners -> Nat]
    /\ steps \in Nat

\* A controller at its n-th task sees the simulation after its n-th step or,
\* when it is slow, the one after: main never gets further ahead of any
\* controller, and no controller gets ahead of the simulation.
LockStep ==
    \A r \in Runners :
        pc[r] \in {"check", "task"} => steps - passes[r] \in {0, 1}

\* A controller whose cycle is a step or more is never behind by more than the
\* step LockStep allows; with two steps or more it misses no step at all.
KeepsUp ==
    \A r \in Runners :
        pc[r] = "check" =>
            /\ Cycle[r] >= Step => timeSet[r] + Step >= time
            /\ Cycle[r] >= 2 * Step => timeSet[r] >= time

\* A thread that waits at the barrier gets out as long as main is in its loop.
PhaseCompletes ==
    \A th \in {Main} \cup Runners :
        th \in arrived ~> th \notin arrived \/ mpc \in {"stop", "returned"}

\* "stop ios & controllers": when the simulation has ended, Robot::run stops
\* the controllers and returns.
ShutdownCompletes == time = -1 ~> mpc = "returned"

=============================================================================
