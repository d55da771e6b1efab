----------------------------- MODULE SimDevices -----------------------------
(***************************************************************************)
(* What the simulator build exchanges at its synchronisation points: the   *)
(* updaters of dev::WebotsMotor and dev::WebotsImu, which main runs at the *)
(* start of Webots::step, and the task of a controller (ctrl::BalanceSys), *)
(* which reads the devices through its virtual ones and then commands the  *)
(* motors.  Neither side takes a lock.                                     *)
(*                                                                         *)
(* A cell is what one accessor of io::Webots fills in, the angle and speed *)
(* of a motor, say; of its value only the simulated time it was sampled at *)
(* is kept.                                                                *)
(***************************************************************************)
EXTENDS WebotsSync, Sequences

CONSTANTS Cells,     \* the cells, in the order of Webots::updaters
          ImuCells,  \* those of a WebotsImu, which nothing initialises
          Torques    \* commands a task gives to the motors

ASSUME DevicesAssumption ==
    /\ Cells \in Seq(STRING)
    /\ ImuCells \subseteq {Cells[i] : i \in DOMAIN Cells}
    /\ Torques \in Nat

VARIABLES upd,      \* the updater main is at, Len(Cells) + 1 when they are done
          stamp,    \* simulated time each cell was sampled at, or what it is before
          timeLast, \* WebotsMotor::time_last
          read,     \* how many cells each task has read
          seen,     \* stamps each task has read
          given,    \* commands each task has given
          checked,  \* motorSetTorque has seen time # -1
          late      \* history: commands each runner gave after the end

deviceVars == <<upd, stamp, timeLast>>
taskVars == <<read, seen, given, checked, late>>
simVars == <<vars, deviceVars, taskVars>>

CellSet == {Cells[i] : i \in DOMAIN Cells}
MotorCells == CellSet \ ImuCells

\* A cell before its first sample: nothing initialises the arrays of a
\* WebotsImu, angle and speed of a WebotsMotor start at 0.0f.
Unwritten == -1
Initial == -2

SimInit ==
    /\ Init
    /\ upd = Len(Cells) + 1
    /\ stamp = [c \in CellSet |-> IF c \in ImuCells THEN Unwritten ELSE Initial]
    /\ timeLast = [c \in MotorCells |-> 0]
    /\ read = [r \in Runners |-> 0]
    /\ seen = [r \in Runners |-> {}]
    /\ given = [r \in Runners |-> 0]
    /\ checked = [r \in Runners |-> FALSE]
    /\ late = [r \in Runners |-> 0]

-----------------------------------------------------------------------------
(* The main thread in Webots::step.                                        *)

StartStep == MakeBarrier /\ upd' = 1 /\ UNCHANGED <<stamp, timeLast, taskVars>>

\* The updater whose turn it is.  Time is never -1 here: main leaves its loop
\* when the simulation has ended, and the accessors always sample.
Updating(c) ==
    /\ mpc = "simulate" /\ upd \in DOMAIN Cells /\ c = Cells[upd]
    /\ upd' = upd + 1
    /\ UNCHANGED <<vars, taskVars>>

\* WebotsImu::update
UpdateImu(c) ==
    /\ c \in ImuCells /\ Updating(c)
    /\ stamp' = [stamp EXCEPT ![c] = time]
    /\ UNCHANGED timeLast

\* WebotsMotor::update returns early when time has not moved since time_last,
\* which at the first step it has not: both are 0.
UpdateMotor(c) ==
    /\ c \in MotorCells /\ Updating(c)
    /\ IF time = timeLast[c]
       THEN UNCHANGED <<stamp, timeLast>>
       ELSE /\ stamp' = [stamp EXCEPT ![c] = time]
            /\ timeLast' = [timeLast EXCEPT ![c] = time]

Update == \E c \in CellSet : UpdateImu(c) \/ UpdateMotor(c)

\* Variant of Advance that does not run the updaters to the end.
AdvanceEarly == Simulate /\ UNCHANGED <<deviceVars, taskVars>>

\* robot.step, after the updaters
Advance == upd \notin DOMAIN Cells /\ Simulate /\ UNCHANGED <<deviceVars, taskVars>>

OtherMain ==
    /\ \/ BindRunners \/ RunRunner \/ AllRun \/ TestRunning
       \/ MainArrives \/ MainDeparts \/ StopRunner \/ JoinRunner \/ AllStopped
    /\ UNCHANGED <<deviceVars, taskVars>>

-----------------------------------------------------------------------------
(* The task of a controller.                                               *)

InTask(r) == pc[r] = "task"

EnterTask(r) ==
    /\ Check(r)
    /\ read' = [read EXCEPT ![r] = 0]
    /\ seen' = [seen EXCEPT ![r] = {}]
    /\ given' = [given EXCEPT ![r] = 0]
    /\ UNCHANGED <<deviceVars, checked, late>>

\* getAngle and getSpeed, through the pointers of the virtual devices
ReadCell(r) ==
    /\ InTask(r) /\ read[r] < Len(Cells)
    /\ read' = [read EXCEPT ![r] = @ + 1]
    /\ seen' = [seen EXCEPT ![r] = @ \cup {stamp[Cells[read[r] + 1]]}]
    /\ UNCHANGED <<vars, deviceVars, given, checked, late>>

\* Variant of TestTime that tests for 0.
TestTimeZero(r) ==
    /\ InTask(r) /\ read[r] = Len(Cells) /\ given[r] < Torques /\ ~checked[r]
    /\ IF time # 0
       THEN checked' = [checked EXCEPT ![r] = TRUE] /\ UNCHANGED given
       ELSE given' = [given EXCEPT ![r] = @ + 1] /\ UNCHANGED checked
    /\ UNCHANGED <<vars, deviceVars, read, seen, late>>

\* setTorque: if (time != -1)
TestTime(r) ==
    /\ InTask(r) /\ read[r] = Len(Cells) /\ given[r] < Torques /\ ~checked[r]
    /\ IF time # -1
       THEN checked' = [checked EXCEPT ![r] = TRUE] /\ UNCHANGED given
       ELSE given' = [given EXCEPT ![r] = @ + 1] /\ UNCHANGED checked
    /\ UNCHANGED <<vars, deviceVars, read, seen, late>>

\* ... motor.setTorque(torque)
SetTorque(r) ==
    /\ checked[r]
    /\ checked' = [checked EXCEPT ![r] = FALSE]
    /\ given' = [given EXCEPT ![r] = @ + 1]
    /\ late' = [late EXCEPT ![r] = @ + (IF time = -1 THEN 1 ELSE 0)]
    /\ UNCHANGED <<vars, deviceVars, read, seen>>

LeaveTask(r) ==
    /\ read[r] = Len(Cells) /\ given[r] = Torques
    /\ TaskReturns(r)
    /\ UNCHANGED <<deviceVars, taskVars>>

OtherRunner(r) ==
    /\ \/ Begin(r) \/ NextPass(r) \/ Leave(r)
       \/ PassFreely(r) \/ RunnerArrives(r) \/ RunnerDeparts(r)
    /\ UNCHANGED <<deviceVars, taskVars>>

SimMain == StartStep \/ Update \/ Advance \/ OtherMain

SimRunner(r) ==
    \/ EnterTask(r) \/ ReadCell(r) \/ TestTime(r) \/ SetTorque(r) \/ LeaveTask(r)
    \/ OtherRunner(r)

SimNext ==
    \/ SimMain
    \/ \E r \in Runners : SimRunner(r)
    \/ ClearRunning /\ UNCHANGED <<deviceVars, taskVars>>

\* Every thread is scheduled, and updaters and tasks end.
SimFairness == WF_simVars(SimMain) /\ \A r \in Runners : WF_simVars(SimRunner(r))

SimSpec == SimInit /\ [][SimNext]_simVars /\ SimFairness

-----------------------------------------------------------------------------
\* The task of a controller's p-th synchronised pass reads values sampled one
\* step before it or, when main has gone ahead, at its own step, and never an
\* array of a WebotsImu before it is filled.  Only in the first of these passes
\* it may read a motor that has not been sampled, since the updaters of the
\* first step leave the motors alone.
SnapshotAge ==
    \A r \in Runners :
        InTask(r) /\ passes[r] > 0 =>
            seen[r] \subseteq {(passes[r] - 1) * Step, passes[r] * Step}
                             \cup (IF passes[r] = 1 THEN {Initial} ELSE {})

\* The test of time in motorSetTorque and the call are not one step: after the
\* simulation has ended a controller commands the simulator at most once more.
OneLateTorque == \A r \in Runners : late[r] <= 1

=============================================================================
