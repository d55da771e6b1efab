------------------------------ MODULE RobotRun ------------------------------
(***************************************************************************)
(* Robot::run (src/robot/robot.cc) on the robot, with the devInit of Aokee *)
(* (app/Aokee/Aokee.cc): the main thread binds the devices, starts the io  *)
(* threads, retracts and calibrates the joints, starts the controllers,    *)
(* waits for `running' to be cleared and stops everything again.  Three    *)
(* kinds of threads meet here: main, io threads that write the feedback    *)
(* the others read, and controllers that send on the bus main used before. *)
(*                                                                         *)
(* The loops over the vectors ios and ctrls take the workers in any order. *)
(***************************************************************************)
EXTENDS Worker, Naturals

CONSTANTS Main,       \* the main thread
          Ios, Ctrls, \* the workers behind Robot::ios and Robot::ctrls
          Joints,     \* joint motors, the ones devInit calibrates
          Wheels,     \* wheel motors
          Bus,        \* the io each motor hangs on
          MinCycles   \* RETRACT_TIME_MIN_MS / RETRACT_CTRL_CYCLE_MS

Motors == Joints \cup Wheels
Speeds == {"still", "moving"}   \* abs(speed) <= MOTOR_STOP_SPEED, or above it

ASSUME RobotAssumption ==
    /\ Workers = Ios \cup Ctrls
    /\ Ios \cap Ctrls = {}
    /\ Main \notin Workers
    /\ Joints \cap Wheels = {}
    /\ Bus \in [Motors -> Ios]
    /\ MinCycles \in Nat

VARIABLES running,    \* the flag Robot::run is given
          mpc,        \* where main is
          todo,       \* motors the current loop of devInit has still to visit
          joining,    \* the worker main is stopping, if any
          t,          \* cycles of the retract loop, counted up to MinCycles + 1
          stopped,    \* the local `stopped' of devInit
          calibrated, \* joints whose angle offset has been set
          speed,      \* UnitreeMotor::speed, compared with MOTOR_STOP_SPEED
          sending,    \* threads inside Serial::send
          cmd,        \* kind of the last torque issued to each motor
          left,       \* motors each controller has still to command in its task
          replies     \* motors whose feedback is on the line

initVars == <<todo, t, stopped, calibrated>>
busVars == <<sending, cmd, replies>>
vars == <<workerVars, running, mpc, joining, initVars, speed, busVars, left>>

Init ==
    /\ InitWorkers
    /\ running = TRUE
    /\ mpc = "bind"
    /\ todo = {} /\ t = 0 /\ stopped = FALSE /\ calibrated = {}
    /\ joining = {}
    /\ speed = [m \in Motors |-> "still"]   \* float speed {0.0f}
    /\ sending = {} /\ replies = {}
    /\ cmd = [m \in Motors |-> "none"]
    /\ left = [c \in Ctrls |-> {}]

-----------------------------------------------------------------------------
(* UnitreeMotor::setTorque and Serial::send: write the command, sleep for  *)
(* SEND_TIME_US, return.  The motor answers a command; command or answer   *)
(* may be lost.                                                            *)

BeginSend(th, m, kind) ==
    /\ th \notin sending
    /\ sending' = sending \cup {th}
    /\ cmd' = [cmd EXCEPT ![m] = kind]
    /\ replies' \in {replies, replies \cup {m}}

EndSend(th) ==
    /\ th \in sending
    /\ sending' = sending \ {th}
    /\ UNCHANGED <<cmd, replies>>

-----------------------------------------------------------------------------
(* The main thread.                                                        *)

Goto(from, to) == mpc = from /\ mpc' = to

BindVirtualDev ==
    /\ Goto("bind", "runIo")
    /\ UNCHANGED <<workerVars, running, joining, initVars, speed, busVars, left>>

\* for (auto &io: ios) io->run(), then the same for ctrls after devInit.
RunWorker(from, group) ==
    /\ mpc = from
    /\ \E w \in group : Start(w)
    /\ UNCHANGED <<running, mpc, joining, initVars, speed, busVars, left>>

AllStarted(group) == \A w \in group : handle[w] # "null"

\* Variant of IosRunning that does not wait until every io is started.
IosRunningEarly ==
    /\ Goto("runIo", "retract")
    /\ todo' = Joints
    /\ UNCHANGED <<workerVars, running, joining, t, stopped, calibrated, speed, busVars, left>>

IosRunning ==
    /\ Goto("runIo", "retract")
    /\ AllStarted(Ios)
    /\ todo' = Joints
    /\ UNCHANGED <<workerVars, running, joining, t, stopped, calibrated, speed, busVars, left>>

CtrlsRunning ==
    /\ Goto("runCtrl", "loop")
    /\ AllStarted(Ctrls)
    /\ UNCHANGED <<workerVars, running, joining, initVars, speed, busVars, left>>

\* One setTorque of devInit: retracting the joints, or zeroing every motor.
MainSend(from, kind) ==
    /\ mpc = from
    /\ \E m \in todo : BeginSend(Main, m, kind) /\ todo' = todo \ {m}
    /\ UNCHANGED <<workerVars, running, mpc, joining, t, stopped, calibrated, speed, left>>

MainSendReturns ==
    /\ EndSend(Main)
    /\ UNCHANGED <<workerVars, running, mpc, joining, initVars, speed, left>>

LoopOver == todo = {} /\ Main \notin sending

\* util::sleep, then another round while t <= RETRACT_TIME_MIN_MS.
RetractAgain ==
    /\ mpc = "retract" /\ LoopOver
    /\ t <= MinCycles
    /\ t' = t + 1
    /\ todo' = Joints
    /\ UNCHANGED <<workerVars, running, mpc, joining, stopped, calibrated, speed, busVars, left>>

BeginSweep ==
    /\ Goto("retract", "sweep") /\ LoopOver
    /\ t > MinCycles
    /\ stopped' = TRUE
    /\ todo' = Joints
    /\ UNCHANGED <<workerVars, running, joining, t, calibrated, speed, busVars, left>>

SweepJoint ==
    /\ mpc = "sweep"
    /\ \E m \in todo :
         /\ stopped' = (stopped /\ speed[m] = "still")
         /\ todo' = todo \ {m}
    /\ UNCHANGED <<workerVars, running, mpc, joining, t, calibrated, speed, busVars, left>>

SweepFails ==
    /\ Goto("sweep", "retract") /\ LoopOver
    /\ ~stopped
    /\ todo' = Joints
    /\ UNCHANGED <<workerVars, running, joining, t, stopped, calibrated, speed, busVars, left>>

SweepSucceeds ==
    /\ Goto("sweep", "calibrate") /\ LoopOver
    /\ stopped
    /\ todo' = Joints
    /\ UNCHANGED <<workerVars, running, joining, t, stopped, calibrated, speed, busVars, left>>

SetAngel ==
    /\ mpc = "calibrate"
    /\ \E m \in todo : calibrated' = calibrated \cup {m} /\ todo' = todo \ {m}
    /\ UNCHANGED <<workerVars, running, mpc, joining, t, stopped, speed, busVars, left>>

\* Variant of Calibrated that zeroes the joints but not the wheels.
CalibratedJointsOnly ==
    /\ Goto("calibrate", "zero") /\ LoopOver
    /\ todo' = Joints
    /\ UNCHANGED <<workerVars, running, joining, t, stopped, calibrated, speed, busVars, left>>

Calibrated ==
    /\ Goto("calibrate", "zero") /\ LoopOver
    /\ todo' = Motors
    /\ UNCHANGED <<workerVars, running, joining, t, stopped, calibrated, speed, busVars, left>>

\* Variant of Zeroed that does not wait for the last send.
ZeroedEarly ==
    /\ Goto("zero", "runCtrl") /\ todo = {}
    /\ UNCHANGED <<workerVars, running, joining, initVars, speed, busVars, left>>

Zeroed ==
    /\ Goto("zero", "runCtrl") /\ LoopOver
    /\ UNCHANGED <<workerVars, running, joining, initVars, speed, busVars, left>>

\* while (running) sleep
LeaveLoop ==
    /\ Goto("loop", "stopCtrl")
    /\ ~running
    /\ UNCHANGED <<workerVars, running, joining, initVars, speed, busVars, left>>

\* stop() of one worker: clear its flag, then join it.
StopWorker(from, group) ==
    /\ mpc = from /\ joining = {}
    /\ \E w \in group : handle[w] = "joinable" /\ RequestStop(w) /\ joining' = {w}
    /\ UNCHANGED <<running, mpc, initVars, speed, busVars, left>>

JoinWorker ==
    /\ \E w \in joining : Join(w)
    /\ joining' = {}
    /\ UNCHANGED <<running, mpc, initVars, speed, busVars, left>>

AllJoined(from, to, group) ==
    /\ Goto(from, to)
    /\ \A w \in group : handle[w] = "joined"
    /\ UNCHANGED <<workerVars, running, joining, initVars, speed, busVars, left>>

DevInit ==
    \/ MainSend("retract", "retract") \/ RetractAgain
    \/ BeginSweep \/ SweepJoint \/ SweepFails \/ SweepSucceeds
    \/ SetAngel \/ Calibrated
    \/ MainSend("zero", "zero") \/ Zeroed
    \/ MainSendReturns

\* Variant of MainStep that stops the ios before the controllers.
MainStepIosFirst ==
    \/ BindVirtualDev
    \/ RunWorker("runIo", Ios) \/ IosRunning
    \/ DevInit
    \/ RunWorker("runCtrl", Ctrls) \/ CtrlsRunning
    \/ LeaveLoop
    \/ StopWorker("stopCtrl", Ios) \/ AllJoined("stopCtrl", "stopIo", Ios)
    \/ StopWorker("stopIo", Ctrls) \/ AllJoined("stopIo", "returned", Ctrls)
    \/ JoinWorker

MainStep ==
    \/ BindVirtualDev
    \/ RunWorker("runIo", Ios) \/ IosRunning
    \/ DevInit
    \/ RunWorker("runCtrl", Ctrls) \/ CtrlsRunning
    \/ LeaveLoop
    \/ StopWorker("stopCtrl", Ctrls) \/ AllJoined("stopCtrl", "stopIo", Ctrls)
    \/ StopWorker("stopIo", Ios) \/ AllJoined("stopIo", "returned", Ios)
    \/ JoinWorker

-----------------------------------------------------------------------------
(* Io threads: read() returns a frame, which unpack() hands to its motor,  *)
(* or nothing when the line stays silent for the timeout.                  *)

TestFlag(w) ==
    /\ LoopTest(w)
    /\ left' = IF w \in Ctrls THEN [left EXCEPT ![w] = Motors] ELSE left
    /\ UNCHANGED <<running, mpc, joining, initVars, speed, busVars>>

Feedback(i) ==
    /\ BodyReturns(i)
    /\ \E m \in replies :
         /\ Bus[m] = i
         /\ replies' = replies \ {m}
         /\ \E s \in Speeds : speed' = [speed EXCEPT ![m] = s]
    /\ UNCHANGED <<running, mpc, joining, initVars, sending, cmd, left>>

ReadTimeout(i) ==
    /\ BodyReturns(i)
    /\ \A m \in replies : Bus[m] # i
    /\ UNCHANGED <<running, mpc, joining, initVars, speed, busVars, left>>

IoStep(i) == TestFlag(i) \/ Feedback(i) \/ ReadTimeout(i)

(* Controllers: the control task commands every motor in turn.             *)

CtrlSend(c) ==
    /\ tpc[c] = "body"
    /\ \E m \in left[c] :
         /\ BeginSend(c, m, "ctrl")
         /\ left' = [left EXCEPT ![c] = @ \ {m}]
    /\ UNCHANGED <<workerVars, running, mpc, joining, initVars, speed>>

CtrlSendReturns(c) ==
    /\ EndSend(c)
    /\ UNCHANGED <<workerVars, running, mpc, joining, initVars, speed, left>>

TaskReturns(c) ==
    /\ left[c] = {} /\ c \notin sending
    /\ BodyReturns(c)
    /\ UNCHANGED <<running, mpc, joining, initVars, speed, busVars, left>>

CtrlStep(c) == TestFlag(c) \/ CtrlSend(c) \/ CtrlSendReturns(c) \/ TaskReturns(c)

-----------------------------------------------------------------------------
\* Whoever holds the flag given to run() clears it, at any moment.
ClearRunning ==
    /\ running
    /\ running' = FALSE
    /\ UNCHANGED <<workerVars, mpc, joining, initVars, speed, busVars, left>>

Next ==
    \/ MainStep
    \/ \E i \in Ios : IoStep(i)
    \/ \E c \in Ctrls : CtrlStep(c)
    \/ ClearRunning

\* Every thread is scheduled: main, each io, each controller.
ThreadFairness ==
    /\ WF_vars(MainStep)
    /\ \A i \in Ios : WF_vars(IoStep(i))
    /\ \A c \in Ctrls : WF_vars(CtrlStep(c))

Spec == Init /\ [][Next]_vars /\ ThreadFairness

-----------------------------------------------------------------------------
MainPCs == {"bind", "runIo", "retract", "sweep", "calibrate", "zero",
            "runCtrl", "loop", "stopCtrl", "stopIo", "returned"}

\* Every variable keeps its type; at most one worker is being joined.
TypeOK ==
    /\ TypeOKWorkers
    /\ running \in BOOLEAN
    /\ mpc \in MainPCs
    /\ todo \subseteq Motors
    /\ joining \in {{}} \cup {{w} : w \in Workers}
    /\ t \in 0 .. MinCycles + 1
    /\ stopped \in BOOLEAN
    /\ calibrated \subseteq Joints
    /\ speed \in [Motors -> Speeds]
    /\ sending \subseteq {Main} \cup Ctrls
    /\ cmd \in [Motors -> {"none", "retract", "zero", "ctrl"}]
    /\ left \in [Ctrls -> SUBSET Motors]
    /\ replies \subseteq Motors

\* Serial::send takes no lock ("TODO lock") and motors share their io: what
\* devInit sends is never interleaved with a controller's commands.
MainSendsAlone == Main \in sending => Ctrls \cap Alive = {}

\* A command is issued only while every io thread runs: its answer is read.
AnswersHeard == sending # {} => Ios \subseteq Alive

\* No controller thread runs on a robot that is still retracting: every joint
\* is calibrated and the last torque issued to each motor, wheels included, is
\* neither a retract torque nor missing.
NoRetractUnderControl ==
    Ctrls \cap Alive # {} =>
        /\ calibrated = Joints
        /\ \A m \in Motors : cmd[m] \in {"zero", "ctrl"}

\* When Robot::run returns, all threads it started have ended, none is in the
\* middle of a command, and the robot may be deleted.
QuietWhenReturned ==
    mpc = "returned" => /\ Alive = {} /\ sending = {}
                        /\ \A w \in Workers : handle[w] = "joined"

\* The controllers are layered above the ios, at the start and at the end.
Layer == INSTANCE LayeredThreads
             WITH active <- Alive, ended <- {w \in Workers : tpc[w] = "done"}
Layered == Layer!LayerSpec

\* A joint's speed is reported to be zero from some point on.
JointsSettle == \A m \in Joints : <>[](speed[m] = "still")

\* Once `running' is cleared, whatever main is doing, Robot::run returns
\* provided the joints settle (devInit waits for them and for nothing else).
StopHonoured == JointsSettle => (~running ~> mpc = "returned")

=============================================================================
