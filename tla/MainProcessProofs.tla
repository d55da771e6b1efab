-------------------------- MODULE MainProcessProofs --------------------------
(***************************************************************************)
(* Robot::run for any number of ios, controllers, joints and wheels: its   *)
(* threads are layered, devInit has the bus to itself, controllers start   *)
(* on a calibrated robot, and nothing runs when it returns.  Then the      *)
(* process around it: main deletes a robot nobody uses any more, and       *)
(* unless SIGINT ends the process, it ends with no thread left.            *)
(***************************************************************************)
EXTENDS MainProcess, TLAPS

\* A thread against the thread object that owns it.
Threads ==
    \A w \in Workers :
        /\ handle[w] = "null" <=> tpc[w] = "none"
        /\ handle[w] = "joined" => tpc[w] = "done"
        /\ tpc[w] = "done" => ~flag[w]
        /\ handle[w] = "joinable" /\ ~flag[w] => w \in joining

\* Main joins only while it stops, one layer at a time.
Joining ==
    /\ \A w \in joining : handle[w] = "joinable"
    /\ joining # {} => mpc \in {"stopCtrl", "stopIo"}
    /\ mpc = "stopCtrl" => joining \subseteq Ctrls
    /\ mpc = "stopIo" => joining \subseteq Ios

InDevInit == {"retract", "sweep", "calibrate", "zero"}

\* Which workers have been started and stopped, per position of main.
Phase ==
    /\ mpc \in {"bind", "runIo"} \cup InDevInit => \A c \in Ctrls : handle[c] = "null"
    /\ mpc \in InDevInit \cup {"runCtrl", "loop", "stopCtrl"} =>
           \A i \in Ios : handle[i] = "joinable"
    /\ mpc \in {"bind", "runIo"} => \A i \in Ios : handle[i] # "joined"
    /\ mpc \in {"stopIo", "returned"} => \A c \in Ctrls : handle[c] = "joined"
    /\ mpc = "returned" => \A i \in Ios : handle[i] = "joined"

\* Who may be inside a send.
Sends ==
    /\ Main \in sending => mpc \in {"retract", "zero"}
    /\ \A c \in Ctrls : c \in sending => tpc[c] = "body"

\* What devInit has achieved so far.
Devices ==
    /\ mpc \in {"retract", "sweep", "calibrate"} => todo \subseteq Joints
    /\ mpc = "calibrate" => Joints \ todo \subseteq calibrated
    /\ mpc = "zero" => calibrated = Joints /\ \A m \in Motors \ todo : cmd[m] = "zero"
    /\ mpc \notin {"bind", "runIo"} \cup InDevInit =>
           calibrated = Joints /\ \A m \in Motors : cmd[m] \in {"zero", "ctrl"}

IInv == TypeOK /\ Threads /\ Joining /\ Phase /\ Sends /\ Devices

\* The invariant holds before Robot::run does anything.
LEMMA InitIInv == Init => IInv
<1> SUFFICES ASSUME Init PROVE IInv
  OBVIOUS
<1>1. TypeOK
  <2>1. TypeOKWorkers
    BY DEF Init, InitWorkers, TypeOKWorkers
  <2>2. speed \in [Motors -> Speeds] /\ cmd \in [Motors -> {"none", "retract", "zero", "ctrl"}]
    BY DEF Init, Speeds
  <2>3. left \in [Ctrls -> SUBSET Motors]
    BY DEF Init
  <2>4. t \in 0 .. MinCycles + 1
    BY RobotAssumption DEF Init
  <2> QED
    BY <2>1, <2>2, <2>3, <2>4 DEF Init, TypeOK, MainPCs
<1>2. Threads /\ Joining /\ Phase
  BY RobotAssumption DEF Init, InitWorkers, Threads, Joining, Phase, InDevInit
<1>3. Sends /\ Devices
  BY DEF Init, Sends, Devices, InDevInit
<1> QED
  BY <1>1, <1>2, <1>3 DEF IInv

USE DEF IInv, InDevInit

\* devInit neither starts nor stops a thread.
LEMMA DevInitKeepsThreads ==
    DevInit => /\ UNCHANGED <<workerVars, joining>>
               /\ \/ mpc \in InDevInit /\ mpc' \in InDevInit \cup {"runCtrl"}
                  \/ mpc' = mpc
BY DEF DevInit, MainSend, RetractAgain, BeginSweep, SweepJoint, SweepFails, SweepSucceeds,
       SetAngel, Calibrated, Zeroed, MainSendReturns, Goto

LEMMA DevInitPreserves == IInv /\ DevInit => IInv'
<1> SUFFICES ASSUME IInv, DevInit PROVE IInv'
  OBVIOUS
<1>20. Threads' /\ Joining' /\ Phase'
  BY DevInitKeepsThreads DEF workerVars, Threads, Joining, Phase
<1>1. CASE MainSend("retract", "retract")
  <2>1. TypeOK'
    BY <1>1 DEF MainSend, BeginSend, workerVars, TypeOK, TypeOKWorkers
  <2>2. Sends'
    BY <1>1, RobotAssumption DEF MainSend, BeginSend, workerVars, Sends
  <2>3. Devices'
    BY <1>1 DEF MainSend, BeginSend, workerVars, Devices
  <2> QED
    BY <2>1, <2>2, <2>3, <1>20
<1>2. CASE RetractAgain
  <2>1. TypeOK'
    BY <1>2, RobotAssumption DEF RetractAgain, LoopOver, workerVars, busVars, TypeOK, TypeOKWorkers, Motors
  <2>2. Sends'
    BY <1>2 DEF RetractAgain, LoopOver, workerVars, busVars, Sends
  <2>3. Devices'
    BY <1>2 DEF RetractAgain, LoopOver, workerVars, Devices
  <2> QED
    BY <2>1, <2>2, <2>3, <1>20
<1>3. CASE BeginSweep
  <2>1. TypeOK'
    BY <1>3 DEF BeginSweep, Goto, LoopOver, workerVars, busVars, TypeOK, TypeOKWorkers, MainPCs, Motors
  <2>2. Sends'
    BY <1>3 DEF BeginSweep, Goto, LoopOver, workerVars, busVars, Sends
  <2>3. Devices'
    BY <1>3 DEF BeginSweep, Goto, LoopOver, workerVars, Devices
  <2> QED
    BY <2>1, <2>2, <2>3, <1>20
<1>4. CASE SweepJoint
  <2>1. TypeOK'
    BY <1>4 DEF SweepJoint, workerVars, busVars, TypeOK, TypeOKWorkers
  <2>2. Sends'
    BY <1>4 DEF SweepJoint, workerVars, busVars, Sends
  <2>3. Devices'
    BY <1>4 DEF SweepJoint, workerVars, Devices
  <2> QED
    BY <2>1, <2>2, <2>3, <1>20
<1>5. CASE SweepFails
  <2>1. TypeOK'
    BY <1>5 DEF SweepFails, Goto, LoopOver, workerVars, busVars, TypeOK, TypeOKWorkers, MainPCs, Motors
  <2>2. Sends'
    BY <1>5 DEF SweepFails, Goto, LoopOver, workerVars, busVars, Sends
  <2>3. Devices'
    BY <1>5 DEF SweepFails, Goto, LoopOver, workerVars, Devices
  <2> QED
    BY <2>1, <2>2, <2>3, <1>20
<1>6. CASE SweepSucceeds
  <2>1. TypeOK'
    BY <1>6 DEF SweepSucceeds, Goto, LoopOver, workerVars, busVars, TypeOK, TypeOKWorkers, MainPCs, Motors
  <2>2. Sends'
    BY <1>6 DEF SweepSucceeds, Goto, LoopOver, workerVars, busVars, Sends
  <2>3. Devices'
    BY <1>6 DEF SweepSucceeds, Goto, LoopOver, workerVars, Devices
  <2> QED
    BY <2>1, <2>2, <2>3, <1>20
<1>7. CASE SetAngel
  <2>1. TypeOK'
    BY <1>7 DEF SetAngel, workerVars, busVars, TypeOK, TypeOKWorkers, Devices
  <2>2. Sends'
    BY <1>7 DEF SetAngel, workerVars, busVars, Sends
  <2>3. Devices'
    BY <1>7 DEF SetAngel, workerVars, Devices
  <2> QED
    BY <2>1, <2>2, <2>3, <1>20
<1>8. CASE Calibrated
  <2>1. TypeOK'
    BY <1>8 DEF Calibrated, Goto, LoopOver, workerVars, busVars, TypeOK, TypeOKWorkers, MainPCs
  <2>2. Sends'
    BY <1>8 DEF Calibrated, Goto, LoopOver, workerVars, busVars, Sends
  <2>3. Devices'
    <3>1. calibrated = Joints /\ calibrated' = Joints
      BY <1>8 DEF Calibrated, Goto, LoopOver, TypeOK, Devices
    <3>2. todo' = Motors /\ mpc' = "zero"
      BY <1>8 DEF Calibrated, Goto
    <3> QED
      BY <3>1, <3>2 DEF Devices
  <2> QED
    BY <2>1, <2>2, <2>3, <1>20
<1>9. CASE MainSend("zero", "zero")
  <2>1. TypeOK'
    BY <1>9 DEF MainSend, BeginSend, workerVars, TypeOK, TypeOKWorkers
  <2>2. Sends'
    BY <1>9, RobotAssumption DEF MainSend, BeginSend, workerVars, Sends
  <2>3. Devices'
    BY <1>9 DEF MainSend, BeginSend, workerVars, TypeOK, Devices
  <2> QED
    BY <2>1, <2>2, <2>3, <1>20
<1>10. CASE Zeroed
  <2>1. TypeOK'
    BY <1>10 DEF Zeroed, Goto, LoopOver, workerVars, initVars, busVars, TypeOK, TypeOKWorkers, MainPCs
  <2>2. Sends'
    BY <1>10 DEF Zeroed, Goto, LoopOver, workerVars, busVars, Sends
  <2>3. Devices'
    BY <1>10 DEF Zeroed, Goto, LoopOver, workerVars, initVars, busVars, Devices
  <2> QED
    BY <2>1, <2>2, <2>3, <1>20
<1>11. CASE MainSendReturns
  <2>1. TypeOK'
    BY <1>11 DEF MainSendReturns, EndSend, workerVars, initVars, TypeOK, TypeOKWorkers
  <2>2. Sends'
    BY <1>11 DEF MainSendReturns, EndSend, workerVars, Sends
  <2>3. Devices'
    BY <1>11 DEF MainSendReturns, EndSend, workerVars, initVars, Devices
  <2> QED
    BY <2>1, <2>2, <2>3, <1>20
<1> QED
  BY <1>1, <1>2, <1>3, <1>4, <1>5, <1>6, <1>7, <1>8, <1>9, <1>10, <1>11 DEF DevInit

\* The main thread.
LEMMA MainPreserves == IInv /\ MainStep => IInv'
<1> SUFFICES ASSUME IInv, MainStep PROVE IInv'
  OBVIOUS
<1>20. CASE DevInit
  BY <1>20, DevInitPreserves
<1>1. CASE BindVirtualDev
  <2>1. TypeOK'
    BY <1>1 DEF BindVirtualDev, Goto, workerVars, initVars, busVars, TypeOK, TypeOKWorkers, MainPCs
  <2>2. Threads' /\ Joining'
    BY <1>1 DEF BindVirtualDev, Goto, workerVars, Threads, Joining
  <2>3. Phase'
    BY <1>1 DEF BindVirtualDev, Goto, workerVars, Phase
  <2>4. Sends'
    BY <1>1 DEF BindVirtualDev, Goto, workerVars, busVars, Sends
  <2>5. Devices'
    BY <1>1 DEF BindVirtualDev, Goto, workerVars, Devices
  <2> QED
    BY <2>1, <2>2, <2>3, <2>4, <2>5
<1>2. CASE RunWorker("runIo", Ios)
  <2>1. TypeOK'
    BY <1>2 DEF RunWorker, Start, workerVars, initVars, busVars, TypeOK, TypeOKWorkers
  <2>2. Threads'
    BY <1>2 DEF RunWorker, Start, workerVars, TypeOK, TypeOKWorkers, Threads
  <2>3. Joining' /\ Phase'
    BY <1>2, RobotAssumption DEF RunWorker, Start, workerVars, Joining, Phase
  <2>4. Sends'
    BY <1>2, RobotAssumption DEF RunWorker, Start, workerVars, busVars, Sends
  <2>5. Devices'
    BY <1>2 DEF RunWorker, Start, workerVars, Devices
  <2> QED
    BY <2>1, <2>2, <2>3, <2>4, <2>5
<1>3. CASE IosRunning
  <2>1. TypeOK'
    BY <1>3 DEF IosRunning, Goto, AllStarted, workerVars, busVars, TypeOK, TypeOKWorkers, MainPCs, Motors
  <2>2. Threads' /\ Joining'
    BY <1>3 DEF IosRunning, Goto, AllStarted, workerVars, Threads, Joining
  <2>3. Phase'
    BY <1>3, RobotAssumption DEF IosRunning, Goto, AllStarted, workerVars, TypeOK, TypeOKWorkers, Phase
  <2>4. Sends'
    BY <1>3 DEF IosRunning, Goto, AllStarted, workerVars, busVars, Sends
  <2>5. Devices'
    BY <1>3 DEF IosRunning, Goto, AllStarted, workerVars, Devices
  <2> QED
    BY <2>1, <2>2, <2>3, <2>4, <2>5
<1>4. CASE RunWorker("runCtrl", Ctrls)
  <2>1. TypeOK'
    BY <1>4 DEF RunWorker, Start, workerVars, initVars, busVars, TypeOK, TypeOKWorkers
  <2>2. Threads'
    BY <1>4 DEF RunWorker, Start, workerVars, TypeOK, TypeOKWorkers, Threads
  <2>3. Joining' /\ Phase'
    BY <1>4 DEF RunWorker, Start, workerVars, Joining, Phase
  <2>4. Sends'
    BY <1>4, RobotAssumption DEF RunWorker, Start, workerVars, busVars, Threads, Sends
  <2>5. Devices'
    BY <1>4 DEF RunWorker, Start, workerVars, initVars, busVars, Devices
  <2> QED
    BY <2>1, <2>2, <2>3, <2>4, <2>5
<1>5. CASE CtrlsRunning
  <2>1. TypeOK'
    BY <1>5 DEF CtrlsRunning, Goto, AllStarted, workerVars, initVars, busVars, TypeOK, TypeOKWorkers, MainPCs
  <2>2. Threads' /\ Joining'
    BY <1>5 DEF CtrlsRunning, Goto, AllStarted, workerVars, Threads, Joining
  <2>3. Phase'
    BY <1>5 DEF CtrlsRunning, Goto, AllStarted, workerVars, Phase
  <2>4. Sends'
    BY <1>5 DEF CtrlsRunning, Goto, AllStarted, workerVars, busVars, Sends
  <2>5. Devices'
    BY <1>5 DEF CtrlsRunning, Goto, AllStarted, workerVars, initVars, busVars, Devices
  <2> QED
    BY <2>1, <2>2, <2>3, <2>4, <2>5
<1>6. CASE LeaveLoop
  <2>1. TypeOK'
    BY <1>6 DEF LeaveLoop, Goto, workerVars, initVars, busVars, TypeOK, TypeOKWorkers, MainPCs
  <2>2. Threads' /\ Joining'
    BY <1>6 DEF LeaveLoop, Goto, workerVars, Threads, Joining
  <2>3. Phase'
    BY <1>6 DEF LeaveLoop, Goto, workerVars, Phase
  <2>4. Sends'
    BY <1>6 DEF LeaveLoop, Goto, workerVars, busVars, Sends
  <2>5. Devices'
    BY <1>6 DEF LeaveLoop, Goto, workerVars, initVars, busVars, Devices
  <2> QED
    BY <2>1, <2>2, <2>3, <2>4, <2>5
<1>7. CASE StopWorker("stopCtrl", Ctrls)
  <2>1. TypeOK'
    BY <1>7, RobotAssumption DEF StopWorker, RequestStop, workerVars, initVars, busVars, TypeOK, TypeOKWorkers
  <2>2. Threads'
    BY <1>7 DEF StopWorker, RequestStop, workerVars, Threads
  <2>3. Joining' /\ Phase'
    BY <1>7 DEF StopWorker, RequestStop, workerVars, Joining, Phase
  <2>4. Sends'
    BY <1>7 DEF StopWorker, RequestStop, workerVars, busVars, Sends
  <2>5. Devices'
    BY <1>7 DEF StopWorker, RequestStop, workerVars, initVars, busVars, Devices
  <2> QED
    BY <2>1, <2>2, <2>3, <2>4, <2>5
<1>8. CASE AllJoined("stopCtrl", "stopIo", Ctrls)
  <2>1. TypeOK'
    BY <1>8 DEF AllJoined, Goto, workerVars, initVars, busVars, TypeOK, TypeOKWorkers, MainPCs
  <2>2. Threads' /\ Joining'
    BY <1>8 DEF AllJoined, Goto, workerVars, Threads, Joining
  <2>3. Phase'
    BY <1>8 DEF AllJoined, Goto, workerVars, Phase
  <2>4. Sends'
    BY <1>8 DEF AllJoined, Goto, workerVars, busVars, Sends
  <2>5. Devices'
    BY <1>8 DEF AllJoined, Goto, workerVars, initVars, busVars, Devices
  <2> QED
    BY <2>1, <2>2, <2>3, <2>4, <2>5
<1>9. CASE StopWorker("stopIo", Ios)
  <2>1. TypeOK'
    BY <1>9, RobotAssumption DEF StopWorker, RequestStop, workerVars, initVars, busVars, TypeOK, TypeOKWorkers
  <2>2. Threads'
    BY <1>9 DEF StopWorker, RequestStop, workerVars, Threads
  <2>3. Joining' /\ Phase'
    BY <1>9 DEF StopWorker, RequestStop, workerVars, Joining, Phase
  <2>4. Sends'
    BY <1>9 DEF StopWorker, RequestStop, workerVars, busVars, Sends
  <2>5. Devices'
    BY <1>9 DEF StopWorker, RequestStop, workerVars, initVars, busVars, Devices
  <2> QED
    BY <2>1, <2>2, <2>3, <2>4, <2>5
<1>10. CASE AllJoined("stopIo", "returned", Ios)
  <2>1. TypeOK'
    BY <1>10 DEF AllJoined, Goto, workerVars, initVars, busVars, TypeOK, TypeOKWorkers, MainPCs
  <2>2. Threads' /\ Joining'
    BY <1>10 DEF AllJoined, Goto, workerVars, Threads, Joining
  <2>3. Phase'
    BY <1>10 DEF AllJoined, Goto, workerVars, Phase
  <2>4. Sends'
    BY <1>10 DEF AllJoined, Goto, workerVars, busVars, Sends
  <2>5. Devices'
    BY <1>10 DEF AllJoined, Goto, workerVars, initVars, busVars, Devices
  <2> QED
    BY <2>1, <2>2, <2>3, <2>4, <2>5
<1>11. CASE JoinWorker
  <2>1. TypeOK'
    BY <1>11 DEF JoinWorker, Join, workerVars, initVars, busVars, TypeOK, TypeOKWorkers
  <2>2. Threads'
    BY <1>11 DEF JoinWorker, Join, workerVars, TypeOK, TypeOKWorkers, Threads
  <2>3. Joining' /\ Phase'
    BY <1>11, RobotAssumption DEF JoinWorker, Join, workerVars, Joining, Phase
  <2>4. Sends'
    BY <1>11 DEF JoinWorker, Join, workerVars, busVars, Sends
  <2>5. Devices'
    BY <1>11 DEF JoinWorker, Join, workerVars, initVars, busVars, Devices
  <2> QED
    BY <2>1, <2>2, <2>3, <2>4, <2>5
<1> QED
  BY <1>1, <1>2, <1>3, <1>4, <1>5, <1>6, <1>7, <1>8, <1>9, <1>10, <1>11, <1>20 DEF MainStep

\* The io threads.
LEMMA IoPreserves == ASSUME NEW i \in Ios, IInv, IoStep(i) PROVE IInv'
<1>1. CASE TestFlag(i)
  <2>1. TypeOK'
    BY <1>1 DEF TestFlag, LoopTest, workerVars, initVars, busVars, TypeOK, TypeOKWorkers
  <2>2. Threads'
    BY <1>1 DEF TestFlag, LoopTest, workerVars, Threads
  <2>3. Joining' /\ Phase'
    BY <1>1 DEF TestFlag, LoopTest, workerVars, Joining, Phase
  <2>4. Sends'
    BY <1>1 DEF TestFlag, LoopTest, workerVars, busVars, Sends
  <2>5. Devices'
    BY <1>1 DEF TestFlag, LoopTest, workerVars, initVars, busVars, Devices
  <2> QED
    BY <2>1, <2>2, <2>3, <2>4, <2>5
<1>2. CASE Feedback(i)
  <2>1. TypeOK'
    BY <1>2 DEF Feedback, BodyReturns, workerVars, initVars, TypeOK, TypeOKWorkers
  <2>2. Threads'
    BY <1>2 DEF Feedback, BodyReturns, workerVars, Threads
  <2>3. Joining' /\ Phase'
    BY <1>2 DEF Feedback, BodyReturns, workerVars, Joining, Phase
  <2>4. Sends'
    BY <1>2, RobotAssumption DEF Feedback, BodyReturns, workerVars, Sends
  <2>5. Devices'
    BY <1>2 DEF Feedback, BodyReturns, workerVars, initVars, Devices
  <2> QED
    BY <2>1, <2>2, <2>3, <2>4, <2>5
<1>3. CASE ReadTimeout(i)
  <2>1. TypeOK'
    BY <1>3 DEF ReadTimeout, BodyReturns, workerVars, initVars, busVars, TypeOK, TypeOKWorkers
  <2>2. Threads'
    BY <1>3 DEF ReadTimeout, BodyReturns, workerVars, Threads
  <2>3. Joining' /\ Phase'
    BY <1>3 DEF ReadTimeout, BodyReturns, workerVars, Joining, Phase
  <2>4. Sends'
    BY <1>3, RobotAssumption DEF ReadTimeout, BodyReturns, workerVars, busVars, Sends
  <2>5. Devices'
    BY <1>3 DEF ReadTimeout, BodyReturns, workerVars, initVars, busVars, Devices
  <2> QED
    BY <2>1, <2>2, <2>3, <2>4, <2>5
<1> QED
  BY <1>1, <1>2, <1>3 DEF IoStep

\* The controller threads.
LEMMA CtrlPreserves == ASSUME NEW c \in Ctrls, IInv, CtrlStep(c) PROVE IInv'
<1>1. CASE TestFlag(c)
  <2>1. TypeOK'
    BY <1>1 DEF TestFlag, LoopTest, workerVars, initVars, busVars, TypeOK, TypeOKWorkers
  <2>2. Threads'
    BY <1>1 DEF TestFlag, LoopTest, workerVars, Threads
  <2>3. Joining' /\ Phase'
    BY <1>1 DEF TestFlag, LoopTest, workerVars, Joining, Phase
  <2>4. Sends'
    BY <1>1 DEF TestFlag, LoopTest, workerVars, busVars, Sends
  <2>5. Devices'
    BY <1>1 DEF TestFlag, LoopTest, workerVars, initVars, busVars, Devices
  <2> QED
    BY <2>1, <2>2, <2>3, <2>4, <2>5
<1>2. CASE CtrlSend(c)
  <2>1. TypeOK'
    BY <1>2 DEF CtrlSend, BeginSend, workerVars, initVars, TypeOK, TypeOKWorkers
  <2>2. Threads' /\ Joining'
    BY <1>2 DEF CtrlSend, BeginSend, workerVars, Threads, Joining
  <2>3. Phase'
    BY <1>2 DEF CtrlSend, BeginSend, workerVars, Phase
  <2>4. Sends'
    BY <1>2, RobotAssumption DEF CtrlSend, BeginSend, workerVars, Sends
  <2>5. Devices'
    BY <1>2, RobotAssumption DEF CtrlSend, BeginSend, workerVars, initVars, Threads, Phase, Devices
  <2> QED
    BY <2>1, <2>2, <2>3, <2>4, <2>5
<1>3. CASE CtrlSendReturns(c)
  <2>1. TypeOK'
    BY <1>3 DEF CtrlSendReturns, EndSend, workerVars, initVars, TypeOK, TypeOKWorkers
  <2>2. Threads' /\ Joining'
    BY <1>3 DEF CtrlSendReturns, EndSend, workerVars, Threads, Joining
  <2>3. Phase'
    BY <1>3 DEF CtrlSendReturns, EndSend, workerVars, Phase
  <2>4. Sends'
    BY <1>3 DEF CtrlSendReturns, EndSend, workerVars, Sends
  <2>5. Devices'
    BY <1>3 DEF CtrlSendReturns, EndSend, workerVars, initVars, Devices
  <2> QED
    BY <2>1, <2>2, <2>3, <2>4, <2>5
<1>4. CASE TaskReturns(c)
  <2>1. TypeOK'
    BY <1>4 DEF TaskReturns, BodyReturns, workerVars, initVars, busVars, TypeOK, TypeOKWorkers
  <2>2. Threads'
    BY <1>4 DEF TaskReturns, BodyReturns, workerVars, Threads
  <2>3. Joining' /\ Phase'
    BY <1>4 DEF TaskReturns, BodyReturns, workerVars, Joining, Phase
  <2>4. Sends'
    BY <1>4 DEF TaskReturns, BodyReturns, workerVars, busVars, Sends
  <2>5. Devices'
    BY <1>4 DEF TaskReturns, BodyReturns, workerVars, initVars, busVars, Devices
  <2> QED
    BY <2>1, <2>2, <2>3, <2>4, <2>5
<1> QED
  BY <1>1, <1>2, <1>3, <1>4 DEF CtrlStep

\* The flag given to Robot::run.
LEMMA ClearPreserves == ASSUME IInv, ClearRunning PROVE IInv'
<1>1. CASE ClearRunning
  <2>1. TypeOK'
    BY <1>1 DEF ClearRunning, workerVars, initVars, busVars, TypeOK, TypeOKWorkers
  <2>2. Threads' /\ Joining'
    BY <1>1 DEF ClearRunning, workerVars, Threads, Joining
  <2>3. Phase'
    BY <1>1 DEF ClearRunning, workerVars, Phase
  <2>4. Sends'
    BY <1>1 DEF ClearRunning, workerVars, busVars, Sends
  <2>5. Devices'
    BY <1>1 DEF ClearRunning, workerVars, initVars, busVars, Devices
  <2> QED
    BY <2>1, <2>2, <2>3, <2>4, <2>5
<1> QED
  BY <1>1

LEMMA StepIInv == IInv /\ [Next]_vars => IInv'
<1> SUFFICES ASSUME IInv, [Next]_vars PROVE IInv'
  OBVIOUS
<1>1. CASE MainStep
  BY <1>1, MainPreserves
<1>2. CASE \E i \in Ios : IoStep(i)
  BY <1>2, IoPreserves
<1>3. CASE \E c \in Ctrls : CtrlStep(c)
  BY <1>3, CtrlPreserves
<1>4. CASE ClearRunning
  BY <1>4, ClearPreserves
<1>5. CASE UNCHANGED vars
  <2>1. UNCHANGED <<workerVars, joining, mpc>>
    BY <1>5 DEF vars
  <2>2. Threads' /\ Joining' /\ Phase'
    BY <2>1 DEF workerVars, Threads, Joining, Phase
  <2>3. TypeOK' /\ Sends' /\ Devices'
    BY <1>5 DEF vars, workerVars, initVars, busVars, TypeOK, TypeOKWorkers, Sends, Devices
  <2> QED
    BY <2>2, <2>3
<1> QED
  BY <1>1, <1>2, <1>3, <1>4, <1>5 DEF Next

LEMMA Invariance == Spec => []IInv
BY InitIInv, StepIInv, PTL DEF Spec

\* The variables of Robot::run, of devInit and of the threads keep their types.
THEOREM TypeCorrect == Spec => []TypeOK
<1>1. IInv => TypeOK
  OBVIOUS
<1> QED
  BY <1>1, Invariance, PTL

\* While devInit is inside Serial::send there is no controller thread, so the
\* two never write to the port, which has no lock, at the same time.
THEOREM MainSendsAloneHolds == Spec => []MainSendsAlone
<1>1. IInv => MainSendsAlone
  BY RobotAssumption DEF Sends, Phase, Threads, MainSendsAlone, Alive
<1> QED
  BY <1>1, Invariance, PTL

\* Every command, of devInit or of a controller, is issued while all io threads
\* run: none has ended, and none is about to.
LEMMA SendersAreHeard == IInv => AnswersHeard
<1> SUFFICES ASSUME IInv, NEW th \in sending, NEW i \in Ios PROVE i \in Alive
  BY DEF AnswersHeard
<1>1. i \in Workers
  BY RobotAssumption
<1>2. mpc \in InDevInit \cup {"runCtrl", "loop", "stopCtrl"}
  <2>1. CASE th = Main
    BY <2>1 DEF Sends
  <2>2. CASE th \in Ctrls
    BY <2>2, RobotAssumption DEF Sends, Phase, Threads, TypeOK, MainPCs
  <2> QED
    BY <2>1, <2>2 DEF TypeOK
<1>3. handle[i] = "joinable" /\ i \notin joining
  BY <1>2, RobotAssumption DEF Phase, Joining
<1> QED
  BY <1>1, <1>3 DEF Threads, Alive, TypeOK, TypeOKWorkers

THEOREM AnswersHeardHolds == Spec => []AnswersHeard
BY SendersAreHeard, Invariance, PTL

\* A controller thread finds every joint calibrated and no retract torque left
\* on any motor, whatever the timing of the feedback.
THEOREM NoRetractUnderControlHolds == Spec => []NoRetractUnderControl
<1>1. IInv => NoRetractUnderControl
  BY RobotAssumption DEF Phase, Threads, Devices, NoRetractUnderControl, Alive
<1> QED
  BY <1>1, Invariance, PTL

LEMMA ReturnedIsQuiet == IInv => QuietWhenReturned
<1> SUFFICES ASSUME IInv, mpc = "returned"
             PROVE  /\ Alive = {} /\ sending = {}
                    /\ \A w \in Workers : handle[w] = "joined"
  BY DEF QuietWhenReturned
<1>1. \A w \in Workers : handle[w] = "joined" /\ tpc[w] = "done"
  BY RobotAssumption DEF Phase, Threads
<1>2. sending = {}
  BY <1>1, RobotAssumption DEF Sends, TypeOK
<1> QED
  BY <1>1, <1>2 DEF Alive

\* Robot::run returns with every thread joined and no command under way, which
\* is what allows main to delete the robot.
THEOREM QuietWhenReturnedHolds == Spec => []QuietWhenReturned
BY ReturnedIsQuiet, Invariance, PTL

-----------------------------------------------------------------------------
(* Robot::run implements LayeredThreads.                                   *)

Ended == {w \in Workers : tpc[w] = "done"}

LEMMA InitLayer == Init => Layer!LayerInit
BY DEF Init, InitWorkers, Layer!LayerInit, Alive

\* A started thread joins Alive, and nothing else changes.
LEMMA StartLayer ==
    ASSUME IInv, NEW w \in Workers, Start(w)
    PROVE  w \notin Alive \cup Ended /\ Alive' = Alive \cup {w} /\ Ended' = Ended
BY DEF Start, Alive, Ended, Threads, TypeOK, TypeOKWorkers

\* A thread that tests its flag stays, or moves from Alive to Ended.
LEMMA TestLayer ==
    ASSUME IInv, NEW w \in Workers, LoopTest(w)
    PROVE  \/ flag[w] /\ Alive' = Alive /\ Ended' = Ended
           \/ ~flag[w] /\ w \in Alive /\ Alive' = Alive \ {w} /\ Ended' = Ended \cup {w}
BY DEF LoopTest, Alive, Ended, TypeOK, TypeOKWorkers

LEMMA SameLayer == tpc' = tpc => UNCHANGED <<Alive, Ended>>
BY DEF Alive, Ended

LEMMA BodyLayer ==
    ASSUME IInv, NEW w \in Workers, BodyReturns(w)
    PROVE  UNCHANGED <<Alive, Ended>>
BY DEF BodyReturns, Alive, Ended, TypeOK, TypeOKWorkers

\* While the controllers are being started every io thread is alive.
LEMMA IosAliveAtStart == IInv /\ mpc = "runCtrl" => Ios \subseteq Alive
BY RobotAssumption DEF Phase, Threads, Joining, Alive, TypeOK, TypeOKWorkers

\* Before that there is no controller thread; while the ios stop, all have ended.
LEMMA CtrlsApart ==
    IInv => /\ mpc = "runIo" => Ctrls \cap Alive = {}
            /\ mpc = "stopIo" => Ctrls \subseteq Ended
BY RobotAssumption DEF Phase, Threads, Alive, Ended

LEMMA StepLayer == IInv /\ [Next]_vars => [Layer!LayerNext]_<<Alive, Ended>>
<1> SUFFICES ASSUME IInv, [Next]_vars PROVE Layer!LayerNext \/ UNCHANGED <<Alive, Ended>>
  OBVIOUS
<1> USE DEF Layer!LayerNext, Layer!BeginIo, Layer!BeginCtrl, Layer!End, Layer!EndIo
<1>1. CASE RunWorker("runIo", Ios)
  <2>1. PICK i \in Ios : Start(i)
    BY <1>1 DEF RunWorker
  <2>2. Layer!BeginIo(i)
    BY <1>1, <2>1, StartLayer, CtrlsApart, RobotAssumption DEF RunWorker, Ended
  <2> QED
    BY <2>2
<1>2. CASE RunWorker("runCtrl", Ctrls)
  <2>1. PICK c \in Ctrls : Start(c)
    BY <1>2 DEF RunWorker
  <2>2. Layer!BeginCtrl(c)
    BY <1>2, <2>1, StartLayer, IosAliveAtStart, RobotAssumption DEF RunWorker, Ended
  <2> QED
    BY <2>2
<1>3. CASE MainStep /\ tpc' = tpc
  BY <1>3, SameLayer
<1>4. CASE \E i \in Ios : TestFlag(i)
  <2>1. PICK i \in Ios : LoopTest(i)
    BY <1>4 DEF TestFlag
  <2>2. i \in Workers
    BY RobotAssumption
  <2>3. CASE ~flag[i]
    <3>1. mpc \in {"stopIo", "returned"}
      BY <2>1, <2>2, <2>3, RobotAssumption
         DEF LoopTest, Threads, Joining, Phase, TypeOK, TypeOKWorkers
    <3>2. Ctrls \subseteq Ended
      BY <3>1, RobotAssumption DEF Phase, Threads, Ended
    <3>3. Layer!EndIo(i)
      BY <2>1, <2>2, <2>3, <3>2, TestLayer DEF Ended
    <3> QED
      BY <3>3
  <2> QED
    BY <2>1, <2>2, <2>3, TestLayer
<1>5. CASE \E c \in Ctrls : TestFlag(c)
  <2>1. PICK c \in Ctrls : LoopTest(c)
    BY <1>5 DEF TestFlag
  <2>2. Layer!End(c) \/ UNCHANGED <<Alive, Ended>>
    BY <2>1, RobotAssumption, TestLayer DEF Ended
  <2> QED
    BY <2>1, <2>2
<1>6. CASE \E w \in Workers : BodyReturns(w)
  BY <1>6, BodyLayer
<1>7. CASE UNCHANGED tpc
  BY <1>7, SameLayer
<1>8. MainStep => RunWorker("runIo", Ios) \/ RunWorker("runCtrl", Ctrls) \/ UNCHANGED tpc
  BY DevInitKeepsThreads DEF MainStep, BindVirtualDev, IosRunning, CtrlsRunning, LeaveLoop,
     StopWorker, RequestStop, AllJoined, JoinWorker, Join, workerVars
<1>9. \A i \in Ios : IoStep(i) => TestFlag(i) \/ BodyReturns(i)
  BY DEF IoStep, Feedback, ReadTimeout
<1>10. \A c \in Ctrls : CtrlStep(c) => TestFlag(c) \/ BodyReturns(c) \/ UNCHANGED tpc
  BY DEF CtrlStep, CtrlSend, CtrlSendReturns, TaskReturns, workerVars
<1>11. ClearRunning \/ UNCHANGED vars => UNCHANGED tpc
  BY DEF ClearRunning, vars, workerVars
<1> QED
  BY <1>1, <1>2, <1>4, <1>5, <1>6, <1>7, <1>8, <1>9, <1>10, <1>11, RobotAssumption DEF Next

\* Robot::run implements LayeredThreads: each of its steps begins or ends one
\* thread as the layers allow, or is invisible to them.
THEOREM LayeredHolds == Spec => Layered
<1>1. Init => Layer!LayerInit
  BY InitLayer
<1>2. IInv /\ [Next]_vars => [Layer!LayerNext]_(Layer!layerVars)
  BY StepLayer DEF Layer!layerVars, Ended
<1> QED
  BY <1>1, <1>2, Invariance, PTL DEF Spec, Layered, Layer!LayerSpec

-----------------------------------------------------------------------------
(* The process around Robot::run.                                          *)

HIDE DEF IInv

\* The variables the process adds.
ProcTypes ==
    /\ proc \in {"up", "gone"}
    /\ robot \in {"exists", "deleted"}
    /\ show \in {"runs", "done"}
    /\ host \in Workers \cup {Main, Show, NoThread}
    /\ handler \in {"idle", "entered", "cleared"}

\* Main deletes the robot after Robot::run and leaves after the showtime thread.
MainOrder ==
    /\ robot = "deleted" => mpc = "returned"
    /\ proc = "gone" /\ handler # "cleared" => robot = "deleted" /\ show = "done"

PInv == IInv /\ ProcTypes /\ MainOrder

LEMMA ProcInitPInv == ProcInit => PInv
BY InitIInv DEF ProcInit, PInv, ProcTypes, MainOrder

\* Every step of the process is a step of Robot::run or leaves it alone.
LEMMA ProcStepIsRobotStep == IInv /\ ProcNext => [Next]_vars
<1> SUFFICES ASSUME IInv, ProcNext PROVE [Next]_vars
  OBVIOUS
<1>1. CASE MainThread
  BY <1>1 DEF MainThread, Next, DeleteRobot, ReturnFromMain
<1>2. CASE \E i \in Ios : IoThread(i)
  BY <1>2 DEF IoThread, Next
<1>3. CASE \E c \in Ctrls : CtrlThread(c)
  BY <1>3 DEF CtrlThread, Next
<1>4. CASE ShowThread
  BY <1>4 DEF ShowThread, ShowClears, ShowEnds, Next
<1>5. CASE \E th \in Interruptible : Sigint(th)
  BY <1>5 DEF Sigint
<1>6. CASE HandlerClears
  <2>1. running' = FALSE /\ UNCHANGED <<workerVars, mpc, joining, initVars, speed, busVars, left>>
    BY <1>6 DEF HandlerClears
  <2>2. CASE running = TRUE
    BY <2>1, <2>2 DEF ClearRunning, Next
  <2>3. CASE running = FALSE
    BY <2>1, <2>3 DEF vars
  <2> QED
    BY <2>2, <2>3 DEF IInv, TypeOK
<1>7. CASE HandlerExits
  BY <1>7 DEF HandlerExits
<1> QED
  BY <1>1, <1>2, <1>3, <1>4, <1>5, <1>6, <1>7 DEF ProcNext, Handler

\* Robot::run does not start again once it has returned.
LEMMA ReturnedForGood == [Next]_vars /\ mpc = "returned" => mpc' = "returned"
<1> SUFFICES ASSUME [Next]_vars, mpc = "returned" PROVE mpc' = "returned"
  OBVIOUS
<1>1. CASE MainStep
  <2>1. ~DevInit \/ mpc' = mpc
    BY DEF DevInit, MainSend, RetractAgain, BeginSweep, SweepJoint, SweepFails, SweepSucceeds,
           SetAngel, Calibrated, Zeroed, MainSendReturns, Goto
  <2> QED
    BY <1>1, <2>1 DEF MainStep, BindVirtualDev, RunWorker, IosRunning, CtrlsRunning, LeaveLoop,
                      StopWorker, AllJoined, JoinWorker, Goto
<1>2. CASE \E i \in Ios : IoStep(i)
  BY <1>2 DEF IoStep, TestFlag, Feedback, ReadTimeout
<1>3. CASE \E c \in Ctrls : CtrlStep(c)
  BY <1>3 DEF CtrlStep, TestFlag, CtrlSend, CtrlSendReturns, TaskReturns
<1>4. CASE ClearRunning \/ UNCHANGED vars
  BY <1>4 DEF ClearRunning, vars
<1> QED
  BY <1>1, <1>2, <1>3, <1>4 DEF Next

\* Any thread of the process may be interrupted.
LEMMA InterruptibleThreads == Interruptible \subseteq Workers \cup {Main, Show}
BY DEF Interruptible, Alive

LEMMA ProcStepPInv == PInv /\ [ProcNext]_allVars => PInv'
<1> SUFFICES ASSUME PInv, [ProcNext]_allVars PROVE PInv'
  OBVIOUS
<1> USE DEF PInv
<1>1. [Next]_vars
  BY ProcStepIsRobotStep DEF allVars
<1>2. IInv'
  BY <1>1, StepIInv
<1>3. ASSUME UNCHANGED procVars PROVE PInv'
  BY <1>1, <1>2, <1>3, ReturnedForGood DEF procVars, ProcTypes, MainOrder
<1>4. CASE MainThread
  <2>1. CASE DeleteRobot
    BY <1>2, <2>1 DEF DeleteRobot, vars, ProcTypes, MainOrder, Free, MainThread
  <2>2. CASE ReturnFromMain
    BY <1>2, <2>2 DEF ReturnFromMain, vars, ProcTypes, MainOrder
  <2> QED
    BY <1>3, <1>4, <2>1, <2>2 DEF MainThread
<1>5. CASE ShowThread
  <2>1. CASE ShowEnds
    BY <1>2, <2>1 DEF ShowEnds, vars, ProcTypes, MainOrder
  <2> QED
    BY <1>3, <1>5, <2>1 DEF ShowThread, ShowClears
<1>6. CASE \E th \in Interruptible : Sigint(th)
  BY <1>2, <1>6, InterruptibleThreads DEF Sigint, vars, ProcTypes, MainOrder
<1>7. CASE HandlerClears
  BY <1>2, <1>7 DEF HandlerClears, ProcTypes, MainOrder
<1>8. CASE HandlerExits
  BY <1>2, <1>8 DEF HandlerExits, vars, ProcTypes, MainOrder
<1>9. CASE UNCHANGED allVars
  BY <1>3, <1>9 DEF allVars
<1> QED
  BY <1>3, <1>4, <1>5, <1>6, <1>7, <1>8, <1>9 DEF ProcNext, IoThread, CtrlThread, Handler

LEMMA ProcInvariance == ProcSpec => []PInv
BY ProcInitPInv, ProcStepPInv, PTL DEF ProcSpec

-----------------------------------------------------------------------------
\* The variables of the process keep their types, those of Robot::run included.
THEOREM ProcTypeCorrect == ProcSpec => []ProcTypeOK
<1>1. PInv => ProcTypeOK
  BY DEF PInv, IInv, ProcTypes, ProcTypeOK
<1> QED
  BY <1>1, ProcInvariance, PTL

\* delete robot: no io thread, no controller and no command is left that uses
\* what the destructors free.
THEOREM DeletedQuietHolds == ProcSpec => []DeletedQuiet
<1>1. PInv => DeletedQuiet
  BY ReturnedIsQuiet DEF PInv, MainOrder, DeletedQuiet, QuietWhenReturned
<1> QED
  BY <1>1, ProcInvariance, PTL

\* Unless the handler calls exit, main returns after the showtime thread and
\* after every thread of the robot.
THEOREM ReturnsLastHolds == ProcSpec => []ReturnsLast
<1>1. PInv => ReturnsLast
  BY ReturnedIsQuiet DEF PInv, MainOrder, ReturnsLast, QuietWhenReturned
<1> QED
  BY <1>1, ProcInvariance, PTL

=============================================================================
