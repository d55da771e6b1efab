---------------------------- MODULE MainProcess ----------------------------
(***************************************************************************)
(* The process of app/main.cc around Robot::run, on the robot: main runs   *)
(* the robot, deletes it, joins the showtime thread and returns; SIGINT    *)
(* interrupts any thread and the handler ends the process from there.      *)
(*                                                                         *)
(* Bound: one SIGINT.  show::task is code of a submodule; it is handed the *)
(* flag `running' and is taken to end once it is cleared, to clear it when *)
(* it likes (nothing else does), or to end early with an exception.        *)
(***************************************************************************)
EXTENDS RobotRun

CONSTANTS Show,      \* the showtime thread
          NoThread   \* no thread runs the handler

ASSUME ProcessAssumption ==
    /\ Show \notin Workers \cup {Main}
    /\ NoThread \notin Workers \cup {Main, Show}

VARIABLES proc,     \* the process: "up" or "gone"
          robot,    \* the object behind `robot': "exists" or "deleted"
          show,     \* showtime_thread: "runs" or "done"
          host,     \* the thread SigintHandler interrupts
          handler   \* SigintHandler: "idle", "entered" or "cleared"

procVars == <<proc, robot, show, host, handler>>
allVars == <<vars, procVars>>

ProcInit ==
    /\ Init
    /\ proc = "up"
    /\ robot = "exists"
    /\ show = "runs"
    /\ host = NoThread
    /\ handler = "idle"

\* A thread takes a step while the process exists and no handler sits on it.
Free(th) == proc = "up" /\ host # th

-----------------------------------------------------------------------------
(* main after robot->run(running)                                          *)

DeleteRobot ==
    /\ mpc = "returned" /\ robot = "exists"
    /\ robot' = "deleted"
    /\ UNCHANGED <<vars, proc, show, host, handler>>

\* Variant of ReturnFromMain that does not join the showtime thread.
ReturnAtOnce ==
    /\ robot = "deleted"
    /\ proc' = "gone"
    /\ UNCHANGED <<vars, robot, show, host, handler>>

\* showtime_thread.join(), then main returns and the process ends.
ReturnFromMain ==
    /\ robot = "deleted"
    /\ show = "done"
    /\ proc' = "gone"
    /\ UNCHANGED <<vars, robot, show, host, handler>>

-----------------------------------------------------------------------------
(* The showtime thread                                                     *)

ShowClears ==
    /\ show = "runs"
    /\ ClearRunning
    /\ UNCHANGED procVars

ShowEnds ==
    /\ show = "runs"
    /\ show' = "done"
    /\ UNCHANGED <<vars, proc, robot, host, handler>>

-----------------------------------------------------------------------------
(* SIGINT: delivered to any thread that exists.                            *)

Interruptible == {Main} \cup Alive \cup IF show = "runs" THEN {Show} ELSE {}

Sigint(th) ==
    /\ proc = "up"
    /\ handler = "idle"
    /\ handler' = "entered"
    /\ host' = th
    /\ UNCHANGED <<vars, proc, robot, show>>

HandlerClears ==
    /\ proc = "up"
    /\ handler = "entered"
    /\ handler' = "cleared"
    /\ running' = FALSE
    /\ UNCHANGED <<workerVars, mpc, joining, initVars, speed, busVars, left>>
    /\ UNCHANGED <<proc, robot, show, host>>

\* Variant of HandlerExits that returns to the interrupted thread.
HandlerReturns ==
    /\ proc = "up"
    /\ handler = "cleared"
    /\ host # NoThread
    /\ host' = NoThread
    /\ UNCHANGED <<vars, proc, robot, show, handler>>

\* exit(0)
HandlerExits ==
    /\ proc = "up"
    /\ handler = "cleared"
    /\ proc' = "gone"
    /\ UNCHANGED <<vars, robot, show, host, handler>>

Handler == HandlerClears \/ HandlerExits

-----------------------------------------------------------------------------
MainThread ==
    /\ Free(Main)
    /\ \/ MainStep /\ UNCHANGED procVars
       \/ DeleteRobot \/ ReturnFromMain

IoThread(i) == Free(i) /\ IoStep(i) /\ UNCHANGED procVars
CtrlThread(c) == Free(c) /\ CtrlStep(c) /\ UNCHANGED procVars
ShowThread == Free(Show) /\ (ShowClears \/ ShowEnds)

ProcNext ==
    \/ MainThread
    \/ \E i \in Ios : IoThread(i)
    \/ \E c \in Ctrls : CtrlThread(c)
    \/ ShowThread
    \/ \E th \in Interruptible : Sigint(th)
    \/ Handler

\* Every thread is scheduled, and so is a handler on the thread it interrupts;
\* the showtime thread does not outlive `running' for ever.
ProcFairness ==
    /\ WF_allVars(MainThread)
    /\ \A i \in Ios : WF_allVars(IoThread(i))
    /\ \A c \in Ctrls : WF_allVars(CtrlThread(c))
    /\ WF_allVars(Handler)
    /\ WF_allVars(Free(Show) /\ ~running /\ ShowEnds)

ProcSpec == ProcInit /\ [][ProcNext]_allVars /\ ProcFairness

-----------------------------------------------------------------------------
\* Every variable keeps its type.
ProcTypeOK ==
    /\ TypeOK
    /\ proc \in {"up", "gone"}
    /\ robot \in {"exists", "deleted"}
    /\ show \in {"runs", "done"}
    /\ host \in Workers \cup {Main, Show, NoThread}
    /\ handler \in {"idle", "entered", "cleared"}

\* `delete robot' destroys the ios, the devices and the controllers: no thread
\* that uses them is left, whenever the signal came.
DeletedQuiet == robot = "deleted" => Alive = {} /\ sending = {}

\* The showtime thread reads locals of main (its lambda captures by reference):
\* unless the handler ended the process, main returns after it.
ReturnsLast == proc = "gone" /\ handler # "cleared" => show = "done" /\ Alive = {}

\* SIGINT ends the process in every state, in particular while devInit waits
\* for joints that never settle and does not look at `running'.
SigintEnds == handler # "idle" ~> proc = "gone"

\* What the comments of main.cc and robot.cc say of the end of the program:
\* the robot runs until SIGINT, and then the ios and controllers are stopped.
StoppedAtExit ==
    proc = "gone" /\ mpc \in {"loop", "stopCtrl", "stopIo", "returned"} => Alive = {}

=============================================================================
