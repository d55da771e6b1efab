CONSTANTS
    io1 = io1
    Main = main
    Show = show
    NoThread = none
    Ios = {io1}
    Ctrls = {c1}
    Workers = {io1, c1}
    Joints = {j1}
    Wheels = {w1}
    Bus <- OneBus
    MinCycles = 1
SPECIFICATION ProcSpec
INVARIANT StoppedAtExit
\* The process ends.
CHECK_DEADLOCK FALSE
