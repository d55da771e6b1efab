CONSTANTS
    io1 = io1  io2 = io2  c1 = c1  c2 = c2  j1 = j1  j2 = j2  w1 = w1
    Main = main
    Ios = {io1, io2}
    Ctrls = {c1, c2}
    Workers = {io1, io2, c1, c2}
    Joints = {j1, j2}
    Wheels = {w1}
    Bus <- TwoBuses
    MinCycles = 1
SPECIFICATION Spec
INVARIANTS
    MainSendsAlone
    NoRetractUnderControl
    QuietWhenReturned
    AnswersHeard
PROPERTIES
    StopHonoured
    Layered
\* Robot::run returns.
CHECK_DEADLOCK FALSE
