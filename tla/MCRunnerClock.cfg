CONSTANTS
    Sec = 8
    Cycle = 5
    FloatErr = 1
    MaxTick = 4
    Horizon = 24
    MaxTasks = 5
SPECIFICATION Spec
INVARIANTS
    TypeOK
    WakeWindow
    NeverAhead
PROPERTY StopEndsThread
\* The thread ends when it is stopped.
CHECK_DEADLOCK FALSE
