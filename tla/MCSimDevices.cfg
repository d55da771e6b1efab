CONSTANTS
    r1 = r1  r2 = r2
    Main = main
    Runners = {r1, r2}
    Step = 2
    Cycle <- StepAndTwoSteps
    MaxTime = 6
    MaxFree = 1
    Cells <- CellSequence
    ImuCells = {"imu"}
    Torques = 2
SPECIFICATION SimSpec
INVARIANTS
    LockStep
    KeepsUp
    SnapshotAge
    OneLateTorque
PROPERTY PhaseCompletes
\* Main waits for ever for a runner it no longer meets at the barrier.
CHECK_DEADLOCK FALSE
