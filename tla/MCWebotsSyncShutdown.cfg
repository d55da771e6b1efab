CONSTANTS
    r1 = r1  r2 = r2
    Main = main
    Runners = {r1, r2}
    Step = 2
    Cycle <- StepAndTwoSteps
    MaxTime = 2
    MaxFree = 1
SPECIFICATION Spec
PROPERTY ShutdownCompletes
\* Main waits for ever for a runner it no longer meets at the barrier.
CHECK_DEADLOCK FALSE
