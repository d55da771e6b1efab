CONSTANTS
    Virtual = {m1, imu}
    Marks = {imu}
SPECIFICATION Spec
INVARIANT RebindingIsNoticed
\* The robot is destroyed.
CHECK_DEADLOCK FALSE
