\* A motor mounted in reverse; torques within and beyond int16_t.
CONSTANTS
    Dir <- MCDir
    Torques <- MCTorques
    Positions = {3, 5, 8}
    LimitAngle = 10
    MaxReports = 2
SPECIFICATION Spec
INVARIANTS AtMostOneLate CommandFollows AngleCalibrated
