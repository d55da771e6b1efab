\* Two motors and two reports; two frames and two faults.
CONSTANTS
    Ids = {m1, m2}
    Values = {h, v}
    HeadLike = h
    MaxFrames = 2
    MaxFaults = 2
SPECIFICATION Spec
SYMMETRY Symmetry
INVARIANTS RxTypeOK DeliveredInOrder SilenceResyncs
CHECK_DEADLOCK FALSE
