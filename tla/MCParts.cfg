CONSTANTS
    Virtual = {m1, m2, webots, imu}
    Marks = {m1, m2, imu}
    Kp = 2
    Ki = 1
    Kd = 1
    MaxIout = 3
    MaxOut = 6
    Errors <- SmallErrors
    Workers = {w1, w2}
    Senders = {g1, g2}
    Devices = {h1, h2}
    KeyOf <- SameKey
    TimeoutMs = 100
    MaxGrams = 2
    Poses <- TwoPoses
    Names <- ConfigNames
    Paths <- ConfigPaths
    h1 = h1  h2 = h2  g1 = g1  g2 = g2
    b1 = b1  hi = hi
SPECIFICATION PartsSpec
INVARIANTS
    OwnStorageOnly
    NothingLeaks
    ReadsLive
    ChainIsMemoryless
    DisciplineSuffices
    RightDevice
    DeliversWhatArrives
    StillLegIsSolved
    NanLastsOnePass
    OddDepthIsTheUsers
PROPERTIES
    CallsReturn
    StopReturns
    ReaderStops
\* A client may hang or die, a port may be closed, a robot is destroyed.
CHECK_DEADLOCK FALSE
