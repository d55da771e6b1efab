CONSTANTS
    Processes = {p1, p2}
    Nobody = nobody
    Keys = {"chassis", "rs485", "motor"}
SPECIFICATION Spec
INVARIANTS
    LineIsMine
    FailureReleases
PROPERTY Decides
