CONSTANTS
    Names = {"ctrl", "cycle_ms"}
    Paths <- OneValue
SPECIFICATION MergeSpec
INVARIANT UserOverrides
\* One merge and no more.
CHECK_DEADLOCK FALSE
