SPECIFICATION Spec
CONSTANTS
    Moments = 2
    Commands = 5
    Runs = 1
    None = None
    Torn = Torn
    Cut = Cut
INVARIANTS PublishedIsCommitted
CHECK_DEADLOCK FALSE
