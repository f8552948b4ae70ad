CONSTANTS
  Reconnects = 2
  MaxEvents = 3
  Modes = {"new", "followup"}
  Ongoing = {"message", "requires_action"}
SPECIFICATION FairSpec
INVARIANTS Faithful ExactlyOnce
PROPERTIES ImplementsTurnReader EventuallyEnds
CHECK_DEADLOCK FALSE
