CONSTANTS
  a1 = a1
  a2 = a2
  b1 = b1
  A = A
  B = B
  Msgs = {a1, a2, b1}
  Threads = {A, B}
  Thread <- MCThread
  Mentions = {a1, b1}
  Pool = 2
  Copies = 2
  MaxCrashes = 1
  None = None
  Faults = {"lost", "api", "stale", "slack"}
SPECIFICATION MCSpec
INVARIANTS OneReader NeverSilent
PROPERTIES AnswersOwnMessage ImplementsConversation EveryJobEnds
CHECK_DEADLOCK FALSE
