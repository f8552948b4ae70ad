CONSTANTS
  rca = rca
  Expected = {arch, rca}
  MaxCalls = 3
  MaxBoxes = 3
  Runs = 2
  FollowUp = TRUE
  MaxFaults = 1
SPECIFICATION MCSpec
INVARIANTS GradedIsWhole NextRunAlone
PROPERTIES RecordKept LossIsReported EverySuiteEnds
CHECK_DEADLOCK FALSE
