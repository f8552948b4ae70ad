CONSTANTS
  Names = {1, 2}
  MaxNets = 2
  MaxGen = 2
  MaxImage = 2
  MaxEvents = 5
  MaxFaults = 1
SPECIFICATION Spec
INVARIANTS UpMeansServing
PROPERTIES NeverWorse
CHECK_DEADLOCK FALSE
