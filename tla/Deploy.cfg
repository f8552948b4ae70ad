CONSTANTS
  Env = env
  Skills = {arch, rca}
  Specialists = {inv}
  Coordinator = coord
  Scoped = {arch, inv, coord}
  Local = {rca}
  MaxRev = 1
  MaxEvents = 3
  MaxStarts = 2
SPECIFICATION Spec
INVARIANTS NoneOrphaned SessionsFit
PROPERTIES ScenarioIsolated
CHECK_DEADLOCK FALSE
