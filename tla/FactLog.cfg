CONSTANTS
  Hosts = {h1, h2}
  Agents = {a1}
  HostFacts = {f1, f2}
  AgentFacts = {g1}
  MaxBatch = 2
  MaxCalls = 3
  Faults = {"kill", "tear", "open", "write", "close"}
SPECIFICATION Spec
INVARIANTS OneFactPerId Resolves KeepsItsId
SYMMETRY Symmetry
CHECK_DEADLOCK FALSE
