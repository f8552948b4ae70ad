CONSTANTS
  n1 = n1
  n2 = n2
  Nodes = {n1, n2}
  Tellable = {"process_logged_fatal_error", "pod_unscheduled"}
  MaxToolCalls = 2
  MaxTells = 1
SPECIFICATION InvestigationSpec
INVARIANTS FactsTrue TrueCauseKept
PROPERTIES RuledOutStays
SYMMETRY Symmetry
CHECK_DEADLOCK FALSE
