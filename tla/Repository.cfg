SPECIFICATION Spec
CONSTANTS
  Procs = {p1, p2}
  Keys = {1, 2, 3}
  Workloads <- AllWorkloads
  MaxDirs = 3
  MaxHeight = 1
SYMMETRY Symmetry
INVARIANTS
    AcknowledgedSurvives
    
    OneOwner
CHECK_DEADLOCK FALSE
