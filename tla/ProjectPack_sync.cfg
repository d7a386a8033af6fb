SPECIFICATION Spec
CONSTANTS
  Procs = {p1, p2}
  Hashes <- Sources
  Names <- AppNames
  Configs <- TwoConfigs
  None = None
  MaxRuns = 3
  MaxEdits = 1
  MaxFaults = 2
INVARIANTS
  TypeOK
  AtomicReplace
  
  TmpOwned
PROPERTIES
  PackIsRegister
SYMMETRY Interchangeable
CHECK_DEADLOCK FALSE
