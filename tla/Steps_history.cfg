SPECIFICATION Spec
CONSTANTS
  N = 2
  Missing = {2}
  Faults = {"promote", "gates", "log", "state", "stage"}
  Fragile = {"approve", "approach", "reject", "manual", "phase"}
  MaxVersion = 2
  MaxCommits = 4
  MaxLog = 4
  MaxTroubles = 1
INVARIANTS
  LogMatchesCommits ApproachFits
PROPERTIES
    IsHistory
CHECK_DEADLOCK FALSE
