\* Two cases, the first blocking, the second the only cover of a requirement.
CONSTANTS
  N = 2
  Blocking = {1}
  Required = {{2}}
  MaxAttempts = 2
  StagnationLimit = 1
  Repetitions = 2
  MaxIterations = 3
  Dashboard = TRUE
  MaxFaults = 1
SPECIFICATION Spec
INVARIANTS BudgetKept DoneIsVerified
PROPERTY EscalatedNeverRuns
CONSTRAINT Bounded
