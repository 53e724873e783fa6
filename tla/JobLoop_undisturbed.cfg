SPECIFICATION FairSpec
CONSTANTS
  MaxIterations = 3
  RecoveryMaxTasks = 2
  ResumeKinds = {}
  MaxResumes = 0
  MaxFaults = 0
  PromotionFails = TRUE
  TokenLimits = TRUE
  GuiRefresh = FALSE
  GuiStop = FALSE
INVARIANT StatusMatchesTasks
INVARIANT NoSilentStall
INVARIANT IterationLimit
PROPERTY JobEnds
