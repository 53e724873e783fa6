SPECIFICATION FairSpec
CONSTANTS
  MaxIterations = 1
  RecoveryMaxTasks = 1
  ResumeKinds = {"gui"}
  MaxResumes = 1
  MaxFaults = 1
  PromotionFails = FALSE
  TokenLimits = FALSE
  GuiRefresh = TRUE
  GuiStop = FALSE
CHECK_DEADLOCK FALSE
PROPERTY ResumeCompletes
PROPERTY RefreshReconciles
