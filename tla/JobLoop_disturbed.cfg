SPECIFICATION Spec
CONSTANTS
  MaxIterations = 2
  RecoveryMaxTasks = 1
  ResumeKinds = {"cli", "gui"}
  MaxResumes = 1
  MaxFaults = 1
  PromotionFails = FALSE
  TokenLimits = FALSE
  GuiRefresh = FALSE
  GuiStop = TRUE
CHECK_DEADLOCK FALSE
INVARIANT OneRunPerTask
INVARIANT OneReviewPerTask
INVARIANT QueuedNeverSettled
