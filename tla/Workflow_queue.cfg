SPECIFICATION Spec
CONSTANTS
  QueueLength = 2
  Activities = {"edit", "commit", "talk", "command line", "revise", "analyse", "select", "open", "settings", "undo", "purpose", "crash"}
INVARIANTS ReviewIsKept Decidable
PROPERTIES AutomaticApproval LoopEnds
CHECK_DEADLOCK FALSE
