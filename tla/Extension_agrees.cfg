\* Whole Project and one target; two sessions, of two revisions each.
CONSTANTS
  Ids = {"cmd", "sel", "view"}
  Targets = {"t"}
  Decisions = {"phase", "approve", "accept", "undo", "manual"}
  Commands = {"analyse", "refresh", "save"}
  MaxSessions = 2
  MaxRevision = 2
  MaxSource = 2
SPECIFICATION Spec
INVARIANTS Conserved Agreement FreshIsCurrent CacheKept
