\* A tracked and a new path, two runs, two edits, one crash.
CONSTANTS
  N = 2
  Tracked = {1}
  Versions = {"v1", "v2"}
  MaxRuns = 2
  MaxEdits = 2
  MaxCrashes = 1
  Failures = TRUE
SPECIFICATION PromotionSpec
INVARIANTS NothingLeft DoneIsPromoted
PROPERTY EditsKept
