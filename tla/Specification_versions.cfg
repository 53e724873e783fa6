SPECIFICATION Spec
CONSTANTS
  Editors = {e1, e2}
  Docs = {good, bad}
  Complete = {good}
  MaxVersion = 3
  MaxDeaths = 1
INVARIANTS ArtifactsKept VersionsFollow ApprovedIsReviewed
SYMMETRY Symmetry
CHECK_DEADLOCK FALSE
