SPECIFICATION Spec
CONSTANTS
  Clients = {p1, p2}
  Cases = {c1, c2}
  Texts = {x, y}
  Stable = {c2}
  MaxVersion = 3
  MaxRuns = 2
  MaxDeaths = 1
INVARIANTS PinIsManifest  DoneIsVerified
SYMMETRY Symmetry
CHECK_DEADLOCK FALSE
