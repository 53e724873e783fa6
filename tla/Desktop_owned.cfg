\* Two projects; the developer does four things, one of which fails.
CONSTANTS
  a = a
  b = b
  Nil = Nil
  Projects = {a, b}
  MaxCalls = 4
  MaxErrors = 1
SPECIFICATION FairSpec
CHECK_DEADLOCK FALSE
INVARIANTS PanelOwned OwnCandidate
PROPERTY Served
