SPECIFICATION Spec
CONSTANTS
  c1 = c1
  c2 = c2
  CallIds = {c1, c2}
  NoCall = NoCall
  AutoHoldSettings = {TRUE}
  Requests = {"answer"}
SYMMETRY Symmetry
INVARIANT OneTalker
