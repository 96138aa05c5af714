SPECIFICATION Spec
CONSTANTS
  c1 = c1
  c2 = c2
  CallIds = {c1, c2}
  NoCall = NoCall
  AutoHoldSettings = {TRUE}
  Requests = {"make", "answer", "hold", "refresh", "shutdown"}
SYMMETRY Symmetry
INVARIANTS
  TypeOK
  StoppedIsClean
  OnlySelectedTalks
  BackgroundIsHeld
  BackgroundIsExcused
  SelectedIsHeard
  HeldIsSilent
PROPERTIES
  FocusMovesOnlyByChoice
  OnlyLateSelectNeglects
