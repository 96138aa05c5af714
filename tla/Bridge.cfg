SPECIFICATION Spec
CONSTANTS
  wifi = wifi
  lan = lan
  Links = {wifi, lan}
  NoLink = NoLink
  MaxRequests = 3
  MaxLinks = 2
CHECK_DEADLOCK FALSE
INVARIANTS
  StateAgrees
  NoChangeLost
PROPERTIES
  Recovers
  AlreadyIsTrue
