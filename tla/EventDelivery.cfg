SPECIFICATION Spec
CONSTANTS
  w1 = w1
  w2 = w2
  Workers = {w1, w2}
  MaxEmits = 2
  QueueLimit = 2
CHECK_DEADLOCK FALSE
INVARIANTS
  NoLateCallback
  NothingStranded
  AllPassedOnAtClose
PROPERTIES
  ChannelSpec
