SPECIFICATION Spec
CONSTANTS
  MaxSlots = 2
  MaxCalls = 3
  MaxEvents = 3
  MaxStarts = 2
INVARIANTS
  
  CardsAgree
CHECK_DEADLOCK FALSE
