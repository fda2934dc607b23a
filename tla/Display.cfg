SPECIFICATION MCSpec
CONSTANTS
  Columns = 3
  Lines = 2
  MinRegion = 2
  MaxHistory = 2
  MaxShots = 1
INVARIANTS MouseInv  BlinkInv
 
CHECK_DEADLOCK FALSE
