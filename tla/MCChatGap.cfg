\* A connection drops once while a message arrives.
CONSTANTS
  Out = {o1}
  In = {i1}
  MaxDrops = 1
  MaxTold = 3
SPECIFICATION ChatSpec
INVARIANT GapRefreshed
CHECK_DEADLOCK FALSE
