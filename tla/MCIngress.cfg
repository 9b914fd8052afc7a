\* Redis, rows and the process may fail under two instances and their redrives.
CONSTANTS
  d1 = d1
  d2 = d2
  d3 = d3
  d4 = d4
  i1 = i1
  i2 = i2
  k1 = k1
  x1 = x1
  x2 = x2
  x3 = x3
  Instances = {i1, i2}
  instanceOf <- InstanceOf
  DeliveryIds = {x1}
  deliveryId <- SharedId
  Conversations = {k1}
  orderingKeyFor <- OneConversation
  None = None
  Deliveries = {d1, d3}
  Calls = {c1, c2}
  MaxRows = 1
  MaxAttempts = 2
  WorkerConcurrency = 2
  MaxRedrives = 2
  MaxCrashes = 1
  MaxOutages = 1
  DbFails = TRUE
SYMMETRY Symmetry
SPECIFICATION Spec
INVARIANTS LaneInOrder GivenUpKnowingly
CHECK_DEADLOCK FALSE
