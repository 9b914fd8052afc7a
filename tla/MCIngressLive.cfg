\* Jobs and their plugins through retries, a stall and a full worker.
CONSTANTS
  d1 = d1
  d2 = d2
  d3 = d3
  d4 = d4
  i1 = i1
  i2 = i2
  k1 = k1
  x1 = x1
  x2 = x2
  x3 = x3
  Instances = {i1, i2}
  instanceOf <- InstanceOf
  DeliveryIds = {x1, x2, x3}
  deliveryId <- SharedId
  Conversations = {k1}
  orderingKeyFor <- OneConversation
  None = None
  Deliveries = {d1, d2, d4}
  Calls = {c1}
  MaxRows = 0
  MaxAttempts = 2
  WorkerConcurrency = 2
  MaxRedrives = 0
  MaxCrashes = 0
  MaxOutages = 1
  DbFails = TRUE
SPECIFICATION FairSpec
PROPERTY JobSettles
CHECK_DEADLOCK FALSE
