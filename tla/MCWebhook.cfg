\* Two deliveries through one slot, of one event through one slot, with edits of one webhook, a fault and a crash.
CONSTANTS
  e1 = e1
  e2 = e2
  w1 = w1
  w2 = w2
  d1 = d1
  d2 = d2
  d3 = d3
  Events = {e1}
  Webhooks = {w1, w2}
  Deliveries = {d1, d2}
  eventOf <- EventOf
  webhookOf <- WebhookOf
  None = None
  RetryCount = 2
  DispatchConcurrency = 1
  WorkerConcurrency = 1
  MaxCrashes = 1
  MaxFaults = 1
  Edited = {w1}
SPECIFICATION FairSpec
INVARIANTS SlotsExact EndedKnowingly PostsBounded
PROPERTIES CarrierSpec
CHECK_DEADLOCK FALSE
