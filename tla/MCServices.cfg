\* Instances of each component; see Bounded for what one behaviour combines.
CONSTANTS
  Sends = {s1}
  Inbound = {m1}
  Senders = {f1, f2}
  MaxFires = 2
  MaxReactions = 3
  MaxFaults = 2
  p1 = p1
  p2 = p2
  Phrases = {p1, p2}
  Words = {w1, w2}
  Groups = {g1}
  Reviewers = {r1, r2}
  MaxRequests = 3
  MaxCrashes = 1
  MaxAttempts = 2
  MaxSockets = 4
  Posts = {q1, q2}
  Out = {o1}
  In = {i1}
  MaxDrops = 1
  MaxTold = 3
SPECIFICATION ServicesSpec
CONSTRAINT Bounded
SYMMETRY SomePeople
INVARIANTS OneRowPerSend AcksReflected DispatchedOnce ReactionsInOrder NoOrphanEvents ApprovalNotLost ReviewedOnce ConnectionSound OwnSendOnce OneBubble
PROPERTY TicksForward
CHECK_DEADLOCK FALSE
