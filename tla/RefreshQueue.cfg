SPECIFICATION FairSpec
CONSTANTS
  Users = {u1}
  Workers = {w1, w2}
  Requests = {q1, q2}
  MaxAttempts = 3
  MaxVersion = 2
  FleetSizes = {1, 2}
  NoWorker = NoWorker
  NoUser = NoUser
INVARIANTS
  TypeOK
  ClaimCurrent
  ReadyWasPublished
PROPERTIES
  EveryRequestCounts
  QueuedIsServed
