SPECIFICATION FairSpec
CONSTANTS
  Requests = {r1, r2}
  Users = {u1}
  Instruments = {i1}
  Workers = {w1, w2, w3}
  MaxAttempts = 2
  MaxFeed = 2
  MaxLive = 1
  NoWorker = NoWorker
  NoRequest = NoRequest
  NoUser = NoUser
  NoInstrument = NoInstrument
PROPERTIES
  QueuedIsServed
