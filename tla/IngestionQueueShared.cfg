SPECIFICATION Spec
CONSTANTS
  Requests = {r1, r2}
  Users = {u1, u2}
  Instruments = {i1}
  Workers = {w1, w2}
  MaxAttempts = 2
  MaxFeed = 2
  MaxLive = 2
  NoWorker = NoWorker
  NoRequest = NoRequest
  NoUser = NoUser
  NoInstrument = NoInstrument
SYMMETRY Symmetry
INVARIANTS
  TypeOK
  BatchFits
  SucceededIsFresh
PROPERTIES
  ReportsOwnAttempt
