SPECIFICATION FairSpec
CONSTANTS
  Rows = {r1, r2, r3}
  Users = {u1, u2}
  Instruments = {i1, i2}
  Clients = {c1, c2}
  UserLimit = 2
  OrgLimit = 2
  MaxTries = 2
  NoClient = NoClient
  NoTarget = NoTarget
PROPERTIES
  EveryRequestAnswered
INVARIANTS
  RefusedForOthers
  AdmittedWithinLimits
