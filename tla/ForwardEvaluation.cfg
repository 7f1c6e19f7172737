SPECIFICATION FairSpec
CONSTANTS
  Assignments = {a1, a2}
  Portfolios = {p1}
  Workers = {w1, w2}
  Requests = {c1}
  MaxVersion = 3
  MaxBar = 2
  MaxLive = 1
  NoAssignment = NoAssignment
  NoPortfolio = NoPortfolio
INVARIANTS
  OneActive
PROPERTIES
  
  QueuedIsSettled
