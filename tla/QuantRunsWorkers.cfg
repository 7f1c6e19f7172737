SPECIFICATION FairSpec
CONSTANTS
  Runs = {r1}
  Workers = {w1, w2, w3}
  Clients = {c1}
  Keys = {k1}
  Checkpoints <- MCCheckpoints
  MaxAttempts = 3
  NoWorker = NoWorker
  NoRun = NoRun
  NoKey = NoKey
  NoClient = NoClient
INVARIANTS
  TypeOK
  ArtifactsFenced
  NoOrphan
PROPERTIES
  EventuallySettled
  ProgressMonotonic
