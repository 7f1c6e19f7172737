SPECIFICATION Spec
CONSTANTS
  Runs = {r1, r2}
  Workers = {w1, w2}
  Clients = {c1, c2}
  Keys = {k1}
  Checkpoints <- MCCheckpoints
  MaxAttempts = 2
  NoWorker = NoWorker
  NoRun = NoRun
  NoKey = NoKey
  NoClient = NoClient
SYMMETRY Symmetry
INVARIANTS
  OneRunPerKey
PROPERTIES
  CancellationAnswered
  ImplementsLifecycle
