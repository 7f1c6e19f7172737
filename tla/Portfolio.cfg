SPECIFICATION Spec
CONSTANTS
  a1 = a1
  g1 = g1
  g2 = g2
  Assets = {a1}
  Days = {1, 2}
  Requests = {c1, c2}
  Signals = {g1, g2}
  MaxRows = 2
  Inputs <- MCInputs
  Close <- MCClose
  Rate <- MCRate
  SignalOf <- MCSignalOf
  Patched = {g2}
  RateOn <- MCRateOn
  FallbackRate = 2
  NoSignal = NoSignal
SYMMETRY Symmetry
INVARIANTS
  TypeOK
  PositionsAreReplay
  SignalExecutedOnce
  ExecutedIsLinked
PROPERTIES
  ImplementsBook
