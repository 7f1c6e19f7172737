SPECIFICATION Spec
CONSTANTS
  a1 = a1
  a2 = a2
  Assets = {a1, a2}
  Days = {1, 2, 3}
  Ids = {1, 2, 3}
  Inputs <- MCInputs
  Close <- MCClose
  Rate <- MCRate
INVARIANTS
  ProfitAgrees
  IndexTracksClose
  PreviewAgrees
