SPECIFICATION Spec
CONSTANTS
  None = None
  Custom = "custom"
  Codes <- CausalCodes
  Rules <- MCRules
  Series <- MCSeries
  Start = 3
  MaxNew = 2
  Holdings = {0, 40}
  Capital = 20000
  Leverage = 2
  BPS = 10
  FeeRate = 1
  SellTaxRate = 1
  SlippageRate = 1
  FinancingRate = 30
  FastPeriod = 2
  SlowPeriod = 3
  SignalPeriod = 2
  Period = 3
  Oversold = 40
  Overbought = 60
  EntryPeriod = 2
  ExitPeriod = 2
  AtrPeriod = 2
  AtrMultiplier = 1
  ConfirmationBars = 2
  PivotLeft = 1
  PivotRight = 1
  RetracementMin = 30
  RetracementMax = 100
  ExtensionMin = 50
  Ema <- MCEma
  Rsi <- MCRsi
  Bands <- MCBands
  Histogram <- MCHistogram
  Atr <- MCAtr
INVARIANTS
  SignalsCausal
  AccountsBalance
  LiveMatchesBacktest
CHECK_DEADLOCK FALSE
