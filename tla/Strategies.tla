------------------------------ MODULE Strategies ------------------------------
(* The catalog strategies of quant-worker/backtest/strategies.py: what each   *)
(* decides at a bar, given the bars that are loaded and whether a position    *)
(* is open.  Bars are counted from 1, the code counts them from 0.  The       *)
(* indicators of the library talipp are constants: a value, or None while     *)
(* there are too few bars.  The library is incremental, so the value at a bar *)
(* is a function of the bars up to it.                                        *)
EXTENDS Integers, Sequences, FiniteSetsExt

CONSTANTS
    FastPeriod, SlowPeriod, SignalPeriod,  \* of the averages, EMAs and MACD
    Period,                                \* of the RSI and the Bollinger bands
    Oversold, Overbought,                  \* levels of the RSI
    EntryPeriod, ExitPeriod, AtrPeriod,    \* of the breakouts
    AtrMultiplier,
    ConfirmationBars,
    PivotLeft, PivotRight,                 \* bars that confirm a pivot
    RetracementMin, RetracementMax, ExtensionMin,    \* in percent
    Ema(_, _), Rsi(_, _), Bands(_, _), Histogram(_, _, _, _), Atr(_, _),
    None

ASSUME PeriodsAssumption ==
    /\ {FastPeriod, SlowPeriod, SignalPeriod, Period, EntryPeriod, ExitPeriod, AtrPeriod,
        ConfirmationBars, PivotLeft, PivotRight} \subseteq Nat \ {0}
    /\ FastPeriod < SlowPeriod

-----------------------------------------------------------------------------
Upto(bars, i) == SubSeq(bars, 1, i)

Closes(bars) == [j \in DOMAIN bars |-> bars[j].close]

Prices(window, field) == {window[j][field] : j \in DOMAIN window}

\* A fast line crosses a slow one between two bars, for whom it matters.
Crossing(previousFast, previousSlow, fast, slow, inPosition) ==
    IF ~inPosition /\ previousFast <= previousSlow /\ fast > slow THEN "buy"
    ELSE IF inPosition /\ previousFast >= previousSlow /\ fast < slow THEN "sell"
    ELSE "none"

Decided(buy, sell, inPosition) ==
    IF ~inPosition /\ buy THEN "buy" ELSE IF inPosition /\ sell THEN "sell" ELSE "none"

-----------------------------------------------------------------------------
\* _sma, times the period.
WindowSum(closes, end, period) ==
    MapThenSumSet(LAMBDA j : closes[j], end - period + 1 .. end)

\* The averages, both times both periods.
FastSum(closes, end) == WindowSum(closes, end, FastPeriod) * SlowPeriod
SlowSum(closes, end) == WindowSum(closes, end, SlowPeriod) * FastPeriod

MaCross(bars, i, inPosition) ==
    LET closes == Closes(Upto(bars, i))
    IN  IF i <= SlowPeriod THEN "none"
        ELSE Crossing(FastSum(closes, i - 1), SlowSum(closes, i - 1),
                      FastSum(closes, i), SlowSum(closes, i), inPosition)

HighestBefore(bars, i, period) == Max(Prices(SubSeq(bars, i - period, i - 1), "high"))
LowestBefore(bars, i, period) == Min(Prices(SubSeq(bars, i - period, i - 1), "low"))

Turtle(bars, i, inPosition) ==
    IF i <= EntryPeriod \/ i <= ExitPeriod THEN "none"
    ELSE Decided(bars[i].close > HighestBefore(bars, i, EntryPeriod),
                 bars[i].close < LowestBefore(bars, i, ExitPeriod), inPosition)

Rolling(bars, i, inPosition) ==
    LET window == SubSeq(bars, i - ConfirmationBars + 1, i)
        inner == 2 .. Len(window)
    IN  IF i <= ConfirmationBars THEN "none"
        ELSE Decided(\A j \in inner : window[j].close > window[j - 1].close,
                     \A j \in inner : window[j].close < window[j - 1].close, inPosition)

(* AbcdCausalStrategy *)

Neighbors(rows, j) == (j - PivotLeft .. j + PivotRight) \ {j}
IsLow(rows, j) == \A k \in Neighbors(rows, j) : rows[j].low < rows[k].low
IsHigh(rows, j) == ~IsLow(rows, j) /\ \A k \in Neighbors(rows, j) : rows[j].high > rows[k].high

\* _confirmed_pivots: those with enough bars on both sides.
Pivots(rows) ==
    {j \in PivotLeft + 1 .. Len(rows) - PivotRight : IsLow(rows, j) \/ IsHigh(rows, j)}

\* Three pivots in a row, low, high and low, and how far the last fell back.
IsPattern(rows, a, b, c) ==
    LET ab == rows[b].high - rows[a].low
        bc == rows[b].high - rows[c].low
    IN  /\ a < b /\ b < c
        /\ {j \in Pivots(rows) : a <= j /\ j <= c} = {a, b, c}
        /\ IsLow(rows, a) /\ IsHigh(rows, b) /\ IsLow(rows, c)
        /\ ab > 0
        /\ RetracementMin * ab <= 100 * bc /\ 100 * bc <= RetracementMax * ab

Patterns(rows) == {t \in Pivots(rows) \X Pivots(rows) \X Pivots(rows) :
                      IsPattern(rows, t[1], t[2], t[3])}

\* _latest_pattern
Latest(rows) == CHOOSE t \in Patterns(rows) : \A u \in Patterns(rows) : u[3] <= t[3]

Abcd(bars, i, inPosition) ==
    LET rows == Upto(bars, i)
        latest == Latest(rows)
        confirmed == latest[3] + PivotRight
        target == 100 * rows[latest[3]].low
                      + ExtensionMin * (rows[latest[2]].high - rows[latest[1]].low)
    IN  IF Patterns(rows) = {} THEN "none"
        ELSE Decided(confirmed = i, i > confirmed /\ 100 * rows[i].close >= target, inPosition)

-----------------------------------------------------------------------------
(* Strategies on indicators: prepare computes the series of the indicator   *)
(* over all the bars that are loaded, and signal looks into it.             *)

EmaSeries(bars, period) == [j \in DOMAIN bars |-> Ema(period, Closes(Upto(bars, j)))]

\* The last two values of the series, whatever the bar.
EmaTrend(bars, i, inPosition) ==
    LET fast == EmaSeries(bars, FastPeriod)
        slow == EmaSeries(bars, SlowPeriod)
        last == Len(bars)
    IN  IF \/ i <= SlowPeriod
           \/ None \in {fast[last - 1], slow[last - 1], fast[last], slow[last]}
        THEN "none"
        ELSE Crossing(fast[last - 1], slow[last - 1], fast[last], slow[last], inPosition)

HistogramSeries(bars) ==
    [j \in DOMAIN bars |->
        Histogram(FastPeriod, SlowPeriod, SignalPeriod, Closes(Upto(bars, j)))]

MacdMomentum(bars, i, inPosition) ==
    LET values == HistogramSeries(bars)
        last == Len(bars)
    IN  IF i <= SlowPeriod + SignalPeriod \/ None \in {values[last - 1], values[last]}
        THEN "none"
        ELSE Crossing(values[last - 1], 0, values[last], 0, inPosition)

RsiSeries(bars) == [j \in DOMAIN bars |-> Rsi(Period, Closes(Upto(bars, j)))]

\* Faulty: the last value of the series, as in the two strategies above.
RsiOfTheLastBar(bars, i, inPosition) ==
    LET value == RsiSeries(bars)[Len(bars)] IN
    IF i <= Period \/ value = None THEN "none"
    ELSE Decided(value <= Oversold, value >= Overbought, inPosition)

RsiMeanReversion(bars, i, inPosition) ==
    LET value == RsiSeries(bars)[i] IN
    IF i <= Period \/ value = None THEN "none"
    ELSE Decided(value <= Oversold, value >= Overbought, inPosition)

BandSeries(bars) == [j \in DOMAIN bars |-> Bands(Period, Closes(Upto(bars, j)))]

BollingerMeanReversion(bars, i, inPosition) ==
    LET value == BandSeries(bars)[i] IN
    IF i < Period \/ value = None THEN "none"
    ELSE Decided(bars[i].close < value.lower, bars[i].close >= value.center, inPosition)

AtrSeries(bars) == [j \in DOMAIN bars |-> Atr(AtrPeriod, Upto(bars, j))]

AtrBreakout(bars, i, inPosition) ==
    LET value == AtrSeries(bars)[i] IN
    IF i <= AtrPeriod \/ i <= EntryPeriod \/ i <= ExitPeriod \/ value = None THEN "none"
    ELSE Decided(bars[i].close > HighestBefore(bars, i, EntryPeriod) + value * AtrMultiplier,
                 bars[i].close < LowestBefore(bars, i, ExitPeriod), inPosition)

-----------------------------------------------------------------------------
(* strategy_from_catalog *)

LooksAtTheEnd == {"ema_trend", "macd_momentum"}

Catalog == {"ma_crossover", "turtle_breakout", "signal_rolling_reversal", "abcd_causal",
            "rsi_mean_reversion", "bollinger_mean_reversion", "atr_breakout"}
               \cup LooksAtTheEnd

\* warmup_bars: a backtest needs two bars more.
Warmup(code) ==
    CASE code = "ma_crossover"             -> SlowPeriod
      [] code = "turtle_breakout"          -> Max({EntryPeriod, ExitPeriod})
      [] code = "signal_rolling_reversal"  -> ConfirmationBars
      [] code = "abcd_causal"              -> PivotLeft + PivotRight + 4
      [] code = "ema_trend"                -> SlowPeriod + 1
      [] code = "rsi_mean_reversion"       -> Period + 1
      [] code = "bollinger_mean_reversion" -> Period
      [] code = "macd_momentum"            -> SlowPeriod + SignalPeriod
      [] code = "atr_breakout"             -> Max({AtrPeriod, EntryPeriod, ExitPeriod})

Signal(code, bars, i, inPosition) ==
    CASE code = "ma_crossover"             -> MaCross(bars, i, inPosition)
      [] code = "turtle_breakout"          -> Turtle(bars, i, inPosition)
      [] code = "signal_rolling_reversal"  -> Rolling(bars, i, inPosition)
      [] code = "abcd_causal"              -> Abcd(bars, i, inPosition)
      [] code = "ema_trend"                -> EmaTrend(bars, i, inPosition)
      [] code = "rsi_mean_reversion"       -> RsiMeanReversion(bars, i, inPosition)
      [] code = "bollinger_mean_reversion" -> BollingerMeanReversion(bars, i, inPosition)
      [] code = "macd_momentum"            -> MacdMomentum(bars, i, inPosition)
      [] code = "atr_breakout"             -> AtrBreakout(bars, i, inPosition)
=============================================================================
