------------------------------ MODULE MCBacktest ------------------------------
(* An instance of Backtest for TLC: every history of eight bars that closes   *)
(* at one of three prices, with the indicators of talipp on a fixed scale.    *)
EXTENDS Backtest, TLC

Prices3 == {100, 200, 400}

\* Opens and dates are the same in every history.
Opens == <<200, 100, 200, 200, 200, 100, 400, 200>>
Dates == <<10, 11, 14, 15, 20, 33, 34, 50>>

HistoryOf(closes) ==
    [j \in 1 .. 8 |-> [open |-> Opens[j], close |-> closes[j], date |-> Dates[j],
                       high |-> Max({Opens[j], closes[j]}), low |-> Min({Opens[j], closes[j]})]]

MCSeries == {HistoryOf(<<200, 100>> \o rest) : rest \in [1 .. 6 -> Prices3]}

MCRules ==
    {[kind |-> "price_threshold", operator |-> o, threshold |-> 200, action |-> a, size |-> 50] :
        o \in {"crosses_above", "crosses_below"}, a \in {"buy", "sell"}}
    \cup {[kind |-> "scheduled_dca", amount |-> 5000, day |-> d] : d \in {3, 20}}

CausalCodes == (Catalog \ LooksAtTheEnd) \cup {Custom}
LookAheadCodes == LooksAtTheEnd

-----------------------------------------------------------------------------
(* EMA, MACD, RSI, bands and ATR as the library computes them *)

\* An average that starts as the mean of the first values, then moves by 2/(n+1).
Exponential(values, n) ==
    LET e[j \in n .. Len(values)] ==
            IF j = n THEN MapThenSumSet(LAMBDA k : values[k], 1 .. n) \div n
            ELSE e[j - 1] + (2 * (values[j] - e[j - 1])) \div (n + 1)
    IN  e

Scale == 3888
MCEma(n, closes) ==
    IF Len(closes) < n THEN None
    ELSE Exponential([j \in DOMAIN closes |-> Scale * closes[j]], n)[Len(closes)]

MCHistogram(fast, slow, signal, closes) ==
    LET macd == [j \in 1 .. Len(closes) - slow + 1 |->
                    LET upto == SubSeq(closes, 1, j + slow - 1)
                    IN  MCEma(fast, upto) - MCEma(slow, upto)]
    IN  IF Len(macd) < signal THEN None
        ELSE macd[Len(macd)] - Exponential(macd, signal)[Len(macd)]

\* Wilder's smoothing of a value per bar, from bar first on.
Smoothed(value(_), n, first, last) ==
    LET s[j \in first + n - 1 .. last] ==
            IF j = first + n - 1 THEN MapThenSumSet(value, first .. j) \div n
            ELSE (s[j - 1] * (n - 1) + value(j)) \div n
    IN  s[last]

MCRsi(n, closes) ==
    LET gain(j) == Max({0, Scale * (closes[j] - closes[j - 1])})
        loss(j) == Max({0, Scale * (closes[j - 1] - closes[j])})
        up == Smoothed(gain, n, 2, Len(closes))
        down == Smoothed(loss, n, 2, Len(closes))
    IN  IF Len(closes) <= n THEN None
        ELSE IF up + down = 0 THEN 50 ELSE (100 * (up \div 100)) \div ((up + down) \div 100)

\* One standard deviation below the mean, both rounded down.
MCBands(n, closes) ==
    LET window == Len(closes) - n + 1 .. Len(closes)
        center == MapThenSumSet(LAMBDA j : closes[j], window) \div n
        variance == MapThenSumSet(LAMBDA j : (closes[j] - center) * (closes[j] - center), window) \div n
    IN  IF Len(closes) < n THEN None
        ELSE [center |-> center, lower |-> center - Max({d \in 0 .. 300 : d * d <= variance})]

MCAtr(n, history) ==
    LET range(j) ==
            IF j = 1 THEN history[1].high - history[1].low
            ELSE Max({history[j].high, history[j - 1].close})
                     - Min({history[j].low, history[j - 1].close})
    IN  IF Len(history) < n THEN None ELSE Smoothed(range, n, 1, Len(history))
=============================================================================
