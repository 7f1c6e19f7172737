------------------------------- MODULE Backtest -------------------------------
(* One strategy on one asset, run twice over the same bars: forward, by the   *)
(* evaluation jobs of an assignment as versions of the dataset are published  *)
(* (quant-worker/backtest/forward_evaluator.py), and as a backtest over all   *)
(* of them (engine.py and custom_execution.py).  Both decide at the close of  *)
(* a bar and fill at the open of the next.  Amounts and units are integers;   *)
(* units are rounded down when they are bought, the code keeps 28 digits.     *)
EXTENDS Strategies, Functions

CONSTANTS
    Codes,             \* strategies, of the catalog or Custom
    Custom,            \* any code that starts with "custom:"
    Rules,             \* rules of custom strategies
    Series,            \* histories the dataset may have in the end
    Start,             \* the bar at which the assignment is created
    MaxNew,            \* bars that one publication adds
    Holdings,          \* units the portfolio may hold at that time
    Capital, Leverage,
    BPS, FeeRate, SellTaxRate, SlippageRate, FinancingRate    \* rates in 1/BPS

Price == Nat \ {0}
Bar == [open : Price, high : Price, low : Price, close : Price, date : Nat]

ASSUME SeriesAssumption ==
    /\ \A s \in Series : s \in Seq(Bar) /\ Start <= Len(s)
    /\ Start \in Nat \ {0}
    /\ MaxNew \in Nat

ASSUME CodesAssumption == Codes \subseteq Catalog \cup {Custom} /\ Custom \notin Catalog

ASSUME AmountsAssumption ==
    /\ BPS \in Nat \ {0}
    /\ {Capital, Leverage, FeeRate, SellTaxRate, SlippageRate, FinancingRate} \subseteq Nat
    /\ FeeRate + SellTaxRate <= BPS /\ SlippageRate <= BPS
    /\ Holdings \subseteq Nat

ASSUME RulesAssumption ==
    \A r \in Rules :
        \/ /\ r.kind = "price_threshold" /\ r.action \in {"buy", "sell"}
           /\ r.threshold \in Nat /\ r.size \in 1 .. 100
        \/ r.kind = "scheduled_dca" /\ r.amount \in Nat \ {0}

VARIABLES
    code, rule,    \* of the strategy version, never changed
    bars,          \* the whole history, never changed
    held,          \* what the portfolio held at the start
    published,     \* bars of the active version
    fw,            \* the state of the assignment, and its signals
    bt             \* the locals of the backtest, and its signals

vars == <<code, rule, bars, held, published, fw, bt>>

-----------------------------------------------------------------------------
(* Orders, fills and costs *)

Share(amount, rate) == (amount * rate) \div BPS

BuyPrice(bar) == bar.open + Share(bar.open, SlippageRate)
SellPrice(bar) == bar.open - Share(bar.open, SlippageRate)

Units(budget, bar) == (budget * BPS) \div (BuyPrice(bar) * (BPS + FeeRate))

\* An account after it bought or sold units at the open of a bar.
Buying(account, units, bar) ==
    LET value == units * BuyPrice(bar)
        commission == Share(value, FeeRate)
    IN  [account EXCEPT !.cash = @ - value - commission, !.quantity = @ + units,
                        !.fees = @ + commission]

Selling(account, units, bar) ==
    LET value == units * SellPrice(bar)
        commission == Share(value, FeeRate + SellTaxRate)
    IN  [account EXCEPT !.cash = @ + value - commission, !.quantity = @ - units,
                        !.fees = @ + commission]

\* The order of a signal waits for the next bar.
Recording(account, i, action, size) ==
    IF action = "none" THEN account
    ELSE [account EXCEPT !.signals = Append(@, [at |-> i, action |-> action]),
                         !.pending = [action |-> action, size |-> size]]

\* _fill_pending, and the same lines of run_price_threshold.
FillPending(account, bar) ==
    LET order == account.pending
        filled ==
            IF order = None THEN account
            ELSE IF order.action = "buy" /\ account.cash > 0
                 THEN Buying(account, Units((account.cash * order.size) \div 100, bar), bar)
            ELSE IF order.action = "sell" /\ account.quantity > 0
                 THEN Selling(account, (account.quantity * order.size) \div 100, bar)
            ELSE account
    IN  [filled EXCEPT !.pending = None]

Crossed(i) ==
    LET previous == bars[i - 1].close
        current == bars[i].close
    IN  IF rule.operator = "crosses_above"
        THEN previous <= rule.threshold /\ rule.threshold < current
        ELSE previous >= rule.threshold /\ rule.threshold > current

\* The bar's month is paid at its open, once, from the rule's day on.
Month(i) == bars[i].date \div 30
Contributed(account, i) ==
    IF Month(i) \in account.paid \/ (bars[i].date % 30) + 1 < rule.day THEN account
    ELSE LET funded == [account EXCEPT !.cash = @ + rule.amount]
         IN  [Buying(funded, Units(rule.amount, bars[i]), bars[i]) EXCEPT
                 !.contributed = @ + rule.amount,
                 !.paid = @ \cup {Month(i)},
                 !.signals = Append(@, [at |-> i, action |-> "buy"])]

-----------------------------------------------------------------------------
(* The forward evaluation *)

\* createStrategyAssignment
Activated(units) ==
    LET value == units * bars[Start].close
    IN  [at |-> Start, cash |-> Max({0, Capital - value}), quantity |-> units, fees |-> 0,
         contributed |-> 0, paid |-> {}, pending |-> None, signals |-> <<>>]

\* The job of the previous version is done: ForwardEvaluation is about the others.
Publish ==
    /\ fw.at = published
    /\ \E n \in 1 .. MaxNew : published + n <= Len(bars) /\ published' = published + n
    /\ UNCHANGED <<code, rule, bars, held, fw, bt>>

PriceOutcome(i) ==
    Recording(FillPending(fw, bars[i]), i, IF Crossed(i) THEN rule.action ELSE "none", rule.size)

\* Faulty: the position is read before the pending order is filled.
CatalogOutcomeBeforeFill(i) ==
    LET action == Signal(code, Upto(bars, published), i, fw.quantity > 0)
    IN  Recording(FillPending(fw, bars[i]), i, action, 100)

\* The strategy is prepared with every bar of the version.
CatalogOutcome(i) ==
    LET filled == FillPending(fw, bars[i])
        action == Signal(code, Upto(bars, published), i, filled.quantity > 0)
    IN  Recording(filled, i, action, 100)

DcaOutcome(i) == Contributed(fw, i)

\* One bar of the job.
EvaluateBar ==
    LET i == fw.at + 1
        outcome == IF code # Custom THEN CatalogOutcome(i)
                   ELSE IF rule.kind = "price_threshold" THEN PriceOutcome(i)
                   ELSE DcaOutcome(i)
    IN  /\ fw.at < published
        /\ fw' = [outcome EXCEPT !.at = i]
        /\ UNCHANGED <<code, rule, bars, held, published, bt>>

-----------------------------------------------------------------------------
(* The backtest *)

\* Interest on what was borrowed, for the days since the previous bar.
Financed(account, i) ==
    LET days == bars[i].date - bars[i - 1].date
        cost == (account.borrowed * FinancingRate * days) \div (BPS * 365)
    IN  IF i > 1 /\ account.quantity > 0 /\ account.borrowed > 0
        THEN [account EXCEPT !.cash = @ - cost, !.financing = @ + cost]
        ELSE account

\* Invested in the open position: the fill and its fee.
Invested(account) == account.quantity * account.entryPrice + account.entryFee

\* Every purchase is for the capital of the sleeve, times the leverage.
Enter(account, bar) ==
    LET bought == Buying(account, Units(Capital * Leverage, bar), bar)
        opened == [bought EXCEPT !.entryPrice = BuyPrice(bar),
                                 !.entryFee = bought.fees - account.fees]
    IN  [opened EXCEPT !.borrowed = Max({0, Invested(opened) - Capital})]

\* Faulty: the fee of the purchase is left out of the result.
ExitWithoutEntryFee(account, bar) ==
    LET sold == Selling(account, account.quantity, bar)
        realized == sold.cash - account.cash - account.quantity * account.entryPrice
    IN  [sold EXCEPT !.realized = @ + realized, !.trades = @ + 1,
                     !.entryPrice = 0, !.entryFee = 0, !.borrowed = 0]

Exit(account, bar) ==
    LET sold == Selling(account, account.quantity, bar)
        realized == sold.cash - account.cash - Invested(account)
    IN  [sold EXCEPT !.realized = @ + realized, !.trades = @ + 1,
                     !.entryPrice = 0, !.entryFee = 0, !.borrowed = 0]

SleeveFill(account, bar) ==
    LET order == account.pending
        filled == IF order = None THEN account
                  ELSE IF order.action = "buy" /\ account.quantity = 0 THEN Enter(account, bar)
                  ELSE IF order.action = "sell" /\ account.quantity > 0 THEN Exit(account, bar)
                  ELSE account
    IN  [filled EXCEPT !.pending = None]

\* _simulate_sleeve
SleeveBar(i) ==
    LET filled == SleeveFill(Financed(bt, i), bars[i])
    IN  Recording(filled, i, Signal(code, bars, i, filled.quantity > 0), 100)

\* run_price_threshold
PriceThresholdBar(i) ==
    Recording(FillPending(bt, bars[i]), i,
              IF i > 1 /\ Crossed(i) THEN rule.action ELSE "none", rule.size)

\* run_scheduled_dca
ScheduledDcaBar(i) == Contributed(bt, i)

\* Fewer bars than this end the run as failed.
MinimumBars ==
    IF code # Custom THEN Warmup(code) + 2
    ELSE IF rule.kind = "price_threshold" THEN 2 ELSE 1

\* One bar of the loop.  The run is requested when the whole history is there.
BacktestBar ==
    LET i == bt.at + 1
        next == IF code # Custom THEN SleeveBar(i)
                ELSE IF rule.kind = "price_threshold" THEN PriceThresholdBar(i)
                ELSE ScheduledDcaBar(i)
    IN  /\ fw.at = Len(bars) /\ bt.at < Len(bars)
        /\ Len(bars) >= MinimumBars
        /\ bt' = [next EXCEPT !.at = i]
        /\ UNCHANGED <<code, rule, bars, held, published, fw>>

-----------------------------------------------------------------------------
Init ==
    /\ code \in Codes
    /\ rule \in IF code = Custom THEN Rules ELSE {None}
    /\ bars \in Series
    /\ held \in Holdings
    /\ published = Start
    /\ fw = Activated(held)
    /\ bt = [at |-> 0, cash |-> Capital, quantity |-> 0, fees |-> 0, contributed |-> 0,
             paid |-> {}, pending |-> None, signals |-> <<>>, entryPrice |-> 0, entryFee |-> 0,
             borrowed |-> 0, financing |-> 0, realized |-> 0, trades |-> 0]

Next == Publish \/ EvaluateBar \/ BacktestBar

Spec == Init /\ [][Next]_vars

-----------------------------------------------------------------------------
(* Properties *)

\* The code of a signal depends on no bar after it: computed from the history
\* up to the bar, the decision is the same.
Causal(signal) ==
    signal.action = Signal(code, Upto(bars, signal.at), signal.at, signal.action = "sell")

\* Every signal of a catalog strategy, in a backtest as in a forward test,
\* was decided from the bars up to it (the strategies, and what prepare gives
\* them, in strategies.py).
SignalsCausal ==
    code # Custom => \A s \in Range(fw.signals) \cup Range(bt.signals) : Causal(s)

\* Where the money of a backtest went: what is not in cash is invested, was
\* paid as interest or was lost in trades that are reported; a custom strategy
\* never spends what it has not got (engine.py, custom_execution.py).
AccountsBalance ==
    IF code # Custom
    THEN bt.cash + Invested(bt) + bt.financing = Capital + bt.realized
    ELSE bt.cash >= 0 /\ bt.quantity >= 0 /\ fw.cash >= 0 /\ fw.quantity >= 0

\* The order that waits in account a buys something at the open of bar i.
BuysUnits(a, i) ==
    a.pending # None /\ a.pending.action = "buy"
        => a.cash > 0 /\ Units((a.cash * a.pending.size) \div 100, bars[i]) > 0

\* No budget of a catalog strategy is below the price of a unit: what rounding
\* units down leaves of the code, which buys fractions of them.
NoOrderTooSmall ==
    code # Custom =>
        /\ fw.at < Len(bars) => BuysUnits(fw, fw.at + 1)
        /\ \A i \in 1 .. Len(bars) : Units(Capital * Leverage, bars[i]) > 0

\* However the bars were cut into versions, a forward test that starts without
\* a position ends with the signals of a backtest that gave none before, and
\* a custom strategy with its cash, units and fees too.
LiveMatchesBacktest ==
    (/\ bt.at = Len(bars) /\ held = 0
     /\ \A s \in Range(bt.signals) : s.at > Start)
        => /\ fw.signals = bt.signals
           /\ code = Custom => /\ <<fw.cash, fw.quantity, fw.fees>> = <<bt.cash, bt.quantity, bt.fees>>
                               /\ fw.pending = bt.pending
=============================================================================
