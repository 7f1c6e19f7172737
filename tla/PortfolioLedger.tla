--------------------------- MODULE PortfolioLedger ---------------------------
(* The arithmetic of the mock portfolio: src/lib/backend/portfolio.ts and    *)
(* the preview of src/lib/portfolio-transaction-preview.ts.  A ledger is a   *)
(* function from the ids of its transactions to                              *)
(* [asset, type, quantity, price, fee, day].                                 *)
(* Ids are numbers in the order of createdAt.  Money is counted in a unit    *)
(* small enough for every average to be a whole number, so that the sums can *)
(* be compared exactly.                                                      *)
EXTENDS Integers, SequencesExt, Folds

CONSTANTS
    Assets,
    Days        \* the calendar dates with closes, 1 .. n

ASSUME LedgerAssumption ==
    /\ Days \subseteq Nat \ {0} /\ IsFiniteSet(Days)
    /\ IsFiniteSet(Assets)

-----------------------------------------------------------------------------
(* replayPortfolioLedger *)

\* compareLedgerTransactions: by executedAt, then by createdAt and id.
Before(ledger, i, j) ==
    \/ ledger[i].day < ledger[j].day
    \/ ledger[i].day = ledger[j].day /\ i < j

Latest(ledger, S) == CHOOSE i \in S : \A j \in S \ {i} : Before(ledger, j, i)

\* The transactions of S applied to base in their order.
FoldLedger(Apply(_, _), base, ledger, S) ==
    MapThenFoldSet(LAMBDA t, result : Apply(result, t), base,
                   LAMBDA i : ledger[i], LAMBDA T : Latest(ledger, T), S)

NoHoldings == [ok |-> TRUE, quantity |-> [a \in Assets |-> 0]]

\* A sale needs a position of at least its quantity at its own time.
Trade(held, t) ==
    [ok |-> held.ok /\ (t.type = "sell" => t.quantity <= held.quantity[t.asset]),
     quantity |-> [held.quantity EXCEPT
         ![t.asset] = IF t.type = "buy" THEN @ + t.quantity ELSE @ - t.quantity]]

\* The quantities after the whole ledger, and whether no sale was refused.
Holdings(ledger) == FoldLedger(Trade, NoHoldings, ledger, DOMAIN ledger)

NoAccounts ==
    [quantity |-> [a \in Assets |-> 0], average |-> [a \in Assets |-> 0],
     realized |-> 0, bought |-> 0]

Gross(t) == t.quantity * t.price

Buy(acc, t) ==
    LET held == acc.quantity[t.asset]
        next == held + t.quantity
        cost == held * acc.average[t.asset] + Gross(t) + t.fee
    IN  [acc EXCEPT !.quantity[t.asset] = next,
                    !.average[t.asset] = cost \div next,
                    !.bought = @ + Gross(t) + t.fee]

Sell(acc, t) ==
    LET next == acc.quantity[t.asset] - t.quantity
    IN  [acc EXCEPT !.quantity[t.asset] = next,
                    !.average[t.asset] = IF next = 0 THEN 0 ELSE @,
                    !.realized = @ + Gross(t) - t.fee - t.quantity * acc.average[t.asset]]

\* Positions at average cost, realized profit and the capital ever bought.
Accounts(ledger) ==
    FoldLedger(LAMBDA acc, t : IF t.type = "buy" THEN Buy(acc, t) ELSE Sell(acc, t),
               NoAccounts, ledger, DOMAIN ledger)

-----------------------------------------------------------------------------
(* buildPortfolioPerformance: close[a][d] is the close of asset a on day d, 0 *)
(* when there is no bar.  A missing benchmark price and the rounding of the  *)
(* points are left out.                                                      *)

NoPerformance ==
    [quantity |-> [a \in Assets |-> 0], price |-> [a \in Assets |-> 0],
     previous |-> -1, flow |-> 0, units |-> 0, cash |-> 0,
     contributed |-> 0, withdrawn |-> 0, points |-> <<>>]

\* Faulty: the fee does not go through the account.
FlowWithoutFee(t) == IF t.type = "buy" THEN Gross(t) ELSE -Gross(t)

\* The cash a transaction brings into the portfolio, fees included.
ExternalFlow(t) == IF t.type = "buy" THEN Gross(t) + t.fee ELSE t.fee - Gross(t)

Applied(p, t) ==
    LET flow == ExternalFlow(t)
    IN  [p EXCEPT !.quantity = Trade([ok |-> TRUE, quantity |-> @], t).quantity,
                  !.flow = @ + flow,
                  !.contributed = IF flow > 0 THEN @ + flow ELSE @,
                  !.withdrawn = IF flow > 0 THEN @ ELSE @ - flow]

\* The benchmark buys with every contribution and sells for every
\* withdrawal, and what its units do not cover is owed in cash.
Matched(p, price) ==
    LET due == (-p.flow) \div price
        sold == IF p.units < due THEN p.units ELSE due
    IN  IF p.flow > 0
        THEN [p EXCEPT !.units = @ + p.flow \div price]
        ELSE [p EXCEPT !.units = @ - sold, !.cash = @ + p.flow + sold * price]

Worth(p) == SumFunction([a \in Assets |-> p.quantity[a] * p.price[a]])

\* Faulty: cash that comes in counts as growth.
ValuedWithFlow(p, d, benchmark) ==
    LET q == Matched(p, benchmark)
        value == Worth(p)
    IN  [q EXCEPT !.previous = value,
                  !.flow = 0,
                  !.points = Append(@,
                      [day |-> d, value |-> value,
                       growth |-> IF p.previous > 0 THEN <<value, p.previous>> ELSE <<1, 1>>,
                       benchmark |-> q.units * benchmark + q.cash])]

\* The index grows by (value - flow) / previous value, kept as a pair; the
\* first valued day, and the first one after everything was sold, leave it.
Valued(p, d, benchmark) ==
    LET q == Matched(p, benchmark)
        value == Worth(p)
    IN  [q EXCEPT !.previous = value,
                  !.flow = 0,
                  !.points = Append(@,
                      [day |-> d, value |-> value,
                       growth |-> IF p.previous > 0 THEN <<value - p.flow, p.previous>>
                                                    ELSE <<1, 1>>,
                       benchmark |-> q.units * benchmark + q.cash])]

Holds(p, a) == p.quantity[a] > 0

\* A date is left out when a holding has no price yet, and when there is
\* nothing to value; the flow then waits for the next date.
LeftOut(p) ==
    \/ \E a \in Assets : Holds(p, a) /\ p.price[a] = 0
    \/ (\A a \in Assets : ~Holds(p, a)) /\ (p.previous = -1 \/ p.flow = 0)

\* The dates are those with a bar of an asset of the ledger.
Dates(ledger, close) ==
    {d \in Days : \E i \in DOMAIN ledger : close[ledger[i].asset][d] > 0}

Since(dates, d) == Max({e \in dates : e < d} \cup {0})

\* The closes of the date, the transactions since the date before, the point.
OnDate(p, ledger, close, benchmark, since, d) ==
    LET priced == [p EXCEPT !.price =
                      [a \in Assets |-> IF close[a][d] > 0 THEN close[a][d] ELSE @[a]]]
        due == {i \in DOMAIN ledger : since < ledger[i].day /\ ledger[i].day <= d}
        traded == FoldLedger(Applied, priced, ledger, due)
    IN  IF LeftOut(traded) THEN traded ELSE Valued(traded, d, benchmark[d])

Performance(ledger, close, benchmark) ==
    LET dates == Dates(ledger, close)
    IN  MapThenFoldSet(LAMBDA d, p : OnDate(p, ledger, close, benchmark, Since(dates, d), d),
                       NoPerformance, LAMBDA d : d, Max, dates)

-----------------------------------------------------------------------------
(* buildTransactionPreview: what the dialog shows for a transaction now.     *)

\* Faulty: the fee of a purchase is not part of its cost.
PreviewWithoutFee(held, average, t) ==
    [valid |-> t.type = "buy" \/ t.quantity <= held,
     quantity |-> IF t.type = "buy" THEN held + t.quantity ELSE held - t.quantity,
     average |-> IF t.type = "buy" THEN (held * average + Gross(t)) \div (held + t.quantity)
                 ELSE IF held = t.quantity THEN 0 ELSE average,
     realized |-> IF t.type = "buy" THEN 0 ELSE Gross(t) - t.fee - t.quantity * average]

Preview(held, average, t) ==
    IF t.type = "buy"
    THEN [valid |-> TRUE,
          quantity |-> held + t.quantity,
          average |-> (held * average + Gross(t) + t.fee) \div (held + t.quantity),
          realized |-> 0]
    ELSE [valid |-> t.quantity <= held,
          quantity |-> held - t.quantity,
          average |-> IF held = t.quantity THEN 0 ELSE average,
          realized |-> Gross(t) - t.fee - t.quantity * average]
=============================================================================
