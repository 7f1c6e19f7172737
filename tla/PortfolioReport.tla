--------------------------- MODULE PortfolioReport ---------------------------
(* What the page of the portfolio computes from a ledger: the profit of      *)
(* replayPortfolioLedger, the index and the benchmark of                     *)
(* buildPortfolioPerformance, and the preview of the next transaction.        *)
EXTENDS PortfolioLedger

CONSTANTS
    Inputs,     \* what users submit: [asset, type, quantity, price, fee, day]
    Close,      \* asset -> day -> its close, 0 when there is no bar
    Rate        \* asset -> what one unit of the currency it is traded in is worth
                \* on the page, which shows all amounts in one currency

ASSUME ReportAssumption ==
    /\ Inputs \subseteq [asset : Assets, type : {"buy", "sell"}, quantity : Nat \ {0},
                         price : Nat \ {0}, fee : Nat, day : Days]
    /\ Close \in [Assets -> [Days -> Nat]]
    /\ Rate \in [Assets -> Nat \ {0}]

VARIABLE rows       \* id -> the input recorded, for the transactions there are

-----------------------------------------------------------------------------
LastClose(a) ==
    LET priced == {d \in Days : Close[a][d] > 0}
    IN  IF priced = {} THEN 0 ELSE Close[a][Max(priced)]

NoBenchmark == [d \in Days |-> 1]

\* buildPortfolioResponse: unrealized and realized profit together.
TotalPnL(ledger) ==
    LET acc == Accounts(ledger)
        unrealized == [a \in Assets |-> acc.quantity[a] * (LastClose(a) - acc.average[a])]
    IN  acc.realized + SumFunction(unrealized)

\* The transactions of one asset, each at the close of its day and free.
AtClose(ledger, a) ==
    [i \in {j \in DOMAIN ledger : ledger[j].asset = a} |->
        [ledger[i] EXCEPT !.price = Close[a][ledger[i].day], !.fee = 0]]

PricedDaily == {a \in Assets : \A d \in Days : Close[a][d] > 0}

\* The ledger with one more transaction, created after all the others.
Recorded(ledger, t) ==
    LET i == Max(DOMAIN ledger \cup {0}) + 1
    IN  [j \in DOMAIN ledger \cup {i} |-> IF j = i THEN t ELSE ledger[j]]

\* The transactions before one of them, in the order of the replay.
Earlier(ledger, i) ==
    [j \in {k \in DOMAIN ledger : Before(ledger, k, i)} |-> ledger[j]]

\* The unit of money is small enough for the ledger: no purchase is rounded.
WholeAverages ==
    \A i \in DOMAIN rows : rows[i].type = "buy" =>
        LET acc == Accounts(Earlier(rows, i))
            held == acc.quantity[rows[i].asset]
            cost == held * acc.average[rows[i].asset] + Gross(rows[i]) + rows[i].fee
        IN  cost % (held + rows[i].quantity) = 0

\* The chart ends on the last date there is, and no transaction is later.
UpToDate(p) ==
    LET last == Max(Dates(rows, Close))
    IN  /\ p.points # << >>
        /\ p.points[Len(p.points)].day = last
        /\ \A i \in DOMAIN rows : rows[i].day <= last

\* The profit the comparison with the benchmark shows before it divides: the
\* value of the last point, and the cash taken out less the cash put in.
ChartProfit(p) == p.points[Len(p.points)].value + p.withdrawn - p.contributed

\* The replay has the price and the fee in the currency of the page.
Converted(t) == [t EXCEPT !.price = @ * Rate[t.asset], !.fee = @ * Rate[t.asset]]

-----------------------------------------------------------------------------
\* The two profits on one page agree: the one from average costs at the last
\* prices, and the one from the last point of the chart and the cash that went
\* through the account, for every order of purchases and sales, fees and
\* prices.  A last date that is left out and a transaction after it are
\* excluded: the chart knows nothing of them, and there the two differ.
ProfitAgrees ==
    LET p == Performance(rows, Close, NoBenchmark)
    IN  UpToDate(p) => TotalPnL(rows) = ChartProfit(p)

\* Cash that comes in or goes out moves neither the index nor the comparison:
\* with transactions at the close and without fees the index grows as the
\* price does between two valued dates, through purchases, partial sales and
\* selling out, and a portfolio of the benchmark itself has no excess over it.
IndexTracksClose ==
    \A a \in PricedDaily :
        LET points == Performance(AtClose(rows, a), Close, Close[a]).points
        IN  /\ \A n \in 1 .. Len(points) - 1 :
                  points[n].value > 0
                    => points[n + 1].growth[1] * Close[a][points[n].day]
                         = points[n + 1].growth[2] * Close[a][points[n + 1].day]
            /\ \A n \in DOMAIN points : points[n].benchmark = points[n].value

\* The preview of a transaction on the last day agrees with the replay of the
\* ledger it is recorded in.  The dialog hands it the average cost in the
\* currency of the page, and the price and the fee in the currency of the
\* trade: whether it is refused and the quantity are right in any, the average
\* and the profit where the two are the same.
PreviewAgrees ==
    \A t \in {u \in Inputs : u.day = Max(Days)} :
        LET before == Accounts(rows)
            after == Recorded(rows, Converted(t))
            shown == Preview(before.quantity[t.asset], before.average[t.asset], t)
        IN  /\ shown.valid = Holdings(after).ok
            /\ shown.valid => shown.quantity = Holdings(after).quantity[t.asset]
            /\ shown.valid /\ Rate[t.asset] = 1 =>
                  /\ shown.average = Accounts(after).average[t.asset]
                  /\ shown.realized = Accounts(after).realized - before.realized
=============================================================================
