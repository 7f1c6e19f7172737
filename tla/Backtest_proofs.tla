--------------------------- MODULE Backtest_proofs ---------------------------
(* Proofs about Backtest, checked by TLAPS, for every history, every period  *)
(* and whatever the indicators compute: no strategy but the two that look at *)
(* the end of the series decides from a bar that was not there, the account  *)
(* of a backtest balances, and a forward test ends with the signals of the   *)
(* backtest over the same bars.                                              *)
EXTENDS Backtest, TLAPS

LEMMA UptoIsSeq ==
    ASSUME NEW b \in Seq(Bar), NEW i \in 1 .. Len(b)
    PROVE  /\ Upto(b, i) \in Seq(Bar)
           /\ Len(Upto(b, i)) = i
           /\ DOMAIN Upto(b, i) = 1 .. i
           /\ \A j \in 1 .. i : Upto(b, i)[j] = b[j]
BY DEF Upto

LEMMA UptoUpto ==
    ASSUME NEW b \in Seq(Bar), NEW n \in 1 .. Len(b), NEW i \in 1 .. n
    PROVE  Upto(Upto(b, n), i) = Upto(b, i)
<1>1. i \in 1 .. Len(b)
  OBVIOUS
<1>2. /\ Upto(b, n) \in Seq(Bar) /\ Len(Upto(b, n)) = n
      /\ \A j \in 1 .. n : Upto(b, n)[j] = b[j]
  BY UptoIsSeq
<1>3. /\ Upto(Upto(b, n), i) \in Seq(Bar) /\ Len(Upto(Upto(b, n), i)) = i
      /\ \A j \in 1 .. i : Upto(Upto(b, n), i)[j] = Upto(b, n)[j]
  BY <1>2, UptoIsSeq
<1>4. /\ Upto(b, i) \in Seq(Bar) /\ Len(Upto(b, i)) = i
      /\ \A j \in 1 .. i : Upto(b, i)[j] = b[j]
  BY <1>1, UptoIsSeq
<1> QED
  BY <1>2, <1>3, <1>4

\* A window before a bar is the same in a history that ends at the bar.
LEMMA WindowUpto ==
    ASSUME NEW b \in Seq(Bar), NEW i \in 1 .. Len(b), NEW n \in 1 .. i, NEW m \in 1 .. i
    PROVE  SubSeq(Upto(b, i), n, m) = SubSeq(b, n, m)
<1>1. /\ Upto(b, i) \in Seq(Bar) /\ Len(Upto(b, i)) = i
      /\ \A j \in 1 .. i : Upto(b, i)[j] = b[j]
  BY UptoIsSeq
<1> QED
  BY <1>1

-----------------------------------------------------------------------------
(* Each strategy decides at a bar from the history up to it *)

LEMMA MaCrossCausal ==
    ASSUME NEW b \in Seq(Bar), NEW i \in 1 .. Len(b), NEW p \in BOOLEAN
    PROVE  MaCross(Upto(b, i), i, p) = MaCross(b, i, p)
BY UptoUpto DEF MaCross

LEMMA TurtleCausal ==
    ASSUME NEW b \in Seq(Bar), NEW i \in 1 .. Len(b), NEW p \in BOOLEAN
    PROVE  Turtle(Upto(b, i), i, p) = Turtle(b, i, p)
<1>1. CASE i <= EntryPeriod \/ i <= ExitPeriod
  BY <1>1 DEF Turtle
<1>2. CASE ~(i <= EntryPeriod \/ i <= ExitPeriod)
  <2>1. i - EntryPeriod \in 1 .. i /\ i - ExitPeriod \in 1 .. i /\ i - 1 \in 1 .. i
    BY <1>2, PeriodsAssumption
  <2>2. HighestBefore(Upto(b, i), i, EntryPeriod) = HighestBefore(b, i, EntryPeriod)
    BY <2>1, WindowUpto DEF HighestBefore
  <2>3. LowestBefore(Upto(b, i), i, ExitPeriod) = LowestBefore(b, i, ExitPeriod)
    BY <2>1, WindowUpto DEF LowestBefore
  <2>4. Upto(b, i)[i] = b[i]
    BY UptoIsSeq
  <2> QED
    BY <2>2, <2>3, <2>4 DEF Turtle
<1> QED
  BY <1>1, <1>2

LEMMA RollingCausal ==
    ASSUME NEW b \in Seq(Bar), NEW i \in 1 .. Len(b), NEW p \in BOOLEAN
    PROVE  Rolling(Upto(b, i), i, p) = Rolling(b, i, p)
<1>1. CASE i <= ConfirmationBars
  BY <1>1 DEF Rolling
<1>2. CASE ~(i <= ConfirmationBars)
  <2>1. i - ConfirmationBars + 1 \in 1 .. i /\ i \in 1 .. i
    BY <1>2, PeriodsAssumption
  <2>2. SubSeq(Upto(b, i), i - ConfirmationBars + 1, i) = SubSeq(b, i - ConfirmationBars + 1, i)
    BY <2>1, WindowUpto
  <2> QED
    BY <2>2 DEF Rolling
<1> QED
  BY <1>1, <1>2

LEMMA AbcdCausal ==
    ASSUME NEW b \in Seq(Bar), NEW i \in 1 .. Len(b), NEW p \in BOOLEAN
    PROVE  Abcd(Upto(b, i), i, p) = Abcd(b, i, p)
<1>1. Upto(Upto(b, i), i) = Upto(b, i)
  BY UptoUpto
<1> QED
  BY <1>1 DEF Abcd

LEMMA RsiCausal ==
    ASSUME NEW b \in Seq(Bar), NEW i \in 1 .. Len(b), NEW p \in BOOLEAN
    PROVE  RsiMeanReversion(Upto(b, i), i, p) = RsiMeanReversion(b, i, p)
<1>1. i \in DOMAIN b /\ i \in DOMAIN Upto(b, i)
  BY UptoIsSeq
<1>2. RsiSeries(Upto(b, i))[i] = RsiSeries(b)[i]
  BY <1>1, UptoUpto DEF RsiSeries
<1> QED
  BY <1>2 DEF RsiMeanReversion

LEMMA BollingerCausal ==
    ASSUME NEW b \in Seq(Bar), NEW i \in 1 .. Len(b), NEW p \in BOOLEAN
    PROVE  BollingerMeanReversion(Upto(b, i), i, p) = BollingerMeanReversion(b, i, p)
<1>1. i \in DOMAIN b /\ i \in DOMAIN Upto(b, i)
  BY UptoIsSeq
<1>2. BandSeries(Upto(b, i))[i] = BandSeries(b)[i]
  BY <1>1, UptoUpto DEF BandSeries
<1>3. Upto(b, i)[i] = b[i]
  BY UptoIsSeq
<1> QED
  BY <1>2, <1>3 DEF BollingerMeanReversion

LEMMA AtrCausal ==
    ASSUME NEW b \in Seq(Bar), NEW i \in 1 .. Len(b), NEW p \in BOOLEAN
    PROVE  AtrBreakout(Upto(b, i), i, p) = AtrBreakout(b, i, p)
<1>1. CASE i <= EntryPeriod \/ i <= ExitPeriod
  BY <1>1 DEF AtrBreakout
<1>2. CASE ~(i <= EntryPeriod \/ i <= ExitPeriod)
  <2>1. i - EntryPeriod \in 1 .. i /\ i - ExitPeriod \in 1 .. i /\ i - 1 \in 1 .. i
    BY <1>2, PeriodsAssumption
  <2>2. HighestBefore(Upto(b, i), i, EntryPeriod) = HighestBefore(b, i, EntryPeriod)
    BY <2>1, WindowUpto DEF HighestBefore
  <2>3. LowestBefore(Upto(b, i), i, ExitPeriod) = LowestBefore(b, i, ExitPeriod)
    BY <2>1, WindowUpto DEF LowestBefore
  <2>4. i \in DOMAIN b /\ i \in DOMAIN Upto(b, i) /\ Upto(b, i)[i] = b[i]
    BY UptoIsSeq
  <2>6. AtrSeries(Upto(b, i))[i] = AtrSeries(b)[i]
    BY <2>4, UptoUpto DEF AtrSeries
  <2> QED
    BY <2>2, <2>3, <2>4, <2>6 DEF AtrBreakout
<1> QED
  BY <1>1, <1>2

LEMMA SignalUpto ==
    ASSUME NEW c \in Catalog \ LooksAtTheEnd,
           NEW b \in Seq(Bar), NEW i \in 1 .. Len(b), NEW p \in BOOLEAN
    PROVE  Signal(c, Upto(b, i), i, p) = Signal(c, b, i, p)
BY MaCrossCausal, TurtleCausal, RollingCausal, AbcdCausal, RsiCausal, BollingerCausal, AtrCausal
   DEF Signal, Catalog, LooksAtTheEnd

\* The version that was loaded makes no difference.
LEMMA SignalCausal ==
    ASSUME NEW c \in Catalog \ LooksAtTheEnd,
           NEW b \in Seq(Bar), NEW n \in 1 .. Len(b), NEW i \in 1 .. n, NEW p \in BOOLEAN
    PROVE  Signal(c, Upto(b, n), i, p) = Signal(c, Upto(b, i), i, p)
<1>1. Upto(b, n) \in Seq(Bar) /\ Len(Upto(b, n)) = n
  BY UptoIsSeq
<1>2. Signal(c, Upto(Upto(b, n), i), i, p) = Signal(c, Upto(b, n), i, p)
  BY <1>1, SignalUpto
<1> QED
  BY <1>2, UptoUpto

-----------------------------------------------------------------------------
(* Amounts *)

LEMMA Division ==
    ASSUME NEW a \in Int, NEW d \in Nat \ {0}
    PROVE  /\ a \div d \in Int
           /\ (a \div d) * d <= a
           /\ a < (a \div d) * d + d
           /\ a >= 0 => a \div d >= 0
OBVIOUS

LEMMA ShareScaled ==
    ASSUME NEW a \in Int, NEW rate \in Nat
    PROVE  Share(a, rate) \in Int /\ Share(a, rate) * BPS <= a * rate
<1>1. BPS \in Nat \ {0} /\ a * rate \in Int
  BY AmountsAssumption
<1> QED
  BY <1>1, Division DEF Share

LEMMA ShareBounds ==
    ASSUME NEW a \in Int, NEW rate \in Nat
    PROVE  /\ Share(a, rate) \in Int
           /\ a >= 0 => Share(a, rate) >= 0
           /\ a >= 0 /\ rate <= BPS => Share(a, rate) <= a
<1> DEFINE share == Share(a, rate)
<1>1. BPS \in Nat \ {0} /\ a * rate \in Int
  BY AmountsAssumption
<1>2. share \in Int /\ share * BPS <= a * rate
  BY ShareScaled
<1>3. ASSUME a >= 0 PROVE share >= 0
  <2>1. a * rate >= 0
    BY <1>3
  <2> QED
    BY <1>1, <2>1, Division DEF Share
<1>4. ASSUME a >= 0, rate <= BPS PROVE share <= a
  <2>1. a * rate <= a * BPS
    BY <1>4, <1>1
  <2>2. share * BPS <= a * BPS
    BY <1>1, <1>2, <2>1
  <2> QED
    BY <1>1, <1>2, <2>2
<1> QED
  BY <1>2, <1>3, <1>4

LEMMA PricesPositive ==
    ASSUME NEW bar \in Bar
    PROVE  BuyPrice(bar) \in Nat \ {0} /\ SellPrice(bar) \in Nat
<1> DEFINE open == bar.open
           slippage == Share(open, SlippageRate)
<1>1. open \in Int /\ open > 0 /\ open >= 0
  BY DEF Bar, Price
<1>2. SlippageRate \in Nat /\ SlippageRate <= BPS
  BY AmountsAssumption
<1>3. slippage \in Int /\ slippage >= 0 /\ slippage <= open
  <2> HIDE DEF open
  <2> QED
    BY <1>1, <1>2, ShareBounds
<1>4. BuyPrice(bar) = open + slippage /\ SellPrice(bar) = open - slippage
  BY DEF BuyPrice, SellPrice
<1> HIDE DEF open, slippage
<1> QED
  BY <1>1, <1>3, <1>4

\* What is bought for a budget, with the fee, costs no more than the budget.
LEMMA Affordable ==
    ASSUME NEW budget \in Int, NEW bar \in Bar
    PROVE  /\ Units(budget, bar) \in Int
           /\ budget >= 0 =>
                /\ Units(budget, bar) >= 0
                /\ Units(budget, bar) * BuyPrice(bar)
                       + Share(Units(budget, bar) * BuyPrice(bar), FeeRate) <= budget
<1> DEFINE price == BuyPrice(bar)
           units == Units(budget, bar)
           value == units * price
           fee == Share(value, FeeRate)
<1>1. /\ BPS \in Nat \ {0} /\ FeeRate \in Nat
      /\ price \in Nat \ {0}
  BY AmountsAssumption, PricesPositive
<1>2. price * (BPS + FeeRate) \in Nat \ {0} /\ budget * BPS \in Int
  BY <1>1
<1>3. /\ units \in Int
      /\ units * (price * (BPS + FeeRate)) <= budget * BPS
  BY <1>2, Division DEF Units
<1>4. ASSUME budget >= 0 PROVE units >= 0 /\ value + fee <= budget
  <2>1. budget * BPS >= 0
    BY <1>1, <1>4
  <2>2. units >= 0
    BY <1>2, <2>1, Division DEF Units
  <2>3. value \in Int
    BY <1>1, <1>3
  <2>4. fee \in Int /\ fee * BPS <= value * FeeRate
    BY <1>1, <2>3, ShareScaled
  <2>5. units * (price * (BPS + FeeRate)) = value * BPS + value * FeeRate
    BY <1>1, <1>3
  <2>6. (value + fee) * BPS <= budget * BPS
    <3> HIDE DEF value, fee
    <3> QED
      BY <1>1, <1>3, <2>3, <2>5, <2>4
  <2>7. value + fee <= budget
    <3> HIDE DEF value, fee
    <3> QED
      BY <1>1, <2>3, <2>6, <2>4
  <2> QED
    BY <2>2, <2>7
<1> QED
  BY <1>3, <1>4

LEMMA LargerOfTwo ==
    ASSUME NEW x \in Int
    PROVE  /\ Max({0, x}) \in Int /\ Max({0, x}) >= 0
           /\ x >= 0 => Max({0, x}) = x
<1>1. \E m \in {0, x} : \A y \in {0, x} : m >= y
  <2>1. CASE x >= 0
    BY <2>1
  <2>2. CASE ~(x >= 0)
    BY <2>2
  <2> QED
    BY <2>1, <2>2
<1>2. Max({0, x}) \in {0, x} /\ \A y \in {0, x} : Max({0, x}) >= y
  BY <1>1 DEF Max
<1> QED
  BY <1>2

-----------------------------------------------------------------------------
(* Accounts *)

Orders == {None} \cup [action : {"buy", "sell"}, size : 1 .. 100]
Signals == [at : Nat, action : {"buy", "sell"}]

AccountInv(a) ==
    /\ {"at", "cash", "quantity", "fees", "contributed", "paid", "pending", "signals"}
          \subseteq DOMAIN a
    /\ a.at \in Nat
    /\ a.cash \in Int /\ a.quantity \in Int /\ a.fees \in Int /\ a.contributed \in Int
    /\ a.pending \in Orders
    /\ a.signals \in Seq(Signals)

Funded(a) == a.cash >= 0 /\ a.quantity >= 0

\* The fields that a fill leaves alone.
SameBut(a, b, fields) == DOMAIN b = DOMAIN a /\ \A f \in DOMAIN a \ fields : b[f] = a[f]

LEMMA BuyingEffect ==
    ASSUME NEW a, AccountInv(a), NEW units \in Int, NEW bar \in Bar
    PROVE  LET b == Buying(a, units, bar)
               fee == Share(units * BuyPrice(bar), FeeRate)
           IN  /\ AccountInv(b) /\ SameBut(a, b, {"cash", "quantity", "fees"})
               /\ fee \in Int
               /\ b.cash = a.cash - units * BuyPrice(bar) - fee
               /\ b.quantity = a.quantity + units /\ b.fees = a.fees + fee
<1> DEFINE value == units * BuyPrice(bar)
           fee == Share(value, FeeRate)
           b == Buying(a, units, bar)
<1>1. value \in Int
  BY PricesPositive
<1>2. fee \in Int
  BY <1>1, AmountsAssumption, ShareScaled
<1>3. b = [a EXCEPT !.cash = @ - value - fee, !.quantity = @ + units, !.fees = @ + fee]
  BY DEF Buying
<1> HIDE DEF value, fee, b
<1>4. /\ DOMAIN b = DOMAIN a
      /\ b.cash = a.cash - value - fee /\ b.quantity = a.quantity + units
      /\ b.fees = a.fees + fee
      /\ \A f \in DOMAIN a \ {"cash", "quantity", "fees"} : b[f] = a[f]
  BY <1>3 DEF AccountInv
<1>5. b.at = a.at /\ b.contributed = a.contributed /\ b.pending = a.pending
      /\ b.signals = a.signals
  BY <1>3 DEF AccountInv
<1>6. AccountInv(b)
  BY <1>1, <1>2, <1>4, <1>5 DEF AccountInv
<1> QED
  BY <1>2, <1>4, <1>6 DEF SameBut, value, fee, b

LEMMA SellingEffect ==
    ASSUME NEW a, AccountInv(a), NEW units \in Int, NEW bar \in Bar
    PROVE  LET b == Selling(a, units, bar)
           IN  /\ AccountInv(b) /\ SameBut(a, b, {"cash", "quantity", "fees"})
               /\ b.quantity = a.quantity - units
               /\ units >= 0 => b.cash >= a.cash
<1> DEFINE value == units * SellPrice(bar)
           fee == Share(value, FeeRate + SellTaxRate)
           b == Selling(a, units, bar)
<1>1. value \in Int /\ (units >= 0 => value >= 0)
  BY PricesPositive
<1>2. FeeRate + SellTaxRate \in Nat /\ FeeRate + SellTaxRate <= BPS
  BY AmountsAssumption
<1>3. fee \in Int
  BY <1>1, <1>2, ShareScaled
<1>4. ASSUME units >= 0 PROVE fee <= value
  BY <1>1, <1>2, <1>4, ShareBounds
<1>5. b = [a EXCEPT !.cash = @ + value - fee, !.quantity = @ - units, !.fees = @ + fee]
  BY DEF Selling
<1> HIDE DEF value, fee, b
<1>6. /\ DOMAIN b = DOMAIN a
      /\ b.cash = a.cash + value - fee /\ b.quantity = a.quantity - units
      /\ b.fees = a.fees + fee
      /\ \A f \in DOMAIN a \ {"cash", "quantity", "fees"} : b[f] = a[f]
  BY <1>5 DEF AccountInv
<1>7. b.at = a.at /\ b.contributed = a.contributed /\ b.pending = a.pending
      /\ b.signals = a.signals
  BY <1>5 DEF AccountInv
<1>8. AccountInv(b)
  BY <1>1, <1>3, <1>6, <1>7 DEF AccountInv
<1>9. a.cash \in Int
  BY DEF AccountInv
<1>10. units >= 0 => b.cash >= a.cash
  BY <1>1, <1>3, <1>4, <1>6, <1>9
<1> QED
  BY <1>6, <1>8, <1>10 DEF SameBut, b

LEMMA PendingDone ==
    ASSUME NEW a, AccountInv(a)
    PROVE  LET b == [a EXCEPT !.pending = None]
           IN  AccountInv(b) /\ SameBut(a, b, {"pending"})
BY DEF AccountInv, SameBut, Orders

LEMMA RecordingEffect ==
    ASSUME NEW a, AccountInv(a), NEW i \in Nat, NEW action \in {"none", "buy", "sell"},
           NEW size \in 1 .. 100
    PROVE  LET b == Recording(a, i, action, size)
           IN  /\ AccountInv(b) /\ SameBut(a, b, {"signals", "pending"})
               /\ b.signals = IF action = "none" THEN a.signals
                              ELSE Append(a.signals, [at |-> i, action |-> action])
<1> DEFINE signal == [at |-> i, action |-> action]
           order == [action |-> action, size |-> size]
           b == Recording(a, i, action, size)
<1>1. CASE action = "none"
  BY <1>1 DEF Recording, SameBut
<1>2. CASE action # "none"
  <2>1. signal \in Signals /\ order \in Orders
    BY <1>2 DEF Signals, Orders
  <2>2. b = [a EXCEPT !.signals = Append(@, signal), !.pending = order]
    BY <1>2 DEF Recording
  <2> HIDE DEF signal, order, b
  <2>3. /\ DOMAIN b = DOMAIN a /\ b.signals = Append(a.signals, signal) /\ b.pending = order
        /\ \A f \in DOMAIN a \ {"signals", "pending"} : b[f] = a[f]
    BY <2>2 DEF AccountInv
  <2>4. b.at = a.at /\ b.contributed = a.contributed /\ b.cash = a.cash
        /\ b.quantity = a.quantity /\ b.fees = a.fees
    BY <2>2 DEF AccountInv
  <2>5. Append(a.signals, signal) \in Seq(Signals)
    BY <2>1 DEF AccountInv
  <2>6. AccountInv(b)
    BY <2>1, <2>3, <2>4, <2>5 DEF AccountInv
  <2> QED
    BY <1>2, <2>3, <2>6 DEF SameBut, b, signal
<1> QED
  BY <1>1, <1>2

\* Filling a pending order: a rule never spends or sells more than there is.
LEMMA FillPendingEffect ==
    ASSUME NEW a, AccountInv(a), NEW bar \in Bar
    PROVE  LET b == FillPending(a, bar)
           IN  /\ AccountInv(b) /\ SameBut(a, b, {"cash", "quantity", "fees", "pending"})
               /\ Funded(a) => Funded(b)
<1> DEFINE order == a.pending
           spent == Buying(a, Units((a.cash * order.size) \div 100, bar), bar)
           sold == Selling(a, (a.quantity * order.size) \div 100, bar)
           buying == order # None /\ order.action = "buy" /\ a.cash > 0
           selling == order # None /\ order.action = "sell" /\ a.quantity > 0
           filled == IF order = None THEN a ELSE IF buying THEN spent
                     ELSE IF selling THEN sold ELSE a
           Good(f) == /\ AccountInv(f) /\ SameBut(a, f, {"cash", "quantity", "fees"})
                      /\ Funded(a) => Funded(f)
<1>1. ASSUME buying PROVE Good(spent)
  <2> DEFINE budget == (a.cash * order.size) \div 100
             units == Units(budget, bar)
  <2>1. order.size \in 1 .. 100 /\ a.cash \in Int /\ a.cash > 0 /\ a.quantity \in Int
    BY <1>1 DEF AccountInv, Orders
  <2>2. a.cash * order.size \in Int /\ a.cash * order.size >= 0
        /\ a.cash * order.size <= a.cash * 100
    BY <2>1
  <2>3. budget \in Int /\ budget >= 0 /\ budget <= a.cash
    BY <2>1, <2>2
  <2> HIDE DEF budget
  <2>4. units \in Int /\ units >= 0
        /\ units * BuyPrice(bar) + Share(units * BuyPrice(bar), FeeRate) <= budget
    BY <2>3, Affordable
  <2> HIDE DEF units
  <2> DEFINE value == units * BuyPrice(bar)
             fee == Share(value, FeeRate)
             b == Buying(a, units, bar)
  <2>5. /\ AccountInv(b) /\ SameBut(a, b, {"cash", "quantity", "fees"})
        /\ fee \in Int /\ b.cash = a.cash - value - fee /\ b.quantity = a.quantity + units
    BY <2>4, BuyingEffect
  <2>6. value \in Int /\ value + fee <= budget
    BY <2>4, PricesPositive
  <2> HIDE DEF value, fee, b
  <2>7. Funded(a) => Funded(b)
    BY <2>1, <2>3, <2>4, <2>5, <2>6 DEF Funded
  <2> QED
    BY <2>5, <2>7 DEF b, units, budget
<1>2. ASSUME selling PROVE Good(sold)
  <2> DEFINE units == (a.quantity * order.size) \div 100
             b == Selling(a, units, bar)
  <2>1. order.size \in 1 .. 100 /\ a.cash \in Int /\ a.quantity \in Int /\ a.quantity > 0
    BY <1>2 DEF AccountInv, Orders
  <2>2. a.quantity * order.size \in Int /\ a.quantity * order.size >= 0
        /\ a.quantity * order.size <= a.quantity * 100
    BY <2>1
  <2>3. units \in Int /\ units >= 0 /\ units <= a.quantity
    BY <2>1, <2>2
  <2> HIDE DEF units
  <2>4. /\ AccountInv(b) /\ SameBut(a, b, {"cash", "quantity", "fees"})
        /\ b.quantity = a.quantity - units /\ b.cash >= a.cash
    BY <2>3, SellingEffect
  <2>5. b.cash \in Int /\ b.quantity \in Int
    BY <2>4 DEF AccountInv
  <2> HIDE DEF b
  <2>6. Funded(a) => Funded(b)
    BY <2>1, <2>3, <2>4, <2>5 DEF Funded
  <2> QED
    BY <2>4, <2>6 DEF b, units
<1>3. Good(a)
  BY DEF SameBut
<1> HIDE DEF spent, sold, buying, selling, Good
<1>4. Good(filled)
  BY <1>1, <1>2, <1>3
<1>5. FillPending(a, bar) = [filled EXCEPT !.pending = None]
  BY DEF FillPending, spent, sold, buying, selling
<1> HIDE DEF filled
<1>6. AccountInv(filled) /\ SameBut(a, filled, {"cash", "quantity", "fees"})
      /\ (Funded(a) => Funded(filled))
  BY <1>4 DEF Good
<1>7. AccountInv(FillPending(a, bar)) /\ SameBut(filled, FillPending(a, bar), {"pending"})
  BY <1>5, <1>6, PendingDone
<1>8. SameBut(a, FillPending(a, bar), {"cash", "quantity", "fees", "pending"})
  BY <1>6, <1>7 DEF SameBut
<1>9. FillPending(a, bar).cash = filled.cash /\ FillPending(a, bar).quantity = filled.quantity
  BY <1>6, <1>7 DEF SameBut, AccountInv
<1> QED
  BY <1>6, <1>7, <1>8, <1>9 DEF Funded

LEMMA ContributedEffect ==
    ASSUME NEW a, AccountInv(a), NEW i \in Nat, bars[i] \in Bar, rule.amount \in Nat
    PROVE  LET b == Contributed(a, i)
           IN  AccountInv(b) /\ (Funded(a) => Funded(b)) /\ DOMAIN b = DOMAIN a
<1> DEFINE unpaid == Month(i) \in a.paid \/ (bars[i].date % 30) + 1 < rule.day
           amount == rule.amount
           bar == bars[i]
           units == Units(amount, bar)
           month == Month(i)
           funded == [a EXCEPT !.cash = @ + amount]
           bought == Buying(funded, units, bar)
           b == [bought EXCEPT !.contributed = @ + amount, !.paid = @ \cup {month},
                               !.signals = Append(@, [at |-> i, action |-> "buy"])]
<1>1. CASE unpaid
  BY <1>1 DEF Contributed
<1>2. CASE ~unpaid
  <2>1. Contributed(a, i) = b
    BY <1>2 DEF Contributed
  <2>2. amount \in Int /\ amount >= 0 /\ bar \in Bar
    OBVIOUS
  <2> HIDE DEF amount, bar
  <2>3. units \in Int /\ units >= 0
        /\ units * BuyPrice(bar) + Share(units * BuyPrice(bar), FeeRate) <= amount
    BY <2>2, Affordable
  <2>4. /\ AccountInv(funded) /\ DOMAIN funded = DOMAIN a
        /\ funded.cash = a.cash + amount /\ funded.quantity = a.quantity
    BY <2>2 DEF AccountInv
  <2> HIDE DEF units, funded, month
  <2> DEFINE value == units * BuyPrice(bar)
             fee == Share(value, FeeRate)
  <2>5. /\ AccountInv(bought) /\ SameBut(funded, bought, {"cash", "quantity", "fees"})
        /\ fee \in Int /\ bought.cash = funded.cash - value - fee
        /\ bought.quantity = funded.quantity + units
    BY <2>2, <2>3, <2>4, BuyingEffect
  <2>6. value \in Int /\ value + fee <= amount
    BY <2>2, <2>3, PricesPositive
  <2> HIDE DEF value, fee, bought
  <2>7. [at |-> i, action |-> "buy"] \in Signals
    BY DEF Signals
  <2>8. Append(bought.signals, [at |-> i, action |-> "buy"]) \in Seq(Signals)
    BY <2>5, <2>7 DEF AccountInv
  <2>9. /\ DOMAIN b = DOMAIN a
        /\ b.cash = bought.cash /\ b.quantity = bought.quantity /\ b.fees = bought.fees
        /\ b.at = bought.at /\ b.pending = bought.pending
        /\ b.contributed = bought.contributed + amount
        /\ b.signals = Append(bought.signals, [at |-> i, action |-> "buy"])
    BY <2>4, <2>5 DEF AccountInv, SameBut
  <2>10. AccountInv(b)
    BY <2>2, <2>5, <2>8, <2>9, SMTT(30) DEF AccountInv
  <2>11. a.cash \in Int /\ a.quantity \in Int
    BY DEF AccountInv
  <2>12. Funded(a) => Funded(b)
    BY <2>2, <2>3, <2>4, <2>5, <2>6, <2>9, <2>11, SMTT(30) DEF Funded
  <2> QED
    BY <2>1, <2>9, <2>10, <2>12
<1> QED
  BY <1>1, <1>2

-----------------------------------------------------------------------------
(* The sleeve of a catalog strategy *)

SleeveInv(a) ==
    /\ {"entryPrice", "entryFee", "borrowed", "financing", "realized", "trades"} \subseteq DOMAIN a
    /\ a.entryPrice \in Int /\ a.entryFee \in Int /\ a.borrowed \in Int
    /\ a.financing \in Int /\ a.realized \in Int /\ a.trades \in Int

\* Without a position there is no fee to account for.
Balanced(a) ==
    /\ a.cash + Invested(a) + a.financing = Capital + a.realized
    /\ a.quantity = 0 => a.entryFee = 0

Sleeve(a) == AccountInv(a) /\ SleeveInv(a) /\ Balanced(a)

LEMMA FinancedBalances ==
    ASSUME NEW a, Sleeve(a), NEW i \in Nat \ {0}, bars[i] \in Bar, i > 1 => bars[i - 1] \in Bar
    PROVE  LET b == Financed(a, i)
           IN  Sleeve(b) /\ SameBut(a, b, {"cash", "financing"})
<1> DEFINE days == bars[i].date - bars[i - 1].date
           cost == (a.borrowed * FinancingRate * days) \div (BPS * 365)
           charged == i > 1 /\ a.quantity > 0 /\ a.borrowed > 0
           b == [a EXCEPT !.cash = @ - cost, !.financing = @ + cost]
<1>1. CASE ~charged
  BY <1>1 DEF Financed, SameBut
<1>2. CASE charged
  <2>1. days \in Int
    BY <1>2 DEF Bar
  <2>2. FinancingRate \in Nat /\ BPS \in Nat \ {0} /\ a.borrowed \in Int
    BY AmountsAssumption DEF Sleeve, SleeveInv
  <2>3. a.borrowed * FinancingRate * days \in Int /\ BPS * 365 \in Nat \ {0}
    BY <2>1, <2>2
  <2>4. cost \in Int
    BY <2>3, Division
  <2>5. Financed(a, i) = b
    BY <1>2 DEF Financed
  <2> HIDE DEF days, cost
  <2>6. /\ DOMAIN b = DOMAIN a /\ b.cash = a.cash - cost /\ b.financing = a.financing + cost
        /\ \A f \in DOMAIN a \ {"cash", "financing"} : b[f] = a[f]
    BY DEF Sleeve, AccountInv, SleeveInv
  <2>7. SameBut(a, b, {"cash", "financing"})
    BY <2>6 DEF SameBut
  <2>8. /\ b.quantity = a.quantity /\ b.fees = a.fees /\ b.at = a.at /\ b.pending = a.pending
        /\ b.contributed = a.contributed /\ b.signals = a.signals
        /\ b.entryPrice = a.entryPrice /\ b.entryFee = a.entryFee /\ b.borrowed = a.borrowed
        /\ b.realized = a.realized /\ b.trades = a.trades
    BY DEF Sleeve, AccountInv, SleeveInv
  <2> HIDE DEF b
  <2>9. AccountInv(b) /\ SleeveInv(b)
    BY <2>4, <2>6, <2>8, SMTT(30) DEF Sleeve, AccountInv, SleeveInv
  <2>10. Invested(b) = Invested(a) /\ Invested(a) \in Int
    BY <2>8 DEF Invested, Sleeve, AccountInv, SleeveInv
  <2>11. a.cash \in Int /\ a.financing \in Int /\ a.realized \in Int /\ Capital \in Int
    BY AmountsAssumption DEF Sleeve, AccountInv, SleeveInv
  <2>12. Balanced(b)
    BY <2>4, <2>6, <2>8, <2>10, <2>11 DEF Sleeve, Balanced
  <2> QED
    BY <2>5, <2>7, <2>9, <2>12 DEF Sleeve
<1> QED
  BY <1>1, <1>2

LEMMA EnterBalances ==
    ASSUME NEW a, Sleeve(a), a.quantity = 0, NEW bar \in Bar
    PROVE  LET b == Enter(a, bar)
           IN  /\ Sleeve(b) /\ b.signals = a.signals /\ b.at = a.at /\ DOMAIN b = DOMAIN a
<1> DEFINE units == Units(Capital * Leverage, bar)
           price == BuyPrice(bar)
           value == units * price
           fee == Share(value, FeeRate)
           bought == Buying(a, units, bar)
           opened == [bought EXCEPT !.entryPrice = price, !.entryFee = bought.fees - a.fees]
           excess == Invested(opened) - Capital
           borrowed == Max({0, excess})
           b == [opened EXCEPT !.borrowed = borrowed]
<1>1. Capital \in Int /\ Capital * Leverage \in Int /\ FeeRate \in Nat /\ FeeRate <= BPS
  BY AmountsAssumption
<1>2. units \in Int
  BY <1>1, Affordable
<1>3. price \in Int /\ value \in Int
  BY <1>2, PricesPositive
<1>4. Enter(a, bar) = b
  BY DEF Enter
<1>5. AccountInv(a) /\ SleeveInv(a) /\ a.entryFee = 0 /\ Invested(a) = 0
  BY DEF Sleeve, Balanced, Invested, SleeveInv
<1> HIDE DEF units
<1>6. /\ AccountInv(bought) /\ SameBut(a, bought, {"cash", "quantity", "fees"})
      /\ fee \in Int /\ bought.cash = a.cash - value - fee
      /\ bought.quantity = units /\ bought.fees = a.fees + fee
  BY <1>2, <1>5, BuyingEffect
<1>7. units = 0 => fee = 0
  <2>1. SUFFICES ASSUME units = 0 PROVE fee = 0
    OBVIOUS
  <2>2. value = 0
    BY <2>1, <1>3
  <2>3. 0 <= Share(0, FeeRate) /\ Share(0, FeeRate) <= 0
    BY <1>1, ShareBounds
  <2>4. fee \in Int /\ fee = Share(0, FeeRate)
    BY <1>6, <2>2
  <2> QED
    BY <2>3, <2>4
<1> HIDE DEF price, bought
<1>8. /\ DOMAIN opened = DOMAIN a
      /\ opened.entryPrice = price /\ opened.entryFee = fee
      /\ opened.quantity = units
  <2>1. bought.fees - a.fees = fee
    BY <1>5, <1>6 DEF AccountInv
  <2> QED
    BY <1>5, <1>6, <2>1 DEF SameBut, AccountInv, SleeveInv
<1>9. Invested(opened) = value + fee
  BY <1>8 DEF Invested
<1>10. borrowed \in Int
  <2>1. excess \in Int
    <3> HIDE DEF opened, value, fee
    <3> QED
      BY <1>1, <1>3, <1>6, <1>9
  <2> HIDE DEF excess
  <2> QED
    BY <2>1, LargerOfTwo
<1>11. /\ DOMAIN b = DOMAIN a /\ b.entryPrice = price /\ b.entryFee = fee /\ b.quantity = units
       /\ b.borrowed = borrowed /\ b.cash = bought.cash /\ b.fees = bought.fees
       /\ b.at = bought.at /\ b.pending = bought.pending /\ b.contributed = bought.contributed
       /\ b.signals = bought.signals
  <2> HIDE DEF borrowed, opened
  <2>1. /\ DOMAIN b = DOMAIN opened /\ b.borrowed = borrowed
        /\ \A f \in DOMAIN opened \ {"borrowed"} : b[f] = opened[f]
    BY <1>5, <1>8 DEF SleeveInv
  <2>2. \A f \in DOMAIN bought \ {"entryPrice", "entryFee"} : opened[f] = bought[f]
    BY DEF opened
  <2> QED
    BY <1>5, <1>6, <1>8, <2>1, <2>2 DEF AccountInv, SleeveInv, SameBut
<1>12. b.realized = a.realized /\ b.financing = a.financing /\ b.trades = a.trades
       /\ b.at = a.at /\ b.signals = a.signals
  <2> HIDE DEF borrowed
  <2> QED
    BY <1>5, <1>6 DEF AccountInv, SleeveInv, SameBut
<1> HIDE DEF excess, borrowed, opened, b
<1>13. AccountInv(b) /\ SleeveInv(b)
  BY <1>3, <1>5, <1>6, <1>10, <1>11, <1>12 DEF AccountInv, SleeveInv
<1>14. Invested(b) = value + fee
  BY <1>11 DEF Invested
<1>15. a.cash \in Int /\ a.financing \in Int /\ a.realized \in Int
  BY <1>5 DEF AccountInv, SleeveInv
<1>16. a.cash + a.financing = Capital + a.realized
  BY <1>1, <1>5, <1>15 DEF Sleeve, Balanced
<1> HIDE DEF value, fee
<1>17. Balanced(b)
  BY <1>1, <1>3, <1>6, <1>7, <1>11, <1>12, <1>14, <1>15, <1>16 DEF Balanced
<1> QED
  BY <1>4, <1>11, <1>12, <1>13, <1>17 DEF Sleeve

LEMMA ExitBalances ==
    ASSUME NEW a, Sleeve(a), NEW bar \in Bar
    PROVE  LET b == Exit(a, bar)
           IN  /\ Sleeve(b) /\ b.signals = a.signals /\ b.at = a.at /\ DOMAIN b = DOMAIN a
<1> DEFINE sold == Selling(a, a.quantity, bar)
           realized == sold.cash - a.cash - Invested(a)
           b == [sold EXCEPT !.realized = @ + realized, !.trades = @ + 1,
                             !.entryPrice = 0, !.entryFee = 0, !.borrowed = 0]
<1>1. AccountInv(a) /\ SleeveInv(a) /\ a.quantity \in Int /\ a.cash \in Int
  BY DEF Sleeve, AccountInv
<1>2. /\ AccountInv(sold) /\ SameBut(a, sold, {"cash", "quantity", "fees"})
      /\ sold.quantity = a.quantity - a.quantity
  BY <1>1, SellingEffect
<1>3. Exit(a, bar) = b
  BY DEF Exit
<1> HIDE DEF sold
<1>4. Invested(a) \in Int /\ sold.cash \in Int /\ sold.quantity = 0
  BY <1>1, <1>2, SMTT(30) DEF Invested, AccountInv, SleeveInv
<1>5. realized \in Int
  BY <1>1, <1>4
<1>6. SleeveInv(sold) /\ sold.realized = a.realized /\ sold.financing = a.financing
      /\ sold.trades = a.trades /\ sold.at = a.at /\ sold.signals = a.signals
      /\ DOMAIN sold = DOMAIN a
  BY <1>1, <1>2 DEF SleeveInv, SameBut, AccountInv
<1> HIDE DEF realized
<1>7. /\ DOMAIN b = DOMAIN sold /\ b.realized = sold.realized + realized
      /\ b.trades = sold.trades + 1 /\ b.entryPrice = 0 /\ b.entryFee = 0 /\ b.borrowed = 0
      /\ \A f \in DOMAIN sold \ {"realized", "trades", "entryPrice", "entryFee", "borrowed"} :
            b[f] = sold[f]
  BY <1>6 DEF SleeveInv
<1> HIDE DEF b
<1>8. /\ b.cash = sold.cash /\ b.quantity = sold.quantity /\ b.fees = sold.fees
      /\ b.at = sold.at /\ b.pending = sold.pending /\ b.contributed = sold.contributed
      /\ b.signals = sold.signals /\ b.financing = sold.financing
  BY <1>2, <1>6, <1>7 DEF AccountInv, SleeveInv
<1>9. AccountInv(b) /\ SleeveInv(b)
  BY <1>2, <1>5, <1>6, <1>7, <1>8 DEF AccountInv, SleeveInv
<1>10. Invested(b) = 0
  BY <1>4, <1>7, <1>8 DEF Invested
<1>11. a.financing \in Int /\ a.realized \in Int /\ Capital \in Int
  BY <1>1, AmountsAssumption DEF SleeveInv
<1>12. a.cash + Invested(a) + a.financing = Capital + a.realized
  BY DEF Sleeve, Balanced
<1>13. b.cash + Invested(b) + b.financing = Capital + b.realized
  <2>1. realized = sold.cash - a.cash - Invested(a)
    BY DEF realized
  <2>2. b.cash = sold.cash /\ b.financing = a.financing /\ b.realized = a.realized + realized
    BY <1>6, <1>7, <1>8
  <2> QED
    BY <1>1, <1>4, <1>5, <1>10, <1>11, <1>12, <2>1, <2>2
<1>14. Balanced(b)
  BY <1>7, <1>13 DEF Balanced
<1> QED
  BY <1>3, <1>6, <1>7, <1>8, <1>9, <1>14 DEF Sleeve

LEMMA SleeveFillBalances ==
    ASSUME NEW a, Sleeve(a), NEW bar \in Bar
    PROVE  LET b == SleeveFill(a, bar)
           IN  /\ Sleeve(b) /\ b.signals = a.signals /\ b.at = a.at /\ DOMAIN b = DOMAIN a
<1> DEFINE order == a.pending
           filled == IF order = None THEN a
                     ELSE IF order.action = "buy" /\ a.quantity = 0 THEN Enter(a, bar)
                     ELSE IF order.action = "sell" /\ a.quantity > 0 THEN Exit(a, bar)
                     ELSE a
           b == [filled EXCEPT !.pending = None]
<1>1. /\ Sleeve(filled) /\ filled.signals = a.signals /\ filled.at = a.at
      /\ DOMAIN filled = DOMAIN a
  BY EnterBalances, ExitBalances
<1>2. SleeveFill(a, bar) = b
  BY DEF SleeveFill
<1> HIDE DEF filled
<1>3. AccountInv(b) /\ SameBut(filled, b, {"pending"})
  BY <1>1, PendingDone DEF Sleeve
<1> HIDE DEF b
<1>4. AccountInv(filled) /\ SleeveInv(filled) /\ Balanced(filled)
  BY <1>1 DEF Sleeve
<1>5. /\ b.cash = filled.cash /\ b.quantity = filled.quantity /\ b.financing = filled.financing
      /\ b.realized = filled.realized /\ b.entryPrice = filled.entryPrice
      /\ b.entryFee = filled.entryFee /\ b.borrowed = filled.borrowed
      /\ b.trades = filled.trades /\ b.signals = filled.signals /\ b.at = filled.at
      /\ DOMAIN b = DOMAIN filled
  BY <1>3, <1>4 DEF SameBut, AccountInv, SleeveInv
<1>6. SleeveInv(b) /\ Balanced(b)
  BY <1>4, <1>5 DEF SleeveInv, Balanced, Invested
<1> QED
  BY <1>1, <1>2, <1>3, <1>5, <1>6 DEF Sleeve

LEMMA SleeveRecording ==
    ASSUME NEW a, Sleeve(a), NEW i \in Nat, NEW action \in {"none", "buy", "sell"}
    PROVE  Sleeve(Recording(a, i, action, 100))
<1> DEFINE size == 100
           b == Recording(a, i, action, size)
<1>1. AccountInv(a) /\ SleeveInv(a) /\ Balanced(a)
  BY DEF Sleeve
<1>2. AccountInv(b) /\ SameBut(a, b, {"signals", "pending"})
  <2>1. size \in 1 .. 100
    OBVIOUS
  <2> HIDE DEF size
  <2> QED
    BY <1>1, <2>1, RecordingEffect
<1> HIDE DEF b
<1>3. /\ b.cash = a.cash /\ b.quantity = a.quantity /\ b.financing = a.financing
      /\ b.realized = a.realized /\ b.entryPrice = a.entryPrice /\ b.entryFee = a.entryFee
      /\ b.borrowed = a.borrowed /\ b.trades = a.trades /\ DOMAIN b = DOMAIN a
  BY <1>1, <1>2 DEF SameBut, AccountInv, SleeveInv
<1>4. SleeveInv(b) /\ Balanced(b)
  BY <1>1, <1>3 DEF SleeveInv, Balanced, Invested
<1> QED
  BY <1>2, <1>4 DEF Sleeve, b

-----------------------------------------------------------------------------
(* What a signal says of the position *)

Meaning(action, p) ==
    action \in {"none", "buy", "sell"} /\ (action = "buy" => ~p) /\ (action = "sell" => p)

LEMMA SignalMeaning ==
    ASSUME NEW c \in Catalog, NEW b, NEW i, NEW p \in BOOLEAN
    PROVE  Meaning(Signal(c, b, i, p), p)
<1>1. \A x, y : Meaning(Decided(x, y, p), p)
  BY DEF Decided, Meaning
<1>2. \A u, v, x, y : Meaning(Crossing(u, v, x, y, p), p)
  BY DEF Crossing, Meaning
<1>3. Meaning("none", p)
  BY DEF Meaning
<1>4. Meaning(MaCross(b, i, p), p)
  BY <1>2, <1>3 DEF MaCross
<1>5. Meaning(Turtle(b, i, p), p)
  BY <1>1, <1>3 DEF Turtle
<1>6. Meaning(Rolling(b, i, p), p)
  BY <1>1, <1>3 DEF Rolling
<1>7. Meaning(Abcd(b, i, p), p)
  BY <1>1, <1>3 DEF Abcd
<1>8. Meaning(EmaTrend(b, i, p), p)
  BY <1>2, <1>3 DEF EmaTrend
<1>9. Meaning(RsiMeanReversion(b, i, p), p)
  BY <1>1, <1>3 DEF RsiMeanReversion
<1>10. Meaning(BollingerMeanReversion(b, i, p), p)
  BY <1>1, <1>3 DEF BollingerMeanReversion
<1>11. Meaning(MacdMomentum(b, i, p), p)
  BY <1>2, <1>3 DEF MacdMomentum
<1>12. Meaning(AtrBreakout(b, i, p), p)
  BY <1>1, <1>3 DEF AtrBreakout
<1> QED
  BY <1>4, <1>5, <1>6, <1>7, <1>8, <1>9, <1>10, <1>11, <1>12
     DEF Signal, Catalog, LooksAtTheEnd

-----------------------------------------------------------------------------
(* The inductive invariant *)

ShapeInv ==
    /\ code \in Codes /\ (code = Custom => rule \in Rules)
    /\ bars \in Seq(Bar)
    /\ published \in 1 .. Len(bars)
    /\ fw.at \in 1 .. published /\ bt.at \in 0 .. Len(bars)
    /\ AccountInv(fw) /\ AccountInv(bt)
    /\ code # Custom => SleeveInv(bt)

MoneyInv == IF code # Custom THEN Balanced(bt) ELSE Funded(fw) /\ Funded(bt)

IInv == ShapeInv /\ MoneyInv

LEMMA InitIInv == Init => IInv
<1>1. SUFFICES ASSUME Init PROVE IInv
  OBVIOUS
<1>2. /\ code \in Codes /\ (code = Custom => rule \in Rules)
      /\ bars \in Seq(Bar) /\ published = Start /\ Start \in 1 .. Len(bars)
      /\ held \in Nat /\ Capital \in Nat
  BY <1>1, SeriesAssumption, AmountsAssumption DEF Init
<1> DEFINE close == bars[Start].close
           rest == Capital - held * close
           cash == Max({0, rest})
<1>3. cash \in Int /\ cash >= 0
  <2>1. close \in Nat
    <3>1. bars[Start] \in Bar
      BY <1>2
    <3> QED
      BY <3>1 DEF Bar, Price
  <2> HIDE DEF close
  <2>2. rest \in Int
    BY <1>2, <2>1
  <2> HIDE DEF rest
  <2> QED
    BY <2>2, LargerOfTwo
<1>4. fw = [at |-> Start, cash |-> cash, quantity |-> held, fees |-> 0,
            contributed |-> 0, paid |-> {}, pending |-> None, signals |-> <<>>]
  BY <1>1 DEF Init, Activated
<1> HIDE DEF cash
<1>5. AccountInv(fw) /\ Funded(fw) /\ fw.at = Start
  BY <1>2, <1>3, <1>4 DEF AccountInv, Orders, Signals, Funded
<1>6. bt = [at |-> 0, cash |-> Capital, quantity |-> 0, fees |-> 0, contributed |-> 0,
            paid |-> {}, pending |-> None, signals |-> <<>>, entryPrice |-> 0, entryFee |-> 0,
            borrowed |-> 0, financing |-> 0, realized |-> 0, trades |-> 0]
  BY <1>1 DEF Init
<1>7. AccountInv(bt) /\ SleeveInv(bt) /\ Funded(bt) /\ Balanced(bt) /\ bt.at = 0
  BY <1>2, <1>6 DEF AccountInv, SleeveInv, Orders, Signals, Funded, Balanced, Invested
<1> QED
  BY <1>2, <1>5, <1>7 DEF IInv, ShapeInv, MoneyInv

\* What the loop writes last: the bar is behind it.
LEMMA Advanced ==
    ASSUME NEW a, AccountInv(a), NEW i \in Nat
    PROVE  LET b == [a EXCEPT !.at = i]
           IN  /\ AccountInv(b) /\ b.at = i /\ SameBut(a, b, {"at"}) /\ b.signals = a.signals
               /\ Funded(a) => Funded(b)
               /\ SleeveInv(a) => SleeveInv(b)
               /\ SleeveInv(a) /\ Balanced(a) => Balanced(b)
<1> DEFINE b == [a EXCEPT !.at = i]
<1>1. /\ b.at = i /\ SameBut(a, b, {"at"}) /\ b.cash = a.cash /\ b.quantity = a.quantity
      /\ b.fees = a.fees /\ b.contributed = a.contributed /\ b.pending = a.pending
      /\ b.signals = a.signals /\ DOMAIN b = DOMAIN a
  BY DEF AccountInv, SameBut
<1>2. SleeveInv(a) => /\ b.entryPrice = a.entryPrice /\ b.entryFee = a.entryFee
                      /\ b.borrowed = a.borrowed /\ b.financing = a.financing
                      /\ b.realized = a.realized /\ b.trades = a.trades
  BY DEF SleeveInv
<1> HIDE DEF b
<1>3. AccountInv(b) /\ (Funded(a) => Funded(b))
  BY <1>1 DEF AccountInv, Funded
<1>4. SleeveInv(a) => SleeveInv(b)
  BY <1>1, <1>2 DEF SleeveInv
<1>5. SleeveInv(a) /\ Balanced(a) => Balanced(b)
  BY <1>1, <1>2 DEF Balanced, Invested
<1> QED
  BY <1>1, <1>3, <1>4, <1>5 DEF b

\* The outcomes of a bar, for an account that is at any bar before it.
LEMMA CustomOutcome ==
    ASSUME ShapeInv, code = Custom, NEW a, AccountInv(a), NEW i \in 1 .. Len(bars)
    PROVE  LET order == IF Crossed(i) THEN rule.action ELSE "none"
               late == IF i > 1 /\ Crossed(i) THEN rule.action ELSE "none"
               b == FillPending(a, bars[i])
               Fine(c) == AccountInv(c) /\ (Funded(a) => Funded(c))
           IN  /\ rule.kind = "price_threshold" =>
                      Fine(Recording(b, i, order, rule.size)) /\ Fine(Recording(b, i, late, rule.size))
               /\ rule.kind # "price_threshold" => Fine(Contributed(a, i))
<1> DEFINE order == IF Crossed(i) THEN rule.action ELSE "none"
           late == IF i > 1 /\ Crossed(i) THEN rule.action ELSE "none"
           b == FillPending(a, bars[i])
           Fine(c) == AccountInv(c) /\ (Funded(a) => Funded(c))
<1>1. bars[i] \in Bar /\ rule \in Rules /\ i \in Nat
  BY DEF ShapeInv
<1>2. Fine(b)
  BY <1>1, FillPendingEffect
<1>3. ASSUME rule.kind = "price_threshold"
      PROVE  Fine(Recording(b, i, order, rule.size)) /\ Fine(Recording(b, i, late, rule.size))
  <2>1. rule.size \in 1 .. 100 /\ order \in {"none", "buy", "sell"}
        /\ late \in {"none", "buy", "sell"}
    BY <1>1, <1>3, RulesAssumption
  <2> HIDE DEF order, late, b
  <2>2. ASSUME NEW action \in {"none", "buy", "sell"}
        PROVE  Fine(Recording(b, i, action, rule.size))
    <3> DEFINE c == Recording(b, i, action, rule.size)
    <3>1. AccountInv(c) /\ SameBut(b, c, {"signals", "pending"})
      BY <1>1, <1>2, <2>1, RecordingEffect
    <3> HIDE DEF c
    <3>2. c.cash = b.cash /\ c.quantity = b.quantity
      BY <1>2, <3>1 DEF SameBut, AccountInv
    <3> QED
      BY <1>2, <3>1, <3>2 DEF Funded, c
  <2> QED
    BY <2>1, <2>2
<1>4. ASSUME rule.kind # "price_threshold" PROVE Fine(Contributed(a, i))
  <2>1. rule.amount \in Nat
    BY <1>1, <1>4, RulesAssumption
  <2> QED
    BY <1>1, <2>1, ContributedEffect
<1> QED
  BY <1>3, <1>4

\* The outcomes of a bar for a catalog strategy.
LEMMA CatalogStep ==
    ASSUME NEW c \in Catalog, NEW b, NEW i \in Nat, NEW a, AccountInv(a)
    PROVE  LET action == Signal(c, b, i, a.quantity > 0)
           IN  /\ Meaning(action, a.quantity > 0)
               /\ AccountInv(Recording(a, i, action, 100))
               /\ Recording(a, i, action, 100).signals =
                      IF action = "none" THEN a.signals
                      ELSE Append(a.signals, [at |-> i, action |-> action])
<1> DEFINE p == a.quantity > 0
           action == Signal(c, b, i, p)
           size == 100
<1>1. p \in BOOLEAN
  BY DEF AccountInv
<1> HIDE DEF p
<1>2. Meaning(action, p)
  BY <1>1, SignalMeaning
<1>3. action \in {"none", "buy", "sell"} /\ size \in 1 .. 100
  BY <1>2 DEF Meaning
<1> HIDE DEF action, size
<1>4. AccountInv(Recording(a, i, action, size))
      /\ Recording(a, i, action, size).signals =
            IF action = "none" THEN a.signals
            ELSE Append(a.signals, [at |-> i, action |-> action])
  BY <1>3, RecordingEffect
<1> QED
  BY <1>2, <1>4 DEF action, size, p

LEMMA EvaluateBarIInv == IInv /\ EvaluateBar => IInv'
<1> SUFFICES ASSUME IInv, EvaluateBar PROVE IInv'
  OBVIOUS
<1> DEFINE i == fw.at + 1
<1>1. ShapeInv /\ MoneyInv
  BY DEF IInv
<1>2. i \in 1 .. published /\ i \in 1 .. Len(bars) /\ i \in Nat /\ AccountInv(fw)
  BY <1>1 DEF ShapeInv, EvaluateBar
<1>3. UNCHANGED <<code, rule, bars, held, published, bt>>
  BY DEF EvaluateBar
<1>4. CASE code # Custom
  <2> DEFINE filled == FillPending(fw, bars[i])
             history == Upto(bars, published)
             action == Signal(code, history, i, filled.quantity > 0)
             outcome == Recording(filled, i, action, 100)
  <2>1. code \in Catalog /\ bars[i] \in Bar
    BY <1>1, <1>2, <1>4, CodesAssumption DEF ShapeInv
  <2>2. AccountInv(filled)
    BY <1>2, <2>1, FillPendingEffect
  <2>3. fw' = [outcome EXCEPT !.at = i]
    BY <1>4 DEF EvaluateBar, CatalogOutcome
  <2> HIDE DEF i, filled, history
  <2>4. AccountInv(outcome)
    BY <1>2, <2>1, <2>2, CatalogStep
  <2> HIDE DEF outcome
  <2>5. AccountInv(fw') /\ fw'.at = i
    BY <1>2, <2>3, <2>4, Advanced
  <2> QED
    BY <1>1, <1>2, <1>3, <1>4, <2>5
       DEF IInv, ShapeInv, MoneyInv, AccountInv, SleeveInv, Balanced, Invested
<1>5. CASE code = Custom
  <2> DEFINE outcome == IF rule.kind = "price_threshold" THEN PriceOutcome(i) ELSE DcaOutcome(i)
  <2>1. AccountInv(outcome) /\ (Funded(fw) => Funded(outcome))
    BY <1>1, <1>2, <1>5, CustomOutcome DEF PriceOutcome, DcaOutcome
  <2>2. fw' = [outcome EXCEPT !.at = i]
    BY <1>5 DEF EvaluateBar
  <2> HIDE DEF i, outcome
  <2>3. AccountInv(fw') /\ fw'.at = i /\ (Funded(fw) => Funded(fw'))
    BY <1>2, <2>1, <2>2, Advanced
  <2> QED
    BY <1>1, <1>2, <1>3, <1>5, <2>3
       DEF IInv, ShapeInv, MoneyInv, AccountInv, SleeveInv, Funded
<1> QED
  BY <1>4, <1>5

LEMMA BacktestBarIInv == IInv /\ BacktestBar => IInv'
<1> SUFFICES ASSUME IInv, BacktestBar PROVE IInv'
  OBVIOUS
<1> DEFINE i == bt.at + 1
<1>1. ShapeInv /\ MoneyInv
  BY DEF IInv
<1>2. i \in 1 .. Len(bars) /\ i \in Nat \ {0} /\ AccountInv(bt)
  BY <1>1 DEF ShapeInv, BacktestBar
<1>3. UNCHANGED <<code, rule, bars, held, published, fw>>
  BY DEF BacktestBar
<1>4. CASE code # Custom
  <2> DEFINE financed == Financed(bt, i)
             filled == SleeveFill(financed, bars[i])
             action == Signal(code, bars, i, filled.quantity > 0)
             outcome == Recording(filled, i, action, 100)
  <2>1. code \in Catalog /\ bars[i] \in Bar /\ (i > 1 => bars[i - 1] \in Bar)
    BY <1>1, <1>2, <1>4, CodesAssumption DEF ShapeInv
  <2>2. Sleeve(bt)
    BY <1>1, <1>2, <1>4 DEF Sleeve, ShapeInv, MoneyInv
  <2>3. bt' = [outcome EXCEPT !.at = i]
    BY <1>4 DEF BacktestBar, SleeveBar
  <2> HIDE DEF i
  <2>4. Sleeve(financed)
    BY <1>2, <2>1, <2>2, FinancedBalances
  <2> HIDE DEF financed
  <2>5. Sleeve(filled)
    BY <2>1, <2>4, SleeveFillBalances
  <2> HIDE DEF filled
  <2>6. AccountInv(filled)
    BY <2>5 DEF Sleeve
  <2>7. action \in {"none", "buy", "sell"}
    BY <1>2, <2>1, <2>6, CatalogStep DEF Meaning
  <2> HIDE DEF action
  <2>8. Sleeve(outcome)
    BY <1>2, <2>5, <2>7, SleeveRecording
  <2> HIDE DEF outcome
  <2>9. AccountInv(bt') /\ bt'.at = i /\ SleeveInv(bt') /\ Balanced(bt')
    BY <1>2, <2>3, <2>8, Advanced DEF Sleeve
  <2> QED
    BY <1>1, <1>2, <1>3, <1>4, <2>9
       DEF IInv, ShapeInv, MoneyInv, AccountInv, SleeveInv, Balanced, Invested
<1>5. CASE code = Custom
  <2> DEFINE outcome == IF rule.kind = "price_threshold" THEN PriceThresholdBar(i)
                        ELSE ScheduledDcaBar(i)
  <2>1. AccountInv(outcome) /\ (Funded(bt) => Funded(outcome))
    BY <1>1, <1>2, <1>5, CustomOutcome DEF PriceThresholdBar, ScheduledDcaBar
  <2>2. bt' = [outcome EXCEPT !.at = i]
    BY <1>5 DEF BacktestBar
  <2> HIDE DEF i, outcome
  <2>3. AccountInv(bt') /\ bt'.at = i /\ (Funded(bt) => Funded(bt'))
    BY <1>2, <2>1, <2>2, Advanced
  <2> QED
    BY <1>1, <1>2, <1>3, <1>5, <2>3 DEF IInv, ShapeInv, MoneyInv, AccountInv, Funded
<1> QED
  BY <1>4, <1>5

LEMMA PublishIInv == IInv /\ Publish => IInv'
<1> SUFFICES ASSUME IInv, Publish PROVE IInv'
  OBVIOUS
<1>1. UNCHANGED <<code, rule, bars, held, fw, bt>>
  BY DEF Publish
<1>2. published' \in published .. Len(bars)
  BY SeriesAssumption DEF Publish, IInv, ShapeInv
<1> QED
  BY <1>1, <1>2
     DEF IInv, ShapeInv, MoneyInv, AccountInv, SleeveInv, Balanced, Invested, Funded

LEMMA NextIInv == IInv /\ [Next]_vars => IInv'
<1>1. IInv /\ UNCHANGED vars => IInv'
  BY DEF vars, IInv, ShapeInv, MoneyInv, AccountInv, SleeveInv, Balanced, Invested, Funded
<1> QED
  BY <1>1, EvaluateBarIInv, BacktestBarIInv, PublishIInv DEF Next

\* The account of a backtest balances at every bar, and a custom strategy
\* spends and sells what there is, in a backtest as in a forward test: for
\* every strategy, the two that look at the end of the series included.
THEOREM Balances == Spec => []AccountsBalance
<1>1. IInv => AccountsBalance
  BY DEF IInv, MoneyInv, Balanced, Funded, AccountsBalance
<1> QED
  BY <1>1, InitIInv, NextIInv, PTL DEF Spec

-----------------------------------------------------------------------------
(* Signals *)

SoundCodes == Codes \cap LooksAtTheEnd = {}

LEMMA RangeOfAppend ==
    ASSUME NEW S, NEW s \in Seq(S), NEW e \in S
    PROVE  Range(Append(s, e)) = Range(s) \cup {e}
BY SMTT(30) DEF Range

\* A decision at a bar of the history that is loaded is that of a history
\* that ends there.
LEMMA DecisionCausal ==
    ASSUME SoundCodes, ShapeInv, code # Custom, NEW n \in 1 .. Len(bars), NEW i \in 1 .. n,
           NEW p \in BOOLEAN, Signal(code, Upto(bars, n), i, p) # "none"
    PROVE  Causal([at |-> i, action |-> Signal(code, Upto(bars, n), i, p)])
<1> DEFINE action == Signal(code, Upto(bars, n), i, p)
<1>1. code \in Catalog /\ code \notin LooksAtTheEnd /\ bars \in Seq(Bar)
  BY CodesAssumption DEF SoundCodes, ShapeInv
<1>2. Meaning(action, p)
  BY <1>1, SignalMeaning
<1>3. action = Signal(code, Upto(bars, i), i, p)
  BY <1>1, SignalCausal
<1>4. p = (action = "sell")
  BY <1>2 DEF Meaning
<1> HIDE DEF action
<1> QED
  BY <1>3, <1>4 DEF Causal, action

LEMMA EvaluateBarCausal ==
    SoundCodes /\ IInv /\ SignalsCausal /\ EvaluateBar => SignalsCausal'
<1> SUFFICES ASSUME SoundCodes, IInv, SignalsCausal, EvaluateBar, code # Custom
             PROVE  SignalsCausal'
  BY DEF SignalsCausal, EvaluateBar
<1> DEFINE i == fw.at + 1
           filled == FillPending(fw, bars[i])
           p == filled.quantity > 0
           history == Upto(bars, published)
           action == Signal(code, history, i, p)
           signal == [at |-> i, action |-> action]
           outcome == Recording(filled, i, action, 100)
<1>1. ShapeInv /\ AccountInv(fw) /\ code \in Catalog
  BY CodesAssumption DEF IInv, ShapeInv
<1>2. published \in 1 .. Len(bars) /\ i \in 1 .. published /\ i \in Nat /\ bars[i] \in Bar
  BY <1>1 DEF ShapeInv, EvaluateBar
<1>3. AccountInv(filled) /\ filled.signals = fw.signals
  BY <1>1, <1>2, FillPendingEffect DEF SameBut, AccountInv
<1>4. UNCHANGED <<code, bars, bt>> /\ fw' = [outcome EXCEPT !.at = i]
  BY DEF EvaluateBar, CatalogOutcome
<1> HIDE DEF i, filled, history
<1>5. p \in BOOLEAN
  BY <1>3 DEF AccountInv
<1>6. /\ Meaning(action, p) /\ AccountInv(outcome)
      /\ outcome.signals = IF action = "none" THEN fw.signals ELSE Append(fw.signals, signal)
  <2>1. /\ Meaning(action, p) /\ AccountInv(outcome)
        /\ outcome.signals = IF action = "none" THEN filled.signals
                             ELSE Append(filled.signals, signal)
    BY <1>1, <1>2, <1>3, CatalogStep, ZenonT(60)
  <2> HIDE DEF action, outcome, signal, p
  <2> QED
    BY <1>3, <2>1
<1>7. action # "none" => Causal(signal)
  BY <1>1, <1>2, <1>5, DecisionCausal DEF history
<1>8. action # "none" => signal \in Signals
  BY <1>2, <1>6 DEF Meaning, Signals
<1> HIDE DEF outcome, signal, action
<1>9. fw'.signals = outcome.signals
  BY <1>2, <1>4, <1>6, Advanced
<1>10. Range(fw'.signals) \subseteq Range(fw.signals) \cup {signal}
       /\ (action = "none" => Range(fw'.signals) = Range(fw.signals))
  BY <1>1, <1>6, <1>8, <1>9, RangeOfAppend DEF AccountInv
<1>11. \A s \in Range(fw.signals) \cup Range(bt.signals) : Causal(s)
  BY DEF SignalsCausal
<1>12. \A s \in Range(fw'.signals) \cup Range(bt'.signals) : Causal(s)
  BY <1>4, <1>7, <1>10, <1>11
<1> QED
  BY <1>4, <1>12 DEF SignalsCausal, Causal

LEMMA BacktestBarCausal ==
    SoundCodes /\ IInv /\ SignalsCausal /\ BacktestBar => SignalsCausal'
<1> SUFFICES ASSUME SoundCodes, IInv, SignalsCausal, BacktestBar, code # Custom
             PROVE  SignalsCausal'
  BY DEF SignalsCausal, BacktestBar
<1> DEFINE i == bt.at + 1
           financed == Financed(bt, i)
           filled == SleeveFill(financed, bars[i])
           p == filled.quantity > 0
           action == Signal(code, bars, i, p)
           signal == [at |-> i, action |-> action]
           outcome == Recording(filled, i, action, 100)
<1>1. ShapeInv /\ AccountInv(bt) /\ Sleeve(bt) /\ code \in Catalog
  BY CodesAssumption DEF IInv, ShapeInv, MoneyInv, Sleeve
<1>2. /\ i \in 1 .. Len(bars) /\ i \in Nat \ {0} /\ bars[i] \in Bar
      /\ i > 1 => bars[i - 1] \in Bar
  BY <1>1 DEF ShapeInv, BacktestBar
<1>3. UNCHANGED <<code, bars, fw>> /\ bt' = [outcome EXCEPT !.at = i]
  BY DEF BacktestBar, SleeveBar
<1> HIDE DEF i
<1>4. Sleeve(financed) /\ financed.signals = bt.signals
  BY <1>1, <1>2, FinancedBalances DEF SameBut, AccountInv
<1> HIDE DEF financed
<1>5. AccountInv(filled) /\ filled.signals = bt.signals
  BY <1>2, <1>4, SleeveFillBalances DEF Sleeve
<1> HIDE DEF filled
<1>6. p \in BOOLEAN
  BY <1>5 DEF AccountInv
<1>7. bars = Upto(bars, Len(bars)) /\ Len(bars) \in 1 .. Len(bars)
  <2>1. bars \in Seq(Bar) /\ Len(bars) \in 1 .. Len(bars)
    BY <1>1, <1>2 DEF ShapeInv
  <2>2. /\ Upto(bars, Len(bars)) \in Seq(Bar) /\ Len(Upto(bars, Len(bars))) = Len(bars)
        /\ \A j \in 1 .. Len(bars) : Upto(bars, Len(bars))[j] = bars[j]
    BY <2>1, UptoIsSeq
  <2> QED
    BY <2>1, <2>2
<1>8. /\ Meaning(action, p) /\ AccountInv(outcome)
      /\ outcome.signals = IF action = "none" THEN bt.signals ELSE Append(bt.signals, signal)
  <2>1. /\ Meaning(action, p) /\ AccountInv(outcome)
        /\ outcome.signals = IF action = "none" THEN filled.signals
                             ELSE Append(filled.signals, signal)
    BY <1>1, <1>2, <1>5, CatalogStep, ZenonT(60)
  <2> HIDE DEF action, outcome, signal, p
  <2> QED
    BY <1>5, <2>1
<1>9. action # "none" => Causal(signal)
  <2> DEFINE n == Len(bars)
  <2>1. Signal(code, Upto(bars, n), i, p) = action
    BY <1>7
  <2>2. i \in 1 .. n /\ n \in 1 .. n
    BY <1>2, <1>7
  <2> HIDE DEF p
  <2>3. Signal(code, Upto(bars, n), i, p) # "none"
           => Causal([at |-> i, action |-> Signal(code, Upto(bars, n), i, p)])
    BY <1>1, <1>6, <2>2, DecisionCausal
  <2> HIDE DEF action, n
  <2> QED
    BY <2>1, <2>3
<1>10. action # "none" => signal \in Signals
  BY <1>2, <1>8 DEF Meaning, Signals
<1> HIDE DEF outcome, signal, action
<1>11. bt'.signals = outcome.signals
  BY <1>2, <1>3, <1>8, Advanced
<1>12. Range(bt'.signals) \subseteq Range(bt.signals) \cup {signal}
       /\ (action = "none" => Range(bt'.signals) = Range(bt.signals))
  BY <1>1, <1>8, <1>10, <1>11, RangeOfAppend DEF AccountInv
<1>13. \A s \in Range(fw.signals) \cup Range(bt.signals) : Causal(s)
  BY DEF SignalsCausal
<1>14. \A s \in Range(fw'.signals) \cup Range(bt'.signals) : Causal(s)
  BY <1>3, <1>9, <1>12, <1>13
<1> QED
  BY <1>3, <1>14 DEF SignalsCausal, Causal

\* No signal of a backtest or a forward test depends on a bar that came after
\* it, whatever the history, the periods and the indicators, unless the
\* strategy is one of the two that look at the end of the series.
THEOREM Causality ==
    ASSUME SoundCodes
    PROVE  Spec => []SignalsCausal
<1>1. Init => SignalsCausal
  BY DEF Init, Activated, SignalsCausal, Range
<1>2. IInv /\ SignalsCausal /\ [Next]_vars => SignalsCausal'
  <2>1. CASE Publish
    BY <2>1 DEF Publish, SignalsCausal, Causal
  <2>2. CASE EvaluateBar
    BY <2>2, EvaluateBarCausal
  <2>3. CASE BacktestBar
    BY <2>3, BacktestBarCausal
  <2>4. CASE UNCHANGED vars
    BY <2>4 DEF vars, SignalsCausal, Causal
  <2> QED
    BY <2>1, <2>2, <2>3, <2>4 DEF Next
<1> QED
  BY <1>1, <1>2, InitIInv, NextIInv, PTL DEF Spec

-----------------------------------------------------------------------------
(* The forward test and the backtest side by side: accounts that start alike *)
(* stay alike, bar after bar.                                                *)

\* What the evaluation makes of an account at a bar, whatever the version.
Evaluated(a, i) ==
    LET filled == FillPending(a, bars[i])
        outcome ==
            IF code # Custom
            THEN Recording(filled, i, Signal(code, bars, i, filled.quantity > 0), 100)
            ELSE IF rule.kind = "price_threshold"
                 THEN Recording(filled, i, IF Crossed(i) THEN rule.action ELSE "none", rule.size)
                 ELSE Contributed(a, i)
    IN  [outcome EXCEPT !.at = i]

\* Two accounts of a custom strategy differ in nothing it looks at.
Same(a, b) ==
    /\ a.cash = b.cash /\ a.quantity = b.quantity /\ a.fees = b.fees
    /\ a.contributed = b.contributed /\ a.paid = b.paid
    /\ a.pending = b.pending /\ a.signals = b.signals

\* Two accounts of a catalog strategy hold different numbers of units, and
\* money, but hold some at the same time, and wait for the same order.
BothHold(a, b) ==
    /\ a.quantity >= 0 /\ b.quantity >= 0
    /\ a.quantity > 0 <=> b.quantity > 0

OrderFits(a) ==
    a.pending # None => /\ a.pending.size = 100
                        /\ a.pending.action = "buy" <=> a.quantity = 0

Alike(a, b) == BothHold(a, b) /\ OrderFits(a) /\ a.signals = b.signals /\ a.pending = b.pending

\* A fill treats accounts that are the same in the same way.
LEMMA FillSame ==
    ASSUME NEW a, AccountInv(a), NEW b, AccountInv(b), Same(a, b), NEW bar \in Bar
    PROVE  Same(FillPending(a, bar), FillPending(b, bar))
<1> DEFINE order == a.pending
           bought == Units((a.cash * order.size) \div 100, bar)
           sold == (a.quantity * order.size) \div 100
<1>1. /\ \A units : Same(Buying(a, units, bar), Buying(b, units, bar))
      /\ \A units : Same(Selling(a, units, bar), Selling(b, units, bar))
      /\ \A units : {"cash", "quantity", "fees", "contributed", "paid", "pending", "signals"}
                        \subseteq DOMAIN Buying(a, units, bar) \cap DOMAIN Buying(b, units, bar)
      /\ \A units : {"cash", "quantity", "fees", "contributed", "paid", "pending", "signals"}
                        \subseteq DOMAIN Selling(a, units, bar) \cap DOMAIN Selling(b, units, bar)
  BY DEF Same, Buying, Selling, AccountInv
<1>2. ASSUME NEW c, NEW d, Same(c, d),
             {"cash", "quantity", "fees", "contributed", "paid", "pending", "signals"}
                 \subseteq DOMAIN c \cap DOMAIN d
      PROVE  Same([c EXCEPT !.pending = None], [d EXCEPT !.pending = None])
  BY <1>2 DEF Same
<1>3. CASE order = None
  BY <1>2, <1>3 DEF FillPending, Same, AccountInv
<1>4. CASE order # None /\ order.action = "buy" /\ a.cash > 0
  <2>1. /\ FillPending(a, bar) = [Buying(a, bought, bar) EXCEPT !.pending = None]
        /\ FillPending(b, bar) = [Buying(b, bought, bar) EXCEPT !.pending = None]
    BY <1>4 DEF FillPending, Same
  <2> QED
    BY <1>1, <1>2, <2>1
<1>5. CASE order # None /\ ~(order.action = "buy" /\ a.cash > 0)
             /\ order.action = "sell" /\ a.quantity > 0
  <2>1. /\ FillPending(a, bar) = [Selling(a, sold, bar) EXCEPT !.pending = None]
        /\ FillPending(b, bar) = [Selling(b, sold, bar) EXCEPT !.pending = None]
    BY <1>5 DEF FillPending, Same
  <2> QED
    BY <1>1, <1>2, <2>1
<1>6. CASE order # None /\ ~(order.action = "buy" /\ a.cash > 0)
             /\ ~(order.action = "sell" /\ a.quantity > 0)
  <2>1. /\ FillPending(a, bar) = [a EXCEPT !.pending = None]
        /\ FillPending(b, bar) = [b EXCEPT !.pending = None]
    BY <1>6 DEF FillPending, Same
  <2> QED
    BY <1>2, <2>1 DEF AccountInv
<1> QED
  BY <1>3, <1>4, <1>5, <1>6

\* So does a decision that does not depend on the account.
LEMMA RecordingSame ==
    ASSUME NEW a, AccountInv(a), NEW b, AccountInv(b), Same(a, b), NEW i, NEW action, NEW size
    PROVE  Same(Recording(a, i, action, size), Recording(b, i, action, size))
BY DEF Same, Recording, AccountInv

\* So does a contribution.
LEMMA ContributedSame ==
    ASSUME NEW a, AccountInv(a), NEW b, AccountInv(b), Same(a, b), NEW i
    PROVE  Same(Contributed(a, i), Contributed(b, i))
<1> DEFINE unpaid(c) == Month(i) \in c.paid \/ (bars[i].date % 30) + 1 < rule.day
           month == Month(i)
           units == Units(rule.amount, bars[i])
           funded(c) == [c EXCEPT !.cash = @ + rule.amount]
           spent(c) == Buying(funded(c), units, bars[i])
           paid(c) == [c EXCEPT !.contributed = @ + rule.amount, !.paid = @ \cup {month},
                                !.signals = Append(@, [at |-> i, action |-> "buy"])]
<1>1. CASE unpaid(a)
  BY <1>1 DEF Contributed, Same
<1>2. CASE ~unpaid(a)
  <2>1. \A c \in {a, b} : Contributed(c, i) = paid(spent(c))
    BY <1>2 DEF Contributed, Same
  <2> HIDE DEF units, month
  <2>2. Same(funded(a), funded(b)) /\ DOMAIN funded(a) = DOMAIN a /\ DOMAIN funded(b) = DOMAIN b
    BY DEF Same, AccountInv
  <2> HIDE DEF funded
  <2>3. Same(spent(a), spent(b)) /\ DOMAIN spent(a) = DOMAIN a /\ DOMAIN spent(b) = DOMAIN b
    BY <2>2 DEF Same, Buying, AccountInv
  <2> HIDE DEF spent
  <2>4. ASSUME NEW c, NEW d, Same(c, d), DOMAIN c = DOMAIN a, DOMAIN d = DOMAIN b
        PROVE  Same(paid(c), paid(d))
    <3>1. /\ paid(c).cash = c.cash /\ paid(d).cash = d.cash
          /\ paid(c).quantity = c.quantity /\ paid(d).quantity = d.quantity
          /\ paid(c).fees = c.fees /\ paid(d).fees = d.fees
          /\ paid(c).pending = c.pending /\ paid(d).pending = d.pending
      BY <2>4 DEF AccountInv
    <3>2. /\ paid(c).contributed = c.contributed + rule.amount
          /\ paid(d).contributed = d.contributed + rule.amount
          /\ paid(c).paid = c.paid \cup {month} /\ paid(d).paid = d.paid \cup {month}
          /\ paid(c).signals = Append(c.signals, [at |-> i, action |-> "buy"])
          /\ paid(d).signals = Append(d.signals, [at |-> i, action |-> "buy"])
      BY <2>4 DEF AccountInv
    <3> HIDE DEF paid
    <3> QED
      BY <2>4, <3>1, <3>2 DEF Same
  <2>5. Contributed(a, i) = paid(spent(a)) /\ Contributed(b, i) = paid(spent(b))
    BY <2>1
  <2> HIDE DEF paid
  <2> QED
    BY <2>3, <2>4, <2>5
<1> QED
  BY <1>1, <1>2

\* Orders of a catalog strategy leave both accounts with a position, or none.
LEMMA FillAlike ==
    ASSUME NEW a, AccountInv(a), NEW b, Sleeve(b), Alike(a, b),
           NEW i \in Nat \ {0}, bars[i] \in Bar, i > 1 => bars[i - 1] \in Bar,
           BuysUnits(a, i), Units(Capital * Leverage, bars[i]) > 0
    PROVE  LET c == FillPending(a, bars[i])
               d == SleeveFill(Financed(b, i), bars[i])
           IN  /\ AccountInv(c) /\ Sleeve(d) /\ BothHold(c, d)
               /\ c.signals = d.signals /\ c.pending = None /\ d.pending = None
<1> DEFINE bar == bars[i]
           e == Financed(b, i)
           c == FillPending(a, bar)
           d == SleeveFill(e, bar)
           order == a.pending
<1>1. Sleeve(e) /\ e.quantity = b.quantity /\ e.pending = b.pending /\ e.signals = b.signals
  <2>1. Sleeve(e) /\ SameBut(b, e, {"cash", "financing"})
    BY FinancedBalances
  <2> QED
    BY <2>1 DEF SameBut, Sleeve, AccountInv
<1> HIDE DEF e
<1>2. AccountInv(c) /\ c.signals = a.signals
  BY FillPendingEffect DEF SameBut, AccountInv
<1>3. Sleeve(d) /\ d.signals = e.signals
  BY <1>1, SleeveFillBalances
<1>4. AccountInv(a) /\ AccountInv(e) /\ "quantity" \in DOMAIN a /\ a.quantity \in Int
      /\ e.quantity \in Int /\ "pending" \in DOMAIN a /\ "pending" \in DOMAIN e
      /\ SleeveInv(e)
  BY <1>1 DEF Sleeve, AccountInv
<1>5. \A f : AccountInv(f) => /\ [f EXCEPT !.pending = None].quantity = f.quantity
                              /\ [f EXCEPT !.pending = None].pending = None
  BY DEF AccountInv
<1>6. BothHold(a, e) /\ a.pending = e.pending /\ OrderFits(a)
  BY <1>1 DEF Alike, BothHold
<1>7. c.signals = d.signals
  BY <1>1, <1>2, <1>3 DEF Alike
<1>8. CASE order = None
  <2>1. c = [a EXCEPT !.pending = None] /\ d = [e EXCEPT !.pending = None]
    BY <1>6, <1>8 DEF FillPending, SleeveFill
  <2>2. c.quantity = a.quantity /\ d.quantity = e.quantity /\ c.pending = None /\ d.pending = None
    BY <1>4, <1>5, <2>1
  <2> HIDE DEF c, d
  <2>3. BothHold(c, d)
    BY <1>6, <2>2 DEF BothHold
  <2> QED
    BY <1>2, <1>3, <1>7, <2>2, <2>3 DEF c, d, e, bar
<1>9. CASE order # None /\ a.quantity = 0
  <2> DEFINE bought == Units((a.cash * order.size) \div 100, bar)
             all == Units(Capital * Leverage, bar)
             filled == Buying(a, bought, bar)
             entered == Enter(e, bar)
  <2>1. order.action = "buy" /\ a.cash > 0 /\ bought > 0 /\ e.quantity = 0
    BY <1>4, <1>6, <1>9 DEF OrderFits, BuysUnits, BothHold
  <2>2. c = [filled EXCEPT !.pending = None] /\ d = [entered EXCEPT !.pending = None]
    BY <1>6, <1>9, <2>1 DEF FillPending, SleeveFill
  <2>3. bought \in Int /\ all \in Int
    <3>1. (a.cash * order.size) \div 100 \in Int
      <4>1. a.cash \in Int /\ order.size \in Int
        BY <1>6, <1>9 DEF AccountInv, OrderFits
      <4>2. a.cash * order.size \in Int
        BY <4>1
      <4> QED
        BY <4>2, Division
    <3>2. Capital * Leverage \in Int
      BY AmountsAssumption
    <3> QED
      BY <3>1, <3>2, Affordable
  <2>4. AccountInv(filled) /\ filled.quantity = bought
    <3> HIDE DEF bought, bar
    <3>1. bar \in Bar
      BY DEF bar
    <3> QED
      BY <1>4, <1>9, <2>3, <3>1, BuyingEffect
  <2>5. AccountInv(entered) /\ entered.quantity = all
    <3>1. AccountInv(entered)
      BY <1>1, <2>1, EnterBalances DEF Sleeve
    <3> DEFINE paid == Buying(e, all, bar)
    <3>2. AccountInv(paid) /\ paid.quantity = e.quantity + all /\ DOMAIN paid = DOMAIN e
      <4> HIDE DEF all, bar
      <4>1. bar \in Bar
        BY DEF bar
      <4> QED
        BY <1>4, <2>3, <4>1, BuyingEffect DEF SameBut
    <3>3. entered.quantity = paid.quantity
      <4> HIDE DEF paid
      <4> QED
        BY <3>2, <1>4 DEF Enter, SleeveInv, AccountInv, paid, all
    <3> QED
      BY <2>1, <2>3, <3>1, <3>2, <3>3
  <2> HIDE DEF filled, entered, bought, all, c, d
  <2>6. c.quantity = bought /\ d.quantity = all /\ c.pending = None /\ d.pending = None
    BY <1>5, <2>2, <2>4, <2>5 DEF c, d
  <2>7. all > 0
    BY DEF all
  <2>8. BothHold(c, d)
    BY <2>1, <2>3, <2>6, <2>7 DEF BothHold
  <2> QED
    BY <1>2, <1>3, <1>7, <2>6, <2>8 DEF c, d, e, bar
<1>10. CASE order # None /\ a.quantity # 0
  <2> DEFINE sold == (a.quantity * order.size) \div 100
             filled == Selling(a, sold, bar)
             left == Exit(e, bar)
  <2>1. order.size = 100 /\ order.action = "sell" /\ a.quantity > 0 /\ e.quantity > 0
    BY <1>4, <1>6, <1>10 DEF OrderFits, BothHold, AccountInv, Orders
  <2>2. sold = a.quantity
    BY <1>4, <2>1
  <2>3. c = [filled EXCEPT !.pending = None] /\ d = [left EXCEPT !.pending = None]
    BY <1>6, <1>10, <2>1 DEF FillPending, SleeveFill
  <2> HIDE DEF sold
  <2>4. AccountInv(filled) /\ filled.quantity = 0
    BY <1>4, <2>2, SellingEffect
  <2>5. AccountInv(left) /\ left.quantity = 0
    <3>1. AccountInv(left)
      BY <1>1, ExitBalances DEF Sleeve
    <3> DEFINE got == Selling(e, e.quantity, bar)
    <3>2. AccountInv(got) /\ got.quantity = 0 /\ DOMAIN got = DOMAIN e
      BY <1>4, SellingEffect DEF SameBut
    <3>3. left.quantity = got.quantity
      <4> HIDE DEF got
      <4> QED
        BY <3>2, <1>4 DEF Exit, SleeveInv, AccountInv, got
    <3> QED
      BY <3>1, <3>2, <3>3
  <2> HIDE DEF filled, left, c, d
  <2>6. c.quantity = 0 /\ d.quantity = 0 /\ c.pending = None /\ d.pending = None
    BY <1>5, <2>3, <2>4, <2>5 DEF c, d
  <2>7. BothHold(c, d)
    BY <2>6 DEF BothHold
  <2> QED
    BY <1>2, <1>3, <1>7, <2>6, <2>7 DEF c, d, e, bar
<1> QED
  BY <1>8, <1>9, <1>10

\* The decision that follows reads no more than whether there is a position.
LEMMA RecordingAlike ==
    ASSUME NEW c, AccountInv(c), NEW d, AccountInv(d), BothHold(c, d), c.signals = d.signals,
           c.pending = None, d.pending = None,
           NEW i \in Nat, NEW action, Meaning(action, c.quantity > 0)
    PROVE  Alike(Recording(c, i, action, 100), Recording(d, i, action, 100))
<1> DEFINE size == 100
           order == [action |-> action, size |-> size]
           e == Recording(c, i, action, size)
           f == Recording(d, i, action, size)
<1>1. CASE action = "none"
  BY <1>1 DEF Recording, Alike, OrderFits
<1>2. CASE action # "none"
  <2>1. size \in 1 .. 100 /\ action \in {"none", "buy", "sell"}
    BY DEF Meaning
  <2>2. e.pending = order /\ f.pending = order
    BY <1>2 DEF Recording, AccountInv
  <2>3. order.size = 100 /\ order.action = action
    OBVIOUS
  <2> HIDE DEF size, order
  <2>4. /\ AccountInv(e) /\ SameBut(c, e, {"signals", "pending"})
        /\ AccountInv(f) /\ SameBut(d, f, {"signals", "pending"})
    BY <2>1, RecordingEffect
  <2>5. e.signals = f.signals
    BY <1>2 DEF Recording, AccountInv
  <2> HIDE DEF e, f
  <2>6. e.quantity = c.quantity /\ f.quantity = d.quantity /\ c.quantity \in Int
    BY <2>4 DEF SameBut, AccountInv
  <2>7. BothHold(e, f)
    BY <2>6 DEF BothHold
  <2>8. action = "buy" <=> e.quantity = 0
    BY <1>2, <2>6, <2>7 DEF Meaning, BothHold
  <2>9. OrderFits(e)
    BY <2>2, <2>3, <2>8 DEF OrderFits
  <2> QED
    BY <2>2, <2>7, <2>9, <2>5 DEF Alike, e, f, size
<1> QED
  BY <1>1, <1>2

LEMMA AdvancedTogether ==
    ASSUME NEW a, AccountInv(a), NEW b, AccountInv(b), NEW i \in Nat
    PROVE  /\ Same(a, b) => Same([a EXCEPT !.at = i], [b EXCEPT !.at = i])
           /\ Alike(a, b) => Alike([a EXCEPT !.at = i], [b EXCEPT !.at = i])
<1> DEFINE c == [a EXCEPT !.at = i]
           d == [b EXCEPT !.at = i]
<1>1. /\ c.cash = a.cash /\ c.quantity = a.quantity /\ c.fees = a.fees
      /\ c.contributed = a.contributed /\ c.paid = a.paid
      /\ c.pending = a.pending /\ c.signals = a.signals
  BY DEF AccountInv
<1>2. /\ d.cash = b.cash /\ d.quantity = b.quantity /\ d.fees = b.fees
      /\ d.contributed = b.contributed /\ d.paid = b.paid
      /\ d.pending = b.pending /\ d.signals = b.signals
  BY DEF AccountInv
<1> HIDE DEF c, d
<1>3. Same(a, b) => Same(c, d)
  BY <1>1, <1>2 DEF Same
<1>4. Alike(a, b) => Alike(c, d)
  BY <1>1, <1>2 DEF Alike, BothHold, OrderFits
<1> QED
  BY <1>3, <1>4 DEF c, d

\* One bar of a catalog strategy.
LEMMA BarAlike ==
    ASSUME ShapeInv, code # Custom, NEW a, AccountInv(a), Sleeve(bt), Alike(a, bt),
           NEW i \in 1 .. Len(bars), BuysUnits(a, i), Units(Capital * Leverage, bars[i]) > 0
    PROVE  Alike(Evaluated(a, i), [SleeveBar(i) EXCEPT !.at = i])
<1> DEFINE c == FillPending(a, bars[i])
           d == SleeveFill(Financed(bt, i), bars[i])
           p == c.quantity > 0
           q == d.quantity > 0
           action == Signal(code, bars, i, p)
           e == Recording(c, i, action, 100)
           f == Recording(d, i, action, 100)
<1>1. /\ code \in Catalog /\ i \in Nat \ {0}
      /\ bars[i] \in Bar /\ (i > 1 => bars[i - 1] \in Bar)
  BY CodesAssumption DEF ShapeInv
<1>2. /\ AccountInv(c) /\ Sleeve(d) /\ BothHold(c, d)
      /\ c.signals = d.signals /\ c.pending = None /\ d.pending = None
  BY <1>1, FillAlike
<1>3. SleeveBar(i) = Recording(d, i, Signal(code, bars, i, q), 100)
  BY DEF SleeveBar
<1>4. Evaluated(a, i) = [e EXCEPT !.at = i]
  BY DEF Evaluated
<1> HIDE DEF c, d
<1>5. p = q /\ p \in BOOLEAN /\ AccountInv(d)
  BY <1>2 DEF BothHold, Sleeve
<1>6. SleeveBar(i) = f
  BY <1>3, <1>5
<1>7. Meaning(action, p)
  BY <1>1, <1>5, SignalMeaning
<1>8. AccountInv(e) /\ AccountInv(f)
  <2> DEFINE size == 100
  <2>1. action \in {"none", "buy", "sell"} /\ size \in 1 .. 100
    BY <1>7 DEF Meaning
  <2> HIDE DEF action, size
  <2>2. AccountInv(Recording(c, i, action, size)) /\ AccountInv(Recording(d, i, action, size))
    BY <1>1, <1>2, <1>5, <2>1, RecordingEffect
  <2> QED
    BY <2>2 DEF size
<1>9. Alike(e, f)
  <2> HIDE DEF action
  <2> QED
    BY <1>1, <1>2, <1>5, <1>7, RecordingAlike
<1> HIDE DEF e, f
<1>10. Alike([e EXCEPT !.at = i], [f EXCEPT !.at = i])
  BY <1>1, <1>8, <1>9, AdvancedTogether
<1> QED
  BY <1>4, <1>6, <1>10

\* One bar of a custom strategy, but for the first, which nothing comes before.
LEMMA BarSame ==
    ASSUME ShapeInv, code = Custom, NEW a, AccountInv(a), AccountInv(bt), Same(a, bt),
           NEW i \in 2 .. Len(bars)
    PROVE  /\ rule.kind = "price_threshold"
                  => Same(Evaluated(a, i), [PriceThresholdBar(i) EXCEPT !.at = i])
           /\ rule.kind # "price_threshold"
                  => Same(Evaluated(a, i), [ScheduledDcaBar(i) EXCEPT !.at = i])
<1> DEFINE action == IF Crossed(i) THEN rule.action ELSE "none"
           c == FillPending(a, bars[i])
           d == FillPending(bt, bars[i])
<1>1. bars[i] \in Bar /\ i \in Nat /\ i \in 1 .. Len(bars) /\ i > 1
  BY DEF ShapeInv
<1>2. ASSUME rule.kind = "price_threshold"
      PROVE  Same(Evaluated(a, i), [PriceThresholdBar(i) EXCEPT !.at = i])
  <2> DEFINE e == Recording(c, i, action, rule.size)
             f == Recording(d, i, action, rule.size)
  <2>1. AccountInv(c) /\ AccountInv(d) /\ Same(c, d)
    BY <1>1, FillPendingEffect, FillSame
  <2>2. AccountInv(e) /\ AccountInv(f)
    BY <1>1, <1>2, CustomOutcome
  <2>3. Evaluated(a, i) = [e EXCEPT !.at = i]
    BY <1>2 DEF Evaluated
  <2>4. PriceThresholdBar(i) = f
    BY <1>1 DEF PriceThresholdBar
  <2> HIDE DEF c, d, action
  <2>5. Same(e, f)
    BY <2>1, RecordingSame
  <2> HIDE DEF e, f
  <2>6. Same([e EXCEPT !.at = i], [f EXCEPT !.at = i])
    BY <1>1, <2>2, <2>5, AdvancedTogether
  <2> QED
    BY <2>3, <2>4, <2>6
<1>3. ASSUME rule.kind # "price_threshold"
      PROVE  Same(Evaluated(a, i), [ScheduledDcaBar(i) EXCEPT !.at = i])
  <2> DEFINE e == Contributed(a, i)
             f == Contributed(bt, i)
  <2>1. AccountInv(e) /\ AccountInv(f)
    BY <1>1, <1>3, CustomOutcome
  <2>2. Evaluated(a, i) = [e EXCEPT !.at = i]
    BY <1>3 DEF Evaluated
  <2>3. ScheduledDcaBar(i) = f
    BY DEF ScheduledDcaBar
  <2>4. Same(e, f)
    BY ContributedSame
  <2> HIDE DEF e, f
  <2>5. Same([e EXCEPT !.at = i], [f EXCEPT !.at = i])
    BY <1>1, <2>1, <2>4, AdvancedTogether
  <2> QED
    BY <2>2, <2>3, <2>5
<1> QED
  BY <1>2, <1>3

-----------------------------------------------------------------------------
(* The states the assignment went through, bar after bar *)

Trace(h) ==
    /\ h[Start] = Activated(held) /\ h[fw.at] = fw
    /\ \A i \in Start .. fw.at : AccountInv(h[i])
    /\ \A i \in Start .. fw.at - 1 :
          /\ h[i + 1] = Evaluated(h[i], i + 1)
          /\ code # Custom => BuysUnits(h[i], i + 1)

\* A backtest that has done nothing yet.
Idle(b) ==
    /\ b.pending = None /\ b.quantity = 0 /\ b.signals = <<>>
    /\ code = Custom => /\ b.cash = Capital /\ b.fees = 0
                        /\ b.contributed = 0 /\ b.paid = {}

Agree(a, b) == IF code = Custom THEN Same(a, b) ELSE Alike(a, b)

\* The two that LiveMatchesBacktest compares.
FreshStart == held = 0 /\ \A s \in Range(bt.signals) : s.at > Start

\* At every bar the backtest is where the assignment was at that bar.
LiveInv ==
    /\ fw.at >= Start
    /\ bt.at > 0 => fw.at = Len(bars)
    /\ \E h : /\ Trace(h)
              /\ FreshStart => IF bt.at < Start THEN Idle(bt) ELSE Agree(h[bt.at], bt)

\* The job gives a bar the same outcome in every version that has the bar.
LEMMA EvaluatedInAnyVersion ==
    ASSUME SoundCodes, ShapeInv, EvaluateBar
    PROVE  fw' = Evaluated(fw, fw.at + 1)
<1> DEFINE i == fw.at + 1
<1>1. i \in 1 .. published /\ published \in 1 .. Len(bars) /\ bars \in Seq(Bar)
      /\ i \in 1 .. Len(bars) /\ bars[i] \in Bar /\ AccountInv(fw)
  BY DEF ShapeInv, EvaluateBar
<1>2. CASE code # Custom
  <2> DEFINE filled == FillPending(fw, bars[i])
             p == filled.quantity > 0
  <2>1. code \in Catalog \ LooksAtTheEnd
    BY <1>2, CodesAssumption DEF SoundCodes, ShapeInv
  <2>2. p \in BOOLEAN
    <3>1. AccountInv(filled)
      BY <1>1, FillPendingEffect
    <3> HIDE DEF filled
    <3> QED
      BY <3>1 DEF AccountInv
  <2>3. fw' = [CatalogOutcome(i) EXCEPT !.at = i]
    BY <1>2 DEF EvaluateBar
  <2>4. CatalogOutcome(i) = Recording(filled, i, Signal(code, Upto(bars, published), i, p), 100)
    BY DEF CatalogOutcome
  <2>5. Evaluated(fw, i) = [Recording(filled, i, Signal(code, bars, i, p), 100) EXCEPT !.at = i]
    BY <1>2 DEF Evaluated
  <2> HIDE DEF i, p, filled
  <2>6. Signal(code, Upto(bars, published), i, p) = Signal(code, bars, i, p)
    BY <1>1, <2>1, <2>2, SignalCausal, SignalUpto
  <2> QED
    BY <2>3, <2>4, <2>5, <2>6 DEF i
<1>3. CASE code = Custom
  BY <1>3 DEF EvaluateBar, PriceOutcome, DcaOutcome, Evaluated
<1> QED
  BY <1>2, <1>3

\* Nothing but the strategy and the bars decides what a bar makes of an account.
LEMMA EvaluatedUnchanged ==
    ASSUME UNCHANGED <<code, rule, bars>>, NEW a, NEW i
    PROVE  Evaluated(a, i)' = Evaluated(a, i) /\ BuysUnits(a, i)' = BuysUnits(a, i)
BY DEF Evaluated, BuysUnits, Crossed, Contributed, Month

LEMMA InitLiveInv == Init => LiveInv
<1>1. SUFFICES ASSUME Init PROVE LiveInv
  OBVIOUS
<1>2. IInv
  BY <1>1, InitIInv
<1>3. fw.at = Start /\ fw = Activated(held) /\ AccountInv(fw) /\ Start \in Nat \ {0}
  BY <1>1, <1>2, SeriesAssumption DEF Init, Activated, IInv, ShapeInv
<1>4. bt.at = 0 /\ Idle(bt)
  BY <1>1 DEF Init, Idle
<1> PICK h : h = [j \in Nat |-> fw]
  OBVIOUS
<1>5. Trace(h)
  BY <1>3 DEF Trace
<1> QED
  BY <1>3, <1>4, <1>5 DEF LiveInv

LEMMA PublishLiveInv == LiveInv /\ Publish => LiveInv'
<1> SUFFICES ASSUME LiveInv, Publish PROVE LiveInv'
  OBVIOUS
<1>1. UNCHANGED <<code, rule, bars, held, fw, bt>>
  BY DEF Publish
<1> QED
  BY <1>1, EvaluatedUnchanged
     DEF LiveInv, Trace, FreshStart, Idle, Agree, Activated

LEMMA EvaluateBarLiveInv ==
    SoundCodes /\ IInv /\ IInv' /\ NoOrderTooSmall /\ LiveInv /\ EvaluateBar => LiveInv'
<1> SUFFICES ASSUME SoundCodes, IInv, IInv', NoOrderTooSmall, LiveInv, EvaluateBar
             PROVE  LiveInv'
  OBVIOUS
<1> DEFINE i == fw.at
<1>1. /\ ShapeInv /\ AccountInv(fw') /\ i \in Nat /\ i >= Start /\ Start \in Nat \ {0}
      /\ i < Len(bars) /\ Len(bars) \in Nat /\ bt.at = 0
  BY SeriesAssumption DEF IInv, ShapeInv, LiveInv, EvaluateBar
<1>2. UNCHANGED <<code, rule, bars, held, published, bt>>
  BY DEF EvaluateBar
<1>3. fw' = Evaluated(fw, i + 1)
  BY <1>1, EvaluatedInAnyVersion
<1>4. fw'.at = i + 1
  BY DEF EvaluateBar
<1>5. code # Custom => BuysUnits(fw, i + 1)
  BY <1>1 DEF NoOrderTooSmall
<1> PICK h : Trace(h) /\ (FreshStart => IF bt.at < Start THEN Idle(bt) ELSE Agree(h[bt.at], bt))
  BY DEF LiveInv
<1> PICK g : g = [j \in Nat |-> IF j <= i THEN h[j] ELSE fw']
  OBVIOUS
<1> HIDE DEF i
<1>6. /\ \A j \in Start .. i : g[j] = h[j]
      /\ g[i + 1] = fw'
  BY <1>1
<1>7. g[Start] = Activated(held) /\ g[i] = fw
  BY <1>1, <1>6 DEF Trace, i
<1>8. \A j \in Start .. i + 1 : AccountInv(g[j])
  BY <1>1, <1>6 DEF Trace, i
<1>9. ASSUME NEW j \in Start .. i
      PROVE  g[j + 1] = Evaluated(g[j], j + 1) /\ (code # Custom => BuysUnits(g[j], j + 1))
  <2>1. CASE j = i
    BY <1>3, <1>5, <1>6, <1>7, <2>1
  <2>2. CASE j # i
    <3>1. j \in Start .. i - 1 /\ j \in Start .. i /\ j + 1 \in Start .. i
      BY <1>1, <2>2
    <3> QED
      BY <3>1, <1>6 DEF Trace, i
  <2> QED
    BY <2>1, <2>2
<1>10. Trace(g)'
  <2>1. g[Start] = Activated(held)' /\ g[fw'.at] = fw'
    BY <1>2, <1>4, <1>6, <1>7 DEF Activated
  <2>2. \A j \in Start .. fw'.at : AccountInv(g[j])
    BY <1>4, <1>8
  <2>3. \A j \in Start .. fw'.at - 1 :
           /\ g[j + 1] = Evaluated(g[j], j + 1)'
           /\ code' # Custom => BuysUnits(g[j], j + 1)'
    <3>1. Start .. fw'.at - 1 = Start .. i
      BY <1>1, <1>4
    <3>2. ASSUME NEW a, NEW k
          PROVE  Evaluated(a, k)' = Evaluated(a, k) /\ BuysUnits(a, k)' = BuysUnits(a, k)
      BY <1>2, EvaluatedUnchanged
    <3>3. ASSUME NEW j \in Start .. i
          PROVE  /\ g[j + 1] = Evaluated(g[j], j + 1)'
                 /\ code' # Custom => BuysUnits(g[j], j + 1)'
      <4>1. g[j + 1] = Evaluated(g[j], j + 1) /\ (code # Custom => BuysUnits(g[j], j + 1))
        BY <1>9
      <4>2. Evaluated(g[j], j + 1)' = Evaluated(g[j], j + 1)
            /\ BuysUnits(g[j], j + 1)' = BuysUnits(g[j], j + 1)
        BY <3>2
      <4>3. code' = code
        BY <1>2
      <4> QED
        BY <4>1, <4>2, <4>3
    <3> QED
      BY <3>1, <3>3
  <2> QED
    BY <2>1, <2>2, <2>3 DEF Trace
<1>11. FreshStart' => Idle(bt)'
  BY <1>1, <1>2 DEF FreshStart, Idle
<1> QED
  BY <1>1, <1>2, <1>4, <1>10, <1>11 DEF LiveInv

\* A bar adds at most one signal to those of the backtest, its own.
LEMMA BacktestBarSignals ==
    ASSUME IInv, BacktestBar
    PROVE  \/ bt'.signals = bt.signals
           \/ \E s \in Signals : s.at = bt.at + 1 /\ bt'.signals = Append(bt.signals, s)
<1> DEFINE i == bt.at + 1
           Adds(c) == \/ c.signals = bt.signals
                      \/ \E s \in Signals : s.at = i /\ c.signals = Append(bt.signals, s)
<1>1. /\ ShapeInv /\ AccountInv(bt) /\ i \in Nat \ {0} /\ i \in 1 .. Len(bars)
      /\ bars[i] \in Bar /\ (i > 1 => bars[i - 1] \in Bar)
  BY DEF IInv, ShapeInv, BacktestBar
<1>2. ASSUME NEW a, AccountInv(a), a.signals = bt.signals,
             NEW action \in {"none", "buy", "sell"}, NEW size \in 1 .. 100
      PROVE  AccountInv(Recording(a, i, action, size)) /\ Adds(Recording(a, i, action, size))
  <2>1. action # "none" => [at |-> i, action |-> action] \in Signals
    BY <1>1 DEF Signals
  <2>2. /\ AccountInv(Recording(a, i, action, size))
        /\ Recording(a, i, action, size).signals =
              IF action = "none" THEN a.signals
              ELSE Append(a.signals, [at |-> i, action |-> action])
    BY <1>1, <1>2, RecordingEffect
  <2> QED
    BY <1>2, <2>1, <2>2
<1>3. ASSUME NEW c, AccountInv(c), Adds(c), bt' = [c EXCEPT !.at = i] PROVE Adds(bt')
  <2>1. bt'.signals = c.signals
    BY <1>3 DEF AccountInv
  <2> QED
    BY <1>3, <2>1
<1>4. CASE code # Custom
  <2> DEFINE financed == Financed(bt, i)
             filled == SleeveFill(financed, bars[i])
             action == Signal(code, bars, i, filled.quantity > 0)
             size == 100
  <2>1. code \in Catalog /\ Sleeve(bt)
    BY <1>1, <1>4, CodesAssumption DEF IInv, ShapeInv, MoneyInv, Sleeve
  <2>2. bt' = [Recording(filled, i, action, size) EXCEPT !.at = i]
    BY <1>4 DEF BacktestBar, SleeveBar
  <2>3. Sleeve(financed) /\ financed.signals = bt.signals
    BY <1>1, <2>1, FinancedBalances DEF SameBut, AccountInv
  <2> HIDE DEF financed
  <2>4. AccountInv(filled) /\ filled.signals = bt.signals
    BY <1>1, <2>3, SleeveFillBalances DEF Sleeve
  <2> HIDE DEF filled
  <2>5. action \in {"none", "buy", "sell"} /\ size \in 1 .. 100
    <3> DEFINE p == filled.quantity > 0
    <3>1. p \in BOOLEAN
      BY <2>4 DEF AccountInv
    <3> HIDE DEF p
    <3>2. Meaning(Signal(code, bars, i, p), p)
      BY <2>1, <3>1, SignalMeaning
    <3> QED
      BY <3>2 DEF Meaning, p
  <2> HIDE DEF action, size, i
  <2>6. AccountInv(Recording(filled, i, action, size)) /\ Adds(Recording(filled, i, action, size))
    BY <1>2, <2>4, <2>5
  <2>7. Adds(bt')
    BY <1>3, <2>2, <2>6
  <2> QED
    BY <2>7 DEF i
<1>5. CASE code = Custom /\ rule.kind = "price_threshold"
  <2> DEFINE filled == FillPending(bt, bars[i])
             action == IF i > 1 /\ Crossed(i) THEN rule.action ELSE "none"
  <2>1. rule.size \in 1 .. 100 /\ action \in {"none", "buy", "sell"}
    BY <1>1, <1>5, RulesAssumption DEF ShapeInv
  <2>2. bt' = [Recording(filled, i, action, rule.size) EXCEPT !.at = i]
    BY <1>5 DEF BacktestBar, PriceThresholdBar
  <2>3. AccountInv(filled) /\ filled.signals = bt.signals
    BY <1>1, FillPendingEffect DEF SameBut, AccountInv
  <2> HIDE DEF action, filled, i
  <2>4. AccountInv(Recording(filled, i, action, rule.size))
        /\ Adds(Recording(filled, i, action, rule.size))
    BY <1>2, <2>1, <2>3
  <2>5. Adds(bt')
    BY <1>3, <2>2, <2>4
  <2> QED
    BY <2>5 DEF i
<1>6. CASE code = Custom /\ rule.kind # "price_threshold"
  <2>1. bt' = [Contributed(bt, i) EXCEPT !.at = i]
    BY <1>6 DEF BacktestBar, ScheduledDcaBar
  <2>2. AccountInv(Contributed(bt, i))
    <3>1. rule.amount \in Nat
      BY <1>1, <1>6, RulesAssumption DEF ShapeInv
    <3> QED
      BY <1>1, <3>1, ContributedEffect
  <2>3. [at |-> i, action |-> "buy"] \in Signals
    BY <1>1 DEF Signals
  <2>4. Contributed(bt, i).signals \in
            {bt.signals, Append(bt.signals, [at |-> i, action |-> "buy"])}
    BY <1>1 DEF Contributed, Buying, AccountInv
  <2>5. Adds(Contributed(bt, i))
    BY <2>3, <2>4
  <2> HIDE DEF i
  <2>6. Adds(bt')
    BY <1>3, <2>1, <2>2, <2>5
  <2> QED
    BY <2>6 DEF i
<1> QED
  BY <1>4, <1>5, <1>6

\* Without a position and an order, a bar without a signal changes nothing.
LEMMA IdleBar ==
    ASSUME IInv, BacktestBar, Idle(bt), bt'.signals = <<>>
    PROVE  Idle(bt')
<1> DEFINE i == bt.at + 1
           filled == [bt EXCEPT !.pending = None]
<1>1. /\ AccountInv(bt) /\ bt.pending = None /\ bt.quantity = 0 /\ bt.signals = <<>>
      /\ "at" \in DOMAIN bt
  BY DEF Idle, IInv, ShapeInv, AccountInv
<1>2. AccountInv(filled) /\ Idle(filled)
  BY <1>1 DEF AccountInv, Idle, Orders
<1>3. \A x : Append(<<>>, x) # <<>>
  OBVIOUS
<1>4. ASSUME NEW a, AccountInv(a), Idle(a) PROVE Idle([a EXCEPT !.at = i])
  BY <1>4 DEF AccountInv, Idle
<1>5. ASSUME NEW action, NEW size, bt' = [Recording(filled, i, action, size) EXCEPT !.at = i]
      PROVE  Idle(bt')
  <2> HIDE DEF filled
  <2>1. CASE action = "none"
    <3>1. bt' = [filled EXCEPT !.at = i]
      BY <1>5, <2>1 DEF Recording
    <3> QED
      BY <1>2, <1>4, <3>1
  <2>2. CASE action # "none"
    <3>1. bt'.signals = Append(<<>>, [at |-> i, action |-> action])
      BY <1>2, <1>5, <2>2 DEF Recording, AccountInv, Idle
    <3> QED
      BY <1>3, <3>1
  <2> QED
    BY <2>1, <2>2
<1>6. CASE code # Custom
  <2>1. Financed(bt, i) = bt
    BY <1>1 DEF Financed
  <2>2. SleeveFill(bt, bars[i]) = filled
    BY <1>1 DEF SleeveFill
  <2>3. bt' = [Recording(filled, i, Signal(code, bars, i, filled.quantity > 0), 100) EXCEPT !.at = i]
    BY <1>6, <2>1, <2>2 DEF BacktestBar, SleeveBar
  <2> QED
    BY <1>5, <2>3
<1>7. CASE code = Custom /\ rule.kind = "price_threshold"
  <2>1. FillPending(bt, bars[i]) = filled
    BY <1>1 DEF FillPending
  <2>2. bt' = [Recording(filled, i, IF i > 1 /\ Crossed(i) THEN rule.action ELSE "none", rule.size)
                   EXCEPT !.at = i]
    BY <1>7, <2>1 DEF BacktestBar, PriceThresholdBar
  <2> QED
    BY <1>5, <2>2
<1>8. CASE code = Custom /\ rule.kind # "price_threshold"
  <2>1. bt' = [Contributed(bt, i) EXCEPT !.at = i]
    BY <1>8 DEF BacktestBar, ScheduledDcaBar
  <2>2. Contributed(bt, i) = bt
        \/ Contributed(bt, i).signals = Append(<<>>, [at |-> i, action |-> "buy"])
    BY <1>1 DEF Contributed, Buying, AccountInv
  <2>3. "signals" \in DOMAIN Contributed(bt, i)
    BY <1>1 DEF Contributed, Buying, AccountInv
  <2>4. bt'.signals = Contributed(bt, i).signals
    BY <2>1, <2>3
  <2>5. bt' = [bt EXCEPT !.at = i]
    BY <1>3, <2>1, <2>2, <2>4
  <2> QED
    BY <1>1, <1>4, <2>5
<1> QED
  BY <1>6, <1>7, <1>8

\* Where the assignment starts without a position, both start with the capital.
LEMMA IdleAgrees ==
    ASSUME IInv, Start \in 1 .. Len(bars), held = 0, NEW b, Idle(b)
    PROVE  Agree(Activated(held), b)
<1> DEFINE close == bars[Start].close
           value == held * close
           cash == Max({0, Capital - value})
           a == Activated(held)
<1>1. close \in Nat
  <2>1. bars[Start] \in Bar
    BY DEF IInv, ShapeInv
  <2> QED
    BY <2>1 DEF Bar, Price
<1>2. cash = Capital
  <2> HIDE DEF close
  <2>1. value = 0 /\ Capital \in Nat
    BY <1>1, AmountsAssumption
  <2>2. Capital - value = Capital
    BY <2>1
  <2> QED
    BY <2>1, <2>2, LargerOfTwo
<1>3. /\ a.cash = cash /\ a.quantity = 0 /\ a.fees = 0 /\ a.contributed = 0 /\ a.paid = {}
      /\ a.pending = None /\ a.signals = <<>>
  BY DEF Activated
<1> HIDE DEF cash, a
<1>4. CASE code = Custom
  BY <1>2, <1>3, <1>4 DEF Idle, Agree, Same, a
<1>5. CASE code # Custom
  <2>1. BothHold(a, b) /\ OrderFits(a)
    BY <1>3 DEF Idle, BothHold, OrderFits
  <2> QED
    BY <1>3, <1>5, <2>1 DEF Idle, Agree, Alike, a
<1> QED
  BY <1>4, <1>5

LEMMA BacktestBarLiveInv ==
    IInv /\ NoOrderTooSmall /\ LiveInv /\ BacktestBar => LiveInv'
<1> SUFFICES ASSUME IInv, NoOrderTooSmall, LiveInv, BacktestBar PROVE LiveInv'
  OBVIOUS
<1> DEFINE i == bt.at + 1
<1>1. /\ ShapeInv /\ AccountInv(bt) /\ fw.at = Len(bars) /\ bt.at \in Nat
      /\ Len(bars) \in Nat /\ Start \in Nat \ {0} /\ Start <= Len(bars) /\ i \in 1 .. Len(bars)
  BY SeriesAssumption DEF IInv, ShapeInv, BacktestBar, LiveInv
<1>2. UNCHANGED <<code, rule, bars, held, published, fw>> /\ bt'.at = i
  BY DEF BacktestBar
<1> PICK h : Trace(h) /\ (FreshStart => IF bt.at < Start THEN Idle(bt) ELSE Agree(h[bt.at], bt))
  BY DEF LiveInv
<1>3. Trace(h)'
  BY <1>2, EvaluatedUnchanged DEF Trace, Activated
<1>4. ASSUME FreshStart' PROVE IF i < Start THEN Idle(bt') ELSE Agree(h[i], bt')
  <2>1. /\ FreshStart
        /\ i <= Start => bt'.signals = bt.signals
    <3>1. CASE bt'.signals = bt.signals
      BY <1>2, <1>4, <3>1 DEF FreshStart
    <3>2. ASSUME NEW s \in Signals, s.at = i, bt'.signals = Append(bt.signals, s)
          PROVE  FreshStart /\ i > Start
      <4>1. Range(bt'.signals) = Range(bt.signals) \cup {s}
        BY <1>1, <3>2, RangeOfAppend DEF AccountInv
      <4> QED
        BY <1>2, <1>4, <3>2, <4>1 DEF FreshStart
    <3>3. i > Start => ~(i <= Start)
      BY <1>1
    <3> QED
      BY <3>1, <3>2, <3>3, BacktestBarSignals
  <2>2. CASE i <= Start
    <3>1. Idle(bt)
      BY <1>1, <2>1, <2>2
    <3>2. Idle(bt')
      BY <2>1, <2>2, <3>1, IdleBar DEF Idle
    <3>3. CASE i < Start
      BY <3>2, <3>3
    <3>4. CASE i = Start
      <4>1. Agree(Activated(held), bt')
        <5>1. held = 0 /\ Start \in 1 .. Len(bars)
          BY <1>1, <2>1 DEF FreshStart
        <5> QED
          BY <3>2, <5>1, IdleAgrees
      <4>2. h[i] = Activated(held)
        BY <3>4 DEF Trace
      <4> QED
        BY <1>1, <3>4, <4>1, <4>2
    <3> QED
      BY <1>1, <2>2, <3>3, <3>4
  <2>3. CASE i > Start
    <3> DEFINE j == bt.at
    <3>1. /\ j \in Start .. fw.at /\ j \in Start .. fw.at - 1
          /\ i = j + 1 /\ i \in 2 .. Len(bars) /\ ~(j < Start) /\ ~(i < Start)
      BY <1>1, <2>3
    <3>2. /\ Agree(h[j], bt) /\ AccountInv(h[j]) /\ h[i] = Evaluated(h[j], i)
          /\ code # Custom => BuysUnits(h[j], i)
      BY <2>1, <3>1 DEF Trace
    <3> HIDE DEF i, j
    <3>3. CASE code # Custom
      <4>1. Units(Capital * Leverage, bars[i]) > 0
        BY <1>1, <3>3 DEF NoOrderTooSmall
      <4>2. Sleeve(bt)
        BY <1>1, <3>3 DEF IInv, ShapeInv, MoneyInv, Sleeve
      <4>3. bt' = [SleeveBar(i) EXCEPT !.at = i]
        BY <3>3 DEF BacktestBar, i
      <4>4. Alike(h[j], bt)
        BY <3>2, <3>3 DEF Agree
      <4>5. Alike(h[i], bt')
        BY <1>1, <3>2, <3>3, <4>1, <4>2, <4>3, <4>4, BarAlike
      <4> QED
        BY <3>1, <3>3, <4>5 DEF Agree
    <3>4. CASE code = Custom
      <4>1. Same(h[j], bt)
        BY <3>2, <3>4 DEF Agree
      <4>2. Same(h[i], bt')
        <5>1. CASE rule.kind = "price_threshold"
          <6>1. bt' = [PriceThresholdBar(i) EXCEPT !.at = i]
            BY <3>4, <5>1 DEF BacktestBar, i
          <6> QED
            BY <1>1, <3>1, <3>2, <3>4, <4>1, <5>1, <6>1, BarSame
        <5>2. CASE rule.kind # "price_threshold"
          <6>1. bt' = [ScheduledDcaBar(i) EXCEPT !.at = i]
            BY <3>4, <5>2 DEF BacktestBar, i
          <6> QED
            BY <1>1, <3>1, <3>2, <3>4, <4>1, <5>2, <6>1, BarSame
        <5> QED
          BY <5>1, <5>2
      <4> QED
        BY <3>1, <3>4, <4>2 DEF Agree
    <3> QED
      BY <3>3, <3>4
  <2> QED
    BY <1>1, <2>2, <2>3
<1> QED
  BY <1>1, <1>2, <1>3, <1>4 DEF LiveInv, Idle, Agree

LEMMA NextLiveInv ==
    SoundCodes /\ IInv /\ IInv' /\ NoOrderTooSmall /\ LiveInv /\ [Next]_vars => LiveInv'
<1>1. LiveInv /\ UNCHANGED vars => LiveInv'
  BY EvaluatedUnchanged DEF vars, LiveInv, Trace, FreshStart, Idle, Agree, Activated
<1> QED
  BY <1>1, PublishLiveInv, EvaluateBarLiveInv, BacktestBarLiveInv DEF Next

\* A forward test that starts without a position ends with the signals of a
\* backtest over the same bars, and a custom strategy with its cash, units
\* and fees too, however the bars were cut into versions: as long as the
\* rounding of units leaves a catalog strategy something to buy.
THEOREM LiveIsBacktest ==
    ASSUME SoundCodes
    PROVE  Spec /\ []NoOrderTooSmall => []LiveMatchesBacktest
<1>1. IInv /\ LiveInv => LiveMatchesBacktest
  <2> SUFFICES ASSUME IInv, LiveInv, bt.at = Len(bars), FreshStart
               PROVE  /\ fw.signals = bt.signals
                      /\ code = Custom =>
                            /\ <<fw.cash, fw.quantity, fw.fees>> = <<bt.cash, bt.quantity, bt.fees>>
                            /\ fw.pending = bt.pending
    BY DEF LiveMatchesBacktest, FreshStart
  <2>1. bt.at > 0 /\ ~(bt.at < Start) /\ fw.at = bt.at
    BY SeriesAssumption DEF IInv, ShapeInv, LiveInv
  <2>2. Agree(fw, bt)
    BY <2>1 DEF LiveInv, Trace
  <2> QED
    BY <2>2 DEF Agree, Same, Alike
<1>2. IInv /\ IInv' /\ NoOrderTooSmall /\ LiveInv /\ [Next]_vars => LiveInv'
  BY NextLiveInv
<1> QED
  BY <1>1, <1>2, InitIInv, NextIInv, InitLiveInv, PTL DEF Spec
=============================================================================
