--------------------------- MODULE Portfolio_proofs ---------------------------
(* Proofs about Portfolio, for any number of requests, signals, assets and   *)
(* transactions.  What the handlers keep needs of the replay only that an    *)
(* empty ledger holds nothing; the types of the positions and the preview    *)
(* need what it computes, by induction over the parts of a ledger: the       *)
(* smallest part of which a claim is false has a latest transaction.  The    *)
(* profit and the index go through the dates of the performance in the same  *)
(* way, and through the transactions of each date.                           *)
EXTENDS Portfolio, FiniteSetTheorems, TLAPS

-----------------------------------------------------------------------------
(* Least elements: what the inductions over ledgers use.                     *)

\* A set of natural numbers that is not empty has a least member.
LEMMA LeastNatural ==
  ASSUME NEW N, N \subseteq Nat, N # {}
  PROVE  \E n \in N : \A m \in N : n <= m
<1>1. PICK n \in N : \A m \in N : ~(<<m, n>> \in OpToRel(<, Nat))
  BY NatLessThanWellFounded, WFMin
<1>2. ASSUME NEW m \in N
      PROVE  n <= m
  <2>1. <<m, n>> \notin OpToRel(<, Nat)
    BY <1>1
  <2>2. m \in Nat /\ n \in Nat
    OBVIOUS
  <2>3. ~(m < n)
    BY <2>1, <2>2 DEF OpToRel
  <2> QED
    BY <2>2, <2>3
<1> QED
  BY <1>2

\* Among the subsets of a finite set that have something in common, there is
\* one of which no smaller subset has it.
LEMMA MinimalSubset ==
  ASSUME NEW D, IsFiniteSet(D), NEW F, F \subseteq SUBSET D, F # {}
  PROVE  \E s \in F : \A x \in s : s \ {x} \notin F
<1> DEFINE sizes == {Cardinality(s) : s \in F}
<1>1. \A s \in F : IsFiniteSet(s) /\ Cardinality(s) \in Nat
  BY FS_Subset, FS_CardinalityType
<1>2. PICK n \in sizes : \A m \in sizes : n <= m
  <2>1. sizes \subseteq Nat /\ sizes # {}
    BY <1>1
  <2> HIDE DEF sizes
  <2> QED
    BY <2>1, LeastNatural
<1>3. PICK s \in F : n = Cardinality(s)
  BY <1>2
<1>4. ASSUME NEW x \in s, s \ {x} \in F
      PROVE  FALSE
  <2>1. Cardinality(s \ {x}) = Cardinality(s) - 1
    BY <1>1, FS_RemoveElement
  <2>2. n <= Cardinality(s \ {x})
    BY <1>2, <1>4
  <2> QED
    BY <1>1, <1>3, <2>1, <2>2
<1> QED
  BY <1>3, <1>4

-----------------------------------------------------------------------------
(* The order of the transactions of a ledger.                                *)

\* What the order and the replay need of a ledger.
Dated(ledger) ==
    /\ IsFiniteSet(DOMAIN ledger)
    /\ DOMAIN ledger \subseteq Nat
    /\ \A i \in DOMAIN ledger : ledger[i].day \in Nat

IsLatest(ledger, s, i) == i \in s /\ \A j \in s \ {i} : Before(ledger, j, i)

\* Any transactions of a ledger have a latest one, and one only.
LEMMA LatestIs ==
  ASSUME NEW ledger, Dated(ledger), NEW s, s \subseteq DOMAIN ledger, s # {}
  PROVE  /\ IsLatest(ledger, s, Latest(ledger, s))
         /\ \A i : IsLatest(ledger, s, i) => i = Latest(ledger, s)
<1> DEFINE D == DOMAIN ledger
           F == {u \in SUBSET D : u # {} /\ ~ \E i \in u : IsLatest(ledger, u, i)}
<1>1. \A i \in D : i \in Nat /\ ledger[i].day \in Nat
  BY DEF Dated
<1>2. F = {}
  <2> SUFFICES ASSUME F # {} PROVE FALSE
    OBVIOUS
  <2>1. PICK u \in F : \A x \in u : u \ {x} \notin F
    <3> HIDE DEF F
    <3>1. F \subseteq SUBSET D /\ IsFiniteSet(D)
      BY DEF F, Dated
    <3> QED
      BY <3>1, MinimalSubset
  <2>2. PICK x \in u : TRUE
    BY <2>1
  <2>3. CASE u \ {x} = {}
    BY <2>1, <2>2, <2>3 DEF IsLatest
  <2>4. CASE u \ {x} # {}
    <3>1. PICK y \in u \ {x} : IsLatest(ledger, u \ {x}, y)
      BY <2>1, <2>4
    <3>2. CASE Before(ledger, x, y)
      BY <2>1, <3>1, <3>2 DEF IsLatest
    <3>3. CASE ~Before(ledger, x, y)
      <4>1. Before(ledger, y, x)
        BY <1>1, <2>1, <3>1, <3>3 DEF Before
      <4>2. \A j \in u \ {x} : Before(ledger, j, x)
        BY <1>1, <2>1, <3>1, <4>1 DEF Before, IsLatest
      <4> QED
        BY <2>1, <2>2, <4>2 DEF IsLatest
    <3> QED
      BY <3>2, <3>3
  <2> QED
    BY <2>3, <2>4
<1>3. PICK i \in s : IsLatest(ledger, s, i)
  BY <1>2
<1>4. IsLatest(ledger, s, Latest(ledger, s))
  BY <1>3 DEF IsLatest, Latest
<1>5. ASSUME NEW j, IsLatest(ledger, s, j)
      PROVE  j = Latest(ledger, s)
  BY <1>1, <1>4, <1>5 DEF IsLatest, Before
<1> QED
  BY <1>4, <1>5

-----------------------------------------------------------------------------
(* The replay of a ledger, unfolded: both of its computations at once.       *)

BaseOf(kind) == IF kind = "holdings" THEN NoHoldings ELSE NoAccounts

ApplyOf(kind, result, t) ==
    IF kind = "holdings" THEN Trade(result, t)
    ELSE IF t.type = "buy" THEN Buy(result, t) ELSE Sell(result, t)

ReplayOf(kind, ledger) == IF kind = "holdings" THEN Holdings(ledger) ELSE Accounts(ledger)

\* g gives for each of some parts of the ledger what is there after it.
IsReplayOn(g, kind, ledger, parts) ==
    g = [s \in parts |->
            IF s = {} THEN BaseOf(kind)
            ELSE ApplyOf(kind, g[s \ {Latest(ledger, s)}], ledger[Latest(ledger, s)])]

IsReplay(g, kind, ledger) == IsReplayOn(g, kind, ledger, SUBSET (DOMAIN ledger))

UpTo(ledger, k) == {s \in SUBSET (DOMAIN ledger) : Cardinality(s) <= k}

\* There is a replay of the parts of at most k transactions, whatever k.
LEMMA ReplayUpTo ==
  ASSUME NEW kind, NEW ledger, Dated(ledger), NEW k \in Nat
  PROVE  \E g : IsReplayOn(g, kind, ledger, UpTo(ledger, k))
<1> DEFINE D == DOMAIN ledger
           Part(n) == UpTo(ledger, n)
           Step(g, s) == IF s = {} THEN BaseOf(kind)
                         ELSE ApplyOf(kind, g[s \ {Latest(ledger, s)}], ledger[Latest(ledger, s)])
           bad == {n \in Nat : ~ \E g : IsReplayOn(g, kind, ledger, Part(n))}
<1> USE DEF UpTo
<1>1. \A u \in SUBSET D : IsFiniteSet(u) /\ Cardinality(u) \in Nat
  BY FS_Subset, FS_CardinalityType DEF Dated
<1>2. \A u \in SUBSET D : u # {} =>
          /\ u \ {Latest(ledger, u)} \in SUBSET D
          /\ Cardinality(u \ {Latest(ledger, u)}) = Cardinality(u) - 1
          /\ Cardinality(u) # 0
  BY <1>1, LatestIs, FS_RemoveElement, FS_EmptySet DEF IsLatest
<1>3. bad = {}
  <2> SUFFICES ASSUME bad # {} PROVE FALSE
    OBVIOUS
  <2>1. PICK n \in bad : \A m \in bad : n <= m
    <3>1. bad \subseteq Nat
      OBVIOUS
    <3> HIDE DEF bad
    <3> QED
      BY <3>1, LeastNatural
  <2>2. n \in Nat /\ ~ \E g : IsReplayOn(g, kind, ledger, Part(n))
    BY <2>1
  <2>3. CASE n = 0
    <3> DEFINE h == [s \in Part(n) |-> BaseOf(kind)]
    <3>1. \A s \in Part(n) : s = {}
      BY <1>1, <2>3, FS_EmptySet
    <3>2. h = [s \in Part(n) |-> Step(h, s)]
      BY <3>1
    <3> QED
      BY <2>2, <3>2 DEF IsReplayOn
  <2>4. CASE n # 0
    <3>1. n - 1 \in Nat /\ n - 1 \notin bad
      <4>1. n - 1 \in Nat /\ ~(n <= n - 1)
        BY <2>2, <2>4
      <4> HIDE DEF bad
      <4> QED
        BY <2>1, <4>1
    <3>2. PICK g : IsReplayOn(g, kind, ledger, Part(n - 1))
      BY <3>1
    <3> DEFINE h == [s \in Part(n) |-> Step(g, s)]
    <3>3. \A s \in Part(n) : s # {} =>
              /\ s \ {Latest(ledger, s)} \in Part(n - 1)
              /\ s \ {Latest(ledger, s)} \in Part(n)
      BY <1>1, <1>2, <2>2
    <3>4. \A s \in Part(n - 1) : s \in Part(n) /\ h[s] = g[s]
      <4>1. \A s \in Part(n - 1) : s \in Part(n)
        BY <1>1, <2>2
      <4>2. \A s \in Part(n - 1) : g[s] = Step(g, s)
        BY <3>2 DEF IsReplayOn
      <4> HIDE DEF Step
      <4> QED
        BY <4>1, <4>2
    <3>5. \A s \in Part(n) : Step(g, s) = Step(h, s)
      <4> HIDE DEF h, Part
      <4> QED BY <3>3, <3>4
    <3>6. h = [s \in Part(n) |-> Step(h, s)]
      <4> HIDE DEF Step, Part
      <4> QED BY <3>5
    <3> QED
      BY <2>2, <3>6 DEF IsReplayOn
  <2> QED
    BY <2>3, <2>4
<1>4. k \notin bad
  BY <1>3
<1> QED
  BY <1>4

\* Every ledger has a replay, and the operators of the model are its result.
LEMMA ReplayExists ==
  ASSUME NEW kind \in {"holdings", "accounts"}, NEW ledger, Dated(ledger)
  PROVE  \E g : IsReplay(g, kind, ledger) /\ ReplayOf(kind, ledger) = g[DOMAIN ledger]
<1> DEFINE D == DOMAIN ledger
           n == Cardinality(D)
           Step(g, s) == IF s = {} THEN BaseOf(kind)
                         ELSE ApplyOf(kind, g[s \ {Latest(ledger, s)}], ledger[Latest(ledger, s)])
<1>1. n \in Nat /\ UpTo(ledger, n) = SUBSET D
  BY FS_Subset, FS_CardinalityType DEF Dated, UpTo
<1>2. \E g : g = [s \in SUBSET D |-> Step(g, s)]
  <2>1. \E g : IsReplayOn(g, kind, ledger, SUBSET D)
    <3> HIDE DEF n
    <3>1. \E g : IsReplayOn(g, kind, ledger, UpTo(ledger, n))
      BY <1>1, ReplayUpTo
    <3> QED
      BY <1>1, <3>1
  <2>2. PICK g : IsReplayOn(g, kind, ledger, SUBSET D)
    BY <2>1
  <2>3. g = [s \in SUBSET D |-> Step(g, s)]
    BY <2>2 DEF IsReplayOn
  <2> QED
    BY <2>3
<1>3. CASE kind = "holdings"
  <2> DEFINE iter == CHOOSE g : g = [s \in SUBSET D |->
                 IF s = {} THEN NoHoldings
                 ELSE Trade(g[s \ {Latest(ledger, s)}], ledger[Latest(ledger, s)])]
  <2>1. Holdings(ledger) = iter[D]
    BY DEF Holdings, FoldLedger, MapThenFoldSet
  <2>2. iter = [s \in SUBSET D |->
                 IF s = {} THEN NoHoldings
                 ELSE Trade(iter[s \ {Latest(ledger, s)}], ledger[Latest(ledger, s)])]
    BY <1>2, <1>3 DEF BaseOf, ApplyOf
  <2>3. IsReplay(iter, kind, ledger)
    <3> HIDE DEF iter
    <3> QED BY <2>2, <1>3 DEF IsReplay, IsReplayOn, BaseOf, ApplyOf
  <2> QED
    BY <2>1, <2>3, <1>3 DEF ReplayOf
<1>4. CASE kind = "accounts"
  <2> DEFINE iter == CHOOSE g : g = [s \in SUBSET D |->
                 IF s = {} THEN NoAccounts
                 ELSE IF ledger[Latest(ledger, s)].type = "buy"
                      THEN Buy(g[s \ {Latest(ledger, s)}], ledger[Latest(ledger, s)])
                      ELSE Sell(g[s \ {Latest(ledger, s)}], ledger[Latest(ledger, s)])]
  <2>1. Accounts(ledger) = iter[D]
    BY DEF Accounts, FoldLedger, MapThenFoldSet
  <2>2. iter = [s \in SUBSET D |->
                 IF s = {} THEN NoAccounts
                 ELSE IF ledger[Latest(ledger, s)].type = "buy"
                      THEN Buy(iter[s \ {Latest(ledger, s)}], ledger[Latest(ledger, s)])
                      ELSE Sell(iter[s \ {Latest(ledger, s)}], ledger[Latest(ledger, s)])]
    BY <1>2, <1>4 DEF BaseOf, ApplyOf
  <2>3. IsReplay(iter, kind, ledger)
    <3> HIDE DEF iter
    <3> QED BY <2>2, <1>4 DEF IsReplay, IsReplayOn, BaseOf, ApplyOf
  <2> QED
    BY <2>1, <2>3, <1>4 DEF ReplayOf
<1> QED
  BY <1>3, <1>4

\* No transaction leaves no holdings.
LEMMA EmptyLedger == Holdings(<< >>) = NoHoldings
<1>1. DOMAIN << >> = {} /\ Dated(<< >>)
  BY FS_EmptySet DEF Dated
<1>2. PICK g : IsReplay(g, "holdings", << >>) /\ ReplayOf("holdings", << >>) = g[{}]
  BY <1>1, ReplayExists
<1>3. g[{}] = BaseOf("holdings")
  BY <1>1, <1>2 DEF IsReplay, IsReplayOn
<1> QED
  BY <1>2, <1>3 DEF ReplayOf, BaseOf

-----------------------------------------------------------------------------
(* What the replay computes.                                                 *)

Trades == [asset : Assets, type : {"buy", "sell"}, quantity : Nat \ {0}, price : Nat, fee : Nat,
           day : Nat]

\* The two replays agree on what is held, which is nowhere less than nothing,
\* as long as no sale was refused.
Sound(held, acc) ==
    /\ held \in [ok : BOOLEAN, quantity : [Assets -> Int]]
    /\ held.ok =>
          /\ \A a \in Assets : held.quantity[a] >= 0
          /\ acc \in [quantity : [Assets -> Int], average : [Assets -> Int],
                      realized : Int, bought : Int]
          /\ acc.quantity = held.quantity

\* A purchase or a sale keeps the two replays sound, whatever its price.
LEMMA TradeSound ==
  ASSUME NEW held, NEW acc, Sound(held, acc), NEW t \in Trades, NEW u \in Trades,
         u.asset = t.asset, u.type = t.type, u.quantity = t.quantity
  PROVE  Sound(Trade(held, t), ApplyOf("accounts", acc, u))
<1> DEFINE a == t.asset
           q == t.quantity
           next == Trade(held, t)
<1>1. a \in Assets /\ q \in Nat /\ q > 0 /\ t.type \in {"buy", "sell"}
  BY DEF Trades
<1>2. /\ u.asset = a /\ u.quantity = q /\ u.type = t.type
      /\ u.price \in Nat /\ u.fee \in Nat /\ Gross(u) \in Int
  BY <1>1 DEF Trades, Gross
<1>3. held.ok \in BOOLEAN /\ held.quantity \in [Assets -> Int] /\ held.quantity[a] \in Int
  BY <1>1 DEF Sound
<1>4. /\ next.ok = (held.ok /\ (t.type = "sell" => q <= held.quantity[a]))
      /\ next.quantity = [held.quantity EXCEPT
             ![a] = IF t.type = "buy" THEN held.quantity[a] + q ELSE held.quantity[a] - q]
      /\ next = [ok |-> next.ok, quantity |-> next.quantity]
  BY <1>1, <1>3 DEF Trade
<1>5. next \in [ok : BOOLEAN, quantity : [Assets -> Int]]
  <2>1. next.ok \in BOOLEAN
    BY <1>4, Zenon
  <2>2. next.quantity \in [Assets -> Int]
    BY <1>1, <1>3, <1>4
  <2> HIDE DEF next
  <2> QED
    BY <1>4, <2>1, <2>2
<1>6. ASSUME next.ok
      PROVE  /\ \A b \in Assets : next.quantity[b] >= 0
             /\ ApplyOf("accounts", acc, u) \in
                    [quantity : [Assets -> Int], average : [Assets -> Int],
                     realized : Int, bought : Int]
             /\ ApplyOf("accounts", acc, u).quantity = next.quantity
  <2>1. /\ held.ok
        /\ \A b \in Assets : held.quantity[b] >= 0
        /\ acc \in [quantity : [Assets -> Int], average : [Assets -> Int],
                    realized : Int, bought : Int]
        /\ acc.quantity = held.quantity
    BY <1>4, <1>6 DEF Sound
  <2>2. acc.average[a] \in Int /\ acc.quantity[a] \in Int /\ acc.realized \in Int /\ acc.bought \in Int
    BY <1>1, <2>1
  <2>3. CASE t.type = "buy"
    <3> DEFINE n == acc.quantity[a] + q
               cost == acc.quantity[a] * acc.average[a] + Gross(u) + u.fee
               paid == acc.bought + Gross(u) + u.fee
    <3>1. n \in Int /\ n > 0 /\ cost \in Int /\ paid \in Int
      BY <1>1, <1>2, <2>1, <2>2
    <3>2. cost \div n \in Int
      <4> HIDE DEF n, cost
      <4> QED BY <3>1
    <3>3. ApplyOf("accounts", acc, u) = Buy(acc, u)
      BY <1>2, <2>3 DEF ApplyOf
    <3>4. Buy(acc, u) =
              [quantity |-> [acc.quantity EXCEPT ![a] = n],
               average |-> [acc.average EXCEPT ![a] = cost \div n],
               realized |-> acc.realized,
               bought |-> paid]
      <4>1. Buy(acc, u) = [acc EXCEPT !.quantity[a] = n, !.average[a] = cost \div n,
                                      !.bought = paid]
        BY <1>2, <2>1 DEF Buy
      <4>2. acc = [quantity |-> acc.quantity, average |-> acc.average,
                   realized |-> acc.realized, bought |-> acc.bought]
        BY <2>1
      <4> HIDE DEF n, cost, paid
      <4> QED
        BY <4>1, <4>2
    <3>5. next.quantity = [acc.quantity EXCEPT ![a] = n]
      BY <1>4, <2>1, <2>3
    <3>6. \A b \in Assets : next.quantity[b] >= 0
      <4> HIDE DEF next
      <4> QED BY <1>1, <1>3, <2>1, <3>1, <3>5
    <3> HIDE DEF n, cost, paid, next
    <3>7. Buy(acc, u) \in [quantity : [Assets -> Int], average : [Assets -> Int],
                           realized : Int, bought : Int]
      BY <1>1, <1>2, <2>1, <2>2, <3>1, <3>2, <3>4
    <3> QED
      BY <3>3, <3>4, <3>5, <3>6, <3>7
  <2>4. CASE t.type = "sell"
    <3> DEFINE n == acc.quantity[a] - q
               profit == acc.realized + Gross(u) - u.fee - q * acc.average[a]
    <3>1. n \in Int /\ n >= 0 /\ profit \in Int
      <4>1. q <= held.quantity[a]
        <5> HIDE DEF next
        <5> QED BY <1>4, <1>6, <2>4
      <4>2. n \in Int /\ n >= 0
        BY <1>1, <1>3, <2>1, <4>1
      <4>3. q * acc.average[a] \in Int
        BY <1>1, <2>2
      <4>4. u.fee \in Int
        BY <1>2
      <4> QED
        BY <1>2, <2>2, <4>2, <4>3, <4>4
    <3>2. ApplyOf("accounts", acc, u) = Sell(acc, u)
      BY <1>2, <2>4 DEF ApplyOf
    <3>3. Sell(acc, u) =
              [quantity |-> [acc.quantity EXCEPT ![a] = n],
               average |-> [acc.average EXCEPT ![a] = IF n = 0 THEN 0 ELSE acc.average[a]],
               realized |-> profit,
               bought |-> acc.bought]
      <4>1. Sell(acc, u) = [acc EXCEPT !.quantity[a] = n,
                                       !.average[a] = IF n = 0 THEN 0 ELSE acc.average[a],
                                       !.realized = profit]
        BY <1>2, <2>1 DEF Sell
      <4>2. acc = [quantity |-> acc.quantity, average |-> acc.average,
                   realized |-> acc.realized, bought |-> acc.bought]
        BY <2>1
      <4> HIDE DEF n, profit
      <4> QED
        BY <4>1, <4>2
    <3>4. next.quantity = [acc.quantity EXCEPT ![a] = n]
      BY <1>4, <2>1, <2>4
    <3>5. \A b \in Assets : next.quantity[b] >= 0
      <4> HIDE DEF next
      <4> QED BY <1>1, <1>3, <2>1, <3>1, <3>4
    <3> HIDE DEF n, profit, next
    <3>6. Sell(acc, u) \in [quantity : [Assets -> Int], average : [Assets -> Int],
                            realized : Int, bought : Int]
      BY <1>1, <2>1, <2>2, <3>1, <3>3
    <3> QED
      BY <3>2, <3>3, <3>4, <3>5, <3>6
  <2> QED
    BY <1>1, <2>3, <2>4
<1> QED
  BY <1>5, <1>6 DEF Sound

\* The order of a ledger is the order of its days and ids.
LEMMA SameLatest ==
  ASSUME NEW ledger, Dated(ledger), NEW other, Dated(other),
         NEW s, s \subseteq DOMAIN ledger, s \subseteq DOMAIN other, s # {},
         \A i \in s : other[i].day = ledger[i].day
  PROVE  Latest(other, s) = Latest(ledger, s)
<1>1. IsLatest(ledger, s, Latest(ledger, s))
  BY LatestIs
<1>2. IsLatest(other, s, Latest(ledger, s))
  BY <1>1 DEF IsLatest, Before
<1> QED
  BY <1>2, LatestIs

\* The same trades at other prices: what converting a ledger to VND returns.
Repriced(ledger, other) ==
    /\ DOMAIN other = DOMAIN ledger
    /\ \A i \in DOMAIN ledger :
          /\ ledger[i] \in Trades /\ other[i] \in Trades
          /\ other[i].asset = ledger[i].asset /\ other[i].type = ledger[i].type
          /\ other[i].quantity = ledger[i].quantity /\ other[i].day = ledger[i].day

\* The replay of any part of a ledger is sound, and so is that of the part in VND.
LEMMA PartsSound ==
  ASSUME NEW ledger, IsFiniteSet(DOMAIN ledger), DOMAIN ledger \subseteq Nat,
         NEW other, Repriced(ledger, other),
         NEW g, IsReplay(g, "holdings", ledger), NEW h, IsReplay(h, "accounts", other)
  PROVE  \A s \in SUBSET (DOMAIN ledger) : Sound(g[s], h[s])
<1> DEFINE D == DOMAIN ledger
           F == {s \in SUBSET D : ~Sound(g[s], h[s])}
<1>1. Dated(ledger) /\ Dated(other) /\ DOMAIN other = D
  BY DEF Dated, Repriced, Trades
<1> SUFFICES ASSUME F # {} PROVE FALSE
  OBVIOUS
<1>2. PICK s \in F : \A x \in s : s \ {x} \notin F
  <2>1. F \subseteq SUBSET D /\ IsFiniteSet(D)
    OBVIOUS
  <2> HIDE DEF F
  <2> QED
    BY <2>1, MinimalSubset
<1>3. s \subseteq D /\ ~Sound(g[s], h[s])
  BY <1>2
<1>4. CASE s = {}
  <2>1. g[s] = NoHoldings /\ h[s] = NoAccounts
    BY <1>1, <1>4 DEF IsReplay, IsReplayOn, BaseOf
  <2>2. Sound(NoHoldings, NoAccounts)
    BY DEF Sound, NoHoldings, NoAccounts
  <2> QED
    BY <1>3, <2>1, <2>2
<1>5. CASE s # {}
  <2> DEFINE i == Latest(ledger, s)
  <2>1. i \in s /\ Latest(other, s) = i
    BY <1>1, <1>3, <1>5, LatestIs, SameLatest DEF IsLatest, Repriced
  <2>2. g[s] = Trade(g[s \ {i}], ledger[i])
    BY <1>3, <1>5 DEF IsReplay, IsReplayOn, ApplyOf
  <2>3. h[s] = ApplyOf("accounts", h[s \ {i}], other[i])
    BY <1>1, <1>3, <1>5, <2>1 DEF IsReplay, IsReplayOn
  <2>4. Sound(g[s \ {i}], h[s \ {i}])
    BY <1>2, <1>3, <2>1
  <2>5. /\ ledger[i] \in Trades /\ other[i] \in Trades
        /\ other[i].asset = ledger[i].asset /\ other[i].type = ledger[i].type
        /\ other[i].quantity = ledger[i].quantity
    BY <1>3, <2>1 DEF Repriced
  <2> HIDE DEF i
  <2> QED
    BY <1>3, <2>2, <2>3, <2>4, <2>5, TradeSound
<1> QED
  BY <1>4, <1>5

\* The replay of any ledger is sound, and so is that of the ledger in VND.
LEMMA ReplaySound ==
  ASSUME NEW ledger, IsFiniteSet(DOMAIN ledger), DOMAIN ledger \subseteq Nat,
         NEW other, Repriced(ledger, other)
  PROVE  Sound(Holdings(ledger), Accounts(other))
<1>1. Dated(ledger) /\ Dated(other) /\ DOMAIN other = DOMAIN ledger
  BY DEF Dated, Repriced, Trades
<1>2. PICK g : IsReplay(g, "holdings", ledger) /\ Holdings(ledger) = g[DOMAIN ledger]
  BY <1>1, ReplayExists DEF ReplayOf
<1>3. PICK h : IsReplay(h, "accounts", other) /\ Accounts(other) = h[DOMAIN ledger]
  BY <1>1, ReplayExists DEF ReplayOf
<1>4. \A s \in SUBSET (DOMAIN ledger) : Sound(g[s], h[s])
  BY <1>2, <1>3, PartsSound
<1> QED
  BY <1>2, <1>3, <1>4

-----------------------------------------------------------------------------
(* The inductive invariant.                                                  *)

Working == {"locked", "rebuilt"}

Busy(c) == pc[c] # "idle"

ShapeInv ==
    /\ pc \in [Requests -> {"idle", "ready", "locked", "rebuilt"}]
    /\ job = [c \in Requests |-> job[c]]
    /\ staged = [c \in Requests |-> staged[c]]
    /\ signal = [g \in Signals |-> signal[g]]
    /\ DOMAIN source = DOMAIN rows

\* The lock of the portfolio has one owner.
LockInv ==
    \A c, d \in Requests : pc[c] \in Working /\ pc[d] \in Working => c = d

JobInv ==
    \A c \in Requests : Busy(c) =>
        /\ job[c].op \in {"create", "update", "delete"}
        /\ job[c].id \in Ids
        /\ job[c].op # "delete" => job[c].input \in Inputs
        /\ job[c].signal \in Signals \cup {NoSignal} \/ job[c].op = "delete"
        /\ job[c].op = "update" => job[c].signal = NoSignal

\* The id of a transaction about to be created is nobody else's, and a
\* deletion knows the signal of its row, so ids are never mistaken.
IdInv ==
    \A c \in Requests : Busy(c) =>
        /\ job[c].op = "create" =>
              /\ job[c].id \notin DOMAIN rows
              /\ \A d \in Requests \ {c} : Busy(d) => job[d].id # job[c].id
        /\ job[c].op = "delete" /\ job[c].id \in DOMAIN rows
              => job[c].signal = source[job[c].id]

\* What an open transaction is about to write is still right when it commits.
StageInv ==
    \A c \in Requests : pc[c] = "rebuilt" =>
        /\ Holdings(RowsAfter(c)).ok
        /\ staged[c].positions.quantity = Holdings(RowsAfter(c)).quantity
        /\ StatementSucceeds(c)

IInv ==
    /\ ShapeInv
    /\ LockInv
    /\ JobInv
    /\ IdInv
    /\ StageInv
    /\ PositionsAreReplay
    /\ SignalExecutedOnce
    /\ ExecutedIsLinked

\* The empty portfolio has the invariant.
LEMMA InitIInv == Init => IInv
<1> SUFFICES ASSUME Init PROVE IInv
  OBVIOUS
<1> USE DEF Init
<1>1. DOMAIN rows = {} /\ DOMAIN source = {}
  OBVIOUS
<1>2. ShapeInv
  BY <1>1 DEF ShapeInv
<1>3. LockInv /\ JobInv /\ IdInv /\ StageInv
  BY DEF LockInv, JobInv, IdInv, StageInv, Working, Busy
<1>4. PositionsAreReplay
  <2>1. Holdings(rows) = NoHoldings
    BY EmptyLedger
  <2>2. Holdings(rows).ok
    BY <2>1 DEF NoHoldings
  <2>3. positions.quantity = [a \in Assets |-> 0]
    OBVIOUS
  <2>4. Holdings(rows).quantity = [a \in Assets |-> 0]
    BY <2>1 DEF NoHoldings
  <2> QED
    BY <2>2, <2>3, <2>4 DEF PositionsAreReplay
<1>5. SignalExecutedOnce /\ ExecutedIsLinked
  BY <1>1 DEF SignalExecutedOnce, ExecutedIsLinked
<1> QED
  BY <1>2, <1>3, <1>4, <1>5 DEF IInv

-----------------------------------------------------------------------------
(* Each action keeps the invariant.                                          *)

\* What the handlers keep in memory changes, the database does not.
LEMMA DatabaseKept ==
  ASSUME UNCHANGED database, PositionsAreReplay, SignalExecutedOnce, ExecutedIsLinked
  PROVE  PositionsAreReplay' /\ SignalExecutedOnce' /\ ExecutedIsLinked'
BY DEF database, PositionsAreReplay, SignalExecutedOnce, ExecutedIsLinked

\* A handler that finishes leaves the others as they were.
LEMMA FinishKeeps ==
  ASSUME IInv, NEW c \in Requests, Finish(c), UNCHANGED <<rows, source>>,
         signal' = [g \in Signals |-> signal'[g]]
  PROVE  ShapeInv' /\ LockInv' /\ JobInv' /\ IdInv' /\ StageInv'
<1> USE DEF IInv, ShapeInv, Finish
<1>1. ShapeInv'
  OBVIOUS
<1>2. /\ pc'[c] = "idle"
      /\ \A d \in Requests \ {c} : pc'[d] = pc[d] /\ job'[d] = job[d] /\ staged'[d] = staged[d]
  OBVIOUS
<1>3. LockInv'
  BY <1>2 DEF LockInv, Working
<1>4. JobInv'
  BY <1>2 DEF JobInv, Busy
<1>5. IdInv'
  BY <1>2 DEF IdInv, Busy
<1>6. StageInv'
  BY <1>2 DEF StageInv, RowsAfter, StatementSucceeds, SignalUnused
<1> QED
  BY <1>1, <1>3, <1>4, <1>5, <1>6

\* A request that arrives takes no lock and no id that is taken.
LEMMA BeginKeeps ==
  ASSUME IInv, NEW c \in Requests, NEW j, Begin(c, j),
         j.op \in {"create", "update", "delete"}, j.id \in Ids,
         j.op # "delete" => j.input \in Inputs,
         j.signal \in Signals \cup {NoSignal} \/ j.op = "delete",
         j.op = "update" => j.signal = NoSignal,
         j.op = "create" => /\ j.id \notin DOMAIN rows
                            /\ \A d \in Requests : job[d].id # j.id,
         j.op # "create" => j.id \in DOMAIN rows,
         j.op = "delete" => j.signal = source[j.id]
  PROVE  IInv'
<1> USE DEF IInv, ShapeInv, Begin
<1>1. ShapeInv'
  BY DEF database
<1>2. /\ pc'[c] = "ready" /\ job'[c] = j
      /\ \A d \in Requests \ {c} : pc'[d] = pc[d] /\ job'[d] = job[d] /\ staged'[d] = staged[d]
  OBVIOUS
<1>3. LockInv'
  BY <1>2 DEF LockInv, Working
<1>4. JobInv'
  BY <1>2 DEF JobInv, Busy
<1>5. IdInv'
  BY <1>2 DEF IdInv, Busy, database
<1>6. StageInv'
  BY <1>2 DEF StageInv, RowsAfter, StatementSucceeds, SignalUnused, database
<1> QED
  BY <1>1, <1>3, <1>4, <1>5, <1>6, DatabaseKept

\* The commit writes what its transaction computed: nobody else can have
\* changed the rows since, because it still owns the lock.
LEMMA CommitKeeps ==
  ASSUME IInv, NEW c \in Requests, Commit(c)
  PROVE  IInv'
<1> USE DEF IInv
<1> DEFINE i == job[c].id
           g == job[c].signal
<1>1. /\ pc[c] = "rebuilt" /\ Finish(c)
      /\ rows' = RowsAfter(c) /\ source' = SourceAfter(c) /\ signal' = StatusAfter(c)
      /\ positions' = staged[c].positions
  BY DEF Commit
<1>2. /\ Holdings(RowsAfter(c)).ok
      /\ staged[c].positions.quantity = Holdings(RowsAfter(c)).quantity
      /\ StatementSucceeds(c)
  BY <1>1 DEF StageInv
<1>3. /\ job[c].op \in {"create", "update", "delete"}
      /\ i \in Ids
      /\ job[c].op = "create" => i \notin DOMAIN rows /\ SignalUnused(g)
      /\ job[c].op # "create" => i \in DOMAIN rows
      /\ job[c].op = "delete" => g = source[i]
      /\ job[c].op = "update" => g = NoSignal
  BY <1>1, <1>2 DEF JobInv, IdInv, Busy, StatementSucceeds
<1>4. /\ job[c].op = "create" =>
            /\ DOMAIN rows' = DOMAIN rows \cup {i} /\ source'[i] = g
            /\ \A j \in DOMAIN rows : source'[j] = source[j]
      /\ job[c].op = "update" => DOMAIN rows' = DOMAIN rows /\ source' = source
      /\ job[c].op = "delete" =>
            /\ DOMAIN rows' = DOMAIN rows \ {i}
            /\ \A j \in DOMAIN rows \ {i} : source'[j] = source[j]
  BY <1>1, <1>3 DEF RowsAfter, SourceAfter, Put, Drop, ShapeInv
<1>5. DOMAIN source' = DOMAIN rows'
  BY <1>1, <1>3, <1>4 DEF SourceAfter, Put, Drop, ShapeInv
<1>6. /\ pc'[c] = "idle"
      /\ \A d \in Requests \ {c} : pc'[d] = pc[d] /\ job'[d] = job[d] /\ staged'[d] = staged[d]
  BY <1>1 DEF Finish, ShapeInv
<1>7. ShapeInv'
  <2>1. signal' = [h \in Signals |-> signal'[h]]
    BY <1>1 DEF StatusAfter, ShapeInv
  <2> QED
    BY <1>1, <1>5, <2>1 DEF ShapeInv, Finish
<1>8. LockInv'
  BY <1>6 DEF LockInv, Working
<1>9. JobInv'
  BY <1>6 DEF JobInv, Busy
<1>10. IdInv'
  <2> SUFFICES ASSUME NEW d \in Requests, Busy(d)'
      PROVE /\ job'[d].op = "create" =>
                  /\ job'[d].id \notin DOMAIN rows'
                  /\ \A e \in Requests \ {d} : Busy(e)' => job'[e].id # job'[d].id
            /\ job'[d].op = "delete" /\ job'[d].id \in DOMAIN rows'
                  => job'[d].signal = source'[job'[d].id]
    BY DEF IdInv, Busy
  <2>1. d # c /\ Busy(d) /\ job'[d] = job[d] /\ Busy(c)
    BY <1>1, <1>6 DEF Busy
  <2>2. \A e \in Requests : Busy(e)' => e # c /\ Busy(e) /\ job'[e] = job[e]
    BY <1>6 DEF Busy
  <2>3. ASSUME job[d].op = "create"
        PROVE  job[d].id \notin DOMAIN rows'
    BY <2>1, <2>3, <1>3, <1>4 DEF IdInv
  <2>4. ASSUME job[d].op = "delete", job[d].id \in DOMAIN rows'
        PROVE  job[d].signal = source'[job[d].id]
    BY <2>1, <2>4, <1>3, <1>4 DEF IdInv
  <2> QED
    BY <2>1, <2>2, <2>3, <2>4 DEF IdInv
<1>11. StageInv'
  BY <1>1, <1>6 DEF StageInv, LockInv, Working
<1>12. PositionsAreReplay'
  BY <1>1, <1>2 DEF PositionsAreReplay
<1>13. SignalExecutedOnce'
  BY <1>3, <1>4 DEF SignalExecutedOnce, SignalUnused
<1>14. ExecutedIsLinked'
  <2> SUFFICES ASSUME NEW h \in Signals \ Patched
      PROVE  signal'[h] = "executed" <=> \E j \in DOMAIN rows' : source'[j] = h
    BY DEF ExecutedIsLinked
  <2>1. h # NoSignal /\ (signal[h] = "executed" <=> \E j \in DOMAIN rows : source[j] = h)
    BY PortfolioAssumption DEF ExecutedIsLinked
  <2>2. CASE g # h
    <3>1. signal'[h] = signal[h]
      BY <1>1, <2>2 DEF StatusAfter, ShapeInv
    <3> QED
      BY <3>1, <2>1, <2>2, <1>3, <1>4
  <2>3. CASE g = h
    <3>1. signal'[h] = IF job[c].op = "delete" THEN "suggested" ELSE "executed"
      BY <1>1, <2>1, <2>3 DEF StatusAfter, ShapeInv
    <3>2. CASE job[c].op = "create"
      BY <3>1, <3>2, <2>3, <1>4
    <3>3. CASE job[c].op = "delete"
      BY <3>1, <3>3, <2>1, <2>3, <1>3, <1>4 DEF SignalExecutedOnce
    <3> QED
      BY <3>2, <3>3, <2>1, <2>3, <1>3
  <2> QED
    BY <2>2, <2>3
<1> QED
  BY <1>7, <1>8, <1>9, <1>10, <1>11, <1>12, <1>13, <1>14

\* Every step of the handlers and of the other writers keeps the invariant.
LEMMA StepIInv == IInv /\ [Next]_vars => IInv'
<1> SUFFICES ASSUME IInv, [Next]_vars PROVE IInv'
  OBVIOUS
<1> USE DEF IInv
<1>1. ASSUME NEW c \in Requests, NEW i \in Ids, NEW input \in Inputs,
             NEW g \in Signals \cup {NoSignal}, BeginCreate(c, i, input, g)
      PROVE  IInv'
  <2> DEFINE j == [op |-> "create", id |-> i, input |-> input, signal |-> g]
  <2>1. Begin(c, j) /\ i \notin DOMAIN rows /\ \A d \in Requests : job[d].id # i
    BY <1>1 DEF BeginCreate, Fresh, Ids
  <2> QED
    BY <2>1, BeginKeeps
<1>2. ASSUME NEW c \in Requests, NEW i \in Ids, NEW input \in Inputs, BeginUpdate(c, i, input)
      PROVE  IInv'
  <2> DEFINE j == [op |-> "update", id |-> i, input |-> input, signal |-> NoSignal]
  <2>1. Begin(c, j) /\ i \in DOMAIN rows
    BY <1>2 DEF BeginUpdate
  <2> QED
    BY <2>1, BeginKeeps
<1>3. ASSUME NEW c \in Requests, NEW i \in Ids, BeginDelete(c, i)
      PROVE  IInv'
  <2> DEFINE j == [op |-> "delete", id |-> i, input |-> << >>, signal |-> source[i]]
  <2>1. Begin(c, j) /\ i \in DOMAIN rows
    BY <1>3 DEF BeginDelete
  <2> QED
    BY <2>1, BeginKeeps
<1>4. ASSUME NEW c \in Requests, Lock(c)
      PROVE  IInv'
  <2>1. UNCHANGED database /\ LockFree /\ pc[c] = "ready"
    BY <1>4 DEF Lock
  <2>2. CASE pc' = [pc EXCEPT ![c] = "locked"] /\ UNCHANGED <<job, staged>>
    <3>1. ShapeInv' /\ JobInv' /\ IdInv'
      BY <2>1, <2>2 DEF ShapeInv, JobInv, IdInv, Busy, database
    <3>2. LockInv'
      BY <2>1, <2>2 DEF LockInv, LockFree, Working, ShapeInv
    <3>3. StageInv'
      BY <2>1, <2>2 DEF StageInv, RowsAfter, StatementSucceeds, SignalUnused, ShapeInv, database
    <3> QED
      BY <2>1, <3>1, <3>2, <3>3, DatabaseKept
  <2>3. CASE Finish(c)
    BY <2>1, <2>3, FinishKeeps, DatabaseKept DEF database, ShapeInv
  <2> QED
    BY <1>4, <2>2, <2>3 DEF Lock
<1>5. ASSUME NEW c \in Requests, Rebuild(c)
      PROVE  IInv'
  <2>1. /\ pc[c] = "locked" /\ StatementSucceeds(c) /\ Holdings(RowsAfter(c)).ok
        /\ pc' = [pc EXCEPT ![c] = "rebuilt"]
        /\ UNCHANGED <<database, job>>
    BY <1>5 DEF Rebuild, Replayable
  <2>2. /\ staged' = [d \in Requests |-> staged'[d]]
        /\ staged'[c].positions.quantity = Holdings(RowsAfter(c)).quantity
        /\ \A d \in Requests \ {c} : staged'[d] = staged[d]
    BY <1>5 DEF Rebuild, Rebuilt, ShapeInv
  <2>3. ShapeInv' /\ JobInv' /\ IdInv'
    BY <2>1, <2>2 DEF ShapeInv, JobInv, IdInv, Busy, database
  <2>4. LockInv'
    BY <2>1 DEF LockInv, Working, ShapeInv
  <2>5. StageInv'
    BY <2>1, <2>2 DEF StageInv, RowsAfter, StatementSucceeds, SignalUnused, ShapeInv, database
  <2> QED
    BY <2>1, <2>3, <2>4, <2>5, DatabaseKept
<1>6. ASSUME NEW c \in Requests, Abort(c)
      PROVE  IInv'
  BY <1>6, FinishKeeps, DatabaseKept DEF Abort, database, ShapeInv
<1>7. ASSUME NEW c \in Requests, Commit(c)
      PROVE  IInv'
  BY <1>7, CommitKeeps
<1>8. ASSUME NEW g \in Signals, NEW status \in Statuses, SetSignalStatus(g, status)
      PROVE  IInv'
  <2>1. ShapeInv' /\ LockInv' /\ JobInv' /\ IdInv' /\ StageInv'
    BY <1>8 DEF SetSignalStatus, ShapeInv, LockInv, JobInv, IdInv, StageInv, Busy, Working,
               RowsAfter, StatementSucceeds, SignalUnused
  <2>2. PositionsAreReplay' /\ SignalExecutedOnce' /\ ExecutedIsLinked'
    BY <1>8 DEF SetSignalStatus, ShapeInv, PositionsAreReplay, SignalExecutedOnce,
               ExecutedIsLinked
  <2> QED
    BY <2>1, <2>2
<1>9. ASSUME UNCHANGED <<rows, source, positions, signal, pc, job, staged>>
      PROVE  IInv'
  BY <1>9 DEF ShapeInv, LockInv, JobInv, IdInv, StageInv, Busy, Working, RowsAfter,
             StatementSucceeds, SignalUnused, PositionsAreReplay, SignalExecutedOnce,
             ExecutedIsLinked
<1>10. ASSUME NEW d \in DOMAIN RateOn, ObserveRate(d)
       PROVE  IInv'
  BY <1>9, <1>10 DEF ObserveRate, database
<1>11. ASSUME BackfillSnapshots
       PROVE  IInv'
  BY <1>9, <1>11 DEF BackfillSnapshots
<1>12. ASSUME UNCHANGED vars
       PROVE  IInv'
  BY <1>9, <1>12 DEF vars
<1> QED
  BY <1>1, <1>2, <1>3, <1>4, <1>5, <1>6, <1>7, <1>8, <1>10, <1>11, <1>12
  DEF Next, Handle

-----------------------------------------------------------------------------
(* The theorems.                                                             *)

\* Every reachable state has the invariant.
LEMMA Invariance == Spec => []IInv
<1>1. Init => IInv
  BY InitIInv
<1>2. IInv /\ [Next]_vars => IInv'
  BY StepIInv
<1> QED
  BY <1>1, <1>2, PTL DEF Spec

\* The position rows are those of the replayed ledger, whatever the handlers
\* of the web application and the synchronization of rates interleave.
THEOREM PositionsNeverDrift == Spec => []PositionsAreReplay
<1>1. IInv => PositionsAreReplay
  BY DEF IInv
<1> QED
  BY <1>1, Invariance, PTL

\* No two transactions execute one signal.
THEOREM SignalsExecuteOnce == Spec => []SignalExecutedOnce
<1>1. IInv => SignalExecutedOnce
  BY DEF IInv
<1> QED
  BY <1>1, Invariance, PTL

\* The status of a signal users leave alone follows its transaction.
THEOREM SignalsFollowLedger == Spec => []ExecutedIsLinked
<1>1. IInv => ExecutedIsLinked
  BY DEF IInv
<1> QED
  BY <1>1, Invariance, PTL

-----------------------------------------------------------------------------
(* The values of the variables: those of the position rows need the replay.  *)

\* A finite set of numbers that is not empty has a greatest one: as a ledger
\* of transactions of one day it has a latest.
LEMMA MaxIs ==
  ASSUME NEW S, S \subseteq Nat, IsFiniteSet(S), S # {}
  PROVE  Max(S) \in S /\ \A x \in S : x <= Max(S)
<1> DEFINE ledger == [i \in S |-> [day |-> 0]]
<1>1. Dated(ledger) /\ DOMAIN ledger = S
  BY DEF Dated
<1>2. PICK i : IsLatest(ledger, S, i)
  BY <1>1, LatestIs
<1>3. i \in S /\ \A x \in S : i >= x
  <2>1. \A x \in S \ {i} : Before(ledger, x, i)
    BY <1>2 DEF IsLatest
  <2>2. \A x \in S \ {i} : x < i
    BY <1>2, <2>1 DEF Before, IsLatest
  <2> QED
    BY <1>2, <2>2 DEF IsLatest
<1>4. Max(S) \in S /\ \A x \in S : Max(S) >= x
  BY <1>3 DEF Max
<1> QED
  BY <1>4

\* The snapshot of a transaction is a rate.
LEMMA SnapshotIs ==
  ASSUME TypeOK, NEW day \in Nat
  PROVE  SnapshotFor(day) \in Snapshot
<1> DEFINE known == {d \in observed : d <= day}
<1>1. known \subseteq DOMAIN RateOn /\ known \subseteq Days
  BY PortfolioAssumption DEF TypeOK
<1>2. known \subseteq Nat /\ IsFiniteSet(known)
  BY <1>1, LedgerAssumption, FS_Subset
<1>3. CASE known = {}
  BY <1>3, PortfolioAssumption DEF SnapshotFor, Snapshot
<1>4. CASE known # {}
  <2>1. Max(known) \in DOMAIN RateOn
    <3> HIDE DEF known
    <3> QED BY <1>1, <1>2, <1>4, MaxIs
  <2>2. RateOn[Max(known)] \in Nat
    BY <2>1, PortfolioAssumption
  <2>3. SnapshotFor(day) = [rate |-> RateOn[Max(known)], fallback |-> FALSE]
    BY <1>4 DEF SnapshotFor
  <2> HIDE DEF known
  <2> QED
    BY <2>2, <2>3 DEF Snapshot
<1> QED
  BY <1>3, <1>4

\* What users submit can be replayed.
LEMMA InputsAreTrades == \A t \in Inputs : t \in Trades /\ t.day \in Days /\ t.day \in Nat
BY ReportAssumption, LedgerAssumption DEF Trades

\* The ids of the rows are finitely many.
LEMMA RowsFinite ==
  ASSUME NEW D, D \subseteq Ids
  PROVE  IsFiniteSet(D) /\ D \subseteq Nat
<1>1. MaxRows \in Nat
  BY PortfolioAssumption
<1>2. IsFiniteSet(Ids) /\ Ids \subseteq Nat
  BY <1>1, FS_Interval DEF Ids
<1> QED
  BY <1>2, FS_Subset

\* What replaces the position rows are positions, when no sale is refused.
LEMMA RebuiltIs ==
  ASSUME NEW ledger, DOMAIN ledger \subseteq Ids, ledger \in [DOMAIN ledger -> Inputs],
         NEW snapshots \in [DOMAIN ledger -> Snapshot],
         Holdings(ledger).ok
  PROVE  Rebuilt(ledger, snapshots) \in Positions
<1> DEFINE other == InVnd(ledger, snapshots)
<1>1. DOMAIN other = DOMAIN ledger
  BY DEF InVnd
<1>2. ASSUME NEW i \in DOMAIN ledger
      PROVE  /\ ledger[i] \in Trades /\ other[i] \in Trades
             /\ other[i].asset = ledger[i].asset /\ other[i].type = ledger[i].type
             /\ other[i].quantity = ledger[i].quantity /\ other[i].day = ledger[i].day
  <2> DEFINE t == ledger[i]
             rate == snapshots[i].rate
  <2>1. t \in Trades /\ rate \in Nat
    BY InputsAreTrades DEF Snapshot
  <2>2. other[i] = [t EXCEPT !.price = t.price * rate, !.fee = t.fee * rate]
    BY DEF InVnd
  <2>3. t.price * rate \in Nat /\ t.fee * rate \in Nat
    BY <2>1 DEF Trades
  <2> HIDE DEF t, rate, other
  <2>4. /\ other[i] \in Trades /\ other[i].asset = t.asset /\ other[i].type = t.type
        /\ other[i].quantity = t.quantity /\ other[i].day = t.day
    BY <2>1, <2>2, <2>3 DEF Trades
  <2> QED
    BY <2>1, <2>4 DEF t
<1>3. Repriced(ledger, other)
  BY <1>1, <1>2 DEF Repriced
<1>4. Sound(Holdings(ledger), Accounts(other))
  <2> HIDE DEF other
  <2> QED BY <1>3, RowsFinite, ReplaySound
<1>5. Holdings(ledger).quantity \in [Assets -> Nat] /\ Accounts(other).average \in [Assets -> Int]
  BY <1>4 DEF Sound
<1> QED
  BY <1>5 DEF Rebuilt, Positions

\* The values of the variables, and what an open transaction has staged.
TypeInv ==
    /\ TypeOK
    /\ \A c \in Requests : pc[c] = "rebuilt" => staged[c] \in Stage

\* The row and the snapshot a statement leaves have their types.
LEMMA StatementTypes ==
  ASSUME TypeOK, NEW c \in Requests, job[c] \in Job,
         job[c].op # "delete" => job[c].input \in Inputs, NEW x \in Snapshot
  PROVE  /\ DOMAIN RowsAfter(c) \subseteq Ids
         /\ RowsAfter(c) \in [DOMAIN RowsAfter(c) -> Inputs]
         /\ FxAfter(c, x) \in [DOMAIN RowsAfter(c) -> Snapshot]
<1>1. job[c].id \in Ids
  BY DEF Job
<1>2. /\ DOMAIN rows \subseteq Ids /\ rows \in [DOMAIN rows -> Inputs]
      /\ fx \in [DOMAIN rows -> Snapshot] /\ DOMAIN fx = DOMAIN rows
  BY DEF TypeOK
<1>3. CASE job[c].op = "delete"
  BY <1>1, <1>2, <1>3 DEF RowsAfter, FxAfter, Drop
<1>4. CASE job[c].op # "delete"
  BY <1>1, <1>2, <1>4 DEF RowsAfter, FxAfter, Put
<1> QED
  BY <1>3, <1>4

\* The empty portfolio is well typed.
LEMMA InitTypeInv == Init => TypeInv
<1> SUFFICES ASSUME Init PROVE TypeInv
  OBVIOUS
<1>1. DOMAIN << >> = {}
  OBVIOUS
<1>2. [c \in Requests |-> NoJob] \in [Requests -> Job \cup {NoJob}]
  OBVIOUS
<1>3. [c \in Requests |-> NoStage] \in [Requests -> Stage \cup {NoStage}]
  OBVIOUS
<1>4. << >> = [i \in {} |-> 0]
  OBVIOUS
<1>5. TypeOK
  BY <1>1, <1>2, <1>3, <1>4 DEF Init, TypeOK, Positions, Statuses
<1> QED
  BY <1>5 DEF TypeInv, Init

\* Every step keeps the types.
LEMMA StepTypeInv == IInv /\ IInv' /\ TypeInv /\ [Next]_vars => TypeInv'
<1> SUFFICES ASSUME IInv, IInv', TypeInv, [Next]_vars PROVE TypeInv'
  OBVIOUS
<1> USE DEF TypeInv
<1>1. ASSUME NEW c \in Requests, NEW j \in Job, Begin(c, j)
      PROVE  TypeInv'
  BY <1>1 DEF Begin, TypeOK, database
<1>2. ASSUME NEW c \in Requests, Finish(c), UNCHANGED <<database, observed>>
      PROVE  TypeInv'
  BY <1>2 DEF Finish, TypeOK, database
<1>3. ASSUME NEW c \in Requests, NEW i \in Ids, NEW input \in Inputs,
             NEW g \in Signals \cup {NoSignal}, BeginCreate(c, i, input, g)
      PROVE  TypeInv'
  <2> DEFINE j == [op |-> "create", id |-> i, input |-> input, signal |-> g]
  <2>1. Begin(c, j) /\ j \in Job
    BY <1>3 DEF BeginCreate, Job
  <2> QED
    BY <2>1, <1>1
<1>4. ASSUME NEW c \in Requests, NEW i \in Ids, NEW input \in Inputs, BeginUpdate(c, i, input)
      PROVE  TypeInv'
  <2> DEFINE j == [op |-> "update", id |-> i, input |-> input, signal |-> NoSignal]
  <2>1. Begin(c, j) /\ j \in Job
    BY <1>4 DEF BeginUpdate, Job
  <2> QED
    BY <2>1, <1>1
<1>5. ASSUME NEW c \in Requests, NEW i \in Ids, BeginDelete(c, i)
      PROVE  TypeInv'
  <2> DEFINE j == [op |-> "delete", id |-> i, input |-> << >>, signal |-> source[i]]
  <2>1. Begin(c, j) /\ source[i] \in Signals \cup {NoSignal}
    BY <1>5 DEF BeginDelete, TypeOK
  <2>2. j \in Job
    BY <2>1 DEF Job
  <2> QED
    BY <2>1, <2>2, <1>1
<1>6. ASSUME NEW c \in Requests, Lock(c)
      PROVE  TypeInv'
  <2>1. CASE pc' = [pc EXCEPT ![c] = "locked"] /\ UNCHANGED <<job, staged>>
    BY <1>6, <2>1 DEF Lock, TypeOK, database
  <2>2. CASE Finish(c)
    BY <1>6, <2>2, <1>2 DEF Lock
  <2> QED
    BY <1>6, <2>1, <2>2 DEF Lock
<1>7. ASSUME NEW c \in Requests, Rebuild(c)
      PROVE  TypeInv'
  <2> DEFINE x == IF job[c].op = "delete" THEN [rate |-> 0, fallback |-> FALSE]
                                          ELSE SnapshotFor(job[c].input.day)
  <2>1. /\ pc[c] = "locked" /\ Holdings(RowsAfter(c)).ok
        /\ pc' = [pc EXCEPT ![c] = "rebuilt"]
        /\ staged' = [staged EXCEPT ![c] =
               [snapshot |-> x, positions |-> Rebuilt(RowsAfter(c), FxAfter(c, x))]]
        /\ UNCHANGED <<database, observed, job>>
    BY <1>7 DEF Rebuild, Replayable
  <2>2. job[c] \in Job /\ (job[c].op # "delete" => job[c].input \in Inputs)
    BY <2>1 DEF TypeOK, IInv, JobInv, Busy, NoJob
  <2>3. x \in Snapshot
    BY <2>2, SnapshotIs, InputsAreTrades DEF Snapshot
  <2> HIDE DEF x
  <2>4. Rebuilt(RowsAfter(c), FxAfter(c, x)) \in Positions
    BY <2>1, <2>2, <2>3, StatementTypes, RebuiltIs
  <2>5. staged'[c] \in Stage /\ staged' \in [Requests -> Stage \cup {NoStage}]
    BY <2>1, <2>3, <2>4 DEF TypeOK, Stage
  <2>6. \A d \in Requests : pc'[d] = "rebuilt" => staged'[d] \in Stage
    BY <2>1, <2>5 DEF TypeOK
  <2> QED
    BY <2>1, <2>5, <2>6 DEF TypeOK, database
<1>8. ASSUME NEW c \in Requests, Commit(c)
      PROVE  TypeInv'
  <2>1. /\ pc[c] = "rebuilt" /\ Finish(c) /\ UNCHANGED observed
        /\ rows' = RowsAfter(c) /\ fx' = FxAfter(c, staged[c].snapshot)
        /\ source' = SourceAfter(c) /\ signal' = StatusAfter(c)
        /\ positions' = staged[c].positions
    BY <1>8 DEF Commit
  <2>2. /\ job[c] \in Job /\ (job[c].op # "delete" => job[c].input \in Inputs)
        /\ staged[c].snapshot \in Snapshot /\ staged[c].positions \in Positions
    BY <2>1 DEF TypeOK, IInv, JobInv, Busy, NoJob, Stage
  <2>3. /\ DOMAIN rows' \subseteq Ids /\ rows' \in [DOMAIN rows' -> Inputs]
        /\ fx' \in [DOMAIN rows' -> Snapshot]
    BY <2>1, <2>2, StatementTypes
  <2>4. source' \in [DOMAIN rows' -> Signals \cup {NoSignal}]
    <3>1. DOMAIN source' = DOMAIN rows'
      BY DEF IInv, ShapeInv
    <3>2. /\ job[c].op \in {"create", "update", "delete"}
          /\ job[c].signal \in Signals \cup {NoSignal}
          /\ source \in [DOMAIN source -> Signals \cup {NoSignal}]
      BY <2>2 DEF Job, TypeOK
    <3>3. source' \in [DOMAIN source' -> Signals \cup {NoSignal}]
      BY <2>1, <3>2 DEF SourceAfter, Put, Drop
    <3> QED
      BY <3>1, <3>3
  <2>5. signal' \in [Signals -> Statuses]
    BY <2>1, <2>2 DEF StatusAfter, TypeOK, Statuses, Job
  <2>6. /\ pc' \in [Requests -> {"idle", "ready", "locked", "rebuilt"}]
        /\ job' \in [Requests -> Job \cup {NoJob}]
        /\ staged' \in [Requests -> Stage \cup {NoStage}]
        /\ \A d \in Requests : pc'[d] = "rebuilt" => staged'[d] \in Stage
    BY <2>1 DEF Finish, TypeOK
  <2> QED
    BY <2>1, <2>2, <2>3, <2>4, <2>5, <2>6 DEF TypeOK
<1>9. ASSUME NEW g \in Signals, NEW status \in Statuses, SetSignalStatus(g, status)
      PROVE  TypeInv'
  BY <1>9 DEF SetSignalStatus, TypeOK
<1>10. ASSUME NEW d \in DOMAIN RateOn, ObserveRate(d)
       PROVE  TypeInv'
  BY <1>10 DEF ObserveRate, TypeOK, database
<1>11. ASSUME BackfillSnapshots
       PROVE  TypeInv'
  <2>1. \A i \in DOMAIN rows : fx[i] \in Snapshot /\ SnapshotFor(rows[i].day) \in Snapshot
    BY SnapshotIs, InputsAreTrades DEF TypeOK
  <2>2. fx' \in [DOMAIN rows -> Snapshot]
    BY <1>11, <2>1 DEF BackfillSnapshots
  <2> QED
    BY <1>11, <2>2 DEF BackfillSnapshots, TypeOK
<1>12. ASSUME UNCHANGED vars
       PROVE  TypeInv'
  BY <1>12 DEF vars, TypeOK
<1> QED
  BY <1>2, <1>3, <1>4, <1>5, <1>6, <1>7, <1>8, <1>9, <1>10, <1>11, <1>12 DEF Next, Handle, Abort

\* Every variable keeps its type: the position rows are always numbers, since
\* no purchase divides by nothing and no fallback rate is missing, and none is
\* short, also in what an open transaction is going to write.
THEOREM PortfolioTypes == Spec => []TypeOK
<1>1. Init => TypeInv
  BY InitTypeInv
<1>2. IInv /\ IInv' /\ TypeInv /\ [Next]_vars => TypeInv'
  BY StepTypeInv
<1>3. TypeInv => TypeOK
  BY DEF TypeInv
<1> QED
  BY <1>1, <1>2, <1>3, Invariance, PTL DEF Spec

-----------------------------------------------------------------------------
(* The preview of a transaction is what its replay will show.                *)

\* Ledgers that agree on some transactions have the same replay of them.
LEMMA ReplayAgrees ==
  ASSUME NEW kind, NEW ledger, Dated(ledger), NEW other, Dated(other),
         DOMAIN ledger \subseteq DOMAIN other,
         \A i \in DOMAIN ledger : other[i] = ledger[i],
         NEW g, IsReplay(g, kind, ledger), NEW h, IsReplay(h, kind, other)
  PROVE  \A s \in SUBSET (DOMAIN ledger) : h[s] = g[s]
<1> DEFINE D == DOMAIN ledger
           F == {s \in SUBSET D : h[s] # g[s]}
<1> SUFFICES ASSUME F # {} PROVE FALSE
  OBVIOUS
<1>1. PICK s \in F : \A x \in s : s \ {x} \notin F
  <2>1. F \subseteq SUBSET D /\ IsFiniteSet(D)
    BY DEF Dated
  <2> HIDE DEF F
  <2> QED
    BY <2>1, MinimalSubset
<1>2. s \subseteq D /\ s \subseteq DOMAIN other /\ h[s] # g[s]
  BY <1>1
<1>3. CASE s = {}
  BY <1>2, <1>3 DEF IsReplay, IsReplayOn
<1>4. CASE s # {}
  <2> DEFINE i == Latest(ledger, s)
  <2>1. i \in s /\ Latest(other, s) = i
    BY <1>2, <1>4, LatestIs, SameLatest DEF IsLatest
  <2>2. g[s] = ApplyOf(kind, g[s \ {i}], ledger[i])
    BY <1>2, <1>4 DEF IsReplay, IsReplayOn
  <2>3. h[s] = ApplyOf(kind, h[s \ {i}], other[i])
    BY <1>2, <1>4, <2>1 DEF IsReplay, IsReplayOn
  <2>4. g[s \ {i}] = h[s \ {i}] /\ other[i] = ledger[i]
    BY <1>1, <1>2, <2>1
  <2> HIDE DEF i
  <2> QED
    BY <1>2, <2>2, <2>3, <2>4
<1> QED
  BY <1>3, <1>4

\* A transaction after all the others is replayed on what they leave.
LEMMA ReplayAppends ==
  ASSUME NEW kind \in {"holdings", "accounts"}, NEW ledger, Dated(ledger),
         NEW k \in Nat, NEW t, t.day \in Nat,
         \A i \in DOMAIN ledger : i < k /\ ledger[i].day <= t.day,
         NEW after, after = [j \in DOMAIN ledger \cup {k} |-> IF j = k THEN t ELSE ledger[j]]
  PROVE  ReplayOf(kind, after) = ApplyOf(kind, ReplayOf(kind, ledger), t)
<1> DEFINE D == DOMAIN ledger
           E == D \cup {k}
<1>1. k \notin D /\ \A i \in D : i \in Nat /\ ledger[i].day \in Nat
  BY DEF Dated
<1>2. DOMAIN after = E /\ after[k] = t /\ \A i \in D : after[i] = ledger[i]
  BY <1>1
<1>3. Dated(after)
  <2>1. IsFiniteSet(E)
    BY FS_AddElement DEF Dated
  <2> QED
    BY <1>1, <1>2, <2>1 DEF Dated
<1>4. Latest(after, E) = k
  <2>1. \A j \in E \ {k} : Before(after, j, k)
    BY <1>1, <1>2 DEF Before
  <2>2. IsLatest(after, E, k)
    BY <2>1 DEF IsLatest
  <2> QED
    BY <1>2, <1>3, <2>2, LatestIs
<1>5. PICK g : IsReplay(g, kind, ledger) /\ ReplayOf(kind, ledger) = g[D]
  BY ReplayExists
<1>6. PICK h : IsReplay(h, kind, after) /\ ReplayOf(kind, after) = h[E]
  BY <1>2, <1>3, ReplayExists
<1>7. h[D] = g[D]
  <2>1. DOMAIN ledger \subseteq DOMAIN after /\ \A i \in DOMAIN ledger : after[i] = ledger[i]
    BY <1>2
  <2>2. IsReplay(g, kind, ledger) /\ IsReplay(h, kind, after)
    BY <1>5, <1>6
  <2> HIDE DEF D, E
  <2>3. \A s \in SUBSET (DOMAIN ledger) : h[s] = g[s]
    BY ONLY Dated(ledger), <1>3, <2>1, <2>2, ReplayAgrees
  <2> QED
    BY <2>3 DEF D
<1>8. h[E] = ApplyOf(kind, h[E \ {k}], after[k])
  BY <1>2, <1>4, <1>6 DEF IsReplay, IsReplayOn
<1>9. E \ {k} = D
  BY <1>1
<1> QED
  BY <1>2, <1>5, <1>6, <1>7, <1>8, <1>9

\* A preview is the effect of the transaction on sound positions.
LEMMA PreviewIsEffect ==
  ASSUME NEW held, NEW acc, Sound(held, acc), held.ok, NEW t \in Trades
  PROVE  LET shown == Preview(acc.quantity[t.asset], acc.average[t.asset], t)
             next == Trade(held, t)
             then == ApplyOf("accounts", acc, t)
         IN  /\ shown.valid = next.ok
             /\ shown.quantity = next.quantity[t.asset]
             /\ shown.average = then.average[t.asset]
             /\ shown.realized = then.realized - acc.realized
<1> DEFINE a == t.asset
           shown == Preview(acc.quantity[a], acc.average[a], t)
           next == Trade(held, t)
           then == ApplyOf("accounts", acc, t)
<1>1. a \in Assets /\ t.type \in {"buy", "sell"} /\ Gross(t) \in Int /\ t.fee \in Int /\ t.quantity \in Int
  BY DEF Trades, Gross
<1>2. /\ acc \in [quantity : [Assets -> Int], average : [Assets -> Int],
                  realized : Int, bought : Int]
      /\ acc.quantity = held.quantity /\ held.quantity \in [Assets -> Int]
  BY DEF Sound
<1>3. acc.realized \in Int /\ acc.average[a] \in Int /\ acc.quantity[a] \in Int
  BY <1>1, <1>2
<1>4. CASE t.type = "buy"
  <2>1. shown.quantity = next.quantity[a]
    BY <1>1, <1>2, <1>4 DEF Preview, Trade
  <2>2. shown.average = then.average[a]
    BY <1>1, <1>2, <1>4 DEF Preview, ApplyOf, Buy
  <2>3. shown.realized = 0 /\ then.realized = acc.realized
    BY <1>1, <1>2, <1>4 DEF Preview, ApplyOf, Buy
  <2>4. shown.valid = TRUE
    BY <1>4 DEF Preview
  <2>5. next.ok = TRUE
    BY <1>4 DEF Trade
  <2> HIDE DEF shown, next, then
  <2>6. shown.realized = then.realized - acc.realized
    BY <1>3, <2>3
  <2> QED
    BY <2>1, <2>2, <2>4, <2>5, <2>6 DEF shown, next, then
<1>5. CASE t.type = "sell"
  <2>1. shown.valid = (t.quantity <= acc.quantity[a]) /\ next.ok = (t.quantity <= held.quantity[a])
    BY <1>5 DEF Preview, Trade
  <2>2. shown.quantity = next.quantity[a]
    BY <1>1, <1>2, <1>5 DEF Preview, Trade
  <2>3. then.average = [acc.average EXCEPT ![a] =
            IF acc.quantity[a] - t.quantity = 0 THEN 0 ELSE acc.average[a]]
    BY <1>1, <1>2, <1>5 DEF ApplyOf, Sell
  <2>4. shown.average = then.average[a]
    BY <1>1, <1>2, <1>3, <1>5, <2>3 DEF Preview
  <2>5. /\ shown.realized = Gross(t) - t.fee - t.quantity * acc.average[a]
        /\ then.realized = acc.realized + Gross(t) - t.fee - t.quantity * acc.average[a]
    BY <1>1, <1>2, <1>5 DEF Preview, ApplyOf, Sell
  <2>6. shown.realized = then.realized - acc.realized
    <3>1. t.quantity * acc.average[a] \in Int
      BY <1>1, <1>3
    <3> HIDE DEF shown, then
    <3> QED
      BY <1>1, <1>3, <2>5, <3>1
  <2>7. shown.valid = next.ok
    BY <1>2, <2>1
  <2> QED
    BY <2>2, <2>4, <2>6, <2>7
<1> QED
  BY <1>1, <1>4, <1>5

\* In the currency of the page a transaction has the same quantity, and is the
\* same where it is traded in that currency.
LEMMA ConvertedIs ==
  ASSUME NEW t \in Inputs
  PROVE  LET u == Converted(t)
         IN  /\ u \in Trades /\ u.day = t.day
             /\ u.asset = t.asset /\ u.type = t.type /\ u.quantity = t.quantity
             /\ Rate[t.asset] = 1 => u = t
<1> DEFINE u == Converted(t)
           rate == Rate[t.asset]
<1>1. t \in Trades
  BY InputsAreTrades
<1>2. rate \in Nat
  BY <1>1, ReportAssumption DEF Trades
<1>3. u = [t EXCEPT !.price = t.price * rate, !.fee = t.fee * rate]
  BY DEF Converted
<1>4. t.price * rate \in Nat /\ t.fee * rate \in Nat
  BY <1>1, <1>2 DEF Trades
<1>5. rate = 1 => t.price * rate = t.price /\ t.fee * rate = t.fee
  BY <1>1 DEF Trades
<1> HIDE DEF u, rate
<1>6. u = [asset |-> t.asset, type |-> t.type, quantity |-> t.quantity,
           price |-> t.price * rate, fee |-> t.fee * rate, day |-> t.day]
  BY <1>1, <1>3 DEF Trades
<1>7. t = [asset |-> t.asset, type |-> t.type, quantity |-> t.quantity,
           price |-> t.price, fee |-> t.fee, day |-> t.day]
  BY <1>1 DEF Trades
<1>8. u \in Trades
  BY <1>1, <1>4, <1>6 DEF Trades
<1>9. rate = 1 => u = t
  BY <1>5, <1>6, <1>7
<1> QED
  BY <1>6, <1>8, <1>9 DEF u, rate

\* In every ledger the handlers leave, the preview of a transaction is right.
LEMMA PreviewRight == IInv /\ TypeInv => PreviewAgrees
<1> SUFFICES ASSUME IInv, TypeInv, NEW t \in Inputs, t.day = Max(Days)
    PROVE LET before == Accounts(rows)
              after == Recorded(rows, Converted(t))
              shown == Preview(before.quantity[t.asset], before.average[t.asset], t)
          IN  /\ shown.valid = Holdings(after).ok
              /\ shown.valid => shown.quantity = Holdings(after).quantity[t.asset]
              /\ shown.valid /\ Rate[t.asset] = 1 =>
                    /\ shown.average = Accounts(after).average[t.asset]
                    /\ shown.realized = Accounts(after).realized - before.realized
  BY DEF PreviewAgrees
<1> DEFINE D == DOMAIN rows
           k == Max(D \cup {0}) + 1
           u == Converted(t)
           after == Recorded(rows, u)
<1>1. IsFiniteSet(D) /\ D \subseteq Nat /\ rows \in [D -> Inputs]
  BY RowsFinite DEF TypeInv, TypeOK
<1>2. \A i \in D : rows[i] \in Trades /\ rows[i].day \in Nat /\ rows[i].day <= t.day
  BY <1>1, InputsAreTrades, LedgerAssumption, MaxIs
<1>3. Dated(rows) /\ Repriced(rows, rows) /\ t \in Trades /\ t.day \in Nat
  BY <1>1, <1>2, InputsAreTrades DEF Dated, Repriced
<1>4. k \in Nat /\ \A i \in D : i < k
  <2> DEFINE S == D \cup {0}
  <2>1. S \subseteq Nat /\ IsFiniteSet(S) /\ S # {}
    BY <1>1, FS_AddElement
  <2>2. Max(S) \in S /\ \A x \in S : x <= Max(S)
    <3> HIDE DEF S
    <3> QED BY <2>1, MaxIs
  <2>3. Max(S) \in Nat
    BY <2>1, <2>2
  <2> QED
    BY <1>1, <2>2, <2>3
<1>5. after = [j \in D \cup {k} |-> IF j = k THEN u ELSE rows[j]]
  BY DEF Recorded
<1>6. /\ u \in Trades /\ u.day = t.day
      /\ u.asset = t.asset /\ u.type = t.type /\ u.quantity = t.quantity
      /\ Rate[t.asset] = 1 => u = t
  BY ConvertedIs
<1>7. /\ k \in Nat /\ u.day \in Nat /\ \A i \in D : i < k /\ rows[i].day <= u.day
      /\ Dated(rows) /\ after = [j \in D \cup {k} |-> IF j = k THEN u ELSE rows[j]]
  <2> HIDE DEF k, u, after
  <2> QED BY <1>2, <1>3, <1>4, <1>5, <1>6
<1> HIDE DEF k, u, after
<1>8. Holdings(after) = Trade(Holdings(rows), u)
  <2>1. ReplayOf("holdings", after) = ApplyOf("holdings", ReplayOf("holdings", rows), u)
    BY ONLY <1>7, ReplayAppends
  <2>2. ReplayOf("holdings", after) = Holdings(after) /\ ReplayOf("holdings", rows) = Holdings(rows)
    BY DEF ReplayOf
  <2>3. ApplyOf("holdings", Holdings(rows), u) = Trade(Holdings(rows), u)
    BY DEF ApplyOf
  <2> QED
    BY ONLY <2>1, <2>2, <2>3
<1>9. Accounts(after) = ApplyOf("accounts", Accounts(rows), u)
  <2>1. ReplayOf("accounts", after) = ApplyOf("accounts", ReplayOf("accounts", rows), u)
    BY ONLY <1>7, ReplayAppends
  <2> QED
    BY <2>1 DEF ReplayOf
<1>10. Sound(Holdings(rows), Accounts(rows)) /\ Holdings(rows).ok
  BY <1>1, <1>3, ReplaySound DEF IInv, PositionsAreReplay
<1> DEFINE held == Holdings(rows)
           acc == Accounts(rows)
           shown == Preview(acc.quantity[t.asset], acc.average[t.asset], t)
           then == ApplyOf("accounts", acc, t)
<1>11. Trade(held, u) = Trade(held, t)
  BY <1>6 DEF Trade
<1>12. /\ shown.valid = Trade(held, t).ok
       /\ shown.quantity = Trade(held, t).quantity[t.asset]
       /\ shown.average = then.average[t.asset]
       /\ shown.realized = then.realized - acc.realized
  BY <1>3, <1>10, PreviewIsEffect
<1> HIDE DEF shown, then, acc, held
<1>13. shown.valid = Holdings(after).ok /\ shown.quantity = Holdings(after).quantity[t.asset]
  BY <1>8, <1>11, <1>12 DEF held
<1>14. ASSUME Rate[t.asset] = 1
       PROVE  /\ shown.average = Accounts(after).average[t.asset]
              /\ shown.realized = Accounts(after).realized - acc.realized
  <2>1. Accounts(after) = then
    BY <1>6, <1>9, <1>14 DEF acc, then
  <2> QED
    BY <1>12, <2>1
<1> QED
  BY <1>13, <1>14 DEF after, u, shown, acc

\* Whatever was recorded, changed and deleted before, the dialog announces of
\* a transaction of today what its replay will compute: whether it is refused
\* and the quantity in any currency, the average cost and the realized profit
\* of an asset traded in the currency of the page.
THEOREM PreviewsAreRight == Spec => []PreviewAgrees
<1>1. Init => TypeInv
  BY InitTypeInv
<1>2. IInv /\ IInv' /\ TypeInv /\ [Next]_vars => TypeInv'
  BY StepTypeInv
<1>3. IInv /\ TypeInv => PreviewAgrees
  BY PreviewRight
<1> QED
  BY <1>1, <1>2, <1>3, Invariance, PTL DEF Spec

\* No position the page shows is short.
NeverShort == \A a \in Assets : positions.quantity[a] >= 0

\* However earlier transactions are changed or deleted under later sales, no
\* position is ever below zero.
THEOREM PositionsNeverShort == Spec => []NeverShort
<1>1. Init => TypeInv
  BY InitTypeInv
<1>2. IInv /\ IInv' /\ TypeInv /\ [Next]_vars => TypeInv'
  BY StepTypeInv
<1>3. ASSUME IInv, TypeInv
      PROVE  NeverShort
  <2>1. IsFiniteSet(DOMAIN rows) /\ DOMAIN rows \subseteq Nat /\ Repriced(rows, rows)
    BY <1>3, RowsFinite, InputsAreTrades DEF TypeInv, TypeOK, Repriced
  <2>2. Sound(Holdings(rows), Accounts(rows))
    BY <2>1, ReplaySound
  <2> QED
    BY <1>3, <2>2 DEF Sound, NeverShort, IInv, PositionsAreReplay
<1> QED
  BY <1>1, <1>2, <1>3, Invariance, PTL DEF Spec

-----------------------------------------------------------------------------
(* Folds over finite sets, unfolded.                                         *)

\* g gives for some subsets what is there after the members of each, when
\* op[x] is applied for its members x, the picked one last.
IsFoldOn(g, base, op, pick, parts) ==
    g = [s \in parts |-> IF s = {} THEN base ELSE op[pick[s]][g[s \ {pick[s]}]]]

AtMost(S, k) == {s \in SUBSET S : Cardinality(s) <= k}

\* What a fold is made of: its steps keep the type V.
Foldable(S, V, base, op, pick) ==
    /\ IsFiniteSet(S)
    /\ base \in V
    /\ op \in [S -> [V -> V]]
    /\ \A s \in SUBSET S : s # {} => pick[s] \in s

IsFold(g, S, V, base, op, pick) ==
    g \in [SUBSET S -> V] /\ IsFoldOn(g, base, op, pick, SUBSET S)

\* There is a fold of the subsets of at most k members, whatever k.
LEMMA FoldUpTo ==
  ASSUME NEW S, IsFiniteSet(S), NEW base, NEW op,
         NEW pick, \A s \in SUBSET S : s # {} => pick[s] \in s,
         NEW k \in Nat
  PROVE  \E g : IsFoldOn(g, base, op, pick, AtMost(S, k))
<1> USE DEF AtMost
<1> DEFINE Part(n) == AtMost(S, n)
           Step(g, s) == IF s = {} THEN base ELSE op[pick[s]][g[s \ {pick[s]}]]
           bad == {n \in Nat : ~ \E g : IsFoldOn(g, base, op, pick, Part(n))}
<1>1. \A u \in SUBSET S : IsFiniteSet(u) /\ Cardinality(u) \in Nat
  BY FS_Subset, FS_CardinalityType
<1>2. \A u \in SUBSET S : u # {} =>
          /\ u \ {pick[u]} \in SUBSET S
          /\ Cardinality(u \ {pick[u]}) = Cardinality(u) - 1
          /\ Cardinality(u) # 0
  BY <1>1, FS_RemoveElement, FS_EmptySet
<1>3. bad = {}
  <2> SUFFICES ASSUME bad # {} PROVE FALSE
    OBVIOUS
  <2>1. PICK n \in bad : \A m \in bad : n <= m
    <3>1. bad \subseteq Nat
      OBVIOUS
    <3> HIDE DEF bad
    <3> QED
      BY <3>1, LeastNatural
  <2>2. n \in Nat /\ ~ \E g : IsFoldOn(g, base, op, pick, Part(n))
    BY <2>1
  <2>3. CASE n = 0
    <3> DEFINE h == [s \in Part(n) |-> base]
    <3>1. \A s \in Part(n) : s = {}
      BY <1>1, <2>3, FS_EmptySet
    <3>2. h = [s \in Part(n) |-> Step(h, s)]
      BY <3>1
    <3> QED
      BY <2>2, <3>2 DEF IsFoldOn
  <2>4. CASE n # 0
    <3>1. n - 1 \in Nat /\ n - 1 \notin bad
      <4>1. n - 1 \in Nat /\ ~(n <= n - 1)
        BY <2>2, <2>4
      <4> HIDE DEF bad
      <4> QED
        BY <2>1, <4>1
    <3>2. PICK g : IsFoldOn(g, base, op, pick, Part(n - 1))
      BY <3>1
    <3> DEFINE h == [s \in Part(n) |-> Step(g, s)]
    <3>3. \A s \in Part(n) : s # {} => s \ {pick[s]} \in Part(n - 1)
      BY <1>1, <1>2, <2>2
    <3>4. \A s \in Part(n - 1) : s \in Part(n) /\ h[s] = g[s]
      <4>1. \A s \in Part(n - 1) : s \in Part(n)
        BY <1>1, <2>2
      <4>2. \A s \in Part(n - 1) : g[s] = Step(g, s)
        BY <3>2 DEF IsFoldOn
      <4> HIDE DEF Step
      <4> QED
        BY <4>1, <4>2
    <3>5. \A s \in Part(n) : Step(g, s) = Step(h, s)
      <4> HIDE DEF h, Part
      <4> QED BY <3>3, <3>4
    <3>6. h = [s \in Part(n) |-> Step(h, s)]
      <4> HIDE DEF Step, Part
      <4> QED BY <3>5
    <3> QED
      BY <2>2, <3>6 DEF IsFoldOn
  <2> QED
    BY <2>3, <2>4
<1>4. k \notin bad
  BY <1>3
<1> QED
  BY <1>4

\* Every fold of a finite set exists, and is of the type its steps keep.
LEMMA FoldExists ==
  ASSUME NEW S, NEW V, NEW base, NEW op, NEW pick, Foldable(S, V, base, op, pick)
  PROVE  \E g : IsFold(g, S, V, base, op, pick)
<1> USE DEF Foldable
<1> DEFINE n == Cardinality(S)
<1>1. n \in Nat /\ AtMost(S, n) = SUBSET S
  BY FS_Subset, FS_CardinalityType DEF AtMost
<1>2. PICK g : IsFoldOn(g, base, op, pick, SUBSET S)
  <2> HIDE DEF n
  <2>1. \E g : IsFoldOn(g, base, op, pick, AtMost(S, n))
    BY <1>1, FoldUpTo
  <2> QED
    BY <1>1, <2>1
<1> DEFINE F == {s \in SUBSET S : g[s] \notin V}
<1>3. F = {}
  <2> SUFFICES ASSUME F # {} PROVE FALSE
    OBVIOUS
  <2>1. PICK s \in F : \A x \in s : s \ {x} \notin F
    <3>1. F \subseteq SUBSET S
      OBVIOUS
    <3> HIDE DEF F
    <3> QED
      BY <3>1, MinimalSubset
  <2>2. s \in SUBSET S /\ g[s] \notin V
    BY <2>1
  <2>3. CASE s = {}
    BY <1>2, <2>2, <2>3 DEF IsFoldOn
  <2>4. CASE s # {}
    <3>1. pick[s] \in s /\ g[s \ {pick[s]}] \in V
      BY <2>1, <2>2, <2>4
    <3>2. g[s] = op[pick[s]][g[s \ {pick[s]}]]
      BY <1>2, <2>2, <2>4 DEF IsFoldOn
    <3>3. op[pick[s]] \in [V -> V]
      BY <2>2, <3>1
    <3>4. op[pick[s]][g[s \ {pick[s]}]] \in V
      BY <3>1, <3>3
    <3> QED
      BY <2>2, <3>2, <3>4
  <2> QED
    BY <2>3, <2>4
<1>4. g = [s \in SUBSET S |-> g[s]]
  BY <1>2 DEF IsFoldOn
<1>5. \A s \in SUBSET S : g[s] \in V
  BY <1>3
<1> HIDE DEF F
<1>6. g \in [SUBSET S -> V]
  BY <1>4, <1>5, Zenon
<1> QED
  BY <1>2, <1>6 DEF IsFold

StepsAgree(S, g, h, pick) ==
    /\ g[{}] = h[{}]
    /\ \A s \in SUBSET S : s # {} =>
          pick[s] \in s /\ (g[s \ {pick[s]}] = h[s \ {pick[s]}] => g[s] = h[s])

\* Two folds agree when every step of theirs agrees.
LEMMA SameFold ==
  ASSUME NEW S, IsFiniteSet(S), NEW g, NEW h, NEW pick, StepsAgree(S, g, h, pick)
  PROVE  \A s \in SUBSET S : g[s] = h[s]
<1> USE DEF StepsAgree
<1> DEFINE F == {s \in SUBSET S : g[s] # h[s]}
<1> SUFFICES ASSUME F # {} PROVE FALSE
  OBVIOUS
<1>1. PICK s \in F : \A x \in s : s \ {x} \notin F
  <2>1. F \subseteq SUBSET S
    OBVIOUS
  <2> HIDE DEF F
  <2> QED
    BY <2>1, MinimalSubset
<1>2. s \in SUBSET S /\ g[s] # h[s]
  BY <1>1
<1>3. s # {}
  BY <1>2
<1>4. pick[s] \in s /\ s \ {pick[s]} \in SUBSET S
  BY <1>2, <1>3
<1>5. g[s \ {pick[s]}] = h[s \ {pick[s]}]
  BY <1>1, <1>4
<1> QED
  BY <1>2, <1>3, <1>5

-----------------------------------------------------------------------------
(* Sums over finite sets.                                                    *)

Pick(s) == CHOOSE x \in s : TRUE

IsSum(g, f) ==
    /\ g \in [SUBSET (DOMAIN f) -> Int]
    /\ g[{}] = 0
    /\ \A s \in SUBSET (DOMAIN f) : s # {} =>
          Pick(s) \in s /\ g[s] = f[Pick(s)] + g[s \ {Pick(s)}]

\* A sum is reached by adding the values one at a time.
LEMMA SumExists ==
  ASSUME NEW S, IsFiniteSet(S), NEW f \in [S -> Int]
  PROVE  \E g : IsSum(g, f) /\ SumFunction(f) = g[S]
<1> DEFINE op == [x \in S |-> [v \in Int |-> f[x] + v]]
           pick == [s \in SUBSET S |-> Pick(s)]
           iter == CHOOSE g : g = [s \in SUBSET S |->
                       IF s = {} THEN 0 ELSE f[Pick(s)] + g[s \ {Pick(s)}]]
<1>1. \A s \in SUBSET S : s # {} => pick[s] \in s /\ Pick(s) \in s /\ pick[s] = Pick(s)
  BY DEF Pick
<1>2. Foldable(S, Int, 0, op, pick)
  <2>1. op \in [S -> [Int -> Int]]
    OBVIOUS
  <2> HIDE DEF op, pick
  <2> QED BY <1>1, <2>1 DEF Foldable
<1>3. PICK g : g \in [SUBSET S -> Int] /\ IsFoldOn(g, 0, op, pick, SUBSET S)
  <2> HIDE DEF op, pick
  <2> QED BY <1>2, FoldExists DEF IsFold
<1>4. ASSUME NEW s \in SUBSET S
      PROVE  (IF s = {} THEN 0 ELSE op[pick[s]][g[s \ {pick[s]}]])
                = IF s = {} THEN 0 ELSE f[Pick(s)] + g[s \ {Pick(s)}]
  <2>1. CASE s # {}
    <3>1. Pick(s) \in S /\ g[s \ {Pick(s)}] \in Int
      BY <1>1, <1>3, <2>1
    <3> QED
      BY <1>1, <2>1, <3>1
  <2> QED
    BY <2>1
<1>5. g = [s \in SUBSET S |-> IF s = {} THEN 0 ELSE f[Pick(s)] + g[s \ {Pick(s)}]]
  BY <1>3, <1>4 DEF IsFoldOn
<1>6. iter = [s \in SUBSET S |-> IF s = {} THEN 0 ELSE f[Pick(s)] + iter[s \ {Pick(s)}]]
  BY <1>5
<1>7. SumFunction(f) = iter[S]
  BY DEF SumFunction, SumFunctionOnSet, FoldFunctionOnSet, MapThenFoldSet, Pick
<1> HIDE DEF iter
<1>8. iter[S] = g[S]
  <2>1. iter[{}] = 0 /\ g[{}] = 0
    BY <1>5, <1>6
  <2>2. ASSUME NEW s \in SUBSET S, s # {}
        PROVE  /\ pick[s] \in s
               /\ iter[s \ {pick[s]}] = g[s \ {pick[s]}] => iter[s] = g[s]
    <3>1. /\ g[s] = f[Pick(s)] + g[s \ {Pick(s)}]
          /\ iter[s] = f[Pick(s)] + iter[s \ {Pick(s)}]
      BY <1>5, <1>6, <2>2
    <3> QED
      BY <1>1, <2>2, <3>1
  <2> HIDE DEF pick
  <2>3. StepsAgree(S, iter, g, pick)
    BY <2>1, <2>2 DEF StepsAgree
  <2>4. \A s \in SUBSET S : iter[s] = g[s]
    BY <2>3, SameFold
  <2> QED
    BY <2>4
<1>9. IsSum(g, f)
  BY <1>1, <1>3, <1>5 DEF IsSum
<1> QED
  BY <1>7, <1>8, <1>9

\* A sum of numbers is a number.
LEMMA SumIsInt ==
  ASSUME NEW S, IsFiniteSet(S), NEW f \in [S -> Int]
  PROVE  SumFunction(f) \in Int
<1>1. PICK g : IsSum(g, f) /\ SumFunction(f) = g[S]
  BY SumExists
<1> QED
  BY <1>1 DEF IsSum

\* One number makes its difference to the sum.
LEMMA SumApart ==
  ASSUME NEW S, IsFiniteSet(S), NEW e \in [S -> Int], NEW f \in [S -> Int],
         NEW a \in S, \A x \in S \ {a} : f[x] = e[x]
  PROVE  SumFunction(f) = SumFunction(e) + f[a] - e[a]
<1>1. PICK g : IsSum(g, e) /\ SumFunction(e) = g[S]
  BY SumExists
<1>2. PICK h : IsSum(h, f) /\ SumFunction(f) = h[S]
  BY SumExists
<1> DEFINE more(s) == IF a \in s THEN f[a] - e[a] ELSE 0
           F == {s \in SUBSET S : h[s] # g[s] + more(s)}
<1>3. F = {}
  <2> SUFFICES ASSUME F # {} PROVE FALSE
    OBVIOUS
  <2>1. PICK s \in F : \A x \in s : s \ {x} \notin F
    <3>1. F \subseteq SUBSET S
      OBVIOUS
    <3> HIDE DEF F
    <3> QED
      BY <3>1, MinimalSubset
  <2>2. s \in SUBSET S /\ h[s] # g[s] + more(s)
    BY <2>1
  <2>3. CASE s = {}
    BY <1>1, <1>2, <2>2, <2>3 DEF IsSum
  <2>4. CASE s # {}
    <3> DEFINE x == Pick(s)
               r == s \ {x}
    <3>1. /\ x \in s /\ x \in S /\ r \in SUBSET S
          /\ g[s] = e[x] + g[r] /\ h[s] = f[x] + h[r]
          /\ g[r] \in Int /\ h[r] \in Int
      BY <1>1, <1>2, <2>2, <2>4 DEF IsSum
    <3>2. h[r] = g[r] + more(r)
      BY <2>1, <3>1
    <3>3. e[x] \in Int /\ f[x] \in Int /\ e[a] \in Int /\ f[a] \in Int
      BY <3>1
    <3>4. CASE x = a
      BY <2>2, <3>1, <3>2, <3>3, <3>4
    <3>5. CASE x # a
      <4>1. f[x] = e[x] /\ more(r) = more(s)
        BY <3>1, <3>5
      <4>2. more(s) \in Int
        BY <3>3
      <4> HIDE DEF more, r, x
      <4> QED
        BY <2>2, <3>1, <3>2, <3>3, <4>1, <4>2
    <3> QED
      BY <3>4, <3>5
  <2> QED
    BY <2>3, <2>4
<1>4. h[S] = g[S] + (f[a] - e[a])
  BY <1>3
<1>5. g[S] \in Int /\ f[a] \in Int /\ e[a] \in Int
  BY <1>1 DEF IsSum
<1> QED
  BY <1>1, <1>2, <1>4, <1>5

\* The sum of differences is the difference of the sums.
LEMMA SumMinus ==
  ASSUME NEW S, IsFiniteSet(S), NEW e \in [S -> Int], NEW f \in [S -> Int],
         NEW d \in [S -> Int], \A x \in S : d[x] = e[x] - f[x]
  PROVE  SumFunction(d) = SumFunction(e) - SumFunction(f)
<1>1. PICK g : IsSum(g, e) /\ SumFunction(e) = g[S]
  BY SumExists
<1>2. PICK h : IsSum(h, f) /\ SumFunction(f) = h[S]
  BY SumExists
<1>3. PICK k : IsSum(k, d) /\ SumFunction(d) = k[S]
  BY SumExists
<1> DEFINE F == {s \in SUBSET S : k[s] # g[s] - h[s]}
<1>4. F = {}
  <2> SUFFICES ASSUME F # {} PROVE FALSE
    OBVIOUS
  <2>1. PICK s \in F : \A x \in s : s \ {x} \notin F
    <3>1. F \subseteq SUBSET S
      OBVIOUS
    <3> HIDE DEF F
    <3> QED
      BY <3>1, MinimalSubset
  <2>2. s \in SUBSET S /\ k[s] # g[s] - h[s]
    BY <2>1
  <2>3. CASE s = {}
    BY <1>1, <1>2, <1>3, <2>2, <2>3 DEF IsSum
  <2>4. CASE s # {}
    <3> DEFINE x == Pick(s)
               r == s \ {x}
    <3>1. /\ x \in s /\ x \in S /\ r \in SUBSET S
          /\ g[s] = e[x] + g[r] /\ h[s] = f[x] + h[r] /\ k[s] = d[x] + k[r]
          /\ g[r] \in Int /\ h[r] \in Int /\ k[r] \in Int
      BY <1>1, <1>2, <1>3, <2>2, <2>4 DEF IsSum
    <3>2. k[r] = g[r] - h[r]
      BY <2>1, <3>1
    <3>3. e[x] \in Int /\ f[x] \in Int /\ d[x] = e[x] - f[x]
      BY <3>1
    <3> HIDE DEF r, x
    <3> QED
      BY <2>2, <3>1, <3>2, <3>3
  <2> QED
    BY <2>3, <2>4
<1> QED
  BY <1>1, <1>2, <1>3, <1>4

\* A sum of nothing is nothing.
LEMMA SumOfZeros ==
  ASSUME NEW S, IsFiniteSet(S), NEW f \in [S -> Int], \A x \in S : f[x] = 0
  PROVE  SumFunction(f) = 0
<1>1. SumFunction(f) = SumFunction(f) - SumFunction(f)
  BY SumMinus
<1> QED
  BY <1>1, SumIsInt

-----------------------------------------------------------------------------
(* The performance of a ledger, unfolded: what is kept from date to date.    *)

Points == [day : Nat, value : Int, growth : Int \X Int, benchmark : Int]

Standing == [quantity : [Assets -> Int], price : [Assets -> Nat], previous : Int, flow : Int,
             units : Int, cash : Int, contributed : Int, withdrawn : Int, points : Seq(Points)]

\* What a transaction does to the performance.
LEMMA AppliedIs ==
  ASSUME NEW p \in Standing, NEW t \in Trades
  PROVE  LET q == Applied(p, t)
         IN  /\ q \in Standing
             /\ q.quantity = [p.quantity EXCEPT ![t.asset] =
                    IF t.type = "buy" THEN p.quantity[t.asset] + t.quantity
                                      ELSE p.quantity[t.asset] - t.quantity]
             /\ q.flow = p.flow + ExternalFlow(t)
             /\ q.withdrawn - q.contributed = p.withdrawn - p.contributed - ExternalFlow(t)
             /\ q.price = p.price /\ q.previous = p.previous
             /\ q.units = p.units /\ q.cash = p.cash /\ q.points = p.points
             /\ ExternalFlow(t) \in Int
<1> DEFINE flow == ExternalFlow(t)
           held == [p.quantity EXCEPT ![t.asset] =
                    IF t.type = "buy" THEN p.quantity[t.asset] + t.quantity
                                      ELSE p.quantity[t.asset] - t.quantity]
           in == IF flow > 0 THEN p.contributed + flow ELSE p.contributed
           out == IF flow > 0 THEN p.withdrawn ELSE p.withdrawn - flow
           q == Applied(p, t)
<1>1. t.asset \in Assets /\ t.quantity \in Int /\ t.price \in Int /\ t.fee \in Int
  BY DEF Trades
<1>2. Gross(t) \in Int
  BY <1>1 DEF Gross
<1>3. flow \in Int
  BY <1>1, <1>2 DEF ExternalFlow
<1>4. p.quantity \in [Assets -> Int] /\ p.contributed \in Int /\ p.withdrawn \in Int /\ p.flow \in Int
  BY DEF Standing
<1>5. held \in [Assets -> Int]
  BY <1>1, <1>4
<1>6. q = [p EXCEPT !.quantity = held, !.flow = p.flow + flow, !.contributed = in, !.withdrawn = out]
  <2>1. Trade([ok |-> TRUE, quantity |-> p.quantity], t).quantity = held
    BY DEF Trade
  <2> QED
    BY <2>1 DEF Applied, Standing
<1>7. in \in Int /\ out \in Int /\ out - in = p.withdrawn - p.contributed - flow
  BY <1>3, <1>4
<1> HIDE DEF held, flow, in, out, q
<1>8. q \in Standing
  <2>1. q = [quantity |-> held, price |-> p.price, previous |-> p.previous,
             flow |-> p.flow + flow, units |-> p.units, cash |-> p.cash,
             contributed |-> in, withdrawn |-> out, points |-> p.points]
    BY <1>6 DEF Standing
  <2>2. /\ p.price \in [Assets -> Nat] /\ p.previous \in Int /\ p.flow + flow \in Int
        /\ p.units \in Int /\ p.cash \in Int /\ p.points \in Seq(Points)
    BY <1>3 DEF Standing
  <2> QED
    BY <1>5, <1>7, <2>1, <2>2 DEF Standing
<1>9. /\ q.quantity = held /\ q.flow = p.flow + flow
      /\ q.withdrawn = out /\ q.contributed = in
      /\ q.price = p.price /\ q.previous = p.previous
      /\ q.units = p.units /\ q.cash = p.cash /\ q.points = p.points
  BY <1>6 DEF Standing
<1> QED
  BY <1>3, <1>7, <1>8, <1>9 DEF held, flow, q

\* A portfolio is worth a number.
LEMMA WorthIs ==
  ASSUME NEW p \in Standing
  PROVE  Worth(p) \in Int
<1> DEFINE f == [a \in Assets |-> p.quantity[a] * p.price[a]]
<1>1. f \in [Assets -> Int]
  BY DEF Standing
<1> HIDE DEF f
<1>2. SumFunction(f) \in Int
  BY <1>1, LedgerAssumption, SumIsInt
<1> QED
  BY <1>2 DEF Worth, f

\* What the benchmark does with the cash of a date.
LEMMA MatchedIs ==
  ASSUME NEW p \in Standing, NEW price \in Nat \ {0}
  PROVE  LET q == Matched(p, price)
             due == (-p.flow) \div price
             sold == IF p.units < due THEN p.units ELSE due
         IN  /\ q = [p EXCEPT !.units = q.units, !.cash = q.cash]
             /\ q.units \in Int /\ q.cash \in Int
             /\ p.flow > 0 => q.units = p.units + p.flow \div price /\ q.cash = p.cash
             /\ ~(p.flow > 0) => q.units = p.units - sold
                                 /\ q.cash = p.cash + p.flow + sold * price
<1> DEFINE bought == p.flow \div price
           due == (-p.flow) \div price
           sold == IF p.units < due THEN p.units ELSE due
           q == Matched(p, price)
<1>1. p.flow \in Int /\ p.units \in Int /\ p.cash \in Int
  BY DEF Standing
<1>2. bought \in Int /\ due \in Int
  BY <1>1
<1>3. sold \in Int /\ sold * price \in Int
  <2> HIDE DEF due
  <2> QED BY <1>1, <1>2
<1>4. q = IF p.flow > 0 THEN [p EXCEPT !.units = p.units + bought]
          ELSE [p EXCEPT !.units = p.units - sold, !.cash = p.cash + p.flow + sold * price]
  BY DEF Matched, Standing
<1> HIDE DEF bought, sold, due, q
<1>5. CASE p.flow > 0
  <2>1. q.units = p.units + bought /\ q.cash = p.cash
        /\ q = [p EXCEPT !.units = q.units, !.cash = q.cash]
    BY <1>4, <1>5 DEF Standing
  <2> QED
    BY <1>1, <1>2, <1>5, <2>1 DEF q, bought
<1>6. CASE ~(p.flow > 0)
  <2>1. q.units = p.units - sold /\ q.cash = p.cash + p.flow + sold * price
        /\ q = [p EXCEPT !.units = q.units, !.cash = q.cash]
    BY <1>4, <1>6 DEF Standing
  <2> QED
    BY <1>1, <1>3, <1>6, <2>1 DEF q, sold, due
<1> QED
  BY <1>5, <1>6

\* The point of a date, and what is kept for the next one.
LEMMA ValuedIs ==
  ASSUME NEW p \in Standing, NEW d \in Nat, NEW price \in Nat \ {0}
  PROVE  LET r == Valued(p, d, price)
             q == Matched(p, price)
             point == [day |-> d, value |-> Worth(p),
                       growth |-> IF p.previous > 0 THEN <<Worth(p) - p.flow, p.previous>>
                                                    ELSE <<1, 1>>,
                       benchmark |-> q.units * price + q.cash]
         IN  /\ r \in Standing
             /\ point \in Points
             /\ r = [p EXCEPT !.units = q.units, !.cash = q.cash, !.previous = Worth(p),
                              !.flow = 0, !.points = Append(p.points, point)]
<1> DEFINE q == Matched(p, price)
           growth == IF p.previous > 0 THEN <<Worth(p) - p.flow, p.previous>> ELSE <<1, 1>>
           worth == q.units * price + q.cash
           point == [day |-> d, value |-> Worth(p), growth |-> growth, benchmark |-> worth]
           r == Valued(p, d, price)
<1>1. /\ q = [p EXCEPT !.units = q.units, !.cash = q.cash]
      /\ q.units \in Int /\ q.cash \in Int
  BY MatchedIs
<1>2. /\ p.flow \in Int /\ p.previous \in Int /\ Worth(p) \in Int
      /\ p.points \in Seq(Points)
  BY WorthIs DEF Standing
<1>3. growth \in Int \X Int /\ worth \in Int
  <2>1. worth \in Int
    <3> HIDE DEF q
    <3> QED BY <1>1
  <2> QED
    BY <1>2, <2>1
<1>4. r = [q EXCEPT !.previous = Worth(p), !.flow = 0, !.points = Append(q.points, point)]
  BY DEF Valued
<1> HIDE DEF q, growth, worth
<1>5. point \in Points
  BY <1>2, <1>3 DEF Points
<1> HIDE DEF point, r
<1>6. q.points = p.points
  BY <1>1 DEF Standing
<1>7. Append(p.points, point) \in Seq(Points)
  BY <1>2, <1>5
<1>8. r = [p EXCEPT !.units = q.units, !.cash = q.cash, !.previous = Worth(p),
                    !.flow = 0, !.points = Append(p.points, point)]
  BY <1>1, <1>4, <1>6 DEF Standing
<1>9. r \in Standing
  <2>1. r = [quantity |-> p.quantity, price |-> p.price, previous |-> Worth(p), flow |-> 0,
             units |-> q.units, cash |-> q.cash, contributed |-> p.contributed,
             withdrawn |-> p.withdrawn, points |-> Append(p.points, point)]
    BY <1>8 DEF Standing
  <2>2. /\ p.quantity \in [Assets -> Int] /\ p.price \in [Assets -> Nat]
        /\ p.contributed \in Int /\ p.withdrawn \in Int
    BY DEF Standing
  <2> QED
    BY <1>1, <1>2, <1>7, <2>1, <2>2 DEF Standing
<1> QED
  BY <1>5, <1>8, <1>9 DEF r, point, growth, worth, q

-----------------------------------------------------------------------------
(* The two loops of the performance: over the transactions of a date, and    *)
(* over the dates.                                                           *)

Booked(ledger) == Dated(ledger) /\ \A i \in DOMAIN ledger : ledger[i] \in Trades

IsFlow(f, p, ledger, due) ==
    /\ f \in [SUBSET due -> Standing]
    /\ f[{}] = p
    /\ \A s \in SUBSET due : s # {} =>
          /\ Latest(ledger, s) \in s
          /\ f[s] = Applied(f[s \ {Latest(ledger, s)}], ledger[Latest(ledger, s)])

\* Transactions are applied one at a time.
LEMMA FlowExists ==
  ASSUME NEW ledger, Booked(ledger), NEW p \in Standing, NEW due, due \subseteq DOMAIN ledger
  PROVE  \E f : IsFlow(f, p, ledger, due) /\ FoldLedger(Applied, p, ledger, due) = f[due]
<1> DEFINE last(s) == Latest(ledger, s)
           op == [i \in due |-> [v \in Standing |-> Applied(v, ledger[i])]]
           pick == [s \in SUBSET due |-> last(s)]
           iter == CHOOSE g : g = [s \in SUBSET due |->
                       IF s = {} THEN p ELSE Applied(g[s \ {last(s)}], ledger[last(s)])]
<1>1. \A s \in SUBSET due : s # {} => pick[s] \in s /\ last(s) \in s /\ pick[s] = last(s)
  <2>1. \A s \in SUBSET due : s # {} => last(s) \in s
    BY LatestIs DEF Booked, IsLatest
  <2> QED
    BY <2>1
<1>2. Foldable(due, Standing, p, op, pick)
  <2>1. \A i \in due : \A v \in Standing : Applied(v, ledger[i]) \in Standing
    BY AppliedIs DEF Booked
  <2>2. op \in [due -> [Standing -> Standing]]
    BY <2>1
  <2>3. IsFiniteSet(due)
    BY FS_Subset DEF Booked, Dated
  <2> HIDE DEF op, pick, last
  <2> QED BY <1>1, <2>2, <2>3 DEF Foldable
<1>3. PICK g : g \in [SUBSET due -> Standing] /\ IsFoldOn(g, p, op, pick, SUBSET due)
  <2> HIDE DEF op, pick
  <2> QED BY <1>2, FoldExists DEF IsFold
<1>4. ASSUME NEW s \in SUBSET due
      PROVE  (IF s = {} THEN p ELSE op[pick[s]][g[s \ {pick[s]}]])
                = IF s = {} THEN p ELSE Applied(g[s \ {last(s)}], ledger[last(s)])
  <2>1. CASE s # {}
    <3>1. last(s) \in due /\ g[s \ {last(s)}] \in Standing
      BY <1>1, <1>3, <2>1
    <3> HIDE DEF last
    <3> QED
      BY <1>1, <2>1, <3>1
  <2> QED
    BY <2>1
<1>5. g = [s \in SUBSET due |->
               IF s = {} THEN p ELSE Applied(g[s \ {last(s)}], ledger[last(s)])]
  <2> HIDE DEF op, pick, last
  <2> QED BY <1>3, <1>4 DEF IsFoldOn
<1>6. iter = [s \in SUBSET due |->
               IF s = {} THEN p ELSE Applied(iter[s \ {last(s)}], ledger[last(s)])]
  BY <1>5
<1>7. FoldLedger(Applied, p, ledger, due) = iter[due]
  BY DEF FoldLedger, MapThenFoldSet
<1> HIDE DEF iter, last
<1>8. iter[due] = g[due]
  <2>1. iter[{}] = p /\ g[{}] = p
    BY <1>5, <1>6
  <2>2. ASSUME NEW s \in SUBSET due, s # {}
        PROVE  /\ pick[s] \in s
               /\ iter[s \ {pick[s]}] = g[s \ {pick[s]}] => iter[s] = g[s]
    <3>1. /\ g[s] = Applied(g[s \ {last(s)}], ledger[last(s)])
          /\ iter[s] = Applied(iter[s \ {last(s)}], ledger[last(s)])
      BY <1>5, <1>6, <2>2
    <3> QED
      BY <1>1, <2>2, <3>1
  <2>3. IsFiniteSet(due)
    BY FS_Subset DEF Booked, Dated
  <2> HIDE DEF pick
  <2>4. StepsAgree(due, iter, g, pick)
    BY <2>1, <2>2 DEF StepsAgree
  <2>5. \A s \in SUBSET due : iter[s] = g[s]
    BY <2>3, <2>4, SameFold
  <2> QED
    BY <2>5
<1>9. IsFlow(g, p, ledger, due)
  <2>1. g[{}] = p
    BY <1>5
  <2>2. \A s \in SUBSET due : s # {} => g[s] = Applied(g[s \ {last(s)}], ledger[last(s)])
    BY <1>5
  <2> QED
    BY <1>1, <1>3, <2>1, <2>2 DEF IsFlow, last
<1> QED
  BY <1>7, <1>8, <1>9

\* The closes of the date, as OnDate takes them.
AtCloses(p, close, d) ==
    [p EXCEPT !.price = [a \in Assets |-> IF close[a][d] > 0 THEN close[a][d] ELSE p.price[a]]]

DueOn(ledger, since, d) == {i \in DOMAIN ledger : since < ledger[i].day /\ ledger[i].day <= d}

\* f applies the transactions of a date to p, and next is kept after it.
IsDate(f, next, p, ledger, due, d, price) ==
    /\ IsFlow(f, p, ledger, due)
    /\ next = IF LeftOut(f[due]) THEN f[due] ELSE Valued(f[due], d, price)

\* A date: the closes, then the transactions since the date before, and then
\* the point, unless the date is left out.
LEMMA DateIs ==
  ASSUME NEW ledger, Booked(ledger), NEW close \in [Assets -> [Days -> Nat]],
         NEW benchmark \in [Days -> Nat \ {0}], NEW p \in Standing, NEW since \in Nat,
         NEW d \in Days
  PROVE  LET priced == AtCloses(p, close, d)
             due == DueOn(ledger, since, d)
             next == OnDate(p, ledger, close, benchmark, since, d)
         IN  /\ priced \in Standing
             /\ next \in Standing
             /\ \E f : IsDate(f, next, priced, ledger, due, d, benchmark[d])
<1> DEFINE priced == AtCloses(p, close, d)
           due == DueOn(ledger, since, d)
           next == OnDate(p, ledger, close, benchmark, since, d)
           price == [a \in Assets |-> IF close[a][d] > 0 THEN close[a][d] ELSE p.price[a]]
<1>1. priced \in Standing
  <2>1. price \in [Assets -> Nat]
    BY DEF Standing
  <2>2. priced = [p EXCEPT !.price = price]
    BY DEF AtCloses
  <2> HIDE DEF price, priced
  <2>3. priced = [quantity |-> p.quantity, price |-> price, previous |-> p.previous,
                  flow |-> p.flow, units |-> p.units, cash |-> p.cash,
                  contributed |-> p.contributed, withdrawn |-> p.withdrawn,
                  points |-> p.points]
    BY <2>2 DEF Standing
  <2>4. /\ p.quantity \in [Assets -> Int] /\ p.previous \in Int /\ p.flow \in Int
        /\ p.units \in Int /\ p.cash \in Int /\ p.contributed \in Int
        /\ p.withdrawn \in Int /\ p.points \in Seq(Points)
    BY DEF Standing
  <2> QED
    BY <2>1, <2>3, <2>4 DEF Standing
<1>2. PICK f : IsFlow(f, priced, ledger, due) /\ FoldLedger(Applied, priced, ledger, due) = f[due]
  <2>1. due \subseteq DOMAIN ledger
    BY DEF DueOn
  <2> HIDE DEF due, priced
  <2> QED BY <1>1, <2>1, FlowExists
<1>3. next = IF LeftOut(f[due]) THEN f[due] ELSE Valued(f[due], d, benchmark[d])
  BY <1>2 DEF OnDate, AtCloses, DueOn
<1>4. f[due] \in Standing
  <2> HIDE DEF due
  <2> QED BY <1>2 DEF IsFlow
<1>5. d \in Nat /\ benchmark[d] \in Nat \ {0}
  BY LedgerAssumption
<1> HIDE DEF next, due, priced
<1>6. Valued(f[due], d, benchmark[d]) \in Standing
  BY <1>4, <1>5, ValuedIs
<1>7. next \in Standing
  BY <1>3, <1>4, <1>6
<1>8. IsDate(f, next, priced, ledger, due, d, benchmark[d])
  BY <1>2, <1>3 DEF IsDate
<1> QED
  BY <1>1, <1>7, <1>8 DEF next, due, priced

IsPerformance(g, ledger, close, benchmark, dates) ==
    /\ g \in [SUBSET dates -> Standing]
    /\ g[{}] = NoPerformance
    /\ \A T \in SUBSET dates : T # {} =>
          /\ Max(T) \in T /\ \A x \in T : x <= Max(T)
          /\ g[T] = OnDate(g[T \ {Max(T)}], ledger, close, benchmark,
                           Since(dates, Max(T)), Max(T))

\* The time of the date before is a number.
LEMMA SinceIs ==
  ASSUME NEW dates, dates \subseteq Days, NEW d \in dates
  PROVE  /\ Since(dates, d) \in Nat
         /\ Since(dates, d) \in {e \in dates : e < d} \cup {0}
         /\ \A e \in dates : e < d => e <= Since(dates, d)
<1> DEFINE S == {e \in dates : e < d} \cup {0}
<1>1. S \subseteq Nat /\ S # {} /\ IsFiniteSet(S)
  <2>1. IsFiniteSet({e \in dates : e < d})
    BY LedgerAssumption, FS_Subset
  <2>2. IsFiniteSet({0})
    BY FS_Singleton
  <2>3. IsFiniteSet(S)
    BY <2>1, <2>2, FS_Union
  <2>4. \A e \in dates : e \in Nat
    BY LedgerAssumption
  <2> QED
    BY <2>3, <2>4
<1> HIDE DEF S
<1>2. Max(S) \in S /\ \A x \in S : x <= Max(S)
  BY <1>1, MaxIs
<1> QED
  BY <1>1, <1>2 DEF S, Since

\* The performance is computed one date at a time.
LEMMA PerformanceExists ==
  ASSUME NEW ledger, Booked(ledger), NEW close \in [Assets -> [Days -> Nat]],
         NEW benchmark \in [Days -> Nat \ {0}]
  PROVE  LET dates == Dates(ledger, close)
         IN  \E g : /\ IsPerformance(g, ledger, close, benchmark, dates)
                    /\ Performance(ledger, close, benchmark) = g[dates]
<1> DEFINE dates == Dates(ledger, close)
           Step(v, d) == OnDate(v, ledger, close, benchmark, Since(dates, d), d)
           op == [d \in dates |-> [v \in Standing |-> Step(v, d)]]
           pick == [T \in SUBSET dates |-> Max(T)]
           iter == CHOOSE g : g = [T \in SUBSET dates |->
                       IF T = {} THEN NoPerformance ELSE Step(g[T \ {Max(T)}], Max(T))]
<1>1. dates \subseteq Days /\ dates \subseteq Nat /\ IsFiniteSet(dates)
  <2>1. dates \subseteq Days
    BY DEF Dates
  <2> QED
    BY <2>1, LedgerAssumption, FS_Subset
<1>2. Performance(ledger, close, benchmark) = iter[dates]
  BY DEF Performance, MapThenFoldSet
<1>3. \A v \in Standing : \A d \in dates : Step(v, d) \in Standing
  <2> HIDE DEF dates
  <2>1. \A d \in dates : d \in Days /\ Since(dates, d) \in Nat
    BY <1>1, SinceIs
  <2> QED
    BY <2>1, DateIs
<1> HIDE DEF Step, dates
<1>4. \A T \in SUBSET dates : T # {} =>
          Max(T) \in T /\ (\A x \in T : x <= Max(T)) /\ pick[T] = Max(T)
  <2>1. \A T \in SUBSET dates : T # {} => Max(T) \in T /\ \A x \in T : x <= Max(T)
    BY <1>1, MaxIs, FS_Subset
  <2> QED
    BY <2>1
<1>5. NoPerformance \in Standing
  <2>1. << >> \in Seq(Points)
    OBVIOUS
  <2>2. [a \in Assets |-> 0] \in [Assets -> Int] /\ [a \in Assets |-> 0] \in [Assets -> Nat]
    OBVIOUS
  <2> QED
    BY <2>1, <2>2 DEF NoPerformance, Standing
<1>6. Foldable(dates, Standing, NoPerformance, op, pick)
  <2>1. op \in [dates -> [Standing -> Standing]]
    BY <1>3
  <2> HIDE DEF op, pick
  <2> QED BY <1>1, <1>4, <1>5, <2>1 DEF Foldable
<1>7. PICK g : g \in [SUBSET dates -> Standing]
               /\ IsFoldOn(g, NoPerformance, op, pick, SUBSET dates)
  <2> HIDE DEF op, pick
  <2> QED BY <1>6, FoldExists DEF IsFold
<1>8. ASSUME NEW T \in SUBSET dates
      PROVE  (IF T = {} THEN NoPerformance ELSE op[pick[T]][g[T \ {pick[T]}]])
                = IF T = {} THEN NoPerformance ELSE Step(g[T \ {Max(T)}], Max(T))
  <2>1. CASE T # {}
    <3>1. Max(T) \in dates /\ g[T \ {Max(T)}] \in Standing
      BY <1>4, <1>7, <2>1
    <3> QED
      BY <1>4, <2>1, <3>1
  <2> QED
    BY <2>1
<1>9. g = [T \in SUBSET dates |->
               IF T = {} THEN NoPerformance ELSE Step(g[T \ {Max(T)}], Max(T))]
  <2> HIDE DEF op, pick
  <2> QED BY <1>7, <1>8 DEF IsFoldOn
<1>10. iter = [T \in SUBSET dates |->
               IF T = {} THEN NoPerformance ELSE Step(iter[T \ {Max(T)}], Max(T))]
  BY <1>9
<1> HIDE DEF iter
<1>11. iter[dates] = g[dates]
  <2>1. iter[{}] = NoPerformance /\ g[{}] = NoPerformance
    BY <1>9, <1>10
  <2>2. ASSUME NEW T \in SUBSET dates, T # {}
        PROVE  /\ pick[T] \in T
               /\ iter[T \ {pick[T]}] = g[T \ {pick[T]}] => iter[T] = g[T]
    <3>1. g[T] = Step(g[T \ {Max(T)}], Max(T))
      BY <1>9, <2>2
    <3>2. iter[T] = Step(iter[T \ {Max(T)}], Max(T))
      BY <1>10, <2>2
    <3> QED
      BY <1>4, <2>2, <3>1, <3>2
  <2> HIDE DEF pick
  <2>3. StepsAgree(dates, iter, g, pick)
    BY <2>1, <2>2 DEF StepsAgree
  <2>4. IsFiniteSet(dates)
    BY <1>1
  <2>5. \A T \in SUBSET dates : iter[T] = g[T]
    BY <2>3, <2>4, SameFold
  <2> QED
    BY <2>5
<1>12. IsPerformance(g, ledger, close, benchmark, dates)
  <2>1. g[{}] = NoPerformance
    BY <1>9
  <2>2. \A T \in SUBSET dates : T # {} => g[T] = Step(g[T \ {Max(T)}], Max(T))
    BY <1>9
  <2> QED
    BY <1>4, <1>7, <2>1, <2>2 DEF IsPerformance, Step
<1> QED
  BY <1>2, <1>11, <1>12 DEF dates

-----------------------------------------------------------------------------
(* The beginnings of a ledger: what was there at a time.                     *)

Beginning(ledger, s) ==
    /\ s \subseteq DOMAIN ledger
    /\ \A i \in s, j \in DOMAIN ledger : Before(ledger, j, i) => j \in s

EarlierIds(ledger, i) == {k \in DOMAIN ledger : Before(ledger, k, i)}

UpToDay(ledger, d) == {i \in DOMAIN ledger : ledger[i].day <= d}

\* A beginning without its last transaction is what is before that one.
LEMMA BeginningShortens ==
  ASSUME NEW ledger, Dated(ledger), NEW s, Beginning(ledger, s), s # {}
  PROVE  LET i == Latest(ledger, s)
         IN  /\ i \in s
             /\ s \ {i} = EarlierIds(ledger, i)
             /\ Beginning(ledger, s \ {i})
<1> DEFINE i == Latest(ledger, s)
<1>1. IsLatest(ledger, s, i)
  BY LatestIs DEF Beginning
<1> HIDE DEF i
<1>2. i \in s /\ s \subseteq DOMAIN ledger /\ \A j \in s \ {i} : Before(ledger, j, i)
  BY <1>1 DEF IsLatest, Beginning
<1>3. \A j \in DOMAIN ledger : j \in Nat /\ ledger[j].day \in Nat
  BY DEF Dated
<1>4. s \ {i} = EarlierIds(ledger, i)
  <2>1. ~Before(ledger, i, i)
    BY <1>2, <1>3 DEF Before
  <2>2. \A k \in EarlierIds(ledger, i) : k \in s /\ k # i
    BY <1>2, <2>1 DEF Beginning, EarlierIds
  <2> QED
    BY <1>2, <2>2 DEF EarlierIds
<1>5. Beginning(ledger, s \ {i})
  <2> SUFFICES ASSUME NEW j \in s \ {i}, NEW k \in DOMAIN ledger, Before(ledger, k, j)
      PROVE  k \in s \ {i}
    BY <1>2 DEF Beginning
  <2>1. k \in s
    BY DEF Beginning
  <2>2. Before(ledger, j, i)
    BY <1>2
  <2>3. k # i
    BY <1>2, <1>3, <2>2 DEF Before
  <2> QED
    BY <2>1, <2>3
<1> QED
  BY <1>2, <1>4, <1>5 DEF i

\* A ledger that can be replayed can be replayed from its beginning to any time.
LEMMA BeginningReplays ==
  ASSUME NEW ledger, Booked(ledger), NEW g, IsReplay(g, "holdings", ledger),
         g[DOMAIN ledger].ok, NEW r, Beginning(ledger, r)
  PROVE  g[r].ok
<1> DEFINE D == DOMAIN ledger
           F == {s \in SUBSET D : r \subseteq s /\ g[s].ok}
<1>1. D \in F /\ F \subseteq SUBSET D /\ IsFiniteSet(D)
  BY DEF Beginning, Booked, Dated
<1>2. PICK s \in F : \A x \in s : s \ {x} \notin F
  <2> HIDE DEF F
  <2> QED BY <1>1, MinimalSubset
<1>3. s \in SUBSET D /\ r \subseteq s /\ g[s].ok
  BY <1>2
<1>4. CASE s = r
  BY <1>3, <1>4
<1>5. CASE s # r
  <2> DEFINE i == Latest(ledger, s)
  <2>1. s # {}
    BY <1>3, <1>5
  <2>2. IsLatest(ledger, s, i)
    BY <1>3, <2>1, LatestIs DEF Booked
  <2>3. g[s] = Trade(g[s \ {i}], ledger[i])
    BY <1>3, <2>1 DEF IsReplay, IsReplayOn, ApplyOf
  <2> HIDE DEF i
  <2>4. i \in s /\ g[s \ {i}].ok
    <3>1. i \in s
      BY <2>2 DEF IsLatest
    <3>2. Trade(g[s \ {i}], ledger[i]).ok
      BY <1>3, <2>3
    <3>3. Trade(g[s \ {i}], ledger[i]).ok =>  g[s \ {i}].ok
      BY DEF Trade
    <3> QED
      BY <3>1, <3>2, <3>3
  <2>5. i \notin r
    <3> SUFFICES ASSUME i \in r PROVE FALSE
      OBVIOUS
    <3>1. \A j \in s : j \in r
      BY <1>3, <2>2 DEF IsLatest, Beginning
    <3> QED
      BY <1>3, <1>5, <3>1
  <2>6. s \ {i} \in F
    BY <1>3, <2>4, <2>5
  <2> QED
    BY <1>2, <2>4, <2>6
<1> QED
  BY <1>4, <1>5

\* The transactions up to a day are a beginning, and those of the next days
\* come after them.
LEMMA DaysBegin ==
  ASSUME NEW ledger, Booked(ledger), NEW d \in Nat
  PROVE  Beginning(ledger, UpToDay(ledger, d))
<1>1. \A j \in DOMAIN ledger : ledger[j].day \in Nat
  BY DEF Booked, Dated
<1> QED
  BY <1>1 DEF Beginning, UpToDay, Before

\* What was there before a transaction, in a replay of the whole ledger.
LEMMA EarlierIs ==
  ASSUME NEW ledger, Booked(ledger), NEW h, IsReplay(h, "accounts", ledger),
         NEW i \in DOMAIN ledger
  PROVE  Accounts(Earlier(ledger, i)) = h[EarlierIds(ledger, i)]
<1> DEFINE E == EarlierIds(ledger, i)
           earlier == Earlier(ledger, i)
<1>1. earlier = [j \in E |-> ledger[j]]
  BY DEF Earlier, EarlierIds
<1>2. E \subseteq DOMAIN ledger
  BY DEF EarlierIds
<1> HIDE DEF E, earlier
<1>3. DOMAIN earlier = E /\ \A j \in E : ledger[j] = earlier[j]
  BY <1>1
<1>4. Dated(ledger) /\ Dated(earlier)
  <2>1. IsFiniteSet(E)
    BY <1>2, FS_Subset DEF Booked, Dated
  <2> QED
    BY <1>2, <1>3, <2>1 DEF Booked, Dated
<1>5. PICK g : IsReplay(g, "accounts", earlier) /\ Accounts(earlier) = g[E]
  BY <1>3, <1>4, ReplayExists DEF ReplayOf
<1>6. \A s \in SUBSET (DOMAIN earlier) : h[s] = g[s]
  <2>1. DOMAIN earlier \subseteq DOMAIN ledger /\ \A j \in DOMAIN earlier : ledger[j] = earlier[j]
    BY <1>2, <1>3
  <2> QED
    BY ONLY <1>4, <1>5, <2>1, IsReplay(h, "accounts", ledger), ReplayAgrees
<1> QED
  BY <1>3, <1>5, <1>6 DEF E, earlier

-----------------------------------------------------------------------------
(* The two computations of the profit.                                       *)

\* Realized profit less the cost of what is held: the cash taken out less the
\* cash put in.
Net(acc) ==
    acc.realized - SumFunction([a \in Assets |-> acc.quantity[a] * acc.average[a]])

\* A purchase whose average is a whole number.
Whole(acc, t) ==
    t.type = "buy" =>
        (acc.quantity[t.asset] * acc.average[t.asset] + Gross(t) + t.fee)
            % (acc.quantity[t.asset] + t.quantity) = 0

\* A division without a remainder.
LEMMA WholeQuotient ==
  ASSUME NEW x \in Int, NEW n \in Int, n > 0, x % n = 0
  PROVE  n * (x \div n) = x
OBVIOUS

\* A transaction changes the net by the cash that goes through the account.
LEMMA NetStep ==
  ASSUME NEW held, NEW acc, Sound(held, acc), held.ok, NEW t \in Trades, Trade(held, t).ok,
         Whole(acc, t)
  PROVE  Net(ApplyOf("accounts", acc, t)) = Net(acc) - ExternalFlow(t)
<1> DEFINE a == t.asset
           n == acc.quantity[a]
           then == ApplyOf("accounts", acc, t)
           cost(x) == [b \in Assets |-> x.quantity[b] * x.average[b]]
<1>1. /\ a \in Assets /\ t.quantity \in Int /\ t.quantity > 0 /\ t.fee \in Int
      /\ Gross(t) \in Int /\ t.type \in {"buy", "sell"}
  BY DEF Trades, Gross
<1>2. /\ acc \in [quantity : [Assets -> Int], average : [Assets -> Int],
                  realized : Int, bought : Int]
      /\ n >= 0
  BY <1>1 DEF Sound
<1>3. then \in [quantity : [Assets -> Int], average : [Assets -> Int],
                realized : Int, bought : Int]
  <2>1. Sound(Trade(held, t), then)
    BY TradeSound
  <2> QED
    BY <2>1 DEF Sound
<1>4. n \in Int /\ acc.average[a] \in Int /\ acc.realized \in Int /\ then.realized \in Int
  BY <1>1, <1>2, <1>3
<1>5. cost(acc) \in [Assets -> Int] /\ cost(then) \in [Assets -> Int]
  <2> HIDE DEF then
  <2> QED BY <1>2, <1>3
<1>6. /\ \A b \in Assets \ {a} : cost(then)[b] = cost(acc)[b]
      /\ then.realized - cost(then)[a] = acc.realized - cost(acc)[a] - ExternalFlow(t)
  <2>1. CASE t.type = "buy"
    <3> DEFINE k == n + t.quantity
               paid == n * acc.average[a] + Gross(t) + t.fee
    <3>1. k \in Int /\ k > 0 /\ paid \in Int /\ paid % k = 0 /\ n * acc.average[a] \in Int
      BY <1>1, <1>2, <1>4, <2>1 DEF Whole
    <3>2. k * (paid \div k) = paid
      <4> HIDE DEF k, paid
      <4> QED BY <3>1, WholeQuotient
    <3>3. /\ then.quantity = [acc.quantity EXCEPT ![a] = k]
          /\ then.average = [acc.average EXCEPT ![a] = paid \div k]
          /\ then.realized = acc.realized
      BY <1>2, <2>1 DEF ApplyOf, Buy
    <3> HIDE DEF k, then
    <3>4. \A b \in Assets \ {a} : cost(then)[b] = cost(acc)[b]
      BY <3>3
    <3>5. cost(then)[a] = paid /\ cost(acc)[a] = n * acc.average[a]
      BY <1>1, <1>2, <3>2, <3>3
    <3>6. ExternalFlow(t) = Gross(t) + t.fee
      BY <2>1 DEF ExternalFlow
    <3> QED
      BY <1>1, <1>4, <3>1, <3>3, <3>4, <3>5, <3>6
  <2>2. CASE t.type = "sell"
    <3> DEFINE k == n - t.quantity
               v == acc.average[a]
    <3>1. /\ then.quantity = [acc.quantity EXCEPT ![a] = k]
          /\ then.average = [acc.average EXCEPT ![a] = IF k = 0 THEN 0 ELSE v]
          /\ then.realized = acc.realized + Gross(t) - t.fee - t.quantity * v
      BY <1>2, <2>2 DEF ApplyOf, Sell
    <3> HIDE DEF then
    <3>2. \A b \in Assets \ {a} : cost(then)[b] = cost(acc)[b]
      BY <3>1
    <3>3. cost(then)[a] = k * (IF k = 0 THEN 0 ELSE v) /\ cost(acc)[a] = n * v
      BY <1>1, <1>2, <3>1
    <3>4. k * (IF k = 0 THEN 0 ELSE v) = n * v - t.quantity * v
      <4>1. k * (IF k = 0 THEN 0 ELSE v) = k * v
        BY <1>1, <1>4
      <4>2. k * v = n * v - t.quantity * v
        BY <1>1, <1>4
      <4> QED
        BY <4>1, <4>2
    <3>5. ExternalFlow(t) = t.fee - Gross(t)
      BY <2>2 DEF ExternalFlow
    <3>6. n * v \in Int /\ t.quantity * v \in Int
      BY <1>1, <1>4
    <3> QED
      BY <1>1, <1>4, <3>1, <3>2, <3>3, <3>4, <3>5, <3>6
  <2> QED
    BY <1>1, <2>1, <2>2
<1>7. ExternalFlow(t) \in Int
  BY <1>1 DEF ExternalFlow
<1>8. Net(acc) = acc.realized - SumFunction(cost(acc))
      /\ Net(then) = then.realized - SumFunction(cost(then))
  BY DEF Net
<1>9. /\ SumFunction(cost(acc)) \in Int
      /\ SumFunction(cost(then)) = SumFunction(cost(acc)) + cost(then)[a] - cost(acc)[a]
      /\ cost(acc)[a] \in Int /\ cost(then)[a] \in Int
  <2> HIDE DEF cost, then, a
  <2>1. SumFunction(cost(acc)) \in Int
    BY <1>5, LedgerAssumption, SumIsInt
  <2>2. SumFunction(cost(then)) = SumFunction(cost(acc)) + cost(then)[a] - cost(acc)[a]
    BY <1>1, <1>5, <1>6, LedgerAssumption, SumApart
  <2>3. cost(acc)[a] \in Int /\ cost(then)[a] \in Int
    BY <1>1, <1>5
  <2> QED
    BY <2>1, <2>2, <2>3
<1> HIDE DEF cost, then, a
<1>10. Net(then) = Net(acc) - ExternalFlow(t)
  BY <1>4, <1>6, <1>7, <1>8, <1>9
<1> QED
  BY <1>10 DEF then

\* The net of sound positions is a number.
LEMMA NetIsInt ==
  ASSUME NEW held, NEW acc, Sound(held, acc), held.ok
  PROVE  Net(acc) \in Int
<1> DEFINE cost == [b \in Assets |-> acc.quantity[b] * acc.average[b]]
<1>1. cost \in [Assets -> Int] /\ acc.realized \in Int
  BY DEF Sound
<1> HIDE DEF cost
<1>2. SumFunction(cost) \in Int
  BY <1>1, LedgerAssumption, SumIsInt
<1> QED
  BY <1>1, <1>2 DEF Net, cost

WholeLedger(ledger, h) ==
    \A i \in DOMAIN ledger : Whole(h[EarlierIds(ledger, i)], ledger[i])

\* The cash of a date is the net of its transactions.
LEMMA CashOfDate ==
  ASSUME NEW ledger, Booked(ledger),
         NEW g, IsReplay(g, "holdings", ledger), g[DOMAIN ledger].ok,
         NEW h, IsReplay(h, "accounts", ledger), WholeLedger(ledger, h),
         NEW since \in Nat, NEW d \in Nat, since <= d,
         NEW p \in Standing, NEW f, IsFlow(f, p, ledger, DueOn(ledger, since, d)),
         p.withdrawn - p.contributed = Net(h[UpToDay(ledger, since)])
  PROVE  LET q == f[DueOn(ledger, since, d)]
         IN  q.withdrawn - q.contributed = Net(h[UpToDay(ledger, d)])
<1> DEFINE D == DOMAIN ledger
           before == UpToDay(ledger, since)
           due == DueOn(ledger, since, d)
           agrees(s) == f[s].withdrawn - f[s].contributed = Net(h[before \cup s])
           F == {s \in SUBSET due : Beginning(ledger, before \cup s) /\ ~agrees(s)}
<1>1. \A i \in D : i \in Nat /\ ledger[i].day \in Nat /\ ledger[i] \in Trades
  BY DEF Booked, Dated
<1>2. /\ due \subseteq D /\ before \subseteq D /\ due \cap before = {}
      /\ before \cup due = UpToDay(ledger, d)
  BY <1>1 DEF DueOn, UpToDay
<1>3. \A s \in SUBSET D : Sound(g[s], h[s])
  <2>1. Repriced(ledger, ledger)
    BY <1>1 DEF Repriced
  <2> QED
    BY <2>1, PartsSound DEF Booked, Dated
<1>4. F = {}
  <2> SUFFICES ASSUME F # {} PROVE FALSE
    OBVIOUS
  <2>1. PICK s \in F : \A x \in s : s \ {x} \notin F
    <3>1. F \subseteq SUBSET due /\ IsFiniteSet(due)
      BY <1>2, FS_Subset DEF Booked, Dated
    <3> HIDE DEF F
    <3> QED
      BY <3>1, MinimalSubset
  <2>2. s \in SUBSET due /\ Beginning(ledger, before \cup s) /\ ~agrees(s)
    BY <2>1
  <2>3. CASE s = {}
    <3>1. before \cup s = before /\ f[s] = p
      BY <2>3 DEF IsFlow
    <3> QED
      BY <2>2, <3>1
  <2>4. CASE s # {}
    <3> DEFINE i == Latest(ledger, s)
               u == before \cup s
               r == s \ {i}
    <3>1. i \in s /\ f[s] = Applied(f[r], ledger[i]) /\ f[r] \in Standing
      BY <2>2, <2>4 DEF IsFlow
    <3>2. Latest(ledger, u) = i
      <4>1. IsLatest(ledger, s, i)
        BY <1>2, <2>2, <2>4, LatestIs DEF Booked
      <4>2. \A j \in before : Before(ledger, j, i)
        BY <1>1, <1>2, <2>2, <3>1 DEF UpToDay, DueOn, Before
      <4>3. IsLatest(ledger, u, i)
        BY <4>1, <4>2 DEF IsLatest
      <4> QED
        BY <1>2, <2>2, <2>4, <4>3, LatestIs DEF Booked
    <3> HIDE DEF i
    <3>3. i \in u /\ u # {} /\ u \ {i} = before \cup r /\ u \in SUBSET D /\ i \in D
      BY <1>2, <2>2, <3>1
    <3>4. u \ {i} = EarlierIds(ledger, i) /\ Beginning(ledger, u \ {i})
      BY <2>2, <3>2, <3>3, BeginningShortens DEF Booked
    <3>5. agrees(r)
      <4>1. r \notin F
        BY <2>1, <3>1
      <4>2. r \in SUBSET due /\ Beginning(ledger, before \cup r)
        BY <2>2, <3>3, <3>4
      <4> HIDE DEF agrees, r
      <4> QED
        BY <4>1, <4>2
    <3>6. /\ g[u \ {i}].ok /\ g[u].ok
          /\ g[u] = Trade(g[u \ {i}], ledger[i])
          /\ h[u] = ApplyOf("accounts", h[u \ {i}], ledger[i])
      <4>1. g[u \ {i}].ok /\ g[u].ok
        BY <2>2, <3>4, BeginningReplays
      <4>2. g[u] = Trade(g[u \ {i}], ledger[i])
        BY <3>2, <3>3 DEF IsReplay, IsReplayOn, ApplyOf
      <4>3. h[u] = ApplyOf("accounts", h[u \ {i}], ledger[i])
        BY <3>2, <3>3 DEF IsReplay, IsReplayOn
      <4> QED
        BY <4>1, <4>2, <4>3
    <3>7. Whole(h[u \ {i}], ledger[i])
      BY <3>3, <3>4 DEF WholeLedger
    <3>8. Sound(g[u \ {i}], h[u \ {i}]) /\ ledger[i] \in Trades
      BY <1>1, <1>3, <3>3
    <3>9. /\ Net(h[u]) = Net(h[u \ {i}]) - ExternalFlow(ledger[i])
          /\ Net(h[u \ {i}]) \in Int
      <4> HIDE DEF u
      <4> QED BY <3>6, <3>7, <3>8, NetStep, NetIsInt
    <3>10. f[s].withdrawn - f[s].contributed
              = f[r].withdrawn - f[r].contributed - ExternalFlow(ledger[i])
      <4> DEFINE q == Applied(f[r], ledger[i])
      <4>1. q.withdrawn - q.contributed
               = f[r].withdrawn - f[r].contributed - ExternalFlow(ledger[i])
        <5> HIDE DEF r
        <5> QED BY <3>1, <3>8, AppliedIs
      <4> QED
        BY <3>1, <4>1
    <3>11. Net(h[before \cup r]) = Net(h[u \ {i}])
      BY <3>3
    <3> QED
      BY <2>2, <3>5, <3>9, <3>10, <3>11
  <2> QED
    BY <2>3, <2>4
<1>5. Beginning(ledger, before \cup due)
  BY <1>2, DaysBegin
<1>6. agrees(due)
  BY <1>4, <1>5
<1> QED
  BY <1>2, <1>6

\* The dates up to one of them.
Early(dates, T) ==
    T \subseteq dates /\ \A x \in T, e \in dates : e < x => e \in T

LastOf(T) == IF T = {} THEN 0 ELSE Max(T)

\* The date before the last of some dates is the last of the others.
LEMMA EarlyIs ==
  ASSUME NEW dates, dates \subseteq Days, NEW T, Early(dates, T), T # {}
  PROVE  LET d == Max(T)
         IN  /\ d \in T /\ d \in Days /\ d \in Nat
             /\ T \ {d} = {e \in dates : e < d}
             /\ Early(dates, T \ {d})
             /\ Since(dates, d) = LastOf(T \ {d})
             /\ Since(dates, d) \in Nat /\ Since(dates, d) < d
             /\ LastOf(T) = d
<1> DEFINE d == Max(T)
<1>1. \A e \in dates : e \in Nat /\ e > 0 /\ e \in Days
  BY LedgerAssumption
<1>2. IsFiniteSet(T) /\ T \subseteq Nat
  BY <1>1, LedgerAssumption, FS_Subset DEF Early
<1>3. d \in T /\ \A x \in T : x <= d
  BY <1>2, MaxIs
<1> HIDE DEF d
<1>4. T \ {d} = {e \in dates : e < d}
  <2>1. \A e \in T : e # d => e < d
    BY <1>2, <1>3
  <2>2. \A e \in dates : e < d => e \in T /\ e # d
    BY <1>1, <1>3 DEF Early
  <2> QED
    BY <2>1, <2>2 DEF Early
<1>5. Early(dates, T \ {d})
  <2> SUFFICES ASSUME NEW x \in T \ {d}, NEW e \in dates, e < x PROVE e \in T \ {d}
    BY DEF Early
  <2>1. x \in Nat /\ e \in Nat /\ d \in Nat /\ x <= d /\ e \in T
    BY <1>1, <1>2, <1>3 DEF Early
  <2> QED
    BY <2>1
<1>6. /\ Since(dates, d) \in Nat
      /\ Since(dates, d) \in {e \in dates : e < d} \cup {0}
      /\ \A e \in dates : e < d => e <= Since(dates, d)
  BY <1>3, SinceIs DEF Early
<1>7. Since(dates, d) = LastOf(T \ {d})
  <2>1. CASE T \ {d} = {}
    BY <1>4, <1>6, <2>1 DEF LastOf
  <2>2. CASE T \ {d} # {}
    <3> DEFINE r == T \ {d}
               m == Max(r)
    <3>1. IsFiniteSet(r) /\ r \subseteq Nat /\ r # {}
      BY <1>2, <2>2, FS_Subset
    <3> HIDE DEF r
    <3>2. m \in r /\ \A x \in r : x <= m
      BY <3>1, MaxIs
    <3> HIDE DEF m
    <3>3. m \in dates /\ m < d /\ m > 0 /\ m <= Since(dates, d)
      BY <1>1, <1>4, <1>6, <3>2 DEF r
    <3>4. Since(dates, d) \in r
      BY <1>1, <1>4, <1>6, <3>3 DEF r
    <3>5. Since(dates, d) <= m
      BY <3>2, <3>4
    <3>6. LastOf(r) = m
      BY <3>1 DEF LastOf, m
    <3> QED
      BY <1>1, <1>6, <3>3, <3>5, <3>6 DEF r
  <2> QED
    BY <2>1, <2>2
<1>8. d \in Days /\ d \in Nat /\ Since(dates, d) < d
  BY <1>1, <1>3, <1>6 DEF Early
<1>9. LastOf(T) = d
  BY DEF LastOf, d
<1> QED
  BY <1>3, <1>4, <1>5, <1>6, <1>7, <1>8, <1>9 DEF d

\* The cash of all dates is the net of the transactions there were by then.
LEMMA CashOfDates ==
  ASSUME NEW ledger, Booked(ledger), \A i \in DOMAIN ledger : ledger[i].day \in Days,
         NEW g, IsReplay(g, "holdings", ledger), g[DOMAIN ledger].ok,
         NEW h, IsReplay(h, "accounts", ledger), WholeLedger(ledger, h),
         NEW close \in [Assets -> [Days -> Nat]], NEW benchmark \in [Days -> Nat \ {0}]
  PROVE  LET p == Performance(ledger, close, benchmark)
         IN  p.withdrawn - p.contributed
                = Net(h[UpToDay(ledger, LastOf(Dates(ledger, close)))])
<1> DEFINE dates == Dates(ledger, close)
<1>1. PICK k : /\ IsPerformance(k, ledger, close, benchmark, dates)
               /\ Performance(ledger, close, benchmark) = k[dates]
  BY PerformanceExists
<1>2. dates \subseteq Days /\ IsFiniteSet(dates)
  <2>1. dates \subseteq Days
    BY DEF Dates
  <2> QED
    BY <2>1, LedgerAssumption, FS_Subset
<1> HIDE DEF dates
<1> DEFINE agrees(T) == k[T].withdrawn - k[T].contributed = Net(h[UpToDay(ledger, LastOf(T))])
           F == {T \in SUBSET dates : Early(dates, T) /\ ~agrees(T)}
<1>3. F = {}
  <2> SUFFICES ASSUME F # {} PROVE FALSE
    OBVIOUS
  <2>1. PICK T \in F : \A x \in T : T \ {x} \notin F
    <3>1. F \subseteq SUBSET dates
      OBVIOUS
    <3> HIDE DEF F
    <3> QED
      BY <1>2, <3>1, MinimalSubset
  <2>2. T \in SUBSET dates /\ Early(dates, T) /\ ~agrees(T)
    BY <2>1
  <2>3. CASE T = {}
    <3>1. k[T].withdrawn = 0 /\ k[T].contributed = 0
      BY <1>1, <2>3 DEF IsPerformance, NoPerformance
    <3>2. UpToDay(ledger, LastOf(T)) = {}
      BY <2>3, LedgerAssumption DEF UpToDay, LastOf
    <3>3. h[{}] = NoAccounts
      BY DEF IsReplay, IsReplayOn, BaseOf
    <3>4. Net(NoAccounts) = 0
      <4> DEFINE cost == [a \in Assets |-> NoAccounts.quantity[a] * NoAccounts.average[a]]
      <4>1. cost \in [Assets -> Int] /\ \A a \in Assets : cost[a] = 0
        BY DEF NoAccounts
      <4>2. NoAccounts.realized = 0
        BY DEF NoAccounts
      <4> HIDE DEF cost
      <4>3. SumFunction(cost) = 0
        BY <4>1, LedgerAssumption, SumOfZeros
      <4> QED
        BY <4>2, <4>3 DEF Net, cost
    <3> QED
      BY <2>2, <3>1, <3>2, <3>3, <3>4
  <2>4. CASE T # {}
    <3> DEFINE d == Max(T)
               R == T \ {d}
               since == Since(dates, d)
    <3>1. /\ d \in T /\ d \in Days /\ d \in Nat
          /\ Early(dates, R) /\ since = LastOf(R) /\ since \in Nat /\ since < d
          /\ LastOf(T) = d
      BY <1>2, <2>2, <2>4, EarlyIs
    <3>2. k[T] = OnDate(k[R], ledger, close, benchmark, since, d) /\ k[R] \in Standing
      BY <1>1, <2>2, <2>4 DEF IsPerformance
    <3>3. agrees(R)
      <4>1. R \notin F /\ R \in SUBSET dates
        BY <2>1, <2>2, <3>1
      <4> HIDE DEF agrees, R
      <4> QED
        BY <3>1, <4>1
    <3> HIDE DEF d, R, since
    <3> DEFINE priced == AtCloses(k[R], close, d)
               due == DueOn(ledger, since, d)
    <3>4. priced \in Standing
      BY <3>1, <3>2, DateIs
    <3>5. PICK f : IsDate(f, k[T], priced, ledger, due, d, benchmark[d])
      <4> DEFINE next == OnDate(k[R], ledger, close, benchmark, since, d)
      <4>1. k[R] \in Standing /\ since \in Nat /\ d \in Days
        BY <3>1, <3>2
      <4>2. \E f : IsDate(f, next, priced, ledger, due, d, benchmark[d])
        BY <4>1, DateIs
      <4> QED
        BY <3>2, <4>2
    <3>6. priced.withdrawn - priced.contributed = Net(h[UpToDay(ledger, since)])
      <4>1. priced.withdrawn = k[R].withdrawn /\ priced.contributed = k[R].contributed
        BY <3>2 DEF AtCloses, Standing
      <4> HIDE DEF priced
      <4> QED
        BY <3>1, <3>3, <4>1
    <3>7. f[due].withdrawn - f[due].contributed = Net(h[UpToDay(ledger, d)])
      <4>1. since <= d
        BY <3>1
      <4> HIDE DEF priced
      <4> QED
        BY <3>1, <3>4, <3>5, <3>6, <4>1, CashOfDate DEF IsDate
    <3>8. k[T].withdrawn = f[due].withdrawn /\ k[T].contributed = f[due].contributed
      <4>1. f[due] \in Standing
        BY <3>5 DEF IsDate, IsFlow
      <4> DEFINE v == Valued(f[due], d, benchmark[d])
      <4>2. v.withdrawn = f[due].withdrawn /\ v.contributed = f[due].contributed
        <5> DEFINE p == f[due]
                   q == Matched(p, benchmark[d])
                   point == [day |-> d, value |-> Worth(p),
                             growth |-> IF p.previous > 0
                                        THEN <<Worth(p) - p.flow, p.previous>> ELSE <<1, 1>>,
                             benchmark |-> q.units * benchmark[d] + q.cash]
        <5>1. benchmark[d] \in Nat \ {0}
          BY <3>1
        <5>2. v = [p EXCEPT !.units = q.units, !.cash = q.cash, !.previous = Worth(p),
                            !.flow = 0, !.points = Append(p.points, point)]
          <6> HIDE DEF due
          <6> QED BY <3>1, <4>1, <5>1, ValuedIs
        <5> HIDE DEF q, point, v, p
        <5> QED
          BY <4>1, <5>2 DEF Standing, p
      <4> QED
        BY <3>5, <4>2 DEF IsDate
    <3> QED
      BY <2>2, <3>1, <3>7, <3>8
  <2> QED
    BY <2>3, <2>4
<1>4. agrees(dates)
  BY <1>3 DEF Early
<1> QED
  BY <1>1, <1>4 DEF dates

\* The quantities after a date are those the ledger leaves by then; prices and
\* points are not touched by its transactions.
LEMMA QuantityOfDate ==
  ASSUME NEW ledger, Booked(ledger), NEW g, IsReplay(g, "holdings", ledger),
         NEW since \in Nat, NEW d \in Nat, since <= d,
         NEW p \in Standing, NEW f, IsFlow(f, p, ledger, DueOn(ledger, since, d)),
         p.quantity = g[UpToDay(ledger, since)].quantity
  PROVE  LET q == f[DueOn(ledger, since, d)]
         IN  /\ q.quantity = g[UpToDay(ledger, d)].quantity
             /\ q.price = p.price /\ q.points = p.points
<1> DEFINE D == DOMAIN ledger
           before == UpToDay(ledger, since)
           due == DueOn(ledger, since, d)
           agrees(s) == /\ f[s].quantity = g[before \cup s].quantity
                        /\ f[s].price = p.price /\ f[s].points = p.points
           F == {s \in SUBSET due : ~agrees(s)}
<1>1. \A i \in D : i \in Nat /\ ledger[i].day \in Nat /\ ledger[i] \in Trades
  BY DEF Booked, Dated
<1>2. /\ due \subseteq D /\ before \subseteq D /\ due \cap before = {}
      /\ before \cup due = UpToDay(ledger, d)
  BY <1>1 DEF DueOn, UpToDay
<1>3. F = {}
  <2> SUFFICES ASSUME F # {} PROVE FALSE
    OBVIOUS
  <2>1. PICK s \in F : \A x \in s : s \ {x} \notin F
    <3>1. F \subseteq SUBSET due /\ IsFiniteSet(due)
      BY <1>2, FS_Subset DEF Booked, Dated
    <3> HIDE DEF F
    <3> QED
      BY <3>1, MinimalSubset
  <2>2. s \in SUBSET due /\ ~agrees(s)
    BY <2>1
  <2>3. CASE s = {}
    <3>1. before \cup s = before /\ f[s] = p
      BY <2>3 DEF IsFlow
    <3> QED
      BY <2>2, <3>1
  <2>4. CASE s # {}
    <3> DEFINE i == Latest(ledger, s)
               u == before \cup s
               r == s \ {i}
    <3>1. i \in s /\ f[s] = Applied(f[r], ledger[i]) /\ f[r] \in Standing
      BY <2>2, <2>4 DEF IsFlow
    <3>2. Latest(ledger, u) = i
      <4>1. IsLatest(ledger, s, i)
        BY <1>2, <2>2, <2>4, LatestIs DEF Booked
      <4>2. \A j \in before : Before(ledger, j, i)
        BY <1>1, <1>2, <2>2, <3>1 DEF UpToDay, DueOn, Before
      <4>3. IsLatest(ledger, u, i)
        BY <4>1, <4>2 DEF IsLatest
      <4> QED
        BY <1>2, <2>2, <2>4, <4>3, LatestIs DEF Booked
    <3> HIDE DEF i
    <3>3. i \in u /\ u # {} /\ u \ {i} = before \cup r /\ u \in SUBSET D /\ i \in D
      BY <1>2, <2>2, <3>1
    <3>4. agrees(r)
      <4>1. r \notin F /\ r \in SUBSET due
        BY <2>1, <2>2, <3>1
      <4> HIDE DEF agrees, r
      <4> QED
        BY <4>1
    <3>5. g[u] = Trade(g[before \cup r], ledger[i])
      BY <3>2, <3>3 DEF IsReplay, IsReplayOn, ApplyOf
    <3>6. ledger[i] \in Trades
      BY <1>1, <3>3
    <3> HIDE DEF r, u
    <3> DEFINE t == ledger[i]
               left == [f[r].quantity EXCEPT ![t.asset] =
                           IF t.type = "buy" THEN f[r].quantity[t.asset] + t.quantity
                                             ELSE f[r].quantity[t.asset] - t.quantity]
    <3>7. f[s].quantity = left /\ f[s].price = f[r].price /\ f[s].points = f[r].points
      <4> DEFINE w == f[r]
      <4>1. w \in Standing /\ t \in Trades
        BY <3>1, <3>6
      <4> HIDE DEF t, w
      <4>2. /\ Applied(w, t).quantity = [w.quantity EXCEPT ![t.asset] =
                   IF t.type = "buy" THEN w.quantity[t.asset] + t.quantity
                                     ELSE w.quantity[t.asset] - t.quantity]
            /\ Applied(w, t).price = w.price /\ Applied(w, t).points = w.points
        BY <4>1, AppliedIs
      <4> QED
        BY <3>1, <4>2 DEF t, w
    <3>8. g[u].quantity = left
      BY <3>4, <3>5 DEF Trade
    <3> HIDE DEF left
    <3> QED
      BY <2>2, <3>4, <3>7, <3>8 DEF u
  <2> QED
    BY <2>3, <2>4
<1>4. agrees(due)
  BY <1>3
<1> QED
  BY <1>2, <1>4

\* What was never traded is not held.
LEMMA HeldIsTraded ==
  ASSUME NEW ledger, Booked(ledger), NEW g, IsReplay(g, "holdings", ledger),
         NEW a \in Assets, \A i \in DOMAIN ledger : ledger[i].asset # a
  PROVE  g[DOMAIN ledger].quantity[a] = 0
<1> DEFINE D == DOMAIN ledger
           F == {s \in SUBSET D : g[s].quantity[a] # 0}
<1>1. \A i \in D : ledger[i] \in Trades
  BY DEF Booked
<1>2. PICK h : IsReplay(h, "accounts", ledger)
  BY ReplayExists DEF Booked
<1>3. \A s \in SUBSET D : Sound(g[s], h[s])
  <2>1. Repriced(ledger, ledger)
    BY <1>1 DEF Repriced
  <2> QED
    BY <1>2, <2>1, PartsSound DEF Booked, Dated
<1>4. F = {}
  <2> SUFFICES ASSUME F # {} PROVE FALSE
    OBVIOUS
  <2>1. PICK s \in F : \A x \in s : s \ {x} \notin F
    <3>1. F \subseteq SUBSET D /\ IsFiniteSet(D)
      BY DEF Booked, Dated
    <3> HIDE DEF F
    <3> QED
      BY <3>1, MinimalSubset
  <2>2. s \in SUBSET D /\ g[s].quantity[a] # 0
    BY <2>1
  <2>3. CASE s = {}
    BY <2>2, <2>3 DEF IsReplay, IsReplayOn, BaseOf, NoHoldings
  <2>4. CASE s # {}
    <3> DEFINE i == Latest(ledger, s)
    <3>1. i \in s
      BY <2>2, <2>4, LatestIs DEF Booked, IsLatest
    <3>2. g[s] = Trade(g[s \ {i}], ledger[i])
      BY <2>2, <2>4 DEF IsReplay, IsReplayOn, ApplyOf
    <3> HIDE DEF i
    <3>3. g[s \ {i}].quantity[a] = 0
      BY <2>1, <2>2, <3>1
    <3>4. g[s \ {i}].quantity \in [Assets -> Int] /\ ledger[i].asset # a
      BY <1>3, <2>2, <3>1 DEF Sound
    <3>5. g[s].quantity[a] = g[s \ {i}].quantity[a]
      BY <3>2, <3>4 DEF Trade
    <3> QED
      BY <2>2, <3>3, <3>5
  <2> QED
    BY <2>3, <2>4
<1> QED
  BY <1>4

\* The last close of an asset on some dates.
CloseOn(close, a, T) ==
    LET priced == {d \in T : close[a][d] > 0}
    IN  IF priced = {} THEN 0 ELSE close[a][Max(priced)]

IsLastDate(T, d) == T \subseteq Nat /\ d \in T /\ \A x \in T : x <= d

OwnClose(close, a, T, d) ==
    IF close[a][d] > 0 THEN close[a][d] ELSE CloseOn(close, a, T \ {d})

\* A later date has its own close, or leaves the last one.
LEMMA CloseMore ==
  ASSUME NEW close, NEW a, NEW T, NEW d, IsLastDate(T, d)
  PROVE  CloseOn(close, a, T) = OwnClose(close, a, T, d)
<1> USE DEF IsLastDate, OwnClose
<1> DEFINE priced == {x \in T : close[a][x] > 0}
<1>1. CASE close[a][d] > 0
  <2>1. d \in priced /\ priced \subseteq Nat /\ \A x \in priced : x <= d
    BY <1>1
  <2>2. Max(priced) = d
    <3> HIDE DEF priced
    <3>1. \A m \in priced : (\A x \in priced : x <= m) => m = d
      BY <2>1
    <3> QED
      BY <2>1, <3>1 DEF Max
  <2>3. priced # {}
    BY <2>1
  <2> HIDE DEF priced
  <2>4. close[a][Max(priced)] = close[a][d]
    BY <2>2
  <2> QED
    BY <1>1, <2>3, <2>4 DEF CloseOn, priced
<1>2. CASE ~(close[a][d] > 0)
  <2>1. {x \in T \ {d} : close[a][x] > 0} = priced
    BY <1>2
  <2> QED
    BY <1>2, <2>1 DEF CloseOn
<1> QED
  BY <1>1, <1>2

\* What is kept after the dates T: the quantities of the ledger by then, the
\* last closes, and, if the last date is not left out, its point.
Reaches(p, ledger, g, close, T) ==
    LET last == p.points[Len(p.points)]
    IN  /\ p.quantity = g[UpToDay(ledger, LastOf(T))].quantity
        /\ \A a \in Assets : p.price[a] = CloseOn(close, a, T)
        /\ p.points # << >> => /\ last.day \in T
                               /\ last.day = LastOf(T) => last.value = Worth(p)

LEMMA ChartReaches ==
  ASSUME NEW ledger, Booked(ledger), \A i \in DOMAIN ledger : ledger[i].day \in Days,
         NEW g, IsReplay(g, "holdings", ledger),
         NEW close \in [Assets -> [Days -> Nat]], NEW benchmark \in [Days -> Nat \ {0}]
  PROVE  Reaches(Performance(ledger, close, benchmark), ledger, g, close, Dates(ledger, close))
<1> DEFINE dates == Dates(ledger, close)
<1>1. PICK k : /\ IsPerformance(k, ledger, close, benchmark, dates)
               /\ Performance(ledger, close, benchmark) = k[dates]
  BY PerformanceExists
<1>2. dates \subseteq Days /\ IsFiniteSet(dates) /\ dates \subseteq Nat
  <2>1. dates \subseteq Days
    BY DEF Dates
  <2> QED
    BY <2>1, LedgerAssumption, FS_Subset
<1>3. ASSUME NEW i \in DOMAIN ledger
      PROVE  ~(ledger[i].day <= 0)
  <2>1. ledger[i].day \in Days
    OBVIOUS
  <2>2. ledger[i].day \in Nat \ {0}
    BY <2>1, LedgerAssumption
  <2> QED
    BY <2>2
<1> HIDE DEF dates
<1> DEFINE reached(T) == Reaches(k[T], ledger, g, close, T)
           F == {T \in SUBSET dates : Early(dates, T) /\ ~reached(T)}
<1>4. F = {}
  <2> SUFFICES ASSUME F # {} PROVE FALSE
    OBVIOUS
  <2>1. PICK T \in SUBSET dates : T \in F /\ \A x \in T : T \ {x} \notin F
    <3>1. F \subseteq SUBSET dates
      OBVIOUS
    <3> HIDE DEF F
    <3> QED
      BY <1>2, <3>1, MinimalSubset
  <2>2. Early(dates, T) /\ ~reached(T)
    BY <2>1
  <2>3. CASE T = {}
    <3>1. k[T] = NoPerformance
      BY <1>1, <2>3 DEF IsPerformance
    <3>2. UpToDay(ledger, LastOf(T)) = {}
      <4>1. LastOf(T) = 0
        BY <2>3 DEF LastOf
      <4>2. UpToDay(ledger, 0) = {}
        BY <1>3 DEF UpToDay
      <4> QED
        BY ONLY <4>1, <4>2
    <3>3. g[{}].quantity = NoPerformance.quantity
      BY DEF IsReplay, IsReplayOn, BaseOf, NoHoldings, NoPerformance
    <3>4. \A a \in Assets : NoPerformance.price[a] = CloseOn(close, a, T)
      BY <2>3 DEF NoPerformance, CloseOn
    <3>5. NoPerformance.points = << >>
      BY DEF NoPerformance
    <3> QED
      BY <2>2, <3>1, <3>2, <3>3, <3>4, <3>5 DEF Reaches
  <2>4. CASE T # {}
    <3> DEFINE d == Max(T)
               R == T \ {d}
               since == Since(dates, d)
    <3>1. /\ d \in T /\ d \in Days /\ d \in Nat
          /\ Early(dates, R) /\ since = LastOf(R) /\ since \in Nat /\ since < d
          /\ LastOf(T) = d
      BY <1>2, <2>2, <2>4, EarlyIs
    <3>2. k[T] = OnDate(k[R], ledger, close, benchmark, since, d) /\ k[R] \in Standing
          /\ \A x \in T : x <= d
      BY <1>1, <2>2, <2>4 DEF IsPerformance
    <3>3. reached(R)
      <4>1. R \notin F /\ R \in SUBSET dates
        BY <2>1, <2>2, <3>1
      <4> HIDE DEF reached, R
      <4> QED
        BY <3>1, <4>1
    <3>4. R \subseteq Nat /\ R \subseteq T /\ d \notin R /\ T \subseteq Nat /\ R = T \ {d}
      BY <1>2, <2>2
    <3> HIDE DEF d, R, since
    <3> DEFINE priced == AtCloses(k[R], close, d)
               due == DueOn(ledger, since, d)
    <3>5. priced \in Standing
      BY <3>1, <3>2, DateIs
    <3>6. PICK f : IsDate(f, k[T], priced, ledger, due, d, benchmark[d])
      <4> DEFINE next == OnDate(k[R], ledger, close, benchmark, since, d)
      <4>1. k[R] \in Standing /\ since \in Nat /\ d \in Days
        BY <3>1, <3>2
      <4>2. \E f : IsDate(f, next, priced, ledger, due, d, benchmark[d])
        BY <4>1, DateIs
      <4> QED
        BY <3>2, <4>2
    <3>7. /\ priced.quantity = g[UpToDay(ledger, since)].quantity
          /\ priced.points = k[R].points
          /\ \A a \in Assets : priced.price[a] = CloseOn(close, a, T)
      <4>1. /\ priced.quantity = k[R].quantity /\ priced.points = k[R].points
            /\ priced.price = [a \in Assets |-> IF close[a][d] > 0 THEN close[a][d]
                                                                   ELSE k[R].price[a]]
        BY <3>2 DEF AtCloses, Standing
      <4>2. \A a \in Assets : CloseOn(close, a, T)
                 = IF close[a][d] > 0 THEN close[a][d] ELSE CloseOn(close, a, R)
        <5> SUFFICES ASSUME NEW a \in Assets
            PROVE CloseOn(close, a, T)
                     = IF close[a][d] > 0 THEN close[a][d] ELSE CloseOn(close, a, R)
          OBVIOUS
        <5>1. IsLastDate(T, d)
          BY <3>1, <3>2, <3>4 DEF IsLastDate
        <5>2. CloseOn(close, a, T) = OwnClose(close, a, T, d)
          BY ONLY <5>1, CloseMore
        <5> QED
          BY ONLY <3>4, <5>2 DEF OwnClose
      <4> HIDE DEF priced
      <4> QED
        BY <3>1, <3>3, <4>1, <4>2 DEF Reaches
    <3> DEFINE q == f[due]
    <3>8. /\ q.quantity = g[UpToDay(ledger, d)].quantity
          /\ q.price = priced.price /\ q.points = priced.points
      <4>1. since <= d
        BY <3>1
      <4> HIDE DEF priced
      <4> QED
        BY <3>1, <3>5, <3>6, <3>7, <4>1, QuantityOfDate DEF IsDate
    <3>9. q \in Standing /\ k[T] = IF LeftOut(q) THEN q ELSE Valued(q, d, benchmark[d])
      BY <3>6 DEF IsDate, IsFlow
    <3> HIDE DEF q, due, priced
    <3>10. CASE LeftOut(q)
      <4> DEFINE last == q.points[Len(q.points)]
      <4>1. k[T] = q
        BY <3>9, <3>10
      <4>2. q.points # << >> => last.day \in R
        BY <3>3, <3>7, <3>8 DEF Reaches
      <4>3. q.points # << >> => last.day \in T /\ last.day # LastOf(T)
        BY <3>1, <3>4, <4>2
      <4>4. /\ q.quantity = g[UpToDay(ledger, LastOf(T))].quantity
            /\ \A a \in Assets : q.price[a] = CloseOn(close, a, T)
        BY <3>1, <3>7, <3>8
      <4> HIDE DEF last
      <4>5. Reaches(q, ledger, g, close, T)
        BY <4>3, <4>4 DEF Reaches, last
      <4> QED
        BY <2>2, <4>1, <4>5
    <3>11. CASE ~LeftOut(q)
      <4> DEFINE v == Valued(q, d, benchmark[d])
                 m == Matched(q, benchmark[d])
                 point == [day |-> d, value |-> Worth(q),
                           growth |-> IF q.previous > 0
                                      THEN <<Worth(q) - q.flow, q.previous>> ELSE <<1, 1>>,
                           benchmark |-> m.units * benchmark[d] + m.cash]
      <4>1. k[T] = v
        BY <3>9, <3>11
      <4>2. benchmark[d] \in Nat \ {0} /\ d \in Nat /\ q \in Standing
        BY <3>1, <3>9
      <4>3. /\ point \in Points
            /\ v = [q EXCEPT !.units = m.units, !.cash = m.cash, !.previous = Worth(q),
                             !.flow = 0, !.points = Append(q.points, point)]
        <5>1. point \in Points
          BY ONLY <4>2, ValuedIs
        <5>2. v = [q EXCEPT !.units = m.units, !.cash = m.cash, !.previous = Worth(q),
                            !.flow = 0, !.points = Append(q.points, point)]
          BY ONLY <4>2, ValuedIs
        <5> HIDE DEF point, v
        <5> QED
          BY <5>1, <5>2
      <4>4. point.day = d /\ point.value = Worth(q)
        OBVIOUS
      <4> HIDE DEF m, point, v
      <4>5. /\ v.quantity = q.quantity /\ v.price = q.price
            /\ v.points = Append(q.points, point)
        BY <3>9, <4>3 DEF Standing
      <4>6. v.points[Len(v.points)] = point
        <5>1. q.points \in Seq(Points)
          BY <3>9 DEF Standing
        <5> QED
          BY <4>3, <4>5, <5>1
      <4>7. Worth(v) = Worth(q)
        BY <4>5 DEF Worth
      <4>8. /\ v.quantity = g[UpToDay(ledger, LastOf(T))].quantity
            /\ \A a \in Assets : v.price[a] = CloseOn(close, a, T)
        BY <3>1, <3>7, <3>8, <4>5
      <4>9. Reaches(v, ledger, g, close, T)
        BY <3>1, <4>4, <4>6, <4>7, <4>8 DEF Reaches
      <4> QED
        BY <2>2, <4>1, <4>9
    <3> QED
      BY <3>10, <3>11
  <2> QED
    BY <2>3, <2>4
<1>5. reached(dates)
  BY <1>4 DEF Early
<1> QED
  BY <1>1, <1>5 DEF dates

\* In every ledger the handlers leave, the two computations agree.
LEMMA ProfitRight == IInv /\ TypeInv /\ WholeAverages => ProfitAgrees
<1> DEFINE D == DOMAIN rows
           dates == Dates(rows, Close)
           acc == Accounts(rows)
           held == Holdings(rows)
           p == Performance(rows, Close, NoBenchmark)
<1> SUFFICES ASSUME IInv, TypeInv, WholeAverages, UpToDate(p)
    PROVE TotalPnL(rows) = ChartProfit(p)
  BY DEF ProfitAgrees
<1>1. IsFiniteSet(D) /\ D \subseteq Nat /\ rows \in [D -> Inputs]
  BY RowsFinite DEF TypeInv, TypeOK
<1>2. \A i \in D : rows[i] \in Inputs /\ rows[i] \in Trades /\ rows[i].day \in Days /\ rows[i].day \in Nat
  BY <1>1, InputsAreTrades
<1>3. Booked(rows) /\ Repriced(rows, rows)
  BY <1>1, <1>2 DEF Booked, Dated, Repriced
<1>4. PICK g : IsReplay(g, "holdings", rows) /\ held = g[D]
  BY <1>3, ReplayExists DEF Booked, ReplayOf
<1>5. PICK h : IsReplay(h, "accounts", rows) /\ acc = h[D]
  BY <1>3, ReplayExists DEF Booked, ReplayOf
<1>6. Sound(held, acc) /\ held.ok
  BY <1>1, <1>3, ReplaySound DEF IInv, PositionsAreReplay
<1>7. WholeLedger(rows, h)
  <2> SUFFICES ASSUME NEW i \in D PROVE Whole(h[EarlierIds(rows, i)], rows[i])
    BY DEF WholeLedger
  <2>1. Accounts(Earlier(rows, i)) = h[EarlierIds(rows, i)]
    BY <1>3, <1>5, EarlierIs
  <2> QED
    BY <2>1 DEF WholeAverages, Whole
<1>8. /\ Reaches(p, rows, g, Close, dates)
      /\ dates \subseteq Days
  <2>1. Close \in [Assets -> [Days -> Nat]]
    BY ReportAssumption
  <2>2. NoBenchmark \in [Days -> Nat \ {0}]
    BY DEF NoBenchmark
  <2>3. dates \subseteq Days
    BY DEF Dates
  <2> QED
    BY <1>2, <1>3, <1>4, <2>1, <2>2, <2>3, ChartReaches
<1>9. LastOf(dates) = Max(dates) /\ UpToDay(rows, LastOf(dates)) = D
  <2>1. dates # {}
    BY <1>8 DEF UpToDate, Reaches
  <2>2. LastOf(dates) = Max(dates)
    BY <2>1 DEF LastOf
  <2> QED
    BY <2>2 DEF UpToDate, UpToDay
<1>10. p.quantity = held.quantity /\ p.points[Len(p.points)].value = Worth(p)
       /\ \A a \in Assets : p.price[a] = CloseOn(Close, a, dates)
  BY <1>4, <1>8, <1>9 DEF UpToDate, Reaches
<1>11. \A a \in Assets : held.quantity[a] # 0 => CloseOn(Close, a, dates) = LastClose(a)
  <2> SUFFICES ASSUME NEW a \in Assets, held.quantity[a] # 0
      PROVE CloseOn(Close, a, dates) = LastClose(a)
    OBVIOUS
  <2>1. PICK i \in D : rows[i].asset = a
    BY <1>3, <1>4, HeldIsTraded
  <2>2. {d \in dates : Close[a][d] > 0} = {d \in Days : Close[a][d] > 0}
    BY <2>1 DEF Dates
  <2> QED
    BY <2>2 DEF CloseOn, LastClose
<1>12. p.withdrawn - p.contributed = Net(acc)
  <2>1. Close \in [Assets -> [Days -> Nat]]
    BY ReportAssumption
  <2>2. NoBenchmark \in [Days -> Nat \ {0}]
    BY DEF NoBenchmark
  <2>3. g[DOMAIN rows].ok
    BY <1>4, <1>6
  <2>4. p.withdrawn - p.contributed = Net(h[UpToDay(rows, LastOf(dates))])
    BY <1>2, <1>3, <1>4, <1>5, <1>7, <2>1, <2>2, <2>3, CashOfDates
  <2> QED
    BY <1>5, <1>9, <2>4
<1>13. /\ p.withdrawn \in Int /\ p.contributed \in Int
       /\ \A a \in Assets : p.price[a] \in Int
  <2>1. Close \in [Assets -> [Days -> Nat]]
    BY ReportAssumption
  <2>2. NoBenchmark \in [Days -> Nat \ {0}]
    BY DEF NoBenchmark
  <2>3. PICK k : /\ IsPerformance(k, rows, Close, NoBenchmark, dates)
                 /\ p = k[dates]
    BY <1>3, <2>1, <2>2, PerformanceExists
  <2>4. p \in Standing
    <3> HIDE DEF dates, p
    <3> QED BY <2>3 DEF IsPerformance
  <2> HIDE DEF p
  <2> QED
    BY <2>4 DEF Standing
<1> HIDE DEF p, dates
<1> DEFINE cost == [a \in Assets |-> acc.quantity[a] * acc.average[a]]
           worth == [a \in Assets |-> held.quantity[a] * LastClose(a)]
           unrealized == [a \in Assets |-> acc.quantity[a] * (LastClose(a) - acc.average[a])]
<1>14. \A a \in Assets : LastClose(a) \in Int
  <2> SUFFICES ASSUME NEW a \in Assets PROVE LastClose(a) \in Int
    OBVIOUS
  <2> DEFINE priced == {d \in Days : Close[a][d] > 0}
  <2>1. priced \subseteq Nat /\ IsFiniteSet(priced) /\ priced \subseteq Days
    BY LedgerAssumption, FS_Subset
  <2>2. CASE priced = {}
    BY <2>2 DEF LastClose
  <2>3. CASE priced # {}
    <3>1. Max(priced) \in Days
      <4> HIDE DEF priced
      <4> QED BY <2>1, <2>3, MaxIs
    <3>2. LastClose(a) = Close[a][Max(priced)]
      BY <2>3 DEF LastClose
    <3>3. Close[a] \in [Days -> Nat]
      BY ReportAssumption
    <3> HIDE DEF priced
    <3> QED
      BY <3>1, <3>2, <3>3
  <2> QED
    BY <2>2, <2>3
<1>15. /\ acc.quantity \in [Assets -> Int] /\ acc.average \in [Assets -> Int]
       /\ held.quantity = acc.quantity /\ acc.realized \in Int
  BY <1>6 DEF Sound
<1> HIDE DEF acc, held
<1>16. cost \in [Assets -> Int] /\ worth \in [Assets -> Int] /\ unrealized \in [Assets -> Int]
  BY <1>14, <1>15
<1>17. \A a \in Assets : unrealized[a] = worth[a] - cost[a]
  <2> SUFFICES ASSUME NEW a \in Assets PROVE unrealized[a] = worth[a] - cost[a]
    OBVIOUS
  <2>1. acc.quantity[a] \in Int /\ acc.average[a] \in Int /\ LastClose(a) \in Int
    BY <1>14, <1>15
  <2> QED
    BY <1>15, <2>1
<1>18. /\ TotalPnL(rows) = acc.realized + SumFunction(unrealized)
       /\ Net(acc) = acc.realized - SumFunction(cost)
  BY DEF TotalPnL, Net, acc
<1>19. SumFunction(worth) = p.points[Len(p.points)].value
  <2>1. \A a \in Assets : held.quantity[a] * LastClose(a) = p.quantity[a] * p.price[a]
    <3> SUFFICES ASSUME NEW a \in Assets
        PROVE held.quantity[a] * LastClose(a) = p.quantity[a] * p.price[a]
      OBVIOUS
    <3>1. CASE held.quantity[a] # 0
      <4>1. p.quantity[a] = held.quantity[a] /\ p.price[a] = LastClose(a)
        BY <1>10, <1>11, <3>1
      <4> QED
        BY <4>1
    <3>2. CASE held.quantity[a] = 0
      <4>1. p.quantity[a] = 0 /\ LastClose(a) \in Int /\ p.price[a] \in Int
        BY <1>10, <1>13, <1>14, <3>2
      <4> QED
        BY <3>2, <4>1
    <3> QED
      BY <3>1, <3>2
  <2>2. worth = [a \in Assets |-> p.quantity[a] * p.price[a]]
    BY <2>1
  <2> HIDE DEF worth
  <2> QED
    BY <1>10, <2>2 DEF Worth
<1>20. ChartProfit(p) = SumFunction(worth) + p.withdrawn - p.contributed
  BY <1>19 DEF ChartProfit
<1> HIDE DEF cost, worth, unrealized
<1>21. SumFunction(unrealized) = SumFunction(worth) - SumFunction(cost)
  BY <1>16, <1>17, LedgerAssumption, SumMinus
<1>22. SumFunction(worth) \in Int /\ SumFunction(cost) \in Int
  BY <1>16, LedgerAssumption, SumIsInt
<1> QED
  BY <1>12, <1>13, <1>15, <1>18, <1>20, <1>21, <1>22

\* Whatever was recorded, changed and deleted before, the profit from average
\* costs is the one from the last point of the chart and the cash put in and
\* taken out, whenever the chart ends on the last date and no transaction is
\* later, as long as no average cost is rounded.
THEOREM ProfitsAgree == Spec /\ []WholeAverages => []ProfitAgrees
<1>1. Init => TypeInv
  BY InitTypeInv
<1>2. IInv /\ IInv' /\ TypeInv /\ [Next]_vars => TypeInv'
  BY StepTypeInv
<1>3. IInv /\ TypeInv /\ WholeAverages => ProfitAgrees
  BY ProfitRight
<1> QED
  BY <1>1, <1>2, <1>3, Invariance, PTL DEF Spec

-----------------------------------------------------------------------------
(* The index of one asset bought and sold at its closes.                     *)

\* What the transactions of a date at its close leave: the quantity the ledger
\* leaves, and a flow that pays for the difference.
IsTraded(q, p, a, more, price) ==
    /\ q \in Standing
    /\ q.quantity[a] = p.quantity[a] + more
    /\ \A b \in Assets \ {a} : q.quantity[b] = p.quantity[b]
    /\ q.flow = p.flow + price * more
    /\ q.price = p.price /\ q.previous = p.previous
    /\ q.units = p.units /\ q.cash = p.cash /\ q.points = p.points

\* One more transaction at the close.
LEMMA TradedMore ==
  ASSUME NEW p \in Standing, NEW a \in Assets, NEW price \in Nat, NEW more \in Int,
         NEW r, IsTraded(r, p, a, more, price),
         NEW t \in Trades, t.asset = a, t.price = price, t.fee = 0,
         NEW change \in Int,
         change = IF t.type = "buy" THEN t.quantity ELSE -t.quantity
  PROVE  IsTraded(Applied(r, t), p, a, more + change, price)
<1> DEFINE q == Applied(r, t)
<1>1. /\ q \in Standing
      /\ q.quantity = [r.quantity EXCEPT ![a] =
             IF t.type = "buy" THEN r.quantity[a] + t.quantity ELSE r.quantity[a] - t.quantity]
      /\ q.flow = r.flow + ExternalFlow(t)
      /\ q.price = r.price /\ q.previous = r.previous
      /\ q.units = r.units /\ q.cash = r.cash /\ q.points = r.points
      /\ r \in Standing
  BY AppliedIs DEF IsTraded
<1> HIDE DEF q
<1>2. /\ t.quantity \in Int /\ t.type \in {"buy", "sell"}
      /\ r.quantity \in [Assets -> Int] /\ p.quantity \in [Assets -> Int]
      /\ p.flow \in Int
  <2>1. t.quantity \in Int /\ t.type \in {"buy", "sell"}
    BY DEF Trades
  <2>2. r.quantity \in [Assets -> Int]
    BY <1>1 DEF Standing
  <2>3. p.quantity \in [Assets -> Int] /\ p.flow \in Int
    BY DEF Standing
  <2> QED
    BY <2>1, <2>2, <2>3
<1>3. ExternalFlow(t) = price * change
  <2>1. ExternalFlow(t) = IF t.type = "buy" THEN t.quantity * price ELSE -(t.quantity * price)
    BY <1>2 DEF ExternalFlow, Gross
  <2> QED
    BY <1>2, <2>1
<1>4. q.quantity[a] = p.quantity[a] + (more + change)
  BY <1>1, <1>2 DEF IsTraded
<1>5. \A b \in Assets \ {a} : q.quantity[b] = p.quantity[b]
  BY <1>1, <1>2 DEF IsTraded
<1>6. q.flow = p.flow + price * (more + change)
  <2>1. price * (more + change) = price * more + price * change
    OBVIOUS
  <2>2. price * more \in Int /\ price * change \in Int
    OBVIOUS
  <2>3. r.flow = p.flow + price * more
    BY DEF IsTraded
  <2> QED
    BY <1>1, <1>2, <1>3, <2>1, <2>2, <2>3
<1> QED
  BY <1>1, <1>4, <1>5, <1>6 DEF IsTraded, q

\* The replay counts whole numbers of every asset, after any part.
Counted(g, ledger) == \A s \in SUBSET (DOMAIN ledger) : g[s].quantity \in [Assets -> Int]

\* The transactions of one asset, whatever their price and fee.
IsPart(closed, ledger, a) ==
    /\ Booked(closed)
    /\ DOMAIN closed = {i \in DOMAIN ledger : ledger[i].asset = a}
    /\ \A i \in DOMAIN closed :
          /\ closed[i].asset = a /\ closed[i].type = ledger[i].type
          /\ closed[i].quantity = ledger[i].quantity /\ closed[i].day = ledger[i].day

IsPriced(closed, due, price) == \A i \in due : closed[i].price = price /\ closed[i].fee = 0

\* The transactions of a date in one asset, at its close and without fees.
LEMMA TradedOnDate ==
  ASSUME NEW ledger, Booked(ledger), NEW g, IsReplay(g, "holdings", ledger), Counted(g, ledger),
         NEW a \in Assets, NEW closed, IsPart(closed, ledger, a),
         NEW since \in Nat, NEW d \in Nat, since <= d, NEW price \in Nat,
         IsPriced(closed, DueOn(closed, since, d), price),
         NEW p \in Standing, NEW f, IsFlow(f, p, closed, DueOn(closed, since, d))
  PROVE  IsTraded(f[DueOn(closed, since, d)], p, a,
                  g[UpToDay(ledger, d)].quantity[a] - g[UpToDay(ledger, since)].quantity[a], price)
<1> USE DEF Counted, IsPart, IsPriced
<1> DEFINE D == DOMAIN ledger
           A == DOMAIN closed
           before == UpToDay(ledger, since)
           due == DueOn(ledger, since, d)
           more(w) == g[before \cup w].quantity[a] - g[before].quantity[a]
           fits(w) == IsTraded(f[w \cap A], p, a, more(w), price)
           F == {w \in SUBSET due : ~fits(w)}
<1>1. \A i \in D : i \in Nat /\ ledger[i].day \in Nat /\ ledger[i] \in Trades
  BY DEF Booked, Dated
<1>2. /\ due \subseteq D /\ before \subseteq D /\ due \cap before = {} /\ A \subseteq D
      /\ before \cup due = UpToDay(ledger, d)
      /\ due \cap A = DueOn(closed, since, d)
  BY <1>1 DEF DueOn, UpToDay
<1>3. F = {}
  <2> SUFFICES ASSUME F # {} PROVE FALSE
    OBVIOUS
  <2>1. PICK w \in F : \A x \in w : w \ {x} \notin F
    <3>1. F \subseteq SUBSET due /\ IsFiniteSet(due)
      BY <1>2, FS_Subset DEF Booked, Dated
    <3> HIDE DEF F
    <3> QED
      BY <3>1, MinimalSubset
  <2>2. w \in SUBSET due /\ ~fits(w)
    BY <2>1
  <2>3. CASE w = {}
    <3>1. before \cup w = before /\ f[w \cap A] = p
      BY <2>3 DEF IsFlow
    <3>2. more(w) = 0
      <4>1. before \in SUBSET D
        BY <1>2
      <4>2. g[before].quantity[a] \in Int
        BY <4>1
      <4>3. more(w) = g[before].quantity[a] - g[before].quantity[a]
        BY <3>1
      <4> HIDE DEF more, before
      <4> QED
        BY <4>2, <4>3
    <3>3. p.quantity \in [Assets -> Int] /\ p.flow \in Int
      BY DEF Standing
    <3>4. IsTraded(p, p, a, 0, price)
      <4>1. p.quantity[a] = p.quantity[a] + 0 /\ p.flow = p.flow + price * 0
        BY <3>3
      <4> QED
        BY <4>1 DEF IsTraded
    <3>5. f[w \cap A] = p
      BY <3>1
    <3> HIDE DEF more
    <3> QED
      BY <2>2, <3>2, <3>4, <3>5
  <2>4. CASE w # {}
    <3> DEFINE i == Latest(ledger, w)
               u == before \cup w
               r == w \ {i}
    <3>1. IsLatest(ledger, w, i) /\ i \in w
      BY <1>2, <2>2, <2>4, LatestIs DEF Booked, IsLatest
    <3>2. Latest(ledger, u) = i
      <4>1. \A j \in before : Before(ledger, j, i)
        BY <1>1, <1>2, <2>2, <3>1 DEF UpToDay, DueOn, Before
      <4>2. IsLatest(ledger, u, i)
        BY <3>1, <4>1 DEF IsLatest
      <4> QED
        BY <1>2, <2>2, <2>4, <4>2, LatestIs DEF Booked
    <3> HIDE DEF i
    <3>3. /\ i \in u /\ u # {} /\ u \ {i} = before \cup r /\ u \in SUBSET D /\ i \in D
          /\ u \ {i} \in SUBSET D
      BY <1>2, <2>2, <3>1
    <3>4. fits(r)
      <4>1. r \notin F /\ r \in SUBSET due
        BY <2>1, <2>2, <3>1
      <4> HIDE DEF fits, r
      <4> QED
        BY <4>1
    <3>5. g[u] = Trade(g[before \cup r], ledger[i])
      BY <3>2, <3>3 DEF IsReplay, IsReplayOn, ApplyOf
    <3>6. /\ g[before \cup r].quantity \in [Assets -> Int]
          /\ g[before].quantity[a] \in Int /\ g[u].quantity[a] \in Int
      BY <1>2, <3>3
    <3>7. g[u].quantity = [g[before \cup r].quantity EXCEPT ![ledger[i].asset] =
              IF ledger[i].type = "buy" THEN g[before \cup r].quantity[ledger[i].asset] + ledger[i].quantity
              ELSE g[before \cup r].quantity[ledger[i].asset] - ledger[i].quantity]
      BY <3>5 DEF Trade
    <3>8. CASE i \notin A
      <4>1. w \cap A = r \cap A
        BY <3>8
      <4>2. ledger[i].asset # a
        BY <3>3, <3>8
      <4>3. g[u].quantity[a] = g[before \cup r].quantity[a]
        BY <3>6, <3>7, <4>2
      <4> QED
        BY <2>2, <3>4, <4>1, <4>3
    <3>9. CASE i \in A
      <4> DEFINE t == closed[i]
                 v == w \cap A
                 change == IF t.type = "buy" THEN t.quantity ELSE -t.quantity
      <4>1. /\ t.asset = a /\ ledger[i].asset = a /\ t.type = ledger[i].type
            /\ t.quantity = ledger[i].quantity /\ t \in Trades
        BY <3>9 DEF Booked
      <4>2. t.price = price /\ t.fee = 0
        BY <1>2, <2>2, <3>1, <3>9
      <4>3. Latest(closed, v) = i
        <5>1. \A j \in A : closed[j].day = ledger[j].day
          OBVIOUS
        <5>2. IsLatest(closed, v, i)
          BY <3>1, <3>9, <5>1 DEF IsLatest, Before
        <5>3. v \subseteq A /\ v # {}
          BY <3>1, <3>9
        <5> HIDE DEF v
        <5> QED
          BY <5>2, <5>3, LatestIs DEF Booked
      <4>4. f[v] = Applied(f[v \ {i}], t) /\ v \ {i} = r \cap A
        <5>1. v \in SUBSET DueOn(closed, since, d) /\ v # {}
          BY <1>2, <2>2, <3>1, <3>9
        <5> HIDE DEF v
        <5>2. f[v] = Applied(f[v \ {i}], t)
          BY <4>3, <5>1 DEF IsFlow
        <5> QED
          BY <5>2 DEF v
      <4>5. t.quantity \in Int /\ change \in Int
        BY <4>1 DEF Trades
      <4>6. g[u].quantity[a] = g[before \cup r].quantity[a] + change
        <5>1. g[before \cup r].quantity[a] \in Int
          BY <3>6
        <5>2. g[u].quantity[a] = IF t.type = "buy" THEN g[before \cup r].quantity[a] + t.quantity
                                 ELSE g[before \cup r].quantity[a] - t.quantity
          BY <3>6, <3>7, <4>1
        <5> QED
          BY <4>5, <5>1, <5>2
      <4>7. more(w) = more(r) + change /\ more(r) \in Int
        <5>1. g[before \cup r].quantity[a] \in Int
          BY <3>6
        <5> HIDE DEF change
        <5> QED
          BY <3>6, <4>5, <4>6, <5>1
      <4>8. IsTraded(f[v \ {i}], p, a, more(r), price)
        BY <3>4, <4>4
      <4> HIDE DEF more, r, v
      <4>9. IsTraded(Applied(f[v \ {i}], t), p, a, more(r) + change, price)
        BY <4>1, <4>2, <4>5, <4>7, <4>8, TradedMore
      <4> QED
        BY <2>2, <4>4, <4>7, <4>9 DEF v
    <3> QED
      BY <3>8, <3>9
  <2> QED
    BY <2>3, <2>4
<1>4. fits(due)
  BY <1>3
<1> QED
  BY <1>2, <1>4

\* The quotient of a multiple.
LEMMA QuotientOfMultiple ==
  ASSUME NEW c \in Nat \ {0}, NEW x \in Int
  PROVE  (c * x) \div c = x /\ (-(c * x)) \div c = -x
OBVIOUS

\* One point follows the other: the index grows as the close does.
Grows(before, point, close) ==
    before.value > 0 => point.growth[1] * close[before.day] = point.growth[2] * close[point.day]

Tracks(points, close) ==
    /\ \A n \in 1 .. Len(points) - 1 : Grows(points[n], points[n + 1], close)
    /\ \A n \in DOMAIN points : points[n].benchmark = points[n].value

\* A performance with q of asset a, valued on day m, whose index follows.
Followed(p, a, close, m, q) ==
    /\ p \in Standing
    /\ p.quantity[a] = q /\ q >= 0
    /\ \A b \in Assets \ {a} : p.quantity[b] = 0
    /\ p.flow = 0 /\ p.units = q /\ p.cash = 0
    /\ q = 0 => p.previous <= 0
    /\ q > 0 => m \in Days /\ p.previous = q * close[m]
    /\ p.points = <<>> => p.previous = -1
    /\ p.points # <<>> =>
          LET last == p.points[Len(p.points)]
          IN  last.value = p.previous /\ (last.value > 0 => last.day = m)
    /\ Tracks(p.points, close)

\* A point more.
LEMMA AppendTracks ==
  ASSUME NEW points \in Seq(Points), NEW close, Tracks(points, close),
         NEW e \in Points, e.benchmark = e.value,
         points # <<>> => Grows(points[Len(points)], e, close)
  PROVE  Tracks(Append(points, e), close)
<1> DEFINE s == Append(points, e)
           k == Len(points)
<1>1. k \in Nat /\ Len(s) = k + 1 /\ DOMAIN s = 1 .. k + 1 /\ DOMAIN points = 1 .. k
  OBVIOUS
<1>2. \A n \in 1 .. k : s[n] = points[n]
  OBVIOUS
<1>3. s[k + 1] = e
  OBVIOUS
<1>4. k > 0 => points # <<>>
  OBVIOUS
<1> HIDE DEF s, k
<1>5. ASSUME NEW n \in 1 .. Len(s) - 1
      PROVE  Grows(s[n], s[n + 1], close)
  <2>1. n \in 1 .. k /\ k > 0
    BY <1>1
  <2>2. CASE n = k
    <3>1. Grows(points[k], e, close)
      BY <1>4, <2>1 DEF k
    <3> QED
      BY <1>2, <1>3, <2>1, <2>2, <3>1
  <2>3. CASE n # k
    <3>1. n \in 1 .. k - 1 /\ n + 1 \in 1 .. k
      BY <1>1, <2>1, <2>3
    <3>2. Grows(points[n], points[n + 1], close)
      BY <3>1 DEF Tracks, k
    <3> QED
      BY <1>2, <2>1, <3>1, <3>2
  <2> QED
    BY <2>2, <2>3
<1>6. ASSUME NEW n \in DOMAIN s
      PROVE  s[n].benchmark = s[n].value
  <2>1. CASE n = k + 1
    BY <1>3, <2>1
  <2>2. CASE n # k + 1
    <3>1. n \in 1 .. k
      BY <1>1, <2>2
    <3> QED
      BY <1>1, <1>2, <3>1 DEF Tracks
  <2> QED
    BY <2>1, <2>2
<1> QED
  BY <1>5, <1>6 DEF Tracks, s

\* What is worth something is the one asset held.
LEMMA WorthOfOne ==
  ASSUME NEW p \in Standing, NEW a \in Assets, \A b \in Assets \ {a} : p.quantity[b] = 0
  PROVE  Worth(p) = p.quantity[a] * p.price[a]
<1> DEFINE f == [b \in Assets |-> p.quantity[b] * p.price[b]]
           zero == [b \in Assets |-> 0]
<1>1. p.quantity \in [Assets -> Int] /\ p.price \in [Assets -> Nat]
  BY DEF Standing
<1>2. f \in [Assets -> Int] /\ zero \in [Assets -> Int] /\ \A b \in Assets : zero[b] = 0
  BY <1>1
<1>3. \A b \in Assets \ {a} : f[b] = zero[b]
  BY <1>1
<1>4. f[a] = p.quantity[a] * p.price[a] /\ f[a] \in Int
  BY <1>1
<1> HIDE DEF f, zero
<1>5. SumFunction(zero) = 0
  BY <1>2, LedgerAssumption, SumOfZeros
<1>6. SumFunction(f) = SumFunction(zero) + f[a] - zero[a]
  BY <1>2, <1>3, LedgerAssumption, SumApart
<1>7. SumFunction(f) = f[a]
  BY <1>2, <1>4, <1>5, <1>6
<1> QED
  BY <1>4, <1>7 DEF Worth, f

\* The benchmark trades as many units as were traded at its price.
LEMMA MatchedFully ==
  ASSUME NEW p \in Standing, NEW price \in Nat \ {0}, NEW more \in Int,
         p.flow = price * more, p.units + more >= 0, p.cash = 0
  PROVE  Matched(p, price).units = p.units + more /\ Matched(p, price).cash = 0
<1> DEFINE due == (-p.flow) \div price
           sold == IF p.units < due THEN p.units ELSE due
           q == Matched(p, price)
<1>1. /\ p.flow > 0 => q.units = p.units + p.flow \div price /\ q.cash = p.cash
      /\ ~(p.flow > 0) => q.units = p.units - sold /\ q.cash = p.cash + p.flow + sold * price
  BY MatchedIs
<1>2. p.flow \div price = more /\ due = -more
  BY QuotientOfMultiple
<1>3. p.units \in Int
  BY DEF Standing
<1> HIDE DEF due, q
<1>4. sold = -more
  BY <1>2, <1>3
<1> HIDE DEF sold
<1>5. (-more) * price = -(price * more) /\ price * more \in Int
  OBVIOUS
<1>6. CASE p.flow > 0
  BY <1>1, <1>2, <1>6 DEF q
<1>7. CASE ~(p.flow > 0)
  <2>1. q.units = p.units + more
    BY <1>1, <1>3, <1>4, <1>7
  <2>2. q.cash = 0 + price * more + (-(price * more))
    BY <1>1, <1>4, <1>5, <1>7
  <2> QED
    BY <1>5, <2>1, <2>2 DEF q
<1> QED
  BY <1>6, <1>7

\* A date on which the index follows the close.
LEMMA DateFollowed ==
  ASSUME NEW a \in Assets, NEW close \in [Days -> Nat \ {0}], NEW m, NEW d \in Days,
         NEW p, NEW q \in Int, Followed(p, a, close, m, q), p.price[a] = close[d],
         NEW more \in Int, q + more >= 0,
         NEW r, IsTraded(r, p, a, more, close[d]),
         NEW next, next = IF LeftOut(r) THEN r ELSE Valued(r, d, close[d])
  PROVE  Followed(next, a, close, d, q + more)
<1> DEFINE c == close[d]
           now == q + more
<1>1. c \in Nat \ {0} /\ d \in Nat
  BY LedgerAssumption
<1> HIDE DEF c
<1>2. /\ r \in Standing
      /\ r.quantity[a] = now
      /\ \A b \in Assets \ {a} : r.quantity[b] = 0
      /\ r.flow = c * more /\ r.price[a] = c
      /\ r.previous = p.previous /\ r.units = q /\ r.cash = 0 /\ r.points = p.points
  <2>1. c * more \in Int
    BY <1>1
  <2> QED
    BY <2>1 DEF IsTraded, Followed, c
<1>3. /\ q >= 0 /\ now >= 0 /\ now \in Int
      /\ q = 0 => p.previous <= 0
      /\ q > 0 => m \in Days /\ p.previous = q * close[m] /\ p.previous > 0
  <2>1. q >= 0 /\ now >= 0 /\ now \in Int /\ (q = 0 => p.previous <= 0)
    BY DEF Followed
  <2>2. ASSUME q > 0
        PROVE  m \in Days /\ p.previous = q * close[m] /\ p.previous > 0
    <3>1. m \in Days /\ p.previous = q * close[m]
      BY <2>2 DEF Followed
    <3>2. close[m] \in Nat \ {0}
      BY <3>1
    <3>3. q * close[m] > 0
      BY <2>2, <3>2
    <3> QED
      BY <3>1, <3>3
  <2> QED
    BY <2>1, <2>2
<1>4. /\ p.points \in Seq(Points) /\ p.previous \in Int
      /\ Tracks(p.points, close)
      /\ p.points = <<>> => p.previous = -1
      /\ p.points # <<>> => /\ p.points[Len(p.points)].value = p.previous
                            /\ p.previous > 0 => p.points[Len(p.points)].day = m
  BY DEF Followed, Standing
<1> HIDE DEF now
<1>5. CASE LeftOut(r)
  <2>1. r.quantity[a] <= 0
    <3>1. ~(r.price[a] = 0)
      BY <1>1, <1>2
    <3>2. \A b \in Assets : Holds(r, b) => b = a
      BY <1>2 DEF Holds
    <3>3. ~Holds(r, a)
      BY <1>5, <3>1, <3>2 DEF LeftOut
    <3> QED
      BY <1>2, <1>3, <3>3 DEF Holds
  <2>2. now = 0
    BY <1>2, <1>3, <2>1
  <2>3. p.previous = -1 \/ c * more = 0
    <3>1. ~ \E b \in Assets : Holds(r, b) /\ r.price[b] = 0
      BY <1>1, <1>2 DEF Holds
    <3> QED
      BY <1>2, <1>5, <3>1 DEF LeftOut
  <2>4. q = 0 /\ more = 0
    <3>1. CASE p.previous = -1
      BY <1>3, <2>2, <3>1 DEF now
    <3>2. CASE c * more = 0
      <4>1. more = 0
        BY <1>1, <3>2
      <4> QED
        BY <2>2, <4>1 DEF now
    <3> QED
      BY <2>3, <3>1, <3>2
  <2>5. r.flow = 0
    BY <1>1, <1>2, <2>4
  <2>6. p.previous <= 0
    BY <1>3, <2>4
  <2>7. next = r
    BY <1>5
  <2>8. r.points # <<>> =>
            /\ r.points[Len(r.points)].value = r.previous
            /\ ~(r.points[Len(r.points)].value > 0)
    BY <1>2, <1>4, <2>6
  <2> QED
    BY <1>2, <1>4, <2>2, <2>4, <2>5, <2>6, <2>7, <2>8 DEF Followed, now
<1>6. CASE ~LeftOut(r)
  <2> DEFINE u == Matched(r, c)
             point == [day |-> d, value |-> Worth(r),
                       growth |-> IF r.previous > 0 THEN <<Worth(r) - r.flow, r.previous>>
                                                    ELSE <<1, 1>>,
                       benchmark |-> u.units * c + u.cash]
  <2>1. next = Valued(r, d, c)
    BY <1>6 DEF c
  <2>2. /\ next \in Standing /\ point \in Points
        /\ next = [r EXCEPT !.units = u.units, !.cash = u.cash, !.previous = Worth(r),
                            !.flow = 0, !.points = Append(r.points, point)]
    <3> DEFINE v == Valued(r, d, c)
    <3>1. c \in Nat \ {0} /\ d \in Nat /\ r \in Standing
      BY <1>1, <1>2
    <3>2. /\ v \in Standing /\ point \in Points
          /\ v = [r EXCEPT !.units = u.units, !.cash = u.cash, !.previous = Worth(r),
                           !.flow = 0, !.points = Append(r.points, point)]
      BY <3>1, ValuedIs
    <3> HIDE DEF v, point, u
    <3>3. next = v
      BY <2>1 DEF v
    <3> QED
      BY <3>2, <3>3
  <2>3. Worth(r) = now * c
    BY <1>2, WorthOfOne
  <2>4. u.units = now /\ u.cash = 0
    BY <1>1, <1>2, <1>3, MatchedFully DEF now
  <2>5. now * c \in Int /\ now * c >= 0
    BY <1>1, <1>3
  <2>6. point.benchmark = point.value /\ point.value = now * c /\ point.day = d
    BY <2>3, <2>4, <2>5
  <2>7. p.points # <<>> => Grows(p.points[Len(p.points)], point, close)
    <3> SUFFICES ASSUME p.points # <<>>, p.points[Len(p.points)].value > 0
        PROVE  LET last == p.points[Len(p.points)]
               IN  point.growth[1] * close[last.day] = point.growth[2] * close[point.day]
      BY DEF Grows
    <3>1. p.previous > 0 /\ p.points[Len(p.points)].day = m
      BY <1>4
    <3>2. q > 0
      BY <1>3, <1>4, <3>1
    <3>3. m \in Days /\ p.previous = q * close[m] /\ close[m] \in Nat
      BY <1>3, <3>2
    <3>4. point.growth = <<Worth(r) - r.flow, r.previous>>
      BY <1>2, <3>1
    <3>5. Worth(r) - r.flow = q * c
      <4>1. now * c = q * c + c * more
        BY <1>1 DEF now
      <4>2. q * c \in Int /\ c * more \in Int
        BY <1>1
      <4> QED
        BY <1>2, <2>3, <4>1, <4>2
    <3>6. (q * c) * close[m] = (q * close[m]) * c
      BY <1>1, <3>3
    <3>7. point.growth[1] = q * c /\ point.growth[2] = q * close[m]
      BY <1>2, <3>3, <3>4, <3>5
    <3> HIDE DEF point
    <3> QED
      BY <2>6, <3>1, <3>6, <3>7 DEF c
  <2> HIDE DEF point, u
  <2>8. Tracks(Append(p.points, point), close)
    BY <1>4, <2>2, <2>6, <2>7, AppendTracks
  <2>9. /\ next.quantity = r.quantity /\ next.flow = 0 /\ next.units = now /\ next.cash = 0
        /\ next.previous = now * c /\ next.points = Append(p.points, point)
    BY <1>2, <2>2, <2>3, <2>4 DEF Standing
  <2>10. /\ next.points # <<>>
         /\ next.points[Len(next.points)] = point
    BY <1>4, <2>2, <2>9
  <2>11. now = 0 => now * c <= 0
    BY <1>1
  <2> QED
    BY <1>2, <1>3, <2>2, <2>6, <2>8, <2>9, <2>10, <2>11 DEF Followed, now, c
<1> QED
  BY <1>5, <1>6

\* No sale left less than nothing, at any time.
NowhereShort(g, ledger) ==
    \A s : Beginning(ledger, s) => \A a \in Assets : g[s].quantity[a] >= 0

\* Every transaction of the ledger is made at the price of its day.
IsAtPrice(ledger, price) ==
    \A i \in DOMAIN ledger :
        ledger[i].day \in Days /\ ledger[i].price = price[ledger[i].day] /\ ledger[i].fee = 0

\* After all dates the index of one asset has followed its close.
LEMMA IndexFollows ==
  ASSUME NEW ledger, Booked(ledger), \A i \in DOMAIN ledger : ledger[i].day \in Days,
         NEW g, IsReplay(g, "holdings", ledger), Counted(g, ledger), NowhereShort(g, ledger),
         NEW close \in [Assets -> [Days -> Nat]], NEW a \in Assets,
         close[a] \in [Days -> Nat \ {0}],
         NEW closed, IsPart(closed, ledger, a), IsAtPrice(closed, close[a])
  PROVE  Tracks(Performance(closed, close, close[a]).points, close[a])
<1> DEFINE dates == Dates(closed, close)
           price == close[a]
           held(d) == g[UpToDay(ledger, d)].quantity[a]
<1>1. Booked(closed) /\ price \in [Days -> Nat \ {0}]
  BY DEF IsPart
<1>2. PICK k : /\ IsPerformance(k, closed, close, price, dates)
               /\ Performance(closed, close, price) = k[dates]
  <2> HIDE DEF price
  <2> QED BY <1>1, PerformanceExists
<1>3. dates \subseteq Days /\ IsFiniteSet(dates)
  <2>1. dates \subseteq Days
    BY DEF Dates
  <2> QED
    BY <2>1, LedgerAssumption, FS_Subset
<1>4. \A i \in DOMAIN closed : closed[i].day \in dates /\ closed[i].day \in Nat
  <2> SUFFICES ASSUME NEW i \in DOMAIN closed PROVE closed[i].day \in dates /\ closed[i].day \in Nat
    OBVIOUS
  <2>1. closed[i].asset = a /\ closed[i].day \in Days
    BY DEF IsPart, IsAtPrice
  <2>2. close[a][closed[i].day] > 0
    BY <2>1
  <2> QED
    BY <2>1, <2>2, LedgerAssumption DEF Dates
<1>5. \A d \in Nat : held(d) \in Int /\ held(d) >= 0
  <2> SUFFICES ASSUME NEW d \in Nat PROVE held(d) \in Int /\ held(d) >= 0
    OBVIOUS
  <2>1. Beginning(ledger, UpToDay(ledger, d))
    BY DaysBegin
  <2>2. UpToDay(ledger, d) \in SUBSET (DOMAIN ledger)
    BY <2>1 DEF Beginning
  <2>3. g[UpToDay(ledger, d)].quantity \in [Assets -> Int]
    BY <2>2 DEF Counted
  <2>4. g[UpToDay(ledger, d)].quantity[a] >= 0
    BY <2>1 DEF NowhereShort
  <2> QED
    BY <2>3, <2>4
<1>6. held(0) = 0
  <2>1. UpToDay(ledger, 0) = {}
    <3>1. \A i \in DOMAIN ledger : ~(ledger[i].day <= 0)
      <4> SUFFICES ASSUME NEW i \in DOMAIN ledger PROVE ~(ledger[i].day <= 0)
        OBVIOUS
      <4>1. ledger[i].day \in Nat \ {0}
        BY LedgerAssumption
      <4> QED
        BY <4>1
    <3> QED
      BY <3>1 DEF UpToDay
  <2>2. g[{}] = NoHoldings
    BY DEF IsReplay, IsReplayOn, BaseOf
  <2>3. NoHoldings.quantity[a] = 0
    BY DEF NoHoldings
  <2> QED
    BY <2>1, <2>2, <2>3
<1> HIDE DEF dates
<1> DEFINE follows(T) == Followed(k[T], a, price, LastOf(T), held(LastOf(T)))
           F == {T \in SUBSET dates : Early(dates, T) /\ ~follows(T)}
<1>7. F = {}
  <2> SUFFICES ASSUME F # {} PROVE FALSE
    OBVIOUS
  <2>1. PICK T \in F : \A x \in T : T \ {x} \notin F
    <3>1. F \subseteq SUBSET dates
      OBVIOUS
    <3> HIDE DEF F
    <3> QED
      BY <1>3, <3>1, MinimalSubset
  <2>2. T \in SUBSET dates /\ Early(dates, T) /\ ~follows(T)
    BY <2>1
  <2>3. CASE T = {}
    <3>1. k[T] = NoPerformance /\ k[T] \in Standing
      BY <1>2, <2>2, <2>3 DEF IsPerformance
    <3>2. held(LastOf(T)) = 0
      BY <1>6, <2>3 DEF LastOf
    <3> HIDE DEF held
    <3>3. Tracks(<< >>, price)
      <4>1. Len(<< >>) = 0 /\ DOMAIN << >> = {} /\ 1 .. 0 - 1 = {}
        OBVIOUS
      <4> HIDE DEF price
      <4> QED
        BY <4>1 DEF Tracks
    <3>4. Followed(NoPerformance, a, price, LastOf(T), 0)
      <4>1. NoPerformance \in Standing
        BY <3>1
      <4> HIDE DEF price
      <4> QED
        BY <3>3, <4>1 DEF Followed, NoPerformance
    <3> QED
      BY <2>2, <3>1, <3>2, <3>4
  <2>4. CASE T # {}
    <3> DEFINE d == Max(T)
               R == T \ {d}
               since == Since(dates, d)
    <3>1. /\ d \in T /\ d \in Days /\ d \in Nat
          /\ Early(dates, R) /\ since = LastOf(R) /\ since \in Nat /\ since < d
          /\ R = {e \in dates : e < d}
          /\ LastOf(T) = d
      BY <1>3, <2>2, <2>4, EarlyIs
    <3>2. k[T] = OnDate(k[R], closed, close, price, since, d) /\ k[R] \in Standing
      BY <1>2, <2>2, <2>4 DEF IsPerformance
    <3>3. follows(R)
      <4>1. R \notin F /\ R \in SUBSET dates
        BY <2>1, <2>2, <3>1
      <4> HIDE DEF follows, R
      <4> QED
        BY <3>1, <4>1
    <3>4. since = Since(dates, d)
      OBVIOUS
    <3> HIDE DEF d, R, since
    <3> DEFINE priced == AtCloses(k[R], close, d)
               due == DueOn(closed, since, d)
               more == held(d) - held(since)
    <3>5. priced \in Standing
      <4> HIDE DEF price
      <4> QED BY <1>1, <3>1, <3>2, DateIs
    <3>6. PICK f : IsDate(f, k[T], priced, closed, due, d, price[d])
      <4> DEFINE next == OnDate(k[R], closed, close, price, since, d)
      <4>1. k[R] \in Standing /\ since \in Nat /\ d \in Days
        BY <3>1, <3>2
      <4>2. \E f : IsDate(f, next, priced, closed, due, d, price[d])
        <5> HIDE DEF price
        <5> QED BY <1>1, <4>1, DateIs
      <4> QED
        BY <3>2, <4>2
    <3>7. /\ priced.price[a] = price[d]
          /\ priced.quantity = k[R].quantity /\ priced.previous = k[R].previous
          /\ priced.flow = k[R].flow /\ priced.units = k[R].units /\ priced.cash = k[R].cash
          /\ priced.points = k[R].points
      <4>1. price[d] > 0
        BY <1>1, <3>1
      <4> QED
        BY <3>2, <4>1 DEF AtCloses, Standing
    <3> HIDE DEF priced
    <3>8. Followed(priced, a, price, since, held(since))
      <4>1. Followed(k[R], a, price, since, held(since))
        BY <3>1, <3>3
      <4> HIDE DEF price, held
      <4> QED
        BY <3>5, <3>7, <4>1 DEF Followed
    <3>9. IsPriced(closed, due, price[d])
      <4> SUFFICES ASSUME NEW i \in due PROVE closed[i].price = price[d] /\ closed[i].fee = 0
        BY DEF IsPriced
      <4>1. /\ i \in DOMAIN closed /\ since < closed[i].day /\ closed[i].day <= d
            /\ closed[i].day \in dates /\ closed[i].day \in Nat
        BY <1>4 DEF DueOn
      <4>2. closed[i].day = d
        <5>1. closed[i].day < d => closed[i].day <= since
          <6>1. d \in dates
            BY <2>2, <3>1
          <6> QED
            BY <1>3, <3>4, <4>1, <6>1, SinceIs
        <5>2. closed[i].day \in Nat /\ d \in Nat /\ since \in Nat
          BY <3>1, <4>1
        <5> QED
          BY <4>1, <5>1, <5>2
      <4> QED
        BY <4>1, <4>2 DEF IsAtPrice
    <3>10. IsTraded(f[due], priced, a, more, price[d])
      <4>1. price[d] \in Nat /\ since <= d /\ since \in Nat /\ d \in Nat
        BY <1>1, <3>1
      <4>2. IsFlow(f, priced, closed, due)
        BY <3>6 DEF IsDate
      <4> HIDE DEF price
      <4> QED
        BY <3>5, <3>9, <4>1, <4>2, TradedOnDate
    <3>11. held(since) \in Int /\ more \in Int /\ held(since) + more = held(d) /\ held(d) >= 0
      <4>1. held(since) \in Int /\ held(d) \in Int /\ held(d) >= 0
        BY <1>5, <3>1
      <4> HIDE DEF held
      <4> QED
        BY <4>1
    <3>12. k[T] = IF LeftOut(f[due]) THEN f[due] ELSE Valued(f[due], d, price[d])
      BY <3>6 DEF IsDate
    <3> HIDE DEF more, held, due, price
    <3>13. held(since) + more >= 0
      BY <3>11
    <3>14. Followed(k[T], a, price, d, held(since) + more)
      BY <1>1, <3>1, <3>7, <3>8, <3>10, <3>11, <3>12, <3>13, DateFollowed
    <3> QED
      BY <2>2, <3>1, <3>11, <3>14
  <2> QED
    BY <2>3, <2>4
<1>8. follows(dates)
  BY <1>7 DEF Early
<1> QED
  BY <1>2, <1>8 DEF Followed

\* In every ledger the handlers leave, the index follows the closes.
LEMMA IndexRight == IInv /\ TypeInv => IndexTracksClose
<1> SUFFICES ASSUME IInv, TypeInv, NEW a \in PricedDaily
    PROVE  LET points == Performance(AtClose(rows, a), Close, Close[a]).points
           IN  Tracks(points, Close[a])
  BY DEF IndexTracksClose, Tracks, Grows
<1> DEFINE D == DOMAIN rows
           closed == AtClose(rows, a)
           price == Close[a]
<1>1. IsFiniteSet(D) /\ D \subseteq Nat /\ rows \in [D -> Inputs]
  BY RowsFinite DEF TypeInv, TypeOK
<1>2. \A i \in D : /\ rows[i] \in Inputs /\ rows[i] \in Trades
                   /\ rows[i].day \in Days /\ rows[i].day \in Nat
  BY <1>1, InputsAreTrades
<1>3. Booked(rows) /\ Repriced(rows, rows)
  BY <1>1, <1>2 DEF Booked, Dated, Repriced
<1>4. PICK g : IsReplay(g, "holdings", rows) /\ Holdings(rows) = g[D]
  BY <1>3, ReplayExists DEF Booked, ReplayOf
<1>5. PICK h : IsReplay(h, "accounts", rows) /\ Accounts(rows) = h[D]
  BY <1>3, ReplayExists DEF Booked, ReplayOf
<1>6. g[D].ok
  BY <1>4 DEF IInv, PositionsAreReplay
<1>7. \A s \in SUBSET D : Sound(g[s], h[s])
  BY <1>1, <1>3, <1>4, <1>5, PartsSound
<1>8. Counted(g, rows)
  BY <1>7 DEF Counted, Sound
<1>9. NowhereShort(g, rows)
  <2> SUFFICES ASSUME NEW s, Beginning(rows, s) PROVE \A b \in Assets : g[s].quantity[b] >= 0
    BY DEF NowhereShort
  <2>1. g[s].ok
    BY <1>3, <1>4, <1>6, BeginningReplays
  <2>2. Sound(g[s], h[s])
    BY <1>7 DEF Beginning
  <2> QED
    BY <2>1, <2>2 DEF Sound
<1>10. a \in Assets /\ Close \in [Assets -> [Days -> Nat]] /\ price \in [Days -> Nat \ {0}]
  <2>1. Close \in [Assets -> [Days -> Nat]] /\ a \in Assets /\ \A d \in Days : Close[a][d] > 0
    BY ReportAssumption DEF PricedDaily
  <2>2. Close[a] \in [Days -> Nat]
    BY <2>1
  <2> QED
    BY <2>1, <2>2
<1>11. /\ DOMAIN closed = {i \in D : rows[i].asset = a}
       /\ \A i \in DOMAIN closed :
             closed[i] = [rows[i] EXCEPT !.price = price[rows[i].day], !.fee = 0]
  BY DEF AtClose
<1> HIDE DEF closed, price
<1>12. \A i \in DOMAIN closed :
          /\ closed[i] \in Trades /\ closed[i].asset = a /\ closed[i].type = rows[i].type
          /\ closed[i].quantity = rows[i].quantity /\ closed[i].day = rows[i].day
          /\ closed[i].price = price[rows[i].day] /\ closed[i].fee = 0
          /\ i \in D
  <2> SUFFICES ASSUME NEW i \in DOMAIN closed
      PROVE  /\ closed[i] \in Trades /\ closed[i].asset = a /\ closed[i].type = rows[i].type
             /\ closed[i].quantity = rows[i].quantity /\ closed[i].day = rows[i].day
             /\ closed[i].price = price[rows[i].day] /\ closed[i].fee = 0
             /\ i \in D
    OBVIOUS
  <2>1. i \in D /\ rows[i].asset = a /\ rows[i] \in Trades /\ rows[i].day \in Days
    BY <1>2, <1>11
  <2>2. price[rows[i].day] \in Nat
    BY <1>10, <2>1
  <2>3. closed[i] = [asset |-> a, type |-> rows[i].type, quantity |-> rows[i].quantity,
                     price |-> price[rows[i].day], fee |-> 0, day |-> rows[i].day]
    BY <1>11, <2>1 DEF Trades
  <2>4. /\ rows[i].type \in {"buy", "sell"} /\ rows[i].quantity \in Nat \ {0}
        /\ rows[i].day \in Nat /\ a \in Assets
    BY <1>10, <2>1 DEF Trades
  <2> QED
    BY <2>1, <2>2, <2>3, <2>4 DEF Trades
<1>13. IsPart(closed, rows, a)
  <2>1. IsFiniteSet(DOMAIN closed) /\ DOMAIN closed \subseteq D
    BY <1>1, <1>11, FS_Subset
  <2>2. Booked(closed)
    BY <1>1, <1>2, <1>12, <2>1 DEF Booked, Dated
  <2> QED
    BY <1>11, <1>12, <2>2 DEF IsPart
<1>14. IsAtPrice(closed, price)
  BY <1>2, <1>12 DEF IsAtPrice
<1>15. Tracks(Performance(closed, Close, Close[a]).points, Close[a])
  BY <1>2, <1>3, <1>4, <1>8, <1>9, <1>10, <1>13, <1>14, IndexFollows DEF price
<1> QED
  BY <1>15 DEF closed

\* Whatever was recorded, changed and deleted before, the index of an asset
\* traded at its closes grows as the close does, and a portfolio of the
\* benchmark has no excess over it.
THEOREM IndexesTrackClose == Spec => []IndexTracksClose
<1>1. Init => TypeInv
  BY InitTypeInv
<1>2. IInv /\ IInv' /\ TypeInv /\ [Next]_vars => TypeInv'
  BY StepTypeInv
<1>3. IInv /\ TypeInv => IndexTracksClose
  BY IndexRight
<1> QED
  BY <1>1, <1>2, <1>3, Invariance, PTL DEF Spec

-----------------------------------------------------------------------------
(* The handlers implement LedgerBook.                                        *)

\* The replay of the abstract ledger is the one of the code.
LEMMA SameHoldings == \A ledger : Book!Holdings(ledger) = Holdings(ledger)
BY DEF Holdings, Book!Holdings, FoldLedger, Book!FoldLedger, Trade, Book!Trade,
       NoHoldings, Book!NoHoldings, Latest, Book!Latest, Before, Book!Before,
       MapThenFoldSet, Book!MapThenFoldSet

\* The empty portfolio is the empty book.
LEMMA InitRefines == Init => Book!Init
BY DEF Init, Book!Init

\* A step that leaves the rows and the positions alone is a stutter.
LEMMA Stutters ==
  ASSUME UNCHANGED <<rows, positions>>
  PROVE  UNCHANGED Book!vars
BY DEF Book!vars

\* A commit records, amends or removes one transaction of the book.
LEMMA CommitRefines ==
  ASSUME IInv, NEW c \in Requests, Commit(c)
  PROVE  Book!Next
<1> DEFINE i == job[c].id
           t == job[c].input
<1>1. /\ pc[c] = "rebuilt" /\ rows' = RowsAfter(c)
      /\ positions' = staged[c].positions
  BY DEF Commit
<1>2. /\ Holdings(rows').ok /\ positions'.quantity = Holdings(rows').quantity
      /\ i \in Ids
      /\ job[c].op # "delete" => t \in Inputs
      /\ job[c].op = "delete" => i \in DOMAIN rows
  BY <1>1 DEF IInv, StageInv, JobInv, Busy, StatementSucceeds
<1>3. Book!Becomes(rows')
  BY <1>2, SameHoldings DEF Book!Becomes
<1>4. CASE job[c].op = "delete"
  <2>1. rows' = Book!Without(rows, i)
    BY <1>1, <1>4 DEF RowsAfter, Drop, Book!Without
  <2>2. Book!Strike(i)
    BY <1>2, <1>3, <1>4, <2>1 DEF Book!Strike
  <2> QED
    BY <1>2, <2>2 DEF Book!Next
<1>5. CASE job[c].op # "delete"
  <2>1. rows' = Book!With(rows, i, t)
    BY <1>1, <1>5 DEF RowsAfter, Put, Book!With
  <2>2. Book!RecordOrAmend(i, t)
    BY <1>3, <2>1 DEF Book!RecordOrAmend
  <2> QED
    BY <1>2, <1>5, <2>2 DEF Book!Next
<1> QED
  BY <1>4, <1>5

\* Every step is one of the book or leaves it alone.
LEMMA StepRefines == IInv /\ [Next]_vars => [Book!Next]_(Book!vars)
<1> SUFFICES ASSUME IInv, [Next]_vars PROVE [Book!Next]_(Book!vars)
  OBVIOUS
<1>1. ASSUME NEW c \in Requests, Commit(c)
      PROVE  Book!Next
  BY <1>1, CommitRefines
<1>2. ASSUME NEW c \in Requests, Handle(c), ~Commit(c)
      PROVE  UNCHANGED <<rows, positions>>
  BY <1>2 DEF Handle, BeginCreate, BeginUpdate, BeginDelete, Begin, Lock, Rebuild, Abort, database
<1>3. ASSUME NEW g \in Signals, NEW status \in Statuses, SetSignalStatus(g, status)
      PROVE  UNCHANGED <<rows, positions>>
  BY <1>3 DEF SetSignalStatus
<1>4. ASSUME \/ \E d \in DOMAIN RateOn : ObserveRate(d)
             \/ BackfillSnapshots
             \/ UNCHANGED vars
      PROVE  UNCHANGED <<rows, positions>>
  BY <1>4 DEF ObserveRate, BackfillSnapshots, database, vars
<1> QED
  BY <1>1, <1>2, <1>3, <1>4, Stutters DEF Next

\* Whatever the handlers interleave, the ledger and the quantities held change
\* as if transactions were recorded, amended and removed one at a time.
THEOREM PortfolioImplementsBook == Spec => ImplementsBook
<1>1. Init => Book!Init
  BY InitRefines
<1>2. IInv /\ [Next]_vars => [Book!Next]_(Book!vars)
  BY StepRefines
<1> QED
  BY <1>1, <1>2, Invariance, PTL DEF Spec, ImplementsBook, Book!Spec
=============================================================================
