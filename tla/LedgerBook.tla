------------------------------ MODULE LedgerBook ------------------------------
(* What the portfolio promises of its ledger: transactions are recorded,     *)
(* amended and removed one at a time, no sale ever exceeds what was held at  *)
(* its own time, and the holdings shown are those the whole ledger leaves.   *)
EXTENDS PortfolioLedger

CONSTANTS
    Ids,
    Trades

VARIABLES
    trades,     \* id -> trade, for the ids recorded
    held        \* asset -> quantity

vars == <<trades, held>>

Init ==
    /\ trades = << >>
    /\ held = [a \in Assets |-> 0]

\* The ledger becomes t, if it can be replayed.
Becomes(t) ==
    /\ Holdings(t).ok
    /\ trades' = t
    /\ held' = Holdings(t).quantity

With(ledger, i, t) == [j \in DOMAIN ledger \cup {i} |-> IF j = i THEN t ELSE ledger[j]]

Without(ledger, i) == [j \in DOMAIN ledger \ {i} |-> ledger[j]]

RecordOrAmend(i, t) == Becomes(With(trades, i, t))

Strike(i) == i \in DOMAIN trades /\ Becomes(Without(trades, i))

Next ==
    \E i \in Ids : Strike(i) \/ \E t \in Trades : RecordOrAmend(i, t)

Spec == Init /\ [][Next]_vars
=============================================================================
