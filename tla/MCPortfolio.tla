----------------------------- MODULE MCPortfolio -----------------------------
(* Instances of Portfolio for TLC. *)
EXTENDS Portfolio, TLC

CONSTANTS a1, g1, g2

Tx(type, quantity, day) ==
    [asset |-> a1, type |-> type, quantity |-> quantity,
     price |-> IF day = 1 THEN 24 ELSE 36, fee |-> 12, day |-> day]

\* A purchase and a sale on each day, and a purchase of two.
MCInputs == {Tx("buy", 1, 1), Tx("buy", 2, 2), Tx("sell", 1, 1), Tx("sell", 2, 2)}

MCSignalOf == (g1 :> [asset |-> a1, type |-> "sell"]) @@ (g2 :> [asset |-> a1, type |-> "buy"])

MCRateOn == 1 :> 3

MCClose == a1 :> <<24, 36>>

MCRate == a1 :> 1

Symmetry == Permutations(Requests)
=============================================================================
