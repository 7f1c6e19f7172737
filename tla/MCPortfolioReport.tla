-------------------------- MODULE MCPortfolioReport --------------------------
(* An instance of PortfolioReport for TLC, on the ledgers that LedgerBook    *)
(* reaches, so every one the handlers of Portfolio can leave.  The second    *)
(* asset is priced in another currency than the page, and has no bar on the  *)
(* first day and the last, when it is traded.  Prices of transactions are    *)
(* multiples of a unit that makes the average cost of every ledger here a    *)
(* whole number, and selling out can leave no flow.  The closes are in a     *)
(* coarser unit: no property depends on the proportion of the two.           *)
EXTENDS PortfolioReport, TLC

CONSTANTS a1, a2, Ids

VARIABLE held

Book == INSTANCE LedgerBook WITH Trades <- Inputs, trades <- rows

Spec == Book!Spec

U == 5040

MCClose == (a1 :> <<72, 48, 96>>) @@ (a2 :> <<0, 24, 0>>)

MCRate == (a1 :> 1) @@ (a2 :> 2)

MCInputs ==
    [asset : {a1}, type : {"buy", "sell"}, quantity : {1, 2}, price : {72 * U, 96 * U},
     fee : {24 * U}, day : {1, 3}]
        \cup [asset : {a2}, type : {"buy", "sell"}, quantity : {2}, price : {48 * U},
              fee : {0}, day : {1, 3}]
=============================================================================
