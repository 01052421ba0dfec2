----------------------------- MODULE MCTradeModal -----------------------------
(***************************************************************************)
(* Module TradeModal on small instances: a spot pair with one order and    *)
(* one bracket that names it, and a futures pair without either.           *)
(***************************************************************************)
EXTENDS TradeModal, TLC

CONSTANTS s1, s2, o1, b1

PairOfMC == (o1 :> s1) @@ (b1 :> s1)
LinkOfMC == b1 :> o1
FundedMC == {<<s1, "Buy">>, <<s2, "Buy">>, <<s2, "Sell">>}
=============================================================================
