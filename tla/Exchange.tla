------------------------------ MODULE Exchange ------------------------------
(***************************************************************************)
(* The exchange account behind the ccxt client, as the exit side of one    *)
(* symbol sees it.  It is not code of the repository: it is modelled from  *)
(* the calls src/backend/app/services makes (create_limit_order,           *)
(* create_market_order, cancel_order, fetch_order, fetch_open_orders,      *)
(* fetch_balance, fetch_positions) and from the answers and errors those   *)
(* callers distinguish.  Quantities are whole lots; prices appear only as  *)
(* the choices they cause.                                                 *)
(***************************************************************************)
EXTENDS Integers, FiniteSets

CONSTANTS
  Brackets,      \* bracket ids (sl_id = chase_id), all on one symbol
  NoOrder,       \* Python's None in the place of an order id
  Futures,       \* is_futures: TRUE for a futures position, FALSE for spot
  Holding,       \* lots held at the start, over all the brackets
  Amount,        \* lots each bracket protects (sl_meta['amount'])
  MinQty,        \* lots of the smallest order worth the minimum notional
  MaxAttempts,   \* max_attempts of a chase, the "0 = unlimited" case left out
  MaxRevisions,  \* bound: replacements of one bracket's disaster stop
  MaxFaults      \* bound: remote calls that raise

ASSUME ExchangeAssumption ==
  /\ Futures \in BOOLEAN
  /\ IsFiniteSet(Brackets)
  /\ {Holding, Amount, MinQty, MaxRevisions, MaxFaults} \subseteq Nat
  /\ Amount > 0 /\ MinQty > 0
  /\ MaxAttempts \in Nat \ {0}

Tp(b) == <<b, "tp", 0>>
Disaster(b, n) == <<b, "disaster", n>>
Maker(b, n) == <<b, "maker", n>>
OrderIds ==
  (Brackets \X {"tp"} \X {0})
    \cup (Brackets \X {"disaster"} \X (0 .. MaxRevisions))
    \cup (Brackets \X {"maker"} \X (1 .. MaxAttempts))

ASSUME NoOrderAssumption == NoOrder \notin OrderIds

Order == [status : {"none", "open", "closed", "canceled"}, qty : Nat, filled : Nat]

VARIABLES
  orders,      \* every exit order ever sent, by id
  holding,     \* lots of the position (futures) or of the base asset (spot)
  locked,      \* spot lots the ledger holds back for orders
  lagging,     \* cancelled spot orders whose lots the ledger has not freed yet
  swept,       \* per bracket, lots its chase has sold at market
  faults       \* remote calls that have raised so far

ledgerVars == <<holding, locked, lagging, swept>>
exchangeVars == <<orders, ledgerVars, faults>>

ExchangeTypeOK ==
  /\ orders \in [OrderIds -> Order]
  /\ holding \in Nat
  /\ locked \in Int
  /\ lagging \in SUBSET OrderIds
  /\ swept \in [Brackets -> Nat]
  /\ faults \in Nat

Open == {o \in OrderIds : orders[o].status = "open"}
Left(o) == orders[o].qty - orders[o].filled
Lesser(m, n) == IF m < n THEN m ELSE n

\* fetch_balance()[base]['free']: what the ledger does not hold back for an order.
Free == holding - locked

\* What the executor reads before it sizes an order: _get_live_position_contracts
\* on futures, the free base balance on spot.
Sellable == IF Futures THEN holding ELSE Free

NoFault == faults' = faults
Fault == faults < MaxFaults /\ faults' = faults + 1

-----------------------------------------------------------------------------
(* The effects of the calls.                                               *)

Rest(o, q) ==
  /\ orders' = [orders EXCEPT ![o] = [status |-> "open", qty |-> q, filled |-> 0]]
  /\ locked' = IF Futures THEN locked ELSE locked + q
  /\ UNCHANGED <<holding, lagging, swept>>

\* Cancelling an order that is not open raises in ccxt; every caller swallows it.
CancelOrders(S) ==
  /\ orders' = [o \in OrderIds |->
                  IF o \in S \cap Open THEN [orders[o] EXCEPT !.status = "canceled"]
                                       ELSE orders[o]]
  /\ lagging' = IF Futures THEN lagging ELSE lagging \cup (S \cap Open)
  /\ UNCHANGED <<holding, locked, swept>>

SellAtMarket(b, q) ==
  LET k == Lesser(q, holding)
  IN  /\ holding' = holding - k
      /\ swept' = [swept EXCEPT ![b] = @ + k]
      /\ UNCHANGED <<orders, locked, lagging>>

-----------------------------------------------------------------------------
(* The market and the account owner, who act at any time.                  *)

\* A resting order trades, in part or in full; a reduce-only order never
\* trades more than the position.
Fill(o) ==
  /\ o \in Open
  /\ \E k \in 1 .. Lesser(Left(o), holding) :
       /\ orders' = [orders EXCEPT
                       ![o].filled = @ + k,
                       ![o].status = IF k = Left(o) THEN "closed" ELSE "open"]
       /\ holding' = holding - k
       /\ locked' = IF Futures THEN locked ELSE locked - k
  /\ UNCHANGED <<lagging, swept, faults>>

\* The spot ledger frees the lots of a cancelled order some time after the cancel.
ReleaseLots(o) ==
  /\ o \in lagging
  /\ lagging' = lagging \ {o}
  /\ locked' = locked - Left(o)
  /\ UNCHANGED <<orders, holding, swept, faults>>

\* The user, or a liquidation, reduces the position from outside; on spot only lots
\* that no order holds back.
CloseOutside ==
  /\ \E k \in 1 .. Lesser(holding, Sellable) : holding' = holding - k
  /\ UNCHANGED <<orders, locked, lagging, swept, faults>>

Market ==
  \/ \E o \in OrderIds : Fill(o) \/ ReleaseLots(o)
  \/ CloseOutside

=============================================================================
