------------------------------ MODULE TradeModal ------------------------------
(***************************************************************************)
(* The manual trade panel (ManualTradeModal.tsx) over its polls: the       *)
(* balance of the pair, the listed orders and brackets, the order an       *)
(* emergency force is aimed at, the amount computed from a percentage, and *)
(* the requests with the refreshes that follow them.  A callback keeps the *)
(* pair of the render it was made in; answers come in any order.  An       *)
(* amount is the pair it was computed from or typed for; prices, leverage  *)
(* and the attached TP and SL are left out but for the refusals they cause.*)
(***************************************************************************)
EXTENDS Integers, FiniteSets

CONSTANTS
  Symbols, Home,   \* the pairs, and the one the panel starts on
  Futures,         \* the pairs of which isFutures holds
  Funded,          \* <<pair, side>>: the wallet has funds for that side
  Orders, Brackets,\* ids of open orders and of software brackets
  PairOf,          \* the pair of each of them
  LinkOf,          \* the order a bracket names (tp_order_id, entry_order_id)
  None, All,       \* null, and the choice 'all'
  Slots,           \* bound: list polls outstanding at once
  MaxEvents,       \* bound: orders and brackets that come or go, polls that fail
  MaxSwitches, MaxSends,  \* bounds: changes of pair, orders sent
  Staggers         \* bound: refreshes a request leaves for later (two in the code)

Sides == {"Buy", "Sell"}
Ids == Orders \cup Brackets

ASSUME TradeModalAssumption ==
  /\ Home \in Symbols /\ Futures \subseteq Symbols /\ Funded \subseteq Symbols \X Sides
  /\ PairOf \in [Ids -> Symbols] /\ LinkOf \in [Brackets -> Orders \cup {None}]
  /\ None \notin Ids \cup Symbols /\ All \notin Ids
  /\ {MaxEvents, MaxSwitches, MaxSends, Staggers} \subseteq Nat

VARIABLES
  held,          \* the ids that are open at the exchange and in the registry
  sym, open,     \* activeSymbol, isOpen
  polls, tick,   \* fetchActiveBrackets calls under way; openOrdersPollTickRef % 2
  orders, brackets,  \* openLimitOrders, activeBrackets
  choice, choseAll,  \* selectedForceOrderId, userChoseAllForceRef
  asking,        \* the fetchBalance under way, isFetchingBalanceRef while there is one
  balance,       \* the pair balanceData is of
  percent, size, side,  \* is selectedPercent set; size; tradeSide
  trade, force,  \* isSubmitting and isEmergencySubmitting: the order under way
  later,         \* per pair, staggered refreshes not yet run
  events, switches, sends

listVars == <<polls, tick, orders, brackets, choice, choseAll>>
moneyVars == <<asking, balance, percent, size, side>>
sendVars == <<trade, force, later>>
boundVars == <<events, switches, sends>>
vars == <<held, sym, open, listVars, moneyVars, sendVars, boundVars>>

NoPoll == [phase |-> "idle", pair |-> Home, full |-> TRUE, orders |-> {}, brackets |-> {}]
NoAsk == [pair |-> None, silent |-> TRUE]
NoSend == [pair |-> None, amount |-> None]

TradeModalTypeOK ==
  /\ held \subseteq Ids /\ sym \in Symbols /\ open \in BOOLEAN
  /\ polls \in [Slots -> [phase : {"idle", "sent", "served"}, pair : Symbols, full : BOOLEAN,
                          orders : SUBSET Orders, brackets : SUBSET Brackets]]
  /\ tick \in {0, 1} /\ orders \subseteq Orders /\ brackets \subseteq Brackets
  /\ choice \in Ids \cup {All} /\ choseAll \in BOOLEAN
  /\ asking \in [pair : Symbols \cup {None}, silent : BOOLEAN]
  /\ balance \in Symbols \cup {None} /\ size \in Symbols \cup {None}
  /\ percent \in BOOLEAN /\ side \in Sides
  /\ {trade, force} \subseteq [pair : Symbols \cup {None}, amount : Symbols \cup {None}]
  /\ later \in [Symbols -> Nat]
  /\ events \in 0 .. MaxEvents /\ switches \in 0 .. MaxSwitches
  /\ sends \in 0 .. MaxSends

Event == events < MaxEvents /\ events' = events + 1
NoEvent == events' = events

Of(S, p) == {i \in S : PairOf[i] = p}

-----------------------------------------------------------------------------
(* The lists.                                                              *)

\* forceOrderTargets: a bracket whose order is listed is shown with the order.
Targets(os, bs) == os \cup {b \in bs : LinkOf[b] \notin os}

\* The effect that keeps the choice among the targets; the first target is the
\* first of a list the backend orders.
Chosen(T, c, all) ==
  IF T = {} THEN /\ choice' = All /\ choseAll' = FALSE
  ELSE /\ choseAll' = all
       /\ \/ c \in T /\ choice' = c
          \/ c = All /\ all /\ choice' = All
          \/ c \notin T /\ ~(c = All /\ all) /\ choice' \in T

\* fetchActiveBrackets of the callback made for pair p; the orders are asked for
\* on every other tick of an open panel, or when forced.
PollOf(p, forced, opened) ==
  [NoPoll EXCEPT !.phase = "sent", !.pair = p, !.full = forced \/ (opened /\ tick = 0)]

Idle(f) == polls[f].phase = "idle"

Forced(p) ==
  \/ \E f \in Slots : /\ Idle(f)
                      /\ polls' = [polls EXCEPT ![f] = PollOf(p, TRUE, TRUE)]
                      /\ tick' = 1 - tick
  \/ (\A f \in Slots : ~Idle(f)) /\ UNCHANGED <<polls, tick>>

\* Mutant: the tick counts only the polls that ask for the orders.
PollTickStuck(f) ==
  /\ Idle(f)
  /\ polls' = [polls EXCEPT ![f] = PollOf(sym, FALSE, open)]
  /\ tick' = IF open /\ tick = 0 THEN 1 ELSE tick
  /\ UNCHANGED <<held, sym, open, orders, brackets, choice, choseAll, moneyVars, sendVars, boundVars>>

\* The 1.5 s interval.
PollTick(f) ==
  /\ Idle(f)
  /\ polls' = [polls EXCEPT ![f] = PollOf(sym, FALSE, open)]
  /\ tick' = 1 - tick
  /\ UNCHANGED <<held, sym, open, orders, brackets, choice, choseAll, moneyVars, sendVars, boundVars>>

ServeList(f) ==
  /\ polls[f].phase = "sent"
  /\ polls' = [polls EXCEPT ![f].phase = "served",
                 ![f].orders = Of(Orders \cap held, polls[f].pair),
                 ![f].brackets = Of(Brackets \cap held, polls[f].pair)]
  /\ UNCHANGED <<held, sym, open, tick, orders, brackets, choice, choseAll, moneyVars, sendVars, boundVars>>

\* A full poll takes a failure for an empty list, the other one leaves the list.
ApplyList(f) ==
  LET p == polls[f] IN
  /\ p.phase = "served" /\ polls' = [polls EXCEPT ![f] = NoPoll]
  /\ \/ /\ brackets' = p.brackets /\ orders' = IF p.full THEN p.orders ELSE orders
        /\ NoEvent
     \/ /\ Event
        /\ \/ brackets' = {} /\ p.full /\ orders' \in {p.orders, {}}
           \/ brackets' = p.brackets /\ p.full /\ orders' = {}
           \/ ~p.full /\ UNCHANGED <<orders, brackets>>
  /\ Chosen(Targets(orders', brackets'), choice, choseAll)
  /\ UNCHANGED <<held, sym, open, tick, moneyVars, sendVars, switches, sends>>

\* The choice in the panel's list.
Choose ==
  /\ open
  /\ LET T == Targets(orders, brackets) IN
     \E c \in T \cup {All} : /\ c # choice
                             /\ Chosen(T, c, c = All /\ T # {})
  /\ UNCHANGED <<held, sym, open, polls, tick, orders, brackets, moneyVars, sendVars, boundVars>>

-----------------------------------------------------------------------------
(* The balance and the amount.                                             *)

\* calculateSize: of a balance, for a side the wallet can pay.
Computed(b, s) == IF b # None /\ <<b, s>> \in Funded THEN b ELSE None

\* The effect that recomputes the amount while a percentage is selected.
Resize(b, s, pct, was) == IF pct /\ Computed(b, s) # None THEN Computed(b, s) ELSE was

\* fetchBalance of the callback made for pair p.
AskOf(p, silent) == IF asking.pair = None THEN [pair |-> p, silent |-> silent] ELSE asking

\* The 5.5 s interval, a focus.
BalanceTick ==
  /\ open /\ asking.pair = None
  /\ asking' = AskOf(sym, TRUE)
  /\ UNCHANGED <<held, sym, open, listVars, balance, percent, size, side, sendVars, boundVars>>

\* Mutant: isFetchingBalanceRef stays set after the answer.
BalanceArrivesBusy ==
  /\ asking.pair # None /\ balance # asking.pair
  /\ balance' = asking.pair
  /\ size' = Resize(asking.pair, side, percent, size)
  /\ UNCHANGED <<held, sym, open, listVars, asking, percent, side, sendVars, boundVars>>

BalanceArrives ==
  /\ asking.pair # None /\ asking' = NoAsk
  /\ balance' = asking.pair
  /\ size' = Resize(asking.pair, side, percent, size)
  /\ UNCHANGED <<held, sym, open, listVars, percent, side, sendVars, boundVars>>

BalanceFails ==
  /\ asking.pair # None /\ asking' = NoAsk
  /\ Event
  /\ balance' = IF asking.silent THEN balance ELSE None
  /\ UNCHANGED <<held, sym, open, listVars, percent, size, side, sendVars, switches, sends>>

\* handlePercentSliderChange: an unfunded side of a spot pair is left for the other.
Slide ==
  LET other == CHOOSE s \in Sides : s # side
      turn == /\ sym \notin Futures /\ Computed(balance, side) = None
              /\ Computed(balance, other) # None IN
  /\ open /\ percent' = TRUE
  /\ side' = IF turn THEN other ELSE side
  /\ size' = Resize(balance, side', TRUE, size)
  /\ UNCHANGED <<held, sym, open, listVars, asking, balance, sendVars, boundVars>>

\* The slider at zero.
SlideOff ==
  /\ open /\ percent' = FALSE /\ size' = None
  /\ UNCHANGED <<held, sym, open, listVars, asking, balance, side, sendVars, boundVars>>

Type ==
  /\ open /\ percent' = FALSE /\ size' = sym
  /\ UNCHANGED <<held, sym, open, listVars, asking, balance, side, sendVars, boundVars>>

TurnSide ==
  /\ open /\ side' \in Sides \ {side}
  /\ size' = Resize(balance, side', percent, size)
  /\ UNCHANGED <<held, sym, open, listVars, asking, balance, percent, sendVars, boundVars>>

\* Another base/quote mode empties a typed amount.
TurnMode ==
  /\ open /\ ~percent /\ size' = None
  /\ UNCHANGED <<held, sym, open, listVars, asking, balance, percent, side, sendVars, boundVars>>

-----------------------------------------------------------------------------
(* The panel.                                                              *)

\* Another pair: the amount and the balance are reset, the percentage, the lists
\* and what is under way are not. In the same commit, when the kind, the price or
\* the contract of the pair changes with it, the effect that recomputes the amount
\* still sees the balance of before and puts the amount of the old pair back.
Switch ==
  /\ switches < MaxSwitches /\ switches' = switches + 1
  /\ sym' \in Symbols \ {sym}
  /\ balance' = None
  /\ size' \in {None} \cup {b \in {balance} : percent}
  /\ asking' = IF open THEN AskOf(sym', FALSE) ELSE asking
  /\ Forced(sym')
  /\ UNCHANGED <<held, open, orders, brackets, choice, choseAll, percent, side, sendVars, events, sends>>

Toggle ==
  /\ open' = ~open
  /\ asking' = IF open' THEN AskOf(sym, FALSE) ELSE asking
  /\ Forced(sym)
  /\ UNCHANGED <<held, sym, orders, brackets, choice, choseAll, balance, percent, size, side, sendVars, boundVars>>

-----------------------------------------------------------------------------
(* The requests.                                                           *)

\* handleTrade(s): the amount is computed again for another side; on a spot pair
\* that side must be funded, on a futures pair the old amount goes out. What
\* the TP, SL, iceberg and price checks refuse stops after that.
Trade(s) ==
  LET redo == percent /\ (s # side \/ size = None) /\ balance # None
      again == Computed(balance, s)
      amount == IF redo /\ again # None THEN again ELSE size
      stops == (redo /\ again = None /\ sym \notin Futures) \/ amount = None IN
  /\ open /\ trade.pair = None /\ sends < MaxSends
  /\ side' = s
  /\ size' = Resize(balance, s, percent, amount)
  /\ \/ ~stops /\ trade' = [pair |-> sym, amount |-> amount] /\ sends' = sends + 1
     \/ UNCHANGED <<trade, sends>>
  /\ UNCHANGED <<held, sym, open, listVars, asking, balance, percent, force, later, events, switches>>

\* handleEmergencyForceTrade: a typed amount is sent along when no order is chosen.
Force ==
  /\ open /\ force.pair = None /\ sends < MaxSends /\ sends' = sends + 1
  /\ force' = [pair |-> sym, amount |-> IF choice = All /\ ~percent THEN size ELSE None]
  /\ UNCHANGED <<held, sym, open, listVars, moneyVars, trade, later, events, switches>>

\* What follows a request that was made: a refresh at once and staggered ones, all
\* of the pair it was made for.
Refresh(p) ==
  /\ Forced(p)
  /\ asking' = AskOf(p, TRUE)
  /\ later' = [later EXCEPT ![p] = @ + Staggers]

TradeAnswered ==
  /\ trade.pair # None /\ trade' = NoSend
  /\ \/ Refresh(trade.pair)
     \/ UNCHANGED <<polls, tick, asking, later>>     \* refused, or denied by the AI filter
  /\ UNCHANGED <<held, sym, open, orders, brackets, choice, choseAll, balance, percent, size, side,
                 force, boundVars>>

ForceAnswered ==
  /\ force.pair # None /\ force' = NoSend
  /\ \/ Refresh(force.pair)
     \/ UNCHANGED <<polls, tick, asking, later>>
  /\ UNCHANGED <<held, sym, open, orders, brackets, choice, choseAll, balance, percent, size, side,
                 trade, boundVars>>

Staggered(p) ==
  /\ later[p] > 0
  /\ Forced(p)
  /\ asking' = AskOf(p, TRUE)
  /\ later' = [later EXCEPT ![p] = @ - 1]
  /\ UNCHANGED <<held, sym, open, orders, brackets, choice, choseAll, balance, percent, size, side,
                 trade, force, boundVars>>

\* Orders and brackets come and go (modules Exchange, BracketExit).
Change(i) ==
  /\ Event
  /\ held' = IF i \in held THEN held \ {i} ELSE held \cup {i}
  /\ UNCHANGED <<sym, open, listVars, moneyVars, sendVars, switches, sends>>

Init ==
  /\ held = Ids /\ sym = Home /\ open = FALSE
  /\ polls = [f \in Slots |-> NoPoll] /\ tick = 0 /\ orders = {} /\ brackets = {}
  /\ choice = All /\ choseAll = FALSE
  /\ asking = NoAsk /\ balance = None /\ percent = TRUE /\ size = None /\ side = "Buy"
  /\ trade = NoSend /\ force = NoSend /\ later = [p \in Symbols |-> 0]
  /\ events = 0 /\ switches = 0 /\ sends = 0

Listing == \E f \in Slots : PollTick(f) \/ ServeList(f) \/ ApplyList(f)
Money == BalanceTick \/ BalanceArrives \/ BalanceFails
Hand == Choose \/ Slide \/ SlideOff \/ Type \/ TurnSide \/ TurnMode \/ Switch \/ Toggle
        \/ (\E s \in Sides : Trade(s)) \/ Force
Answers == TradeAnswered \/ ForceAnswered \/ (\E p \in Symbols : Staggered(p))

Next == Listing \/ Money \/ Hand \/ Answers \/ \E i \in Ids : Change(i)

Spec == Init /\ [][Next]_vars

\* The intervals fire, requests are answered one way or the other.
Fairness ==
  /\ \A f \in Slots : WF_vars(PollTick(f)) /\ WF_vars(ServeList(f)) /\ WF_vars(ApplyList(f))
  /\ WF_vars(BalanceTick) /\ WF_vars(BalanceArrives \/ BalanceFails)
  /\ WF_vars(Answers)

FairSpec == Spec /\ Fairness

-----------------------------------------------------------------------------
(* Properties.                                                             *)

(* A panel left open ends up with the balance of its pair: whatever answer *)
(* of an earlier pair comes late, whatever refresh is skipped because one  *)
(* is under way, and whichever fetch fails (fetchBalance).                 *)
BalanceCatchesUp == <>[]open => <>[](balance = sym)

(* A panel left open ends up listing what is open on its pair, with the    *)
(* emergency force aimed at a listed order or at all of them: although the *)
(* orders are asked for only on every other tick and a failed poll empties *)
(* the lists (fetchActiveBrackets, the effect on forceOrderTargets).       *)
ListsCatchUp ==
  <>[]open => <>[](/\ orders = Of(Orders \cap held, sym)
                   /\ brackets = Of(Brackets \cap held, sym)
                   /\ choice \in Targets(orders, brackets) \cup {All})

(* What the panel promises (BUG-12): no order goes out on one pair with an *)
(* amount of another.                                                      *)
AmountOfThisPair == \A s \in {trade, force} : s.amount \in {s.pair, None}
=============================================================================
