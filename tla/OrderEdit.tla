------------------------------ MODULE OrderEdit ------------------------------
(***************************************************************************)
(* Moving an open order by dragging its line on the order flow chart: the  *)
(* polled list of orders (useOpenOrders.ts), the lines and the drag, the   *)
(* confirmation and the request (OrderFlowHeatmap.tsx), and the edit the   *)
(* backend performs as a cancel followed by a create                       *)
(* (manual_trade_service.py).  One bracket is armed: order 1 rests as its  *)
(* take-profit, its software stop is listed as 0 and dragged like an order.*)
(* Two answers of one poll are one snapshot; touch and mouse share their   *)
(* handlers; amounts are whole (an order fills at once).                   *)
(***************************************************************************)
EXTENDS Integers, FiniteSets

CONSTANTS
  Symbols, Home,  \* the pairs, and the one the bracket is on
  Prices, Start,  \* chart prices, and the one everything rests at to begin with
  Side,           \* the side that closes the bracket's position
  MaxEdits,       \* bound: edits sent
  MaxOrders,      \* bound: orders placed, the take-profit included
  Slots,          \* bound: polls outstanding at once
  MaxFaults,      \* bound: requests that fail
  MaxSwitches     \* bound: changes of the chart's pair

Ids == 1 .. MaxOrders
Stop == 0                     \* the list id of the software stop
Things == Ids \cup {Stop}
None == -1

ASSUME OrderEditAssumption ==
  /\ Home \in Symbols /\ Side \in {"buy", "sell"}
  /\ Prices \subseteq Nat \ {0} /\ Start \in Prices
  /\ MaxOrders \in Nat \ {0} /\ MaxEdits \in Nat /\ MaxFaults \in Nat /\ MaxSwitches \in Nat

VARIABLES
  book,       \* the orders at the exchange
  stop,       \* the bracket in ACTIVE_SOFTWARE_SL: armed, and its trigger
  tp,         \* tp_order_id of that bracket
  unlinked,   \* take-profits cancelled by an edit whose last create raised
  missed,     \* cancels that reached no open order, all swallowed
  unheard,    \* orders placed by a create that raised
  sym,        \* the pair of the chart
  polls,      \* fetchOrders calls between their request and their answer
  list,       \* openOrders: the listed price of each id, 0 when not listed
  lines,      \* wallLinesRef: the drawn price of each id, 0 when not drawn
  pressed,    \* the mouse button
  down, drag, \* isDown of the mounted handlers; draggingOrderIdRef
  mod, dialog,\* pendingModificationRef; is the confirmation shown
  request,    \* the edit at the backend, isModifyingRef while it is not idle
  edits, faults, switches

bookVars == <<book, stop, tp, unlinked, missed, unheard>>
listVars == <<polls, list>>
dragVars == <<pressed, down, drag>>
editVars == <<mod, dialog, request, edits>>
boundVars == <<faults, switches>>
vars == <<bookVars, sym, listVars, lines, dragVars, editVars, boundVars>>

Order == [state : {"none", "open", "filled", "cancelled"}, sym : Symbols,
          price : Prices]
Listing == [Things -> Prices \cup {0}]
Poll == [phase : {"idle", "sent", "served"}, sym : Symbols, ans : Listing]
Mod == [id : Things \cup {None}, price : Prices \cup {0}, old : Prices \cup {0},
        sym : Symbols, fresh : BOOLEAN]
Request == [stage : {"idle", "sent", "cut", "done", "failed"}, mod : Mod, line : BOOLEAN]

Blank == [t \in Things |-> 0]
NoMod == [id |-> None, price |-> 0, old |-> 0, sym |-> Home, fresh |-> FALSE]
NoRequest == [stage |-> "idle", mod |-> NoMod, line |-> FALSE]
NoPoll == [phase |-> "idle", sym |-> Home, ans |-> Blank]

OrderEditTypeOK ==
  /\ book \in [Ids -> Order] /\ stop \in [on : BOOLEAN, price : Prices]
  /\ tp \in Ids /\ unlinked \subseteq Ids /\ missed \in Nat /\ unheard \in Nat
  /\ sym \in Symbols
  /\ polls \in [Slots -> Poll] /\ list \in Listing /\ lines \in Listing
  /\ pressed \in BOOLEAN /\ down \in BOOLEAN /\ drag \in Things \cup {None}
  /\ mod \in Mod /\ dialog \in BOOLEAN /\ request \in Request
  /\ edits \in 0 .. MaxEdits /\ faults \in 0 .. MaxFaults /\ switches \in 0 .. MaxSwitches

Fault == faults < MaxFaults /\ faults' = faults + 1
NoFault == faults' = faults

SymOf(t) == IF t = Stop THEN Home ELSE book[t].sym

-----------------------------------------------------------------------------
(* The list and the lines.                                                 *)

OpenOn(s) == {i \in Ids : book[i].state = "open" /\ book[i].sym = s}

\* What the two endpoints hold for a pair: its resting orders and its stop.
Held(s) == [t \in Things |->
  IF t = Stop THEN IF stop.on /\ s = Home THEN stop.price ELSE 0
  ELSE IF t \in OpenOn(s) THEN book[t].price ELSE 0]

\* The effect on [openOrders]: the dragged and the pending line stay as they are.
Redrawn(new) == [t \in Things |-> IF t \in {drag, mod.id} THEN lines[t] ELSE new[t]]

\* fetchOrders, by the interval, by a focus or by a change of pair; a hidden tab
\* takes this step later.
StartPoll(f) ==
  /\ polls[f].phase = "idle"
  /\ polls' = [polls EXCEPT ![f] = [phase |-> "sent", sym |-> sym, ans |-> Blank]]
  /\ UNCHANGED <<bookVars, sym, list, lines, dragVars, editVars, boundVars>>

\* A request that fails is answered as an empty list; the two fail apart.
Serve(f) ==
  /\ polls[f].phase = "sent"
  /\ \/ polls' = [polls EXCEPT ![f].phase = "served", ![f].ans = Held(polls[f].sym)]
        /\ NoFault
     \/ \E lost \in {Ids, {Stop}, Things} :
          polls' = [polls EXCEPT ![f].phase = "served",
            ![f].ans = [t \in Things |-> IF t \in lost THEN 0 ELSE Held(polls[f].sym)[t]]]
        /\ Fault
  /\ UNCHANGED <<bookVars, sym, list, lines, dragVars, editVars, switches>>

\* isMountedRef is true again once the effect has run for the new pair: every
\* answer is applied. A captured line that was taken off the chart stays off.
Answer(f) ==
  /\ polls[f].phase = "served"
  /\ polls' = [polls EXCEPT ![f] = NoPoll]
  /\ list' = polls[f].ans
  /\ lines' = Redrawn(polls[f].ans)
  /\ mod' = [mod EXCEPT !.fresh = FALSE]
  /\ request' = [request EXCEPT !.mod.fresh = FALSE,
       !.line = @ /\ \A t \in Things : t = request.mod.id => lines'[t] # 0]
  /\ UNCHANGED <<bookVars, sym, dragVars, dialog, edits, boundVars>>

\* The chart is rebuilt without lines and the handlers are mounted anew; the list,
\* the dragged id and the pending modification stay.
Switch ==
  /\ switches < MaxSwitches /\ switches' = switches + 1
  /\ sym' \in Symbols \ {sym}
  /\ lines' = Blank
  /\ down' = FALSE
  /\ request' = [request EXCEPT !.line = FALSE]
  /\ UNCHANGED <<bookVars, listVars, pressed, drag, mod, dialog, edits, faults>>

-----------------------------------------------------------------------------
(* The drag and the confirmation.                                          *)

Modifying == request.stage # "idle"

StartDrag(t) ==
  /\ ~pressed /\ pressed' = TRUE
  /\ ~Modifying /\ mod = NoMod /\ edits < MaxEdits
  /\ list[t] # 0
  /\ down' = TRUE /\ drag' = t
  /\ UNCHANGED <<bookVars, sym, listVars, lines, editVars, boundVars>>

\* A limit price beyond the market is moved onto it.
Capped(p, live) ==
  IF (Side = "buy" /\ p > live) \/ (Side = "sell" /\ p < live) THEN live ELSE p

\* A long's stop sells below the market, a short's buys above it.
StopFits(p, live) == IF Side = "sell" THEN p < live ELSE p > live

Asked(t, p, live) == [id |-> t, price |-> IF t = Stop THEN p ELSE Capped(p, live),
                      old |-> list[t], sym |-> sym, fresh |-> TRUE]

Worth(t, p, live) ==
  /\ list[t] # 0
  /\ t = Stop => StopFits(p, live)
  /\ Asked(t, p, live).price # list[t]

Send(m) ==
  /\ edits' = edits + 1
  /\ mod' = m
  /\ request' = [stage |-> "sent", mod |-> m, line |-> \A t \in Things : t = m.id => lines[t] # 0]

LetGo == pressed /\ pressed' = FALSE /\ down' = FALSE /\ drag' = None

\* finishDragAt at the market price of the moment; with "don't ask" it goes
\* straight to the request.
Drop(p, live) ==
  LET m == Asked(drag, p, live) IN
  /\ LetGo /\ down
  /\ Worth(drag, p, live)
  /\ lines' = [lines EXCEPT ![drag] = IF @ = 0 THEN 0 ELSE m.price]
  /\ \/ mod' = m /\ dialog' = TRUE /\ UNCHANGED <<request, edits>>
     \/ Send(m) /\ UNCHANGED dialog
  /\ UNCHANGED <<bookVars, sym, listVars, boundVars>>

\* Dropped off the chart, back on its price, on the wrong side of the market, after
\* the order left the list, after a switch of pair, or ended by a second finger.
DropNothing ==
  /\ LetGo
  /\ UNCHANGED <<bookVars, sym, listVars, lines, editVars, boundVars>>

Confirm ==
  /\ dialog /\ ~Modifying
  /\ Send(mod)
  /\ UNCHANGED <<bookVars, sym, listVars, lines, dragVars, dialog, boundVars>>

\* cancelOrderModification; Escape reaches it during a request too.
Abandon ==
  /\ dialog
  /\ lines' = [lines EXCEPT ![mod.id] = IF @ = 0 THEN 0 ELSE mod.old]
  /\ mod' = NoMod /\ dialog' = FALSE
  /\ UNCHANGED <<bookVars, sym, listVars, dragVars, request, edits, boundVars>>

-----------------------------------------------------------------------------
(* The edit at the backend.                                                *)

\* update_software_bracket, or the target of the chase the stop has become.
MoveStop ==
  /\ request.stage = "sent" /\ request.mod.id = Stop
  /\ \/ stop.on /\ stop' = [stop EXCEPT !.price = request.mod.price]
     \/ ~stop.on /\ UNCHANGED stop
  /\ request' = [request EXCEPT !.stage = "done"]
  /\ UNCHANGED <<book, tp, unlinked, missed, unheard, sym, listVars, lines, dragVars, mod, dialog,
                 edits, boundVars>>

\* Mutant: the edit places the new order without cancelling the old one.
CancelOldSkipped ==
  /\ request.stage = "sent" /\ (request.mod.id = Stop => ~stop.on)
  /\ request' = [request EXCEPT !.stage = "cut"]
  /\ NoFault
  /\ UNCHANGED <<bookVars, sym, listVars, lines, dragVars, mod, dialog, edits, switches>>

\* _cancel_futures_order_universal: both failures are swallowed. The id of a stop
\* that is over is taken for a native order.
CancelOld ==
  LET t == request.mod.id
      rests == t # Stop /\ t \in OpenOn(request.mod.sym) IN
  /\ request.stage = "sent" /\ (t = Stop => ~stop.on)
  /\ request' = [request EXCEPT !.stage = "cut"]
  /\ \/ rests /\ book' = [book EXCEPT ![t].state = "cancelled"]
        /\ NoFault /\ UNCHANGED missed
     \/ rests /\ Fault /\ missed' = missed + 1 /\ UNCHANGED book
     \/ ~rests /\ NoFault /\ missed' = missed + 1 /\ UNCHANGED book
  /\ UNCHANGED <<stop, tp, unlinked, unheard, sym, listVars, lines, dragVars, mod, dialog, edits,
                 switches>>

\* Mutant: the bracket keeps the id of the order the edit has cancelled.
RelinkedNever(old, new) == tp

\* The new id replaces the old one in the bracket, wherever the new order rests.
Relinked(old, new) == IF stop.on /\ tp = old THEN new ELSE tp

\* The new order rests under the next id.
Placed(n) ==
  /\ book[n].state = "none" /\ \A i \in Ids : i < n => book[i].state # "none"
  /\ book' = [book EXCEPT ![n] = [state |-> "open", sym |-> request.mod.sym,
                                    price |-> request.mod.price]]

\* A create is answered.  It may be the first or the one that follows: REST after a
\* WebSocket call that raised, the next tier of a conditional order, GTC after a
\* post-only order that was answered dead. Refusals in between change nothing here.
CreateNew ==
  /\ request.stage = "cut"
  /\ \E n \in Ids : Placed(n) /\ tp' = Relinked(request.mod.id, n)
  /\ request' = [request EXCEPT !.stage = "done"]
  /\ UNCHANGED <<stop, unlinked, missed, unheard, sym, listVars, lines, dragVars, mod, dialog,
                 edits, boundVars>>

\* The last create raises: the edit ends with an exception, nothing is relinked.
Raise ==
  /\ request' = [request EXCEPT !.stage = "failed"]
  /\ unlinked' = unlinked \cup {i \in {tp} : stop.on /\ i = request.mod.id}

\* No new order rests: refused (post-only, margin, filters), or the edit raised before.
RefuseNew ==
  /\ request.stage = "cut"
  /\ Raise
  /\ UNCHANGED <<book, stop, tp, missed, unheard, sym, listVars, lines, dragVars, mod, dialog,
                 edits, boundVars>>

\* The order is placed and the call raises, so that its id is never known: another
\* create follows, or it was the last one.
LoseNew ==
  /\ request.stage = "cut"
  /\ \E n \in Ids : Placed(n)
  /\ unheard' = unheard + 1
  /\ \/ UNCHANGED <<request, unlinked>>
     \/ Raise
  /\ Fault
  /\ UNCHANGED <<stop, tp, missed, sym, listVars, lines, dragVars, mod, dialog, edits, switches>>

\* The edit fails before its cancel (no key, no exchange), or it was made and the
\* answer does not arrive.
LoseAnswer ==
  /\ request.stage \in {"sent", "done"} /\ request' = [request EXCEPT !.stage = "failed"]
  /\ Fault
  /\ UNCHANGED <<bookVars, sym, listVars, lines, dragVars, mod, dialog, edits, switches>>

\* Mutant: the finally block that leaves pendingModificationRef set.
FinishForgetful ==
  /\ request.stage \in {"done", "failed"}
  /\ dialog' = FALSE /\ request' = NoRequest
  /\ UNCHANGED <<bookVars, sym, listVars, lines, dragVars, mod, edits, boundVars>>

\* The end of executeOrderModification. The captured line takes the new or the
\* original price, and the listed order object takes the new one.
Finish ==
  LET m == request.mod
      done == request.stage = "done" IN
  /\ request.stage \in {"done", "failed"}
  /\ lines' = IF request.line THEN [lines EXCEPT ![m.id] = IF done THEN m.price ELSE m.old] ELSE lines
  /\ list' = IF done /\ m.fresh THEN [list EXCEPT ![m.id] = m.price] ELSE list
  /\ mod' = NoMod /\ dialog' = FALSE /\ request' = NoRequest
  /\ UNCHANGED <<bookVars, sym, polls, dragVars, edits, boundVars>>

-----------------------------------------------------------------------------
(* The exchange and the bracket monitor.                                   *)

Fill(i) ==
  /\ book[i].state = "open"
  /\ book' = [book EXCEPT ![i].state = "filled"]
  /\ UNCHANGED <<stop, tp, unlinked, missed, unheard, sym, listVars, lines, dragVars, editVars,
                 boundVars>>

\* No entry is armed: what it held is gone.
NoStop == [on |-> FALSE, price |-> Start]

\* The stop fires or its position is closed (module BracketExit): the entry is
\* deleted, its trigger and its tp_order_id with it.
StopEnds ==
  /\ stop.on /\ stop' = NoStop /\ tp' = 1 /\ unlinked' = {}
  /\ UNCHANGED <<book, missed, unheard, sym, listVars, lines, dragVars, editVars, boundVars>>

Init ==
  /\ book = [i \in Ids |-> [state |-> IF i = 1 THEN "open" ELSE "none",
                            sym |-> Home, price |-> Start]]
  /\ stop = [on |-> TRUE, price |-> Start]
  /\ tp = 1 /\ unlinked = {} /\ missed = 0 /\ unheard = 0
  /\ sym = Home
  /\ polls = [f \in Slots |-> NoPoll] /\ list = Blank /\ lines = Blank
  /\ pressed = FALSE /\ down = FALSE /\ drag = None
  /\ mod = NoMod /\ dialog = FALSE /\ request = NoRequest
  /\ edits = 0 /\ faults = 0 /\ switches = 0

Polling == \E f \in Slots : StartPoll(f) \/ Serve(f) \/ Answer(f)
Hand == (\E t \in Things : StartDrag(t)) \/ (\E p, live \in Prices : Drop(p, live))
        \/ DropNothing \/ Confirm \/ Abandon
Backend == MoveStop \/ CancelOld \/ CreateNew \/ RefuseNew \/ LoseNew \/ LoseAnswer \/ Finish
World == StopEnds \/ (\E i \in Ids : Fill(i)) \/ Switch

Next == Polling \/ Hand \/ Backend \/ World

Spec == Init /\ [][Next]_vars

\* The tab ends up visible, so that the interval fires; the remote ends answer;
\* the request of an edit returns.
Fairness ==
  /\ \A f \in Slots : WF_vars(StartPoll(f)) /\ WF_vars(Serve(f)) /\ WF_vars(Answer(f))
  /\ WF_vars(Backend)

FairSpec == Spec /\ Fairness

-----------------------------------------------------------------------------
(* Properties.                                                             *)

Executable == {i \in Ids : book[i].state \in {"open", "filled"}}

(* However drags, fills, polls and switches interleave with an edit and    *)
(* whatever create is tried again, the account holds one order that can    *)
(* execute, none between the cancel and the create, and beyond that only   *)
(* what a call left behind whose failure was swallowed: a cancel that      *)
(* reached no order, a create that raised after placing one                *)
(* (edit_manual_trade).                                                    *)
ExposureWithinMisses ==
  Cardinality(Executable) <= missed + unheard + (IF request.stage = "cut" THEN 0 ELSE 1)

(* The armed bracket never loses its take-profit to an edit that ends well *)
(* or while its creates are tried: tp_order_id names an order that rests   *)
(* or has filled, but for the time between the cancel and the create and   *)
(* for a take-profit whose edit ended with an exception, its new order     *)
(* refused or placed unheard (the relinking of edit_manual_trade).         *)
LinkFollows ==
  stop.on => \/ tp \in Executable
             \/ tp \in unlinked
             \/ request.stage = "cut" /\ request.mod.id = tp

(* Once the user lets go, the chart shows what is resting: whatever was    *)
(* dragged, abandoned, refused or answered late, in the end every resting  *)
(* order of the pair has its line at its price and no other line is left   *)
(* (the resets of executeOrderModification and the guarded redraw).        *)
LinesCatchUp == <>[](~pressed /\ ~dialog) => <>[](lines = Held(sym))

(* What useOpenOrders.ts promises (BUG-05): an answer to a fetch of before *)
(* a change of pair is not put on the list of the new pair.                *)
StaleAnswersDropped ==
  [][\A f \in Slots :
       (polls[f].phase = "served" /\ polls'[f].phase = "idle" /\ list' # list)
         => \A t \in Things : list'[t] # 0 => SymOf(t) = sym]_vars

=============================================================================
