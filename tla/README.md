# A TLA+ verification of CosmoQuantAI's order, bot and chart machinery

This directory holds TLA+ modules for two halves of the repository: the parts of the
trading backend (`src/backend/app`) in which several coroutines share state across
`await`s while real orders are on an exchange, and the parts of the front end
(`src/frontend/src`) that do more than draw: the editing of resting orders on the
chart, the manual trade panel, the live feeds and the chart studies. The modules are
checked with TLC on small instances, and every safety property the passing runs check is proved
with TLAPS for every value of the constants. `PROJECT.json` names, for every
definition, the source lines it stands for.

## 1. The system

A FastAPI process runs one asyncio event loop. A handler runs without
interruption up to its next `await`; whatever shares its dictionaries may run
there. Nothing is persisted for the bracket service (its registries are module
dictionaries), so a restart simply loses them: there is no recovery code to model.

| Component | Source (under `src/backend/app`) | State | Operations | Hard behaviour | What makes it correct |
|---|---|---|---|---|---|
| Smart Chase executor | `services/manual_smart_chase_executor.py` | `ACTIVE_SMART_CHASES` (cancel event per chase) and the locals of each running chase: attempt, remaining amount, current order | `execute_manual_smart_chase`, `stop_smart_chase` | every exchange call is an await; a stop, a fill or the cleanup of another chase can land in each; any call may raise; spot balances lag behind cancels | it accounts for every order it sends, sells no more than asked, stops when told, returns |
| Bracket service, exit side | `services/bracket_order_service.py` | `ACTIVE_SOFTWARE_SL`: per bracket, trigger, take-profit id, disaster stop id, cancelled flag | `_smart_chase_monitor_loop`, `update_software_bracket`, order helpers | monitor, auto-breakeven, user edits and the stop endpoint share an entry; position reads fail; the entry is deleted while an edit is in flight | never disarmed silently, the recorded stop rests, no order without an owner |
| Bracket service, entry side | same file | `ACTIVE_ENTRY_BRACKETS`, waiting brackets | `monitor_and_execute_bracket`, `_spawn_bracket_for_amount`, `monitor_native_otoco` | partial fills spawn brackets in pieces and merge later ones | protected amount = filled amount |
| Trading endpoints | `api/v1/endpoints/trading.py` | none of its own | place, edit, stop, force | edits relink ids after awaits | registries follow the exchange |
| Manual trade service | `services/manual_trade_service.py` | reads the bracket registries | place, edit, cancel, emergency force order | same | same |
| Smart Peg entry | `services/smart_peg_entry_executor.py` | cancel events, locals | entry analogue of the chase | same as the chase | same as the chase |
| Bot manager | `services/bot_manager.py` | `active_bots` (an instance or the `STARTING` lock), `streams` | `start_bot`, `stop_bot`, `update_live_bot`, ... | start and stop await notifications and socket tasks, and cross | every trading instance can be reached; database and memory agree |
| Shared stream | `services/shared_stream.py` | subscribers, running flag, task handle | `subscribe`, `unsubscribe`, `start`, `stop`, `_run_loop` | a subscription during the awaited cancellation of the loop | subscribers are served by one stream per key |
| Async bot and live engine | `services/async_bot_instance.py`, `services/live_engine.py` | position, take-profit levels, `is_running` | `process_tick`, `execute_trade`, user stream | a task per tick, so ticks overlap; fills are booked by two paths | position equals fills |
| Exchange pool | `services/exchange_pool.py` | clients with a time to live | get, cleanup | a client closed while in use | none closed in use |
| WebSocket manager | `services/websocket_manager.py` | connections per channel | connect, disconnect, broadcast | removal during a broadcast | every live connection gets the message |
| Chart order editing | frontend: `pages/app/OrderFlowHeatmap.tsx`, `hooks/useOpenOrders.ts`; backend: `edit_manual_trade` | polled list of orders, drawn lines, drag, pending modification; the order book and the bracket's take-profit id | drag, confirm, abandon; cancel and create; relink | polls, fills, a change of pair and a second thought cross a request that cancels before it creates | an edit adds no order, the bracket keeps its take-profit, the chart shows what rests |
| Manual trade panel | frontend: `components/features/market/ManualTradeModal.tsx` | lists, force target, balance, percentage, amount | polls, slider, trade, emergency force | answers of an earlier pair come late; refreshes are skipped while one is under way; failed polls empty lists | the panel catches up with its pair |
| Live data feeds | frontend: 34 hooks and pages with a WebSocket | socket ref, timer ref, flags | connect, cleanup, reconnect | handlers and timers of an earlier effect run fire after it is over | nothing foreign is shown, a feed comes back, nothing stays open |
| Chart studies | frontend: `utils/smartMoneyConcepts.ts`, `luxIctConcepts.ts`, `ictKillzones.ts`, `indicators.ts` | zones, pivots, lines, sessions carried from bar to bar | one pass over the candles | what earlier bars left decides about later ones; lists are shortened while they are walked | what a loop accumulates is what a definition over the whole list gives |
| Strategies, engines, backtests, ML, analytics, tasks, remaining pages | see `PROJECT.json` | | | numeric or presentational | left out |

How they interact: an endpoint or the entry side arms a bracket by writing an entry
to `ACTIVE_SOFTWARE_SL` and starting a monitor. When the stop triggers, the monitor
deletes the entry and *awaits* `execute_manual_smart_chase`, passing on the ids of
the two linked orders; the executor cancels them, registers in
`ACTIVE_SMART_CHASES` and chases. The stop endpoint looks in both registries: it
flags an entry, or sets the event of a chase and cancels its current order. A
cleanup looks at the open orders of the whole symbol and protects only what live
entries name. Bots are separate: the manager creates an instance, subscribes it to
the stream of its key, awaits its start, and looks for its lock again.

The front end reaches the orders over the endpoints. A line dragged on the order flow
chart becomes an edit request; `edit_manual_trade` cancels the order, creates a new one and
relinks the take-profit of the bracket that named the old id; a stop that is only
software goes to `update_software_bracket`, and one that has fired meanwhile is taken for a
native order. The panel and the chart learn of all this by polling. React runs the
cleanup of an effect's old run before its new run, but a callback, a timer or an answer
keeps the values of the render it was made in.

## 2. Modules

| Module | Models | Uses |
|---|---|---|
| `Exchange` | the account behind ccxt (external): orders, position or spot balance, ledger lag, calls that raise | |
| `SmartChase` | the executor and `stop_smart_chase` | `Exchange` |
| `BracketExit` | the monitor in front of a chase, `update_software_bracket`, the stop endpoint, composed with the chase | `SmartChase` |
| `SharedStream` | the operations and tasks of a market stream | |
| `BotManager` | `start_bot` and `stop_bot`, composed with the streams | `SharedStream` |
| `ExitContract` | abstract: what the exit of a bracket promises; implemented by `SmartChase` (`KeepsContract`) | |
| `OrderEdit` | dragging an order or a stop on the chart, from the poll to the relink | |
| `TradeModal` | the manual trade panel over its polls and requests | |
| `LiveFeeds` | the connection life of 34 WebSocket feeds: one state machine, the traits of each feed | |
| `Candles` | the list of candles and what is read off one of them | |
| `SmartMoney`, `IctConcepts`, `Killzones`, `MarketBreaks`, `SessionStats` | one chart study each, as a loop over candles, with the definition it is checked against | `Candles` (`SessionStats`: `Killzones`, for the hours of a candle) |
| `ChartStudies` | the five studies over one list | those five |
| `MC*` | symmetry and small values for TLC | |
| `SmartChase_proofs` | theorems: types, orders left behind, armed brackets, the contract | `SmartChase` |
| `ChaseTally_proofs` | theorems: the lots a chase sells | `SmartChase_proofs`, `FiniteSums` |
| `BracketExit_proofs` | theorems: the monitor and the updates, and the chase's own carried over to the composition | `BracketExit`, `ChaseTally_proofs` |
| `BotManager_proofs`, `OrderEdit_proofs`, `LiveFeeds_proofs` | theorems about these | |
| `ChartStudies_proofs` | theorems: each study agrees with its definition | `ChartStudies`, `FiniteSums` |
| `FiniteSums` | lemmas: induction over the subsets of a finite set and over the numbers up to n, sums | |

Conventions. A coroutine is a record whose `pc` names the await it is suspended at;
an action resumes it and runs to its next await, so that everything the code does
in between is one step. A remote call is a pair of actions: the request is sent when
the coroutine suspends (`reply = "pending"`), a `Serve...` action takes effect on the
account and writes the answer, and the coroutine reads it later. In between, other
coroutines run and the market moves. A call that raises (`Fault`) may or may not
have had its effect. Definitions whose comment says "Faulty variant" or "Mutant" are not part
of the specification: they are the bugs against which each property is shown to
bite.

Abstractions. Quantities are whole lots. A price is the choice between the
branches it decides, so the target-price computation (executor l. 148-265) appears
as "the order can or cannot be placed, is or is not re-pegged". Notifications that
a coroutine awaits right after an outcome are folded into the step of that outcome,
except in `start_bot` and `stop_bot`, where they are the very awaits that matter.
Sleeps are awaits without an answer.

### Exchange
`orders` maps every order id ever used to status, quantity and filled lots. A futures
position shrinks with every exit sold; on spot, resting sells lock their lots and a
cancelled order's lots come back only when the ledger gets to it (`ReleaseLots`).
`CloseOutside` is the owner of the account selling by other means. `faults` counts
raised calls; properties are stated relative to it, because what the code promises
when a cancel raises differs from what it promises when all calls answer.

### SmartChase
`chase[b]` holds the locals of `execute_manual_smart_chase`; `active` is
`ACTIVE_SMART_CHASES`; `sl` is `ACTIVE_SOFTWARE_SL`; `stopping` is the cancel call of
a stop endpoint in flight. The actions follow the function from top to bottom: `Invoke`
(hand-off), `ScanReplied` and `CleanupReplied` (`_cleanup_other_orders`), `SizeReplied` and
`RecheckReplied` (initial clamp), `BookArrives`, `SyncReplied`, `PlaceReplied` with its
three rejections, `WatchEnds`, `StatusReplied`, `RepegReplied`, `RefillReplied`, the
circuit breaker, the final fallback and `Return`.

### BracketExit
`monitor[b]` is the loop of a bracket: wake, ticker, auto-breakeven, trigger, position
check before the trigger from the seventh tick on, take-profit and disaster checks, the
integrity check every `CheckEvery` ticks with its streak, and the cancels on the way out.
`edit[b][c]` is an `update_software_bracket` call of a user or of the monitor itself.

### ExitContract
Five phases of an exit (waiting, working, selling, cancelled, over), the attempts begun,
whether it was told to stop, the maker orders on the book, whether it has sold at market,
and whether a call has raised. Prices, quantities, reads, rejections and the three ways
into the market are gone. `SmartChase` instantiates it (`Contract`): the phase is read off
the `pc` and the result of the coroutine (`Phase`), the offers are its open maker orders.
The contract says: an attempt begins only when it has not been told to stop and the last
order is off the book; it turns to the market only then, and never back; and only an exit
that was told to stop and never turned to the market ends as cancelled.

### SharedStream and BotManager
Instances are numbered as they are made; a stream and a task carry the number of the
instance that made them, so that several stream objects of one key, and several loops
of one stream, can exist side by side, as they can in Python. `stop` of a stream comes
in the half before its await (flag, cancellation) and the half behind it (the handle is
forgotten, *whatever it names by then*). `launch[i]` and `stop[n]` are the start and
stop calls. KeyErrors of `del self.streams[...]` are modelled with the handlers that
catch them: an abort ends, a stop returns an error and leaves its bot active. Between
the stream and `bot_instance.stop()`, `stop_bot` calls `cancel_all_orders` of the
synchronous ccxt client, which suspends nobody.

### OrderEdit
`book`, `stop` and `tp` are the account and the bracket; `list` is what `useOpenOrders` holds,
`polls` its requests in flight, `lines` the drawn price lines. `StartDrag`, `Drop`, `Confirm` and
`Abandon` are the handlers of the chart, `CancelOld`, `CreateNew`, `LoseNew`, `RefuseNew` and `Finish` the
edit at the backend and its return. One edit may send several creates: REST after a WebSocket create
that raised (l. 1969-1982), the next tier of a conditional order, GTC after a dead post-only order.
Any of them may have placed its order before it raised (`LoseNew`), and another one may follow or the edit
may end with the exception. The confirmation can be abandoned by Escape while the
request is under way, because the key handler does not look at `isModifyingOrder` (l. 2068).
`missed` counts the cancels that reached no open order: `_cancel_futures_order_universal` swallows
both failures and the create follows all the same. `unheard` counts the orders placed by a create that
raised; `unlinked` holds the take-profits whose edit ended with an exception after its cancel, because
nothing is relinked then, whether the new order rests or not. When the stop fires the entry is deleted
and `tp` means nothing any more.

### TradeModal
An amount is the pair it was computed from or typed for, which is all that the questions
about it tell apart. Callbacks carry the pair of the render they were made in: the polls
(`PollOf`), the balance fetch (`AskOf`), the staggered refreshes (`later`). In `Switch` the reset of
the amount (l. 747-752) and the percentage effect (l. 1207-1235) run in one commit, the effect last and still
with the old pair's balance, so that the amount may survive the switch.

### LiveFeeds
The front end has no common hook for its WebSockets; every feed is written by hand. Its
variations are a record of traits (does `connect` check the subscription, is the old socket
silenced, where is the timer kept, what does cleanup do to a connecting socket, ...), and
one state machine interprets them. A behaviour picks a feed in `Init` and keeps it. `Rerun` is a
change of the key (cleanup and new run in one commit), `Leave` the unmount or an emptied key,
`Enter` its return. A feed without a key reruns only once, as StrictMode's second mount does.

### The chart studies
`candles` is given bar by bar; a study is one pass over it, `...Bar(b)` being the body of its loop,
with the lists it keeps as variables. What a loop leaves is compared with a definition
over all candles up to `bar`, which does not look at the loop's lists.

The reference definitions follow the code's arithmetic where it differs from the indicator it
is named after, because the question is whether the loop is right, not the indicator. Such
differences are: `getLeg` (smartMoneyConcepts.ts l. 246, "Mirrors Pine's `leg(size)` function")
returns 0 where Pine remembers the last leg, so that every bullish leg is followed by a
spurious pivot high; the ATR is 0 for lists shorter than 200 candles, which makes every bar
"volatile", and `atrArr[200]` reads ahead; the automatic gap threshold has no effect; in the ICT
study a bar that is both a top and a bottom becomes an "equal high" with itself, a balanced price
range is added at every bar while it holds, and silver bullets are keyed by the day of the
month, so that months merge.

## 3. Runs

| Run | Instance | Shows |
|---|---|---|
| `chase_single` | 1 futures bracket, 2 of 3 lots, 3 attempts, 1 failing call | orders left behind are owed to failed calls, an unstopped chase really exits, a "cancelled" chase never swept, the chase implements `ExitContract` and returns |
| `chase_pair` | 2 brackets of 1 lot on one position, no failing call | no order left behind, no overselling, armed brackets keep their orders, while two chases clean up around each other |
| `chase_spot` | 1 spot bracket, 3 attempts, 2 failing calls, lagging ledger | the same accounting with insufficient-balance rejections and re-reads |
| `chase_interval` | timer mode | **violation** of `NoForgottenOrder` |
| `exit_watch` | 1 bracket, monitor, breakeven, one user edit, stop endpoint, chase, 1 failing call | never disarmed silently, recorded stop rests, orphans accounted, watch ends |
| `exit_stop` | cancel during the ticker | **violation** of `CancelledIsNotChased` |
| `bots_shared` | 2 bots on 1 stream, 3 starts, 3 stops | subscribers are served, no stray instance, memory matches database, stops return |
| `order_edit` | 1 bracket with a take-profit and a stop, 2 pairs, 2 prices, 2 edits, 1 poll in flight, 3 orders, 1 failed request or lost create, 1 change of pair | no order that no swallowed cancel or lost create explains, the take-profit id follows, the chart catches up |
| `trade_modal` | a spot and a futures pair, 1 order and the bracket that names it, 1 event, 1 change of pair, 1 order sent | balance and lists catch up |
| `modal_size` | the same | **violation** of `AmountOfThisPair` |
| `feeds` | 34 feeds, 2 keys, 3 effect runs, 2 dropped connections | nothing foreign shown, feeds come back, nothing left open |
| `charts` | lists of up to 8 candles, the first 4 of 2 kinds, the later ones of 7 kinds | the studies' loops agree with their definitions |

Every property of a passing run has a mutant of the code (listed in `PROJECT.json`)
that TLC finds to violate it.

The passing runs explore between 50 thousand and 1.6 million distinct states, each in full.

Bounds and why they are enough. *Attempts*: three give a first, a middle and a last
attempt, the last being the one behind which the final fallback stands; `chase_pair` and
the runs with the monitor have one, because their questions are about two coroutines at one
order, and the proof of `NothingForgotten` covers any number. *Lots*: an amount of two
with a minimum of one has nothing, part and all of it filled, and a position of three
is larger than the bracket, so overselling would show. *Faults*: one failing call
reaches every handler; two on spot let an error follow an error. *Brackets*: the
only coupling of two chases is the cleanup's scan and the shared position, both
pairwise. *`CheckEvery`* is 2 where the code has 6: the code compares the tick with 6 and 12 and
takes it modulo 6, the model compares it with one and two periods and takes it modulo the period,
and `Ticked` keeps only the remainder beyond two periods. *Revisions and edits*: three stops of a
bracket let a breakeven and a user's edit overlap. *Bots*: two bots on one key with
three starts have a bot restarted while another one keeps or drops the stream; keys
do not interact, so one is enough. `MaxStarts` also names the instances, hence is
the bound the most states hang on.

`StopsOverlap` states the one assumption of `bots_shared`: a bot is not stopped while
a stop of it is in flight. The API does not ensure it; without it `NoStrayInstance` fails
(section 6). The other properties do not need it, as the proofs show.

*Edits*: the second edit is the one that can name an order the first has replaced; a third
would repeat the situation, and `EditsKeepExposure` covers any number. *Orders*: three are the
take-profit and one for each edit, or two for one edit whose first create was lost. *Prices*: two, on the two
sides of the market as it moves. *Polls*: one in flight; answers that overtake each other
can only put an older list in place, which the next poll replaces. *The panel*: one event means
an order that comes or goes, or a poll or balance fetch that fails; one order sent leaves
one staggered refresh (two in the code, which run one after the other). *Feeds*: three runs
are the one left, the one looked at and the one returned to; two drops hit a socket and
its successor. *Candles*: the look-back lengths are scaled to one or two bars, so that
eight candles hold a pivot, its break, a block, its mitigation and a second trend; a break of structure
that follows a line filtered out of the second study takes nine, and is left to the theorem.

Deadlock is checked in all runs but `charts` (the list of candles ends) and `feeds` (a feed that
has been left for good has nothing to do); the explicit idle steps (`AllReturned`, `AllLeft`,
`Quiet`) stand for a system in which every coroutine has returned.

## 4. Fairness

`WF(Coroutine)`, `WF(MonitorStep)`, `WF(EditStep)`, `WF(LaunchStep)` and `WF(StopStep)`: asyncio
resumes every coroutine whose await is over. `WF(Serve)`, `WF(ServeMonitor)`: every ccxt
call ends in an answer or an exception, by the client's timeout. `WF(TaskStep)`: a
cancelled socket task leaves at its next await. Nothing is assumed of the market
(orders need never fill), of users (they need never stop anything) or of the
success of calls. No strong fairness is used.

In the front end, the interval timers fire (the tab ends up visible: a hidden tab only
delays them), and a request is answered or fails: `WF(StartPoll)`, `WF(Serve)`, `WF(Answer)`,
`WF(Backend)` in `OrderEdit`; `WF(PollTick)`, `WF(BalanceTick)`, `WF(BalanceArrives \/ BalanceFails)`,
`WF(Answers)` in `TradeModal`; in `LiveFeeds` the event loop runs every timer and callback and a
connection attempt the network does not refuse succeeds. Nothing is assumed of the
user's hand, of switches or of dropped connections; the properties speak of a user who lets
go (`<>[](~pressed /\ ~dialog)`) or a panel left open.

## 5. What is proved

All proofs are for arbitrary sets, amounts and bounds; the assumptions are the named
ASSUMEs of the modules (naturals, positive amounts, distinct null values, finitely many editors of a bracket).

**SmartChase.** `TypeCorrect` : `Spec => []TypeOK`. TypeOK is not inductive: an order id is
formed from the attempt number, and lots are sold by a quantity that is -1 for an
unknown balance. `TypeInv` adds, per coroutine, that the attempt is within bounds, that
`current` is the id of this attempt wherever it is looked up, and that the quantity is a
natural number where it is sold. The proof has one lemma per answer handler, over
lemmas on what each effect of `Exchange` does.

`NothingForgotten` and `ForgottenAreOwed` : with `ChaseMode = "dynamic_bbo"`, `Spec => []NoForgottenOrder` and
`Spec => []ForgottenWithinFaults`, for any number of brackets. The inductive invariant is one
inequality over all brackets, `HeldWithinFaults`: the open maker orders that are not the order of the
current attempt of a coroutine standing at an await that still attends to it (`UnheldOrders`) are at
most as many as the calls that have raised. Every handler lets go of at most its own order, and does so
with an order that still rests only where a call has raised in this very step or was raised by
the answer it reads. The assumption on the mode is needed: the timer mode violates the
property (`chase_interval`).

`ArmedAreSpared` : `Spec => ArmedOrdersSurvive`, an action property, in either mode and whatever
calls raise. It speaks of one cancel, but its reason lies several awaits before: `ArmedSpared` says
that the ids a cleanup read from the registry before its scan cover those of every bracket still armed,
because entries only ever leave the registry, and that whatever a chase names otherwise is its own.
With the monitor in front this is no longer so: an update cancels the stop of its own armed bracket, and the
stop it puts in its place during the scan of another chase is in no protected set (a hazard in
`PROJECT.json`). The property does not carry over to `ExitSpec`.

**The lots of a chase.** `SellsNoMore` (`[]SoldWithinAmount`) and `ChaseExits` (`[]UnstoppedChaseExits`), in
`dynamic_bbo` mode, for any amounts and numbers of attempts. A fill is taken off `remaining` two or three
awaits after it happened, so neither `remaining` nor the sum of the fills is right at every await.
`Tally` keeps the books: at each await the lots left and the lots sold make at most the amount,
the fill not yet counted standing on one side only (`Carries`, `SoldOut`); on futures they also make no
less than the amount, unless the position itself is down to what is left. Further parts say what an
answer in hand is worth (a read position is no larger than the real one, a refill is read only
when its order is done). The sums over attempts are those of the community modules, defined by recursion
over subsets; the library states induction with an operator as a parameter, which the
provers cannot instantiate, so `FiniteSums` derives an induction over *sets* of subsets and of numbers from
the well-foundedness facts of the library and proves from it how such a sum changes with one summand.

**The exit contract.** `ChaseKeepsContract` : with `ChaseMode = "dynamic_bbo"`, `Spec => KeepsContract`, a
refinement: the initial states map to initial states of `ExitContract`, and under `TypeInv` and
`OrdersHeld` each action of the chase, of the exchange and of a stop maps to one of its actions or to
a stutter. There is one lemma per handler; the ones that matter are those that leave the
watch, which need `OrdersHeld` to know that no offer is left when the next attempt begins.
`CancelledIsUnswept` (`[]CancelledNeverSwept`) and `StopIsHeeded` (`StopEndsAttempts`: a chase told to stop
begins no attempt) assume nothing of the mode: both hold in `dynamic_bbo` and in timer mode and whatever
calls raise. They rest on the lemma `NextHeeds`, which says of every step what it may do to the
cancelled flag, the attempts and what was swept (`Heeds`).

**BracketExit.** `ExitTypes` (`[]ExitTypeOK`) and `NothingDisarms` (`[]NoSilentDisarm`), for any number of
brackets and editors and whatever calls raise. `ExitInv` adds to the types, per bracket: every id that
the entry, the monitor and the updates hold is its take-profit or one of its stops already sent; a
stop not sent yet has no trace at the exchange; an id is left for each update without an answer; the
tick is below the point where it wraps; and a monitor that has begun to believe its position
closed is right (`Gone`), which no later step undoes. `WatchedStopRests` : for a single bracket,
`ExitSpec => []RecordedStopRests`. Its invariant `RestInv` follows a stop from its placement to the answer
that records it: meanwhile it rests and nobody else can know it - not the entry, not the monitor's
call, no other update - so no overlapping update cancels it before it is the recorded one. The
assumption of a single bracket is needed: the scan of a chase of another bracket on the symbol
cancels whatever was not in the protected set it took before (a hazard in `PROJECT.json`).

`OrphansAreOwed` (`[]OrphansAccounted`), for any brackets and editors and whatever calls raise: the disaster
stops that rest unknown to everybody are at most the calls raised and the users' updates begun. The
bound itself is not inductive, because a stop is lost several steps after its cause, and two
updates that overlap pass the loss on: the stop one of them records is lost when the monitor's own
update, or its way out, overwrites it. `OwedInv` therefore counts, next to the stops nobody secures,
the updates of users in flight and one debt per bracket, which stands while what the monitor is about
to overwrite or to drop is not the stop it knows; every step takes an item away, leaves the count, or
adds one against a call that raised or an update begun. (The model lets the monitor edit under the name
"monitor", so ExitAssumption keeps that name out of the users' `Editors`.)

`WatchedForgetNothing` and `WatchedSellWithin` carry the results about the chase over to the composition:
`ExitSpec => []` of `NoForgottenOrder`, `ForgottenWithinFaults`, `SoldWithinAmount` and `UnstoppedChaseExits`. `ExitSpec`
does not refine `Spec` (its monitors and updates touch the account), but each of its steps is a step of
`SmartChase` or leaves every coroutine, its maker orders and what has been sold alone (`Aside`, lemma
`ExitStepKinds`), and such a step keeps `HeldWithinFaults` and `Tally`.

**OrderEdit.** `OrderEditTypes` (`[]OrderEditTypeOK`), `EditsKeepExposure` (`[]ExposureWithinMisses`) and
`EditsKeepTakeProfit` (`[]LinkFollows`), for any pairs, prices, polls and number of edits. TypeInv adds to the
types that a pressed button means a dragged line with nothing confirmed or sent, and that what is
confirmed or sent names a line and a price (needed because a modification without an order is a
value of its type too); `OrderEditTypes` says no more than that. Under TypeInv both properties are
inductive: `NextEffect` sorts the steps into the cancel, the create that is answered, the create that is lost and those that leave the executable orders and
the bracket's link alone, an edit that ends with an exception among them. The
exposure, a cardinality, grows in a create only; a lost one is paid for by `unheard`, and a cancel that reached
no order by `missed`, so that `EditsKeepExposure` bounds the orders that can execute by one more than these two.
`EditsKeepTakeProfit` excepts by name the take-profit whose edit ended with an exception: the code leaves
its id in the bracket (l. 2040-2057).

**LiveFeeds.** `FeedsTypes` (`[]FeedsTypeOK`) and `NothingForeign` (`[]NoForeignFeed`), for any keys,
effect runs and dropped connections and for each of the 34 feeds. TypeInv adds to the types that there is a
current run and that its closures captured the key the user looks at. A feed that asks on every
message whether its run is current needs no more. For the others `Sole` is inductive: nothing is
fetching; a socket that connects or is open is the last one opened, the current run's, the one in the
ref, and no timer is pending beside it; a closing one is not the current run's and is muted where
it would reconnect; and a pending timer is one that cleanup clears. `KeepsOne` collects the traits
this needs, and the lemma `Traits` shows that every feed with a key that does not ask has them.

**BotManager.** `BotTypeCorrect`, `AlwaysServed` (`[]SubscribersAreServed`) and `DatabaseAgrees`
(`[]MemoryMatchesDatabase`) hold with overlapping stops included. The invariant `BotInv`
adds to the types: an instance that was launched has a bot and a stream, and a number
not used yet leaves no trace (`Made`); a stream is up exactly while it has subscribers,
then on a live loop of its own, and its handle names only its own loops (`Served`, needed
because a cancellation must not hit the loop of another stream); the database says
active exactly when memory has an instance, not a lock (`Agreed`).
`NothingStrays` : assuming `~StopsOverlap`, `BotSpec => []NoStrayInstance`. Its invariant `StrayInv`
says of a stop in flight that the registry still has the instance it is stopping, that
past its stream the instance has stopped trading, and that no other stop in flight is
about the same bot: then the deletion at the end of a stop removes the right one.

**The chart studies.** Eight theorems of `ChartStudies_proofs`, for any candles, any settings and lists of any
length: `FairValueGapsAreOpen`, `OrderBlocksAreOpen`, `StructureIsOfTheList`, `ZonesEndOnce`, `LinesAreFirstPassages`,
`SessionsAreRuns`, `MsbZonesAreUnbroken` and `SessionLineIsLeastSquares`. The only assumption on a candle is
`ShapesAreCandles` (whole prices, open and close within low and high). `ChartInv` says that all
loops have been over the same n candles, and of each study what its lists are in terms of these n. A
candle that arrives changes none of them (`...Fed`), a turn of the loop takes the statement from n
to n + 1 (`...Turned`), and at n = `bar` it is the property (`...Say`). What is needed on the way:
that splicing a list at a set of indices, last one first, leaves exactly the others in their order
(`SplicedLeaves`), whatever the array the code walks; that the first candle of a set, looked for in one
candle more, is the one found before or else the new one (`FirstOfStep`); that a pivot is
confirmed only its length later, so that no candle before can have crossed it; that, for the structure
lines, the swings listed are those confirmed so far (`Listed`), the trend is the side of the last candle that
passed a level, whether it drew a line or not (`Turned`), and a line is missing only where an earlier one has
its level and side (`LinesOf`); and, for
the session line, that the two running sums give the sums over the session's candles (`SumsGrow`) and
that the ends computed from them make the deviations, plain and weighted by position, sum
to zero (`DeviationSums`, `LineFits`). Not all of what a study keeps is in the invariant: equal highs and lows,
pools' partners, balanced ranges and silver bullets are in the model and not in a property.

**Only model-checked.** The liveness properties: `ChaseReturns`, `StoppedMonitorReturns`, `ClosedPositionEndsWatch`,
`StopReturns`, `LinesCatchUp`, `BalanceCatchesUp`, `ListsCatchUp` (all that is asked of `TradeModal`), `FeedComesBack` and
`NothingIsLeftOpen`: fairness and ENABLED are beyond the prover. Not proved, because not true, are
`ArmedOrdersSurvive` for `ExitSpec` and `RecordedStopRests` for several brackets. The second TLC finds
violated within 14 states (`MCBracketExit`; two brackets, one update, `MaxFaults = 0`): the chase of one bracket
takes the protected set, the update of the other cancels its stop and places the next, the scan
sees the new one, and the cleanup cancels it after the entry has recorded it.

## 6. Disagreements found

Findings in `PROJECT.json`, each with the run that shows it:

1. Timer mode raises UnboundLocalError at every attempt and leaves its order resting (executor l. 1029): `chase_interval`.
2. A cancelled bracket may still be handed to the chase (bracket service l. 2286): `exit_stop`.
3. An amount computed from the balance of the pair before may go out on the new pair: the effect on the percentage runs after the reset in the commit of the switch and fills the amount again (ManualTradeModal.tsx l. 1207-1235), and so does a balance that answers late (l. 774): `modal_size`.

The modules state more promises that the code breaks. They have no run of their own; each is
found by TLC as an INVARIANT or PROPERTY with the constants given:

4. `UnlockedBalanceIsChased` (`MCSmartChase`; `Spec`, one spot bracket with Holding = Amount = 2, one attempt, no fault): the re-reads for a lagging spot ledger clamp against zero and cannot succeed (executor l. 573, 581).
5. `StopPreventsSweep` (the same on futures): a stopped chase may still send its market sweep (executor l. 746), although it promises to abort "immediately" (l. 281).
6. `NoOrphanStop` (`MCBracketExit`; the constants of `exit_watch` with MaxFaults = 0): a stop update that outlives its entry leaves a disaster stop nobody knows (bracket service l. 769).
7. `NoStrayInstance` (`MCBotManager`; one bot, two starts, two stops, StopsOverlap = TRUE): overlapping stops delete a newly started instance from the registry (bot manager l. 611).
8. `SingleStream` (`MCBotManager`; two bots, four starts, three stops): an aborted start deletes a stream that has just been subscribed to (bot manager l. 163).
9. `StaleAnswersDropped` (`MCOrderEdit`; the constants of `order_edit` with two polls in flight): an answer of before a change of pair is put on the list of the new pair, although useOpenOrders.ts l. 41 says "skip stale fetches after unmount or dependency change"; `isMountedRef` is true again by then.
10. The exceptions named in `NoForeignFeed`, `FeedComesBack` and `NothingIsLeftOpen`: taken out, TLC finds the property violated by each of the feeds named. `Market`, `FloatingTVChart`, `useMLSetupEvents` ("Reconnect after 5s if still mounted", l. 49), `useIcebergEvents`, `useGodModeWebsocket` and `useBinanceMarketData` reconnect after their cleanup; `BotLogViewer`, `ForexPairs`, `RLTrainingVisualizer`, `Dashboard` and `useCorrelationSocket` leave a connecting socket open; `useBotLogs` and `useWallHunterStatus` clear no reconnect timer; `useSystemAlerts` connects twice under StrictMode.

## 7. Not modelled, and why

*Front end.* By lines the repository is mostly front end, and most of that is markup: of the pages
and components that hold its state, the modelled parts are the hooks, handlers and loops; the
rest are forms, tables and chart drawing, whose state is the current value of an input and whose
only operation is one request. A model of them would restate assignments. This is why the
mapped share of the TypeScript lines stays small (about one line in twenty). The colour, label and layout
parts of the modelled files are left out as well, as are the formulas of `indicators.ts` that are a single
expression per bar.

*Backend.* Price formulas' arithmetic, strategies, backtests, ML and analytics (numeric, no shared
protocol state). In `BotManager` the Wall
Hunter and cascading branches, which use the same lock without a stream, `stop_service`, and
calls that only forward to an instance. In `SmartChase` an unlimited
number of attempts (`max_attempts = 0`), for which the chase need not return. In `SharedStream` the ticks and the bare `except`
around one exchange's ping, which can swallow a cancellation. The entry side of the
bracket service (`monitor_and_execute_bracket`, `_spawn_bracket_for_amount`), the smart peg entry executor, which
repeats the chase for entries, and the live engine, whose two ways of booking a fill are
listed as a hazard: they are the next candidates for a module, in this order.

*Abstractions inside modelled parts.* `OrderEdit`: an order fills at once; touch and mouse share their
handlers; the ghost line of a drag. `TradeModal`: prices, leverage, the attached take-profit and stop and
the iceberg inputs appear only as refusals; orders and brackets listed for one API key. `LiveFeeds`: what a
feed makes of a message. The chart studies: alerts, the 'Atr' filter of order blocks, historical display modes.
