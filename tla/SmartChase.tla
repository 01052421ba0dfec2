----------------------------- MODULE SmartChase -----------------------------
(***************************************************************************)
(* execute_manual_smart_chase and stop_smart_chase of                      *)
(* src/backend/app/services/manual_smart_chase_executor.py: the coroutine  *)
(* that walks a bracket out of its position with post-only maker orders,   *)
(* re-pegging them until they fill, and that sweeps at market behind a     *)
(* circuit breaker or after its last attempt.                              *)
(*                                                                         *)
(* asyncio runs one coroutine at a time between two awaits, so a step of   *)
(* this module is what happens between two awaits of one coroutine, and    *)
(* `pc` names the await it is suspended at.  A remote call is three steps: *)
(* the coroutine suspends with reply = "pending", the exchange serves the  *)
(* call, the coroutine resumes with the reply.                             *)
(***************************************************************************)
EXTENDS Exchange, FiniteSetsExt

CONSTANT ChaseMode   \* chase_mode of the brackets

ASSUME ChaseModeAssumption == ChaseMode \in {"dynamic_bbo", "interval"}

VARIABLES
  chase,     \* per bracket, the locals of its execute_manual_smart_chase
  active,    \* the keys of ACTIVE_SMART_CHASES
  sl,        \* ACTIVE_SOFTWARE_SL, per bracket
  stopping   \* per bracket, the order a stop_smart_chase call is cancelling

chaseVars == <<chase, active, sl, stopping>>
vars == <<exchangeVars, chaseVars>>

ASSUME SpotIsCovered == Futures \/ Holding >= Amount * Cardinality(Brackets)

\* The awaits of the coroutine that are remote calls, and the ones that are not.
ReadPoints == {"size", "recheck1", "recheck2", "sync", "resync", "roPosition",
               "isync", "position", "breakerBalance", "finalBalance"}
PlacePoints == {"place", "replace"}
MarketPoints == {"breaker", "final"}
CancelPoints == {"userCancel", "repeg"}
FetchPoints == {"status", "refill"}
CallPoints == ReadPoints \cup PlacePoints \cup MarketPoints \cup CancelPoints
                \cup FetchPoints \cup {"scan", "cleanup"}
Points == CallPoints \cup {"idle", "book", "watch", "pause", "done"}

Replies == {"pending", "ok", "error", "postonly", "reduceonly", "insufficient",
            "open", "closed"}
Outcomes == {"None", "cancelled", "filled", "closed", "prevented", "dust",
             "aborted", "swept"}

Chase == [pc : Points, reply : Replies,
          num : Int,                 \* quantity the call in flight carries or returned
          remaining : Nat, attempts : Nat, rejects : Nat,
          cancel : BOOLEAN,          \* cancel_event.is_set()
          current : OrderIds \cup {NoOrder},   \* order_id and current_order_id
          linked : SUBSET OrderIds,  \* tp_order_id and disaster_sl_order_id
          targets : SUBSET OrderIds, \* what the cleanup cancels
          protected : SUBSET OrderIds,
          why : {"start", "reduceonly", "insufficient"},
          final : Outcomes]

SoftwareSL == [live : BOOLEAN, cancelled : BOOLEAN,
               tp : OrderIds \cup {NoOrder}, disaster : OrderIds \cup {NoOrder}]

TypeOK ==
  /\ ExchangeTypeOK
  /\ chase \in [Brackets -> Chase]
  /\ active \in SUBSET Brackets
  /\ sl \in [Brackets -> SoftwareSL]
  /\ stopping \in [Brackets -> OrderIds \cup {NoOrder}]

NotStarted ==
  [pc |-> "idle", reply |-> "ok", num |-> 0, remaining |-> 0, attempts |-> 0,
   rejects |-> 0, cancel |-> FALSE, current |-> NoOrder, linked |-> {},
   targets |-> {}, protected |-> {}, why |-> "start", final |-> "None"]

NoEntry == [live |-> FALSE, cancelled |-> FALSE, tp |-> NoOrder, disaster |-> NoOrder]

\* Every bracket is armed: its TP may rest, and on futures its disaster stop may.
Init ==
  /\ \E tps \in SUBSET Brackets, disasters \in SUBSET {b \in Brackets : Futures} :
       LET resting == {Tp(b) : b \in tps} \cup {Disaster(b, 0) : b \in disasters}
       IN  /\ orders = [o \in OrderIds |->
                          [status |-> IF o \in resting THEN "open" ELSE "none",
                           qty |-> IF o \in resting THEN Amount ELSE 0,
                           filled |-> 0]]
           /\ sl = [b \in Brackets |->
                      [live |-> TRUE, cancelled |-> FALSE,
                       tp |-> IF b \in tps THEN Tp(b) ELSE NoOrder,
                       disaster |-> IF b \in disasters THEN Disaster(b, 0) ELSE NoOrder]]
           /\ locked = IF Futures THEN 0 ELSE Amount * Cardinality(tps)
  /\ holding = Holding
  /\ lagging = {}
  /\ swept = [b \in Brackets |-> 0]
  /\ faults = 0
  /\ chase = [b \in Brackets |-> NotStarted]
  /\ active = {}
  /\ stopping = [b \in Brackets |-> NoOrder]

-----------------------------------------------------------------------------
(* Fragments of the coroutine that its steps share.  Each maps the locals  *)
(* to the locals with which it suspends or returns.                        *)

Await(r, point) == [r EXCEPT !.pc = point, !.reply = "pending", !.num = 0]

\* The locals go; what the outside can tell of the chase stays.
Return(r, outcome) ==
  [NotStarted EXCEPT !.pc = "done", !.final = outcome,
                     !.cancel = r.cancel, !.attempts = r.attempts]

\* 5. the fallback behind the loop: sweep what is left, spot reads its balance first.
FinalSweep(r) ==
  IF r.remaining = 0 THEN Return(r, "None")
  ELSE IF Futures THEN [Await(r, "final") EXCEPT !.num = r.remaining]
  ELSE Await(r, "finalBalance")

\* Faulty variant: the head of the loop does not look at cancel_event.
LoopTopDeaf(r) ==
  IF r.attempts >= MaxAttempts THEN FinalSweep([r EXCEPT !.current = NoOrder])
  ELSE [Await(r, "book") EXCEPT !.current = NoOrder, !.attempts = @ + 1]

\* The head of the while loop, up to the await of the order book.
LoopTop(r) ==
  LET top == [r EXCEPT !.current = NoOrder]
  IN  IF r.cancel THEN Return(top, "cancelled")
      ELSE IF r.attempts >= MaxAttempts THEN FinalSweep(top)
      ELSE [Await(top, "book") EXCEPT !.attempts = @ + 1]

\* Faulty variant: the -1.0 of a failed position read is taken for a size.
ClampedUnguarded(r) == [r EXCEPT !.remaining = Lesser(@, r.num)]

\* _sync_and_clamp_amount and the re-clamps on a live position; num = -1 is a failed read.
Clamped(r) ==
  [r EXCEPT !.remaining = IF r.num = -1 THEN @
                          ELSE IF r.num < 0 THEN 0 ELSE Lesser(@, r.num)]

\* asyncio.sleep, then `continue`.
Pause(r) == [r EXCEPT !.pc = "pause", !.reply = "ok", !.num = 0]

\* No resting order came out of the attempt: futures check the position first.
NotPlaced(r) == IF Futures THEN Await(r, "position") ELSE Pause(r)

Watch(r, b) == [r EXCEPT !.pc = "watch", !.reply = "ok", !.current = Maker(b, r.attempts)]

\* Faulty variants: a partial fill counts as the whole order, or not at all.
AfterRepegAllFilled(r, filled) == IF filled > 0 THEN Return(r, "filled") ELSE LoopTop(r)
AfterRepegUncounted(r, filled) == LoopTop(r)

\* A partial fill of the order just cancelled is taken off, dust ends the chase.
AfterRepeg(r, filled) ==
  LET left == [r EXCEPT !.remaining = IF filled < @ THEN @ - filled ELSE 0]
  IN  IF filled > 0 /\ left.remaining < MinQty THEN Return(left, "filled")
      ELSE LoopTop(left)

Linked(entry) == {entry.tp, entry.disaster} \ {NoOrder}

\* Faulty variant: only the TPs of the other brackets are protected.
ProtectedTpsOnly(b) ==
  {sl[c].tp : c \in {d \in Brackets \ {b} : sl[d].live /\ ~sl[d].cancelled}} \ {NoOrder}

\* TP and disaster stop ids of the other live brackets, read before the scan awaits.
ProtectedFrom(b) ==
  UNION {Linked(sl[c]) : c \in {d \in Brackets \ {b} : sl[d].live /\ ~sl[d].cancelled}}

\* _cleanup_other_orders: own ids are cancelled; the open orders are scanned too
\* when asked to, or when there is no own id.
Cleanup(r, b, reason) ==
  LET s == [r EXCEPT !.why = reason, !.targets = r.linked]
  IN  IF reason # "start" \/ r.linked = {}
      THEN [Await(s, "scan") EXCEPT !.protected = ProtectedFrom(b)]
      ELSE Await(s, "cleanup")

Resume(b, r) ==
  /\ chase' = [chase EXCEPT ![b] = r]
  /\ active' = IF r.pc = "done" THEN active \ {b} ELSE active
  /\ UNCHANGED <<sl, stopping, exchangeVars>>

Replied(b, point) == chase[b].pc = point /\ chase[b].reply # "pending"

-----------------------------------------------------------------------------
(* The coroutine.                                                          *)

\* The caller's hand-off: the monitor takes the latest ids out of its registry
\* entry, deletes the entry and calls execute_manual_smart_chase.
Invoke(b) ==
  /\ sl[b].live
  /\ chase[b].pc = "idle"
  /\ LET r == [chase[b] EXCEPT !.linked = Linked(sl[b]), !.remaining = Amount]
     IN  chase' = [chase EXCEPT ![b] = Cleanup(r, b, "start")]
  /\ sl' = [sl EXCEPT ![b] = NoEntry]
  /\ UNCHANGED <<active, stopping, exchangeVars>>

ScanReplied(b) == Replied(b, "scan") /\ Resume(b, Await(chase[b], "cleanup"))

CleanupReplied(b) ==
  /\ Replied(b, "cleanup")
  /\ LET r == [chase[b] EXCEPT !.linked = {}, !.targets = {}, !.protected = {}]
     IN  Resume(b, CASE r.why = "start" -> Await(r, "size")
                     [] r.why = "reduceonly" -> Await(r, "roPosition")
                     [] r.why = "insufficient" -> Await(r, "isync"))

\* Registration in ACTIVE_SMART_CHASES, then the first pass of the loop.
Register(b, r) ==
  /\ chase' = [chase EXCEPT ![b] = LoopTop(r)]
  /\ active' = active \cup {b}
  /\ UNCHANGED <<sl, stopping, exchangeVars>>

\* The early returns in front of the registration, or the registration.
Sized(b, r) ==
  CASE Futures /\ r.remaining = 0 -> Resume(b, Return(r, "closed"))
    [] r.remaining >= MinQty -> Register(b, r)
    [] OTHER -> Resume(b, Return(r, "prevented"))

\* Step 2.  On spot a zero balance is read twice more, in case the ledger lags.
SizeReplied(b) ==
  /\ Replied(b, "size")
  /\ LET r == Clamped(chase[b])
     IN  IF ~Futures /\ r.remaining = 0
         THEN Resume(b, Await(r, "recheck1"))
         ELSE Sized(b, r)

RecheckReplied(b) ==
  \/ /\ Replied(b, "recheck1")
     /\ LET r == Clamped(chase[b])
        IN  IF r.remaining > 0 THEN Sized(b, r) ELSE Resume(b, Await(r, "recheck2"))
  \/ Replied(b, "recheck2") /\ Sized(b, Clamped(chase[b]))

BookArrives(b) == chase[b].pc = "book" /\ Resume(b, Await(chase[b], "sync"))

\* The clamp, the circuit breaker (the book decides), or the maker order.
SyncReplied(b) ==
  /\ Replied(b, "sync")
  /\ LET r == Clamped(chase[b])
     IN  IF r.remaining < MinQty
         THEN Resume(b, Return(r, "dust"))
         ELSE \/ Resume(b, Await(r, "place"))
              \/ Resume(b, IF Futures
                           THEN [Await(r, "breaker") EXCEPT !.num = r.remaining]
                           ELSE Await(r, "breakerBalance"))

\* The rest of the attempt depends on how the exchange took the post-only order.
PlaceReplied(b) ==
  /\ Replied(b, "place")
  /\ LET r == chase[b]
     IN  CASE r.reply = "ok" -> Resume(b, Watch(r, b))
           [] r.reply = "postonly" -> \/ Resume(b, Await(r, "resync"))
                                      \/ Resume(b, NotPlaced(r))
           [] r.reply = "reduceonly" ->
                Resume(b, Cleanup([r EXCEPT !.rejects = @ + 1], b, "reduceonly"))
           [] r.reply = "insufficient" -> Resume(b, Cleanup(r, b, "insufficient"))
           [] OTHER -> Resume(b, NotPlaced(r))

\* The retry one tick away, unless the adjusted order is dust or past the breaker.
ResyncReplied(b) ==
  /\ Replied(b, "resync")
  /\ LET r == Clamped(chase[b])
     IN  \/ r.remaining >= MinQty /\ Resume(b, Await(r, "replace"))
         \/ Resume(b, NotPlaced(r))

ReplaceReplied(b) ==
  /\ Replied(b, "replace")
  /\ Resume(b, IF chase[b].reply = "ok" THEN Watch(chase[b], b) ELSE NotPlaced(chase[b]))

\* A zero position ends the chase; the third rejection gives up.
RoPositionReplied(b) ==
  /\ Replied(b, "roPosition")
  /\ LET r == Clamped(chase[b])
     IN  Resume(b, IF r.num = 0 THEN Return(r, "closed")
                   ELSE IF r.rejects >= 3 THEN Return(r, "aborted")
                   ELSE Pause(r))

IsyncReplied(b) == Replied(b, "isync") /\ Resume(b, LoopTop(Clamped(chase[b])))

PositionReplied(b) ==
  /\ Replied(b, "position")
  /\ Resume(b, IF chase[b].num = 0 THEN Return(chase[b], "closed")
               ELSE Pause(Clamped(chase[b])))

PauseEnds(b) == chase[b].pc = "pause" /\ Resume(b, LoopTop(chase[b]))

\* Faulty variants: the watch leaves the cancel to stop_smart_chase; it has no time
\* limit and ends only with a fill.
WatchCancelledOnly(b) ==
  chase[b].pc = "watch" /\ chase[b].cancel /\ Resume(b, Return(chase[b], "cancelled"))
WatchEndsOnFill(b) ==
  /\ chase[b].pc = "watch" /\ orders[chase[b].current].status = "closed"
  /\ Resume(b, Await(chase[b], "status"))

\* The order rests.  The watch of either mode notices cancel_event, or it ends for a
\* fill, a timeout, a re-peg or the breaker without looking at the event again.  Only
\* the dynamic_bbo branch assigns latest_order_chk, so in interval mode the check of
\* the order raises UnboundLocalError (l. 1029), which is logged and slept off.
WatchCancelled(b) ==
  chase[b].pc = "watch" /\ chase[b].cancel /\ Resume(b, Await(chase[b], "userCancel"))
WatchEnds(b) ==
  /\ chase[b].pc = "watch"
  /\ Resume(b, IF ChaseMode = "interval" THEN Pause(chase[b])
                                         ELSE Await(chase[b], "status"))

UserCancelReplied(b) ==
  Replied(b, "userCancel") /\ Resume(b, Return(chase[b], "cancelled"))

\* Faulty variant: the re-peg places its next order without cancelling the last.
StatusRepliedNoCancel(b) ==
  /\ Replied(b, "status")
  /\ Resume(b, IF chase[b].reply = "closed" THEN Return(chase[b], "filled")
               ELSE LoopTop(chase[b]))

StatusReplied(b) ==
  /\ Replied(b, "status")
  /\ LET r == chase[b]
     IN  Resume(b, CASE r.reply = "closed" -> Return(r, "filled")
                     [] r.reply = "error" -> Pause(r)
                     [] OTHER -> Await(r, "repeg"))

RepegReplied(b) ==
  /\ Replied(b, "repeg")
  /\ LET r == chase[b]
     IN  Resume(b, IF r.num > 0 THEN AfterRepeg(r, r.num) ELSE Await(r, "refill"))

RefillReplied(b) ==
  /\ Replied(b, "refill")
  /\ LET r == chase[b]
     IN  Resume(b, IF r.reply = "error" THEN LoopTop(r) ELSE AfterRepeg(r, r.num))

\* A spot sweep sells the whole free balance it read, whatever `remaining` says.
SweepQty(r) == IF r.num = -1 THEN r.remaining ELSE r.num

BreakerBalanceReplied(b) ==
  /\ Replied(b, "breakerBalance")
  /\ LET r == chase[b]
         q == SweepQty(r)
     IN  Resume(b, IF q >= MinQty THEN [Await(r, "breaker") EXCEPT !.num = q]
                   ELSE IF q > 0 THEN Return(r, "dust")
                   ELSE FinalSweep(r))

\* Faulty variant: the break behind the breaker's sweep is missing.
BreakerRepliedNoBreak(b) == Replied(b, "breaker") /\ Resume(b, LoopTop(chase[b]))

\* A sweep that raised leaves final_res None, and the fallback sweeps again.
BreakerReplied(b) ==
  /\ Replied(b, "breaker")
  /\ Resume(b, IF chase[b].reply = "ok" THEN Return(chase[b], "swept")
               ELSE FinalSweep(chase[b]))

FinalBalanceReplied(b) ==
  /\ Replied(b, "finalBalance")
  /\ LET r == chase[b]
         q == SweepQty(r)
     IN  Resume(b, IF q >= MinQty THEN [Await(r, "final") EXCEPT !.num = q]
                   ELSE Return(r, IF q > 0 THEN "dust" ELSE "None"))

FinalReplied(b) ==
  /\ Replied(b, "final")
  /\ Resume(b, Return(chase[b], IF chase[b].reply = "ok" THEN "swept" ELSE "None"))

Coroutine(b) ==
  \/ ScanReplied(b) \/ CleanupReplied(b) \/ SizeReplied(b) \/ RecheckReplied(b)
  \/ BookArrives(b) \/ SyncReplied(b) \/ PlaceReplied(b) \/ ResyncReplied(b)
  \/ ReplaceReplied(b) \/ RoPositionReplied(b) \/ IsyncReplied(b) \/ PositionReplied(b)
  \/ PauseEnds(b) \/ WatchEnds(b) \/ WatchCancelled(b) \/ UserCancelReplied(b)
  \/ StatusReplied(b) \/ RepegReplied(b) \/ RefillReplied(b)
  \/ BreakerBalanceReplied(b) \/ BreakerReplied(b) \/ FinalBalanceReplied(b)
  \/ FinalReplied(b)

-----------------------------------------------------------------------------
(* The exchange serves the call the coroutine is suspended at.             *)

Pending(b, points) == chase[b].pc \in points /\ chase[b].reply = "pending"

Answered(r, word, n) == [r EXCEPT !.reply = word, !.num = n]

Reply(b, word, n) ==
  /\ chase' = [chase EXCEPT ![b] = Answered(chase[b], word, n)]
  /\ UNCHANGED <<active, sl, stopping>>

ServeRead(b) ==
  /\ Pending(b, ReadPoints)
  /\ \/ NoFault /\ Reply(b, "ok", Sellable)
     \/ Fault /\ Reply(b, "error", -1)
  /\ UNCHANGED <<orders, ledgerVars>>

\* fetch_open_orders, against the protected ids taken before the call.
Scanned(r, found) == [r EXCEPT !.reply = "ok", !.targets = @ \cup (found \ r.protected)]

ServeScan(b) ==
  /\ Pending(b, {"scan"})
  /\ \E found \in {Open, {}} :
       /\ IF found = Open THEN NoFault ELSE Fault
       /\ chase' = [chase EXCEPT ![b] = Scanned(chase[b], found)]
  /\ UNCHANGED <<orders, ledgerVars, active, sl, stopping>>

\* The gathered cancels; the ones that raise are logged and forgotten.
ServeCleanup(b) ==
  /\ Pending(b, {"cleanup"})
  /\ \E failed \in SUBSET (chase[b].targets \cap Open) :
       /\ CancelOrders(chase[b].targets \ failed)
       /\ IF failed = {} THEN NoFault ELSE Fault
  /\ Reply(b, "ok", 0)

\* A reduce-only order is refused without a position, and may be refused while
\* other exit orders claim it; a spot order needs its lots free.
ServePlace(b) ==
  /\ Pending(b, PlacePoints)
  /\ LET o == Maker(b, chase[b].attempts)
         q == chase[b].remaining
         fits == IF Futures THEN holding > 0 ELSE q <= Free
     IN  \/ fits /\ Rest(o, q) /\ NoFault /\ Reply(b, "ok", 0)
         \/ fits /\ Rest(o, q) /\ Fault /\ Reply(b, "error", 0)
         \/ /\ UNCHANGED <<orders, ledgerVars>>
            /\ \/ NoFault /\ Reply(b, "postonly", 0)
               \/ Futures /\ (Open # {} \/ holding < q) /\ NoFault
                    /\ Reply(b, "reduceonly", 0)
               \/ ~Futures /\ q > Free /\ NoFault /\ Reply(b, "insufficient", 0)
               \/ Fault /\ Reply(b, "error", 0)

\* cancel_order: raises when the order is no longer open, too.
ServeCancel(b) ==
  /\ Pending(b, CancelPoints)
  /\ LET o == chase[b].current
     IN  IF o \in Open
         THEN \/ CancelOrders({o}) /\ NoFault /\ Reply(b, "ok", orders[o].filled)
              \/ /\ UNCHANGED <<orders, ledgerVars>>
                 /\ Fault /\ Reply(b, "error", 0)
         ELSE /\ UNCHANGED exchangeVars
              /\ Reply(b, "error", 0)

ServeFetch(b) ==
  /\ Pending(b, FetchPoints)
  /\ LET o == orders[chase[b].current]
     IN  \/ NoFault /\ Reply(b, IF o.status = "closed" THEN "closed" ELSE "open", o.filled)
         \/ Fault /\ Reply(b, "error", 0)
  /\ UNCHANGED <<orders, ledgerVars>>

ServeMarket(b) ==
  /\ Pending(b, MarketPoints)
  /\ LET q == chase[b].num
         fits == IF Futures THEN holding > 0 ELSE q <= Free
     IN  \/ fits /\ SellAtMarket(b, q) /\ NoFault /\ Reply(b, "ok", 0)
         \/ fits /\ SellAtMarket(b, q) /\ Fault /\ Reply(b, "error", 0)
         \/ /\ UNCHANGED <<orders, ledgerVars>>
            /\ IF fits THEN Fault ELSE NoFault
            /\ Reply(b, "error", 0)

Serve(b) ==
  \/ ServeRead(b) \/ ServeScan(b) \/ ServeCleanup(b) \/ ServePlace(b)
  \/ ServeCancel(b) \/ ServeFetch(b) \/ ServeMarket(b)

-----------------------------------------------------------------------------
(* stop_smart_chase: set the event, then cancel the order the registry     *)
(* names at that moment; an error of the cancel is swallowed.              *)

Stop(b) ==
  /\ b \in active
  /\ stopping[b] = NoOrder
  /\ chase' = [chase EXCEPT ![b].cancel = TRUE]
  /\ stopping' = [stopping EXCEPT ![b] = chase[b].current]
  /\ UNCHANGED <<active, sl, exchangeVars>>

ServeStop(b) ==
  /\ stopping[b] # NoOrder
  /\ \/ CancelOrders({stopping[b]}) /\ NoFault
     \/ /\ stopping[b] \in Open /\ Fault
        /\ UNCHANGED <<orders, ledgerVars>>
  /\ stopping' = [stopping EXCEPT ![b] = NoOrder]
  /\ UNCHANGED <<chase, active, sl>>

MarketMoves == Market /\ UNCHANGED chaseVars

\* Every chase has returned: nothing of this component runs any more.
AllReturned ==
  /\ \A b \in Brackets : chase[b].pc = "done" /\ stopping[b] = NoOrder
  /\ UNCHANGED vars

Next ==
  \/ \E b \in Brackets :
       Invoke(b) \/ Coroutine(b) \/ Serve(b) \/ Stop(b) \/ ServeStop(b)
  \/ MarketMoves
  \/ AllReturned

Spec == Init /\ [][Next]_vars

\* The event loop resumes whatever can run, every call is answered or times out
\* (an error reply), and a watch ends by its time limit.
Fairness ==
  /\ \A b \in Brackets : WF_vars(Coroutine(b)) /\ WF_vars(Serve(b))

FairSpec == Spec /\ Fairness

-----------------------------------------------------------------------------
(* Properties.                                                             *)

\* Lots the chase of b has sold, as maker and at market.
Sold(b) == swept[b] + SumFunction([n \in 1 .. MaxAttempts |-> orders[Maker(b, n)].filled])

\* The awaits at which the coroutine still holds the order of its current attempt.
AttendPoints == PlacePoints \cup CancelPoints \cup {"watch", "status"}

\* Maker orders of b that rest on the book while the coroutine has moved on.
Forgotten(b) ==
  {n \in 1 .. MaxAttempts :
     /\ Maker(b, n) \in Open
     /\ ~(n = chase[b].attempts /\ chase[b].pc \in AttendPoints)}

\* No maker order is left behind on the book while no remote call has raised:
\* whatever the chase does next - re-peg, retry, sweep, return - its last order
\* is filled or cancelled first ("Cancel order to chase closer / re-peg", l. 1066),
\* even when stop_smart_chase or the cleanup of another bracket cancels it underneath.
NoForgottenOrder == faults = 0 => \A b \in Brackets : Forgotten(b) = {}

\* Each order left behind is owed to a remote call that raised: two of them never
\* come from one error (l. 876, 1070, 1098).
ForgottenWithinFaults ==
  Cardinality(UNION {{Maker(b, n) : n \in Forgotten(b)} : b \in Brackets}) <= faults

\* Without failed calls, the partial fills of all its attempts together never sell
\* more than the bracket's amount, and on futures neither do its sweeps on top of
\* them (l. 493, 1082, 1123).  A spot sweep sells the whole free balance instead.
SoldWithinAmount ==
  faults = 0 => \A b \in Brackets :
                  (IF Futures THEN Sold(b) ELSE Sold(b) - swept[b]) <= Amount

\* A futures chase that nobody stops, and whose calls all answer, returns only
\* when less than the minimum order is left of its amount or of the position;
\* giving up after three reduce-only rejections (l. 856) is the one exception.
UnstoppedChaseExits ==
  \A b \in Brackets :
    (/\ Futures /\ faults = 0
     /\ chase[b].pc = "done" /\ ~chase[b].cancel /\ chase[b].final # "aborted")
      => Sold(b) + MinQty > Amount \/ holding < MinQty

\* "Cancelled by user. Skipping final fallback market sweep." (l. 1107): a chase
\* that reports itself cancelled has never sold at market.
CancelledNeverSwept ==
  \A b \in Brackets : chase[b].final = "cancelled" => swept[b] = 0

\* Once stopped, a chase starts no further attempt, whichever await the stop met.
StopEndsAttempts ==
  [][\A b \in Brackets : chase[b].cancel => chase'[b].attempts = chase[b].attempts]_vars

\* The scan for conflicting orders never cancels the TP or the disaster stop of a
\* bracket whose monitor is still live (l. 391).
ArmedOrdersSurvive ==
  [][\A b \in Brackets : \A o \in Linked(sl[b]) :
       (sl[b].live /\ ~sl[b].cancelled) => ~(o \in Open /\ orders'[o].status = "canceled")]_vars

\* Every registered chase returns: no reply, rejection or stop leaves it looping.
ChaseReturns == \A b \in Brackets : b \in active ~> chase[b].pc = "done"

\* How the exit of a bracket stands, as its caller sees it (ExitContract).
Phase(r) ==
  CASE r.pc = "idle" -> "waiting"
    [] r.pc = "done" -> IF r.final = "cancelled" THEN "cancelled" ELSE "over"
    [] r.pc \in MarketPoints \cup {"finalBalance"} -> "selling"
    [] OTHER -> "working"

Offered(b) == {n \in 1 .. MaxAttempts : Maker(b, n) \in Open}

Contract == INSTANCE ExitContract
  WITH phase <- [b \in Brackets |-> Phase(chase[b])],
       begun <- [b \in Brackets |-> chase[b].attempts],
       told <- [b \in Brackets |-> chase[b].cancel],
       offers <- [b \in Brackets |-> Offered(b)],
       swept <- [b \in Brackets |-> swept[b] > 0],
       upset <- faults > 0

\* The chase keeps the contract of an exit: one maker order on the book at a time,
\* each of a new attempt, none begun after a stop; the market only when no maker
\* order is left, and no way back from there; and an exit that ends as cancelled
\* was told to and never sold at market (l. 638-1134).
KeepsContract == Contract!Spec

\* stop_smart_chase promises to abort "immediately" (l. 281): a stopped chase
\* never sets out to sell at market.
StopPreventsSweep ==
  [][\A b \in Brackets :
       chase[b].cancel => ~(/\ chase'[b].pc \in MarketPoints
                            /\ chase[b].pc # chase'[b].pc)]_vars

\* "give Binance ledger a short moment to release" (l. 575): a spot chase that
\* re-reads enough free balance is not dropped as dust.
UnlockedBalanceIsChased ==
  [][\A b \in Brackets :
       (Replied(b, "recheck2") /\ chase'[b].final = "prevented")
         => chase[b].num < MinQty]_vars

=============================================================================
