---------------------------- MODULE BracketExit ----------------------------
(***************************************************************************)
(* The watch over an armed bracket, in                                     *)
(* src/backend/app/services/bracket_order_service.py, in front of the      *)
(* chase of module SmartChase: _smart_chase_monitor_loop, which hands a    *)
(* bracket whose stop triggers over to the chase, and                      *)
(* update_software_bracket, which a user's drag on the chart and the       *)
(* monitor's own auto-breakeven call to replace the native disaster stop.  *)
(*                                                                         *)
(* The price is the choice between the branches it decides.  loop_tick     *)
(* counts up to the point behind which only its remainder matters.         *)
(***************************************************************************)
EXTENDS SmartChase

CONSTANTS
  Editors,     \* update requests of users in flight at one time
  CheckEvery,  \* ticks between two integrity checks, 6 in the code
  MaxEdits     \* bound: update requests of users

ASSUME ExitAssumption ==
  /\ CheckEvery \in Nat \ {0} /\ MaxEdits \in Nat
  /\ IsFiniteSet(Editors) /\ "monitor" \notin Editors

VARIABLES
  monitor,   \* per bracket, the locals of its _smart_chase_monitor_loop
  edit,      \* per bracket and caller, its update_software_bracket call
  placed,    \* per bracket, disaster stops sent after the first
  edits      \* update requests of users so far

exitVars == <<monitor, edit, placed, edits>>

Callers == Editors \cup {"monitor"}

Monitor ==
  [pc : {"sleep", "ticker", "breakeven", "trigPosition", "tpCheck", "disasterCheck",
         "position", "tpCancel", "endCancel", "userCancel", "off"},
   reply : {"pending", "ok", "open", "closed"},
   target : OrderIds \cup {NoOrder},   \* the order the call in flight is about
   tick : 0 .. 3 * CheckEvery, streak : 0 .. 1, breakeven : BOOLEAN,
   left : {"watching", "stopped", "closed", "triggered"}]

Edit == [pc : {"idle", "cancel", "place"}, reply : {"pending", "ok", "error"},
         old : OrderIds \cup {NoOrder}, new : OrderIds \cup {NoOrder}]

NoEdit == [pc |-> "idle", reply |-> "ok", old |-> NoOrder, new |-> NoOrder]

ExitTypeOK ==
  /\ TypeOK
  /\ monitor \in [Brackets -> Monitor]
  /\ edit \in [Brackets -> [Callers -> Edit]]
  /\ placed \in [Brackets -> 0 .. MaxRevisions]
  /\ edits \in 0 .. MaxEdits

ExitInit ==
  /\ Init
  /\ monitor = [b \in Brackets |->
                  [pc |-> "sleep", reply |-> "ok", target |-> NoOrder, tick |-> 0,
                   streak |-> 0, breakeven |-> FALSE, left |-> "watching"]]
  /\ edit = [b \in Brackets |-> [c \in Callers |-> NoEdit]]
  /\ placed = [b \in Brackets |-> 0]
  /\ edits = 0

-----------------------------------------------------------------------------
(* update_software_bracket.                                                *)

Editing(b) == {c \in Callers : edit[b][c].pc # "idle"}

\* Calls in flight have an id reserved below the bound.
Room(b) == placed[b] + Cardinality(Editing(b)) < MaxRevisions

\* Up to the first await: without a disaster stop the call is over at once.
BeginEdit(b, c) ==
  /\ Futures /\ sl[b].live /\ sl[b].disaster # NoOrder
  /\ edit[b][c].pc = "idle" /\ Room(b)
  /\ edit' = [edit EXCEPT ![b][c] =
                [pc |-> "cancel", reply |-> "pending", old |-> sl[b].disaster, new |-> NoOrder]]

UserEdit(b, c) ==
  /\ c \in Editors
  /\ edits < MaxEdits /\ edits' = edits + 1
  /\ BeginEdit(b, c)
  /\ UNCHANGED <<monitor, placed, vars>>

\* Both cancels of the old stop are answered, their errors are swallowed, and the
\* placement of the new one is sent.
EditCancelled(b, c) ==
  /\ edit[b][c].pc = "cancel"
  /\ \/ CancelOrders({edit[b][c].old}) /\ NoFault
     \/ edit[b][c].old \in Open /\ Fault /\ UNCHANGED <<orders, ledgerVars>>
  /\ edit' = [edit EXCEPT ![b][c].pc = "place"]
  /\ UNCHANGED <<chaseVars, monitor, placed, edits>>

\* _place_futures_conditional_order: a tier whose answer is lost is followed by the
\* next one, which places a second order.
ServeEditPlace(b, c) ==
  /\ edit[b][c].pc = "place" /\ edit[b][c].reply = "pending"
  /\ LET o == Disaster(b, placed[b] + 1)
     IN  \/ /\ Rest(o, Amount) /\ placed' = [placed EXCEPT ![b] = @ + 1]
            /\ \/ /\ NoFault
                  /\ edit' = [edit EXCEPT ![b][c] = [@ EXCEPT !.reply = "ok", !.new = o]]
               \/ Fault /\ Room(b) /\ UNCHANGED edit
         \/ /\ IF holding = 0 THEN NoFault ELSE Fault
            /\ edit' = [edit EXCEPT ![b][c].reply = "error"]
            /\ UNCHANGED <<orders, ledgerVars, placed>>
  /\ UNCHANGED <<chaseVars, monitor, edits>>

\* Faulty variant: the id of the new stop is not stored.
EditRepliedUnrecorded(b, c) ==
  /\ edit[b][c].pc = "place" /\ edit[b][c].reply # "pending"
  /\ edit' = [edit EXCEPT ![b][c] = NoEdit]
  /\ UNCHANGED <<vars, monitor, placed, edits>>

\* The id of the new stop goes into the entry; once the monitor has deleted the
\* entry from the registry, nobody reads it there any more.
EditReplied(b, c) ==
  /\ edit[b][c].pc = "place" /\ edit[b][c].reply # "pending"
  /\ edit' = [edit EXCEPT ![b][c] = NoEdit]
  /\ sl' = IF sl[b].live /\ edit[b][c].reply = "ok"
           THEN [sl EXCEPT ![b].disaster = edit[b][c].new] ELSE sl
  /\ UNCHANGED <<chase, active, stopping, exchangeVars, monitor, placed, edits>>

EditStep(b, c) == EditCancelled(b, c) \/ ServeEditPlace(b, c) \/ EditReplied(b, c)

-----------------------------------------------------------------------------
(* The monitor loop.                                                       *)

MonitorTo(b, m) ==
  /\ monitor' = [monitor EXCEPT ![b] = m]
  /\ UNCHANGED <<vars, edit, placed, edits>>

Calls(m, point, o) == [m EXCEPT !.pc = point, !.reply = "pending", !.target = o]
Sleeps(m) == [m EXCEPT !.pc = "sleep", !.reply = "ok", !.target = NoOrder]

\* The entry leaves the registry and the monitor returns.
Leave(b, why) ==
  /\ monitor' = [monitor EXCEPT ![b] = [Sleeps(@) EXCEPT !.pc = "off", !.left = why]]
  /\ sl' = [sl EXCEPT ![b] = NoEntry]
  /\ UNCHANGED <<chase, active, stopping, exchangeVars, edit, placed, edits>>

\* The entry leaves the registry and the chase starts, in one go.
HandOver(b) ==
  /\ Invoke(b)
  /\ monitor' = [monitor EXCEPT ![b] = [Sleeps(@) EXCEPT !.pc = "off", !.left = "triggered"]]
  /\ UNCHANGED <<edit, placed, edits>>

\* Position closed, TP or disaster stop filled: cancel the disaster stop, then leave.
Finish(b) ==
  IF sl[b].disaster = NoOrder THEN Leave(b, "closed")
  ELSE MonitorTo(b, Calls(monitor[b], "endCancel", sl[b].disaster))

\* The integrity check: TP, then disaster stop, then position.
CheckPosition(b, m) ==
  IF Futures /\ m.tick >= 2 * CheckEvery
  THEN MonitorTo(b, Calls(m, "position", NoOrder)) ELSE MonitorTo(b, Sleeps(m))

CheckDisaster(b, m) ==
  IF Futures /\ sl[b].disaster # NoOrder
  THEN MonitorTo(b, Calls(m, "disasterCheck", sl[b].disaster)) ELSE CheckPosition(b, m)

CheckTp(b, m) ==
  IF sl[b].tp # NoOrder THEN MonitorTo(b, Calls(m, "tpCheck", sl[b].tp))
  ELSE CheckDisaster(b, m)

\* loop_tick += 1, with its remainder kept beyond 2 * CheckEvery.
Ticked(m) ==
  [m EXCEPT !.tick = IF @ + 1 = 3 * CheckEvery THEN 2 * CheckEvery ELSE @ + 1]

\* The price is behind the trigger, or it is not and the tick is counted.
Decide(b, m) ==
  \/ IF Futures /\ m.tick > CheckEvery
     THEN MonitorTo(b, Calls(m, "trigPosition", NoOrder)) ELSE HandOver(b)
  \/ LET t == Ticked(m)
     IN  IF t.tick % CheckEvery = 0 THEN CheckTp(b, t) ELSE MonitorTo(b, Sleeps(t))

\* Faulty variant: the loop does not look at the cancelled flag of its entry.
WakeDeaf(b) ==
  /\ monitor[b].pc = "sleep"
  /\ MonitorTo(b, Calls(monitor[b], "ticker", NoOrder))

\* The head of the loop: a cancelled entry takes its disaster stop along.
Wake(b) ==
  /\ monitor[b].pc = "sleep"
  /\ IF ~sl[b].cancelled THEN MonitorTo(b, Calls(monitor[b], "ticker", NoOrder))
     ELSE IF sl[b].disaster = NoOrder THEN Leave(b, "stopped")
     ELSE MonitorTo(b, Calls(monitor[b], "userCancel", sl[b].disaster))

\* A ticker that raises costs the tick; one in profit moves the stop to breakeven once.
TickerReplied(b) ==
  /\ monitor[b].pc = "ticker"
  /\ \/ /\ Fault
        /\ monitor' = [monitor EXCEPT ![b] = Sleeps(@)]
        /\ UNCHANGED <<orders, ledgerVars, chaseVars, edit, placed, edits>>
     \/ /\ ~monitor[b].breakeven
        /\ BeginEdit(b, "monitor")
        /\ monitor' = [monitor EXCEPT ![b] =
                         [Calls(@, "breakeven", NoOrder) EXCEPT !.breakeven = TRUE]]
        /\ UNCHANGED <<vars, placed, edits>>
     \/ Decide(b, monitor[b])

BreakevenDone(b) ==
  /\ monitor[b].pc = "breakeven" /\ edit[b]["monitor"].pc = "idle"
  /\ Decide(b, monitor[b])

Answer(b, point, word) == monitor[b].pc = point /\ monitor[b].reply = word

TrigPositionReplied(b) ==
  \/ Answer(b, "trigPosition", "closed") /\ Finish(b)
  \/ Answer(b, "trigPosition", "open") /\ HandOver(b)

TpCheckReplied(b) ==
  \/ Answer(b, "tpCheck", "closed") /\ Finish(b)
  \/ Answer(b, "tpCheck", "open") /\ CheckDisaster(b, monitor[b])

\* A filled disaster stop takes the TP along.
DisasterCheckReplied(b) ==
  \/ /\ Answer(b, "disasterCheck", "closed")
     /\ IF sl[b].tp = NoOrder THEN Finish(b)
        ELSE MonitorTo(b, Calls(monitor[b], "tpCancel", sl[b].tp))
  \/ Answer(b, "disasterCheck", "open") /\ CheckPosition(b, monitor[b])

\* Faulty variant: every check starts a new streak.
StreakRepliedForgetful(b) ==
  \/ Answer(b, "position", "open") /\ MonitorTo(b, Sleeps(monitor[b]))
  \/ Answer(b, "position", "closed")
       /\ MonitorTo(b, Sleeps([monitor[b] EXCEPT !.streak = 1]))

\* Faulty variant: the position has to read as closed three times in a row.
StreakRepliedLate(b) ==
  \/ /\ Answer(b, "position", "open")
     /\ MonitorTo(b, Sleeps([monitor[b] EXCEPT !.streak = 0]))
  \/ /\ Answer(b, "position", "closed")
     /\ IF monitor[b].streak = 2 THEN Finish(b)
        ELSE MonitorTo(b, Sleeps([monitor[b] EXCEPT !.streak = @ + 1]))

\* The position has to read as closed twice in a row.
StreakReplied(b) ==
  \/ /\ Answer(b, "position", "open")
     /\ MonitorTo(b, Sleeps([monitor[b] EXCEPT !.streak = 0]))
  \/ /\ Answer(b, "position", "closed")
     /\ IF monitor[b].streak = 1 THEN Finish(b)
        ELSE MonitorTo(b, Sleeps([monitor[b] EXCEPT !.streak = 1]))

\* Every cancel has been answered, in whatever way.
CancelReplied(b) ==
  \/ Answer(b, "tpCancel", "ok") /\ Finish(b)
  \/ Answer(b, "endCancel", "ok") /\ Leave(b, "closed")
  \/ Answer(b, "userCancel", "ok") /\ Leave(b, "stopped")

MonitorStep(b) ==
  \/ Wake(b) \/ TickerReplied(b) \/ BreakevenDone(b) \/ TrigPositionReplied(b)
  \/ TpCheckReplied(b) \/ DisasterCheckReplied(b) \/ StreakReplied(b) \/ CancelReplied(b)

Told(b, word) ==
  /\ monitor' = [monitor EXCEPT ![b].reply = word]
  /\ UNCHANGED <<chaseVars, edit, placed, edits>>

\* Faulty variant: a position check that raises counts as a closed position.
ServeMonitorUnsafe(b) ==
  /\ monitor[b].reply = "pending" /\ monitor[b].pc \in {"trigPosition", "position"}
  /\ \/ NoFault /\ Told(b, IF holding > 0 THEN "open" ELSE "closed")
     \/ Fault /\ Told(b, "closed")
  /\ UNCHANGED <<orders, ledgerVars>>

\* _check_futures_position_is_open: a check that raises counts as an open position.
ServePosition(b) ==
  /\ monitor[b].reply = "pending" /\ monitor[b].pc \in {"trigPosition", "position"}
  /\ \/ NoFault /\ Told(b, IF holding > 0 THEN "open" ELSE "closed")
     \/ Fault /\ Told(b, "open")
  /\ UNCHANGED <<orders, ledgerVars>>

ServeCheck(b) ==
  /\ monitor[b].reply = "pending" /\ monitor[b].pc \in {"tpCheck", "disasterCheck"}
  /\ \/ /\ NoFault
        /\ Told(b, IF orders[monitor[b].target].status = "closed" THEN "closed" ELSE "open")
     \/ Fault /\ Told(b, "open")
  /\ UNCHANGED <<orders, ledgerVars>>

ServeMonitorCancel(b) ==
  /\ monitor[b].reply = "pending"
  /\ monitor[b].pc \in {"tpCancel", "endCancel", "userCancel"}
  /\ \/ CancelOrders({monitor[b].target}) /\ NoFault
     \/ monitor[b].target \in Open /\ Fault /\ UNCHANGED <<orders, ledgerVars>>
  /\ Told(b, "ok")

ServeMonitor(b) == ServePosition(b) \/ ServeCheck(b) \/ ServeMonitorCancel(b)

-----------------------------------------------------------------------------
\* stop_smart_chase_endpoint on a bracket no chase is registered for: it flags the entry.
StopMonitor(b) ==
  /\ sl[b].live /\ ~sl[b].cancelled
  /\ sl' = [sl EXCEPT ![b].cancelled = TRUE]
  /\ UNCHANGED <<chase, active, stopping, exchangeVars, exitVars>>

ChaseStep(b) == Coroutine(b) \/ Serve(b) \/ Stop(b) \/ ServeStop(b)

\* Every monitor and chase has returned.
AllLeft ==
  /\ \A b \in Brackets :
       /\ monitor[b].pc = "off" /\ chase[b].pc \in {"idle", "done"}
       /\ stopping[b] = NoOrder /\ Editing(b) = {}
  /\ UNCHANGED <<vars, exitVars>>

ExitNext ==
  \/ \E b \in Brackets :
       \/ MonitorStep(b) \/ ServeMonitor(b) \/ StopMonitor(b)
       \/ \E c \in Callers : UserEdit(b, c) \/ EditStep(b, c)
       \/ ChaseStep(b) /\ UNCHANGED exitVars
  \/ MarketMoves /\ UNCHANGED exitVars
  \/ AllLeft

allVars == <<vars, exitVars>>

ExitSpec == ExitInit /\ [][ExitNext]_allVars

\* As for the chase: the event loop resumes whatever can run and every call is
\* answered or raises.
ExitFairness ==
  \A b \in Brackets :
    /\ WF_allVars(MonitorStep(b)) /\ WF_allVars(ServeMonitor(b))
    /\ \A c \in Callers : WF_allVars(EditStep(b, c))

ExitFairSpec == ExitSpec /\ ExitFairness

-----------------------------------------------------------------------------
(* Properties.                                                             *)

Disasters(b) == {Disaster(b, n) : n \in 0 .. MaxRevisions}

\* Who still knows a disaster stop: the entry, a monitor's or a caller's call in
\* flight, the chase it was handed to.
Known(b) ==
  Linked(sl[b]) \cup {monitor[b].target} \cup chase[b].linked \cup chase[b].targets
    \cup UNION {{edit[b][c].old, edit[b][c].new} : c \in Callers}

Orphans(b) == (Disasters(b) \cap Open) \ Known(b)

\* A monitor lets go of a bracket that nobody stopped and that has not triggered
\* only when the position is gone or one of its own two orders has filled; reads
\* that fail, or that a replacement of the stop overtakes, never disarm it (l. 298).
NoSilentDisarm ==
  \A b \in Brackets :
    monitor[b].left = "closed" =>
      \/ holding = 0
      \/ \E o \in {Tp(b)} \cup Disasters(b) : orders[o].status = "closed"

\* Every disaster stop that rests although nobody knows it any more is owed to a
\* call that raised or to a user's update that raced the monitor or another update;
\* the monitor's own breakeven updates never lose one (l. 2268, 2434, 769).
OrphansAccounted ==
  Cardinality(UNION {Orphans(b) : b \in Brackets}) <= faults + edits

\* While the monitor watches and no call has raised, the disaster stop its entry
\* names rests or has filled, unless a call is replacing it right now: overlapping
\* updates never leave the position without the stop they replaced (l. 748-771).
RecordedStopRests ==
  \A b \in Brackets :
    (/\ faults = 0 /\ holding > 0
     /\ sl[b].live /\ sl[b].disaster # NoOrder
     /\ monitor[b].pc \notin {"endCancel", "userCancel"}
     /\ \A c \in Callers : edit[b][c].old # sl[b].disaster)
      => orders[sl[b].disaster].status \in {"open", "closed"}

\* A flagged monitor returns, or has handed over already.
StoppedMonitorReturns == \A b \in Brackets : sl[b].cancelled ~> monitor[b].pc = "off"

\* A monitor whose position is closed from outside does not watch for ever: the
\* integrity checks find out, even when one of them fails (l. 2418-2426).
ClosedPositionEndsWatch ==
  \A b \in Brackets : (Futures /\ holding = 0) ~> monitor[b].pc = "off"

\* "Check if monitor was cancelled by user" (l. 2265), after the endpoint has answered
\* "cancelled ... pending monitor(s)" (trading.py): a bracket whose monitor the user
\* has cancelled is not handed to a chase any more.
CancelledIsNotChased ==
  [][\A b \in Brackets : sl[b].cancelled => monitor'[b].left # "triggered"]_allVars

\* "Safely re-calculates futures disaster stops if active" (l. 713), "so no order is
\* left behind" (l. 689), for updates of users too: when nothing has raised, a bracket
\* whose monitor, chase and updates have all returned has no disaster stop resting.
NoOrphanStop ==
  faults = 0 =>
    \A b \in Brackets :
      (monitor[b].pc = "off" /\ chase[b].pc \in {"idle", "done"} /\ Editing(b) = {})
        => Disasters(b) \cap Open = {}

=============================================================================
