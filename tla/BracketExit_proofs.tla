-------------------------- MODULE BracketExit_proofs --------------------------
(***************************************************************************)
(* TLAPS proofs about BracketExit, for any brackets, editors, integrity    *)
(* period and bounds: type correctness; that no monitor disarms a bracket  *)
(* whose position is still open; for a bracket alone on its symbol, that   *)
(* the disaster stop its entry names rests; that every stop nobody knows   *)
(* any more is owed to a call that raised or a user's update; and that     *)
(* what is proved of the chases alone holds of those that monitors start.  *)
(***************************************************************************)
EXTENDS BracketExit, ChaseTally_proofs

(***************************************************************************)
(* Type correctness needs: a tick below the point where it wraps; order    *)
(* ids that are the bracket's own, of stops already sent; an id left for   *)
(* every update whose placement has not been answered.                     *)
(***************************************************************************)
Sent(b, p) == {Disaster(b, n) : n \in 0 .. p}

CheckPoints == {"tpCheck", "disasterCheck"}

MonitorOK(b, m, p) ==
  /\ m \in Monitor
  /\ m.tick < 3 * CheckEvery
  /\ m.target \in {Tp(b), NoOrder} \cup Sent(b, p)
  /\ m.pc \in CheckPoints => m.target # NoOrder
  /\ m.pc = "tpCancel" => m.target = Tp(b)

EditOK(b, e, p) ==
  /\ e \in Edit
  /\ e.old \in {NoOrder} \cup Sent(b, p)
  /\ e.new \in {NoOrder} \cup Sent(b, p)
  /\ e.pc = "cancel" => e.reply = "pending"
  /\ e.pc = "place" /\ e.reply = "ok" => e.new # NoOrder

EntryOK(b, s, p) == s.tp \in {Tp(b), NoOrder} /\ s.disaster \in {NoOrder} \cup Sent(b, p)

Unanswered(b) == {c \in Callers : edit[b][c].pc # "idle" /\ edit[b][c].reply = "pending"}

Gone(b) ==
  holding = 0 \/ \E o \in {Tp(b)} \cup Disasters(b) : orders[o].status = "closed"

\* A monitor that has begun to believe its position closed.
Letting(m) == m.reply = "closed" \/ m.pc \in {"tpCancel", "endCancel"} \/ m.left = "closed"

BracketOK(b) ==
  /\ MonitorOK(b, monitor[b], placed[b])
  /\ \A c \in Callers : EditOK(b, edit[b][c], placed[b])
  /\ EntryOK(b, sl[b], placed[b])
  /\ placed[b] + Cardinality(Unanswered(b)) <= MaxRevisions
  /\ \A n \in 0 .. MaxRevisions : n > placed[b] => orders[Disaster(b, n)].status = "none"
  /\ Letting(monitor[b]) => Gone(b)

ExitInv ==
  /\ TypeInv
  /\ monitor \in [Brackets -> Monitor]
  /\ edit \in [Brackets -> [Callers -> Edit]]
  /\ placed \in [Brackets -> 0 .. MaxRevisions]
  /\ edits \in 0 .. MaxEdits
  /\ \A b \in Brackets : BracketOK(b)

-----------------------------------------------------------------------------
(* Facts about the data.                                                   *)

LEMMA OwnIds ==
  ASSUME NEW b \in Brackets, NEW p \in 0 .. MaxRevisions
  PROVE  /\ Tp(b) \in OrderIds /\ Sent(b, p) \subseteq OrderIds /\ Sent(b, p) \subseteq Disasters(b)
         /\ Sent(b, p) \subseteq Sent(b, p + 1) /\ Disaster(b, p) \in Sent(b, p)
         /\ MaxRevisions \in Nat
         /\ \A n \in 0 .. MaxRevisions : Disaster(b, n) \in OrderIds
  BY ExchangeAssumption DEF Tp, Disaster, Sent, Disasters, OrderIds

LEMMA ApartIds ==
  /\ \A b, c, n, k : Maker(b, n) # Tp(c) /\ Maker(b, n) # Disaster(c, k) /\ Tp(b) # Disaster(c, k)
  /\ \A b, c, n, k : Disaster(b, n) = Disaster(c, k) => b = c /\ n = k
  /\ NoOrder \notin OrderIds
  BY NoOrderAssumption DEF Tp, Disaster, Maker

LEMMA SentGrows ==
  ASSUME NEW b \in Brackets, NEW p \in 0 .. MaxRevisions, NEW q \in 0 .. MaxRevisions, p <= q
  PROVE  /\ \A m : MonitorOK(b, m, p) => MonitorOK(b, m, q)
         /\ \A e : EditOK(b, e, p) => EditOK(b, e, q)
         /\ \A s : EntryOK(b, s, p) => EntryOK(b, s, q)
<1>1. Sent(b, p) \subseteq Sent(b, q)
  BY DEF Sent
<1> QED
  BY <1>1 DEF MonitorOK, EditOK, EntryOK

MonitorPoints ==
  {"sleep", "ticker", "breakeven", "trigPosition", "tpCheck", "disasterCheck",
   "position", "tpCancel", "endCancel", "userCancel", "off"}

LEMMA CallsFields ==
  ASSUME NEW m \in Monitor, NEW p \in MonitorPoints, NEW o \in OrderIds \cup {NoOrder}
  PROVE  /\ Calls(m, p, o) \in Monitor
         /\ Calls(m, p, o).pc = p /\ Calls(m, p, o).reply = "pending"
         /\ Calls(m, p, o).target = o /\ Calls(m, p, o).tick = m.tick
         /\ Calls(m, p, o).left = m.left
<1>1. Calls(m, p, o) \in Monitor
  BY DEF Calls, Monitor, MonitorPoints
<1>2. /\ Calls(m, p, o).pc = p /\ Calls(m, p, o).reply = "pending"
      /\ Calls(m, p, o).target = o
  BY DEF Calls, Monitor
<1>3. Calls(m, p, o).tick = m.tick /\ Calls(m, p, o).left = m.left
  BY DEF Calls, Monitor
<1> QED
  BY <1>1, <1>2, <1>3

LEMMA SleepsFields ==
  ASSUME NEW m \in Monitor
  PROVE  /\ Sleeps(m) \in Monitor
         /\ Sleeps(m).pc = "sleep" /\ Sleeps(m).reply = "ok" /\ Sleeps(m).target = NoOrder
         /\ Sleeps(m).tick = m.tick /\ Sleeps(m).left = m.left
<1>1. Sleeps(m) \in Monitor
  BY DEF Sleeps, Monitor
<1>2. Sleeps(m).pc = "sleep" /\ Sleeps(m).reply = "ok" /\ Sleeps(m).target = NoOrder
  BY DEF Sleeps, Monitor
<1>3. Sleeps(m).tick = m.tick /\ Sleeps(m).left = m.left
  BY DEF Sleeps, Monitor
<1> QED
  BY <1>1, <1>2, <1>3

LEMMA TickedFields ==
  ASSUME NEW m \in Monitor, m.tick < 3 * CheckEvery
  PROVE  /\ Ticked(m) \in Monitor /\ Ticked(m).tick < 3 * CheckEvery
         /\ Ticked(m).left = m.left /\ Ticked(m).reply = m.reply
<1> DEFINE t == IF m.tick + 1 = 3 * CheckEvery THEN 2 * CheckEvery ELSE m.tick + 1
<1>1. m.tick \in 0 .. 3 * CheckEvery /\ CheckEvery \in Nat \ {0}
  BY ExitAssumption DEF Monitor
<1>2. t \in 0 .. 3 * CheckEvery /\ t < 3 * CheckEvery
  BY <1>1
<1>3. Ticked(m) = [m EXCEPT !.tick = t]
  BY DEF Ticked
<1> HIDE DEF t
<1>4. [m EXCEPT !.tick = t] \in Monitor
  BY <1>2 DEF Monitor
<1>5. [m EXCEPT !.tick = t].tick = t /\ [m EXCEPT !.tick = t].left = m.left
      /\ [m EXCEPT !.tick = t].reply = m.reply
  BY DEF Monitor
<1> QED
  BY <1>2, <1>3, <1>4, <1>5

-----------------------------------------------------------------------------
(* What the steps do to the account: an order of the bracket that is       *)
(* closed stays closed, a stop not sent yet stays unsent.                  *)

Effect ==
  \/ UNCHANGED <<orders, ledgerVars>>
  \/ \E S : CancelOrders(S)
  \/ \E b \in Brackets, n \in 1 .. MaxAttempts, q \in Nat : Rest(Maker(b, n), q)
  \/ \E b \in Brackets, q \in Nat : SellAtMarket(b, q)
  \/ Market

LEMMA Settled ==
  ASSUME ExchangeTypeOK, NEW b \in Brackets, Effect
  PROVE  /\ Gone(b) => Gone(b)'
         /\ \A n \in 0 .. MaxRevisions :
              orders[Disaster(b, n)].status = "none" => orders'[Disaster(b, n)].status = "none"
<1> DEFINE Mine == {Tp(b)} \cup Disasters(b)
<1>1. Mine \subseteq OrderIds /\ \A n \in 0 .. MaxRevisions : Disaster(b, n) \in Mine
  BY ExchangeAssumption DEF Tp, Disaster, Disasters, OrderIds
<1>2. SUFFICES /\ holding = 0 => holding' = 0
               /\ \A o \in Mine : orders[o].status \in {"none", "closed"} => orders'[o].status = orders[o].status
  BY <1>1 DEF Gone
<1> HIDE DEF Mine
<1>3. CASE UNCHANGED <<orders, ledgerVars>>
  BY <1>3 DEF ledgerVars
<1>4. ASSUME NEW S, CancelOrders(S)
      PROVE  /\ holding = 0 => holding' = 0
             /\ \A o \in Mine : orders[o].status \in {"none", "closed"} => orders'[o].status = orders[o].status
  BY <1>1, <1>4 DEF CancelOrders, Open
<1>5. ASSUME NEW c \in Brackets, NEW n \in 1 .. MaxAttempts, NEW q \in Nat, Rest(Maker(c, n), q)
      PROVE  /\ holding = 0 => holding' = 0
             /\ \A o \in Mine : orders[o].status \in {"none", "closed"} => orders'[o].status = orders[o].status
  <2>1. Maker(c, n) \notin Mine
    BY ApartIds DEF Mine, Disasters
  <2> QED
    BY <1>1, <1>5, <2>1 DEF Rest, ExchangeTypeOK
<1>6. ASSUME NEW c \in Brackets, NEW q \in Nat, SellAtMarket(c, q)
      PROVE  /\ holding = 0 => holding' = 0
             /\ \A o \in Mine : orders[o].status \in {"none", "closed"} => orders'[o].status = orders[o].status
  BY <1>6 DEF SellAtMarket, Lesser
<1>7. CASE Market
  <2>1. ASSUME NEW p \in OrderIds, Fill(p)
        PROVE  /\ holding = 0 => holding' = 0
               /\ \A o \in Mine : orders[o].status \in {"none", "closed"} => orders'[o].status = orders[o].status
    <3>1. p \in Open
      BY <2>1 DEF Fill
    <3>2. \A o \in OrderIds \ {p} : orders'[o] = orders[o]
      BY <2>1 DEF Fill, ExchangeTypeOK
    <3>3. holding = 0 => FALSE
      <4>1. orders[p].qty \in Nat /\ orders[p].filled \in Nat
        BY DEF ExchangeTypeOK, Order
      <4> QED
        BY <2>1, <4>1 DEF Fill, Lesser, Left
    <3> QED
      BY <1>1, <3>1, <3>2, <3>3 DEF Open
  <2>2. ASSUME NEW p \in OrderIds, ReleaseLots(p)
        PROVE  UNCHANGED <<orders, holding>>
    BY <2>2 DEF ReleaseLots
  <2>3. CASE CloseOutside
    <3>1. orders' = orders
      BY <2>3 DEF CloseOutside
    <3>2. holding = 0 => FALSE
      <4>1. holding \in Nat /\ Sellable \in Int
        BY DEF ExchangeTypeOK, Sellable, Free
      <4> QED
        BY <2>3, <4>1 DEF CloseOutside, Lesser
    <3> QED
      BY <3>1, <3>2
  <2> QED
    BY <1>7, <2>1, <2>2, <2>3 DEF Market
<1> QED
  BY <1>3, <1>4, <1>5, <1>6, <1>7 DEF Effect

-----------------------------------------------------------------------------
(* What keeps ExitInv: a step of one monitor, a step of one update.        *)

LEMMA ExitFacts ==
  ASSUME ExitInv, NEW b \in Brackets
  PROVE  /\ TypeInv /\ ExchangeTypeOK /\ MonitorOK(b, monitor[b], placed[b]) /\ monitor[b] \in Monitor
         /\ placed[b] \in 0 .. MaxRevisions /\ MaxRevisions \in Nat
         /\ EntryOK(b, sl[b], placed[b]) /\ sl[b] \in SoftwareSL
         /\ sl[b].tp \in {Tp(b), NoOrder} /\ sl[b].disaster \in {NoOrder} \cup Sent(b, placed[b])
         /\ {sl[b].tp, sl[b].disaster} \subseteq OrderIds \cup {NoOrder}
         /\ (Letting(monitor[b]) => Gone(b))
<1>1. TypeInv /\ ExchangeTypeOK /\ sl \in [Brackets -> SoftwareSL]
  BY DEF ExitInv, TypeInv, TypeOK
<1>2. monitor[b] \in Monitor /\ placed[b] \in 0 .. MaxRevisions /\ BracketOK(b)
  BY DEF ExitInv
<1>3. sl[b] \in SoftwareSL /\ MaxRevisions \in Nat
  BY <1>1, ExchangeAssumption
<1>4. {sl[b].tp, sl[b].disaster} \subseteq OrderIds \cup {NoOrder}
  BY <1>3 DEF SoftwareSL
<1> QED
  BY <1>1, <1>2, <1>3, <1>4 DEF BracketOK, EntryOK

LEMMA EntryTypeInv ==
  ASSUME TypeInv, sl' \in [Brackets -> SoftwareSL], UNCHANGED <<chase, active, stopping, exchangeVars>>
  PROVE  TypeInv'
<1>1. ExchangeTypeOK'
  BY DEF TypeInv, TypeOK, exchangeVars, ledgerVars, ExchangeTypeOK
<1> QED
  BY <1>1 DEF TypeInv, TypeOK

LEMMA AccountTypeInv ==
  ASSUME TypeInv, ExchangeTypeOK', UNCHANGED chaseVars PROVE TypeInv'
  BY DEF TypeInv, TypeOK, chaseVars

LEMMA NoEntryType == NoEntry \in SoftwareSL /\ \A b \in Brackets : \A p : EntryOK(b, NoEntry, p)
  BY DEF NoEntry, SoftwareSL, EntryOK

LEMMA MonitorKeeps ==
  ASSUME ExitInv, TypeInv', Effect, NEW b \in Brackets, NEW m,
         monitor' = [monitor EXCEPT ![b] = m], UNCHANGED <<edit, placed, edits>>,
         MonitorOK(b, m, placed[b]), Letting(m) => Gone(b),
         \A c \in Brackets : sl'[c] = sl[c] \/ sl'[c] = NoEntry
  PROVE  ExitInv'
<1>1. m \in Monitor /\ monitor' \in [Brackets -> Monitor]
  BY DEF MonitorOK, ExitInv
<1>2. ASSUME NEW c \in Brackets PROVE BracketOK(c)'
  <2>1. /\ Gone(c) => Gone(c)'
        /\ \A n \in 0 .. MaxRevisions :
             orders[Disaster(c, n)].status = "none" => orders'[Disaster(c, n)].status = "none"
    BY Settled, ExitFacts
  <2>2. BracketOK(c) /\ monitor \in [Brackets -> Monitor]
    BY DEF ExitInv
  <2>3. MonitorOK(c, monitor'[c], placed[c]) /\ (Letting(monitor'[c]) => Gone(c))
    BY <2>2 DEF BracketOK
  <2>4. EntryOK(c, sl'[c], placed[c])
    BY <2>2, NoEntryType DEF BracketOK
  <2>5. Unanswered(c)' = Unanswered(c)
    BY DEF Unanswered
  <2> QED
    BY <2>1, <2>2, <2>3, <2>4, <2>5 DEF BracketOK
<1> QED
  BY <1>1, <1>2 DEF ExitInv

LEMMA MonitorToInv ==
  ASSUME ExitInv, NEW b \in Brackets, NEW m, MonitorTo(b, m),
         MonitorOK(b, m, placed[b]), Letting(m) => Gone(b)
  PROVE  ExitInv'
<1>1. UNCHANGED vars /\ UNCHANGED <<edit, placed, edits>> /\ monitor' = [monitor EXCEPT ![b] = m]
  BY DEF MonitorTo
<1>2. TypeInv'
  BY <1>1, StutterInv, ExitFacts
<1>3. Effect /\ sl' = sl
  BY <1>1 DEF vars, exchangeVars, chaseVars, Effect
<1> QED
  BY <1>1, <1>2, <1>3, MonitorKeeps

\* Suspending at a call, or sleeping.
LEMMA CallsInv ==
  ASSUME ExitInv, NEW b \in Brackets, NEW m \in Monitor, m.tick < 3 * CheckEvery,
         m.left = "closed" => Gone(b),
         NEW p \in MonitorPoints, NEW o \in {Tp(b), NoOrder} \cup Sent(b, placed[b]),
         p \in CheckPoints => o # NoOrder, p = "tpCancel" => o = Tp(b),
         p \in {"tpCancel", "endCancel"} => Gone(b), MonitorTo(b, Calls(m, p, o))
  PROVE  ExitInv'
<1>1. o \in OrderIds \cup {NoOrder}
  BY ExitFacts, OwnIds
<1> DEFINE q == Calls(m, p, o)
<1>2. /\ q \in Monitor /\ q.pc = p /\ q.reply = "pending" /\ q.target = o /\ q.tick = m.tick
      /\ q.left = m.left
  BY <1>1, CallsFields
<1> HIDE DEF q
<1>3. MonitorOK(b, q, placed[b]) /\ (Letting(q) => Gone(b))
  BY <1>2 DEF MonitorOK, Letting
<1> QED
  BY <1>3, MonitorToInv DEF q

LEMMA SleepsInv ==
  ASSUME ExitInv, NEW b \in Brackets, NEW m \in Monitor, m.tick < 3 * CheckEvery,
         m.left = "closed" => Gone(b), MonitorTo(b, Sleeps(m))
  PROVE  ExitInv'
<1> DEFINE q == Sleeps(m)
<1>1. /\ q \in Monitor /\ q.pc = "sleep" /\ q.reply = "ok" /\ q.target = NoOrder /\ q.tick = m.tick
      /\ q.left = m.left
  BY SleepsFields
<1> HIDE DEF q
<1>2. MonitorOK(b, q, placed[b]) /\ (Letting(q) => Gone(b))
  BY <1>1 DEF MonitorOK, Letting, CheckPoints
<1> QED
  BY <1>2, MonitorToInv DEF q

\* The monitor that returns, with what it says of why.
Off(m, why) == [Sleeps(m) EXCEPT !.pc = "off", !.left = why]

LEMMA OffFields ==
  ASSUME NEW m \in Monitor, NEW why \in {"watching", "stopped", "closed", "triggered"}
  PROVE  /\ Off(m, why) \in Monitor /\ Off(m, why).pc = "off" /\ Off(m, why).reply = "ok"
         /\ Off(m, why).target = NoOrder /\ Off(m, why).tick = m.tick /\ Off(m, why).left = why
<1> DEFINE z == Sleeps(m)
           q == [z EXCEPT !.pc = "off", !.left = why]
<1>1. z \in Monitor /\ z.reply = "ok" /\ z.target = NoOrder /\ z.tick = m.tick
  BY SleepsFields
<1> HIDE DEF z
<1>2. q \in Monitor
  BY <1>1 DEF Monitor
<1>3. q.pc = "off" /\ q.reply = "ok" /\ q.target = NoOrder /\ q.tick = m.tick /\ q.left = why
  BY <1>1 DEF Monitor
<1> QED
  BY <1>2, <1>3 DEF z, Off

LEMMA LeaveInv ==
  ASSUME ExitInv, NEW b \in Brackets, NEW why \in {"stopped", "closed"}, Leave(b, why),
         why = "closed" => Gone(b)
  PROVE  ExitInv'
<1> DEFINE q == Off(monitor[b], why)
<1>1. monitor[b] \in Monitor /\ monitor[b].tick < 3 * CheckEvery /\ monitor \in [Brackets -> Monitor]
  BY ExitFacts DEF MonitorOK, ExitInv
<1>2. /\ q \in Monitor /\ q.pc = "off" /\ q.reply = "ok" /\ q.target = NoOrder
      /\ q.tick = monitor[b].tick /\ q.left = why
  BY <1>1, OffFields
<1>3. monitor' = [monitor EXCEPT ![b] = q]
  BY <1>1 DEF Leave, Off
<1> HIDE DEF q
<1>4. MonitorOK(b, q, placed[b]) /\ (Letting(q) => Gone(b))
  BY <1>1, <1>2 DEF MonitorOK, Letting, CheckPoints
<1>5. /\ sl' = [sl EXCEPT ![b] = NoEntry] /\ sl \in [Brackets -> SoftwareSL]
      /\ UNCHANGED <<chase, active, stopping, exchangeVars, edit, placed, edits>>
  BY DEF Leave, ExitInv, TypeInv, TypeOK
<1>6. TypeInv' /\ Effect
  BY <1>5, NoEntryType, EntryTypeInv, ExitFacts DEF Effect, exchangeVars
<1> QED
  BY <1>3, <1>4, <1>5, <1>6, MonitorKeeps

LEMMA HandOverInv ==
  ASSUME ExitInv, NEW b \in Brackets, HandOver(b) PROVE ExitInv'
<1> DEFINE q == Off(monitor[b], "triggered")
<1>1. monitor[b] \in Monitor /\ monitor[b].tick < 3 * CheckEvery /\ monitor \in [Brackets -> Monitor]
  BY ExitFacts DEF MonitorOK, ExitInv
<1>2. /\ q \in Monitor /\ q.pc = "off" /\ q.reply = "ok" /\ q.target = NoOrder
      /\ q.tick = monitor[b].tick /\ q.left = "triggered"
  BY <1>1, OffFields
<1>3. monitor' = [monitor EXCEPT ![b] = q] /\ Invoke(b) /\ UNCHANGED <<edit, placed, edits>>
  BY <1>1 DEF HandOver, Off
<1> HIDE DEF q
<1>4. MonitorOK(b, q, placed[b]) /\ (Letting(q) => Gone(b))
  BY <1>1, <1>2 DEF MonitorOK, Letting, CheckPoints
<1>5. TypeInv' /\ Effect
  BY <1>3, InvokeInv, ExitFacts DEF Effect, exchangeVars, Invoke
<1>6. sl' = [sl EXCEPT ![b] = NoEntry] /\ sl \in [Brackets -> SoftwareSL]
  BY <1>3 DEF Invoke, ExitInv, TypeInv, TypeOK
<1> QED
  BY <1>3, <1>4, <1>5, <1>6, MonitorKeeps

-----------------------------------------------------------------------------
(* The monitor.                                                            *)

LEMMA FinishInv ==
  ASSUME ExitInv, NEW b \in Brackets, Finish(b), Gone(b) PROVE ExitInv'
<1>1. monitor[b] \in Monitor /\ monitor[b].tick < 3 * CheckEvery
  BY ExitFacts DEF MonitorOK
<1>2. CASE Leave(b, "closed")
  BY <1>2, LeaveInv
<1>3. CASE MonitorTo(b, Calls(monitor[b], "endCancel", sl[b].disaster))
  BY <1>1, <1>3, CallsInv, ExitFacts DEF MonitorPoints, CheckPoints
<1> QED
  BY <1>2, <1>3 DEF Finish

LEMMA CheckPositionInv ==
  ASSUME ExitInv, NEW b \in Brackets, NEW m \in Monitor, m.tick < 3 * CheckEvery,
         m.left = "closed" => Gone(b), CheckPosition(b, m)
  PROVE  ExitInv'
<1>1. CASE MonitorTo(b, Calls(m, "position", NoOrder))
  BY <1>1, CallsInv DEF MonitorPoints, CheckPoints
<1>2. CASE MonitorTo(b, Sleeps(m))
  BY <1>2, SleepsInv
<1> QED
  BY <1>1, <1>2 DEF CheckPosition

LEMMA CheckDisasterInv ==
  ASSUME ExitInv, NEW b \in Brackets, NEW m \in Monitor, m.tick < 3 * CheckEvery,
         m.left = "closed" => Gone(b), CheckDisaster(b, m)
  PROVE  ExitInv'
<1>1. CASE sl[b].disaster # NoOrder /\ MonitorTo(b, Calls(m, "disasterCheck", sl[b].disaster))
  BY <1>1, CallsInv, ExitFacts DEF MonitorPoints, CheckPoints
<1> QED
  BY <1>1, CheckPositionInv DEF CheckDisaster

LEMMA CheckTpInv ==
  ASSUME ExitInv, NEW b \in Brackets, NEW m \in Monitor, m.tick < 3 * CheckEvery,
         m.left = "closed" => Gone(b), CheckTp(b, m)
  PROVE  ExitInv'
<1>1. CASE sl[b].tp # NoOrder /\ MonitorTo(b, Calls(m, "tpCheck", sl[b].tp))
  BY <1>1, CallsInv, ExitFacts DEF MonitorPoints, CheckPoints
<1> QED
  BY <1>1, CheckDisasterInv DEF CheckTp

LEMMA DecideInv ==
  ASSUME ExitInv, NEW b \in Brackets, Decide(b, monitor[b])
  PROVE  ExitInv'
<1> DEFINE m == monitor[b]
           t == Ticked(m)
<1>1. m \in Monitor /\ m.tick < 3 * CheckEvery /\ (m.left = "closed" => Gone(b))
  BY ExitFacts DEF MonitorOK, Letting
<1>2. t \in Monitor /\ t.tick < 3 * CheckEvery /\ (t.left = "closed" => Gone(b))
  BY <1>1, TickedFields
<1>3. \/ MonitorTo(b, Calls(m, "trigPosition", NoOrder)) \/ HandOver(b)
      \/ CheckTp(b, t) \/ MonitorTo(b, Sleeps(t))
  BY DEF Decide
<1> HIDE DEF m, t
<1>4. CASE MonitorTo(b, Calls(m, "trigPosition", NoOrder))
  BY <1>1, <1>4, CallsInv DEF MonitorPoints, CheckPoints
<1>5. CASE CheckTp(b, t) \/ MonitorTo(b, Sleeps(t))
  BY <1>2, <1>5, CheckTpInv, SleepsInv
<1> QED
  BY <1>3, <1>4, <1>5, HandOverInv

-----------------------------------------------------------------------------
(* The updates.                                                            *)

LEMMA CallerCounts ==
  ASSUME NEW S, S \subseteq Callers
  PROVE  /\ IsFiniteSet(S) /\ Cardinality(S) \in Nat
         /\ \A R \in SUBSET S : Cardinality(R) <= Cardinality(S)
         /\ \A c \in S : Cardinality(S \ {c}) = Cardinality(S) - 1
         /\ \A c \in Callers : Cardinality(S \cup {c}) <= Cardinality(S) + 1
<1>1. IsFiniteSet(Callers)
  BY ExitAssumption, FS_Union, FS_Singleton DEF Callers
<1>2. IsFiniteSet(S) /\ Cardinality(S) \in Nat
  BY <1>1, FS_Subset, FS_CardinalityType
<1>3. \A c \in Callers : Cardinality(S \cup {c}) <= Cardinality(S) + 1
  BY <1>2, FS_AddElement
<1>4. \A R \in SUBSET S : Cardinality(R) <= Cardinality(S)
  BY <1>2, FS_Subset
<1>5. \A c \in S : Cardinality(S \ {c}) = Cardinality(S) - 1
  BY <1>2, FS_RemoveElement
<1> QED
  BY <1>2, <1>3, <1>4, <1>5

LEMMA UnansweredFacts ==
  ASSUME NEW b \in Brackets
  PROVE  Unanswered(b) \subseteq Editing(b) /\ Editing(b) \subseteq Callers
  BY DEF Unanswered, Editing

LEMMA EditKeeps ==
  ASSUME ExitInv, TypeInv', Effect, NEW b \in Brackets, NEW c \in Callers, NEW e,
         edit' = [edit EXCEPT ![b][c] = e], placed' = placed, edits' \in 0 .. MaxEdits,
         EditOK(b, e, placed[b]), placed[b] + Cardinality(Unanswered(b)') <= MaxRevisions,
         monitor' \in [Brackets -> Monitor],
         \A x \in Brackets : /\ MonitorOK(x, monitor'[x], placed[x])
                             /\ Letting(monitor'[x]) => Gone(x)
                             /\ EntryOK(x, sl'[x], placed[x])
  PROVE  ExitInv'
<1>1. e \in Edit /\ edit \in [Brackets -> [Callers -> Edit]]
  BY DEF EditOK, ExitInv
<1>2. edit' \in [Brackets -> [Callers -> Edit]]
  BY <1>1
<1>3. ASSUME NEW x \in Brackets PROVE BracketOK(x)'
  <2>1. /\ Gone(x) => Gone(x)'
        /\ \A n \in 0 .. MaxRevisions :
             orders[Disaster(x, n)].status = "none" => orders'[Disaster(x, n)].status = "none"
    BY Settled, ExitFacts
  <2>2. BracketOK(x)
    BY DEF ExitInv
  <2>3. \A d \in Callers : edit'[x][d] = IF x = b /\ d = c THEN e ELSE edit[x][d]
    BY <1>1
  <2>4. \A d \in Callers : EditOK(x, edit'[x][d], placed[x])
    BY <2>2, <2>3 DEF BracketOK
  <2>5. placed[x] + Cardinality(Unanswered(x)') <= MaxRevisions
    <3>1. x # b => Unanswered(x)' = Unanswered(x)
      BY <2>3 DEF Unanswered
    <3> QED
      BY <2>2, <3>1 DEF BracketOK
  <2> QED
    BY <2>1, <2>2, <2>4, <2>5 DEF BracketOK
<1> QED
  BY <1>2, <1>3 DEF ExitInv

\* The update that begins knows the stop the entry names.
Begun(b) == [pc |-> "cancel", reply |-> "pending", old |-> sl[b].disaster, new |-> NoOrder]

LEMMA BeginEditFacts ==
  ASSUME ExitInv, NEW b \in Brackets, NEW c \in Callers, BeginEdit(b, c)
  PROVE  /\ EditOK(b, Begun(b), placed[b]) /\ edit' = [edit EXCEPT ![b][c] = Begun(b)]
         /\ placed[b] + Cardinality(Unanswered(b)') <= MaxRevisions
<1>1. EditOK(b, Begun(b), placed[b]) /\ edit' = [edit EXCEPT ![b][c] = Begun(b)]
  BY ExitFacts DEF BeginEdit, EditOK, Edit, Begun
<1>2. Unanswered(b)' \subseteq Editing(b) \cup {c}
  BY <1>1 DEF Unanswered, Editing, ExitInv
<1>3. Editing(b) \cup {c} \subseteq Callers
  BY DEF Editing
<1>4. /\ Cardinality(Unanswered(b)') <= Cardinality(Editing(b) \cup {c})
      /\ Cardinality(Editing(b) \cup {c}) <= Cardinality(Editing(b)) + 1
      /\ Cardinality(Unanswered(b)') \in Nat /\ Cardinality(Editing(b)) \in Nat
      /\ Cardinality(Editing(b) \cup {c}) \in Nat
  BY <1>2, <1>3, CallerCounts
<1>5. placed[b] + Cardinality(Editing(b)) < MaxRevisions
  BY DEF BeginEdit, Room
<1> QED
  BY <1>1, <1>4, <1>5, ExitFacts

LEMMA UserEditInv ==
  ASSUME ExitInv, NEW b \in Brackets, NEW c \in Callers, UserEdit(b, c) PROVE ExitInv'
<1>1. UNCHANGED vars /\ placed' = placed /\ monitor' = monitor /\ BeginEdit(b, c)
  BY DEF UserEdit
<1>2. edits' \in 0 .. MaxEdits
  BY ExitAssumption DEF UserEdit, ExitInv
<1>3. TypeInv' /\ Effect /\ sl' = sl
  BY <1>1, StutterInv, ExitFacts DEF vars, exchangeVars, chaseVars, Effect
<1>4. monitor' \in [Brackets -> Monitor]
  BY <1>1 DEF ExitInv
<1>5. \A x \in Brackets : /\ MonitorOK(x, monitor'[x], placed[x])
                          /\ Letting(monitor'[x]) => Gone(x)
                          /\ EntryOK(x, sl'[x], placed[x])
  BY <1>1, <1>3, ExitFacts
<1> QED
  BY <1>1, <1>2, <1>3, <1>4, <1>5, BeginEditFacts, EditKeeps

\* A caller whose update moves on without a placement answered by an order.
LEMMA EditMovesInv ==
  ASSUME ExitInv, TypeInv', Effect, NEW b \in Brackets, NEW c \in Callers, NEW e,
         edit' = [edit EXCEPT ![b][c] = e], UNCHANGED <<placed, edits, monitor>>,
         EditOK(b, e, placed[b]),
         e.pc # "idle" /\ e.reply = "pending" =>
           edit[b][c].pc # "idle" /\ edit[b][c].reply = "pending",
         \A x \in Brackets : EntryOK(x, sl'[x], placed[x])
  PROVE  ExitInv'
<1>1. Unanswered(b)' \subseteq Unanswered(b)
  BY DEF Unanswered, ExitInv
<1>2. Cardinality(Unanswered(b)') <= Cardinality(Unanswered(b))
  BY <1>1, UnansweredFacts, CallerCounts
<1>3. placed[b] + Cardinality(Unanswered(b)') <= MaxRevisions
  <2>1. Cardinality(Unanswered(b)') \in Nat /\ Cardinality(Unanswered(b)) \in Nat
    BY <1>1, UnansweredFacts, CallerCounts
  <2>2. placed[b] + Cardinality(Unanswered(b)) <= MaxRevisions
    BY DEF ExitInv, BracketOK
  <2> QED
    BY <1>2, <2>1, <2>2, ExitFacts
<1>4. \A x \in Brackets : /\ MonitorOK(x, monitor'[x], placed[x])
                          /\ Letting(monitor'[x]) => Gone(x)
  BY ExitFacts
<1>5. monitor' \in [Brackets -> Monitor] /\ edits' \in 0 .. MaxEdits /\ placed' = placed
  BY DEF ExitInv
<1> QED
  BY <1>3, <1>4, <1>5, EditKeeps

LEMMA EditFacts ==
  ASSUME ExitInv, NEW b \in Brackets, NEW c \in Callers
  PROVE  EditOK(b, edit[b][c], placed[b]) /\ edit[b][c] \in Edit /\ edit \in [Brackets -> [Callers -> Edit]]
  BY DEF ExitInv, BracketOK

Placing(e) == [e EXCEPT !.pc = "place"]
Took(e, o) == [e EXCEPT !.reply = "ok", !.new = o]
Failed(e) == [e EXCEPT !.reply = "error"]

LEMMA EditFields ==
  ASSUME NEW e \in Edit, NEW o \in OrderIds
  PROVE  /\ Placing(e) \in Edit /\ Placing(e).pc = "place" /\ Placing(e).reply = e.reply
         /\ Placing(e).old = e.old /\ Placing(e).new = e.new
         /\ Took(e, o) \in Edit /\ Took(e, o).pc = e.pc /\ Took(e, o).reply = "ok"
         /\ Took(e, o).old = e.old /\ Took(e, o).new = o
         /\ Failed(e) \in Edit /\ Failed(e).pc = e.pc /\ Failed(e).reply = "error"
         /\ Failed(e).old = e.old /\ Failed(e).new = e.new
<1>1. /\ Placing(e) \in Edit /\ Placing(e).pc = "place" /\ Placing(e).reply = e.reply
      /\ Placing(e).old = e.old /\ Placing(e).new = e.new
  BY DEF Placing, Edit
<1>2. /\ Took(e, o) \in Edit /\ Took(e, o).pc = e.pc /\ Took(e, o).reply = "ok"
      /\ Took(e, o).old = e.old /\ Took(e, o).new = o
  BY DEF Took, Edit
<1>3. /\ Failed(e) \in Edit /\ Failed(e).pc = e.pc /\ Failed(e).reply = "error"
      /\ Failed(e).old = e.old /\ Failed(e).new = e.new
  BY DEF Failed, Edit
<1> QED
  BY <1>1, <1>2, <1>3

LEMMA EditCancelledInv ==
  ASSUME ExitInv, NEW b \in Brackets, NEW c \in Callers, EditCancelled(b, c) PROVE ExitInv'
<1> DEFINE e == edit[b][c]
           f == Placing(e)
<1>1. EditOK(b, e, placed[b]) /\ e \in Edit /\ edit \in [Brackets -> [Callers -> Edit]] /\ e.pc = "cancel"
  BY EditFacts DEF EditCancelled
<1>2. edit' = [edit EXCEPT ![b][c] = f]
  BY <1>1 DEF EditCancelled, Placing
<1>3. EditOK(b, f, placed[b]) /\ f.reply = e.reply
  BY <1>1, EditFields, OwnIds, ExitFacts DEF EditOK
<1>4. UNCHANGED <<placed, edits, monitor, chaseVars, sl>>
  BY DEF EditCancelled, chaseVars
<1>5. ExchangeTypeOK' /\ Effect
  BY FaultCount, CancelEffect, LedgerKept, ExitFacts DEF EditCancelled, Effect
<1>6. TypeInv'
  BY <1>4, <1>5, AccountTypeInv, ExitFacts
<1>7. \A x \in Brackets : EntryOK(x, sl'[x], placed[x])
  BY <1>4, ExitFacts
<1> HIDE DEF f
<1> QED
  BY <1>1, <1>2, <1>3, <1>4, <1>5, <1>6, <1>7, EditMovesInv

LEMMA EditRepliedInv ==
  ASSUME ExitInv, NEW b \in Brackets, NEW c \in Callers, EditReplied(b, c) PROVE ExitInv'
<1> DEFINE e == edit[b][c]
<1>1. EditOK(b, e, placed[b]) /\ e.pc = "place" /\ e.reply # "pending" /\ e \in Edit
  BY EditFacts DEF EditReplied
<1>2. edit' = [edit EXCEPT ![b][c] = NoEdit] /\ EditOK(b, NoEdit, placed[b]) /\ NoEdit.pc = "idle"
  BY DEF EditReplied, EditOK, Edit, NoEdit
<1>3. UNCHANGED <<placed, edits, monitor, chase, active, stopping, exchangeVars>>
  BY DEF EditReplied
<1>4. CASE sl' = sl
  <2>1. TypeInv' /\ Effect
    BY <1>3, <1>4, EntryTypeInv, ExitFacts DEF Effect, exchangeVars, TypeInv, TypeOK
  <2> QED
    BY <1>2, <1>3, <1>4, <2>1, EditMovesInv, ExitFacts
<1>5. CASE sl[b].live /\ e.reply = "ok" /\ sl' = [sl EXCEPT ![b].disaster = e.new]
  <2> DEFINE s == [sl[b] EXCEPT !.disaster = e.new]
  <2>1. e.new \in Sent(b, placed[b]) /\ e.new \in OrderIds
    BY <1>1, <1>5, ExitFacts, OwnIds DEF EditOK
  <2>2. s \in SoftwareSL /\ s.tp = sl[b].tp /\ s.disaster = e.new /\ sl \in [Brackets -> SoftwareSL]
    BY <2>1, ExitFacts DEF SoftwareSL, TypeInv, TypeOK
  <2>3. sl' = [sl EXCEPT ![b] = s]
    BY <1>5, <2>2
  <2> HIDE DEF s
  <2>4. sl' \in [Brackets -> SoftwareSL] /\ \A x \in Brackets : EntryOK(x, sl'[x], placed[x])
    BY <2>1, <2>2, <2>3, ExitFacts DEF EntryOK
  <2>5. TypeInv' /\ Effect
    BY <1>3, <2>4, EntryTypeInv, ExitFacts DEF Effect, exchangeVars
  <2> QED
    BY <1>2, <1>3, <2>4, <2>5, EditMovesInv
<1> QED
  BY <1>4, <1>5 DEF EditReplied

\* A disaster stop that is sent was not among those sent before.
LEMMA PlacedEffect ==
  ASSUME ExitInv, NEW b \in Brackets, placed[b] + 1 <= MaxRevisions,
         Rest(Disaster(b, placed[b] + 1), Amount), NoFault \/ Fault,
         placed' = [placed EXCEPT ![b] = @ + 1]
  PROVE  /\ ExchangeTypeOK' /\ placed' \in [Brackets -> 0 .. MaxRevisions]
         /\ placed'[b] = placed[b] + 1
         /\ \A x \in Brackets : placed[x] <= placed'[x] /\ (Gone(x) => Gone(x)')
         /\ \A x \in Brackets : \A n \in 0 .. MaxRevisions :
              n > placed'[x] => orders'[Disaster(x, n)].status = "none"
<1> DEFINE o == Disaster(b, placed[b] + 1)
<1>1. placed \in [Brackets -> 0 .. MaxRevisions] /\ placed[b] + 1 \in 0 .. MaxRevisions
      /\ MaxRevisions \in Nat
  BY ExitFacts DEF ExitInv
<1>2. o \in OrderIds /\ orders[o].status = "none"
  BY <1>1, OwnIds DEF ExitInv, BracketOK
<1>3. ExchangeTypeOK'
  BY <1>2, ExchangeAssumption, FaultCount, RestEffect, ExitFacts
<1>4. holding' = holding /\ \A p \in OrderIds : p # o => orders'[p] = orders[p]
  BY <1>2, ExitFacts DEF Rest, ExchangeTypeOK
<1>5. /\ placed' \in [Brackets -> 0 .. MaxRevisions] /\ placed'[b] = placed[b] + 1
      /\ \A x \in Brackets : placed[x] <= placed'[x]
  BY <1>1
<1> HIDE DEF o
<1>6. \A x \in Brackets : Gone(x) => Gone(x)'
  <2>1. \A x \in Brackets : {Tp(x)} \cup Disasters(x) \subseteq OrderIds
    BY OwnIds, <1>1 DEF Disasters
  <2> QED
    BY <1>2, <1>4, <2>1 DEF Gone
<1>7. \A x \in Brackets : \A n \in 0 .. MaxRevisions :
        n > placed'[x] => orders'[Disaster(x, n)].status = "none"
  <2> TAKE x \in Brackets
  <2> TAKE n \in 0 .. MaxRevisions
  <2> HAVE n > placed'[x]
  <2>1. n > placed[x] /\ Disaster(x, n) \in OrderIds
    BY <1>1, <1>5, OwnIds
  <2>2. Disaster(x, n) # o
    BY <1>1, <1>5, ApartIds DEF o
  <2> QED
    BY <1>4, <2>1, <2>2 DEF ExitInv, BracketOK
<1> QED
  BY <1>3, <1>5, <1>6, <1>7

LEMMA ServeEditPlaceInv ==
  ASSUME ExitInv, NEW b \in Brackets, NEW c \in Callers, ServeEditPlace(b, c) PROVE ExitInv'
<1> DEFINE e == edit[b][c]
           o == Disaster(b, placed[b] + 1)
           f == Took(e, o)
           g == Failed(e)
<1>1. EditOK(b, e, placed[b]) /\ e.pc = "place" /\ e.reply = "pending" /\ e \in Edit
      /\ edit \in [Brackets -> [Callers -> Edit]]
  BY EditFacts DEF ServeEditPlace
<1>2. UNCHANGED <<chaseVars, monitor, edits, sl>>
  BY DEF ServeEditPlace, chaseVars
<1>3. c \in Unanswered(b) /\ Cardinality(Unanswered(b) \ {c}) = Cardinality(Unanswered(b)) - 1
      /\ Cardinality(Unanswered(b)) \in Nat /\ Cardinality(Unanswered(b) \ {c}) \in Nat
      /\ Cardinality(Unanswered(b)) <= Cardinality(Editing(b)) /\ Cardinality(Editing(b)) \in Nat
      /\ placed[b] + Cardinality(Unanswered(b)) <= MaxRevisions /\ placed[b] \in Nat
      /\ MaxRevisions \in Nat
  <2>1. c \in Unanswered(b)
    BY <1>1 DEF Unanswered
  <2>2. Unanswered(b) \ {c} \subseteq Callers /\ Unanswered(b) \subseteq Callers
    BY DEF Unanswered
  <2> QED
    BY <2>1, <2>2, UnansweredFacts, CallerCounts, ExitFacts DEF ExitInv, BracketOK
<1>4. placed[b] + 1 <= MaxRevisions
  BY <1>3
<1>5. CASE /\ UNCHANGED <<orders, ledgerVars, placed>> /\ (NoFault \/ Fault)
           /\ edit' = [edit EXCEPT ![b][c].reply = "error"]
  <2>1. edit' = [edit EXCEPT ![b][c] = g]
    BY <1>1, <1>5 DEF Failed
  <2>2. EditOK(b, g, placed[b])
    BY <1>1, <1>4, EditFields, OwnIds, ExitFacts DEF EditOK
  <2>3. TypeInv' /\ Effect
    BY <1>2, <1>5, FaultCount, LedgerKept, AccountTypeInv, ExitFacts DEF Effect
  <2>4. g.reply = "error"
    BY <1>1 DEF Edit, Failed
  <2>5. \A x \in Brackets : EntryOK(x, sl'[x], placed[x])
    BY <1>2, ExitFacts
  <2> HIDE DEF g
  <2> QED
    BY <1>2, <1>5, <2>1, <2>2, <2>3, <2>4, <2>5, EditMovesInv
<1>6. CASE /\ Rest(o, Amount) /\ placed' = [placed EXCEPT ![b] = @ + 1] /\ (NoFault \/ Fault)
           /\ \/ edit' = [edit EXCEPT ![b][c] = [@ EXCEPT !.reply = "ok", !.new = o]]
              \/ Room(b) /\ UNCHANGED edit
  <2>1. /\ ExchangeTypeOK' /\ placed' \in [Brackets -> 0 .. MaxRevisions]
        /\ placed'[b] = placed[b] + 1
        /\ \A x \in Brackets : placed[x] <= placed'[x] /\ (Gone(x) => Gone(x)')
        /\ \A x \in Brackets : \A n \in 0 .. MaxRevisions :
             n > placed'[x] => orders'[Disaster(x, n)].status = "none"
    BY <1>4, <1>6, PlacedEffect
  <2>2. TypeInv'
    BY <1>2, <2>1, AccountTypeInv, ExitFacts
  <2>3. o \in Sent(b, placed'[b]) /\ o \in OrderIds
    BY <1>3, <1>4, <2>1, OwnIds
  <2> HIDE DEF o
  <2>4. EditOK(b, f, placed'[b]) /\ f \in Edit /\ f.reply = "ok"
    <3>1. EditOK(b, e, placed'[b])
      BY <1>1, <2>1, SentGrows, ExitFacts
    <3>2. f \in Edit /\ f.pc = e.pc /\ f.reply = "ok" /\ f.old = e.old /\ f.new = o
      BY <1>1, <2>3, EditFields
    <3>3. o # NoOrder
      BY <2>3, ApartIds
    <3> QED
      BY <1>1, <2>3, <3>1, <3>2, <3>3 DEF EditOK
  <2>5. edit' = [edit EXCEPT ![b][c] = f] \/ (Room(b) /\ edit' = edit)
    BY <1>1, <1>6 DEF Took
  <2> HIDE DEF f
  <2>6. edit' \in [Brackets -> [Callers -> Edit]]
    BY <1>1, <2>4, <2>5
  <2>7. placed'[b] + Cardinality(Unanswered(b)') <= MaxRevisions
    <3>1. CASE edit' = [edit EXCEPT ![b][c] = f]
      <4>1. Unanswered(b)' = Unanswered(b) \ {c}
        BY <1>1, <2>4, <3>1 DEF Unanswered
      <4> QED
        BY <1>3, <2>1, <4>1
    <3>2. CASE Room(b) /\ edit' = edit
      <4>1. Unanswered(b)' = Unanswered(b)
        BY <3>2 DEF Unanswered
      <4> QED
        BY <1>3, <2>1, <3>2, <4>1 DEF Room
    <3> QED
      BY <2>5, <3>1, <3>2
  <2>8. ASSUME NEW x \in Brackets PROVE BracketOK(x)'
    <3>1. BracketOK(x) /\ placed[x] \in 0 .. MaxRevisions /\ placed'[x] \in 0 .. MaxRevisions
      BY <2>1 DEF ExitInv
    <3>2. MonitorOK(x, monitor'[x], placed'[x]) /\ EntryOK(x, sl'[x], placed'[x])
      BY <1>2, <2>1, <3>1, SentGrows DEF BracketOK
    <3>3. \A d \in Callers : EditOK(x, edit'[x][d], placed'[x])
      <4>1. \A d \in Callers : EditOK(x, edit[x][d], placed'[x])
        BY <2>1, <3>1, SentGrows DEF BracketOK
      <4> QED
        BY <1>1, <2>4, <2>5, <4>1
    <3>4. placed'[x] + Cardinality(Unanswered(x)') <= MaxRevisions
      <4>1. x # b => Unanswered(x)' = Unanswered(x) /\ placed'[x] = placed[x]
        BY <1>1, <1>6, <2>5, <3>1 DEF Unanswered, ExitInv
      <4> QED
        BY <2>7, <3>1, <4>1 DEF BracketOK
    <3> QED
      BY <1>2, <2>1, <3>1, <3>2, <3>3, <3>4 DEF BracketOK
  <2> QED
    BY <1>2, <2>1, <2>2, <2>6, <2>8 DEF ExitInv
<1> QED
  BY <1>5, <1>6 DEF ServeEditPlace

-----------------------------------------------------------------------------
(* Every step keeps ExitInv.                                               *)

LEMMA MonitorFacts ==
  ASSUME ExitInv, NEW b \in Brackets
  PROVE  /\ monitor[b] \in Monitor /\ monitor[b].tick < 3 * CheckEvery
         /\ (monitor[b].reply = "closed" => Gone(b)) /\ (monitor[b].left = "closed" => Gone(b))
         /\ (monitor[b].pc \in {"tpCancel", "endCancel"} => Gone(b))
         /\ monitor \in [Brackets -> Monitor]
  BY ExitFacts DEF MonitorOK, Letting, ExitInv

LEMMA StreakFields ==
  ASSUME NEW m \in Monitor, NEW n \in {0, 1}
  PROVE  /\ [m EXCEPT !.streak = n] \in Monitor /\ [m EXCEPT !.streak = n].tick = m.tick
         /\ [m EXCEPT !.streak = n].left = m.left
<1>1. [m EXCEPT !.streak = n] \in Monitor
  BY DEF Monitor
<1>2. [m EXCEPT !.streak = n].tick = m.tick /\ [m EXCEPT !.streak = n].left = m.left
  BY DEF Monitor
<1> QED
  BY <1>1, <1>2

LEMMA BreakevenInv ==
  ASSUME ExitInv, NEW b \in Brackets, BeginEdit(b, "monitor"), UNCHANGED <<vars, placed, edits>>,
         monitor' = [monitor EXCEPT ![b] = [Calls(@, "breakeven", NoOrder) EXCEPT !.breakeven = TRUE]]
  PROVE  ExitInv'
<1> DEFINE z == Calls(monitor[b], "breakeven", NoOrder)
           q == [z EXCEPT !.breakeven = TRUE]
<1>1. /\ z \in Monitor /\ z.pc = "breakeven" /\ z.reply = "pending" /\ z.target = NoOrder
      /\ z.tick = monitor[b].tick /\ z.left = monitor[b].left
  BY MonitorFacts, CallsFields DEF MonitorPoints
<1> HIDE DEF z
<1>2. q \in Monitor
  BY <1>1 DEF Monitor
<1>3. /\ q.pc = "breakeven" /\ q.reply = "pending" /\ q.target = NoOrder
      /\ q.tick = monitor[b].tick /\ q.left = monitor[b].left
  BY <1>1 DEF Monitor
<1>4. monitor' = [monitor EXCEPT ![b] = q] /\ monitor \in [Brackets -> Monitor]
  BY MonitorFacts DEF z
<1> HIDE DEF q
<1>5. MonitorOK(b, q, placed[b]) /\ (Letting(q) => Gone(b))
  BY <1>2, <1>3, MonitorFacts DEF MonitorOK, Letting, CheckPoints
<1>6. TypeInv' /\ Effect /\ sl' = sl /\ edits' \in 0 .. MaxEdits /\ placed' = placed
  BY StutterInv, ExitFacts DEF vars, exchangeVars, chaseVars, Effect, ExitInv
<1>7. monitor' \in [Brackets -> Monitor]
  BY <1>2, <1>4
<1>8. \A x \in Brackets : /\ MonitorOK(x, monitor'[x], placed[x])
                          /\ Letting(monitor'[x]) => Gone(x)
                          /\ EntryOK(x, sl'[x], placed[x])
  BY <1>4, <1>5, <1>6, ExitFacts
<1>9. "monitor" \in Callers
  BY DEF Callers
<1> QED
  BY <1>6, <1>7, <1>8, <1>9, BeginEditFacts, EditKeeps

LEMMA MonitorStepInv ==
  ASSUME ExitInv, NEW b \in Brackets, MonitorStep(b) PROVE ExitInv'
<1> DEFINE m == monitor[b]
<1>0. /\ m \in Monitor /\ m.tick < 3 * CheckEvery /\ (m.reply = "closed" => Gone(b))
      /\ (m.left = "closed" => Gone(b)) /\ (m.pc \in {"tpCancel", "endCancel"} => Gone(b))
      /\ sl[b].tp \in {Tp(b), NoOrder} /\ sl[b].disaster \in {NoOrder} \cup Sent(b, placed[b])
      /\ monitor \in [Brackets -> Monitor]
  BY MonitorFacts, ExitFacts
<1> USE DEF MonitorPoints, CheckPoints
<1>1. CASE Wake(b)
  <2>1. \/ MonitorTo(b, Calls(m, "ticker", NoOrder)) \/ Leave(b, "stopped")
        \/ MonitorTo(b, Calls(m, "userCancel", sl[b].disaster))
    BY <1>1 DEF Wake
  <2> QED
    BY <1>0, <2>1, CallsInv, LeaveInv
<1>2. CASE TickerReplied(b)
  <2>1. CASE /\ Fault /\ monitor' = [monitor EXCEPT ![b] = Sleeps(@)]
             /\ UNCHANGED <<orders, ledgerVars, chaseVars, edit, placed, edits>>
    <3>1. ExchangeTypeOK' /\ TypeInv' /\ Effect /\ sl' = sl
      BY <2>1, FaultCount, LedgerKept, AccountTypeInv, ExitFacts DEF Effect, chaseVars
    <3> DEFINE q == Sleeps(m)
    <3>2. /\ q \in Monitor /\ q.pc = "sleep" /\ q.reply = "ok" /\ q.target = NoOrder
          /\ q.tick = m.tick /\ q.left = m.left
      BY <1>0, SleepsFields
    <3>3. monitor' = [monitor EXCEPT ![b] = q]
      BY <2>1
    <3> HIDE DEF q
    <3>4. MonitorOK(b, q, placed[b]) /\ (Letting(q) => Gone(b))
      BY <1>0, <3>2 DEF MonitorOK, Letting
    <3> QED
      BY <2>1, <3>1, <3>3, <3>4, MonitorKeeps
  <2>2. CASE /\ BeginEdit(b, "monitor") /\ UNCHANGED <<vars, placed, edits>>
             /\ monitor' = [monitor EXCEPT ![b] =
                              [Calls(@, "breakeven", NoOrder) EXCEPT !.breakeven = TRUE]]
    BY <2>2, BreakevenInv
  <2>3. CASE Decide(b, m)
    BY <2>3, DecideInv
  <2> QED
    BY <1>2, <2>1, <2>2, <2>3 DEF TickerReplied
<1>3. CASE BreakevenDone(b)
  BY <1>3, DecideInv DEF BreakevenDone
<1>4. CASE TrigPositionReplied(b)
  BY <1>0, <1>4, FinishInv, HandOverInv DEF TrigPositionReplied, Answer
<1>5. CASE TpCheckReplied(b)
  BY <1>0, <1>5, FinishInv, CheckDisasterInv DEF TpCheckReplied, Answer
<1>6. CASE DisasterCheckReplied(b)
  <2>1. CASE Answer(b, "disasterCheck", "closed")
    <3>1. Finish(b) \/ (sl[b].tp # NoOrder /\ MonitorTo(b, Calls(m, "tpCancel", sl[b].tp)))
      BY <1>6, <2>1 DEF DisasterCheckReplied, Answer
    <3> QED
      BY <1>0, <2>1, <3>1, FinishInv, CallsInv DEF Answer
  <2>2. CASE Answer(b, "disasterCheck", "open")
    BY <1>0, <1>6, <2>2, CheckPositionInv DEF DisasterCheckReplied, Answer
  <2> QED
    BY <1>6, <2>1, <2>2 DEF DisasterCheckReplied
<1>7. CASE StreakReplied(b)
  <2>1. \/ \E n \in {0, 1} : MonitorTo(b, Sleeps([m EXCEPT !.streak = n]))
        \/ m.reply = "closed" /\ Finish(b)
    BY <1>7 DEF StreakReplied, Answer
  <2> QED
    BY <1>0, <2>1, StreakFields, SleepsInv, FinishInv
<1>8. CASE CancelReplied(b)
  BY <1>0, <1>8, FinishInv, LeaveInv DEF CancelReplied, Answer
<1> QED
  BY <1>1, <1>2, <1>3, <1>4, <1>5, <1>6, <1>7, <1>8 DEF MonitorStep

LEMMA ToldInv ==
  ASSUME ExitInv, NEW b \in Brackets, NEW word \in {"ok", "open", "closed"}, Told(b, word),
         ExchangeTypeOK', Effect, word = "closed" => Gone(b)
  PROVE  ExitInv'
<1> DEFINE q == [monitor[b] EXCEPT !.reply = word]
<1>1. monitor[b] \in Monitor /\ MonitorOK(b, monitor[b], placed[b]) /\ (Letting(monitor[b]) => Gone(b))
  BY ExitFacts
<1>2. /\ q \in Monitor /\ q.pc = monitor[b].pc /\ q.reply = word /\ q.target = monitor[b].target
      /\ q.tick = monitor[b].tick /\ q.left = monitor[b].left
  BY <1>1 DEF Monitor
<1>3. monitor' = [monitor EXCEPT ![b] = q] /\ UNCHANGED <<edit, placed, edits, chaseVars, sl>>
  BY MonitorFacts DEF Told, chaseVars
<1> HIDE DEF q
<1>4. MonitorOK(b, q, placed[b]) /\ (Letting(q) => Gone(b))
  BY <1>1, <1>2 DEF MonitorOK, Letting
<1>5. TypeInv'
  BY <1>3, AccountTypeInv, ExitFacts
<1> QED
  BY <1>3, <1>4, <1>5, MonitorKeeps

LEMMA ServeMonitorInv ==
  ASSUME ExitInv, NEW b \in Brackets, ServeMonitor(b) PROVE ExitInv'
<1>1. CASE ServePosition(b)
  <2>1. ExchangeTypeOK' /\ Effect
    BY <1>1, FaultCount, LedgerKept, ExitFacts DEF ServePosition, Effect
  <2>2. Told(b, "open") \/ (Told(b, "closed") /\ ~(holding > 0))
    BY <1>1 DEF ServePosition
  <2>3. ~(holding > 0) => Gone(b)
    BY ExitFacts DEF ExchangeTypeOK, Gone
  <2> QED
    BY <2>1, <2>2, <2>3, ToldInv
<1>2. CASE ServeCheck(b)
  <2>1. ExchangeTypeOK' /\ Effect
    BY <1>2, FaultCount, LedgerKept, ExitFacts DEF ServeCheck, Effect
  <2>2. Told(b, "open") \/ (Told(b, "closed") /\ orders[monitor[b].target].status = "closed")
    BY <1>2 DEF ServeCheck
  <2>3. monitor[b].target \in {Tp(b)} \cup Disasters(b)
    BY <1>2, OwnIds, ExitFacts DEF ServeCheck, MonitorOK, CheckPoints
  <2> QED
    BY <2>1, <2>2, <2>3, ToldInv DEF Gone
<1>3. CASE ServeMonitorCancel(b)
  <2>1. ExchangeTypeOK' /\ Effect
    BY <1>3, FaultCount, LedgerKept, CancelEffect, ExitFacts DEF ServeMonitorCancel, Effect
  <2> QED
    BY <1>3, <2>1, ToldInv DEF ServeMonitorCancel
<1> QED
  BY <1>1, <1>2, <1>3 DEF ServeMonitor

LEMMA StillInv ==
  ASSUME ExitInv, TypeInv', Effect, UNCHANGED exitVars,
         \A x \in Brackets : EntryOK(x, sl'[x], placed[x])
  PROVE  ExitInv'
<1>1. UNCHANGED <<monitor, edit, placed, edits>>
  BY DEF exitVars
<1>2. ASSUME NEW x \in Brackets PROVE BracketOK(x)'
  <2>1. /\ Gone(x) => Gone(x)'
        /\ \A n \in 0 .. MaxRevisions :
             orders[Disaster(x, n)].status = "none" => orders'[Disaster(x, n)].status = "none"
    BY Settled, ExitFacts
  <2>2. BracketOK(x) /\ Unanswered(x)' = Unanswered(x)
    BY <1>1 DEF ExitInv, Unanswered
  <2> QED
    BY <1>1, <2>1, <2>2 DEF BracketOK
<1> QED
  BY <1>1, <1>2 DEF ExitInv

LEMMA StopMonitorInv ==
  ASSUME ExitInv, NEW b \in Brackets, StopMonitor(b) PROVE ExitInv'
<1> DEFINE s == [sl[b] EXCEPT !.cancelled = TRUE]
<1>1. s \in SoftwareSL /\ s.tp = sl[b].tp /\ s.disaster = sl[b].disaster
  BY ExitFacts DEF SoftwareSL
<1>2. sl' = [sl EXCEPT ![b] = s] /\ sl \in [Brackets -> SoftwareSL]
      /\ UNCHANGED <<chase, active, stopping, exchangeVars, exitVars>>
  BY DEF StopMonitor, ExitInv, TypeInv, TypeOK
<1> HIDE DEF s
<1>3. sl' \in [Brackets -> SoftwareSL] /\ \A x \in Brackets : EntryOK(x, sl'[x], placed[x])
  BY <1>1, <1>2, ExitFacts DEF EntryOK
<1>4. TypeInv' /\ Effect
  BY <1>2, <1>3, EntryTypeInv, ExitFacts DEF Effect, exchangeVars
<1> QED
  BY <1>2, <1>3, <1>4, StillInv

LEMMA CoroutineEntries ==
  ASSUME NEW b \in Brackets, Coroutine(b) PROVE UNCHANGED <<sl, stopping, exchangeVars>>
  BY DEF Coroutine, ScanReplied, CleanupReplied, SizeReplied, RecheckReplied, BookArrives,
     SyncReplied, PlaceReplied, ResyncReplied, ReplaceReplied, RoPositionReplied, IsyncReplied,
     PositionReplied, PauseEnds, WatchEnds, WatchCancelled, UserCancelReplied, StatusReplied,
     RepegReplied, RefillReplied, BreakerBalanceReplied, BreakerReplied, FinalBalanceReplied,
     FinalReplied, Sized, Register, Resume

LEMMA ServeEffect ==
  ASSUME TypeInv, NEW b \in Brackets, Serve(b) PROVE Effect /\ sl' = sl
<1>1. Sound(b, chase[b]) /\ chase[b] \in Chase /\ chase[b].remaining \in Nat /\ chase[b].attempts \in Nat
      /\ MaxAttempts \in Nat
  BY LocalsFacts DEF Chase
<1>2. CASE ServePlace(b)
  <2>1. chase[b].attempts \in 1 .. MaxAttempts
    BY <1>1, <1>2 DEF ServePlace, Pending, Sound, AttemptPoints
  <2> QED
    BY <1>1, <1>2, <2>1 DEF ServePlace, Effect, Reply
<1>3. CASE ServeMarket(b)
  <2>1. chase[b].num \in Nat
    BY <1>1, <1>3 DEF ServeMarket, Pending, Sound
  <2> QED
    BY <1>3, <2>1 DEF ServeMarket, Effect, Reply
<1>4. CASE ServeRead(b) \/ ServeScan(b) \/ ServeFetch(b)
  BY <1>4 DEF ServeRead, ServeScan, ServeFetch, Effect, Reply
<1>5. CASE ServeCleanup(b) \/ ServeCancel(b)
  BY <1>5 DEF ServeCleanup, ServeCancel, Effect, Reply, exchangeVars
<1> QED
  BY <1>2, <1>3, <1>4, <1>5 DEF Serve

LEMMA ChaseStepInv ==
  ASSUME ExitInv, NEW b \in Brackets, ChaseStep(b), UNCHANGED exitVars PROVE ExitInv'
<1>1. TypeInv'
  BY CoroutineInv, ServeInv, StopInv, ExitFacts DEF ChaseStep
<1>2. Effect /\ sl' = sl
  <2>1. CASE Coroutine(b)
    BY <2>1, CoroutineEntries DEF Effect, exchangeVars
  <2>2. CASE Serve(b)
    BY <2>2, ServeEffect, ExitFacts
  <2>3. CASE Stop(b) \/ ServeStop(b)
    BY <2>3 DEF Stop, ServeStop, Effect, exchangeVars
  <2> QED
    BY <2>1, <2>2, <2>3 DEF ChaseStep
<1> QED
  BY <1>1, <1>2, StillInv, ExitFacts

LEMMA NextExitInv == ExitInv /\ [ExitNext]_allVars => ExitInv'
<1> SUFFICES ASSUME ExitInv, [ExitNext]_allVars PROVE ExitInv'
  OBVIOUS
<1>1. CASE UNCHANGED <<vars, exitVars>>
  <2>1. TypeInv' /\ Effect /\ sl' = sl
    BY <1>1, StutterInv DEF vars, exchangeVars, chaseVars, Effect, ExitInv
  <2> QED
    BY <1>1, <2>1, StillInv, ExitFacts
<1>2. CASE MarketMoves /\ UNCHANGED exitVars
  <2>1. ExchangeTypeOK' /\ Effect /\ UNCHANGED chaseVars /\ sl' = sl
    BY <1>2, MarketEffect DEF MarketMoves, Effect, chaseVars, ExitInv, TypeInv, TypeOK
  <2>2. TypeInv'
    BY <2>1, AccountTypeInv DEF ExitInv
  <2> QED
    BY <1>2, <2>1, <2>2, StillInv, ExitFacts
<1>3. ASSUME NEW b \in Brackets, NEW c \in Callers, UserEdit(b, c) \/ EditStep(b, c) PROVE ExitInv'
  BY <1>3, UserEditInv, EditCancelledInv, ServeEditPlaceInv, EditRepliedInv DEF EditStep
<1> QED
  BY <1>1, <1>2, <1>3, MonitorStepInv, ServeMonitorInv, StopMonitorInv, ChaseStepInv
  DEF ExitNext, AllLeft, allVars

LEMMA InitExitInv == ExitInit => ExitInv
<1> SUFFICES ASSUME ExitInit PROVE ExitInv
  OBVIOUS
<1>1. TypeInv /\ Init
  BY InitTypeInv DEF ExitInit
<1>2. PICK tps \in SUBSET Brackets, disasters \in SUBSET {b \in Brackets : Futures} :
        LET resting == {Tp(b) : b \in tps} \cup {Disaster(b, 0) : b \in disasters}
        IN  /\ orders = [o \in OrderIds |->
                           [status |-> IF o \in resting THEN "open" ELSE "none",
                            qty |-> IF o \in resting THEN Amount ELSE 0,
                            filled |-> 0]]
            /\ sl = [b \in Brackets |->
                       [live |-> TRUE, cancelled |-> FALSE,
                        tp |-> IF b \in tps THEN Tp(b) ELSE NoOrder,
                        disaster |-> IF b \in disasters THEN Disaster(b, 0) ELSE NoOrder]]
  BY <1>1 DEF Init
<1>3. /\ 0 \in 0 .. MaxRevisions /\ MaxRevisions \in Nat /\ 0 \in 0 .. 3 * CheckEvery
      /\ 0 < 3 * CheckEvery /\ 0 \in 0 .. MaxEdits /\ "monitor" \in Callers
  BY ExchangeAssumption, ExitAssumption DEF Callers
<1>4. /\ monitor \in [Brackets -> Monitor] /\ edit \in [Brackets -> [Callers -> Edit]]
      /\ placed \in [Brackets -> 0 .. MaxRevisions] /\ edits \in 0 .. MaxEdits
  BY <1>3 DEF ExitInit, Monitor, Edit, NoEdit
<1>5. ASSUME NEW b \in Brackets PROVE BracketOK(b)
  <2>1. MonitorOK(b, monitor[b], placed[b]) /\ ~Letting(monitor[b])
    BY <1>3, <1>4 DEF ExitInit, MonitorOK, Letting, CheckPoints
  <2>2. \A c \in Callers : EditOK(b, edit[b][c], placed[b])
    BY <1>4 DEF ExitInit, EditOK, NoEdit
  <2>3. EntryOK(b, sl[b], placed[b])
    BY <1>2, <1>3, OwnIds DEF ExitInit, EntryOK
  <2>4. placed[b] + Cardinality(Unanswered(b)) <= MaxRevisions
    <3>1. Unanswered(b) = {}
      BY DEF ExitInit, Unanswered, NoEdit
    <3> QED
      BY <1>3, <3>1, FS_EmptySet DEF ExitInit
  <2>5. \A n \in 0 .. MaxRevisions : n > placed[b] => orders[Disaster(b, n)].status = "none"
    <3> TAKE n \in 0 .. MaxRevisions
    <3> HAVE n > placed[b]
    <3>1. n # 0 /\ Disaster(b, n) \in OrderIds
      BY <1>3, OwnIds DEF ExitInit
    <3>2. Disaster(b, n) \notin {Tp(x) : x \in tps} \cup {Disaster(x, 0) : x \in disasters}
      BY <3>1, ApartIds
    <3> QED
      BY <1>2, <3>1, <3>2
  <2> QED
    BY <2>1, <2>2, <2>3, <2>4, <2>5 DEF BracketOK
<1> QED
  BY <1>1, <1>4, <1>5 DEF ExitInv

LEMMA ExitInvAlways == ExitSpec => []ExitInv
  BY InitExitInv, NextExitInv, PTL DEF ExitSpec

\* For any brackets, editors, integrity period and bounds: the locals of every
\* monitor and update, and the account under them, keep their types; a placement
\* whose answer is lost never runs out of ids for the updates still in flight.
THEOREM ExitTypes == ExitSpec => []ExitTypeOK
<1>1. ExitInv => ExitTypeOK
  BY DEF ExitInv, ExitTypeOK, TypeInv
<1> QED
  BY <1>1, ExitInvAlways, PTL

\* For any brackets and bounds, and whatever calls raise: a monitor that reports a
\* closed position was right, now or when it asked - the position is gone, or the
\* take-profit or one of the disaster stops of the bracket has filled.
THEOREM NothingDisarms == ExitSpec => []NoSilentDisarm
<1>1. ExitInv => NoSilentDisarm
  BY DEF ExitInv, BracketOK, Letting, Gone, NoSilentDisarm
<1> QED
  BY <1>1, ExitInvAlways, PTL

(***************************************************************************)
(* The recorded stop rests.  A bracket still in the registry has no chase  *)
(* yet, so where no other bracket is on the symbol only updates and the    *)
(* monitor cancel stops.  A stop that an update has placed and not yet     *)
(* recorded rests, and nobody else can know it: it is not the recorded     *)
(* one, not what any call in flight is about, and no other update's.  So   *)
(* when its answer is recorded it still rests, however updates overlap.    *)
(***************************************************************************)
Unstarted ==
  \A b \in Brackets :
    sl[b].live => chase[b].pc = "idle" /\ b \notin active /\ stopping[b] = NoOrder

EndPoints == {"endCancel", "userCancel"}
Fresh(b) == {c \in Callers : edit[b][c].pc = "place" /\ edit[b][c].reply = "ok"}
Rests(o) == orders[o].status \in {"open", "closed"}

FreshRest(b) ==
  \A c \in Fresh(b) :
    /\ Rests(edit[b][c].new)
    /\ edit[b][c].new # sl[b].disaster /\ edit[b][c].new # monitor[b].target
    /\ \A d \in Callers : edit[b][c].new # edit[b][d].old
    /\ \A d \in Fresh(b) : edit[b][c].new = edit[b][d].new => c = d

NoneRefused(b) == \A c \in Callers : ~(edit[b][c].pc = "place" /\ edit[b][c].reply = "error")

Replacing(b) == \E c \in Callers : edit[b][c].old = sl[b].disaster

RecordRests(b) ==
  sl[b].disaster # NoOrder /\ monitor[b].pc \notin EndPoints /\ ~Replacing(b)
    => Rests(sl[b].disaster)

Watched(b) == sl[b].live /\ faults = 0 /\ holding > 0

RestInv ==
  /\ Unstarted
  /\ \A b \in Brackets : Watched(b) => FreshRest(b) /\ NoneRefused(b) /\ RecordRests(b)


Ending(b) == monitor[b].pc \in EndPoints

\* What a step of the monitor comes down to: the hand-off; the last step, with the
\* stop cancelled or none recorded; a ticker that raised; or a move of its own.
Kind(b) ==
  \/ HandOver(b)
  \/ /\ \E why : Leave(b, why)
     /\ IF Ending(b) THEN monitor[b].reply = "ok" ELSE sl[b].disaster = NoOrder
  \/ /\ Fault /\ UNCHANGED <<orders, ledgerVars, chaseVars, edit, placed, edits>>
     /\ \E m : monitor' = [monitor EXCEPT ![b] = m]
     /\ monitor'[b].pc = "sleep" /\ monitor'[b].target = NoOrder
  \/ /\ UNCHANGED <<vars, placed, edits>>
     /\ \E m : monitor' = [monitor EXCEPT ![b] = m]
     /\ monitor'[b].target \in {NoOrder, sl[b].tp, sl[b].disaster}
     /\ monitor'[b].pc \in EndPoints =>
          monitor'[b].reply = "pending" /\ monitor'[b].target = sl[b].disaster
     /\ edit' = edit \/ (BeginEdit(b, "monitor") /\ monitor'[b].pc = "breakeven")

LEMMA CallsKind ==
  ASSUME ExitInv, NEW b \in Brackets, NEW m \in Monitor, NEW p \in MonitorPoints,
         NEW o \in {NoOrder, sl[b].tp, sl[b].disaster}, MonitorTo(b, Calls(m, p, o)),
         p \in EndPoints => o = sl[b].disaster
  PROVE  Kind(b)
<1> DEFINE z == Calls(m, p, o)
<1>1. o \in OrderIds \cup {NoOrder}
  BY ExitFacts
<1>2. z.target = o /\ z.pc = p /\ z.reply = "pending"
  BY <1>1, CallsFields
<1>3. /\ monitor' = [monitor EXCEPT ![b] = z] /\ monitor'[b] = z
      /\ UNCHANGED <<vars, placed, edits>> /\ edit' = edit
  BY MonitorFacts DEF MonitorTo
<1> HIDE DEF z
<1> QED
  BY <1>2, <1>3 DEF Kind

LEMMA SleepsKind ==
  ASSUME ExitInv, NEW b \in Brackets, NEW m \in Monitor, MonitorTo(b, Sleeps(m)) PROVE Kind(b)
<1> DEFINE z == Sleeps(m)
<1>1. z.target = NoOrder /\ z.pc = "sleep"
  BY SleepsFields
<1>2. /\ monitor' = [monitor EXCEPT ![b] = z] /\ monitor'[b] = z
      /\ UNCHANGED <<vars, placed, edits>> /\ edit' = edit
  BY MonitorFacts DEF MonitorTo
<1> HIDE DEF z
<1> QED
  BY <1>1, <1>2 DEF Kind, EndPoints

LEMMA GoneKind ==
  ASSUME ExitInv, NEW b \in Brackets, HandOver(b) \/ (\E why : Leave(b, why))
  PROVE  sl' = [sl EXCEPT ![b] = NoEntry] /\ sl'[b] = NoEntry /\ ~sl'[b].live
<1>1. sl' = [sl EXCEPT ![b] = NoEntry]
  BY DEF HandOver, Invoke, Leave
<1> QED
  BY <1>1 DEF NoEntry, ExitInv, TypeInv, TypeOK

LEMMA FinishKind ==
  ASSUME ExitInv, NEW b \in Brackets, ~Ending(b), Finish(b) PROVE Kind(b)
<1>1. CASE Leave(b, "closed") /\ sl[b].disaster = NoOrder
  BY <1>1 DEF Kind
<1>2. CASE MonitorTo(b, Calls(monitor[b], "endCancel", sl[b].disaster))
  BY <1>2, MonitorFacts, CallsKind DEF MonitorPoints
<1> QED
  BY <1>1, <1>2 DEF Finish

LEMMA CheckDisasterKind ==
  ASSUME ExitInv, NEW b \in Brackets, NEW m \in Monitor, CheckDisaster(b, m) PROVE Kind(b)
<1>1. \/ \E p \in MonitorPoints \ EndPoints, o \in {NoOrder, sl[b].tp, sl[b].disaster} :
           MonitorTo(b, Calls(m, p, o))
      \/ MonitorTo(b, Sleeps(m))
  BY DEF CheckDisaster, CheckPosition, MonitorPoints, EndPoints
<1> QED
  BY <1>1, CallsKind, SleepsKind

LEMMA DecideKind ==
  ASSUME ExitInv, NEW b \in Brackets, Decide(b, monitor[b]) PROVE Kind(b)
<1> DEFINE m == monitor[b]
           t == Ticked(m)
<1>1. m \in Monitor /\ t \in Monitor
  BY MonitorFacts, TickedFields
<1>2. \/ MonitorTo(b, Calls(m, "trigPosition", NoOrder)) \/ HandOver(b)
      \/ MonitorTo(b, Calls(t, "tpCheck", sl[b].tp)) \/ CheckDisaster(b, t) \/ MonitorTo(b, Sleeps(t))
  BY DEF Decide, CheckTp
<1> HIDE DEF m, t
<1>3. CASE HandOver(b)
  BY <1>3 DEF Kind
<1>4. {"trigPosition", "tpCheck"} \subseteq MonitorPoints \ EndPoints
  BY DEF MonitorPoints, EndPoints
<1> QED
  BY <1>1, <1>2, <1>3, <1>4, CallsKind, SleepsKind, CheckDisasterKind

LEMMA MonitorKind ==
  ASSUME ExitInv, NEW b \in Brackets, MonitorStep(b)
  PROVE  Kind(b) /\ (Ending(b) => monitor[b].reply = "ok" /\ \E why : Leave(b, why))
<1> DEFINE m == monitor[b]
<1>0. m \in Monitor /\ {"ticker", "userCancel", "tpCancel", "position"} \subseteq MonitorPoints
      /\ {"ticker", "tpCancel", "position"} \cap EndPoints = {}
  BY MonitorFacts DEF MonitorPoints, EndPoints
<1>1. CASE Wake(b)
  <2>1. \/ MonitorTo(b, Calls(m, "ticker", NoOrder))
        \/ Leave(b, "stopped") /\ sl[b].disaster = NoOrder
        \/ MonitorTo(b, Calls(m, "userCancel", sl[b].disaster))
    BY <1>1 DEF Wake
  <2>2. ~Ending(b)
    BY <1>1 DEF Wake, Ending, EndPoints
  <2>3. Kind(b)
    BY <1>0, <2>1, <2>2, CallsKind DEF Kind
  <2> QED
    BY <2>2, <2>3
<1>2. CASE TickerReplied(b)
  <2>1. ASSUME Fault, monitor' = [monitor EXCEPT ![b] = Sleeps(@)],
               UNCHANGED <<orders, ledgerVars, chaseVars, edit, placed, edits>>
        PROVE  Kind(b)
    <3> DEFINE z == Sleeps(m)
    <3>1. z.target = NoOrder /\ z.pc = "sleep"
      BY <1>0, SleepsFields
    <3>2. monitor' = [monitor EXCEPT ![b] = z] /\ monitor'[b] = z
      BY <2>1, MonitorFacts
    <3> HIDE DEF z
    <3> QED
      BY <2>1, <3>1, <3>2 DEF Kind
  <2>2. ASSUME BeginEdit(b, "monitor"), UNCHANGED <<vars, placed, edits>>,
               monitor' = [monitor EXCEPT ![b] =
                             [Calls(@, "breakeven", NoOrder) EXCEPT !.breakeven = TRUE]]
        PROVE  Kind(b)
    <3> DEFINE z == Calls(m, "breakeven", NoOrder)
               q == [z EXCEPT !.breakeven = TRUE]
    <3>1. z \in Monitor /\ z.target = NoOrder /\ z.pc = "breakeven"
      BY <1>0, CallsFields DEF MonitorPoints
    <3>2. monitor' = [monitor EXCEPT ![b] = q] /\ monitor'[b] = q
      BY <2>2, MonitorFacts
    <3> HIDE DEF z
    <3>3. q.target = NoOrder /\ q.pc = "breakeven"
      BY <3>1 DEF Monitor
    <3> HIDE DEF q
    <3>4. monitor'[b].target = NoOrder /\ monitor'[b].pc = "breakeven"
          /\ monitor'[b].pc \notin EndPoints
      BY <3>2, <3>3 DEF EndPoints
    <3> QED
      BY <2>2, <3>2, <3>4 DEF Kind
  <2>3. ASSUME Decide(b, m) PROVE Kind(b)
    BY <2>3, DecideKind
  <2>4. Kind(b)
    BY <1>2, <2>1, <2>2, <2>3 DEF TickerReplied
  <2> QED
    BY <1>2, <2>4 DEF TickerReplied, Ending, EndPoints
<1>3. CASE BreakevenDone(b)
  BY <1>3, DecideKind DEF BreakevenDone, Ending, EndPoints
<1>4. CASE TrigPositionReplied(b)
  BY <1>4, FinishKind DEF TrigPositionReplied, Answer, Kind, Ending, EndPoints
<1>5. CASE TpCheckReplied(b)
  BY <1>0, <1>5, FinishKind, CheckDisasterKind DEF TpCheckReplied, Answer, Ending, EndPoints
<1>6. CASE DisasterCheckReplied(b)
  <2>1. \/ Finish(b) \/ MonitorTo(b, Sleeps(m)) \/ MonitorTo(b, Calls(m, "tpCancel", sl[b].tp))
        \/ MonitorTo(b, Calls(m, "position", NoOrder))
    BY <1>6 DEF DisasterCheckReplied, CheckPosition
  <2>2. ~Ending(b)
    BY <1>6 DEF DisasterCheckReplied, Answer, Ending, EndPoints
  <2> QED
    BY <1>0, <2>1, <2>2, FinishKind, CallsKind, SleepsKind
<1>7. CASE StreakReplied(b)
  <2>1. \/ \E n \in {0, 1} : MonitorTo(b, Sleeps([m EXCEPT !.streak = n])) \/ Finish(b)
    BY <1>7 DEF StreakReplied
  <2>2. ~Ending(b)
    BY <1>7 DEF StreakReplied, Answer, Ending, EndPoints
  <2> QED
    BY <1>0, <2>1, <2>2, FinishKind, StreakFields, SleepsKind
<1>8. CASE CancelReplied(b)
  <2>1. CASE Answer(b, "tpCancel", "ok") /\ Finish(b)
    BY <2>1, FinishKind DEF Answer, Ending, EndPoints
  <2>2. CASE Ending(b) /\ monitor[b].reply = "ok" /\ \E why : Leave(b, why)
    BY <2>2 DEF Kind
  <2> QED
    BY <1>8, <2>1, <2>2 DEF CancelReplied, Answer, Ending, EndPoints
<1> QED
  BY <1>1, <1>2, <1>3, <1>4, <1>5, <1>6, <1>7, <1>8 DEF MonitorStep

-----------------------------------------------------------------------------
(* What a step that places and records nothing must leave alone.           *)

LEMMA StopNamed ==
  ASSUME ExitInv, NEW b \in Brackets
  PROVE  /\ sl[b].disaster \in {NoOrder} \cup Sent(b, placed[b])
         /\ sl[b].tp \in {Tp(b), NoOrder} /\ monitor[b].target \in {Tp(b), NoOrder} \cup Sent(b, placed[b])
         /\ NoOrder \notin Sent(b, placed[b]) /\ Tp(b) # sl[b].disaster
         /\ Sent(b, placed[b]) \subseteq OrderIds
<1>1. Sent(b, placed[b]) \subseteq OrderIds /\ NoOrder \notin OrderIds /\ Tp(b) \in OrderIds
  BY OwnIds, ApartIds, ExitFacts
<1>2. Tp(b) \notin Sent(b, placed[b])
  BY ApartIds DEF Sent
<1> QED
  BY <1>1, <1>2, ExitFacts DEF MonitorOK

LEMMA CallsNamed ==
  ASSUME ExitInv, NEW b \in Brackets, NEW c \in Callers
  PROVE  /\ edit[b][c].old \in {NoOrder} \cup Sent(b, placed[b])
         /\ c \in Fresh(b) => edit[b][c].new \in Sent(b, placed[b])
         /\ sl[b].disaster \in {NoOrder} \cup Sent(b, placed[b])
         /\ sl[b].tp \in {Tp(b), NoOrder} /\ monitor[b].target \in {Tp(b), NoOrder} \cup Sent(b, placed[b])
         /\ NoOrder \notin Sent(b, placed[b]) /\ Tp(b) \notin Sent(b, placed[b])
         /\ Tp(b) # NoOrder
         /\ Sent(b, placed[b]) \subseteq OrderIds
<1>1. Sent(b, placed[b]) \subseteq OrderIds /\ NoOrder \notin OrderIds /\ Tp(b) \in OrderIds
  BY OwnIds, ApartIds, ExitFacts
<1>2. Tp(b) \notin Sent(b, placed[b])
  BY ApartIds DEF Sent
<1> QED
  BY <1>1, <1>2, EditFacts, ExitFacts DEF EditOK, MonitorOK, Fresh

LEMMA QuietStep ==
  ASSUME ExitInv, NEW b \in Brackets, FreshRest(b), NoneRefused(b), RecordRests(b), NEW x,
         \A o \in Sent(b, placed[b]) : Rests(o) /\ o # x => Rests(o)',
         \A c \in Fresh(b) : edit[b][c].new # x,
         sl'[b].disaster = sl[b].disaster,
         monitor'[b].target \in {monitor[b].target, NoOrder, sl[b].tp, sl[b].disaster},
         monitor[b].pc \in EndPoints => monitor'[b].pc \in EndPoints,
         \A c \in Callers :
           /\ edit'[b][c].new = edit[b][c].new \/ edit'[b][c].pc # "place"
           /\ edit'[b][c].old \in {edit[b][c].old, sl[b].disaster}
           /\ edit'[b][c].pc = "place" =>
                edit'[b][c].reply = "pending" \/ (edit[b][c].pc = "place" /\ edit[b][c].reply = edit'[b][c].reply),
         Replacing(b) => Replacing(b)',
         x = sl[b].disaster => Replacing(b)' \/ monitor'[b].pc \in EndPoints
  PROVE  FreshRest(b)' /\ NoneRefused(b)' /\ RecordRests(b)'
<1>1. \A c \in Callers : c \in Fresh(b)' => c \in Fresh(b) /\ edit'[b][c].new = edit[b][c].new
  BY DEF Fresh
<1>2. \A c \in Fresh(b) : edit[b][c].new \in Sent(b, placed[b]) /\ edit[b][c].new # NoOrder /\ edit[b][c].new # Tp(b)
  BY CallsNamed DEF Fresh
<1>3. FreshRest(b)'
  <2> SUFFICES ASSUME NEW c \in Callers, c \in Fresh(b)'
               PROVE  /\ Rests(edit[b][c].new)'
                      /\ edit'[b][c].new # sl'[b].disaster /\ edit'[b][c].new # monitor'[b].target
                      /\ \A d \in Callers : edit'[b][c].new # edit'[b][d].old
                      /\ \A d \in Fresh(b)' : edit'[b][c].new = edit'[b][d].new => c = d
    BY DEF FreshRest, Fresh
  <2> DEFINE o == edit[b][c].new
  <2>1. c \in Fresh(b) /\ edit'[b][c].new = o /\ o \in Sent(b, placed[b]) /\ o # x /\ Rests(o)
    BY <1>1, <1>2 DEF FreshRest
  <2>2. \A p \in Sent(b, placed[b]) : Rests(p) /\ p # x => orders'[p].status \in {"open", "closed"}
    BY DEF Rests
  <2>3. Rests(edit[b][c].new)'
    BY <2>1, <2>2 DEF Rests
  <2>4. o # sl'[b].disaster /\ o # monitor'[b].target
    BY <1>2, <2>1, ExitFacts DEF FreshRest
  <2>5. \A d \in Callers : o # edit'[b][d].old
    BY <2>1 DEF FreshRest
  <2>6. \A d \in Fresh(b)' : o = edit'[b][d].new => c = d
    BY <1>1, <2>1 DEF FreshRest, Fresh
  <2> QED
    BY <2>1, <2>3, <2>4, <2>5, <2>6
<1>4. NoneRefused(b)'
  BY DEF NoneRefused
<1>5. RecordRests(b)'
  <2> SUFFICES ASSUME sl[b].disaster # NoOrder, monitor'[b].pc \notin EndPoints, ~Replacing(b)'
               PROVE  orders'[sl[b].disaster].status \in {"open", "closed"}
    BY DEF RecordRests, Rests
  <2>1. Rests(sl[b].disaster) /\ sl[b].disaster \in Sent(b, placed[b]) /\ sl[b].disaster # x
    BY ExitFacts DEF RecordRests
  <2> QED
    BY <2>1 DEF Rests
<1> QED
  BY <1>3, <1>4, <1>5

LEMMA CancelRests ==
  ASSUME ExchangeTypeOK, NEW x, CancelOrders({x})
  PROVE  \A o \in OrderIds : Rests(o) /\ o # x => Rests(o)'
  BY DEF CancelOrders, Rests

LEMMA MarketRests ==
  ASSUME ExchangeTypeOK, Market PROVE \A o \in OrderIds : Rests(o) => Rests(o)'
<1>1. ASSUME NEW p \in OrderIds, Fill(p), NEW o \in OrderIds, Rests(o)
      PROVE  orders'[o].status \in {"open", "closed"}
  <2>1. PICK k \in 1 .. Lesser(Left(p), holding) :
          orders' = [orders EXCEPT ![p].filled = @ + k,
                                   ![p].status = IF k = Left(p) THEN "closed" ELSE "open"]
    BY <1>1 DEF Fill
  <2> DEFINE w == IF k = Left(p) THEN "closed" ELSE "open"
             a == [orders EXCEPT ![p].filled = orders[p].filled + k]
  <2>2. a \in [OrderIds -> [status : {"none", "open", "closed", "canceled"}, qty : Nat, filled : {orders[q].filled : q \in OrderIds} \cup {orders[p].filled + k}]]
    BY DEF ExchangeTypeOK, Order
  <2>3. \A q \in OrderIds : q # p => a[q] = orders[q]
    BY DEF ExchangeTypeOK
  <2>4. orders' = [a EXCEPT ![p].status = w]
    BY <2>1
  <2> HIDE DEF a, w
  <2>5. orders'[p].status = w /\ \A q \in OrderIds : q # p => orders'[q] = a[q]
    BY <2>2, <2>4
  <2>6. w \in {"open", "closed"}
    BY DEF w
  <2> QED
    BY <1>1, <2>3, <2>5, <2>6 DEF Rests
<1>2. ASSUME NEW p \in OrderIds, ReleaseLots(p) PROVE orders' = orders
  BY <1>2 DEF ReleaseLots
<1>3. CASE CloseOutside
  BY <1>3 DEF CloseOutside, Rests
<1> QED
  BY <1>1, <1>2, <1>3 DEF Market, Rests

LEMMA IdleChase ==
  ASSUME NEW b \in Brackets, ChaseStep(b), sl[b].live, Unstarted PROVE FALSE
  BY DEF ChaseStep, Coroutine, ScanReplied, CleanupReplied, SizeReplied, RecheckReplied,
     BookArrives, SyncReplied, PlaceReplied, ResyncReplied, ReplaceReplied, RoPositionReplied,
     IsyncReplied, PositionReplied, PauseEnds, WatchEnds, WatchCancelled, UserCancelReplied,
     StatusReplied, RepegReplied, RefillReplied, BreakerBalanceReplied, BreakerReplied,
     FinalBalanceReplied, FinalReplied, Replied, Serve, ServeRead, ServeScan, ServeCleanup,
     ServePlace, ServeCancel, ServeFetch, ServeMarket, Pending, ReadPoints, PlacePoints,
     MarketPoints, CancelPoints, FetchPoints, Stop, ServeStop, Unstarted

LEMMA NextUnstarted ==
  ASSUME ExitInv, Unstarted, [ExitNext]_allVars PROVE Unstarted'
<1>1. /\ sl \in [Brackets -> SoftwareSL] /\ chase \in [Brackets -> Chase]
      /\ stopping \in [Brackets -> OrderIds \cup {NoOrder}] /\ ~NoEntry.live
  BY DEF ExitInv, TypeInv, TypeOK, NoEntry
<1>2. CASE UNCHANGED <<chase, active, stopping>> /\ \A b \in Brackets : sl'[b].live => sl[b].live
  BY <1>2 DEF Unstarted
<1>3. ASSUME NEW b \in Brackets, HandOver(b) PROVE Unstarted'
  BY <1>1, <1>3 DEF HandOver, Invoke, Unstarted
<1>4. ASSUME NEW b \in Brackets, ChaseStep(b) PROVE Unstarted'
  <2>1. ~sl[b].live
    BY <1>4, IdleChase
  <2>2. sl' = sl
    BY <1>4, CoroutineEntries, ServeEffect DEF ChaseStep, Stop, ServeStop, ExitInv
  <2>3. \A c \in Brackets : c # b => chase'[c] = chase[c] /\ stopping'[c] = stopping[c]
                                     /\ (c \notin active => c \notin active')
    <3>1. CASE Coroutine(b)
      <4>1. (\E r : Resume(b, r)) \/ (\E r : Register(b, r))
        BY <3>1 DEF Coroutine, ScanReplied, CleanupReplied, SizeReplied, RecheckReplied, BookArrives,
           SyncReplied, PlaceReplied, ResyncReplied, ReplaceReplied, RoPositionReplied, IsyncReplied,
           PositionReplied, PauseEnds, WatchEnds, WatchCancelled, UserCancelReplied, StatusReplied,
           RepegReplied, RefillReplied, BreakerBalanceReplied, BreakerReplied, FinalBalanceReplied,
           FinalReplied, Sized
      <4> QED
        BY <1>1, <4>1 DEF Resume, Register
    <3>2. CASE Serve(b)
      BY <1>1, <3>2 DEF Serve, ServeRead, ServeScan, ServeCleanup, ServePlace, ServeCancel, ServeFetch,
         ServeMarket, Reply
    <3>3. CASE Stop(b) \/ ServeStop(b)
      BY <1>1, <3>3 DEF Stop, ServeStop
    <3> QED
      BY <1>4, <3>1, <3>2, <3>3 DEF ChaseStep
  <2> QED
    BY <2>1, <2>2, <2>3 DEF Unstarted
<1>5. ASSUME NEW b \in Brackets, MonitorStep(b) PROVE Unstarted'
  <2>1. CASE HandOver(b)
    BY <2>1, <1>3
  <2>2. CASE ~HandOver(b)
    <3>1. UNCHANGED <<chase, active, stopping>>
      BY <1>5, <2>2 DEF MonitorStep, Wake, TickerReplied, BreakevenDone, TrigPositionReplied,
         TpCheckReplied, DisasterCheckReplied, StreakReplied, CancelReplied, Finish, Decide, CheckTp,
         CheckDisaster, CheckPosition, MonitorTo, Leave, vars, chaseVars
    <3>2. sl' = sl \/ sl' = [sl EXCEPT ![b] = NoEntry]
      BY <1>5, <2>2 DEF MonitorStep, Wake, TickerReplied, BreakevenDone, TrigPositionReplied,
         TpCheckReplied, DisasterCheckReplied, StreakReplied, CancelReplied, Finish, Decide, CheckTp,
         CheckDisaster, CheckPosition, MonitorTo, Leave, vars, chaseVars
    <3> QED
      BY <1>1, <1>2, <3>1, <3>2
  <2> QED
    BY <2>1, <2>2
<1>6. ASSUME NEW b \in Brackets, ServeMonitor(b) PROVE Unstarted'
  BY <1>2, <1>6 DEF ServeMonitor, ServePosition, ServeCheck, ServeMonitorCancel, Told, chaseVars
<1>7. ASSUME NEW b \in Brackets, StopMonitor(b) PROVE Unstarted'
  BY <1>1, <1>2, <1>7 DEF StopMonitor, SoftwareSL
<1>8. ASSUME NEW b \in Brackets, NEW c \in Callers, UserEdit(b, c) \/ EditStep(b, c) PROVE Unstarted'
  <2>1. CASE EditReplied(b, c)
    BY <1>1, <1>2, <2>1 DEF EditReplied, SoftwareSL
  <2>2. CASE UserEdit(b, c) \/ EditCancelled(b, c) \/ ServeEditPlace(b, c)
    BY <1>2, <2>2 DEF UserEdit, EditCancelled, ServeEditPlace, vars, chaseVars
  <2> QED
    BY <1>8, <2>1, <2>2 DEF EditStep
<1>9. CASE MarketMoves
  BY <1>2, <1>9 DEF MarketMoves, chaseVars
<1>10. CASE UNCHANGED <<vars, exitVars>>
  BY <1>2, <1>10 DEF vars, chaseVars
<1> QED
  BY <1>4, <1>5, <1>6, <1>7, <1>8, <1>9, <1>10 DEF ExitNext, AllLeft, allVars

\* What a watched bracket keeps, one lemma per part that steps.
StopsRest(b) == FreshRest(b) /\ NoneRefused(b) /\ RecordRests(b)

LEMMA MonitorRest ==
  ASSUME ExitInv, NEW b \in Brackets, StopsRest(b), MonitorStep(b), sl'[b].live, ~(faults' > 0)
  PROVE  StopsRest(b)'
<1>0. Kind(b) /\ ~HandOver(b) /\ ~(\E why : Leave(b, why)) /\ ~Ending(b) /\ ~Fault
  BY MonitorKind, GoneKind, ExitFacts DEF Fault, ExchangeTypeOK
<1>1. /\ UNCHANGED vars /\ monitor[b].pc \notin EndPoints
      /\ monitor'[b].target \in {NoOrder, sl[b].tp, sl[b].disaster}
      /\ edit' = edit \/ BeginEdit(b, "monitor")
  BY <1>0 DEF Kind, Ending
<1>2. orders' = orders /\ sl' = sl
  BY <1>1 DEF vars, exchangeVars, chaseVars
<1>3. /\ \A c \in Callers :
           /\ edit'[b][c].new = edit[b][c].new \/ edit'[b][c].pc # "place"
           /\ edit'[b][c].old \in {edit[b][c].old, sl[b].disaster}
           /\ edit'[b][c].pc = "place" =>
                edit'[b][c].reply = "pending" \/ (edit[b][c].pc = "place" /\ edit[b][c].reply = edit'[b][c].reply)
      /\ Replacing(b) => Replacing(b)'
  <2>1. CASE edit' = edit
    BY <1>2, <2>1 DEF Replacing
  <2>2. CASE BeginEdit(b, "monitor")
    <3>1. edit' = [edit EXCEPT ![b]["monitor"] = Begun(b)] /\ "monitor" \in Callers
          /\ edit \in [Brackets -> [Callers -> Edit]]
      BY <2>2, BeginEditFacts DEF Callers, ExitInv
    <3>2. \A c \in Callers : edit'[b][c] = IF c = "monitor" THEN Begun(b) ELSE edit[b][c]
      BY <3>1
    <3>3. Begun(b).pc = "cancel" /\ Begun(b).old = sl[b].disaster
      BY DEF Begun
    <3> QED
      BY <1>2, <3>1, <3>2, <3>3 DEF Replacing
  <2> QED
    BY <1>1, <2>1, <2>2
<1>4. /\ \A o \in Sent(b, placed[b]) : Rests(o) /\ o # Tp(b) => Rests(o)'
      /\ \A c \in Fresh(b) : edit[b][c].new # Tp(b)
  BY <1>2, CallsNamed DEF Rests, Fresh
<1> QED
  BY <1>1, <1>2, <1>3, <1>4, StopNamed, QuietStep DEF StopsRest

LEMMA ServeMonitorRest ==
  ASSUME ExitInv, NEW b \in Brackets, StopsRest(b), ServeMonitor(b), NoFault
  PROVE  StopsRest(b)'
<1>1. PICK word \in {"ok", "open", "closed"} : Told(b, word)
  BY DEF ServeMonitor, ServePosition, ServeCheck, ServeMonitorCancel
<1>2. /\ monitor'[b].pc = monitor[b].pc /\ monitor'[b].target = monitor[b].target
      /\ UNCHANGED <<sl, edit, placed>>
  BY <1>1, MonitorFacts DEF Told, chaseVars, Monitor
<1>3. ExchangeTypeOK /\ \A c \in Fresh(b) : /\ edit[b][c].new # monitor[b].target
                                            /\ edit[b][c].new # Tp(b)
  BY CallsNamed, ExitFacts DEF StopsRest, FreshRest, Fresh
<1>4. CASE orders' = orders
  <2>1. /\ \A o \in Sent(b, placed[b]) : Rests(o) /\ o # Tp(b) => Rests(o)'
        /\ Tp(b) # sl[b].disaster
    BY <1>4, StopNamed DEF Rests
  <2> QED
    BY <1>2, <1>3, <2>1, QuietStep DEF StopsRest, Replacing
<1>5. CASE ServeMonitorCancel(b) /\ CancelOrders({monitor[b].target})
  <2>1. \A o \in Sent(b, placed[b]) : Rests(o) /\ o # monitor[b].target => Rests(o)'
    BY <1>3, <1>5, CancelRests, StopNamed
  <2>2. monitor[b].target = sl[b].disaster => monitor'[b].pc \in EndPoints
    BY <1>2, <1>5, StopNamed, ExitFacts DEF ServeMonitorCancel, EndPoints, MonitorOK
  <2> QED
    BY <1>2, <1>3, <2>1, <2>2, QuietStep DEF StopsRest, Replacing
<1> QED
  BY <1>4, <1>5 DEF ServeMonitor, ServePosition, ServeCheck, ServeMonitorCancel

LEMMA UserEditRest ==
  ASSUME ExitInv, NEW b \in Brackets, StopsRest(b), NEW c \in Callers, UserEdit(b, c)
  PROVE  StopsRest(b)'
<1>1. UNCHANGED vars /\ orders' = orders /\ sl' = sl /\ monitor' = monitor /\ BeginEdit(b, c)
  BY DEF UserEdit, vars, exchangeVars, chaseVars
<1>2. edit' = [edit EXCEPT ![b][c] = Begun(b)] /\ edit \in [Brackets -> [Callers -> Edit]]
  BY <1>1, BeginEditFacts DEF ExitInv
<1>3. \A d \in Callers : edit'[b][d] = IF d = c THEN Begun(b) ELSE edit[b][d]
  BY <1>2
<1>4. Begun(b).pc = "cancel" /\ Begun(b).old = sl[b].disaster
  BY DEF Begun
<1>5. Replacing(b)'
  BY <1>1, <1>3, <1>4 DEF Replacing
<1>6. /\ \A o \in Sent(b, placed[b]) : Rests(o) /\ o # Tp(b) => Rests(o)'
      /\ \A d \in Fresh(b) : edit[b][d].new # Tp(b)
  BY <1>1, CallsNamed DEF Rests, Fresh
<1> QED
  BY <1>1, <1>3, <1>4, <1>5, <1>6, QuietStep DEF StopsRest

LEMMA EditCancelledRest ==
  ASSUME ExitInv, NEW b \in Brackets, StopsRest(b), NEW c \in Callers, EditCancelled(b, c), NoFault
  PROVE  StopsRest(b)'
<1> DEFINE e == edit[b][c]
<1>1. EditOK(b, e, placed[b]) /\ e \in Edit /\ edit \in [Brackets -> [Callers -> Edit]] /\ e.pc = "cancel"
      /\ e.reply = "pending"
  BY EditFacts DEF EditCancelled, EditOK
<1>2. edit' = [edit EXCEPT ![b][c] = Placing(e)]
  BY <1>1 DEF EditCancelled, Placing
<1>3. \A d \in Callers : edit'[b][d] = IF d = c THEN Placing(e) ELSE edit[b][d]
  BY <1>1, <1>2
<1>4. /\ Placing(e).pc = "place" /\ Placing(e).reply = "pending" /\ Placing(e).old = e.old
      /\ Placing(e).new = e.new
  BY <1>1, OwnIds, ExitFacts, EditFields
<1>5. CancelOrders({e.old}) \/ orders' = orders
  BY DEF EditCancelled
<1>6. \A o \in Sent(b, placed[b]) : Rests(o) /\ o # e.old => Rests(o)'
  <2>1. CASE CancelOrders({e.old})
    BY <2>1, CancelRests, CallsNamed, ExitFacts
  <2>2. CASE orders' = orders
    BY <2>2 DEF Rests
  <2> QED
    BY <1>5, <2>1, <2>2
<1>7. \A d \in Fresh(b) : edit[b][d].new # e.old
  BY DEF StopsRest, FreshRest, Fresh
<1>8. UNCHANGED <<sl, monitor, placed>>
  BY DEF EditCancelled, chaseVars
<1>9. (Replacing(b) => Replacing(b)') /\ (e.old = sl[b].disaster => Replacing(b)')
  BY <1>3, <1>4, <1>8 DEF Replacing
<1>10. \A d \in Callers :
         /\ edit'[b][d].new = edit[b][d].new
         /\ edit'[b][d].old = edit[b][d].old
         /\ edit'[b][d].pc = "place" =>
              edit'[b][d].reply = "pending" \/ (edit[b][d].pc = "place" /\ edit[b][d].reply = edit'[b][d].reply)
  BY <1>3, <1>4
<1> QED
  BY <1>6, <1>7, <1>8, <1>9, <1>10, QuietStep DEF StopsRest

\* The id of the next placement: in bounds and new.
LEMMA PlacedId ==
  ASSUME ExitInv, NEW b \in Brackets, NEW c \in Callers, ServeEditPlace(b, c)
  PROVE  /\ placed[b] + 1 <= MaxRevisions
         /\ Disaster(b, placed[b] + 1) \in OrderIds
         /\ Disaster(b, placed[b] + 1) \notin Sent(b, placed[b])
         /\ Disaster(b, placed[b] + 1) # NoOrder /\ Disaster(b, placed[b] + 1) # Tp(b)
<1> DEFINE p == placed[b]
           o == Disaster(b, p + 1)
<1>1. p \in 0 .. MaxRevisions /\ edit[b][c].pc = "place" /\ edit[b][c].reply = "pending"
  BY ExitFacts DEF ServeEditPlace
<1>2. p + 1 <= MaxRevisions
  <2>1. /\ Unanswered(b) # {} /\ Cardinality(Unanswered(b)) \in Nat
        /\ p + Cardinality(Unanswered(b)) <= MaxRevisions
    <3>1. c \in Unanswered(b)
      BY <1>1 DEF Unanswered
    <3> QED
      BY <3>1, CallerCounts DEF Unanswered, ExitInv, BracketOK
  <2>2. Cardinality(Unanswered(b)) # 0
    BY <2>1, CallerCounts, FS_EmptySet DEF Unanswered
  <2> QED
    BY <1>1, <2>1, <2>2, ExchangeAssumption
<1>3. p + 1 \in 0 .. MaxRevisions /\ \A n \in 0 .. p : n # p + 1
  BY <1>1, <1>2, ExchangeAssumption
<1>4. o \in OrderIds
  BY <1>3, OwnIds
<1>5. o \notin Sent(b, p)
  BY <1>3, ApartIds DEF Sent
<1> QED
  BY <1>2, <1>4, <1>5, ApartIds

LEMMA PlaceRest ==
  ASSUME ExitInv, NEW b \in Brackets, StopsRest(b), NEW c \in Callers, ServeEditPlace(b, c),
         NoFault, holding > 0
  PROVE  StopsRest(b)'
<1> DEFINE e == edit[b][c]
           p == placed[b]
           o == Disaster(b, p + 1)
           f == Took(e, o)
<1>1. /\ e \in Edit /\ edit \in [Brackets -> [Callers -> Edit]] /\ e.pc = "place"
      /\ UNCHANGED <<sl, monitor>> /\ faults \in Nat /\ p \in 0 .. MaxRevisions
      /\ orders \in [OrderIds -> Order]
  BY EditFacts, ExitFacts DEF ServeEditPlace, chaseVars, ExchangeTypeOK
<1>2. /\ Rest(o, Amount)
      /\ edit' = [edit EXCEPT ![b][c] = [@ EXCEPT !.reply = "ok", !.new = o]]
  BY <1>1 DEF ServeEditPlace, NoFault, Fault
<1>3. edit' = [edit EXCEPT ![b][c] = f]
  BY <1>1, <1>2 DEF Took
<1>5. o \in OrderIds /\ o \notin Sent(b, p) /\ o # NoOrder /\ o # Tp(b)
  BY PlacedId
<1> HIDE DEF o, p
<1>6. f.pc = "place" /\ f.reply = "ok" /\ f.old = e.old /\ f.new = o
  <2>1. e \in Edit /\ o \in OrderIds /\ e.pc = "place"
    BY <1>1, <1>5
  <2> HIDE DEF e
  <2> QED
    BY <2>1, EditFields
<1> HIDE DEF f
<1>7. \A d \in Callers : edit'[b][d] = IF d = c THEN f ELSE edit[b][d]
  BY <1>1, <1>3
<1>8. orders'[o].status = "open" /\ \A q \in Sent(b, p) : orders'[q] = orders[q]
  BY <1>1, <1>2, <1>5, StopNamed DEF Rest, p
<1>9. /\ sl[b].disaster \in {NoOrder} \cup Sent(b, p) /\ sl[b].disaster # o
      /\ monitor[b].target # o /\ NoOrder \notin Sent(b, p)
  BY <1>5, StopNamed DEF p
<1>10. \A d \in Callers : /\ edit[b][d].old # o
                          /\ d \in Fresh(b) => edit[b][d].new \in Sent(b, p)
  BY <1>5, CallsNamed DEF p
<1>11. Fresh(b)' = Fresh(b) \cup {c} /\ c \notin Fresh(b) /\ Fresh(b) \subseteq Callers
  <2>1. e.reply = "pending"
    BY DEF ServeEditPlace
  <2> QED
    BY <1>6, <1>7, <2>1 DEF Fresh
<1>12. /\ edit'[b][c].new = o
       /\ \A d \in Fresh(b) : edit'[b][d].new = edit[b][d].new /\ edit[b][d].new \in Sent(b, p)
       /\ \A d \in Callers : edit'[b][d].old = edit[b][d].old
  <2>1. edit'[b][c].new = o
    BY <1>6, <1>7
  <2>2. \A d \in Callers : d # c => edit'[b][d] = edit[b][d]
    BY <1>7
  <2>3. \A d \in Fresh(b) : edit'[b][d].new = edit[b][d].new /\ edit[b][d].new \in Sent(b, p)
    BY <1>10, <1>11, <2>2
  <2>4. \A d \in Callers : edit'[b][d].old = edit[b][d].old
    BY <1>6, <1>7
  <2> QED
    BY <2>1, <2>3, <2>4
<1>13. FreshRest(b)'
  <2> SUFFICES ASSUME NEW d \in Fresh(b) \cup {c}
               PROVE  /\ orders'[edit'[b][d].new].status \in {"open", "closed"}
                      /\ edit'[b][d].new # sl[b].disaster /\ edit'[b][d].new # monitor[b].target
                      /\ \A x \in Callers : edit'[b][d].new # edit[b][x].old
                      /\ \A x \in Fresh(b) \cup {c} : edit'[b][d].new = edit'[b][x].new => d = x
    BY <1>1, <1>11, <1>12 DEF FreshRest, Rests
  <2>1. CASE d = c
    <3>1. edit'[b][d].new = o /\ orders'[o].status = "open"
      BY <1>8, <1>12, <2>1
    <3>2. \A x \in Fresh(b) : edit'[b][x].new # o
      BY <1>5, <1>12
    <3> QED
      BY <1>9, <1>10, <2>1, <3>1, <3>2
  <2>2. CASE d \in Fresh(b)
    <3>1. edit'[b][d].new = edit[b][d].new /\ edit[b][d].new \in Sent(b, p)
      BY <1>12, <2>2
    <3>2. \A x \in Fresh(b) \cup {c} : edit'[b][d].new = edit'[b][x].new => d = x
      BY <1>5, <1>12, <2>2, <3>1 DEF StopsRest, FreshRest
    <3> QED
      BY <1>8, <2>2, <3>1, <3>2 DEF StopsRest, FreshRest, Rests
  <2> QED
    BY <2>1, <2>2
<1>14. NoneRefused(b)'
  BY <1>6, <1>7 DEF NoneRefused, StopsRest
<1>15. RecordRests(b)'
  <2>1. Replacing(b)' = Replacing(b)
    BY <1>1, <1>6, <1>7 DEF Replacing
  <2> QED
    BY <1>1, <1>8, <1>9, <2>1 DEF RecordRests, Rests, StopsRest
<1> QED
  BY <1>13, <1>14, <1>15 DEF StopsRest

LEMMA RecordRest ==
  ASSUME ExitInv, NEW b \in Brackets, StopsRest(b), NEW c \in Callers, EditReplied(b, c), sl[b].live
  PROVE  StopsRest(b)'
<1> DEFINE e == edit[b][c]
<1>1. /\ edit \in [Brackets -> [Callers -> Edit]] /\ sl \in [Brackets -> SoftwareSL]
      /\ e \in Edit /\ c \in Fresh(b) /\ e.reply = "ok"
  BY EditFacts DEF EditReplied, StopsRest, NoneRefused, Fresh, Edit, ExitInv, TypeInv, TypeOK
<1>2. /\ edit' = [edit EXCEPT ![b][c] = NoEdit] /\ sl' = [sl EXCEPT ![b].disaster = e.new]
      /\ orders' = orders /\ monitor' = monitor
  BY <1>1 DEF EditReplied, exchangeVars
<1>3. \A d \in Callers : edit'[b][d] = IF d = c THEN NoEdit ELSE edit[b][d]
  BY <1>1, <1>2
<1>4. sl'[b].disaster = e.new
  BY <1>1, <1>2 DEF SoftwareSL
<1>5. NoEdit.pc = "idle" /\ NoEdit.old = NoOrder
  BY DEF NoEdit
<1>6. \A d \in Fresh(b)' : d \in Fresh(b) /\ d # c /\ edit'[b][d] = edit[b][d]
  BY <1>3, <1>5 DEF Fresh
<1>7. \A d \in Fresh(b) : edit[b][d].new # NoOrder
  BY CallsNamed DEF Fresh
<1>8. \A x \in Callers : edit'[b][x].old \in {edit[b][x].old, NoOrder}
  BY <1>3, <1>5
<1>9. FreshRest(b)'
  <2> SUFFICES ASSUME NEW d \in Fresh(b)'
               PROVE  /\ orders[edit[b][d].new].status \in {"open", "closed"}
                      /\ edit[b][d].new # e.new /\ edit[b][d].new # monitor[b].target
                      /\ \A x \in Callers : edit[b][d].new # edit'[b][x].old
                      /\ \A x \in Fresh(b)' : edit[b][d].new = edit'[b][x].new => d = x
    BY <1>2, <1>4, <1>6 DEF FreshRest, Rests
  <2>1. d \in Fresh(b) /\ d # c
    BY <1>6
  <2>2. \A x \in Fresh(b)' : edit[b][d].new = edit'[b][x].new => d = x
    BY <1>6, <2>1 DEF StopsRest, FreshRest
  <2> QED
    BY <1>1, <1>7, <1>8, <2>1, <2>2 DEF StopsRest, FreshRest, Rests
<1>10. NoneRefused(b)'
  BY <1>3, <1>5 DEF NoneRefused, StopsRest
<1>11. RecordRests(b)'
  BY <1>1, <1>2, <1>4 DEF RecordRests, Rests, StopsRest, FreshRest
<1> QED
  BY <1>9, <1>10, <1>11 DEF StopsRest

LEMMA StillRest ==
  ASSUME ExitInv, NEW b \in Brackets, StopsRest(b), UNCHANGED <<monitor, edit>>,
         sl'[b].disaster = sl[b].disaster, \A o \in OrderIds : Rests(o) => Rests(o)'
  PROVE  StopsRest(b)'
<1>1. /\ \A o \in Sent(b, placed[b]) : Rests(o) /\ o # Tp(b) => Rests(o)'
      /\ \A c \in Fresh(b) : edit[b][c].new # Tp(b)
  BY StopNamed, CallsNamed DEF Fresh
<1>2. Replacing(b)' = Replacing(b)
  BY DEF Replacing
<1> QED
  BY <1>1, <1>2, StopNamed, QuietStep DEF StopsRest

LEMMA MonitorLive ==
  ASSUME ExitInv, NEW b \in Brackets, MonitorStep(b), sl'[b].live
  PROVE  sl[b].live /\ holding' = holding /\ faults' \in {faults, faults + 1}
<1>1. ~HandOver(b) /\ sl \in [Brackets -> SoftwareSL] /\ ~NoEntry.live
  BY GoneKind DEF ExitInv, TypeInv, TypeOK, NoEntry
<1>2. sl' = sl \/ sl' = [sl EXCEPT ![b] = NoEntry]
  BY <1>1 DEF MonitorStep, Wake, TickerReplied, BreakevenDone, TrigPositionReplied,
     TpCheckReplied, DisasterCheckReplied, StreakReplied, CancelReplied, Finish, Decide, CheckTp,
     CheckDisaster, CheckPosition, MonitorTo, Leave, vars, chaseVars
<1>3. holding' = holding /\ faults' \in {faults, faults + 1}
  BY <1>1 DEF MonitorStep, Wake, TickerReplied, BreakevenDone, TrigPositionReplied,
     TpCheckReplied, DisasterCheckReplied, StreakReplied, CancelReplied, Finish, Decide, CheckTp,
     CheckDisaster, CheckPosition, MonitorTo, Leave, vars, exchangeVars, ledgerVars, Fault
<1> QED
  BY <1>1, <1>2, <1>3

LEMMA MarketHolding ==
  ASSUME ExchangeTypeOK, Market PROVE holding' <= holding /\ faults' = faults
<1>1. ASSUME NEW o \in OrderIds, Fill(o) PROVE holding' <= holding /\ faults' = faults
  <2>1. Left(o) \in Int /\ holding \in Nat
    BY DEF ExchangeTypeOK, Order, Left
  <2> QED
    BY <1>1, <2>1 DEF Fill, Lesser
<1>2. ASSUME NEW o \in OrderIds, ReleaseLots(o) PROVE holding' <= holding /\ faults' = faults
  BY <1>2 DEF ReleaseLots, ExchangeTypeOK
<1>3. CASE CloseOutside
  <2>1. Sellable \in Int /\ holding \in Nat
    BY DEF ExchangeTypeOK, Sellable, Free
  <2> QED
    BY <1>3, <2>1 DEF CloseOutside, Lesser
<1> QED
  BY <1>1, <1>2, <1>3 DEF Market

\* A bracket that is watched after a step was watched before it, and nothing raised.
LEMMA WatchedBefore ==
  ASSUME \A x, y \in Brackets : x = y, ExitInv, Unstarted, [ExitNext]_allVars,
         NEW b \in Brackets, Watched(b)'
  PROVE  Watched(b) /\ faults' = faults
<1>1. /\ ExchangeTypeOK /\ faults \in Nat /\ holding \in Nat /\ ~NoEntry.live
      /\ sl \in [Brackets -> SoftwareSL]
      /\ sl'[b].live /\ faults' = 0 /\ holding' > 0 /\ holding' \in Nat
  BY NextExitInv, ExitFacts DEF ExchangeTypeOK, NoEntry, ExitInv, TypeInv, TypeOK, Watched
<1>2. SUFFICES sl[b].live /\ faults' \in {faults, faults + 1} /\ holding' <= holding
  BY <1>1 DEF Watched
<1>3. CASE MonitorStep(b)
  <2>1. sl[b].live /\ holding' = holding
    BY <1>1, <1>3, MonitorLive
  <2>2. faults' \in {faults, faults + 1}
    BY <1>1, <1>3, MonitorLive
  <2> QED
    BY <1>1, <2>1, <2>2
<1>4. CASE ServeMonitor(b)
  BY <1>1, <1>4 DEF ServeMonitor, ServePosition, ServeCheck, ServeMonitorCancel, Told, chaseVars,
     CancelOrders, NoFault, Fault, ledgerVars
<1>5. CASE StopMonitor(b)
  BY <1>1, <1>5 DEF StopMonitor, exchangeVars, ledgerVars
<1>6. ASSUME NEW c \in Callers, UserEdit(b, c) PROVE sl[b].live /\ faults' = faults /\ holding' = holding
  BY <1>1, <1>6 DEF UserEdit, vars, exchangeVars, ledgerVars, chaseVars
<1>7. ASSUME NEW c \in Callers, EditStep(b, c)
      PROVE  sl[b].live /\ faults' \in {faults, faults + 1} /\ holding' = holding
  <2>1. CASE EditReplied(b, c)
    BY <1>1, <2>1 DEF EditReplied, exchangeVars, ledgerVars, SoftwareSL
  <2>2. CASE EditCancelled(b, c)
    BY <1>1, <2>2 DEF EditCancelled, CancelOrders, NoFault, Fault, ledgerVars, chaseVars
  <2>3. CASE ServeEditPlace(b, c)
    BY <1>1, <2>3 DEF ServeEditPlace, Rest, NoFault, Fault, ledgerVars, chaseVars
  <2> QED
    BY <1>7, <2>1, <2>2, <2>3 DEF EditStep
<1>8. ASSUME ChaseStep(b) PROVE sl[b].live /\ faults' \in {faults, faults + 1} /\ holding' <= holding
  <2>1. sl' = sl
    BY <1>8, CoroutineEntries, ServeEffect DEF ChaseStep, Stop, ServeStop, ExitInv
  <2> QED
    BY <1>1, <1>8, <2>1, IdleChase
<1>9. CASE MarketMoves
  BY <1>1, <1>9, MarketHolding DEF MarketMoves, chaseVars
<1>10. CASE UNCHANGED <<vars, exitVars>>
  BY <1>1, <1>10 DEF vars, chaseVars, exchangeVars, ledgerVars
<1> QED
  BY <1>1, <1>3, <1>4, <1>5, <1>6, <1>7, <1>8, <1>9, <1>10 DEF ExitNext, AllLeft, allVars

LEMMA NextRestInv ==
  ASSUME \A x, y \in Brackets : x = y, ExitInv, RestInv, [ExitNext]_allVars
  PROVE  RestInv'
<1> SUFFICES ASSUME NEW b \in Brackets, Watched(b)' PROVE StopsRest(b)'
  BY NextUnstarted DEF RestInv, StopsRest
<1>1. Watched(b) /\ faults' = faults /\ StopsRest(b) /\ Unstarted /\ faults' = 0 /\ sl'[b].live
      /\ ExchangeTypeOK
  BY WatchedBefore, ExitFacts DEF RestInv, StopsRest, Watched
<1>2. NoFault /\ ~(faults' > 0) /\ sl[b].live /\ holding > 0
  BY <1>1 DEF NoFault, Watched
<1>3. CASE MonitorStep(b)
  BY <1>1, <1>2, <1>3, MonitorRest
<1>4. CASE ServeMonitor(b)
  BY <1>1, <1>2, <1>4, ServeMonitorRest
<1>5. CASE StopMonitor(b)
  <2>1. sl'[b].disaster = sl[b].disaster
    BY <1>5, ExitFacts DEF StopMonitor, ExitInv, TypeInv, TypeOK, SoftwareSL
  <2> QED
    BY <1>1, <1>5, <2>1, StillRest DEF StopMonitor, exitVars, exchangeVars, Rests
<1>6. ASSUME NEW c \in Callers, UserEdit(b, c) PROVE StopsRest(b)'
  BY <1>1, <1>6, UserEditRest
<1>7. ASSUME NEW c \in Callers, EditStep(b, c) PROVE StopsRest(b)'
  BY <1>1, <1>2, <1>7, EditCancelledRest, PlaceRest, RecordRest DEF EditStep
<1>8. CASE ChaseStep(b)
  BY <1>1, <1>2, <1>8, IdleChase
<1>9. CASE MarketMoves /\ UNCHANGED exitVars
  BY <1>1, <1>9, MarketRests, StillRest DEF MarketMoves, chaseVars, exitVars
<1>10. CASE UNCHANGED <<vars, exitVars>>
  BY <1>1, <1>10, StillRest DEF vars, chaseVars, exchangeVars, exitVars, Rests
<1> QED
  BY <1>3, <1>4, <1>5, <1>6, <1>7, <1>8, <1>9, <1>10 DEF ExitNext, AllLeft, allVars

LEMMA InitRestInv == ExitInit => RestInv
<1> SUFFICES ASSUME ExitInit PROVE RestInv
  OBVIOUS
<1>1. ExitInv /\ Init
  BY InitExitInv DEF ExitInit
<1>2. Unstarted
  BY <1>1 DEF Init, Unstarted, NotStarted
<1>3. ASSUME NEW b \in Brackets PROVE FreshRest(b) /\ NoneRefused(b) /\ RecordRests(b)
  <2>1. \A c \in Callers : edit[b][c].pc = "idle"
    BY DEF ExitInit, NoEdit
  <2>2. sl[b].disaster # NoOrder => orders[sl[b].disaster].status = "open"
    <3>1. PICK tps \in SUBSET Brackets, disasters \in SUBSET {x \in Brackets : Futures} :
            LET resting == {Tp(x) : x \in tps} \cup {Disaster(x, 0) : x \in disasters}
            IN  /\ orders = [o \in OrderIds |->
                               [status |-> IF o \in resting THEN "open" ELSE "none",
                                qty |-> IF o \in resting THEN Amount ELSE 0,
                                filled |-> 0]]
                /\ sl = [x \in Brackets |->
                           [live |-> TRUE, cancelled |-> FALSE,
                            tp |-> IF x \in tps THEN Tp(x) ELSE NoOrder,
                            disaster |-> IF x \in disasters THEN Disaster(x, 0) ELSE NoOrder]]
      BY <1>1 DEF Init
    <3>2. Disaster(b, 0) \in OrderIds
      BY <1>1, OwnIds, ExitFacts, ExchangeAssumption
    <3> QED
      BY <3>1, <3>2
  <2> QED
    BY <2>1, <2>2 DEF FreshRest, Fresh, NoneRefused, RecordRests, Rests
<1> QED
  BY <1>2, <1>3 DEF RestInv

\* For a bracket alone on its symbol, any editors, integrity period and bounds: while
\* it is watched and no call has raised, the stop its entry names rests or has filled
\* unless a call is replacing it, however the updates of users and of the monitor overlap.
THEOREM WatchedStopRests ==
  ASSUME \A x, y \in Brackets : x = y PROVE ExitSpec => []RecordedStopRests
<1>1. ExitInit => ExitInv /\ RestInv
  BY InitExitInv, InitRestInv
<1>2. ExitInv /\ RestInv /\ [ExitNext]_allVars => (ExitInv /\ RestInv)'
  BY NextExitInv, NextRestInv
<1>3. RestInv => RecordedStopRests
  BY DEF RestInv, RecordedStopRests, Watched, RecordRests, Replacing, EndPoints, Rests
<1> QED
  BY <1>1, <1>2, <1>3, PTL DEF ExitSpec

-----------------------------------------------------------------------------
(***************************************************************************)
(* The stops that are owed.  A disaster stop nobody knows is paid for by a *)
(* call that raised or by an update of a user; but it is lost several      *)
(* steps after either, and two updates that overlap pass the loss on: the  *)
(* stop one of them records is lost when the monitor's own update, or the  *)
(* monitor's return, overwrites it.  So the invariant counts, next to the  *)
(* stops nobody secures, the updates of users still in flight and, per     *)
(* bracket, the one debt they can leave to the monitor.                    *)
(***************************************************************************)
OwnEdit(b) == edit[b]["monitor"]

\* The entry names d, and no cancel of d has been answered in an update or by the
\* monitor on its way out.
Recorded(b, d) ==
  /\ d = sl[b].disaster
  /\ \A c \in Callers : ~(edit[b][c].pc = "place" /\ edit[b][c].old = d)
  /\ ~(Ending(b) /\ monitor[b].reply # "pending" /\ monitor[b].target = d)

\* A cancel of d is in flight: the monitor's own update, its last, or the cleanup.
Cancelling(b, d) ==
  \/ OwnEdit(b).pc = "cancel" /\ OwnEdit(b).old = d
  \/ Ending(b) /\ monitor[b].reply = "pending" /\ monitor[b].target = d
  \/ /\ chase[b].pc = "cleanup" /\ chase[b].reply = "pending"
     /\ d \in chase[b].linked \cap chase[b].targets

Brought(b, d) == \E c \in Fresh(b) : edit[b][c].new = d

Secured(b, d) == Recorded(b, d) \/ Cancelling(b, d) \/ Brought(b, d)

Stray(b) == {d \in Disasters(b) \cap Open : ~Secured(b, d)}
Updates(b) == {<<b, "update", c>> : c \in {u \in Editors : edit[b][u].pc # "idle"}}

\* What the monitor is about to overwrite or to drop is not the stop it knows.
Indebted(b) ==
  \/ OwnEdit(b).pc # "idle" /\ sl[b].disaster # OwnEdit(b).old
  \/ Ending(b) /\ sl[b].disaster # monitor[b].target

DebtOf(b) == <<b, "debt", 0>>
Debt(b) == IF Indebted(b) THEN {DebtOf(b)} ELSE {}

OwedOf(b) == Stray(b) \cup Updates(b) \cup Debt(b)
Owed == UNION {OwedOf(b) : b \in Brackets}

OwedWithin == IsFiniteSet(Owed) /\ Cardinality(Owed) <= faults + edits

\* The stops the answered updates bring are new to everybody, the monitor's own
\* update runs while it waits for it, and a chase was handed one stop at most.
FreshApart(b) ==
  \A c \in Fresh(b) :
    /\ edit[b][c].new # sl[b].disaster /\ edit[b][c].new # monitor[b].target
    /\ \A d \in Callers : edit[b][c].new # edit[b][d].old
    /\ \A d \in Fresh(b) : edit[b][c].new = edit[b][d].new => c = d

OwnWaits(b) == OwnEdit(b).pc # "idle" => monitor[b].pc = "breakeven" /\ sl[b].live

LoneStop(b, S) == \A d, e \in S \cap Disasters(b) : d = e

OwedInv ==
  /\ OwedWithin
  /\ \A b \in Brackets : FreshApart(b) /\ OwnWaits(b) /\ LoneStop(b, chase[b].linked)

\* What a step of bracket b does to what it owes: nothing, one item against one
\* more call raised or update begun, or one item for another.
Accounted(b) ==
  \/ OwedOf(b)' \subseteq OwedOf(b)
  \/ /\ \E x : OwedOf(b)' \subseteq OwedOf(b) \cup {x}
     /\ faults' + edits' >= faults + edits + 1
  \/ \E x : \E t \in OwedOf(b) : OwedOf(b)' \subseteq (OwedOf(b) \ {t}) \cup {x}

LEMMA OwedOfOwn ==
  ASSUME NEW b \in Brackets
  PROVE  /\ \A x \in OwedOf(b) : x[1] = b
         /\ \A x \in OwedOf(b)' : x[1] = b
BY DEF OwedOf, Stray, Updates, Debt, DebtOf, Disasters, Disaster

LEMMA OwedStep ==
  ASSUME ExitInv, ExitInv', OwedWithin, NEW b \in Brackets, Accounted(b),
         \A c \in Brackets \ {b} : OwedOf(c)' \subseteq OwedOf(c),
         faults' >= faults, edits' >= edits
  PROVE  OwedWithin'
<1>1. /\ {faults, faults', edits, edits'} \subseteq Nat
  BY DEF ExitInv, TypeInv, TypeOK, ExchangeTypeOK
<1>2. IsFiniteSet(Owed) /\ Cardinality(Owed) \in Nat /\ Cardinality(Owed) <= faults + edits
  BY FS_CardinalityType DEF OwedWithin
<1>3. CASE OwedOf(b)' \subseteq OwedOf(b)
  <2>1. Owed' \subseteq Owed
    BY <1>3 DEF Owed
  <2>2. IsFiniteSet(Owed') /\ Cardinality(Owed') <= Cardinality(Owed) /\ Cardinality(Owed') \in Nat
    BY <1>2, <2>1, FS_Subset, FS_CardinalityType
  <2> QED
    BY <1>1, <1>2, <2>2 DEF OwedWithin
<1>4. ASSUME NEW x, OwedOf(b)' \subseteq OwedOf(b) \cup {x}, faults' + edits' >= faults + edits + 1
      PROVE  OwedWithin'
  <2>1. Owed' \subseteq Owed \cup {x}
    BY <1>4 DEF Owed
  <2>2. /\ IsFiniteSet(Owed \cup {x}) /\ Cardinality(Owed \cup {x}) \in Nat
        /\ Cardinality(Owed \cup {x}) <= Cardinality(Owed) + 1
    <3>1. /\ IsFiniteSet(Owed \cup {x})
          /\ \/ Cardinality(Owed \cup {x}) = Cardinality(Owed)
             \/ Cardinality(Owed \cup {x}) = Cardinality(Owed) + 1
      BY <1>2, FS_AddElement
    <3> QED
      BY <1>2, <3>1
  <2>3. /\ IsFiniteSet(Owed') /\ Cardinality(Owed') <= Cardinality(Owed \cup {x})
        /\ Cardinality(Owed') \in Nat
    BY <2>1, <2>2, FS_Subset, FS_CardinalityType
  <2> QED
    BY <1>1, <1>2, <1>4, <2>2, <2>3 DEF OwedWithin
<1>5. ASSUME NEW x, NEW t \in OwedOf(b), OwedOf(b)' \subseteq (OwedOf(b) \ {t}) \cup {x}
      PROVE  OwedWithin'
  <2> DEFINE R == Owed \ {t}
  <2>1. Owed' \subseteq R \cup {x}
    <3> SUFFICES ASSUME NEW c \in Brackets, NEW y \in OwedOf(c)' PROVE y \in R \cup {x}
      BY DEF Owed
    <3>1. CASE c = b
      BY <1>5, <3>1 DEF Owed
    <3>2. CASE c # b
      <4>1. y \in OwedOf(c) /\ y \in Owed
        BY <3>2 DEF Owed
      <4>2. y[1] = c /\ t[1] = b
        BY <1>5, <4>1, OwedOfOwn
      <4> QED
        BY <3>2, <4>1, <4>2
    <3> QED
      BY <3>1, <3>2
  <2>2. t \in Owed
    BY <1>5 DEF Owed
  <2>3. IsFiniteSet(R) /\ Cardinality(R) = Cardinality(Owed) - 1
    BY <1>2, <2>2, FS_RemoveElement
  <2> HIDE DEF R
  <2>4. IsFiniteSet(R \cup {x}) /\ Cardinality(R \cup {x}) <= Cardinality(R) + 1
        /\ Cardinality(R \cup {x}) \in Nat
    BY <1>2, <2>3, FS_AddElement, FS_CardinalityType
  <2>5. /\ IsFiniteSet(Owed') /\ Cardinality(Owed') <= Cardinality(R \cup {x})
        /\ Cardinality(Owed') \in Nat
    BY <2>1, <2>4, FS_Subset, FS_CardinalityType
  <2> QED
    BY <1>1, <1>2, <2>3, <2>4, <2>5 DEF OwedWithin
<1> QED
  BY <1>3, <1>4, <1>5 DEF Accounted

LEMMA StrayCovers ==
  ASSUME NEW b, NEW X,
         \A d \in Disasters(b) :
           d \in Open' /\ d \notin X => Secured(b, d)' \/ (d \in Open /\ ~Secured(b, d))
  PROVE  Stray(b)' \subseteq Stray(b) \cup X
<1>1. Disasters(b)' = Disasters(b)
  BY DEF Disasters, Disaster
<1> QED
  BY <1>1 DEF Stray

LEMMA OthersOwe ==
  ASSUME NEW c \in Brackets, sl'[c].disaster = sl[c].disaster, edit'[c] = edit[c],
         monitor'[c] = monitor[c], chase'[c] = chase[c],
         \A o \in Disasters(c) : o \in Open' => o \in Open
  PROVE  OwedOf(c)' \subseteq OwedOf(c)
<1>1. \A d : Secured(c, d)' = Secured(c, d)
  BY DEF Secured, Recorded, Cancelling, Brought, Fresh, Ending, OwnEdit
<1>2. Stray(c)' \subseteq Stray(c) \cup {}
  BY <1>1, StrayCovers
<1>3. Updates(c)' = Updates(c) /\ Debt(c)' = Debt(c)
  BY DEF Updates, Debt, DebtOf, Indebted, Ending, OwnEdit
<1> QED
  BY <1>2, <1>3 DEF OwedOf

\* The account opens a disaster stop only where an update places it.
LEMMA EffectStops ==
  ASSUME ExchangeTypeOK, Effect
  PROVE  \A c \in Brackets : \A o \in Disasters(c) : o \in Open' => o \in Open
<1> SUFFICES ASSUME NEW c \in Brackets, NEW o \in Disasters(c), o \in Open' PROVE o \in Open
  OBVIOUS
<1>1. o \in OrderIds /\ orders'[o].status = "open"
  BY DEF Open
<1>2. CASE orders' = orders
  BY <1>1, <1>2 DEF Open
<1>3. ASSUME NEW S, CancelOrders(S) PROVE o \in Open
  BY <1>1, <1>3 DEF CancelOrders, Open
<1>4. ASSUME NEW b \in Brackets, NEW n \in 1 .. MaxAttempts, NEW q \in Nat, Rest(Maker(b, n), q)
      PROVE  o \in Open
  <2>1. o # Maker(b, n)
    BY ApartIds DEF Disasters
  <2> QED
    BY <1>1, <1>4, <2>1 DEF Rest, Open, ExchangeTypeOK
<1>5. ASSUME NEW p \in OrderIds, Fill(p) PROVE o \in Open
  <2>1. p \in Open /\ (o # p => orders'[o] = orders[o])
    BY <1>1, <1>5 DEF Fill, ExchangeTypeOK
  <2> QED
    BY <1>1, <2>1 DEF Open
<1> QED
  BY <1>2, <1>3, <1>4, <1>5 DEF Effect, SellAtMarket, Market, ReleaseLots, CloseOutside

Untouched(c) ==
  sl'[c] = sl[c] /\ edit'[c] = edit[c] /\ monitor'[c] = monitor[c] /\ chase'[c] = chase[c]

LEMMA OwedInvStep ==
  ASSUME ExitInv, ExitInv', OwedInv, NEW b \in Brackets, Accounted(b),
         FreshApart(b)', OwnWaits(b)', LoneStop(b, chase[b].linked)',
         \A c \in Brackets \ {b} : Untouched(c),
         \A c \in Brackets \ {b} : \A o \in Disasters(c) : o \in Open' => o \in Open,
         faults' >= faults, edits' >= edits
  PROVE  OwedInv'
<1>1. \A c \in Brackets \ {b} : OwedOf(c)' \subseteq OwedOf(c)
  BY OthersOwe DEF Untouched
<1>2. OwedWithin'
  BY <1>1, OwedStep DEF OwedInv
<1>3. ASSUME NEW c \in Brackets, c # b
      PROVE  FreshApart(c)' /\ OwnWaits(c)' /\ LoneStop(c, chase[c].linked)'
  <2>1. Untouched(c) /\ FreshApart(c) /\ OwnWaits(c) /\ LoneStop(c, chase[c].linked)
    BY <1>3 DEF OwedInv
  <2>2. FreshApart(c)'
    BY <2>1 DEF FreshApart, Fresh, Untouched
  <2>3. OwnWaits(c)'
    BY <2>1 DEF OwnWaits, OwnEdit, Untouched
  <2>4. LoneStop(c, chase[c].linked)'
    BY <2>1 DEF LoneStop, Untouched, Disasters, Disaster
  <2> QED
    BY <2>2, <2>3, <2>4
<1> QED
  BY <1>2, <1>3 DEF OwedInv

\* A step of bracket b that is none of its updates'.
LEMMA ApartKept ==
  ASSUME ExitInv, NEW b \in Brackets, FreshApart(b),
         \A c \in Fresh(b)' : c \in Fresh(b) /\ edit'[b][c].new = edit[b][c].new,
         sl'[b].disaster \in {sl[b].disaster, NoOrder},
         monitor'[b].target \in {monitor[b].target, NoOrder, sl[b].tp, sl[b].disaster},
         \A c \in Callers : edit'[b][c].old \in {edit[b][c].old, sl[b].disaster, NoOrder}
  PROVE  FreshApart(b)'
<1>1. \A c \in Fresh(b) : edit[b][c].new \in Sent(b, placed[b]) /\ edit[b][c].new # NoOrder /\ edit[b][c].new # Tp(b)
  BY CallsNamed DEF Fresh
<1> SUFFICES ASSUME NEW c \in Fresh(b)'
             PROVE  /\ edit'[b][c].new # sl'[b].disaster /\ edit'[b][c].new # monitor'[b].target
                    /\ \A d \in Callers : edit'[b][c].new # edit'[b][d].old
                    /\ \A d \in Fresh(b)' : edit'[b][c].new = edit'[b][d].new => c = d
  BY DEF FreshApart
<1> DEFINE o == edit[b][c].new
<1>2. c \in Fresh(b) /\ edit'[b][c].new = o /\ o # NoOrder /\ o # Tp(b)
  BY <1>1
<1>3. o # sl'[b].disaster /\ o # monitor'[b].target
  BY <1>2, StopNamed DEF FreshApart
<1>4. \A d \in Callers : o # edit'[b][d].old
  BY <1>2 DEF FreshApart
<1>5. \A d \in Fresh(b)' : o = edit'[b][d].new => c = d
  BY <1>2 DEF FreshApart
<1> QED
  BY <1>2, <1>3, <1>4, <1>5

LEMMA StepGuards ==
  ASSUME ExitInv, NEW b \in Brackets, OwnWaits(b), MonitorStep(b)
  PROVE  OwnEdit(b).pc = "idle" /\ (Ending(b) => monitor[b].reply # "pending")
<1>1. CASE Wake(b) \/ TickerReplied(b) \/ BreakevenDone(b)
  BY <1>1 DEF Wake, TickerReplied, BreakevenDone, OwnWaits, OwnEdit, Ending, EndPoints
<1>2. CASE \/ TrigPositionReplied(b) \/ TpCheckReplied(b) \/ DisasterCheckReplied(b)
           \/ StreakReplied(b)
  BY <1>2 DEF TrigPositionReplied, TpCheckReplied, DisasterCheckReplied, StreakReplied, Answer,
     OwnWaits, OwnEdit, Ending, EndPoints
<1>3. CASE CancelReplied(b)
  BY <1>3 DEF CancelReplied, Answer, OwnWaits, OwnEdit
<1> QED
  BY <1>1, <1>2, <1>3 DEF MonitorStep

LEMMA HandOverFacts ==
  ASSUME ExitInv, NEW b \in Brackets, HandOver(b)
  PROVE  /\ sl'[b] = NoEntry /\ chase[b].pc = "idle"
         /\ monitor'[b].pc = "off" /\ monitor'[b].target = NoOrder
         /\ UNCHANGED <<edit, edits, exchangeVars>>
         /\ chase'[b].linked = Linked(sl[b]) /\ chase'[b].targets = Linked(sl[b])
         /\ Linked(sl[b]) # {} => chase'[b].pc = "cleanup" /\ chase'[b].reply = "pending"
         /\ \A c \in Brackets \ {b} : Untouched(c)
<1>1. /\ chase \in [Brackets -> Chase] /\ sl \in [Brackets -> SoftwareSL]
      /\ monitor \in [Brackets -> Monitor]
  BY DEF ExitInv, TypeInv, TypeOK
<1> DEFINE r == [chase[b] EXCEPT !.linked = Linked(sl[b]), !.remaining = Amount]
           k == Cleanup(r, b, "start")
<1>2. Linked(sl[b]) \in SUBSET OrderIds /\ Amount \in Nat
  BY LinkedType, ExchangeAssumption DEF ExitInv, TypeInv
<1>3. r \in Chase
  BY <1>1, <1>2, ZenonT(30) DEF Chase
<1>4. r.linked = Linked(sl[b])
  BY <1>1, ZenonT(30) DEF Chase
<1>5. k.linked = r.linked /\ k.targets = r.linked
      /\ (r.linked # {} => k.pc = "cleanup" /\ k.reply = "pending")
  BY <1>3, CleanupCarries
<1>6. /\ chase[b].pc = "idle" /\ chase' = [chase EXCEPT ![b] = k]
      /\ sl' = [sl EXCEPT ![b] = NoEntry]
      /\ monitor' = [monitor EXCEPT ![b] = Off(monitor[b], "triggered")]
      /\ UNCHANGED <<edit, edits, exchangeVars>>
  BY DEF HandOver, Invoke, Off
<1> HIDE DEF r, k
<1>7. /\ chase'[b] = k /\ sl'[b] = NoEntry /\ monitor'[b] = Off(monitor[b], "triggered")
      /\ \A c \in Brackets \ {b} : Untouched(c)
  BY <1>1, <1>6 DEF Untouched
<1>8. monitor'[b].pc = "off" /\ monitor'[b].target = NoOrder
  BY <1>1, <1>7, OffFields
<1> QED
  BY <1>4, <1>5, <1>6, <1>7, <1>8

LEMMA LeaveFacts ==
  ASSUME ExitInv, NEW b \in Brackets, NEW why, Leave(b, why)
  PROVE  /\ sl'[b] = NoEntry /\ monitor'[b].pc = "off" /\ monitor'[b].target = NoOrder
         /\ UNCHANGED <<chase, exchangeVars, edit, edits>>
         /\ \A c \in Brackets \ {b} : Untouched(c)
<1>1. sl \in [Brackets -> SoftwareSL] /\ monitor \in [Brackets -> Monitor] /\ monitor[b] \in Monitor
  BY DEF ExitInv, TypeInv, TypeOK
<1> DEFINE z == Sleeps(monitor[b])
           q == [z EXCEPT !.pc = "off", !.left = why]
<1>2. z \in Monitor /\ z.target = NoOrder
  BY <1>1, SleepsFields
<1>3. /\ monitor' = [monitor EXCEPT ![b] = q] /\ sl' = [sl EXCEPT ![b] = NoEntry]
      /\ UNCHANGED <<chase, exchangeVars, edit, edits>>
  BY DEF Leave
<1> HIDE DEF z
<1>4. q.pc = "off" /\ q.target = NoOrder
  BY <1>2 DEF Monitor
<1> HIDE DEF q
<1> QED
  BY <1>1, <1>3, <1>4 DEF Untouched

\* A step of the monitor hands the stop on, or drops what it owes a debt for.
LEMMA MonitorOwes ==
  ASSUME ExitInv, ExitInv', OwedInv, NEW b \in Brackets, MonitorStep(b)
  PROVE  OwedInv'
<1>0. /\ FreshApart(b) /\ OwnWaits(b) /\ LoneStop(b, chase[b].linked)
      /\ OwnEdit(b).pc = "idle" /\ (Ending(b) => monitor[b].reply # "pending")
      /\ {faults, edits} \subseteq Nat /\ "monitor" \in Callers /\ "monitor" \notin Editors
      /\ monitor \in [Brackets -> Monitor] /\ edit \in [Brackets -> [Callers -> Edit]]
      /\ NoOrder \notin Disasters(b) /\ Tp(b) \notin Disasters(b)
  <2>1. NoOrder \notin Disasters(b) /\ Tp(b) \notin Disasters(b)
    BY OwnIds, ApartIds DEF Disasters
  <2>2. /\ FreshApart(b) /\ OwnWaits(b) /\ LoneStop(b, chase[b].linked)
    BY DEF OwedInv
  <2>3. OwnEdit(b).pc = "idle" /\ (Ending(b) => monitor[b].reply # "pending")
    BY <2>2, StepGuards
  <2>4. {faults, edits} \subseteq Nat
    BY DEF ExitInv, TypeInv, TypeOK, ExchangeTypeOK
  <2>5. monitor \in [Brackets -> Monitor] /\ edit \in [Brackets -> [Callers -> Edit]]
    BY DEF ExitInv
  <2> QED
    BY <2>1, <2>2, <2>3, <2>4, <2>5, ExitAssumption DEF Callers
<1>1. Kind(b) /\ (Ending(b) => monitor[b].reply = "ok" /\ \E why : Leave(b, why))
  BY MonitorKind
<1>2. Updates(b)' = Updates(b) \/ edit' # edit
  BY DEF Updates
<1>3. CASE HandOver(b)
  <2>1. /\ sl'[b] = NoEntry /\ chase[b].pc = "idle"
        /\ monitor'[b].pc = "off" /\ monitor'[b].target = NoOrder
        /\ UNCHANGED <<edit, edits, exchangeVars>>
        /\ chase'[b].linked = Linked(sl[b]) /\ chase'[b].targets = Linked(sl[b])
        /\ Linked(sl[b]) # {} => chase'[b].pc = "cleanup" /\ chase'[b].reply = "pending"
        /\ \A c \in Brackets \ {b} : Untouched(c)
    BY <1>3, HandOverFacts
  <2>2. orders' = orders /\ faults' = faults /\ edits' = edits /\ Open' = Open
    BY <2>1 DEF exchangeVars, Open
  <2>3. ~Ending(b)'
    BY <2>1 DEF Ending, EndPoints
  <2>4. \A d \in Disasters(b) : Secured(b, d) => Secured(b, d)'
    <3> SUFFICES ASSUME NEW d \in Disasters(b), Secured(b, d) PROVE Secured(b, d)'
      OBVIOUS
    <3>1. CASE d = sl[b].disaster
      <4>1. d \in Linked(sl[b])
        BY <1>0, <3>1 DEF Linked
      <4> QED
        BY <2>1, <4>1 DEF Secured, Cancelling
    <3>2. CASE Brought(b, d)
      BY <2>1, <3>2 DEF Brought, Fresh, Secured
    <3> QED
      BY <1>0, <2>1, <3>1, <3>2 DEF Secured, Recorded, Cancelling
  <2>5. Stray(b)' \subseteq Stray(b) \cup {}
    BY <2>2, <2>4, StrayCovers
  <2>6. Debt(b)' = {}
    BY <1>0, <2>1, <2>3 DEF Debt, Indebted, OwnEdit
  <2>7. Accounted(b)
    BY <1>2, <2>1, <2>5, <2>6 DEF Accounted, OwedOf
  <2>8. FreshApart(b)'
    BY <1>0, <2>1, ApartKept DEF NoEntry, Fresh
  <2>9. OwnWaits(b)'
    BY <1>0, <2>1 DEF OwnWaits, OwnEdit
  <2>10. LoneStop(b, chase[b].linked)'
    <3>1. Linked(sl[b]) \cap Disasters(b) \subseteq {sl[b].disaster}
      BY <1>0, ExitFacts DEF Linked
    <3> QED
      BY <2>1, <3>1 DEF LoneStop, Disasters, Disaster
  <2> QED
    BY <1>0, <2>1, <2>2, <2>7, <2>8, <2>9, <2>10, OwedInvStep
<1>4. CASE /\ \E why : Leave(b, why)
           /\ IF Ending(b) THEN monitor[b].reply = "ok" ELSE sl[b].disaster = NoOrder
  <2>1. /\ sl'[b] = NoEntry /\ monitor'[b].pc = "off" /\ monitor'[b].target = NoOrder
        /\ UNCHANGED <<chase, exchangeVars, edit, edits>>
        /\ \A c \in Brackets \ {b} : Untouched(c)
    BY <1>4, LeaveFacts
  <2>2. orders' = orders /\ faults' = faults /\ edits' = edits /\ Open' = Open
    BY <2>1 DEF exchangeVars, Open
  <2>3. ~Ending(b)'
    BY <2>1 DEF Ending, EndPoints
  <2>4. \A d \in Disasters(b) : Secured(b, d) =>
          Secured(b, d)' \/ (d = sl[b].disaster /\ sl[b].disaster # monitor[b].target /\ Ending(b))
    <3> SUFFICES ASSUME NEW d \in Disasters(b), Secured(b, d)
                 PROVE  Secured(b, d)' \/ (d = sl[b].disaster /\ sl[b].disaster # monitor[b].target /\ Ending(b))
      OBVIOUS
    <3>1. CASE Recorded(b, d)
      BY <1>0, <1>4, <3>1 DEF Recorded
    <3>2. CASE Brought(b, d)
      BY <2>1, <3>2 DEF Brought, Fresh, Secured
    <3>3. CASE Cancelling(b, d)
      BY <1>0, <2>1, <3>3 DEF Secured, Cancelling
    <3> QED
      BY <3>1, <3>2, <3>3 DEF Secured
  <2>5. Debt(b)' = {}
    BY <1>0, <2>1, <2>3 DEF Debt, Indebted, OwnEdit
  <2>6. Accounted(b)
    <3>1. CASE Ending(b) /\ sl[b].disaster # monitor[b].target
      <4>1. Stray(b)' \subseteq Stray(b) \cup {sl[b].disaster}
        BY <2>2, <2>4, StrayCovers
      <4>2. DebtOf(b) \in OwedOf(b) /\ Debt(b) = {DebtOf(b)}
        BY <3>1 DEF Debt, Indebted, OwedOf
      <4>3. DebtOf(b) \notin Stray(b) \cup Updates(b)
        BY DEF DebtOf, Stray, Updates, Disasters, Disaster
      <4>4. OwedOf(b)' \subseteq (OwedOf(b) \ {DebtOf(b)}) \cup {sl[b].disaster}
        BY <1>2, <2>1, <2>5, <4>1, <4>3 DEF OwedOf
      <4> QED
        BY <4>2, <4>4 DEF Accounted
    <3>2. CASE ~(Ending(b) /\ sl[b].disaster # monitor[b].target)
      <4>1. Stray(b)' \subseteq Stray(b) \cup {}
        BY <2>2, <2>4, <3>2, StrayCovers
      <4> QED
        BY <1>2, <2>1, <2>5, <4>1 DEF Accounted, OwedOf
    <3> QED
      BY <3>1, <3>2
  <2>7. FreshApart(b)'
    BY <1>0, <2>1, ApartKept DEF NoEntry, Fresh
  <2>8. OwnWaits(b)' /\ LoneStop(b, chase[b].linked)'
    BY <1>0, <2>1 DEF OwnWaits, OwnEdit, LoneStop, Disasters, Disaster
  <2> QED
    BY <1>0, <2>1, <2>2, <2>6, <2>7, <2>8, OwedInvStep
<1>5. ASSUME UNCHANGED <<orders, sl, chase>>, faults' >= faults, edits' = edits, ~Ending(b),
             NEW m, monitor' = [monitor EXCEPT ![b] = m],
             monitor'[b].target \in {NoOrder, sl[b].tp, sl[b].disaster},
             monitor'[b].pc \in EndPoints =>
               monitor'[b].reply = "pending" /\ monitor'[b].target = sl[b].disaster,
             edit' = edit \/ (BeginEdit(b, "monitor") /\ monitor'[b].pc = "breakeven")
      PROVE  OwedInv'
  <2>1. /\ \A c \in Brackets \ {b} : Untouched(c)
        /\ \A c \in Callers : c # "monitor" => edit'[b][c] = edit[b][c]
        /\ \/ edit'[b]["monitor"] = edit[b]["monitor"]
           \/ /\ edit'[b]["monitor"] = Begun(b) /\ monitor'[b].pc = "breakeven" /\ sl[b].live
    <3>1. CASE edit' = edit
      BY <1>0, <1>5, <3>1 DEF Untouched
    <3>2. CASE BeginEdit(b, "monitor") /\ monitor'[b].pc = "breakeven"
      <4>1. edit' = [edit EXCEPT ![b]["monitor"] = Begun(b)] /\ sl[b].live
        BY <1>0, <3>2, BeginEditFacts DEF BeginEdit
      <4> QED
        BY <1>0, <1>5, <3>2, <4>1 DEF Untouched
    <3> QED
      BY <1>5, <3>1, <3>2
  <2>2. /\ edit'[b]["monitor"].pc \in {"idle", "cancel"}
        /\ edit'[b]["monitor"].old \in {edit[b]["monitor"].old, sl[b].disaster}
        /\ edit'[b]["monitor"].pc # "idle" =>
             /\ edit'[b]["monitor"].old = sl[b].disaster
             /\ monitor'[b].pc = "breakeven" /\ sl[b].live
    BY <1>0, <2>1 DEF Begun, OwnEdit
  <2>3. Fresh(b)' = Fresh(b) /\ "monitor" \notin Fresh(b)
    BY <1>0, <2>1, <2>2 DEF Fresh, OwnEdit
  <2>4. \A d \in Disasters(b) : Secured(b, d) => Secured(b, d)'
    <3> SUFFICES ASSUME NEW d \in Disasters(b), Secured(b, d) PROVE Secured(b, d)'
      OBVIOUS
    <3>1. CASE Recorded(b, d)
      <4>1. \A c \in Callers : ~(edit'[b][c].pc = "place" /\ edit'[b][c].old = d)
        BY <2>1, <2>2, <3>1 DEF Recorded
      <4> QED
        BY <1>5, <3>1, <4>1 DEF Secured, Recorded, Ending
    <3>2. CASE Brought(b, d)
      BY <2>1, <2>3, <3>2 DEF Secured, Brought, Fresh
    <3>3. CASE Cancelling(b, d)
      BY <1>0, <1>5, <3>3 DEF Secured, Cancelling
    <3> QED
      BY <3>1, <3>2, <3>3 DEF Secured
  <2>5. Open' = Open
    BY <1>5 DEF Open
  <2>6. Stray(b)' \subseteq Stray(b) \cup {}
    BY <2>4, <2>5, StrayCovers
  <2>7. Updates(b)' = Updates(b)
    BY <1>0, <2>1 DEF Updates, Callers
  <2>8. Debt(b)' = {}
    BY <1>5, <2>2 DEF Debt, Indebted, OwnEdit, Ending, EndPoints
  <2>9. Accounted(b)
    BY <2>6, <2>7, <2>8 DEF Accounted, OwedOf
  <2>10. FreshApart(b)'
    <3>1. \A c \in Fresh(b)' : c \in Fresh(b) /\ edit'[b][c].new = edit[b][c].new
      BY <2>1, <2>3 DEF Fresh
    <3>2. \A c \in Callers : edit'[b][c].old \in {edit[b][c].old, sl[b].disaster, NoOrder}
      BY <2>1, <2>2
    <3> QED
      BY <1>0, <1>5, <3>1, <3>2, ApartKept
  <2>11. OwnWaits(b)' /\ LoneStop(b, chase[b].linked)'
    BY <1>0, <1>5, <2>2 DEF OwnWaits, OwnEdit, LoneStop, Disasters, Disaster
  <2> QED
    BY <1>0, <1>5, <2>1, <2>5, <2>9, <2>10, <2>11, OwedInvStep
<1>6. CASE /\ ~Ending(b)
           /\ \/ /\ Fault /\ UNCHANGED <<orders, ledgerVars, chaseVars, edit, placed, edits>>
                 /\ \E m : monitor' = [monitor EXCEPT ![b] = m]
                 /\ monitor'[b].pc = "sleep" /\ monitor'[b].target = NoOrder
              \/ /\ UNCHANGED <<vars, placed, edits>>
                 /\ \E m : monitor' = [monitor EXCEPT ![b] = m]
                 /\ monitor'[b].target \in {NoOrder, sl[b].tp, sl[b].disaster}
                 /\ monitor'[b].pc \in EndPoints =>
                      monitor'[b].reply = "pending" /\ monitor'[b].target = sl[b].disaster
                 /\ edit' = edit \/ (BeginEdit(b, "monitor") /\ monitor'[b].pc = "breakeven")
  <2>1. edits' = edits /\ UNCHANGED <<orders, sl, chase>> /\ faults' \in {faults, faults + 1}
    BY <1>6 DEF Fault, vars, exchangeVars, chaseVars
  <2>2. faults' >= faults
    BY <1>0, <2>1
  <2>3. /\ \E m : monitor' = [monitor EXCEPT ![b] = m]
        /\ monitor'[b].target \in {NoOrder, sl[b].tp, sl[b].disaster}
        /\ monitor'[b].pc \in EndPoints =>
             monitor'[b].reply = "pending" /\ monitor'[b].target = sl[b].disaster
        /\ edit' = edit \/ (BeginEdit(b, "monitor") /\ monitor'[b].pc = "breakeven")
    BY <1>6 DEF EndPoints
  <2>4. PICK m : monitor' = [monitor EXCEPT ![b] = m]
    BY <2>3
  <2> QED
    BY <1>5, <1>6, <2>1, <2>2, <2>3, <2>4
<1>7. CASE Ending(b)
  BY <1>1, <1>4, <1>7
<1> QED
  BY <1>1, <1>3, <1>4, <1>6, <1>7 DEF Kind

\* An answered last cancel leaves its stop behind only when it has raised.
LEMMA ServeMonitorOwes ==
  ASSUME ExitInv, ExitInv', OwedInv, NEW b \in Brackets, ServeMonitor(b)
  PROVE  OwedInv'
<1> DEFINE o == monitor[b].target
<1>0. /\ FreshApart(b) /\ OwnWaits(b) /\ LoneStop(b, chase[b].linked)
      /\ {faults, edits} \subseteq Nat /\ monitor \in [Brackets -> Monitor] /\ ExchangeTypeOK
  BY DEF OwedInv, ExitInv, TypeInv, TypeOK, ExchangeTypeOK
<1>1. PICK word \in {"ok", "open", "closed"} : Told(b, word)
  BY DEF ServeMonitor, ServePosition, ServeCheck, ServeMonitorCancel
<1>2. /\ monitor'[b].pc = monitor[b].pc /\ monitor'[b].target = o /\ monitor'[b].reply # "pending"
      /\ UNCHANGED <<sl, chase, edit, edits>> /\ \A c \in Brackets \ {b} : Untouched(c)
  BY <1>0, <1>1 DEF Told, chaseVars, Monitor, Untouched
<1>3. Effect /\ faults' \in {faults, faults + 1} /\ monitor[b].reply = "pending"
  BY DEF ServeMonitor, ServePosition, ServeCheck, ServeMonitorCancel, Effect, NoFault, Fault
<1>4. Ending(b) => o \notin Open' \/ faults' = faults + 1
  <2> SUFFICES ASSUME Ending(b) PROVE o \notin Open' \/ faults' = faults + 1
    OBVIOUS
  <2>1. CancelOrders({o}) \/ Fault
    BY DEF Ending, EndPoints, ServeMonitor, ServePosition, ServeCheck, ServeMonitorCancel
  <2>2. CASE CancelOrders({o})
    <3>1. ASSUME o \in OrderIds, o \in Open PROVE orders'[o].status = "canceled"
      BY <1>0, <2>2, <3>1 DEF CancelOrders, ExchangeTypeOK, Order
    <3>2. ASSUME o \in OrderIds, o \notin Open PROVE orders'[o] = orders[o]
      BY <2>2, <3>2 DEF CancelOrders
    <3> QED
      BY <3>1, <3>2 DEF Open
  <2> QED
    BY <2>1, <2>2 DEF Fault
<1>5. \A c \in Brackets : \A d \in Disasters(c) : d \in Open' => d \in Open
  BY <1>0, <1>3, EffectStops
<1>6. \A d \in Disasters(b) : Secured(b, d) => Secured(b, d)' \/ (Ending(b) /\ d = o)
  <2> SUFFICES ASSUME NEW d \in Disasters(b), Secured(b, d), ~(Ending(b) /\ d = o) PROVE Secured(b, d)'
    OBVIOUS
  <2>1. CASE Recorded(b, d)
    BY <1>2, <2>1 DEF Recorded, Secured, Ending
  <2>2. CASE Brought(b, d)
    BY <1>2, <2>2 DEF Brought, Fresh, Secured
  <2>3. CASE Cancelling(b, d)
    BY <1>2, <2>3 DEF Cancelling, OwnEdit, Secured
  <2> QED
    BY <2>1, <2>2, <2>3 DEF Secured
<1>7. Updates(b)' = Updates(b) /\ Debt(b)' = Debt(b)
  BY <1>2 DEF Updates, Debt, DebtOf, Indebted, OwnEdit, Ending
<1>8. Accounted(b)
  <2>1. CASE Ending(b) /\ o \in Open'
    <3>1. Stray(b)' \subseteq Stray(b) \cup {o}
      BY <1>5, <1>6, StrayCovers
    <3>2. OwedOf(b)' \subseteq OwedOf(b) \cup {o}
      BY <1>7, <3>1 DEF OwedOf
    <3>3. faults' + edits' >= faults + edits + 1
      BY <1>0, <1>2, <1>4, <2>1
    <3> HIDE DEF o
    <3> QED
      BY <3>2, <3>3 DEF Accounted
  <2>2. CASE ~(Ending(b) /\ o \in Open')
    <3>1. Stray(b)' \subseteq Stray(b) \cup {}
      BY <1>5, <1>6, <2>2, StrayCovers
    <3> QED
      BY <1>7, <3>1 DEF OwedOf, Accounted
  <2> QED
    BY <2>1, <2>2
<1>9. FreshApart(b)' /\ OwnWaits(b)' /\ LoneStop(b, chase[b].linked)'
  <2>1. FreshApart(b)'
    BY <1>0, <1>2, ApartKept DEF Fresh
  <2> QED
    BY <1>0, <1>2, <2>1 DEF OwnWaits, OwnEdit, LoneStop, Disasters, Disaster
<1>10. faults' >= faults /\ edits' >= edits
  BY <1>0, <1>2, <1>3
<1> QED
  BY <1>2, <1>5, <1>8, <1>9, <1>10, OwedInvStep

\* A user's update is an item of its own from its start.
LEMMA UserEditOwes ==
  ASSUME ExitInv, ExitInv', OwedInv, NEW b \in Brackets, NEW c \in Callers, UserEdit(b, c)
  PROVE  OwedInv'
<1> DEFINE x == <<b, "update", c>>
<1>0. /\ FreshApart(b) /\ OwnWaits(b) /\ LoneStop(b, chase[b].linked)
      /\ {faults, edits} \subseteq Nat /\ edit \in [Brackets -> [Callers -> Edit]]
      /\ c \in Editors /\ c # "monitor" /\ edit[b][c].pc = "idle" /\ "monitor" \in Callers
  <2>1. /\ FreshApart(b) /\ OwnWaits(b) /\ LoneStop(b, chase[b].linked)
        /\ {faults, edits} \subseteq Nat /\ edit \in [Brackets -> [Callers -> Edit]]
    BY DEF OwedInv, ExitInv, TypeInv, TypeOK, ExchangeTypeOK
  <2>2. c \in Editors /\ edit[b][c].pc = "idle"
    BY DEF UserEdit, BeginEdit
  <2> QED
    BY <2>1, <2>2, ExitAssumption DEF Callers
<1>1. /\ edit' = [edit EXCEPT ![b][c] = Begun(b)] /\ edits' = edits + 1
      /\ UNCHANGED <<monitor, placed, sl, chase, orders, faults>>
  BY BeginEditFacts DEF UserEdit, vars, chaseVars, exchangeVars
<1>2. Begun(b).pc = "cancel" /\ Begun(b).old = sl[b].disaster
  BY DEF Begun
<1>3. /\ \A d \in Callers : edit'[b][d] = IF d = c THEN Begun(b) ELSE edit[b][d]
      /\ \A a \in Brackets \ {b} : edit'[a] = edit[a]
  BY <1>0, <1>1
<1>4. \A a \in Brackets \ {b} : Untouched(a)
  BY <1>1, <1>3 DEF Untouched
<1>5. Open' = Open /\ OwnEdit(b)' = OwnEdit(b) /\ Ending(b)' = Ending(b)
  BY <1>0, <1>1, <1>3 DEF Open, OwnEdit, Ending
<1>6. Fresh(b)' = Fresh(b) /\ \A d \in Fresh(b) : edit'[b][d] = edit[b][d]
  BY <1>0, <1>2, <1>3 DEF Fresh
<1>7. \A d \in Disasters(b) : Secured(b, d) => Secured(b, d)'
  <2> SUFFICES ASSUME NEW d \in Disasters(b), Secured(b, d) PROVE Secured(b, d)'
    OBVIOUS
  <2>1. CASE Recorded(b, d)
    BY <1>1, <1>2, <1>3, <1>5, <2>1 DEF Recorded, Secured
  <2>2. CASE Brought(b, d)
    BY <1>6, <2>2 DEF Brought, Secured
  <2>3. CASE Cancelling(b, d)
    BY <1>1, <1>5, <2>3 DEF Cancelling, Secured
  <2> QED
    BY <2>1, <2>2, <2>3 DEF Secured
<1>8. Stray(b)' \subseteq Stray(b) \cup {}
  BY <1>5, <1>7, StrayCovers
<1>9. Updates(b)' \subseteq Updates(b) \cup {x}
  BY <1>3 DEF Updates, Callers
<1>10. Debt(b)' = Debt(b)
  BY <1>1, <1>5 DEF Debt, DebtOf, Indebted
<1>11. Accounted(b)
  <2>1. OwedOf(b)' \subseteq OwedOf(b) \cup {x}
    BY <1>8, <1>9, <1>10 DEF OwedOf
  <2>2. faults' + edits' >= faults + edits + 1
    BY <1>0, <1>1
  <2> HIDE DEF x
  <2> QED
    BY <2>1, <2>2 DEF Accounted
<1>12. FreshApart(b)' /\ OwnWaits(b)' /\ LoneStop(b, chase[b].linked)'
  <2>1. \A d \in Callers : edit'[b][d].old \in {edit[b][d].old, sl[b].disaster, NoOrder}
    BY <1>2, <1>3
  <2>2. FreshApart(b)'
    BY <1>0, <1>1, <1>6, <2>1, ApartKept
  <2> QED
    BY <1>0, <1>1, <1>5, <2>2 DEF OwnWaits, LoneStop, Disasters, Disaster
<1>13. faults' >= faults /\ edits' >= edits /\ Open' = Open
  BY <1>0, <1>1, <1>5
<1> QED
  BY <1>4, <1>11, <1>12, <1>13, OwedInvStep

\* The answered cancel of an update leaves the old stop behind only when it has raised.
LEMMA EditCancelledOwes ==
  ASSUME ExitInv, ExitInv', OwedInv, NEW b \in Brackets, NEW c \in Callers, EditCancelled(b, c)
  PROVE  OwedInv'
<1> DEFINE e == edit[b][c]
           o == e.old
<1>0. /\ FreshApart(b) /\ OwnWaits(b) /\ LoneStop(b, chase[b].linked)
      /\ {faults, edits} \subseteq Nat /\ ExchangeTypeOK /\ "monitor" \in Callers
  BY DEF OwedInv, ExitInv, TypeInv, TypeOK, ExchangeTypeOK, Callers
<1>1. e \in Edit /\ edit \in [Brackets -> [Callers -> Edit]] /\ e.pc = "cancel" /\ e.reply = "pending"
  BY EditFacts DEF EditCancelled, EditOK
<1>2. /\ Placing(e).pc = "place" /\ Placing(e).reply = "pending" /\ Placing(e).old = o
      /\ Placing(e).new = e.new
  BY <1>1, OwnIds, ExitFacts, EditFields
<1>3. edit' = [edit EXCEPT ![b][c] = Placing(e)]
  BY <1>1 DEF EditCancelled, Placing
<1>4. /\ \A d \in Callers : edit'[b][d] = IF d = c THEN Placing(e) ELSE edit[b][d]
      /\ \A a \in Brackets \ {b} : edit'[a] = edit[a]
  BY <1>1, <1>3
<1>5. /\ UNCHANGED <<sl, chase, monitor, placed, edits>> /\ Effect
      /\ faults' \in {faults, faults + 1}
      /\ \A a \in Brackets \ {b} : Untouched(a)
  BY <1>4 DEF EditCancelled, chaseVars, Effect, NoFault, Fault, Untouched
<1>6. o \notin Open' \/ faults' = faults + 1
  <2>1. CASE CancelOrders({o})
    <3>1. ASSUME o \in OrderIds, o \in Open PROVE orders'[o].status = "canceled"
      BY <1>0, <2>1, <3>1 DEF CancelOrders, ExchangeTypeOK, Order
    <3>2. ASSUME o \in OrderIds, o \notin Open PROVE orders'[o] = orders[o]
      BY <2>1, <3>2 DEF CancelOrders
    <3> QED
      BY <3>1, <3>2 DEF Open
  <2> QED
    BY <2>1 DEF EditCancelled, Fault
<1>7. \A a \in Brackets : \A d \in Disasters(a) : d \in Open' => d \in Open
  BY <1>0, <1>5, EffectStops
<1>8. Fresh(b)' = Fresh(b) /\ \A d \in Fresh(b) : edit'[b][d] = edit[b][d]
  BY <1>1, <1>2, <1>4 DEF Fresh
<1>9. \A d \in Disasters(b) : Secured(b, d) => Secured(b, d)' \/ d = o
  <2> SUFFICES ASSUME NEW d \in Disasters(b), Secured(b, d), d # o PROVE Secured(b, d)'
    OBVIOUS
  <2>1. CASE Recorded(b, d)
    BY <1>2, <1>4, <1>5, <2>1 DEF Recorded, Secured, Ending
  <2>2. CASE Brought(b, d)
    BY <1>8, <2>2 DEF Brought, Secured
  <2>3. CASE Cancelling(b, d)
    <3>1. OwnEdit(b).pc = "cancel" /\ OwnEdit(b).old = d => OwnEdit(b)' = OwnEdit(b)
      BY <1>0, <1>4 DEF OwnEdit
    <3> QED
      BY <1>5, <2>3, <3>1 DEF Cancelling, Secured, Ending
  <2> QED
    BY <2>1, <2>2, <2>3 DEF Secured
<1>10. Updates(b)' = Updates(b)
  BY <1>1, <1>2, <1>4 DEF Updates, Callers
<1>11. OwnEdit(b)'.old = OwnEdit(b).old /\ (OwnEdit(b)'.pc = "idle" <=> OwnEdit(b).pc = "idle")
  BY <1>0, <1>1, <1>2, <1>4 DEF OwnEdit
<1>12. Debt(b)' = Debt(b)
  BY <1>5, <1>11 DEF Debt, DebtOf, Indebted, Ending
<1>13. Accounted(b)
  <2>1. CASE o \in Open'
    <3>1. Stray(b)' \subseteq Stray(b) \cup {o}
      BY <1>7, <1>9, StrayCovers
    <3>2. OwedOf(b)' \subseteq OwedOf(b) \cup {o}
      BY <1>10, <1>12, <3>1 DEF OwedOf
    <3>3. faults' + edits' >= faults + edits + 1
      BY <1>0, <1>5, <1>6, <2>1
    <3> HIDE DEF o
    <3> QED
      BY <3>2, <3>3 DEF Accounted
  <2>2. CASE o \notin Open'
    <3>1. Stray(b)' \subseteq Stray(b) \cup {}
      BY <1>7, <1>9, <2>2, StrayCovers
    <3> QED
      BY <1>10, <1>12, <3>1 DEF OwedOf, Accounted
  <2> QED
    BY <2>1, <2>2
<1>14. FreshApart(b)' /\ OwnWaits(b)' /\ LoneStop(b, chase[b].linked)'
  <2>1. \A d \in Callers : edit'[b][d].old = edit[b][d].old
    BY <1>2, <1>4
  <2>2. FreshApart(b)'
    BY <1>0, <1>5, <1>8, <2>1, ApartKept
  <2> QED
    BY <1>0, <1>5, <1>11, <2>2 DEF OwnWaits, LoneStop, Disasters, Disaster
<1>15. faults' >= faults /\ edits' >= edits
  BY <1>0, <1>5
<1> QED
  BY <1>5, <1>7, <1>13, <1>14, <1>15, OwedInvStep

\* A placement is known to its update, or its answer has been lost.
LEMMA ServeEditPlaceOwes ==
  ASSUME ExitInv, ExitInv', OwedInv, NEW b \in Brackets, NEW c \in Callers, ServeEditPlace(b, c)
  PROVE  OwedInv'
<1> DEFINE e == edit[b][c]
           o == Disaster(b, placed[b] + 1)
<1>0. /\ FreshApart(b) /\ OwnWaits(b) /\ LoneStop(b, chase[b].linked)
      /\ {faults, edits} \subseteq Nat /\ ExchangeTypeOK /\ "monitor" \in Callers
  BY DEF OwedInv, ExitInv, TypeInv, TypeOK, ExchangeTypeOK, Callers
<1>1. e \in Edit /\ edit \in [Brackets -> [Callers -> Edit]] /\ e.pc = "place" /\ e.reply = "pending"
  BY EditFacts DEF ServeEditPlace
<1>2. o \in OrderIds /\ o \notin Sent(b, placed[b]) /\ o # NoOrder /\ o # Tp(b)
  BY PlacedId
<1>3. /\ UNCHANGED <<sl, chase, monitor, edits>> /\ faults' \in {faults, faults + 1}
      /\ UNCHANGED orders \/ Rest(o, Amount)
  BY DEF ServeEditPlace, chaseVars, NoFault, Fault
<1>4. PICK f : /\ edit' = [edit EXCEPT ![b][c] = f]
               /\ \/ f = e /\ Rest(o, Amount) /\ Fault
                  \/ f = Failed(e) /\ UNCHANGED orders
                  \/ f = Took(e, o)
  <2>1. CASE edit' = [edit EXCEPT ![b][c] = [@ EXCEPT !.reply = "ok", !.new = o]]
    <3>1. edit' = [edit EXCEPT ![b][c] = Took(e, o)]
      BY <1>1, <2>1 DEF Took
    <3> QED
      BY <3>1
  <2>2. CASE edit' = edit /\ Rest(o, Amount) /\ Fault
    <3>1. edit' = [edit EXCEPT ![b][c] = e]
      BY <1>1, <2>2
    <3> QED
      BY <2>2, <3>1
  <2>3. CASE edit' = [edit EXCEPT ![b][c].reply = "error"] /\ UNCHANGED orders
    <3>1. edit' = [edit EXCEPT ![b][c] = Failed(e)]
      BY <1>1, <2>3 DEF Failed
    <3> QED
      BY <2>3, <3>1
  <2> QED
    BY <2>1, <2>2, <2>3 DEF ServeEditPlace
<1> HIDE DEF o
<1>5. /\ f.pc = "place" /\ f.old = e.old
      /\ \/ f.reply = "ok" /\ f.new = o
         \/ f.reply # "ok" /\ (f.reply = "pending" => Rest(o, Amount) /\ Fault)
              /\ (f.reply # "pending" => UNCHANGED orders)
  <2>1. CASE f = e /\ Rest(o, Amount) /\ Fault
    BY <1>1, <2>1
  <2>2. CASE f = Failed(e) /\ UNCHANGED orders
    BY <1>1, <1>2, <2>2, EditFields
  <2>3. CASE f = Took(e, o)
    BY <1>1, <1>2, <2>3, EditFields
  <2> QED
    BY <1>4, <2>1, <2>2, <2>3
<1>6. /\ \A d \in Callers : edit'[b][d] = IF d = c THEN f ELSE edit[b][d]
      /\ \A a \in Brackets \ {b} : edit'[a] = edit[a]
  BY <1>1, <1>4
<1>7. \A a \in Brackets \ {b} : Untouched(a)
  BY <1>3, <1>6 DEF Untouched
<1>8. \A d \in OrderIds : d \in Open' => d \in Open \/ d = o
  BY <1>0, <1>3 DEF Open, Rest, ExchangeTypeOK
<1>9. /\ \A a \in Brackets \ {b} : \A d \in Disasters(a) : d \in Open' => d \in Open
  <2> SUFFICES ASSUME NEW a \in Brackets \ {b}, NEW d \in Disasters(a), d \in Open' PROVE d \in Open
    OBVIOUS
  <2>1. d \in OrderIds
    BY DEF Open
  <2>2. d # o
    BY ApartIds DEF Disasters, o
  <2> QED
    BY <1>8, <2>1, <2>2
<1>10. c \notin Fresh(b) /\ \A d \in Fresh(b) : d \in Callers /\ edit'[b][d] = edit[b][d]
  BY <1>1, <1>6 DEF Fresh
<1>11. \A d \in Disasters(b) : Secured(b, d) => Secured(b, d)'
  <2> SUFFICES ASSUME NEW d \in Disasters(b), Secured(b, d) PROVE Secured(b, d)'
    OBVIOUS
  <2>1. CASE Recorded(b, d)
    BY <1>1, <1>3, <1>5, <1>6, <2>1 DEF Recorded, Secured, Ending
  <2>2. CASE Brought(b, d)
    BY <1>10, <2>2 DEF Brought, Secured, Fresh
  <2>3. CASE Cancelling(b, d)
    <3>1. OwnEdit(b).pc = "cancel" => OwnEdit(b)' = OwnEdit(b)
      BY <1>0, <1>1, <1>6 DEF OwnEdit
    <3> QED
      BY <1>3, <2>3, <3>1 DEF Cancelling, Secured, Ending
  <2> QED
    BY <2>1, <2>2, <2>3 DEF Secured
<1>12. ASSUME f.reply = "ok", NEW d, d = o PROVE Secured(b, d)'
  BY <1>5, <1>6, <1>12 DEF Secured, Brought, Fresh
<1>13. Updates(b)' = Updates(b)
  BY <1>1, <1>5, <1>6 DEF Updates, Callers
<1>14. OwnEdit(b)'.old = OwnEdit(b).old /\ (OwnEdit(b)'.pc = "idle" <=> OwnEdit(b).pc = "idle")
  BY <1>0, <1>1, <1>5, <1>6 DEF OwnEdit
<1>15. Debt(b)' = Debt(b)
  BY <1>3, <1>14 DEF Debt, DebtOf, Indebted, Ending
<1>16. Accounted(b)
  <2>1. CASE f.reply = "pending"
    <3>1. Stray(b)' \subseteq Stray(b) \cup {o}
      BY <1>8, <1>11, StrayCovers DEF Open
    <3>2. OwedOf(b)' \subseteq OwedOf(b) \cup {o}
      BY <1>13, <1>15, <3>1 DEF OwedOf
    <3>3. faults' = faults + 1
      BY <1>5, <2>1 DEF Fault
    <3>4. faults' + edits' >= faults + edits + 1
      BY <1>0, <1>3, <3>3
    <3> QED
      BY <3>2, <3>4 DEF Accounted
  <2>2. CASE f.reply # "pending"
    <3>1. \A d \in Disasters(b) : d \in Open' => d \in Open \/ Secured(b, d)'
      BY <1>5, <1>8, <1>12, <2>2 DEF Open
    <3>2. Stray(b)' \subseteq Stray(b) \cup {}
      BY <1>11, <3>1, StrayCovers
    <3> QED
      BY <1>13, <1>15, <3>2 DEF OwedOf, Accounted
  <2> QED
    BY <2>1, <2>2
<1>17. FreshApart(b)'
  <2>1. \A d \in Callers : edit'[b][d].old = edit[b][d].old
    BY <1>5, <1>6
  <2>2. CASE f.reply # "ok"
    <3>1. \A d \in Fresh(b)' : d \in Fresh(b) /\ edit'[b][d].new = edit[b][d].new
      BY <1>6, <1>10, <2>2 DEF Fresh
    <3> QED
      BY <1>0, <1>3, <2>1, <3>1, ApartKept
  <2>3. CASE f.reply = "ok"
    <3>1. f.new = o
      BY <1>5, <2>3
    <3>2. \A d \in Fresh(b)' : \/ d = c /\ edit'[b][d].new = o
                               \/ d \in Fresh(b) /\ d # c /\ edit'[b][d].new = edit[b][d].new
      BY <1>6, <1>10, <3>1 DEF Fresh
    <3>3. /\ \A d \in Fresh(b) : edit[b][d].new \in Sent(b, placed[b])
          /\ \A d \in Callers : edit[b][d].old \in {NoOrder} \cup Sent(b, placed[b])
      BY CallsNamed DEF Fresh
    <3>4. /\ sl[b].disaster # o /\ monitor[b].target # o
      BY <1>2, StopNamed
    <3> SUFFICES ASSUME NEW d \in Fresh(b)'
                 PROVE  /\ edit'[b][d].new # sl'[b].disaster /\ edit'[b][d].new # monitor'[b].target
                        /\ \A a \in Callers : edit'[b][d].new # edit'[b][a].old
                        /\ \A a \in Fresh(b)' : edit'[b][d].new = edit'[b][a].new => d = a
      BY DEF FreshApart
    <3>5. CASE d = c /\ edit'[b][d].new = o
      BY <1>2, <1>3, <2>1, <3>2, <3>3, <3>4, <3>5
    <3>6. CASE d \in Fresh(b) /\ d # c /\ edit'[b][d].new = edit[b][d].new
      BY <1>0, <1>2, <1>3, <2>1, <3>2, <3>3, <3>6 DEF FreshApart
    <3> QED
      BY <3>2, <3>5, <3>6
  <2> QED
    BY <2>2, <2>3
<1>18. OwnWaits(b)' /\ LoneStop(b, chase[b].linked)'
  BY <1>0, <1>3, <1>14 DEF OwnWaits, LoneStop, Disasters, Disaster
<1>19. faults' >= faults /\ edits' >= edits
  BY <1>0, <1>3
<1> QED
  BY <1>7, <1>9, <1>16, <1>17, <1>18, <1>19, OwedInvStep

\* What an update loses when it records its stop it pays for with itself, or, the
\* monitor's own, with the debt it left to it.
LEMMA EditRepliedOwes ==
  ASSUME ExitInv, ExitInv', OwedInv, NEW b \in Brackets, NEW c \in Callers, EditReplied(b, c)
  PROVE  OwedInv'
<1> DEFINE e == edit[b][c]
           old == sl[b].disaster
           token == <<b, "update", c>>
<1>0. /\ FreshApart(b) /\ OwnWaits(b) /\ LoneStop(b, chase[b].linked)
      /\ {faults, edits} \subseteq Nat /\ "monitor" \in Callers /\ sl \in [Brackets -> SoftwareSL]
      /\ NoOrder \notin Disasters(b)
  <2>1. NoOrder \notin Disasters(b)
    BY OwnIds, ApartIds DEF Disasters
  <2> QED
    BY <2>1 DEF OwedInv, ExitInv, TypeInv, TypeOK, ExchangeTypeOK, Callers
<1>1. e \in Edit /\ edit \in [Brackets -> [Callers -> Edit]] /\ e.pc = "place" /\ e.reply # "pending"
  BY EditFacts DEF EditReplied
<1>2. /\ edit' = [edit EXCEPT ![b][c] = NoEdit]
      /\ sl' = IF sl[b].live /\ e.reply = "ok" THEN [sl EXCEPT ![b].disaster = e.new] ELSE sl
      /\ UNCHANGED <<chase, monitor, edits, orders, faults>> /\ Open' = Open
  BY DEF EditReplied, exchangeVars, Open
<1>3. /\ \A d \in Callers : edit'[b][d] = IF d = c THEN NoEdit ELSE edit[b][d]
      /\ \A a \in Brackets \ {b} : edit'[a] = edit[a]
  BY <1>1, <1>2
<1>4. NoEdit.pc = "idle" /\ NoEdit.old = NoOrder
  BY DEF NoEdit
<1>5. /\ \A a \in Brackets \ {b} : Untouched(a)
      /\ sl'[b].live = sl[b].live
      /\ sl'[b].disaster = IF sl[b].live /\ e.reply = "ok" THEN e.new ELSE old
  BY <1>0, <1>2, <1>3 DEF Untouched, SoftwareSL
<1>6. e.reply = "ok" => c \in Fresh(b)
  BY <1>1 DEF Fresh
<1>7. \A d \in Fresh(b)' : d \in Fresh(b) /\ d # c /\ edit'[b][d] = edit[b][d]
  BY <1>3, <1>4 DEF Fresh
<1>8. \A d \in Fresh(b) : d # c => d \in Fresh(b)' /\ edit'[b][d] = edit[b][d]
  BY <1>3 DEF Fresh
<1>9. Ending(b)' = Ending(b)
  BY <1>2 DEF Ending
<1>10. \A d : Cancelling(b, d) => Cancelling(b, d)'
  <2>1. OwnEdit(b).pc = "cancel" => OwnEdit(b)' = OwnEdit(b)
    BY <1>0, <1>1, <1>3 DEF OwnEdit
  <2> QED
    BY <1>2, <1>9, <2>1 DEF Cancelling
<1>11. \A d : Recorded(b, d) /\ sl'[b].disaster = d => Recorded(b, d)'
  BY <1>2, <1>3, <1>4, <1>9 DEF Recorded
<1>12. c = "monitor" => sl[b].live /\ ~Ending(b) /\ ~Indebted(b)'
  <2> SUFFICES ASSUME c = "monitor" PROVE sl[b].live /\ ~Ending(b) /\ ~Indebted(b)'
    OBVIOUS
  <2>1. OwnEdit(b).pc # "idle" /\ OwnEdit(b)'.pc = "idle"
    BY <1>0, <1>1, <1>3, <1>4 DEF OwnEdit
  <2>2. sl[b].live /\ ~Ending(b)
    BY <1>0, <2>1 DEF OwnWaits, Ending, EndPoints
  <2> QED
    BY <1>9, <2>1, <2>2 DEF Indebted
<1>13. c # "monitor" => OwnEdit(b)' = OwnEdit(b)
  BY <1>0, <1>3 DEF OwnEdit
<1>14. c # "monitor" => token \in Updates(b) /\ Updates(b)' \subseteq Updates(b) \ {token}
  BY <1>1, <1>3, <1>4 DEF Updates, Callers
<1>15. Updates(b)' \subseteq Updates(b)
  BY <1>3, <1>4 DEF Updates, Callers
<1>16. token \notin Stray(b) \cup Debt(b)
  BY DEF Stray, Disasters, Disaster, Debt, DebtOf
<1>17. ASSUME e.reply = "ok", sl[b].live PROVE Accounted(b) /\ FreshApart(b)'
  <2>1. sl'[b].disaster = e.new /\ c \in Fresh(b)
    BY <1>5, <1>6, <1>17
  <2>2. ASSUME NEW d, d = e.new PROVE Recorded(b, d)'
    <3>1. \A a \in Callers : ~(edit'[b][a].pc = "place" /\ edit'[b][a].old = e.new)
      BY <1>0, <1>3, <1>4, <2>1 DEF FreshApart
    <3>2. e.new # monitor'[b].target
      BY <1>0, <1>2, <2>1 DEF FreshApart
    <3> QED
      BY <2>1, <2>2, <3>1, <3>2 DEF Recorded
  <2>3. \A d \in Disasters(b) : Secured(b, d) => Secured(b, d)' \/ (Recorded(b, d) /\ d = old /\ ~Cancelling(b, d))
    <3> SUFFICES ASSUME NEW d \in Disasters(b), Secured(b, d) PROVE Secured(b, d)' \/ (Recorded(b, d) /\ d = old /\ ~Cancelling(b, d))
      OBVIOUS
    <3>1. CASE Brought(b, d)
      BY <1>8, <2>2, <3>1 DEF Brought, Secured, Fresh
    <3> QED
      BY <1>10, <3>1 DEF Secured, Recorded
  <2>4. ASSUME Recorded(b, old), ~Cancelling(b, old) PROVE Accounted(b)
    <3>1. Stray(b)' \subseteq Stray(b) \cup {old}
      BY <1>2, <2>3, StrayCovers
    <3>2. CASE c = "monitor"
      <4>1. OwnEdit(b).pc # "idle" /\ OwnEdit(b).old # old
        BY <1>0, <1>1, <2>4, <3>2 DEF OwnEdit, Recorded
      <4>2. Debt(b) = {DebtOf(b)} /\ Debt(b)' = {} /\ DebtOf(b) \in OwedOf(b)
        BY <1>12, <3>2, <4>1 DEF Debt, Indebted, OwedOf
      <4>3. DebtOf(b) \notin Stray(b) \cup Updates(b)
        BY DEF DebtOf, Stray, Updates, Disasters, Disaster
      <4>4. OwedOf(b)' \subseteq (OwedOf(b) \ {DebtOf(b)}) \cup {old}
        BY <1>15, <3>1, <4>2, <4>3 DEF OwedOf
      <4> HIDE DEF old
      <4> QED
        BY <4>2, <4>4 DEF Accounted
    <3>3. CASE c # "monitor"
      <4>1. Indebted(b)' => Indebted(b)
        <5>1. CASE OwnEdit(b).pc # "idle"
          BY <1>0, <2>4, <5>1 DEF Recorded, Cancelling, Indebted, OwnEdit, ExitInv, Edit
        <5>2. CASE Ending(b)
          BY <2>4, <5>2 DEF Recorded, Cancelling, Indebted
        <5> QED
          BY <1>9, <1>13, <3>3, <5>1, <5>2 DEF Indebted
      <4>2. Debt(b)' \subseteq Debt(b)
        BY <4>1 DEF Debt, DebtOf
      <4>3. OwedOf(b)' \subseteq (OwedOf(b) \ {token}) \cup {old} /\ token \in OwedOf(b)
        BY <1>14, <1>16, <3>1, <3>3, <4>2 DEF OwedOf
      <4> HIDE DEF old, token
      <4> QED
        BY <4>3 DEF Accounted
    <3> QED
      BY <3>2, <3>3
  <2>5. ASSUME ~(Recorded(b, old) /\ ~Cancelling(b, old)) PROVE Accounted(b)
    <3>1. Stray(b)' \subseteq Stray(b) \cup {}
      BY <1>2, <2>3, <2>5, StrayCovers
    <3>2. CASE c = "monitor"
      BY <1>12, <1>15, <3>1, <3>2 DEF Debt, OwedOf, Accounted
    <3>3. CASE c # "monitor"
      <4>1. Debt(b)' \subseteq {DebtOf(b)}
        BY DEF Debt, DebtOf
      <4>2. OwedOf(b)' \subseteq (OwedOf(b) \ {token}) \cup {DebtOf(b)} /\ token \in OwedOf(b)
        BY <1>14, <1>16, <3>1, <3>3, <4>1 DEF OwedOf
      <4> HIDE DEF token
      <4> QED
        BY <4>2 DEF Accounted
    <3> QED
      BY <3>2, <3>3
  <2>6. Accounted(b)
    BY <2>4, <2>5
  <2>7. FreshApart(b)'
    <3> SUFFICES ASSUME NEW d \in Fresh(b)'
                 PROVE  /\ edit'[b][d].new # sl'[b].disaster /\ edit'[b][d].new # monitor'[b].target
                        /\ \A a \in Callers : edit'[b][d].new # edit'[b][a].old
                        /\ \A a \in Fresh(b)' : edit'[b][d].new = edit'[b][a].new => d = a
      BY DEF FreshApart
    <3>1. d \in Fresh(b) /\ d # c /\ edit'[b][d] = edit[b][d] /\ edit[b][d].new # NoOrder
      BY <1>7, CallsNamed DEF Fresh
    <3>2. edit'[b][d].new # sl'[b].disaster /\ edit'[b][d].new # monitor'[b].target
      BY <1>0, <1>2, <2>1, <3>1 DEF FreshApart
    <3>3. \A a \in Callers : edit'[b][d].new # edit'[b][a].old
      BY <1>0, <1>3, <1>4, <3>1 DEF FreshApart
    <3>4. \A a \in Fresh(b)' : edit'[b][d].new = edit'[b][a].new => d = a
      BY <1>0, <1>7, <3>1 DEF FreshApart
    <3> QED
      BY <3>2, <3>3, <3>4
  <2> QED
    BY <2>6, <2>7
<1>18. ASSUME ~(e.reply = "ok" /\ sl[b].live) PROVE Accounted(b) /\ FreshApart(b)'
  <2>1. sl'[b].disaster = old
    BY <1>5, <1>18
  <2>2. \A d \in Disasters(b) : Secured(b, d) => Secured(b, d)' \/ (e.reply = "ok" /\ d = e.new)
    <3> SUFFICES ASSUME NEW d \in Disasters(b), Secured(b, d) PROVE Secured(b, d)' \/ (e.reply = "ok" /\ d = e.new)
      OBVIOUS
    <3>1. CASE Brought(b, d)
      BY <1>1, <1>8, <3>1 DEF Brought, Secured, Fresh
    <3> QED
      BY <1>10, <1>11, <2>1, <3>1 DEF Secured, Recorded
  <2>3. Debt(b)' \subseteq Debt(b)
    BY <1>2, <1>9, <1>12, <1>13, <2>1 DEF Debt, DebtOf, Indebted
  <2>4. ASSUME e.reply = "ok" PROVE Accounted(b)
    <3>1. c # "monitor"
      BY <1>12, <1>18, <2>4
    <3>2. Stray(b)' \subseteq Stray(b) \cup {e.new}
      BY <1>2, <2>2, StrayCovers
    <3>3. OwedOf(b)' \subseteq (OwedOf(b) \ {token}) \cup {e.new} /\ token \in OwedOf(b)
      BY <1>14, <1>16, <2>3, <3>1, <3>2 DEF OwedOf
    <3> HIDE DEF token, e
    <3> QED
      BY <3>3 DEF Accounted
  <2>5. ASSUME e.reply # "ok" PROVE Accounted(b)
    <3>1. Stray(b)' \subseteq Stray(b) \cup {}
      BY <1>2, <2>2, <2>5, StrayCovers
    <3> QED
      BY <1>15, <2>3, <3>1 DEF OwedOf, Accounted
  <2>6. FreshApart(b)'
    <3>1. \A d \in Callers : edit'[b][d].old \in {edit[b][d].old, sl[b].disaster, NoOrder}
      BY <1>3, <1>4
    <3> QED
      BY <1>0, <1>2, <1>7, <2>1, <3>1, ApartKept
  <2> QED
    BY <2>4, <2>5, <2>6
<1>19. OwnWaits(b)' /\ LoneStop(b, chase[b].linked)'
  <2>1. OwnEdit(b)'.pc # "idle" => OwnEdit(b).pc # "idle"
    BY <1>0, <1>3, <1>4 DEF OwnEdit
  <2> QED
    BY <1>0, <1>2, <1>5, <2>1 DEF OwnWaits, LoneStop, Disasters, Disaster
<1>20. faults' >= faults /\ edits' >= edits
  BY <1>0, <1>2
<1> QED
  BY <1>2, <1>5, <1>17, <1>18, <1>19, <1>20, OwedInvStep

\* A cleanup in flight stays so until it is answered, and no chase is handed more ids.
LEMMA ChaseLinks ==
  ASSUME TypeInv, NEW b \in Brackets, ChaseStep(b)
  PROVE  /\ \A a \in Brackets \ {b} : chase'[a] = chase[a]
         /\ chase'[b].linked \subseteq chase[b].linked
         /\ \/ ServeCleanup(b)
            \/ chase[b].pc = "cleanup" /\ chase[b].reply = "pending" =>
                 /\ chase'[b].pc = "cleanup" /\ chase'[b].reply = "pending"
                 /\ chase'[b].linked = chase[b].linked /\ chase'[b].targets = chase[b].targets
<1> DEFINE r == chase[b]
<1>0. chase \in [Brackets -> Chase] /\ r \in Chase
  BY DEF TypeInv, TypeOK
<1>1. CASE Coroutine(b)
  <2>1. PICK s : Proceeds(b, s)
    BY <1>1, CoroutineProceeds
  <2>2. chase' = [chase EXCEPT ![b] = s] /\ s.linked \subseteq r.linked
    BY <2>1, CleanupCarries DEF Proceeds, Tame, Recleans
  <2>3. ~(r.pc = "cleanup" /\ r.reply = "pending")
    BY <1>1 DEF Coroutine, ScanReplied, CleanupReplied, SizeReplied, RecheckReplied, BookArrives,
       SyncReplied, PlaceReplied, ResyncReplied, ReplaceReplied, RoPositionReplied, IsyncReplied,
       PositionReplied, PauseEnds, WatchEnds, WatchCancelled, UserCancelReplied, StatusReplied,
       RepegReplied, RefillReplied, BreakerBalanceReplied, BreakerReplied, FinalBalanceReplied,
       FinalReplied, Replied
  <2> QED
    BY <1>0, <2>2, <2>3
<1>2. ASSUME NEW word, NEW n, Reply(b, word, n), r.pc # "cleanup" \/ ServeCleanup(b) PROVE
        /\ \A a \in Brackets \ {b} : chase'[a] = chase[a]
        /\ chase'[b].linked \subseteq chase[b].linked
        /\ r.pc = "cleanup" => ServeCleanup(b)
  <2> DEFINE a == Answered(r, word, n)
  <2>1. a.linked = r.linked
    BY <1>0, Zenon DEF Answered, Chase
  <2>2. chase' = [chase EXCEPT ![b] = a]
    BY <1>2 DEF Reply
  <2> HIDE DEF a
  <2> QED
    BY <1>0, <1>2, <2>1, <2>2
<1>3. CASE ServeScan(b)
  <2>1. PICK found : chase' = [chase EXCEPT ![b] = Scanned(r, found)]
    BY <1>3 DEF ServeScan
  <2> DEFINE a == Scanned(r, found)
  <2>2. a.linked = r.linked
    BY <1>0, Zenon DEF Scanned, Chase
  <2>3. r.pc # "cleanup"
    BY <1>3 DEF ServeScan, Pending
  <2> HIDE DEF a
  <2> QED
    BY <1>0, <2>1, <2>2, <2>3 DEF a
<1>4. CASE Serve(b) /\ ~ServeScan(b)
  <2>1. \/ ServeCleanup(b)
        \/ ServeRead(b) \/ ServePlace(b) \/ ServeCancel(b) \/ ServeFetch(b) \/ ServeMarket(b)
    BY <1>4 DEF Serve
  <2>2. \E word, n : Reply(b, word, n)
    BY <2>1 DEF ServeCleanup, ServeRead, ServePlace, ServeCancel, ServeFetch, ServeMarket
  <2>3. r.pc # "cleanup" \/ ServeCleanup(b)
    BY <2>1 DEF ServeRead, ServePlace, ServeCancel, ServeFetch, ServeMarket, Pending, ReadPoints,
       PlacePoints, CancelPoints, FetchPoints, MarketPoints
  <2> QED
    BY <1>2, <2>2, <2>3
<1>5. CASE Stop(b)
  <2> DEFINE s == [r EXCEPT !.cancel = TRUE]
  <2>1. s.pc = r.pc /\ s.reply = r.reply /\ s.linked = r.linked /\ s.targets = r.targets
    BY <1>0, Zenon DEF Chase
  <2>2. chase' = [chase EXCEPT ![b] = s]
    BY <1>0, <1>5 DEF Stop
  <2> HIDE DEF s
  <2> QED
    BY <1>0, <2>1, <2>2
<1>6. CASE ServeStop(b)
  BY <1>6 DEF ServeStop
<1> QED
  BY <1>1, <1>3, <1>4, <1>5, <1>6 DEF ChaseStep

\* An answered cleanup leaves the one stop it was handed behind only when it has raised.
LEMMA ChaseOwes ==
  ASSUME ExitInv, ExitInv', OwedInv, NEW b \in Brackets, ChaseStep(b), UNCHANGED exitVars
  PROVE  OwedInv'
<1> DEFINE r == chase[b]
           handed == r.linked \cap r.targets \cap Disasters(b) \cap Open'
<1>0. /\ FreshApart(b) /\ OwnWaits(b) /\ LoneStop(b, r.linked)
      /\ {faults, edits} \subseteq Nat /\ ExchangeTypeOK /\ TypeInv
  BY DEF OwedInv, ExitInv, TypeInv, TypeOK, ExchangeTypeOK
<1>1. Effect /\ sl' = sl /\ faults' \in {faults, faults + 1}
  <2>1. CASE Coroutine(b)
    BY <2>1, CoroutineEntries DEF Effect, exchangeVars
  <2>2. CASE Serve(b)
    <3>1. faults' \in {faults, faults + 1}
      BY <2>2 DEF Serve, ServeRead, ServeScan, ServeCleanup, ServePlace, ServeCancel, ServeFetch,
         ServeMarket, NoFault, Fault, exchangeVars
    <3> QED
      BY <2>2, <3>1, ServeEffect, ExitFacts
  <2>3. CASE Stop(b) \/ ServeStop(b)
    BY <2>3 DEF Stop, ServeStop, Effect, exchangeVars, NoFault, Fault
  <2> QED
    BY <2>1, <2>2, <2>3 DEF ChaseStep
<1>2. UNCHANGED <<monitor, edit, edits, placed>>
  BY DEF exitVars
<1>3. /\ \A a \in Brackets \ {b} : chase'[a] = chase[a]
      /\ chase'[b].linked \subseteq r.linked
      /\ \/ ServeCleanup(b)
         \/ r.pc = "cleanup" /\ r.reply = "pending" =>
              /\ chase'[b].pc = "cleanup" /\ chase'[b].reply = "pending"
              /\ chase'[b].linked = r.linked /\ chase'[b].targets = r.targets
  BY <1>0, ChaseLinks
<1>4. \A a \in Brackets \ {b} : Untouched(a)
  BY <1>1, <1>2, <1>3 DEF Untouched
<1>5. \A a \in Brackets : \A d \in Disasters(a) : d \in Open' => d \in Open
  BY <1>0, <1>1, EffectStops
<1>6. \A d \in Disasters(b) :
        Secured(b, d) => Secured(b, d)' \/ (ServeCleanup(b) /\ d \in r.linked \cap r.targets)
  <2> SUFFICES ASSUME NEW d \in Disasters(b), Secured(b, d)
               PROVE  Secured(b, d)' \/ (ServeCleanup(b) /\ d \in r.linked \cap r.targets)
    OBVIOUS
  <2>1. CASE Recorded(b, d)
    BY <1>1, <1>2, <2>1 DEF Recorded, Secured, Ending
  <2>2. CASE Brought(b, d)
    BY <1>2, <2>2 DEF Brought, Secured, Fresh
  <2>3. CASE Cancelling(b, d)
    BY <1>2, <1>3, <2>3 DEF Cancelling, Secured, OwnEdit, Ending
  <2> QED
    BY <2>1, <2>2, <2>3 DEF Secured
<1>7. ServeCleanup(b) /\ handed # {} => faults' = faults + 1
  <2> SUFFICES ASSUME ServeCleanup(b), NEW d \in handed PROVE faults' = faults + 1
    OBVIOUS
  <2>1. PICK failed \in SUBSET (r.targets \cap Open) :
          CancelOrders(r.targets \ failed) /\ IF failed = {} THEN NoFault ELSE Fault
    BY DEF ServeCleanup
  <2>2. d \in r.targets /\ d \in OrderIds /\ d \in Open /\ orders'[d].status = "open"
    BY <1>5 DEF Open
  <2>3. d \in failed
    BY <1>0, <2>1, <2>2 DEF CancelOrders, ExchangeTypeOK, Order
  <2> QED
    BY <2>1, <2>3 DEF Fault
<1>8. Updates(b)' = Updates(b) /\ Debt(b)' = Debt(b)
  BY <1>1, <1>2 DEF Updates, Debt, DebtOf, Indebted, OwnEdit, Ending
<1>9. Accounted(b)
  <2>1. ASSUME ServeCleanup(b), handed # {} PROVE Accounted(b)
    <3>1. PICK d \in handed : TRUE
      BY <2>1
    <3>2. \A o \in handed : o = d
      BY <1>0, <3>1 DEF LoneStop
    <3>3. Stray(b)' \subseteq Stray(b) \cup {d}
      BY <1>5, <1>6, <3>2, StrayCovers
    <3>4. OwedOf(b)' \subseteq OwedOf(b) \cup {d}
      BY <1>8, <3>3 DEF OwedOf
    <3>5. faults' + edits' >= faults + edits + 1
      BY <1>0, <1>2, <1>7, <2>1
    <3> QED
      BY <3>4, <3>5 DEF Accounted
  <2>2. ASSUME ~(ServeCleanup(b) /\ handed # {}) PROVE Accounted(b)
    <3>1. Stray(b)' \subseteq Stray(b) \cup {}
      BY <1>5, <1>6, <2>2, StrayCovers
    <3> QED
      BY <1>8, <3>1 DEF OwedOf, Accounted
  <2> QED
    BY <2>1, <2>2
<1>10. FreshApart(b)' /\ OwnWaits(b)' /\ LoneStop(b, chase[b].linked)'
  <2>1. FreshApart(b)' /\ OwnWaits(b)'
    BY <1>0, <1>1, <1>2 DEF FreshApart, Fresh, OwnWaits, OwnEdit
  <2>2. \A d, o \in chase'[b].linked \cap Disasters(b) : d = o
    BY <1>0, <1>3 DEF LoneStop
  <2>3. LoneStop(b, chase[b].linked)'
    BY <2>2 DEF LoneStop, Disasters, Disaster
  <2> QED
    BY <2>1, <2>3
<1>11. faults' >= faults /\ edits' >= edits
  BY <1>0, <1>1, <1>2
<1> QED
  BY <1>4, <1>5, <1>9, <1>10, <1>11, OwedInvStep

\* The account moves, or a user flags an entry.
LEMMA QuietOwes ==
  ASSUME ExitInv, ExitInv', OwedInv, UNCHANGED <<monitor, edit, chase>>, faults' = faults, edits' = edits,
         \A b \in Brackets : sl'[b].disaster = sl[b].disaster /\ sl'[b].live = sl[b].live,
         \A b \in Brackets : \A o \in Disasters(b) : o \in Open' => o \in Open
  PROVE  OwedInv'
<1>1. /\ {faults, edits} \subseteq Nat
      /\ \A b \in Brackets : FreshApart(b) /\ OwnWaits(b) /\ LoneStop(b, chase[b].linked)
  BY DEF OwedInv, ExitInv, TypeInv, TypeOK, ExchangeTypeOK
<1>2. \A b \in Brackets : OwedOf(b)' \subseteq OwedOf(b)
  BY OthersOwe
<1>3. OwedWithin'
  <2>1. Owed' \subseteq Owed /\ IsFiniteSet(Owed) /\ Cardinality(Owed) <= faults + edits
    BY <1>2 DEF Owed, OwedInv, OwedWithin
  <2>2. /\ IsFiniteSet(Owed') /\ Cardinality(Owed') <= Cardinality(Owed)
        /\ Cardinality(Owed') \in Nat /\ Cardinality(Owed) \in Nat
    BY <2>1, FS_Subset, FS_CardinalityType
  <2> QED
    BY <1>1, <2>1, <2>2 DEF OwedWithin
<1>4. ASSUME NEW b \in Brackets PROVE FreshApart(b)' /\ OwnWaits(b)' /\ LoneStop(b, chase[b].linked)'
  <2>1. FreshApart(b)'
    BY <1>1 DEF FreshApart, Fresh
  <2>2. OwnWaits(b)'
    BY <1>1 DEF OwnWaits, OwnEdit
  <2>3. LoneStop(b, chase[b].linked)'
    BY <1>1 DEF LoneStop, Disasters, Disaster
  <2> QED
    BY <2>1, <2>2, <2>3
<1> QED
  BY <1>3, <1>4 DEF OwedInv

LEMMA NextOwedInv == ExitInv /\ OwedInv /\ [ExitNext]_allVars => OwedInv'
<1> SUFFICES ASSUME ExitInv, OwedInv, [ExitNext]_allVars PROVE OwedInv'
  OBVIOUS
<1>0. ExitInv' /\ ExchangeTypeOK
  BY NextExitInv DEF ExitInv, TypeInv, TypeOK
<1>1. ASSUME NEW b \in Brackets, MonitorStep(b) PROVE OwedInv'
  BY <1>0, <1>1, MonitorOwes
<1>2. ASSUME NEW b \in Brackets, ServeMonitor(b) PROVE OwedInv'
  BY <1>0, <1>2, ServeMonitorOwes
<1>3. ASSUME NEW b \in Brackets, StopMonitor(b) PROVE OwedInv'
  <2>1. /\ UNCHANGED <<monitor, edit, chase>> /\ faults' = faults /\ edits' = edits /\ Open' = Open
        /\ sl' = [sl EXCEPT ![b].cancelled = TRUE] /\ sl \in [Brackets -> SoftwareSL]
    BY <1>3 DEF StopMonitor, exitVars, exchangeVars, Open, ExitInv, TypeInv, TypeOK
  <2>2. \A c \in Brackets : sl'[c].disaster = sl[c].disaster /\ sl'[c].live = sl[c].live
    BY <2>1 DEF SoftwareSL
  <2> QED
    BY <1>0, <2>1, <2>2, QuietOwes
<1>4. ASSUME NEW b \in Brackets, NEW c \in Callers, UserEdit(b, c) \/ EditStep(b, c) PROVE OwedInv'
  BY <1>0, <1>4, UserEditOwes, EditCancelledOwes, ServeEditPlaceOwes, EditRepliedOwes DEF EditStep
<1>5. ASSUME NEW b \in Brackets, ChaseStep(b), UNCHANGED exitVars PROVE OwedInv'
  BY <1>0, <1>5, ChaseOwes
<1>6. CASE MarketMoves /\ UNCHANGED exitVars
  <2>1. /\ UNCHANGED <<monitor, edit, chase, sl>> /\ edits' = edits /\ Effect
    BY <1>6 DEF MarketMoves, chaseVars, exitVars, Effect
  <2>2. faults' = faults
    BY <1>6 DEF MarketMoves, Market, Fill, ReleaseLots, CloseOutside
  <2>3. \A b \in Brackets : \A o \in Disasters(b) : o \in Open' => o \in Open
    BY <1>0, <2>1, EffectStops
  <2> QED
    BY <1>0, <2>1, <2>2, <2>3, QuietOwes
<1>7. CASE UNCHANGED <<vars, exitVars>>
  <2>1. UNCHANGED <<monitor, edit, chase, sl>> /\ faults' = faults /\ edits' = edits /\ Open' = Open
    BY <1>7 DEF vars, chaseVars, exchangeVars, exitVars, Open
  <2> QED
    BY <1>0, <2>1, QuietOwes
<1> QED
  BY <1>1, <1>2, <1>3, <1>4, <1>5, <1>6, <1>7 DEF ExitNext, AllLeft, allVars

LEMMA InitOwedInv == ExitInit => OwedInv
<1> SUFFICES ASSUME ExitInit PROVE OwedInv
  OBVIOUS
<1>1. ExitInv /\ Init
  BY InitExitInv DEF ExitInit
<1>2. PICK tps \in SUBSET Brackets, disasters \in SUBSET {x \in Brackets : Futures} :
        LET resting == {Tp(x) : x \in tps} \cup {Disaster(x, 0) : x \in disasters}
        IN  /\ orders = [o \in OrderIds |->
                           [status |-> IF o \in resting THEN "open" ELSE "none",
                            qty |-> IF o \in resting THEN Amount ELSE 0,
                            filled |-> 0]]
            /\ sl = [x \in Brackets |->
                       [live |-> TRUE, cancelled |-> FALSE,
                        tp |-> IF x \in tps THEN Tp(x) ELSE NoOrder,
                        disaster |-> IF x \in disasters THEN Disaster(x, 0) ELSE NoOrder]]
  BY <1>1 DEF Init
<1>3. /\ \A b \in Brackets, c \in Callers : edit[b][c].pc = "idle"
      /\ \A b \in Brackets : monitor[b].pc = "sleep" /\ chase[b].linked = {}
  BY <1>1 DEF ExitInit, NoEdit, Init, NotStarted
<1>4. ASSUME NEW b \in Brackets PROVE OwedOf(b) = {}
  <2>1. Updates(b) = {} /\ Debt(b) = {}
    BY <1>3 DEF Updates, Debt, Indebted, OwnEdit, Ending, EndPoints, Callers
  <2>2. ASSUME NEW d \in Disasters(b) \cap Open PROVE Recorded(b, d)
    <3>1. d \in {Tp(x) : x \in tps} \cup {Disaster(x, 0) : x \in disasters}
      BY <1>2 DEF Open
    <3>2. d = sl[b].disaster
      <4>1. PICK n \in 0 .. MaxRevisions : d = Disaster(b, n)
        BY DEF Disasters
      <4>2. PICK x \in disasters : d = Disaster(x, 0)
        BY <3>1, <4>1, ApartIds
      <4>3. x = b
        BY <4>1, <4>2, ApartIds
      <4> QED
        BY <1>2, <4>2, <4>3
    <3> QED
      BY <1>3, <3>2 DEF Recorded, Ending, EndPoints
  <2> QED
    BY <2>1, <2>2 DEF OwedOf, Stray, Secured
<1>5. Owed = {}
  BY <1>4 DEF Owed
<1>6. OwedWithin
  <2>1. {faults, edits} \subseteq Nat
    BY <1>1 DEF ExitInv, TypeInv, TypeOK, ExchangeTypeOK
  <2> QED
    BY <1>5, <2>1, FS_EmptySet DEF OwedWithin
<1>7. ASSUME NEW b \in Brackets PROVE FreshApart(b) /\ OwnWaits(b) /\ LoneStop(b, chase[b].linked)
  BY <1>3 DEF FreshApart, Fresh, OwnWaits, OwnEdit, LoneStop, Callers
<1> QED
  BY <1>6, <1>7 DEF OwedInv

\* A stop somebody secures is one somebody knows.
LEMMA OrphansAreStray == OwedInv /\ ExitInv => OrphansAccounted
<1> SUFFICES ASSUME OwedInv, ExitInv PROVE OrphansAccounted
  OBVIOUS
<1> DEFINE Lost == UNION {Orphans(b) : b \in Brackets}
<1>1. ASSUME NEW b \in Brackets PROVE Orphans(b) \subseteq Stray(b)
  <2> SUFFICES ASSUME NEW d \in Orphans(b), Secured(b, d) PROVE FALSE
    BY DEF Orphans, Stray
  <2>1. d \in Disasters(b) /\ d \notin Known(b) /\ d # NoOrder /\ "monitor" \in Callers
    BY OwnIds, ApartIds DEF Orphans, Disasters, Callers
  <2>2. CASE Recorded(b, d)
    BY <2>1, <2>2 DEF Recorded, Known, Linked
  <2>3. CASE Cancelling(b, d)
    BY <2>1, <2>3 DEF Cancelling, Known, OwnEdit
  <2>4. CASE Brought(b, d)
    BY <2>1, <2>4 DEF Brought, Fresh, Known
  <2> QED
    BY <2>2, <2>3, <2>4 DEF Secured
<1>2. Lost \subseteq Owed
  BY <1>1 DEF Owed, OwedOf
<1>3. {faults, edits} \subseteq Nat /\ IsFiniteSet(Owed) /\ Cardinality(Owed) <= faults + edits
  BY DEF OwedInv, OwedWithin, ExitInv, TypeInv, TypeOK, ExchangeTypeOK
<1> HIDE DEF Lost
<1>4. /\ IsFiniteSet(Lost) /\ Cardinality(Lost) <= Cardinality(Owed)
      /\ Cardinality(Lost) \in Nat /\ Cardinality(Owed) \in Nat
  BY <1>2, <1>3, FS_Subset, FS_CardinalityType
<1> QED
  BY <1>3, <1>4 DEF OrphansAccounted, Lost

\* For any brackets, editors, integrity period and bounds: the disaster stops that rest
\* although nobody knows them any more are never more than the calls that raised and the
\* updates of users together, in whatever way updates, monitors and chases overlap.
THEOREM OrphansAreOwed == ExitSpec => []OrphansAccounted
<1>1. ExitInit => ExitInv /\ OwedInv
  BY InitExitInv, InitOwedInv
<1>2. ExitInv /\ OwedInv /\ [ExitNext]_allVars => (ExitInv /\ OwedInv)'
  BY NextExitInv, NextOwedInv
<1>3. ExitInv /\ OwedInv => OrphansAccounted
  BY OrphansAreStray
<1> QED
  BY <1>1, <1>2, <1>3, PTL DEF ExitSpec

(***************************************************************************)
(* The chases of watched brackets.  SmartChase starts a chase from any     *)
(* armed entry; here the monitor does, and updates go on replacing stops   *)
(* while the chases of other brackets run.  What is proved of a chase      *)
(* holds here too: a step of the composition is a step of SmartChase or    *)
(* leaves every coroutine, its maker orders and what has been sold alone.  *)
(***************************************************************************)
FreshStop(o) ==
  /\ orders'[o].filled = 0 /\ orders'[o].status = "open"
  /\ \A b \in Brackets, n \in 1 .. MaxAttempts : o # Maker(b, n)

Aside ==
  /\ UNCHANGED <<chase, holding, swept>> /\ (faults' = faults \/ faults' = faults + 1)
  /\ \A o \in OrderIds : (LotsKept(o) /\ (o \in Open' => o \in Open)) \/ FreshStop(o)

LEMMA AccountAside ==
  ASSUME ExitInv, UNCHANGED chase, UNCHANGED <<orders, ledgerVars>> \/ (\E S : CancelOrders(S)),
         NoFault \/ Fault
  PROVE  Aside
<1>1. UNCHANGED <<holding, swept>> /\ (faults' = faults \/ faults' = faults + 1)
  BY DEF ledgerVars, CancelOrders, NoFault, Fault
<1>2. TypeInv /\ ExchangeTypeOK
  BY DEF ExitInv, TypeInv, TypeOK
<1>3. CASE orders' = orders
  BY <1>1, <1>3, KeptAll DEF Aside, Open
<1>4. ASSUME NEW S, CancelOrders(S) PROVE Aside
  <2>1. \A o \in OrderIds : LotsKept(o)
    BY <1>2, <1>4, CancelKept
  <2>2. \A o \in OrderIds : o \in Open' => o \in Open
    BY <1>2, <1>4 DEF CancelOrders, Open
  <2> QED
    BY <1>1, <2>1, <2>2 DEF Aside
<1> QED
  BY <1>3, <1>4

LEMMA ExitStepKinds ==
  ASSUME ExitInv, [ExitNext]_allVars PROVE [Next]_vars \/ Aside
<1>1. ASSUME NEW b \in Brackets, MonitorStep(b) PROVE [Next]_vars \/ Aside
  <2>1. Kind(b)
    BY <1>1, MonitorKind
  <2>2. CASE HandOver(b)
    BY <2>2 DEF HandOver, Next
  <2>3. ASSUME NEW why, Leave(b, why) PROVE Aside
    BY <2>3, AccountAside DEF Leave, exchangeVars, NoFault
  <2>4. CASE Fault /\ UNCHANGED <<orders, ledgerVars, chaseVars, edit, placed, edits>>
    BY <2>4, AccountAside DEF chaseVars
  <2> QED
    BY <2>1, <2>2, <2>3, <2>4 DEF Kind
<1>2. ASSUME NEW b \in Brackets, ServeMonitor(b) PROVE Aside
  <2>1. /\ NoFault \/ Fault
        /\ UNCHANGED <<orders, ledgerVars>> \/ CancelOrders({monitor[b].target})
    BY <1>2 DEF ServeMonitor, ServePosition, ServeCheck, ServeMonitorCancel
  <2>2. UNCHANGED chase
    BY <1>2 DEF ServeMonitor, ServePosition, ServeCheck, ServeMonitorCancel, Told, chaseVars
  <2> QED
    BY <2>1, <2>2, AccountAside
<1>3. ASSUME NEW b \in Brackets, StopMonitor(b) PROVE Aside
  BY <1>3, AccountAside DEF StopMonitor, exchangeVars, NoFault
<1>4. ASSUME NEW b \in Brackets, NEW c \in Callers, UserEdit(b, c) PROVE [Next]_vars
  BY <1>4 DEF UserEdit
<1>5. ASSUME NEW b \in Brackets, NEW c \in Callers, EditStep(b, c) PROVE Aside
  <2>1. CASE EditCancelled(b, c)
    BY <2>1, AccountAside DEF EditCancelled, chaseVars
  <2>2. CASE EditReplied(b, c)
    BY <2>2, AccountAside DEF EditReplied, exchangeVars, NoFault
  <2>3. CASE ServeEditPlace(b, c)
    <3> DEFINE o == Disaster(b, placed[b] + 1)
    <3>1. UNCHANGED chase /\ (NoFault \/ Fault)
      BY <2>3 DEF ServeEditPlace, chaseVars
    <3>2. UNCHANGED <<orders, ledgerVars>> \/ Rest(o, Amount)
      BY <2>3 DEF ServeEditPlace
    <3>3. CASE Rest(o, Amount)
      <4>1. o \in OrderIds /\ orders \in [OrderIds -> Order]
        BY <2>3, PlacedId DEF ExitInv, TypeInv, TypeOK, ExchangeTypeOK
      <4>2. \A a \in Brackets, n \in 1 .. MaxAttempts : o # Maker(a, n)
        BY ApartIds
      <4> HIDE DEF o
      <4>3. FreshStop(o)
        BY <3>3, <4>1, <4>2 DEF Rest, FreshStop
      <4>4. \A p \in OrderIds : p # o => orders'[p] = orders[p]
        BY <3>3, <4>1 DEF Rest
      <4>5. \A p \in OrderIds : p # o => LotsKept(p) /\ (p \in Open' => p \in Open)
        BY <4>4 DEF LotsKept, Open
      <4> QED
        BY <3>1, <3>3, <4>3, <4>5 DEF Aside, Rest, NoFault, Fault
    <3> QED
      BY <3>1, <3>2, <3>3, AccountAside
  <2> QED
    BY <1>5, <2>1, <2>2, <2>3 DEF EditStep
<1>6. ASSUME NEW b \in Brackets, ChaseStep(b) PROVE [Next]_vars
  BY <1>6 DEF ChaseStep, Next
<1>7. CASE MarketMoves
  BY <1>7 DEF Next
<1>8. CASE UNCHANGED vars
  BY <1>8
<1> QED
  BY <1>1, <1>2, <1>3, <1>4, <1>5, <1>6, <1>7, <1>8 DEF ExitNext, AllLeft, allVars

LEMMA AsideHeld ==
  ASSUME TypeInv, HeldWithinFaults, Aside PROVE HeldWithinFaults'
<1>1. \A b \in Brackets, n \in 1 .. MaxAttempts : Maker(b, n) \in Open' => Maker(b, n) \in Open
  BY MakerIds DEF Aside, FreshStop
<1>2. \A b \in Brackets : Unheld(b)' \subseteq Unheld(b)
  BY <1>1 DEF Aside, Unheld, Holds, Maker
<1>3. UnheldOrders' \subseteq UnheldOrders
  BY <1>2 DEF UnheldOrders, Maker
<1> QED
  BY <1>3, HeldCount DEF Aside, TypeInv, TypeOK, ExchangeTypeOK

LEMMA AsideTally ==
  ASSUME TypeInv, TypeInv', Tally, Aside PROVE Tally'
<1>1. \A b \in Brackets, n \in 1 .. MaxAttempts : LotsKept(Maker(b, n))
  BY MakerIds DEF Aside, FreshStop
<1>2. OrdersAddUp'
  <2> SUFFICES ASSUME NEW o \in OrderIds
               PROVE  /\ orders'[o].filled <= orders'[o].qty
                      /\ orders'[o].status = "closed" => orders'[o].filled = orders'[o].qty
    BY DEF OrdersAddUp
  <2>1. CASE LotsKept(o)
    BY <2>1 DEF LotsKept, Tally, OrdersAddUp
  <2>2. CASE FreshStop(o)
    BY <2>2 DEF FreshStop, TypeInv, TypeOK, ExchangeTypeOK, Order
  <2> QED
    BY <2>1, <2>2 DEF Aside
<1>3. ASSUME faults' = 0, NEW b \in Brackets
      PROVE  Unused(b)' /\ Squares(chase[b], Current(b)', Spent(b)', holding')
  <2>1. faults = 0 /\ chase'[b] = chase[b] /\ swept'[b] = swept[b] /\ holding' <= holding
    BY <1>3 DEF Aside, TypeInv, TypeOK, ExchangeTypeOK
  <2>2. Unused(b) /\ Squares(chase[b], Current(b), Spent(b), holding)
    BY <2>1 DEF Tally
  <2> QED
    BY <1>1, <2>1, <2>2, OtherTally
<1>4. chase' = chase
  BY DEF Aside
<1> QED
  BY <1>2, <1>3, <1>4 DEF Tally, Squares, Carries, SoldOut

LEMMA ExitBooksAlways ==
  ASSUME ChaseMode = "dynamic_bbo"
  PROVE  ExitSpec => [](TypeInv /\ HeldWithinFaults /\ OrdersHeld /\ Tally)
<1> DEFINE ChaseFacts == HeldWithinFaults /\ Tally
<1>1. ExitInit => ChaseFacts
  BY InitHeld, InitTally DEF ExitInit
<1>2. ExitInv /\ ExitInv' /\ ChaseFacts /\ [ExitNext]_allVars => ChaseFacts'
  <2> SUFFICES ASSUME ExitInv, ExitInv', HeldWithinFaults, Tally, [ExitNext]_allVars
               PROVE  HeldWithinFaults' /\ Tally'
    OBVIOUS
  <2>1. TypeInv /\ TypeInv' /\ OrdersHeld
    BY HeldWithoutFaults DEF ExitInv
  <2>2. CASE [Next]_vars
    BY <2>1, <2>2, NextHeld, NextTally
  <2>3. CASE Aside
    BY <2>1, <2>3, AsideHeld, AsideTally
  <2> QED
    BY <2>2, <2>3, ExitStepKinds
<1>3. ExitInv => TypeInv
  BY DEF ExitInv
<1>4. ChaseFacts => HeldWithinFaults /\ OrdersHeld /\ Tally
  BY HeldWithoutFaults
<1> HIDE DEF ChaseFacts
<1> QED
  BY <1>1, <1>2, <1>3, <1>4, ExitInvAlways, PTL DEF ExitSpec

\* A chase a monitor has handed its bracket to, in dynamic_bbo mode, for any brackets,
\* editors and bounds: the maker orders left behind on the book stay within the calls
\* that have raised, those of monitors and of updates included, and there are none
\* before the first.
THEOREM WatchedForgetNothing ==
  ASSUME ChaseMode = "dynamic_bbo"
  PROVE  ExitSpec => [](NoForgottenOrder /\ ForgottenWithinFaults)
BY ExitBooksAlways, HeldIsAttended, HeldIsOwed, PTL

\* The same chases sell no more than their bracket's amount while no call has raised,
\* and those that nobody stops return only when less than the minimum order is left or
\* after three rejections, however updates replace the stops of the others meanwhile.
THEOREM WatchedSellWithin ==
  ASSUME ChaseMode = "dynamic_bbo"
  PROVE  ExitSpec => [](SoldWithinAmount /\ UnstoppedChaseExits)
BY ExitBooksAlways, TallySells, TallyExits, PTL

=============================================================================
