--------------------------- MODULE OrderEdit_proofs ---------------------------
(***************************************************************************)
(* TLAPS proofs about OrderEdit, for any pairs, prices, edits, polls and   *)
(* faults: its types, that an edit multiplies no exposure, and that an     *)
(* armed bracket keeps its take-profit.                                    *)
(***************************************************************************)
EXTENDS OrderEdit, FiniteSetTheorems, TLAPS

(***************************************************************************)
(* Type correctness.  Beyond the types: a pressed button means that a line *)
(* is dragged and nothing is being confirmed or sent; what is confirmed or *)
(* sent names a line and a price.                                          *)
(***************************************************************************)
HandSound ==
  /\ pressed => drag \in Things /\ ~dialog /\ ~Modifying /\ edits < MaxEdits
  /\ dialog => /\ mod.id \in Things /\ mod.price \in Prices
               /\ ~Modifying => edits < MaxEdits
  /\ Modifying => request.mod.id \in Things /\ request.mod.price \in Prices

TypeInv == OrderEditTypeOK /\ HandSound

LEMMA DataFacts ==
  /\ 1 \in Ids /\ Ids \subseteq Nat /\ Ids \subseteq Things /\ Stop \in Things
  /\ None \notin Things /\ 0 \notin Prices /\ Start \in Prices /\ Home \in Symbols
  /\ Blank \in Listing /\ NoMod \in Mod /\ NoRequest \in Request /\ NoPoll \in Poll
  /\ NoRequest.stage = "idle" /\ NoMod.id = None
<1>1. /\ 1 \in Ids /\ Ids \subseteq Nat /\ Ids \subseteq Things /\ Stop \in Things
      /\ None \notin Things /\ 0 \notin Prices /\ Start \in Prices /\ Home \in Symbols
  BY OrderEditAssumption DEF Ids, Things, Stop, None
<1>2. Blank \in Listing
  BY DEF Blank, Listing
<1>3. NoMod \in Mod /\ NoMod.id = None
  BY <1>1 DEF NoMod, Mod
<1>4. NoRequest \in Request /\ NoRequest.stage = "idle"
  BY <1>3 DEF NoRequest, Request
<1>5. NoPoll \in Poll
  BY <1>1, <1>2 DEF NoPoll, Poll
<1> QED
  BY <1>1, <1>2, <1>3, <1>4, <1>5

LEMMA InitTypeInv == Init => TypeInv
<1> SUFFICES ASSUME Init PROVE TypeInv
  OBVIOUS
<1>1. book \in [Ids -> Order] /\ stop \in [on : BOOLEAN, price : Prices]
  BY DataFacts DEF Init, Order
<1>2. /\ polls \in [Slots -> Poll] /\ list \in Listing /\ lines \in Listing
      /\ mod \in Mod /\ request \in Request
  BY DataFacts DEF Init
<1>3. MaxEdits \in Nat /\ MaxFaults \in Nat /\ MaxSwitches \in Nat
  BY OrderEditAssumption
<1>4. ~pressed /\ ~dialog /\ ~Modifying
  BY DataFacts DEF Init, Modifying
<1>5. tp \in Ids /\ unlinked \subseteq Ids /\ missed \in Nat /\ unheard \in Nat /\ sym \in Symbols
  BY DataFacts DEF Init
<1>6. pressed \in BOOLEAN /\ down \in BOOLEAN /\ drag \in Things \cup {None} /\ dialog \in BOOLEAN
  BY DEF Init
<1>7. edits \in 0 .. MaxEdits /\ faults \in 0 .. MaxFaults /\ switches \in 0 .. MaxSwitches
  BY <1>3 DEF Init
<1>8. OrderEditTypeOK
  BY <1>1, <1>2, <1>5, <1>6, <1>7, Zenon DEF OrderEditTypeOK
<1> QED
  BY <1>4, <1>8, Zenon DEF TypeInv, HandSound

-----------------------------------------------------------------------------
(* The list and the lines.                                                 *)

LEMMA HeldType == TypeInv => \A s \in Symbols : Held(s) \in Listing
BY DataFacts DEF TypeInv, OrderEditTypeOK, Held, Listing, OpenOn, Order, Things

LEMMA RedrawnType ==
  ASSUME TypeInv, NEW new \in Listing
  PROVE  Redrawn(new) \in Listing
BY DEF TypeInv, OrderEditTypeOK, Redrawn, Listing

\* A step of a poll keeps the types if the poll does.
LEMMA PollInv ==
  ASSUME TypeInv, NEW f \in Slots, NEW q \in Poll, polls' = [polls EXCEPT ![f] = q],
         NoFault \/ Fault,
         UNCHANGED <<bookVars, sym, list, lines, dragVars, editVars, switches>>
  PROVE  TypeInv'
<1>1. polls' \in [Slots -> Poll]
  BY DEF TypeInv, OrderEditTypeOK
<1>2. faults' \in 0 .. MaxFaults
  BY OrderEditAssumption DEF TypeInv, OrderEditTypeOK, NoFault, Fault
<1> QED
  BY <1>1, <1>2
  DEF TypeInv, OrderEditTypeOK, HandSound, Modifying, bookVars, dragVars, editVars

LEMMA PollingInv ==
  ASSUME TypeInv, Polling
  PROVE  TypeInv'
<1>1. PICK f \in Slots : StartPoll(f) \/ Serve(f) \/ Answer(f)
  BY DEF Polling
<1>2. polls[f] \in Poll /\ sym \in Symbols /\ polls[f].sym \in Symbols
  BY DEF TypeInv, OrderEditTypeOK, Poll
<1>3. CASE StartPoll(f)
  <2> DEFINE q == [phase |-> "sent", sym |-> sym, ans |-> Blank]
  <2>1. q \in Poll
    BY <1>2, DataFacts DEF Poll
  <2> QED
    BY <1>3, <2>1, PollInv DEF StartPoll, NoFault, boundVars
<1>4. CASE Serve(f)
  <2>1. Held(polls[f].sym) \in Listing
    BY <1>2, HeldType
  <2>2. \A lost : [t \in Things |-> IF t \in lost THEN 0 ELSE Held(polls[f].sym)[t]] \in Listing
    BY <2>1 DEF Listing
  <2>3. PICK a \in Listing :
          /\ polls' = [polls EXCEPT ![f].phase = "served", ![f].ans = a]
          /\ NoFault \/ Fault
    BY <1>4, <2>1, <2>2 DEF Serve
  <2> DEFINE q == [polls[f] EXCEPT !.phase = "served", !.ans = a]
  <2>4. q \in Poll
    <3>1. "served" \in {"idle", "sent", "served"}
      OBVIOUS
    <3> QED
      BY <1>2, <2>3, <3>1, Zenon DEF Poll
  <2>5. polls' = [polls EXCEPT ![f] = q]
    <3>1. polls = [g \in Slots |-> polls[g]]
      BY DEF TypeInv, OrderEditTypeOK
    <3>2. polls' = [polls EXCEPT ![f] = [[polls[f] EXCEPT !.phase = "served"] EXCEPT !.ans = a]]
      BY <2>3, <3>1
    <3> QED
      BY <3>2
  <2> HIDE DEF q
  <2> QED
    BY <1>4, <2>3, <2>4, <2>5, PollInv DEF Serve
<1>5. CASE Answer(f)
  <2>1. polls' \in [Slots -> Poll]
    BY <1>5, DataFacts DEF Answer, TypeInv, OrderEditTypeOK
  <2>2. list' \in Listing /\ lines' \in Listing
    BY <1>2, <1>5, RedrawnType DEF Answer, Poll
  <2>3. mod' \in Mod /\ mod'.id = mod.id /\ mod'.price = mod.price
    BY <1>5 DEF Answer, TypeInv, OrderEditTypeOK, Mod
  <2> DEFINE keep == request.line /\ \A t \in Things : t = request.mod.id => lines'[t] # 0
             m == [request.mod EXCEPT !.fresh = FALSE]
  <2>4. m \in Mod /\ m.id = request.mod.id /\ m.price = request.mod.price
    BY DEF TypeInv, OrderEditTypeOK, Request, Mod
  <2>5. request' = [request EXCEPT !.mod = m, !.line = keep]
    BY <1>5 DEF Answer, TypeInv, OrderEditTypeOK, Request
  <2>6. request \in Request /\ keep \in BOOLEAN
    BY DEF TypeInv, OrderEditTypeOK
  <2> HIDE DEF m, keep
  <2>7. request' \in Request
    BY <2>4, <2>5, <2>6, Zenon DEF Request
  <2>8. request'.stage = request.stage /\ request'.mod = m
    BY <2>5, <2>6, Zenon DEF Request
  <2> QED
    BY <1>5, <2>1, <2>2, <2>3, <2>4, <2>7, <2>8
    DEF Answer, TypeInv, OrderEditTypeOK, HandSound, Modifying, bookVars, dragVars, boundVars
<1> QED
  BY <1>1, <1>3, <1>4, <1>5

-----------------------------------------------------------------------------
(* The hand on the chart.                                                  *)

LEMMA HandKept ==
  ASSUME TypeInv, UNCHANGED <<bookVars, sym, listVars, lines, editVars, boundVars>>,
         pressed' \in BOOLEAN, down' \in BOOLEAN, drag' \in Things \cup {None},
         pressed' => /\ drag' \in Things /\ ~dialog /\ ~Modifying /\ edits < MaxEdits
  PROVE  TypeInv'
BY DEF TypeInv, OrderEditTypeOK, HandSound, Modifying, bookVars, listVars, editVars, boundVars

LEMMA AskedType ==
  ASSUME TypeInv, NEW t \in Things, NEW p \in Prices, NEW live \in Prices
  PROVE  /\ Asked(t, p, live) \in Mod /\ Asked(t, p, live).id = t
         /\ Asked(t, p, live).price \in Prices
<1>1. Capped(p, live) \in Prices
  BY DEF Capped
<1>2. list[t] \in Prices \cup {0} /\ sym \in Symbols
  BY DEF TypeInv, OrderEditTypeOK, Listing
<1> QED
  BY <1>1, <1>2 DEF Asked, Mod

\* A request that is sent names a line and a price.
LEMMA SentType ==
  ASSUME TypeInv, NEW m \in Mod, Send(m), edits < MaxEdits
  PROVE  /\ request' \in Request /\ request'.stage = "sent" /\ request'.mod = m
         /\ mod' = m /\ edits' \in 0 .. MaxEdits
<1>1. request' \in Request /\ request'.stage = "sent" /\ request'.mod = m
  BY DEF Send, Request
<1>2. edits' \in 0 .. MaxEdits
  BY OrderEditAssumption DEF Send, TypeInv, OrderEditTypeOK
<1> QED
  BY <1>1, <1>2 DEF Send

LEMMA HandInv ==
  ASSUME TypeInv, Hand
  PROVE  TypeInv'
<1>1. ASSUME NEW t \in Things, StartDrag(t) PROVE TypeInv'
  <2>1. ~dialog /\ ~Modifying
    BY <1>1, DataFacts DEF StartDrag, TypeInv, HandSound
  <2> QED
    BY <1>1, <2>1, HandKept DEF StartDrag
<1>2. ASSUME NEW p \in Prices, NEW live \in Prices, Drop(p, live) PROVE TypeInv'
  <2> DEFINE m == Asked(drag, p, live)
  <2>1. drag \in Things /\ ~dialog /\ ~Modifying /\ edits < MaxEdits
    BY <1>2 DEF Drop, LetGo, TypeInv, HandSound
  <2>2. m \in Mod /\ m.id \in Things /\ m.price \in Prices
    BY <2>1, AskedType
  <2> HIDE DEF m
  <2>3. lines' \in Listing
    <3>1. lines' = [lines EXCEPT ![drag] = IF lines[drag] = 0 THEN 0 ELSE m.price]
      BY <1>2 DEF Drop, m
    <3> QED
      BY <2>1, <2>2, <3>1 DEF TypeInv, OrderEditTypeOK, Listing
  <2>4. /\ pressed' = FALSE /\ down' = FALSE /\ drag' = None
        /\ UNCHANGED <<bookVars, sym, listVars, boundVars>>
    BY <1>2 DEF Drop, LetGo
  <2>5. CASE mod' = m /\ dialog' = TRUE /\ UNCHANGED <<request, edits>>
    BY <2>1, <2>2, <2>3, <2>4, <2>5
    DEF TypeInv, OrderEditTypeOK, HandSound, Modifying, bookVars, listVars, boundVars
  <2>6. CASE Send(m) /\ UNCHANGED dialog
    <3>1. /\ request' \in Request /\ request'.stage = "sent" /\ request'.mod = m
          /\ mod' = m /\ edits' \in 0 .. MaxEdits
      BY <2>1, <2>2, <2>6, SentType
    <3> QED
      BY <2>1, <2>2, <2>3, <2>4, <2>6, <3>1
      DEF TypeInv, OrderEditTypeOK, HandSound, Modifying, bookVars, listVars, boundVars
  <2> QED
    BY <1>2, <2>5, <2>6 DEF Drop, m
<1>3. CASE DropNothing
  BY <1>3, HandKept DEF DropNothing, LetGo, TypeInv, OrderEditTypeOK
<1>4. CASE Confirm
  <2>1. /\ mod \in Mod /\ mod.id \in Things /\ mod.price \in Prices /\ edits < MaxEdits
        /\ dialog /\ ~pressed
    BY <1>4 DEF Confirm, TypeInv, OrderEditTypeOK, HandSound
  <2>2. /\ request' \in Request /\ request'.stage = "sent" /\ request'.mod = mod
        /\ mod' = mod /\ edits' \in 0 .. MaxEdits
    BY <1>4, <2>1, SentType DEF Confirm
  <2> QED
    BY <1>4, <2>1, <2>2
    DEF Confirm, TypeInv, OrderEditTypeOK, HandSound, Modifying, bookVars, listVars, dragVars,
        boundVars
<1>5. CASE Abandon
  <2>1. lines' \in Listing
    <3>1. mod.id \in Things /\ mod.old \in Prices \cup {0}
      BY <1>5 DEF Abandon, TypeInv, OrderEditTypeOK, HandSound, Mod
    <3>2. lines' = [lines EXCEPT ![mod.id] = IF lines[mod.id] = 0 THEN 0 ELSE mod.old]
      BY <1>5 DEF Abandon
    <3> QED
      BY <3>1, <3>2 DEF TypeInv, OrderEditTypeOK, Listing
  <2> QED
    BY <1>5, <2>1, DataFacts
    DEF Abandon, TypeInv, OrderEditTypeOK, HandSound, Modifying, bookVars, listVars, dragVars,
        boundVars
<1> QED
  BY <1>1, <1>2, <1>3, <1>4, <1>5 DEF Hand

-----------------------------------------------------------------------------
(* The edit at the backend, and the rest of the world.                     *)

\* The request moves on to another stage.
LEMMA StageType ==
  ASSUME TypeInv, NEW stage \in {"idle", "sent", "cut", "done", "failed"},
         request' = [request EXCEPT !.stage = stage]
  PROVE  request' \in Request /\ request'.stage = stage /\ request'.mod = request.mod
<1>1. request \in Request
  BY DEF TypeInv, OrderEditTypeOK
<1>2. request' \in Request
  BY <1>1, Zenon DEF Request
<1>3. request'.stage = stage /\ request'.mod = request.mod
  BY <1>1, Zenon DEF Request
<1> QED
  BY <1>2, <1>3

\* A backend step keeps the types if it keeps those of the bracket and the orders.
LEMMA StageInv ==
  ASSUME TypeInv, Modifying, NEW stage \in {"cut", "done", "failed"},
         request' = [request EXCEPT !.stage = stage],
         book' \in [Ids -> Order], stop' \in [on : BOOLEAN, price : Prices],
         tp' \in Ids, unlinked' \subseteq Ids, missed' \in Nat, unheard' \in Nat,
         NoFault \/ Fault,
         UNCHANGED <<sym, listVars, lines, dragVars, mod, dialog, edits, switches>>
  PROVE  TypeInv'
<1>1. request' \in Request /\ request'.stage = stage /\ request'.mod = request.mod
  BY StageType
<1>2. faults' \in 0 .. MaxFaults
  BY OrderEditAssumption DEF TypeInv, OrderEditTypeOK, NoFault, Fault
<1>3. OrderEditTypeOK'
  BY <1>1, <1>2 DEF TypeInv, OrderEditTypeOK, listVars, dragVars
<1>4. HandSound'
  BY <1>1 DEF TypeInv, HandSound, Modifying, dragVars
<1> QED
  BY <1>3, <1>4 DEF TypeInv

LEMMA BackendFacts ==
  ASSUME TypeInv
  PROVE  /\ book \in [Ids -> Order] /\ stop \in [on : BOOLEAN, price : Prices]
         /\ tp \in Ids /\ unlinked \subseteq Ids /\ missed \in Nat /\ unheard \in Nat /\ request \in Request
         /\ request.mod \in Mod /\ request.mod.sym \in Symbols
         /\ request.stage \notin {"idle"} =>
              Modifying /\ request.mod.id \in Things /\ request.mod.price \in Prices
BY DEF TypeInv, OrderEditTypeOK, HandSound, Modifying, Request, Mod

\* What the cancel and the create of an edit do to the orders.
LEMMA CancelOldOrders ==
  ASSUME TypeInv, CancelOld
  PROVE  /\ request.stage = "sent" /\ request' = [request EXCEPT !.stage = "cut"]
         /\ NoFault \/ Fault
         /\ \/ \E t \in Ids : /\ t = request.mod.id /\ book[t].state = "open"
                              /\ book' = [book EXCEPT ![t].state = "cancelled"]
                              /\ missed' = missed
            \/ book' = book /\ missed' = missed + 1
BY DEF CancelOld, OpenOn

LEMMA CancelledType ==
  ASSUME TypeInv, NEW t \in Ids, book' = [book EXCEPT ![t].state = "cancelled"]
  PROVE  /\ book' \in [Ids -> Order] /\ book'[t].state = "cancelled"
         /\ \A i \in Ids \ {t} : book'[i] = book[i]
<1>1. book[t] \in Order /\ book \in [Ids -> Order]
  BY BackendFacts
<1>2. [book[t] EXCEPT !.state = "cancelled"] \in Order
  BY <1>1 DEF Order
<1>3. [book[t] EXCEPT !.state = "cancelled"].state = "cancelled"
  BY <1>1 DEF Order
<1> QED
  BY <1>1, <1>2, <1>3

LEMMA CreatedType ==
  ASSUME TypeInv, NEW n \in Ids, request.stage = "cut",
         book' = [book EXCEPT ![n] = [state |-> "open", sym |-> request.mod.sym,
                                      price |-> request.mod.price]]
  PROVE  /\ book' \in [Ids -> Order] /\ book'[n].state = "open"
         /\ \A i \in Ids \ {n} : book'[i] = book[i]
<1>1. request.mod.sym \in Symbols /\ request.mod.price \in Prices
  BY BackendFacts
<1>2. [state |-> "open", sym |-> request.mod.sym, price |-> request.mod.price] \in Order
  BY <1>1 DEF Order
<1> QED
  BY <1>2, BackendFacts

LEMMA BackendInv ==
  ASSUME TypeInv, Backend
  PROVE  TypeInv'
<1>0. /\ book \in [Ids -> Order] /\ stop \in [on : BOOLEAN, price : Prices]
      /\ tp \in Ids /\ unlinked \subseteq Ids /\ missed \in Nat /\ unheard \in Nat /\ request \in Request
      /\ request.mod \in Mod /\ request.mod.sym \in Symbols
      /\ request.stage \notin {"idle"} =>
           Modifying /\ request.mod.id \in Things /\ request.mod.price \in Prices
  BY BackendFacts
<1>1. CASE MoveStop
  <2>1. Modifying /\ request.mod.price \in Prices
    BY <1>0, <1>1 DEF MoveStop
  <2>2. stop' \in [on : BOOLEAN, price : Prices]
    BY <1>0, <1>1, <2>1 DEF MoveStop
  <2> QED
    BY <1>0, <1>1, <2>1, <2>2, StageInv DEF MoveStop, boundVars, NoFault
<1>2. CASE CancelOld
  <2>1. book' \in [Ids -> Order] /\ missed' \in Nat /\ Modifying
    BY <1>0, <1>2, CancelOldOrders, CancelledType
  <2> QED
    BY <1>0, <1>2, <2>1, CancelOldOrders, StageInv DEF CancelOld
<1>3. CASE CreateNew
  <2>1. PICK n \in Ids :
          /\ book' = [book EXCEPT ![n] = [state |-> "open", sym |-> request.mod.sym,
                                          price |-> request.mod.price]]
          /\ tp' = Relinked(request.mod.id, n)
    BY <1>3 DEF CreateNew, Placed
  <2>2. book' \in [Ids -> Order] /\ tp' \in Ids /\ Modifying
    BY <1>0, <1>3, <2>1, CreatedType DEF CreateNew, Relinked
  <2> QED
    BY <1>0, <1>3, <2>2, StageInv DEF CreateNew, boundVars, NoFault
<1>4. CASE RefuseNew
  <2>1. unlinked' \subseteq Ids /\ Modifying
    BY <1>0, <1>4 DEF RefuseNew, Raise
  <2> QED
    BY <1>0, <1>4, <2>1, StageInv DEF RefuseNew, Raise, boundVars, NoFault
<1>7. CASE LoseNew
  <2>1. PICK n \in Ids :
          book' = [book EXCEPT ![n] = [state |-> "open", sym |-> request.mod.sym,
                                       price |-> request.mod.price]]
    BY <1>7 DEF LoseNew, Placed
  <2>2. request.stage = "cut" /\ unheard' = unheard + 1
    BY <1>7 DEF LoseNew
  <2>3. book' \in [Ids -> Order]
    BY <2>1, <2>2, CreatedType
  <2>4. unheard' \in Nat /\ Modifying
    BY <1>0, <2>2
  <2>5. CASE UNCHANGED <<request, unlinked>>
    <3>1. request' = [request EXCEPT !.stage = "cut"]
      BY <1>0, <2>2, <2>5 DEF Request
    <3> QED
      BY <1>0, <1>7, <2>3, <2>4, <2>5, <3>1, StageInv DEF LoseNew
  <2>6. CASE Raise
    <3>1. unlinked' \subseteq Ids
      BY <1>0, <2>6 DEF Raise
    <3> QED
      BY <1>0, <1>7, <2>3, <2>4, <2>6, <3>1, StageInv DEF LoseNew, Raise
  <2> QED
    BY <1>7, <2>5, <2>6 DEF LoseNew
<1>5. CASE LoseAnswer
  <2>1. Modifying
    BY <1>0, <1>5 DEF LoseAnswer
  <2> QED
    BY <1>0, <1>5, <2>1, StageInv DEF LoseAnswer, bookVars
<1>6. CASE Finish
  <2> DEFINE m == request.mod
             done == request.stage = "done"
  <2>1. m.id \in Things /\ m.price \in Prices /\ m.old \in Prices \cup {0}
    BY <1>0, <1>6 DEF Finish, Mod
  <2>2. lines \in Listing /\ list \in Listing
    BY DEF TypeInv, OrderEditTypeOK
  <2>3. lines' \in Listing /\ list' \in Listing
    <3>1. \A v \in Prices \cup {0} : /\ [lines EXCEPT ![m.id] = v] \in Listing
                                    /\ [list EXCEPT ![m.id] = v] \in Listing
      BY <2>2 DEF Listing
    <3> QED
      BY <1>6, <2>1, <2>2, <3>1 DEF Finish
  <2>4. request' \in Request /\ mod' \in Mod /\ ~Modifying' /\ ~dialog'
    BY <1>6, DataFacts DEF Finish, Modifying
  <2>5. ~pressed
    BY <1>0, <1>6 DEF Finish, TypeInv, HandSound
  <2>6. dialog' = FALSE /\ UNCHANGED <<bookVars, sym, polls, dragVars, edits, boundVars>>
    BY <1>6 DEF Finish
  <2> HIDE DEF m, done
  <2> QED
    BY <2>3, <2>4, <2>5, <2>6
    DEF TypeInv, OrderEditTypeOK, HandSound, bookVars, dragVars, boundVars
<1> QED
  BY <1>1, <1>2, <1>3, <1>4, <1>5, <1>6, <1>7 DEF Backend

LEMMA WorldInv ==
  ASSUME TypeInv, World
  PROVE  TypeInv'
<1>1. ASSUME NEW i \in Ids, Fill(i) PROVE TypeInv'
  <2>1. book' \in [Ids -> Order]
    BY <1>1 DEF Fill, TypeInv, OrderEditTypeOK, Order
  <2> QED
    BY <1>1, <2>1
    DEF Fill, TypeInv, OrderEditTypeOK, HandSound, Modifying, listVars, dragVars, editVars,
        boundVars
<1>2. CASE StopEnds
  <2>1. stop' = NoStop /\ tp' = 1 /\ unlinked' = {}
    BY <1>2 DEF StopEnds
  <2>2. stop' \in [on : BOOLEAN, price : Prices] /\ tp' \in Ids /\ unlinked' \subseteq Ids
    BY <2>1, DataFacts, OrderEditAssumption DEF NoStop, Ids
  <2> QED
    BY <1>2, <2>2
    DEF StopEnds, TypeInv, OrderEditTypeOK, HandSound, Modifying, listVars, dragVars, editVars,
        boundVars
<1>3. CASE Switch
  <2>1. request \in Request
    BY DEF TypeInv, OrderEditTypeOK
  <2>2. request' = [request EXCEPT !.line = FALSE] /\ FALSE \in BOOLEAN
    BY <1>3 DEF Switch
  <2>3. request' \in Request
    BY <2>1, <2>2, Zenon DEF Request
  <2>4. request'.stage = request.stage /\ request'.mod = request.mod
    BY <2>1, <2>2, Zenon DEF Request
  <2>5. switches' \in 0 .. MaxSwitches
    BY <1>3, OrderEditAssumption DEF Switch, TypeInv, OrderEditTypeOK
  <2>6. HandSound'
    BY <1>3, <2>4 DEF Switch, TypeInv, HandSound, Modifying
  <2> QED
    BY <1>3, <2>3, <2>5, <2>6, DataFacts
    DEF Switch, TypeInv, OrderEditTypeOK, bookVars, listVars
<1> QED
  BY <1>1, <1>2, <1>3 DEF World

LEMMA NextTypeInv == TypeInv /\ [Next]_vars => TypeInv'
<1>1. TypeInv /\ UNCHANGED vars => TypeInv'
  BY DEF TypeInv, OrderEditTypeOK, HandSound, Modifying, vars, bookVars, listVars, dragVars,
     editVars, boundVars
<1> QED
  BY <1>1, PollingInv, HandInv, BackendInv, WorldInv DEF Next

LEMMA TypeInvAlways == Spec => []TypeInv
BY InitTypeInv, NextTypeInv, PTL DEF Spec

\* Every variable keeps its type, for any pairs, prices, polls and bounds: a type
\* invariant and no more, which the two theorems below stand on.
THEOREM OrderEditTypes == Spec => []OrderEditTypeOK
<1>1. TypeInv => OrderEditTypeOK
  BY DEF TypeInv
<1> QED
  BY <1>1, TypeInvAlways, PTL

(***************************************************************************)
(* What a step does to the orders that can execute, to the bracket and to  *)
(* the stage of the edit: only the cancel and the creates say anything     *)
(* about them, the rest leaves them as they are.                           *)
(***************************************************************************)
LEMMA ExecutableFinite ==
  ASSUME TypeInv
  PROVE  /\ Executable \subseteq Ids /\ IsFiniteSet(Executable)
         /\ Cardinality(Executable) \in Nat
<1>1. IsFiniteSet(Ids)
  BY FS_Interval, OrderEditAssumption DEF Ids
<1>2. Executable \subseteq Ids
  BY DEF Executable
<1>3. IsFiniteSet(Executable)
  BY <1>1, <1>2, FS_Subset
<1> QED
  BY <1>2, <1>3, FS_CardinalityType

LEMMA CancelEffect ==
  ASSUME TypeInv, CancelOld
  PROVE  /\ request.stage = "sent" /\ request'.stage = "cut"
         /\ request'.mod = request.mod
         /\ \/ /\ request.mod.id \in Executable /\ missed' = missed
               /\ Executable' = Executable \ {request.mod.id}
            \/ Executable' = Executable /\ missed' = missed + 1
<1>1. request.stage = "sent" /\ request'.stage = "cut" /\ request'.mod = request.mod
  BY CancelOldOrders, StageType
<1>2. ASSUME NEW t \in Ids, t = request.mod.id, book[t].state = "open",
             book' = [book EXCEPT ![t].state = "cancelled"], missed' = missed
      PROVE  /\ t \in Executable /\ missed' = missed /\ Executable' = Executable \ {t}
  BY <1>2, CancelledType DEF Executable
<1>3. ASSUME book' = book PROVE Executable' = Executable
  BY <1>3 DEF Executable
<1> QED
  BY <1>1, <1>2, <1>3, CancelOldOrders

LEMMA CreateEffect ==
  ASSUME TypeInv, CreateNew
  PROVE  /\ request.stage = "cut" /\ request'.stage = "done"
         /\ missed' = missed /\ unheard' = unheard
         /\ stop' = stop /\ unlinked' = unlinked
         /\ \E n \in Ids : /\ n \notin Executable /\ Executable' = Executable \cup {n}
                           /\ tp' = Relinked(request.mod.id, n)
<1>1. PICK n \in Ids :
        /\ book[n].state = "none"
        /\ book' = [book EXCEPT ![n] = [state |-> "open", sym |-> request.mod.sym,
                                        price |-> request.mod.price]]
        /\ tp' = Relinked(request.mod.id, n)
  BY DEF CreateNew, Placed
<1>2. n \notin Executable /\ Executable' = Executable \cup {n}
  BY <1>1, CreatedType DEF Executable, CreateNew
<1> QED
  BY <1>1, <1>2, StageType DEF CreateNew

\* A create that raises once its order is placed: the edit tries again or is over.
LEMMA LoseEffect ==
  ASSUME TypeInv, LoseNew
  PROVE  /\ request.stage = "cut" /\ request'.stage \in {"cut", "failed"}
         /\ request'.mod = request.mod /\ missed' = missed /\ unheard' = unheard + 1
         /\ stop' = stop /\ tp' = tp /\ unlinked \subseteq unlinked'
         /\ request'.stage = "failed" /\ request.mod.id = tp /\ stop.on => tp \in unlinked'
         /\ \E n \in Ids : n \notin Executable /\ Executable' = Executable \cup {n}
<1>1. PICK n \in Ids :
        /\ book[n].state = "none"
        /\ book' = [book EXCEPT ![n] = [state |-> "open", sym |-> request.mod.sym,
                                        price |-> request.mod.price]]
  BY DEF LoseNew, Placed
<1>2. n \notin Executable /\ Executable' = Executable \cup {n}
  BY <1>1, CreatedType DEF Executable, LoseNew
<1>3. CASE UNCHANGED <<request, unlinked>>
  BY <1>2, <1>3 DEF LoseNew
<1>4. CASE Raise
  <2>1. request'.stage = "failed" /\ request'.mod = request.mod
    BY <1>4, StageType DEF Raise
  <2> QED
    BY <1>2, <1>4, <2>1 DEF LoseNew, Raise
<1> QED
  BY <1>3, <1>4 DEF LoseNew

\* Every other step.
Gap(r) == r.stage = "cut"

Idle ==
  /\ Executable' = Executable /\ missed' = missed /\ unheard' = unheard
  /\ stop'.on => stop.on /\ tp' = tp /\ unlinked \subseteq unlinked'
  /\ \/ ~Gap(request) /\ ~Gap(request')
     \/ request'.stage = request.stage /\ request'.mod.id = request.mod.id
     \/ Gap(request) /\ ~Gap(request') /\ (stop.on /\ request.mod.id = tp => tp \in unlinked')

LEMMA NextEffect ==
  ASSUME TypeInv, [Next]_vars
  PROVE  CancelOld \/ CreateNew \/ LoseNew \/ Idle
<1>0. /\ request \in Request /\ stop \in [on : BOOLEAN, price : Prices]
  BY DEF TypeInv, OrderEditTypeOK
<1>1. ASSUME UNCHANGED <<bookVars, request>> PROVE Idle
  BY <1>1 DEF Idle, Gap, bookVars, Executable
<1>2. CASE Polling
  <2>1. PICK f \in Slots : StartPoll(f) \/ Serve(f) \/ Answer(f)
    BY <1>2 DEF Polling
  <2>2. CASE StartPoll(f) \/ Serve(f)
    BY <1>1, <2>2 DEF StartPoll, Serve, editVars
  <2>3. CASE Answer(f)
    <3> DEFINE keep == request.line /\ \A t \in Things : t = request.mod.id => lines'[t] # 0
               m == [request.mod EXCEPT !.fresh = FALSE]
    <3>1. m.id = request.mod.id
      BY <1>0 DEF Request, Mod
    <3>2. request' = [request EXCEPT !.mod = m, !.line = keep]
      BY <1>0, <2>3 DEF Answer, Request
    <3> HIDE DEF m, keep
    <3>3. request'.stage = request.stage /\ request'.mod = m
      BY <1>0, <3>2, Zenon DEF Request
    <3> QED
      BY <2>3, <3>1, <3>3 DEF Answer, Idle, Gap, bookVars, Executable
  <2> QED
    BY <2>1, <2>2, <2>3
<1>3. CASE Hand
  <2>1. ASSUME ~Modifying, \E m : Send(m), UNCHANGED bookVars PROVE Idle
    BY <2>1 DEF Modifying, Send, Idle, Gap, bookVars, Executable
  <2>2. CASE (\E t \in Things : StartDrag(t)) \/ DropNothing \/ Abandon
    BY <1>1, <2>2 DEF StartDrag, DropNothing, Abandon, editVars
  <2>3. CASE Confirm
    BY <2>1, <2>3 DEF Confirm
  <2>4. ASSUME NEW p \in Prices, NEW live \in Prices, Drop(p, live) PROVE Idle
    <3>1. ~Modifying
      BY <2>4 DEF Drop, LetGo, TypeInv, HandSound
    <3> QED
      BY <1>1, <2>1, <2>4, <3>1 DEF Drop
  <2> QED
    BY <1>3, <2>2, <2>3, <2>4 DEF Hand
<1>4. CASE MoveStop
  <2>1. request.stage = "sent" /\ request'.stage = "done"
    BY <1>4, StageType DEF MoveStop
  <2>2. stop'.on = stop.on
    BY <1>0, <1>4 DEF MoveStop
  <2> QED
    BY <1>4, <2>1, <2>2 DEF MoveStop, Idle, Gap, Executable
<1>5. CASE RefuseNew
  <2>1. request.stage = "cut" /\ request'.stage = "failed"
    BY <1>5, StageType DEF RefuseNew, Raise
  <2> QED
    BY <1>5, <2>1 DEF RefuseNew, Raise, Idle, Gap, Executable
<1>6. CASE LoseAnswer
  <2>1. request.stage # "cut" /\ request'.stage = "failed"
    BY <1>6, StageType DEF LoseAnswer
  <2> QED
    BY <1>6, <2>1 DEF LoseAnswer, Idle, Gap, Executable, bookVars
<1>7. CASE Finish
  BY <1>7, DataFacts DEF Finish, Idle, Gap, Executable, bookVars
<1>8. CASE StopEnds
  <2>1. stop'.on = FALSE /\ request' = request
    BY <1>8 DEF StopEnds, NoStop, editVars
  <2> QED
    BY <1>8, <2>1 DEF StopEnds, Idle, Gap, Executable
<1>9. ASSUME NEW i \in Ids, Fill(i) PROVE Idle
  <2>1. book[i] \in Order /\ book \in [Ids -> Order]
    BY DEF TypeInv, OrderEditTypeOK
  <2>2. [book[i] EXCEPT !.state = "filled"].state = "filled"
    BY <2>1 DEF Order
  <2>3. Executable' = Executable
    BY <1>9, <2>1, <2>2 DEF Fill, Executable
  <2> QED
    BY <1>9, <2>3 DEF Fill, Idle, Gap, editVars
<1>10. CASE Switch
  <2>1. request'.stage = request.stage /\ request'.mod = request.mod
    BY <1>0, <1>10, Zenon DEF Switch, Request
  <2> QED
    BY <1>10, <2>1 DEF Switch, Idle, Gap, Executable, bookVars
<1>11. CASE UNCHANGED vars
  BY <1>1, <1>11 DEF vars, editVars
<1> QED
  BY <1>2, <1>3, <1>4, <1>5, <1>6, <1>7, <1>8, <1>9, <1>10, <1>11 DEF Next, Backend, World

-----------------------------------------------------------------------------

LEMMA ExposureStep == TypeInv /\ ExposureWithinMisses /\ [Next]_vars => ExposureWithinMisses'
<1> SUFFICES ASSUME TypeInv, ExposureWithinMisses, [Next]_vars PROVE ExposureWithinMisses'
  OBVIOUS
<1>1. /\ IsFiniteSet(Executable) /\ Cardinality(Executable) \in Nat /\ missed \in Nat
  BY ExecutableFinite, BackendFacts
<1>0. unheard \in Nat
  BY BackendFacts
<1>2. CASE CancelOld
  <2>0. unheard' = unheard
    BY <1>2 DEF CancelOld
  <2>1. CASE /\ request.mod.id \in Executable /\ missed' = missed
             /\ Executable' = Executable \ {request.mod.id}
    <3>1. Cardinality(Executable') = Cardinality(Executable) - 1
      BY <1>1, <2>1, FS_RemoveElement
    <3> QED
      BY <1>0, <1>1, <1>2, <2>0, <2>1, <3>1, CancelEffect DEF ExposureWithinMisses
  <2>2. CASE Executable' = Executable /\ missed' = missed + 1
    BY <1>0, <1>1, <1>2, <2>0, <2>2, CancelEffect DEF ExposureWithinMisses
  <2> QED
    BY <1>2, <2>1, <2>2, CancelEffect
<1>3. CASE CreateNew
  <2>1. PICK n \in Ids : n \notin Executable /\ Executable' = Executable \cup {n}
    BY <1>3, CreateEffect
  <2>2. Cardinality(Executable') = Cardinality(Executable) + 1
    BY <1>1, <2>1, FS_AddElement
  <2> QED
    BY <1>0, <1>1, <1>3, <2>2, CreateEffect DEF ExposureWithinMisses
<1>4. CASE LoseNew
  <2>1. PICK n \in Ids : n \notin Executable /\ Executable' = Executable \cup {n}
    BY <1>4, LoseEffect
  <2>2. Cardinality(Executable') = Cardinality(Executable) + 1
    BY <1>1, <2>1, FS_AddElement
  <2> QED
    BY <1>0, <1>1, <1>4, <2>2, LoseEffect DEF ExposureWithinMisses
<1>5. CASE Idle
  BY <1>0, <1>1, <1>5 DEF Idle, Gap, ExposureWithinMisses
<1> QED
  BY <1>2, <1>3, <1>4, <1>5, NextEffect

\* For any pairs, prices, edits, polls and faults, however often a create is tried
\* again: an edit leaves one order more only where a cancel that reached no order
\* was swallowed or a create raised after placing one (edit_manual_trade,
\* manual_trade_service.py l. 1884-1993).
THEOREM EditsKeepExposure == Spec => []ExposureWithinMisses
<1>1. Init => ExposureWithinMisses
  <2> SUFFICES ASSUME Init PROVE ExposureWithinMisses
    OBVIOUS
  <2>1. Executable = {1} /\ missed = 0 /\ unheard = 0 /\ request.stage = "idle"
    BY DataFacts DEF Init, Executable
  <2>2. Cardinality({1}) = 1
    BY FS_Singleton
  <2> QED
    BY <2>1, <2>2 DEF ExposureWithinMisses
<1> QED
  BY <1>1, ExposureStep, TypeInvAlways, PTL DEF Spec

LEMMA LinkStep == TypeInv /\ LinkFollows /\ [Next]_vars => LinkFollows'
<1> SUFFICES ASSUME TypeInv, LinkFollows, [Next]_vars, stop'.on
             PROVE  \/ tp' \in Executable' \/ tp' \in unlinked'
                    \/ request'.stage = "cut" /\ request'.mod.id = tp'
  BY DEF LinkFollows
<1>1. CASE CancelOld
  <2>1. tp' = tp /\ stop' = stop /\ unlinked' = unlinked
    BY <1>1 DEF CancelOld
  <2> QED
    BY <1>1, <2>1, CancelEffect DEF LinkFollows
<1>2. CASE CreateNew
  <2>1. PICK n \in Ids : Executable' = Executable \cup {n} /\ tp' = Relinked(request.mod.id, n)
    BY <1>2, CreateEffect
  <2> QED
    BY <1>2, <2>1, CreateEffect DEF LinkFollows, Relinked
<1>3. CASE LoseNew
  BY <1>3, LoseEffect DEF LinkFollows
<1>4. CASE Idle
  BY <1>4 DEF Idle, Gap, LinkFollows
<1> QED
  BY <1>1, <1>2, <1>3, <1>4, NextEffect

\* For any pairs, prices, edits, polls and faults: tp_order_id of the armed bracket
\* names an order that rests or has filled, outside the gap of an edit and but for a
\* take-profit whose edit ended with an exception after its cancel (l. 1995-2057).
THEOREM EditsKeepTakeProfit == Spec => []LinkFollows
<1>1. Init => LinkFollows
  BY DataFacts DEF Init, LinkFollows, Executable
<1> QED
  BY <1>1, LinkStep, TypeInvAlways, PTL DEF Spec

=============================================================================
