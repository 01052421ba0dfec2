-------------------------- MODULE SmartChase_proofs --------------------------
(***************************************************************************)
(* TLAPS proofs about SmartChase, for every set of brackets, every amount  *)
(* and every bound: type correctness; that the maker orders left behind on *)
(* the book are no more than the remote calls that have raised; that the   *)
(* scan for conflicting orders spares what other brackets have armed; and  *)
(* that the chase implements ExitContract, with what it inherits from it.  *)
(***************************************************************************)
EXTENDS SmartChase, FiniteSetTheorems, TLAPS

(***************************************************************************)
(* What each effect of module Exchange does to the type of the account and *)
(* to the set of open orders.                                              *)
(***************************************************************************)
LEMMA FaultCount ==
  ASSUME ExchangeTypeOK, NoFault \/ Fault
  PROVE  faults' \in Nat /\ (faults' = 0 => faults = 0 /\ NoFault)
BY DEF ExchangeTypeOK, NoFault, Fault

LEMMA LedgerKept ==
  ASSUME ExchangeTypeOK, UNCHANGED <<orders, ledgerVars>>, faults' \in Nat
  PROVE  ExchangeTypeOK' /\ Open' = Open
BY DEF ExchangeTypeOK, ledgerVars, Open

LEMMA RestEffect ==
  ASSUME ExchangeTypeOK, NEW o \in OrderIds, NEW q \in Nat, Rest(o, q), faults' \in Nat
  PROVE  ExchangeTypeOK' /\ Open' \subseteq Open \cup {o}
<1>1. orders' \in [OrderIds -> Order]
  BY DEF ExchangeTypeOK, Rest, Order
<1>2. locked' \in Int
  BY DEF ExchangeTypeOK, Rest
<1>3. Open' \subseteq Open \cup {o}
  BY DEF ExchangeTypeOK, Rest, Open
<1> QED
  BY <1>1, <1>2, <1>3 DEF ExchangeTypeOK, Rest

LEMMA CancelEffect ==
  ASSUME ExchangeTypeOK, NEW S, CancelOrders(S), faults' \in Nat
  PROVE  ExchangeTypeOK' /\ Open' = Open \ S
<1>1. \A o \in OrderIds : [orders[o] EXCEPT !.status = "canceled"] \in Order
  BY DEF ExchangeTypeOK, Order
<1>2. orders' \in [OrderIds -> Order]
  BY <1>1 DEF ExchangeTypeOK, CancelOrders
<1>3. lagging' \in SUBSET OrderIds
  BY DEF ExchangeTypeOK, CancelOrders, Open
<1>4. \A o \in OrderIds : [orders[o] EXCEPT !.status = "canceled"].status = "canceled"
  BY DEF ExchangeTypeOK, Order
<1>5. Open' = Open \ S
  BY <1>4 DEF CancelOrders, Open
<1> QED
  BY <1>2, <1>3, <1>5 DEF ExchangeTypeOK, CancelOrders

LEMMA SellEffect ==
  ASSUME ExchangeTypeOK, NEW b \in Brackets, NEW q \in Nat, SellAtMarket(b, q),
         faults' \in Nat
  PROVE  ExchangeTypeOK' /\ Open' = Open
<1> DEFINE k == Lesser(q, holding)
<1>1. k \in Nat /\ holding - k \in Nat
  BY DEF ExchangeTypeOK, Lesser
<1>2. swept' \in [Brackets -> Nat]
  BY <1>1 DEF ExchangeTypeOK, SellAtMarket
<1> QED
  BY <1>1, <1>2 DEF ExchangeTypeOK, SellAtMarket, Open

LEMMA FillEffect ==
  ASSUME ExchangeTypeOK, NEW o, Fill(o)
  PROVE  ExchangeTypeOK' /\ Open' \subseteq Open /\ faults' = faults
<1>1. /\ o \in OrderIds /\ o \in Open /\ orders[o] \in Order
      /\ orders[o].qty \in Nat /\ orders[o].filled \in Nat
      /\ holding \in Nat /\ locked \in Int
  BY DEF ExchangeTypeOK, Fill, Open, Order
<1>2. PICK k \in 1 .. Lesser(Left(o), holding) :
        /\ orders' = [orders EXCEPT
                        ![o].filled = @ + k,
                        ![o].status = IF k = Left(o) THEN "closed" ELSE "open"]
        /\ holding' = holding - k
        /\ locked' = IF Futures THEN locked ELSE locked - k
  BY DEF Fill
<1>3. k \in Nat /\ holding - k \in Nat
  BY <1>1, <1>2 DEF Lesser, Left
<1> DEFINE f == orders[o].filled + k
           s == IF k = Left(o) THEN "closed" ELSE "open"
<1>4. f \in Nat /\ s \in {"none", "open", "closed", "canceled"}
  BY <1>1, <1>3
<1>5. orders' \in [OrderIds -> Order]
  <2>1. [orders EXCEPT ![o].filled = f] \in [OrderIds -> Order]
    BY <1>1, <1>4 DEF ExchangeTypeOK, Order
  <2>2. [[orders EXCEPT ![o].filled = f] EXCEPT ![o].status = s] \in [OrderIds -> Order]
    BY <1>1, <1>4, <2>1 DEF Order
  <2> QED
    BY <1>2, <2>2
<1>6. Open' \subseteq Open
  <2>1. \A p \in OrderIds \ {o} : orders'[p] = orders[p]
    BY <1>2 DEF ExchangeTypeOK
  <2> QED
    BY <1>1, <2>1 DEF Open
<1>7. locked' \in Int
  BY <1>1, <1>2, <1>3
<1> QED
  BY <1>2, <1>3, <1>5, <1>6, <1>7 DEF ExchangeTypeOK, Fill

\* The market and the account owner open no order and raise no call.
LEMMA MarketEffect ==
  ASSUME ExchangeTypeOK, Market
  PROVE  ExchangeTypeOK' /\ Open' \subseteq Open /\ faults' = faults
<1>1. ASSUME NEW o \in OrderIds, ReleaseLots(o)
      PROVE  ExchangeTypeOK' /\ Open' \subseteq Open /\ faults' = faults
  <2>1. Left(o) \in Int
    BY DEF ExchangeTypeOK, Order, Left
  <2> QED
    BY <1>1, <2>1 DEF ExchangeTypeOK, ReleaseLots, Open
<1>2. CASE CloseOutside
  BY <1>2 DEF ExchangeTypeOK, CloseOutside, Lesser, Sellable, Free, Open
<1> QED
  BY <1>1, <1>2, FillEffect DEF Market

(***************************************************************************)
(* Type correctness.  What the steps need beyond TypeOK: an attempt number *)
(* within bounds where an order id is formed from it, an order id where    *)
(* one is looked up, a natural number where lots are sold.                 *)
(***************************************************************************)
AttemptPoints == {"book", "sync", "resync"} \cup PlacePoints
HoldPoints == CancelPoints \cup FetchPoints \cup {"watch"}

Sound(b, r) ==
  /\ r \in Chase
  /\ r.attempts <= MaxAttempts
  /\ r.pc \in AttemptPoints \cup HoldPoints => r.attempts >= 1
  /\ r.pc \in HoldPoints => r.current = Maker(b, r.attempts)
  /\ r.pc \in MarketPoints \cup FetchPoints => r.num \in Nat

TypeInv == TypeOK /\ \A b \in Brackets : Sound(b, chase[b])

LEMMA PointsFacts ==
  /\ ReadPoints \subseteq Points /\ PlacePoints \subseteq Points
  /\ MarketPoints \subseteq Points /\ HoldPoints \subseteq Points
  /\ AttemptPoints \subseteq Points
  /\ {"scan", "cleanup", "idle", "book", "watch", "pause", "done"} \subseteq Points
BY DEF Points, CallPoints, ReadPoints, PlacePoints, MarketPoints, HoldPoints,
       AttemptPoints, CancelPoints, FetchPoints

LEMMA AwaitFields ==
  ASSUME NEW r \in Chase, NEW p \in Points
  PROVE  /\ Await(r, p) \in Chase
         /\ Await(r, p).pc = p /\ Await(r, p).num = 0 /\ Await(r, p).reply = "pending"
         /\ Await(r, p).attempts = r.attempts /\ Await(r, p).current = r.current
<1>1. 0 \in Int /\ "pending" \in Replies
  BY DEF Replies
<1>2. Await(r, p) \in Chase
  BY <1>1, Zenon DEF Await, Chase
<1>3. Await(r, p).pc = p /\ Await(r, p).num = 0 /\ Await(r, p).reply = "pending"
  BY Zenon DEF Await, Chase
<1>4. Await(r, p).attempts = r.attempts /\ Await(r, p).current = r.current
  BY Zenon DEF Await, Chase
<1> QED
  BY <1>2, <1>3, <1>4

LEMMA AwaitSound ==
  ASSUME NEW b \in Brackets, NEW r \in Chase, NEW p \in Points, r.attempts <= MaxAttempts,
         p \in AttemptPoints \cup HoldPoints => r.attempts >= 1,
         p \in HoldPoints => r.current = Maker(b, r.attempts)
  PROVE  Sound(b, Await(r, p))
BY AwaitFields DEF Sound

LEMMA MarketSound ==
  ASSUME NEW b \in Brackets, NEW r \in Chase, NEW p \in MarketPoints, r.attempts <= MaxAttempts, NEW q \in Nat
  PROVE  Sound(b, [Await(r, p) EXCEPT !.num = q])
<1> DEFINE a == Await(r, p)
<1>1. p \in Points /\ p \notin HoldPoints /\ p \notin AttemptPoints
  BY DEF Points, CallPoints, MarketPoints, HoldPoints, AttemptPoints, CancelPoints,
         FetchPoints, PlacePoints
<1>2. a \in Chase /\ a.pc = p /\ a.attempts = r.attempts
  BY <1>1, AwaitFields
<1>3. [a EXCEPT !.num = q] \in Chase
  BY <1>2 DEF Chase
<1>4. /\ [a EXCEPT !.num = q].pc = p /\ [a EXCEPT !.num = q].attempts = r.attempts
      /\ [a EXCEPT !.num = q].num = q
  BY <1>2 DEF Chase
<1> QED
  BY <1>1, <1>3, <1>4 DEF Sound

LEMMA NotStartedType == NotStarted \in Chase
BY DEF NotStarted, Chase, Replies, Points, Outcomes

LEMMA NotStartedSound == \A b \in Brackets : Sound(b, NotStarted)
BY NotStartedType, ExchangeAssumption
DEF Sound, NotStarted, MarketPoints, HoldPoints, AttemptPoints, CancelPoints,
    FetchPoints, PlacePoints

LEMMA ReturnFields ==
  ASSUME NEW r \in Chase, NEW outcome \in Outcomes
  PROVE  /\ Return(r, outcome) \in Chase
         /\ Return(r, outcome).pc = "done"
         /\ Return(r, outcome).attempts = r.attempts
<1>1. NotStarted \in Chase /\ "done" \in Points
  BY NotStartedType, PointsFacts
<1>2. Return(r, outcome) \in Chase
  BY <1>1, Zenon DEF Return, Chase
<1>3. Return(r, outcome).pc = "done" /\ Return(r, outcome).attempts = r.attempts
  BY <1>1, Zenon DEF Return, Chase
<1> QED
  BY <1>2, <1>3

LEMMA ReturnSound ==
  ASSUME NEW b \in Brackets, NEW r \in Chase, NEW outcome \in Outcomes, r.attempts <= MaxAttempts
  PROVE  Sound(b, Return(r, outcome))
BY ReturnFields
DEF Sound, MarketPoints, HoldPoints, AttemptPoints, CancelPoints, FetchPoints, PlacePoints

LEMMA FinalSweepSound ==
  ASSUME NEW b \in Brackets, NEW r \in Chase, r.attempts <= MaxAttempts
  PROVE  Sound(b, FinalSweep(r))
<1>1. r.remaining \in Nat
  BY DEF Chase
<1>2. "None" \in Outcomes /\ "final" \in MarketPoints /\ "finalBalance" \in Points
      /\ "finalBalance" \notin AttemptPoints /\ "finalBalance" \notin HoldPoints
  BY DEF Outcomes, MarketPoints, Points, CallPoints, ReadPoints, AttemptPoints,
         HoldPoints, CancelPoints, FetchPoints, PlacePoints
<1> QED
  BY <1>1, <1>2, AwaitSound, MarketSound, ReturnSound DEF FinalSweep

LEMMA LoopTopSound ==
  ASSUME NEW b \in Brackets, NEW r \in Chase, r.attempts <= MaxAttempts
  PROVE  Sound(b, LoopTop(r))
<1> DEFINE top == [r EXCEPT !.current = NoOrder]
<1>1. top \in Chase /\ top.attempts = r.attempts /\ top.attempts <= MaxAttempts
  BY DEF Chase
<1>2. CASE r.cancel
  BY <1>1, <1>2, ReturnSound DEF LoopTop, Outcomes
<1>3. CASE ~r.cancel /\ r.attempts >= MaxAttempts
  BY <1>1, <1>3, FinalSweepSound DEF LoopTop
<1>4. CASE ~r.cancel /\ ~(r.attempts >= MaxAttempts)
  <2> DEFINE a == Await(top, "book")
             n == [a EXCEPT !.attempts = r.attempts + 1]
  <2>1. a \in Chase /\ a.pc = "book" /\ a.attempts = r.attempts
    <3>1. "book" \in Points
      BY PointsFacts
    <3> HIDE DEF top
    <3> QED
      BY <1>1, <3>1, AwaitFields
  <2>2. LoopTop(r) = n
    BY <1>4, <2>1 DEF LoopTop
  <2>3. r.attempts \in Nat /\ MaxAttempts \in Nat
    BY ExchangeAssumption DEF Chase
  <2>4. n \in Chase /\ n.pc = "book" /\ n.attempts = r.attempts + 1
    BY <2>1, <2>3 DEF Chase
  <2> QED
    BY <1>4, <2>2, <2>3, <2>4
    DEF Sound, HoldPoints, CancelPoints, FetchPoints, MarketPoints
<1> QED
  BY <1>2, <1>3, <1>4

LEMMA ClampedType ==
  ASSUME NEW r \in Chase
  PROVE  /\ Clamped(r) \in Chase
         /\ Clamped(r).remaining <= r.remaining
         /\ \A f \in {"pc", "reply", "num", "attempts", "rejects", "cancel", "current", "why"} :
              Clamped(r)[f] = r[f]
BY DEF Clamped, Chase, Lesser

LEMMA PauseSound ==
  ASSUME NEW b \in Brackets, NEW r \in Chase, r.attempts <= MaxAttempts
  PROVE  Sound(b, Pause(r))
<1>1. 0 \in Int /\ "ok" \in Replies /\ "pause" \in Points
  BY PointsFacts DEF Replies
<1>2. Pause(r) \in Chase
  BY <1>1, Zenon DEF Pause, Chase
<1>3. Pause(r).pc = "pause" /\ Pause(r).attempts = r.attempts
  BY Zenon DEF Pause, Chase
<1> QED
  BY <1>2, <1>3
  DEF Sound, HoldPoints, AttemptPoints, CancelPoints, FetchPoints, PlacePoints, MarketPoints

LEMMA NotPlacedSound ==
  ASSUME NEW b \in Brackets, NEW r \in Chase, r.attempts <= MaxAttempts
  PROVE  Sound(b, NotPlaced(r))
<1>1. "position" \in Points /\ "position" \notin AttemptPoints /\ "position" \notin HoldPoints
  BY DEF Points, CallPoints, ReadPoints, AttemptPoints, HoldPoints, CancelPoints,
         FetchPoints, PlacePoints
<1> QED
  BY <1>1, AwaitSound, PauseSound DEF NotPlaced

LEMMA WatchSound ==
  ASSUME NEW b \in Brackets, NEW r \in Chase, r.attempts \in 1 .. MaxAttempts
  PROVE  Sound(b, Watch(r, b))
<1>1. Maker(b, r.attempts) \in OrderIds
  BY DEF Maker, OrderIds
<1>2. "ok" \in Replies /\ "watch" \in Points
  BY PointsFacts DEF Replies
<1>3. Watch(r, b) \in Chase
  BY <1>1, <1>2, Zenon DEF Watch, Chase
<1>4. /\ Watch(r, b).pc = "watch" /\ Watch(r, b).attempts = r.attempts
      /\ Watch(r, b).current = Maker(b, r.attempts)
  BY Zenon DEF Watch, Chase
<1> QED
  BY <1>1, <1>3, <1>4, ExchangeAssumption
  DEF Sound, AttemptPoints, PlacePoints, MarketPoints, FetchPoints

LEMMA AfterRepegSound ==
  ASSUME NEW b \in Brackets, NEW r \in Chase, NEW filled \in Nat, r.attempts <= MaxAttempts
  PROVE  Sound(b, AfterRepeg(r, filled))
<1> DEFINE left == [r EXCEPT !.remaining = IF filled < @ THEN @ - filled ELSE 0]
<1>1. left \in Chase /\ left.attempts <= MaxAttempts
  BY DEF Chase
<1>2. AfterRepeg(r, filled) \in {Return(left, "filled"), LoopTop(left)}
  BY DEF AfterRepeg
<1> QED
  BY <1>1, <1>2, ReturnSound, LoopTopSound DEF Outcomes

LEMMA AnsweredSound ==
  ASSUME NEW b \in Brackets, NEW r, Sound(b, r), NEW word \in Replies, NEW n \in Int,
         r.pc \in MarketPoints \cup FetchPoints => n \in Nat
  PROVE  Sound(b, Answered(r, word, n))
<1>1. r \in Chase
  BY DEF Sound
<1>2. Answered(r, word, n) \in Chase
  BY <1>1, Zenon DEF Answered, Chase
<1>3. /\ Answered(r, word, n).pc = r.pc /\ Answered(r, word, n).num = n
      /\ Answered(r, word, n).attempts = r.attempts
      /\ Answered(r, word, n).current = r.current
  BY <1>1, Zenon DEF Answered, Chase
<1> QED
  BY <1>2, <1>3 DEF Sound

LEMMA LinkedType == TypeOK => \A b \in Brackets : Linked(sl[b]) \in SUBSET OrderIds
BY DEF TypeOK, SoftwareSL, Linked

LEMMA CleanupSound ==
  ASSUME TypeOK, NEW b \in Brackets, NEW r \in Chase, r.attempts <= MaxAttempts,
         NEW reason \in {"start", "reduceonly", "insufficient"}
  PROVE  Sound(b, Cleanup(r, b, reason))
<1> DEFINE s == [r EXCEPT !.why = reason, !.targets = r.linked]
<1>1. r.linked \in SUBSET OrderIds
  BY DEF Chase
<1>2. s \in Chase
  BY <1>1, Zenon DEF Chase
<1>3. s.attempts = r.attempts
  BY Zenon DEF Chase
<1>4. /\ {"scan", "cleanup"} \subseteq Points
      /\ \A p \in {"scan", "cleanup"} :
            p \notin AttemptPoints \cup HoldPoints \cup MarketPoints \cup FetchPoints
  BY PointsFacts
  DEF AttemptPoints, HoldPoints, CancelPoints, FetchPoints, PlacePoints, MarketPoints
<1>5. Sound(b, Await(s, "scan")) /\ Sound(b, Await(s, "cleanup"))
  BY <1>2, <1>3, <1>4, AwaitSound
<1>6. ProtectedFrom(b) \in SUBSET OrderIds
  BY LinkedType DEF ProtectedFrom
<1>7. Sound(b, [Await(s, "scan") EXCEPT !.protected = ProtectedFrom(b)])
  <2> DEFINE a == Await(s, "scan")
             t == [a EXCEPT !.protected = ProtectedFrom(b)]
  <2>1. a \in Chase /\ a.pc = "scan" /\ a.attempts <= MaxAttempts
    BY <1>2, <1>3, <1>4, AwaitFields
  <2>2. t \in Chase /\ t.pc = "scan" /\ t.attempts <= MaxAttempts
    BY <1>6, <2>1 DEF Chase
  <2> QED
    BY <1>4, <2>2 DEF Sound
<1> QED
  BY <1>5, <1>7 DEF Cleanup

-----------------------------------------------------------------------------
(* The steps.  A step of a coroutine replaces its locals by sound locals.  *)

LEMMA InitTypeInv == Init => TypeInv
<1> SUFFICES ASSUME Init PROVE TypeInv
  OBVIOUS
<1>1. PICK tps \in SUBSET Brackets, disasters \in SUBSET {b \in Brackets : Futures} :
        LET resting == {Tp(b) : b \in tps} \cup {Disaster(b, 0) : b \in disasters}
        IN  /\ orders = [o \in OrderIds |->
                           [status |-> IF o \in resting THEN "open" ELSE "none",
                            qty |-> IF o \in resting THEN Amount ELSE 0,
                            filled |-> 0]]
            /\ sl = [b \in Brackets |->
                       [live |-> TRUE, cancelled |-> FALSE,
                        tp |-> IF b \in tps THEN Tp(b) ELSE NoOrder,
                        disaster |-> IF b \in disasters THEN Disaster(b, 0) ELSE NoOrder]]
            /\ locked = IF Futures THEN 0 ELSE Amount * Cardinality(tps)
  BY DEF Init
<1>2. Amount \in Nat /\ Holding \in Nat /\ MaxRevisions \in Nat
  BY ExchangeAssumption
<1>3. orders \in [OrderIds -> Order]
  BY <1>1, <1>2 DEF Order
<1>4. locked \in Int
  <2>1. IsFiniteSet(tps)
    BY FS_Subset, ExchangeAssumption
  <2>2. Cardinality(tps) \in Nat
    BY <2>1, FS_CardinalityType
  <2> QED
    BY <1>1, <1>2, <2>2
<1>5. sl \in [Brackets -> SoftwareSL]
  <2>1. \A b \in Brackets : Tp(b) \in OrderIds /\ Disaster(b, 0) \in OrderIds
    BY <1>2 DEF Tp, Disaster, OrderIds
  <2> QED
    BY <1>1, <2>1 DEF SoftwareSL
<1>6. ExchangeTypeOK
  BY <1>2, <1>3, <1>4 DEF Init, ExchangeTypeOK
<1>7. \A b \in Brackets : Sound(b, chase[b])
  BY NotStartedSound DEF Init
<1> QED
  BY <1>5, <1>6, <1>7, NotStartedSound DEF Init, TypeInv, TypeOK, Sound

LEMMA ResumeInv ==
  ASSUME TypeInv, NEW b \in Brackets, NEW r, Sound(b, r), Resume(b, r)
  PROVE  TypeInv'
<1>1. r \in Chase
  BY DEF Sound
<1>2. chase' \in [Brackets -> Chase]
  BY <1>1 DEF TypeInv, TypeOK, Resume
<1>3. \A c \in Brackets : Sound(c, chase'[c])
  BY DEF TypeInv, TypeOK, Resume
<1>4. UNCHANGED exchangeVars /\ ExchangeTypeOK'
  BY DEF TypeInv, TypeOK, Resume, exchangeVars, ledgerVars, ExchangeTypeOK, Open
<1> QED
  BY <1>2, <1>3, <1>4 DEF TypeInv, TypeOK, Resume

LEMMA SizedInv ==
  ASSUME TypeInv, NEW b \in Brackets, NEW r \in Chase, r.attempts <= MaxAttempts,
         Sized(b, r)
  PROVE  TypeInv'
<1>1. Sound(b, Return(r, "closed")) /\ Sound(b, Return(r, "prevented")) /\ Sound(b, LoopTop(r))
  BY ReturnSound, LoopTopSound DEF Outcomes
<1>2. CASE Resume(b, Return(r, "closed")) \/ Resume(b, Return(r, "prevented"))
  BY <1>1, <1>2, ResumeInv
<1>3. CASE Register(b, r)
  <2>1. LoopTop(r) \in Chase
    BY <1>1 DEF Sound
  <2>2. chase' \in [Brackets -> Chase] /\ \A c \in Brackets : Sound(c, chase'[c])
    BY <1>1, <1>3, <2>1 DEF Register, TypeInv, TypeOK
  <2>3. ExchangeTypeOK'
    BY <1>3 DEF TypeInv, TypeOK, Register, exchangeVars, ledgerVars, ExchangeTypeOK
  <2> QED
    BY <1>3, <2>2, <2>3 DEF TypeInv, TypeOK, Register
<1> QED
  BY <1>2, <1>3 DEF Sized

\* What the coroutine's steps start from.
LEMMA LocalsFacts ==
  ASSUME TypeInv, NEW b \in Brackets
  PROVE  /\ chase[b] \in Chase /\ Sound(b, chase[b])
         /\ chase[b].attempts \in Nat /\ chase[b].attempts <= MaxAttempts
         /\ MaxAttempts \in Nat
         /\ Clamped(chase[b]) \in Chase
         /\ Clamped(chase[b]).attempts = chase[b].attempts
         /\ Clamped(chase[b]).remaining \in Nat
         /\ Clamped(chase[b]).pc = chase[b].pc
         /\ Clamped(chase[b]).num = chase[b].num
         /\ Clamped(chase[b]).rejects = chase[b].rejects
<1>1. chase[b] \in Chase /\ Sound(b, chase[b])
  BY DEF TypeInv, TypeOK
<1>2. Clamped(chase[b]) \in Chase
  BY <1>1, ClampedType
<1>3. /\ Clamped(chase[b]).attempts = chase[b].attempts /\ Clamped(chase[b]).pc = chase[b].pc
      /\ Clamped(chase[b]).num = chase[b].num /\ Clamped(chase[b]).rejects = chase[b].rejects
  BY <1>1 DEF Clamped, Chase
<1>4. chase[b].attempts \in Nat /\ Clamped(chase[b]).remaining \in Nat
  BY <1>1, <1>2 DEF Chase
<1> QED
  BY <1>1, <1>2, <1>3, <1>4, ExchangeAssumption DEF Sound

\* Awaits that need nothing of the locals.
PlainPoints == (ReadPoints \ {"sync", "resync"}) \cup {"scan", "cleanup"}

LEMMA PlainAwaitSound ==
  ASSUME NEW b \in Brackets, NEW r \in Chase, r.attempts <= MaxAttempts, NEW p \in PlainPoints
  PROVE  Sound(b, Await(r, p))
<1>1. p \in Points /\ p \notin AttemptPoints /\ p \notin HoldPoints
  BY DEF PlainPoints, ReadPoints, Points, CallPoints, AttemptPoints, PlacePoints,
         HoldPoints, CancelPoints, FetchPoints
<1> QED
  BY <1>1, AwaitSound

LEMMA CoroutineInv ==
  ASSUME TypeInv, NEW b \in Brackets, Coroutine(b)
  PROVE  TypeInv'
<1> DEFINE r == chase[b]
           c == Clamped(r)
<1>0. /\ r \in Chase /\ Sound(b, r) /\ r.attempts \in Nat /\ r.attempts <= MaxAttempts
      /\ c \in Chase /\ c.attempts = r.attempts /\ c.remaining \in Nat
      /\ c.pc = r.pc /\ c.num = r.num /\ c.rejects = r.rejects /\ MaxAttempts \in Nat
  BY LocalsFacts
<1>1. CASE ScanReplied(b)
  <2>1. Sound(b, Await(r, "cleanup"))
    BY <1>0, PlainAwaitSound DEF PlainPoints
  <2> QED
    BY <1>1, <2>1, ResumeInv DEF ScanReplied
<1>2. CASE CleanupReplied(b)
  <2> DEFINE s == [r EXCEPT !.linked = {}, !.targets = {}, !.protected = {}]
  <2>1. s \in Chase
    BY <1>0, Zenon DEF Chase
  <2>2. s.attempts = r.attempts
    BY <1>0, Zenon DEF Chase
  <2>3. \A p \in {"size", "roPosition", "isync"} : Sound(b, Await(s, p))
    BY <1>0, <2>1, <2>2, PlainAwaitSound DEF PlainPoints, ReadPoints
  <2>4. s.why \in {"start", "reduceonly", "insufficient"}
    BY <2>1 DEF Chase
  <2>5. \E p \in {"size", "roPosition", "isync"} : Resume(b, Await(s, p))
    BY <1>2, <2>4 DEF CleanupReplied
  <2> QED
    BY <2>3, <2>5, ResumeInv
<1>3. CASE SizeReplied(b)
  <2>1. Sound(b, Await(c, "recheck1"))
    BY <1>0, PlainAwaitSound DEF PlainPoints, ReadPoints
  <2>2. Resume(b, Await(c, "recheck1")) \/ Sized(b, c)
    BY <1>3 DEF SizeReplied
  <2> QED
    BY <1>0, <2>1, <2>2, ResumeInv, SizedInv
<1>4. CASE RecheckReplied(b)
  <2>1. Sound(b, Await(c, "recheck2"))
    BY <1>0, PlainAwaitSound DEF PlainPoints, ReadPoints
  <2>2. Resume(b, Await(c, "recheck2")) \/ Sized(b, c)
    BY <1>4 DEF RecheckReplied
  <2> QED
    BY <1>0, <2>1, <2>2, ResumeInv, SizedInv
<1>5. CASE BookArrives(b)
  <2>1. r.attempts >= 1
    BY <1>0, <1>5 DEF BookArrives, Sound, AttemptPoints
  <2>2. Sound(b, Await(r, "sync"))
    BY <1>0, <2>1, AwaitSound DEF Points, CallPoints, ReadPoints, HoldPoints,
       CancelPoints, FetchPoints
  <2> QED
    BY <1>5, <2>2, ResumeInv DEF BookArrives
<1>6. CASE SyncReplied(b)
  <2>1. r.attempts >= 1
    BY <1>0, <1>6 DEF SyncReplied, Replied, Sound, AttemptPoints
  <2>2. Sound(b, Return(c, "dust"))
    BY <1>0, ReturnSound DEF Outcomes
  <2>3. Sound(b, Await(c, "place"))
    BY <1>0, <2>1, AwaitSound, PointsFacts DEF PlacePoints, HoldPoints, CancelPoints, FetchPoints
  <2>4. Sound(b, [Await(c, "breaker") EXCEPT !.num = c.remaining])
    BY <1>0, MarketSound DEF MarketPoints
  <2>5. Sound(b, Await(c, "breakerBalance"))
    BY <1>0, PlainAwaitSound DEF PlainPoints, ReadPoints
  <2>6. \/ Resume(b, Return(c, "dust")) \/ Resume(b, Await(c, "place"))
        \/ Resume(b, [Await(c, "breaker") EXCEPT !.num = c.remaining])
        \/ Resume(b, Await(c, "breakerBalance"))
    BY <1>6 DEF SyncReplied
  <2> QED
    BY <2>2, <2>3, <2>4, <2>5, <2>6, ResumeInv
<1>7. CASE PlaceReplied(b)
  <2>1. r.attempts \in 1 .. MaxAttempts
    BY <1>0, <1>7 DEF PlaceReplied, Replied, Sound, AttemptPoints, PlacePoints
  <2>2. Sound(b, Watch(r, b)) /\ Sound(b, NotPlaced(r))
    BY <1>0, <2>1, WatchSound, NotPlacedSound
  <2>3. Sound(b, Await(r, "resync"))
    BY <1>0, <2>1, AwaitSound
    DEF Points, CallPoints, ReadPoints, HoldPoints, CancelPoints, FetchPoints
  <2> DEFINE s == [r EXCEPT !.rejects = @ + 1]
  <2>4. s \in Chase /\ s.attempts = r.attempts
    BY <1>0 DEF Chase
  <2>5. Sound(b, Cleanup(s, b, "reduceonly")) /\ Sound(b, Cleanup(r, b, "insufficient"))
    BY <1>0, <2>4, CleanupSound DEF TypeInv
  <2>6. \/ Resume(b, Watch(r, b)) \/ Resume(b, NotPlaced(r))
        \/ Resume(b, Await(r, "resync")) \/ Resume(b, Cleanup(s, b, "reduceonly"))
        \/ Resume(b, Cleanup(r, b, "insufficient"))
    BY <1>7 DEF PlaceReplied
  <2> QED
    BY <2>2, <2>3, <2>5, <2>6, ResumeInv
<1>8. CASE ResyncReplied(b)
  <2>1. r.attempts >= 1
    BY <1>0, <1>8 DEF ResyncReplied, Replied, Sound, AttemptPoints
  <2>2. Sound(b, Await(c, "replace")) /\ Sound(b, NotPlaced(c))
    BY <1>0, <2>1, AwaitSound, NotPlacedSound, PointsFacts
    DEF PlacePoints, HoldPoints, CancelPoints, FetchPoints
  <2> QED
    BY <1>8, <2>2, ResumeInv DEF ResyncReplied
<1>9. CASE ReplaceReplied(b)
  <2>1. r.attempts \in 1 .. MaxAttempts
    BY <1>0, <1>9 DEF ReplaceReplied, Replied, Sound, AttemptPoints, PlacePoints
  <2>2. Sound(b, Watch(r, b)) /\ Sound(b, NotPlaced(r))
    BY <1>0, <2>1, WatchSound, NotPlacedSound
  <2> QED
    BY <1>9, <2>2, ResumeInv DEF ReplaceReplied
<1>10. CASE RoPositionReplied(b)
  <2>1. Sound(b, Return(c, "closed")) /\ Sound(b, Return(c, "aborted")) /\ Sound(b, Pause(c))
    BY <1>0, ReturnSound, PauseSound DEF Outcomes
  <2> QED
    BY <1>10, <2>1, ResumeInv DEF RoPositionReplied
<1>11. CASE IsyncReplied(b)
  BY <1>0, <1>11, LoopTopSound, ResumeInv DEF IsyncReplied
<1>12. CASE PositionReplied(b)
  <2>1. Sound(b, Return(r, "closed")) /\ Sound(b, Pause(c))
    BY <1>0, ReturnSound, PauseSound DEF Outcomes
  <2> QED
    BY <1>12, <2>1, ResumeInv DEF PositionReplied
<1>13. CASE PauseEnds(b)
  BY <1>0, <1>13, LoopTopSound, ResumeInv DEF PauseEnds
<1>14. CASE WatchEnds(b) \/ WatchCancelled(b)
  <2>1. r.attempts >= 1 /\ r.current = Maker(b, r.attempts)
    BY <1>0, <1>14 DEF WatchEnds, WatchCancelled, Sound, HoldPoints
  <2>2. Sound(b, Await(r, "status")) /\ Sound(b, Await(r, "userCancel")) /\ Sound(b, Pause(r))
    BY <1>0, <2>1, AwaitSound, PauseSound, PointsFacts
    DEF HoldPoints, CancelPoints, FetchPoints, AttemptPoints, PlacePoints
  <2> QED
    BY <1>14, <2>2, ResumeInv DEF WatchEnds, WatchCancelled
<1>15. CASE UserCancelReplied(b)
  <2>1. Sound(b, Return(r, "cancelled"))
    BY <1>0, ReturnSound DEF Outcomes
  <2> QED
    BY <1>15, <2>1, ResumeInv DEF UserCancelReplied
<1>16. CASE StatusReplied(b)
  <2>1. r.attempts >= 1 /\ r.current = Maker(b, r.attempts)
    BY <1>0, <1>16 DEF StatusReplied, Replied, Sound, HoldPoints, FetchPoints
  <2>2. Sound(b, Return(r, "filled")) /\ Sound(b, Pause(r)) /\ Sound(b, Await(r, "repeg"))
    BY <1>0, <2>1, ReturnSound, PauseSound, AwaitSound, PointsFacts
    DEF Outcomes, HoldPoints, CancelPoints, FetchPoints, AttemptPoints, PlacePoints
  <2>3. \/ Resume(b, Return(r, "filled")) \/ Resume(b, Pause(r))
        \/ Resume(b, Await(r, "repeg"))
    BY <1>16 DEF StatusReplied
  <2> QED
    BY <2>2, <2>3, ResumeInv
<1>17. CASE RepegReplied(b)
  <2>1. r.attempts >= 1 /\ r.current = Maker(b, r.attempts) /\ r.num \in Int
    BY <1>0, <1>17 DEF RepegReplied, Replied, Sound, HoldPoints, CancelPoints, Chase
  <2>2. Sound(b, Await(r, "refill"))
    BY <1>0, <2>1, AwaitSound, PointsFacts
    DEF HoldPoints, CancelPoints, FetchPoints, AttemptPoints, PlacePoints
  <2>3. r.num > 0 => Sound(b, AfterRepeg(r, r.num))
    BY <1>0, <2>1, AfterRepegSound
  <2> QED
    BY <1>17, <2>2, <2>3, ResumeInv DEF RepegReplied
<1>18. CASE RefillReplied(b)
  <2>1. r.num \in Nat
    BY <1>0, <1>18 DEF RefillReplied, Replied, Sound, FetchPoints
  <2>2. Sound(b, LoopTop(r)) /\ Sound(b, AfterRepeg(r, r.num))
    BY <1>0, <2>1, LoopTopSound, AfterRepegSound
  <2> QED
    BY <1>18, <2>2, ResumeInv DEF RefillReplied
<1>19. CASE BreakerBalanceReplied(b)
  <2> DEFINE q == SweepQty(r)
  <2>1. q \in Int
    BY <1>0 DEF SweepQty, Chase
  <2>2. q >= MinQty => Sound(b, [Await(r, "breaker") EXCEPT !.num = q])
    BY <1>0, <2>1, MarketSound, ExchangeAssumption DEF MarketPoints
  <2>3. Sound(b, Return(r, "dust")) /\ Sound(b, FinalSweep(r))
    BY <1>0, ReturnSound, FinalSweepSound DEF Outcomes
  <2> QED
    BY <1>19, <2>2, <2>3, ResumeInv DEF BreakerBalanceReplied
<1>20. CASE BreakerReplied(b)
  <2>1. Sound(b, Return(r, "swept")) /\ Sound(b, FinalSweep(r))
    BY <1>0, ReturnSound, FinalSweepSound DEF Outcomes
  <2> QED
    BY <1>20, <2>1, ResumeInv DEF BreakerReplied
<1>21. CASE FinalBalanceReplied(b)
  <2> DEFINE q == SweepQty(r)
  <2>1. q \in Int
    BY <1>0 DEF SweepQty, Chase
  <2>2. q >= MinQty => Sound(b, [Await(r, "final") EXCEPT !.num = q])
    BY <1>0, <2>1, MarketSound, ExchangeAssumption DEF MarketPoints
  <2>3. Sound(b, Return(r, "dust")) /\ Sound(b, Return(r, "None"))
    BY <1>0, ReturnSound DEF Outcomes
  <2> QED
    BY <1>21, <2>2, <2>3, ResumeInv DEF FinalBalanceReplied
<1>22. CASE FinalReplied(b)
  <2>1. Sound(b, Return(r, "swept")) /\ Sound(b, Return(r, "None"))
    BY <1>0, ReturnSound DEF Outcomes
  <2> QED
    BY <1>22, <2>1, ResumeInv DEF FinalReplied
<1> QED
  BY <1>1, <1>2, <1>3, <1>4, <1>5, <1>6, <1>7, <1>8, <1>9, <1>10, <1>11, <1>12, <1>13,
     <1>14, <1>15, <1>16, <1>17, <1>18, <1>19, <1>20, <1>21, <1>22 DEF Coroutine

-----------------------------------------------------------------------------
(* The other steps keep the types, and so does Next.                       *)

LEMMA InvokeInv ==
  ASSUME TypeInv, NEW b \in Brackets, Invoke(b)
  PROVE  TypeInv'
<1> DEFINE r == [chase[b] EXCEPT !.linked = Linked(sl[b]), !.remaining = Amount]
           k == Cleanup(r, b, "start")
<1>1. chase[b] \in Chase /\ Linked(sl[b]) \in SUBSET OrderIds /\ Amount \in Nat
  BY LinkedType, ExchangeAssumption DEF TypeInv, TypeOK
<1>2. r \in Chase
  BY <1>1, Zenon DEF Chase
<1>3. r.attempts = chase[b].attempts
  BY <1>1, Zenon DEF Chase
<1>4. Sound(b, k)
  BY <1>2, <1>3, CleanupSound DEF TypeInv, Sound
<1>5. chase' \in [Brackets -> Chase] /\ \A c \in Brackets : Sound(c, chase'[c])
  BY <1>4 DEF Invoke, TypeInv, TypeOK, Sound
<1>6. NoEntry \in SoftwareSL
  BY DEF NoEntry, SoftwareSL
<1>7. sl' \in [Brackets -> SoftwareSL]
  BY <1>6 DEF Invoke, TypeInv, TypeOK
<1>8. ExchangeTypeOK'
  BY DEF Invoke, TypeInv, TypeOK, exchangeVars, ledgerVars, ExchangeTypeOK
<1> QED
  BY <1>5, <1>7, <1>8 DEF Invoke, TypeInv, TypeOK

\* A call that changes the locals of one coroutine only.
LEMMA LocalsInv ==
  ASSUME TypeInv, NEW b \in Brackets, NEW r, Sound(b, r), ExchangeTypeOK',
         chase' = [chase EXCEPT ![b] = r], UNCHANGED <<active, sl, stopping>>
  PROVE  TypeInv'
<1>1. chase' \in [Brackets -> Chase] /\ \A c \in Brackets : Sound(c, chase'[c])
  BY DEF TypeInv, TypeOK, Sound
<1> QED
  BY <1>1 DEF TypeInv, TypeOK

LEMMA ReplyInv ==
  ASSUME TypeInv, NEW b \in Brackets, NEW word \in Replies, NEW n \in Int,
         chase[b].pc \in MarketPoints \cup FetchPoints => n \in Nat,
         Reply(b, word, n), ExchangeTypeOK'
  PROVE  TypeInv'
BY AnsweredSound, LocalsInv DEF Reply, TypeInv

LEMMA ServeInv ==
  ASSUME TypeInv, NEW b \in Brackets, Serve(b)
  PROVE  TypeInv'
<1> DEFINE r == chase[b]
<1>0. /\ r \in Chase /\ Sound(b, r) /\ ExchangeTypeOK
      /\ {"ok", "error", "postonly", "reduceonly", "insufficient", "open", "closed"}
           \subseteq Replies
      /\ holding \in Nat /\ locked \in Int
      /\ \A p \in ReadPoints \cup PlacePoints \cup CancelPoints \cup {"scan", "cleanup"} :
            p \notin MarketPoints \cup FetchPoints
  BY DEF TypeInv, TypeOK, ExchangeTypeOK, Replies, ReadPoints, PlacePoints, CancelPoints,
         MarketPoints, FetchPoints
<1>1. CASE ServeRead(b)
  <2>1. Sellable \in Int
    BY <1>0 DEF Sellable, Free
  <2>2. ExchangeTypeOK'
    BY <1>0, <1>1, FaultCount, LedgerKept DEF ServeRead
  <2>3. r.pc \notin MarketPoints \cup FetchPoints
    BY <1>0, <1>1 DEF ServeRead, Pending
  <2> QED
    BY <1>0, <1>1, <2>1, <2>2, <2>3, ReplyInv DEF ServeRead
<1>2. CASE ServeScan(b)
  <2>1. PICK found \in {Open, {}} :
          /\ NoFault \/ Fault
          /\ chase' = [chase EXCEPT ![b] = Scanned(r, found)]
    BY <1>2 DEF ServeScan
  <2>2. ExchangeTypeOK' /\ UNCHANGED <<active, sl, stopping>>
    BY <1>0, <1>2, <2>1, FaultCount, LedgerKept DEF ServeScan
  <2>3. found \subseteq OrderIds
    BY <2>1 DEF Open
  <2>4. r.targets \cup (found \ r.protected) \in SUBSET OrderIds
    BY <1>0, <2>3 DEF Chase
  <2>5. Scanned(r, found) \in Chase
    BY <1>0, <2>4, Zenon DEF Scanned, Chase
  <2>6. /\ Scanned(r, found).pc = r.pc /\ Scanned(r, found).attempts = r.attempts
        /\ Scanned(r, found).current = r.current
    BY <1>0, Zenon DEF Scanned, Chase
  <2>7. r.pc = "scan"
    BY <1>2 DEF ServeScan, Pending
  <2>8. Sound(b, Scanned(r, found))
    BY <1>0, <2>5, <2>6, <2>7 DEF Sound
  <2> QED
    BY <2>1, <2>2, <2>8, LocalsInv
<1>3. CASE ServeCleanup(b)
  <2>1. PICK failed \in SUBSET (r.targets \cap Open) :
          CancelOrders(r.targets \ failed) /\ (NoFault \/ Fault)
    BY <1>3 DEF ServeCleanup
  <2>2. ExchangeTypeOK'
    BY <1>0, <2>1, FaultCount, CancelEffect
  <2>3. r.pc \notin MarketPoints \cup FetchPoints
    BY <1>0, <1>3 DEF ServeCleanup, Pending
  <2> QED
    BY <1>0, <1>3, <2>2, <2>3, ReplyInv DEF ServeCleanup
<1>4. CASE ServePlace(b)
  <2> DEFINE o == Maker(b, r.attempts)
             q == r.remaining
  <2>1. r.pc \in PlacePoints /\ r.attempts \in 1 .. MaxAttempts
    BY <1>0, <1>4, ExchangeAssumption DEF ServePlace, Pending, Sound, AttemptPoints, Chase
  <2>2. o \in OrderIds /\ q \in Nat
    BY <1>0, <2>1 DEF Maker, OrderIds, Chase
  <2>3. \E word \in {"ok", "error", "postonly", "reduceonly", "insufficient"} :
          /\ NoFault \/ Fault
          /\ Rest(o, q) \/ UNCHANGED <<orders, ledgerVars>>
          /\ Reply(b, word, 0)
    BY <1>4 DEF ServePlace
  <2>4. ExchangeTypeOK'
    BY <1>0, <2>2, <2>3, FaultCount, LedgerKept, RestEffect
  <2> QED
    BY <1>0, <2>1, <2>3, <2>4, ReplyInv
<1>5. CASE ServeCancel(b)
  <2> DEFINE o == r.current
  <2>1. r.pc \in CancelPoints
    BY <1>5 DEF ServeCancel, Pending
  <2>2. o \in Open => o \in OrderIds /\ orders[o].filled \in Int
    BY <1>0 DEF Open, ExchangeTypeOK, Order
  <2>3. CASE o \in Open /\ CancelOrders({o}) /\ NoFault /\ Reply(b, "ok", orders[o].filled)
    BY <1>0, <2>1, <2>2, <2>3, FaultCount, CancelEffect, ReplyInv
  <2>4. CASE UNCHANGED <<orders, ledgerVars>> /\ (NoFault \/ Fault) /\ Reply(b, "error", 0)
    BY <1>0, <2>1, <2>4, FaultCount, LedgerKept, ReplyInv
  <2>5. UNCHANGED exchangeVars => UNCHANGED <<orders, ledgerVars>> /\ NoFault
    BY DEF exchangeVars, NoFault
  <2> QED
    BY <1>5, <2>3, <2>4, <2>5 DEF ServeCancel
<1>6. CASE ServeFetch(b)
  <2> DEFINE o == orders[r.current]
  <2>1. r.pc \in FetchPoints /\ r.attempts \in 1 .. MaxAttempts
        /\ r.current = Maker(b, r.attempts)
    BY <1>0, <1>6, ExchangeAssumption DEF ServeFetch, Pending, Sound, HoldPoints, Chase
  <2>2. o.filled \in Nat
    BY <1>0, <2>1 DEF Maker, OrderIds, ExchangeTypeOK, Order
  <2>3. ExchangeTypeOK'
    BY <1>0, <1>6, FaultCount, LedgerKept DEF ServeFetch
  <2>4. \E word \in {"open", "closed", "error"}, n \in {o.filled, 0} : Reply(b, word, n)
    BY <1>6 DEF ServeFetch
  <2> QED
    BY <1>0, <2>2, <2>3, <2>4, ReplyInv
<1>7. CASE ServeMarket(b)
  <2> DEFINE q == r.num
  <2>1. q \in Nat
    BY <1>0, <1>7 DEF ServeMarket, Pending, Sound
  <2>2. \E word \in {"ok", "error"} :
          /\ NoFault \/ Fault
          /\ SellAtMarket(b, q) \/ UNCHANGED <<orders, ledgerVars>>
          /\ Reply(b, word, 0)
    BY <1>7 DEF ServeMarket
  <2>3. ExchangeTypeOK'
    BY <1>0, <2>1, <2>2, FaultCount, LedgerKept, SellEffect
  <2> QED
    BY <1>0, <2>2, <2>3, ReplyInv
<1> QED
  BY <1>1, <1>2, <1>3, <1>4, <1>5, <1>6, <1>7 DEF Serve

\* stop_smart_chase touches cancel_event and one order.
LEMMA StopInv ==
  ASSUME TypeInv, NEW b \in Brackets, Stop(b) \/ ServeStop(b)
  PROVE  TypeInv'
<1>0. ExchangeTypeOK /\ chase[b] \in Chase /\ Sound(b, chase[b])
  BY DEF TypeInv, TypeOK
<1>1. CASE Stop(b)
  <2> DEFINE r == [chase[b] EXCEPT !.cancel = TRUE]
  <2>1. r \in Chase
    BY <1>0 DEF Chase
  <2>2. /\ r.pc = chase[b].pc /\ r.attempts = chase[b].attempts
        /\ r.current = chase[b].current /\ r.num = chase[b].num
    BY <1>0 DEF Chase
  <2>3. Sound(b, r)
    BY <1>0, <2>1, <2>2 DEF Sound
  <2>4. chase' \in [Brackets -> Chase] /\ \A c \in Brackets : Sound(c, chase'[c])
    BY <1>1, <2>1, <2>3 DEF Stop, TypeInv, TypeOK
  <2>5. stopping' \in [Brackets -> OrderIds \cup {NoOrder}]
    BY <1>0, <1>1 DEF Stop, TypeInv, TypeOK, Chase
  <2>6. ExchangeTypeOK'
    BY <1>0, <1>1 DEF Stop, exchangeVars, ledgerVars, ExchangeTypeOK
  <2> QED
    BY <1>1, <2>4, <2>5, <2>6 DEF Stop, TypeInv, TypeOK
<1>2. CASE ServeStop(b)
  <2>1. ExchangeTypeOK'
    BY <1>0, <1>2, FaultCount, LedgerKept, CancelEffect DEF ServeStop
  <2> QED
    BY <1>2, <2>1 DEF ServeStop, TypeInv, TypeOK
<1> QED
  BY <1>1, <1>2

LEMMA StutterInv == TypeInv /\ UNCHANGED vars => TypeInv'
BY DEF TypeInv, TypeOK, ExchangeTypeOK, vars, chaseVars, exchangeVars, ledgerVars, Open

LEMMA NextInv == TypeInv /\ [Next]_vars => TypeInv'
<1> SUFFICES ASSUME TypeInv, [Next]_vars PROVE TypeInv'
  OBVIOUS
<1>1. ASSUME NEW b \in Brackets,
             Invoke(b) \/ Coroutine(b) \/ Serve(b) \/ Stop(b) \/ ServeStop(b)
      PROVE  TypeInv'
  BY <1>1, InvokeInv, CoroutineInv, ServeInv, StopInv
<1>2. CASE MarketMoves
  <2>1. ExchangeTypeOK'
    BY <1>2, MarketEffect DEF MarketMoves, TypeInv, TypeOK
  <2> QED
    BY <1>2, <2>1 DEF MarketMoves, chaseVars, TypeInv, TypeOK
<1>3. CASE UNCHANGED vars
  BY <1>3, StutterInv
<1> QED
  BY <1>1, <1>2, <1>3 DEF Next, AllReturned

LEMMA TypeInvAlways == Spec => []TypeInv
<1>1. Init => TypeInv
  BY InitTypeInv
<1>2. TypeInv /\ [Next]_vars => TypeInv'
  BY NextInv
<1> QED
  BY <1>1, <1>2, PTL DEF Spec

\* Every variable keeps its type, for any brackets, amounts and bounds: in
\* particular the position and every quantity sold stay natural numbers, and an
\* order id is never formed from an attempt outside 1 .. MaxAttempts.
THEOREM TypeCorrect == Spec => []TypeOK
<1>1. TypeInv => TypeOK
  BY DEF TypeInv
<1> QED
  BY <1>1, TypeInvAlways, PTL

(***************************************************************************)
(* Forgotten orders.  The properties are not inductive: they say where an  *)
(* open maker order may be found, and an answered await may hold one or    *)
(* not.  Stronger: the open maker orders other than the one of the current *)
(* attempt, whose reply in hand says that it rests, are no more than the   *)
(* remote calls that have raised.                                          *)
(***************************************************************************)
Holds(r) ==
  \/ r.pc \in PlacePoints /\ r.reply = "ok"
  \/ r.pc = "watch"
  \/ r.pc \in CancelPoints /\ r.reply = "pending"
  \/ r.pc = "status" /\ r.reply \in {"pending", "open"}

Unheld(b) ==
  {n \in 1 .. MaxAttempts :
     Maker(b, n) \in Open /\ ~(n = chase[b].attempts /\ Holds(chase[b]))}

UnheldOrders == UNION {{Maker(b, n) : n \in Unheld(b)} : b \in Brackets}

HeldWithinFaults == IsFiniteSet(UnheldOrders) /\ Cardinality(UnheldOrders) <= faults

\* What it says of the runs without a failed call.
OrdersHeld ==
  faults = 0 =>
    \A b \in Brackets, n \in 1 .. MaxAttempts :
       Maker(b, n) \in Open => n = chase[b].attempts /\ Holds(chase[b])

LEMMA HeldWithoutFaults == HeldWithinFaults => OrdersHeld
<1> SUFFICES ASSUME HeldWithinFaults, faults = 0, NEW b \in Brackets,
                    NEW n \in 1 .. MaxAttempts, Maker(b, n) \in Open,
                    ~(n = chase[b].attempts /\ Holds(chase[b]))
             PROVE  FALSE
  BY DEF OrdersHeld
<1>1. Maker(b, n) \in UnheldOrders
  BY DEF UnheldOrders, Unheld
<1>2. Cardinality(UnheldOrders) = 0
  BY FS_CardinalityType DEF HeldWithinFaults
<1> QED
  BY <1>1, <1>2, FS_EmptySet DEF HeldWithinFaults

\* A call that raises owes at most one order more, any other step none.
LEMMA HeldCount ==
  ASSUME HeldWithinFaults, faults \in Nat, NEW o,
         \/ faults' = faults /\ UnheldOrders' \subseteq UnheldOrders
         \/ faults' = faults + 1 /\ UnheldOrders' \subseteq UnheldOrders \cup {o}
  PROVE  HeldWithinFaults'
<1>1. IsFiniteSet(UnheldOrders) /\ Cardinality(UnheldOrders) \in Nat
  BY FS_CardinalityType DEF HeldWithinFaults
<1>2. /\ IsFiniteSet(UnheldOrders \cup {o})
      /\ Cardinality(UnheldOrders \cup {o}) <= Cardinality(UnheldOrders) + 1
  <2>1. /\ IsFiniteSet(UnheldOrders \cup {o})
        /\ Cardinality(UnheldOrders \cup {o}) =
             IF o \in UnheldOrders THEN Cardinality(UnheldOrders)
                                   ELSE Cardinality(UnheldOrders) + 1
    BY <1>1, FS_AddElement, Zenon
  <2> QED
    BY <1>1, <2>1
<1>3. Cardinality(UnheldOrders \cup {o}) \in Nat
  BY <1>2, FS_CardinalityType
<1>4. CASE faults' = faults /\ UnheldOrders' \subseteq UnheldOrders
  <2>1. /\ IsFiniteSet(UnheldOrders') /\ Cardinality(UnheldOrders') \in Nat
        /\ Cardinality(UnheldOrders') <= Cardinality(UnheldOrders)
    BY <1>1, <1>4, FS_Subset, FS_CardinalityType
  <2> QED
    BY <1>1, <1>4, <2>1 DEF HeldWithinFaults
<1>5. CASE faults' = faults + 1 /\ UnheldOrders' \subseteq UnheldOrders \cup {o}
  <2>1. /\ IsFiniteSet(UnheldOrders') /\ Cardinality(UnheldOrders') \in Nat
        /\ Cardinality(UnheldOrders') <= Cardinality(UnheldOrders \cup {o})
    BY <1>2, <1>5, FS_Subset, FS_CardinalityType
  <2> QED
    BY <1>1, <1>2, <1>3, <1>5, <2>1 DEF HeldWithinFaults
<1> QED
  BY <1>4, <1>5

\* A step of bracket b that opens at most its current order keeps the invariant when
\* it has no order to lose, or still holds it, or has closed it, or has raised.
LEMMA HeldStep ==
  ASSUME TypeInv, HeldWithinFaults, NEW b \in Brackets, NEW r,
         chase' = [chase EXCEPT ![b] = r],
         faults' = faults \/ faults' = faults + 1,
         Open' \subseteq Open \cup {Maker(b, chase[b].attempts)},
         faults' = faults =>
           \/ Open' \subseteq Open /\ ~Holds(chase[b])
           \/ r.attempts = chase[b].attempts /\ Holds(r)
           \/ Open' \subseteq Open \ {Maker(b, chase[b].attempts)}
  PROVE  HeldWithinFaults'
<1> DEFINE k == Maker(b, chase[b].attempts)
<1>1. ASSUME NEW c \in Brackets, NEW n \in 1 .. MaxAttempts, Maker(c, n) \in Open',
             ~(n = chase'[c].attempts /\ Holds(chase'[c]))
      PROVE  Maker(c, n) \in UnheldOrders \/ (c = b /\ Maker(c, n) = k)
  <2>1. chase'[c] = IF c = b THEN r ELSE chase[c]
    BY DEF TypeInv, TypeOK
  <2>2. CASE c # b
    <3>1. Maker(c, n) \in Open
      BY <1>1, <2>2 DEF Maker
    <3> QED
      BY <1>1, <2>1, <2>2, <3>1 DEF UnheldOrders, Unheld
  <2>3. CASE c = b /\ n # chase[b].attempts
    <3>1. Maker(b, n) \in Open
      BY <1>1, <2>3 DEF Maker
    <3> QED
      BY <2>3, <3>1 DEF UnheldOrders, Unheld
  <2> QED
    BY <2>2, <2>3
<1>2. UnheldOrders' \subseteq UnheldOrders \cup {k}
  <2> SUFFICES ASSUME NEW x \in UnheldOrders' PROVE x \in UnheldOrders \cup {k}
    OBVIOUS
  <2>1. PICK c \in Brackets : x \in {Maker(c, n) : n \in Unheld(c)}'
    BY DEF UnheldOrders
  <2>2. PICK n \in 1 .. MaxAttempts :
          /\ x = Maker(c, n) /\ Maker(c, n) \in Open'
          /\ ~(n = chase'[c].attempts /\ Holds(chase'[c]))
    BY <2>1 DEF Unheld, Holds, Maker
  <2> QED
    BY <1>1, <2>2
<1>3. faults' = faults => UnheldOrders' \subseteq UnheldOrders
  <2> SUFFICES ASSUME faults' = faults, NEW x \in UnheldOrders' PROVE x \in UnheldOrders
    OBVIOUS
  <2>1. PICK c \in Brackets : x \in {Maker(c, n) : n \in Unheld(c)}'
    BY DEF UnheldOrders
  <2>2. PICK n \in 1 .. MaxAttempts :
          /\ x = Maker(c, n) /\ Maker(c, n) \in Open'
          /\ ~(n = chase'[c].attempts /\ Holds(chase'[c]))
    BY <2>1 DEF Unheld, Holds, Maker
  <2>3. CASE c = b /\ x = k
    <3>1. n = chase[b].attempts
      BY <2>2, <2>3 DEF Maker
    <3>2. chase'[b] = r
      BY DEF TypeInv, TypeOK
    <3>3. Open' \subseteq Open /\ ~Holds(chase[b])
      BY <2>2, <2>3, <3>1, <3>2
    <3> QED
      BY <2>2, <2>3, <3>1, <3>3 DEF UnheldOrders, Unheld
  <2> QED
    BY <1>1, <2>2, <2>3
<1>4. faults \in Nat
  BY DEF TypeInv, TypeOK, ExchangeTypeOK
<1> QED
  BY <1>2, <1>3, <1>4, HeldCount

\* A step that leaves the coroutines alone and opens no order.
LEMMA HeldStutter ==
  ASSUME TypeInv, HeldWithinFaults, faults' = faults \/ faults' = faults + 1,
         Open' \subseteq Open, chase' = chase
  PROVE  HeldWithinFaults'
<1>1. UnheldOrders' \subseteq UnheldOrders
  BY DEF UnheldOrders, Unheld, Holds, Maker
<1>2. faults \in Nat
  BY DEF TypeInv, TypeOK, ExchangeTypeOK
<1> QED
  BY <1>1, <1>2, HeldCount

LEMMA ResumeHeld ==
  ASSUME TypeInv, HeldWithinFaults, NEW b \in Brackets, NEW r, Resume(b, r),
         ~Holds(chase[b]) \/ (r.attempts = chase[b].attempts /\ Holds(r))
  PROVE  HeldWithinFaults'
<1>1. faults' = faults /\ Open' = Open /\ chase' = [chase EXCEPT ![b] = r]
  BY DEF Resume, exchangeVars, Open
<1> QED
  BY <1>1, HeldStep

LEMMA SizedHeld ==
  ASSUME TypeInv, HeldWithinFaults, NEW b \in Brackets, NEW r, Sized(b, r), ~Holds(chase[b])
  PROVE  HeldWithinFaults'
<1>1. CASE Register(b, r)
  <2>1. faults' = faults /\ Open' = Open /\ chase' = [chase EXCEPT ![b] = LoopTop(r)]
    BY <1>1 DEF Register, exchangeVars, Open
  <2> QED
    BY <2>1, HeldStep
<1>2. CASE Resume(b, Return(r, "closed")) \/ Resume(b, Return(r, "prevented"))
  BY <1>2, ResumeHeld
<1> QED
  BY <1>1, <1>2 DEF Sized

LEMMA CoroutineHeld ==
  ASSUME ChaseMode = "dynamic_bbo", TypeInv, HeldWithinFaults, NEW b \in Brackets, Coroutine(b)
  PROVE  HeldWithinFaults'
<1> DEFINE r == chase[b]
<1>0. r \in Chase
  BY DEF TypeInv, TypeOK
<1>1. CASE SizeReplied(b) \/ RecheckReplied(b)
  <2>1. ~Holds(r)
    BY <1>1 DEF SizeReplied, RecheckReplied, Replied, Holds, PlacePoints, CancelPoints
  <2> QED
    BY <1>1, <2>1, ResumeHeld, SizedHeld DEF SizeReplied, RecheckReplied
<1>2. CASE \/ ScanReplied(b) \/ CleanupReplied(b) \/ BookArrives(b) \/ SyncReplied(b)
           \/ ResyncReplied(b) \/ RoPositionReplied(b) \/ IsyncReplied(b)
           \/ PositionReplied(b) \/ PauseEnds(b)
  <2>1. ~Holds(r)
    BY <1>2 DEF ScanReplied, CleanupReplied, BookArrives, SyncReplied, ResyncReplied,
       RoPositionReplied, IsyncReplied, PositionReplied, PauseEnds, Replied, Holds,
       PlacePoints, CancelPoints
  <2>2. \E s : Resume(b, s)
    BY <1>2 DEF ScanReplied, CleanupReplied, BookArrives, SyncReplied, ResyncReplied,
       RoPositionReplied, IsyncReplied, PositionReplied, PauseEnds
  <2> QED
    BY <2>1, <2>2, ResumeHeld
<1>3. CASE \/ UserCancelReplied(b) \/ RepegReplied(b) \/ RefillReplied(b)
           \/ BreakerBalanceReplied(b) \/ BreakerReplied(b) \/ FinalBalanceReplied(b)
           \/ FinalReplied(b)
  <2>1. ~Holds(r)
    BY <1>3 DEF UserCancelReplied, RepegReplied, RefillReplied, BreakerBalanceReplied,
       BreakerReplied, FinalBalanceReplied, FinalReplied, Replied, Holds, PlacePoints,
       CancelPoints
  <2>2. \E s : Resume(b, s)
    BY <1>3 DEF UserCancelReplied, RepegReplied, RefillReplied, BreakerBalanceReplied,
       BreakerReplied, FinalBalanceReplied, FinalReplied
  <2> QED
    BY <2>1, <2>2, ResumeHeld
<1>4. Watch(r, b).attempts = r.attempts /\ Holds(Watch(r, b))
  BY <1>0, Zenon DEF Watch, Chase, Holds
<1>5. CASE PlaceReplied(b)
  <2>1. CASE r.reply = "ok"
    BY <1>4, <1>5, <2>1, ResumeHeld DEF PlaceReplied
  <2>2. CASE r.reply # "ok"
    <3>1. ~Holds(r)
      BY <1>5, <2>2 DEF PlaceReplied, Replied, Holds, PlacePoints, CancelPoints
    <3>2. \E s : Resume(b, s)
      BY <1>5 DEF PlaceReplied
    <3> QED
      BY <3>1, <3>2, ResumeHeld
  <2> QED
    BY <2>1, <2>2
<1>6. CASE ReplaceReplied(b)
  <2>1. CASE r.reply = "ok"
    BY <1>4, <1>6, <2>1, ResumeHeld DEF ReplaceReplied
  <2>2. CASE r.reply # "ok"
    <3>1. ~Holds(r)
      BY <1>6, <2>2 DEF ReplaceReplied, Replied, Holds, PlacePoints, CancelPoints
    <3> QED
      BY <1>6, <3>1, ResumeHeld DEF ReplaceReplied
  <2> QED
    BY <2>1, <2>2
<1>7. CASE WatchEnds(b) \/ WatchCancelled(b)
  <2>1. \A p \in {"status", "userCancel"} :
          Await(r, p).attempts = r.attempts /\ Holds(Await(r, p))
    BY <1>0, AwaitFields, PointsFacts
    DEF Holds, HoldPoints, FetchPoints, CancelPoints
  <2> QED
    BY <1>7, <2>1, ResumeHeld DEF WatchEnds, WatchCancelled
<1>8. CASE StatusReplied(b)
  <2>1. Await(r, "repeg").attempts = r.attempts /\ Holds(Await(r, "repeg"))
    BY <1>0, AwaitFields, PointsFacts DEF Holds, HoldPoints, CancelPoints
  <2>2. CASE r.reply \in {"closed", "error"}
    <3>1. ~Holds(r)
      BY <1>8, <2>2 DEF StatusReplied, Replied, Holds, PlacePoints, CancelPoints
    <3>2. \E s : Resume(b, s)
      BY <1>8 DEF StatusReplied
    <3> QED
      BY <3>1, <3>2, ResumeHeld
  <2>3. CASE r.reply \notin {"closed", "error"}
    <3>1. Resume(b, Await(r, "repeg"))
      BY <1>8, <2>3 DEF StatusReplied
    <3> QED
      BY <2>1, <3>1, ResumeHeld
  <2> QED
    BY <2>2, <2>3
<1> QED
  BY <1>1, <1>2, <1>3, <1>5, <1>6, <1>7, <1>8 DEF Coroutine

LEMMA ServeHeld ==
  ASSUME TypeInv, HeldWithinFaults, NEW b \in Brackets, Serve(b)
  PROVE  HeldWithinFaults'
<1> DEFINE r == chase[b]
           o == Maker(b, r.attempts)
<1>0. r \in Chase /\ Sound(b, r) /\ ExchangeTypeOK /\ faults \in Nat
  BY DEF TypeInv, TypeOK, ExchangeTypeOK
<1>1. \A word, n : /\ Answered(r, word, n).attempts = r.attempts
                   /\ Answered(r, word, n).pc = r.pc
                   /\ Answered(r, word, n).reply = word
  BY <1>0, Zenon DEF Answered, Chase
<1>2. (NoFault => faults' = faults) /\ (Fault => faults' = faults + 1 /\ faults' # faults)
  BY <1>0 DEF NoFault, Fault
<1>3. CASE ServeRead(b) \/ ServeMarket(b)
  <2>1. ~Holds(r)
    BY <1>3 DEF ServeRead, ServeMarket, Pending, Holds, ReadPoints, MarketPoints,
       CancelPoints
  <2>2. PICK word, n : Reply(b, word, n)
    BY <1>3 DEF ServeRead, ServeMarket
  <2>3. orders' = orders /\ (NoFault \/ Fault)
    BY <1>3 DEF ServeRead, ServeMarket, SellAtMarket, ledgerVars
  <2>4. Open' = Open
    BY <2>3 DEF Open
  <2> QED
    BY <1>2, <2>1, <2>2, <2>3, <2>4, HeldStep DEF Reply
<1>4. CASE ServeScan(b)
  <2>1. ~Holds(r)
    BY <1>4 DEF ServeScan, Pending, Holds, PlacePoints, CancelPoints
  <2>2. \E s : chase' = [chase EXCEPT ![b] = s]
    BY <1>4 DEF ServeScan
  <2>3. orders' = orders /\ (NoFault \/ Fault)
    BY <1>4 DEF ServeScan
  <2>4. Open' = Open
    BY <2>3 DEF Open
  <2> QED
    BY <1>2, <2>1, <2>2, <2>3, <2>4, HeldStep
<1>5. CASE ServeCleanup(b)
  <2>1. ~Holds(r)
    BY <1>5 DEF ServeCleanup, Pending, Holds, PlacePoints, CancelPoints
  <2>2. PICK failed : CancelOrders(r.targets \ failed) /\ (NoFault \/ Fault)
    BY <1>5 DEF ServeCleanup
  <2>3. Open' \subseteq Open
    BY <1>0, <2>2, FaultCount, CancelEffect
  <2> QED
    BY <1>2, <1>5, <2>1, <2>2, <2>3, HeldStep DEF ServeCleanup, Reply
<1>6. CASE ServePlace(b)
  <2>1. r.pc \in PlacePoints /\ ~Holds(r)
    BY <1>6 DEF ServePlace, Pending, Holds, PlacePoints, CancelPoints
  <2>2. o \in OrderIds /\ r.remaining \in Nat
    BY <1>0, <2>1, ExchangeAssumption DEF Maker, OrderIds, Chase, Sound, AttemptPoints
  <2>3. CASE Rest(o, r.remaining) /\ NoFault /\ Reply(b, "ok", 0)
    <3>1. Open' \subseteq Open \cup {o}
      BY <1>0, <2>2, <2>3, FaultCount, RestEffect
    <3>2. Holds(Answered(r, "ok", 0))
      BY <1>1, <2>1 DEF Holds
    <3> QED
      BY <1>1, <1>2, <2>3, <3>1, <3>2, HeldStep DEF Reply
  <2>4. CASE Rest(o, r.remaining) /\ Fault /\ Reply(b, "error", 0)
    <3>1. Open' \subseteq Open \cup {o}
      BY <1>0, <2>2, <2>4, FaultCount, RestEffect
    <3> QED
      BY <1>2, <2>4, <3>1, HeldStep DEF Reply
  <2>5. CASE UNCHANGED <<orders, ledgerVars>> /\ (NoFault \/ Fault)
             /\ \E word : Reply(b, word, 0)
    <3>1. Open' = Open
      BY <2>5 DEF Open
    <3> QED
      BY <1>2, <2>1, <2>5, <3>1, HeldStep DEF Reply
  <2> QED
    BY <1>6, <2>3, <2>4, <2>5 DEF ServePlace
<1>7. CASE ServeCancel(b)
  <2>1. r.current = o
    BY <1>0, <1>7 DEF ServeCancel, Pending, Sound, HoldPoints
  <2>2. CASE o \in Open /\ CancelOrders({o}) /\ NoFault
    <3>1. Open' = Open \ {o}
      BY <1>0, <2>2, FaultCount, CancelEffect
    <3> QED
      BY <1>2, <1>7, <2>2, <3>1, HeldStep DEF ServeCancel, Reply
  <2>3. CASE o \in Open /\ UNCHANGED orders /\ Fault
    <3>1. Open' = Open
      BY <2>3 DEF Open
    <3> QED
      BY <1>2, <1>7, <2>3, <3>1, HeldStep DEF ServeCancel, Reply
  <2>4. CASE o \notin Open /\ UNCHANGED exchangeVars
    <3>1. Open' = Open /\ faults' = faults
      BY <2>4 DEF Open, exchangeVars
    <3> QED
      BY <1>7, <2>4, <3>1, HeldStep DEF ServeCancel, Reply
  <2> QED
    BY <1>7, <2>1, <2>2, <2>3, <2>4 DEF ServeCancel
<1>8. CASE ServeFetch(b)
  <2>1. r.pc \in FetchPoints /\ r.reply = "pending" /\ r.current = o /\ o \in OrderIds
    BY <1>0, <1>8, ExchangeAssumption
    DEF ServeFetch, Pending, Sound, HoldPoints, Chase, Maker, OrderIds
  <2>2. orders' = orders /\ Open' = Open
    BY <1>8 DEF ServeFetch, Open
  <2>3. PICK word, n :
          /\ Reply(b, word, n)
          /\ \/ NoFault /\ word = IF orders[o].status = "closed" THEN "closed" ELSE "open"
             \/ Fault
    BY <1>8, <2>1 DEF ServeFetch
  <2>4. word = "open" /\ r.pc = "status" => Holds(Answered(r, word, n))
    BY <1>1 DEF Holds
  <2>5. r.pc # "status" => ~Holds(r)
    BY <2>1 DEF Holds, FetchPoints, PlacePoints, CancelPoints
  <2>6. orders[o].status = "closed" => Open' \subseteq Open \ {o}
    BY <2>2 DEF Open
  <2> DEFINE a == Answered(r, word, n)
  <2>7. chase' = [chase EXCEPT ![b] = a]
    BY <2>3 DEF Reply
  <2>8. \/ Fault
        \/ /\ NoFault
           /\ ~Holds(r) \/ (a.attempts = r.attempts /\ Holds(a)) \/ Open' \subseteq Open \ {o}
    BY <1>1, <2>3, <2>4, <2>5, <2>6
  <2> HIDE DEF a
  <2> QED
    BY <1>2, <2>2, <2>7, <2>8, HeldStep
<1> QED
  BY <1>3, <1>4, <1>5, <1>6, <1>7, <1>8 DEF Serve

LEMMA InitHeld == Init => HeldWithinFaults
<1> SUFFICES ASSUME Init PROVE HeldWithinFaults
  OBVIOUS
<1>3. \A b \in Brackets : Unheld(b) = {}
  <2> SUFFICES ASSUME NEW b \in Brackets, NEW n \in 1 .. MaxAttempts, Maker(b, n) \in Open
               PROVE  FALSE
    BY DEF Unheld
  <2>1. PICK tps \in SUBSET Brackets, disasters \in SUBSET {c \in Brackets : Futures} :
          orders = [o \in OrderIds |->
                      [status |-> IF o \in {Tp(c) : c \in tps} \cup {Disaster(c, 0) : c \in disasters}
                                  THEN "open" ELSE "none",
                       qty |-> IF o \in {Tp(c) : c \in tps} \cup {Disaster(c, 0) : c \in disasters}
                               THEN Amount ELSE 0,
                       filled |-> 0]]
    BY DEF Init
  <2>2. Maker(b, n) \notin {Tp(c) : c \in tps} \cup {Disaster(c, 0) : c \in disasters}
    BY DEF Maker, Tp, Disaster
  <2> QED
    BY <2>1, <2>2 DEF Open
<1>4. UnheldOrders = {} /\ faults = 0
  BY <1>3 DEF UnheldOrders, Init
<1> QED
  BY <1>4, FS_EmptySet DEF HeldWithinFaults

LEMMA NextHeld ==
  ASSUME ChaseMode = "dynamic_bbo"
  PROVE  TypeInv /\ HeldWithinFaults /\ [Next]_vars => HeldWithinFaults'
<1> SUFFICES ASSUME TypeInv, HeldWithinFaults, [Next]_vars PROVE HeldWithinFaults'
  OBVIOUS
<1>0. ExchangeTypeOK
  BY DEF TypeInv, TypeOK
<1>1. ASSUME NEW b \in Brackets, Invoke(b) PROVE HeldWithinFaults'
  <2>1. ~Holds(chase[b])
    BY <1>1 DEF Invoke, Holds, PlacePoints, CancelPoints
  <2>2. (\E r : chase' = [chase EXCEPT ![b] = r]) /\ faults' = faults /\ Open' = Open
    BY <1>1 DEF Invoke, exchangeVars, Open
  <2> QED
    BY <2>1, <2>2, HeldStep
<1>2. ASSUME NEW b \in Brackets, Stop(b) PROVE HeldWithinFaults'
  <2> DEFINE r == [chase[b] EXCEPT !.cancel = TRUE]
  <2>1. chase' = [chase EXCEPT ![b] = r] /\ faults' = faults /\ Open' = Open
    BY <1>2 DEF Stop, exchangeVars, Open, TypeInv, TypeOK
  <2>2. r.attempts = chase[b].attempts /\ (Holds(chase[b]) => Holds(r))
    BY DEF Holds, TypeInv, TypeOK, Chase
  <2> QED
    BY <2>1, <2>2, HeldStep
<1>3. ASSUME NEW b \in Brackets, ServeStop(b) PROVE HeldWithinFaults'
  <2>1. Open' \subseteq Open
    BY <1>0, <1>3, FaultCount, CancelEffect, LedgerKept DEF ServeStop
  <2>2. chase' = chase /\ (faults' = faults \/ faults' = faults + 1)
    BY <1>3 DEF ServeStop, NoFault, Fault
  <2> QED
    BY <2>1, <2>2, HeldStutter
<1>4. CASE MarketMoves
  BY <1>0, <1>4, MarketEffect, HeldStutter DEF MarketMoves, chaseVars
<1>5. CASE UNCHANGED vars
  BY <1>5, HeldStutter DEF vars, exchangeVars, chaseVars, Open
<1> QED
  BY <1>1, <1>2, <1>3, <1>4, <1>5, CoroutineHeld, ServeHeld DEF Next, AllReturned

LEMMA HeldAlways ==
  ASSUME ChaseMode = "dynamic_bbo"
  PROVE  Spec => [](HeldWithinFaults /\ OrdersHeld)
<1>1. Init => HeldWithinFaults
  BY InitHeld
<1>2. TypeInv /\ HeldWithinFaults /\ [Next]_vars => HeldWithinFaults'
  BY NextHeld
<1> QED
  BY <1>1, <1>2, HeldWithoutFaults, TypeInvAlways, PTL DEF Spec

LEMMA HeldIsAttended == OrdersHeld => NoForgottenOrder
BY DEF OrdersHeld, Holds, NoForgottenOrder, Forgotten, AttendPoints

\* For any number of brackets and attempts, in dynamic_bbo mode: while no remote call has raised, a
\* maker order rests on the book only while the coroutine that sent it holds it
\* at an await; stops, cleanups of other brackets, fills and rejections included.
THEOREM NothingForgotten ==
  ASSUME ChaseMode = "dynamic_bbo"
  PROVE  Spec => []NoForgottenOrder
BY HeldAlways, HeldIsAttended, PTL

\* The orders no coroutine attends are among those none holds.
LEMMA HeldIsOwed == TypeInv /\ HeldWithinFaults => ForgottenWithinFaults
<1> SUFFICES ASSUME TypeInv, HeldWithinFaults PROVE ForgottenWithinFaults
  OBVIOUS
<1> DEFINE S == UNION {{Maker(b, n) : n \in Forgotten(b)} : b \in Brackets}
<1>1. S \subseteq UnheldOrders
  <2>1. \A b \in Brackets : Forgotten(b) \subseteq Unheld(b)
    BY DEF Forgotten, Unheld, Holds, AttendPoints
  <2> QED
    BY <2>1 DEF UnheldOrders
<1>2. IsFiniteSet(S) /\ Cardinality(S) <= Cardinality(UnheldOrders)
  BY <1>1, FS_Subset DEF HeldWithinFaults
<1>3. Cardinality(S) \in Nat /\ Cardinality(UnheldOrders) \in Nat /\ faults \in Nat
  BY <1>2, FS_CardinalityType DEF HeldWithinFaults, TypeInv, TypeOK, ExchangeTypeOK
<1> HIDE DEF S
<1>4. Cardinality(S) <= faults
  BY <1>2, <1>3 DEF HeldWithinFaults
<1> QED
  BY <1>4 DEF ForgottenWithinFaults, S

\* For any number of brackets and attempts, in dynamic_bbo mode: over all brackets,
\* the maker orders left behind on the book are never more than the remote calls that
\* have raised, whatever the market, the user's stops and the other chases do meanwhile.
THEOREM ForgottenAreOwed ==
  ASSUME ChaseMode = "dynamic_bbo"
  PROVE  Spec => []ForgottenWithinFaults
BY HeldAlways, HeldIsOwed, TypeInvAlways, PTL

(***************************************************************************)
(* The scan spares what is armed.  The property speaks of one cancel; the  *)
(* reason lies several awaits before it: the ids taken from the registry   *)
(* before the scan cover those of every bracket that is still armed when   *)
(* the cancels go out, because an entry only ever leaves the registry, and *)
(* an order a chase names otherwise is one of its own.                     *)
(***************************************************************************)
Makers(b) == {Maker(b, n) : n \in 1 .. MaxAttempts}
Own(b) == {Tp(b)} \cup {Disaster(b, n) : n \in 0 .. MaxRevisions}

Spares(b, r) ==
  /\ r.linked \subseteq Own(b)
  /\ r.current \in Makers(b) \cup {NoOrder}
  /\ r.targets \cap ProtectedFrom(b) = {}
  /\ r.pc = "scan" => ProtectedFrom(b) \subseteq r.protected
  /\ r.pc = "idle" => r.targets = {}

ArmedSpared ==
  \A b \in Brackets :
     /\ Spares(b, chase[b])
     /\ Linked(sl[b]) \subseteq Own(b)
     /\ sl[b].live => chase[b].pc = "idle"
     /\ stopping[b] \in Makers(b) \cup {NoOrder}

\* Locals t that a step of the chase r may go on with, and locals s it may end with.
Narrower(r, t) ==
  /\ t \in Chase /\ t.attempts = r.attempts
  /\ t.linked \subseteq r.linked /\ t.targets \subseteq r.targets
  /\ t.current \in {r.current, NoOrder}

Tame(b, r, s) ==
  /\ s.linked \subseteq r.linked /\ s.targets \subseteq r.targets
  /\ s.current \in {r.current, NoOrder} \cup Makers(b)
  /\ s.pc \notin {"scan", "idle"}

TamePoints == Points \ {"scan", "idle"}

LEMMA AwaitKeeps ==
  ASSUME NEW r \in Chase, NEW p \in Points
  PROVE  /\ Await(r, p).linked = r.linked /\ Await(r, p).targets = r.targets
         /\ Await(r, p).protected = r.protected
BY Zenon DEF Await, Chase

LEMMA AwaitTame ==
  ASSUME NEW b \in Brackets, NEW r, NEW t, Narrower(r, t), NEW p \in TamePoints
  PROVE  /\ Tame(b, r, Await(t, p))
         /\ \A q \in Int : Tame(b, r, [Await(t, p) EXCEPT !.num = q])
<1> DEFINE a == Await(t, p)
           m(q) == [a EXCEPT !.num = q]
<1>1. t \in Chase /\ p \in Points
  BY DEF Narrower, TamePoints
<1>2. a \in Chase /\ a.pc = p /\ a.current = t.current
      /\ a.linked = t.linked /\ a.targets = t.targets
  BY <1>1, AwaitFields, AwaitKeeps
<1>3. \A q \in Int : /\ m(q).pc = a.pc /\ m(q).current = a.current
                      /\ m(q).linked = a.linked /\ m(q).targets = a.targets
  BY <1>2, Zenon DEF Chase
<1> HIDE DEF a, m
<1>4. Tame(b, r, a) /\ \A q \in Int : Tame(b, r, m(q))
  BY <1>2, <1>3 DEF Narrower, Tame, TamePoints
<1> QED
  BY <1>4 DEF a, m

LEMMA ReturnTame ==
  ASSUME NEW b \in Brackets, NEW r, NEW t, NEW outcome \in Outcomes
  PROVE  Tame(b, r, Return(t, outcome))
<1> DEFINE s == Return(t, outcome)
<1>1. s.pc = "done" /\ s.linked = {} /\ s.targets = {} /\ s.current = NoOrder
  BY NotStartedType DEF Return, NotStarted
<1> HIDE DEF s
<1>2. Tame(b, r, s)
  BY <1>1 DEF Tame
<1> QED
  BY <1>2 DEF s

LEMMA FinalSweepTame ==
  ASSUME NEW b \in Brackets, NEW r, NEW t, Narrower(r, t)
  PROVE  Tame(b, r, FinalSweep(t))
<1>1. t.remaining \in Int /\ "None" \in Outcomes /\ {"final", "finalBalance"} \subseteq TamePoints
  BY DEF Narrower, Chase, Outcomes, TamePoints, Points, CallPoints, MarketPoints, ReadPoints
<1> QED
  BY <1>1, AwaitTame, ReturnTame DEF FinalSweep

LEMMA LoopTopTame ==
  ASSUME NEW b \in Brackets, NEW r, NEW t, Narrower(r, t)
  PROVE  Tame(b, r, LoopTop(t))
<1> DEFINE top == [t EXCEPT !.current = NoOrder]
           a == Await(top, "book")
           n == [a EXCEPT !.attempts = top.attempts + 1]
<1>1. t \in Chase /\ "book" \in TamePoints /\ "book" \in Points
  BY PointsFacts DEF Narrower, TamePoints
<1>2. /\ top \in Chase /\ top.attempts = t.attempts /\ top.linked = t.linked
      /\ top.targets = t.targets /\ top.current = NoOrder /\ top.cancel = t.cancel
  BY <1>1 DEF Chase
<1>3. Narrower(r, top)
  BY <1>2 DEF Narrower
<1>4. /\ a \in Chase /\ a.attempts = top.attempts
  BY <1>1, <1>2, AwaitFields
<1>5. Tame(b, r, a)
  BY <1>1, <1>3, AwaitTame
<1>6. n.pc = a.pc /\ n.linked = a.linked /\ n.targets = a.targets /\ n.current = a.current
  BY <1>4, Zenon DEF Chase
<1> HIDE DEF top
<1>7. LoopTop(t) \in {Return(top, "cancelled"), FinalSweep(top), n}
  BY <1>4 DEF LoopTop, top
<1> HIDE DEF a, n
<1>8. Tame(b, r, n)
  BY <1>5, <1>6 DEF Tame
<1> QED
  BY <1>3, <1>7, <1>8, ReturnTame, FinalSweepTame DEF Outcomes

LEMMA PauseTame ==
  ASSUME NEW b \in Brackets, NEW r, NEW t, Narrower(r, t)
  PROVE  Tame(b, r, Pause(t)) /\ Tame(b, r, NotPlaced(t))
<1>1. t \in Chase /\ "position" \in TamePoints
  BY DEF Narrower, TamePoints, Points, CallPoints, ReadPoints
<1> DEFINE s == Pause(t)
<1>2. s.pc = "pause" /\ s.linked = t.linked /\ s.targets = t.targets /\ s.current = t.current
  BY <1>1, Zenon DEF Pause, Chase
<1> HIDE DEF s
<1>3. Tame(b, r, s)
  BY <1>2 DEF Narrower, Tame
<1> QED
  BY <1>1, <1>3, AwaitTame DEF NotPlaced, s

LEMMA WatchTame ==
  ASSUME NEW b \in Brackets, NEW r, NEW t, Narrower(r, t), t.attempts \in 1 .. MaxAttempts
  PROVE  Tame(b, r, Watch(t, b))
<1>1. t \in Chase
  BY DEF Narrower
<1> DEFINE s == Watch(t, b)
<1>2. /\ s.pc = "watch" /\ s.linked = t.linked /\ s.targets = t.targets
      /\ s.current = Maker(b, t.attempts)
  BY <1>1, Zenon DEF Watch, Chase
<1> HIDE DEF s
<1>3. Tame(b, r, s)
  BY <1>2 DEF Narrower, Tame, Makers
<1> QED
  BY <1>3 DEF s

LEMMA AfterRepegTame ==
  ASSUME NEW b \in Brackets, NEW r, NEW t, Narrower(r, t), NEW filled \in Nat
  PROVE  Tame(b, r, AfterRepeg(t, filled))
<1> DEFINE left == [t EXCEPT !.remaining = IF filled < @ THEN @ - filled ELSE 0]
<1>1. t \in Chase
  BY DEF Narrower
<1>2. /\ left \in Chase /\ left.attempts = t.attempts /\ left.linked = t.linked
      /\ left.targets = t.targets /\ left.current = t.current
  BY <1>1 DEF Chase
<1>3. Narrower(r, left)
  BY <1>2 DEF Narrower
<1>4. AfterRepeg(t, filled) \in {Return(left, "filled"), LoopTop(left)}
  BY DEF AfterRepeg
<1> HIDE DEF left
<1> QED
  BY <1>3, <1>4, ReturnTame, LoopTopTame DEF Outcomes

LEMMA LocalsNarrower ==
  ASSUME TypeInv, NEW b \in Brackets
  PROVE  Narrower(chase[b], chase[b]) /\ Narrower(chase[b], Clamped(chase[b]))
<1>1. chase[b] \in Chase /\ Clamped(chase[b]) \in Chase
  BY LocalsFacts
<1>2. /\ Clamped(chase[b]).attempts = chase[b].attempts
      /\ Clamped(chase[b]).linked = chase[b].linked
      /\ Clamped(chase[b]).targets = chase[b].targets
      /\ Clamped(chase[b]).current = chase[b].current
  BY <1>1 DEF Clamped, Chase
<1> QED
  BY <1>1, <1>2 DEF Narrower

\* The ids of a bracket are its own, so they are nobody else's.
LEMMA OwnApart ==
  ASSUME ArmedSpared, NEW b \in Brackets
  PROVE  /\ Own(b) \cap ProtectedFrom(b) = {}
         /\ \A c \in Brackets : Makers(c) \cap ProtectedFrom(b) = {}
         /\ \A c \in Brackets : Makers(c) \cap Own(b) = {}
<1>1. \A o \in ProtectedFrom(b) : \E c \in Brackets \ {b} : o \in Own(c)
  BY DEF ProtectedFrom, ArmedSpared
<1>2. \A c \in Brackets : \A o \in Own(c) : o[1] = c /\ o[2] \in {"tp", "disaster"}
  BY DEF Own, Tp, Disaster
<1>3. \A c \in Brackets : \A o \in Makers(c) : o[2] = "maker"
  BY DEF Makers, Maker
<1> QED
  BY <1>1, <1>2, <1>3

LEMMA CleanupCarries ==
  ASSUME NEW b \in Brackets, NEW r \in Chase,
         NEW reason \in {"start", "reduceonly", "insufficient"}
  PROVE  /\ Cleanup(r, b, reason).linked = r.linked
         /\ Cleanup(r, b, reason).targets = r.linked
         /\ Cleanup(r, b, reason).current = r.current
         /\ Cleanup(r, b, reason).reply = "pending"
         /\ Cleanup(r, b, reason).pc \in {"scan", "cleanup"}
         /\ Cleanup(r, b, reason).pc = "scan" =>
              Cleanup(r, b, reason).protected = ProtectedFrom(b)
         /\ reason = "start" /\ r.linked # {} => Cleanup(r, b, reason).pc = "cleanup"
<1> DEFINE s == [r EXCEPT !.why = reason, !.targets = r.linked]
           a == Await(s, "scan")
           p == [a EXCEPT !.protected = ProtectedFrom(b)]
           k == Await(s, "cleanup")
<1>1. r.linked \in SUBSET OrderIds
  BY DEF Chase
<1>2. s \in Chase
  BY <1>1, Zenon DEF Chase
<1>3. s.linked = r.linked /\ s.targets = r.linked /\ s.current = r.current
  BY Zenon DEF Chase
<1>4. /\ a \in Chase /\ a.pc = "scan" /\ a.current = s.current /\ a.reply = "pending"
      /\ k.pc = "cleanup" /\ k.current = s.current /\ k.reply = "pending"
  BY <1>2, AwaitFields, PointsFacts
<1>5. a.linked = s.linked /\ a.targets = s.targets /\ k.linked = s.linked /\ k.targets = s.targets
  BY <1>2, AwaitKeeps, PointsFacts
<1>6. /\ p.pc = a.pc /\ p.current = a.current /\ p.linked = a.linked /\ p.targets = a.targets
      /\ p.reply = a.reply /\ p.protected = ProtectedFrom(b)
  BY <1>4, Zenon DEF Chase
<1>7. IF reason # "start" \/ r.linked = {} THEN Cleanup(r, b, reason) = p
                                          ELSE Cleanup(r, b, reason) = k
  BY DEF Cleanup
<1> HIDE DEF s, a, p, k
<1> QED
  BY <1>3, <1>4, <1>5, <1>6, <1>7

\* The cleanup of a chase sets out with ids that spare the armed ones.
LEMMA CleanupSpares ==
  ASSUME TypeInv, ArmedSpared, NEW b \in Brackets, NEW r \in Chase, r.linked \subseteq Own(b),
         r.current \in Makers(b) \cup {NoOrder},
         NEW reason \in {"start", "reduceonly", "insufficient"}
  PROVE  Spares(b, Cleanup(r, b, reason)) /\ Cleanup(r, b, reason).pc # "idle"
<1>1. r.linked \cap ProtectedFrom(b) = {}
  BY OwnApart
<1> QED
  BY <1>1, CleanupCarries DEF Spares

LEMMA TameSpares ==
  ASSUME ArmedSpared, NEW b \in Brackets, NEW s, Tame(b, chase[b], s)
  PROVE  Spares(b, s) /\ s.pc # "idle"
BY DEF ArmedSpared, Spares, Tame

\* A step of bracket b that takes no entry into the registry.
LEMMA SparedStep ==
  ASSUME TypeInv, ArmedSpared, NEW b \in Brackets, NEW s, Spares(b, s),
         s.pc = "idle" => chase[b].pc = "idle", sl[b].live => s.pc = "idle",
         chase' = [chase EXCEPT ![b] = s], sl' = sl, stopping' = stopping
  PROVE  ArmedSpared'
<1>1. \A c \in Brackets : chase'[c] = IF c = b THEN s ELSE chase[c]
  BY DEF TypeInv, TypeOK
<1>2. \A c \in Brackets : ProtectedFrom(c)' = ProtectedFrom(c) /\ Own(c)' = Own(c)
  BY DEF ProtectedFrom, Linked, Own, Tp, Disaster
<1>3. \A c \in Brackets : Spares(c, chase'[c])
  BY <1>1 DEF ArmedSpared
<1>4. \A c \in Brackets : Spares(c, chase[c])'
  BY <1>2, <1>3 DEF Spares, Makers, Maker
<1>5. \A c \in Brackets : sl'[c].live => chase'[c].pc = "idle"
  BY <1>1 DEF ArmedSpared
<1>6. \A c \in Brackets : Linked(sl[c])' \subseteq Own(c)'
  BY <1>2 DEF ArmedSpared, Linked
<1>7. \A c \in Brackets : stopping'[c] \in Makers(c)' \cup {NoOrder}
  BY DEF ArmedSpared, Makers, Maker
<1> QED
  BY <1>4, <1>5, <1>6, <1>7 DEF ArmedSpared

LEMMA TameStep ==
  ASSUME TypeInv, ArmedSpared, NEW b \in Brackets, NEW s, chase[b].pc # "idle",
         \/ Tame(b, chase[b], s)
         \/ Spares(b, s) /\ s.pc # "idle",
         chase' = [chase EXCEPT ![b] = s], sl' = sl, stopping' = stopping
  PROVE  ArmedSpared'
<1>1. Spares(b, s) /\ s.pc # "idle" /\ ~sl[b].live
  BY TameSpares DEF ArmedSpared
<1> QED
  BY <1>1, SparedStep

\* The cleanup after a rejection sets out from the locals the chase has.
Recleans(b, r, s) ==
  \E t \in Chase, reason \in {"start", "reduceonly", "insufficient"} :
     s = Cleanup(t, b, reason) /\ t.linked = r.linked /\ t.current = r.current

Proceeds(b, s) ==
  /\ chase' = [chase EXCEPT ![b] = s] /\ UNCHANGED <<sl, stopping, orders>>
  /\ Tame(b, chase[b], s) \/ Recleans(b, chase[b], s)

LEMMA CoroutineProceeds ==
  ASSUME TypeInv, NEW b \in Brackets, Coroutine(b)
  PROVE  chase[b].pc # "idle" /\ \E s : Proceeds(b, s)
<1> DEFINE r == chase[b]
           c == Clamped(r)
<1>0. /\ r \in Chase /\ Narrower(r, r) /\ Narrower(r, c) /\ Sound(b, r)
      /\ r.attempts \in Nat /\ MaxAttempts \in Nat /\ r.attempts <= MaxAttempts
      /\ c \in Chase /\ c.remaining \in Int
  BY LocalsFacts, LocalsNarrower DEF TypeInv
<1>1. TamePoints = Points \ {"scan", "idle"} /\ {"cleanup", "book", "watch"} \subseteq TamePoints
      /\ ReadPoints \subseteq TamePoints /\ PlacePoints \subseteq TamePoints
      /\ MarketPoints \subseteq TamePoints /\ CancelPoints \subseteq TamePoints
      /\ FetchPoints \subseteq TamePoints
  BY DEF TamePoints, Points, CallPoints, ReadPoints, PlacePoints, MarketPoints, CancelPoints,
         FetchPoints
<1> DEFINE Goal == r.pc # "idle" /\ \E s : Proceeds(b, s)
<1> SUFFICES Goal
  OBVIOUS
<1>2. ASSUME NEW s, Resume(b, s), r.pc # "idle", Tame(b, r, s) \/ Recleans(b, r, s)
      PROVE  Goal
  BY <1>2 DEF Resume, exchangeVars, Proceeds
<1>3. ASSUME NEW t, Sized(b, t), Narrower(r, t), r.pc # "idle" PROVE Goal
  <2>1. Tame(b, r, Return(t, "closed")) /\ Tame(b, r, Return(t, "prevented"))
        /\ Tame(b, r, LoopTop(t))
    BY <1>3, ReturnTame, LoopTopTame DEF Outcomes
  <2>2. CASE Register(b, t)
    BY <1>3, <2>1, <2>2 DEF Register, exchangeVars, Proceeds
  <2>3. CASE Resume(b, Return(t, "closed")) \/ Resume(b, Return(t, "prevented"))
    BY <1>2, <1>3, <2>1, <2>3
  <2> QED
    BY <1>3, <2>2, <2>3 DEF Sized
<1> HIDE DEF Goal
<1>4. \A p \in TamePoints : /\ Tame(b, r, Await(r, p)) /\ Tame(b, r, Await(c, p))
                            /\ \A q \in Int : /\ Tame(b, r, [Await(r, p) EXCEPT !.num = q])
                                              /\ Tame(b, r, [Await(c, p) EXCEPT !.num = q])
  BY <1>0, AwaitTame
<1>5. \A t \in {r, c} : /\ \A outcome \in Outcomes : Tame(b, r, Return(t, outcome))
                        /\ Tame(b, r, LoopTop(t)) /\ Tame(b, r, FinalSweep(t))
                        /\ Tame(b, r, Pause(t)) /\ Tame(b, r, NotPlaced(t))
  BY <1>0, ReturnTame, LoopTopTame, FinalSweepTame, PauseTame
<1>6. CASE ScanReplied(b) \/ BookArrives(b) \/ WatchEnds(b) \/ WatchCancelled(b)
  BY <1>1, <1>2, <1>4, <1>5, <1>6
  DEF ScanReplied, BookArrives, WatchEnds, WatchCancelled, Replied, ReadPoints, FetchPoints,
      CancelPoints
<1>7. CASE CleanupReplied(b)
  <2> DEFINE s == [r EXCEPT !.linked = {}, !.targets = {}, !.protected = {}]
  <2>1. s \in Chase
    BY <1>0, Zenon DEF Chase
  <2>2. s.attempts = r.attempts /\ s.linked = {} /\ s.targets = {} /\ s.current = r.current
    BY <1>0, Zenon DEF Chase
  <2>3. Narrower(r, s)
    BY <2>1, <2>2 DEF Narrower
  <2>4. s.why \in {"start", "reduceonly", "insufficient"}
    BY <2>1 DEF Chase
  <2>5. \E p \in {"size", "roPosition", "isync"} : Resume(b, Await(s, p))
    BY <1>7, <2>4 DEF CleanupReplied
  <2>6. \A p \in {"size", "roPosition", "isync"} : Tame(b, r, Await(s, p))
    BY <1>1, <2>3, AwaitTame DEF ReadPoints
  <2> QED
    BY <1>2, <1>7, <2>5, <2>6 DEF CleanupReplied, Replied
<1>8. CASE SizeReplied(b) \/ RecheckReplied(b)
  <2>1. Tame(b, r, Await(c, "recheck1")) /\ Tame(b, r, Await(c, "recheck2"))
    BY <1>1, <1>4 DEF ReadPoints
  <2>2. r.pc # "idle"
    BY <1>8 DEF SizeReplied, RecheckReplied, Replied
  <2>3. Resume(b, Await(c, "recheck1")) \/ Resume(b, Await(c, "recheck2")) \/ Sized(b, c)
    BY <1>8 DEF SizeReplied, RecheckReplied
  <2> QED
    BY <1>0, <1>2, <1>3, <2>1, <2>2, <2>3
<1>9. CASE SyncReplied(b)
  <2>1. r.pc # "idle"
    BY <1>9 DEF SyncReplied, Replied
  <2>2. \/ Resume(b, Return(c, "dust")) \/ Resume(b, Await(c, "place"))
        \/ Resume(b, [Await(c, "breaker") EXCEPT !.num = c.remaining])
        \/ Resume(b, Await(c, "breakerBalance"))
    BY <1>9 DEF SyncReplied
  <2>3. "dust" \in Outcomes /\ {"place", "breaker", "breakerBalance"} \subseteq TamePoints
    BY <1>1 DEF Outcomes, PlacePoints, MarketPoints, ReadPoints
  <2> QED
    BY <1>0, <1>2, <1>4, <1>5, <2>1, <2>2, <2>3
<1>10. CASE PlaceReplied(b)
  <2>1. r.attempts \in 1 .. MaxAttempts /\ r.pc # "idle"
    BY <1>0, <1>10 DEF PlaceReplied, Replied, Sound, AttemptPoints, PlacePoints
  <2>2. Tame(b, r, Watch(r, b)) /\ Tame(b, r, Await(r, "resync"))
    BY <1>0, <1>1, <1>4, <2>1, WatchTame DEF ReadPoints
  <2> DEFINE s == [r EXCEPT !.rejects = @ + 1]
  <2>3. s \in Chase /\ s.linked = r.linked /\ s.current = r.current
    BY <1>0 DEF Chase
  <2> DEFINE k1 == Cleanup(s, b, "reduceonly")
             k2 == Cleanup(r, b, "insufficient")
  <2>5. Recleans(b, r, k1) /\ Recleans(b, r, k2)
    BY <1>0, <2>3 DEF Recleans
  <2>6. \/ Resume(b, Watch(r, b)) \/ Resume(b, NotPlaced(r))
        \/ Resume(b, Await(r, "resync")) \/ Resume(b, k1) \/ Resume(b, k2)
    BY <1>10 DEF PlaceReplied
  <2> HIDE DEF k1, k2
  <2> QED
    BY <1>2, <1>5, <2>1, <2>2, <2>5, <2>6
<1>11. CASE ResyncReplied(b) \/ ReplaceReplied(b)
  <2>1. r.attempts \in 1 .. MaxAttempts /\ r.pc # "idle"
    BY <1>0, <1>11 DEF ResyncReplied, ReplaceReplied, Replied, Sound, AttemptPoints, PlacePoints
  <2>2. Tame(b, r, Watch(r, b)) /\ Tame(b, r, Await(c, "replace"))
    BY <1>0, <1>1, <1>4, <2>1, WatchTame DEF PlacePoints
  <2>3. \/ Resume(b, Watch(r, b)) \/ Resume(b, NotPlaced(r)) \/ Resume(b, NotPlaced(c))
        \/ Resume(b, Await(c, "replace"))
    BY <1>11 DEF ResyncReplied, ReplaceReplied
  <2> QED
    BY <1>2, <1>5, <2>1, <2>2, <2>3
<1>12. CASE RoPositionReplied(b) \/ IsyncReplied(b) \/ PositionReplied(b) \/ PauseEnds(b)
  <2>1. r.pc # "idle"
    BY <1>12 DEF RoPositionReplied, IsyncReplied, PositionReplied, PauseEnds, Replied
  <2>2. \/ \E t \in {r, c} : \/ Resume(b, Return(t, "closed")) \/ Resume(b, Return(t, "aborted"))
                             \/ Resume(b, Pause(t)) \/ Resume(b, LoopTop(t))
    BY <1>12 DEF RoPositionReplied, IsyncReplied, PositionReplied, PauseEnds
  <2>3. {"closed", "aborted"} \subseteq Outcomes
    BY DEF Outcomes
  <2> QED
    BY <1>2, <1>5, <2>1, <2>2, <2>3
<1>13. CASE UserCancelReplied(b) \/ StatusReplied(b) \/ BreakerReplied(b) \/ FinalReplied(b)
  <2>1. r.pc # "idle"
    BY <1>13 DEF UserCancelReplied, StatusReplied, BreakerReplied, FinalReplied, Replied
  <2>2. \/ \E outcome \in {"cancelled", "filled", "swept", "None"} : Resume(b, Return(r, outcome))
        \/ Resume(b, Pause(r)) \/ Resume(b, Await(r, "repeg")) \/ Resume(b, FinalSweep(r))
    BY <1>13 DEF UserCancelReplied, StatusReplied, BreakerReplied, FinalReplied
  <2>3. {"cancelled", "filled", "swept", "None"} \subseteq Outcomes /\ "repeg" \in TamePoints
    BY <1>1 DEF Outcomes, CancelPoints
  <2> QED
    BY <1>2, <1>4, <1>5, <2>1, <2>2, <2>3
<1>14. CASE RepegReplied(b) \/ RefillReplied(b)
  <2>1. r.pc # "idle" /\ (r.pc = "refill" => r.num \in Nat) /\ r.num \in Int
    BY <1>0, <1>14 DEF RepegReplied, RefillReplied, Replied, Sound, FetchPoints, Chase
  <2>2. r.num \in Nat => Tame(b, r, AfterRepeg(r, r.num))
    BY <1>0, AfterRepegTame
  <2>3. \/ Resume(b, Await(r, "refill")) \/ Resume(b, LoopTop(r))
        \/ r.num \in Nat /\ Resume(b, AfterRepeg(r, r.num))
    BY <1>14, <2>1 DEF RepegReplied, RefillReplied, Replied
  <2>4. "refill" \in TamePoints
    BY <1>1 DEF FetchPoints
  <2> QED
    BY <1>2, <1>4, <1>5, <2>1, <2>2, <2>3, <2>4
<1>15. CASE BreakerBalanceReplied(b) \/ FinalBalanceReplied(b)
  <2> DEFINE q == SweepQty(r)
  <2>1. r.pc # "idle" /\ q \in Int
    BY <1>0, <1>15 DEF BreakerBalanceReplied, FinalBalanceReplied, Replied, SweepQty, Chase
  <2>2. \/ Resume(b, [Await(r, "breaker") EXCEPT !.num = q])
        \/ Resume(b, [Await(r, "final") EXCEPT !.num = q])
        \/ Resume(b, Return(r, "dust")) \/ Resume(b, Return(r, "None"))
        \/ Resume(b, FinalSweep(r))
    BY <1>15 DEF BreakerBalanceReplied, FinalBalanceReplied
  <2>3. {"dust", "None"} \subseteq Outcomes /\ {"breaker", "final"} \subseteq TamePoints
    BY <1>1 DEF Outcomes, MarketPoints
  <2> HIDE DEF q
  <2> QED
    BY <1>2, <1>4, <1>5, <2>1, <2>2, <2>3
<1> QED
  BY <1>6, <1>7, <1>8, <1>9, <1>10, <1>11, <1>12, <1>13, <1>14, <1>15 DEF Coroutine

LEMMA CoroutineSpares ==
  ASSUME TypeInv, ArmedSpared, NEW b \in Brackets, Coroutine(b)
  PROVE  ArmedSpared' /\ orders' = orders
<1>1. PICK s : chase[b].pc # "idle" /\ Proceeds(b, s)
  BY CoroutineProceeds
<1>2. CASE Tame(b, chase[b], s)
  BY <1>1, <1>2, TameStep DEF Proceeds
<1>3. CASE Recleans(b, chase[b], s)
  <2>1. Spares(b, s) /\ s.pc # "idle"
    BY <1>3, CleanupSpares DEF Recleans, ArmedSpared, Spares
  <2> QED
    BY <1>1, <2>1, TameStep DEF Proceeds
<1> QED
  BY <1>1, <1>2, <1>3 DEF Proceeds

\* What ArmedOrdersSurvive says of a step.
Survive ==
  \A b \in Brackets : \A o \in Linked(sl[b]) :
     (sl[b].live /\ ~sl[b].cancelled) => ~(o \in Open /\ orders'[o].status = "canceled")

LEMMA KeptSurvive == orders' = orders => Survive
BY DEF Survive, Open

LEMMA CancelSurvive ==
  ASSUME TypeInv, ArmedSpared, NEW S, CancelOrders(S),
         \A b \in Brackets : sl[b].live /\ ~sl[b].cancelled => S \cap Linked(sl[b]) = {}
  PROVE  Survive
<1> SUFFICES ASSUME NEW b \in Brackets, NEW o \in Linked(sl[b]), sl[b].live, ~sl[b].cancelled,
                    o \in Open
             PROVE  orders'[o].status # "canceled"
  BY DEF Survive
<1>1. o \notin S /\ o \in OrderIds
  BY DEF Open
<1>2. orders'[o] = orders[o]
  BY <1>1 DEF CancelOrders
<1> QED
  BY <1>2 DEF Open

\* A maker order is nobody's TP and nobody's disaster stop.
LEMMA MakerSurvive ==
  ASSUME TypeInv, ArmedSpared, NEW b \in Brackets, NEW o \in Makers(b), CancelOrders({o})
  PROVE  Survive
<1>1. \A c \in Brackets : {o} \cap Linked(sl[c]) = {}
  BY OwnApart DEF ArmedSpared
<1> QED
  BY <1>1, CancelSurvive

LEMMA MarketSurvive ==
  ASSUME TypeInv, Market
  PROVE  Survive
<1>1. ASSUME NEW o \in OrderIds, Fill(o) PROVE Survive
  <2>1. PICK k \in 1 .. Lesser(Left(o), holding) :
          orders' = [orders EXCEPT ![o].filled = @ + k,
                                   ![o].status = IF k = Left(o) THEN "closed" ELSE "open"]
    BY <1>1 DEF Fill
  <2>2. orders \in [OrderIds -> Order] /\ \A p \in Open : p \in OrderIds /\ orders[p].status = "open"
    BY DEF TypeInv, TypeOK, ExchangeTypeOK, Open
  <2>3. \A p \in OrderIds : p # o => orders'[p] = orders[p]
    BY <2>1, <2>2
  <2>4. orders'[o].status \in {"closed", "open"}
    BY <2>1, <2>2 DEF Order
  <2> QED
    BY <2>2, <2>3, <2>4 DEF Survive
<1>2. CASE orders' = orders
  BY <1>2, KeptSurvive
<1> QED
  BY <1>1, <1>2 DEF Market, ReleaseLots, CloseOutside

LEMMA ServeSpares ==
  ASSUME TypeInv, ArmedSpared, NEW b \in Brackets, Serve(b)
  PROVE  ArmedSpared' /\ Survive
<1> DEFINE r == chase[b]
<1>0. r \in Chase /\ Sound(b, r) /\ ExchangeTypeOK /\ Spares(b, r)
  BY DEF TypeInv, TypeOK, ArmedSpared
<1>1. r.pc # "idle" /\ ~sl[b].live
  <2>1. r.pc # "idle"
    BY DEF Serve, ServeRead, ServeScan, ServeCleanup, ServePlace, ServeCancel, ServeFetch,
       ServeMarket, Pending, ReadPoints, PlacePoints, CancelPoints, FetchPoints, MarketPoints
  <2> QED
    BY <2>1 DEF ArmedSpared
<1>2. ASSUME NEW word, NEW n, Reply(b, word, n) PROVE ArmedSpared'
  <2> DEFINE a == Answered(r, word, n)
  <2>1. /\ a.pc = r.pc /\ a.linked = r.linked /\ a.targets = r.targets
        /\ a.protected = r.protected /\ a.current = r.current
    BY <1>0, Zenon DEF Answered, Chase
  <2>2. chase' = [chase EXCEPT ![b] = a] /\ sl' = sl /\ stopping' = stopping
    BY <1>2 DEF Reply
  <2> HIDE DEF a
  <2>3. Spares(b, a)
    BY <1>0, <2>1 DEF Spares
  <2> QED
    BY <1>1, <2>1, <2>2, <2>3, SparedStep
<1>3. CASE ServeRead(b) \/ ServeFetch(b) \/ ServeMarket(b)
  <2>1. orders' = orders /\ \E word, n : Reply(b, word, n)
    BY <1>3 DEF ServeRead, ServeFetch, ServeMarket, SellAtMarket
  <2> QED
    BY <1>2, <2>1, KeptSurvive
<1>4. CASE ServeScan(b)
  <2>1. PICK found : chase' = [chase EXCEPT ![b] = Scanned(r, found)]
    BY <1>4 DEF ServeScan
  <2>2. r.pc = "scan" /\ UNCHANGED <<orders, sl, stopping>>
    BY <1>4 DEF ServeScan, Pending
  <2> DEFINE s == Scanned(r, found)
  <2>3. /\ s.pc = r.pc /\ s.linked = r.linked /\ s.protected = r.protected
        /\ s.current = r.current /\ s.targets = r.targets \cup (found \ r.protected)
    BY <1>0, Zenon DEF Scanned, Chase
  <2>4. chase' = [chase EXCEPT ![b] = s]
    BY <2>1
  <2> HIDE DEF s
  <2>5. Spares(b, s)
    BY <1>0, <2>2, <2>3 DEF Spares
  <2>6. ArmedSpared'
    BY <1>1, <2>2, <2>3, <2>4, <2>5, SparedStep
  <2> QED
    BY <2>2, <2>6, KeptSurvive
<1>5. CASE ServeCleanup(b)
  <2>1. PICK failed : CancelOrders(r.targets \ failed)
    BY <1>5 DEF ServeCleanup
  <2>2. \A c \in Brackets : sl[c].live /\ ~sl[c].cancelled =>
           (r.targets \ failed) \cap Linked(sl[c]) = {}
    <3> SUFFICES ASSUME NEW c \in Brackets, sl[c].live, ~sl[c].cancelled
                 PROVE  (r.targets \ failed) \cap Linked(sl[c]) = {}
      OBVIOUS
    <3>1. c # b
      BY <1>1
    <3>2. Linked(sl[c]) \subseteq ProtectedFrom(b)
      BY <3>1 DEF ProtectedFrom
    <3> QED
      BY <1>0, <3>2 DEF Spares
  <2> QED
    BY <1>2, <1>5, <2>1, <2>2, CancelSurvive DEF ServeCleanup
<1>6. CASE ServePlace(b)
  <2> DEFINE o == Maker(b, r.attempts)
  <2>1. o \in OrderIds
    BY <1>0, <1>6, ExchangeAssumption
    DEF ServePlace, Pending, Sound, AttemptPoints, Chase, Maker, OrderIds
  <2>2. \E word : Reply(b, word, 0)
    BY <1>6 DEF ServePlace
  <2>3. CASE orders' = orders
    BY <1>2, <2>2, <2>3, KeptSurvive
  <2>4. CASE Rest(o, r.remaining)
    <3>1. \A p \in OrderIds : p # o => orders'[p] = orders[p]
      BY <2>4 DEF Rest, TypeInv, TypeOK, ExchangeTypeOK
    <3>2. orders'[o].status = "open"
      BY <2>1, <2>4 DEF Rest, TypeInv, TypeOK, ExchangeTypeOK
    <3>3. Survive
      BY <3>1, <3>2 DEF Survive, Open
    <3> QED
      BY <1>2, <2>2, <3>3
  <2> QED
    BY <1>6, <2>3, <2>4 DEF ServePlace
<1>7. CASE ServeCancel(b)
  <2>1. r.current = Maker(b, r.attempts) /\ r.current \in Makers(b)
    BY <1>0, <1>7, ExchangeAssumption
    DEF ServeCancel, Pending, Sound, HoldPoints, Makers, Chase
  <2>2. orders' = orders \/ CancelOrders({r.current})
    BY <1>7 DEF ServeCancel, exchangeVars
  <2>3. \E word, n : Reply(b, word, n)
    BY <1>7 DEF ServeCancel
  <2> QED
    BY <1>2, <2>1, <2>2, <2>3, KeptSurvive, MakerSurvive
<1> QED
  BY <1>3, <1>4, <1>5, <1>6, <1>7 DEF Serve

LEMMA InvokeSpares ==
  ASSUME TypeInv, ArmedSpared, NEW b \in Brackets, Invoke(b)
  PROVE  ArmedSpared' /\ orders' = orders
<1> DEFINE r == [chase[b] EXCEPT !.linked = Linked(sl[b]), !.remaining = Amount]
           k == Cleanup(r, b, "start")
<1>1. chase[b] \in Chase /\ Linked(sl[b]) \in SUBSET OrderIds /\ Amount \in Nat
  BY LinkedType, ExchangeAssumption DEF TypeInv, TypeOK
<1>2. r \in Chase
  BY <1>1, Zenon DEF Chase
<1>3. r.linked = Linked(sl[b]) /\ r.current = chase[b].current
  BY <1>1, Zenon DEF Chase
<1>4. Spares(b, k) /\ k.pc # "idle"
  BY <1>2, <1>3, CleanupSpares DEF ArmedSpared, Spares
<1>5. /\ chase' = [chase EXCEPT ![b] = k] /\ stopping' = stopping
      /\ sl' = [sl EXCEPT ![b] = NoEntry] /\ orders' = orders
  BY DEF Invoke, exchangeVars
<1> HIDE DEF r, k
<1>6. /\ \A c \in Brackets : chase'[c] = IF c = b THEN k ELSE chase[c]
      /\ \A c \in Brackets : sl'[c] = IF c = b THEN NoEntry ELSE sl[c]
  BY <1>5 DEF TypeInv, TypeOK
<1>7. Linked(NoEntry) = {} /\ ~NoEntry.live
  BY DEF Linked, NoEntry
<1>8. \A c \in Brackets : ProtectedFrom(c)' \subseteq ProtectedFrom(c) /\ Own(c)' = Own(c)
                          /\ Makers(c)' = Makers(c)
  BY <1>6, <1>7 DEF ProtectedFrom, Linked, Own, Tp, Disaster, Makers, Maker
<1>9. \A c \in Brackets : Linked(sl[c])' \subseteq Own(c)'
  BY <1>6, <1>7, <1>8 DEF ArmedSpared, Linked
<1>10. \A c \in Brackets : Spares(c, chase'[c])
  BY <1>4, <1>6 DEF ArmedSpared
<1>11. \A c \in Brackets : Spares(c, chase[c])'
  BY <1>8, <1>10 DEF Spares
<1>12. \A c \in Brackets : sl'[c].live => chase'[c].pc = "idle"
  BY <1>6, <1>7 DEF ArmedSpared
<1>13. \A c \in Brackets : stopping'[c] \in Makers(c)' \cup {NoOrder}
  BY <1>5, <1>8 DEF ArmedSpared
<1> QED
  BY <1>5, <1>9, <1>11, <1>12, <1>13 DEF ArmedSpared

\* stop_smart_chase names only the order the chase names.
LEMMA StopSpares ==
  ASSUME TypeInv, ArmedSpared, NEW b \in Brackets, Stop(b) \/ ServeStop(b)
  PROVE  ArmedSpared' /\ Survive
<1>0. chase[b] \in Chase
  BY DEF TypeInv, TypeOK
<1>1. ASSUME NEW s, chase' = [chase EXCEPT ![b] = s] \/ chase' = chase, sl' = sl,
             NEW o \in Makers(b) \cup {NoOrder}, stopping' = [stopping EXCEPT ![b] = o],
             Spares(b, s), s.pc = chase[b].pc
      PROVE  ArmedSpared'
  <2>1. \A c \in Brackets : chase'[c] = chase[c] \/ (c = b /\ chase'[c] = s)
    BY <1>1 DEF TypeInv, TypeOK
  <2>2. \A c \in Brackets : /\ ProtectedFrom(c)' = ProtectedFrom(c) /\ Own(c)' = Own(c)
                            /\ Makers(c)' = Makers(c) /\ Linked(sl[c])' = Linked(sl[c])
    BY <1>1 DEF ProtectedFrom, Linked, Own, Tp, Disaster, Makers, Maker
  <2>3. \A c \in Brackets : Spares(c, chase'[c]) /\ chase'[c].pc = chase[c].pc
    BY <1>1, <2>1 DEF ArmedSpared
  <2>4. \A c \in Brackets : Spares(c, chase[c])'
    BY <2>2, <2>3 DEF Spares
  <2>5. \A c \in Brackets : stopping'[c] \in Makers(c)' \cup {NoOrder}
    BY <1>1, <2>2 DEF ArmedSpared, TypeInv, TypeOK
  <2>6. \A c \in Brackets : Linked(sl[c])' \subseteq Own(c)'
    BY <2>2 DEF ArmedSpared
  <2>7. \A c \in Brackets : sl'[c].live => chase'[c].pc = "idle"
    BY <1>1, <2>3 DEF ArmedSpared
  <2> QED
    BY <2>4, <2>5, <2>6, <2>7 DEF ArmedSpared
<1>2. CASE Stop(b)
  <2> DEFINE r == [chase[b] EXCEPT !.cancel = TRUE]
  <2>1. /\ r.pc = chase[b].pc /\ r.linked = chase[b].linked /\ r.targets = chase[b].targets
        /\ r.protected = chase[b].protected /\ r.current = chase[b].current
    BY <1>0 DEF Chase
  <2>2. chase' = [chase EXCEPT ![b] = r]
    BY <1>2 DEF Stop, TypeInv, TypeOK
  <2>3. /\ sl' = sl /\ orders' = orders
        /\ stopping' = [stopping EXCEPT ![b] = chase[b].current]
    BY <1>2 DEF Stop, exchangeVars
  <2> HIDE DEF r
  <2>4. Spares(b, r) /\ chase[b].current \in Makers(b) \cup {NoOrder}
    BY <2>1 DEF ArmedSpared, Spares
  <2>5. ArmedSpared'
    BY <1>1, <2>1, <2>2, <2>3, <2>4
  <2> QED
    BY <2>3, <2>5, KeptSurvive
<1>3. CASE ServeStop(b)
  <2>1. ArmedSpared'
    <3>1. Spares(b, chase[b])
      BY DEF ArmedSpared
    <3> QED
      BY <1>1, <1>3, <3>1 DEF ServeStop
  <2>2. stopping[b] \in Makers(b)
    BY <1>3 DEF ServeStop, ArmedSpared
  <2>3. orders' = orders \/ CancelOrders({stopping[b]})
    BY <1>3 DEF ServeStop
  <2> QED
    BY <2>1, <2>2, <2>3, KeptSurvive, MakerSurvive
<1> QED
  BY <1>2, <1>3

LEMMA SparedStutter == ArmedSpared /\ UNCHANGED chaseVars => ArmedSpared'
<1> SUFFICES ASSUME ArmedSpared, UNCHANGED chaseVars PROVE ArmedSpared'
  OBVIOUS
<1>1. chase' = chase /\ sl' = sl /\ stopping' = stopping
  BY DEF chaseVars
<1>2. \A b \in Brackets : Spares(b, chase[b])'
  BY <1>1 DEF ArmedSpared, Spares, ProtectedFrom, Linked, Own, Tp, Disaster, Makers, Maker
<1>3. \A b \in Brackets : Linked(sl[b])' \subseteq Own(b)'
  BY <1>1 DEF ArmedSpared, Linked, Own, Tp, Disaster
<1> QED
  BY <1>1, <1>2, <1>3 DEF ArmedSpared, Makers, Maker

LEMMA InitSpares == Init => ArmedSpared
<1> SUFFICES ASSUME Init PROVE ArmedSpared
  OBVIOUS
<1>1. PICK tps \in SUBSET Brackets, disasters \in SUBSET {b \in Brackets : Futures} :
        sl = [b \in Brackets |->
                [live |-> TRUE, cancelled |-> FALSE,
                 tp |-> IF b \in tps THEN Tp(b) ELSE NoOrder,
                 disaster |-> IF b \in disasters THEN Disaster(b, 0) ELSE NoOrder]]
  BY DEF Init
<1>2. \A b \in Brackets : Linked(sl[b]) \subseteq Own(b)
  <2>1. 0 \in 0 .. MaxRevisions
    BY ExchangeAssumption
  <2> QED
    BY <1>1, <2>1 DEF Linked, Own
<1>3. \A b \in Brackets : chase[b] = NotStarted /\ stopping[b] = NoOrder
  BY DEF Init
<1>4. \A b \in Brackets : Spares(b, NotStarted) /\ NotStarted.pc = "idle"
  BY DEF Spares, NotStarted
<1> QED
  BY <1>2, <1>3, <1>4 DEF ArmedSpared

LEMMA NextSpares ==
  ASSUME TypeInv, ArmedSpared, [Next]_vars
  PROVE  ArmedSpared' /\ Survive
<1>1. ASSUME NEW b \in Brackets,
             Invoke(b) \/ Coroutine(b) \/ Serve(b) \/ Stop(b) \/ ServeStop(b)
      PROVE  ArmedSpared' /\ Survive
  BY <1>1, InvokeSpares, CoroutineSpares, ServeSpares, StopSpares, KeptSurvive
<1>2. CASE MarketMoves
  BY <1>2, MarketSurvive, SparedStutter DEF MarketMoves
<1>3. CASE UNCHANGED vars
  BY <1>3, SparedStutter, KeptSurvive DEF vars, exchangeVars
<1> QED
  BY <1>1, <1>2, <1>3 DEF Next, AllReturned

\* "ALWAYS protect TP / Disaster SL orders belonging to other active brackets" (l. 391),
\* for any number of brackets chasing at once in either mode and with any calls
\* failing: no cancel of a chase, its cleanup or a stop hits the TP or the disaster
\* stop of a bracket that is still armed.
THEOREM ArmedAreSpared == Spec => ArmedOrdersSurvive
<1>1. Init => ArmedSpared
  BY InitSpares
<1>2. TypeInv /\ ArmedSpared /\ [Next]_vars => ArmedSpared'
  BY NextSpares
<1>3. TypeInv /\ ArmedSpared /\ [Next]_vars =>
        [\A b \in Brackets : \A o \in Linked(sl[b]) :
           (sl[b].live /\ ~sl[b].cancelled) =>
             ~(o \in Open /\ orders'[o].status = "canceled")]_vars
  BY NextSpares DEF Survive
<1> QED
  BY <1>1, <1>2, <1>3, TypeInvAlways, PTL DEF Spec, ArmedOrdersSurvive

(***************************************************************************)
(* The contract.  What a step shows to the outside is at most one move, in *)
(* either mode.  In dynamic_bbo mode every step of the chase is a step of  *)
(* ExitContract or a stutter: the moves that need the book clear of the    *)
(* bracket's orders are made only where HeldWithinFaults has it clear.     *)
(***************************************************************************)
\* What only the coroutine knows: it waits for a user's cancel because it was told
\* to stop, and it has no outcome before it returns.
Meant(r) ==
  /\ r.pc = "userCancel" => r.cancel
  /\ r.pc # "done" => r.final = "None"

ChaseMeant == \A b \in Brackets : Meant(chase[b])

\* What a step of the coroutine shows to the outside: nothing, or one move of the
\* contract that needs the book clear of its orders.
Kept(r, s) == Phase(s) = Phase(r) /\ s.attempts = r.attempts /\ s.cancel = r.cancel

Begins(r, s) ==
  /\ Phase(r) = "working" /\ Phase(s) = "working"
  /\ ~r.cancel /\ s.cancel = r.cancel
  /\ r.attempts < MaxAttempts /\ s.attempts = r.attempts + 1

Turns(r, s) ==
  /\ s.attempts = r.attempts /\ s.cancel = r.cancel
  /\ Phase(r) = "working" /\ Phase(s) = "selling"

Ends(r, s) ==
  /\ s.attempts = r.attempts /\ s.cancel = r.cancel
  /\ \/ Phase(r) \in {"working", "selling"} /\ Phase(s) = "over"
     \/ Phase(r) = "working" /\ r.cancel /\ Phase(s) = "cancelled"

Moves(r, s) == Meant(s) /\ (Kept(r, s) \/ Begins(r, s) \/ Turns(r, s) \/ Ends(r, s))

\* Locals t that the fragment of a step leaves to the next one.
Follows(r, t) ==
  /\ t \in Chase /\ t.attempts = r.attempts /\ t.cancel = r.cancel /\ t.final = "None"

WorkPoints == Points \ (MarketPoints \cup {"finalBalance", "idle", "done"})

-----------------------------------------------------------------------------
(* The fragments of the coroutine.                                         *)

LEMMA PhaseFacts ==
  ASSUME NEW r
  PROVE  /\ r.pc \in WorkPoints => Phase(r) = "working"
         /\ r.pc \in MarketPoints \cup {"finalBalance"} => Phase(r) = "selling"
         /\ r.pc = "idle" => Phase(r) = "waiting"
         /\ r.pc = "done" => Phase(r) = IF r.final = "cancelled" THEN "cancelled" ELSE "over"
BY DEF Phase, WorkPoints, MarketPoints

LEMMA AwaitMoves ==
  ASSUME NEW r, NEW t, Follows(r, t), NEW p \in WorkPoints,
         Phase(r) = "working", p = "userCancel" => r.cancel
  PROVE  Moves(r, Await(t, p)) /\ Kept(r, Await(t, p))
<1>1. t \in Chase /\ p \in Points /\ p # "done"
  BY DEF Follows, WorkPoints
<1>2. Await(t, p).pc = p /\ Await(t, p).attempts = t.attempts
  BY <1>1, AwaitFields
<1>3. Await(t, p).cancel = t.cancel /\ Await(t, p).final = t.final
  BY <1>1, Zenon DEF Await, Chase
<1>4. Phase(Await(t, p)) = "working"
  BY <1>2, PhaseFacts
<1> QED
  BY <1>1, <1>2, <1>3, <1>4 DEF Moves, Kept, Meant, Follows

\* Setting out to sell, with or without the quantity.
LEMMA SellMoves ==
  ASSUME NEW r, NEW t, Follows(r, t), NEW p \in MarketPoints \cup {"finalBalance"},
         NEW q \in Int, Phase(r) \in {"working", "selling"}
  PROVE  Moves(r, Await(t, p)) /\ Moves(r, [Await(t, p) EXCEPT !.num = q])
<1> DEFINE a == Await(t, p)
           m == [a EXCEPT !.num = q]
<1>1. t \in Chase /\ p \in Points /\ p \notin {"done", "userCancel"}
  BY DEF Follows, Points, CallPoints, ReadPoints, MarketPoints
<1>2. a \in Chase /\ a.pc = p /\ a.attempts = t.attempts
  BY <1>1, AwaitFields
<1>3. a.cancel = t.cancel /\ a.final = t.final
  BY <1>1, Zenon DEF Await, Chase
<1>4. m.pc = a.pc /\ m.attempts = a.attempts /\ m.cancel = a.cancel /\ m.final = a.final
  BY <1>2, Zenon DEF Chase
<1>5. Phase(a) = "selling" /\ Phase(m) = "selling"
  BY <1>2, <1>4, PhaseFacts
<1> HIDE DEF a, m
<1> QED
  BY <1>1, <1>2, <1>3, <1>4, <1>5 DEF Moves, Kept, Turns, Meant, Follows, a, m

LEMMA ReturnMoves ==
  ASSUME NEW r, NEW t, Follows(r, t), NEW outcome \in Outcomes,
         Phase(r) \in {"working", "selling"},
         outcome = "cancelled" => Phase(r) = "working" /\ r.cancel
  PROVE  Moves(r, Return(t, outcome))
<1> DEFINE s == Return(t, outcome)
<1>1. NotStarted \in Chase
  BY NotStartedType
<1>2. s.pc = "done" /\ s.attempts = t.attempts /\ s.cancel = t.cancel /\ s.final = outcome
  BY <1>1, Zenon DEF Return, Chase
<1>3. Phase(s) = IF outcome = "cancelled" THEN "cancelled" ELSE "over"
  BY <1>2, PhaseFacts
<1> HIDE DEF s
<1> QED
  BY <1>2, <1>3 DEF Moves, Ends, Meant, Follows, s

LEMMA FinalSweepMoves ==
  ASSUME NEW r, NEW t, Follows(r, t), Phase(r) \in {"working", "selling"}
  PROVE  Moves(r, FinalSweep(t))
<1>1. "None" \in Outcomes /\ "final" \in MarketPoints /\ t.remaining \in Int
  BY DEF Outcomes, MarketPoints, Follows, Chase
<1> QED
  BY <1>1, ReturnMoves, SellMoves DEF FinalSweep

LEMMA LoopTopMoves ==
  ASSUME NEW r, NEW t, Follows(r, t), Phase(r) = "working", t.attempts <= MaxAttempts
  PROVE  Moves(r, LoopTop(t))
<1> DEFINE top == [t EXCEPT !.current = NoOrder]
           a == Await(top, "book")
           n == [a EXCEPT !.attempts = t.attempts + 1]
<1>1. t \in Chase /\ t.attempts \in Nat /\ MaxAttempts \in Nat
  BY ExchangeAssumption DEF Follows, Chase
<1>2. top \in Chase
  BY <1>1, Zenon DEF Chase
<1>3. top.attempts = t.attempts /\ top.cancel = t.cancel /\ top.final = t.final
  BY <1>1, Zenon DEF Chase
<1>4. Follows(r, top)
  BY <1>2, <1>3 DEF Follows
<1>5. CASE t.cancel
  BY <1>4, <1>5, ReturnMoves DEF LoopTop, Outcomes, Follows
<1>6. CASE ~t.cancel /\ t.attempts >= MaxAttempts
  BY <1>3, <1>4, <1>6, FinalSweepMoves DEF LoopTop
<1>7. CASE ~t.cancel /\ ~(t.attempts >= MaxAttempts)
  <2>1. "book" \in WorkPoints /\ "book" \in Points
    BY DEF WorkPoints, Points, MarketPoints
  <2>2. a \in Chase /\ a.pc = "book" /\ a.attempts = t.attempts
    BY <1>2, <1>3, <2>1, AwaitFields
  <2>3. a.cancel = top.cancel /\ a.final = top.final
    BY <1>2, Zenon DEF Await, Chase
  <2>4. LoopTop(t) = n
    BY <1>7, <2>2 DEF LoopTop
  <2>5. n.pc = a.pc /\ n.cancel = a.cancel /\ n.final = a.final /\ n.attempts = t.attempts + 1
    BY <2>2, Zenon DEF Chase
  <2>6. Phase(n) = "working"
    BY <2>1, <2>2, <2>5, PhaseFacts
  <2> HIDE DEF top, a, n
  <2> QED
    BY <1>1, <1>3, <1>7, <2>2, <2>3, <2>4, <2>5, <2>6 DEF Moves, Begins, Meant, Follows
<1> QED
  BY <1>5, <1>6, <1>7

LEMMA PauseMoves ==
  ASSUME NEW r, NEW t, Follows(r, t), Phase(r) = "working"
  PROVE  Moves(r, Pause(t))
<1>1. t \in Chase /\ "pause" \in WorkPoints
  BY DEF Follows, WorkPoints, Points, MarketPoints
<1>2. /\ Pause(t).pc = "pause" /\ Pause(t).attempts = t.attempts
      /\ Pause(t).cancel = t.cancel /\ Pause(t).final = t.final
  BY <1>1, Zenon DEF Pause, Chase
<1>3. Phase(Pause(t)) = "working"
  BY <1>1, <1>2, PhaseFacts
<1> QED
  BY <1>2, <1>3 DEF Moves, Kept, Meant, Follows

LEMMA WorkAwaits ==
  ((ReadPoints \ {"finalBalance"}) \cup PlacePoints \cup CancelPoints \cup FetchPoints
     \cup {"scan", "cleanup", "book", "watch", "pause"}) \subseteq WorkPoints
BY DEF WorkPoints, Points, CallPoints, ReadPoints, PlacePoints, CancelPoints, FetchPoints,
       MarketPoints

LEMMA NotPlacedMoves ==
  ASSUME NEW r, NEW t, Follows(r, t), Phase(r) = "working"
  PROVE  Moves(r, NotPlaced(t))
<1>1. "position" \in WorkPoints
  BY WorkAwaits DEF ReadPoints
<1> QED
  BY <1>1, AwaitMoves, PauseMoves DEF NotPlaced

LEMMA WatchMoves ==
  ASSUME NEW r, NEW b \in Brackets, Follows(r, r), Phase(r) = "working"
  PROVE  Moves(r, Watch(r, b)) /\ Kept(r, Watch(r, b))
<1>1. r \in Chase /\ "watch" \in WorkPoints
  BY WorkAwaits DEF Follows
<1>2. /\ Watch(r, b).pc = "watch" /\ Watch(r, b).attempts = r.attempts
      /\ Watch(r, b).cancel = r.cancel /\ Watch(r, b).final = r.final
  BY <1>1, Zenon DEF Watch, Chase
<1>3. Phase(Watch(r, b)) = "working"
  BY <1>1, <1>2, PhaseFacts
<1> QED
  BY <1>2, <1>3 DEF Moves, Kept, Meant, Follows

LEMMA AfterRepegMoves ==
  ASSUME NEW r, Follows(r, r), Phase(r) = "working", r.attempts <= MaxAttempts,
         NEW filled \in Nat
  PROVE  Moves(r, AfterRepeg(r, filled))
<1> DEFINE left == [r EXCEPT !.remaining = IF filled < @ THEN @ - filled ELSE 0]
<1>1. r \in Chase /\ r.remaining \in Nat
  BY DEF Follows, Chase
<1>2. left \in Chase /\ left.attempts = r.attempts /\ left.cancel = r.cancel
      /\ left.final = r.final
  BY <1>1 DEF Chase
<1>3. Follows(r, left)
  BY <1>2 DEF Follows
<1>4. AfterRepeg(r, filled) \in {Return(left, "filled"), LoopTop(left)}
  BY DEF AfterRepeg
<1> HIDE DEF left
<1> QED
  BY <1>2, <1>3, <1>4, ReturnMoves, LoopTopMoves DEF Outcomes

\* The cleanup of the other orders, at the hand-off or after a rejection.
LEMMA CleanupFields ==
  ASSUME NEW b \in Brackets, NEW t \in Chase, TypeOK,
         NEW reason \in {"start", "reduceonly", "insufficient"}
  PROVE  \E p \in {"scan", "cleanup"} :
           LET k == Cleanup(t, b, reason)
           IN  k.pc = p /\ k.attempts = t.attempts /\ k.cancel = t.cancel /\ k.final = t.final
<1> DEFINE s == [t EXCEPT !.why = reason, !.targets = t.linked]
           a == Await(s, "scan")
           c == Await(s, "cleanup")
           k == [a EXCEPT !.protected = ProtectedFrom(b)]
<1>1. t.linked \in SUBSET OrderIds
  BY DEF Chase
<1>2. s \in Chase
  BY <1>1, Zenon DEF Chase
<1>3. s.attempts = t.attempts /\ s.cancel = t.cancel /\ s.final = t.final
  BY Zenon DEF Chase
<1>4. /\ a \in Chase /\ a.pc = "scan" /\ a.attempts = s.attempts
      /\ c.pc = "cleanup" /\ c.attempts = s.attempts
  BY <1>2, AwaitFields, PointsFacts
<1>5. a.cancel = s.cancel /\ a.final = s.final /\ c.cancel = s.cancel /\ c.final = s.final
  BY <1>2, Zenon DEF Await, Chase
<1>6. k.pc = a.pc /\ k.attempts = a.attempts /\ k.cancel = a.cancel /\ k.final = a.final
  BY <1>4, Zenon DEF Chase
<1>7. Cleanup(t, b, reason) \in {k, c}
  BY DEF Cleanup
<1> HIDE DEF s, a, c, k
<1> QED
  BY <1>3, <1>4, <1>5, <1>6, <1>7

LEMMA CleanupMoves ==
  ASSUME NEW b \in Brackets, NEW r, NEW t, Follows(r, t), TypeOK, Phase(r) = "working",
         NEW reason \in {"start", "reduceonly", "insufficient"}
  PROVE  Moves(r, Cleanup(t, b, reason))
<1> DEFINE k == Cleanup(t, b, reason)
<1>1. PICK p \in {"scan", "cleanup"} :
        k.pc = p /\ k.attempts = t.attempts /\ k.cancel = t.cancel /\ k.final = t.final
  BY CleanupFields DEF Follows
<1>2. Phase(k) = "working"
  BY <1>1, WorkAwaits, PhaseFacts
<1> HIDE DEF k
<1> QED
  BY <1>1, <1>2 DEF Moves, Kept, Meant, Follows, k

-----------------------------------------------------------------------------
(* The steps of the contract.                                              *)

\* Whoever acts, as long as no order appears and nothing is told, begun or sold.
LEMMA IsFadeStill ==
  ASSUME \A c \in Brackets : Kept(chase[c], chase'[c]),
         Open' \subseteq Open, swept' = swept, faults' = 0 => faults = 0,
         faults \in Nat, faults' \in Nat
  PROVE  Contract!Fade
<1>1. /\ [c \in Brackets |-> Phase(chase[c])]' = [c \in Brackets |-> Phase(chase[c])]
      /\ [c \in Brackets |-> chase[c].attempts]' = [c \in Brackets |-> chase[c].attempts]
      /\ [c \in Brackets |-> chase[c].cancel]' = [c \in Brackets |-> chase[c].cancel]
  BY DEF Kept
<1>2. [c \in Brackets |-> swept[c] > 0]' = [c \in Brackets |-> swept[c] > 0]
  OBVIOUS
<1>3. /\ [c \in Brackets |-> Offered(c)]' \in [Brackets -> SUBSET (1 .. MaxAttempts)]
      /\ \A c \in Brackets : ([c_1 \in Brackets |-> Offered(c_1)]')[c]
                               \subseteq [c_1 \in Brackets |-> Offered(c_1)][c]
  BY DEF Offered
<1>4. (faults > 0)' = TRUE \/ (faults > 0)' = (faults > 0)
  OBVIOUS
<1> QED
  BY <1>1, <1>2, <1>3, <1>4, Zenon DEF Contract!Fade

LEMMA IsFade ==
  ASSUME TypeInv, NEW b \in Brackets, NEW s,
         chase' = [chase EXCEPT ![b] = s], Kept(chase[b], s),
         Open' \subseteq Open, swept' = swept, faults' = 0 => faults = 0, faults' \in Nat
  PROVE  Contract!Fade
<1>1. \A c \in Brackets : Kept(chase[c], chase'[c])
  BY DEF TypeInv, TypeOK, Kept
<1>2. faults \in Nat
  BY DEF TypeInv, TypeOK, ExchangeTypeOK
<1> QED
  BY <1>1, <1>2, IsFadeStill

\* A step of the coroutine that does not hold an order is a move of the contract.
LEMMA IsMove ==
  ASSUME TypeInv, OrdersHeld, NEW b \in Brackets, NEW s,
         chase' = [chase EXCEPT ![b] = s], UNCHANGED exchangeVars,
         Moves(chase[b], s), ~Holds(chase[b]) \/ Kept(chase[b], s)
  PROVE  Contract!Next
<1>0. /\ Open' = Open /\ swept' = swept /\ faults' = faults /\ orders' = orders
      /\ chase \in [Brackets -> Chase] /\ faults \in Nat
  BY DEF exchangeVars, ledgerVars, Open, TypeInv, TypeOK, ExchangeTypeOK
<1>1. CASE Kept(chase[b], s)
  BY <1>0, <1>1, IsFade DEF Contract!Next
<1>2. CASE ~Kept(chase[b], s)
  <2>1. Contract!Clear(b)
    <3>1. faults = 0 => Offered(b) = {}
      BY <1>2 DEF OrdersHeld, Offered
    <3> QED
      BY <1>0, <3>1 DEF Contract!Clear
  <2>2. [c \in Brackets |-> Offered(c)]' = [c \in Brackets |-> Offered(c)]
    BY <1>0 DEF Offered
  <2>3. chase'[b] = s /\ \A c \in Brackets \ {b} : chase'[c] = chase[c]
    BY <1>0
  <2> DEFINE r == chase[b]
  <2>4. CASE Begins(r, s)
    <3>1. [c \in Brackets |-> chase[c].attempts]'
            = [[c \in Brackets |-> chase[c].attempts] EXCEPT ![b] = @ + 1]
      BY <1>0, <2>3, <2>4 DEF Begins
    <3>2. /\ [c \in Brackets |-> Phase(chase[c])]' = [c \in Brackets |-> Phase(chase[c])]
          /\ [c \in Brackets |-> chase[c].cancel]' = [c \in Brackets |-> chase[c].cancel]
      <4>1. Phase(s) = Phase(r) /\ s.cancel = r.cancel
        BY <2>4, Zenon DEF Begins
      <4> QED
        BY <2>3, <4>1
    <3>3. Contract!Begin(b)
      BY <1>0, <2>1, <2>2, <2>4, <3>1, <3>2 DEF Contract!Begin, Begins
    <3> QED
      BY <3>3 DEF Contract!Next
  <2>5. CASE Turns(r, s)
    <3>1. Contract!Turn(b)
      BY <1>0, <2>1, <2>2, <2>3, <2>5 DEF Contract!Turn, Contract!Enters, Turns
    <3> QED
      BY <3>1 DEF Contract!Next
  <2>6. CASE Ends(r, s)
    <3>1. Contract!End(b)
      BY <1>0, <2>1, <2>2, <2>3, <2>6 DEF Contract!End, Contract!Enters, Ends
    <3> QED
      BY <3>1 DEF Contract!Next
  <2> QED
    BY <1>2, <2>4, <2>5, <2>6 DEF Moves
<1> QED
  BY <1>1, <1>2

-----------------------------------------------------------------------------
(* Every step of the chase is a step of the contract.                      *)

\* What a step of the coroutine of b shows; in interval mode it may still hold the
\* order of its attempt when it moves on.
Stirs(b) ==
  \E s : /\ chase' = [chase EXCEPT ![b] = s] /\ UNCHANGED exchangeVars
         /\ Moves(chase[b], s)
         /\ ChaseMode = "dynamic_bbo" => ~Holds(chase[b]) \/ Kept(chase[b], s)

LEMMA ResumeStirs ==
  ASSUME NEW b \in Brackets, NEW s, Resume(b, s), Moves(chase[b], s),
         ChaseMode = "dynamic_bbo" => ~Holds(chase[b]) \/ Kept(chase[b], s)
  PROVE  Stirs(b)
BY DEF Resume, Stirs

LEMMA SizedStirs ==
  ASSUME NEW b \in Brackets, NEW t, Sized(b, t),
         Follows(chase[b], t), Phase(chase[b]) = "working", ~Holds(chase[b]),
         t.attempts <= MaxAttempts
  PROVE  Stirs(b)
<1>1. CASE Register(b, t)
  <2>1. chase' = [chase EXCEPT ![b] = LoopTop(t)] /\ UNCHANGED exchangeVars
    BY <1>1 DEF Register
  <2>2. Moves(chase[b], LoopTop(t))
    BY LoopTopMoves
  <2> QED
    BY <2>1, <2>2 DEF Stirs
<1>2. CASE Resume(b, Return(t, "closed")) \/ Resume(b, Return(t, "prevented"))
  <2>1. Moves(chase[b], Return(t, "closed")) /\ Moves(chase[b], Return(t, "prevented"))
    BY ReturnMoves DEF Outcomes
  <2> QED
    BY <1>2, <2>1, ResumeStirs
<1> QED
  BY <1>1, <1>2 DEF Sized

LEMMA LocalsFollow ==
  ASSUME TypeInv, ChaseMeant, NEW b \in Brackets, chase[b].pc # "done"
  PROVE  Follows(chase[b], chase[b]) /\ Follows(chase[b], Clamped(chase[b]))
<1>1. chase[b] \in Chase /\ chase[b].final = "None"
  BY DEF TypeInv, TypeOK, ChaseMeant, Meant
<1>2. Clamped(chase[b]) \in Chase
  BY <1>1, ClampedType
<1>3. /\ Clamped(chase[b]).attempts = chase[b].attempts
      /\ Clamped(chase[b]).cancel = chase[b].cancel
      /\ Clamped(chase[b]).final = chase[b].final
  BY <1>1 DEF Clamped, Chase
<1> QED
  BY <1>1, <1>2, <1>3 DEF Follows

\* The coroutine while it is in its loop or in front of it.
LEMMA WorkStirs ==
  ASSUME TypeInv, ChaseMeant, NEW b \in Brackets,
         chase[b].pc \in WorkPoints, Coroutine(b)
  PROVE  Stirs(b)
<1> DEFINE r == chase[b]
           c == Clamped(r)
<1>0. /\ Phase(r) = "working" /\ Follows(r, r) /\ Follows(r, c)
      /\ r \in Chase /\ r.attempts <= MaxAttempts
      /\ c.attempts = r.attempts /\ c.remaining \in Nat /\ c.num = r.num
      /\ r.num \in Int /\ c.rejects = r.rejects
  <2>1. r.pc # "done"
    BY DEF WorkPoints
  <2> QED
    BY <2>1, PhaseFacts, LocalsFacts, LocalsFollow DEF Chase
<1> HIDE DEF c
<1>1. CASE ScanReplied(b) \/ BookArrives(b)
  <2>1. ~Holds(r)
    BY <1>1 DEF ScanReplied, BookArrives, Replied, Holds, PlacePoints, CancelPoints
  <2>2. Moves(r, Await(r, "cleanup")) /\ Moves(r, Await(r, "sync"))
    BY <1>0, AwaitMoves, WorkAwaits DEF ReadPoints
  <2> QED
    BY <1>1, <2>1, <2>2, ResumeStirs DEF ScanReplied, BookArrives
<1>2. CASE CleanupReplied(b)
  <2> DEFINE s == [r EXCEPT !.linked = {}, !.targets = {}, !.protected = {}]
  <2>1. s \in Chase
    BY <1>0, Zenon DEF Chase
  <2>2. s.attempts = r.attempts /\ s.cancel = r.cancel /\ s.final = r.final /\ s.why = r.why
    BY <1>0, Zenon DEF Chase
  <2>3. Follows(r, s)
    BY <1>0, <2>1, <2>2 DEF Follows
  <2>4. ~Holds(r)
    BY <1>2 DEF CleanupReplied, Replied, Holds, PlacePoints, CancelPoints
  <2>5. s.why \in {"start", "reduceonly", "insufficient"}
    BY <2>1 DEF Chase
  <2>6. \E p \in {"size", "roPosition", "isync"} : Resume(b, Await(s, p))
    BY <1>2, <2>5 DEF CleanupReplied
  <2> HIDE DEF s
  <2>7. \A p \in {"size", "roPosition", "isync"} : Moves(r, Await(s, p))
    BY <1>0, <2>3, AwaitMoves, WorkAwaits DEF ReadPoints
  <2> QED
    BY <2>4, <2>6, <2>7, ResumeStirs
<1>3. CASE SizeReplied(b) \/ RecheckReplied(b)
  <2>1. ~Holds(r)
    BY <1>3 DEF SizeReplied, RecheckReplied, Replied, Holds, PlacePoints, CancelPoints
  <2>2. Moves(r, Await(c, "recheck1")) /\ Moves(r, Await(c, "recheck2"))
    BY <1>0, AwaitMoves, WorkAwaits DEF ReadPoints
  <2>3. Resume(b, Await(c, "recheck1")) \/ Resume(b, Await(c, "recheck2")) \/ Sized(b, c)
    BY <1>3 DEF SizeReplied, RecheckReplied, c
  <2> QED
    BY <1>0, <2>1, <2>2, <2>3, ResumeStirs, SizedStirs
<1>4. CASE SyncReplied(b)
  <2>1. ~Holds(r)
    BY <1>4 DEF SyncReplied, Replied, Holds, PlacePoints, CancelPoints
  <2>2. Moves(r, Return(c, "dust"))
    BY <1>0, ReturnMoves DEF Outcomes
  <2>3. Moves(r, Await(c, "place")) /\ Moves(r, Await(c, "breakerBalance"))
    BY <1>0, AwaitMoves, WorkAwaits DEF ReadPoints, PlacePoints
  <2>4. Moves(r, [Await(c, "breaker") EXCEPT !.num = c.remaining])
    BY <1>0, SellMoves DEF MarketPoints
  <2>5. \/ Resume(b, Return(c, "dust")) \/ Resume(b, Await(c, "place"))
        \/ Resume(b, [Await(c, "breaker") EXCEPT !.num = c.remaining])
        \/ Resume(b, Await(c, "breakerBalance"))
    BY <1>4 DEF SyncReplied, c
  <2> QED
    BY <2>1, <2>2, <2>3, <2>4, <2>5, ResumeStirs
<1>5. CASE PlaceReplied(b)
  <2> DEFINE s == [r EXCEPT !.rejects = @ + 1]
  <2>1. s \in Chase /\ s.attempts = r.attempts /\ s.cancel = r.cancel /\ s.final = r.final
    BY <1>0 DEF Chase
  <2>2. Follows(r, s) /\ TypeOK
    BY <1>0, <2>1 DEF Follows, TypeInv
  <2> HIDE DEF s
  <2>3. CASE r.reply = "ok"
    BY <1>0, <1>5, <2>3, WatchMoves, ResumeStirs DEF PlaceReplied
  <2>4. CASE r.reply # "ok"
    <3>1. ~Holds(r)
      BY <1>5, <2>4 DEF PlaceReplied, Replied, Holds, PlacePoints, CancelPoints
    <3>2. Moves(r, Await(r, "resync")) /\ Moves(r, NotPlaced(r))
      BY <1>0, AwaitMoves, NotPlacedMoves, WorkAwaits DEF ReadPoints
    <3>3. Moves(r, Cleanup(s, b, "reduceonly")) /\ Moves(r, Cleanup(r, b, "insufficient"))
      BY <1>0, <2>2, CleanupMoves
    <3>4. \/ Resume(b, NotPlaced(r)) \/ Resume(b, Await(r, "resync"))
          \/ Resume(b, Cleanup(s, b, "reduceonly")) \/ Resume(b, Cleanup(r, b, "insufficient"))
      BY <1>5, <2>4 DEF PlaceReplied, s
    <3> QED
      BY <3>1, <3>2, <3>3, <3>4, ResumeStirs
  <2> QED
    BY <2>3, <2>4
<1>6. CASE ResyncReplied(b)
  <2>1. ~Holds(r)
    BY <1>6 DEF ResyncReplied, Replied, Holds, PlacePoints, CancelPoints
  <2>2. Moves(r, Await(c, "replace")) /\ Moves(r, NotPlaced(c))
    BY <1>0, AwaitMoves, NotPlacedMoves, WorkAwaits DEF PlacePoints
  <2> QED
    BY <1>6, <2>1, <2>2, ResumeStirs DEF ResyncReplied, c
<1>7. CASE ReplaceReplied(b)
  <2>1. CASE r.reply = "ok"
    BY <1>0, <1>7, <2>1, WatchMoves, ResumeStirs DEF ReplaceReplied
  <2>2. CASE r.reply # "ok"
    <3>1. ~Holds(r)
      BY <1>7, <2>2 DEF ReplaceReplied, Replied, Holds, PlacePoints, CancelPoints
    <3> QED
      BY <1>0, <1>7, <2>2, <3>1, NotPlacedMoves, ResumeStirs DEF ReplaceReplied
  <2> QED
    BY <2>1, <2>2
<1>8. CASE RoPositionReplied(b) \/ PositionReplied(b) \/ IsyncReplied(b) \/ PauseEnds(b)
  <2>1. ~Holds(r)
    BY <1>8 DEF RoPositionReplied, PositionReplied, IsyncReplied, PauseEnds, Replied, Holds,
       PlacePoints, CancelPoints
  <2>2. /\ Moves(r, Return(c, "closed")) /\ Moves(r, Return(c, "aborted"))
        /\ Moves(r, Return(r, "closed")) /\ Moves(r, Pause(c))
        /\ Moves(r, LoopTop(c)) /\ Moves(r, LoopTop(r))
    BY <1>0, ReturnMoves, PauseMoves, LoopTopMoves DEF Outcomes
  <2>3. \/ Resume(b, Return(c, "closed")) \/ Resume(b, Return(c, "aborted"))
        \/ Resume(b, Return(r, "closed")) \/ Resume(b, Pause(c))
        \/ Resume(b, LoopTop(c)) \/ Resume(b, LoopTop(r))
    BY <1>8 DEF RoPositionReplied, PositionReplied, IsyncReplied, PauseEnds, c
  <2> QED
    BY <2>1, <2>2, <2>3, ResumeStirs
<1>9. CASE WatchEnds(b)
  <2>1. Moves(r, Await(r, "status")) /\ Kept(r, Await(r, "status")) /\ Moves(r, Pause(r))
    BY <1>0, AwaitMoves, PauseMoves, WorkAwaits DEF FetchPoints
  <2>2. \/ Resume(b, Await(r, "status"))
        \/ ChaseMode # "dynamic_bbo" /\ Resume(b, Pause(r))
    BY <1>9 DEF WatchEnds
  <2> QED
    BY <2>1, <2>2, ResumeStirs
<1>10. CASE WatchCancelled(b)
  <2>1. Moves(r, Await(r, "userCancel")) /\ Kept(r, Await(r, "userCancel"))
    BY <1>0, <1>10, AwaitMoves, WorkAwaits DEF CancelPoints, WatchCancelled
  <2> QED
    BY <1>10, <2>1, ResumeStirs DEF WatchCancelled
<1>11. CASE UserCancelReplied(b)
  <2>1. ~Holds(r) /\ r.cancel
    BY <1>11 DEF UserCancelReplied, Replied, Holds, PlacePoints, CancelPoints, ChaseMeant, Meant
  <2>2. Moves(r, Return(r, "cancelled"))
    BY <1>0, <2>1, ReturnMoves DEF Outcomes
  <2> QED
    BY <1>11, <2>1, <2>2, ResumeStirs DEF UserCancelReplied
<1>12. CASE StatusReplied(b)
  <2>1. CASE r.reply \in {"closed", "error"}
    <3>1. ~Holds(r)
      BY <1>12, <2>1 DEF StatusReplied, Replied, Holds, PlacePoints, CancelPoints
    <3>2. Moves(r, Return(r, "filled")) /\ Moves(r, Pause(r))
      BY <1>0, ReturnMoves, PauseMoves DEF Outcomes
    <3>3. Resume(b, Return(r, "filled")) \/ Resume(b, Pause(r))
      BY <1>12, <2>1 DEF StatusReplied
    <3> QED
      BY <3>1, <3>2, <3>3, ResumeStirs
  <2>2. CASE r.reply \notin {"closed", "error"}
    <3>1. Moves(r, Await(r, "repeg")) /\ Kept(r, Await(r, "repeg"))
      BY <1>0, AwaitMoves, WorkAwaits DEF CancelPoints
    <3>2. Resume(b, Await(r, "repeg"))
      BY <1>12, <2>2 DEF StatusReplied
    <3> QED
      BY <3>1, <3>2, ResumeStirs
  <2> QED
    BY <2>1, <2>2
<1>13. CASE RepegReplied(b) \/ RefillReplied(b)
  <2>1. ~Holds(r)
    BY <1>13 DEF RepegReplied, RefillReplied, Replied, Holds, PlacePoints, CancelPoints
  <2>2. Moves(r, Await(r, "refill")) /\ Moves(r, LoopTop(r))
    BY <1>0, AwaitMoves, LoopTopMoves, WorkAwaits DEF FetchPoints
  <2>3. r.num \in Nat => Moves(r, AfterRepeg(r, r.num))
    BY <1>0, AfterRepegMoves
  <2>4. \/ Resume(b, Await(r, "refill")) \/ Resume(b, LoopTop(r))
        \/ r.num \in Nat /\ Resume(b, AfterRepeg(r, r.num))
    <3>1. CASE RepegReplied(b)
      BY <1>0, <3>1 DEF RepegReplied
    <3>2. CASE RefillReplied(b)
      <4>1. r.num \in Nat
        BY <3>2 DEF RefillReplied, Replied, TypeInv, Sound, FetchPoints
      <4> QED
        BY <3>2, <4>1 DEF RefillReplied
    <3> QED
      BY <1>13, <3>1, <3>2
  <2> QED
    BY <2>1, <2>2, <2>3, <2>4, ResumeStirs
<1>14. CASE BreakerBalanceReplied(b)
  <2> DEFINE q == SweepQty(r)
  <2>1. ~Holds(r)
    BY <1>14 DEF BreakerBalanceReplied, Replied, Holds, PlacePoints, CancelPoints
  <2>2. q \in Int
    BY <1>0 DEF SweepQty, Chase
  <2>3. Moves(r, [Await(r, "breaker") EXCEPT !.num = q])
    BY <1>0, <2>2, SellMoves DEF MarketPoints
  <2>4. Moves(r, Return(r, "dust")) /\ Moves(r, FinalSweep(r))
    BY <1>0, ReturnMoves, FinalSweepMoves DEF Outcomes
  <2>5. \/ Resume(b, [Await(r, "breaker") EXCEPT !.num = q])
        \/ Resume(b, Return(r, "dust")) \/ Resume(b, FinalSweep(r))
    BY <1>14 DEF BreakerBalanceReplied
  <2> QED
    BY <2>1, <2>3, <2>4, <2>5, ResumeStirs
<1>15. CASE BreakerReplied(b) \/ FinalBalanceReplied(b) \/ FinalReplied(b)
  BY <1>15 DEF BreakerReplied, FinalBalanceReplied, FinalReplied, Replied, WorkPoints, MarketPoints
<1> QED
  BY <1>1, <1>2, <1>3, <1>4, <1>5, <1>6, <1>7, <1>8, <1>9, <1>10, <1>11, <1>12, <1>13,
     <1>14, <1>15 DEF Coroutine

\* The coroutine behind its loop.
LEMMA SellStirs ==
  ASSUME TypeInv, ChaseMeant, NEW b \in Brackets,
         chase[b].pc \in MarketPoints \cup {"finalBalance"}, Coroutine(b)
  PROVE  Stirs(b)
<1> DEFINE r == chase[b]
           q == SweepQty(r)
<1>1. /\ Phase(r) = "selling" /\ r.pc # "done" /\ ~Holds(r)
  BY PhaseFacts DEF MarketPoints, Holds, PlacePoints, CancelPoints
<1>2. Follows(r, r) /\ q \in Int
  BY <1>1, LocalsFollow DEF Follows, SweepQty, Chase
<1>3. /\ Moves(r, Return(r, "swept")) /\ Moves(r, Return(r, "dust"))
      /\ Moves(r, Return(r, "None")) /\ Moves(r, FinalSweep(r))
  BY <1>1, <1>2, ReturnMoves, FinalSweepMoves DEF Outcomes
<1>4. Moves(r, [Await(r, "final") EXCEPT !.num = q])
  BY <1>1, <1>2, SellMoves DEF MarketPoints
<1>5. BreakerReplied(b) \/ FinalBalanceReplied(b) \/ FinalReplied(b)
  BY DEF Coroutine, Replied, MarketPoints, ScanReplied, CleanupReplied, SizeReplied,
     RecheckReplied, BookArrives, SyncReplied, PlaceReplied, ResyncReplied, ReplaceReplied,
     RoPositionReplied, IsyncReplied, PositionReplied, PauseEnds, WatchEnds, WatchCancelled,
     UserCancelReplied, StatusReplied, RepegReplied, RefillReplied, BreakerBalanceReplied
<1>6. \/ Resume(b, Return(r, "swept")) \/ Resume(b, Return(r, "dust"))
      \/ Resume(b, Return(r, "None")) \/ Resume(b, FinalSweep(r))
      \/ Resume(b, [Await(r, "final") EXCEPT !.num = q])
  BY <1>5 DEF BreakerReplied, FinalBalanceReplied, FinalReplied
<1> HIDE DEF q
<1> QED
  BY <1>1, <1>3, <1>4, <1>6, ResumeStirs

LEMMA CoroutineStirs ==
  ASSUME TypeInv, ChaseMeant, NEW b \in Brackets, Coroutine(b)
  PROVE  Stirs(b)
<1>1. chase[b].pc \in Points
  BY DEF TypeInv, TypeOK, Chase
<1>2. chase[b].pc \notin {"idle", "done"}
  BY DEF Coroutine, Replied, ScanReplied, CleanupReplied, SizeReplied,
     RecheckReplied, BookArrives, SyncReplied, PlaceReplied, ResyncReplied, ReplaceReplied,
     RoPositionReplied, IsyncReplied, PositionReplied, PauseEnds, WatchEnds, WatchCancelled,
     UserCancelReplied, StatusReplied, RepegReplied, RefillReplied, BreakerBalanceReplied,
     BreakerReplied, FinalBalanceReplied, FinalReplied
<1>3. chase[b].pc \in WorkPoints \/ chase[b].pc \in MarketPoints \cup {"finalBalance"}
  BY <1>1, <1>2 DEF WorkPoints
<1> QED
  BY <1>3, WorkStirs, SellStirs

LEMMA StirsMeant ==
  ASSUME TypeInv, ChaseMeant, NEW b \in Brackets, Stirs(b)
  PROVE  ChaseMeant'
BY DEF Stirs, ChaseMeant, Moves, TypeInv, TypeOK

LEMMA CoroutineIsMove ==
  ASSUME ChaseMode = "dynamic_bbo", TypeInv, OrdersHeld, ChaseMeant, NEW b \in Brackets,
         Coroutine(b)
  PROVE  Contract!Next /\ ChaseMeant'
BY CoroutineStirs, StirsMeant, IsMove DEF Stirs

LEMMA InvokeIsMove ==
  ASSUME TypeInv, ChaseMeant, NEW b \in Brackets, Invoke(b)
  PROVE  Contract!Next /\ ChaseMeant'
<1> DEFINE t == [chase[b] EXCEPT !.linked = Linked(sl[b]), !.remaining = Amount]
           k == Cleanup(t, b, "start")
<1>1. chase \in [Brackets -> Chase] /\ Linked(sl[b]) \in SUBSET OrderIds /\ Amount \in Nat /\ TypeOK
  BY LinkedType, ExchangeAssumption DEF TypeInv, TypeOK
<1>2. t \in Chase
  BY <1>1, ZenonT(30) DEF Chase
<1>3. t.attempts = chase[b].attempts /\ t.cancel = chase[b].cancel /\ t.final = chase[b].final
  BY <1>1, ZenonT(30) DEF Chase
<1>4. PICK p \in {"scan", "cleanup"} :
        k.pc = p /\ k.attempts = t.attempts /\ k.cancel = t.cancel /\ k.final = t.final
  BY <1>1, <1>2, CleanupFields
<1>5. Phase(k) = "working" /\ Phase(chase[b]) = "waiting" /\ chase[b].final = "None"
  BY <1>4, WorkAwaits, PhaseFacts DEF Invoke, ChaseMeant, Meant
<1>6. chase' = [chase EXCEPT ![b] = k] /\ UNCHANGED exchangeVars
  BY DEF Invoke
<1> HIDE DEF t, k
<1>7. chase'[b] = k /\ \A c \in Brackets \ {b} : chase'[c] = chase[c]
  BY <1>1, <1>6
<1>8. ChaseMeant'
  BY <1>3, <1>4, <1>5, <1>7 DEF ChaseMeant, Meant
<1>9. /\ [c \in Brackets |-> Offered(c)]' = [c \in Brackets |-> Offered(c)]
      /\ swept' = swept /\ faults' = faults
  BY <1>6 DEF exchangeVars, ledgerVars, Offered, Open
<1>10. Contract!Start(b)
  BY <1>3, <1>4, <1>5, <1>7, <1>9 DEF Contract!Start, Contract!Enters
<1> QED
  BY <1>8, <1>10 DEF Contract!Next

LEMMA StopIsMove ==
  ASSUME TypeInv, ChaseMeant, NEW b \in Brackets, Stop(b)
  PROVE  Contract!Next /\ ChaseMeant'
<1> DEFINE s == [chase[b] EXCEPT !.cancel = TRUE]
<1>1. chase \in [Brackets -> Chase] /\ UNCHANGED exchangeVars /\ chase' = [chase EXCEPT ![b] = s]
  BY DEF Stop, TypeInv, TypeOK
<1>2. /\ s.pc = chase[b].pc /\ s.attempts = chase[b].attempts /\ s.final = chase[b].final
      /\ s.cancel = TRUE
  BY <1>1, Zenon DEF Chase
<1> HIDE DEF s
<1>3. Phase(s) = Phase(chase[b])
  BY <1>2 DEF Phase
<1>4. chase'[b] = s /\ \A c \in Brackets \ {b} : chase'[c] = chase[c]
  BY <1>1
<1>5. ChaseMeant'
  BY <1>2, <1>4 DEF ChaseMeant, Meant
<1>6. /\ [c \in Brackets |-> Offered(c)]' = [c \in Brackets |-> Offered(c)]
      /\ swept' = swept /\ faults' = faults
  BY <1>1 DEF exchangeVars, ledgerVars, Offered, Open
<1>7. Contract!Tell(b)
  BY <1>2, <1>3, <1>4, <1>6 DEF Contract!Tell
<1> QED
  BY <1>5, <1>7 DEF Contract!Next

\* What a served call does to the locals is not to be seen from outside.
LEMMA AnsweredKept ==
  ASSUME TypeInv, ChaseMeant, NEW b \in Brackets, NEW s,
         chase' = [chase EXCEPT ![b] = s],
         \/ \E word, n : s = Answered(chase[b], word, n)
         \/ \E found : s = Scanned(chase[b], found)
  PROVE  Kept(chase[b], s) /\ ChaseMeant'
<1>1. chase \in [Brackets -> Chase]
  BY DEF TypeInv, TypeOK
<1>2. /\ s.pc = chase[b].pc /\ s.attempts = chase[b].attempts /\ s.final = chase[b].final
      /\ s.cancel = chase[b].cancel
  BY <1>1, Zenon DEF Chase, Answered, Scanned
<1>3. ChaseMeant'
  BY <1>1, <1>2 DEF ChaseMeant, Meant
<1> QED
  BY <1>2, <1>3 DEF Kept, Phase

\* A call that opens no order and sells nothing.
LEMMA QuietIsFade ==
  ASSUME TypeInv, ChaseMeant, NEW b \in Brackets, NEW s,
         chase' = [chase EXCEPT ![b] = s],
         \/ \E word, n : s = Answered(chase[b], word, n)
         \/ \E found : s = Scanned(chase[b], found),
         Open' \subseteq Open, swept' = swept, NoFault \/ Fault
  PROVE  Contract!Next /\ ChaseMeant'
<1>1. faults' \in Nat /\ (faults' = 0 => faults = 0)
  BY FaultCount DEF TypeInv, TypeOK
<1> QED
  BY <1>1, AnsweredKept, IsFade DEF Contract!Next

LEMMA RestOpens ==
  ASSUME ExchangeTypeOK, NEW o \in OrderIds, NEW q, Rest(o, q)
  PROVE  Open' = Open \cup {o}
BY DEF ExchangeTypeOK, Rest, Open

\* The maker order of the attempt appears on the book.
LEMMA PlaceIsOffer ==
  ASSUME TypeInv, OrdersHeld, ChaseMeant, NEW b \in Brackets, NEW word,
         Pending(b, PlacePoints), Rest(Maker(b, chase[b].attempts), chase[b].remaining),
         NoFault \/ Fault, Reply(b, word, 0)
  PROVE  Contract!Next /\ ChaseMeant'
<1> DEFINE r == chase[b]
           s == Answered(r, word, 0)
           o == Maker(b, r.attempts)
<1>1. chase' = [chase EXCEPT ![b] = s]
  BY DEF Reply
<1>2. Kept(r, s) /\ ChaseMeant'
  BY <1>1, AnsweredKept
<1>3. /\ chase \in [Brackets -> Chase] /\ ExchangeTypeOK /\ faults \in Nat
      /\ r.attempts \in 1 .. MaxAttempts /\ Phase(r) = "working" /\ ~Holds(r)
  <2>1. r.pc \in PlacePoints /\ r.reply = "pending"
    BY DEF Pending
  <2>2. r.attempts \in 1 .. MaxAttempts
    BY <2>1, ExchangeAssumption DEF TypeInv, TypeOK, Sound, AttemptPoints, Chase
  <2>3. Phase(r) = "working" /\ ~Holds(r)
    BY <2>1, WorkAwaits, PhaseFacts DEF Holds, PlacePoints, CancelPoints
  <2> QED
    BY <2>2, <2>3 DEF TypeInv, TypeOK, ExchangeTypeOK
<1>4. o \in OrderIds
  BY <1>3 DEF Maker, OrderIds
<1>5. Open' = Open \cup {o} /\ swept' = swept
  BY <1>3, <1>4, RestOpens DEF Rest
<1>6. Offered(b)' = Offered(b) \cup {r.attempts}
      /\ \A c \in Brackets \ {b} : Offered(c)' = Offered(c)
  <2>1. \A c \in Brackets, n \in 1 .. MaxAttempts :
          Maker(c, n) = o <=> c = b /\ n = r.attempts
    BY DEF Maker
  <2> QED
    BY <1>3, <1>5, <2>1 DEF Offered
<1>7. Contract!Clear(b)
  <2>1. faults = 0 => Offered(b) = {}
    BY <1>3 DEF OrdersHeld, Offered
  <2> QED
    BY <1>3, <2>1 DEF Contract!Clear
<1> HIDE DEF s, o
<1>8. \A c \in Brackets : Kept(chase[c], chase'[c])
  BY <1>1, <1>2, <1>3 DEF Kept
<1>9. /\ [c \in Brackets |-> Phase(chase[c])]' = [c \in Brackets |-> Phase(chase[c])]
      /\ [c \in Brackets |-> chase[c].attempts]' = [c \in Brackets |-> chase[c].attempts]
      /\ [c \in Brackets |-> chase[c].cancel]' = [c \in Brackets |-> chase[c].cancel]
      /\ [c \in Brackets |-> swept[c] > 0]' = [c \in Brackets |-> swept[c] > 0]
  BY <1>5, <1>8 DEF Kept
<1>10. [c \in Brackets |-> Offered(c)]'
         = [[c \in Brackets |-> Offered(c)] EXCEPT ![b] = @ \cup {r.attempts}]
  BY <1>6
<1>11. (faults > 0)' = TRUE \/ (faults > 0)' = (faults > 0)
  BY <1>3 DEF NoFault, Fault
<1>12. [c \in Brackets |-> Phase(chase[c])][b] = "working"
       /\ [c \in Brackets |-> chase[c].attempts][b] = r.attempts /\ r.attempts > 0
  BY <1>3
<1>13. Contract!Offer(b)
  BY <1>7, <1>9, <1>10, <1>11, <1>12, Zenon DEF Contract!Offer
<1> QED
  BY <1>2, <1>13 DEF Contract!Next

\* A market order of zero lots shows nothing, any other is the sweep.
LEMMA MarketIsSweep ==
  ASSUME TypeInv, ChaseMeant, NEW b \in Brackets, NEW word,
         Pending(b, MarketPoints), SellAtMarket(b, chase[b].num),
         NoFault \/ Fault, Reply(b, word, 0)
  PROVE  Contract!Next /\ ChaseMeant'
<1> DEFINE r == chase[b]
           s == Answered(r, word, 0)
           k == Lesser(r.num, holding)
<1>1. chase' = [chase EXCEPT ![b] = s]
  BY DEF Reply
<1>2. Kept(r, s) /\ ChaseMeant'
  BY <1>1, AnsweredKept
<1>3. /\ chase \in [Brackets -> Chase] /\ ExchangeTypeOK /\ faults \in Nat
      /\ swept \in [Brackets -> Nat] /\ Phase(r) = "selling" /\ k \in Nat
  <2>1. r.pc \in MarketPoints /\ r.num \in Nat
    BY DEF Pending, TypeInv, Sound
  <2> QED
    BY <2>1, PhaseFacts DEF TypeInv, TypeOK, ExchangeTypeOK, Lesser
<1>4. swept' = [swept EXCEPT ![b] = @ + k] /\ orders' = orders
  BY DEF SellAtMarket
<1>5. CASE k = 0
  <2>1. swept' = swept /\ Open' = Open
    BY <1>3, <1>4, <1>5 DEF Open
  <2> QED
    BY <1>1, <2>1, QuietIsFade
<1>6. CASE k # 0
  <2>1. \A c \in Brackets : Kept(chase[c], chase'[c])
    BY <1>1, <1>2, <1>3 DEF Kept
  <2>2. /\ [c \in Brackets |-> Phase(chase[c])]' = [c \in Brackets |-> Phase(chase[c])]
        /\ [c \in Brackets |-> chase[c].attempts]' = [c \in Brackets |-> chase[c].attempts]
        /\ [c \in Brackets |-> chase[c].cancel]' = [c \in Brackets |-> chase[c].cancel]
    BY <2>1 DEF Kept
  <2>3. [c \in Brackets |-> swept[c] > 0]'
          = [[c \in Brackets |-> swept[c] > 0] EXCEPT ![b] = TRUE]
    <3>1. \A c \in Brackets : (swept'[c] > 0) <=> (c = b \/ swept[c] > 0)
      BY <1>3, <1>4, <1>6
    <3> DEFINE sold == [c \in Brackets |-> swept[c] > 0]
    <3>2. (swept'[b] > 0) = TRUE
      BY <3>1
    <3>3. \A c \in Brackets \ {b} : (swept'[c] > 0) = sold[c]
      BY <1>3, <1>4
    <3>4. [sold EXCEPT ![b] = TRUE] = [c \in Brackets |-> IF c = b THEN TRUE ELSE sold[c]]
      OBVIOUS
    <3> HIDE DEF sold
    <3>5. \A c \in Brackets : (swept'[c] > 0) = (IF c = b THEN TRUE ELSE sold[c])
      BY <3>2, <3>3, Zenon
    <3>6. [c \in Brackets |-> swept'[c] > 0] = [sold EXCEPT ![b] = TRUE]
      BY <3>4, <3>5, Zenon
    <3> QED
      BY <3>6, Zenon DEF sold
  <2>4. [c \in Brackets |-> Offered(c)]' = [c \in Brackets |-> Offered(c)]
    BY <1>4 DEF Offered, Open
  <2>5. (faults > 0)' = TRUE \/ (faults > 0)' = (faults > 0)
    BY <1>3 DEF NoFault, Fault
  <2>6. [c \in Brackets |-> Phase(chase[c])][b] = "selling"
    BY <1>3
  <2>7. Contract!Sweep(b)
    BY <2>2, <2>3, <2>4, <2>5, <2>6, Zenon DEF Contract!Sweep
  <2> QED
    BY <1>2, <2>7 DEF Contract!Next
<1> QED
  BY <1>5, <1>6

LEMMA ServeIsMove ==
  ASSUME TypeInv, OrdersHeld, ChaseMeant, NEW b \in Brackets, Serve(b)
  PROVE  Contract!Next /\ ChaseMeant'
<1> DEFINE r == chase[b]
<1>0. ExchangeTypeOK
  BY DEF TypeInv, TypeOK
<1>1. ASSUME UNCHANGED <<orders, ledgerVars>>, NoFault \/ Fault, \E word, n : Reply(b, word, n)
      PROVE  Contract!Next /\ ChaseMeant'
  <2>1. Open' = Open /\ swept' = swept
    BY <1>1 DEF Open, ledgerVars
  <2>2. \E s : /\ chase' = [chase EXCEPT ![b] = s]
               /\ \E word, n : s = Answered(r, word, n)
    BY <1>1 DEF Reply
  <2> QED
    BY <1>1, <2>1, <2>2, QuietIsFade
<1>2. CASE ServeRead(b) \/ ServeFetch(b)
  BY <1>1, <1>2 DEF ServeRead, ServeFetch
<1>3. CASE ServeScan(b)
  <2>1. Open' = Open /\ swept' = swept /\ (NoFault \/ Fault)
    BY <1>3 DEF ServeScan, Open, ledgerVars
  <2>2. \E s : chase' = [chase EXCEPT ![b] = s] /\ \E found : s = Scanned(r, found)
    BY <1>3 DEF ServeScan
  <2> QED
    BY <2>1, <2>2, QuietIsFade
<1>4. ASSUME NEW S, CancelOrders(S), NoFault \/ Fault, \E word, n : Reply(b, word, n)
      PROVE  Contract!Next /\ ChaseMeant'
  <2>1. Open' \subseteq Open /\ swept' = swept
    BY <1>0, <1>4, FaultCount, CancelEffect DEF CancelOrders
  <2>2. \E s : /\ chase' = [chase EXCEPT ![b] = s]
               /\ \E word, n : s = Answered(r, word, n)
    BY <1>4 DEF Reply
  <2> QED
    BY <1>4, <2>1, <2>2, QuietIsFade
<1>5. CASE ServeCleanup(b)
  BY <1>4, <1>5 DEF ServeCleanup
<1>6. CASE ServePlace(b)
  <2>1. Pending(b, PlacePoints)
    BY <1>6 DEF ServePlace
  <2>2. \E word : /\ NoFault \/ Fault
                  /\ Reply(b, word, 0)
                  /\ Rest(Maker(b, r.attempts), r.remaining) \/ UNCHANGED <<orders, ledgerVars>>
    BY <1>6 DEF ServePlace
  <2> QED
    BY <1>1, <2>1, <2>2, PlaceIsOffer
<1>7. CASE ServeCancel(b)
  <2>1. UNCHANGED exchangeVars => UNCHANGED <<orders, ledgerVars>> /\ NoFault
    BY DEF exchangeVars, NoFault
  <2> QED
    BY <1>1, <1>4, <1>7, <2>1 DEF ServeCancel
<1>8. CASE ServeMarket(b)
  <2>1. Pending(b, MarketPoints)
    BY <1>8 DEF ServeMarket
  <2>2. \E word : /\ NoFault \/ Fault
                  /\ Reply(b, word, 0)
                  /\ SellAtMarket(b, r.num) \/ UNCHANGED <<orders, ledgerVars>>
    BY <1>8 DEF ServeMarket
  <2> QED
    BY <1>1, <2>1, <2>2, MarketIsSweep
<1> QED
  BY <1>2, <1>3, <1>5, <1>6, <1>7, <1>8 DEF Serve

\* A step that leaves every coroutine alone.
LEMMA StillIsFade ==
  ASSUME TypeInv, ChaseMeant, chase' = chase, Open' \subseteq Open, swept' = swept,
         faults' \in Nat, faults' = 0 => faults = 0
  PROVE  Contract!Next /\ ChaseMeant'
<1>1. faults \in Nat /\ \A c \in Brackets : Kept(chase[c], chase'[c])
  BY DEF TypeInv, TypeOK, ExchangeTypeOK, Kept
<1> QED
  BY <1>1, IsFadeStill DEF Contract!Next, ChaseMeant

LEMMA NextIsMove ==
  ASSUME ChaseMode = "dynamic_bbo"
  PROVE  TypeInv /\ OrdersHeld /\ ChaseMeant /\ [Next]_vars => Contract!Next /\ ChaseMeant'
<1> SUFFICES ASSUME TypeInv, OrdersHeld, ChaseMeant, [Next]_vars
             PROVE  Contract!Next /\ ChaseMeant'
  OBVIOUS
<1>0. ExchangeTypeOK /\ faults \in Nat
  BY DEF TypeInv, TypeOK, ExchangeTypeOK
<1>1. ASSUME NEW b \in Brackets, Invoke(b) \/ Coroutine(b) \/ Serve(b) \/ Stop(b)
      PROVE  Contract!Next /\ ChaseMeant'
  BY <1>1, InvokeIsMove, CoroutineIsMove, ServeIsMove, StopIsMove
<1>2. ASSUME NEW b \in Brackets, ServeStop(b) PROVE Contract!Next /\ ChaseMeant'
  <2>1. Open' \subseteq Open /\ faults' \in Nat /\ (faults' = 0 => faults = 0)
    BY <1>0, <1>2, FaultCount, CancelEffect, LedgerKept DEF ServeStop
  <2>2. chase' = chase /\ swept' = swept
    BY <1>2 DEF ServeStop, CancelOrders, ledgerVars
  <2> QED
    BY <2>1, <2>2, StillIsFade
<1>3. CASE MarketMoves
  <2>1. Open' \subseteq Open /\ faults' = faults /\ chase' = chase
    BY <1>0, <1>3, MarketEffect DEF MarketMoves, chaseVars
  <2>2. swept' = swept
    BY <1>3 DEF MarketMoves, Market, Fill, ReleaseLots, CloseOutside
  <2> QED
    BY <1>0, <2>1, <2>2, StillIsFade
<1>4. CASE UNCHANGED vars
  <2>1. Open' = Open /\ faults' = faults /\ chase' = chase /\ swept' = swept
    BY <1>4 DEF vars, exchangeVars, ledgerVars, chaseVars, Open
  <2> QED
    BY <1>0, <2>1, StillIsFade
<1> QED
  BY <1>1, <1>2, <1>3, <1>4 DEF Next, AllReturned

LEMMA InitIsInit == Init => Contract!Init /\ ChaseMeant
<1> SUFFICES ASSUME Init PROVE Contract!Init /\ ChaseMeant
  OBVIOUS
<1>1. \A b \in Brackets : chase[b] = NotStarted /\ swept[b] = 0
  BY DEF Init
<1>2. faults = 0 /\ Phase(NotStarted) = "waiting"
  BY DEF Init, NotStarted, Phase, MarketPoints
<1>3. \A b \in Brackets : Offered(b) = {}
  BY InitHeld, HeldWithoutFaults, <1>1, <1>2 DEF OrdersHeld, Offered, Holds, NotStarted, PlacePoints, CancelPoints
<1>4. NotStarted.attempts = 0 /\ NotStarted.cancel = FALSE
  BY DEF NotStarted
<1>5. ChaseMeant
  BY <1>1 DEF ChaseMeant, Meant, NotStarted
<1>6. /\ [b \in Brackets |-> Phase(chase[b])] = [b \in Brackets |-> "waiting"]
      /\ [b \in Brackets |-> chase[b].attempts] = [b \in Brackets |-> 0]
      /\ [b \in Brackets |-> chase[b].cancel] = [b \in Brackets |-> FALSE]
      /\ [b \in Brackets |-> Offered(b)] = [b \in Brackets |-> {}]
  BY <1>1, <1>2, <1>3, <1>4
<1>7. [b \in Brackets |-> swept[b] > 0] = [b \in Brackets |-> FALSE] /\ (faults > 0) = FALSE
  <2>1. \A b \in Brackets : (swept[b] > 0) = FALSE
    BY <1>1
  <2>2. [b \in Brackets |-> swept[b] > 0] = [b \in Brackets |-> FALSE]
    BY <2>1
  <2>3. (faults > 0) = FALSE
    BY <1>2
  <2> QED
    BY <2>2, <2>3
<1> QED
  BY <1>5, <1>6, <1>7, Zenon DEF Contract!Init

\* In dynamic_bbo mode, for any brackets, amounts, attempts and faults: what the
\* chases do is what ExitContract allows (l. 638-1134): the market only when the
\* attempts left no maker order behind, no attempt after a stop, no way back.
THEOREM ChaseKeepsContract ==
  ASSUME ChaseMode = "dynamic_bbo"
  PROVE  Spec => KeepsContract
<1>1. Init => Contract!Init /\ ChaseMeant
  BY InitIsInit
<1>2. Spec => []OrdersHeld
  BY HeldAlways, PTL
<1>3. TypeInv /\ OrdersHeld /\ ChaseMeant /\ [Next]_vars => Contract!Next /\ ChaseMeant'
  BY NextIsMove
<1> QED
  BY <1>1, <1>2, <1>3, TypeInvAlways, PTL DEF Spec, KeepsContract, Contract!Spec

(***************************************************************************)
(* What holds in either mode, whatever order a chase leaves resting: a     *)
(* coroutine that was told to stop begins no attempt, only one that is     *)
(* selling sells at market, and from there it can only go on or be over.   *)
(***************************************************************************)
Heeds(b) ==
  /\ chase[b].cancel => chase'[b].attempts = chase[b].attempts
  /\ swept'[b] # swept[b] => Phase(chase[b]) = "selling"
  /\ Phase(chase[b]) = "selling" => Phase(chase'[b]) \in {"selling", "over"}
  /\ Phase(chase[b]) = "over" => Phase(chase'[b]) = "over"

LEMMA StirsHeeds ==
  ASSUME TypeInv, NEW b \in Brackets, Stirs(b), NEW c \in Brackets
  PROVE  Heeds(c)
<1>1. PICK s : /\ chase' = [chase EXCEPT ![b] = s] /\ UNCHANGED exchangeVars
               /\ Moves(chase[b], s)
  BY DEF Stirs
<1>2. swept' = swept /\ chase \in [Brackets -> Chase]
  BY <1>1 DEF exchangeVars, ledgerVars, TypeInv, TypeOK
<1>3. CASE c # b
  BY <1>1, <1>2, <1>3 DEF Heeds
<1>4. CASE c = b
  <2>1. chase'[c] = s
    BY <1>1, <1>2, <1>4
  <2> QED
    BY <1>1, <1>2, <1>4, <2>1 DEF Heeds, Moves, Kept, Begins, Turns, Ends
<1> QED
  BY <1>3, <1>4

LEMMA KeptHeeds ==
  ASSUME \A c \in Brackets : Kept(chase[c], chase'[c]),
         \A c \in Brackets : swept'[c] # swept[c] => Phase(chase[c]) = "selling"
  PROVE  \A c \in Brackets : Heeds(c)
BY DEF Heeds, Kept

LEMMA InvokeHeeds ==
  ASSUME TypeInv, ChaseMeant, NEW b \in Brackets, Invoke(b), NEW c \in Brackets
  PROVE  Heeds(c)
<1> DEFINE t == [chase[b] EXCEPT !.linked = Linked(sl[b]), !.remaining = Amount]
           k == Cleanup(t, b, "start")
<1>1. chase \in [Brackets -> Chase] /\ Linked(sl[b]) \in SUBSET OrderIds /\ Amount \in Nat /\ TypeOK
  BY LinkedType, ExchangeAssumption DEF TypeInv, TypeOK
<1>2. t \in Chase
  BY <1>1, ZenonT(30) DEF Chase
<1>3. t.attempts = chase[b].attempts
  BY <1>1, ZenonT(30) DEF Chase
<1>4. k.attempts = t.attempts
  BY <1>1, <1>2, CleanupFields
<1>5. Phase(chase[b]) = "waiting"
  BY PhaseFacts DEF Invoke
<1>6. chase' = [chase EXCEPT ![b] = k] /\ swept' = swept
  BY DEF Invoke, exchangeVars, ledgerVars
<1> HIDE DEF t, k
<1>7. chase'[b] = k /\ \A d \in Brackets \ {b} : chase'[d] = chase[d]
  BY <1>1, <1>6
<1> QED
  BY <1>3, <1>4, <1>5, <1>6, <1>7 DEF Heeds

LEMMA ServeHeeds ==
  ASSUME TypeInv, ChaseMeant, NEW b \in Brackets, Serve(b)
  PROVE  ChaseMeant' /\ \A c \in Brackets : Heeds(c)
<1> DEFINE r == chase[b]
<1>1. \E s : /\ chase' = [chase EXCEPT ![b] = s]
             /\ \/ \E word, n : s = Answered(r, word, n)
                \/ \E found : s = Scanned(r, found)
  <2>1. CASE ServeScan(b)
    BY <2>1 DEF ServeScan
  <2>2. CASE ~ServeScan(b)
    <3>1. \E word, n : Reply(b, word, n)
      BY <2>2 DEF Serve, ServeRead, ServeCleanup, ServePlace, ServeCancel, ServeFetch, ServeMarket
    <3> QED
      BY <3>1 DEF Reply
  <2> QED
    BY <2>1, <2>2
<1>2. PICK s : /\ chase' = [chase EXCEPT ![b] = s]
               /\ \/ \E word, n : s = Answered(r, word, n)
                  \/ \E found : s = Scanned(r, found)
  BY <1>1
<1>3. Kept(r, s) /\ ChaseMeant'
  BY <1>2, AnsweredKept
<1>4. \A c \in Brackets : Kept(chase[c], chase'[c])
  BY <1>2, <1>3 DEF TypeInv, TypeOK, Kept
<1>5. \A c \in Brackets : swept'[c] # swept[c] => Phase(chase[c]) = "selling"
  <2>1. CASE ServeMarket(b)
    <3>1. Phase(r) = "selling"
      BY <2>1, PhaseFacts DEF ServeMarket, Pending
    <3>2. \/ SellAtMarket(b, r.num) \/ UNCHANGED <<orders, ledgerVars>>
      BY <2>1 DEF ServeMarket
    <3>3. \A c \in Brackets \ {b} : swept'[c] = swept[c]
      BY <3>2 DEF SellAtMarket, ledgerVars, TypeInv, TypeOK, ExchangeTypeOK
    <3> QED
      BY <3>1, <3>3
  <2>2. CASE ~ServeMarket(b)
    <3>1. swept' = swept
      BY <2>2 DEF Serve, ServeRead, ServeScan, ServeCleanup, ServePlace, ServeCancel, ServeFetch,
         CancelOrders, Rest, ledgerVars, exchangeVars
    <3> QED
      BY <3>1
  <2> QED
    BY <2>1, <2>2
<1> QED
  BY <1>3, <1>4, <1>5, KeptHeeds

LEMMA NextHeeds ==
  TypeInv /\ ChaseMeant /\ [Next]_vars => ChaseMeant' /\ \A c \in Brackets : Heeds(c)
<1> SUFFICES ASSUME TypeInv, ChaseMeant, [Next]_vars
             PROVE  ChaseMeant' /\ \A c \in Brackets : Heeds(c)
  OBVIOUS
<1>1. ASSUME NEW b \in Brackets, Invoke(b) \/ Coroutine(b) \/ Serve(b)
      PROVE  ChaseMeant' /\ \A c \in Brackets : Heeds(c)
  BY <1>1, InvokeIsMove, InvokeHeeds, CoroutineStirs, StirsMeant, StirsHeeds, ServeHeeds
<1>2. ASSUME NEW b \in Brackets, Stop(b) PROVE ChaseMeant' /\ \A c \in Brackets : Heeds(c)
  <2> DEFINE s == [chase[b] EXCEPT !.cancel = TRUE]
  <2>1. chase \in [Brackets -> Chase] /\ chase' = [chase EXCEPT ![b] = s] /\ swept' = swept
    BY <1>2 DEF Stop, TypeInv, TypeOK, exchangeVars, ledgerVars
  <2>2. s.pc = chase[b].pc /\ s.attempts = chase[b].attempts /\ s.final = chase[b].final
    BY <2>1, Zenon DEF Chase
  <2> HIDE DEF s
  <2>3. Phase(s) = Phase(chase[b])
    BY <2>2 DEF Phase
  <2>4. chase'[b] = s /\ \A c \in Brackets \ {b} : chase'[c] = chase[c]
    BY <2>1
  <2>5. \A c \in Brackets : Heeds(c)
    BY <2>1, <2>2, <2>3, <2>4 DEF Heeds
  <2> QED
    BY <1>2, <2>5, StopIsMove
<1>3. ASSUME chase' = chase, swept' = swept
      PROVE  ChaseMeant' /\ \A c \in Brackets : Heeds(c)
  BY <1>3 DEF ChaseMeant, Heeds
<1>4. ASSUME NEW b \in Brackets, ServeStop(b) PROVE chase' = chase /\ swept' = swept
  BY <1>4 DEF ServeStop, CancelOrders, ledgerVars
<1>5. CASE MarketMoves
  BY <1>3, <1>5 DEF MarketMoves, Market, Fill, ReleaseLots, CloseOutside, chaseVars
<1>6. CASE UNCHANGED vars
  BY <1>3, <1>6 DEF vars, exchangeVars, ledgerVars, chaseVars
<1> QED
  BY <1>1, <1>2, <1>3, <1>4, <1>5, <1>6 DEF Next, AllReturned

LEMMA MeantAlways == Spec => []ChaseMeant
<1>1. Init => ChaseMeant
  BY DEF Init, ChaseMeant, Meant, NotStarted
<1> QED
  BY <1>1, NextHeeds, TypeInvAlways, PTL DEF Spec

\* Whoever sold at market is selling or over, never cancelled.
SoldIsOver ==
  \A b \in Brackets : swept[b] > 0 => Phase(chase[b]) \in {"selling", "over"}

\* "Cancelled by user. Skipping final fallback market sweep." (l. 1107), for any
\* brackets, amounts and faults and in both modes: a chase that reports itself
\* cancelled has never sold at market.
THEOREM CancelledIsUnswept == Spec => []CancelledNeverSwept
<1>1. Init => SoldIsOver
  <2>1. Init => \A b \in Brackets : swept[b] = 0
    BY DEF Init
  <2> QED
    BY <2>1 DEF SoldIsOver
<1>2. TypeInv /\ ChaseMeant /\ SoldIsOver /\ [Next]_vars => SoldIsOver'
  BY NextHeeds DEF Heeds, SoldIsOver
<1>3. SoldIsOver /\ ChaseMeant /\ TypeInv => CancelledNeverSwept
  <2> SUFFICES ASSUME SoldIsOver, ChaseMeant, TypeInv, NEW b \in Brackets,
                      chase[b].final = "cancelled"
               PROVE  swept[b] = 0
    BY DEF CancelledNeverSwept
  <2>1. chase[b].pc = "done"
    BY DEF ChaseMeant, Meant
  <2>2. Phase(chase[b]) = "cancelled"
    BY <2>1, PhaseFacts
  <2>3. swept[b] \in Nat
    BY DEF TypeInv, TypeOK, ExchangeTypeOK
  <2> QED
    BY <2>2, <2>3 DEF SoldIsOver
<1> QED
  BY <1>1, <1>2, <1>3, MeantAlways, TypeInvAlways, PTL DEF Spec

\* For any brackets, attempts and faults and in both modes: once stop_smart_chase has
\* set the event (l. 281-305), no further attempt begins, whichever await the stop met.
THEOREM StopIsHeeded == Spec => StopEndsAttempts
<1>1. TypeInv /\ ChaseMeant /\ [Next]_vars
        => [\A b \in Brackets : chase[b].cancel => chase'[b].attempts = chase[b].attempts]_vars
  BY NextHeeds DEF Heeds
<1> QED
  BY <1>1, MeantAlways, TypeInvAlways, PTL DEF Spec, StopEndsAttempts
=============================================================================
