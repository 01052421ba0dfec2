-------------------------- MODULE ChaseTally_proofs --------------------------
(***************************************************************************)
(* TLAPS proofs about what a chase of module SmartChase sells: in          *)
(* dynamic_bbo mode, for every set of brackets and every amount, while no  *)
(* remote call has raised: never more than its amount, and, when nothing   *)
(* stops it, all of it but dust or what the position no longer held.       *)
(***************************************************************************)
EXTENDS SmartChase_proofs, FiniteSums

(***************************************************************************)
(* The lots.  What a chase still means to sell, what its orders have sold  *)
(* and what it has swept change at different awaits: a fill of the resting *)
(* order is taken off `remaining` two or three awaits later, or never when *)
(* the chase ends first.  The invariant keeps the books: at every await,   *)
(* the lots left to sell and the lots sold add up to at most the amount,   *)
(* where the fill not yet counted stands on one side only; and on futures  *)
(* to no less, unless the position itself is down to what is left.         *)
(***************************************************************************)
Fills(b) == [n \in 1 .. MaxAttempts |-> orders[Maker(b, n)].filled]
Made(b) == SumFunction(Fills(b))
Spent(b) == IF Futures THEN swept[b] + Made(b) ELSE Made(b)

\* The awaits at which the fill of the current order is not counted yet.
Carries(r) == r.pc \in HoldPoints \/ (r.pc \in PlacePoints /\ r.reply = "ok")
SoldOut(r) == r.pc \in MarketPoints /\ r.reply = "ok"

\* s lots are sold, `left` are to be sold, the position holds h.
Covers(left, s, h) ==
  /\ left + s <= Amount
  /\ Futures => left + s >= Amount \/ h <= left

Leaves(r, s, h) ==
  /\ s <= Amount
  /\ Futures /\ ~r.cancel /\ r.final # "aborted" => s + MinQty > Amount \/ h < MinQty

\* Locals r whose current order is o; the parts after the first five say what the
\* reply in hand is worth.
Squares(r, o, s, h) ==
  /\ r.pc = "idle" => r.attempts = 0 /\ s = 0
  /\ Carries(r) => o.qty = r.remaining /\ Covers(r.remaining - o.filled, s, h)
  /\ ~Carries(r) /\ ~SoldOut(r) /\ r.pc \notin {"idle", "done"} => Covers(r.remaining, s, h)
  /\ SoldOut(r) => Covers(0, s, h)
  /\ r.pc = "done" => Leaves(r, s, h)
  /\ Futures =>
       /\ r.pc \notin {"breakerBalance", "finalBalance"}
       /\ r.pc \in MarketPoints /\ r.reply = "pending" => r.num = r.remaining
       /\ r.pc \in MarketPoints /\ r.reply \notin {"pending", "ok"} => h = 0
       /\ r.pc \in ReadPoints /\ r.reply # "pending" => r.num >= h
  /\ r.pc = "userCancel" => r.cancel
  /\ r.pc \in FetchPoints /\ r.reply # "pending" =>
       r.reply # "error" /\ (r.reply = "closed" => o.status = "closed")
  /\ r.pc = "refill" /\ r.reply # "pending" => r.num = o.filled
  /\ r.pc = "repeg" /\ r.reply # "pending" /\ r.num > 0 => r.num = o.filled

\* No order of an attempt to come has sold anything.
Unplaced(r) == r.pc \in AttemptPoints /\ ~Carries(r)

Unused(b) ==
  \A n \in 1 .. MaxAttempts :
     (n > chase[b].attempts \/ (n = chase[b].attempts /\ Unplaced(chase[b])))
        => orders[Maker(b, n)].filled = 0

OrdersAddUp ==
  \A o \in OrderIds : /\ orders[o].filled <= orders[o].qty
                      /\ orders[o].status = "closed" => orders[o].filled = orders[o].qty

Current(b) == orders[Maker(b, chase[b].attempts)]

Tally ==
  /\ OrdersAddUp
  /\ faults = 0 => \A b \in Brackets : /\ Unused(b)
                                       /\ Squares(chase[b], Current(b), Spent(b), holding)

-----------------------------------------------------------------------------
(* The sums.                                                               *)

LEMMA MakerIds == \A b \in Brackets, n \in 1 .. MaxAttempts : Maker(b, n) \in OrderIds
BY DEF Maker, OrderIds

LEMMA FillsType ==
  ASSUME TypeInv, NEW b \in Brackets
  PROVE  Fills(b) \in [1 .. MaxAttempts -> Nat] /\ IsFiniteSet(1 .. MaxAttempts)
<1>1. \A n \in 1 .. MaxAttempts : orders[Maker(b, n)].filled \in Nat
  BY MakerIds DEF TypeInv, TypeOK, ExchangeTypeOK, Order
<1>2. IsFiniteSet(1 .. MaxAttempts)
  BY FS_Interval, ExchangeAssumption
<1> QED
  BY <1>1, <1>2 DEF Fills

LEMMA MadeIsSum ==
  ASSUME NEW b \in Brackets
  PROVE  Made(b) = SumFunctionOnSet(Fills(b), 1 .. MaxAttempts)
BY DEF Made, SumFunction, Fills

LEMMA SpentNat ==
  ASSUME TypeInv, NEW b \in Brackets
  PROVE  Made(b) \in Nat /\ Spent(b) \in Nat
<1>1. Made(b) \in Nat
  BY FillsType, MadeIsSum, SumNat
<1>2. swept[b] \in Nat
  BY DEF TypeInv, TypeOK, ExchangeTypeOK
<1> QED
  BY <1>1, <1>2 DEF Spent

LEMMA MadeSame ==
  ASSUME NEW b \in Brackets,
         \A n \in 1 .. MaxAttempts : orders'[Maker(b, n)].filled = orders[Maker(b, n)].filled
  PROVE  Made(b)' = Made(b)
<1>1. Fills(b)' = Fills(b)
  BY DEF Fills, Maker
<1> QED
  BY <1>1 DEF Made

LEMMA MadeMore ==
  ASSUME TypeInv, TypeInv', NEW b \in Brackets, NEW n \in 1 .. MaxAttempts, NEW k \in Nat,
         orders'[Maker(b, n)].filled = orders[Maker(b, n)].filled + k,
         \A m \in 1 .. MaxAttempts :
            m # n => orders'[Maker(b, m)].filled = orders[Maker(b, m)].filled
  PROVE  Made(b)' = Made(b) + k
<1> DEFINE f == Fills(b)
           g == [m \in 1 .. MaxAttempts |-> orders'[Maker(b, m)].filled]
           S == 1 .. MaxAttempts
<1>1. f \in [S -> Nat] /\ IsFiniteSet(S)
  BY FillsType
<1>2. \A m \in S : orders'[Maker(b, m)].filled \in Nat
  BY MakerIds DEF TypeInv, TypeOK, ExchangeTypeOK, Order
<1>3. g \in [S -> Nat]
  BY <1>2
<1>4. g[n] = f[n] + k /\ \A m \in S \ {n} : g[m] = f[m]
  BY DEF Fills
<1>5. Fills(b)' = g
  BY DEF Fills, Maker
<1>6. Made(b) = SumFunctionOnSet(f, S) /\ Made(b)' = SumFunctionOnSet(g, S)
  <2>1. Made(b)' = SumFunctionOnSet(g, S)
    BY <1>5 DEF Made, SumFunction
  <2> QED
    BY <2>1, MadeIsSum
<1> HIDE DEF f, g, S
<1>7. f \in [S -> Int] /\ g \in [S -> Int] /\ n \in S
  BY <1>1, <1>3 DEF S
<1>8. SumFunctionOnSet(g, S) = SumFunctionOnSet(f, S) + g[n] - f[n]
  <2>1. ChangedAt(f, g, S, n)
    BY <1>1, <1>4, <1>7 DEF ChangedAt
  <2> QED
    BY <2>1, SumChange
<1>9. SumFunctionOnSet(f, S) \in Nat /\ f[n] \in Nat
  BY <1>1, <1>7, SumNat
<1> QED
  BY <1>4, <1>6, <1>8, <1>9

LEMMA SoldIsSpent ==
  ASSUME TypeInv, NEW b \in Brackets
  PROVE  /\ Futures => Sold(b) = Spent(b)
         /\ ~Futures => Sold(b) - swept[b] = Spent(b)
<1>1. Sold(b) = swept[b] + Made(b)
  BY DEF Sold, Made, Fills
<1>2. swept[b] \in Nat /\ Made(b) \in Nat
  BY SpentNat DEF TypeInv, TypeOK, ExchangeTypeOK
<1> QED
  BY <1>1, <1>2 DEF Spent

-----------------------------------------------------------------------------
(* The fragments of the coroutine.  Books(r, x, s, h): the locals r may be *)
(* followed by the locals x, whose current order, if any, carries nothing. *)

Books(r, x, s, h) ==
  /\ x.attempts >= r.attempts
  /\ Unplaced(x) /\ x.attempts = r.attempts => Unplaced(r)
  /\ \A o : Squares(x, o, s, h)

\* Locals t a step of r goes on with, its lots counted.
Counted(r, t, s, h) ==
  /\ t \in Chase /\ t.attempts = r.attempts /\ t.cancel = r.cancel
  /\ Covers(t.remaining, s, h)

CountPoints ==
  (ReadPoints \ (IF Futures THEN {"breakerBalance", "finalBalance"} ELSE {}))
     \cup PlacePoints \cup {"scan", "cleanup", "book"}

LEMMA AwaitRest ==
  ASSUME NEW r \in Chase, NEW p
  PROVE  /\ Await(r, p).remaining = r.remaining /\ Await(r, p).cancel = r.cancel
         /\ Await(r, p).final = r.final
BY Zenon DEF Await, Chase

LEMMA CountFacts ==
  /\ CountPoints \subseteq Points
  /\ \A p \in CountPoints : p \notin HoldPoints \cup MarketPoints \cup {"idle", "done"}
  /\ Futures => "breakerBalance" \notin CountPoints /\ "finalBalance" \notin CountPoints
  /\ "idle" \notin HoldPoints \cup PlacePoints \cup MarketPoints
  /\ "done" \notin HoldPoints \cup PlacePoints \cup MarketPoints \cup AttemptPoints
  /\ "userCancel" \in HoldPoints /\ "repeg" \in HoldPoints /\ FetchPoints \subseteq HoldPoints
  /\ "refill" \in HoldPoints
  /\ ReadPoints \cap (HoldPoints \cup PlacePoints \cup MarketPoints \cup {"idle", "done"}) = {}
  /\ MarketPoints \cap (HoldPoints \cup PlacePoints \cup AttemptPoints \cup {"idle", "done"}) = {}
  /\ HoldPoints \cap (PlacePoints \cup AttemptPoints) = {}
BY DEF CountPoints, Points, CallPoints, ReadPoints, PlacePoints, HoldPoints, MarketPoints,
       AttemptPoints, CancelPoints, FetchPoints

LEMMA AwaitBooks ==
  ASSUME NEW r, NEW t, NEW s \in Nat, NEW h \in Nat, Counted(r, t, s, h), NEW p \in CountPoints,
         p \in AttemptPoints => Unplaced(r)
  PROVE  Books(r, Await(t, p), s, h)
<1> DEFINE x == Await(t, p)
<1>1. t \in Chase /\ p \in Points
  BY CountFacts DEF Counted
<1>2. /\ x.pc = p /\ x.reply = "pending" /\ x.attempts = t.attempts /\ x.remaining = t.remaining
  BY <1>1, AwaitFields, AwaitRest
<1> HIDE DEF x
<1>3. ~Carries(x) /\ ~SoldOut(x)
  BY <1>2, CountFacts DEF Carries, SoldOut
<1>4. \A o : Squares(x, o, s, h)
  BY <1>2, <1>3, CountFacts DEF Squares, Counted
<1>5. x.attempts \in Int
  BY <1>1, <1>2 DEF Chase
<1>6. x.attempts >= r.attempts /\ (Unplaced(x) => Unplaced(r))
  BY <1>2, <1>5 DEF Counted, Unplaced
<1>7. Books(r, x, s, h)
  BY <1>4, <1>6 DEF Books
<1> QED
  BY <1>7 DEF x

LEMMA ReturnBooks ==
  ASSUME NEW r, NEW t \in Chase, t.attempts = r.attempts, NEW outcome \in Outcomes,
         NEW s \in Nat, NEW h \in Nat, s <= Amount,
         Futures /\ ~t.cancel /\ outcome # "aborted" => s + MinQty > Amount \/ h < MinQty
  PROVE  Books(r, Return(t, outcome), s, h)
<1> DEFINE x == Return(t, outcome)
<1>1. NotStarted \in Chase
  BY NotStartedType
<1>2. x.pc = "done" /\ x.attempts = t.attempts /\ x.cancel = t.cancel /\ x.final = outcome
  BY <1>1, Zenon DEF Return, Chase
<1> HIDE DEF x
<1>3. ~Carries(x) /\ ~SoldOut(x) /\ ~Unplaced(x)
  BY <1>2, CountFacts DEF Carries, SoldOut, Unplaced
<1>4. Leaves(x, s, h)
  BY <1>2 DEF Leaves
<1>5. \A o : Squares(x, o, s, h)
  BY <1>2, <1>3, <1>4, CountFacts DEF Squares, ReadPoints, FetchPoints
<1>6. x.attempts \in Int
  BY <1>2 DEF Chase
<1>7. Books(r, x, s, h)
  BY <1>2, <1>3, <1>5, <1>6 DEF Books
<1> QED
  BY <1>7 DEF x

\* A chase whose books are even may return when less than the minimum is left.
LEMMA DustBooks ==
  ASSUME NEW r, NEW t, NEW s \in Nat, NEW h \in Nat, Counted(r, t, s, h),
         NEW outcome \in Outcomes, Futures => t.remaining < MinQty
  PROVE  Books(r, Return(t, outcome), s, h)
<1>1. t \in Chase /\ t.attempts = r.attempts /\ t.remaining \in Nat
  BY DEF Counted, Chase
<1>2. MinQty \in Nat /\ Amount \in Nat
  BY ExchangeAssumption
<1>3. s <= Amount /\ (Futures => s + MinQty > Amount \/ h < MinQty)
  BY <1>1, <1>2 DEF Counted, Covers
<1> QED
  BY <1>1, <1>3, ReturnBooks

LEMMA CancelledBooks ==
  ASSUME NEW r, NEW t, NEW s \in Nat, NEW h \in Nat, Counted(r, t, s, h),
         NEW outcome \in Outcomes, t.cancel \/ outcome = "aborted"
  PROVE  Books(r, Return(t, outcome), s, h)
<1>1. t \in Chase /\ t.attempts = r.attempts /\ t.remaining \in Nat
  BY DEF Counted, Chase
<1>2. s <= Amount
  BY <1>1, ExchangeAssumption DEF Counted, Covers
<1> QED
  BY <1>1, <1>2, ReturnBooks

LEMMA MarketBooks ==
  ASSUME NEW r, NEW t, NEW s \in Nat, NEW h \in Nat, Counted(r, t, s, h),
         NEW p \in MarketPoints, NEW q \in Int, Futures => q = t.remaining
  PROVE  Books(r, [Await(t, p) EXCEPT !.num = q], s, h)
<1> DEFINE a == Await(t, p)
           x == [a EXCEPT !.num = q]
<1>1. t \in Chase /\ p \in Points
  BY PointsFacts DEF Counted
<1>2. /\ a \in Chase /\ a.pc = p /\ a.reply = "pending" /\ a.attempts = t.attempts
      /\ a.remaining = t.remaining
  BY <1>1, AwaitFields, AwaitRest
<1>3. /\ x.pc = p /\ x.reply = "pending" /\ x.attempts = t.attempts
      /\ x.remaining = t.remaining /\ x.num = q
  BY <1>2 DEF Chase
<1> HIDE DEF a, x
<1>4. ~Carries(x) /\ ~SoldOut(x) /\ ~Unplaced(x)
  BY <1>3, CountFacts DEF Carries, SoldOut, Unplaced
<1>5. \A o : Squares(x, o, s, h)
  <2>1. p \notin {"breakerBalance", "finalBalance", "userCancel", "refill", "repeg"} \cup FetchPoints
        /\ p \notin ReadPoints
    BY DEF MarketPoints, FetchPoints, ReadPoints
  <2> QED
    BY <1>3, <1>4, <2>1, CountFacts DEF Squares, Counted
<1>6. x.attempts \in Int
  BY <1>1, <1>3 DEF Chase
<1>7. Books(r, x, s, h)
  BY <1>3, <1>4, <1>5, <1>6 DEF Books, Counted
<1> QED
  BY <1>7 DEF x, a

LEMMA FinalSweepBooks ==
  ASSUME NEW r, NEW t, NEW s \in Nat, NEW h \in Nat, Counted(r, t, s, h)
  PROVE  Books(r, FinalSweep(t), s, h)
<1>1. t.remaining \in Int /\ "None" \in Outcomes /\ "final" \in MarketPoints
  BY DEF Counted, Chase, Outcomes, MarketPoints
<1>2. CASE t.remaining = 0
  <2>1. t.remaining < MinQty
    BY <1>2, ExchangeAssumption
  <2> QED
    BY <1>1, <1>2, <2>1, DustBooks DEF FinalSweep
<1>3. CASE t.remaining # 0 /\ Futures
  BY <1>1, <1>3, MarketBooks DEF FinalSweep
<1>4. CASE t.remaining # 0 /\ ~Futures
  <2>1. "finalBalance" \in CountPoints /\ "finalBalance" \notin AttemptPoints
    BY <1>4 DEF CountPoints, ReadPoints, AttemptPoints, PlacePoints
  <2> QED
    BY <1>4, <2>1, AwaitBooks DEF FinalSweep
<1> QED
  BY <1>2, <1>3, <1>4

LEMMA LoopTopBooks ==
  ASSUME NEW r, NEW t, NEW s \in Nat, NEW h \in Nat, Counted(r, t, s, h)
  PROVE  Books(r, LoopTop(t), s, h)
<1> DEFINE top == [t EXCEPT !.current = NoOrder]
           a == Await(top, "book")
           n == [a EXCEPT !.attempts = top.attempts + 1]
<1>1. t \in Chase /\ "book" \in Points
  BY PointsFacts DEF Counted
<1>2. /\ top \in Chase /\ top.attempts = t.attempts /\ top.remaining = t.remaining
      /\ top.cancel = t.cancel
  BY <1>1 DEF Chase
<1>3. Counted(r, top, s, h)
  BY <1>2 DEF Counted
<1>4. /\ a \in Chase /\ a.attempts = top.attempts /\ a.pc = "book" /\ a.reply = "pending"
      /\ a.remaining = top.remaining
  BY <1>1, <1>2, AwaitFields, AwaitRest
<1>5. /\ n.pc = "book" /\ n.reply = "pending" /\ n.remaining = t.remaining
      /\ n.attempts = t.attempts + 1
  BY <1>2, <1>4 DEF Chase
<1> HIDE DEF top
<1>6. LoopTop(t) = IF t.cancel THEN Return(top, "cancelled")
                   ELSE IF t.attempts >= MaxAttempts THEN FinalSweep(top) ELSE n
  BY <1>4 DEF LoopTop, top
<1> HIDE DEF a, n
<1>7. Books(r, n, s, h)
  <2>1. ~Carries(n) /\ ~SoldOut(n)
    BY <1>5, CountFacts DEF Carries, SoldOut, HoldPoints, CancelPoints, FetchPoints, PlacePoints,
       MarketPoints
  <2>2. \A o : Squares(n, o, s, h)
    BY <1>5, <2>1 DEF Squares, Counted, MarketPoints, ReadPoints, FetchPoints
  <2>3. t.attempts \in Int /\ r.attempts = t.attempts
    BY <1>1 DEF Chase, Counted
  <2> QED
    BY <1>5, <2>2, <2>3 DEF Books
<1>8. t.cancel => Books(r, Return(top, "cancelled"), s, h)
  BY <1>2, <1>3, CancelledBooks DEF Outcomes
<1> QED
  BY <1>3, <1>6, <1>7, <1>8, FinalSweepBooks

LEMMA PauseBooks ==
  ASSUME NEW r, NEW t, NEW s \in Nat, NEW h \in Nat, Counted(r, t, s, h)
  PROVE  Books(r, Pause(t), s, h) /\ Books(r, NotPlaced(t), s, h)
<1> DEFINE x == Pause(t)
<1>1. t \in Chase /\ "position" \in CountPoints /\ "position" \notin AttemptPoints
  BY DEF Counted, CountPoints, ReadPoints, AttemptPoints, PlacePoints
<1>2. x.pc = "pause" /\ x.attempts = t.attempts /\ x.remaining = t.remaining
  BY <1>1, Zenon DEF Pause, Chase
<1> HIDE DEF x
<1>3. ~Carries(x) /\ ~SoldOut(x) /\ ~Unplaced(x)
  BY <1>2 DEF Carries, SoldOut, Unplaced, HoldPoints, CancelPoints, FetchPoints, PlacePoints,
     MarketPoints, AttemptPoints
<1>4. \A o : Squares(x, o, s, h)
  BY <1>2, <1>3 DEF Squares, Counted, MarketPoints, ReadPoints, FetchPoints
<1>5. t.attempts \in Int /\ r.attempts = t.attempts
  BY <1>1 DEF Chase, Counted
<1>6. Books(r, x, s, h)
  BY <1>2, <1>3, <1>4, <1>5 DEF Books
<1> QED
  BY <1>1, <1>6, AwaitBooks DEF NotPlaced, x

LEMMA CleanupBooks ==
  ASSUME NEW r, NEW t, NEW s \in Nat, NEW h \in Nat, Counted(r, t, s, h), NEW b, NEW reason
         \in {"start", "reduceonly", "insufficient"}, TypeOK, b \in Brackets
  PROVE  Books(r, Cleanup(t, b, reason), s, h)
<1> DEFINE u == [t EXCEPT !.why = reason, !.targets = t.linked]
           a == Await(u, "scan")
           x == [a EXCEPT !.protected = ProtectedFrom(b)]
<1>1. t \in Chase
  BY DEF Counted
<1>2. t.linked \in SUBSET OrderIds
  BY <1>1 DEF Chase
<1>3. u \in Chase
  BY <1>1, <1>2, Zenon DEF Chase
<1>4. u.attempts = t.attempts /\ u.cancel = t.cancel /\ u.remaining = t.remaining
  BY <1>1, Zenon DEF Chase
<1>5. Counted(r, u, s, h)
  BY <1>3, <1>4 DEF Counted
<1>6. {"scan", "cleanup"} \subseteq CountPoints \ AttemptPoints
  BY DEF CountPoints, AttemptPoints, PlacePoints
<1>7. Books(r, a, s, h) /\ Books(r, Await(u, "cleanup"), s, h)
  BY <1>5, <1>6, AwaitBooks
<1>8. a \in Chase
  BY <1>3, AwaitFields, PointsFacts
<1>9. /\ x.pc = a.pc /\ x.reply = a.reply /\ x.attempts = a.attempts /\ x.final = a.final
      /\ x.remaining = a.remaining /\ x.cancel = a.cancel /\ x.num = a.num
  BY <1>8, Zenon DEF Chase
<1>10. Cleanup(t, b, reason) \in {x, Await(u, "cleanup")}
  BY DEF Cleanup
<1> HIDE DEF a, x
<1>11. Books(r, x, s, h)
  BY <1>7, <1>9 DEF Books, Squares, Unplaced, Carries, SoldOut, Leaves
<1> QED
  BY <1>7, <1>10, <1>11

\* The reply of a read that was answered covers the position, so the clamp keeps the books.
LEMMA ClampCounts ==
  ASSUME NEW r \in Chase, NEW o, NEW s \in Nat, NEW h \in Nat, Squares(r, o, s, h),
         r.pc \in ReadPoints, r.reply # "pending"
  PROVE  Counted(r, r, s, h) /\ Counted(r, Clamped(r), s, h)
<1>1. Covers(r.remaining, s, h) /\ (Futures => r.num >= h)
  BY CountFacts DEF Squares, Carries, SoldOut
<1>2. r.remaining \in Nat /\ r.num \in Int /\ r.attempts \in Nat
  BY DEF Chase
<1>3. Clamped(r) \in Chase /\ Clamped(r).attempts = r.attempts /\ Clamped(r).cancel = r.cancel
  BY ClampedType
<1>4. Clamped(r).remaining = IF r.num = -1 THEN r.remaining
                             ELSE IF r.num < 0 THEN 0 ELSE Lesser(r.remaining, r.num)
  BY DEF Clamped, Chase
<1>5. Amount \in Nat
  BY ExchangeAssumption
<1>6. Covers(Clamped(r).remaining, s, h)
  BY <1>1, <1>2, <1>4, <1>5 DEF Covers, Lesser
<1> QED
  BY <1>1, <1>3, <1>6 DEF Counted

LEMMA PlainCounts ==
  ASSUME NEW r \in Chase, NEW o, NEW s, NEW h, Squares(r, o, s, h),
         ~Carries(r), ~SoldOut(r), r.pc \notin {"idle", "done"}
  PROVE  Counted(r, r, s, h)
BY DEF Squares, Counted

\* While the fill is not counted, an await that holds on to the order keeps the books.
LEMMA CarryOn ==
  ASSUME NEW r, NEW x, NEW o, NEW s, NEW h, Squares(r, o, s, h), Carries(r),
         x.attempts = r.attempts, x.remaining = r.remaining,
         x.pc \in HoldPoints, x.pc = "userCancel" => x.cancel,
         x.reply = "pending" \/ x.pc = "watch"
  PROVE  Squares(x, o, s, h) /\ ~Unplaced(x)
<1>1. o.qty = r.remaining /\ Covers(r.remaining - o.filled, s, h)
  BY DEF Squares
<1>2. Carries(x) /\ ~SoldOut(x) /\ ~Unplaced(x)
  BY CountFacts DEF Carries, SoldOut, Unplaced
<1>3. /\ x.pc \notin {"idle", "done"} \cup ReadPoints \cup MarketPoints
      /\ x.pc \notin {"breakerBalance", "finalBalance"}
      /\ x.pc \in FetchPoints \cup {"repeg"} => x.reply = "pending"
  BY DEF HoldPoints, CancelPoints, FetchPoints, ReadPoints, MarketPoints
<1> QED
  BY <1>1, <1>2, <1>3 DEF Squares, FetchPoints

\* The fill of the order just cancelled is counted.
LEMMA AfterRepegBooks ==
  ASSUME NEW r \in Chase, NEW o \in Order, NEW s \in Nat, NEW h \in Nat,
         Squares(r, o, s, h), Carries(r), o.filled <= o.qty
  PROVE  Books(r, AfterRepeg(r, o.filled), s, h)
<1> DEFINE f == o.filled
           left == [r EXCEPT !.remaining = IF f < r.remaining THEN r.remaining - f ELSE 0]
<1>1. f \in Nat /\ r.remaining \in Nat /\ o.qty = r.remaining /\ Covers(r.remaining - f, s, h)
  BY DEF Squares, Order, Chase
<1>2. f <= r.remaining
  BY <1>1
<1>3. left \in Chase /\ left.attempts = r.attempts /\ left.cancel = r.cancel
      /\ left.remaining = r.remaining - f
  BY <1>1, <1>2 DEF Chase
<1>4. Counted(r, left, s, h)
  BY <1>1, <1>3 DEF Counted
<1>5. AfterRepeg(r, f) = IF f > 0 /\ left.remaining < MinQty THEN Return(left, "filled")
                         ELSE LoopTop(left)
  BY DEF AfterRepeg
<1> HIDE DEF left, f
<1>6. left.remaining < MinQty => Books(r, Return(left, "filled"), s, h)
  BY <1>4, DustBooks DEF Outcomes
<1> QED
  BY <1>4, <1>5, <1>6, LoopTopBooks DEF f

\* What a step of the coroutine from r to x, with current order o, keeps.
Balances(r, x, o, s, h) ==
  \/ Books(r, x, s, h)
  \/ /\ x.attempts = r.attempts
     /\ Unplaced(x) => Unplaced(r)
     /\ Squares(x, o, s, h)

LEMMA CoroutineBooks ==
  ASSUME ChaseMode = "dynamic_bbo", TypeInv, OrdersAddUp, NEW b \in Brackets, Coroutine(b),
         Squares(chase[b], Current(b), Spent(b), holding)
  PROVE  \E x : /\ chase' = [chase EXCEPT ![b] = x]
                /\ Balances(chase[b], x, Current(b), Spent(b), holding)
                /\ UNCHANGED exchangeVars
<1> DEFINE r == chase[b]
           c == Clamped(r)
           s == Spent(b)
           h == holding
           o == Current(b)
<1>0. /\ r \in Chase /\ Sound(b, r) /\ r.attempts \in Nat /\ r.remaining \in Nat
      /\ c \in Chase /\ c.remaining \in Nat /\ c.num = r.num
      /\ s \in Nat /\ h \in Nat /\ Squares(r, o, s, h)
  BY LocalsFacts, SpentNat DEF TypeInv, TypeOK, ExchangeTypeOK, Chase
<1>a. Outcomes = {"None", "cancelled", "filled", "closed", "prevented", "dust", "aborted", "swept"}
      /\ Amount \in Nat /\ MinQty \in Nat /\ MinQty > 0
  BY ExchangeAssumption DEF Outcomes
<1> SUFFICES \E x : /\ chase' = [chase EXCEPT ![b] = x]
                    /\ Balances(r, x, o, s, h)
                    /\ UNCHANGED exchangeVars
  OBVIOUS
<1> HIDE DEF s, h, o
<1>1. ASSUME NEW x, Resume(b, x), Books(r, x, s, h)
      PROVE  \E y : /\ chase' = [chase EXCEPT ![b] = y]
                    /\ Balances(r, y, o, s, h)
                    /\ UNCHANGED exchangeVars
  BY <1>1 DEF Resume, Balances
<1>2. ASSUME NEW t, Sized(b, t), Counted(r, t, s, h)
      PROVE  \E y : /\ chase' = [chase EXCEPT ![b] = y]
                    /\ Balances(r, y, o, s, h)
                    /\ UNCHANGED exchangeVars
  <2>1. CASE Register(b, t)
    <3>1. Books(r, LoopTop(t), s, h)
      BY <1>0, <1>2, LoopTopBooks
    <3> QED
      BY <2>1, <3>1 DEF Register, Balances
  <2>2. CASE Futures /\ t.remaining = 0 /\ Resume(b, Return(t, "closed"))
    <3>1. Books(r, Return(t, "closed"), s, h)
      BY <1>0, <1>2, <1>a, <2>2, DustBooks
    <3> QED
      BY <1>1, <2>2, <3>1
  <2>3. CASE ~(t.remaining >= MinQty) /\ Resume(b, Return(t, "prevented"))
    <3>0. t.remaining \in Nat
      BY <1>2 DEF Counted, Chase
    <3>1. Books(r, Return(t, "prevented"), s, h)
      BY <1>0, <1>2, <1>a, <2>3, <3>0, DustBooks
    <3> QED
      BY <1>1, <2>3, <3>1
  <2> QED
    BY <1>2, <2>1, <2>2, <2>3 DEF Sized
<1>3. ASSUME r.pc \in ReadPoints, r.reply # "pending"
      PROVE  Counted(r, r, s, h) /\ Counted(r, c, s, h) /\ (Futures => r.num >= h)
  BY <1>0, <1>3, ClampCounts DEF Squares
<1>4. ASSUME r.pc \in {"scan", "cleanup", "book", "pause"}
      PROVE  Counted(r, r, s, h)
  <2>1. ~Carries(r) /\ ~SoldOut(r)
    BY <1>4 DEF Carries, SoldOut, HoldPoints, CancelPoints, FetchPoints, PlacePoints, MarketPoints
  <2> QED
    BY <1>0, <1>4, <2>1, PlainCounts
<1>5. CASE ScanReplied(b)
  <2>1. Books(r, Await(r, "cleanup"), s, h)
    BY <1>0, <1>4, <1>5, AwaitBooks
    DEF ScanReplied, Replied, CountPoints, AttemptPoints, PlacePoints
  <2> QED
    BY <1>1, <1>5, <2>1 DEF ScanReplied
<1>6. CASE CleanupReplied(b)
  <2> DEFINE t == [r EXCEPT !.linked = {}, !.targets = {}, !.protected = {}]
  <2>1. t \in Chase
    BY <1>0, Zenon DEF Chase
  <2>2. t.attempts = r.attempts /\ t.cancel = r.cancel /\ t.remaining = r.remaining
    BY <1>0, Zenon DEF Chase
  <2>3. Counted(r, t, s, h)
    BY <1>4, <1>6, <2>1, <2>2 DEF CleanupReplied, Replied, Counted
  <2>4. t.why \in {"start", "reduceonly", "insufficient"}
    BY <2>1 DEF Chase
  <2>5. \E p \in {"size", "roPosition", "isync"} : Resume(b, Await(t, p))
    BY <1>6, <2>4 DEF CleanupReplied
  <2>6. \A p \in {"size", "roPosition", "isync"} : Books(r, Await(t, p), s, h)
    BY <1>0, <2>3, AwaitBooks DEF CountPoints, ReadPoints, AttemptPoints, PlacePoints
  <2> QED
    BY <1>1, <2>5, <2>6
<1>7. CASE SizeReplied(b) \/ RecheckReplied(b)
  <2>1. r.pc \in ReadPoints /\ r.reply # "pending"
    BY <1>7 DEF SizeReplied, RecheckReplied, Replied, ReadPoints
  <2>2. \A p \in {"recheck1", "recheck2"} : Books(r, Await(c, p), s, h)
    BY <1>0, <1>3, <2>1, AwaitBooks DEF CountPoints, ReadPoints, AttemptPoints, PlacePoints
  <2>3. Resume(b, Await(c, "recheck1")) \/ Resume(b, Await(c, "recheck2")) \/ Sized(b, c)
    BY <1>7 DEF SizeReplied, RecheckReplied
  <2> QED
    BY <1>1, <1>2, <1>3, <2>1, <2>2, <2>3
<1>8. CASE BookArrives(b)
  <2>1. Unplaced(r) /\ "sync" \in CountPoints
    BY <1>8 DEF BookArrives, Unplaced, AttemptPoints, Carries, HoldPoints, CancelPoints,
       FetchPoints, PlacePoints, CountPoints, ReadPoints
  <2>2. Books(r, Await(r, "sync"), s, h)
    BY <1>0, <1>4, <1>8, <2>1, AwaitBooks DEF BookArrives
  <2> QED
    BY <1>1, <1>8, <2>2 DEF BookArrives
<1>9. CASE SyncReplied(b)
  <2>1. r.pc = "sync" /\ r.pc \in ReadPoints /\ r.reply # "pending"
    BY <1>9 DEF SyncReplied, Replied, ReadPoints
  <2>2. Counted(r, c, s, h) /\ Unplaced(r) /\ "place" \in CountPoints
    BY <1>3, <2>1 DEF Unplaced, AttemptPoints, Carries, HoldPoints, CancelPoints,
       FetchPoints, PlacePoints, CountPoints
  <2>3. CASE c.remaining < MinQty /\ Resume(b, Return(c, "dust"))
    <3>1. Books(r, Return(c, "dust"), s, h)
      BY <1>0, <1>a, <2>2, <2>3, DustBooks
    <3> QED
      BY <1>1, <2>3, <3>1
  <2>4. CASE Resume(b, Await(c, "place"))
    <3>1. Books(r, Await(c, "place"), s, h)
      BY <1>0, <2>2, AwaitBooks
    <3> QED
      BY <1>1, <2>4, <3>1
  <2>5. CASE Futures /\ Resume(b, [Await(c, "breaker") EXCEPT !.num = c.remaining])
    <3>1. Books(r, [Await(c, "breaker") EXCEPT !.num = c.remaining], s, h)
      BY <1>0, <2>2, MarketBooks DEF MarketPoints
    <3> QED
      BY <1>1, <2>5, <3>1
  <2>6. CASE ~Futures /\ Resume(b, Await(c, "breakerBalance"))
    <3>1. "breakerBalance" \in CountPoints
      BY <2>6 DEF CountPoints, ReadPoints
    <3>2. Books(r, Await(c, "breakerBalance"), s, h)
      BY <1>0, <2>2, <3>1, AwaitBooks
    <3> QED
      BY <1>1, <2>6, <3>2
  <2> QED
    BY <1>9, <2>3, <2>4, <2>5, <2>6 DEF SyncReplied
<1>10. CASE (PlaceReplied(b) \/ ReplaceReplied(b)) /\ r.reply = "ok"
  <2>1. r.pc \in PlacePoints /\ Carries(r)
    BY <1>10 DEF PlaceReplied, ReplaceReplied, Replied, PlacePoints, Carries
  <2> DEFINE x == Watch(r, b)
  <2>2. x.pc = "watch" /\ x.attempts = r.attempts /\ x.remaining = r.remaining
    BY <1>0, Zenon DEF Watch, Chase
  <2> HIDE DEF x
  <2>3. Squares(x, o, s, h) /\ ~Unplaced(x)
    BY <1>0, <2>1, <2>2, CarryOn DEF HoldPoints
  <2>4. Resume(b, x)
    BY <1>10 DEF PlaceReplied, ReplaceReplied, x
  <2> QED
    BY <2>2, <2>3, <2>4 DEF Balances, Resume
<1>11. CASE (PlaceReplied(b) \/ ReplaceReplied(b)) /\ r.reply # "ok"
  <2>1. r.pc \in PlacePoints /\ ~Carries(r) /\ ~SoldOut(r) /\ Unplaced(r)
        /\ r.pc \notin {"idle", "done"}
    BY <1>11 DEF PlaceReplied, ReplaceReplied, Replied, PlacePoints, Carries, HoldPoints,
       CancelPoints, FetchPoints, SoldOut, MarketPoints, Unplaced, AttemptPoints
  <2>2. Counted(r, r, s, h)
    BY <1>0, <2>1, PlainCounts
  <2> DEFINE u == [r EXCEPT !.rejects = @ + 1]
  <2>3. u \in Chase /\ u.attempts = r.attempts /\ u.cancel = r.cancel
        /\ u.remaining = r.remaining
    BY <1>0 DEF Chase
  <2>4. Counted(r, u, s, h)
    BY <2>2, <2>3 DEF Counted
  <2> HIDE DEF u
  <2> DEFINE k1 == Cleanup(u, b, "reduceonly")
             k2 == Cleanup(r, b, "insufficient")
  <2>5. Books(r, k1, s, h) /\ Books(r, k2, s, h)
    BY <1>0, <2>2, <2>4, CleanupBooks DEF TypeInv
  <2>6. Books(r, Await(r, "resync"), s, h)
    BY <1>0, <2>1, <2>2, AwaitBooks DEF CountPoints, ReadPoints
  <2>7. Books(r, NotPlaced(r), s, h)
    BY <1>0, <2>2, PauseBooks
  <2>8. \/ Resume(b, NotPlaced(r)) \/ Resume(b, Await(r, "resync"))
        \/ Resume(b, k1) \/ Resume(b, k2)
    BY <1>11 DEF PlaceReplied, ReplaceReplied, u
  <2> HIDE DEF k1, k2
  <2> QED
    BY <1>1, <2>5, <2>6, <2>7, <2>8
<1>12. CASE ResyncReplied(b)
  <2>1. r.pc = "resync" /\ r.pc \in ReadPoints /\ r.reply # "pending"
    BY <1>12 DEF ResyncReplied, Replied, ReadPoints
  <2>2. Counted(r, c, s, h) /\ Unplaced(r) /\ "replace" \in CountPoints
    BY <1>3, <2>1 DEF Unplaced, AttemptPoints, Carries, HoldPoints, CancelPoints,
       FetchPoints, PlacePoints, CountPoints
  <2>3. Books(r, NotPlaced(c), s, h) /\ Books(r, Await(c, "replace"), s, h)
    BY <1>0, <2>2, PauseBooks, AwaitBooks
  <2>4. Resume(b, NotPlaced(c)) \/ Resume(b, Await(c, "replace"))
    BY <1>12 DEF ResyncReplied
  <2> QED
    BY <1>1, <2>3, <2>4
<1>13. CASE RoPositionReplied(b)
  <2>1. r.pc \in ReadPoints /\ r.reply # "pending"
    BY <1>13 DEF RoPositionReplied, Replied, ReadPoints
  <2>2. Counted(r, c, s, h)
    BY <1>3, <2>1
  <2>3. CASE c.num = 0 /\ Resume(b, Return(c, "closed"))
    <3>1. c.remaining = 0
      BY <1>0, <2>3 DEF Clamped, Chase, Lesser
    <3>2. Books(r, Return(c, "closed"), s, h)
      BY <1>0, <1>a, <2>2, <3>1, DustBooks
    <3> QED
      BY <1>1, <2>3, <3>2
  <2>4. CASE Resume(b, Return(c, "aborted"))
    <3>1. Books(r, Return(c, "aborted"), s, h)
      BY <1>0, <1>a, <2>2, CancelledBooks
    <3> QED
      BY <1>1, <2>4, <3>1
  <2>5. CASE Resume(b, Pause(c))
    <3>1. Books(r, Pause(c), s, h)
      BY <1>0, <2>2, PauseBooks
    <3> QED
      BY <1>1, <2>5, <3>1
  <2> QED
    BY <1>13, <2>3, <2>4, <2>5 DEF RoPositionReplied
<1>14. CASE IsyncReplied(b)
  <2>1. r.pc \in ReadPoints /\ r.reply # "pending"
    BY <1>14 DEF IsyncReplied, Replied, ReadPoints
  <2>2. Books(r, LoopTop(c), s, h)
    BY <1>0, <1>3, <2>1, LoopTopBooks
  <2> QED
    BY <1>1, <1>14, <2>2 DEF IsyncReplied
<1>15. CASE PositionReplied(b)
  <2>1. r.pc \in ReadPoints /\ r.reply # "pending"
    BY <1>15 DEF PositionReplied, Replied, ReadPoints
  <2>2. CASE r.num = 0 /\ Resume(b, Return(r, "closed"))
    <3>1. s <= Amount /\ (Futures => h < MinQty)
      BY <1>0, <1>3, <1>a, <2>1, <2>2 DEF Counted, Covers
    <3>2. Books(r, Return(r, "closed"), s, h)
      BY <1>0, <1>a, <3>1, ReturnBooks
    <3> QED
      BY <1>1, <2>2, <3>2
  <2>3. CASE Resume(b, Pause(c))
    <3>1. Books(r, Pause(c), s, h)
      BY <1>0, <1>3, <2>1, PauseBooks
    <3> QED
      BY <1>1, <2>3, <3>1
  <2> QED
    BY <1>15, <2>2, <2>3 DEF PositionReplied
<1>16. CASE PauseEnds(b)
  <2>1. Books(r, LoopTop(r), s, h)
    BY <1>0, <1>4, <1>16, LoopTopBooks DEF PauseEnds
  <2> QED
    BY <1>1, <1>16, <2>1 DEF PauseEnds
<1>17. CASE WatchEnds(b) \/ WatchCancelled(b)
  <2>1. PICK p \in {"status", "userCancel"} : /\ Resume(b, Await(r, p))
                                              /\ p = "userCancel" => r.cancel
    BY <1>17 DEF WatchEnds, WatchCancelled
  <2>2. r.pc \in HoldPoints /\ Carries(r) /\ p \in HoldPoints
    BY <1>17 DEF WatchEnds, WatchCancelled, HoldPoints, Carries, CancelPoints, FetchPoints
  <2> DEFINE x == Await(r, p)
  <2>3. /\ x.pc = p /\ x.reply = "pending" /\ x.attempts = r.attempts
        /\ x.remaining = r.remaining /\ x.cancel = r.cancel
    <3>1. p \in Points
      BY <2>2, PointsFacts
    <3>2. Await(r, p).cancel = r.cancel /\ Await(r, p).remaining = r.remaining
      BY <1>0, AwaitRest
    <3> QED
      BY <1>0, <3>1, <3>2, AwaitFields
  <2> HIDE DEF x
  <2>4. Squares(x, o, s, h) /\ ~Unplaced(x)
    BY <1>0, <2>1, <2>2, <2>3, CarryOn
  <2> QED
    BY <2>1, <2>3, <2>4 DEF Balances, Resume, x
<1>18. CASE UserCancelReplied(b)
  <2>1. Carries(r) /\ r.cancel
    BY <1>0, <1>18 DEF UserCancelReplied, Replied, Carries, HoldPoints, CancelPoints, Squares
  <2>2. s <= Amount
    <3>1. o.filled <= o.qty /\ o.qty = r.remaining /\ o.filled \in Nat
      BY <1>0, <2>1, MakerIds, ExchangeAssumption
      DEF OrdersAddUp, o, Current, Squares, Sound, Carries, HoldPoints, AttemptPoints, TypeInv,
          TypeOK, ExchangeTypeOK, Order
    <3> QED
      BY <1>0, <1>a, <2>1, <3>1 DEF Squares, Covers
  <2>3. Books(r, Return(r, "cancelled"), s, h)
    BY <1>0, <1>a, <2>1, <2>2, ReturnBooks
  <2> QED
    BY <1>1, <1>18, <2>3 DEF UserCancelReplied
<1>19. ASSUME r.pc \in HoldPoints
       PROVE  /\ Carries(r) /\ o \in Order /\ o.filled <= o.qty
              /\ o.status = "closed" => o.filled = o.qty
  <2>1. Maker(b, r.attempts) \in OrderIds
    BY <1>0, <1>19, MakerIds, ExchangeAssumption DEF Sound
  <2> QED
    BY <1>19, <2>1 DEF Carries, OrdersAddUp, o, Current, TypeInv, TypeOK, ExchangeTypeOK
<1>20. CASE StatusReplied(b)
  <2>1. r.pc = "status" /\ r.pc \in HoldPoints /\ r.reply # "pending" /\ r.pc \in FetchPoints
    BY <1>20 DEF StatusReplied, Replied, HoldPoints, FetchPoints
  <2>2. r.reply # "error" /\ (r.reply = "closed" => o.status = "closed")
    BY <1>0, <2>1 DEF Squares
  <2>3. CASE r.reply = "closed"
    <3>1. o.filled = r.remaining /\ Covers(r.remaining - o.filled, s, h)
      BY <1>0, <1>19, <2>1, <2>2, <2>3 DEF Squares
    <3>2. s <= Amount /\ (Futures => s + MinQty > Amount \/ h < MinQty)
      BY <1>0, <1>a, <3>1 DEF Covers
    <3>3. Books(r, Return(r, "filled"), s, h)
      BY <1>0, <1>a, <3>2, ReturnBooks
    <3> QED
      BY <1>1, <1>20, <2>3, <3>3 DEF StatusReplied
  <2>4. CASE r.reply # "closed"
    <3> DEFINE x == Await(r, "repeg")
    <3>1. /\ x.pc = "repeg" /\ x.reply = "pending" /\ x.attempts = r.attempts
          /\ x.remaining = r.remaining /\ x.cancel = r.cancel
      <4>1. "repeg" \in Points
        BY PointsFacts DEF HoldPoints, CancelPoints
      <4>2. Await(r, "repeg").cancel = r.cancel /\ Await(r, "repeg").remaining = r.remaining
        BY <1>0, AwaitRest
      <4> QED
        BY <1>0, <4>1, <4>2, AwaitFields
    <3>2. Resume(b, x)
      BY <1>20, <2>2, <2>4 DEF StatusReplied
    <3> HIDE DEF x
    <3>3. Squares(x, o, s, h) /\ ~Unplaced(x)
      BY <1>0, <1>19, <2>1, <3>1, CarryOn, CountFacts
    <3> QED
      BY <3>1, <3>2, <3>3 DEF Balances, Resume
  <2> QED
    BY <2>3, <2>4
<1>21. CASE RepegReplied(b)
  <2>1. r.pc = "repeg" /\ r.pc \in HoldPoints /\ r.reply # "pending"
    BY <1>21, CountFacts DEF RepegReplied, Replied
  <2>2. CASE r.num > 0
    <3>1. r.num = o.filled
      BY <1>0, <2>1, <2>2 DEF Squares
    <3>2. Books(r, AfterRepeg(r, o.filled), s, h)
      BY <1>0, <1>19, <2>1, AfterRepegBooks
    <3> QED
      BY <1>1, <1>21, <2>2, <3>1, <3>2 DEF RepegReplied
  <2>3. CASE ~(r.num > 0)
    <3> DEFINE x == Await(r, "refill")
    <3>1. /\ x.pc = "refill" /\ x.reply = "pending" /\ x.attempts = r.attempts
          /\ x.remaining = r.remaining /\ x.cancel = r.cancel
      <4>1. "refill" \in Points
        BY PointsFacts DEF HoldPoints, FetchPoints
      <4>2. Await(r, "refill").cancel = r.cancel /\ Await(r, "refill").remaining = r.remaining
        BY <1>0, AwaitRest
      <4> QED
        BY <1>0, <4>1, <4>2, AwaitFields
    <3>2. Resume(b, x)
      BY <1>21, <2>3 DEF RepegReplied
    <3> HIDE DEF x
    <3>3. Squares(x, o, s, h) /\ ~Unplaced(x)
      BY <1>0, <1>19, <2>1, <3>1, CarryOn, CountFacts
    <3> QED
      BY <3>1, <3>2, <3>3 DEF Balances, Resume
  <2> QED
    BY <2>2, <2>3
<1>22. CASE RefillReplied(b)
  <2>1. r.pc = "refill" /\ r.pc \in HoldPoints /\ r.reply # "pending" /\ r.pc \in FetchPoints
    BY <1>22, CountFacts DEF RefillReplied, Replied, FetchPoints
  <2>2. r.reply # "error" /\ r.num = o.filled
    BY <1>0, <2>1 DEF Squares
  <2>3. Books(r, AfterRepeg(r, o.filled), s, h)
    BY <1>0, <1>19, <2>1, AfterRepegBooks
  <2> QED
    BY <1>1, <1>22, <2>2, <2>3 DEF RefillReplied
<1>23. CASE BreakerBalanceReplied(b) \/ FinalBalanceReplied(b)
  <2>1. r.pc \in ReadPoints /\ r.reply # "pending" /\ r.pc \in {"breakerBalance", "finalBalance"}
    BY <1>23 DEF BreakerBalanceReplied, FinalBalanceReplied, Replied, ReadPoints
  <2>2. ~Futures /\ Counted(r, r, s, h)
    BY <1>0, <1>3, <2>1 DEF Squares
  <2> DEFINE q == SweepQty(r)
  <2>3. q \in Int
    BY <1>0 DEF SweepQty, Chase
  <2>4. \/ Resume(b, [Await(r, "breaker") EXCEPT !.num = q])
        \/ Resume(b, [Await(r, "final") EXCEPT !.num = q])
        \/ Resume(b, Return(r, "dust")) \/ Resume(b, Return(r, "None"))
        \/ Resume(b, FinalSweep(r))
    BY <1>23 DEF BreakerBalanceReplied, FinalBalanceReplied
  <2> HIDE DEF q
  <2>5. \A p \in {"breaker", "final"} : Books(r, [Await(r, p) EXCEPT !.num = q], s, h)
    BY <1>0, <2>2, <2>3, MarketBooks DEF MarketPoints
  <2>6. \A outcome \in {"dust", "None"} : Books(r, Return(r, outcome), s, h)
    BY <1>0, <1>a, <2>2, DustBooks
  <2>7. Books(r, FinalSweep(r), s, h)
    BY <1>0, <2>2, FinalSweepBooks
  <2> QED
    BY <1>1, <2>4, <2>5, <2>6, <2>7
<1>24. CASE BreakerReplied(b) \/ FinalReplied(b)
  <2>1. /\ r.pc \in MarketPoints /\ r.reply # "pending" /\ ~Carries(r)
        /\ r.pc \notin {"idle", "done"}
    BY <1>24 DEF BreakerReplied, FinalReplied, Replied, MarketPoints, Carries, HoldPoints,
       CancelPoints, FetchPoints, PlacePoints
  <2>2. CASE r.reply = "ok"
    <3>1. s <= Amount /\ (Futures => s + MinQty > Amount \/ h < MinQty)
      BY <1>0, <1>a, <2>1, <2>2 DEF Squares, SoldOut, Covers
    <3>2. Books(r, Return(r, "swept"), s, h)
      BY <1>0, <1>a, <3>1, ReturnBooks
    <3>3. Resume(b, Return(r, "swept"))
      BY <1>24, <2>2 DEF BreakerReplied, FinalReplied
    <3> QED
      BY <1>1, <3>2, <3>3
  <2>3. CASE r.reply # "ok"
    <3>1. Counted(r, r, s, h)
      BY <1>0, <2>1, <2>3, PlainCounts DEF SoldOut
    <3>2. s <= Amount /\ (Futures => h < MinQty)
      BY <1>0, <1>a, <2>1, <2>3, <3>1 DEF Squares, Covers, Counted
    <3>3. Books(r, Return(r, "None"), s, h) /\ Books(r, FinalSweep(r), s, h)
      BY <1>0, <1>a, <3>1, <3>2, ReturnBooks, FinalSweepBooks
    <3>4. Resume(b, Return(r, "None")) \/ Resume(b, FinalSweep(r))
      BY <1>24, <2>3 DEF BreakerReplied, FinalReplied
    <3> QED
      BY <1>1, <3>3, <3>4
  <2> QED
    BY <2>2, <2>3
<1> QED
  BY <1>5, <1>6, <1>7, <1>8, <1>9, <1>10, <1>11, <1>12, <1>13, <1>14, <1>15, <1>16, <1>17, <1>18,
     <1>20, <1>21, <1>22, <1>23, <1>24 DEF Coroutine

-----------------------------------------------------------------------------
(* The steps.  Most leave every order's lots and all sweeps as they are.   *)

LotsKept(o) ==
  /\ orders'[o].qty = orders[o].qty /\ orders'[o].filled = orders[o].filled
  /\ orders'[o].status = "closed" <=> orders[o].status = "closed"

LEMMA SquaresFrame ==
  ASSUME NEW r \in Chase, NEW o, NEW p, NEW s \in Nat, NEW h \in Nat, NEW l \in Nat, l <= h,
         Squares(r, o, s, h),
         r.pc \in HoldPoints \cup PlacePoints =>
           /\ p.qty = o.qty /\ p.filled = o.filled /\ o.filled \in Nat
           /\ o.status = "closed" => p.status = "closed"
  PROVE  Squares(r, p, s, l)
<1>1. r.remaining \in Nat /\ r.num \in Int /\ Amount \in Nat /\ MinQty \in Nat
  BY ExchangeAssumption DEF Chase
<1>2. Carries(r) => r.pc \in HoldPoints \cup PlacePoints
  BY DEF Carries
<1>3. FetchPoints \cup {"repeg"} \subseteq HoldPoints
  BY CountFacts
<1>4. r.pc = "idle" => r.attempts = 0 /\ s = 0
  BY DEF Squares
<1>5. Carries(r) => p.qty = r.remaining /\ Covers(r.remaining - p.filled, s, l)
  BY <1>1, <1>2 DEF Squares, Covers
<1>6. /\ ~Carries(r) /\ ~SoldOut(r) /\ r.pc \notin {"idle", "done"} => Covers(r.remaining, s, l)
      /\ SoldOut(r) => Covers(0, s, l)
      /\ r.pc = "done" => Leaves(r, s, l)
  BY <1>1 DEF Squares, Covers, Leaves
<1>7. Futures =>
        /\ r.pc \notin {"breakerBalance", "finalBalance"}
        /\ r.pc \in MarketPoints /\ r.reply = "pending" => r.num = r.remaining
        /\ r.pc \in MarketPoints /\ r.reply \notin {"pending", "ok"} => l = 0
        /\ r.pc \in ReadPoints /\ r.reply # "pending" => r.num >= l
  BY <1>1 DEF Squares
<1>8. /\ r.pc = "userCancel" => r.cancel
      /\ r.pc \in FetchPoints /\ r.reply # "pending" =>
           r.reply # "error" /\ (r.reply = "closed" => p.status = "closed")
      /\ r.pc = "refill" /\ r.reply # "pending" => r.num = p.filled
      /\ r.pc = "repeg" /\ r.reply # "pending" /\ r.num > 0 => r.num = p.filled
  BY <1>3, CountFacts DEF Squares
<1> QED
  BY <1>4, <1>5, <1>6, <1>7, <1>8 DEF Squares

\* A bracket whose coroutine and whose orders a step leaves alone.
LEMMA OtherTally ==
  ASSUME TypeInv, TypeInv', NEW c \in Brackets, chase'[c] = chase[c], swept'[c] = swept[c],
         holding' <= holding, \A n \in 1 .. MaxAttempts : LotsKept(Maker(c, n)),
         Unused(c), Squares(chase[c], Current(c), Spent(c), holding)
  PROVE  /\ Unused(c)' /\ Spent(c)' = Spent(c)
         /\ Squares(chase[c], Current(c)', Spent(c)', holding')
<1>1. Unused(c)'
  BY DEF Unused, LotsKept, Maker, Unplaced, Carries
<1>2. Made(c)' = Made(c)
  BY MadeSame DEF LotsKept
<1>3. Spent(c)' = Spent(c)
  BY <1>2 DEF Spent
<1>4. chase[c] \in Chase /\ Sound(c, chase[c]) /\ Spent(c) \in Nat
      /\ holding \in Nat /\ holding' \in Nat /\ chase[c].attempts \in Nat
  BY SpentNat DEF TypeInv, TypeOK, ExchangeTypeOK, Chase
<1>5. chase[c].pc \in HoldPoints \cup PlacePoints =>
        /\ Current(c)'.qty = Current(c).qty /\ Current(c)'.filled = Current(c).filled
        /\ Current(c).filled \in Nat
        /\ Current(c).status = "closed" => Current(c)'.status = "closed"
  <2> SUFFICES ASSUME chase[c].pc \in HoldPoints \cup PlacePoints
               PROVE  /\ Current(c)'.qty = Current(c).qty /\ Current(c)'.filled = Current(c).filled
                      /\ Current(c).filled \in Nat
                      /\ Current(c).status = "closed" => Current(c)'.status = "closed"
    OBVIOUS
  <2> DEFINE n == chase[c].attempts
  <2>1. n \in 1 .. MaxAttempts
    BY <1>4, ExchangeAssumption DEF Sound, AttemptPoints
  <2>2. Current(c) = orders[Maker(c, n)] /\ Current(c)' = orders'[Maker(c, n)]
    BY DEF Current, Maker
  <2>3. LotsKept(Maker(c, n)) /\ orders[Maker(c, n)] \in Order
    BY <2>1, MakerIds DEF TypeInv, TypeOK, ExchangeTypeOK
  <2> HIDE DEF n
  <2> QED
    BY <2>2, <2>3 DEF LotsKept, Order
<1>6. Squares(chase[c], Current(c)', Spent(c), holding')
  BY <1>4, <1>5, SquaresFrame
<1> QED
  BY <1>1, <1>3, <1>6

LEMMA TallyStep ==
  ASSUME TypeInv, TypeInv', Tally, NEW b \in Brackets, NEW x,
         chase' = [chase EXCEPT ![b] = x], holding' <= holding,
         \A c \in Brackets \ {b} :
            swept'[c] = swept[c] /\ \A n \in 1 .. MaxAttempts : LotsKept(Maker(c, n)),
         OrdersAddUp',
         faults' = 0 => /\ faults = 0 /\ Unused(b)'
                        /\ Squares(x, Current(b)', Spent(b)', holding')
  PROVE  Tally'
<1>1. ASSUME faults' = 0, NEW c \in Brackets
      PROVE  Unused(c)' /\ Squares(chase'[c], Current(c)', Spent(c)', holding')
  <2>1. CASE c = b
    <3>1. chase'[b] = x
      BY DEF TypeInv, TypeOK
    <3> QED
      BY <1>1, <2>1, <3>1
  <2>2. CASE c # b
    <3>1. chase'[c] = chase[c]
      BY <2>2 DEF TypeInv, TypeOK
    <3>2. Unused(c) /\ Squares(chase[c], Current(c), Spent(c), holding)
      BY <1>1 DEF Tally
    <3>3. swept'[c] = swept[c] /\ \A n \in 1 .. MaxAttempts : LotsKept(Maker(c, n))
      BY <2>2
    <3> QED
      BY <3>1, <3>2, <3>3, OtherTally
  <2> QED
    BY <2>1, <2>2
<1>2. faults' = 0 => \A c \in Brackets :
        Unused(c)' /\ Squares(chase'[c], Current(c)', Spent(c)', holding')
  BY <1>1
<1> QED
  BY <1>2 DEF Tally, Squares, Carries, SoldOut

LEMMA QuietTally ==
  ASSUME TypeInv, TypeInv', Tally, NEW b \in Brackets, NEW x,
         chase' = [chase EXCEPT ![b] = x], holding' = holding, swept' = swept,
         \A o \in OrderIds : LotsKept(o),
         faults' = 0 => /\ faults = 0
                        /\ Balances(chase[b], x, Current(b), Spent(b), holding)
  PROVE  Tally'
<1> DEFINE r == chase[b]
<1>1. \A c \in Brackets, n \in 1 .. MaxAttempts : LotsKept(Maker(c, n))
  BY MakerIds
<1>2. OrdersAddUp'
  BY DEF Tally, OrdersAddUp, LotsKept
<1>3. r \in Chase /\ x \in Chase /\ chase'[b] = x /\ Sound(b, x) /\ Spent(b) \in Nat
      /\ holding \in Nat /\ r.attempts \in Nat /\ x.attempts \in Nat
  BY SpentNat DEF TypeInv, TypeOK, ExchangeTypeOK, Chase
<1>4. ASSUME faults' = 0
      PROVE  Unused(b)' /\ Squares(x, Current(b)', Spent(b)', holding')
  <2>1. faults = 0 /\ Unused(b) /\ Balances(r, x, Current(b), Spent(b), holding)
    BY <1>4 DEF Tally
  <2>2. Made(b)' = Made(b)
    BY <1>1, MadeSame DEF LotsKept
  <2>3. Spent(b)' = Spent(b)
    BY <2>2 DEF Spent
  <2>4. x.attempts >= r.attempts /\ (Unplaced(x) /\ x.attempts = r.attempts => Unplaced(r))
    BY <1>3, <2>1 DEF Balances, Books
  <2>5. Unused(b)'
    <3> SUFFICES ASSUME NEW n \in 1 .. MaxAttempts,
                        n > x.attempts \/ (n = x.attempts /\ Unplaced(x))
                 PROVE  orders'[Maker(b, n)].filled = 0
      BY <1>3 DEF Unused, Maker, Unplaced, Carries
    <3>1. n > r.attempts \/ (n = r.attempts /\ Unplaced(r))
      BY <1>3, <2>4
    <3>2. orders[Maker(b, n)].filled = 0
      BY <2>1, <3>1 DEF Unused
    <3> QED
      BY <1>1, <3>2 DEF LotsKept
  <2>6. CASE Books(r, x, Spent(b), holding)
    BY <2>3, <2>5, <2>6 DEF Books
  <2>7. CASE x.attempts = r.attempts /\ Squares(x, Current(b), Spent(b), holding)
    <3> DEFINE n == x.attempts
    <3>1. Current(b) = orders[Maker(b, n)] /\ Current(b)' = orders'[Maker(b, n)]
      BY <1>3, <2>7 DEF Current, Maker
    <3>2. x.pc \in HoldPoints \cup PlacePoints => n \in 1 .. MaxAttempts
      BY <1>3, ExchangeAssumption DEF Sound, AttemptPoints
    <3>3. x.pc \in HoldPoints \cup PlacePoints =>
            LotsKept(Maker(b, n)) /\ orders[Maker(b, n)] \in Order
      BY <1>1, <3>2, MakerIds DEF TypeInv, TypeOK, ExchangeTypeOK
    <3> HIDE DEF n
    <3>4. x.pc \in HoldPoints \cup PlacePoints =>
            /\ Current(b)'.qty = Current(b).qty /\ Current(b)'.filled = Current(b).filled
            /\ Current(b).filled \in Nat
            /\ Current(b).status = "closed" => Current(b)'.status = "closed"
      BY <3>1, <3>3 DEF LotsKept, Order
    <3>5. holding' \in Nat /\ holding' <= holding
      BY <1>3
    <3>6. Squares(x, Current(b)', Spent(b), holding')
      BY <1>3, <2>7, <3>4, <3>5, SquaresFrame
    <3> QED
      BY <2>3, <2>5, <3>6
  <2> QED
    BY <2>1, <2>6, <2>7 DEF Balances
<1>5. holding' <= holding
  BY <1>3
<1>6. faults' = 0 => faults = 0 /\ Unused(b)' /\ Squares(x, Current(b)', Spent(b)', holding')
  BY <1>4
<1> QED
  BY <1>1, <1>2, <1>5, <1>6, TallyStep

LEMMA KeptAll ==
  ASSUME orders' = orders
  PROVE  \A o : LotsKept(o)
BY DEF LotsKept

LEMMA CancelKept ==
  ASSUME TypeInv, NEW S, CancelOrders(S)
  PROVE  \A o \in OrderIds : LotsKept(o)
<1> SUFFICES ASSUME NEW o \in OrderIds PROVE LotsKept(o)
  OBVIOUS
<1>1. orders[o] \in Order
  BY DEF TypeInv, TypeOK, ExchangeTypeOK
<1>2. orders'[o] \in {orders[o], [orders[o] EXCEPT !.status = "canceled"]}
      /\ (orders'[o] # orders[o] => orders[o].status = "open")
  BY DEF CancelOrders, Open
<1>3. /\ [orders[o] EXCEPT !.status = "canceled"].status = "canceled"
      /\ [orders[o] EXCEPT !.status = "canceled"].qty = orders[o].qty
      /\ [orders[o] EXCEPT !.status = "canceled"].filled = orders[o].filled
  BY <1>1 DEF Order
<1> QED
  BY <1>2, <1>3 DEF LotsKept

\* A call is answered; the lots stay as they are.
LEMMA AnsweredFields ==
  ASSUME NEW r \in Chase, NEW word, NEW n
  PROVE  LET x == Answered(r, word, n)
         IN  /\ x.pc = r.pc /\ x.reply = word /\ x.num = n /\ x.attempts = r.attempts
             /\ x.remaining = r.remaining /\ x.cancel = r.cancel /\ x.final = r.final
BY Zenon DEF Answered, Chase

LEMMA ServeQuiet ==
  ASSUME TypeInv, TypeInv', Tally, HeldWithinFaults, NEW b \in Brackets,
         ServeRead(b) \/ ServeScan(b) \/ ServeCleanup(b) \/ ServeCancel(b) \/ ServeFetch(b)
  PROVE  Tally'
<1> DEFINE r == chase[b]
           o == Maker(b, r.attempts)
           s == Spent(b)
<1>0. /\ r \in Chase /\ Sound(b, r) /\ s \in Nat /\ holding \in Nat /\ faults \in Nat
      /\ r.attempts \in Nat /\ r.remaining \in Nat
      /\ chase \in [Brackets -> Chase] /\ locked \in Int /\ holding' \in Nat
  BY SpentNat DEF TypeInv, TypeOK, ExchangeTypeOK, Chase
<1>1. Fault => faults' # 0
  BY <1>0 DEF Fault
<1>2. faults = 0 => Squares(r, Current(b), s, holding)
  BY DEF Tally
<1>3. NoFault => faults' = faults
  BY DEF NoFault
<1>4. CASE ServeRead(b)
  <2>1. r.pc \in ReadPoints /\ r.reply = "pending"
    BY <1>4 DEF ServeRead, Pending
  <2>2. PICK word, n :
          /\ chase' = [chase EXCEPT ![b] = Answered(r, word, n)]
          /\ \/ NoFault /\ n = Sellable
             \/ Fault
    BY <1>4 DEF ServeRead, Reply
  <2>3. holding' = holding /\ swept' = swept /\ orders' = orders
    BY <1>4 DEF ServeRead, ledgerVars
  <2>4. \A q \in OrderIds : LotsKept(q)
    BY <2>3, KeptAll
  <2> DEFINE x == Answered(r, word, n)
  <2>5. /\ x.pc = r.pc /\ x.reply = word /\ x.num = n /\ x.attempts = r.attempts
        /\ x.remaining = r.remaining /\ x.cancel = r.cancel /\ x.final = r.final
    BY <1>0, AnsweredFields
  <2> HIDE DEF x
  <2>6. ASSUME faults' = 0
        PROVE  faults = 0 /\ Balances(r, x, Current(b), s, holding)
    <3>1. faults = 0 /\ n = Sellable
      BY <1>1, <1>3, <2>2, <2>6
    <3>2. ~Carries(r) /\ ~Carries(x) /\ ~SoldOut(r) /\ ~SoldOut(x)
      BY <2>1, <2>5, CountFacts DEF Carries, SoldOut
    <3>3. Futures => n >= holding
      BY <1>0, <3>1 DEF Sellable
    <3>4. Squares(x, Current(b), s, holding)
      BY <1>2, <2>1, <2>5, <3>1, <3>2, <3>3, CountFacts DEF Squares
    <3>5. Unplaced(x) => Unplaced(r)
      BY <2>5, <3>2 DEF Unplaced
    <3> QED
      BY <2>5, <3>1, <3>4, <3>5 DEF Balances
  <2>7. chase' = [chase EXCEPT ![b] = x]
    BY <2>2 DEF x
  <2> QED
    BY <2>3, <2>4, <2>6, <2>7, QuietTally
<1>5. CASE ServeScan(b)
  <2>1. r.pc = "scan" /\ r.reply = "pending"
    BY <1>5 DEF ServeScan, Pending
  <2>2. PICK found :
          /\ chase' = [chase EXCEPT ![b] = Scanned(r, found)]
          /\ NoFault \/ Fault
    BY <1>5 DEF ServeScan
  <2>3. holding' = holding /\ swept' = swept /\ orders' = orders
    BY <1>5 DEF ServeScan, ledgerVars
  <2>4. \A q \in OrderIds : LotsKept(q)
    BY <2>3, KeptAll
  <2> DEFINE x == Scanned(r, found)
  <2>5. /\ x.pc = r.pc /\ x.reply = "ok" /\ x.attempts = r.attempts
        /\ x.remaining = r.remaining
    BY <1>0, Zenon DEF Scanned, Chase
  <2> HIDE DEF x
  <2>6. ~Carries(r) /\ ~Carries(x) /\ ~SoldOut(r) /\ ~SoldOut(x) /\ ~Unplaced(x)
        /\ x.pc \notin ReadPoints \cup MarketPoints \cup FetchPoints
    BY <2>1, <2>5 DEF Carries, SoldOut, Unplaced, AttemptPoints, HoldPoints, CancelPoints,
       FetchPoints, PlacePoints, MarketPoints, ReadPoints
  <2>7. faults = 0 => Squares(x, Current(b), s, holding)
    BY <1>2, <2>1, <2>5, <2>6 DEF Squares
  <2>8. faults' = 0 => faults = 0 /\ Balances(r, x, Current(b), s, holding)
    BY <1>1, <1>3, <2>2, <2>5, <2>6, <2>7 DEF Balances
  <2>9. chase' = [chase EXCEPT ![b] = x]
    BY <2>2 DEF x
  <2> QED
    BY <2>3, <2>4, <2>8, <2>9, QuietTally
<1>6. CASE ServeCleanup(b)
  <2>1. r.pc = "cleanup" /\ r.reply = "pending"
    BY <1>6 DEF ServeCleanup, Pending
  <2>2. chase' = [chase EXCEPT ![b] = Answered(r, "ok", 0)] /\ (NoFault \/ Fault)
    BY <1>6 DEF ServeCleanup, Reply
  <2>3. holding' = holding /\ swept' = swept /\ \E S : CancelOrders(S)
    BY <1>6 DEF ServeCleanup, CancelOrders
  <2>4. \A q \in OrderIds : LotsKept(q)
    BY <2>3, CancelKept
  <2> DEFINE x == Answered(r, "ok", 0)
  <2>5. /\ x.pc = r.pc /\ x.reply = "ok" /\ x.attempts = r.attempts
        /\ x.remaining = r.remaining
    BY <1>0, AnsweredFields
  <2> HIDE DEF x
  <2>6. ~Carries(r) /\ ~Carries(x) /\ ~SoldOut(r) /\ ~SoldOut(x) /\ ~Unplaced(x)
        /\ x.pc \notin ReadPoints \cup MarketPoints \cup FetchPoints
    BY <2>1, <2>5 DEF Carries, SoldOut, Unplaced, AttemptPoints, HoldPoints, CancelPoints,
       FetchPoints, PlacePoints, MarketPoints, ReadPoints
  <2>7. faults = 0 => Squares(x, Current(b), s, holding)
    BY <1>2, <2>1, <2>5, <2>6 DEF Squares
  <2>8. faults' = 0 => faults = 0 /\ Balances(r, x, Current(b), s, holding)
    BY <1>1, <1>3, <2>2, <2>5, <2>6, <2>7 DEF Balances
  <2>9. chase' = [chase EXCEPT ![b] = x]
    BY <2>2 DEF x
  <2> QED
    BY <2>3, <2>4, <2>8, <2>9, QuietTally
<1>7. CASE ServeCancel(b) \/ ServeFetch(b)
  <2>1. r.pc \in HoldPoints /\ r.reply = "pending" /\ r.current = o /\ Current(b) = orders[o]
        /\ r.pc \notin PlacePoints
    BY <1>0, <1>7
    DEF ServeCancel, ServeFetch, Pending, HoldPoints, Sound, Current, CancelPoints, FetchPoints,
        PlacePoints
  <2>2. PICK word, n :
          /\ chase' = [chase EXCEPT ![b] = Answered(r, word, n)]
          /\ \/ /\ NoFault /\ n = orders[o].filled
                /\ word # "error" /\ (word = "closed" => orders[o].status = "closed")
             \/ n = 0 /\ word = "error" /\ (Fault \/ (r.pc \notin FetchPoints /\ faults' = faults))
    <3> DEFINE P(word, n) ==
                 /\ chase' = [chase EXCEPT ![b] = Answered(r, word, n)]
                 /\ \/ /\ NoFault /\ n = orders[o].filled
                       /\ word # "error" /\ (word = "closed" => orders[o].status = "closed")
                    \/ n = 0 /\ word = "error" /\ (Fault \/ (r.pc \notin FetchPoints /\ faults' = faults))
    <3>0. \A word, n : Reply(b, word, n) => chase' = [chase EXCEPT ![b] = Answered(r, word, n)]
      BY DEF Reply
    <3>1. CASE ServeFetch(b)
      <4> DEFINE w == IF orders[o].status = "closed" THEN "closed" ELSE "open"
      <4>1. \/ NoFault /\ Reply(b, w, orders[o].filled)
            \/ Fault /\ Reply(b, "error", 0)
        BY <2>1, <3>1 DEF ServeFetch
      <4>2. w # "error" /\ (w = "closed" => orders[o].status = "closed")
        OBVIOUS
      <4> HIDE DEF w
      <4>3. P(w, orders[o].filled) \/ P("error", 0)
        BY <3>0, <4>1, <4>2
      <4> QED
        BY <4>3
    <3>2. CASE ServeCancel(b)
      <4>1. r.pc \notin FetchPoints
        BY <3>2 DEF ServeCancel, Pending, CancelPoints, FetchPoints
      <4>2. \/ NoFault /\ Reply(b, "ok", orders[o].filled)
            \/ (Fault \/ faults' = faults) /\ Reply(b, "error", 0)
        BY <2>1, <3>2 DEF ServeCancel, exchangeVars
      <4>3. P("ok", orders[o].filled) \/ P("error", 0)
        BY <3>0, <4>1, <4>2
      <4> QED
        BY <4>3
    <3> QED
      BY <1>7, <3>1, <3>2
  <2>3. holding' = holding /\ swept' = swept /\ (orders' = orders \/ \E S : CancelOrders(S))
    BY <1>7 DEF ServeCancel, ServeFetch, CancelOrders, ledgerVars, exchangeVars
  <2>4. \A q \in OrderIds : LotsKept(q)
    BY <2>3, KeptAll, CancelKept
  <2> DEFINE x == Answered(r, word, n)
  <2>5. /\ x.pc = r.pc /\ x.reply = word /\ x.num = n /\ x.attempts = r.attempts
        /\ x.remaining = r.remaining /\ x.cancel = r.cancel /\ x.final = r.final
    BY <1>0, AnsweredFields
  <2>6. o \in OrderIds /\ orders[o].filled \in Nat
    BY <1>0, <2>1, MakerIds, ExchangeAssumption
    DEF Sound, TypeInv, TypeOK, ExchangeTypeOK, Order
  <2> HIDE DEF x
  <2>7. Carries(r) /\ Carries(x) /\ ~Unplaced(x) /\ ~SoldOut(x)
    BY <2>1, <2>5, CountFacts DEF Carries, Unplaced, SoldOut
  <2>8. ASSUME faults' = 0
        PROVE  faults = 0 /\ Balances(r, x, Current(b), s, holding)
    <3>1. /\ faults = 0
          /\ \/ /\ n = orders[o].filled
                /\ word # "error" /\ (word = "closed" => orders[o].status = "closed")
             \/ n = 0 /\ word = "error" /\ r.pc \notin FetchPoints
      BY <1>1, <1>3, <2>2, <2>8
    <3>2. x.pc \notin ReadPoints \cup MarketPoints \cup {"idle", "done", "breakerBalance", "finalBalance"}
      BY <2>1, <2>5 DEF HoldPoints, CancelPoints, FetchPoints, ReadPoints, MarketPoints
    <3>3. "refill" \in FetchPoints /\ "repeg" \notin FetchPoints
      BY DEF FetchPoints
    <3>4. Squares(r, Current(b), s, holding)
      BY <1>2, <3>1
    <3>5. /\ Current(b).qty = x.remaining /\ Covers(x.remaining - Current(b).filled, s, holding)
          /\ x.pc = "userCancel" => x.cancel
      BY <2>5, <2>7, <3>4 DEF Squares
    <3>6. /\ x.pc \in FetchPoints => x.reply # "error" /\ (x.reply = "closed" => Current(b).status = "closed")
          /\ x.pc = "refill" => x.num = Current(b).filled
          /\ x.num > 0 => x.num = Current(b).filled
      BY <2>1, <2>5, <3>1, <3>3
    <3>7. Squares(x, Current(b), s, holding)
      BY <2>7, <3>2, <3>5, <3>6 DEF Squares
    <3> QED
      BY <2>5, <2>7, <3>1, <3>7 DEF Balances
  <2>9. chase' = [chase EXCEPT ![b] = x]
    BY <2>2 DEF x
  <2> QED
    BY <2>3, <2>4, <2>8, <2>9, QuietTally
<1> QED
  BY <1>4, <1>5, <1>6, <1>7

\* A maker order is placed, or refused.
LEMMA ServePlaceTally ==
  ASSUME TypeInv, TypeInv', Tally, NEW b \in Brackets, ServePlace(b)
  PROVE  Tally'
<1> DEFINE r == chase[b]
           o == Maker(b, r.attempts)
           s == Spent(b)
           q == r.remaining
           rest == [status |-> "open", qty |-> q, filled |-> 0]
<1>0. /\ r \in Chase /\ Sound(b, r) /\ s \in Nat /\ holding \in Nat /\ faults \in Nat
      /\ r.attempts \in Nat /\ q \in Nat /\ orders \in [OrderIds -> Order]
  BY SpentNat DEF TypeInv, TypeOK, ExchangeTypeOK, Chase
<1>1. Fault => faults' # 0
  BY <1>0 DEF Fault
<1>2. faults = 0 => Squares(r, Current(b), s, holding) /\ Unused(b)
  BY DEF Tally
<1>3. NoFault => faults' = faults
  BY DEF NoFault
<1>4. /\ r.pc \in PlacePoints /\ r.reply = "pending" /\ r.attempts \in 1 .. MaxAttempts
      /\ o \in OrderIds
  <2>1. r.pc \in PlacePoints /\ r.reply = "pending"
    BY DEF ServePlace, Pending
  <2>2. r.attempts \in 1 .. MaxAttempts
    BY <1>0, <2>1, ExchangeAssumption DEF Sound, AttemptPoints
  <2> QED
    BY <2>1, <2>2, MakerIds
<1>5. ~Carries(r) /\ ~SoldOut(r) /\ Unplaced(r) /\ r.pc \notin {"idle", "done"}
  BY <1>4, CountFacts DEF Carries, SoldOut, Unplaced, AttemptPoints
<1>6. faults = 0 => Covers(q, s, holding)
  BY <1>2, <1>5 DEF Squares
<1>7. \A word : LET x == Answered(r, word, 0)
                IN  /\ x.pc = r.pc /\ x.reply = word /\ x.attempts = r.attempts
                    /\ x.remaining = r.remaining
  BY <1>0, AnsweredFields
<1>8. CASE Rest(o, q) /\ \E word : Reply(b, word, 0) /\ (Fault \/ (NoFault /\ word = "ok"))
  <2>1. PICK word : Reply(b, word, 0) /\ (Fault \/ (NoFault /\ word = "ok"))
    BY <1>8
  <2> DEFINE x == Answered(r, word, 0)
  <2>2. /\ chase' = [chase EXCEPT ![b] = x]
        /\ x.pc = r.pc /\ x.reply = word /\ x.attempts = r.attempts /\ x.remaining = q
    BY <1>7, <2>1 DEF Reply
  <2> HIDE DEF x
  <2>3. orders' = [orders EXCEPT ![o] = rest] /\ holding' = holding /\ swept' = swept
    BY <1>8 DEF Rest
  <2>4. orders'[o] = rest /\ \A p \in OrderIds : p # o => orders'[p] = orders[p]
    BY <1>0, <1>4, <2>3
  <2>5. rest.qty = q /\ rest.filled = 0 /\ rest.status = "open"
    OBVIOUS
  <2> HIDE DEF rest
  <2>6. OrdersAddUp'
    BY <1>0, <2>4, <2>5 DEF Tally, OrdersAddUp
  <2>7. \A c \in Brackets \ {b} :
          swept'[c] = swept[c] /\ \A n \in 1 .. MaxAttempts : LotsKept(Maker(c, n))
    <3> SUFFICES ASSUME NEW c \in Brackets \ {b}, NEW n \in 1 .. MaxAttempts
                 PROVE  LotsKept(Maker(c, n))
      BY <2>3
    <3>1. Maker(c, n) \in OrderIds /\ Maker(c, n) # o
      BY MakerIds DEF Maker
    <3> QED
      BY <2>4, <3>1 DEF LotsKept
  <2>8. ASSUME faults' = 0
        PROVE  faults = 0 /\ Unused(b)' /\ Squares(x, Current(b)', Spent(b)', holding')
    <3>1. faults = 0 /\ word = "ok"
      BY <1>1, <1>3, <2>1, <2>8
    <3>2. Carries(x) /\ ~SoldOut(x) /\ ~Unplaced(x)
      BY <1>4, <2>2, <3>1, CountFacts DEF Carries, SoldOut, Unplaced
    <3>3. chase'[b] = x
      BY <2>2 DEF TypeInv, TypeOK
    <3>4. orders[o].filled = 0
      BY <1>2, <1>4, <1>5, <3>1 DEF Unused
    <3>5. \A n \in 1 .. MaxAttempts : orders'[Maker(b, n)].filled = orders[Maker(b, n)].filled
      <4> SUFFICES ASSUME NEW n \in 1 .. MaxAttempts
                   PROVE  orders'[Maker(b, n)].filled = orders[Maker(b, n)].filled
        OBVIOUS
      <4>1. CASE Maker(b, n) = o
        BY <2>4, <2>5, <3>4, <4>1
      <4>2. CASE Maker(b, n) # o
        BY <2>4, <4>2, MakerIds
      <4> QED
        BY <4>1, <4>2
    <3>6. Made(b)' = Made(b)
      BY <3>5, MadeSame
    <3>7. Spent(b)' = s
      BY <2>3, <3>6 DEF Spent
    <3>8. Unused(b)'
      <4> SUFFICES ASSUME NEW n \in 1 .. MaxAttempts, n > r.attempts
                   PROVE  orders'[Maker(b, n)].filled = 0
        BY <2>2, <3>2, <3>3 DEF Unused, Maker, Unplaced, Carries
      <4> QED
        BY <1>2, <3>1, <3>5 DEF Unused
    <3>9. Current(b)' = rest
      BY <2>2, <2>4, <3>3 DEF Current, Maker
    <3> DEFINE cur == Current(b)'
    <3>10. cur.qty = x.remaining /\ Covers(x.remaining - cur.filled, s, holding)
      BY <1>0, <1>6, <2>2, <2>5, <3>1, <3>9
    <3>11. x.pc \notin ReadPoints \cup MarketPoints \cup FetchPoints \cup
                        {"idle", "done", "userCancel", "refill", "repeg", "breakerBalance", "finalBalance"}
      BY <1>4, <2>2 DEF PlacePoints, ReadPoints, MarketPoints, FetchPoints
    <3> HIDE DEF cur
    <3>12. Squares(x, cur, s, holding)
      BY <3>2, <3>10, <3>11 DEF Squares
    <3> QED
      BY <2>3, <3>1, <3>7, <3>8, <3>12 DEF cur
  <2>9. holding' <= holding
    BY <1>0, <2>3
  <2> QED
    BY <2>2, <2>6, <2>7, <2>8, <2>9, TallyStep
<1>9. CASE UNCHANGED <<orders, ledgerVars>>
           /\ \E word : Reply(b, word, 0) /\ (Fault \/ (NoFault /\ word # "ok"))
  <2>1. PICK word : Reply(b, word, 0) /\ (Fault \/ (NoFault /\ word # "ok"))
    BY <1>9
  <2> DEFINE x == Answered(r, word, 0)
  <2>2. /\ chase' = [chase EXCEPT ![b] = x]
        /\ x.pc = r.pc /\ x.reply = word /\ x.attempts = r.attempts /\ x.remaining = q
    BY <1>7, <2>1 DEF Reply
  <2> HIDE DEF x
  <2>3. holding' = holding /\ swept' = swept /\ \A p \in OrderIds : LotsKept(p)
    BY <1>9, KeptAll DEF ledgerVars
  <2>4. ASSUME faults' = 0
        PROVE  faults = 0 /\ Balances(r, x, Current(b), s, holding)
    <3>1. faults = 0 /\ word # "ok"
      BY <1>1, <1>3, <2>1, <2>4
    <3>2. ~Carries(x) /\ ~SoldOut(x)
      BY <1>4, <2>2, <3>1, CountFacts DEF Carries, SoldOut
    <3>3. x.pc \notin ReadPoints \cup MarketPoints \cup FetchPoints \cup
                       {"idle", "done", "userCancel", "refill", "repeg", "breakerBalance", "finalBalance"}
      BY <1>4, <2>2 DEF PlacePoints, ReadPoints, MarketPoints, FetchPoints
    <3>4. Squares(x, Current(b), s, holding)
      BY <1>6, <2>2, <3>1, <3>2, <3>3 DEF Squares
    <3> QED
      BY <1>5, <2>2, <3>1, <3>4 DEF Balances
  <2> QED
    BY <2>2, <2>3, <2>4, QuietTally
<1> QED
  <2>1. \/ Rest(o, q) /\ NoFault /\ Reply(b, "ok", 0)
        \/ Rest(o, q) /\ Fault /\ Reply(b, "error", 0)
        \/ /\ UNCHANGED <<orders, ledgerVars>>
           /\ \/ NoFault /\ Reply(b, "postonly", 0)
              \/ NoFault /\ Reply(b, "reduceonly", 0)
              \/ NoFault /\ Reply(b, "insufficient", 0)
              \/ Fault /\ Reply(b, "error", 0)
    BY DEF ServePlace
  <2>2. "postonly" # "ok" /\ "reduceonly" # "ok" /\ "insufficient" # "ok"
    OBVIOUS
  <2>3. \/ Rest(o, q) /\ \E word : Reply(b, word, 0) /\ (Fault \/ (NoFault /\ word = "ok"))
        \/ /\ UNCHANGED <<orders, ledgerVars>>
           /\ \E word : Reply(b, word, 0) /\ (Fault \/ (NoFault /\ word # "ok"))
    BY <2>1, <2>2, Zenon
  <2> QED
    BY <1>8, <1>9, <2>3

\* A sweep sells what is left, or all that the position still holds.
LEMMA ServeMarketTally ==
  ASSUME TypeInv, TypeInv', Tally, NEW b \in Brackets, ServeMarket(b)
  PROVE  Tally'
<1> DEFINE r == chase[b]
           s == Spent(b)
           q == r.num
           k == Lesser(q, holding)
<1>0. /\ r \in Chase /\ Sound(b, r) /\ s \in Nat /\ holding \in Nat /\ faults \in Nat
      /\ r.attempts \in Nat /\ r.remaining \in Nat /\ swept \in [Brackets -> Nat]
      /\ Made(b) \in Nat /\ Amount \in Nat
  BY SpentNat, ExchangeAssumption DEF TypeInv, TypeOK, ExchangeTypeOK, Chase
<1>1. Fault => faults' # 0
  BY <1>0 DEF Fault
<1>2. faults = 0 => Squares(r, Current(b), s, holding) /\ Unused(b)
  BY DEF Tally
<1>3. NoFault => faults' = faults
  BY DEF NoFault
<1>4. r.pc \in MarketPoints /\ r.reply = "pending" /\ q \in Nat
  BY <1>0 DEF ServeMarket, Pending, Sound
<1>5. ~Carries(r) /\ ~SoldOut(r) /\ ~Unplaced(r) /\ r.pc \notin {"idle", "done"}
  BY <1>4, CountFacts DEF Carries, SoldOut, Unplaced
<1>6. faults = 0 => Covers(r.remaining, s, holding) /\ (Futures => q = r.remaining)
  BY <1>2, <1>4, <1>5 DEF Squares
<1>7. PICK word : Reply(b, word, 0)
  BY DEF ServeMarket
<1> DEFINE x == Answered(r, word, 0)
<1>8. /\ chase' = [chase EXCEPT ![b] = x]
      /\ x.pc = r.pc /\ x.reply = word /\ x.attempts = r.attempts /\ x.remaining = r.remaining
  BY <1>0, <1>7, AnsweredFields DEF Reply
<1> HIDE DEF x
<1>9. orders' = orders /\ chase'[b] = x
  BY <1>8 DEF ServeMarket, SellAtMarket, TypeInv, TypeOK
<1>10. \A p : LotsKept(p)
  BY <1>9, KeptAll
<1>11. OrdersAddUp'
  BY <1>9 DEF Tally, OrdersAddUp
<1>12. Unused(b) => Unused(b)'
  BY <1>8, <1>9, <1>5 DEF Unused, Unplaced, Carries, Maker
<1>13. Made(b)' = Made(b)
  BY <1>9, MadeSame
<1>14. k \in Nat /\ k <= holding /\ k <= q
  BY <1>0, <1>4 DEF Lesser
<1>15. x.pc \notin ReadPoints \cup FetchPoints \cup HoldPoints \cup PlacePoints \cup
                  {"idle", "done", "userCancel", "refill", "repeg", "breakerBalance", "finalBalance"}
  BY <1>4, <1>8 DEF PlacePoints, ReadPoints, MarketPoints, FetchPoints, HoldPoints, CancelPoints
<1>16. ~Carries(x) /\ (SoldOut(x) <=> word = "ok")
  BY <1>4, <1>8, <1>15 DEF Carries, SoldOut
<1>17. CASE SellAtMarket(b, q) /\ (Fault \/ (NoFault /\ word = "ok"))
  <2>1. holding' = holding - k /\ swept' = [swept EXCEPT ![b] = @ + k]
    BY <1>17 DEF SellAtMarket
  <2>2. swept'[b] = swept[b] + k /\ \A c \in Brackets \ {b} : swept'[c] = swept[c]
    BY <1>0, <2>1
  <2> HIDE DEF k
  <2>3. holding' \in Nat /\ holding' <= holding
    BY <1>0, <1>14, <2>1
  <2>4. ASSUME faults' = 0
        PROVE  faults = 0 /\ Unused(b)' /\ Squares(x, Current(b)', Spent(b)', holding')
    <3>1. faults = 0 /\ word = "ok"
      BY <1>1, <1>3, <1>17, <2>4
    <3>2. Spent(b)' = IF Futures THEN s + k ELSE s
      BY <1>0, <1>13, <1>14, <2>2 DEF Spent
    <3>3. Covers(0, Spent(b)', holding')
      BY <1>0, <1>4, <1>6, <1>14, <2>1, <3>1, <3>2 DEF Covers, Lesser, k
    <3> DEFINE cur == Current(b)'
               t == Spent(b)'
    <3> HIDE DEF cur, t
    <3>4. Squares(x, cur, t, holding')
      BY <1>4, <1>8, <1>15, <1>16, <3>1, <3>3 DEF Squares, t
    <3> QED
      BY <1>2, <1>12, <3>1, <3>4 DEF cur, t
  <2> QED
    BY <1>8, <1>10, <1>11, <2>2, <2>3, <2>4, TallyStep
<1>18. CASE /\ UNCHANGED <<orders, ledgerVars>> /\ word = "error"
            /\ Fault \/ (NoFault /\ (Futures => ~(holding > 0)))
  <2>1. holding' = holding /\ swept' = swept
    BY <1>18 DEF ledgerVars
  <2>2. ASSUME faults' = 0
        PROVE  faults = 0 /\ Balances(r, x, Current(b), s, holding)
    <3>1. faults = 0 /\ (Futures => holding = 0)
      BY <1>0, <1>1, <1>3, <1>18, <2>2
    <3>2. Squares(x, Current(b), s, holding)
      BY <1>4, <1>6, <1>8, <1>15, <1>16, <1>18, <3>1 DEF Squares
    <3> QED
      BY <1>5, <1>8, <1>15, <1>16, <3>1, <3>2 DEF Balances, Unplaced
  <2> QED
    BY <1>8, <1>10, <2>1, <2>2, QuietTally
<1> QED
  <2>1. chase[b].reply = "pending" /\ \A w : Reply(b, w, 0) => w = word
    <3> SUFFICES ASSUME NEW w, Reply(b, w, 0) PROVE w = word
      BY <1>4
    <3>1. Answered(r, w, 0).reply = w
      BY <1>0, AnsweredFields
    <3>2. chase'[b] = Answered(r, w, 0)
      BY DEF Reply, TypeInv, TypeOK
    <3> QED
      BY <1>8, <1>9, <3>1, <3>2
  <2>2. \/ Reply(b, "ok", 0) /\ SellAtMarket(b, q) /\ NoFault
        \/ SellAtMarket(b, q) /\ Fault
        \/ /\ UNCHANGED <<orders, ledgerVars>> /\ Reply(b, "error", 0)
           /\ Fault \/ (NoFault /\ (Futures => ~(holding > 0)))
    BY DEF ServeMarket
  <2> HIDE DEF k, q
  <2> QED
    BY <1>17, <1>18, <2>1, <2>2 DEF q

LEMMA InvokeTally ==
  ASSUME TypeInv, TypeInv', Tally, NEW b \in Brackets, Invoke(b)
  PROVE  Tally'
<1> DEFINE r == chase[b]
           t == [r EXCEPT !.linked = Linked(sl[b]), !.remaining = Amount]
           x == Cleanup(t, b, "start")
           s == Spent(b)
<1>0. r \in Chase /\ r.pc = "idle" /\ s \in Nat /\ holding \in Nat /\ Amount \in Nat
      /\ r.attempts \in Nat
  BY SpentNat, ExchangeAssumption DEF Invoke, TypeInv, TypeOK, ExchangeTypeOK, Chase
<1>1. Linked(sl[b]) \in SUBSET OrderIds
  BY LinkedType DEF TypeInv
<1>2. t \in Chase
  BY <1>0, <1>1, Zenon DEF Chase
<1>3. t.attempts = r.attempts /\ t.cancel = r.cancel /\ t.remaining = Amount
  BY <1>0, Zenon DEF Chase
<1>4. chase' = [chase EXCEPT ![b] = x] /\ UNCHANGED exchangeVars
  BY DEF Invoke
<1> HIDE DEF t
<1>5. ASSUME faults' = 0
      PROVE  faults = 0 /\ Balances(r, x, Current(b), s, holding)
  <2>1. faults = 0
    BY <1>4, <1>5 DEF exchangeVars
  <2>2. s = 0
    BY <1>0, <2>1 DEF Tally, Squares
  <2>3. Covers(Amount, s, holding)
    BY <1>0, <2>2 DEF Covers
  <2>4. Counted(r, t, s, holding)
    BY <1>2, <1>3, <2>3 DEF Counted
  <2>5. Books(r, x, s, holding)
    BY <1>0, <2>4, CleanupBooks DEF TypeInv
  <2> QED
    BY <2>1, <2>5 DEF Balances
<1> HIDE DEF x
<1>6. holding' = holding /\ swept' = swept /\ \A o \in OrderIds : LotsKept(o)
  BY <1>4, KeptAll DEF exchangeVars, ledgerVars
<1> QED
  BY <1>4, <1>5, <1>6, QuietTally

LEMMA StopTally ==
  ASSUME TypeInv, TypeInv', Tally, NEW b \in Brackets, Stop(b) \/ ServeStop(b)
  PROVE  Tally'
<1> DEFINE r == chase[b]
           s == Spent(b)
<1>0. r \in Chase /\ s \in Nat /\ holding \in Nat /\ r.attempts \in Nat /\ faults \in Nat
      /\ chase \in [Brackets -> Chase]
  BY SpentNat DEF TypeInv, TypeOK, ExchangeTypeOK, Chase
<1>1. faults = 0 => Squares(r, Current(b), s, holding)
  BY DEF Tally
<1>2. CASE Stop(b)
  <2> DEFINE x == [r EXCEPT !.cancel = TRUE]
  <2>1. /\ x.pc = r.pc /\ x.reply = r.reply /\ x.attempts = r.attempts /\ x.num = r.num
        /\ x.remaining = r.remaining /\ x.cancel = TRUE /\ x.final = r.final
    BY <1>0 DEF Chase
  <2>2. chase' = [chase EXCEPT ![b] = x] /\ UNCHANGED exchangeVars
    BY <1>0, <1>2 DEF Stop
  <2> HIDE DEF x
  <2>3. Squares(r, Current(b), s, holding) => Squares(x, Current(b), s, holding)
    BY <2>1 DEF Squares, Carries, SoldOut, Leaves
  <2>4. Unplaced(x) => Unplaced(r)
    BY <2>1 DEF Unplaced, Carries
  <2>5. holding' = holding /\ swept' = swept /\ faults' = faults /\ \A o \in OrderIds : LotsKept(o)
    BY <2>2, KeptAll DEF exchangeVars, ledgerVars
  <2>6. faults' = 0 => faults = 0 /\ Balances(r, x, Current(b), s, holding)
    BY <1>1, <2>1, <2>3, <2>4, <2>5 DEF Balances
  <2> QED
    BY <2>2, <2>5, <2>6, QuietTally
<1>3. CASE ServeStop(b)
  <2>1. chase' = [chase EXCEPT ![b] = r]
    BY <1>0, <1>3 DEF ServeStop
  <2>2. holding' = holding /\ swept' = swept /\ (orders' = orders \/ \E S : CancelOrders(S))
    BY <1>3 DEF ServeStop, CancelOrders, ledgerVars
  <2>3. \A o \in OrderIds : LotsKept(o)
    BY <2>2, KeptAll, CancelKept
  <2>4. faults' = 0 => faults = 0
    BY <1>0, <1>3 DEF ServeStop, NoFault, Fault
  <2>5. faults' = 0 => faults = 0 /\ Balances(r, r, Current(b), s, holding)
    BY <1>1, <2>4 DEF Balances
  <2> QED
    BY <2>1, <2>2, <2>3, <2>5, QuietTally
<1> QED
  BY <1>2, <1>3

\* A fill of the order a coroutine holds moves lots from what is left to what is sold.
LEMMA FillTally ==
  ASSUME TypeInv, TypeInv', Tally, OrdersHeld, NEW o \in OrderIds, Fill(o), UNCHANGED chaseVars
  PROVE  Tally'
<1>0. orders \in [OrderIds -> Order] /\ holding \in Nat /\ holding' \in Nat /\ faults \in Nat
  BY DEF TypeInv, TypeOK, ExchangeTypeOK
<1>1. orders[o].status = "open" /\ orders[o] \in Order
  BY <1>0 DEF Fill, Open
<1>2. PICK k \in 1 .. Lesser(Left(o), holding) :
        /\ orders' = [orders EXCEPT ![o].filled = @ + k,
                                    ![o].status = IF k = Left(o) THEN "closed" ELSE "open"]
        /\ holding' = holding - k
  BY DEF Fill
<1>3. /\ orders[o].filled \in Nat /\ orders[o].qty \in Nat /\ orders[o].filled <= orders[o].qty
      /\ Left(o) = orders[o].qty - orders[o].filled
  BY <1>1 DEF Tally, OrdersAddUp, Order, Left
<1>4. k \in Nat /\ k > 0 /\ k <= Left(o) /\ k <= holding
  BY <1>0, <1>3 DEF Lesser
<1>5. /\ orders'[o].filled = orders[o].filled + k /\ orders'[o].qty = orders[o].qty
      /\ orders'[o].status = IF k = Left(o) THEN "closed" ELSE "open"
      /\ \A p \in OrderIds : p # o => orders'[p] = orders[p]
  BY <1>0, <1>1, <1>2 DEF Order
<1>6. swept' = swept /\ faults' = faults /\ chase' = chase
  BY DEF Fill, chaseVars
<1>7. OrdersAddUp'
  BY <1>3, <1>4, <1>5 DEF Tally, OrdersAddUp
<1>8. ASSUME faults = 0, NEW c \in Brackets
      PROVE  Unused(c)' /\ Squares(chase'[c], Current(c)', Spent(c)', holding')
  <2> DEFINE r == chase[c]
             m == r.attempts
             s == Spent(c)
  <2>0. Unused(c) /\ Squares(r, Current(c), s, holding) /\ s \in Nat /\ r \in Chase /\ m \in Nat
        /\ Sound(c, r) /\ Made(c) \in Nat
    BY <1>8, SpentNat DEF Tally, TypeInv, TypeOK, Chase
  <2>1. CASE \A n \in 1 .. MaxAttempts : Maker(c, n) # o
    <3>1. \A n \in 1 .. MaxAttempts : LotsKept(Maker(c, n))
      BY <1>5, <2>1, MakerIds DEF LotsKept
    <3>2. holding' <= holding
      BY <1>0, <1>2, <1>4
    <3> QED
      BY <1>6, <2>0, <3>1, <3>2, OtherTally
  <2>2. CASE \E n \in 1 .. MaxAttempts : Maker(c, n) = o
    <3>1. m \in 1 .. MaxAttempts /\ o = Maker(c, m) /\ Holds(r)
      BY <1>1, <1>8, <2>2 DEF OrdersHeld, Open
    <3>2. Carries(r) /\ ~Unplaced(r) /\ ~SoldOut(r)
      BY <3>1, CountFacts
      DEF Holds, Carries, Unplaced, SoldOut, HoldPoints, CancelPoints, FetchPoints, PlacePoints,
          MarketPoints
    <3>3. \A n \in 1 .. MaxAttempts : n # m => Maker(c, n) # o /\ Maker(c, n) \in OrderIds
      BY <3>1, MakerIds DEF Maker
    <3>4. Made(c)' = Made(c) + k
      BY <1>4, <1>5, <3>1, <3>3, MadeMore
    <3>5. Spent(c)' = s + k
      <4>1. swept[c] \in Nat
        BY DEF TypeInv, TypeOK, ExchangeTypeOK
      <4> QED
        BY <1>4, <1>6, <2>0, <3>4, <4>1 DEF Spent
    <3>6. Unused(c)'
      <4> SUFFICES ASSUME NEW n \in 1 .. MaxAttempts, n > m
                   PROVE  orders'[Maker(c, n)].filled = 0
        BY <1>6, <2>0, <3>2 DEF Unused, Maker, Unplaced, Carries
      <4> QED
        BY <1>5, <2>0, <3>3 DEF Unused
    <3>7. Current(c) = orders[o] /\ Current(c)' = orders'[o]
      BY <1>6, <3>1 DEF Current, Maker
    <3> DEFINE cur == Current(c)'
               l == holding'
               t == Spent(c)'
    <3>8. /\ cur.qty = r.remaining /\ Covers(r.remaining - cur.filled, t, l)
      BY <1>0, <1>2, <1>3, <1>4, <1>5, <2>0, <3>2, <3>5, <3>7, ExchangeAssumption
      DEF Squares, Covers, Chase
    <3> HIDE DEF cur, l, t
    <3>9. /\ r.pc \notin ReadPoints \cup MarketPoints \cup {"idle", "done", "breakerBalance", "finalBalance"}
          /\ r.pc \in FetchPoints /\ r.reply # "pending" => r.pc = "status" /\ r.reply = "open"
          /\ r.pc \in CancelPoints => r.reply = "pending"
          /\ "refill" \in FetchPoints /\ "repeg" \in CancelPoints /\ "status" # "refill"
          /\ "open" # "closed" /\ "open" # "error"
      BY <3>1 DEF Holds, ReadPoints, MarketPoints, PlacePoints, CancelPoints, FetchPoints
    <3>10. r.pc = "userCancel" => r.cancel
      BY <2>0 DEF Squares
    <3>11. Squares(r, cur, t, l)
      BY <3>2, <3>8, <3>9, <3>10 DEF Squares
    <3> QED
      BY <1>6, <3>6, <3>11 DEF cur, l, t
  <2> QED
    BY <2>1, <2>2
<1> QED
  BY <1>6, <1>7, <1>8 DEF Tally, Squares, Carries, SoldOut

LEMMA MarketTally ==
  ASSUME TypeInv, TypeInv', Tally, OrdersHeld, MarketMoves
  PROVE  Tally'
<1>1. CASE \E o \in OrderIds : Fill(o)
  BY <1>1, FillTally DEF MarketMoves
<1>2. CASE (\E o \in OrderIds : ReleaseLots(o)) \/ CloseOutside
  <2>1. orders' = orders /\ swept' = swept /\ faults' = faults /\ chase' = chase
        /\ holding \in Nat /\ holding' \in Nat
    BY <1>2 DEF MarketMoves, ReleaseLots, CloseOutside, chaseVars, TypeInv, TypeOK, ExchangeTypeOK
  <2>2. holding' <= holding
    <3>1. CASE \E o \in OrderIds : ReleaseLots(o)
      BY <2>1, <3>1 DEF ReleaseLots
    <3>2. CASE CloseOutside
      <4>1. PICK k \in 1 .. Lesser(holding, Sellable) : holding' = holding - k
        BY <3>2 DEF CloseOutside
      <4>2. Lesser(holding, Sellable) \in Int
        BY <2>1 DEF Lesser, Sellable, Free, TypeInv, TypeOK, ExchangeTypeOK
      <4> QED
        BY <2>1, <4>1, <4>2
    <3> QED
      BY <1>2, <3>1, <3>2
  <2>3. OrdersAddUp'
    BY <2>1 DEF Tally, OrdersAddUp
  <2>4. ASSUME faults = 0, NEW c \in Brackets
        PROVE  Unused(c)' /\ Squares(chase'[c], Current(c)', Spent(c)', holding')
    <3>1. \A n \in 1 .. MaxAttempts : LotsKept(Maker(c, n))
      BY <2>1, KeptAll
    <3>2. Unused(c) /\ Squares(chase[c], Current(c), Spent(c), holding)
      BY <2>4 DEF Tally
    <3> QED
      BY <2>1, <2>2, <3>1, <3>2, OtherTally
  <2> QED
    BY <2>1, <2>3, <2>4 DEF Tally, Squares, Carries, SoldOut
<1> QED
  BY <1>1, <1>2 DEF MarketMoves, Market

LEMMA InitTally == Init => Tally
<1> SUFFICES ASSUME Init PROVE Tally
  OBVIOUS
<1>0. TypeInv
  BY InitTypeInv
<1>1. \A o \in OrderIds : orders[o].filled = 0 /\ orders[o].status # "closed"
  BY DEF Init
<1>2. OrdersAddUp
  BY <1>0, <1>1 DEF OrdersAddUp, TypeInv, TypeOK, ExchangeTypeOK, Order
<1>3. ASSUME NEW b \in Brackets
      PROVE  Unused(b) /\ Squares(chase[b], Current(b), Spent(b), holding)
  <2>1. Unused(b)
    BY <1>1, MakerIds DEF Unused
  <2>2. Made(b) = 0
    <3>1. \A n \in 1 .. MaxAttempts : Fills(b)[n] = 0
      BY <1>1, MakerIds DEF Fills
    <3>2. IsFiniteSet(1 .. MaxAttempts)
      BY <1>0, FillsType
    <3> QED
      BY <3>1, <3>2, MadeIsSum, SumZero
  <2>3. Spent(b) = 0
    BY <2>2 DEF Spent, Init
  <2>4. chase[b].pc = "idle" /\ chase[b].attempts = 0
    BY DEF Init, NotStarted
  <2>5. ~Carries(chase[b]) /\ ~SoldOut(chase[b])
    BY <2>4, CountFacts DEF Carries, SoldOut
  <2> QED
    BY <2>1, <2>3, <2>4, <2>5, CountFacts DEF Squares, FetchPoints
<1> QED
  BY <1>2, <1>3 DEF Tally

LEMMA NextTally ==
  ASSUME ChaseMode = "dynamic_bbo"
  PROVE  TypeInv /\ TypeInv' /\ HeldWithinFaults /\ OrdersHeld /\ Tally /\ [Next]_vars => Tally'
<1> SUFFICES ASSUME TypeInv, TypeInv', HeldWithinFaults, OrdersHeld, Tally, [Next]_vars
             PROVE  Tally'
  OBVIOUS
<1>1. ASSUME NEW b \in Brackets, Coroutine(b) PROVE Tally'
  <2>1. CASE faults = 0
    <3>1. OrdersAddUp /\ Squares(chase[b], Current(b), Spent(b), holding)
      BY <2>1 DEF Tally
    <3>2. PICK x : /\ chase' = [chase EXCEPT ![b] = x]
                   /\ Balances(chase[b], x, Current(b), Spent(b), holding)
                   /\ UNCHANGED exchangeVars
      BY <1>1, <3>1, CoroutineBooks
    <3>3. holding' = holding /\ swept' = swept /\ orders' = orders
      BY <3>2 DEF exchangeVars, ledgerVars
    <3>4. \A o \in OrderIds : LotsKept(o)
      BY <3>3, KeptAll
    <3> QED
      BY <2>1, <3>2, <3>3, <3>4, QuietTally
  <2>2. CASE faults # 0
    <3>1. \E x : Resume(b, x) \/ Register(b, x)
      BY <1>1
      DEF Coroutine, ScanReplied, CleanupReplied, SizeReplied, RecheckReplied, BookArrives,
          SyncReplied, PlaceReplied, ResyncReplied, ReplaceReplied, RoPositionReplied,
          IsyncReplied, PositionReplied, PauseEnds, WatchEnds, WatchCancelled,
          UserCancelReplied, StatusReplied, RepegReplied, RefillReplied,
          BreakerBalanceReplied, BreakerReplied, FinalBalanceReplied, FinalReplied, Sized
    <3>2. orders' = orders /\ faults' # 0
      BY <2>2, <3>1 DEF Resume, Register, exchangeVars
    <3> QED
      BY <3>2 DEF Tally, OrdersAddUp
  <2> QED
    BY <2>1, <2>2
<1>2. CASE UNCHANGED vars
  <2>1. UNCHANGED <<orders, holding, swept, faults, chase>>
    BY <1>2 DEF vars, exchangeVars, ledgerVars, chaseVars
  <2> QED
    BY <2>1 DEF Tally, OrdersAddUp, Unused, Unplaced, Squares, Current, Spent, Made, Fills, Maker,
       Carries, SoldOut
<1> QED
  BY <1>1, <1>2, InvokeTally, ServeQuiet, ServePlaceTally, ServeMarketTally, StopTally, MarketTally
  DEF Next, Serve, AllReturned

LEMMA TallyAlways ==
  ASSUME ChaseMode = "dynamic_bbo"
  PROVE  Spec => [](TypeInv /\ Tally)
<1>1. Init => Tally
  BY InitTally
<1>2. TypeInv /\ TypeInv' /\ HeldWithinFaults /\ OrdersHeld /\ Tally /\ [Next]_vars => Tally'
  BY NextTally
<1> QED
  BY <1>1, <1>2, HeldAlways, TypeInvAlways, PTL DEF Spec

\* What the books say of the lots sold.
LEMMA TallySells == TypeInv /\ Tally => SoldWithinAmount
<1> SUFFICES ASSUME TypeInv, Tally, faults = 0, NEW b \in Brackets
             PROVE  (IF Futures THEN Sold(b) ELSE Sold(b) - swept[b]) <= Amount
  BY DEF SoldWithinAmount
<1> DEFINE r == chase[b]
           s == Spent(b)
           o == Current(b)
<1>1. Squares(r, o, s, holding) /\ s \in Nat /\ r \in Chase /\ Sound(b, r) /\ r.attempts \in Nat
      /\ r.remaining \in Nat /\ Amount \in Nat
  BY SpentNat, ExchangeAssumption DEF Tally, TypeInv, TypeOK, Chase
<1>2. Carries(r) => o.filled \in Nat /\ o.filled <= o.qty
  <2>1. Carries(r) => r.attempts \in 1 .. MaxAttempts
    BY <1>1, ExchangeAssumption DEF Carries, Sound, AttemptPoints
  <2>2. Carries(r) => Maker(b, r.attempts) \in OrderIds
    BY <2>1, MakerIds
  <2> QED
    BY <2>2 DEF Current, Tally, OrdersAddUp, TypeInv, TypeOK, ExchangeTypeOK, Order
<1>3. s <= Amount
  BY <1>1, <1>2 DEF Squares, Covers, Leaves
<1> QED
  BY <1>3, SoldIsSpent

\* For any number of brackets and attempts and any amounts, in dynamic_bbo mode: while
\* no remote call has raised, a chase sells no more than its bracket's amount, by all
\* its orders together and on futures by its sweeps on top of them, whatever fills in
\* part, is re-pegged, stopped or clamped meanwhile.
THEOREM SellsNoMore ==
  ASSUME ChaseMode = "dynamic_bbo"
  PROVE  Spec => []SoldWithinAmount
BY TallyAlways, TallySells, PTL

\* What the books say of a chase that has returned.
LEMMA TallyExits == TypeInv /\ Tally => UnstoppedChaseExits
<1> SUFFICES ASSUME TypeInv, Tally, NEW b \in Brackets, Futures, faults = 0,
                    chase[b].pc = "done", ~chase[b].cancel, chase[b].final # "aborted"
             PROVE  Sold(b) + MinQty > Amount \/ holding < MinQty
  BY DEF UnstoppedChaseExits
<1>1. Leaves(chase[b], Spent(b), holding)
  BY DEF Tally, Squares
<1> QED
  BY <1>1, SoldIsSpent DEF Leaves

\* For any number of brackets and attempts and any amounts, in dynamic_bbo mode: a
\* futures chase that nobody stops and whose calls all answer returns only when less
\* than the minimum order is left of its amount or of the position, or after three
\* reduce-only rejections.
THEOREM ChaseExits ==
  ASSUME ChaseMode = "dynamic_bbo"
  PROVE  Spec => []UnstoppedChaseExits
BY TallyAlways, TallyExits, PTL

=============================================================================
