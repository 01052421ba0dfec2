----------------------------- MODULE IctConcepts ------------------------------
(* calculateLuxIctConcepts of utils/luxIctConcepts.ts: swings, order blocks   *)
(* and their breakers, structure lines, liquidity pools, fair value gaps and  *)
(* balanced ranges of a list of candles. One step is one turn of its loop.    *)
(* Left out: displacements, volume imbalances and opening gaps, which only    *)
(* copy prices of one or two candles into the result.                         *)
EXTENDS Candles

CONSTANTS SwingBars,    \* swingLength: candles on each side of a swing
          LiqMargin,    \* liqMargin: what the mean range is divided by
          Inverted,      \* fvgType = 'IFVG'
          PoolReach     \* swings a liquidity pool looks back at (50 in the code)

ASSUME SwingBarsArePositive == {SwingBars, LiqMargin, PoolReach} \subseteq Nat \ {0}

VARIABLES zz,       \* swings, newest first
          trend,    \* mssDir: the side of the last shift of structure
          lines,    \* msLines: shifts and breaks of structure
          obs,      \* order blocks, newest first; brokenAt = 0: not a breaker
          pools,    \* liqs: liquidity pools, newest first
          fvgs,     \* per side, newest first; hitAt = 0: active
          ranges    \* bprs: balanced price ranges, newest first

ictVars == <<zz, trend, lines, obs, pools, fvgs, ranges>>

IctInit ==
  /\ zz = <<>> /\ lines = <<>> /\ obs = <<>> /\ pools = <<>> /\ ranges = <<>>
  /\ trend = "none"
  /\ fvgs = [s \in Sides |-> <<>>]

(* The sum of the bodies the mean at b is taken over, and their number.       *)
BodyWindow(b) == Max({1, b - SwingBars}) .. b
BodySum(b) == MapThenSumSet(Body, BodyWindow(b))
BodyCount(b) == Cardinality(BodyWindow(b))

-------------------------------------------------------------------------------
(* Swings. A top ("bullish": what a bullish break passes) is strictly highest *)
(* among the candles around it, a bottom strictly lowest.                     *)

IsSwing(side, b) ==
  LET p == b - SwingBars
  IN /\ b > 2 * SwingBars
     /\ \A j \in (p - SwingBars .. b) \ {p} : Beyond(side, Level(side, p), Level(side, j))

NewSwings(b) ==
  LET One(s) == IF IsSwing(s, b) THEN << [side |-> s, at |-> b - SwingBars] >> ELSE <<>>
  IN One("bearish") \o One("bullish")

(* A top leaves a bearish block, a bottom a bullish one. The code's search of *)
(* the candles before finds none higher (lower): the swing is strictly so.    *)
NewObs(b) ==
  [x \in DOMAIN NewSwings(b) |->
     [side |-> Opposite(NewSwings(b)[x].side), at |-> NewSwings(b)[x].at,
      made |-> b, brokenAt |-> 0]]

BodyPasses(ob, b) ==
  IF ob.side = "bullish" THEN BodyBottom(b) < Low(ob.at) ELSE BodyTop(b) > High(ob.at)

(* Mutant: a breaker is broken again by every later body. *)
BrokenAgain(list, b) ==
  [x \in DOMAIN list |->
     IF BodyPasses(list[x], b) THEN [list[x] EXCEPT !.brokenAt = b] ELSE list[x]]

Broken(list, b) ==
  [x \in DOMAIN list |->
     IF list[x].brokenAt = 0 /\ BodyPasses(list[x], b)
     THEN [list[x] EXCEPT !.brokenAt = b] ELSE list[x]]

-------------------------------------------------------------------------------
(* Structure lines: the close passes the newest swing.                        *)

Passes(swings, b) ==
  Beyond(swings[1].side, Close(b), Level(swings[1].side, swings[1].at))

Reads(swings, b) == b > 2 * SwingBars /\ Len(swings) > 2 /\ Passes(swings, b)

LineOf(swings, b) ==
  [tag |-> IF trend = swings[1].side THEN "BOS" ELSE "MSS",
   side |-> swings[1].side, from |-> swings[1].at, to |-> b]

(* A line of a level and side that has one is filtered out again.             *)
NewLines(swings, b) ==
  IF \/ ~Reads(swings, b)
     \/ \E x \in DOMAIN lines :
          /\ lines[x].side = swings[1].side
          /\ Level(lines[x].side, lines[x].from) = Level(swings[1].side, swings[1].at)
  THEN lines
  ELSE Append(lines, LineOf(swings, b))

(* Mutant: a bullish shift does not turn the trend. *)
TrendOfBears(swings, b) ==
  IF Reads(swings, b) /\ swings[1].side = "bearish" THEN "bearish" ELSE trend

TrendAfter(swings, b) == IF Reads(swings, b) THEN swings[1].side ELSE trend

-------------------------------------------------------------------------------
(* Liquidity pools: earlier swings of the new swing's side and about its level *)

(* x is less than the margin of candle b away from y.                         *)
Within(x, y, b) == abs(x - y) * BodyCount(b) * LiqMargin < 2 * BodySum(b)
(* x is more than that margin beyond y. *)
PastMargin(side, x, y, b) ==
  (IF side = "bullish" THEN x - y ELSE y - x) * BodyCount(b) * LiqMargin > 2 * BodySum(b)

PoolMates(swings, side, b) ==
  LET level == Level(side, b - SwingBars)
      Y(x) == Level(side, swings[x].at)
      same == {x \in 2 .. Min({Len(swings), PoolReach}) : swings[x].side = side}
  IN {x \in same : /\ Within(Y(x), level, b)
                   /\ \A y \in same : y <= x => ~PastMargin(side, Y(y), level, b)}

NewPool(swings, side, b) ==
  LET mates == PoolMates(swings, side, b)
      prices == {Level(side, swings[x].at) : x \in mates} \cup {Level(side, b - SwingBars)}
  IN IF IsSwing(side, b) /\ Len(swings) > 1 /\ mates # {}
     THEN << [side |-> side, from |-> swings[Max(mates)].at, far |-> IF side = "bullish" THEN Max(prices) ELSE Min(prices),
              made |-> b, broken |-> FALSE] >>
     ELSE <<>>

ClosesPast(pool, b) == PastMargin(pool.side, Close(b), pool.far, pool.made)

Swept(list, b) ==
  [x \in DOMAIN list |-> [list[x] EXCEPT !.broken = @ \/ ClosesPast(list[x], b)]]

-------------------------------------------------------------------------------
(* Fair value gaps and balanced ranges.                                       *)

IsFvg(side, b) ==
  /\ b > 2
  /\ Body(b) * BodyCount(b) > BodySum(b)
  /\ IF side = "bullish"
     THEN Rises(b - 1) /\ (IF Inverted THEN Low(b) < High(b - 2) ELSE Low(b) > High(b - 2))
     ELSE Falls(b - 1) /\ (IF Inverted THEN High(b) > Low(b - 2) ELSE High(b) < Low(b - 2))

Edges(side, b) == IF side = "bullish" THEN {Low(b), High(b - 2)} ELSE {High(b), Low(b - 2)}
Top(f) == Max(Edges(f.side, f.at))
Bottom(f) == Min(Edges(f.side, f.at))

Hits(f, b) == IF f.side = "bullish" THEN Low(b) < Bottom(f) ELSE High(b) > Top(f)

NewFvgs(side, b) ==
  LET formed == IF IsFvg(side, b) THEN << [side |-> side, at |-> b, hitAt |-> 0] >> ELSE <<>>
      list == formed \o fvgs[side]
  IN [x \in DOMAIN list |-> IF list[x].hitAt = 0 /\ Hits(list[x], b)
                            THEN [list[x] EXCEPT !.hitAt = b] ELSE list[x]]

(* The newest gaps of both sides overlap, whether or not they are active.     *)
NewRanges(up, down, b) ==
  LET One(s, t, m) == << [side |-> s, top |-> t, bottom |-> m, made |-> b, active |-> TRUE] >>
      rise == Bottom(up) < Top(down) /\ Bottom(down) < Bottom(up)
      fall == Bottom(down) < Top(up) /\ Bottom(up) < Bottom(down)
  IN (IF fall THEN One("bearish", Top(up), Bottom(down)) ELSE <<>>)
       \o (IF rise THEN One("bullish", Top(down), Bottom(up)) ELSE <<>>)

RangeHit(r, b) == IF r.side = "bullish" THEN Low(b) < r.bottom ELSE High(b) > r.top

-------------------------------------------------------------------------------
(* One turn of the loop, at candle b.                                         *)

IctBar(b) ==
  /\ zz' = NewSwings(b) \o zz
  /\ obs' = Broken(NewObs(b) \o obs, b)
  /\ lines' = NewLines(NewSwings(b) \o zz, b)
  /\ trend' = TrendAfter(NewSwings(b) \o zz, b)
  /\ pools' = Swept(NewPool(NewSwings(b) \o zz, "bearish", b)
                      \o NewPool(NewSwings(b) \o zz, "bullish", b) \o pools, b)
  /\ fvgs' = [s \in Sides |-> NewFvgs(s, b)]
  /\ LET up == NewFvgs("bullish", b)
         down == NewFvgs("bearish", b)
         list == (IF up # <<>> /\ down # <<>> THEN NewRanges(up[1], down[1], b) ELSE <<>>)
                    \o ranges
     IN ranges' = [x \in DOMAIN list |->
                     [list[x] EXCEPT !.active = @ /\ ~RangeHit(list[x], b)]]

-------------------------------------------------------------------------------
(* Properties.                                                                *)

(* The first candle from b on that satisfies P, 0 when none does yet.         *)
FirstBar(b, P(_)) ==
  LET such == {j \in b .. bar : P(j)} IN IF such = {} THEN 0 ELSE Min(such)

(* Every zone says when it ended: an order block turned breaker at the first  *)
(* body past it, a gap was filled at the first candle through it, a pool was  *)
(* taken once a close was beyond its margin, and none ends a second time      *)
(* (the mitigation loops over obs, activeBullFVGs and liqs).                  *)
ZonesAsDefined ==
  /\ \A x \in DOMAIN obs :
       obs[x].brokenAt = FirstBar(obs[x].made, LAMBDA j : BodyPasses(obs[x], j))
  /\ \A s \in Sides : \A x \in DOMAIN fvgs[s] :
       fvgs[s][x].hitAt = FirstBar(fvgs[s][x].at, LAMBDA j : Hits(fvgs[s][x], j))
  /\ \A x \in DOMAIN pools :
       pools[x].broken <=> \E j \in pools[x].made .. bar : ClosesPast(pools[x], j)

(* The swings confirmed by candle b. Of two at one candle the code reads the  *)
(* bottom as the newer: it is put in front last.                              *)
SwingsBy(b) ==
  {w \in [side : Sides, at : 1 .. b] :
     w.at + SwingBars <= b /\ IsSwing(w.side, w.at + SwingBars)}
Newer(v, w) == v.at > w.at \/ (v.at = w.at /\ v.side = "bearish" /\ w.side = "bullish")

(* The candles whose close passes the newest of at least three swings.        *)
IsPassage(p) ==
  LET w == [side |-> p.side, at |-> p.from]
  IN /\ Beyond(p.side, Close(p.to), Level(p.side, p.from))
     /\ w \in SwingsBy(p.to)
     /\ \A v \in SwingsBy(p.to) \ {w} : Newer(w, v)
     /\ \E u, v \in SwingsBy(p.to) \ {w} : u # v
Passages(b) == {p \in [side : Sides, from : 1 .. b, to : 1 .. b] : IsPassage(p)}

(* The line p draws: a break of structure where the passage before it was of   *)
(* its side, a shift elsewhere.                                                *)
LineFor(p) ==
  LET before == Passages(p.to - 1)
  IN [tag |-> IF \E q \in before : q.side = p.side /\ \A r \in before : r.to <= q.to
              THEN "BOS" ELSE "MSS",
      side |-> p.side, from |-> p.from, to |-> p.to]
FirstOfLevel(p) ==
  \A q \in Passages(p.to - 1) :
    q.side = p.side => Level(q.side, q.from) # Level(p.side, p.from)

(* The structure lines are those of the candles that were the first to close   *)
(* past their level on that side, in order: neither what is filtered out nor   *)
(* a swing confirmed on the same candle disturbs which shift or break of       *)
(* structure a later line is (mssDir, zz and the filter of msLines).           *)
LinesAsDefined ==
  /\ ToSet(lines) = {LineFor(p) : p \in {q \in Passages(bar) : FirstOfLevel(q)}}
  /\ \A x, y \in DOMAIN lines : x < y => lines[x].to < lines[y].to
===============================================================================
