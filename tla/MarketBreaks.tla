----------------------------- MODULE MarketBreaks -----------------------------
(* calculateMsbOb of utils/indicators.ts: a zigzag, breaks of market structure *)
(* and the order, breaker and mitigation blocks they leave behind. One step is *)
(* one turn of its loop; broken zones are deleted, as the chart asks for.      *)
EXTENDS Candles

CONSTANTS Zigzag,        \* zigzagLen
          FibHundredths  \* fibFactor in hundredths

ASSUME ZigzagIsPositive == Zigzag \in Nat \ {0} /\ FibHundredths \in Nat

VARIABLES leg,         \* trend: the direction of the zigzag
          market,      \* the side of the last break of structure
          peaks,       \* highPointsArr: candles of the high points, oldest first
          troughs,     \* lowPointsArr
          turnedAt,    \* lastTrendChangeIdx
          msbZones,    \* zones, oldest first
          msbMade      \* history: every zone there ever was

msbVars == <<leg, market, peaks, troughs, turnedAt, msbZones, msbMade>>

MsbInit ==
  /\ leg = "bullish" /\ market = "bullish"
  /\ peaks = <<>> /\ troughs = <<>> /\ turnedAt = 1
  /\ msbZones = <<>> /\ msbMade = {}

(* Candle b is the most extreme of the last Zigzag candles on that side.       *)
Reaches(side, b) ==
  \A j \in Max({1, b - Zigzag + 1}) .. b : ~Beyond(side, Level(side, j), Level(side, b))

Turns(b) == Reaches(Opposite(leg), b)

(* The first most extreme candle of the leg that ends with candle b.           *)
LegEnd(side, b) ==
  Min({j \in turnedAt .. b :
         \A x \in turnedAt .. b : ~Beyond(side, Level(side, x), Level(side, j))})

PeaksAt(b) == IF Turns(b) /\ leg = "bullish" THEN Append(peaks, LegEnd("bullish", b)) ELSE peaks
TroughsAt(b) == IF Turns(b) /\ leg = "bearish" THEN Append(troughs, LegEnd("bearish", b)) ELSE troughs

Newest(s) == s[Len(s)]
Previous(s) == s[Len(s) - 1]

(* The market is taken over by side when the newest point on that side passes  *)
(* the one before by the given share of the swing in between.                  *)
Shifts(side, hs, ls) ==
  /\ Len(hs) > 1 /\ Len(ls) > 1 /\ market = Opposite(side)
  /\ LET h0 == High(Newest(hs))  h1 == High(Previous(hs))
         l0 == Low(Newest(ls))   l1 == Low(Previous(ls))
     IN IF side = "bullish"
        THEN h0 > h1 /\ (h0 - h1) * 100 > abs(h1 - l0) * FibHundredths
        ELSE l0 < l1 /\ (l1 - l0) * 100 > abs(h0 - l1) * FibHundredths

LastOf(P(_), span, kind, side, b) ==
  LET such == {j \in span : P(j)}
  IN IF such = {} THEN <<>> ELSE << [kind |-> kind, side |-> side, at |-> Max(such), made |-> b] >>

NewZones(hs, ls, b) ==
  IF Shifts("bullish", hs, ls)
  THEN LET h1 == Previous(hs)  l0 == Newest(ls)  l1 == Previous(ls)
       IN LastOf(Falls, h1 .. l0, "OB", "bullish", b)
            \o LastOf(Rises, Max({1, l1 - Zigzag}) .. h1,
                      IF Low(l0) < Low(l1) THEN "BB" ELSE "MB", "bullish", b)
  ELSE IF Shifts("bearish", hs, ls)
  THEN LET l1 == Previous(ls)  h0 == Newest(hs)  h1 == Previous(hs)
       IN LastOf(Rises, l1 .. h0, "OB", "bearish", b)
            \o LastOf(Falls, Max({1, h1 - Zigzag}) .. l1,
                      IF High(h0) > High(h1) THEN "BB" ELSE "MB", "bearish", b)
  ELSE <<>>

ZonePassed(z, b) ==
  IF z.side = "bullish" THEN Close(b) < Low(z.at) ELSE Close(b) > High(z.at)

(* Mutant: the loop over the zones stops at the first one it deletes.          *)
UnbrokenButOne(zones, b) ==
  LET hit == {x \in DOMAIN zones : ZonePassed(zones[x], b)}
  IN IF hit = {} THEN zones ELSE RemoveAt(zones, Max(hit))

(* The loop walks the array from its end and splices as it goes.               *)
Unbroken(zones, b) == SplicedDown(zones, {x \in DOMAIN zones : ZonePassed(zones[x], b)})

(* One turn of the loop, at candle b.                                          *)
MsbBar(b) ==
  LET hs == PeaksAt(b)
      ls == TroughsAt(b)
  IN /\ peaks' = hs /\ troughs' = ls
     /\ leg' = IF Turns(b) THEN Opposite(leg) ELSE leg
     /\ turnedAt' = IF Turns(b) THEN b ELSE turnedAt
     /\ market' = IF \E s \in Sides : Shifts(s, hs, ls) THEN Opposite(market) ELSE market
     /\ msbZones' = Unbroken(msbZones \o NewZones(hs, ls, b), b)
     /\ msbMade' = msbMade \cup ToSet(NewZones(hs, ls, b))

-------------------------------------------------------------------------------
(* The zones kept are exactly those no candle has closed through since they    *)
(* were made, the candle that made them included, though the loop deletes      *)
(* from the array it walks over.                                               *)
MsbZonesAsDefined ==
  /\ ToSet(msbZones) =
       {z \in msbMade : \A j \in z.made .. bar : ~ZonePassed(z, j)}
  /\ \A x, y \in DOMAIN msbZones : x < y => msbZones[x].made <= msbZones[y].made
===============================================================================
