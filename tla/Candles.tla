------------------------------- MODULE Candles -------------------------------
(* The candles of a chart, oldest first. The studies drawn on the chart       *)
(* (SmartMoney, IctConcepts, Killzones) walk this list once, from its first    *)
(* candle to its last, and none looks ahead: the list can grow with the loop,  *)
(* one candle before each turn. A candle's time is its index.                  *)
EXTENDS Integers, Sequences, FiniteSetsExt, SequencesExt, TLC

CONSTANTS Shapes,      \* the candles that occur: sets of [open, high, low, close]
          EarlyShapes, \* bound: those that occur among the first EarlyBars
          EarlyBars,
          MaxBars      \* bound: candles in a list

ASSUME ShapesAreCandles ==
  /\ Shapes \subseteq [open : Int, high : Int, low : Int, close : Int]
  /\ \A s \in Shapes : /\ s.low <= s.open /\ s.open <= s.high
                       /\ s.low <= s.close /\ s.close <= s.high

VARIABLES candles,   \* the list
          bar        \* candles the loops have been over

abs(x) == IF x < 0 THEN -x ELSE x

CandlesInit == candles = <<>> /\ bar = 0

(* The list goes on while the loops are through it. *)
Arrive(shape) ==
  /\ bar = Len(candles) /\ bar < MaxBars
  /\ bar < EarlyBars => shape \in EarlyShapes
  /\ candles' = Append(candles, shape)
  /\ UNCHANGED bar

(* The loops turn to the candle that has arrived. *)
Turn ==
  /\ bar < Len(candles)
  /\ bar' = bar + 1
  /\ UNCHANGED candles

Bars == 1 .. bar

Sides == {"bullish", "bearish"}
Opposite(side) == IF side = "bullish" THEN "bearish" ELSE "bullish"

High(b) == candles[b].high
Low(b) == candles[b].low
Open(b) == candles[b].open
Close(b) == candles[b].close
BodyTop(b) == Max({Open(b), Close(b)})
BodyBottom(b) == Min({Open(b), Close(b)})
Body(b) == BodyTop(b) - BodyBottom(b)
Rises(b) == Close(b) > Open(b)
Falls(b) == Close(b) < Open(b)

(* The price a break on that side has to pass, at the candle of a pivot.     *)
Level(side, b) == IF side = "bullish" THEN High(b) ELSE Low(b)

(* x lies beyond y for a move on that side. *)
Beyond(side, x, y) == IF side = "bullish" THEN x > y ELSE x < y

(* The range of candle b, the close before it included. *)
TrueRange(b) ==
  Max({High(b) - Low(b), abs(High(b) - Close(b - 1)), abs(Low(b) - Close(b - 1))})

(* An array after elements have been spliced out of it at the indices, one at  *)
(* a time, from the last to the first; left[k]: those after the k-th are done. *)
SplicedDown(list, indices) ==
  LET left[k \in 0 .. Len(list)] ==
        IF k = Len(list) THEN list
        ELSE IF k + 1 \in indices THEN RemoveAt(left[k + 1], k + 1) ELSE left[k + 1]
  IN left[0]
===============================================================================
