------------------------------ MODULE SmartMoney ------------------------------
(* calculateSMC of utils/smartMoneyConcepts.ts: market structure, order       *)
(* blocks and fair value gaps of a list of candles. One step is one turn of   *)
(* the main loop.                                                             *)
(* Settings: everything is shown, order blocks are told from noise by the     *)
(* cumulative mean range. The decorations of an event (trap, wall, footprint, *)
(* candle pattern) are left out: nothing of the state depends on them.        *)
EXTENDS Candles

CONSTANTS SwingLength,      \* candles that confirm a swing pivot
          InternalLength,   \* the same for an internal pivot (5 in the code)
          EqualLength,      \* the same for equal highs and lows
          AtrPeriod,        \* period of the average true range (200 in the code)
          EqualTenths,      \* equalHLThreshold in tenths of that average
          Confluence,       \* confluenceFilter
          MitigateOnClose,  \* obMitigation = 'Close'
          Filter,           \* which tags a kind of structure shows on a side
          BlockCount        \* blocks listed per kind

Structures == {"internal", "swing"}
Kinds == Structures \cup {"equal"}

ASSUME SizesArePositive ==
  /\ {SwingLength, InternalLength, EqualLength, AtrPeriod} \subseteq Nat \ {0}
  /\ Filter \in [Structures \X Sides -> {"All", "BOS", "CHoCH"}]

VARIABLES legs,      \* the leg each kind of pivot is on, 0 or 1
          pivots,    \* the last pivot per kind and side; at = 0: none yet
          bias,      \* the side of the last break of a structure
          trailing,  \* the extremes of the list and the candles they are at
          events,    \* the breaks shown, oldest first
          blocks,    \* order blocks per structure, newest first
          gaps,      \* fair value gaps, oldest first
          equals,    \* pairs of equal highs or lows, oldest first
          made       \* history: every order block there ever was

smcVars == <<legs, pivots, bias, trailing, events, blocks, gaps, equals, made>>

Size == [internal |-> InternalLength, swing |-> SwingLength, equal |-> EqualLength]

NoPivot == [at |-> 0, crossed |-> FALSE]

SmcInit ==
  /\ legs = [k \in Kinds |-> 0]
  /\ pivots = [k \in Kinds |-> [s \in Sides |-> NoPivot]]
  /\ bias = [k \in Structures |-> "neutral"]
  /\ trailing = [s \in Sides |-> 0]
  /\ events = <<>> /\ gaps = <<>> /\ equals = <<>>
  /\ blocks = [k \in Structures |-> <<>>]
  /\ made = {}

-------------------------------------------------------------------------------
(* Volatility.                                                               *)

CumulativeRange(b) == MapThenSumSet(TrueRange, 2 .. b)

(* Candles at least twice as long as the mean so far are read upside down.   *)
Volatile(b) ==
  IF b = 1 \/ CumulativeRange(b) = 0
  THEN High(b) > Low(b)
  ELSE (High(b) - Low(b)) * (b - 1) >= 2 * CumulativeRange(b)

ParsedHigh(b) == IF Volatile(b) THEN Low(b) ELSE High(b)
ParsedLow(b) == IF Volatile(b) THEN High(b) ELSE Low(b)

(* The average true range at b, times Scale(b); none before AtrPeriod.       *)
Scale(b) == AtrPeriod ^ (b - AtrPeriod + 1)
Atr[b \in Nat] ==
  IF b < AtrPeriod THEN 0
  ELSE IF b = AtrPeriod THEN CumulativeRange(b)
  ELSE TrueRange(b) * Scale(b - 1) + (AtrPeriod - 1) * Atr[b - 1]

-------------------------------------------------------------------------------
(* Pivots.                                                                   *)

(* 0 unless the candle size back has a lower low than every candle since, and *)
(* not a higher high than all of them: the leg before is not remembered.      *)
Leg(b, size) ==
  LET since == b - size + 1 .. b
  IN IF /\ b > size
        /\ \E j \in since : High(j) >= High(b - size)
        /\ \A j \in since : Low(b - size) < Low(j)
     THEN 1 ELSE 0

(* The leg of kind k turns at b: a pivot high when it turns to 0, which a     *)
(* bullish break passes, and a pivot low when it turns to 1.                  *)
Confirms(k, side, b) ==
  /\ Leg(b, Size[k]) # legs[k]
  /\ Leg(b, Size[k]) = IF side = "bullish" THEN 0 ELSE 1

(* Mutant: a new pivot starts as crossed as the one before. *)
NewPivotUnreset(k, side, b) ==
  IF Confirms(k, side, b) THEN [pivots[k][side] EXCEPT !.at = b - Size[k]]
                          ELSE pivots[k][side]

NewPivot(k, side, b) ==
  IF Confirms(k, side, b) THEN [at |-> b - Size[k], crossed |-> FALSE]
                          ELSE pivots[k][side]

(* The pivot before lies less than the threshold away from the new one.      *)
IsEqual(side, b) ==
  LET old == pivots["equal"][side].at
  IN /\ Confirms("equal", side, b) /\ old # 0 /\ b >= AtrPeriod
     /\ abs(Level(side, old) - Level(side, b - EqualLength)) * 10 * Scale(b)
          < EqualTenths * Atr[b]

EqualPairs(b) ==
  LET Pair(side) == IF IsEqual(side, b)
                    THEN << [side |-> side, from |-> pivots["equal"][side].at,
                             to |-> b - EqualLength] >>
                    ELSE <<>>
  IN Pair("bearish") \o Pair("bullish")

-------------------------------------------------------------------------------
(* Breaks of structure.                                                      *)

WickAllows(side, b) ==
  LET up == High(b) - BodyTop(b)
      down == BodyBottom(b) - Low(b)
  IN IF side = "bullish" THEN up > down ELSE up < down

(* An internal level that is also the swing level is left to the swing.      *)
InternalAllows(side, b) ==
  LET inner == NewPivot("internal", side, b).at
      outer == NewPivot("swing", side, b).at
  IN /\ outer # 0 => Level(side, inner) # Level(side, outer)
     /\ Confluence => WickAllows(side, b)

(* Candle b is the one that closes beyond the level of candle p.             *)
Crosses(side, p, b) ==
  /\ Beyond(side, Close(b), Level(side, p))
  /\ b = 1 \/ ~Beyond(side, Close(b - 1), Level(side, p))

Breaks(k, side, b) ==
  LET p == NewPivot(k, side, b)
  IN /\ p.at # 0 /\ ~p.crossed
     /\ k = "internal" => InternalAllows(side, b)
     /\ Crosses(side, p.at, b)

(* The bullish break of a candle is handled before the bearish one.          *)
BiasSeen(k, side, b) ==
  IF side = "bearish" /\ Breaks(k, "bullish", b) THEN "bullish" ELSE bias[k]

Tag(k, side, b) == IF BiasSeen(k, side, b) = Opposite(side) THEN "CHoCH" ELSE "BOS"

Event(k, side, b) ==
  IF Breaks(k, side, b) /\ Filter[<<k, side>>] \in {"All", Tag(k, side, b)}
  THEN << [kind |-> k, side |-> side, tag |-> Tag(k, side, b),
           from |-> NewPivot(k, side, b).at, to |-> b] >>
  ELSE <<>>

NewEvents(b) ==
  Event("internal", "bullish", b) \o Event("internal", "bearish", b)
    \o Event("swing", "bullish", b) \o Event("swing", "bearish", b)

(* The candle of the block: the most extreme one between pivot and break.    *)
BlockAt(side, from, b) ==
  LET span == from .. b - 1
      best == IF side = "bearish"
              THEN {j \in span : \A x \in span : ParsedHigh(x) <= ParsedHigh(j)}
              ELSE {j \in span : \A x \in span : ParsedLow(x) >= ParsedLow(j)}
  IN Min(best)

NewBlock(k, side, b) ==
  IF Breaks(k, side, b)
  THEN << [side |-> side, at |-> BlockAt(side, NewPivot(k, side, b).at, b), made |-> b] >>
  ELSE <<>>

NewBlocks(k, b) == NewBlock(k, "bearish", b) \o NewBlock(k, "bullish", b)

-------------------------------------------------------------------------------
(* Fair value gaps, mitigation, extremes.                                    *)

(* The middle candle moves away from candle b - 2 and candle b stays there.  *)
IsGap(side, b) ==
  /\ b > 2
  /\ IF side = "bullish"
     THEN Low(b) > High(b - 2) /\ Close(b - 1) > High(b - 2) /\ Rises(b - 1)
     ELSE High(b) < Low(b - 2) /\ Close(b - 1) < Low(b - 2) /\ Falls(b - 1)

NewGaps(b) ==
  LET One(side) == IF IsGap(side, b) THEN << [side |-> side, at |-> b] >> ELSE <<>>
  IN One("bullish") \o One("bearish")

BlockMitigated(block, b) ==
  IF block.side = "bearish"
  THEN (IF MitigateOnClose THEN Close(b) ELSE High(b)) > High(block.at)
  ELSE (IF MitigateOnClose THEN Close(b) ELSE Low(b)) < Low(block.at)

GapMitigated(gap, b) ==
  IF gap.side = "bullish" THEN Low(b) < High(gap.at - 2)
                          ELSE High(b) > Low(gap.at - 2)

(* Mutants of the splices. *)
SplicedForward(list, indices) == FoldLeft(RemoveAt, list, SetToSortSeq(indices, <))
SplicedOne(list, indices) == IF indices = {} THEN list ELSE RemoveAt(list, Max(indices))

(* The indices are spliced out one at a time, from the last to the first.    *)
Spliced(list, indices) == SplicedDown(list, indices)

Unmitigated(list, Hit(_)) == Spliced(list, {x \in DOMAIN list : Hit(list[x])})

(* The candle of the highest high (the lowest low) after b.                  *)
Extreme(side, b) ==
  LET old == trailing[side]
      p == b - SwingLength
      AtLeast(x, y) == ~Beyond(side, Level(side, y), Level(side, x))
      pivot == IF Confirms("swing", side, b) /\ (old = 0 \/ AtLeast(p, old)) THEN p ELSE old
  IN IF pivot = 0 \/ Beyond(side, Level(side, b), Level(side, pivot)) THEN b ELSE pivot

-------------------------------------------------------------------------------
(* One turn of the main loop, at candle b.                                   *)

SmcBar(b) ==
  /\ legs' = [k \in Kinds |-> Leg(b, Size[k])]
  /\ pivots' = [k \in Kinds |-> [s \in Sides |->
                  LET p == NewPivot(k, s, b)
                  IN [p EXCEPT !.crossed = @ \/ (k \in Structures /\ Breaks(k, s, b))]]]
  /\ bias' = [k \in Structures |->
                IF Breaks(k, "bearish", b) THEN "bearish" ELSE BiasSeen(k, "bearish", b)]
  /\ events' = events \o NewEvents(b)
  /\ equals' = equals \o EqualPairs(b)
  /\ trailing' = [s \in Sides |-> Extreme(s, b)]
  /\ gaps' = Unmitigated(gaps \o NewGaps(b), LAMBDA g : GapMitigated(g, b))
  /\ blocks' = [k \in Structures |->
                  Unmitigated(NewBlocks(k, b) \o blocks[k], LAMBDA o : BlockMitigated(o, b))]
  /\ made' = made \cup UNION {{[kind |-> k, block |-> o] : o \in ToSet(NewBlocks(k, b))} :
                              k \in Structures}

(* What the chart is given: the newest blocks of a kind.                     *)
ListedBlocks(k) == SubSeq(blocks[k], 1, Min({BlockCount, Len(blocks[k])}))

-------------------------------------------------------------------------------
(* Properties. Each compares what the loop has accumulated, candle by candle, *)
(* with a definition over the whole list.                                     *)

(* The gaps kept are exactly those that formed and that no candle has closed  *)
(* since, each once and in order: taking several out of the array in one turn *)
(* removes no other (detectFVG, mitigateFVGs and the splices of the loop).    *)
GapsAsDefined ==
  /\ ToSet(gaps) = {g \in [side : Sides, at : Bars] :
                      /\ IsGap(g.side, g.at)
                      /\ \A j \in g.at .. bar : ~GapMitigated(g, j)}
  /\ \A x, y \in DOMAIN gaps : x < y => gaps[x].at < gaps[y].at

(* The blocks kept are exactly those of a break that no candle has mitigated  *)
(* since the break, newest first, so that the list the chart is given leaves  *)
(* out the oldest (storeOrderBlock, mitigateOrderBlocks and the splices).     *)
BlocksAsDefined ==
  \A k \in Structures :
    /\ ToSet(blocks[k]) = {m.block : m \in {n \in made :
         /\ n.kind = k
         /\ \A j \in n.block.made .. bar : ~BlockMitigated(n.block, j)}}
    /\ \A x, y \in DOMAIN blocks[k] : x < y => blocks[k][x].made > blocks[k][y].made

(* The swing pivot of a side is marked crossed exactly when some candle since *)
(* its confirmation is the first of a move to close beyond it, and it is the  *)
(* break of no other candle: a pivot is broken once, at its first crossing.   *)
CrossingsAsDefined ==
  \A s \in Sides : LET p == pivots["swing"][s] IN p.at # 0 =>
    LET crossings == {j \in p.at + SwingLength .. bar : Crosses(s, p.at, j)}
        broken == {e \in ToSet(events) : e.kind = "swing" /\ e.side = s /\ e.from = p.at}
    IN /\ p.crossed <=> crossings # {}
       /\ Filter[<<"swing", s>>] = "All" =>
            {e.to : e \in broken} = IF crossings = {} THEN {} ELSE {Min(crossings)}

(* The strong high and the strong low of the list are its extremes, at a      *)
(* candle that has them, however pivots found late move the index.            *)
ExtremesAsDefined ==
  bar # 0 =>
    /\ High(trailing["bullish"]) = Max({High(j) : j \in Bars})
    /\ Low(trailing["bearish"]) = Min({Low(j) : j \in Bars})

(* Market structure and extremes are those of the list. *)
StructureAsDefined == CrossingsAsDefined /\ ExtremesAsDefined
===============================================================================
