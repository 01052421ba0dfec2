---------------------------- MODULE ChartStudies ------------------------------
(* The studies of the order flow chart over one list of candles, each          *)
(* with its own loop state. The page calls them on the same list, one after    *)
(* the other, and nothing of one reaches another.                              *)
EXTENDS SmartMoney, IctConcepts, MarketBreaks, SessionStats

vars == <<candles, bar, smcVars, ictVars, kzVars, msbVars, session>>

Init == CandlesInit /\ SmcInit /\ IctInit /\ KzInit /\ MsbInit /\ StatsInit

Feed == \E s \in Shapes : Arrive(s) /\ UNCHANGED <<smcVars, ictVars, kzVars, msbVars, session>>

Study ==
  /\ Turn
  /\ SmcBar(bar + 1) /\ IctBar(bar + 1) /\ KzBar(bar + 1)
  /\ MsbBar(bar + 1) /\ StatsBar(bar + 1)

Next == Feed \/ Study

Spec == Init /\ [][Next]_vars
===============================================================================
