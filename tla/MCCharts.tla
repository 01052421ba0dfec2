------------------------------- MODULE MCCharts -------------------------------
(* Instance of ChartStudies: seven kinds of candle, of which the first four bars  *)
(* take two, chosen so that eight bars are enough for a candle that ends two gaps *)
(* or two order blocks at once and for a break of structure after a shift; an     *)
(* overnight, a daytime and a short session.                                      *)
EXTENDS ChartStudies

Candle(o, h, l, c) == [open |-> o, high |-> h, low |-> l, close |-> c]
MCEarlyShapes == {Candle(3, 4, 1, 2), Candle(5, 6, 5, 6)}
MCShapes == MCEarlyShapes \cup
            {Candle(1, 3, 0, 3), Candle(3, 4, 2, 2), Candle(3, 8, 2, 7),
             Candle(6, 6, 1, 2), Candle(7, 9, 7, 9)}
MCFilter == [f \in Structures \X Sides |->
               IF f = <<"internal", "bullish">> THEN "CHoCH" ELSE "All"]
Window(s, e) == [start |-> s, end |-> e]
MCSessions == {Window(20, 5), Window(8, 18)}
MCStatsWindow == Window(1, 19)
MCBullets == {Window(3, 4), Window(10, 11), Window(14, 15)}
===============================================================================
