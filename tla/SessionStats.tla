----------------------------- MODULE SessionStats -----------------------------
(* calculateSessions of utils/indicators.ts: range, mean and regression line   *)
(* of the trading session, kept by running sums. One step is one turn of its   *)
(* loop. Volumes, and with them the session's VWAP, are left out.              *)
EXTENDS Killzones

CONSTANT StatsWindow    \* the session's hours

VARIABLE session        \* the loop's running values

(* isTimeInSession of the candle's time. *)
InSession(b) == InWindow(StatsWindow, b)

NoSession == [in |-> FALSE, start |-> 0, count |-> 0, high |-> 0, low |-> 0,
              sumY |-> 0, sumYX |-> 0]

StatsInit == session = NoSession

Opened(b) == [in |-> TRUE, start |-> b, count |-> 1, high |-> High(b), low |-> Low(b),
              sumY |-> Close(b), sumYX |-> Close(b)]

(* Mutant: the candle is weighted before it is counted. *)
ContinuedEarly(b) ==
  [session EXCEPT !.count = @ + 1, !.high = Max({@, High(b)}), !.low = Min({@, Low(b)}),
                  !.sumY = @ + Close(b), !.sumYX = @ + Close(b) * session.count]

Continued(b) ==
  [session EXCEPT !.count = @ + 1, !.high = Max({@, High(b)}), !.low = Min({@, Low(b)}),
                  !.sumY = @ + Close(b), !.sumYX = @ + Close(b) * (session.count + 1)]

StatsBar(b) ==
  session' = IF ~InSession(b) THEN [session EXCEPT !.in = FALSE]
             ELSE IF session.in THEN Continued(b) ELSE Opened(b)

(* linReg.y1 and y2, the ends of the line, times count * (count + 1): from the *)
(* simple and the weighted mean.                                               *)
FirstEnd == 4 * session.sumY * (session.count + 1) - 6 * session.sumYX
LastEnd == 6 * session.sumYX - 2 * session.sumY * (session.count + 1)

-------------------------------------------------------------------------------
(* The line drawn for a session is the least squares line of the closes from   *)
(* the session's first candle to this one (the deviations sum to zero, and so  *)
(* do they weighted by position), though the loop only has running sums and    *)
(* the ends come out of two means; range and start are those of the session.   *)
SessionLineFits ==
  LET n == session.count
      At(j) == FirstEnd * (n - 1) + (j - 1) * (LastEnd - FirstEnd)
      Off(j) == Close(session.start + j - 1) * n * (n + 1) * (n - 1) - At(j)
      OffAt(j) == j * Off(j)
      span == session.start .. bar
  IN session.in =>
       /\ n = Cardinality(span) /\ \A b \in span : InSession(b)
       /\ session.start = 1 \/ ~InSession(session.start - 1)
       /\ session.high = Max({High(b) : b \in span})
       /\ session.low = Min({Low(b) : b \in span})
       /\ n > 1 => MapThenSumSet(Off, 1 .. n) = 0 /\ MapThenSumSet(OffAt, 1 .. n) = 0
===============================================================================
