------------------------------ MODULE Killzones -------------------------------
(* calculateICTSuite of utils/ictKillzones.ts: trading sessions, the levels    *)
(* they leave behind, and the range of the day. One step is one turn of its    *)
(* loop. Times are whole hours of New York. Left out: opening prices, vertical *)
(* marks, day labels and opening gaps, which copy times and prices.            *)
EXTENDS Candles

CONSTANTS Sessions,     \* enabled sessions: [start, end] hours of the day
          Bullets,      \* the three silver bullet windows
          FirstHour,    \* the hour of the first candle
          Interval,     \* hours from one candle to the next
          MonthDays     \* days of the month

ASSUME HoursAreHours ==
  /\ FirstHour \in 0 .. 23 /\ {Interval, MonthDays} \subseteq Nat \ {0}
  /\ \A w \in Sessions \cup Bullets : {w.start, w.end} \subseteq 0 .. 23

VARIABLES trackers,   \* per session: whether the loop is inside, and since when
          zones,      \* killzones: the sessions that have ended, oldest first
          levels,     \* pivots: highs and lows of those; hitAt = 0: unmitigated
          bullets,    \* silverBullets, keyed by window and day
          day         \* day, high and low of the current day

kzVars == <<trackers, zones, levels, bullets, day>>

Hour(b) == (FirstHour + (b - 1) * Interval) % 24
(* Days are told apart by their number in the month alone. *)
Day(b) == 1 + (((FirstHour + (b - 1) * Interval) \div 24) % MonthDays)

(* isTimeInSession: a session that does not start before it ends is overnight. *)
InWindow(w, b) ==
  IF w.start < w.end THEN w.start <= Hour(b) /\ Hour(b) < w.end
                     ELSE w.start <= Hour(b) \/ Hour(b) < w.end

Span(b) == [from |-> b, high |-> High(b), low |-> Low(b)]
Widened(r, b) == [r EXCEPT !.high = Max({@, High(b)}), !.low = Min({@, Low(b)})]
Outside == [in |-> FALSE, range |-> [from |-> 0, high |-> 0, low |-> 0]]

KzInit ==
  /\ trackers = [w \in Sessions |-> Outside]
  /\ zones = {} /\ levels = {} /\ bullets = {}
  /\ day = [day |-> 0, range |-> Outside.range]

(* Mutant: a session goes on from the range of the one before. *)
TrackedUnreset(w, b) ==
  LET t == trackers[w]
  IN IF ~InWindow(w, b) THEN [t EXCEPT !.in = FALSE]
     ELSE [in |-> TRUE, range |-> IF t.range.from # 0 THEN Widened(t.range, b) ELSE Span(b)]

Tracked(w, b) ==
  LET t == trackers[w]
  IN IF ~InWindow(w, b) THEN [t EXCEPT !.in = FALSE]
     ELSE [in |-> TRUE, range |-> IF t.in THEN Widened(t.range, b) ELSE Span(b)]

(* The sessions that end with candle b, which is the first one outside.        *)
Ended(b) == {w \in Sessions : trackers[w].in /\ ~InWindow(w, b)}

Left(w, b) == [window |-> w, range |-> trackers[w].range, to |-> b]

Price(l) == IF l.side = "bullish" THEN l.zone.range.high ELSE l.zone.range.low

(* Levels made by candle b are already tested against it.                      *)
Tested(l, b) ==
  IF l.hitAt = 0 /\ Beyond(l.side, Level(l.side, b), Price(l)) THEN [l EXCEPT !.hitAt = b] ELSE l

Fired(w, b) ==
  LET same == {s \in bullets : s.window = w /\ s.day = Day(b)}
  IN (bullets \ same) \cup
     {[window |-> w, day |-> Day(b), range |-> Span(b)] : x \in IF same = {} THEN {w} ELSE {}}
       \cup {[s EXCEPT !.range = Widened(@, b)] : s \in same}

KzBar(b) ==
  /\ day' = IF Day(b) # day.day THEN [day |-> Day(b), range |-> Span(b)]
            ELSE [day EXCEPT !.range = Widened(@, b)]
  /\ bullets' = IF \E w \in Bullets : InWindow(w, b)
                THEN Fired(CHOOSE w \in Bullets : InWindow(w, b), b) ELSE bullets
  /\ trackers' = [w \in Sessions |-> Tracked(w, b)]
  /\ zones' = zones \cup {Left(w, b) : w \in Ended(b)}
  /\ levels' = {Tested(l, b) : l \in levels \cup
                  [zone : {Left(w, b) : w \in Ended(b)}, side : Sides, hitAt : {0}]}

-------------------------------------------------------------------------------
(* Properties.                                                                 *)

(* A session listed is a longest run of candles inside its window, with the    *)
(* range of exactly those candles; its two levels are there and mitigated at   *)
(* the first candle beyond them, the one that ended the session included (the  *)
(* trackers and the mitigation loop).                                          *)
SessionsAsDefined ==
  LET Inside(w, f, t) == \A j \in f .. t : InWindow(w, j)
      runs == {r \in [window : Sessions, from : Bars, to : Bars] :
                 /\ r.from < r.to /\ Inside(r.window, r.from, r.to - 1)
                 /\ ~InWindow(r.window, r.to)
                 /\ r.from = 1 \/ ~InWindow(r.window, r.from - 1)}
  IN /\ zones = {[window |-> r.window, to |-> r.to,
                  range |-> [from |-> r.from,
                             high |-> Max({High(j) : j \in r.from .. r.to - 1}),
                             low |-> Min({Low(j) : j \in r.from .. r.to - 1})]] : r \in runs}
     /\ {[zone |-> l.zone, side |-> l.side] : l \in levels} = [zone : zones, side : Sides]
     /\ \A l \in levels :
          LET past == {j \in l.zone.to .. bar : Beyond(l.side, Level(l.side, j), Price(l))}
          IN l.hitAt = IF past = {} THEN 0 ELSE Min(past)
===============================================================================
