------------------------------ MODULE LiveFeeds ------------------------------
(***************************************************************************)
(* The browser's live WebSocket feeds.  A page or hook opens its socket in *)
(* a React effect; when the key the effect depends on changes (a symbol, a *)
(* bot, an exchange, a broker), or when the component goes away, React runs *)
(* the cleanup of the old run and then the new run.  Everything else is    *)
(* asynchronous: a socket opens, fails or finishes closing, a reconnect    *)
(* timer fires, a first fetch answers, all long after the run that began   *)
(* them may be over.                                                       *)
(*                                                                         *)
(* Every feed of the front end is written by hand in one of a few dozen    *)
(* variations.  The traits below are read off the code of each; the state  *)
(* machine is common to all.                                               *)
(***************************************************************************)
EXTENDS Naturals, Sequences, FiniteSets

CONSTANTS
  Keys,      \* what a feed can be subscribed to
  Home,      \* the key looked at first
  None,      \* no message applied yet
  MaxRuns,   \* bound: how often the effect runs
  MaxDrops   \* bound: how often the server or the network ends a connection

ASSUME FeedsAssumption ==
  /\ None \notin Keys
  /\ Home \in Keys
  /\ MaxRuns \in Nat \ {0}
  /\ MaxDrops \in Nat

-----------------------------------------------------------------------------
(***************************************************************************)
(* Traits.                                                                 *)
(*   keyed    the effect depends on a key; otherwise it only runs twice    *)
(*            when StrictMode mounts a component twice                     *)
(*   idles    an empty key (or a closed panel) stops the feed without      *)
(*            unmounting, so the refs survive                              *)
(*   fetches  the socket is opened when a first request has answered       *)
(*   checks   what connect() checks: "subscribed", "notOpen", "notLive"    *)
(*   replaces connect() silences and closes the socket in the ref          *)
(*   flag     what "subscribed" is: a variable of the "run", or a ref that *)
(*            is true whenever the component is "mounted"                  *)
(*   hears    onmessage is applied when "subscribed", or "always"          *)
(*   retry    onclose sets a reconnect timer when "subscribed", "always"   *)
(*            or "never"                                                   *)
(*   timer    where that timer is kept: in the run ("own"), in a ref       *)
(*            ("ref") or nowhere; cleanup clears what is kept              *)
(*   closes   cleanup closes the run's "own" last socket or the one in the *)
(*            shared "ref"                                                 *)
(*   early    what cleanup does to a socket still connecting: "close",     *)
(*            close it once it is open ("onopen"; "hushed" if its other    *)
(*            handlers are removed too), or "leave" it                     *)
(*   mutes    cleanup removes onclose first                                *)
(*   forgets  cleanup empties the ref                                      *)
(*   releases onclose empties the ref: "mine" if it holds this socket,     *)
(*            "any" whatever it holds, "no"                                *)
(***************************************************************************)
Plain ==
  [keyed |-> TRUE, idles |-> FALSE, fetches |-> FALSE, checks |-> {},
   replaces |-> FALSE, flag |-> "run", hears |-> "always", retry |-> "never",
   timer |-> "none", closes |-> "own", early |-> "close", mutes |-> FALSE,
   forgets |-> FALSE, releases |-> "no"]

useLevel2MarketData ==
  [Plain EXCEPT !.idles = TRUE, !.checks = {"subscribed"}, !.hears = "subscribed",
                !.retry = "subscribed", !.timer = "own", !.early = "onopen"]

useGodModeData ==
  [Plain EXCEPT !.idles = TRUE, !.checks = {"subscribed"}, !.hears = "subscribed",
                !.retry = "subscribed", !.timer = "own", !.mutes = TRUE]

useSentimentSocket ==
  [Plain EXCEPT !.idles = TRUE, !.checks = {"subscribed"}, !.replaces = TRUE,
                !.hears = "subscribed", !.retry = "subscribed", !.timer = "ref",
                !.closes = "ref", !.mutes = TRUE]

useBotLogs ==
  [Plain EXCEPT !.idles = TRUE, !.hears = "subscribed", !.retry = "subscribed",
                !.closes = "ref", !.forgets = TRUE, !.releases = "any"]

useWallHunterStatus == useBotLogs

useBlockTradeSocket ==
  [Plain EXCEPT !.keyed = FALSE, !.checks = {"subscribed"}, !.hears = "subscribed",
                !.retry = "subscribed", !.timer = "own", !.closes = "ref",
                !.mutes = TRUE, !.forgets = TRUE]

useBacktestSocket ==
  [Plain EXCEPT !.keyed = FALSE, !.checks = {"subscribed", "notLive"},
                !.flag = "mounted", !.hears = "subscribed",
                !.retry = "subscribed", !.timer = "ref", !.closes = "ref",
                !.early = "hushed", !.forgets = TRUE, !.releases = "mine"]

useSystemAlerts ==
  [Plain EXCEPT !.keyed = FALSE, !.checks = {"notOpen"}, !.flag = "mounted",
                !.retry = "subscribed", !.timer = "ref", !.closes = "ref",
                !.forgets = TRUE]

SystemAlertWidget ==
  [Plain EXCEPT !.keyed = FALSE, !.checks = {"subscribed", "notOpen"},
                !.hears = "subscribed", !.retry = "subscribed", !.timer = "own",
                !.closes = "ref", !.mutes = TRUE]

MarketTicker ==
  [Plain EXCEPT !.keyed = FALSE, !.checks = {"subscribed"}, !.hears = "subscribed",
                !.retry = "subscribed", !.timer = "own", !.early = "hushed"]

MLPredictionCloudRenderer ==
  [Plain EXCEPT !.idles = TRUE, !.retry = "subscribed", !.timer = "own",
                !.closes = "ref"]

useTechnicalIndicators ==
  [Plain EXCEPT !.idles = TRUE, !.retry = "always", !.timer = "own",
                !.mutes = TRUE]

useLiquidationWebSocket ==
  [Plain EXCEPT !.retry = "always", !.timer = "ref", !.closes = "ref",
                !.mutes = TRUE]

\* The reconnect timer set by the close that cleanup itself asks for outlives
\* the run in the next six.
Market == [Plain EXCEPT !.retry = "always", !.timer = "own"]

FloatingTVChart == [Plain EXCEPT !.retry = "always", !.timer = "own"]

useMLSetupEvents ==
  [Plain EXCEPT !.idles = TRUE, !.retry = "always", !.timer = "own",
                !.closes = "ref"]

useIcebergEvents == useMLSetupEvents

useGodModeWebsocket ==
  [Plain EXCEPT !.checks = {"notOpen"}, !.retry = "always", !.timer = "ref",
                !.closes = "ref"]

useBinanceMarketData ==
  [Plain EXCEPT !.idles = TRUE, !.fetches = TRUE, !.retry = "always",
                !.closes = "ref"]

\* The rest never reconnects.
useBotStatus == [Plain EXCEPT !.idles = TRUE, !.closes = "ref"]

DatasetVisualizerModal == [Plain EXCEPT !.idles = TRUE, !.closes = "ref"]

useOrderFlowData ==
  [Plain EXCEPT !.idles = TRUE, !.hears = "subscribed", !.early = "onopen"]

GridBotCandles ==
  [Plain EXCEPT !.idles = TRUE, !.fetches = TRUE, !.checks = {"subscribed"},
                !.hears = "subscribed"]

GridBotLogs == [Plain EXCEPT !.idles = TRUE]

LiveMarketPulse == Plain

PortfolioTracker == [Plain EXCEPT !.idles = TRUE]

BotDetailsModal == [Plain EXCEPT !.idles = TRUE]

UnusualOptionsActivity == [Plain EXCEPT !.keyed = FALSE, !.idles = TRUE]

ArbitrageBot == [Plain EXCEPT !.keyed = FALSE, !.closes = "ref"]

useCorrelationSocket == [Plain EXCEPT !.keyed = FALSE, !.early = "leave"]

Dashboard == [Plain EXCEPT !.keyed = FALSE, !.early = "leave"]

BotLogViewer == [Plain EXCEPT !.early = "leave"]

ForexPairs == [Plain EXCEPT !.early = "leave"]

RLTrainingVisualizer == [Plain EXCEPT !.idles = TRUE, !.early = "leave"]

Feeds ==
  [useLevel2MarketData |-> useLevel2MarketData, useGodModeData |-> useGodModeData,
   useSentimentSocket |-> useSentimentSocket, useBotLogs |-> useBotLogs,
   useWallHunterStatus |-> useWallHunterStatus,
   useBlockTradeSocket |-> useBlockTradeSocket,
   useBacktestSocket |-> useBacktestSocket, useSystemAlerts |-> useSystemAlerts,
   SystemAlertWidget |-> SystemAlertWidget, MarketTicker |-> MarketTicker,
   MLPredictionCloudRenderer |-> MLPredictionCloudRenderer,
   useTechnicalIndicators |-> useTechnicalIndicators,
   useLiquidationWebSocket |-> useLiquidationWebSocket, Market |-> Market,
   FloatingTVChart |-> FloatingTVChart, useMLSetupEvents |-> useMLSetupEvents,
   useIcebergEvents |-> useIcebergEvents,
   useGodModeWebsocket |-> useGodModeWebsocket,
   useBinanceMarketData |-> useBinanceMarketData, useBotStatus |-> useBotStatus,
   DatasetVisualizerModal |-> DatasetVisualizerModal,
   useOrderFlowData |-> useOrderFlowData, GridBotCandles |-> GridBotCandles,
   GridBotLogs |-> GridBotLogs, LiveMarketPulse |-> LiveMarketPulse,
   PortfolioTracker |-> PortfolioTracker, BotDetailsModal |-> BotDetailsModal,
   UnusualOptionsActivity |-> UnusualOptionsActivity,
   ArbitrageBot |-> ArbitrageBot, useCorrelationSocket |-> useCorrelationSocket,
   Dashboard |-> Dashboard, BotLogViewer |-> BotLogViewer,
   ForexPairs |-> ForexPairs, RLTrainingVisualizer |-> RLTrainingVisualizer]

-----------------------------------------------------------------------------
VARIABLES
  feed,      \* the feed this behaviour is about
  mounted,   \* a run of the effect is current
  key,       \* what the user looks at
  keyOf,     \* per run of the effect, the key its closures captured
  sockets,   \* every socket opened: its run, readyState, and whether onclose is removed
  ref,       \* index of the socket in the shared ref, 0 if none
  timers,    \* runs with a reconnect timer pending
  held,      \* the run whose timer is in the shared timer ref, 0 if none
  fetching,  \* runs whose first request has not answered
  applied,   \* key of the last message applied in the current run
  drops      \* connections ended from outside

vars == <<feed, mounted, key, keyOf, sockets, ref, timers, held, fetching,
          applied, drops>>

T == Feeds[feed]
run == Len(keyOf)
Ids == 1..Len(sockets)
Ready(i) == sockets[i].ready

\* A socket of the browser: "doomed" is CONNECTING with an onopen that closes.
FeedsTypeOK ==
  /\ feed \in DOMAIN Feeds
  /\ mounted \in BOOLEAN
  /\ key \in Keys
  /\ keyOf \in Seq(Keys)
  /\ sockets \in Seq([run : 1..run,
                      ready : {"connecting", "doomed", "open", "closing", "closed"},
                      muted : BOOLEAN])
  /\ ref \in 0..Len(sockets)
  /\ timers \subseteq 1..run
  /\ held \in 0..run
  /\ fetching \subseteq 1..run
  /\ applied \in Keys \cup {None}
  /\ drops \in 0..MaxDrops

Subscribed(r) == mounted /\ (T.flag = "mounted" \/ r = run)

NewSocket(r) == [run |-> r, ready |-> "connecting", muted |-> FALSE]

\* close(): a connecting or open socket starts closing, any other stays.
Closing(s) ==
  IF s.ready \in {"connecting", "doomed", "open"}
    THEN [s EXCEPT !.ready = "closing"] ELSE s

\* What cleanup makes of the socket it closes.
DiscardedUnmuted(s) ==
  IF s.ready \notin {"connecting", "doomed"} \/ T.early = "close" THEN Closing(s)
  ELSE IF T.early \in {"onopen", "hushed"}
    THEN [s EXCEPT !.ready = "doomed", !.muted = @ \/ T.early = "hushed"]
  ELSE s
Discarded(s) == DiscardedUnmuted([s EXCEPT !.muted = @ \/ T.mutes])

Own(r) ==
  LET mine == {i \in Ids : sockets[i].run = r}
  IN  IF mine = {} THEN 0 ELSE CHOOSE i \in mine : \A j \in mine : j <= i

Target == IF T.closes = "own" THEN Own(run) ELSE ref

\* The sockets and timers once the current run's cleanup has run.
SocketsLeft == [i \in Ids |-> IF i = Target THEN Discarded(sockets[i]) ELSE sockets[i]]
TimersLeft ==
  timers \ (CASE T.timer = "own" -> {run}
              [] T.timer = "ref" -> {held}
              [] OTHER -> {})
RefLeft == IF T.forgets THEN 0 ELSE ref

\* connect() of a run goes through, given the sockets and the ref it finds.
Connects(r, ss, rf) ==
  /\ "subscribed" \in T.checks => Subscribed(r)
  /\ "notOpen" \in T.checks => rf = 0 \/ ss[rf].ready # "open"
  /\ "notLive" \in T.checks =>
       rf = 0 \/ ss[rf].ready \notin {"connecting", "doomed", "open"}

\* The sockets after connect() of run r.
Replaced(ss, rf) ==
  IF T.replaces /\ rf # 0
    THEN [ss EXCEPT ![rf] = Closing([@ EXCEPT !.muted = TRUE])] ELSE ss
Opened(r, ss, rf) == Append(Replaced(ss, rf), NewSocket(r))

-----------------------------------------------------------------------------
Init ==
  /\ feed \in DOMAIN Feeds
  /\ mounted = TRUE
  /\ key = Home
  /\ keyOf = <<key>>
  /\ sockets = IF T.fetches THEN <<>> ELSE <<NewSocket(1)>>
  /\ ref = IF T.fetches THEN 0 ELSE 1
  /\ timers = {}
  /\ held = 0
  /\ fetching = IF T.fetches THEN {1} ELSE {}
  /\ applied = None
  /\ drops = 0

\* A run of the effect starts for key k over what the cleanup left.
Start(k, ss, rf) ==
  /\ run < MaxRuns
  /\ mounted' = TRUE
  /\ key' = k
  /\ keyOf' = Append(keyOf, k)
  /\ applied' = None
  /\ IF T.fetches
       THEN /\ fetching' = fetching \cup {run + 1}
            /\ sockets' = ss
            /\ ref' = rf
       ELSE /\ UNCHANGED fetching
            /\ IF "notOpen" \in T.checks /\ rf # 0 /\ ss[rf].ready = "open"
                 THEN sockets' = ss /\ ref' = rf
                 ELSE /\ sockets' = Opened(run + 1, ss, rf)
                      /\ ref' = Len(ss) + 1

\* The key changes: cleanup of the old run, then the new run, in one commit.
\* Without a key this is StrictMode's second mount, before anything happened.
Rerun(k) ==
  /\ mounted
  /\ IF T.keyed THEN k # key
     ELSE k = key /\ run = 1 /\ \A i \in Ids : Ready(i) = "connecting"
  /\ Start(k, SocketsLeft, RefLeft)
  /\ timers' = TimersLeft
  /\ UNCHANGED <<feed, held, drops>>

\* The component unmounts, or its key is emptied: cleanup only.
Leave ==
  /\ mounted
  /\ mounted' = FALSE
  /\ sockets' = SocketsLeft
  /\ timers' = TimersLeft
  /\ ref' = RefLeft
  /\ UNCHANGED <<feed, key, keyOf, held, fetching, applied, drops>>

\* The emptied key is set again: a run without a cleanup before it.
Enter(k) ==
  /\ ~mounted
  /\ T.idles
  /\ Start(k, sockets, ref)
  /\ UNCHANGED <<feed, timers, held, drops>>

\* The first request answers (or fails) and connect() follows.
Fetched(r) ==
  /\ r \in fetching
  /\ fetching' = fetching \ {r}
  /\ IF Connects(r, sockets, ref)
       THEN sockets' = Opened(r, sockets, ref) /\ ref' = Len(sockets) + 1
       ELSE UNCHANGED <<sockets, ref>>
  /\ UNCHANGED <<feed, mounted, key, keyOf, timers, held, applied, drops>>

\* A socket opens; one whose run is over closes itself where the code says so.
\* useSystemAlerts clears the timer in its ref.
SocketOpens(i) ==
  /\ Ready(i) \in {"connecting", "doomed"}
  /\ sockets' = [sockets EXCEPT ![i].ready =
                   IF Ready(i) = "doomed" THEN "closing" ELSE "open"]
  /\ IF feed = "useSystemAlerts"
       THEN timers' = timers \ {held} /\ held' = 0
       ELSE UNCHANGED <<timers, held>>
  /\ UNCHANGED <<feed, mounted, key, keyOf, ref, fetching, applied, drops>>

\* onmessage of an open socket is applied to the component's state.
HeardAlways(i) == TRUE
Heard(i) == T.hears = "always" \/ Subscribed(sockets[i].run)
Message(i) ==
  /\ mounted
  /\ Ready(i) = "open"
  /\ Heard(i)
  /\ applied' = keyOf[sockets[i].run]
  /\ UNCHANGED <<feed, mounted, key, keyOf, sockets, ref, timers, held,
                 fetching, drops>>

\* onclose sets a reconnect timer.
RetriesOnceOpened(i) ==
  /\ ~sockets[i].muted
  /\ Ready(i) \in {"open", "closing"}
  /\ \/ T.retry = "always"
     \/ T.retry = "subscribed" /\ Subscribed(sockets[i].run)
Retries(i) ==
  /\ ~sockets[i].muted
  /\ \/ T.retry = "always"
     \/ T.retry = "subscribed" /\ Subscribed(sockets[i].run)

\* onclose runs once the connection is gone.
OnClose(i) ==
  /\ sockets' = [sockets EXCEPT ![i].ready = "closed"]
  /\ timers' = IF Retries(i)
                 THEN (timers \ (IF feed = "useBacktestSocket" THEN {held} ELSE {}))
                      \cup {sockets[i].run}
                 ELSE timers
  /\ held' = IF Retries(i) /\ T.timer = "ref" THEN sockets[i].run ELSE held
  /\ ref' = IF \/ T.releases = "any" /\ Retries(i)
               \/ T.releases = "mine" /\ ref = i
              THEN 0 ELSE ref
  /\ UNCHANGED <<feed, mounted, key, keyOf, fetching, applied>>

\* A close the page asked for completes.
Closed(i) ==
  /\ Ready(i) = "closing"
  /\ OnClose(i)
  /\ UNCHANGED drops

\* The server or the network ends a connection, or refuses one.
Drop(i) ==
  /\ drops < MaxDrops
  /\ Ready(i) \in {"connecting", "doomed", "open"}
  /\ OnClose(i)
  /\ drops' = drops + 1

\* A reconnect timer fires: connect() of the run that set it.
TimerFires(r) ==
  /\ r \in timers
  /\ timers' = timers \ {r}
  /\ IF Connects(r, sockets, ref)
       THEN sockets' = Opened(r, sockets, ref) /\ ref' = Len(sockets) + 1
       ELSE UNCHANGED <<sockets, ref>>
  /\ UNCHANGED <<feed, mounted, key, keyOf, held, fetching, applied, drops>>

Next ==
  \/ \E k \in Keys : Rerun(k) \/ Enter(k)
  \/ Leave
  \/ \E r \in fetching : Fetched(r)
  \/ \E r \in timers : TimerFires(r)
  \/ \E i \in Ids : SocketOpens(i) \/ Message(i) \/ Closed(i) \/ Drop(i)

Spec == Init /\ [][Next]_vars

\* The event loop runs every timer and callback, and a connection attempt that
\* is not refused succeeds.  Nothing makes a user act or a connection drop.
Fairness ==
  /\ WF_vars(\E r \in fetching : Fetched(r))
  /\ WF_vars(\E r \in timers : TimerFires(r))
  /\ WF_vars(\E i \in Ids : SocketOpens(i))
  /\ WF_vars(\E i \in Ids : Closed(i))

FairSpec == Spec /\ Fairness

-----------------------------------------------------------------------------
\* A feed whose handlers end with their run: they check the subscription, or
\* the cleanup leaves no socket connecting, no close handler that reconnects
\* and no request whose answer connects.
EndsWithItsRun(f) ==
  \/ f.hears = "subscribed" /\ f.flag = "run"
  \/ /\ f.early # "leave"
     /\ ~f.fetches
     /\ f.retry = "always" => f.mutes

\* The only feeds that do not: Market, FloatingTVChart, useMLSetupEvents,
\* useIcebergEvents, useGodModeWebsocket, useBinanceMarketData, BotLogViewer,
\* ForexPairs and RLTrainingVisualizer.

\* What the component shows comes from the key the user looks at: after a
\* switch no message of the previous symbol, bot or broker is applied, whatever
\* sockets, timers and requests of earlier runs are still about.
NoForeignFeed ==
  (mounted /\ T.keyed /\ EndsWithItsRun(T)) => applied \in {None, key}

\* A feed that reconnects is live again after every drop and every switch.
Live == \E i \in Ids : Ready(i) = "open" /\ keyOf[sockets[i].run] = key
FeedComesBack ==
  (T.retry # "never" /\ feed # "useGodModeWebsocket") => []<>(mounted => Live)

\* Leaving a feed, or switching it, leaves no connection of an earlier run
\* open: everything it opened is closed in the end.  The feeds left out open
\* sockets nobody closes: a timer cleanup does not clear or the close it asks
\* for reconnects, or it passes over a socket still connecting; and the close
\* of useSystemAlerts' first mount, heard during the second, connects again.
Leftover == {i \in Ids : Ready(i) # "closed" /\ ~(mounted /\ sockets[i].run = run)}
Leaks(f) == ~f.mutes /\ (f.retry = "always" \/ (f.timer = "none" /\ f.retry # "never"))
NothingIsLeftOpen ==
  (~Leaks(T) /\ T.early # "leave" /\ feed # "useSystemAlerts") => <>[](Leftover = {})
=============================================================================
