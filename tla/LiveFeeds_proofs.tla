--------------------------- MODULE LiveFeeds_proofs ---------------------------
(***************************************************************************)
(* TLAPS proofs about LiveFeeds, for any keys, runs and dropped            *)
(* connections: its types, and that no feed whose handlers end with their  *)
(* run shows a message of another key.                                     *)
(***************************************************************************)
EXTENDS LiveFeeds, SequenceTheorems, TLAPS

Sockets(n) ==
  [run : 1..n, ready : {"connecting", "doomed", "open", "closing", "closed"},
   muted : BOOLEAN]

(***************************************************************************)
(* Type correctness.  Beyond the types: there is a current run, and the    *)
(* closures of that run captured the key the user looks at.                *)
(***************************************************************************)
TypeInv == FeedsTypeOK /\ run \in Nat \ {0} /\ keyOf[run] = key

LEMMA TypeFacts ==
  ASSUME TypeInv
  PROVE  /\ sockets \in Seq(Sockets(run)) /\ keyOf \in Seq(Keys) /\ Len(sockets) \in Nat
         /\ \A i \in Ids : /\ sockets[i] \in Sockets(run) /\ sockets[i].run \in 1..run
                           /\ keyOf[sockets[i].run] \in Keys
         /\ ref \in 0..Len(sockets) /\ timers \subseteq 1..run /\ held \in 0..run
         /\ fetching \subseteq 1..run /\ run \in Nat \ {0} /\ mounted \in BOOLEAN
<1>1. sockets \in Seq(Sockets(run)) /\ keyOf \in Seq(Keys)
  BY DEF TypeInv, FeedsTypeOK, Sockets
<1>2. Len(sockets) \in Nat
  BY <1>1
<1>3. \A i \in Ids : sockets[i] \in Sockets(run)
  BY <1>1, ElementOfSeq DEF Ids
<1>4. \A r \in 1..run : keyOf[r] \in Keys
  BY <1>1, ElementOfSeq DEF run
<1>5. \A i \in Ids : sockets[i].run \in 1..run
  BY <1>3 DEF Sockets
<1> QED
  BY <1>1, <1>2, <1>3, <1>4, <1>5 DEF TypeInv, FeedsTypeOK

\* What a step makes of one socket leaves it a socket.
LEMMA SocketKept ==
  ASSUME NEW n \in Nat, NEW s \in Sockets(n)
  PROVE  /\ \A b \in BOOLEAN : [s EXCEPT !.muted = b] \in Sockets(n)
         /\ \A w \in {"connecting", "doomed", "open", "closing", "closed"} :
              [s EXCEPT !.ready = w] \in Sockets(n)
         /\ s.run \in 1..n /\ s.muted \in BOOLEAN
  BY DEF Sockets

LEMMA ClosingKept ==
  ASSUME NEW n \in Nat, NEW s \in Sockets(n) PROVE Closing(s) \in Sockets(n)
  BY SocketKept DEF Closing

LEMMA DiscardedKept ==
  ASSUME NEW n \in Nat, NEW s \in Sockets(n) PROVE Discarded(s) \in Sockets(n)
<1> DEFINE q == [s EXCEPT !.muted = @ \/ T.mutes]
<1>1. q \in Sockets(n)
  BY DEF Sockets
<1>2. [q EXCEPT !.ready = "doomed", !.muted = @ \/ T.early = "hushed"] \in Sockets(n)
  BY <1>1 DEF Sockets
<1> QED
  BY <1>1, <1>2, ClosingKept DEF Discarded, DiscardedUnmuted

LEMMA SocketsLeftKept ==
  ASSUME TypeInv
  PROVE  /\ SocketsLeft \in Seq(Sockets(run)) /\ Len(SocketsLeft) = Len(sockets)
         /\ RefLeft \in 0..Len(sockets) /\ TimersLeft \subseteq timers
<1>1. \A i \in Ids : SocketsLeft[i] \in Sockets(run)
  BY TypeFacts, DiscardedKept DEF SocketsLeft
<1>2. SocketsLeft = [i \in 1..Len(sockets) |-> SocketsLeft[i]]
  BY DEF SocketsLeft, Ids
<1>3. SocketsLeft \in Seq(Sockets(run)) /\ Len(SocketsLeft) = Len(sockets)
  <2>1. SocketsLeft \in [1..Len(sockets) -> Sockets(run)]
    BY <1>1, <1>2 DEF Ids
  <2> QED
    BY <2>1, TypeFacts, IsASeq, SeqDef, LenProperties
<1> QED
  BY <1>3, TypeFacts DEF RefLeft, TimersLeft

\* connect() appends one socket, which the ref then names.
LEMMA OpenedKept ==
  ASSUME NEW n \in Nat \ {0}, NEW r \in 1..n, NEW ss \in Seq(Sockets(n)), NEW rf \in 0..Len(ss)
  PROVE  /\ Opened(r, ss, rf) \in Seq(Sockets(n)) /\ Len(Opened(r, ss, rf)) = Len(ss) + 1
         /\ Len(ss) \in Nat
<1>1. Replaced(ss, rf) \in Seq(Sockets(n)) /\ Len(Replaced(ss, rf)) = Len(ss)
  <2>1. CASE T.replaces /\ rf # 0
    <3>1. rf \in 1..Len(ss) /\ ss[rf] \in Sockets(n)
      BY <2>1, ElementOfSeq
    <3> DEFINE q == Closing([ss[rf] EXCEPT !.muted = TRUE])
    <3>2. q \in Sockets(n)
      BY <3>1, SocketKept, ClosingKept
    <3>3. Replaced(ss, rf) = [ss EXCEPT ![rf] = q]
      BY <2>1 DEF Replaced
    <3> QED
      BY <3>1, <3>2, <3>3, ExceptSeq
  <2>2. CASE ~(T.replaces /\ rf # 0)
    BY <2>2 DEF Replaced
  <2> QED
    BY <2>1, <2>2
<1>2. NewSocket(r) \in Sockets(n)
  BY DEF NewSocket, Sockets
<1> QED
  BY <1>1, <1>2, AppendProperties DEF Opened

LEMMA MoreRuns ==
  ASSUME NEW n \in Nat PROVE Seq(Sockets(n)) \subseteq Seq(Sockets(n + 1))
<1>1. Sockets(n) \subseteq Sockets(n + 1)
  BY DEF Sockets
<1> QED
  BY <1>1, SeqMonotonic

LEMMA InitTypeInv == Init => TypeInv
<1> SUFFICES ASSUME Init PROVE TypeInv
  OBVIOUS
<1>1. keyOf = <<Home>> /\ keyOf \in Seq(Keys) /\ run = 1 /\ keyOf[1] = Home /\ key = Home
  BY FeedsAssumption DEF Init, run
<1>2. NewSocket(1) \in Sockets(1)
  BY DEF NewSocket, Sockets
<1>3. sockets \in Seq(Sockets(1)) /\ ref \in 0..Len(sockets)
  BY <1>2 DEF Init
<1>4. fetching \subseteq 1..1 /\ timers \subseteq 1..1 /\ held \in 0..1 /\ drops \in 0..MaxDrops
  BY FeedsAssumption DEF Init
<1> QED
  BY <1>1, <1>3, <1>4, FeedsAssumption DEF Init, TypeInv, FeedsTypeOK, Sockets

LEMMA StartKept ==
  ASSUME TypeInv, NEW k \in Keys, NEW ss \in Seq(Sockets(run)), NEW rf \in 0..Len(ss),
         Start(k, ss, rf)
  PROVE  /\ keyOf' \in Seq(Keys) /\ run' = run + 1 /\ keyOf'[run'] = key' /\ key' = k
         /\ sockets' \in Seq(Sockets(run')) /\ ref' \in 0..Len(sockets')
         /\ fetching' \subseteq 1..run' /\ applied' = None /\ mounted' = TRUE
<1>1. keyOf' = Append(keyOf, k) /\ key' = k /\ applied' = None /\ mounted' = TRUE
  BY DEF Start
<1>2. keyOf' \in Seq(Keys) /\ run' = run + 1 /\ keyOf'[run'] = k
  BY <1>1, TypeFacts, AppendProperties DEF run
<1>3. ss \in Seq(Sockets(run + 1)) /\ run \in Nat \ {0}
  BY TypeFacts, MoreRuns
<1>4. sockets' \in Seq(Sockets(run + 1)) /\ ref' \in 0..Len(sockets')
  <2>1. CASE sockets' = ss /\ ref' = rf
    BY <1>3, <2>1
  <2>2. CASE sockets' = Opened(run + 1, ss, rf) /\ ref' = Len(ss) + 1
    BY <1>3, <2>2, OpenedKept
  <2> QED
    BY <2>1, <2>2 DEF Start
<1>5. fetching' \subseteq 1..(run + 1)
  BY <1>3, TypeFacts DEF Start
<1> QED
  BY <1>1, <1>2, <1>4, <1>5

LEMMA OnCloseKept ==
  ASSUME TypeInv, NEW i \in Ids, OnClose(i), drops' \in 0..MaxDrops PROVE TypeInv'
<1>1. [sockets[i] EXCEPT !.ready = "closed"] \in Sockets(run)
  BY TypeFacts, SocketKept
<1>2. sockets' = [sockets EXCEPT ![i] = [sockets[i] EXCEPT !.ready = "closed"]]
  BY DEF OnClose
<1>3. sockets' \in Seq(Sockets(run)) /\ Len(sockets') = Len(sockets)
  BY <1>1, <1>2, TypeFacts, ExceptSeq DEF Ids
<1>4. timers' \subseteq 1..run /\ held' \in 0..run /\ ref' \in 0..Len(sockets')
  BY <1>3, TypeFacts DEF OnClose
<1>5. run' = run /\ keyOf' = keyOf /\ key' = key
  BY DEF OnClose, run
<1>6. UNCHANGED <<feed, mounted, key, keyOf, fetching, applied>>
  BY DEF OnClose
<1> QED
  BY <1>3, <1>4, <1>5, <1>6 DEF TypeInv, FeedsTypeOK, Sockets

\* connect() of a later callback, for a run that has been.
LEMMA ConnectKept ==
  ASSUME TypeInv, NEW r \in 1..run,
         \/ sockets' = Opened(r, sockets, ref) /\ ref' = Len(sockets) + 1
         \/ UNCHANGED <<sockets, ref>>
  PROVE  sockets' \in Seq(Sockets(run)) /\ ref' \in 0..Len(sockets')
  BY TypeFacts, OpenedKept

LEMMA NextTypeInv == TypeInv /\ [Next]_vars => TypeInv'
<1> SUFFICES ASSUME TypeInv, [Next]_vars PROVE TypeInv'
  OBVIOUS
<1> USE FeedsAssumption
<1>1. ASSUME NEW k \in Keys, Rerun(k) PROVE TypeInv'
  <2>1. Start(k, SocketsLeft, RefLeft) /\ timers' = TimersLeft /\ UNCHANGED <<feed, held, drops>>
    BY <1>1 DEF Rerun
  <2>2. SocketsLeft \in Seq(Sockets(run)) /\ RefLeft \in 0..Len(SocketsLeft) /\ TimersLeft \subseteq 1..run
    BY SocketsLeftKept, TypeFacts
  <2>3. /\ keyOf' \in Seq(Keys) /\ run' = run + 1 /\ keyOf'[run'] = key' /\ key' = k
        /\ sockets' \in Seq(Sockets(run')) /\ ref' \in 0..Len(sockets')
        /\ fetching' \subseteq 1..run' /\ applied' = None /\ mounted' = TRUE
    BY <2>1, <2>2, StartKept
  <2> QED
    BY <2>1, <2>2, <2>3, TypeFacts DEF TypeInv, FeedsTypeOK, Sockets
<1>2. ASSUME NEW k \in Keys, Enter(k) PROVE TypeInv'
  <2>1. Start(k, sockets, ref) /\ UNCHANGED <<feed, timers, held, drops>>
    BY <1>2 DEF Enter
  <2>2. /\ keyOf' \in Seq(Keys) /\ run' = run + 1 /\ keyOf'[run'] = key' /\ key' = k
        /\ sockets' \in Seq(Sockets(run')) /\ ref' \in 0..Len(sockets')
        /\ fetching' \subseteq 1..run' /\ applied' = None /\ mounted' = TRUE
    BY <2>1, StartKept, TypeFacts
  <2> QED
    BY <2>1, <2>2, TypeFacts DEF TypeInv, FeedsTypeOK, Sockets
<1>3. CASE Leave
  <2>1. sockets' = SocketsLeft /\ timers' = TimersLeft /\ ref' = RefLeft /\ mounted' = FALSE
    BY <1>3 DEF Leave
  <2>2. UNCHANGED <<feed, key, keyOf, held, fetching, applied, drops>> /\ run' = run
    BY <1>3 DEF Leave, run
  <2> QED
    BY <2>1, <2>2, SocketsLeftKept, TypeFacts DEF TypeInv, FeedsTypeOK, Sockets
<1>4. ASSUME NEW r \in fetching, Fetched(r) PROVE TypeInv'
  <2>1. UNCHANGED <<feed, mounted, key, keyOf, timers, held, applied, drops>> /\ run' = run
        /\ fetching' = fetching \ {r}
    BY <1>4 DEF Fetched, run
  <2>2. sockets' \in Seq(Sockets(run)) /\ ref' \in 0..Len(sockets')
    BY <1>4, TypeFacts, ConnectKept DEF Fetched
  <2> QED
    BY <2>1, <2>2, TypeFacts DEF TypeInv, FeedsTypeOK, Sockets
<1>5. ASSUME NEW r \in timers, TimerFires(r) PROVE TypeInv'
  <2>1. UNCHANGED <<feed, mounted, key, keyOf, held, fetching, applied, drops>> /\ run' = run
        /\ timers' = timers \ {r}
    BY <1>5 DEF TimerFires, run
  <2>2. sockets' \in Seq(Sockets(run)) /\ ref' \in 0..Len(sockets')
    BY <1>5, TypeFacts, ConnectKept DEF TimerFires
  <2> QED
    BY <2>1, <2>2, TypeFacts DEF TypeInv, FeedsTypeOK, Sockets
<1>6. ASSUME NEW i \in Ids, SocketOpens(i) PROVE TypeInv'
  <2>1. PICK w \in {"closing", "open"} : sockets' = [sockets EXCEPT ![i].ready = w]
    BY <1>6 DEF SocketOpens
  <2>2. sockets' = [sockets EXCEPT ![i] = [sockets[i] EXCEPT !.ready = w]]
    BY <2>1
  <2>3. [sockets[i] EXCEPT !.ready = w] \in Sockets(run)
    BY TypeFacts, SocketKept
  <2>4. sockets' \in Seq(Sockets(run)) /\ Len(sockets') = Len(sockets)
    BY <2>2, <2>3, TypeFacts, ExceptSeq DEF Ids
  <2>5. UNCHANGED <<feed, mounted, key, keyOf, ref, fetching, applied, drops>> /\ run' = run
        /\ timers' \subseteq timers /\ held' \in {0, held}
    BY <1>6 DEF SocketOpens, run
  <2> QED
    BY <2>4, <2>5, TypeFacts DEF TypeInv, FeedsTypeOK, Sockets
<1>7. ASSUME NEW i \in Ids, Message(i) PROVE TypeInv'
  <2>1. applied' \in Keys
    BY <1>7, TypeFacts DEF Message
  <2> QED
    BY <1>7, <2>1, TypeFacts DEF Message, TypeInv, FeedsTypeOK, Sockets, run
<1>8. ASSUME NEW i \in Ids, Closed(i) PROVE TypeInv'
  <2>1. drops' \in 0..MaxDrops
    BY <1>8 DEF Closed, TypeInv, FeedsTypeOK
  <2> QED
    BY <1>8, <2>1, OnCloseKept DEF Closed
<1>9. ASSUME NEW i \in Ids, Drop(i) PROVE TypeInv'
  <2>1. drops' \in 0..MaxDrops
    BY <1>9 DEF Drop, TypeInv, FeedsTypeOK
  <2> QED
    BY <1>9, <2>1, OnCloseKept DEF Drop
<1>10. CASE UNCHANGED vars
  BY <1>10 DEF vars, TypeInv, FeedsTypeOK, run
<1> QED
  BY <1>1, <1>2, <1>3, <1>4, <1>5, <1>6, <1>7, <1>8, <1>9, <1>10 DEF Next

LEMMA TypeInvAlways == Spec => []TypeInv
  BY InitTypeInv, NextTypeInv, PTL DEF Spec

\* For any keys, runs of the effect and dropped connections, for each of the 34
\* feeds: a socket belongs to a run that has been, the shared ref and the shared
\* timer name one that was opened or set, whatever callbacks come late.
THEOREM FeedsTypes == Spec => []FeedsTypeOK
<1>1. TypeInv => FeedsTypeOK
  BY DEF TypeInv
<1> QED
  BY <1>1, TypeInvAlways, PTL

(***************************************************************************)
(* No message of another key.  A feed that asks on every message whether   *)
(* its run is current needs no more.  The others apply whatever an open    *)
(* socket says, and are right only because at most one socket of theirs    *)
(* is ever alive: the current run's, the last one opened, the one in the   *)
(* ref.  For that every socket on its way out must have lost its power to  *)
(* reconnect, and a pending timer must be one that cleanup can clear.      *)
(***************************************************************************)
Asks(f) == f.hears = "subscribed" /\ f.flag = "run"

KeepsOne(f) ==
  /\ f.flag = "run" /\ f.early = "close" /\ ~f.fetches /\ ~f.replaces /\ f.checks = {}
  /\ f.closes \in {"own", "ref"} /\ f.retry \in {"never", "subscribed", "always"}
  /\ f.retry = "always" => f.mutes
  /\ f.retry # "never" => f.timer \in {"own", "ref"}
  /\ f.mutes \in BOOLEAN /\ ~f.forgets /\ f.releases = "no"

Alive(i) == Ready(i) \in {"connecting", "open"}

Sole ==
  /\ fetching = {}
  /\ \A i \in Ids :
       /\ Ready(i) # "doomed"
       /\ Alive(i) => /\ mounted /\ sockets[i].run = run /\ i = ref /\ i = Len(sockets)
                      /\ timers = {}
       /\ Ready(i) = "closing" =>
            /\ ~(mounted /\ sockets[i].run = run)
            /\ T.mutes => sockets[i].muted
  /\ \A r \in timers : mounted /\ r = run /\ (T.timer = "ref" => held = r) /\ T.retry # "never"

One == T.keyed /\ ~Asks(T) /\ EndsWithItsRun(T)

FeedInv == (One => Sole) /\ NoForeignFeed

LEMMA Traits ==
  ASSUME NEW f \in DOMAIN Feeds, Feeds[f].keyed, EndsWithItsRun(Feeds[f]), ~Asks(Feeds[f])
  PROVE  KeepsOne(Feeds[f])
<1> DEFINE Good(t) == t.keyed /\ EndsWithItsRun(t) /\ ~Asks(t) => KeepsOne(t)
<1>1. Good(useLevel2MarketData) /\ Good(useGodModeData) /\ Good(useSentimentSocket) /\
     Good(useBotLogs) /\ Good(useWallHunterStatus)
  BY DEF Asks, KeepsOne, EndsWithItsRun, Plain, useLevel2MarketData, useGodModeData,
     useSentimentSocket, useBotLogs, useWallHunterStatus
<1>2. Good(useBlockTradeSocket) /\ Good(useBacktestSocket) /\ Good(useSystemAlerts) /\
     Good(SystemAlertWidget) /\ Good(MarketTicker)
  BY DEF Asks, KeepsOne, EndsWithItsRun, Plain, useBlockTradeSocket, useBacktestSocket,
     useSystemAlerts, SystemAlertWidget, MarketTicker
<1>3. Good(MLPredictionCloudRenderer) /\ Good(useTechnicalIndicators) /\
     Good(useLiquidationWebSocket)
  BY DEF Asks, KeepsOne, EndsWithItsRun, Plain, MLPredictionCloudRenderer,
     useTechnicalIndicators, useLiquidationWebSocket
<1>4. Good(Market) /\ Good(FloatingTVChart) /\ Good(useMLSetupEvents) /\
     Good(useIcebergEvents) /\ Good(useGodModeWebsocket) /\ Good(useBinanceMarketData)
  BY DEF Asks, KeepsOne, EndsWithItsRun, Plain, Market, FloatingTVChart, useMLSetupEvents,
     useIcebergEvents, useGodModeWebsocket, useBinanceMarketData
<1>5. Good(useBotStatus) /\ Good(DatasetVisualizerModal) /\ Good(useOrderFlowData) /\
     Good(GridBotCandles) /\ Good(GridBotLogs) /\ Good(LiveMarketPulse) /\
     Good(PortfolioTracker) /\ Good(BotDetailsModal)
  BY DEF Asks, KeepsOne, EndsWithItsRun, Plain, useBotStatus, DatasetVisualizerModal,
     useOrderFlowData, GridBotCandles, GridBotLogs, LiveMarketPulse, PortfolioTracker,
     BotDetailsModal
<1>6. Good(UnusualOptionsActivity) /\ Good(ArbitrageBot) /\ Good(useCorrelationSocket) /\
     Good(Dashboard) /\ Good(BotLogViewer) /\ Good(ForexPairs) /\ Good(RLTrainingVisualizer)
  BY DEF Asks, KeepsOne, EndsWithItsRun, Plain, UnusualOptionsActivity, ArbitrageBot,
     useCorrelationSocket, Dashboard, BotLogViewer, ForexPairs, RLTrainingVisualizer
<1> HIDE DEF Good
<1>7. Good(Feeds[f])
  BY <1>1, <1>2, <1>3, <1>4, <1>5, <1>6 DEF Feeds
<1> QED
  BY <1>7 DEF Good

LEMMA OneKeepsOne ==
  ASSUME TypeInv, One PROVE KeepsOne(T)
  BY Traits DEF TypeInv, FeedsTypeOK, One, T

\* A socket still alive is the one that cleanup closes.
LEMMA AliveIsTarget ==
  ASSUME TypeInv, KeepsOne(T), Sole, NEW i \in Ids, Alive(i)
  PROVE  Target = i
<1>1. i = ref /\ i = Len(sockets) /\ sockets[i].run = run
  BY DEF Sole
<1> DEFINE mine == {j \in Ids : sockets[j].run = run}
<1>2. i \in mine /\ \A j \in mine : j <= i
  BY <1>1, TypeFacts DEF Ids
<1>3. \A j \in mine : (\A k \in mine : k <= j) => j = i
  BY <1>2, TypeFacts DEF Ids
<1>4. Own(run) = i
  BY <1>2, <1>3 DEF Own
<1> QED
  BY <1>1, <1>4 DEF Target, KeepsOne

\* After cleanup nothing is alive, nothing is pending, and what is closing is
\* silent where it would reconnect.
LEMMA CleanedUp ==
  ASSUME TypeInv, KeepsOne(T), Sole
  PROVE  /\ TimersLeft = {} /\ RefLeft = ref
         /\ \A i \in Ids : /\ SocketsLeft[i].ready \in {"closing", "closed"}
                           /\ SocketsLeft[i].run = sockets[i].run
                           /\ SocketsLeft[i].ready = "closing" /\ T.mutes => SocketsLeft[i].muted
<1>1. TimersLeft = {} /\ RefLeft = ref
  BY DEF TimersLeft, RefLeft, Sole, KeepsOne
<1>2. ASSUME NEW i \in Ids
      PROVE  /\ SocketsLeft[i].ready \in {"closing", "closed"}
             /\ SocketsLeft[i].run = sockets[i].run
             /\ SocketsLeft[i].ready = "closing" /\ T.mutes => SocketsLeft[i].muted
  <2>1. sockets[i] \in Sockets(run)
    BY TypeFacts
  <2>2. CASE i = Target
    <3>1. SocketsLeft[i] = Closing([sockets[i] EXCEPT !.muted = @ \/ T.mutes])
      BY <2>2 DEF SocketsLeft, Discarded, DiscardedUnmuted, KeepsOne
    <3> QED
      BY <2>1, <3>1 DEF Sockets, Closing, KeepsOne
  <2>3. CASE i # Target
    <3>1. SocketsLeft[i] = sockets[i] /\ ~Alive(i)
      BY <2>3, AliveIsTarget DEF SocketsLeft
    <3> QED
      BY <2>1, <3>1 DEF Sockets, Alive, Ready, Sole
  <2> QED
    BY <2>2, <2>3
<1> QED
  BY <1>1, <1>2

\* connect() where nothing is alive: the new socket is the only one.
LEMMA SoleOpened ==
  ASSUME TypeInv, TypeInv', KeepsOne(T), feed' = feed, mounted', fetching' = {}, timers' = {},
         NEW n \in Nat \ {0}, NEW ss \in Seq(Sockets(n)), NEW rf \in 0..Len(ss),
         run' \in {n, n + 1}, sockets' = Opened(run', ss, rf), ref' = Len(ss) + 1,
         \A i \in 1..Len(ss) : /\ ss[i].ready \in {"closing", "closed"}
                               /\ ss[i].ready = "closing" => ss[i].run # run'
                               /\ ss[i].ready = "closing" /\ T.mutes => ss[i].muted
  PROVE  Sole'
<1>1. T' = T /\ Len(ss) \in Nat
  BY DEF T
<1>2. sockets' = Append(ss, NewSocket(run'))
  BY DEF Opened, Replaced, KeepsOne
<1>3. /\ Len(sockets') = Len(ss) + 1 /\ sockets'[Len(ss) + 1] = NewSocket(run')
      /\ \A i \in 1..Len(ss) : sockets'[i] = ss[i]
  BY <1>2, AppendProperties
<1>4. ASSUME NEW i \in Ids'
      PROVE  /\ Ready(i)' # "doomed"
             /\ Alive(i)' => /\ mounted' /\ sockets'[i].run = run' /\ i = ref'
                             /\ i = Len(sockets') /\ timers' = {}
             /\ Ready(i)' = "closing" =>
                  /\ ~(mounted' /\ sockets'[i].run = run')
                  /\ T'.mutes => sockets'[i].muted
  <2>1. CASE i = Len(ss) + 1
    BY <1>3, <2>1 DEF NewSocket, Alive, Ready
  <2>2. CASE i \in 1..Len(ss)
    BY <1>1, <1>3, <2>2 DEF Alive, Ready
  <2> QED
    BY <1>1, <1>3, <2>1, <2>2 DEF Ids
<1> QED
  BY <1>4 DEF Sole

LEMMA SoleStart ==
  ASSUME TypeInv, TypeInv', KeepsOne(T), Sole, feed' = feed, timers' = {},
         NEW k \in Keys, NEW ss \in Seq(Sockets(run)), NEW rf \in 0..Len(ss), Start(k, ss, rf),
         \A i \in 1..Len(ss) : /\ ss[i].ready \in {"closing", "closed"}
                               /\ ss[i].ready = "closing" /\ T.mutes => ss[i].muted
  PROVE  Sole'
<1>1. /\ mounted' /\ fetching' = {} /\ run' = run + 1 /\ run \in Nat \ {0}
      /\ sockets' = Opened(run + 1, ss, rf) /\ ref' = Len(ss) + 1
  BY StartKept, TypeFacts DEF Start, Sole, KeepsOne
<1>2. \A i \in 1..Len(ss) : ss[i].run \in 1..run
  <2>1. \A i \in 1..Len(ss) : ss[i] \in Sockets(run)
    BY ElementOfSeq
  <2> QED
    BY <2>1 DEF Sockets
<1>3. \A i \in 1..Len(ss) : ss[i].run # run'
  BY <1>1, <1>2
<1> QED
  BY <1>1, <1>3, SoleOpened

LEMMA SoleOnClose ==
  ASSUME TypeInv, TypeInv', KeepsOne(T), Sole, NEW i \in Ids, Ready(i) # "closed", OnClose(i)
  PROVE  Sole'
<1>1. /\ T' = T /\ mounted' = mounted /\ run' = run /\ fetching' = {} /\ ref' = ref
      /\ Ids' = Ids /\ Len(sockets') = Len(sockets)
      /\ \A j \in Ids : sockets'[j] = IF j = i THEN [sockets[i] EXCEPT !.ready = "closed"]
                                      ELSE sockets[j]
  BY TypeFacts DEF OnClose, T, run, Ids, Sole, KeepsOne
<1>2. \A j \in Ids : j # i => Ready(j)' = Ready(j) /\ sockets'[j] = sockets[j]
  BY <1>1 DEF Ready
<1>3. Ready(i)' = "closed"
  BY <1>1, TypeFacts DEF Ready, Sockets
<1>4. Retries(i) => Alive(i) /\ T.retry # "never"
  BY TypeFacts DEF Retries, Sole, Alive, Ready, Subscribed, KeepsOne, Sockets
<1>5. CASE Retries(i)
  <2>1. /\ mounted /\ timers = {} /\ timers' = {run} /\ i = ref
        /\ T.timer = "ref" => held' = run
    BY <1>4, <1>5 DEF OnClose, Sole
  <2>2. \A j \in Ids : ~Alive(j)'
    BY <1>1, <1>2, <1>3, <2>1 DEF Alive, Sole
  <2> QED
    BY <1>1, <1>2, <1>3, <1>4, <1>5, <2>1, <2>2 DEF Sole
<1>6. CASE ~Retries(i)
  <2>1. timers' = timers /\ held' = held
    BY <1>6 DEF OnClose
  <2> QED
    BY <1>1, <1>2, <1>3, <2>1 DEF Sole, Alive
<1> QED
  BY <1>5, <1>6

LEMMA SoleKept ==
  ASSUME TypeInv, TypeInv', KeepsOne(T), Sole, [Next]_vars PROVE Sole'
<1>1. ASSUME NEW k \in Keys, Rerun(k) PROVE Sole'
  <2>1. Start(k, SocketsLeft, RefLeft) /\ timers' = {} /\ feed' = feed
    BY <1>1, CleanedUp DEF Rerun
  <2>2. SocketsLeft \in Seq(Sockets(run)) /\ Len(SocketsLeft) = Len(sockets)
        /\ RefLeft \in 0..Len(SocketsLeft)
    BY SocketsLeftKept
  <2> QED
    BY <2>1, <2>2, CleanedUp, SoleStart DEF Ids
<1>2. ASSUME NEW k \in Keys, Enter(k) PROVE Sole'
  <2>1. ~mounted /\ Start(k, sockets, ref) /\ feed' = feed /\ timers' = {}
    BY <1>2 DEF Enter, Sole
  <2>2. \A i \in Ids : /\ sockets[i].ready \in {"closing", "closed"}
                       /\ sockets[i].ready = "closing" /\ T.mutes => sockets[i].muted
    BY <2>1, TypeFacts DEF Sole, Alive, Ready, Sockets
  <2> QED
    BY <2>1, <2>2, TypeFacts, SoleStart DEF Ids
<1>3. CASE Leave
  <2>1. /\ T' = T /\ ~mounted' /\ sockets' = SocketsLeft /\ timers' = {} /\ fetching' = {}
    BY <1>3, CleanedUp DEF Leave, T, Sole
  <2>2. Ids' = Ids
    BY <2>1, SocketsLeftKept DEF Ids
  <2> QED
    BY <2>1, <2>2, CleanedUp DEF Sole, Alive, Ready
<1>4. ASSUME NEW r \in fetching, Fetched(r) PROVE Sole'
  BY <1>4 DEF Sole
<1>5. ASSUME NEW r \in timers, TimerFires(r) PROVE Sole'
  <2>1. r = run /\ mounted /\ timers' = {} /\ \A i \in Ids : ~Alive(i)
    BY <1>5 DEF Sole, TimerFires
  <2>2. /\ feed' = feed /\ mounted' /\ fetching' = {} /\ run' = run
        /\ sockets' = Opened(run, sockets, ref) /\ ref' = Len(sockets) + 1
    BY <1>5, <2>1 DEF TimerFires, Connects, KeepsOne, Sole, run
  <2>3. \A i \in Ids : /\ sockets[i].ready \in {"closing", "closed"}
                       /\ sockets[i].ready = "closing" => sockets[i].run # run'
                       /\ sockets[i].ready = "closing" /\ T.mutes => sockets[i].muted
    BY <2>1, <2>2, TypeFacts DEF Sole, Alive, Ready, Sockets
  <2> QED
    BY <2>1, <2>2, <2>3, TypeFacts, SoleOpened DEF Ids
<1>6. ASSUME NEW i \in Ids, SocketOpens(i) PROVE Sole'
  <2>1. Ready(i) = "connecting" /\ Alive(i)
    BY <1>6 DEF SocketOpens, Sole, Alive
  <2>2. /\ T' = T /\ mounted' = mounted /\ run' = run /\ fetching' = {} /\ ref' = ref
        /\ timers' = {} /\ Ids' = Ids /\ Len(sockets') = Len(sockets)
        /\ \A j \in Ids : sockets'[j] = IF j = i THEN [sockets[i] EXCEPT !.ready = "open"]
                                        ELSE sockets[j]
    BY <1>6, <2>1, TypeFacts DEF SocketOpens, T, run, Ids, Sole, Ready
  <2>3. /\ Ready(i)' = "open" /\ sockets'[i].run = sockets[i].run
        /\ \A j \in Ids : j # i => sockets'[j] = sockets[j]
    BY <2>2, TypeFacts DEF Ready, Sockets
  <2> QED
    BY <2>1, <2>2, <2>3 DEF Sole, Alive, Ready
<1>7. ASSUME NEW i \in Ids, Message(i) PROVE Sole'
  BY <1>7 DEF Message, Sole, Alive, Ready, Ids, T, run
<1>8. ASSUME NEW i \in Ids, Closed(i) PROVE Sole'
  BY <1>8, SoleOnClose DEF Closed
<1>9. ASSUME NEW i \in Ids, Drop(i) PROVE Sole'
  BY <1>9, SoleOnClose DEF Drop
<1>10. CASE UNCHANGED vars
  BY <1>10 DEF vars, Sole, Alive, Ready, Ids, T, run
<1> QED
  BY <1>1, <1>2, <1>3, <1>4, <1>5, <1>6, <1>7, <1>8, <1>9, <1>10 DEF Next

LEMMA InitFeedInv == Init => FeedInv
<1> SUFFICES ASSUME Init PROVE FeedInv
  OBVIOUS
<1>1. ASSUME One PROVE Sole
  <2>1. KeepsOne(T)
    BY <1>1, InitTypeInv, OneKeepsOne
  <2>2. /\ sockets = <<NewSocket(1)>> /\ ref = 1 /\ timers = {} /\ fetching = {}
        /\ mounted /\ keyOf = <<Home>>
    BY <2>1 DEF Init, KeepsOne
  <2>3. Len(sockets) = 1 /\ sockets[1] = NewSocket(1) /\ run = 1
    BY <2>2 DEF run
  <2> QED
    BY <2>2, <2>3 DEF Sole, Alive, Ready, Ids, NewSocket
<1>2. NoForeignFeed
  BY DEF Init, NoForeignFeed
<1> QED
  BY <1>1, <1>2 DEF FeedInv

LEMMA NextFeedInv == TypeInv /\ FeedInv /\ [Next]_vars => FeedInv'
<1> SUFFICES ASSUME TypeInv, FeedInv, [Next]_vars PROVE FeedInv'
  OBVIOUS
<1>1. TypeInv'
  BY NextTypeInv
<1>2. T' = T
  BY DEF T, Next, vars, Rerun, Enter, Leave, Fetched, TimerFires, SocketOpens, Message, Closed,
         Drop, OnClose
<1>3. One' => Sole'
  BY <1>1, <1>2, OneKeepsOne, SoleKept DEF One, FeedInv
<1>4. NoForeignFeed'
  <2>1. CASE applied' = None \/ ~mounted'
    BY <2>1 DEF NoForeignFeed
  <2>2. CASE UNCHANGED <<mounted, key, applied>>
    BY <1>2, <2>2 DEF NoForeignFeed, FeedInv
  <2>3. ASSUME NEW i \in Ids, Message(i) PROVE NoForeignFeed'
    <3>1. Ready(i) = "open" /\ mounted /\ applied' = keyOf[sockets[i].run] /\ key' = key
      BY <2>3 DEF Message
    <3>2. CASE Asks(T)
      BY <2>3, <3>1, <3>2 DEF Message, Heard, Subscribed, Asks, TypeInv, NoForeignFeed
    <3>3. CASE One
      BY <3>1, <3>3 DEF FeedInv, Sole, Alive, TypeInv, NoForeignFeed
    <3> QED
      BY <1>2, <3>2, <3>3 DEF One, NoForeignFeed
  <2> QED
    BY <2>1, <2>2, <2>3 DEF Next, vars, Rerun, Enter, Start, Leave, Fetched, TimerFires,
       SocketOpens, Closed, Drop, OnClose
<1> QED
  BY <1>3, <1>4 DEF FeedInv

\* For any keys, runs of the effect and dropped connections: after a switch of
\* the symbol, bot or broker, no feed whose handlers end with their run applies
\* a message of the previous one, whatever sockets, timers and closes of
\* earlier runs are still about.
THEOREM NothingForeign == Spec => []NoForeignFeed
<1>1. TypeInv /\ FeedInv => NoForeignFeed
  BY DEF FeedInv
<1> QED
  BY <1>1, InitTypeInv, NextTypeInv, InitFeedInv, NextFeedInv, PTL DEF Spec
=============================================================================
