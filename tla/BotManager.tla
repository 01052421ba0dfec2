----------------------------- MODULE BotManager -----------------------------
(***************************************************************************)
(* The registry of running bots, in                                        *)
(* src/backend/app/services/bot_manager.py, for bots that trade on a       *)
(* shared stream (module SharedStream): start_bot, with its STARTING lock  *)
(* and the abort of a start whose lock is gone, and stop_bot.  Both        *)
(* suspend where an instance sends its notification and where a stream     *)
(* waits for its cancelled task, and any other call runs in between.       *)
(***************************************************************************)
EXTENDS SharedStream

CONSTANTS
  Bots, Keys,
  KeyOf,         \* exchange, market and timeframe of a bot
  STARTING,      \* the lock
  MaxStops,      \* bound: stop calls
  StopsOverlap   \* whether a bot can be stopped while a stop of it is in flight

ASSUME BotAssumption ==
  /\ KeyOf \in [Bots -> Keys] /\ MaxStops \in Nat /\ StopsOverlap \in BOOLEAN
  /\ STARTING # None /\ STARTING \notin Instances /\ None \notin Bots

Stops == 1 .. MaxStops

VARIABLES
  active,    \* active_bots: an instance, the lock, or nothing
  status,    \* the bot's row in the database
  registry,  \* streams: the stream of a key
  bot,       \* the bot of an instance
  running,   \* the instances that act on ticks and hold a user stream
  launch,    \* per instance, the start_bot call that made it
  stop       \* the stop_bot calls

callVars == <<launch, stop>>
vars == <<streamVars, active, status, registry, bot, running, callVars>>

Launch ==
  [pc : {"idle", "init", "unsubscribe", "instance", "close", "done"},
   stream : Instances \cup {None}, awaits : Instances \cup {None}]

StopCall ==
  [pc : {"idle", "unsubscribe", "instance", "done", "raised"}, of : Instances \cup {None},
   stream : Instances \cup {None}, awaits : Instances \cup {None}]

Idle == [pc |-> "idle", stream |-> None, awaits |-> None]
NoStop == [pc |-> "idle", of |-> None, stream |-> None, awaits |-> None]

BotTypeOK ==
  /\ StreamTypeOK
  /\ active \in [Bots -> Instances \cup {STARTING, None}]
  /\ status \in [Bots -> {"active", "inactive"}]
  /\ registry \in [Keys -> Instances \cup {None}]
  /\ bot \in [Instances -> Bots \cup {None}]
  /\ running \subseteq Instances
  /\ launch \in [Instances -> Launch]
  /\ stop \in [Stops -> StopCall]
  /\ \A b \in Bots : active[b] = STARTING => \E i \in Instances : bot[i] = b /\ launch[i].pc = "init"

BotInit ==
  /\ StreamInit
  /\ active = [b \in Bots |-> None]
  /\ status = [b \in Bots |-> "inactive"]
  /\ registry = [k \in Keys |-> None]
  /\ bot = [i \in Instances |-> None]
  /\ running = {}
  /\ launch = [i \in Instances |-> Idle]
  /\ stop = [n \in Stops |-> NoStop]

KeyOfInstance(i) == KeyOf[bot[i]]

-----------------------------------------------------------------------------
(* start_bot.                                                              *)

Locks(b) == active[b] = None /\ active' = [active EXCEPT ![b] = STARTING]

\* Up to the first notification: the lock, the stream, the subscription, the flag.
Start(b, i) ==
  LET k == KeyOf[b]
      x == IF registry[k] = None THEN i ELSE registry[k]
  IN  /\ Locks(b)
      /\ bot[i] = None /\ \A j \in 1 .. i - 1 : bot[j] # None
      /\ bot' = [bot EXCEPT ![i] = b]
      /\ registry' = [registry EXCEPT ![k] = x]
      /\ Subscribe(x, i)
      /\ running' = running \cup {i}
      /\ launch' = [launch EXCEPT ![i] = [pc |-> "init", stream |-> x, awaits |-> None]]
      /\ UNCHANGED <<status, stop>>

Moves(i, p, t) == launch' = [launch EXCEPT ![i] = [@ EXCEPT !.pc = p, !.awaits = t]]

Registered(i) ==
  /\ active' = [active EXCEPT ![bot[i]] = i]
  /\ status' = [status EXCEPT ![bot[i]] = "active"]
  /\ Moves(i, "done", None)
  /\ UNCHANGED <<streamVars, registry, bot, running, stop>>

\* Faulty variant: the lock is not replaced by the instance.
StartEndsLocked(i) ==
  /\ launch[i].pc = "init" /\ active[bot[i]] = STARTING
  /\ status' = [status EXCEPT ![bot[i]] = "active"]
  /\ Moves(i, "done", None)
  /\ UNCHANGED <<streamVars, active, registry, bot, running, stop>>

\* Faulty variant: the lock is not looked at again.
StartEndsUnchecked(i) == launch[i].pc = "init" /\ Registered(i)

\* The safety check behind the notification finds the lock still there.
StartEnds(i) == launch[i].pc = "init" /\ active[bot[i]] = STARTING /\ Registered(i)

\* The lock is gone: unsubscribe, and stop the stream nobody subscribes to.
StartAborts(i) ==
  LET x == launch[i].stream
      s == Without(stream[x], i)
  IN  /\ launch[i].pc = "init" /\ active[bot[i]] # STARTING
      /\ IF s.subs # {}
         THEN stream' = [stream EXCEPT ![x] = s] /\ UNCHANGED loop
         ELSE stream' = [stream EXCEPT ![x] = Down(s)] /\ loop' = Cancelled(s)
      /\ IF s.subs = {} /\ Waits(s)
         THEN /\ Moves(i, "unsubscribe", s.task)
              /\ UNCHANGED running
         ELSE /\ Moves(i, "instance", None)
              /\ running' = running \ {i}
      /\ UNCHANGED <<active, status, registry, bot, stop>>

AbortUnsubscribed(i) ==
  /\ launch[i].pc = "unsubscribe" /\ loop[launch[i].awaits] = "ended"
  /\ stream' = [stream EXCEPT ![launch[i].stream] = Stopped(@)]
  /\ Moves(i, "instance", None)
  /\ running' = running \ {i}
  /\ UNCHANGED <<loop, active, status, registry, bot, stop>>

\* The stream leaves the registry; a key that is gone raises KeyError, and the handler
\* takes away a lock of the bot.
AbortForgets(i) ==
  /\ Moves(i, "done", None)
  /\ registry' = [registry EXCEPT ![KeyOfInstance(i)] = None]
  /\ active' = IF registry[KeyOfInstance(i)] = None /\ active[bot[i]] = STARTING
               THEN [active EXCEPT ![bot[i]] = None] ELSE active
  /\ UNCHANGED <<status, bot, running, stop>>

\* The instance has sent its last notification; the stream is looked at again.
AbortInstanceStopped(i) ==
  LET x == launch[i].stream
      s == stream[x]
  IN  /\ launch[i].pc = "instance"
      /\ \/ /\ s.subs # {}
            /\ Moves(i, "done", None)
            /\ UNCHANGED <<streamVars, active, status, registry, bot, running, stop>>
         \/ /\ s.subs = {} /\ ~Waits(s)
            /\ stream' = [stream EXCEPT ![x] = Down(s)] /\ UNCHANGED loop
            /\ AbortForgets(i)
         \/ /\ s.subs = {} /\ Waits(s)
            /\ stream' = [stream EXCEPT ![x] = Down(s)] /\ loop' = Cancelled(s)
            /\ Moves(i, "close", s.task)
            /\ UNCHANGED <<active, status, registry, bot, running, stop>>

AbortStreamStopped(i) ==
  /\ launch[i].pc = "close" /\ loop[launch[i].awaits] = "ended"
  /\ stream' = [stream EXCEPT ![launch[i].stream] = Stopped(@)] /\ UNCHANGED loop
  /\ AbortForgets(i)

-----------------------------------------------------------------------------
(* stop_bot.                                                               *)

InFlight(n) == stop[n].pc \in {"unsubscribe", "instance"}

\* A bot that is starting loses its lock; one that is not in memory is a zombie.
StopUnlaunched(b, n) ==
  /\ active[b] \in {None, STARTING}
  /\ active' = [active EXCEPT ![b] = None]
  /\ status' = [status EXCEPT ![b] = "inactive"]
  /\ stop' = [stop EXCEPT ![n].pc = "done"]
  /\ UNCHANGED <<streamVars, registry, bot, running, launch>>

\* Behind unsubscribe: an unused stream leaves the registry (its second stop has no task
\* to wait for); a key that is gone raises KeyError, and the handler leaves everything as
\* it is.  Then the instance is told to stop; the orders it has are cancelled before, by a
\* call of the synchronous client, which suspends nobody.
Unused(n, i, s) ==
  LET raises == s.subs = {} /\ registry[KeyOfInstance(i)] = None
  IN  /\ registry' = IF s.subs = {} THEN [registry EXCEPT ![KeyOfInstance(i)] = None] ELSE registry
      /\ running' = IF raises THEN running ELSE running \ {i}
      /\ stop' = [stop EXCEPT ![n] = [pc |-> IF raises THEN "raised" ELSE "instance",
                                       of |-> i, stream |-> None, awaits |-> None]]

StopRegistered(b, n) ==
  LET i == active[b]
      x == registry[KeyOf[b]]
      s == Without(stream[x], i)
  IN  /\ i \in Instances
      /\ \/ /\ x = None
            /\ running' = running \ {i}
            /\ stop' = [stop EXCEPT ![n] = [NoStop EXCEPT !.pc = "instance", !.of = i]]
            /\ UNCHANGED <<streamVars, registry>>
         \/ /\ x # None
            /\ IF s.subs # {}
               THEN stream' = [stream EXCEPT ![x] = s] /\ UNCHANGED loop
               ELSE stream' = [stream EXCEPT ![x] = Down(s)] /\ loop' = Cancelled(s)
            /\ IF s.subs = {} /\ Waits(s)
               THEN /\ stop' = [stop EXCEPT ![n] =
                                  [pc |-> "unsubscribe", of |-> i, stream |-> x, awaits |-> s.task]]
                    /\ UNCHANGED <<registry, running>>
               ELSE Unused(n, i, s)
      /\ UNCHANGED <<active, status, bot, launch>>

Stop(b, n) ==
  /\ stop[n].pc = "idle" /\ \A m \in 1 .. n - 1 : stop[m].pc # "idle"
  /\ StopsOverlap \/ \A m \in Stops : InFlight(m) => bot[stop[m].of] # b
  /\ StopUnlaunched(b, n) \/ StopRegistered(b, n)

StopUnsubscribed(n) ==
  LET x == stop[n].stream
      s == Stopped(stream[x])
  IN  /\ stop[n].pc = "unsubscribe" /\ loop[stop[n].awaits] = "ended"
      /\ stream' = [stream EXCEPT ![x] = IF s.subs = {} THEN Down(s) ELSE s]
      /\ Unused(n, stop[n].of, s)
      /\ UNCHANGED <<loop, active, status, bot, launch>>

\* Faulty variant: only the database learns that the bot has stopped.
StopEndsUnregistered(n) ==
  /\ stop[n].pc = "instance"
  /\ status' = [status EXCEPT ![bot[stop[n].of]] = "inactive"]
  /\ stop' = [stop EXCEPT ![n].pc = "done"]
  /\ UNCHANGED <<streamVars, active, registry, bot, running, launch>>

\* The instance has stopped: whatever the registry has for the bot by now is deleted.
StopEnds(n) ==
  /\ stop[n].pc = "instance"
  /\ active' = [active EXCEPT ![bot[stop[n].of]] = None]
  /\ status' = [status EXCEPT ![bot[stop[n].of]] = "inactive"]
  /\ stop' = [stop EXCEPT ![n].pc = "done"]
  /\ UNCHANGED <<streamVars, registry, bot, running, launch>>

-----------------------------------------------------------------------------
LaunchStep(i) ==
  \/ StartEnds(i) \/ StartAborts(i) \/ AbortUnsubscribed(i)
  \/ AbortInstanceStopped(i) \/ AbortStreamStopped(i)

StopStep(n) == StopUnsubscribed(n) \/ StopEnds(n)

TaskStep(t) ==
  /\ LoopEnds(t, launch[t].stream)
  /\ UNCHANGED <<active, status, registry, bot, running, callVars>>

\* No call is in flight.
Quiet ==
  /\ \A i \in Instances : launch[i].pc \in {"idle", "done"}
  /\ \A n \in Stops : ~InFlight(n)

BotNext ==
  \/ \E b \in Bots : (\E i \in Instances : Start(b, i)) \/ (\E n \in Stops : Stop(b, n))
  \/ \E i \in Instances : LaunchStep(i) \/ TaskStep(i)
  \/ \E n \in Stops : StopStep(n)
  \/ Quiet /\ UNCHANGED vars

BotSpec == BotInit /\ [][BotNext]_vars

\* The event loop resumes every coroutine whose await is over, notifications end in an
\* answer or a timeout, and a cancelled task leaves its socket.
BotFairness ==
  /\ \A i \in Instances : WF_vars(LaunchStep(i)) /\ WF_vars(TaskStep(i))
  /\ \A n \in Stops : WF_vars(StopStep(n))

BotFairSpec == BotSpec /\ BotFairness

-----------------------------------------------------------------------------
(* Properties.                                                             *)

\* A stream that has subscribers runs a loop that nobody has cancelled: a bot that
\* subscribes while the last stop of its stream still waits is not left without ticks
\* (shared_stream.py l. 36-38, 59-68).
SubscribersAreServed ==
  \A x \in Instances :
    stream[x].subs # {} =>
      stream[x].running /\ \E t \in Instances : loop[t] = "live" /\ launch[t].stream = x

\* Every instance that trades is in the registry or in the hands of a call that is about
\* to put it there or to stop it: no start that lost its lock, was overtaken by another
\* start of the bot, or raised on its way out leaves one behind (l. 57, 155-164).
NoStrayInstance ==
  \A i \in running :
    \/ active[bot[i]] = i
    \/ launch[i].pc \in {"init", "unsubscribe"}
    \/ \E n \in Stops : stop[n].of = i /\ InFlight(n)

\* When no call is in flight, the database calls a bot active exactly when it is in
\* memory, whatever starts, aborts and stops have crossed (l. 168-170, 612-619).
MemoryMatchesDatabase ==
  Quiet => \A b \in Bots : (status[b] = "active") <=> (active[b] # None)

\* Every stop returns, also one whose stream has been given a new subscriber while it
\* waits for the old loop (shared_stream.py l. 59-68).
StopReturns == \A n \in Stops : InFlight(n) ~> ~InFlight(n)

\* "Manages a single WebSocket connection for a specific symbol and timeframe"
\* (shared_stream.py l. 15): a key never has two streams with subscribers.
SingleStream ==
  \A i, j \in Instances :
    (stream[i].subs # {} /\ stream[j].subs # {} /\ KeyOfInstance(i) = KeyOfInstance(j)) => i = j

=============================================================================
