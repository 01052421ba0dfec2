-------------------------- MODULE BotManager_proofs --------------------------
(***************************************************************************)
(* TLAPS proofs about BotManager, for every set of bots and keys and any   *)
(* number of starts and stops: types, that a stream with subscribers has a *)
(* loop, that memory and database agree, and, when no two stops of one bot *)
(* overlap, that no trading instance is lost.                              *)
(***************************************************************************)
EXTENDS BotManager, TLAPS

(***************************************************************************)
(* The inductive invariant.  An instance that has been made belongs to a   *)
(* bot and to a stream; a fresh one leaves no trace.                       *)
(***************************************************************************)
Made(i) ==
  /\ launch[i].pc # "idle" => bot[i] \in Bots /\ launch[i].stream \in Instances
  /\ bot[i] = None => launch[i] = Idle

Known(n) ==
  InFlight(n) => stop[n].of \in Instances /\ bot[stop[n].of] \in Bots

\* A stream is up exactly while it has subscribers, on a loop of its own, and its handle
\* names no loop of another stream.
Served(x) ==
  /\ stream[x].running <=> stream[x].subs # {}
  /\ stream[x].running => \E t \in Instances : loop[t] = "live" /\ launch[t].stream = x
  /\ stream[x].task # None => launch[stream[x].task].stream = x

\* What memory has is what the database calls active, and it has been launched.
Agreed(b) ==
  /\ (status[b] = "active") <=> (active[b] \in Instances)
  /\ active[b] \in Instances => bot[active[b]] = b /\ launch[active[b]].pc = "done"

BotInv ==
  /\ BotTypeOK
  /\ \A i \in Instances : Made(i) /\ Served(i)
  /\ \A n \in Stops : Known(n)
  /\ \A b \in Bots : Agreed(b)

(***************************************************************************)
(* While no two stops of one bot overlap, the bot of a stop in flight is   *)
(* in memory as the instance being stopped.                                *)
(***************************************************************************)
Held(n) ==
  InFlight(n) =>
    /\ active[bot[stop[n].of]] = stop[n].of
    /\ stop[n].pc = "instance" => stop[n].of \notin running
    /\ \A m \in Stops \ {n} : InFlight(m) => bot[stop[m].of] # bot[stop[n].of]

StrayInv ==
  /\ \A n \in Stops : Held(n)
  /\ \A i \in running : launch[i].pc # "idle"
  /\ NoStrayInstance

(***************************************************************************)
(* What the pieces of a step do.                                           *)
(***************************************************************************)
LEMMA Apart == None \notin Instances /\ STARTING \notin Instances /\ STARTING # None /\ None \notin Bots
BY StreamAssumption, BotAssumption DEF Instances

LEMMA WithoutFacts ==
  ASSUME NEW s \in Stream, NEW i
  PROVE  /\ Without(s, i) \in Stream
         /\ Without(s, i).subs = s.subs \ {i}
         /\ Without(s, i).running = s.running /\ Without(s, i).task = s.task
BY DEF Without, Stream

LEMMA StoppedFacts ==
  ASSUME NEW s \in Stream
  PROVE  /\ Stopped(s) \in Stream
         /\ Stopped(s).subs = s.subs /\ Stopped(s).running = s.running
         /\ Stopped(s).task = None
BY DEF Stopped, Stream

LEMMA DownFacts ==
  ASSUME NEW s \in Stream
  PROVE  /\ Down(s) \in Stream
         /\ Down(s).subs = s.subs /\ ~Down(s).running
         /\ Down(s).task \in {None, s.task}
<1> DEFINE d == [s EXCEPT !.running = FALSE]
<1>1. d \in Stream /\ d.subs = s.subs /\ d.running = FALSE /\ d.task = s.task
  BY DEF Stream
<1>2. CASE Waits(s)
  <2>1. Down(s) = d
    BY <1>2 DEF Down
  <2> QED
    BY <2>1, <1>1
<1>3. CASE ~Waits(s)
  <2>1. Down(s) = Stopped(d)
    BY <1>3 DEF Down
  <2> QED
    BY <2>1, <1>1, StoppedFacts
<1> QED
  BY <1>2, <1>3

LEMMA CancelledFacts ==
  ASSUME StreamTypeOK, NEW s \in Stream
  PROVE  /\ Cancelled(s) \in [Instances -> {"none", "live", "cancelled", "ended"}]
         /\ \A t \in Instances : loop[t] = "live" /\ t # s.task => Cancelled(s)[t] = "live"
BY DEF Cancelled, StreamTypeOK, Stream

LEMMA MovesFacts ==
  ASSUME launch \in [Instances -> Launch], NEW i \in Instances,
         NEW p \in {"init", "unsubscribe", "instance", "close", "done"},
         NEW t \in Instances \cup {None}, Moves(i, p, t)
  PROVE  /\ launch' \in [Instances -> Launch]
         /\ launch'[i].pc = p
         /\ \A j \in Instances : launch'[j].stream = launch[j].stream
         /\ \A j \in Instances \ {i} : launch'[j] = launch[j]
<1> DEFINE r == [launch[i] EXCEPT !.pc = p, !.awaits = t]
<1>1. launch' = [launch EXCEPT ![i] = r]
  BY DEF Moves
<1>2. launch[i] \in Launch
  OBVIOUS
<1>3. p \in {"idle", "init", "unsubscribe", "instance", "close", "done"}
  OBVIOUS
<1>4. r \in Launch
  BY <1>2, <1>3, Zenon DEF Launch
<1>5. r.pc = p /\ r.stream = launch[i].stream
  BY <1>2, Zenon DEF Launch
<1> HIDE DEF r
<1> QED
  BY <1>1, <1>4, <1>5

(***************************************************************************)
(* What every step of a start call behind its first await keeps.           *)
(***************************************************************************)
LEMMA LaunchMoved ==
  ASSUME BotInv, NEW i \in Instances, launch[i].pc \notin {"idle", "done"},
         NEW p \in {"unsubscribe", "instance", "close", "done"},
         NEW t \in Instances \cup {None}, Moves(i, p, t), UNCHANGED <<bot, stop>>
  PROVE  /\ launch' \in [Instances -> Launch]
         /\ launch'[i].pc = p
         /\ \A j \in Instances : launch'[j].stream = launch[j].stream
         /\ \A j \in Instances \ {i} : launch'[j] = launch[j]
         /\ \A j \in Instances : Made(j)'
         /\ \A n \in Stops : Known(n)'
<1>1. launch \in [Instances -> Launch]
  BY DEF BotInv, BotTypeOK
<1>2. /\ launch' \in [Instances -> Launch] /\ launch'[i].pc = p
      /\ \A j \in Instances : launch'[j].stream = launch[j].stream
      /\ \A j \in Instances \ {i} : launch'[j] = launch[j]
  BY <1>1, MovesFacts
<1>3. bot[i] # None
  BY DEF BotInv, Made, Idle
<1>4. \A j \in Instances : Made(j)'
  BY <1>2, <1>3 DEF BotInv, Made
<1>5. \A n \in Stops : Known(n)'
  BY DEF BotInv, Known, InFlight
<1> QED
  BY <1>2, <1>4, <1>5

\* A step that changes one stream, lowers its flag or leaves its loop alone, and cancels
\* no loop of another stream.
LEMMA StreamStep ==
  ASSUME BotInv, NEW x \in Instances, NEW s \in Stream,
         s.running <=> s.subs # {},
         s.task \in {None, stream[x].task},
         s.running => stream[x].running /\ loop' = loop,
         stream' = [stream EXCEPT ![x] = s],
         loop' \in [Instances -> {"none", "live", "cancelled", "ended"}],
         \A t \in Instances : loop[t] = "live" /\ launch[t].stream # x => loop'[t] = "live",
         \A t \in Instances : launch'[t].stream = launch[t].stream
  PROVE  StreamTypeOK' /\ \A y \in Instances : Served(y)'
<1>1. StreamTypeOK
  BY DEF BotInv, BotTypeOK
<1>2. StreamTypeOK'
  BY <1>1 DEF StreamTypeOK
<1>3. \A y \in Instances : stream'[y] = IF y = x THEN s ELSE stream[y]
  BY <1>1 DEF StreamTypeOK
<1>4. ASSUME NEW y \in Instances PROVE Served(y)'
  <2>1. stream'[y].running <=> stream'[y].subs # {}
    BY <1>3 DEF BotInv, Served
  <2>2. stream'[y].running => \E t \in Instances : loop'[t] = "live" /\ launch'[t].stream = y
    BY <1>3 DEF BotInv, Served
  <2>3. stream'[y].task # None => launch'[stream'[y].task].stream = y
    <3>1. stream[y].task \in Instances \cup {None}
      BY <1>1 DEF StreamTypeOK, Stream
    <3> QED
      BY <1>3, <3>1 DEF BotInv, Served
  <2> QED
    BY <2>1, <2>2, <2>3 DEF Served
<1> QED
  BY <1>2, <1>4

LEMMA StreamsKept ==
  ASSUME BotInv, UNCHANGED <<stream, loop>>,
         \A t \in Instances : launch'[t].stream = launch[t].stream
  PROVE  StreamTypeOK' /\ \A y \in Instances : Served(y)'
<1>1. StreamTypeOK
  BY DEF BotInv, BotTypeOK
<1>2. StreamTypeOK'
  BY <1>1 DEF StreamTypeOK
<1>3. ASSUME NEW y \in Instances PROVE Served(y)'
  <2>1. stream[y].task # None => stream[y].task \in Instances
    BY <1>1 DEF StreamTypeOK, Stream
  <2> QED
    BY <2>1 DEF BotInv, Served
<1> QED
  BY <1>2, <1>3

\* The two forms of an unsubscribe.
LEMMA Unsubscribed ==
  ASSUME BotInv, NEW x \in Instances, NEW s \in Stream,
         s.running = stream[x].running, s.task = stream[x].task, s.subs \subseteq stream[x].subs,
         \/ s.subs # {} /\ stream' = [stream EXCEPT ![x] = s] /\ UNCHANGED loop
         \/ s.subs = {} /\ stream' = [stream EXCEPT ![x] = Down(s)] /\ loop' = Cancelled(s),
         \A t \in Instances : launch'[t].stream = launch[t].stream
  PROVE  StreamTypeOK' /\ \A y \in Instances : Served(y)'
<1>1. StreamTypeOK
  BY DEF BotInv, BotTypeOK
<1>2. CASE s.subs # {} /\ stream' = [stream EXCEPT ![x] = s] /\ UNCHANGED loop
  <2>1. s.running <=> s.subs # {}
    BY <1>2 DEF BotInv, Served
  <2>2. loop' \in [Instances -> {"none", "live", "cancelled", "ended"}]
    BY <1>1, <1>2 DEF StreamTypeOK
  <2> QED
    BY <1>2, <2>1, <2>2, StreamStep
<1>3. CASE s.subs = {} /\ stream' = [stream EXCEPT ![x] = Down(s)] /\ loop' = Cancelled(s)
  <2>1. Down(s) \in Stream /\ Down(s).subs = {} /\ ~Down(s).running
        /\ Down(s).task \in {None, stream[x].task}
    BY <1>3, DownFacts
  <2>2. /\ loop' \in [Instances -> {"none", "live", "cancelled", "ended"}]
        /\ \A t \in Instances : loop[t] = "live" /\ t # s.task => loop'[t] = "live"
    BY <1>1, <1>3, CancelledFacts
  <2>3. \A t \in Instances : loop[t] = "live" /\ launch[t].stream # x => loop'[t] = "live"
    BY <2>2, Apart DEF BotInv, Served
  <2> QED
    BY <1>3, <2>1, <2>2, <2>3, StreamStep
<1> QED
  BY <1>2, <1>3

Locked(b) == active[b] = STARTING => \E i \in Instances : bot[i] = b /\ launch[i].pc = "init"

LEMMA TypeParts ==
  BotTypeOK <=>
    /\ StreamTypeOK
    /\ active \in [Bots -> Instances \cup {STARTING, None}]
    /\ status \in [Bots -> {"active", "inactive"}]
    /\ registry \in [Keys -> Instances \cup {None}]
    /\ bot \in [Instances -> Bots \cup {None}]
    /\ running \subseteq Instances
    /\ launch \in [Instances -> Launch]
    /\ stop \in [Stops -> StopCall]
    /\ \A b \in Bots : Locked(b)
BY DEF BotTypeOK, Locked

LEMMA BotTypes ==
  ASSUME BotInv
  PROVE  /\ active \in [Bots -> Instances \cup {STARTING, None}]
         /\ status \in [Bots -> {"active", "inactive"}]
         /\ registry \in [Keys -> Instances \cup {None}]
         /\ running \subseteq Instances
         /\ stop \in [Stops -> StopCall]
BY TypeParts DEF BotInv

LEMMA LockKept ==
  ASSUME BotInv, bot' = bot,
         \A b \in Bots : active'[b] = STARTING => active[b] = STARTING,
         \A j \in Instances : launch[j].pc = "init" /\ active'[bot[j]] = STARTING => launch'[j].pc = "init"
  PROVE  \A b \in Bots : Locked(b)'
<1>1. \A b \in Bots : Locked(b)
  BY TypeParts DEF BotInv
<1> QED
  BY <1>1 DEF Locked

LEMMA AgreedKept ==
  ASSUME BotInv, UNCHANGED <<status, bot>>,
         \A b \in Bots : active'[b] \in Instances \/ active[b] \in Instances => active'[b] = active[b],
         \A j \in Instances : launch[j].pc = "done" => launch'[j].pc = "done"
  PROVE  \A b \in Bots : Agreed(b)'
BY DEF BotInv, Agreed

(***************************************************************************)
(* One lemma per action.                                                   *)
(***************************************************************************)
LEMMA InitInv == BotInit => BotInv
<1> SUFFICES ASSUME BotInit PROVE BotInv
  OBVIOUS
<1>1. StreamTypeOK
  BY DEF BotInit, StreamInit, StreamTypeOK, Stream, NoStream
<1>2. launch \in [Instances -> Launch] /\ stop \in [Stops -> StopCall]
  BY DEF BotInit, Launch, StopCall, Idle, NoStop
<1>3. \A b \in Bots : Locked(b)
  BY Apart DEF BotInit, Locked
<1>4. BotTypeOK
  BY <1>1, <1>2, <1>3, TypeParts DEF BotInit
<1>5. \A i \in Instances : Made(i) /\ Served(i)
  BY DEF BotInit, StreamInit, Made, Served, NoStream, Idle
<1>6. \A n \in Stops : Known(n)
  BY DEF BotInit, Known, InFlight, NoStop
<1>7. \A b \in Bots : Agreed(b)
  BY Apart DEF BotInit, Agreed
<1> QED
  BY <1>4, <1>5, <1>6, <1>7 DEF BotInv

LEMMA StartInv ==
  ASSUME BotInv, NEW b \in Bots, NEW i \in Instances, Start(b, i)
  PROVE  BotInv'
<1> DEFINE k == KeyOf[b]
           x == IF registry[k] = None THEN i ELSE registry[k]
           s == [subs |-> stream[x].subs \cup {i}, running |-> TRUE,
                 task |-> IF stream[x].running THEN stream[x].task ELSE i]
           r == [pc |-> "init", stream |-> x, awaits |-> None]
<1>0. k \in Keys
  BY BotAssumption
<1>1. x \in Instances
  BY <1>0, TypeParts DEF BotInv
<1>2. /\ launch' = [launch EXCEPT ![i] = r] /\ bot' = [bot EXCEPT ![i] = b]
      /\ active' = [active EXCEPT ![b] = STARTING] /\ registry' = [registry EXCEPT ![k] = x]
      /\ running' = running \cup {i} /\ status' = status /\ stop' = stop
      /\ stream' = [stream EXCEPT ![x] = s]
      /\ loop' = IF stream[x].running THEN loop ELSE [loop EXCEPT ![i] = "live"]
      /\ bot[i] = None /\ active[b] = None
  BY DEF Start, Locks, Subscribe
<1> HIDE DEF x
<1>3. r \in Launch /\ r.pc = "init" /\ r.stream = x
  BY <1>1 DEF Launch
<1>4. launch \in [Instances -> Launch] /\ launch' \in [Instances -> Launch]
  BY <1>2, <1>3, TypeParts DEF BotInv
<1>5. StreamTypeOK /\ stream[x] \in Stream
  BY <1>1, TypeParts DEF BotInv, StreamTypeOK
<1>6. s \in Stream /\ s.running /\ s.subs # {} /\ s.task = IF stream[x].running THEN stream[x].task ELSE i
  BY <1>5 DEF Stream
<1> HIDE DEF s, r
<1>7. StreamTypeOK'
  BY <1>1, <1>2, <1>5, <1>6 DEF StreamTypeOK
<1>8. launch[i].pc = "idle" /\ launch[i].stream = None
  BY <1>2 DEF BotInv, Made, Idle
<1>9. \A b2 \in Bots : Locked(b2)'
  <2>1. \A b2 \in Bots : Locked(b2)
    BY TypeParts DEF BotInv
  <2>2. \A j \in Instances : launch[j].pc = "init" => j # i /\ launch'[j] = launch[j] /\ bot'[j] = bot[j]
    BY <1>2, <1>4, <1>8, TypeParts DEF BotInv
  <2>3. launch'[i].pc = "init" /\ bot'[i] = b
    BY <1>2, <1>3, <1>4, TypeParts DEF BotInv
  <2> QED
    BY <1>2, <2>1, <2>2, <2>3, TypeParts DEF BotInv, Locked
<1>10. BotTypeOK'
  <2>1. /\ active' \in [Bots -> Instances \cup {STARTING, None}]
        /\ status' \in [Bots -> {"active", "inactive"}]
        /\ registry' \in [Keys -> Instances \cup {None}]
        /\ bot' \in [Instances -> Bots \cup {None}]
        /\ running' \subseteq Instances /\ stop' \in [Stops -> StopCall]
    BY <1>1, <1>2, TypeParts DEF BotInv
  <2> QED
    BY <1>4, <1>7, <1>9, <2>1 DEF BotTypeOK, Locked
<1>11. ASSUME NEW j \in Instances PROVE Made(j)'
  <2>1. CASE j = i
    <3>1. launch'[i] = r /\ bot'[i] = b
      BY <1>2, <1>4, TypeParts DEF BotInv
    <3> QED
      BY <1>1, <1>3, <2>1, <3>1, Apart DEF Made
  <2>2. CASE j # i
    <3>1. launch'[j] = launch[j] /\ bot'[j] = bot[j]
      BY <1>2, <1>4, <2>2, TypeParts DEF BotInv
    <3> QED
      BY <3>1 DEF BotInv, Made
  <2> QED
    BY <2>1, <2>2
<1>12. ASSUME NEW y \in Instances PROVE Served(y)'
  <2>1. \A t \in Instances : launch'[t].stream = IF t = i THEN x ELSE launch[t].stream
    BY <1>2, <1>3, <1>4
  <2>2. \A t \in Instances : loop[t] = "live" => loop'[t] = "live"
    BY <1>2, <1>5 DEF StreamTypeOK
  <2>3. CASE y = x
    <3>1. stream'[y] = s
      BY <1>1, <1>2, <1>5, <2>3 DEF StreamTypeOK
    <3>2. CASE stream[x].running
      <4>1. PICK t \in Instances : loop[t] = "live" /\ launch[t].stream = x
        BY <1>1, <3>2 DEF BotInv, Served
      <4>2. loop'[t] = "live" /\ launch'[t].stream = y
        BY <1>1, <1>8, <2>1, <2>2, <2>3, <4>1, Apart
      <4>3. stream[x].task # None => stream[x].task \in Instances /\ launch[stream[x].task].stream = x
        BY <1>1, <1>5 DEF BotInv, Served, Stream
      <4>4. s.task # None => launch'[s.task].stream = x
        BY <1>6, <2>1, <3>2, <4>3
      <4> QED
        BY <1>6, <2>3, <3>1, <4>2, <4>4 DEF Served
    <3>3. CASE ~stream[x].running
      <4>1. loop'[i] = "live" /\ launch'[i].stream = x
        BY <1>2, <1>5, <2>1, <3>3 DEF StreamTypeOK
      <4> QED
        BY <1>6, <2>3, <3>1, <3>3, <4>1 DEF Served
    <3> QED
      BY <3>2, <3>3
  <2>4. CASE y # x
    <3>1. stream'[y] = stream[y]
      BY <1>2, <1>5, <2>4 DEF StreamTypeOK
    <3>2. stream[y].task # None => stream[y].task \in Instances /\ launch[stream[y].task].stream = y
      BY <1>5 DEF BotInv, Served, StreamTypeOK, Stream
    <3>3. stream[y].task # None => launch'[stream[y].task].stream = y
      BY <1>8, <2>1, <3>2, Apart
    <3>4. stream[y].running => \E t \in Instances : loop'[t] = "live" /\ launch'[t].stream = y
      BY <1>8, <2>1, <2>2, Apart DEF BotInv, Served
    <3>5. stream[y].running <=> stream[y].subs # {}
      BY DEF BotInv, Served
    <3> QED
      BY <3>1, <3>3, <3>4, <3>5 DEF Served
  <2> QED
    BY <2>3, <2>4
<1>13. ASSUME NEW n \in Stops PROVE Known(n)'
  <2>1. InFlight(n)' <=> InFlight(n)
    BY <1>2 DEF InFlight
  <2>2. InFlight(n) => stop[n].of # i
    BY <1>2, Apart DEF BotInv, Known
  <2> QED
    BY <1>2, <2>1, <2>2, TypeParts DEF BotInv, Known
<1>14. ASSUME NEW b2 \in Bots PROVE Agreed(b2)'
  <2>1. active'[b2] = IF b2 = b THEN STARTING ELSE active[b2]
    BY <1>2, TypeParts DEF BotInv
  <2>2. \A j \in Instances : launch[j].pc = "done" => launch'[j] = launch[j] /\ bot'[j] = bot[j]
    BY <1>2, <1>4, <1>8, TypeParts DEF BotInv
  <2> QED
    BY <1>2, <2>1, <2>2, Apart DEF BotInv, Agreed
<1> QED
  BY <1>10, <1>11, <1>12, <1>13, <1>14 DEF BotInv

LEMMA StartEndsInv ==
  ASSUME BotInv, NEW i \in Instances, StartEnds(i)
  PROVE  BotInv'
<1>1. /\ launch[i].pc = "init" /\ active[bot[i]] = STARTING
      /\ active' = [active EXCEPT ![bot[i]] = i]
      /\ status' = [status EXCEPT ![bot[i]] = "active"]
      /\ Moves(i, "done", None)
      /\ UNCHANGED <<stream, loop, registry, bot, running, stop>>
  BY DEF StartEnds, Registered, streamVars
<1>2. bot[i] \in Bots
  BY <1>1 DEF BotInv, Made
<1>3. /\ launch' \in [Instances -> Launch] /\ launch'[i].pc = "done"
      /\ \A j \in Instances : launch'[j].stream = launch[j].stream
      /\ \A j \in Instances \ {i} : launch'[j] = launch[j]
      /\ \A j \in Instances : Made(j)'
      /\ \A n \in Stops : Known(n)'
  BY <1>1, LaunchMoved
<1>4. \A b \in Bots : active'[b] = IF b = bot[i] THEN i ELSE active[b]
  BY <1>1, TypeParts DEF BotInv
<1>5. \A b \in Bots : Locked(b)'
  <2>1. \A b \in Bots : active'[b] = STARTING => b # bot[i] /\ Locked(b)
    BY <1>4, Apart, TypeParts DEF BotInv
  <2> QED
    BY <1>1, <1>3, <1>4, <2>1 DEF Locked
<1>6. StreamTypeOK' /\ \A y \in Instances : Served(y)'
  BY <1>1, <1>3, StreamsKept
<1>7. BotTypeOK'
  <2>1. /\ active' \in [Bots -> Instances \cup {STARTING, None}]
        /\ status' \in [Bots -> {"active", "inactive"}]
    BY <1>1, TypeParts DEF BotInv
  <2> QED
    BY <1>1, <1>3, <1>5, <1>6, <2>1, TypeParts DEF BotInv, BotTypeOK, Locked
<1>8. \A b \in Bots : Agreed(b)'
  <2>1. \A b \in Bots : status'[b] = IF b = bot[i] THEN "active" ELSE status[b]
    BY <1>1, TypeParts DEF BotInv
  <2>2. \A b \in Bots : b # bot[i] => (active[b] \in Instances => active[b] # i)
    BY <1>1 DEF BotInv, Agreed
  <2> QED
    BY <1>1, <1>3, <1>4, <2>1, <2>2 DEF BotInv, Agreed
<1> QED
  BY <1>3, <1>6, <1>7, <1>8 DEF BotInv

LEMMA StartAbortsInv ==
  ASSUME BotInv, NEW i \in Instances, StartAborts(i)
  PROVE  BotInv'
<1> DEFINE x == launch[i].stream
           s == Without(stream[x], i)
<1>1. /\ launch[i].pc = "init" /\ active[bot[i]] # STARTING
      /\ \/ s.subs # {} /\ stream' = [stream EXCEPT ![x] = s] /\ UNCHANGED loop
         \/ s.subs = {} /\ stream' = [stream EXCEPT ![x] = Down(s)] /\ loop' = Cancelled(s)
      /\ \/ Moves(i, "unsubscribe", s.task) /\ UNCHANGED running
         \/ Moves(i, "instance", None) /\ running' = running \ {i}
      /\ UNCHANGED <<active, status, registry, bot, stop>>
  BY DEF StartAborts
<1>2. x \in Instances /\ stream[x] \in Stream
  BY <1>1, TypeParts DEF BotInv, Made, StreamTypeOK
<1>3. /\ s \in Stream /\ s.subs \subseteq stream[x].subs
      /\ s.running = stream[x].running /\ s.task = stream[x].task
  BY <1>2, WithoutFacts
<1>4. s.task \in Instances \cup {None}
  BY <1>3 DEF Stream
<1> HIDE DEF s
<1>5. /\ launch' \in [Instances -> Launch] /\ launch'[i].pc # "done"
      /\ \A j \in Instances : launch'[j].stream = launch[j].stream
      /\ \A j \in Instances \ {i} : launch'[j] = launch[j]
      /\ \A j \in Instances : Made(j)'
      /\ \A n \in Stops : Known(n)'
  <2>1. CASE Moves(i, "unsubscribe", s.task)
    BY <1>1, <1>4, <2>1, LaunchMoved
  <2>2. CASE Moves(i, "instance", None)
    BY <1>1, <2>2, LaunchMoved
  <2> QED
    BY <1>1, <2>1, <2>2
<1>6. StreamTypeOK' /\ \A y \in Instances : Served(y)'
  BY <1>1, <1>2, <1>3, <1>5, Unsubscribed
<1>7. \A b \in Bots : Locked(b)'
  BY <1>1, <1>5, LockKept
<1>8. \A b \in Bots : Agreed(b)'
  BY <1>1, <1>5, AgreedKept
<1>9. BotTypeOK'
  BY <1>1, <1>5, <1>6, <1>7, TypeParts DEF BotInv, BotTypeOK, Locked
<1> QED
  BY <1>5, <1>6, <1>8, <1>9 DEF BotInv

\* Behind its await, a stop forgets the handle: the stream keeps its subscribers and its loop.
LEMMA ForgetHandle ==
  ASSUME BotInv, NEW x \in Instances, stream' = [stream EXCEPT ![x] = Stopped(@)], UNCHANGED loop,
         \A t \in Instances : launch'[t].stream = launch[t].stream
  PROVE  StreamTypeOK' /\ \A y \in Instances : Served(y)'
<1> DEFINE s == Stopped(stream[x])
<1>1. stream[x] \in Stream /\ loop \in [Instances -> {"none", "live", "cancelled", "ended"}]
  BY TypeParts DEF BotInv, StreamTypeOK
<1>2. s \in Stream /\ s.subs = stream[x].subs /\ s.running = stream[x].running /\ s.task = None
  BY <1>1, StoppedFacts
<1>3. s.running <=> s.subs # {}
  BY <1>2 DEF BotInv, Served
<1>4. stream' = [stream EXCEPT ![x] = s]
  OBVIOUS
<1> HIDE DEF s
<1> QED
  BY <1>1, <1>2, <1>3, <1>4, StreamStep

LEMMA AbortUnsubscribedInv ==
  ASSUME BotInv, NEW i \in Instances, AbortUnsubscribed(i)
  PROVE  BotInv'
<1>1. /\ launch[i].pc = "unsubscribe"
      /\ stream' = [stream EXCEPT ![launch[i].stream] = Stopped(@)]
      /\ Moves(i, "instance", None) /\ running' = running \ {i}
      /\ UNCHANGED <<loop, active, status, registry, bot, stop>>
  BY DEF AbortUnsubscribed
<1>2. /\ launch' \in [Instances -> Launch]
      /\ \A j \in Instances : launch'[j].stream = launch[j].stream
      /\ \A j \in Instances \ {i} : launch'[j] = launch[j]
      /\ \A j \in Instances : Made(j)'
      /\ \A n \in Stops : Known(n)'
  BY <1>1, LaunchMoved
<1>3. launch[i].stream \in Instances
  BY <1>1 DEF BotInv, Made
<1>4. StreamTypeOK' /\ \A y \in Instances : Served(y)'
  BY <1>1, <1>2, <1>3, ForgetHandle
<1>5. \A b \in Bots : Locked(b)'
  BY <1>1, <1>2, LockKept
<1>6. \A b \in Bots : Agreed(b)'
  BY <1>1, <1>2, AgreedKept
<1>7. BotTypeOK'
  BY <1>1, <1>2, <1>4, <1>5, TypeParts DEF BotInv, BotTypeOK, Locked
<1> QED
  BY <1>2, <1>4, <1>6, <1>7 DEF BotInv

\* The end of an abort: what AbortForgets does to everything but the streams.
LEMMA ForgetsInv ==
  ASSUME BotInv, NEW i \in Instances, launch[i].pc \in {"instance", "close"}, AbortForgets(i),
         (\A t \in Instances : launch'[t].stream = launch[t].stream)
           => StreamTypeOK' /\ \A y \in Instances : Served(y)'
  PROVE  BotInv'
<1>1. /\ Moves(i, "done", None)
      /\ registry' = [registry EXCEPT ![KeyOfInstance(i)] = None]
      /\ \/ active' = [active EXCEPT ![bot[i]] = None] /\ active[bot[i]] = STARTING
         \/ active' = active
      /\ UNCHANGED <<status, bot, running, stop>>
  BY DEF AbortForgets
<1>2. /\ launch' \in [Instances -> Launch] /\ launch'[i].pc = "done"
      /\ \A j \in Instances : launch'[j].stream = launch[j].stream
      /\ \A j \in Instances \ {i} : launch'[j] = launch[j]
      /\ \A j \in Instances : Made(j)'
      /\ \A n \in Stops : Known(n)'
  BY <1>1, LaunchMoved
<1>3. \A b \in Bots : active'[b] = active[b] \/ (active[b] = STARTING /\ active'[b] = None)
  BY <1>1, TypeParts DEF BotInv
<1>4. \A b \in Bots : Locked(b)'
  BY <1>1, <1>2, <1>3, Apart, LockKept
<1>5. \A b \in Bots : Agreed(b)'
  <2>1. \A b \in Bots : active'[b] \in Instances \/ active[b] \in Instances => active'[b] = active[b]
    BY <1>3, Apart
  <2>2. \A j \in Instances : launch[j].pc = "done" => launch'[j].pc = "done"
    BY <1>2
  <2> QED
    BY <1>1, <2>1, <2>2, AgreedKept
<1>6. BotTypeOK'
  <2>1. /\ active' \in [Bots -> Instances \cup {STARTING, None}]
        /\ registry' \in [Keys -> Instances \cup {None}]
    BY <1>1, TypeParts DEF BotInv
  <2> QED
    BY <1>1, <1>2, <1>4, <2>1, TypeParts DEF BotInv, BotTypeOK, Locked
<1> QED
  BY <1>2, <1>5, <1>6 DEF BotInv

LEMMA AbortInstanceStoppedInv ==
  ASSUME BotInv, NEW i \in Instances, AbortInstanceStopped(i)
  PROVE  BotInv'
<1> DEFINE x == launch[i].stream
           s == stream[x]
<1>1. launch[i].pc = "instance"
  BY DEF AbortInstanceStopped
<1>2. x \in Instances /\ s \in Stream /\ StreamTypeOK
  BY <1>1, TypeParts DEF BotInv, Made, StreamTypeOK
<1>3. CASE s.subs # {} /\ Moves(i, "done", None)
           /\ UNCHANGED <<streamVars, active, status, registry, bot, running, stop>>
  <2>1. /\ launch' \in [Instances -> Launch] /\ launch'[i].pc = "done"
        /\ \A j \in Instances : launch'[j].stream = launch[j].stream
        /\ \A j \in Instances \ {i} : launch'[j] = launch[j]
        /\ \A j \in Instances : Made(j)'
        /\ \A n \in Stops : Known(n)'
    BY <1>1, <1>3, LaunchMoved
  <2>2. StreamTypeOK' /\ \A y \in Instances : Served(y)'
    BY <1>3, <2>1, StreamsKept DEF streamVars
  <2>3. \A b \in Bots : Locked(b)'
    BY <1>1, <1>3, <2>1, LockKept
  <2>4. \A b \in Bots : Agreed(b)'
    BY <1>3, <2>1, AgreedKept
  <2>5. BotTypeOK'
    BY <1>3, <2>1, <2>2, <2>3, TypeParts DEF BotInv, BotTypeOK, Locked
  <2> QED
    BY <2>1, <2>2, <2>4, <2>5 DEF BotInv
<1>4. CASE s.subs = {} /\ ~Waits(s) /\ stream' = [stream EXCEPT ![x] = Down(s)]
           /\ UNCHANGED loop /\ AbortForgets(i)
  <2>1. Down(s) \in Stream /\ Down(s).subs = {} /\ ~Down(s).running /\ Down(s).task \in {None, s.task}
    BY <1>2, <1>4, DownFacts
  <2>2. loop' \in [Instances -> {"none", "live", "cancelled", "ended"}]
    BY <1>2, <1>4 DEF StreamTypeOK
  <2>3. (\A t \in Instances : launch'[t].stream = launch[t].stream)
          => StreamTypeOK' /\ \A y \in Instances : Served(y)'
    BY <1>2, <1>4, <2>1, <2>2, StreamStep
  <2> QED
    BY <1>1, <1>4, <2>3, ForgetsInv
<1>5. CASE /\ s.subs = {} /\ stream' = [stream EXCEPT ![x] = Down(s)] /\ loop' = Cancelled(s)
           /\ Moves(i, "close", s.task)
           /\ UNCHANGED <<active, status, registry, bot, running, stop>>
  <2>0. s.task \in Instances \cup {None}
    BY <1>2 DEF Stream
  <2>1. /\ launch' \in [Instances -> Launch]
        /\ \A j \in Instances : launch'[j].stream = launch[j].stream
        /\ \A j \in Instances \ {i} : launch'[j] = launch[j]
        /\ \A j \in Instances : Made(j)'
        /\ \A n \in Stops : Known(n)'
    BY <1>1, <1>5, <2>0, LaunchMoved
  <2>2. StreamTypeOK' /\ \A y \in Instances : Served(y)'
    BY <1>2, <1>5, <2>1, Unsubscribed
  <2>3. \A b \in Bots : Locked(b)'
    BY <1>1, <1>5, <2>1, LockKept
  <2>4. \A b \in Bots : Agreed(b)'
    BY <1>1, <1>5, <2>1, AgreedKept
  <2>5. BotTypeOK'
    BY <1>5, <2>1, <2>2, <2>3, TypeParts DEF BotInv, BotTypeOK, Locked
  <2> QED
    BY <2>1, <2>2, <2>4, <2>5 DEF BotInv
<1> QED
  BY <1>3, <1>4, <1>5 DEF AbortInstanceStopped

LEMMA AbortStreamStoppedInv ==
  ASSUME BotInv, NEW i \in Instances, AbortStreamStopped(i)
  PROVE  BotInv'
<1>1. /\ launch[i].pc = "close" /\ stream' = [stream EXCEPT ![launch[i].stream] = Stopped(@)]
      /\ UNCHANGED loop /\ AbortForgets(i)
  BY DEF AbortStreamStopped
<1>2. launch[i].stream \in Instances
  BY <1>1 DEF BotInv, Made
<1>3. (\A t \in Instances : launch'[t].stream = launch[t].stream)
        => StreamTypeOK' /\ \A y \in Instances : Served(y)'
  BY <1>1, <1>2, ForgetHandle
<1> QED
  BY <1>1, <1>3, ForgetsInv

LEMMA TaskInv ==
  ASSUME BotInv, NEW t \in Instances, TaskStep(t)
  PROVE  BotInv'
<1> DEFINE x == launch[t].stream
<1>1. /\ loop[t] = "cancelled" \/ (loop[t] = "live" /\ ~stream[x].running)
      /\ loop' = [loop EXCEPT ![t] = "ended"]
      /\ UNCHANGED <<stream, active, status, registry, bot, running, launch, stop>>
  BY DEF TaskStep, LoopEnds, callVars
<1>2. StreamTypeOK
  BY TypeParts DEF BotInv
<1>3. StreamTypeOK'
  BY <1>1, <1>2 DEF StreamTypeOK
<1>4. \A u \in Instances : loop'[u] = IF u = t THEN "ended" ELSE loop[u]
  BY <1>1, <1>2 DEF StreamTypeOK
<1>5. \A y \in Instances : Served(y)'
  BY <1>1, <1>4 DEF BotInv, Served
<1>6. BotTypeOK'
  BY <1>1, <1>3 DEF BotInv, BotTypeOK
<1> QED
  BY <1>1, <1>5, <1>6 DEF BotInv, Made, Known, InFlight, Agreed

(***************************************************************************)
(* stop_bot.                                                               *)
(***************************************************************************)

\* What a stop keeps whose await passes or that begins: the launches and the bots.
LEMMA StopKept ==
  ASSUME BotInv, stop' \in [Stops -> StopCall], \A n \in Stops : Known(n)',
         StreamTypeOK' /\ \A y \in Instances : Served(y)',
         registry' \in [Keys -> Instances \cup {None}], running' \subseteq Instances,
         active' \in [Bots -> Instances \cup {STARTING, None}],
         status' \in [Bots -> {"active", "inactive"}],
         \A b \in Bots : \/ active'[b] = active[b] /\ status'[b] = status[b]
                         \/ active'[b] = None /\ status'[b] = "inactive",
         UNCHANGED <<bot, launch>>
  PROVE  BotInv'
<1>1. \A b \in Bots : Locked(b)'
  BY Apart, LockKept
<1>2. BotTypeOK'
  BY <1>1, TypeParts DEF BotInv, BotTypeOK, Locked
<1>3. \A i \in Instances : Made(i)'
  BY DEF BotInv, Made
<1>4. \A b \in Bots : Agreed(b)'
  BY Apart DEF BotInv, Agreed
<1> QED
  BY <1>2, <1>3, <1>4 DEF BotInv

LEMMA UnusedFacts ==
  ASSUME BotInv, NEW n \in Stops, NEW i \in Instances, bot[i] \in Bots, NEW s, Unused(n, i, s),
         UNCHANGED bot
  PROVE  /\ registry' \in [Keys -> Instances \cup {None}] /\ stop' \in [Stops -> StopCall]
         /\ \A m \in Stops \ {n} : stop'[m] = stop[m]
         /\ stop'[n].of = i
         /\ \/ stop'[n].pc = "raised" /\ running' = running
            \/ stop'[n].pc = "instance" /\ running' = running \ {i}
         /\ \A m \in Stops : Known(m)'
<1> DEFINE raises == s.subs = {} /\ registry[KeyOfInstance(i)] = None
           p == IF raises THEN "raised" ELSE "instance"
           r == [pc |-> p, of |-> i, stream |-> None, awaits |-> None]
<1>1. /\ registry' = registry \/ registry' = [registry EXCEPT ![KeyOfInstance(i)] = None]
      /\ running' = IF raises THEN running ELSE running \ {i}
      /\ stop' = [stop EXCEPT ![n] = r]
  BY DEF Unused
<1>2. r \in StopCall /\ r.of = i /\ r.pc = p
  BY DEF StopCall
<1> HIDE DEF r
<1>3. stop \in [Stops -> StopCall] /\ registry \in [Keys -> Instances \cup {None}]
  BY TypeParts DEF BotInv
<1>4. registry' \in [Keys -> Instances \cup {None}] /\ stop' \in [Stops -> StopCall]
  BY <1>1, <1>2, <1>3
<1>5. \A m \in Stops \ {n} : stop'[m] = stop[m]
  BY <1>1, <1>3
<1>6. stop'[n] = r
  BY <1>1, <1>3
<1>7. \A m \in Stops : Known(m)'
  BY <1>2, <1>5, <1>6 DEF BotInv, Known, InFlight
<1> QED
  BY <1>1, <1>2, <1>4, <1>5, <1>6, <1>7

LEMMA StopUnlaunchedInv ==
  ASSUME BotInv, NEW b \in Bots, NEW n \in Stops, StopUnlaunched(b, n)
  PROVE  BotInv'
<1> DEFINE r == [stop[n] EXCEPT !.pc = "done"]
<1>1. /\ active' = [active EXCEPT ![b] = None] /\ status' = [status EXCEPT ![b] = "inactive"]
      /\ stop' = [stop EXCEPT ![n] = r]
      /\ UNCHANGED <<stream, loop, registry, bot, running, launch>>
  BY DEF StopUnlaunched, streamVars
<1>2. stop \in [Stops -> StopCall]
  BY TypeParts DEF BotInv
<1>3. r \in StopCall /\ r.pc = "done"
  BY <1>2 DEF StopCall
<1> HIDE DEF r
<1>4. stop' \in [Stops -> StopCall] /\ \A m \in Stops : stop'[m] = IF m = n THEN r ELSE stop[m]
  BY <1>1, <1>2, <1>3
<1>5. \A m \in Stops : Known(m)'
  BY <1>1, <1>3, <1>4 DEF BotInv, Known, InFlight
<1>6. StreamTypeOK' /\ \A y \in Instances : Served(y)'
  BY <1>1, StreamsKept
<1>7. /\ active' \in [Bots -> Instances \cup {STARTING, None}]
      /\ status' \in [Bots -> {"active", "inactive"}]
      /\ registry' \in [Keys -> Instances \cup {None}] /\ running' \subseteq Instances
      /\ \A c \in Bots : \/ active'[c] = active[c] /\ status'[c] = status[c]
                         \/ active'[c] = None /\ status'[c] = "inactive"
  BY <1>1, BotTypes
<1> QED
  BY <1>1, <1>4, <1>5, <1>6, <1>7, StopKept

LEMMA StopRegisteredInv ==
  ASSUME BotInv, NEW b \in Bots, NEW n \in Stops, StopRegistered(b, n)
  PROVE  BotInv'
<1> DEFINE i == active[b]
           x == registry[KeyOf[b]]
           s == Without(stream[x], i)
           r1 == [NoStop EXCEPT !.pc = "instance", !.of = i]
           r2 == [pc |-> "unsubscribe", of |-> i, stream |-> x, awaits |-> s.task]
<1>1. i \in Instances /\ UNCHANGED <<active, status, bot, launch>>
  BY DEF StopRegistered
<1>2. bot[i] \in Bots
  BY <1>1 DEF BotInv, Agreed
<1>3. stop \in [Stops -> StopCall]
  BY TypeParts DEF BotInv
<1>4. CASE /\ x = None /\ running' = running \ {i} /\ stop' = [stop EXCEPT ![n] = r1]
           /\ UNCHANGED <<streamVars, registry>>
  <2>1. r1 \in StopCall /\ r1.of = i
    BY <1>1 DEF StopCall, NoStop
  <2> HIDE DEF r1
  <2>2. stop' \in [Stops -> StopCall] /\ \A m \in Stops : stop'[m] = IF m = n THEN r1 ELSE stop[m]
    BY <1>3, <1>4, <2>1
  <2>3. \A m \in Stops : Known(m)'
    BY <1>1, <1>2, <2>1, <2>2 DEF BotInv, Known, InFlight
  <2>4. StreamTypeOK' /\ \A y \in Instances : Served(y)'
    BY <1>1, <1>4, StreamsKept DEF streamVars
  <2> QED
    BY <1>1, <1>4, <2>2, <2>3, <2>4, BotTypes, StopKept
<1>5. CASE /\ x # None
           /\ \/ s.subs # {} /\ stream' = [stream EXCEPT ![x] = s] /\ UNCHANGED loop
              \/ s.subs = {} /\ stream' = [stream EXCEPT ![x] = Down(s)] /\ loop' = Cancelled(s)
           /\ \/ stop' = [stop EXCEPT ![n] = r2] /\ UNCHANGED <<registry, running>>
              \/ Unused(n, i, s)
  <2>1. x \in Instances /\ stream[x] \in Stream
    <3>1. KeyOf[b] \in Keys
      BY BotAssumption
    <3> QED
      BY <1>5, <3>1, TypeParts DEF BotInv, StreamTypeOK
  <2>2. /\ s \in Stream /\ s.subs \subseteq stream[x].subs
        /\ s.running = stream[x].running /\ s.task = stream[x].task
    BY <2>1, WithoutFacts
  <2> HIDE DEF s
  <2>3. StreamTypeOK' /\ \A y \in Instances : Served(y)'
    BY <1>1, <1>5, <2>1, <2>2, Unsubscribed
  <2>4. CASE stop' = [stop EXCEPT ![n] = r2] /\ UNCHANGED <<registry, running>>
    <3>1. r2 \in StopCall /\ r2.of = i
      BY <1>1, <2>1, <2>2 DEF StopCall, Stream
    <3> HIDE DEF r2
    <3>2. stop' \in [Stops -> StopCall] /\ \A m \in Stops : stop'[m] = IF m = n THEN r2 ELSE stop[m]
      BY <1>3, <2>4, <3>1
    <3>3. \A m \in Stops : Known(m)'
      BY <1>1, <1>2, <3>1, <3>2 DEF BotInv, Known, InFlight
    <3> QED
      BY <1>1, <2>3, <2>4, <3>2, <3>3, BotTypes, StopKept
  <2>5. CASE Unused(n, i, s)
    <3>1. /\ registry' \in [Keys -> Instances \cup {None}] /\ stop' \in [Stops -> StopCall]
          /\ running' \subseteq running /\ \A m \in Stops : Known(m)'
      BY <1>1, <1>2, <2>5, UnusedFacts
    <3> QED
      BY <1>1, <2>3, <3>1, BotTypes, StopKept
  <2> QED
    BY <1>5, <2>4, <2>5
<1> QED
  BY <1>4, <1>5 DEF StopRegistered

LEMMA StopUnsubscribedInv ==
  ASSUME BotInv, NEW n \in Stops, StopUnsubscribed(n)
  PROVE  BotInv'
<1> DEFINE x == stop[n].stream
           i == stop[n].of
           s == Stopped(stream[x])
           t == IF s.subs = {} THEN Down(s) ELSE s
<1>1. /\ InFlight(n) /\ stream' = [stream EXCEPT ![x] = t] /\ Unused(n, i, s)
      /\ UNCHANGED <<loop, active, status, bot, launch>>
  BY DEF StopUnsubscribed, InFlight
<1>2. i \in Instances /\ bot[i] \in Bots
  BY <1>1 DEF BotInv, Known
<1>3. /\ registry' \in [Keys -> Instances \cup {None}] /\ stop' \in [Stops -> StopCall]
      /\ running' \subseteq running /\ \A m \in Stops : Known(m)'
  BY <1>1, <1>2, UnusedFacts
<1>4. StreamTypeOK /\ stop[n] \in StopCall
  BY TypeParts DEF BotInv
<1>5. CASE x \in Instances
  <2>1. stream[x] \in Stream /\ loop' \in [Instances -> {"none", "live", "cancelled", "ended"}]
    BY <1>1, <1>4, <1>5 DEF StreamTypeOK
  <2>2. s \in Stream /\ s.subs = stream[x].subs /\ s.running = stream[x].running /\ s.task = None
    BY <2>1, StoppedFacts
  <2>3. s.running <=> s.subs # {}
    BY <1>5, <2>2 DEF BotInv, Served
  <2> HIDE DEF s
  <2>4. CASE s.subs = {}
    <3>1. t \in Stream /\ t.subs = {} /\ ~t.running /\ t.task = None
      BY <2>2, <2>4, DownFacts
    <3> HIDE DEF t
    <3> QED
      BY <1>1, <1>3, <1>5, <2>1, <3>1, StreamStep, BotTypes, StopKept
  <2>5. CASE s.subs # {}
    <3>1. t = s
      BY <2>5
    <3> HIDE DEF t
    <3> QED
      BY <1>1, <1>3, <1>5, <2>1, <2>2, <2>3, <3>1, StreamStep, BotTypes, StopKept
  <2> QED
    BY <2>4, <2>5
<1>6. CASE x \notin Instances
  <2>1. stream' = stream
    BY <1>1, <1>4, <1>6 DEF StreamTypeOK
  <2>2. StreamTypeOK' /\ \A y \in Instances : Served(y)'
    BY <1>1, <2>1, StreamsKept
  <2> QED
    BY <1>1, <1>3, <2>2, BotTypes, StopKept
<1> QED
  BY <1>5, <1>6

LEMMA StopEndsInv ==
  ASSUME BotInv, NEW n \in Stops, StopEnds(n)
  PROVE  BotInv'
<1> DEFINE b == bot[stop[n].of]
           r == [stop[n] EXCEPT !.pc = "done"]
<1>1. /\ active' = [active EXCEPT ![b] = None] /\ status' = [status EXCEPT ![b] = "inactive"]
      /\ stop' = [stop EXCEPT ![n] = r]
      /\ UNCHANGED <<stream, loop, registry, bot, running, launch>>
  BY DEF StopEnds, streamVars
<1>2. stop \in [Stops -> StopCall]
  BY TypeParts DEF BotInv
<1>3. r \in StopCall /\ r.pc = "done"
  BY <1>2 DEF StopCall
<1> HIDE DEF r
<1>4. stop' \in [Stops -> StopCall] /\ \A m \in Stops : stop'[m] = IF m = n THEN r ELSE stop[m]
  BY <1>1, <1>2, <1>3
<1>5. \A m \in Stops : Known(m)'
  BY <1>1, <1>3, <1>4 DEF BotInv, Known, InFlight
<1>6. StreamTypeOK' /\ \A y \in Instances : Served(y)'
  BY <1>1, StreamsKept
<1>7. /\ active' \in [Bots -> Instances \cup {STARTING, None}]
      /\ status' \in [Bots -> {"active", "inactive"}]
      /\ registry' \in [Keys -> Instances \cup {None}] /\ running' \subseteq Instances
      /\ \A c \in Bots : \/ active'[c] = active[c] /\ status'[c] = status[c]
                         \/ active'[c] = None /\ status'[c] = "inactive"
  BY <1>1, BotTypes
<1> QED
  BY <1>1, <1>4, <1>5, <1>6, <1>7, StopKept

LEMMA StutterInv == ASSUME BotInv, UNCHANGED vars PROVE BotInv'
<1>1. UNCHANGED <<stream, loop, active, status, registry, bot, running, launch, stop>>
  BY DEF vars, streamVars, callVars
<1>2. BotTypeOK'
  BY <1>1 DEF BotInv, BotTypeOK, StreamTypeOK
<1> QED
  BY <1>1, <1>2 DEF BotInv, Made, Served, Known, InFlight, Agreed

LEMMA NextInv == ASSUME BotInv, [BotNext]_vars PROVE BotInv'
<1>1. ASSUME NEW b \in Bots, NEW n \in Stops, Stop(b, n) PROVE BotInv'
  BY <1>1, StopUnlaunchedInv, StopRegisteredInv DEF Stop
<1>2. ASSUME NEW i \in Instances, LaunchStep(i) PROVE BotInv'
  BY <1>2, StartEndsInv, StartAbortsInv, AbortUnsubscribedInv, AbortInstanceStoppedInv,
     AbortStreamStoppedInv DEF LaunchStep
<1>3. ASSUME NEW n \in Stops, StopStep(n) PROVE BotInv'
  BY <1>3, StopUnsubscribedInv, StopEndsInv DEF StopStep
<1> QED
  BY <1>1, <1>2, <1>3, StartInv, TaskInv, StutterInv DEF BotNext

LEMMA BotInvAlways == BotSpec => []BotInv
BY InitInv, NextInv, PTL DEF BotSpec

\* For any bots, keys, starts and stops, overlapping ones included: registry, instances,
\* streams and calls keep their types, and a lock in the registry belongs to a start that
\* still awaits its instance.
THEOREM BotTypeCorrect == BotSpec => []BotTypeOK
<1>1. BotInv => BotTypeOK
  BY DEF BotInv
<1> QED
  BY <1>1, BotInvAlways, PTL

\* For any number of bots on a stream and any crossing of subscriptions with the stop of
\* the stream: a stream with subscribers has a loop that nobody has cancelled.
THEOREM AlwaysServed == BotSpec => []SubscribersAreServed
<1>1. BotInv => SubscribersAreServed
  BY DEF BotInv, Served, SubscribersAreServed
<1> QED
  BY <1>1, BotInvAlways, PTL

\* For any crossing of starts, aborts and stops: with no call in flight, the database calls
\* active exactly the bots that are in memory.
THEOREM DatabaseAgrees == BotSpec => []MemoryMatchesDatabase
<1>1. BotInv => MemoryMatchesDatabase
  <2> SUFFICES ASSUME BotInv, Quiet, NEW b \in Bots
               PROVE  (status[b] = "active") <=> (active[b] # None)
    BY DEF MemoryMatchesDatabase
  <2>1. Agreed(b) /\ Locked(b) /\ active[b] \in Instances \cup {STARTING, None}
    BY TypeParts DEF BotInv
  <2>2. active[b] # STARTING
    BY <2>1 DEF Locked, Quiet
  <2> QED
    BY <2>1, <2>2, Apart DEF Agreed
<1> QED
  BY <1>1, BotInvAlways, PTL

(***************************************************************************)
(* No trading instance is lost, while no two stops of one bot overlap.     *)
(***************************************************************************)
StrayHyp == BotInv /\ StrayInv /\ ~StopsOverlap

LEMMA StrayFacts ==
  ASSUME StrayHyp
  PROVE  /\ BotInv /\ running \subseteq Instances
         /\ \A i \in running : bot[i] \in Bots
         /\ \A n \in Stops : Known(n) /\ Held(n)
         /\ \A i \in running : \/ active[bot[i]] = i
                              \/ launch[i].pc \in {"init", "unsubscribe"}
                              \/ \E n \in Stops : stop[n].of = i /\ InFlight(n)
BY BotTypes DEF StrayHyp, StrayInv, NoStrayInstance, BotInv, Made

\* A step that stops nothing: a start call that moves on, or a task.
LEMMA LaunchStray ==
  ASSUME StrayHyp, UNCHANGED <<bot, stop>>, running' \subseteq running,
         \A b \in Bots : active[b] \in Instances => active'[b] = active[b],
         NEW i \in Instances,
         \A j \in Instances \ {i} : launch'[j] = launch[j],
         launch'[i].pc # "idle",
         \/ active'[bot[i]] = i
         \/ i \notin running'
         \/ launch'[i].pc \in {"init", "unsubscribe"}
         \/ launch[i].pc \notin {"init", "unsubscribe"}
  PROVE  StrayInv'
<1>1. \A n \in Stops : Held(n)'
  BY StrayFacts DEF Known, Held, InFlight
<1>2. \A j \in running' : launch'[j].pc # "idle"
  BY StrayFacts DEF StrayHyp, StrayInv
<1>3. NoStrayInstance'
  <2> SUFFICES ASSUME NEW j \in running'
               PROVE  \/ active'[bot[j]] = j
                      \/ launch'[j].pc \in {"init", "unsubscribe"}
                      \/ \E n \in Stops : stop[n].of = j /\ InFlight(n)
    BY DEF NoStrayInstance, InFlight
  <2>1. j \in running /\ j \in Instances /\ bot[j] \in Bots
    BY StrayFacts
  <2>2. active[bot[j]] = j => active'[bot[j]] = j
    BY <2>1
  <2> QED
    BY <2>1, <2>2, StrayFacts
<1> QED
  BY <1>1, <1>2, <1>3 DEF StrayInv

LEMMA MovedStray ==
  ASSUME StrayHyp, UNCHANGED <<bot, stop>>, running' \subseteq running,
         \A b \in Bots : active[b] \in Instances => active'[b] = active[b],
         NEW i \in Instances, launch[i].pc \notin {"idle", "done"},
         NEW p \in {"unsubscribe", "instance", "close", "done"},
         NEW t \in Instances \cup {None}, Moves(i, p, t),
         \/ active'[bot[i]] = i
         \/ i \notin running'
         \/ p = "unsubscribe"
         \/ launch[i].pc \notin {"init", "unsubscribe"}
  PROVE  StrayInv'
<1>1. /\ launch'[i].pc = p
      /\ \A j \in Instances \ {i} : launch'[j] = launch[j]
  BY StrayFacts, LaunchMoved
<1> QED
  BY <1>1, LaunchStray

LEMMA ForgetsStray ==
  ASSUME StrayHyp, NEW i \in Instances, launch[i].pc \in {"instance", "close"}, AbortForgets(i)
  PROVE  StrayInv'
<1>1. /\ Moves(i, "done", None)
      /\ \/ active' = [active EXCEPT ![bot[i]] = None] /\ active[bot[i]] = STARTING
         \/ active' = active
      /\ UNCHANGED <<bot, running, stop>>
  BY DEF AbortForgets
<1>2. \A b \in Bots : active[b] \in Instances => active'[b] = active[b]
  BY <1>1, Apart, StrayFacts, BotTypes
<1> QED
  BY <1>1, <1>2, MovedStray

LEMMA LaunchStepStray ==
  ASSUME StrayHyp, NEW i \in Instances, LaunchStep(i)
  PROVE  StrayInv'
<1>0. BotInv /\ StreamTypeOK /\ active \in [Bots -> Instances \cup {STARTING, None}]
  BY StrayFacts, BotTypes DEF BotInv, BotTypeOK
<1>1. CASE StartEnds(i)
  <2>1. /\ launch[i].pc = "init" /\ active[bot[i]] = STARTING
        /\ active' = [active EXCEPT ![bot[i]] = i] /\ Moves(i, "done", None)
        /\ UNCHANGED <<bot, running, stop>>
    BY <1>1 DEF StartEnds, Registered
  <2>2. bot[i] \in Bots
    BY <1>0, <2>1 DEF BotInv, Made
  <2>3. active'[bot[i]] = i /\ \A b \in Bots : active[b] \in Instances => active'[b] = active[b]
    BY <1>0, <2>1, <2>2, Apart
  <2> QED
    BY <2>1, <2>3, MovedStray
<1>2. CASE StartAborts(i)
  <2> DEFINE s == Without(stream[launch[i].stream], i)
  <2>1. /\ launch[i].pc = "init"
        /\ \/ Moves(i, "unsubscribe", s.task) /\ UNCHANGED running
           \/ Moves(i, "instance", None) /\ running' = running \ {i}
        /\ UNCHANGED <<active, bot, stop>>
    BY <1>2 DEF StartAborts
  <2>2. s \in Stream
    BY <1>0, <2>1, WithoutFacts DEF BotInv, Made, StreamTypeOK
  <2>3. s.task \in Instances \cup {None}
    BY <2>2 DEF Stream
  <2> HIDE DEF s
  <2>4. CASE Moves(i, "unsubscribe", s.task) /\ UNCHANGED running
    BY <2>1, <2>3, <2>4, MovedStray
  <2>5. CASE Moves(i, "instance", None) /\ running' = running \ {i}
    BY <2>1, <2>5, MovedStray
  <2> QED
    BY <2>1, <2>4, <2>5
<1>3. CASE AbortUnsubscribed(i)
  <2>1. /\ launch[i].pc = "unsubscribe" /\ Moves(i, "instance", None) /\ running' = running \ {i}
        /\ UNCHANGED <<active, bot, stop>>
    BY <1>3 DEF AbortUnsubscribed
  <2> QED
    BY <2>1, MovedStray
<1>4. CASE AbortInstanceStopped(i)
  <2> DEFINE s == stream[launch[i].stream]
  <2>1. /\ launch[i].pc = "instance"
        /\ \/ Moves(i, "done", None) /\ UNCHANGED <<active, bot, running, stop>>
           \/ Moves(i, "close", s.task) /\ UNCHANGED <<active, bot, running, stop>>
           \/ AbortForgets(i)
    BY <1>4 DEF AbortInstanceStopped
  <2>2. s.task \in Instances \cup {None}
    BY <1>0, <2>1 DEF BotInv, Made, StreamTypeOK, Stream
  <2> HIDE DEF s
  <2>3. CASE Moves(i, "done", None) /\ UNCHANGED <<active, bot, running, stop>>
    BY <2>1, <2>3, MovedStray
  <2>4. CASE Moves(i, "close", s.task) /\ UNCHANGED <<active, bot, running, stop>>
    BY <2>1, <2>2, <2>4, MovedStray
  <2> QED
    BY <2>1, <2>3, <2>4, ForgetsStray
<1>5. CASE AbortStreamStopped(i)
  BY <1>5, ForgetsStray DEF AbortStreamStopped
<1> QED
  BY <1>1, <1>2, <1>3, <1>4, <1>5 DEF LaunchStep

LEMMA StartStray ==
  ASSUME StrayHyp, NEW b \in Bots, NEW i \in Instances, Start(b, i)
  PROVE  StrayInv'
<1>0. BotInv /\ launch \in [Instances -> Launch] /\ bot \in [Instances -> Bots \cup {None}]
      /\ active \in [Bots -> Instances \cup {STARTING, None}]
  BY StrayFacts DEF BotInv, BotTypeOK
<1>1. /\ bot[i] = None /\ active[b] = None
      /\ active' = [active EXCEPT ![b] = STARTING] /\ bot' = [bot EXCEPT ![i] = b]
      /\ running' = running \cup {i} /\ stop' = stop
      /\ \E r : r.pc = "init" /\ launch' = [launch EXCEPT ![i] = r]
  <2> DEFINE r == [pc |-> "init", stream |-> IF registry[KeyOf[b]] = None THEN i ELSE registry[KeyOf[b]],
                   awaits |-> None]
  <2>1. r.pc = "init"
    OBVIOUS
  <2> QED
    BY <2>1 DEF Start, Locks
<1>2. launch'[i].pc = "init" /\ bot'[i] = b /\ launch[i].pc = "idle"
  BY <1>0, <1>1 DEF BotInv, Made, Idle
<1>3. \A j \in Instances \ {i} : launch'[j] = launch[j] /\ bot'[j] = bot[j]
  BY <1>0, <1>1
<1>4. \A c \in Bots : active[c] \in Instances => active'[c] = active[c]
  BY <1>0, <1>1, Apart
<1>5. \A n \in Stops : InFlight(n) => stop[n].of \in Instances \ {i} /\ bot[stop[n].of] \in Bots
  BY <1>1, StrayFacts, Apart DEF Known
<1>6. \A n \in Stops : Held(n)'
  <2> SUFFICES ASSUME NEW n \in Stops, InFlight(n)
               PROVE  /\ active'[bot'[stop[n].of]] = stop[n].of
                      /\ stop[n].pc = "instance" => stop[n].of \notin running'
                      /\ \A m \in Stops \ {n} : InFlight(m) => bot'[stop[m].of] # bot'[stop[n].of]
    BY <1>1 DEF Held, InFlight
  <2>1. Held(n)
    BY StrayFacts
  <2> QED
    BY <1>1, <1>3, <1>4, <1>5, <2>1 DEF Held
<1>7. \A j \in running' : launch'[j].pc # "idle"
  BY <1>1, <1>2, <1>3, StrayFacts DEF StrayHyp, StrayInv
<1>8. NoStrayInstance'
  <2> SUFFICES ASSUME NEW j \in running', j # i
               PROVE  \/ active'[bot'[j]] = j
                      \/ launch'[j].pc \in {"init", "unsubscribe"}
                      \/ \E n \in Stops : stop[n].of = j /\ InFlight(n)
    BY <1>1, <1>2 DEF NoStrayInstance, InFlight
  <2>1. j \in running /\ j \in Instances \ {i} /\ bot[j] \in Bots
    BY <1>1, StrayFacts
  <2> QED
    BY <1>3, <1>4, <2>1, StrayFacts
<1> QED
  BY <1>6, <1>7, <1>8 DEF StrayInv

\* A stop that begins or whose stream has stopped: the bot stays in memory as instance i,
\* and no other stop of the bot is in flight.
LEMMA StopOnStray ==
  ASSUME StrayHyp, NEW n \in Stops, NEW i \in Instances, UNCHANGED <<active, bot, launch>>,
         \A m \in Stops \ {n} : stop'[m] = stop[m], stop'[n].of = i,
         bot[i] \in Bots, active[bot[i]] = i, InFlight(n) => stop[n].of = i,
         \A m \in Stops \ {n} : InFlight(m) => bot[stop[m].of] # bot[i],
         running' \subseteq running, stop'[n].pc = "instance" => i \notin running'
  PROVE  StrayInv'
<1>1. \A m \in Stops \ {n} : InFlight(m)' <=> InFlight(m)
  BY DEF InFlight
<1>2. ASSUME NEW m \in Stops PROVE Held(m)'
  <2>1. CASE m = n
    BY <1>1, <2>1 DEF Held
  <2>2. CASE m # n
    <3>1. Held(m)
      BY StrayFacts
    <3> QED
      BY <1>1, <2>2, <3>1 DEF Held
  <2> QED
    BY <2>1, <2>2
<1>3. \A j \in running' : launch'[j].pc # "idle"
  BY DEF StrayHyp, StrayInv
<1>4. NoStrayInstance'
  <2> SUFFICES ASSUME NEW j \in running'
               PROVE  \/ active[bot[j]] = j
                      \/ launch[j].pc \in {"init", "unsubscribe"}
                      \/ \E m \in Stops : stop'[m].of = j /\ InFlight(m)'
    BY DEF NoStrayInstance
  <2>1. CASE \E m \in Stops : stop[m].of = j /\ InFlight(m)
    <3>1. PICK m \in Stops : stop[m].of = j /\ InFlight(m)
      BY <2>1
    <3>2. CASE m = n
      BY <3>1, <3>2
    <3>3. CASE m # n
      BY <1>1, <3>1, <3>3
    <3> QED
      BY <3>2, <3>3
  <2> QED
    BY <2>1, StrayFacts
<1> QED
  BY <1>2, <1>3, <1>4 DEF StrayInv

LEMMA StopStray ==
  ASSUME StrayHyp, NEW b \in Bots, NEW n \in Stops, Stop(b, n)
  PROVE  StrayInv'
<1>0. BotInv /\ stop \in [Stops -> StopCall] /\ active \in [Bots -> Instances \cup {STARTING, None}]
  BY StrayFacts, BotTypes
<1>1. ~InFlight(n) /\ \A m \in Stops : InFlight(m) => bot[stop[m].of] # b
  BY DEF Stop, InFlight, StrayHyp
<1>2. CASE StopUnlaunched(b, n)
  <2>1. /\ active' = [active EXCEPT ![b] = None] /\ active[b] \in {None, STARTING}
        /\ stop' = [stop EXCEPT ![n].pc = "done"] /\ UNCHANGED <<bot, running, launch>>
    BY <1>2 DEF StopUnlaunched
  <2>2. \A c \in Bots : active[c] \in Instances => active'[c] = active[c]
    BY <1>0, <2>1, Apart
  <2>3. stop'[n].pc = "done" /\ \A m \in Stops \ {n} : stop'[m] = stop[m]
    BY <1>0, <2>1 DEF StopCall
  <2>4. \A m \in Stops : (InFlight(m)' <=> InFlight(m)) /\ (InFlight(m) => m # n /\ stop'[m] = stop[m])
    BY <1>1, <2>3 DEF InFlight
  <2>5. ASSUME NEW m \in Stops PROVE Held(m)'
    <3>1. Held(m) /\ Known(m)
      BY StrayFacts
    <3> QED
      BY <2>1, <2>2, <2>4, <3>1 DEF Held, Known
  <2>6. NoStrayInstance'
    <3> SUFFICES ASSUME NEW j \in running
                 PROVE  \/ active'[bot[j]] = j
                        \/ launch[j].pc \in {"init", "unsubscribe"}
                        \/ \E m \in Stops : stop'[m].of = j /\ InFlight(m)'
      BY <2>1 DEF NoStrayInstance
    <3> QED
      BY <2>2, <2>4, StrayFacts
  <2> QED
    BY <2>1, <2>5, <2>6 DEF StrayInv, StrayHyp
<1>3. CASE StopRegistered(b, n)
  <2> DEFINE i == active[b]
             x == registry[KeyOf[b]]
             s == Without(stream[x], i)
             r1 == [NoStop EXCEPT !.pc = "instance", !.of = i]
             r2 == [pc |-> "unsubscribe", of |-> i, stream |-> x, awaits |-> s.task]
  <2>1. /\ i \in Instances /\ UNCHANGED <<active, bot, launch>>
        /\ \/ running' = running \ {i} /\ stop' = [stop EXCEPT ![n] = r1]
           \/ running' = running /\ stop' = [stop EXCEPT ![n] = r2]
           \/ Unused(n, i, s)
    BY <1>3 DEF StopRegistered
  <2>2. bot[i] = b
    BY <1>0, <2>1 DEF BotInv, Agreed
  <2> HIDE DEF s
  <2>3. CASE running' = running \ {i} /\ stop' = [stop EXCEPT ![n] = r1]
    <3>1. r1.of = i
      BY DEF NoStop
    <3> HIDE DEF r1
    <3> QED
      BY <1>0, <1>1, <2>1, <2>2, <2>3, <3>1, StopOnStray
  <2>4. CASE running' = running /\ stop' = [stop EXCEPT ![n] = r2]
    BY <1>0, <1>1, <2>1, <2>2, <2>4, StopOnStray
  <2>5. CASE Unused(n, i, s)
    <3>1. /\ \A m \in Stops \ {n} : stop'[m] = stop[m]
          /\ stop'[n].of = i
          /\ \/ stop'[n].pc = "raised" /\ running' = running
             \/ stop'[n].pc = "instance" /\ running' = running \ {i}
      BY <1>0, <2>1, <2>2, <2>5, UnusedFacts
    <3> QED
      BY <1>1, <2>1, <2>2, <3>1, StopOnStray
  <2> QED
    BY <2>1, <2>3, <2>4, <2>5
<1> QED
  BY <1>2, <1>3 DEF Stop

LEMMA StopStepStray ==
  ASSUME StrayHyp, NEW n \in Stops, StopStep(n)
  PROVE  StrayInv'
<1> DEFINE i == stop[n].of
           b == bot[i]
<1>0. BotInv /\ stop \in [Stops -> StopCall] /\ active \in [Bots -> Instances \cup {STARTING, None}]
  BY StrayFacts, BotTypes
<1>1. InFlight(n)
  BY DEF StopStep, StopUnsubscribed, StopEnds, InFlight
<1>2. /\ i \in Instances /\ b \in Bots /\ active[b] = i
      /\ \A m \in Stops \ {n} : InFlight(m) => bot[stop[m].of] # b
  BY <1>1, StrayFacts DEF Known, Held
<1>3. CASE StopUnsubscribed(n)
  <2>1. Unused(n, i, Stopped(stream[stop[n].stream])) /\ UNCHANGED <<active, bot, launch>>
    BY <1>3 DEF StopUnsubscribed
  <2>2. /\ \A m \in Stops \ {n} : stop'[m] = stop[m]
        /\ stop'[n].of = i
        /\ \/ stop'[n].pc = "raised" /\ running' = running
           \/ stop'[n].pc = "instance" /\ running' = running \ {i}
    BY <1>0, <1>2, <2>1, UnusedFacts
  <2> QED
    BY <1>2, <2>1, <2>2, StopOnStray
<1>4. CASE StopEnds(n)
  <2>1. /\ stop[n].pc = "instance" /\ active' = [active EXCEPT ![b] = None]
        /\ stop' = [stop EXCEPT ![n].pc = "done"] /\ UNCHANGED <<bot, running, launch>>
    BY <1>4 DEF StopEnds
  <2>2. stop'[n].pc = "done" /\ \A m \in Stops \ {n} : stop'[m] = stop[m]
    BY <1>0, <2>1 DEF StopCall
  <2>3. i \notin running
    BY <1>1, <2>1, StrayFacts DEF Held
  <2>4. \A c \in Bots \ {b} : active'[c] = active[c]
    BY <1>0, <2>1
  <2>5. \A m \in Stops : InFlight(m)' <=> (m # n /\ InFlight(m))
    BY <2>2 DEF InFlight
  <2>6. ASSUME NEW m \in Stops PROVE Held(m)'
    <3>1. Held(m) /\ Known(m)
      BY StrayFacts
    <3> QED
      BY <1>2, <2>1, <2>2, <2>4, <2>5, <3>1 DEF Held, Known
  <2>7. NoStrayInstance'
    <3> SUFFICES ASSUME NEW j \in running
                 PROVE  \/ active'[bot[j]] = j
                        \/ launch[j].pc \in {"init", "unsubscribe"}
                        \/ \E m \in Stops : stop'[m].of = j /\ InFlight(m)'
      BY <2>1 DEF NoStrayInstance
    <3>1. j # i /\ bot[j] \in Bots
      BY <2>3, StrayFacts
    <3>2. CASE active[bot[j]] = j
      BY <1>2, <2>4, <3>1, <3>2
    <3>3. CASE \E m \in Stops : stop[m].of = j /\ InFlight(m)
      BY <2>2, <2>5, <3>1, <3>3
    <3> QED
      BY <3>2, <3>3, StrayFacts
  <2> QED
    BY <2>1, <2>6, <2>7 DEF StrayInv, StrayHyp
<1> QED
  BY <1>3, <1>4 DEF StopStep

LEMMA NextStray == ASSUME StrayHyp, [BotNext]_vars PROVE StrayInv'
<1>1. CASE UNCHANGED <<active, bot, running, launch, stop>>
  BY <1>1 DEF StrayHyp, StrayInv, Held, InFlight, NoStrayInstance
<1>2. ASSUME NEW t \in Instances, TaskStep(t) PROVE StrayInv'
  BY <1>1, <1>2 DEF TaskStep, callVars
<1>3. UNCHANGED vars => StrayInv'
  BY <1>1 DEF vars, callVars
<1> QED
  BY <1>2, <1>3, StartStray, StopStray, LaunchStepStray, StopStepStray DEF BotNext

\* For any crossing of starts and stops in which no two stops of one bot overlap: every
\* instance that trades is in the registry or in the hands of a call, so that it can be
\* stopped.  (With overlapping stops the property fails: README, section 6.)
THEOREM NothingStrays ==
  ASSUME ~StopsOverlap
  PROVE  BotSpec => []NoStrayInstance
<1>1. BotInit => StrayInv
  BY DEF BotInit, StrayInv, Held, InFlight, NoStop, NoStrayInstance
<1>2. BotInv /\ StrayInv /\ [BotNext]_vars => StrayInv'
  BY NextStray DEF StrayHyp
<1>3. StrayInv => NoStrayInstance
  BY DEF StrayInv
<1> QED
  BY <1>1, <1>2, <1>3, BotInvAlways, PTL DEF BotSpec

=============================================================================
