---------------------------- MODULE SharedStream ----------------------------
(***************************************************************************)
(* The market stream that bots of one market share, in                     *)
(* src/backend/app/services/shared_stream.py: its subscribers, its running *)
(* flag, and the task of its socket loop.  A call runs up to its next      *)
(* await; the only one that suspends a caller is the one in stop, for the  *)
(* task that stop has cancelled, so stop comes in two halves.              *)
(*                                                                         *)
(* Bot instances are numbered as they are made.  The stream an instance    *)
(* makes and the task it starts carry its number.                          *)
(***************************************************************************)
EXTENDS Naturals, FiniteSets

CONSTANTS
  MaxStarts,  \* bound: bots started
  None        \* no stream, task or instance

ASSUME StreamAssumption == MaxStarts \in Nat /\ None \notin Nat

Instances == 1 .. MaxStarts

VARIABLES
  stream,  \* the stream objects
  loop     \* the tasks, alive until they have left their socket

streamVars == <<stream, loop>>

Stream == [subs : SUBSET Instances, running : BOOLEAN, task : Instances \cup {None}]

NoStream == [subs |-> {}, running |-> FALSE, task |-> None]

StreamTypeOK ==
  /\ stream \in [Instances -> Stream]
  /\ loop \in [Instances -> {"none", "live", "cancelled", "ended"}]

StreamInit ==
  /\ stream = [x \in Instances |-> NoStream]
  /\ loop = [t \in Instances |-> "none"]

\* subscribe: the first subscriber starts the loop.
Subscribe(x, i) ==
  LET s == stream[x]
  IN  /\ stream' = [stream EXCEPT ![x] =
                      [subs |-> s.subs \cup {i}, running |-> TRUE,
                       task |-> IF s.running THEN s.task ELSE i]]
      /\ loop' = IF s.running THEN loop ELSE [loop EXCEPT ![i] = "live"]

Without(s, i) == [s EXCEPT !.subs = @ \ {i}]

\* Whether stop has a task to wait for.
Waits(s) == s.task # None /\ loop[s.task] # "ended"

\* Behind its await, stop forgets whatever task the handle names by now.
Stopped(s) == [s EXCEPT !.task = None]

\* Faulty variant: the flag stays up.
DownQuietly(s) == IF Waits(s) THEN s ELSE Stopped(s)

\* stop, up to its await if it has one: the flag.
Down(s) == LET d == [s EXCEPT !.running = FALSE] IN IF Waits(s) THEN d ELSE Stopped(d)

\* Faulty variant: the task is left to find the flag by itself.
LeftAlone(s) == loop

\* stop, up to its await: the task.
Cancelled(s) ==
  IF s.task # None /\ loop[s.task] = "live" THEN [loop EXCEPT ![s.task] = "cancelled"] ELSE loop

\* A cancelled task, and one that finds the flag lowered, leaves its socket.
LoopEnds(t, x) ==
  /\ loop[t] = "cancelled" \/ (loop[t] = "live" /\ ~stream[x].running)
  /\ loop' = [loop EXCEPT ![t] = "ended"]
  /\ UNCHANGED stream

=============================================================================
