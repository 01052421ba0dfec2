----------------------------- MODULE ExitContract -----------------------------
(***************************************************************************)
(* What the caller of execute_manual_smart_chase hands a bracket over for: *)
(* its exit is worked one maker order after the other and, when the        *)
(* attempts are used up, at market.  Nothing is said of prices, quantities,*)
(* reads or rejections.  Module SmartChase implements this specification.  *)
(*                                                                         *)
(* A remote call that raises leaves the chase in the dark about its order: *)
(* from then on (upset) the promises about the order book are void, those  *)
(* about the course of the exit are not.                                   *)
(***************************************************************************)
EXTENDS Naturals

CONSTANTS Brackets,     \* the brackets handed over
          MaxAttempts   \* maker orders of one exit

VARIABLES phase,   \* per bracket, where its exit stands
          begun,   \* per bracket, attempts begun
          told,    \* per bracket, whether it has been told to stop
          offers,  \* per bracket, the attempts whose maker order is on the book
          swept,   \* per bracket, whether it has sold at market
          upset    \* whether a remote call has raised

exit == <<phase, begun, told, offers, swept, upset>>

Phases == {"waiting", "working", "selling", "cancelled", "over"}

Init ==
  /\ phase = [b \in Brackets |-> "waiting"]
  /\ begun = [b \in Brackets |-> 0]
  /\ told = [b \in Brackets |-> FALSE]
  /\ offers = [b \in Brackets |-> {}]
  /\ swept = [b \in Brackets |-> FALSE]
  /\ upset = FALSE

\* No order of the bracket is left on the book.
Clear(b) == upset \/ offers[b] = {}

Enters(b, p) == phase' = [phase EXCEPT ![b] = p]

Start(b) ==
  /\ phase[b] = "waiting" /\ Enters(b, "working")
  /\ UNCHANGED <<begun, told, offers, swept, upset>>

\* The next attempt: not after a stop, not before the last order is off the book.
Begin(b) ==
  /\ phase[b] = "working" /\ ~told[b] /\ Clear(b)
  /\ begun[b] < MaxAttempts /\ begun' = [begun EXCEPT ![b] = @ + 1]
  /\ UNCHANGED <<phase, told, offers, swept, upset>>

\* The maker order of the attempt; its answer may be lost.
Offer(b) ==
  /\ phase[b] = "working" /\ begun[b] > 0 /\ Clear(b)
  /\ offers' = [offers EXCEPT ![b] = @ \cup {begun[b]}]
  /\ upset' \in {upset, TRUE}
  /\ UNCHANGED <<phase, begun, told, swept>>

\* Orders fill or are cancelled, by whomever, or a call raises without effect.
Fade ==
  /\ offers' \in [Brackets -> SUBSET (1 .. MaxAttempts)]
  /\ \A b \in Brackets : offers'[b] \subseteq offers[b]
  /\ upset' \in {upset, TRUE}
  /\ UNCHANGED <<phase, begun, told, swept>>

Tell(b) ==
  /\ told' = [told EXCEPT ![b] = TRUE]
  /\ UNCHANGED <<phase, begun, offers, swept, upset>>

\* From the maker orders to the market, and no way back.
Turn(b) ==
  /\ phase[b] = "working" /\ Clear(b) /\ Enters(b, "selling")
  /\ UNCHANGED <<begun, told, offers, swept, upset>>

Sweep(b) ==
  /\ phase[b] = "selling"
  /\ swept' = [swept EXCEPT ![b] = TRUE]
  /\ upset' \in {upset, TRUE}
  /\ UNCHANGED <<phase, begun, told, offers>>

\* "cancelled" is what an exit that was told to stop reports, before it ever
\* turned to the market.
End(b) ==
  /\ \/ phase[b] = "working" /\ told[b] /\ Enters(b, "cancelled")
     \/ phase[b] \in {"working", "selling"} /\ Enters(b, "over")
  /\ Clear(b)
  /\ UNCHANGED <<begun, told, offers, swept, upset>>

Next ==
  \/ Fade
  \/ \E b \in Brackets : \/ Start(b) \/ Begin(b) \/ Offer(b) \/ Tell(b)
                         \/ Turn(b) \/ Sweep(b) \/ End(b)

Spec == Init /\ [][Next]_exit

=============================================================================
