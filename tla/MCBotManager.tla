---------------------------- MODULE MCBotManager ----------------------------
(***************************************************************************)
(* Module BotManager on small instances: all bots trade on one stream.     *)
(***************************************************************************)
EXTENDS BotManager, TLC

CONSTANTS k1

OneKey == {k1}
SameKey == [b \in Bots |-> k1]

=============================================================================
