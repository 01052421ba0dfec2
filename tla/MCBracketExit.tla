---------------------------- MODULE MCBracketExit ----------------------------
(***************************************************************************)
(* Module BracketExit on small instances.                                  *)
(***************************************************************************)
EXTENDS BracketExit, TLC

=============================================================================
