---------------------------- MODULE MCSmartChase ----------------------------
(* TLC instances of SmartChase: one or two brackets on one symbol. *)
EXTENDS SmartChase, TLC

\* The bracket ids are interchangeable; used in the runs without liveness.
BracketSymmetry == Permutations(Brackets)

=============================================================================
