----------------------------- MODULE MCOrderEdit -----------------------------
(***************************************************************************)
(* Module OrderEdit on small instances.                                    *)
(***************************************************************************)
EXTENDS OrderEdit, TLC

=============================================================================
