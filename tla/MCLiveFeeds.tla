----------------------------- MODULE MCLiveFeeds -----------------------------
(***************************************************************************)
(* Module LiveFeeds with two keys: every feed, switched, left, entered and *)
(* dropped a few times.                                                    *)
(***************************************************************************)
EXTENDS LiveFeeds, TLC

CONSTANTS k1, k2
=============================================================================
