----------------------- MODULE MCFeedConnectionStore -----------------------
(* The instance of FeedConnectionStore for TLC: its configuration gives the
   constants their values. *)
EXTENDS FeedConnectionStore
=============================================================================
