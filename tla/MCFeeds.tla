------------------------------ MODULE MCFeeds ------------------------------
(* Two coroutines that subscribe to any topics.  No symmetry: the runs check *)
(* liveness.                                                                 *)
EXTENDS Feeds
=============================================================================
