------------------------------ MODULE MCBridge ------------------------------
(* Three threads with any jobs: two that close, listen or call at the same   *)
(* time, and one more.                                                       *)
EXTENDS Bridge
=============================================================================
