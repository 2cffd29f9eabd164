----------------------------- MODULE MCSession ------------------------------
(* Two calls, so that one can meet a 401 while the other's answer is on its  *)
(* way, one key for both, and the private feed.                              *)
EXTENDS Session
=============================================================================
