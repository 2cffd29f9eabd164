----------------------------- MODULE MCDispatch -----------------------------
(* Enough handlers for two feeds of one channel and an entry of another one, *)
(* or for a private feed that serves all of its kinds.                       *)
EXTENDS Dispatch
=============================================================================
