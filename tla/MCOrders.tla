------------------------------ MODULE MCOrders ------------------------------
(* Coroutines are interchangeable, and so are client order ids: nothing      *)
(* orders them, and all properties of the runs are invariants.               *)
EXTENDS Orders, TLC

Symmetry == Permutations(Apps) \cup Permutations(Keys)
=============================================================================
