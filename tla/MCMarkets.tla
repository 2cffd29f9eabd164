----------------------------- MODULE MCMarkets -----------------------------
(* Two markets that share a slug, as two markets of one title do; a string   *)
(* that only one of them matches.  Coroutines are interchangeable, and all   *)
(* properties of the run are invariants.                                     *)
EXTENDS Markets, TLC

CONSTANTS m1, m2

MCListed == {m1, m2}
MCRefs == {"id1", "slug"}
MCSlugs == [m \in MCListed |-> IF m = m1 THEN {"id1", "slug"} ELSE {"slug"}]

Symmetry == Permutations(Calls)
=============================================================================
