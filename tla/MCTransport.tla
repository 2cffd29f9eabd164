---------------------------- MODULE MCTransport ----------------------------
(* Two calls share a client with any credentials: a POST that must not be    *)
(* repeated and a call of any kind.  Two calls that are both no such POST    *)
(* take the same steps with fewer promises to keep.                          *)
EXTENDS Transport

CONSTANT Poster

ASSUME PosterAssumption == Poster \in Calls

MCInit == Init /\ kind[Poster] = "post"

MCSpec == MCInit /\ [][Next]_vars /\ Fairness
=============================================================================
