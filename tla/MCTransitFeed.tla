---------------------------- MODULE MCTransitFeed ----------------------------
(* Two clients of a system with two trips, of which one fits in the cache. *)
EXTENDS TransitFeed, TLC

CONSTANTS c1, c2, trip1, trip2

Symmetry == Permutations({c1, c2}) \cup Permutations({trip1, trip2})
=============================================================================
