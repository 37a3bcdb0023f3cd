----------------------------- MODULE Subsequences -----------------------------
(***************************************************************************)
(* The entries of a sequence that satisfy a condition, in their order: what*)
(* a loop with `if ...: append(...)` makes.  The condition is the set of   *)
(* the places that satisfy it, so that facts about these operators can be  *)
(* cited for any condition.                                                *)
(***************************************************************************)
EXTENDS Integers, Sequences

(* The places of P up to n, in order.                                      *)
PlacesIn(P, n) ==
  LET found[k \in 0..n] ==
        IF k = 0 THEN << >>
        ELSE IF k \in P THEN Append(found[k - 1], k)
        ELSE found[k - 1]
  IN  found[n]

EntriesAt(seq, P) ==
  LET places == PlacesIn(P, Len(seq)) IN [k \in DOMAIN places |-> seq[places[k]]]
=============================================================================
