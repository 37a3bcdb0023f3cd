----------------------- MODULE MCQuotaGroupSchedulers -----------------------
(* One group with a budget of 3 per window of 6 ticks of the clock: either *)
(* three systems fetched directly, two of them with alerts, or a single    *)
(* one, or two fetched directly, without alerts, beside a regional one.    *)
EXTENDS QuotaGroupSchedulers, TLC

CONSTANTS g511, a, b, c, r1, q1, q2

MCLimits == g511 :> 3
DirectOnly ==
  [members |-> <<a, b, c>>, alerts |-> <<a, b>>, regional |-> {}, until |-> 12,
   demand |-> 1]
Single ==
  [members |-> <<a>>, alerts |-> <<a>>, regional |-> {}, until |-> 9, demand |-> 1]
Migrating ==
  [members |-> <<a, b>>, alerts |-> << >>, regional |-> {r1}, until |-> 6,
   demand |-> 2]
MCStartups == {DirectOnly, Single, Migrating}

Requests == Permutations(Request)
=============================================================================
