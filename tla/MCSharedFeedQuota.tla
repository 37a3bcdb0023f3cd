-------------------------- MODULE MCSharedFeedQuota --------------------------
(* SharedFeedQuota with two metered groups and one that is not configured. *)
EXTENDS SharedFeedQuota, TLC

CONSTANTS g511, gOther, gTypo

MCGroup == {g511, gOther, gTypo}
MCLimits == (g511 :> 2) @@ (gOther :> 1)
=============================================================================
