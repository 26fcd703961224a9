---------------------------- MODULE MCProbeBudget ----------------------------
(* Two checks with a pool of two workers. Links repeats an address, has one *)
(* more distinct address than its quota and fetches a text besides; images  *)
(* has one address. The ceiling is lower than the sum of the quotas, and    *)
(* higher than the number of requests that can be in progress.              *)
EXTENDS ProbeBudget

CONSTANTS links, images

MCChecks == {links, images}
MCList == links :> <<"a", "b", "a", "c", "d", "e">> @@ images :> <<"x">>
MCQuota == links :> 4 @@ images :> 2
=============================================================================
