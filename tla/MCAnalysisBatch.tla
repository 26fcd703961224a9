---------------------------- MODULE MCAnalysisBatch --------------------------
(* Four distinct addresses, one of them repeated, on two sites, with three  *)
(* workers: more pages than workers, so that the queue is used while pages  *)
(* end in any order. One site shows its gamme on one page only.             *)
EXTENDS AnalysisBatch

MCRequest == <<"a1", "b1", "a1", "a2", "b2">>
MCDomain == [u \in {"a1", "a2"} |-> "a"] @@ [u \in {"b1", "b2"} |-> "b"]
MCGamme == "a1" :> None @@ "a2" :> "access" @@ "b1" :> "premium" @@ "b2" :> None
=============================================================================
