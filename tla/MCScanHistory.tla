---------------------------- MODULE MCScanHistory ----------------------------
(* Two recordings of one site and one of another site of the same domain;   *)
(* a deletion of each kind, a restore, a purge and a retention pass. Any    *)
(* MaxMade of these requests, interleaved statement by statement.           *)
EXTENDS ScanHistory, TLC

MCDomainOf == [i \in {"a", "b"} |-> "d"]
MCOp == "r1" :> [do |-> "record", identity |-> "a", pages |-> {1, 2}]
     @@ "r2" :> [do |-> "record", identity |-> "a", pages |-> {3}]
     @@ "r3" :> [do |-> "record", identity |-> "b", pages |-> {4}]
     @@ "site" :> [do |-> "deleteSite", identity |-> "a"]
     @@ "domain" :> [do |-> "deleteDomain", domain |-> "d"]
     @@ "session" :> [do |-> "deleteSession", session |-> "r1"]
     @@ "pages" :> [do |-> "deletePages", pages |-> {2, 3}]
     @@ "pages2" :> [do |-> "deletePages", pages |-> {1, 3}]
     @@ "restore" :> [do |-> "restore"]
     @@ "purge" :> [do |-> "purge"]
     @@ "retention" :> [do |-> "retention"]
MCJobs == DOMAIN MCOp
=============================================================================
