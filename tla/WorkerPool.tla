------------------------------ MODULE WorkerPool ------------------------------
(****************************************************************************)
(* What a pool of workers over one queue promises, whatever it works on:    *)
(* every job is taken by one worker, once, nobody rests while a job waits,  *)
(* and a job that is taken is finished. The order is left open.             *)
(*                                                                          *)
(* The code builds the same pool twice, by hand: the workers of             *)
(* AnalysisService.analyzeBatch share a queue they shift (AnalysisBatch),   *)
(* those of BudgetedProbe.checkMany an index they move (ProbeBudget).       *)
(****************************************************************************)
EXTENDS FiniteSets

CONSTANTS Jobs, Workers, None

VARIABLES waiting,      \* the jobs nobody has taken
          desk,         \* the job each worker is on, or None
          finished      \* the jobs that are done

vars == <<waiting, desk, finished>>

Busy == {w \in Workers : desk[w] # None}

Init ==
    /\ waiting = Jobs
    /\ desk = [w \in Workers |-> None]
    /\ finished = {}

(* All the workers are hired in one segment: each takes a job of its own,   *)
(* and some get none only if there are not enough of them.                  *)
Hire ==
    /\ Busy = {} /\ finished = {} /\ waiting # {}
    /\ desk' \in [Workers -> waiting \union {None}]
    /\ \A v, w \in Workers : desk'[v] = desk'[w] /\ desk'[v] # None => v = w
    /\ waiting' = {j \in waiting : \A w \in Workers : desk'[w] # j}
    /\ waiting' = {} \/ \A w \in Workers : desk'[w] # None
    /\ UNCHANGED finished

(* A worker is done with its job and takes another one, if any waits.       *)
Turn(w) ==
    /\ desk[w] # None
    /\ finished' = finished \union {desk[w]}
    /\ IF waiting = {}
       THEN desk' = [desk EXCEPT ![w] = None] /\ UNCHANGED waiting
       ELSE \E j \in waiting :
                /\ desk' = [desk EXCEPT ![w] = j]
                /\ waiting' = waiting \ {j}

Next == Hire \/ \E w \in Workers : Turn(w)

Spec == Init /\ [][Next]_vars

(* A job that is taken is finished. Nobody has to hire.                     *)
TakenIsFinished == \A j \in Jobs : (\E w \in Workers : desk[w] = j) ~> (j \in finished)

Promise == Spec /\ TakenIsFinished

-----------------------------------------------------------------------------
(* What follows: every job is in one place, and no two workers share one.   *)
EachJobOnce ==
    /\ waiting \union {desk[w] : w \in Busy} \union finished = Jobs
    /\ waiting \cap finished = {}
    /\ \A w \in Busy : desk[w] \notin waiting \union finished
    /\ \A v, w \in Busy : desk[v] = desk[w] => v = w
=============================================================================
