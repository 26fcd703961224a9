----------------------------- MODULE ProbeBudget -----------------------------
(****************************************************************************)
(* The shared request budget of one page analysis: BudgetWallet,            *)
(* CheckWallet and BudgetedProbe of analysis/network-probe.ts. Each network *)
(* check of the analysis works through its own view of the probe, whose     *)
(* quota is backed by the ceiling of the analysis. A unit is taken before a *)
(* request, held while the engine works, and given back when the engine's   *)
(* answer cost nothing.                                                     *)
(*                                                                          *)
(* A check makes one call of checkMany, with a pool of workers, and one of  *)
(* fetchText. The engine is ProbeEngine: whether an answer is billable      *)
(* depends on caches shared by the whole process, so either may come.       *)
(****************************************************************************)
EXTENDS Integers, Sequences, FiniteSets, SequencesExt, Sublists

CONSTANTS Checks,
          List,        \* [Checks -> sequence of addresses]: what checkMany gets
          Quota,       \* [Checks -> Nat]: CHECK_QUOTAS, DEFAULT_CHECK_QUOTA
          Budget,      \* DEFAULT_REQUEST_BUDGET
          PoolSize,    \* DEFAULT_POOL_SIZE
          NoAnswer     \* "no answer yet", "no report yet"

ASSUME BudgetAssumption ==
    /\ IsFiniteSet(Checks)
    /\ Quota \in [Checks -> Nat]
    /\ Budget \in Nat
    /\ PoolSize \in Nat \ {0}

ASSUME ListAssumption ==
    /\ \A c \in Checks : List[c] \in Seq(ToSet(List[c])) /\ NoAnswer \notin ToSet(List[c])
    /\ \A c \in Checks : \A u \in ToSet(List[c]), b \in BOOLEAN :
           NoAnswer # [url |-> u, exhausted |-> b]

VARIABLES wallet,      \* BudgetWallet.budget
          quota,       \* CheckWallet.quota, per check
          next,        \* checkMany's shared index into the distinct addresses
          prober,      \* where each worker of checkMany stands; 0 is fetchText
          byUrl,       \* checkMany's answers, by address
          report,      \* what checkMany returned
          billed,      \* units spent for good, per check
          spent        \* units spent for good, in all

budgetVars == <<wallet, quota, next, prober, byUrl, report, billed, spent>>

Workers == 1..PoolSize
Probers == 0..PoolSize
Seats == Checks \X Probers

(* [...new Set(urls)]                                                       *)
Todo == [c \in Checks |-> Distinct(List[c])]

(* CheckWallet.take succeeds: a unit of the quota and one of the ceiling.   *)
CanTake(c) == quota[c] > 0 /\ wallet > 0

Holding == {s \in Seats : prober[s[1]][s[2]].at = "waiting"}
HoldingOf(c) == {i \in Probers : prober[c][i].at = "waiting"}

BudgetInit ==
    /\ wallet = Budget
    /\ quota = Quota
    /\ next = [c \in Checks |-> 1]
    /\ prober = [c \in Checks |->
                    [i \in Probers |-> [at |-> "idle", pos |-> 0, refused |-> FALSE]]]
    /\ byUrl = [c \in Checks |-> [u \in ToSet(List[c]) |-> NoAnswer]]
    /\ report = [c \in Checks |-> NoAnswer]
    /\ billed = [c \in Checks |-> 0]
    /\ spent = 0

-----------------------------------------------------------------------------
(* checkMany starts its workers in one segment: each takes the next address *)
(* and a unit, in order, before any of them is answered. Those for whom no  *)
(* unit is left get an "exhausted" answer.                                  *)
Start(c) ==
    LET crew    == {i \in Workers : i <= Len(Todo[c])}
        granted == {i \in crew : i <= quota[c] /\ i <= wallet}
    IN  /\ report[c] = NoAnswer
        /\ next[c] = 1
        /\ crew # {}
        /\ quota' = [quota EXCEPT ![c] = @ - Cardinality(granted)]
        /\ wallet' = wallet - Cardinality(granted)
        /\ next' = [next EXCEPT ![c] = 1 + Cardinality(crew)]
        /\ prober' = [prober EXCEPT ![c] = [i \in Probers |->
                IF i \in granted THEN [at |-> "waiting", pos |-> i, refused |-> FALSE]
                ELSE IF i \in crew THEN [at |-> "answered", pos |-> i, refused |-> TRUE]
                ELSE IF i = 0 THEN prober[c][0]
                ELSE [at |-> "done", pos |-> 0, refused |-> FALSE]]]
        /\ UNCHANGED <<byUrl, report, billed, spent>>

(* Mutants of Return: a refund that forgets the parent wallet, and no       *)
(* refund at all.                                                           *)
ReturnToQuotaOnly(c, i) ==
    /\ prober[c][i].at = "waiting"
    /\ prober' = [prober EXCEPT ![c][i].at = IF i = 0 THEN "done" ELSE "answered"]
    /\ \/ /\ billed' = [billed EXCEPT ![c] = @ + 1]
          /\ spent' = spent + 1
          /\ UNCHANGED quota
       \/ /\ quota' = [quota EXCEPT ![c] = @ + 1]
          /\ UNCHANGED <<billed, spent>>
    /\ UNCHANGED <<wallet, next, byUrl, report>>

(* The engine answers a call of check or fetchText: the unit stays spent if *)
(* a request left for it, and goes back to the quota and to the ceiling if  *)
(* not.                                                                     *)
Return(c, i) ==
    /\ prober[c][i].at = "waiting"
    /\ prober' = [prober EXCEPT ![c][i].at = IF i = 0 THEN "done" ELSE "answered"]
    /\ \/ /\ billed' = [billed EXCEPT ![c] = @ + 1]
          /\ spent' = spent + 1
          /\ UNCHANGED <<wallet, quota>>
       \/ /\ quota' = [quota EXCEPT ![c] = @ + 1]
          /\ wallet' = wallet + 1
          /\ UNCHANGED <<billed, spent>>
    /\ UNCHANGED <<next, byUrl, report>>

(* Mutants of Continue: an index moved only after the await, so that two    *)
(* workers take the same address; an answer filed under the address the     *)
(* index points at when it comes, read after the await; and a worker that   *)
(* waits for a unit instead of answering "exhausted".                       *)
ContinueSameIndex(c, i) ==
    LET mine == prober[c][i] IN
    /\ i \in Workers
    /\ mine.at = "answered"
    /\ byUrl' = [byUrl EXCEPT ![c][Todo[c][mine.pos]] =
                    [url |-> Todo[c][mine.pos], exhausted |-> mine.refused]]
    /\ next[c] <= Len(Todo[c])
    /\ CanTake(c)
    /\ quota' = [quota EXCEPT ![c] = @ - 1]
    /\ wallet' = wallet - 1
    /\ prober' = [prober EXCEPT ![c][i] =
            [at |-> "waiting", pos |-> next[c], refused |-> FALSE]]
    /\ UNCHANGED <<next, report, billed, spent>>
ContinueWaitsForUnit(c, i) ==
    LET mine == prober[c][i] IN
    /\ i \in Workers
    /\ mine.at = "answered"
    /\ byUrl' = [byUrl EXCEPT ![c][Todo[c][mine.pos]] =
                    [url |-> Todo[c][mine.pos], exhausted |-> mine.refused]]
    /\ IF next[c] > Len(Todo[c])
       THEN /\ prober' = [prober EXCEPT ![c][i].at = "done"]
            /\ UNCHANGED <<wallet, quota, next>>
       ELSE /\ CanTake(c)
            /\ next' = [next EXCEPT ![c] = @ + 1]
            /\ quota' = [quota EXCEPT ![c] = @ - 1]
            /\ wallet' = wallet - 1
            /\ prober' = [prober EXCEPT ![c][i] =
                    [at |-> "waiting", pos |-> next[c], refused |-> FALSE]]
    /\ UNCHANGED <<report, billed, spent>>

(* A worker of checkMany goes on: it files its answer under the address it  *)
(* had, then takes the next address and a unit, or ends.                    *)
Continue(c, i) ==
    LET mine == prober[c][i] IN
    /\ i \in Workers
    /\ mine.at = "answered"
    /\ byUrl' = [byUrl EXCEPT ![c][Todo[c][mine.pos]] =
                    [url |-> Todo[c][mine.pos], exhausted |-> mine.refused]]
    /\ IF next[c] > Len(Todo[c])
       THEN /\ prober' = [prober EXCEPT ![c][i].at = "done"]
            /\ UNCHANGED <<wallet, quota, next>>
       ELSE /\ next' = [next EXCEPT ![c] = @ + 1]
            /\ IF CanTake(c)
               THEN /\ quota' = [quota EXCEPT ![c] = @ - 1]
                    /\ wallet' = wallet - 1
                    /\ prober' = [prober EXCEPT ![c][i] =
                            [at |-> "waiting", pos |-> next[c], refused |-> FALSE]]
               ELSE /\ prober' = [prober EXCEPT ![c][i] =
                            [at |-> "answered", pos |-> next[c], refused |-> TRUE]]
                    /\ UNCHANGED <<wallet, quota>>
    /\ UNCHANGED <<report, billed, spent>>

(* All workers have ended (or there was nothing to do): the answers are     *)
(* dealt out in the order asked; an address without one counts as exhausted.*)
Deliver(c) ==
    /\ report[c] = NoAnswer
    /\ List[c] = <<>> \/ \A i \in Workers : prober[c][i].at = "done"
    /\ report' = [report EXCEPT ![c] =
            [n \in 1..Len(List[c]) |->
                IF byUrl[c][List[c][n]] # NoAnswer THEN byUrl[c][List[c][n]]
                ELSE [url |-> List[c][n], exhausted |-> TRUE]]]
    /\ UNCHANGED <<wallet, quota, next, prober, byUrl, billed, spent>>

(* fetchText: one unit, or an exhausted answer.                             *)
FetchText(c) ==
    /\ prober[c][0].at = "idle"
    /\ IF CanTake(c)
       THEN /\ quota' = [quota EXCEPT ![c] = @ - 1]
            /\ wallet' = wallet - 1
            /\ prober' = [prober EXCEPT ![c][0].at = "waiting"]
       ELSE /\ prober' = [prober EXCEPT ![c][0].at = "done"]
            /\ UNCHANGED <<wallet, quota>>
    /\ UNCHANGED <<next, byUrl, report, billed, spent>>

BudgetNext ==
    \E c \in Checks :
        \/ Start(c) \/ Deliver(c) \/ FetchText(c)
        \/ \E i \in Probers : Return(c, i) \/ Continue(c, i)

BudgetSpec == BudgetInit /\ [][BudgetNext]_budgetVars

(* The engine answers every call (EveryCallAnswered of ProbeEngine), and    *)
(* microtasks run. The analysers are not assumed to call the probe.         *)
BudgetFairness ==
    \A c \in Checks :
        /\ \A i \in Probers : WF_budgetVars(Return(c, i)) /\ WF_budgetVars(Continue(c, i))
        /\ WF_budgetVars(Deliver(c))

BudgetFairSpec == BudgetSpec /\ BudgetFairness

-----------------------------------------------------------------------------
ProberState == [at : {"idle", "waiting", "answered", "done"}, pos : Nat, refused : BOOLEAN]

(* Wallets are natural numbers: take never goes below zero.                 *)
BudgetTypeOK ==
    /\ wallet \in Nat
    /\ quota \in [Checks -> Nat]
    /\ next \in [Checks -> Nat]
    /\ prober \in [Checks -> [Probers -> ProberState]]
    /\ billed \in [Checks -> Nat]
    /\ spent \in Nat
    /\ \A c \in Checks : report[c] # NoAnswer => DOMAIN report[c] = 1..Len(List[c])

(* Units are neither lost nor made, at either level: each is in the wallet, *)
(* held by a call in progress, or spent on a request.                       *)
UnitsConserved ==
    /\ wallet + Cardinality(Holding) + spent = Budget
    /\ \A c \in Checks : quota[c] + Cardinality(HoldingOf(c)) + billed[c] = Quota[c]

(* The ceiling is absolute: "Plafond ABSOLU d'une analyse, tous criteres    *)
(* confondus" (network-probe.ts:84), even counting the requests in          *)
(* progress, and no check goes past its quota.                              *)
CeilingKept ==
    /\ spent + Cardinality(Holding) <= Budget
    /\ \A c \in Checks : billed[c] + Cardinality(HoldingOf(c)) <= Quota[c]

(* Each call of checkMany is a pool of workers over its distinct addresses: *)
(* two workers never work on the same address, none works on one already    *)
(* answered, and none rests while an address waits. An address is finished  *)
(* when its answer is filed.                                                *)
Pool(c) == INSTANCE WorkerPool
               WITH None <- NoAnswer,
                    Jobs <- ToSet(List[c]),
                    waiting <- {Todo[c][n] : n \in next[c]..Len(Todo[c])},
                    desk <- [i \in Workers |->
                                IF prober[c][i].at \in {"waiting", "answered"}
                                THEN Todo[c][prober[c][i].pos] ELSE NoAnswer],
                    finished <- {u \in ToSet(List[c]) : byUrl[c][u] # NoAnswer}

PoolsMove == \A c \in Checks : Pool(c)!Next \/ UNCHANGED Pool(c)!vars

ImplementsPools ==
    /\ \A c \in Checks : Pool(c)!Init
    /\ [][PoolsMove]_budgetVars

(* Every call of checkMany returns.                                         *)
EveryCheckReports ==
    \A c \in Checks : (next[c] > 1) ~> (report[c] # NoAnswer)
=============================================================================
