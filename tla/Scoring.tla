------------------------------- MODULE Scoring -------------------------------
(****************************************************************************)
(* How the verdict of a criterion is formed and what becomes of it:         *)
(* verdict.ts, base.analyzer.ts, orchestrator.ts and page-rules.ts of the   *)
(* API, check-weights.ts of the shared package.                             *)
(*                                                                          *)
(* Scores are in tenths: 50 is the 5 of a report. The items of a result are *)
(* counted: n items with the same key and the same status are one record.   *)
(* A weight is in any unit; MaxWeight stands for 5 and DefaultWeight for 1. *)
(****************************************************************************)
EXTENDS Integers, FiniteSets, Sequences, FiniteSetsExt, Functions

CONSTANTS MaxWeight, DefaultWeight

ASSUME WeightAssumption ==
    /\ MaxWeight \in Nat \ {0}
    /\ DefaultWeight \in 1..MaxWeight

Status == {"pass", "warning", "fail", "info", "na"}
Verdicts == Status \ {"info"}     \* only an item is an information
Full == 50
NoKey == "no key"        \* an item without key: no polarity can name it

Smaller(a, b) == IF a < b THEN a ELSE b
Larger(a, b) == IF a > b THEN a ELSE b

(****************************************************************************)
(* Items and verdicts                                                       *)
(****************************************************************************)
Item(key, status, n) ==
    IF n > 0 THEN {[key |-> key, status |-> status, n |-> n]} ELSE {}
When(condition, key, status) == Item(key, status, IF condition THEN 1 ELSE 0)
Judge(condition, key, good, badKey, bad) ==
    IF condition THEN Item(key, good, 1) ELSE Item(badKey, bad, 1)

CountOf(items, status) ==
    LET those == {i \in items : i.status = status}
    IN SumFunctionOnSet([i \in those |-> i.n], those)

StatusOf(failures, warnings) ==
    IF failures > 0 THEN "fail" ELSE IF warnings > 0 THEN "warning" ELSE "pass"

Result(status, score, items) == [status |-> status, score |-> score, items |-> items]

Pass(items) == Result("pass", Full, items)
Warn(items, note) == Result("warning", 10 * note, items)
Fail(items, note) == Result("fail", 10 * note, items)
Na(items) == Result("na", Full, items)

(* Most analysers count their failures and warnings, and have a scale of    *)
(* their own from 0 to 5.                                                   *)
Graded(items, Scale(_, _)) ==
    LET failures == CountOf(items, "fail")
        warnings == CountOf(items, "warning")
    IN Result(StatusOf(failures, warnings), 10 * Scale(failures, warnings), items)

VerdictScale(failures, warnings) ==
    IF failures > 0 THEN 1 ELSE IF warnings > 0 THEN 3 ELSE 5
GradedUnbounded(failures, warnings) ==     \* a fault: warnings may cost more than a failure
    IF failures > 0 THEN Larger(0, 3 - failures) ELSE Larger(0, 5 - 2 * warnings)
GradedScale(failures, warnings) ==
    IF failures > 0 THEN Larger(0, 3 - failures)
    ELSE IF warnings > 0 THEN Larger(2, 4 - warnings) ELSE 5

VerdictOf(items) == Graded(items, VerdictScale)

(* What runOne answers for an analyser that throws.                         *)
InternalError == Fail(Item(NoKey, "fail", 1), 0)

(****************************************************************************)
(* Polarity: an item whose key is marked "absent" is inverted.              *)
(****************************************************************************)
InvertStatus(status) ==
    CASE status = "pass" -> "fail"
      [] status = "fail" -> "pass"
      [] status = "warning" -> "info"
      [] OTHER -> status

PolarityScore(failures, warnings) ==
    IF failures = 0 THEN (IF warnings = 0 THEN 5 ELSE 4)
    ELSE IF failures = 1 THEN 3
    ELSE IF failures <= 3 THEN 2 ELSE 1

ShiftedScore(score, before, after) ==
    Smaller(Full, Larger(0, score + 10 * (after - before)))

Inverted(items, absent) ==
    {IF i.key \in absent THEN [i EXCEPT !.status = InvertStatus(i.status)] ELSE i : i \in items}

PolarityOf(items) == PolarityScore(CountOf(items, "fail"), CountOf(items, "warning"))

ApplyPolarityToItems(result, absent) ==    \* a fault: the verdict is that of before
    [result EXCEPT !.items = Inverted(@, absent)]
ApplyPolarity(result, absent) ==
    IF \A i \in result.items : i.key \notin absent THEN result
    ELSE LET items == Inverted(result.items, absent)
         IN Result(StatusOf(CountOf(items, "fail"), CountOf(items, "warning")),
                   ShiftedScore(result.score, PolarityOf(result.items), PolarityOf(items)),
                   items)

(****************************************************************************)
(* Settings: [disabled, enabled, informational, absent: sets of names,      *)
(* weights: a partial function, words: thresholds, rules: sequence].        *)
(* "enabled" is every criterion when the profile has no list.               *)
(****************************************************************************)
(* STRUCTURED_DATA is shown inside MENTIONS_LEGALES_DATA and listed with it; *)
(* DUDA_PARAMS is an inventory that no profile can switch off.              *)
IsEnabled(c, settings) ==
    \/ c = "DUDA_PARAMS"
    \/ /\ c \notin settings.disabled
       /\ \/ c \in settings.enabled
          \/ c = "STRUCTURED_DATA" /\ "MENTIONS_LEGALES_DATA" \in settings.enabled

RuleMatches(patterns, path) ==
    \E w \in patterns : IF w = "/" THEN path = {} ELSE w \in path

(* The rules whose pattern occurs in the path add up: what they disable is  *)
(* a union, and the last one that gives thresholds wins.                    *)
ApplyPageRules(page, settings) ==
    LET rules    == settings.rules
        matching == {i \in DOMAIN rules :
                        page.readable /\ RuleMatches(rules[i].patterns, page.path)}
        giving   == {i \in matching : rules[i].words # <<>>}
    IN [settings EXCEPT
          !.disabled = @ \union (UNION {rules[i].disabled : i \in matching}),
          !.words = IF giving = {} THEN @ ELSE rules[Max(giving)].words]

(****************************************************************************)
(* The score of the page                                                    *)
(****************************************************************************)
ResolveCheckWeight(c, settings) ==
    IF c \in settings.informational THEN 0
    ELSE IF c \notin DOMAIN settings.weights THEN DefaultWeight
    ELSE Smaller(MaxWeight, Larger(0, settings.weights[c]))

Weighted(checks, settings) ==
    {c \in DOMAIN checks : checks[c].status # "na" /\ ResolveCheckWeight(c, settings) > 0}

WeightedGlobalScore(checks, settings) ==
    LET counted == Weighted(checks, settings)
        weights == [c \in counted |-> ResolveCheckWeight(c, settings)]
        sum == SumFunctionOnSet(weights, counted)
        acc == SumFunctionOnSet([c \in counted |-> checks[c].score * weights[c]], counted)
    IN IF counted = {} THEN Full ELSE (2 * acc + sum) \div (2 * sum)

(****************************************************************************)
(* Two scans of a site compared page by page (scan-comparison.ts of the     *)
(* shared package): what improved, what got worse, and in which order a     *)
(* history shows it.                                                        *)
(*                                                                          *)
(* A side is a partial function from addresses to pages; a page is [score:  *)
(* in tenths, NoScore for none; summary: a partial function from criteria   *)
(* to statuses]. The order of two names is the one of their numbers.        *)
(****************************************************************************)
NoScore == -1

CheckHealthOrder == [fail |-> 0, warning |-> 1, info |-> 2, pass |-> 3, na |-> -1]

(* A criterion that does not apply on one side is no regression. (The first *)
(* form is faulty: "na" is taken for the worst of verdicts.)                *)
CompareNaToo(base, target) ==
    LET from == CheckHealthOrder[base]
        to   == CheckHealthOrder[target]
    IN IF to < from THEN "degraded" ELSE IF to > from THEN "improved" ELSE "stable"
CompareStatus(base, target) ==
    LET from == CheckHealthOrder[base]
        to   == CheckHealthOrder[target]
    IN IF base = "na" \/ target = "na" THEN "ignored"
       ELSE IF to < from THEN "degraded" ELSE IF to > from THEN "improved" ELSE "stable"

Trend(base, target, trend) ==
    {c \in DOMAIN base \intersect DOMAIN target : CompareStatus(base[c], target[c]) = trend}

ScoreDelta(base, target) ==
    IF base.score = NoScore \/ target.score = NoScore THEN 0 ELSE target.score - base.score

PageChange(base, target) ==
    LET degraded == Trend(base.summary, target.summary, "degraded")
        improved == Trend(base.summary, target.summary, "improved")
        delta    == ScoreDelta(base, target)
    IN IF degraded \union improved = {} /\ delta = 0 THEN "unchanged"
       ELSE IF degraded # {} \/ delta < 0 THEN "degraded" ELSE "improved"

(* What became of each address of either side.                              *)
ComparePages(base, target) ==
    [u \in DOMAIN base \union DOMAIN target |->
        IF u \notin DOMAIN base THEN "added"
        ELSE IF u \notin DOMAIN target THEN "removed"
        ELSE PageChange(base[u], target[u])]

(* The lines of the history: those of pages that went, then those that came,*)
(* then those that lost most.                                               *)
LineRank(change) == CASE change = "removed" -> -2 [] change = "added" -> -1 [] OTHER -> 0

Precedes(base, target, u, v) ==
    LET changes == ComparePages(base, target)
        Paired(w) == w \in DOMAIN base /\ w \in DOMAIN target
        Delta(w) == IF Paired(w) THEN ScoreDelta(base[w], target[w]) ELSE 0
        Worse(w) == IF Paired(w)
                    THEN Cardinality(Trend(base[w].summary, target[w].summary, "degraded")) ELSE 0
    IN \/ LineRank(changes[u]) < LineRank(changes[v])
       \/ /\ LineRank(changes[u]) = LineRank(changes[v])
          /\ \/ Delta(u) < Delta(v)
             \/ Delta(u) = Delta(v) /\ Worse(u) > Worse(v)
             \/ Delta(u) = Delta(v) /\ Worse(u) = Worse(v) /\ u < v
=============================================================================
