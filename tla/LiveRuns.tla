----------------------------- MODULE LiveRuns -----------------------------
(****************************************************************************)
(* The three screens of the web client that follow something under way: the *)
(* analysis of a page and of a batch, which read a stream of events, and    *)
(* the sitemap, which fills the batch. The browser runs one thing at a      *)
(* time; a step is a gesture, an event of a stream or an answer.            *)
(*                                                                          *)
(* A run is known by its place in runs. The items of a run are what its     *)
(* rows are about: the addresses of a batch, the criteria of a page.        *)
(* "brought" counts what its stream has brought that could be read.         *)
(****************************************************************************)
EXTENDS Integers, Sequences, FiniteSets

CONSTANTS Urls,          \* addresses the user types
          SitemapUrls,   \* those that end in .xml
          Criteria,      \* the checks of the analysis of a page
          MaxUrls,       \* MAX_URLS, MAX_BATCH_URLS
          Limits,        \* what is typed as the limit of a sitemap
          MaxMoves,      \* bound on what the user does
          MaxBrought,    \* bound on the checks or pages that a run brings
          Nobody

ASSUME LiveAssumption == IsFiniteSet(Urls) /\ MaxMoves \in Nat

VARIABLES live,          \* the screen that is open
          phase, failure,
          typed,         \* raw, url: the distinct addresses of the form
          rows,          \* the checks or the pages received, [run, item]
          expected,      \* total
          report,        \* the run whose report is shown
          filter, link,  \* of the report, and what the address of the screen says
          limit, entries, picked,   \* the sitemap: the pages listed, and ticked
          runs,          \* the streams opened: [of, brought, at]
          current,       \* controller: the run it can interrupt, 0 if none
          moves

sitemapVars == <<limit, entries, picked>>
runVars == <<rows, expected, report, filter, link, runs, current>>
liveVars == <<live, phase, failure, typed, sitemapVars, runVars, moves>>

Move == moves < MaxMoves /\ moves' = moves + 1
RunItems(k) == IF live = "batch" THEN runs[k].of ELSE Criteria
Reading(k) == runs[k].at \in {"asked", "open", "told"}

(* A new screen. That of a page starts by itself when the address says so,  *)
(* and then keeps the filter it says.                                       *)
Fresh(urls) ==
    /\ typed' = urls
    /\ phase' = "idle" /\ failure' = Nobody
    /\ rows' = <<>> /\ expected' = 0 /\ report' = 0
    /\ runs' = <<>> /\ current' = 0

LiveInit ==
    /\ live \in {"page", "batch", "sitemap"}
    /\ filter \in {"problems", "all"} /\ (filter = "all" => live = "page")
    /\ \/ live = "page" /\ typed \in {{u} : u \in Urls}
          /\ phase = "running" /\ current = 1
          /\ runs = <<[of |-> typed, brought |-> 0, at |-> "asked"]>>
       \/ typed = {} /\ phase = "idle" /\ current = 0 /\ runs = <<>>
    /\ link = [url |-> typed, filter |-> filter]
    /\ failure = Nobody
    /\ rows = <<>> /\ expected = 0 /\ report = 0
    /\ limit \in Limits /\ entries = {} /\ picked = {}
    /\ moves = 0
-----------------------------------------------------------------------------
(* The fields of the form.                                                  *)
Types ==
    /\ Move
    /\ \/ live = "batch" /\ typed' \in SUBSET Urls
       \/ live # "batch" /\ typed' \in {{u} : u \in Urls}
    /\ typed' # typed
    /\ UNCHANGED <<live, phase, failure, sitemapVars, runVars>>

(* setFilter, writeToUrl: what is typed goes to the address with it.        *)
SetFilter ==
    /\ Move
    /\ live = "page" /\ report # 0
    /\ \E f \in {"problems", "all"} \ {filter} :
           filter' = f /\ link' = [url |-> typed, filter |-> f]
    /\ UNCHANGED <<live, phase, failure, typed, sitemapVars, rows, expected, report, runs, current>>

(* Mutant of Interrupted: the request is not given the signal.              *)
NotInterrupted(rs) == rs

(* cancel: the stream being read rejects. By then another controller, or    *)
(* none, is in place, so that the catch of the old run takes the            *)
(* interruption for a failure.                                              *)
Interrupted(rs) ==
    IF current = 0 THEN rs ELSE [rs EXCEPT ![current].at = "closed"]

StillRead == current # 0 /\ Reading(current)

Start ==
    /\ Move
    /\ live \in {"page", "batch"}
    /\ phase # "running" \/ failure # Nobody
    /\ typed # {} /\ Cardinality(typed) <= MaxUrls
    /\ runs' = Append(Interrupted(runs), [of |-> typed, brought |-> 0, at |-> "asked"])
    /\ current' = Len(runs')
    /\ phase' = IF StillRead THEN "error" ELSE "running"
    /\ failure' = IF StillRead THEN "interrupted" ELSE Nobody
    /\ rows' = <<>> /\ expected' = 0 /\ report' = 0
    /\ IF live = "page"
       THEN filter' = "problems" /\ link' = [url |-> typed, filter |-> "problems"]
       ELSE UNCHANGED <<filter, link>>
    /\ UNCHANGED <<live, typed, sitemapVars>>

Cancel ==
    /\ Move
    /\ live \in {"page", "batch"} /\ phase = "running"
    /\ runs' = Interrupted(runs)
    /\ current' = 0
    /\ phase' = IF StillRead THEN "error" ELSE "idle"
    /\ failure' = IF StillRead THEN "interrupted" ELSE failure
    /\ UNCHANGED <<live, typed, sitemapVars, rows, expected, report, filter, link>>
-----------------------------------------------------------------------------
(* stream, batchStream, readSseStream: what a run brings, as long as nobody *)
(* interrupts it. An event cut in two is one event. One that the server     *)
(* drops or that cannot be read is no step at all: any event may be         *)
(* missing, the first and the last included.                                *)
Brings(k, at) ==
    /\ Reading(k)
    /\ runs' = [runs EXCEPT ![k].at = at]
    /\ UNCHANGED <<live, typed, sitemapVars, filter, link, current, moves>>
Fail(why) == phase' = "error" /\ failure' = why

(* The answer, then the events: start, ...                                  *)
Opened(k) ==
    /\ runs[k].at = "asked"
    /\ Brings(k, "open")
    /\ expected' \in {expected, Cardinality(RunItems(k))}
    /\ UNCHANGED <<phase, failure, rows, report>>

(* ... a check or a page as it ends, added whatever is listed already: a    *)
(* check comes twice from an analysis that left its thread (AnalysisStream),*)
(* a page of a batch comes once (AnalysisBatch), ...                        *)
Times(k, i) == Cardinality({j \in DOMAIN rows : rows[j].run = k /\ rows[j].item = i})

Progress(k) ==
    /\ runs[k].at = "open" /\ runs[k].brought < MaxBrought
    /\ \E i \in RunItems(k) :
           /\ Times(k, i) < IF live = "batch" THEN 1 ELSE 2
           /\ rows' = Append(rows, [run |-> k, item |-> i])
           /\ runs' = [runs EXCEPT ![k].brought = @ + 1]
    /\ expected' = Cardinality(RunItems(k))
    /\ UNCHANGED <<live, phase, failure, typed, sitemapVars, report, filter, link, current, moves>>

(* ... complete, taken whatever came before it, or error.                   *)
Complete(k) ==
    /\ runs[k].at = "open"
    /\ Brings(k, "told")
    /\ phase' = "done"
    /\ IF live = "page" THEN report' = k /\ UNCHANGED expected
       ELSE expected' = Cardinality(RunItems(k)) /\ UNCHANGED report
    /\ UNCHANGED <<failure, rows>>
TellsFailure(k) ==
    /\ runs[k].at = "open"
    /\ Brings(k, "told")
    /\ Fail("told")
    /\ UNCHANGED <<rows, expected, report>>

(* The end of the stream: a failure only when nothing was said before.      *)
Ends(k) ==
    /\ runs[k].at \in {"open", "told"}
    /\ Brings(k, "closed")
    /\ IF phase = "running" THEN Fail("cut") ELSE UNCHANGED <<phase, failure>>
    /\ UNCHANGED <<rows, expected, report>>
(* A refused request or a connection that breaks: a failure in any case.    *)
Breaks(k) ==
    /\ Brings(k, "closed")
    /\ Fail("broken")
    /\ UNCHANGED <<rows, expected, report>>

RunGoesOn(k) ==
    /\ k \in DOMAIN runs /\ live \in {"page", "batch"}
    /\ Opened(k) \/ Progress(k) \/ Complete(k) \/ TellsFailure(k) \/ Ends(k) \/ Breaks(k)
-----------------------------------------------------------------------------
(* The sitemap. The address of a sitemap is read without looking for it.    *)
Bounded(n) == IF n < 1 THEN 1 ELSE IF n > MaxUrls THEN MaxUrls ELSE n

Detect ==
    /\ Move
    /\ live = "sitemap" /\ typed # {}
    /\ phase \notin {"detecting", "parsing"}
    /\ phase' = IF typed \subseteq SitemapUrls THEN "parsing" ELSE "detecting"
    /\ failure' = Nobody
    /\ entries' = {} /\ picked' = {}
    /\ UNCHANGED <<live, typed, limit, runVars>>

DetectEnds ==
    /\ live = "sitemap" /\ phase = "detecting"
    /\ \/ phase' = "parsing" /\ UNCHANGED failure
       \/ Fail("refused")
    /\ UNCHANGED <<live, typed, sitemapVars, runVars, moves>>
ParseEnds ==
    /\ live = "sitemap" /\ phase = "parsing"
    /\ \/ /\ \E es \in SUBSET Urls :
                 Cardinality(es) <= Bounded(limit) /\ entries' = es /\ picked' = es
          /\ phase' = "ready" /\ UNCHANGED failure
       \/ Fail("refused") /\ UNCHANGED <<entries, picked>>
    /\ UNCHANGED <<live, typed, limit, runVars, moves>>

(* toggle, toggleAll.                                                       *)
Pick ==
    /\ Move
    /\ live = "sitemap" /\ phase = "ready" /\ entries # {}
    /\ \/ \E u \in entries : picked' = (picked \ {u}) \union ({u} \ picked)
       \/ picked' = IF picked = entries THEN {} ELSE entries
    /\ UNCHANGED <<live, phase, failure, typed, limit, entries, runVars>>

(* sendToBatch: the form of the batch is filled, nothing starts.            *)
SendToBatch ==
    /\ Move
    /\ live = "sitemap" /\ phase = "ready" /\ picked # {}
    /\ live' = "batch"
    /\ Fresh(picked)
    /\ UNCHANGED <<sitemapVars, filter, link>>

(* The user leaves a run: onDestroy interrupts it, and the run ends quietly.*)
Leaves ==
    /\ Move
    /\ live \in {"page", "batch"}
    /\ live' = "gone"
    /\ runs' = Interrupted(runs)
    /\ phase' = IF StillRead THEN "idle" ELSE phase
    /\ UNCHANGED <<failure, typed, sitemapVars, rows, expected, report, filter, link, current>>
-----------------------------------------------------------------------------
LiveNext ==
    \/ Types \/ SetFilter \/ Start \/ Cancel \/ Leaves
    \/ Detect \/ Pick \/ SendToBatch
    \/ \E k \in DOMAIN runs : RunGoesOn(k)
    \/ DetectEnds \/ ParseEnds

(* The server ends what it analyses, or the connection breaks; every answer *)
(* comes, or its timeout.                                                   *)
LiveFairness ==
    /\ \A k \in 1..(MaxMoves + 1) : WF_liveVars(RunGoesOn(k))
    /\ WF_liveVars(DetectEnds \/ ParseEnds)
-----------------------------------------------------------------------------
(* "Lot termine : n page(s)" (batch.component.ts:246): whatever the user    *)
(* interrupts, starts again or leaves, the list is what the last run        *)
(* started has brought, all of it and nothing of a run before it; a batch   *)
(* never lists more pages than it counts; the report is that of the last    *)
(* run, and a run announced as done has said so itself. (Nothing says that  *)
(* the list is whole: events get lost, and checks come twice.)              *)
RunShowsItsOwn ==
    /\ \A i \in DOMAIN rows : rows[i].run = Len(runs)
    /\ Len(rows) = IF runs = <<>> THEN 0 ELSE runs[Len(runs)].brought
    /\ live = "batch" => Len(rows) <= expected
    /\ report \in {0, Len(runs)}
    /\ phase = "done" =>
          /\ runs # <<>> /\ current = Len(runs)
          /\ runs[current].at \in {"told", "closed"}
          /\ live = "page" => report = current

(* What runs comes to an end.                                               *)
EveryRunEnds == <>[](phase \notin {"running", "detecting", "parsing"})
=============================================================================
