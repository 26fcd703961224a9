---------------------------- MODULE AnalysisBatch ----------------------------
(****************************************************************************)
(* A batch of pages analysed for one caller and streamed to it:             *)
(* AnalysisService.analyzeBatch (analysis/analysis.service.ts), called by   *)
(* AnalysisController.batchStream, whose events go through an SseWriter.    *)
(*                                                                          *)
(* A bounded number of workers share one queue of distinct addresses. What  *)
(* happens to a page (fetch, settings, analysis) is one outcome here: it    *)
(* ends with a report, or in error, after some time, in any order. Then the *)
(* batch is written to the history, whatever the client does meanwhile.     *)
(****************************************************************************)
EXTENDS Integers, Sequences, FiniteSets, SequencesExt, Sublists

CONSTANTS Request,      \* the sequence of addresses asked for
          Domain,       \* [address -> hostname of the page it leads to]
          Gamme,        \* [address -> the gamme detected in that page, or None]
          Concurrency,  \* config.analysis.batchConcurrency
          None

ASSUME BatchAssumption ==
    /\ Request \in Seq(ToSet(Request)) /\ Request # <<>>
    /\ Concurrency \in Nat \ {0}
    /\ None \notin ToSet(Request)

VARIABLES phase,        \* where analyzeBatch stands
          queue,        \* the addresses no worker has taken
          working,      \* the address each worker is on; None: it has ended
          reports,      \* the pages that have a report, in completion order
          results,      \* the entries, in completion order
          gamme,        \* the gamme to record
          session,      \* what the history got
          answer,       \* what analyzeBatch returned
          events,       \* what the writer was given while it was open
          client        \* FALSE once SseWriter is closed

vars == <<phase, queue, working, reports, results, gamme, session, answer, events, client>>

Urls == ToSet(Request)
Workers == 1..Concurrency

(* [...new Set(urls)]                                                       *)
Pages == Distinct(Request)

(* SseWriter.send: nothing once the client has gone. Otherwise an event is  *)
(* either written or, when it does not pass the schema of the stream,       *)
(* logged and not emitted, which the field "emitted" tells.                 *)
Written(es) == IF client THEN events \o es ELSE events

(* Mutant of OrderByRequest: the entries in the order they came.            *)
AsTheyCame(entries, urls) == entries

(* orderByRequest: the entries of the addresses, in the order asked.        *)
OrderByRequest(entries, urls) ==
    LET entryOf(u) == entries[CHOOSE n \in DOMAIN entries : entries[n].url = u]
        known == Keep(urls, {k \in DOMAIN urls :
                                \E n \in DOMAIN entries : entries[n].url = urls[k]})
    IN  [n \in DOMAIN known |-> entryOf(known[n])]

Init ==
    /\ phase = "called"
    /\ queue = Pages
    /\ working = [w \in Workers |-> None]
    /\ reports = <<>>
    /\ results = <<>>
    /\ gamme = None
    /\ session = None
    /\ answer = None
    /\ events = <<>>
    /\ client = TRUE

-----------------------------------------------------------------------------
(* The workers start in one segment, each taking the next address.          *)
Start ==
    LET crew == {w \in Workers : w <= Len(Pages)} IN
    /\ phase = "called"
    /\ phase' = "running"
    /\ working' = [w \in Workers |-> IF w \in crew THEN Pages[w] ELSE None]
    /\ queue' = SubSeq(Pages, Cardinality(crew) + 1, Len(Pages))
    /\ UNCHANGED <<reports, results, gamme, session, answer, events, client>>

(* What a worker does when its page has ended, all in one segment: the      *)
(* report if there is one, the entry, the event, and the next address.      *)
EndPage(w, ok, fits) ==
    LET url == working[w]
        start == [type |-> "start", emitted |-> TRUE]
        told == [type |-> "page", url |-> url, ok |-> ok, completed |-> Len(results) + 1,
                 emitted |-> fits]
    IN
    /\ url # None
    /\ reports' = IF ok THEN Append(reports, url) ELSE reports
    /\ gamme' = IF ok /\ gamme = None THEN Gamme[url] ELSE gamme
    /\ results' = Append(results, [url |-> url, ok |-> ok])
    /\ events' = Written(IF results = <<>> THEN <<start, told>> ELSE <<told>>)
    /\ IF queue = <<>>
       THEN working' = [working EXCEPT ![w] = None] /\ UNCHANGED queue
       ELSE working' = [working EXCEPT ![w] = Head(queue)] /\ queue' = Tail(queue)
    /\ UNCHANGED <<phase, session, answer, client>>

(* Mutants of PageEnds: the next address is read but left in the queue; a   *)
(* failed page joins the reports; it is not told; it ends its worker and    *)
(* the batch, as if analyzeOne threw.                                       *)
PageEndsQueueKept(w) ==
    /\ queue # <<>>
    /\ working[w] # None
    /\ working' = [working EXCEPT ![w] = Head(queue)]
    /\ results' = Append(results, [url |-> working[w], ok |-> FALSE])
    /\ UNCHANGED <<phase, queue, reports, gamme, session, answer, events, client>>
PageEndsNullReport(w) ==
    /\ working[w] # None
    /\ reports' = Append(reports, None)
    /\ results' = Append(results, [url |-> working[w], ok |-> FALSE])
    /\ UNCHANGED <<phase, queue, working, gamme, session, answer, events, client>>
PageEndsUntold(w) ==
    \/ EndPage(w, TRUE, TRUE)
    \/ /\ working[w] # None
       /\ results' = Append(results, [url |-> working[w], ok |-> FALSE])
       /\ IF queue = <<>>
          THEN working' = [working EXCEPT ![w] = None] /\ UNCHANGED queue
          ELSE working' = [working EXCEPT ![w] = Head(queue)] /\ queue' = Tail(queue)
       /\ UNCHANGED <<phase, reports, gamme, session, answer, events, client>>
PageEndsThrows(w) ==
    \/ EndPage(w, TRUE, TRUE)
    \/ /\ working[w] # None
       /\ phase' = "failed"
       /\ working' = [working EXCEPT ![w] = None]
       /\ UNCHANGED <<queue, reports, results, gamme, session, answer, events, client>>

(* analyzeOne never throws: a page ends with a report, or without. A report *)
(* may not pass the schema of the stream (the text of a link is not cut by  *)
(* links.analyzer.ts, and the schema bounds it); its absence always does.   *)
PageEnds(w) == \E ok, fits \in BOOLEAN : (ok \/ fits) /\ EndPage(w, ok, fits)

(* Promise.all over the workers.                                            *)
AllEnded == \A w \in Workers : working[w] = None

(* The batch is recorded if there is something to record.                   *)
Gather ==
    /\ phase = "running"
    /\ AllEnded
    /\ phase' = IF reports # <<>> THEN "recording" ELSE "recorded"
    /\ UNCHANGED <<queue, working, reports, results, gamme, session, answer, events, client>>

(* record: the session takes its domain from the report that came first.    *)
(* The history may be down or refuse it: then nothing is recorded, and the  *)
(* batch goes on.                                                           *)
Record ==
    /\ phase = "recording"
    /\ phase' = "recorded"
    /\ \/ session' = [domain |-> Domain[reports[1]], gamme |-> gamme, pages |-> reports]
       \/ UNCHANGED session
    /\ UNCHANGED <<queue, working, reports, results, gamme, answer, events, client>>

(* The response, the last event and the end of the stream.                  *)
Return ==
    LET succeeded == Cardinality({n \in DOMAIN results : results[n].ok}) IN
    /\ phase = "recorded"
    /\ phase' = "returned"
    /\ answer' = [total |-> Len(Pages), succeeded |-> succeeded,
                  failed |-> Len(results) - succeeded,
                  results |-> OrderByRequest(results, Pages)]
    /\ events' = Written(<<[type |-> "complete", total |-> Len(Pages),
                            succeeded |-> succeeded, failed |-> Len(results) - succeeded,
                            emitted |-> TRUE]>>)
    /\ client' = FALSE
    /\ UNCHANGED <<queue, working, reports, results, gamme, session>>

(* The client goes away, at any time. Nothing else looks at it.             *)
Leave ==
    /\ client
    /\ client' = FALSE
    /\ UNCHANGED <<phase, queue, working, reports, results, gamme, session, answer, events>>

Next == Start \/ (\E w \in Workers : PageEnds(w)) \/ Gather \/ Record \/ Return \/ Leave

Spec == Init /\ [][Next]_vars

(* Every page ends: its fetch has a timeout, its analysis ends              *)
(* (EveryAnalysisEnds of AnalysisStream), and so does a write to the        *)
(* database. Nobody has to leave.                                           *)
FairSpec ==
    /\ Spec
    /\ WF_vars(Start) /\ WF_vars(Gather) /\ WF_vars(Record) /\ WF_vars(Return)
    /\ \A w \in Workers : WF_vars(PageEnds(w))

-----------------------------------------------------------------------------
Entry == [url : Urls, ok : BOOLEAN]

(* Queue, results, reports and the answer keep their types.                 *)
TypeOK ==
    /\ phase \in {"called", "running", "recording", "recorded", "returned"}
    /\ queue \in Seq(Urls)
    /\ working \in [Workers -> Urls \union {None}]
    /\ reports \in Seq(Urls)
    /\ results \in Seq(Entry)
    /\ gamme \in {Gamme[u] : u \in Urls} \union {None}
    /\ client \in BOOLEAN

(* "Les URL repetees ne sont analysees QU'UNE FOIS" (analysis.service.ts:90)*)
(* whatever the workers' interleaving: the batch is a pool of workers over  *)
(* the distinct addresses, and a page is finished when it has its entry.    *)
Pool == INSTANCE WorkerPool
            WITH Jobs <- Urls, waiting <- ToSet(queue), desk <- working,
                 finished <- {results[n].url : n \in DOMAIN results}

ImplementsPool == Pool!Promise

(* What the client reads adds up with what the log says. "start" comes      *)
(* first and once. Each page is told, or refused by the schema and logged,  *)
(* under the number of its turn, so that a number missing from the stream   *)
(* is in the log, and no address comes twice. Only a report is ever         *)
(* refused: every page in error is told. "complete" comes last, after all   *)
(* the pages, and counts those told and those refused.                      *)
StreamAddsUp ==
    LET told == {n \in DOMAIN events : events[n].type = "page" /\ events[n].emitted}
        refused == {n \in DOMAIN events : ~events[n].emitted}
        inError == {n \in told : ~events[n].ok}
    IN
    /\ \A n \in DOMAIN events : events[n].type = "start" <=> n = 1
    /\ \A n \in told \union refused : events[n].completed = Rank(told \union refused, n)
    /\ \A n, m \in told \union refused : events[n].url = events[m].url => n = m
    /\ \A n \in refused : events[n].type = "page" /\ events[n].ok
    /\ \A n \in DOMAIN events : events[n].type = "complete" =>
           /\ n = Len(events)
           /\ events[n].total = Cardinality(told) + Cardinality(refused)
           /\ events[n].failed = Cardinality(inError)
           /\ events[n].succeeded + events[n].failed = events[n].total

(* "L'ordre d'arrivee depend de la concurrence : on retablit celui demande" *)
(* (analysis.service.ts:139): the answer has one entry per distinct address *)
(* in the order of the request, each with the outcome of its own page.      *)
AnswerInOrder ==
    answer # None =>
        /\ [n \in DOMAIN answer.results |-> answer.results[n].url] = Pages
        /\ \A n \in DOMAIN answer.results : answer.results[n] \in ToSet(results)
        /\ answer.succeeded + answer.failed = answer.total

(* A batch ends, whatever becomes of its pages, its history or its client.  *)
EveryBatchEnds == <>(phase = "returned" /\ answer # None)
=============================================================================
