---------------------------- MODULE AnalysisStream ---------------------------
(****************************************************************************)
(* One page analysed in a worker thread and streamed to its caller, from    *)
(* AnalysisController.stream down to the thread and back:                   *)
(*   analysis.controller.ts       the events, written by an SseWriter;      *)
(*   analysis-runner.service.ts   the pool of threads, and the fallback on  *)
(*                                the main thread when the pool fails;      *)
(*   probe-rpc.ts                 the thread asks the main process for its  *)
(*                                network requests over a MessageChannel;   *)
(*   analysis.worker.ts, orchestrator.ts   the analysers, run in parallel,  *)
(*                                which report their progress over another. *)
(*                                                                          *)
(* A thread and the main process run concurrently and share nothing but the *)
(* messages of the two channels and the outcome of the task. The thread may *)
(* die at any step. An analyser makes at most one request here.             *)
(****************************************************************************)
EXTENDS Integers, Sequences, FiniteSets, Sublists

CONSTANTS Analyzers,   \* createAnalyzers()
          Networked,   \* those that ask for a request
          None

ASSUME StreamAssumption ==
    /\ IsFiniteSet(Analyzers)
    /\ Analyzers # {}
    /\ Networked \subseteq Analyzers

VARIABLES runner,      \* where analyzePage stands in the main process
          poolFailed,  \* AnalysisRunnerService.poolFailed
          thread,      \* the task of the pool
          at,          \* per side, where each analyser stands
          answer,      \* what the probe answered the thread's analysers
          pending,     \* RemoteProbeEngine.pending: [id, asker]
          nextId,
          closed,      \* RemoteProbeEngine.closed
          open,        \* the channels are open on the main side
          requests,    \* the probe channel, thread to main
          replies,     \* the probe channel, main to thread
          serving,     \* the requests the engine works on
          progress,    \* the progress channel, thread to main
          events,      \* what the writer was given while it was open
          announced,   \* "start" was sent
          client       \* FALSE once SseWriter is closed

mainVars == <<runner, poolFailed, events, announced, client>>
rpcVars == <<answer, pending, nextId, closed, requests, replies, serving>>
vars == <<runner, poolFailed, thread, at, answer, pending, nextId, closed, open,
          requests, replies, serving, progress, events, announced, client>>

Sides == {"thread", "main"}
Total == Cardinality(Analyzers)
Completed(side) == Cardinality({a \in Analyzers : at[side][a] = "done"})
Close == [id |-> 0, payload |-> None]
Unavailable == "unavailable"

Init ==
    /\ runner = "fetching"
    /\ poolFailed \in BOOLEAN
    /\ thread = "none"
    /\ at = [side \in Sides |-> [a \in Analyzers |-> "ready"]]
    /\ answer = [a \in Networked |-> None]
    /\ pending = {}
    /\ nextId = 1
    /\ closed = FALSE
    /\ open = FALSE
    /\ requests = <<>>
    /\ replies = <<>>
    /\ serving = {}
    /\ progress = <<>>
    /\ events = <<>>
    /\ announced = FALSE
    /\ client = TRUE

(* SseWriter.send, for some events in a row: nothing once the client has    *)
(* gone. Otherwise an event is either written or, when it does not pass the *)
(* schema of the stream, logged and not emitted, which "emitted" tells.     *)
Send(es) == events' = IF client THEN events \o es ELSE events

(* The progress callback of the stream: "start" goes before the first, even *)
(* if the first is then refused. Whether a check passes depends on the page *)
(* (the text of a link is not cut by links.analyzer.ts, and the schema      *)
(* bounds it).                                                              *)
Check(side, n) ==
    \E fits \in BOOLEAN :
        LET start == [type |-> "start", emitted |-> TRUE]
            check == [type |-> "check", side |-> side, completed |-> n, emitted |-> fits]
        IN  /\ announced' = TRUE
            /\ Send(IF announced THEN <<check>> ELSE <<start, check>>)

-----------------------------------------------------------------------------
(* fetchPage and resolveSettings have ended. In error, the stream says so   *)
(* and ends. Otherwise the page goes to the pool, with two channels, unless *)
(* the pool has failed before.                                              *)
FetchFails ==
    /\ runner = "fetching"
    /\ runner' = "ended"
    /\ Send(<<[type |-> "error", emitted |-> TRUE]>>)
    /\ client' = FALSE
    /\ UNCHANGED <<poolFailed, thread, at, open, progress, announced, rpcVars>>

Fetched ==
    /\ runner = "fetching"
    /\ IF poolFailed
       THEN runner' = "inline" /\ UNCHANGED <<thread, open>>
       ELSE runner' = "pool" /\ open' = TRUE /\ thread' = "running"
    /\ UNCHANGED <<poolFailed, at, progress, events, announced, client, rpcVars>>

(* RemoteProbeEngine.ask: a request under a fresh id, or an answer at once  *)
(* when the channel is known to be closed.                                  *)
Ask(a) ==
    /\ thread = "running"
    /\ a \in Networked
    /\ at["thread"][a] = "ready"
    /\ IF closed
       THEN /\ at' = [at EXCEPT !["thread"][a] = "answered"]
            /\ answer' = [answer EXCEPT ![a] = Unavailable]
            /\ UNCHANGED <<pending, nextId, requests>>
       ELSE /\ at' = [at EXCEPT !["thread"][a] = "asking"]
            /\ nextId' = nextId + 1
            /\ pending' = pending \union {[id |-> nextId, asker |-> a]}
            /\ requests' = IF open THEN Append(requests, [id |-> nextId, asker |-> a])
                           ELSE requests
            /\ UNCHANGED answer
    /\ UNCHANGED <<thread, closed, open, replies, serving, progress, mainVars>>

(* serveProbeRequests: the main process receives a request and gives it to  *)
(* the engine, without waiting for the previous ones.                       *)
Serve ==
    /\ open
    /\ requests # <<>>
    /\ serving' = serving \union {Head(requests)}
    /\ requests' = Tail(requests)
    /\ UNCHANGED <<thread, at, answer, pending, nextId, closed, open, replies, progress,
                   mainVars>>

(* The engine answers one of them, in any order, or throws. The reply is    *)
(* posted under the id of its request, if the channel is still open.        *)
Reply(r, payload) ==
    /\ r \in serving
    /\ serving' = serving \ {r}
    /\ replies' = IF open THEN Append(replies, [id |-> r.id, payload |-> payload])
                  ELSE replies
    /\ UNCHANGED <<thread, at, answer, pending, nextId, closed, open, requests, progress,
                   mainVars>>

(* Mutant of EngineEnds: without the catch, a request that fails is never   *)
(* answered.                                                                *)
EngineThrows(r) ==
    \/ Reply(r, r.asker)
    \/ /\ r \in serving
       /\ serving' = serving \ {r}
       /\ UNCHANGED <<thread, at, answer, pending, nextId, closed, open, requests, replies,
                      progress, mainVars>>

EngineEnds(r) == Reply(r, r.asker) \/ Reply(r, Unavailable)

(* The thread settles some of its pending requests with a payload.          *)
Settle(settled, payload) ==
    LET askers == {p.asker : p \in settled} IN
    /\ pending' = pending \ settled
    /\ at' = [at EXCEPT !["thread"] =
                [a \in Analyzers |-> IF a \in askers THEN "answered" ELSE @[a]]]
    /\ answer' = [a \in Networked |-> IF a \in askers THEN payload ELSE answer[a]]

(* Mutant of Receive: replies matched with the oldest request.              *)
ReceiveInOrder ==
    /\ thread = "running"
    /\ replies # <<>>
    /\ Head(replies) # Close
    /\ replies' = Tail(replies)
    /\ Settle({p \in pending : \A q \in pending : p.id <= q.id}, Head(replies).payload)
    /\ UNCHANGED <<thread, nextId, closed, open, requests, serving, progress, mainVars>>

(* The thread receives a reply: the request of that id is settled, if it is *)
(* still pending.                                                           *)
Receive ==
    /\ thread = "running"
    /\ replies # <<>>
    /\ Head(replies) # Close
    /\ replies' = Tail(replies)
    /\ Settle({p \in pending : p.id = Head(replies).id}, Head(replies).payload)
    /\ UNCHANGED <<thread, nextId, closed, open, requests, serving, progress, mainVars>>

(* The thread learns that the channel is closed: everything pending is      *)
(* settled as unavailable.                                                  *)
SeesClose ==
    /\ thread = "running"
    /\ replies # <<>>
    /\ Head(replies) = Close
    /\ replies' = Tail(replies)
    /\ closed' = TRUE
    /\ Settle(pending, Unavailable)
    /\ UNCHANGED <<thread, nextId, open, requests, serving, progress, mainVars>>

(* Mutant of ThreadCompletes: the callback is called before the count moves.*)
ThreadCompletesEarly(a) ==
    /\ thread = "running"
    /\ at["thread"][a] = IF a \in Networked THEN "answered" ELSE "ready"
    /\ at' = [at EXCEPT !["thread"][a] = "done"]
    /\ progress' = IF open THEN Append(progress, Completed("thread")) ELSE progress
    /\ UNCHANGED <<thread, open, mainVars, rpcVars>>

(* runAnalysis, in the thread: an analyser has ended, well or in error, and *)
(* its progress is posted, if the channel is open.                          *)
ThreadCompletes(a) ==
    /\ thread = "running"
    /\ at["thread"][a] = IF a \in Networked THEN "answered" ELSE "ready"
    /\ at' = [at EXCEPT !["thread"][a] = "done"]
    /\ progress' = IF open THEN Append(progress, Completed("thread") + 1) ELSE progress
    /\ UNCHANGED <<thread, open, mainVars, rpcVars>>

(* All analysers have ended: the thread's task ends, and posts its report.  *)
ThreadReturns ==
    /\ thread = "running"
    /\ Completed("thread") = Total
    /\ thread' = "returned"
    /\ UNCHANGED <<at, open, progress, mainVars, rpcVars>>

(* The thread is stopped: out of memory, an error outside the analysers, or *)
(* the end of Piscina.destroy.                                              *)
ThreadDies ==
    /\ thread = "running"
    /\ thread' = "dead"
    /\ UNCHANGED <<at, open, progress, mainVars, rpcVars>>

-----------------------------------------------------------------------------
(* The main process receives a progress message.                            *)
Progress ==
    /\ open
    /\ progress # <<>>
    /\ progress' = Tail(progress)
    /\ Check("thread", Head(progress))
    /\ UNCHANGED <<runner, poolFailed, thread, at, open, client, rpcVars>>

(* The finally block of runWithProgress: the channels are closed on the     *)
(* main side. What the main process has not received is dropped.            *)
CloseChannels ==
    /\ open' = FALSE
    /\ progress' = <<>>
    /\ requests' = <<>>
    /\ replies' = Append(replies, Close)

(* pool.run resolves: the report is there. It overtakes the messages of the *)
(* progress channel that have not been received.                            *)
PoolResolves ==
    /\ runner = "pool"
    /\ thread = "returned"
    /\ runner' = "recording"
    /\ CloseChannels
    /\ UNCHANGED <<poolFailed, thread, at, answer, pending, nextId, closed, serving, events,
                   announced, client>>

(* Mutant of PoolRejects: "return await" in the catch block, which leaves   *)
(* the channels open during the fallback.                                   *)
PoolRejectsAwaited ==
    /\ runner = "pool"
    /\ runner' = "inline"
    /\ poolFailed' = TRUE
    /\ UNCHANGED <<thread, at, answer, pending, nextId, closed, open, requests, replies,
                   serving, progress, events, announced, client>>

(* pool.run rejects, because the thread died or because the pool is being   *)
(* destroyed while the thread still runs: no task goes to the pool any more *)
(* and the analysis starts again on the main thread. "return" does not wait *)
(* for it: the channels are closed at once.                                 *)
PoolRejects ==
    /\ runner = "pool"
    /\ runner' = "inline"
    /\ poolFailed' = TRUE
    /\ CloseChannels
    /\ UNCHANGED <<thread, at, answer, pending, nextId, closed, serving, events, announced,
                   client>>

(* runAnalysis on the main thread: an analyser has ended, and the callback  *)
(* is called directly. Its requests go straight to the engine.              *)
InlineCompletes(a) ==
    /\ runner = "inline"
    /\ at["main"][a] = "ready"
    /\ at' = [at EXCEPT !["main"][a] = "done"]
    /\ Check("main", Completed("main") + 1)
    /\ UNCHANGED <<runner, poolFailed, thread, open, progress, client, rpcVars>>

InlineReturns ==
    /\ runner = "inline"
    /\ Completed("main") = Total
    /\ runner' = "recording"
    /\ UNCHANGED <<poolFailed, thread, at, open, progress, events, announced, client, rpcVars>>

(* Where a side's progress is in a stream.                                  *)
ChecksOf(es, side) == {n \in DOMAIN es : es[n].type = "check" /\ es[n].side = side}

(* record, which never fails, then the last event and the end of the stream.*)
(* The report holds every check of the run that made it: a check that was   *)
(* refused makes the schema refuse the report too.                          *)
Recorded ==
    LET source == IF Completed("main") = Total THEN "main" ELSE "thread" IN
    /\ runner = "recording"
    /\ runner' = "ended"
    /\ \E fits \in BOOLEAN :
           /\ fits => \A n \in ChecksOf(events, source) : events[n].emitted
           /\ Send(<<[type |-> "complete", emitted |-> fits]>>)
    /\ client' = FALSE
    /\ UNCHANGED <<poolFailed, thread, at, open, progress, announced, rpcVars>>

(* The client goes away: the writer is silent from then on, and the         *)
(* analysis goes on.                                                        *)
Leave ==
    /\ client
    /\ client' = FALSE
    /\ UNCHANGED <<runner, poolFailed, thread, at, open, progress, events, announced, rpcVars>>

ThreadStep ==
    \/ ThreadReturns \/ Receive \/ SeesClose
    \/ \E a \in Analyzers : Ask(a) \/ ThreadCompletes(a)

MainStep ==
    \/ Fetched \/ PoolResolves \/ InlineReturns \/ Recorded
    \/ \E a \in Analyzers : InlineCompletes(a)

Next ==
    \/ ThreadStep \/ MainStep \/ Serve \/ Progress
    \/ \E r \in serving : EngineEnds(r)
    \/ FetchFails \/ ThreadDies \/ PoolRejects \/ Leave

Spec == Init /\ [][Next]_vars

(* Both event loops run, the engine ends every request (EveryCallAnswered   *)
(* of ProbeEngine), and Piscina rejects the task of a dead thread. A thread *)
(* need not die, nor a pool be destroyed.                                   *)
FairSpec ==
    /\ Spec
    /\ WF_vars(ThreadStep) /\ WF_vars(MainStep) /\ WF_vars(Serve)
    /\ WF_vars(\E r \in serving : EngineEnds(r))
    /\ WF_vars(thread = "dead" /\ PoolRejects)

-----------------------------------------------------------------------------
(* Runner, thread, channels and stream keep their types.                    *)
TypeOK ==
    /\ runner \in {"fetching", "pool", "inline", "recording", "ended"}
    /\ thread \in {"none", "running", "returned", "dead"}
    /\ at \in [Sides -> [Analyzers -> {"ready", "asking", "answered", "done"}]]
    /\ answer \in [Networked -> Networked \union {Unavailable, None}]
    /\ pending \subseteq [id : 1..(nextId - 1), asker : Networked]
    /\ serving \subseteq [id : 1..(nextId - 1), asker : Networked]
    /\ \A n \in DOMAIN progress : progress[n] \in 1..Total

(* An analyser of the thread is answered about its own request, or not at   *)
(* all, in whatever order the engine ends them, and an answered analyser    *)
(* has no request pending.                                                  *)
OwnAnswer ==
    \A a \in Networked :
        /\ answer[a] \in {a, Unavailable, None}
        /\ at["thread"][a] = "asking" <=> \E p \in pending : p.asker = a

(* What is said last.                                                       *)
Final == {"error", "complete"}

(* "start", once and first, when there is anything but an error or an end;  *)
(* the checks of the thread, each emitted or refused by the schema and      *)
(* logged under the number of its turn, then, after a failure of the pool,  *)
(* those of the fallback, numbered from 1 again and never mixed with the    *)
(* thread's; one "complete" or "error", at the end. A number missing from   *)
(* the stream is in the log; neither "start" nor "error" is ever refused.   *)
WellFormed(es) ==
    /\ \A n \in DOMAIN es : es[n].type = "start" <=> n = 1 /\ es[n].type \notin Final
    /\ \A n \in DOMAIN es : es[n].type \in Final => n = Len(es)
    /\ \A side \in Sides : \A n \in ChecksOf(es, side) :
           es[n].completed = Rank(ChecksOf(es, side), n)
    /\ \A n \in ChecksOf(es, "thread") : \A m \in ChecksOf(es, "main") : n < m
    /\ \A n \in DOMAIN es : es[n].emitted \/ es[n].type \in {"check", "complete"}

(* What was given to the writer is well formed, at any moment and whatever  *)
(* dies.                                                                    *)
StreamWellFormed == WellFormed(events)

(* Every analysis ends and the stream is closed, whatever the thread, the   *)
(* pool or the client do.                                                   *)
EveryAnalysisEnds == (runner # "fetching") ~> (runner = "ended" /\ ~client)
=============================================================================
