------------------------- MODULE AnalysisStream_proofs -----------------------
(****************************************************************************)
(* For any number of analysers, whatever the order in which the engine ends *)
(* their requests, and whenever the channels close: an analyser of the      *)
(* thread is answered about its own request, and what the client reads is   *)
(* well formed.                                                             *)
(****************************************************************************)
EXTENDS AnalysisStream, TLAPS, FiniteSetTheorems, SequenceTheorems

Asked == [id : Nat \ {0}, asker : Networked]
Replied == [id : Nat, payload : Networked \union {Unavailable, None}]
Stages == {"ready", "asking", "answered", "done"}

RpcTyped ==
    /\ at \in [Sides -> [Analyzers -> Stages]]
    /\ answer \in [Networked -> Networked \union {Unavailable, None}]
    /\ pending \subseteq Asked /\ serving \subseteq Asked
    /\ requests \in Seq(Asked) /\ replies \in Seq(Replied)
    /\ nextId \in Nat \ {0}

(* An id is given once, and travels with the name of who asks.              *)
IdsGrow ==
    /\ \A p \in pending \union serving : p.id < nextId
    /\ \A n \in DOMAIN requests : requests[n].id < nextId
    /\ \A n \in DOMAIN replies : replies[n].id < nextId
SameAsker ==
    \A p \in pending :
        /\ \A q \in pending \union serving : p.id = q.id => p.asker = q.asker
        /\ \A n \in DOMAIN requests : requests[n].id = p.id => requests[n].asker = p.asker
        /\ \A n \in DOMAIN replies :
               replies[n].id = p.id => replies[n].payload \in {p.asker, Unavailable}

(* Whoever asks has one request pending, and nobody else has any.           *)
OnePending == \A p, q \in pending : p.asker = q.asker => p = q
PendingAsks == \A a \in Networked : at["thread"][a] = "asking" <=> \E p \in pending : p.asker = a
OwnPayload == \A a \in Networked : answer[a] \in {a, Unavailable, None}

RpcInv == RpcTyped /\ IdsGrow /\ SameAsker /\ OnePending /\ PendingAsks /\ OwnPayload
-----------------------------------------------------------------------------
LEMMA RpcStarts == Init => RpcInv
<1> SUFFICES ASSUME Init PROVE RpcInv OBVIOUS
<1>1. requests = <<>> /\ replies = <<>> /\ pending = {} /\ serving = {} /\ nextId = 1
    BY DEF Init
<1>2. requests \in Seq(Asked) /\ replies \in Seq(Replied)
    BY <1>1
<1>3. at \in [Sides -> [Analyzers -> Stages]] /\ \A a \in Networked : at["thread"][a] = "ready"
    BY StreamAssumption DEF Init, Stages, Sides
<1>4. answer \in [Networked -> Networked \union {Unavailable, None}]
      /\ \A a \in Networked : answer[a] = None
    BY DEF Init
<1> QED BY <1>1, <1>2, <1>3, <1>4 DEF RpcInv, RpcTyped, IdsGrow, SameAsker, OnePending, PendingAsks,
                OwnPayload

(* The steps that do not touch what the two sides say to each other.        *)
LEMMA RpcKept ==
    ASSUME RpcInv, UNCHANGED <<answer, pending, nextId, serving>>,
           at' \in [Sides -> [Analyzers -> Stages]],
           \A a \in Networked : at'["thread"][a] = "asking" <=> at["thread"][a] = "asking",
           requests' \in {requests, <<>>}, replies' \in {replies, Append(replies, Close)}
    PROVE  RpcInv'
<1>1. Close \in Replied /\ Close.id = 0
    BY DEF Close, Replied
<1>2. /\ replies' \in Seq(Replied)
      /\ \A n \in DOMAIN replies' : replies'[n] = Close \/ \E m \in DOMAIN replies : replies'[n] = replies[m]
    <2>1. replies \in Seq(Replied)
        BY DEF RpcInv, RpcTyped
    <2>2. CASE replies' = replies
        BY <2>1, <2>2
    <2>3. CASE replies' = Append(replies, Close)
        <3>1. Close \in Replied
            BY <1>1
        <3>2. /\ replies' \in Seq(Replied) /\ DOMAIN replies' = DOMAIN replies \union {Len(replies) + 1}
              /\ replies'[Len(replies) + 1] = Close /\ \A n \in DOMAIN replies : replies'[n] = replies[n]
            BY <2>1, <2>3, <3>1
        <3> QED BY <3>2
    <2> QED BY <2>2, <2>3
<1>3. /\ requests' \in Seq(Asked)
      /\ \A n \in DOMAIN requests' : n \in DOMAIN requests /\ requests'[n] = requests[n]
    <2>1. requests \in Seq(Asked)
        BY DEF RpcInv, RpcTyped
    <2>2. CASE requests' = <<>>
        BY <2>2
    <2> QED BY <2>1, <2>2
<1>4. \A p \in pending : p.id # 0 /\ p.id \in Nat
    BY DEF RpcInv, RpcTyped, Asked
<1>5. RpcTyped' /\ OnePending' /\ PendingAsks' /\ OwnPayload'
    BY <1>2, <1>3 DEF RpcInv, RpcTyped, OnePending, PendingAsks, OwnPayload
<1>6. IdsGrow'
    BY <1>1, <1>2, <1>3 DEF RpcInv, RpcTyped, IdsGrow
<1>7. SameAsker'
    BY <1>1, <1>2, <1>3, <1>4 DEF RpcInv, SameAsker
<1> QED BY <1>5, <1>6, <1>7 DEF RpcInv

(* A fresh id.                                                              *)
LEMMA AskKeeps == ASSUME RpcInv, NEW a \in Analyzers, Ask(a) PROVE RpcInv'
<1>0. a \in Networked /\ at["thread"][a] = "ready" /\ "thread" \in Sides
      /\ UNCHANGED <<serving, replies>>
    BY DEF Ask, Sides
<1>1. CASE closed
    <2>1. /\ at' = [at EXCEPT !["thread"][a] = "answered"]
          /\ answer' = [answer EXCEPT ![a] = Unavailable]
          /\ UNCHANGED <<pending, nextId, requests>>
        BY <1>1 DEF Ask
    <2>2. at' \in [Sides -> [Analyzers -> Stages]]
          /\ \A b \in Networked : at'["thread"][b] = "asking" <=> at["thread"][b] = "asking"
        BY <1>0, <2>1, StreamAssumption DEF RpcInv, RpcTyped, Stages
    <2>3. RpcTyped' /\ OwnPayload'
        BY <1>0, <2>1, <2>2 DEF RpcInv, RpcTyped, OwnPayload
    <2> QED BY <1>0, <2>1, <2>2, <2>3 DEF RpcInv, IdsGrow, SameAsker, OnePending, PendingAsks
<1>2. CASE ~closed
    <2> DEFINE new == [id |-> nextId, asker |-> a]
    <2>1. /\ at' = [at EXCEPT !["thread"][a] = "asking"]
          /\ nextId' = nextId + 1 /\ pending' = pending \union {new}
          /\ requests' \in {requests, Append(requests, new)} /\ answer' = answer
        BY <1>2 DEF Ask
    <2>2. new \in Asked /\ new.id = nextId /\ new.asker = a /\ nextId \in Nat
        BY <1>0 DEF RpcInv, RpcTyped, Asked
    <2> HIDE DEF new
    <2>3. /\ requests' \in Seq(Asked)
          /\ \A n \in DOMAIN requests' :
                 requests'[n] = new \/ \E m \in DOMAIN requests : requests'[n] = requests[m]
        <3>1. requests \in Seq(Asked)
            BY DEF RpcInv, RpcTyped
        <3>2. CASE requests' = requests
            BY <3>1, <3>2
        <3>3. CASE requests' = Append(requests, new)
            <4>1. new \in Asked
                BY <2>2
            <4>2. /\ requests' \in Seq(Asked) /\ DOMAIN requests' = DOMAIN requests \union {Len(requests) + 1}
                  /\ requests'[Len(requests) + 1] = new /\ \A n \in DOMAIN requests : requests'[n] = requests[n]
                BY <3>1, <3>3, <4>1
            <4> QED BY <4>2
        <3> QED BY <2>1, <3>2, <3>3
    <2>4. at' \in [Sides -> [Analyzers -> Stages]]
          /\ \A b \in Networked :
                 at'["thread"][b] = IF b = a THEN "asking" ELSE at["thread"][b]
        BY <1>0, <2>1, StreamAssumption DEF RpcInv, RpcTyped, Stages
    <2>5. \A p \in pending \union serving : p.id \in Nat /\ p.id < nextId
        BY DEF RpcInv, RpcTyped, IdsGrow, Asked
    <2>6. \A n \in DOMAIN requests : requests[n].id \in Nat /\ requests[n].id < nextId
        <3>1. \A n \in DOMAIN requests : requests[n] \in Asked
            BY DEF RpcInv, RpcTyped
        <3> QED BY <3>1 DEF RpcInv, IdsGrow, Asked
    <2>7. \A n \in DOMAIN replies : replies[n].id \in Nat /\ replies[n].id < nextId
        <3>1. \A n \in DOMAIN replies : replies[n] \in Replied
            BY DEF RpcInv, RpcTyped
        <3> QED BY <3>1 DEF RpcInv, IdsGrow, Replied
    <2>8. \A p \in pending : p.asker # a
        BY <1>0 DEF RpcInv, PendingAsks
    <2>9. RpcTyped' /\ OwnPayload'
        BY <1>0, <2>1, <2>2, <2>3, <2>4 DEF RpcInv, RpcTyped, OwnPayload
    <2>10. IdsGrow'
        BY <1>0, <2>1, <2>2, <2>3, <2>5, <2>6, <2>7 DEF IdsGrow
    <2>11. SameAsker'
        <3> SUFFICES ASSUME NEW p \in pending'
                     PROVE  /\ \A q \in pending' \union serving' : p.id = q.id => p.asker = q.asker
                            /\ \A n \in DOMAIN requests' :
                                   requests'[n].id = p.id => requests'[n].asker = p.asker
                            /\ \A n \in DOMAIN replies' :
                                   replies'[n].id = p.id => replies'[n].payload \in {p.asker, Unavailable}
            BY DEF SameAsker
        <3>1. CASE p = new
            BY <1>0, <2>1, <2>2, <2>3, <2>5, <2>6, <2>7, <3>1
        <3>2. CASE p \in pending
            <4>1. p.id < nextId /\ p.id # nextId
                BY <2>2, <2>5, <3>2
            <4>2. /\ \A q \in pending \union serving : p.id = q.id => p.asker = q.asker
                  /\ \A n \in DOMAIN requests : requests[n].id = p.id => requests[n].asker = p.asker
                  /\ \A n \in DOMAIN replies :
                         replies[n].id = p.id => replies[n].payload \in {p.asker, Unavailable}
                BY <3>2 DEF RpcInv, SameAsker
            <4>3. \A q \in pending' \union serving' : p.id = q.id => p.asker = q.asker
                BY <1>0, <2>1, <2>2, <4>1, <4>2
            <4>4. \A n \in DOMAIN requests' : requests'[n].id = p.id => requests'[n].asker = p.asker
                BY <2>2, <2>3, <4>1, <4>2
            <4> QED BY <1>0, <4>2, <4>3, <4>4
        <3> QED BY <2>1, <3>1, <3>2
    <2>12. OnePending'
        BY <2>1, <2>2, <2>8 DEF RpcInv, OnePending
    <2>13. PendingAsks'
        BY <2>1, <2>2, <2>4 DEF RpcInv, PendingAsks
    <2> QED BY <2>9, <2>10, <2>11, <2>12, <2>13 DEF RpcInv
<1> QED BY <1>1, <1>2

(* Nothing is said that was not: a request is served, a reply goes.         *)
LEMMA ServeKeeps == ASSUME RpcInv, Serve PROVE RpcInv'
<1>1. /\ requests # <<>> /\ serving' = serving \union {Head(requests)}
      /\ requests' = Tail(requests)
      /\ UNCHANGED <<at, answer, pending, nextId, replies>>
    BY DEF Serve
<1>2. /\ Head(requests) = requests[1] /\ 1 \in DOMAIN requests /\ requests[1] \in Asked
      /\ requests' \in Seq(Asked)
      /\ \A n \in DOMAIN requests' : n + 1 \in DOMAIN requests /\ requests'[n] = requests[n + 1]
    BY <1>1 DEF RpcInv, RpcTyped
<1>3. RpcTyped' /\ OnePending' /\ PendingAsks' /\ OwnPayload'
    BY <1>1, <1>2 DEF RpcInv, RpcTyped, OnePending, PendingAsks, OwnPayload
<1>4. IdsGrow'
    BY <1>1, <1>2 DEF RpcInv, IdsGrow
<1>5. SameAsker'
    BY <1>1, <1>2 DEF RpcInv, SameAsker
<1> QED BY <1>3, <1>4, <1>5 DEF RpcInv

LEMMA EngineKeeps == ASSUME RpcInv, NEW r \in serving, EngineEnds(r) PROVE RpcInv'
<1>1. PICK payload \in {r.asker, Unavailable} : Reply(r, payload)
    BY DEF EngineEnds
<1> DEFINE new == [id |-> r.id, payload |-> payload]
<1>2. /\ serving' = serving \ {r} /\ replies' \in {replies, Append(replies, new)}
      /\ UNCHANGED <<at, answer, pending, nextId, requests>>
    BY <1>1 DEF Reply
<1>3. new \in Replied /\ new.id = r.id /\ new.payload = payload /\ r.id < nextId
    BY DEF RpcInv, RpcTyped, IdsGrow, Asked, Replied
<1> HIDE DEF new
<1>4. /\ replies' \in Seq(Replied)
      /\ \A n \in DOMAIN replies' :
             replies'[n] = new \/ \E m \in DOMAIN replies : replies'[n] = replies[m]
    <2>1. replies \in Seq(Replied)
        BY DEF RpcInv, RpcTyped
    <2>2. CASE replies' = replies
        BY <2>1, <2>2
    <2>3. CASE replies' = Append(replies, new)
        <3>1. new \in Replied
            BY <1>3
        <3>2. /\ replies' \in Seq(Replied) /\ DOMAIN replies' = DOMAIN replies \union {Len(replies) + 1}
              /\ replies'[Len(replies) + 1] = new /\ \A n \in DOMAIN replies : replies'[n] = replies[n]
            BY <2>1, <2>3, <3>1
        <3> QED BY <3>2
    <2> QED BY <1>2, <2>2, <2>3
<1>5. RpcTyped' /\ OnePending' /\ PendingAsks' /\ OwnPayload'
    BY <1>2, <1>4 DEF RpcInv, RpcTyped, OnePending, PendingAsks, OwnPayload
<1>6. IdsGrow'
    BY <1>2, <1>3, <1>4 DEF RpcInv, IdsGrow
<1>7. SameAsker'
    BY <1>2, <1>3, <1>4 DEF RpcInv, SameAsker
<1> QED BY <1>5, <1>6, <1>7 DEF RpcInv

(* Some requests are settled: each with what is due to who asked it.        *)
LEMMA SettleKeeps ==
    ASSUME RpcInv, NEW settled \in SUBSET pending, NEW payload,
           payload \in Networked \union {Unavailable, None},
           \A p \in settled : payload \in {p.asker, Unavailable},
           Settle(settled, payload), replies # <<>>, replies' = Tail(replies),
           UNCHANGED <<nextId, requests, serving>>
    PROVE  RpcInv'
<1> DEFINE askers == {p.asker : p \in settled}
           moved == [a \in Analyzers |-> IF a \in askers THEN "answered" ELSE at["thread"][a]]
<1>1. /\ pending' = pending \ settled
      /\ at' = [at EXCEPT !["thread"] = moved]
      /\ answer' = [a \in Networked |-> IF a \in askers THEN payload ELSE answer[a]]
    BY DEF Settle
<1>2. "thread" \in Sides /\ at["thread"] \in [Analyzers -> Stages]
    BY DEF RpcInv, RpcTyped, Sides
<1>3. moved \in [Analyzers -> Stages]
    BY <1>2 DEF Stages
<1>4. \A a \in Networked : moved[a] = IF a \in askers THEN "answered" ELSE at["thread"][a]
    BY StreamAssumption
<1> HIDE DEF moved
<1>5. at' \in [Sides -> [Analyzers -> Stages]] /\ at'["thread"] = moved
    BY <1>1, <1>2, <1>3 DEF RpcInv, RpcTyped
<1>6. answer' \in [Networked -> Networked \union {Unavailable, None}]
    BY <1>1 DEF RpcInv, RpcTyped
<1>7. /\ replies' \in Seq(Replied)
      /\ \A n \in DOMAIN replies' : n + 1 \in DOMAIN replies /\ replies'[n] = replies[n + 1]
    BY DEF RpcInv, RpcTyped
<1>8. RpcTyped'
    BY <1>1, <1>5, <1>6, <1>7 DEF RpcInv, RpcTyped
<1>9. IdsGrow'
    BY <1>1, <1>7 DEF RpcInv, IdsGrow
<1>10. SameAsker'
    BY <1>1, <1>7 DEF RpcInv, SameAsker
<1>11. OnePending'
    BY <1>1 DEF RpcInv, OnePending
<1>12. PendingAsks'
    <2> SUFFICES ASSUME NEW a \in Networked
                 PROVE  moved[a] = "asking" <=> \E p \in pending' : p.asker = a
        BY <1>5 DEF PendingAsks
    <2>1. CASE a \in askers
        <3>1. PICK p \in settled : p.asker = a
            BY <2>1
        <3>2. \A q \in pending' : q.asker # a
            BY <1>1, <3>1 DEF RpcInv, OnePending
        <3> QED BY <1>4, <2>1, <3>2
    <2>2. CASE a \notin askers
        BY <1>1, <1>4, <2>2 DEF RpcInv, PendingAsks
    <2> QED BY <2>1, <2>2
<1>13. OwnPayload'
    <2> SUFFICES ASSUME NEW a \in Networked PROVE answer'[a] \in {a, Unavailable, None}
        BY DEF OwnPayload
    <2> QED BY <1>1 DEF RpcInv, OwnPayload
<1> QED BY <1>8, <1>9, <1>10, <1>11, <1>12, <1>13 DEF RpcInv

LEMMA ReceiveKeeps == ASSUME RpcInv, Receive PROVE RpcInv'
<1> DEFINE reply == Head(replies)
           settled == {p \in pending : p.id = reply.id}
<1>1. /\ replies # <<>> /\ replies' = Tail(replies) /\ Settle(settled, reply.payload)
      /\ UNCHANGED <<nextId, requests, serving>>
    BY DEF Receive
<1>2. 1 \in DOMAIN replies /\ reply = replies[1] /\ reply \in Replied
    BY <1>1 DEF RpcInv, RpcTyped
<1>3. \A p \in settled : reply.payload \in {p.asker, Unavailable}
    BY <1>2 DEF RpcInv, SameAsker
<1>4. reply.payload \in Networked \union {Unavailable, None} /\ settled \in SUBSET pending
    BY <1>2 DEF Replied
<1> HIDE DEF reply, settled
<1> QED BY <1>1, <1>3, <1>4, SettleKeeps

LEMMA SeesCloseKeeps == ASSUME RpcInv, SeesClose PROVE RpcInv'
<1>1. /\ replies # <<>> /\ replies' = Tail(replies) /\ Settle(pending, Unavailable)
      /\ UNCHANGED <<nextId, requests, serving>>
    BY DEF SeesClose
<1> QED BY <1>1, SettleKeeps

(* An analyser that has its answer ends; one of the main thread too.        *)
LEMMA CompletesKeeps ==
    ASSUME RpcInv, NEW a \in Analyzers, ThreadCompletes(a) \/ InlineCompletes(a)
    PROVE  RpcInv'
<1>1. PICK side \in Sides :
          /\ at' = [at EXCEPT ![side][a] = "done"]
          /\ side = "thread" => at["thread"][a] # "asking"
          /\ UNCHANGED <<answer, pending, nextId, serving, requests, replies>>
    BY DEF ThreadCompletes, InlineCompletes, Sides, rpcVars
<1>2. at' \in [Sides -> [Analyzers -> Stages]]
      /\ \A b \in Networked : at'["thread"][b] = "asking" <=> at["thread"][b] = "asking"
    <2>1. at[side] \in [Analyzers -> Stages] /\ "thread" \in Sides
        BY DEF RpcInv, RpcTyped, Sides
    <2> QED BY <1>1, <2>1, StreamAssumption DEF RpcInv, RpcTyped, Stages
<1> QED BY <1>1, <1>2, RpcKept

LEMMA RpcSteps == RpcInv /\ [Next]_vars => RpcInv'
<1> SUFFICES ASSUME RpcInv, [Next]_vars PROVE RpcInv'
    OBVIOUS
<1>0. at \in [Sides -> [Analyzers -> Stages]]
    BY DEF RpcInv, RpcTyped
<1>1. CASE UNCHANGED vars
    BY <1>0, <1>1, RpcKept DEF vars
<1>2. CASE Fetched \/ FetchFails \/ ThreadReturns \/ ThreadDies \/ Progress \/ InlineReturns
           \/ Recorded \/ Leave
    <2>1. UNCHANGED <<at, answer, pending, nextId, serving, requests, replies>>
        BY <1>2 DEF Fetched, FetchFails, ThreadReturns, ThreadDies, Progress, InlineReturns,
                    Recorded, Leave, rpcVars
    <2> QED BY <1>0, <2>1, RpcKept
<1>3. CASE PoolResolves \/ PoolRejects
    <2>1. /\ UNCHANGED <<at, answer, pending, nextId, serving>>
          /\ requests' = <<>> /\ replies' = Append(replies, Close)
        BY <1>3 DEF PoolResolves, PoolRejects, CloseChannels
    <2> QED BY <1>0, <2>1, RpcKept
<1>4. CASE Serve
    BY <1>4, ServeKeeps
<1>5. CASE Receive
    BY <1>5, ReceiveKeeps
<1>6. CASE SeesClose
    BY <1>6, SeesCloseKeeps
<1>7. CASE \E r \in serving : EngineEnds(r)
    BY <1>7, EngineKeeps
<1>8. CASE \E a \in Analyzers : Ask(a)
    BY <1>8, AskKeeps
<1>9. CASE \E a \in Analyzers : ThreadCompletes(a) \/ InlineCompletes(a)
    BY <1>9, CompletesKeeps
<1> QED BY <1>1, <1>2, <1>3, <1>4, <1>5, <1>6, <1>7, <1>8, <1>9 DEF Next, ThreadStep, MainStep

(* RemoteProbeEngine matches a reply with its request by their id           *)
(* (probe-rpc.ts): no analyser is given what another one asked for.         *)
THEOREM StreamOwnAnswer == Spec => []OwnAnswer
<1>1. RpcInv => OwnAnswer
    BY DEF RpcInv, OwnPayload, PendingAsks, OwnAnswer
<1> QED BY <1>1, RpcStarts, RpcSteps, PTL DEF Spec

-----------------------------------------------------------------------------
(* The stream. While somebody reads it, it was sent of the main side all    *)
(* that has completed, and of the thread all but what is still in the channel;   *)
(* once the channel is closed, nothing of the thread is added.              *)
Event ==
    [type : {"start"} \union Final, emitted : BOOLEAN]
    \union [type : {"check"}, side : Sides, completed : Nat, emitted : BOOLEAN]

Shown(side) == Cardinality(ChecksOf(events, side))
Going(es) == \A n \in DOMAIN es : es[n].type \notin Final

Read ==
    client => /\ Going(events)
              /\ announced <=> events # <<>>
              /\ Shown("main") = Completed("main")
OnItsWay ==
    client /\ open => /\ Shown("thread") + Len(progress) = Completed("thread")
                      /\ \A n \in DOMAIN progress : progress[n] = Shown("thread") + n
Turns ==
    /\ open => runner = "pool"
    /\ runner \in {"fetching", "pool"} => Completed("main") = 0
    /\ runner = "fetching" => /\ thread = "none" /\ ~open /\ progress = <<>>
                              /\ events = <<>> /\ Completed("thread") = 0

StreamTyped ==
    /\ at \in [Sides -> [Analyzers -> Stages]]
    /\ events \in Seq(Event)
    /\ progress \in Seq(Nat)

StreamInv == StreamTyped /\ StreamWellFormed /\ Read /\ OnItsWay /\ Turns

(* The places of a side's progress, in a stream.                            *)
LEMMA ChecksCounted ==
    ASSUME NEW es \in Seq(Event), NEW side
    PROVE  /\ ChecksOf(es, side) \in SUBSET DOMAIN es
           /\ IsFiniteSet(ChecksOf(es, side)) /\ Cardinality(ChecksOf(es, side)) \in Nat
<1>1. ChecksOf(es, side) \in SUBSET DOMAIN es
    BY DEF ChecksOf
<1> QED BY <1>1, PositionsFinite

(* An event that may follow a stream, and the progress that it adds.        *)
Follows(es, e) ==
    /\ Going(es)
    /\ e.type = "start" <=> es = <<>> /\ e.type \notin Final
    /\ e.type = "check" => /\ e.completed = Cardinality(ChecksOf(es, e.side)) + 1
                           /\ e.side = "thread" => ChecksOf(es, "main") = {}
    /\ e.emitted \/ e.type \in {"check", "complete"}
Adds(e, side) == IF e.type = "check" /\ e.side = side THEN 1 ELSE 0

(* One more event at the end of a stream that has not ended.                *)
LEMMA Appended ==
    ASSUME NEW es \in Seq(Event), WellFormed(es), NEW e \in Event, Follows(es, e)
    PROVE  /\ Append(es, e) \in Seq(Event) /\ WellFormed(Append(es, e)) /\ Append(es, e) # <<>>
           /\ e.type \notin Final => Going(Append(es, e))
           /\ \A side \in Sides : Cardinality(ChecksOf(Append(es, e), side)) =
                                  Cardinality(ChecksOf(es, side)) + Adds(e, side)
<1> USE DEF Going, Follows, Adds
<1> DEFINE out == Append(es, e)
<1> DEFINE p == Len(es) + 1
<1>1. /\ out \in Seq(Event) /\ Len(out) = p /\ p \in Nat \ {0} /\ DOMAIN out = 1..p
      /\ DOMAIN es = 1..(p - 1) /\ \A n \in DOMAIN es : out[n] = es[n] /\ n < p /\ n \in DOMAIN out
      /\ out[p] = e /\ \A n \in DOMAIN out : n = p \/ n \in DOMAIN es
      /\ es = <<>> <=> p = 1
    OBVIOUS
<1> HIDE DEF p, out
<1>2. ASSUME NEW side
      PROVE  /\ ChecksOf(es, side) \in SUBSET DOMAIN es
             /\ IsFiniteSet(ChecksOf(es, side)) /\ Cardinality(ChecksOf(es, side)) \in Nat
             /\ ChecksOf(out, side) = ChecksOf(es, side)
                    \union (IF e.type = "check" /\ e.side = side THEN {p} ELSE {})
             /\ p \notin ChecksOf(es, side)
  <2>1. ChecksOf(out, side) = ChecksOf(es, side)
                    \union (IF e.type = "check" /\ e.side = side THEN {p} ELSE {})
      BY <1>1 DEF ChecksOf
  <2>2. p \notin ChecksOf(es, side)
      BY <1>1 DEF ChecksOf
  <2> QED BY <2>1, <2>2, ChecksCounted
<1>3. ASSUME NEW side \in Sides
      PROVE  Cardinality(ChecksOf(out, side)) =
                 Cardinality(ChecksOf(es, side))
                 + (IF e.type = "check" /\ e.side = side THEN 1 ELSE 0)
  <2>1. CASE e.type = "check" /\ e.side = side
    <3>1. ChecksOf(out, side) = ChecksOf(es, side) \union {p}
        BY <1>2, <2>1
    <3>2. Cardinality(ChecksOf(es, side) \union {p}) = Cardinality(ChecksOf(es, side)) + 1
        BY <1>2, FS_AddElement
    <3> QED BY <2>1, <3>1, <3>2
  <2>2. CASE ~(e.type = "check" /\ e.side = side)
    <3>1. ChecksOf(out, side) = ChecksOf(es, side)
        BY <1>2, <2>2
    <3> QED BY <1>2, <2>2, <3>1
  <2> QED BY <2>1, <2>2
<1>4. \A n \in DOMAIN out : out[n].type = "start" <=> n = 1 /\ out[n].type \notin Final
    BY <1>1 DEF WellFormed
<1>5. \A n \in DOMAIN out : out[n].type \in Final => n = Len(out)
    BY <1>1 DEF WellFormed
<1>6. ASSUME NEW side \in Sides, NEW n \in ChecksOf(out, side)
      PROVE  out[n].completed = Rank(ChecksOf(out, side), n)
  <2>1. CASE n \in ChecksOf(es, side)
    <3>1. es[n].completed = Rank(ChecksOf(es, side), n) /\ n \in DOMAIN es
        BY <1>2, <2>1 DEF WellFormed
    <3>2. {m \in ChecksOf(out, side) : m <= n} = {m \in ChecksOf(es, side) : m <= n}
      <4>1. n \in Nat /\ p \in Nat /\ n < p
          BY <1>1, <3>1
      <4>2. ~(p <= n)
          BY <4>1
      <4> QED BY <1>2, <4>2
    <3> QED BY <1>1, <3>1, <3>2 DEF Rank
  <2>2. CASE n \notin ChecksOf(es, side)
    <3>1. e.type = "check" /\ e.side = side /\ n = p
        BY <1>2, <2>2
    <3>2. {m \in ChecksOf(out, side) : m <= n} = ChecksOf(out, side)
      <4>1. \A m \in ChecksOf(out, side) : m \in 1..p
          BY <1>1 DEF ChecksOf
      <4>2. \A m \in ChecksOf(out, side) : m <= n
          BY <1>1, <3>1, <4>1
      <4> QED BY <4>2
    <3> QED BY <1>1, <1>3, <3>1, <3>2 DEF Rank
  <2> QED BY <2>1, <2>2
<1>7. \A n \in ChecksOf(out, "thread") : \A m \in ChecksOf(out, "main") : n < m
  <2> SUFFICES ASSUME NEW n \in ChecksOf(out, "thread"), NEW m \in ChecksOf(out, "main")
               PROVE  n < m
      OBVIOUS
  <2>1. CASE m \in ChecksOf(es, "main")
    <3>1. n \in ChecksOf(es, "thread")
        BY <1>2, <2>1
    <3> QED BY <2>1, <3>1 DEF WellFormed
  <2>2. CASE m \notin ChecksOf(es, "main")
    <3>1. m = p /\ e.side = "main"
        BY <1>2, <2>2
    <3>2. n \in DOMAIN es
        BY <1>2, <3>1
    <3> QED BY <1>1, <3>1, <3>2
  <2> QED BY <2>1, <2>2
<1>11. \A n \in DOMAIN out : out[n].emitted \/ out[n].type \in {"check", "complete"}
    BY <1>1 DEF WellFormed
<1>8. WellFormed(out)
    BY <1>4, <1>5, <1>6, <1>7, <1>11 DEF WellFormed
<1>9. out # <<>>
    BY <1>1
<1>10. e.type \notin Final => \A n \in DOMAIN out : out[n].type \notin Final
    BY <1>1
<1> QED BY <1>1, <1>3, <1>8, <1>9, <1>10 DEF out

(* The progress callback, while somebody reads: "start" when nothing has    *)
(* been said, then the progress.                                            *)
LEMMA CheckShown ==
    ASSUME StreamInv, client, NEW side \in Sides, NEW k, k = Shown(side) + 1, Check(side, k),
           side = "thread" => ChecksOf(events, "main") = {}
    PROVE  /\ events' \in Seq(Event) /\ WellFormed(events)' /\ events' # <<>> /\ announced'
           /\ \A n \in DOMAIN events' : events'[n].type \notin Final
           /\ \A other \in Sides :
                  Shown(other)' = Shown(other) + (IF other = side THEN 1 ELSE 0)
<1>12. PICK fits \in BOOLEAN :
          LET start == [type |-> "start", emitted |-> TRUE]
              check == [type |-> "check", side |-> side, completed |-> k, emitted |-> fits]
          IN  announced' = TRUE /\ Send(IF announced THEN <<check>> ELSE <<start, check>>)
    BY DEF Check
<1> DEFINE start == [type |-> "start", emitted |-> TRUE]
           check == [type |-> "check", side |-> side, completed |-> k, emitted |-> fits]
           base  == IF announced THEN events ELSE Append(events, start)
<1>0. /\ events \in Seq(Event) /\ WellFormed(events)
      /\ announced <=> events # <<>>
      /\ \A n \in DOMAIN events : events[n].type \notin Final
    BY DEF StreamInv, StreamTyped, StreamWellFormed, Read, Going
<1>1. Shown(side) \in Nat
    BY <1>0, ChecksCounted DEF Shown
<1>2. /\ start \in Event /\ start.type = "start" /\ check \in Event /\ check.type = "check"
      /\ check.side = side /\ check.completed = k /\ start.emitted
      /\ start.type \notin Final /\ check.type \notin Final
    BY <1>1 DEF Event, Final
<1>3. announced' /\ events' = Append(base, check)
  <2>1. announced => events' = Append(events, check)
      BY <1>0, <1>12 DEF Send
  <2>2. ~announced => events' = events \o <<start, check>> /\ events = <<>>
      BY <1>0, <1>12 DEF Send
  <2> HIDE DEF start, check
  <2>3. <<>> \o <<start, check>> = Append(Append(<<>>, start), check)
      OBVIOUS
  <2> QED BY <1>12, <2>1, <2>2, <2>3
<1> HIDE DEF start, check
<1>4. /\ base \in Seq(Event) /\ WellFormed(base) /\ base # <<>>
      /\ Going(base)
      /\ \A other \in Sides : Cardinality(ChecksOf(base, other)) = Shown(other)
  <2>1. CASE announced
      BY <1>0, <2>1 DEF Shown, Going
  <2>2. CASE ~announced
    <3>1. base = Append(events, start) /\ events = <<>>
        BY <1>0, <2>2
    <3>2. Follows(events, start) /\ \A other : Adds(start, other) = 0
        BY <1>0, <1>2, <3>1 DEF Follows, Adds, Going
    <3>3. /\ base \in Seq(Event) /\ WellFormed(base) /\ base # <<>> /\ Going(base)
          /\ \A other \in Sides :
                 Cardinality(ChecksOf(base, other)) =
                     Cardinality(ChecksOf(events, other)) + Adds(start, other)
      <4> HIDE DEF base
      <4> QED BY <1>0, <1>2, <3>1, <3>2, Appended
    <3>4. \A other : Cardinality(ChecksOf(events, other)) \in Nat
        BY <1>0, ChecksCounted
    <3> QED BY <3>2, <3>3, <3>4 DEF Shown
  <2> QED BY <2>1, <2>2
<1>5. side = "thread" => ChecksOf(base, "main") = {}
    BY <1>0, <1>2 DEF ChecksOf
<1> HIDE DEF base
<1>6. /\ events' \in Seq(Event) /\ WellFormed(events') /\ events' # <<>> /\ Going(events')
      /\ \A other \in Sides :
             Cardinality(ChecksOf(events', other)) =
                 Cardinality(ChecksOf(base, other)) + Adds(check, other)
  <2>1. Follows(base, check)
      BY <1>2, <1>4, <1>5 DEF Follows
  <2> QED BY <1>2, <1>3, <1>4, <2>1, Appended
<1>7. WellFormed(events)' /\ \A other : Shown(other)' = Cardinality(ChecksOf(events', other))
    BY <1>6 DEF WellFormed, Shown, ChecksOf
<1>8. \A other : Adds(check, other) = IF other = side THEN 1 ELSE 0
    BY <1>2 DEF Adds
<1> QED BY <1>3, <1>4, <1>6, <1>7, <1>8 DEF Going

(* What the analysers have completed, on a side.                            *)
LEMMA CompletedCount ==
    ASSUME StreamTyped, NEW side \in Sides
    PROVE  Completed(side) \in Nat
<1>1. {a \in Analyzers : at[side][a] = "done"} \in SUBSET Analyzers
    OBVIOUS
<1> QED BY <1>1, FS_Subset, FS_CardinalityType, StreamAssumption DEF Completed

LEMMA OneMore ==
    ASSUME StreamTyped, NEW side \in Sides, NEW a \in Analyzers, at[side][a] # "done",
           at' = [at EXCEPT ![side][a] = "done"]
    PROVE  /\ Completed(side)' = Completed(side) + 1
           /\ \A other \in Sides : other # side => Completed(other)' = Completed(other)
           /\ at' \in [Sides -> [Analyzers -> Stages]]
<1> DEFINE done(f) == {b \in Analyzers : f[b] = "done"}
<1>1. at[side] \in [Analyzers -> Stages]
    BY DEF StreamTyped
<1>2. at'[side] = [at[side] EXCEPT ![a] = "done"]
      /\ \A other \in Sides : other # side => at'[other] = at[other]
    BY DEF StreamTyped
<1>3. at' \in [Sides -> [Analyzers -> Stages]]
    BY <1>1 DEF StreamTyped, Stages
<1>4. done(at'[side]) = done(at[side]) \union {a} /\ a \notin done(at[side])
    BY <1>1, <1>2
<1>5. done(at[side]) \in SUBSET Analyzers
    OBVIOUS
<1>6. IsFiniteSet(done(at[side]))
    BY <1>5, FS_Subset, StreamAssumption
<1> HIDE DEF done
<1>7. Cardinality(done(at[side]) \union {a}) = Cardinality(done(at[side])) + 1
    BY <1>4, <1>6, FS_AddElement
<1>8. /\ \A other : Completed(other) = Cardinality(done(at[other]))
      /\ \A other : Completed(other)' = Cardinality(done(at'[other]))
    BY DEF Completed, done
<1> QED BY <1>2, <1>3, <1>4, <1>7, <1>8

LEMMA NoneMore ==
    ASSUME \A side \in Sides : \A a \in Analyzers : at'[side][a] = "done" <=> at[side][a] = "done"
    PROVE  \A side \in Sides : Completed(side)' = Completed(side)
<1> TAKE side \in Sides
<1>1. {a \in Analyzers : at'[side][a] = "done"} = {a \in Analyzers : at[side][a] = "done"}
    OBVIOUS
<1> QED BY <1>1 DEF Completed

LEMMA StreamStarts == Init => StreamInv
<1> SUFFICES ASSUME Init PROVE StreamInv
    OBVIOUS
<1>1. events = <<>> /\ progress = <<>> /\ ~announced /\ ~open /\ runner = "fetching" /\ thread = "none"
    BY DEF Init
<1>2. <<>> \in Seq(Event) /\ <<>> \in Seq(Nat) /\ DOMAIN <<>> = {}
    OBVIOUS
<1>3. StreamTyped
    BY <1>1, <1>2 DEF StreamTyped, Init, Stages
<1>4. \A side \in Sides : {a \in Analyzers : at[side][a] = "done"} = {}
    BY DEF Init
<1>5. \A side \in Sides : Completed(side) = 0
    BY <1>4, FS_EmptySet DEF Completed
<1>6. \A side : ChecksOf(<<>>, side) = {}
    BY <1>2 DEF ChecksOf
<1>7. \A side : Shown(side) = 0
    BY <1>1, <1>6, FS_EmptySet DEF Shown
<1>8. WellFormed(<<>>)
    BY <1>2, <1>6 DEF WellFormed
<1>9. Going(<<>>) /\ "main" \in Sides /\ "thread" \in Sides
    BY <1>2 DEF Going, Sides
<1> QED BY <1>1, <1>3, <1>5, <1>7, <1>8, <1>9
        DEF StreamInv, StreamWellFormed, Read, OnItsWay, Turns

(* What the stream and the channel say stays when they and the counts do.   *)
LEMMA StreamKept ==
    ASSUME StreamInv, UNCHANGED <<events, announced, progress>>,
           at' \in [Sides -> [Analyzers -> Stages]],
           \A side \in Sides : \A a \in Analyzers :
               at'[side][a] = "done" <=> at[side][a] = "done",
           client' => client, open' => open, Turns'
    PROVE  StreamInv'
<1>1. Completed("main")' = Completed("main") /\ Completed("thread")' = Completed("thread")
    BY NoneMore DEF Sides
<1>2. \A side : Shown(side)' = Shown(side)
    BY DEF Shown, ChecksOf
<1>3. (WellFormed(events) => WellFormed(events)') /\ (Going(events) => Going(events)')
    BY DEF WellFormed, Going, ChecksOf
<1> QED BY <1>1, <1>2, <1>3 DEF StreamInv, StreamTyped, StreamWellFormed, Read, OnItsWay

LEMMA TurnsKept ==
    ASSUME Turns, UNCHANGED <<runner, open, progress, events>>,
           Completed("main")' = Completed("main"), Completed("thread")' = Completed("thread"),
           thread' = thread \/ runner # "fetching"
    PROVE  Turns'
BY DEF Turns

(* The last event of a stream, and the end of the writer.                   *)
LEMMA LastShown ==
    ASSUME StreamInv, NEW e \in Event, e.type \in Final, Send(<<e>>), ~client', ~open',
           e.emitted \/ e.type = "complete",
           progress' = progress, at' = at, Turns'
    PROVE  StreamInv'
<1>0. StreamTyped /\ WellFormed(events)
    BY DEF StreamInv, StreamWellFormed
<1>1. CASE client
  <2>1. events' = Append(events, e)
    <3>1. events' = events \o <<e>>
        BY <1>1 DEF Send
    <3> QED BY <1>0, <3>1, AppendIsConcat DEF StreamTyped
  <2>2. Follows(events, e)
      BY <1>1 DEF Follows, StreamInv, Read, Final
  <2>3. events' \in Seq(Event) /\ WellFormed(events')
      BY <1>0, <2>1, <2>2, Appended DEF StreamTyped
  <2>4. WellFormed(events)'
      BY <2>3 DEF WellFormed, ChecksOf
  <2> QED BY <1>0, <2>3, <2>4 DEF StreamInv, StreamTyped, StreamWellFormed, Read, OnItsWay
<1>2. CASE ~client
  <2>1. events' = events
      BY <1>2 DEF Send
  <2>2. WellFormed(events)'
      BY <1>0, <2>1 DEF WellFormed, ChecksOf
  <2> QED BY <1>0, <2>1, <2>2 DEF StreamInv, StreamTyped, StreamWellFormed, Read, OnItsWay
<1> QED BY <1>1, <1>2

(* The main process receives the next progress of the thread: it is the one *)
(* the client has not seen.                                                 *)
LEMMA ProgressShown == ASSUME StreamInv, Progress PROVE StreamInv'
<1>0. /\ open /\ progress # <<>> /\ progress' = Tail(progress) /\ Check("thread", Head(progress))
      /\ UNCHANGED <<runner, thread, at, open, client>>
      /\ StreamTyped /\ WellFormed(events) /\ runner = "pool"
    BY DEF Progress, StreamInv, Turns, StreamWellFormed
<1>1. /\ Head(progress) = progress[1] /\ 1 \in DOMAIN progress /\ progress' \in Seq(Nat)
      /\ Len(progress') = Len(progress) - 1 /\ Len(progress) \in Nat
      /\ \A n \in DOMAIN progress' : n + 1 \in DOMAIN progress /\ progress'[n] = progress[n + 1]
                                     /\ n \in Nat
    BY <1>0 DEF StreamTyped
<1>2. Completed("main")' = Completed("main") /\ Completed("thread")' = Completed("thread")
      /\ "main" \in Sides /\ "thread" \in Sides
    BY <1>0, NoneMore DEF Sides
<1>3. Turns'
    BY <1>0, <1>2 DEF StreamInv, Turns
<1>4. CASE client
  <2>1. /\ Shown("thread") + 1 = Head(progress)
        /\ \A n \in DOMAIN progress : progress[n] = Shown("thread") + n
        /\ Shown("thread") + Len(progress) = Completed("thread")
      BY <1>0, <1>1, <1>4 DEF StreamInv, OnItsWay
  <2>2. ChecksOf(events, "main") = {}
    <3>1. Cardinality(ChecksOf(events, "main")) = 0
        BY <1>0, <1>4 DEF StreamInv, Read, Turns, Shown
    <3> QED BY <1>0, <3>1, ChecksCounted, FS_EmptySet DEF StreamTyped
  <2>3. /\ events' \in Seq(Event) /\ WellFormed(events)' /\ events' # <<>> /\ announced'
        /\ \A n \in DOMAIN events' : events'[n].type \notin Final
        /\ \A other \in Sides :
               Shown(other)' = Shown(other) + (IF other = "thread" THEN 1 ELSE 0)
      BY <1>0, <1>2, <1>4, <2>1, <2>2, CheckShown
  <2>4. Shown("thread")' = Shown("thread") + 1 /\ Shown("main")' = Shown("main") + 0
      BY <1>2, <2>3
  <2>5. \A side : Shown(side) \in Nat
      BY <1>0, ChecksCounted DEF Shown, StreamTyped
  <2>6. Read'
      BY <1>2, <1>4, <2>3, <2>4, <2>5 DEF StreamInv, Read, Going
  <2>7. OnItsWay'
    <3>1. \A n \in DOMAIN progress' : progress'[n] = Shown("thread") + 1 + n
      <4> TAKE n \in DOMAIN progress'
      <4>1. progress'[n] = Shown("thread") + (n + 1)
          BY <1>1, <2>1
      <4> QED BY <1>1, <2>5, <4>1
    <3>2. Shown("thread") + 1 + Len(progress') = Completed("thread")
      <4>1. Len(progress') = Len(progress) - 1 /\ Len(progress) \in Nat
          BY <1>1
      <4>2. Shown("thread") + Len(progress) = Completed("thread") /\ Shown("thread") \in Nat
          BY <2>1, <2>5
      <4> QED BY <4>1, <4>2
    <3> QED BY <1>2, <2>4, <3>1, <3>2 DEF OnItsWay
  <2> QED BY <1>0, <1>1, <1>3, <2>3, <2>6, <2>7 DEF StreamInv, StreamTyped, StreamWellFormed
<1>5. CASE ~client
  <2>1. events' = events
      BY <1>0, <1>5 DEF Check, Send
  <2>2. WellFormed(events)'
      BY <1>0, <2>1 DEF WellFormed, ChecksOf
  <2> QED BY <1>0, <1>1, <1>3, <1>5, <2>1, <2>2
          DEF StreamInv, StreamTyped, StreamWellFormed, Read, OnItsWay
<1> QED BY <1>4, <1>5

(* The fallback shows what it completes.                                    *)
LEMMA InlineShown == ASSUME StreamInv, NEW a \in Analyzers, InlineCompletes(a) PROVE StreamInv'
<1>0. /\ runner = "inline" /\ Check("main", Completed("main") + 1)
      /\ UNCHANGED <<runner, thread, open, client, progress>>
      /\ at' = [at EXCEPT !["main"][a] = "done"] /\ at["main"][a] # "done"
      /\ StreamTyped /\ WellFormed(events) /\ ~open /\ ~open'
    BY DEF InlineCompletes, StreamInv, Turns, StreamWellFormed
<1>1. "main" \in Sides /\ "thread" \in Sides
    BY DEF Sides
<1>2. Completed("main")' = Completed("main") + 1 /\ at' \in [Sides -> [Analyzers -> Stages]]
    BY <1>0, <1>1, OneMore
<1>3. Turns'
    BY <1>0 DEF Turns
<1>4. CASE client
  <2>1. Shown("main") = Completed("main")
      BY <1>4 DEF StreamInv, Read
  <2>2. /\ events' \in Seq(Event) /\ WellFormed(events)' /\ events' # <<>> /\ announced'
        /\ \A n \in DOMAIN events' : events'[n].type \notin Final
        /\ \A other \in Sides :
               Shown(other)' = Shown(other) + (IF other = "main" THEN 1 ELSE 0)
    <3>1. Completed("main") + 1 = Shown("main") + 1
        BY <2>1
    <3> QED BY <1>0, <1>1, <1>4, <3>1, CheckShown
  <2>3. Shown("main")' = Completed("main")'
      BY <1>1, <1>2, <2>1, <2>2
  <2> QED BY <1>0, <1>2, <1>3, <2>2, <2>3
          DEF StreamInv, StreamTyped, StreamWellFormed, Read, OnItsWay, Going
<1>5. CASE ~client
  <2>1. events' = events
      BY <1>0, <1>5 DEF Check, Send
  <2>2. WellFormed(events)'
      BY <1>0, <2>1 DEF WellFormed, ChecksOf
  <2> QED BY <1>0, <1>2, <1>3, <1>5, <2>1, <2>2
          DEF StreamInv, StreamTyped, StreamWellFormed, Read, OnItsWay
<1> QED BY <1>4, <1>5

(* An analyser of the thread puts what it completes in the channel.         *)
LEMMA ThreadShown == ASSUME StreamInv, NEW a \in Analyzers, ThreadCompletes(a) PROVE StreamInv'
<1>0. /\ thread = "running" /\ at' = [at EXCEPT !["thread"][a] = "done"]
      /\ at["thread"][a] # "done"
      /\ progress' = IF open THEN Append(progress, Completed("thread") + 1) ELSE progress
      /\ UNCHANGED <<thread, open, runner, events, announced, client>>
      /\ StreamTyped /\ WellFormed(events) /\ runner # "fetching"
    BY DEF ThreadCompletes, mainVars, StreamInv, Turns, StreamWellFormed
<1>1. "main" \in Sides /\ "thread" \in Sides
    BY DEF Sides
<1>2. /\ Completed("thread")' = Completed("thread") + 1 /\ Completed("main")' = Completed("main")
      /\ at' \in [Sides -> [Analyzers -> Stages]] /\ Completed("thread") \in Nat
    BY <1>0, <1>1, OneMore, CompletedCount
<1>3. Turns'
    BY <1>0, <1>2 DEF StreamInv, Turns
<1>4. (\A side : Shown(side)' = Shown(side)) /\ WellFormed(events)' /\ (Going(events) => Going(events)')
    BY <1>0 DEF Shown, ChecksOf, WellFormed, Going
<1>5. Read'
    BY <1>0, <1>2, <1>4 DEF StreamInv, Read
<1>6. progress' \in Seq(Nat)
    BY <1>0, <1>2 DEF StreamTyped
<1>7. OnItsWay'
  <2> SUFFICES ASSUME client, open
               PROVE  /\ Shown("thread") + Len(progress') = Completed("thread") + 1
                      /\ \A n \in DOMAIN progress' : progress'[n] = Shown("thread") + n
      BY <1>0, <1>2, <1>4 DEF OnItsWay
  <2>1. /\ Shown("thread") + Len(progress) = Completed("thread")
        /\ \A n \in DOMAIN progress : progress[n] = Shown("thread") + n
      BY DEF StreamInv, OnItsWay
  <2>2. /\ Len(progress') = Len(progress) + 1 /\ Len(progress) \in Nat
        /\ progress'[Len(progress) + 1] = Completed("thread") + 1
        /\ \A n \in DOMAIN progress' :
               n = Len(progress) + 1 \/ (n \in DOMAIN progress /\ progress'[n] = progress[n])
    <3>1. progress \in Seq(Nat) /\ Completed("thread") + 1 \in Nat
        BY <1>0, <1>2 DEF StreamTyped
    <3> DEFINE next == Completed("thread") + 1
    <3>2. progress' = Append(progress, next) /\ next = Completed("thread") + 1
        BY <1>0
    <3> HIDE DEF next
    <3>3. /\ Len(Append(progress, next)) = Len(progress) + 1 /\ Len(progress) \in Nat
          /\ Append(progress, next)[Len(progress) + 1] = next
          /\ \A n \in DOMAIN Append(progress, next) :
                 \/ n = Len(progress) + 1
                 \/ n \in DOMAIN progress /\ Append(progress, next)[n] = progress[n]
        BY <3>1 DEF next
    <3>4. \A n \in DOMAIN progress' :
              n = Len(progress) + 1 \/ (n \in DOMAIN progress /\ progress'[n] = progress[n])
        BY <3>2, <3>3
    <3>5. /\ Len(progress') = Len(progress) + 1 /\ Len(progress) \in Nat
          /\ progress'[Len(progress) + 1] = Completed("thread") + 1
        BY <3>2, <3>3
    <3> QED BY <3>4, <3>5
  <2>3. Shown("thread") \in Nat
      BY <1>0, ChecksCounted DEF Shown, StreamTyped
  <2>4. Shown("thread") + Len(progress') = Completed("thread") + 1
    <3>1. Len(progress') = Len(progress) + 1 /\ Len(progress) \in Nat
        BY <2>2
    <3>2. Shown("thread") + Len(progress) = Completed("thread")
        BY <2>1
    <3> QED BY <2>3, <3>1, <3>2
  <2>5. ASSUME NEW n \in DOMAIN progress' PROVE progress'[n] = Shown("thread") + n
    <3>1. CASE n = Len(progress) + 1
      <4>1. progress'[n] = Completed("thread") + 1 /\ Len(progress) \in Nat
          BY <2>2, <3>1
      <4>2. Shown("thread") + Len(progress) = Completed("thread")
          BY <2>1
      <4> QED BY <2>3, <3>1, <4>1, <4>2
    <3>2. CASE n \in DOMAIN progress /\ progress'[n] = progress[n]
        BY <2>1, <3>2
    <3> QED BY <2>2, <3>1, <3>2
  <2> QED BY <2>4, <2>5
<1> QED BY <1>0, <1>2, <1>3, <1>4, <1>5, <1>6, <1>7 DEF StreamInv, StreamTyped, StreamWellFormed

(* The page goes to the pool, with its channels, or to the main thread.     *)
LEMMA FetchedShown == ASSUME StreamInv, Fetched PROVE StreamInv'
<1>0. /\ runner = "fetching" /\ UNCHANGED <<at, progress, events, announced, client>>
      /\ \/ runner' = "inline" /\ UNCHANGED <<thread, open>>
         \/ runner' = "pool" /\ open' /\ thread' = "running"
      /\ events = <<>> /\ progress = <<>> /\ ~open
      /\ Completed("thread") = 0 /\ Completed("main") = 0 /\ StreamTyped
    BY DEF Fetched, StreamInv, Turns
<1>1. Completed("main")' = 0 /\ Completed("thread")' = 0
    BY <1>0, NoneMore DEF Sides
<1>2. Turns'
    BY <1>0, <1>1 DEF Turns
<1>3. Shown("thread")' = 0
  <2>1. ChecksOf(<<>>, "thread") = {}
      BY DEF ChecksOf
  <2> QED BY <1>0, <2>1, FS_EmptySet DEF Shown
<1>4. (\A side : Shown(side)' = Shown(side)) /\ (WellFormed(events) => WellFormed(events)')
      /\ (Going(events) => Going(events)')
    BY <1>0 DEF Shown, ChecksOf, WellFormed, Going
<1>5. Read'
    BY <1>0, <1>1, <1>4 DEF StreamInv, Read
<1>6. OnItsWay'
    BY <1>0, <1>1, <1>3 DEF OnItsWay
<1> QED BY <1>0, <1>2, <1>4, <1>5, <1>6 DEF StreamInv, StreamTyped, StreamWellFormed

LEMMA StreamSteps == RpcInv /\ StreamInv /\ [Next]_vars => StreamInv'
<1> SUFFICES ASSUME RpcInv, StreamInv, [Next]_vars PROVE StreamInv'
    OBVIOUS
<1>0. Turns /\ at \in [Sides -> [Analyzers -> Stages]] /\ "thread" \in Sides /\ "main" \in Sides
    BY DEF StreamInv, StreamTyped, Sides
<1>1. CASE Serve \/ (\E r \in serving : EngineEnds(r)) \/ ThreadReturns \/ ThreadDies
           \/ UNCHANGED vars
  <2>1. /\ UNCHANGED <<events, announced, progress, at, client, open, runner>>
        /\ thread' = thread \/ thread = "running"
      BY <1>1 DEF Serve, EngineEnds, Reply, ThreadReturns, ThreadDies, mainVars, vars
  <2>2. Completed("main")' = Completed("main") /\ Completed("thread")' = Completed("thread")
      BY <2>1, NoneMore DEF Sides
  <2>3. Turns'
      BY <1>0, <2>1, <2>2, TurnsKept DEF Turns
  <2> QED BY <1>0, <2>1, <2>3, StreamKept
<1>2. CASE Receive \/ SeesClose \/ \E a \in Analyzers : Ask(a)
  <2>1. UNCHANGED <<events, announced, progress, client, open, runner, thread>>
      BY <1>2 DEF Receive, SeesClose, Ask, mainVars
  <2>2. /\ at' \in [Sides -> [Analyzers -> Stages]]
        /\ \A side \in Sides : \A a \in Analyzers : at'[side][a] = "done" <=> at[side][a] = "done"
    <3>1. CASE \E a \in Analyzers : Ask(a)
      <4>1. PICK a \in Analyzers, stage \in {"answered", "asking"} :
                at["thread"][a] = "ready" /\ at' = [at EXCEPT !["thread"][a] = stage]
          BY <3>1 DEF Ask
      <4>2. at["thread"] \in [Analyzers -> Stages]
          BY <1>0
      <4> QED BY <1>0, <4>1, <4>2 DEF Stages
    <3>2. CASE Receive \/ SeesClose
      <4>1. PICK settled \in SUBSET pending : \E payload : Settle(settled, payload)
        <5>1. pending \in SUBSET pending /\ \A i : {p \in pending : p.id = i} \in SUBSET pending
            OBVIOUS
        <5> QED BY <3>2, <5>1 DEF Receive, SeesClose
      <4> DEFINE askers == {p.asker : p \in settled}
                 moved == [a \in Analyzers |-> IF a \in askers THEN "answered"
                                               ELSE at["thread"][a]]
      <4>2. at' = [at EXCEPT !["thread"] = moved]
          BY <4>1 DEF Settle
      <4>3. \A a \in askers : at["thread"][a] = "asking"
          BY DEF RpcInv, RpcTyped, PendingAsks, Asked
      <4>4. at["thread"] \in [Analyzers -> Stages]
          BY <1>0
      <4>5. /\ moved \in [Analyzers -> Stages]
            /\ \A a \in Analyzers : moved[a] = "done" <=> at["thread"][a] = "done"
          BY <4>3, <4>4 DEF Stages
      <4> HIDE DEF moved
      <4> QED BY <1>0, <4>2, <4>5
    <3> QED BY <1>2, <3>1, <3>2
  <2>3. Completed("main")' = Completed("main") /\ Completed("thread")' = Completed("thread")
      BY <1>0, <2>2, NoneMore
  <2>4. Turns'
      BY <1>0, <2>1, <2>3, TurnsKept
  <2> QED BY <2>1, <2>2, <2>4, StreamKept
<1>3. CASE Leave \/ InlineReturns
  <2>1. /\ UNCHANGED <<events, announced, progress, at, open, thread>>
        /\ client' => client
        /\ runner' = runner \/ (runner = "inline" /\ runner' = "recording")
    <3>1. CASE Leave
      <4>1. UNCHANGED <<events, announced, progress, at, open, thread, runner>> /\ client
          BY <3>1 DEF Leave
      <4> QED BY <4>1
    <3>2. CASE InlineReturns
        BY <3>2 DEF InlineReturns, rpcVars
    <3> QED BY <1>3, <3>1, <3>2
  <2>2. Completed("main")' = Completed("main") /\ Completed("thread")' = Completed("thread")
      BY <2>1, NoneMore DEF Sides
  <2>3. Turns'
      BY <1>0, <2>1, <2>2 DEF Turns
  <2> QED BY <1>0, <2>1, <2>3, StreamKept
<1>4. CASE PoolResolves \/ PoolRejects
  <2>1. /\ UNCHANGED <<events, announced, at, client, thread>>
        /\ ~open' /\ progress' = <<>> /\ runner' \in {"inline", "recording"}
      BY <1>4 DEF PoolResolves, PoolRejects, CloseChannels
  <2>2. Completed("main")' = Completed("main")
      BY <2>1, NoneMore DEF Sides
  <2>3. Turns' /\ OnItsWay'
      BY <2>1 DEF Turns, OnItsWay
  <2>4. Shown("main")' = Shown("main") /\ (WellFormed(events) => WellFormed(events)')
        /\ (Going(events) => Going(events)')
      BY <2>1 DEF Shown, ChecksOf, WellFormed, Going
  <2>5. Read' /\ StreamWellFormed'
      BY <2>1, <2>2, <2>4 DEF StreamInv, Read, StreamWellFormed
  <2>6. StreamTyped'
      BY <2>1 DEF StreamInv, StreamTyped
  <2> QED BY <2>3, <2>5, <2>6 DEF StreamInv
<1>5. CASE FetchFails \/ Recorded
  <2>1. PICK type \in Final, fits \in BOOLEAN :
            /\ fits \/ type = "complete"
            /\ Send(<<[type |-> type, emitted |-> fits]>>)
      BY <1>5 DEF FetchFails, Recorded, Final
  <2>2. /\ ~client' /\ runner' = "ended" /\ UNCHANGED <<at, open, progress>>
        /\ runner \in {"fetching", "recording"}
      BY <1>5 DEF FetchFails, Recorded
  <2>3. Turns' /\ ~open'
      BY <1>0, <2>2 DEF Turns
  <2> DEFINE e == [type |-> type, emitted |-> fits]
  <2>4. e \in Event /\ e.type \in Final /\ (e.emitted \/ e.type = "complete")
      BY <2>1 DEF Event
  <2> QED BY <2>1, <2>2, <2>3, <2>4, LastShown
<1> QED BY <1>1, <1>2, <1>3, <1>4, <1>5, ProgressShown, InlineShown, ThreadShown, FetchedShown
        DEF Next, ThreadStep, MainStep

(* The stream of one analysis is well formed, whatever dies, whatever the   *)
(* messages of the two channels overtake, and whatever the schema refuses:  *)
(* "start" once and first, each side's checks told or logged under their    *)
(* numbers from 1, the fallback's after the thread's, one last event, which *)
(* is lost only when it is a report (analysis.controller.ts:115,            *)
(* analysis-runner.service.ts:97, sse-writer.ts:64).                        *)
THEOREM StreamStaysWellFormed == Spec => []StreamWellFormed
<1>1. StreamInv => StreamWellFormed
    BY DEF StreamInv
<1> QED BY <1>1, StreamStarts, StreamSteps, RpcStarts, RpcSteps, PTL DEF Spec
=============================================================================
