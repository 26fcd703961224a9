-------------------------- MODULE AnalysisBatch_proofs -----------------------
(****************************************************************************)
(* What AnalysisBatch guarantees for any request, any number of workers and *)
(* any outcome of the pages. The batch is a pool: an address is in the      *)
(* queue, with a worker or among the results, in one of them and once. When *)
(* the workers have ended it can only be among the results, which is why    *)
(* the answer has them all and the counts add up; and as long as the client *)
(* listens, what was written to it is an image of the results.              *)
(****************************************************************************)
EXTENDS AnalysisBatch, TLAPS, FiniteSetTheorems, SequenceTheorems

Start1 == [type |-> "start", emitted |-> TRUE]
Told(n, fits) == [type |-> "page", url |-> results[n].url, ok |-> results[n].ok,
                  completed |-> n, emitted |-> fits]
(* An event tells page n: written, or refused, which only a report can be.  *)
Tells(e, n) == \E fits \in BOOLEAN : (results[n].ok \/ fits) /\ e = Told(n, fits)
Succeeded == Cardinality({n \in DOMAIN results : results[n].ok})
Complete == [type |-> "complete", total |-> Len(Pages), succeeded |-> Succeeded,
             failed |-> Len(results) - Succeeded, emitted |-> TRUE]
Event == {Start1}
         \union [type : {"page"}, url : Urls, ok : BOOLEAN, completed : Nat,
                 emitted : BOOLEAN]
         \union [type : {"complete"}, total : Nat, succeeded : Nat, failed : Int,
                 emitted : {TRUE}]

(* The queue is the end of the list of pages.                               *)
QueueIsRest ==
    /\ Len(queue) <= Len(Pages)
    /\ \A k \in DOMAIN queue : queue[k] = Pages[Len(Pages) - Len(queue) + k]

(* Nobody works before the start nor after the gathering, and no worker     *)
(* stops while an address waits.                                            *)
PhasesKept ==
    /\ phase = "called" => /\ queue = Pages /\ results = <<>>
    /\ phase # "running" => AllEnded
    /\ phase # "called" /\ queue # <<>> => \A w \in Workers : working[w] # None
    /\ phase = "returned" => ~client

ResultsOnce == \A n, m \in DOMAIN results : results[n].url = results[m].url => n = m

(* What was sent follows the results, as long as the client is there.       *)
EventsMirror ==
    /\ events \in Seq(Event)
    /\ events # <<>> => events[1] = Start1
    /\ \A n \in DOMAIN results : n + 1 \in DOMAIN events => Tells(events[n + 1], n)
    /\ \/ Len(events) <= Len(results) + 1
       \/ phase = "returned" /\ Len(events) = Len(results) + 2 /\ events[Len(events)] = Complete
    /\ client => Len(events) = IF results = <<>> THEN 0 ELSE Len(results) + 1

AnswerMade ==
    answer # None =>
        /\ phase = "returned"
        /\ answer = [total |-> Len(Pages), succeeded |-> Succeeded,
                     failed |-> Len(results) - Succeeded,
                     results |-> OrderByRequest(results, Pages)]

BatchInv == TypeOK /\ QueueIsRest /\ Pool!EachJobOnce /\ PhasesKept /\ ResultsOnce
            /\ EventsMirror /\ AnswerMade

(* The pages: the addresses asked for, once each.                           *)
LEMMA PagesFacts ==
    /\ Pages \in Seq(Urls) /\ ToSet(Pages) = Urls /\ Pages # <<>>
    /\ \A k, l \in DOMAIN Pages : Pages[k] = Pages[l] => k = l
    /\ Len(Pages) \in Nat \ {0} /\ DOMAIN Pages = 1..Len(Pages) /\ None \notin Urls
    /\ Workers # {} /\ Cardinality(Urls) = Len(Pages)
<1>1. /\ Pages \in Seq(Urls) /\ ToSet(Pages) = Urls /\ Pages # <<>>
      /\ \A k, l \in DOMAIN Pages : Pages[k] = Pages[l] => k = l
    BY BatchAssumption, DistinctOnce DEF Pages, Urls
<1>2. Len(Pages) \in Nat \ {0} /\ DOMAIN Pages = 1..Len(Pages)
    BY <1>1
<1>3. Cardinality(Urls) = Len(Pages)
    BY <1>1, CountOnce
<1> QED BY <1>1, <1>2, <1>3, BatchAssumption DEF Urls, Workers

(* The queue has no repetition.                                             *)
LEMMA QueueOnce ==
    ASSUME TypeOK, QueueIsRest
    PROVE  \A k, l \in DOMAIN queue : queue[k] = queue[l] => k = l
<1> SUFFICES ASSUME NEW k \in DOMAIN queue, NEW l \in DOMAIN queue, queue[k] = queue[l]
             PROVE  k = l
    OBVIOUS
<1> DEFINE gone == Len(Pages) - Len(queue)
<1>1. Len(queue) \in Nat /\ k \in 1..Len(queue) /\ l \in 1..Len(queue)
    BY DEF TypeOK
<1>2. gone \in Nat /\ gone + k \in DOMAIN Pages /\ gone + l \in DOMAIN Pages
    BY <1>1, PagesFacts DEF QueueIsRest
<1>3. Pages[gone + k] = Pages[gone + l]
    BY DEF QueueIsRest
<1>4. gone + k = gone + l
    BY <1>2, <1>3, PagesFacts
<1> QED BY <1>1, <1>2, <1>4

(* The two moves of a pool keep every job in one place.                     *)
LEMMA HireKeeps ==
    ASSUME Pool!EachJobOnce, Pool!Hire, None \notin Urls,
           working \in [Workers -> Urls \union {None}], ToSet(queue) \subseteq Urls
    PROVE  Pool!EachJobOnce'
<1> DEFINE waits == ToSet(queue)
           done == {results[n].url : n \in DOMAIN results}
<1>0. /\ Pool!Busy = {} /\ done = {} /\ done' = done
      /\ working' \in [Workers -> waits \union {None}]
      /\ \A v, w \in Workers : working'[v] = working'[w] /\ working'[v] # None => v = w
      /\ waits' = {j \in waits : \A w \in Workers : working'[w] # j}
    BY DEF Pool!Hire
<1>4. waits \union {working[v] : v \in Pool!Busy} \union done = Urls
    BY DEF Pool!EachJobOnce
<1> HIDE DEF waits, done
<1>1. waits = Urls
    BY <1>0, <1>4
<1>2. {working'[v] : v \in Pool!Busy'} = {working'[v] : v \in {u \in Workers : working'[u] # None}}
    BY DEF Pool!Busy
<1>3. waits' \union {working'[v] : v \in Pool!Busy'} \union done' = Urls
    BY <1>0, <1>1, <1>2
<1> QED BY <1>0, <1>1, <1>3 DEF Pool!EachJobOnce, Pool!Busy, waits, done

LEMMA TurnKeeps ==
    ASSUME Pool!EachJobOnce, NEW w \in Workers, Pool!Turn(w), None \notin Urls,
           working \in [Workers -> Urls \union {None}], ToSet(queue) \subseteq Urls
    PROVE  Pool!EachJobOnce'
<1> DEFINE waits == ToSet(queue)
           done == {results[n].url : n \in DOMAIN results}
           desks == {working[v] : v \in Pool!Busy}
<1>1. /\ waits \union desks \union done = Urls
      /\ waits \cap done = {}
      /\ \A v \in Workers : working[v] # None => working[v] \notin waits \union done
      /\ \A u, v \in Workers : working[u] # None /\ working[u] = working[v] => u = v
    BY DEF Pool!EachJobOnce, Pool!Busy
<1>2. \A x : x \in desks <=> x # None /\ \E v \in Workers : working[v] = x
    BY DEF Pool!Busy
<1>3. working[w] # None /\ done' = done \union {working[w]}
    BY DEF Pool!Turn
<1>4. PICK j \in waits \union {None} :
          /\ working' = [working EXCEPT ![w] = j] /\ waits' = waits \ {j}
          /\ j \in waits \/ waits = {}
    BY DEF Pool!Turn
<1> HIDE DEF waits, done
<1>5. \A v \in Workers : working'[v] = IF v = w THEN j ELSE working[v]
    BY <1>4
<1>6. \A x : x \in desks' <=> x # None /\ \E v \in Workers : working'[v] = x
    BY DEF Pool!Busy
<1> HIDE DEF desks
<1>7. \A x : x \in desks' <=> x # None /\ (x = j \/ (x \in desks /\ x # working[w]))
    BY <1>1, <1>2, <1>5, <1>6
<1>8. waits \subseteq Urls /\ None \notin waits
    BY DEF waits
<1>9. waits' \union desks' \union done' = Urls /\ waits' \cap done' = {}
    BY <1>1, <1>3, <1>4, <1>7, <1>8
<1>10. /\ \A v \in Workers : working'[v] # None => working'[v] \notin waits' \union done'
       /\ \A u, v \in Workers : working'[u] # None /\ working'[u] = working'[v] => u = v
    BY <1>1, <1>3, <1>4, <1>5, <1>8
<1> QED BY <1>9, <1>10 DEF Pool!EachJobOnce, Pool!Busy, waits, done, desks

(* A worker's end of page, as a turn of the pool.                           *)
LEMMA PageIsTurn ==
    ASSUME BatchInv, NEW w \in Workers, NEW ok \in BOOLEAN, NEW fits \in BOOLEAN, ok \/ fits,
           EndPage(w, ok, fits)
    PROVE  /\ Pool!Turn(w) /\ TypeOK' /\ QueueIsRest'
           /\ working[w] \in Urls /\ phase = "running"
           /\ queue # <<>> => working'[w] # None
           /\ \A v \in Workers \ {w} : working'[v] = working[v]
<1> DEFINE url == working[w]
<1>0. TypeOK /\ QueueIsRest /\ PhasesKept /\ \A v \in Workers : working[v] \in Urls \union {None}
    BY DEF BatchInv, TypeOK
<1>1. url # None /\ url \in Urls /\ phase = "running" /\ UNCHANGED <<phase, client>>
    BY <1>0 DEF EndPage, PhasesKept, AllEnded
<1>2. results' = Append(results, [url |-> url, ok |-> ok]) /\ [url |-> url, ok |-> ok] \in Entry
    BY <1>1 DEF EndPage, Entry
<1>3. /\ results' \in Seq(Entry) /\ DOMAIN results' = DOMAIN results \union {Len(results) + 1}
      /\ \A n \in DOMAIN results : results'[n] = results[n]
      /\ results'[Len(results) + 1].url = url
    BY <1>0, <1>2 DEF TypeOK
<1>4. reports' \in Seq(Urls)
    BY <1>0, <1>1 DEF TypeOK, EndPage
<1>5. gamme' \in {Gamme[u] : u \in Urls} \union {None}
    BY <1>0, <1>1 DEF TypeOK, EndPage
<1>6. {results[n].url : n \in DOMAIN results}' = {results[n].url : n \in DOMAIN results} \union {url}
    BY <1>3
<1>7. CASE queue = <<>>
    <2>1. working' = [working EXCEPT ![w] = None] /\ queue' = queue
        BY <1>7 DEF EndPage
    <2>2. ToSet(queue) = {}
        BY <1>7 DEF ToSet
    <2>3. Pool!Turn(w)
        BY <1>1, <1>6, <2>1, <2>2 DEF Pool!Turn
    <2> QED BY <1>0, <1>1, <1>3, <1>4, <1>5, <1>7, <2>1, <2>3, PagesFacts DEF TypeOK, QueueIsRest
<1>8. CASE queue # <<>>
    <2>1. working' = [working EXCEPT ![w] = Head(queue)] /\ queue' = Tail(queue)
        BY <1>8 DEF EndPage
    <2>2. /\ Head(queue) = queue[1] /\ queue[1] \in Urls /\ queue' \in Seq(Urls)
          /\ Len(queue') = Len(queue) - 1 /\ Len(queue) \in Nat \ {0}
          /\ DOMAIN queue = 1..Len(queue) /\ DOMAIN queue' = 1..Len(queue')
          /\ \A k \in DOMAIN queue' : queue'[k] = queue[k + 1]
        BY <1>0, <1>8, <2>1 DEF TypeOK
    <2>3. ToSet(queue') = ToSet(queue) \ {queue[1]} /\ queue[1] \in ToSet(queue)
        <3>1. \A k \in DOMAIN queue' : queue[k + 1] # queue[1]
            BY <1>0, <2>2, QueueOnce
        <3>2. \A k \in DOMAIN queue : k = 1 \/ (k - 1 \in DOMAIN queue' /\ queue[k] = queue'[k - 1])
            BY <2>2
        <3>3. \A k \in DOMAIN queue' : k + 1 \in DOMAIN queue
            BY <2>2
        <3>4. 1 \in DOMAIN queue
            BY <2>2
        <3> QED BY <2>2, <3>1, <3>2, <3>3, <3>4 DEF ToSet
    <2>4. Pool!Turn(w)
        BY <1>1, <1>6, <2>1, <2>2, <2>3 DEF Pool!Turn
    <2>5. QueueIsRest'
        <3>1. /\ Len(queue) <= Len(Pages)
              /\ \A k \in DOMAIN queue : queue[k] = Pages[Len(Pages) - Len(queue) + k]
            BY <1>0 DEF QueueIsRest
        <3>2. ASSUME NEW k \in DOMAIN queue'
              PROVE  queue'[k] = Pages[Len(Pages) - Len(queue') + k]
            <4>1. k + 1 \in DOMAIN queue /\ k \in Nat /\ Len(Pages) \in Nat
                BY <2>2, PagesFacts
            <4>2. Len(Pages) - Len(queue) + (k + 1) = Len(Pages) - Len(queue') + k
                BY <2>2, <4>1
            <4> QED BY <2>2, <3>1, <4>1, <4>2
        <3> QED BY <2>2, <3>1, <3>2, PagesFacts DEF QueueIsRest
    <2>6. working' \in [Workers -> Urls \union {None}] /\ working'[w] # None
        BY <1>0, <2>1, <2>2, PagesFacts DEF TypeOK
    <2> QED BY <1>0, <1>1, <1>3, <1>4, <1>5, <2>1, <2>2, <2>4, <2>5, <2>6 DEF TypeOK
<1> QED BY <1>7, <1>8

LEMMA SubSeqFacts ==
    ASSUME NEW T, NEW s \in Seq(T), NEW n \in Nat, n <= Len(s)
    PROVE  /\ SubSeq(s, n + 1, Len(s)) \in Seq(T) /\ Len(SubSeq(s, n + 1, Len(s))) = Len(s) - n
           /\ \A k \in 1..(Len(s) - n) : SubSeq(s, n + 1, Len(s))[k] = s[n + k]
<1> DEFINE q == SubSeq(s, n + 1, Len(s))
<1>1. Len(s) \in Nat /\ DOMAIN s = 1..Len(s) /\ \A i \in (n + 1)..Len(s) : s[i] \in T
    OBVIOUS
<1>2. q \in Seq(T) /\ Len(q) = (IF n + 1 <= Len(s) THEN Len(s) - (n + 1) + 1 ELSE 0)
      /\ \A i \in 1..(Len(s) - (n + 1) + 1) : q[i] = s[(n + 1) + i - 1]
    <2>1. n + 1 \in Int /\ Len(s) \in Int
        BY <1>1
    <2> QED BY <1>1, <2>1, SubSeqProperties
<1> HIDE DEF q
<1>3. Len(q) = Len(s) - n
    <2>1. Len(q) = IF n + 1 <= Len(s) THEN Len(s) - (n + 1) + 1 ELSE 0
        BY <1>2
    <2>2. Len(s) \in Nat /\ n \in Nat /\ n <= Len(s)
        BY <1>1
    <2>3. CASE n = Len(s)
        BY <2>1, <2>2, <2>3
    <2>4. CASE n < Len(s)
        BY <2>1, <2>2, <2>4
    <2> QED BY <2>2, <2>3, <2>4
<1>4. ASSUME NEW k \in 1..(Len(s) - n) PROVE q[k] = s[n + k]
    <2>1. (n + 1) + k - 1 = n + k /\ k \in 1..(Len(s) - (n + 1) + 1)
        BY <1>1
    <2> QED BY <1>2, <2>1
<1> QED BY <1>2, <1>3, <1>4 DEF q

(* The workers start: the crew takes the first pages.                       *)
LEMMA StartIsHire ==
    ASSUME BatchInv, Start
    PROVE  Pool!Hire /\ TypeOK' /\ QueueIsRest'
           /\ (queue' # <<>> => \A w \in Workers : working'[w] # None)
<1> DEFINE size == Len(Pages)
           crew == {w \in Workers : w <= size}
           hired == Cardinality(crew)
<1>0. TypeOK /\ QueueIsRest /\ AllEnded /\ queue = Pages /\ results = <<>>
    BY DEF BatchInv, PhasesKept, Start
<1>1. /\ phase' = "running" /\ UNCHANGED <<reports, results, gamme, client>>
      /\ working' = [w \in Workers |-> IF w \in crew THEN Pages[w] ELSE None]
      /\ queue' = SubSeq(Pages, hired + 1, size)
    BY DEF Start
<1>2. /\ Concurrency \in Nat \ {0} /\ size \in Nat \ {0} /\ Workers = 1..Concurrency
      /\ Pages \in Seq(Urls) /\ Len(Pages) = size /\ \A k \in 1..size : Pages[k] \in Urls
    BY BatchAssumption, PagesFacts DEF Workers
<1>3. crew = IF Concurrency <= size THEN 1..Concurrency ELSE 1..size
    BY <1>2 DEF Workers
<1>4. /\ hired \in 1..size /\ crew = 1..hired
      /\ hired = Concurrency \/ hired = size
      /\ \A k \in 1..hired : k \in Workers
    <2> HIDE DEF crew
    <2>1. CASE Concurrency <= size
        <3>1. crew = 1..Concurrency /\ hired = Concurrency
            BY <1>2, <1>3, <2>1, UpTo
        <3> HIDE DEF hired, size
        <3> QED BY <1>2, <2>1, <3>1
    <2>2. CASE ~(Concurrency <= size)
        <3>1. crew = 1..size /\ hired = size /\ size < Concurrency
            BY <1>2, <1>3, <2>2, UpTo
        <3> HIDE DEF hired, size
        <3> QED BY <1>2, <3>1
    <2> QED BY <2>1, <2>2
<1> HIDE DEF hired, crew, size
<1>5. \A w \in Workers : w \in crew <=> w \in 1..hired
    BY <1>4
<1>6. /\ queue' \in Seq(Urls) /\ Len(queue') = size - hired /\ DOMAIN queue' = 1..(size - hired)
      /\ \A k \in DOMAIN queue' : queue'[k] = Pages[hired + k]
    <2> DEFINE q == SubSeq(Pages, hired + 1, size)
    <2>1. hired \in Nat /\ hired <= size
        BY <1>2, <1>4
    <2>2. q \in Seq(Urls) /\ Len(q) = size - hired
        BY <1>2, <2>1, SubSeqFacts
    <2>3. \A k \in 1..(size - hired) : q[k] = Pages[hired + k]
        BY <1>2, <2>1, SubSeqFacts
    <2> QED BY <1>1, <2>2, <2>3
<1>7. /\ working' \in [Workers -> Urls \union {None}]
      /\ \A w \in Workers : working'[w] = IF w \in 1..hired THEN Pages[w] ELSE None
    <2>1. \A w \in 1..hired : Pages[w] \in Urls
        BY <1>2, <1>4
    <2> QED BY <1>1, <1>4, <2>1
<1>8. TypeOK'
    BY <1>0, <1>1, <1>6, <1>7 DEF TypeOK
<1>9. QueueIsRest'
    <2>1. \A k \in DOMAIN queue' : queue'[k] = Pages[size - Len(queue') + k]
        <3> TAKE k \in DOMAIN queue'
        <3>1. size - Len(queue') + k = hired + k
            BY <1>2, <1>4, <1>6
        <3> QED BY <1>6, <3>1
    <2> QED BY <1>2, <1>4, <1>6, <2>1 DEF QueueIsRest, size
<1>10. queue' # <<>> => \A w \in Workers : working'[w] # None
    <2> SUFFICES ASSUME queue' # <<>>, NEW w \in Workers PROVE working'[w] # None
        OBVIOUS
    <2>1. size - hired # 0
        BY <1>6
    <2>2. hired = Concurrency
        BY <1>2, <1>4, <2>1
    <2>3. w \in 1..hired /\ Pages[w] \in Urls
        BY <1>2, <1>4, <2>2
    <2> QED BY <1>7, <2>3, PagesFacts
<1>11. ToSet(queue) = {Pages[k] : k \in 1..size}
    BY <1>0, PagesFacts DEF ToSet, size
<1>12. ToSet(queue)' = {Pages[k] : k \in (hired + 1)..size}
    <2>1. \A k \in DOMAIN queue' : hired + k \in (hired + 1)..size
        BY <1>2, <1>4, <1>6
    <2>2. \A k \in (hired + 1)..size : k - hired \in DOMAIN queue' /\ queue'[k - hired] = Pages[k]
        BY <1>2, <1>4, <1>6
    <2> QED BY <1>6, <2>1, <2>2 DEF ToSet
<1>13. \A k, l \in 1..size : Pages[k] = Pages[l] => k = l
    BY PagesFacts DEF size
<1>14. /\ \A v, w \in Workers : working'[v] = working'[w] /\ working'[v] # None => v = w
       /\ working' \in [Workers -> ToSet(queue) \union {None}]
    <2>1. \A w \in Workers : working'[w] # None => w \in 1..size /\ w \in 1..hired /\ working'[w] = Pages[w]
        BY <1>2, <1>4, <1>7
    <2>2. \A v, w \in Workers : working'[v] = working'[w] /\ working'[v] # None => v = w
        BY <1>13, <2>1
    <2>3. \A w \in Workers : working'[w] \in ToSet(queue) \union {None}
        BY <1>11, <2>1
    <2> QED BY <1>7, <2>2, <2>3
<1>15. ToSet(queue)' = {j \in ToSet(queue) : \A w \in Workers : working'[w] # j}
    <2>1. ASSUME NEW k \in 1..size
          PROVE  k \in (hired + 1)..size <=> \A w \in Workers : working'[w] # Pages[k]
        <3>1. CASE k \in 1..hired
            <4>1. k \in Workers /\ working'[k] = Pages[k]
                BY <1>4, <1>7, <3>1
            <4> QED BY <1>4, <3>1, <4>1
        <3>2. CASE k \notin 1..hired
            <4>1. Pages[k] # None
                BY <1>2, PagesFacts
            <4>2. \A w \in Workers : working'[w] # Pages[k]
                <5> SUFFICES ASSUME NEW w \in Workers, working'[w] = Pages[k] PROVE FALSE
                    OBVIOUS
                <5>1. w \in 1..hired /\ w \in 1..size /\ Pages[w] = Pages[k]
                    BY <1>2, <1>4, <1>7, <4>1
                <5> QED BY <1>13, <3>2, <5>1
            <4> QED BY <1>4, <3>2, <4>2
        <3> QED BY <3>1, <3>2
    <2>2. (hired + 1)..size \subseteq 1..size
        BY <1>2, <1>4
    <2> QED BY <1>11, <1>12, <2>1, <2>2
<1>16. /\ Pool!Busy = {} /\ {results[n].url : n \in DOMAIN results} = {} /\ ToSet(queue) # {}
       /\ {results[n].url : n \in DOMAIN results}' = {results[n].url : n \in DOMAIN results}
    BY <1>0, <1>1, <1>2, <1>11 DEF Pool!Busy, AllEnded
<1>17. ToSet(queue)' = {} \/ \A w \in Workers : working'[w] # None
    <2>1. queue' = <<>> => ToSet(queue)' = {}
        BY DEF ToSet
    <2> QED BY <1>10, <2>1
<1>18. Pool!Hire
    BY <1>14, <1>15, <1>16, <1>17 DEF Pool!Hire
<1> QED BY <1>8, <1>9, <1>10, <1>18

(* A page that has ended is told, as long as the client is there.           *)
LEMMA PageMirrored ==
    ASSUME BatchInv, NEW w \in Workers, NEW ok \in BOOLEAN, NEW fits \in BOOLEAN, ok \/ fits,
           EndPage(w, ok, fits)
    PROVE  EventsMirror' /\ AnswerMade' /\ ResultsOnce'
<1> DEFINE url == working[w]
           size == Len(results)
           told == [type |-> "page", url |-> url, ok |-> ok, completed |-> size + 1,
                    emitted |-> fits]
<1>0. /\ results \in Seq(Entry) /\ events \in Seq(Event) /\ phase = "running" /\ url \in Urls
      /\ url # None /\ UNCHANGED <<phase, client, answer>>
    BY PageIsTurn DEF BatchInv, TypeOK, EventsMirror, EndPage
<1>1. /\ results' = Append(results, [url |-> url, ok |-> ok])
      /\ events' = IF client THEN events \o (IF results = <<>> THEN <<Start1, told>> ELSE <<told>>)
                   ELSE events
    BY DEF EndPage, Written, Start1
<1>2. /\ results' \in Seq(Entry) /\ Len(results') = size + 1 /\ DOMAIN results' = 1..(size + 1)
      /\ DOMAIN results = 1..size /\ size \in Nat
      /\ \A n \in 1..size : results'[n] = results[n]
      /\ results'[size + 1] = [url |-> url, ok |-> ok] /\ results' # <<>>
      /\ results = <<>> <=> size = 0
    <2>1. [url |-> url, ok |-> ok] \in Entry
        BY <1>0 DEF Entry
    <2> QED BY <1>0, <1>1, <2>1
<1>3. ASSUME NEW n \in 1..size PROVE \A e : Tells(e, n)' = Tells(e, n)
    <2>1. results'[n] = results[n]
        BY <1>2
    <2> QED BY <2>1 DEF Tells, Told
<1>4. ASSUME NEW n, n = size + 1, NEW e, e = told PROVE Tells(e, n)'
    <2>1. results'[n] = [url |-> url, ok |-> ok]
        BY <1>2, <1>4
    <2> QED BY <1>4, <2>1 DEF Tells, Told
<1>5. told \in Event /\ Start1 \in Event
    BY <1>0, <1>2 DEF Event
<1>6. /\ Len(events) <= size + 1 /\ Len(events) \in Nat /\ DOMAIN events = 1..Len(events)
      /\ events # <<>> => events[1] = Start1
      /\ \A n \in 1..size : n + 1 \in DOMAIN events => Tells(events[n + 1], n)
      /\ client => Len(events) = IF results = <<>> THEN 0 ELSE size + 1
    BY <1>0, <1>2 DEF BatchInv, EventsMirror
<1> HIDE DEF told, size
<1>10. Len(events) \in Nat /\ size \in Nat /\ Len(events) <= size + 1
    BY <1>2, <1>6
<1>11. DOMAIN events = 1..Len(events) /\ Len(results') = size + 1
    BY <1>2, <1>6
<1>7. EventsMirror'
    <2>1. CASE ~client
        <3>1. events' = events
            BY <1>1, <2>1
        <3>2. \A n \in 1..(size + 1) : n + 1 \in DOMAIN events => n \in 1..size
            BY <1>10, <1>11
        <3>3. ASSUME NEW n \in DOMAIN results', n + 1 \in DOMAIN events'
              PROVE  Tells(events[n + 1], n)'
            <4>1. n \in 1..size
                BY <1>2, <3>1, <3>2, <3>3
            <4> QED BY <1>3, <1>6, <3>1, <3>3, <4>1
        <3>4. Len(events') <= Len(results') + 1
            BY <1>10, <1>11, <3>1
        <3> QED BY <1>0, <1>6, <2>1, <3>1, <3>3, <3>4 DEF EventsMirror
    <2>2. CASE client /\ results = <<>>
        <3>1. events = <<>> /\ size = 0 /\ events' = events \o <<Start1, told>>
            BY <1>0, <1>1, <1>2, <1>6, <2>2
        <3>2. <<Start1, told>> \in Seq(Event)
            BY <1>5
        <3>3. events' = <<Start1, told>>
            BY <3>1, <3>2
        <3>4. events' \in Seq(Event) /\ Len(events') = 2 /\ events'[1] = Start1 /\ events'[2] = told
            BY <3>2, <3>3
        <3>5. \A n \in DOMAIN results' : n = 1
            BY <1>2, <3>1
        <3>6. \A e : e = told => Tells(e, 1)'
            BY <1>4, <1>2, <3>1
        <3> QED BY <1>0, <1>2, <3>1, <3>4, <3>5, <3>6 DEF EventsMirror
    <2>3. CASE client /\ results # <<>>
        <3>1. events' = Append(events, told) /\ Len(events) = size + 1
            <4>1. events' = events \o <<told>>
                BY <1>1, <2>3
            <4> QED BY <1>0, <1>5, <1>6, <2>3, <4>1
        <3>2. /\ events' \in Seq(Event) /\ Len(events') = size + 2 /\ events'[size + 2] = told
              /\ \A n \in 1..(size + 1) : events'[n] = events[n]
            BY <1>0, <1>2, <1>5, <1>6, <3>1
        <3>3. ASSUME NEW n \in 1..(size + 1) PROVE Tells(events[n + 1], n)'
            <4>1. CASE n = size + 1
                <5>1. (\A e : e = told => Tells(e, n)') /\ n + 1 = size + 2
                    BY <1>2, <1>4, <4>1
                <5> QED BY <3>2, <5>1
            <4>2. CASE n # size + 1
                <5>1. n \in 1..size /\ n + 1 \in 1..(size + 1)
                    BY <1>2, <4>2
                <5>2. n + 1 \in DOMAIN events
                    BY <1>6, <3>1, <5>1
                <5> QED BY <1>3, <1>6, <3>2, <5>1, <5>2
            <4> QED BY <4>1, <4>2
        <3>4. events'[1] = Start1
            <4>1. events # <<>> /\ 1 \in 1..(size + 1)
                BY <1>2, <3>1
            <4> QED BY <1>6, <3>2, <4>1
        <3>5. Len(events') = Len(results') + 1
            BY <1>2, <3>2
        <3> QED BY <1>2, <3>2, <3>3, <3>4, <3>5 DEF EventsMirror
    <2> QED BY <2>1, <2>2, <2>3
<1>8. AnswerMade'
    BY <1>0 DEF BatchInv, AnswerMade
<1>9. ResultsOnce'
    <2>0. url \notin {results[n].url : n \in DOMAIN results}
        <3>1. Pool!EachJobOnce
            BY DEF BatchInv
        <3> QED BY <1>0, <3>1 DEF Pool!EachJobOnce, Pool!Busy
    <2>1. \A n \in 1..size : results[n].url # url
        BY <1>2, <2>0
    <2> QED BY <1>2, <2>1 DEF BatchInv, ResultsOnce
<1> QED BY <1>7, <1>8, <1>9

(* When the workers have ended, every address has its entry.                *)
LEMMA AllAnswered ==
    ASSUME BatchInv, AllEnded, phase # "called"
    PROVE  /\ {results[n].url : n \in DOMAIN results} = Urls
           /\ Len(results) = Len(Pages) /\ results # <<>>
<1> DEFINE done == [n \in DOMAIN results |-> results[n].url]
<1>1. queue = <<>>
    BY PagesFacts DEF BatchInv, PhasesKept, AllEnded
<1>2. ToSet(queue) = {} /\ Pool!Busy = {}
    BY <1>1 DEF ToSet, Pool!Busy, AllEnded
<1>3. {results[n].url : n \in DOMAIN results} = Urls
    BY <1>2 DEF BatchInv, Pool!EachJobOnce
<1>4. results \in Seq(Entry) /\ DOMAIN results = 1..Len(results) /\ Len(results) \in Nat
    BY DEF BatchInv, TypeOK
<1>5. /\ done \in Seq(Urls) /\ Len(done) = Len(results) /\ ToSet(done) = Urls
      /\ \A n, m \in DOMAIN done : done[n] = done[m] => n = m
    <2>1. done \in [1..Len(results) -> Urls]
        BY <1>3, <1>4
    <2>2. done \in Seq(Urls) /\ Len(done) = Len(results)
        BY <1>4, <2>1
    <2> QED BY <1>3, <1>4, <2>2 DEF BatchInv, ResultsOnce, ToSet
<1>6. Len(results) = Len(Pages)
    BY <1>5, CountOnce, PagesFacts
<1> QED BY <1>3, <1>4, <1>6, PagesFacts

LEMMA SucceededCounts ==
    ASSUME BatchInv
    PROVE  Succeeded \in Nat /\ IsFiniteSet({n \in DOMAIN results : results[n].ok})
<1>1. results \in Seq(Entry)
    BY DEF BatchInv, TypeOK
<1>2. {n \in DOMAIN results : results[n].ok} \in SUBSET DOMAIN results
    OBVIOUS
<1> QED BY <1>1, <1>2, PositionsFinite DEF Succeeded

(* The last event and the answer.                                           *)
LEMMA ReturnMirrored ==
    ASSUME BatchInv, Return
    PROVE  EventsMirror' /\ AnswerMade'
<1> DEFINE size == Len(results)
<1>0. /\ results \in Seq(Entry) /\ events \in Seq(Event) /\ AllEnded /\ phase = "recorded"
      /\ size = Len(Pages) /\ results # <<>>
    <2>1. results \in Seq(Entry) /\ events \in Seq(Event) /\ phase = "recorded" /\ AllEnded
        BY DEF BatchInv, TypeOK, EventsMirror, PhasesKept, Return
    <2> QED BY <2>1, AllAnswered
<1>1. /\ phase' = "returned" /\ client' = FALSE /\ results' = results
      /\ events' = IF client THEN events \o <<Complete>> ELSE events
      /\ answer' = [total |-> Len(Pages), succeeded |-> Succeeded, failed |-> size - Succeeded,
                    results |-> OrderByRequest(results, Pages)]
    BY DEF Return, Written, Complete, Succeeded
<1>2. \A n, e : Tells(e, n)' = Tells(e, n)
    BY <1>1 DEF Tells, Told
<1>3. Succeeded' = Succeeded /\ Complete' = Complete
    BY <1>1 DEF Succeeded, Complete
<1>4. Complete \in Event
    BY <1>0, SucceededCounts, PagesFacts DEF Complete, Event
<1>5. /\ Len(events) <= size + 1 /\ Len(events) \in Nat /\ DOMAIN events = 1..Len(events)
      /\ events # <<>> => events[1] = Start1
      /\ \A n \in DOMAIN results : n + 1 \in DOMAIN events => Tells(events[n + 1], n)
      /\ client => Len(events) = size + 1
      /\ DOMAIN results = 1..size /\ size \in Nat
    BY <1>0 DEF BatchInv, EventsMirror
<1>6. AnswerMade'
    BY <1>1, <1>3 DEF AnswerMade
<1> HIDE DEF size
<1>7. CASE ~client
    <2>1. events' = events
        BY <1>1, <1>7
    <2> QED BY <1>0, <1>1, <1>2, <1>5, <1>6, <2>1 DEF EventsMirror, size
<1>8. CASE client
    <2>1. events' = Append(events, Complete)
        BY <1>0, <1>1, <1>4, <1>8
    <2>2. /\ events' \in Seq(Event) /\ Len(events') = size + 2 /\ events'[size + 2] = Complete
          /\ \A n \in 1..(size + 1) : events'[n] = events[n]
        BY <1>0, <1>4, <1>5, <1>8, <2>1
    <2>3. ASSUME NEW n \in DOMAIN results PROVE Tells(events[n + 1], n)'
        <3>1. n + 1 \in 1..(size + 1) /\ n + 1 \in DOMAIN events
            BY <1>5, <1>8
        <3> QED BY <1>2, <1>5, <2>2, <3>1
    <2>4. events'[1] = Start1
        <3>1. events # <<>> /\ 1 \in 1..(size + 1)
            BY <1>5, <1>8
        <3> QED BY <1>5, <2>2, <3>1
    <2>5. Len(events') = Len(results') + 2 /\ events'[Len(events')] = Complete'
        BY <1>1, <1>3, <2>2 DEF size
    <2>6. EventsMirror'
        BY <1>1, <2>2, <2>3, <2>4, <2>5 DEF EventsMirror
    <2> QED BY <1>6, <2>6
<1> QED BY <1>7, <1>8

LEMMA BatchStarts == Init => BatchInv
<1> SUFFICES ASSUME Init PROVE BatchInv
    OBVIOUS
<1> USE DEF Init
<1>1. TypeOK /\ QueueIsRest /\ PhasesKept
    BY PagesFacts DEF TypeOK, QueueIsRest, PhasesKept, AllEnded
<1>2. Pool!EachJobOnce
    BY PagesFacts DEF Pool!EachJobOnce, Pool!Busy
<1>3. ResultsOnce /\ EventsMirror /\ AnswerMade
    BY DEF ResultsOnce, EventsMirror, AnswerMade
<1> QED BY <1>1, <1>2, <1>3 DEF BatchInv

(* What the other steps leave alone.                                        *)
LEMMA PoolKept ==
    ASSUME BatchInv, UNCHANGED <<queue, working, results>>
    PROVE  QueueIsRest' /\ Pool!EachJobOnce' /\ ResultsOnce'
BY DEF BatchInv, QueueIsRest, Pool!EachJobOnce, Pool!Busy, ResultsOnce

LEMMA BatchSteps == BatchInv /\ [Next]_vars => BatchInv'
<1> SUFFICES ASSUME BatchInv, [Next]_vars PROVE BatchInv'
    OBVIOUS
<1>0. TypeOK /\ PhasesKept /\ EventsMirror /\ AnswerMade /\ Pool!EachJobOnce /\ None \notin Urls
      /\ working \in [Workers -> Urls \union {None}] /\ ToSet(queue) \subseteq Urls
    BY PagesFacts DEF BatchInv, TypeOK, ToSet
<1>1. CASE UNCHANGED vars
    <2>1. TypeOK' /\ PhasesKept' /\ EventsMirror' /\ AnswerMade'
        BY <1>0, <1>1 DEF vars, TypeOK, PhasesKept, AllEnded, EventsMirror, AnswerMade, Tells, Told,
                          Complete, Succeeded
    <2> QED BY <1>1, <2>1, PoolKept DEF vars, BatchInv
<1>2. CASE Start
    <2>1. Pool!Hire /\ TypeOK' /\ QueueIsRest'
          /\ (queue' # <<>> => \A w \in Workers : working'[w] # None)
        BY <1>2, StartIsHire
    <2>2. Pool!EachJobOnce'
        BY <1>0, <2>1, HireKeeps
    <2>3. phase = "called" /\ phase' = "running" /\ UNCHANGED <<results, answer, events, client>>
        BY <1>2 DEF Start
    <2>4. PhasesKept' /\ EventsMirror' /\ AnswerMade'
        BY <1>0, <2>1, <2>3 DEF PhasesKept, EventsMirror, AnswerMade, Tells, Told
    <2>5. ResultsOnce'
        BY <2>3 DEF BatchInv, ResultsOnce
    <2> QED BY <2>1, <2>2, <2>4, <2>5 DEF BatchInv
<1>3. ASSUME NEW w \in Workers, NEW ok \in BOOLEAN, NEW fits \in BOOLEAN, ok \/ fits,
             EndPage(w, ok, fits)
      PROVE  BatchInv'
    <2>1. /\ Pool!Turn(w) /\ TypeOK' /\ QueueIsRest' /\ phase = "running"
          /\ queue # <<>> => working'[w] # None
          /\ \A v \in Workers \ {w} : working'[v] = working[v]
        BY <1>3, PageIsTurn
    <2>2. Pool!EachJobOnce'
        BY <1>0, <2>1, TurnKeeps
    <2>3. phase' = "running" /\ (queue = <<>> => queue' = <<>>)
        BY <1>3, <2>1 DEF EndPage
    <2>4. PhasesKept'
        BY <1>0, <2>1, <2>3 DEF PhasesKept
    <2> QED BY <1>3, <2>1, <2>2, <2>4, PageMirrored DEF BatchInv
<1>4. CASE Gather \/ Record
    <2>1. /\ phase' \in {"recording", "recorded"} /\ AllEnded /\ phase \in {"running", "recording"}
          /\ UNCHANGED <<queue, working, reports, results, gamme, answer, events, client>>
        BY <1>0, <1>4 DEF Gather, Record, PhasesKept
    <2>2. TypeOK' /\ PhasesKept' /\ EventsMirror' /\ AnswerMade'
        BY <1>0, <2>1 DEF TypeOK, PhasesKept, AllEnded, EventsMirror, AnswerMade, Tells, Told
    <2> QED BY <2>1, <2>2, PoolKept DEF BatchInv
<1>5. CASE Return
    <2>1. /\ phase = "recorded" /\ phase' = "returned" /\ client' = FALSE
          /\ UNCHANGED <<queue, working, reports, results, gamme>>
        BY <1>5 DEF Return
    <2>2. TypeOK' /\ PhasesKept'
        BY <1>0, <2>1 DEF TypeOK, PhasesKept, AllEnded
    <2> QED BY <1>5, <2>1, <2>2, PoolKept, ReturnMirrored DEF BatchInv
<1>6. CASE Leave
    <2>1. /\ client /\ client' = FALSE
          /\ UNCHANGED <<phase, queue, working, reports, results, gamme, answer, events>>
        BY <1>6 DEF Leave
    <2>2. TypeOK' /\ PhasesKept' /\ EventsMirror' /\ AnswerMade'
        BY <1>0, <2>1 DEF TypeOK, PhasesKept, AllEnded, EventsMirror, AnswerMade, Tells, Told, Complete,
                          Succeeded
    <2> QED BY <2>1, <2>2, PoolKept DEF BatchInv
<1> QED BY <1>1, <1>2, <1>3, <1>4, <1>5, <1>6 DEF Next, PageEnds

LEMMA BatchAlways == Spec => []BatchInv
<1> QED BY BatchStarts, BatchSteps, PTL DEF Spec

(* analyzeBatch (analysis.service.ts): queue, results, reports, gamme and   *)
(* client keep their types.                                                 *)
THEOREM BatchTyped == Spec => []TypeOK
<1>1. BatchInv => TypeOK
    BY DEF BatchInv
<1> QED BY <1>1, BatchAlways, PTL

(* "Les URL repetees ne sont analysees QU'UNE FOIS": an address waits, is   *)
(* on one worker, or has its entry, and is nowhere twice, whatever the      *)
(* interleaving of the workers.                                             *)
THEOREM BatchEachPageOnce == Spec => [](Pool!EachJobOnce /\ ResultsOnce)
<1>1. BatchInv => Pool!EachJobOnce /\ ResultsOnce
    BY DEF BatchInv
<1> QED BY <1>1, BatchAlways, PTL

(* Every step of the batch is a step of the pool of workers, or none.       *)
LEMMA BatchPoolSteps == BatchInv /\ [Next]_vars => [Pool!Next]_(Pool!vars)
<1> SUFFICES ASSUME BatchInv, [Next]_vars PROVE [Pool!Next]_(Pool!vars)
    OBVIOUS
<1>1. CASE UNCHANGED vars \/ Gather \/ Record \/ Return \/ Leave
    <2>1. UNCHANGED <<queue, working, results>>
        BY <1>1 DEF vars, Gather, Record, Return, Leave
    <2> QED BY <2>1 DEF Pool!vars
<1>2. CASE Start
    BY <1>2, StartIsHire DEF Pool!Next
<1>3. ASSUME NEW w \in Workers, NEW ok \in BOOLEAN, NEW fits \in BOOLEAN, ok \/ fits,
             EndPage(w, ok, fits)
      PROVE  Pool!Next
    BY <1>3, PageIsTurn DEF Pool!Next
<1> QED BY <1>1, <1>2, <1>3 DEF Next, PageEnds

(* The batch implements the pool of workers: what ImplementsPool promises   *)
(* of every finite behaviour. That a page taken is finished stays with the  *)
(* runs.                                                                    *)
THEOREM BatchIsPool == Spec => Pool!Spec
<1>1. Init => Pool!Init
    BY PagesFacts DEF Init, Pool!Init
<1>2. BatchInv /\ [Next]_vars => [Pool!Next]_(Pool!vars)
    BY BatchPoolSteps
<1> QED BY <1>1, <1>2, BatchAlways, PTL DEF Spec, Pool!Spec

(* Once the workers have ended, every address has its entry.                *)
LEMMA OrderedWhenAllThere ==
    ASSUME BatchInv, AllEnded, phase # "called"
    PROVE  LET r == OrderByRequest(results, Pages)
           IN  [n \in DOMAIN r |-> r[n].url] = Pages /\ \A n \in DOMAIN r : r[n] \in ToSet(results)
<1> DEFINE there(u) == {n \in DOMAIN results : results[n].url = u}
           entryOf(u) == results[CHOOSE n \in DOMAIN results : results[n].url = u]
           r == OrderByRequest(results, Pages)
<1>1. \A k \in DOMAIN Pages : Pages[k] \in Urls
    BY PagesFacts
<1>2. \A k \in DOMAIN Pages : \E n \in DOMAIN results : results[n].url = Pages[k]
    BY <1>1, AllAnswered
<1>3. {k \in DOMAIN Pages : \E n \in DOMAIN results : results[n].url = Pages[k]} = DOMAIN Pages
    BY <1>2
<1> DEFINE known == Keep(Pages, {k \in DOMAIN Pages :
                                 \E n \in DOMAIN results : results[n].url = Pages[k]})
<1>4. known = Pages
    BY <1>3, PagesFacts, KeptAll
<1>10. r = [k \in DOMAIN known |-> entryOf(known[k])]
    BY DEF OrderByRequest
<1> HIDE DEF known
<1>5. r = [k \in DOMAIN Pages |-> entryOf(Pages[k])]
    BY <1>4, <1>10
<1>6. \A k \in DOMAIN Pages : entryOf(Pages[k]).url = Pages[k] /\ entryOf(Pages[k]) \in ToSet(results)
    BY <1>2 DEF ToSet
<1> HIDE DEF r, entryOf
<1>7. DOMAIN r = DOMAIN Pages /\ \A k \in DOMAIN r : r[k].url = Pages[k] /\ r[k] \in ToSet(results)
    BY <1>5, <1>6
<1>8. [n \in DOMAIN r |-> r[n].url] = [n \in DOMAIN Pages |-> Pages[n]]
    BY <1>7
<1>9. Pages = [n \in DOMAIN Pages |-> Pages[n]]
    BY PagesFacts
<1> QED BY <1>7, <1>8, <1>9 DEF r

(* orderByRequest: the answer has one entry per distinct address, in the    *)
(* order of the request, each with the outcome of its own page, for any     *)
(* request and any number of workers.                                       *)
THEOREM BatchAnswerInOrder == Spec => []AnswerInOrder
<1>1. BatchInv => AnswerInOrder
    <2> SUFFICES ASSUME BatchInv, answer # None PROVE AnswerInOrder
        BY DEF AnswerInOrder
    <2>1. phase = "returned" /\ AllEnded
          /\ answer = [total |-> Len(Pages), succeeded |-> Succeeded,
                       failed |-> Len(results) - Succeeded,
                       results |-> OrderByRequest(results, Pages)]
        BY DEF BatchInv, AnswerMade, PhasesKept
    <2>2. Len(results) = Len(Pages)
        BY <2>1, AllAnswered
    <2>3. Succeeded \in Nat
        BY SucceededCounts
    <2>4. answer.succeeded + answer.failed = answer.total
        BY <2>1, <2>2, <2>3, PagesFacts
    <2> QED BY <2>1, <2>4, OrderedWhenAllThere DEF AnswerInOrder
<1> QED BY <1>1, BatchAlways, PTL

(* The positions of the pages sent, told or refused, are 2, 3, ..., in the  *)
(* order of the results.                                                    *)
LEMMA PagesTold ==
    ASSUME BatchInv
    PROVE  LET told == {n \in DOMAIN events : events[n].type = "page"}
               last == IF Len(events) <= Len(results) + 1 THEN Len(events) ELSE Len(results) + 1
           IN  /\ last \in Nat /\ told = 2..last
               /\ \A n \in told : n - 1 \in DOMAIN results /\ Tells(events[n], n - 1)
               /\ \A n \in DOMAIN events : n = 1 => events[n].type = "start"
               /\ \A n \in DOMAIN events : n = 1 \/ n \in told \/
                      /\ n = Len(events) /\ n = Len(results) + 2 /\ events[n] = Complete
                      /\ phase = "returned"
<1> DEFINE told == {n \in DOMAIN events : events[n].type = "page"}
           size == Len(results)
           last == IF Len(events) <= size + 1 THEN Len(events) ELSE size + 1
<1>1. /\ Len(events) \in Nat /\ DOMAIN events = 1..Len(events)
      /\ DOMAIN results = 1..size /\ size \in Nat
      /\ events # <<>> => events[1] = Start1
      /\ \A n \in 1..size : n + 1 \in DOMAIN events => Tells(events[n + 1], n)
      /\ \/ Len(events) <= size + 1
         \/ phase = "returned" /\ Len(events) = size + 2 /\ events[Len(events)] = Complete
  <2>1. EventsMirror /\ results \in Seq(Entry)
      BY DEF BatchInv, TypeOK
  <2>2. events \in Seq(Event)
      BY <2>1 DEF EventsMirror
  <2>3. /\ Len(events) \in Nat /\ DOMAIN events = 1..Len(events)
        /\ DOMAIN results = 1..size /\ size \in Nat
      BY <2>1, <2>2
  <2> QED BY <2>1, <2>3 DEF EventsMirror
<1> HIDE DEF size
<1>11. Len(events) \in Nat /\ size \in Nat
    BY <1>1
<1>2. /\ last \in Nat /\ last <= Len(events) /\ last <= size + 1
      /\ last = Len(events) \/ last = size + 1
    BY <1>11
<1> HIDE DEF last
<1>3. ASSUME NEW n \in 2..last
      PROVE  n \in DOMAIN events /\ n - 1 \in 1..size /\ Tells(events[n], n - 1)
    <2>1. n - 1 \in 1..size /\ (n - 1) + 1 = n /\ n \in 1..Len(events)
        BY <1>2, <1>11
    <2> QED BY <1>1, <2>1
<1>4. ASSUME NEW n \in DOMAIN events, n # 1, n \notin 2..last
      PROVE  /\ n = Len(events) /\ n = size + 2 /\ events[n] = Complete /\ phase = "returned"
    <2>0. n \in 1..Len(events)
        BY <1>1
    <2>1. n \in Nat /\ n <= Len(events) /\ n > last
        BY <2>0, <1>11, <1>2, <1>4
    <2>4. ~(Len(events) <= size + 1)
        BY <1>11, <1>2, <2>1
    <2>2. Len(events) = size + 2 /\ events[Len(events)] = Complete /\ phase = "returned"
        BY <1>1, <2>4
    <2>3. n = size + 2
        BY <1>2, <1>11, <2>1, <2>2
    <2> QED BY <2>2, <2>3
<1>5. \A n, e : Tells(e, n) => e.type = "page"
    BY DEF Tells, Told
<1>6. Complete.type = "complete" /\ Start1.type = "start"
    BY DEF Complete, Start1
<1>7. \A n \in DOMAIN events : n = 1 => events[n].type = "start"
    <2>1. DOMAIN events # {} => events # <<>>
        OBVIOUS
    <2> QED BY <1>1, <1>6, <2>1
<1>8. told = 2..last
    <2>1. \A n \in 2..last : n \in told
        BY <1>3, <1>5
    <2>2. \A n \in DOMAIN events : n \notin 2..last => n \notin told
        BY <1>4, <1>6, <1>7
    <2>3. told \subseteq DOMAIN events
        OBVIOUS
    <2> QED BY <2>1, <2>2, <2>3
<1> HIDE DEF told, last
<1>9. \A n \in told : n - 1 \in 1..size /\ Tells(events[n], n - 1)
    BY <1>3, <1>8
<1>10. \A n \in DOMAIN events : n = 1 \/ n \in told \/
          (n = Len(events) /\ n = size + 2 /\ events[n] = Complete /\ phase = "returned")
    BY <1>4, <1>8
<1> QED BY <1>1, <1>2, <1>7, <1>8, <1>9, <1>10 DEF told, last, size

(* A finite set in two parts.                                               *)
LEMMA Split ==
    ASSUME NEW S, NEW A, NEW B, IsFiniteSet(S), A \union B = S, A \intersect B = {}
    PROVE  Cardinality(A) + Cardinality(B) = Cardinality(S)
<1>1. IsFiniteSet(A) /\ IsFiniteSet(B)
    BY FS_Subset
<1>2. Cardinality(S) = Cardinality(A) + Cardinality(B) - Cardinality({})
    BY <1>1, FS_Union
<1>3. Cardinality({}) = 0 /\ Cardinality(A) \in Nat /\ Cardinality(B) \in Nat
    BY <1>1, FS_EmptySet, FS_CardinalityType
<1> QED BY <1>2, <1>3

(* The stream adds up, for any request and any interleaving: "start" first, *)
(* each page told or logged under its number and none twice, every page in  *)
(* error told, and "complete" last with the counts of what was sent.        *)
THEOREM BatchStreamAddsUp == Spec => []StreamAddsUp
<1>1. ASSUME BatchInv PROVE StreamAddsUp
  <2> DEFINE sent == {n \in DOMAIN events : events[n].type = "page"}
             told == {n \in DOMAIN events : events[n].type = "page" /\ events[n].emitted}
             refused == {n \in DOMAIN events : ~events[n].emitted}
             inError == {n \in told : ~events[n].ok}
             last == IF Len(events) <= Len(results) + 1 THEN Len(events) ELSE Len(results) + 1
             size == Len(results)
  <2>1. /\ last \in Nat /\ sent = 2..last
        /\ \A n \in sent : n - 1 \in DOMAIN results /\ Tells(events[n], n - 1)
        /\ \A n \in DOMAIN events : n = 1 => events[n].type = "start"
        /\ \A n \in DOMAIN events : n = 1 \/ n \in sent \/
               /\ n = Len(events) /\ n = size + 2 /\ events[n] = Complete /\ phase = "returned"
      BY <1>1, PagesTold
  <2>2. size \in Nat /\ DOMAIN results = 1..size /\ results \in Seq(Entry)
      BY <1>1 DEF BatchInv, TypeOK
  <2>20. \A n \in DOMAIN events : n = 1 => events[n].emitted
    <3>1. events # <<>> => events[1] = Start1
        BY <1>1 DEF BatchInv, EventsMirror
    <3> QED BY <3>1 DEF Start1
  <2> HIDE DEF last, sent
  <2>9. \A n, e : Tells(e, n) => /\ e.type = "page" /\ e.url = results[n].url
                                /\ e.ok = results[n].ok /\ e.completed = n
                                /\ e.emitted \in BOOLEAN /\ (e.ok \/ e.emitted)
      BY DEF Tells, Told
  <2>3. \A n \in sent : /\ n \in 2..last /\ n \in Nat
                        /\ events[n].type = "page" /\ events[n].url = results[n - 1].url
                        /\ events[n].ok = results[n - 1].ok /\ events[n].completed = n - 1
                        /\ events[n].emitted \in BOOLEAN /\ (events[n].ok \/ events[n].emitted)
      BY <2>1, <2>9
  <2>4. Complete.type = "complete" /\ Complete.emitted
      BY DEF Complete
  <2>5. \A n \in DOMAIN events : events[n].type = "start" <=> n = 1
      BY <2>1, <2>3, <2>4
  <2>10. /\ told \union refused = sent /\ told \intersect refused = {}
         /\ \A n \in refused : events[n].type = "page" /\ events[n].ok
         /\ inError = {n \in sent : ~events[n].ok}
    <3>1. sent \subseteq DOMAIN events /\ told = {n \in sent : events[n].emitted}
        BY DEF sent
    <3>2. refused \subseteq sent
        BY <2>1, <2>4, <2>20
    <3>3. refused = {n \in sent : ~events[n].emitted}
        BY <3>1, <3>2
    <3> HIDE DEF told, refused
    <3>4. \A n \in sent : n \in told <=> events[n].emitted
        BY <3>1
    <3>5. \A n \in sent : n \in refused <=> ~events[n].emitted
        BY <3>3
    <3>6. told \subseteq sent
        BY <3>1
    <3> QED BY <2>3, <3>2, <3>4, <3>5, <3>6
  <2> HIDE DEF told, refused, inError
  <2>6. ASSUME NEW n \in sent PROVE events[n].completed = Rank(sent, n)
      <3>1. {m \in sent : m <= n} = 2..n
          BY <2>1, <2>3
      <3>2. Cardinality(2..n) = n - 1
          BY <2>3, FS_Interval
      <3> QED BY <2>3, <3>1, <3>2 DEF Rank
  <2>7. ASSUME NEW n \in sent, NEW m \in sent, events[n].url = events[m].url PROVE n = m
      <3>1. n - 1 \in DOMAIN results /\ m - 1 \in DOMAIN results
            /\ results[n - 1].url = results[m - 1].url /\ n \in Nat /\ m \in Nat
          BY <2>1, <2>3, <2>7
      <3>2. n - 1 = m - 1
          BY <1>1, <3>1 DEF BatchInv, ResultsOnce
      <3> QED BY <3>1, <3>2
  <2>8. ASSUME NEW n \in DOMAIN events, events[n].type = "complete"
        PROVE  /\ n = Len(events)
               /\ events[n].total = Cardinality(told) + Cardinality(refused)
               /\ events[n].failed = Cardinality(inError)
               /\ events[n].succeeded + events[n].failed = events[n].total
      <3> DEFINE passed == {m \in sent : events[m].ok}
      <3>1. n = Len(events) /\ n = size + 2 /\ events[n] = Complete /\ phase = "returned"
          BY <2>1, <2>3, <2>8
      <3>2. size = Len(Pages)
          BY <1>1, <3>1, AllAnswered DEF BatchInv, PhasesKept
      <3>3. last = size + 1
          BY <2>2, <3>1 DEF last
      <3>4. Cardinality(sent) = size /\ IsFiniteSet(sent)
          <4> HIDE DEF size
          <4>1. Cardinality(2..(size + 1)) = size /\ IsFiniteSet(2..(size + 1))
              BY <2>2, FS_Interval
          <4> QED BY <2>1, <3>3, <4>1
      <3>5. passed = {k + 1 : k \in {j \in DOMAIN results : results[j].ok}}
          <4> DEFINE good == {j \in DOMAIN results : results[j].ok}
          <4>1. ASSUME NEW m \in sent, events[m].ok PROVE \E k \in good : m = k + 1
              <5>1. m - 1 \in good /\ m = (m - 1) + 1
                  BY <2>1, <2>3, <4>1
              <5> QED BY <5>1
          <4>2. ASSUME NEW k \in good PROVE k + 1 \in sent /\ events[k + 1].ok
              <5>1. k \in 1..size /\ results[k].ok /\ k + 1 \in 2..last /\ (k + 1) - 1 = k
                  BY <2>2, <3>3
              <5> QED BY <2>1, <2>3, <5>1
          <4> QED BY <4>1, <4>2
      <3>6. Cardinality(passed) = Succeeded
          <4> DEFINE good == {j \in DOMAIN results : results[j].ok}
          <4>1. good \in SUBSET Nat /\ IsFiniteSet(good)
              BY <2>2, PositionsFinite
          <4> QED BY <3>5, <4>1, Shifted DEF Succeeded
      <3>7. Succeeded \in Nat
          BY <1>1, SucceededCounts
      <3>8. Cardinality(told) + Cardinality(refused) = size
          BY <2>10, <3>4, Split
      <3>9. Cardinality(passed) + Cardinality(inError) = size
          <4>1. passed \union inError = sent /\ passed \intersect inError = {}
              BY <2>10
          <4> QED BY <3>4, <4>1, Split
      <3>10. Cardinality(inError) \in Nat /\ Cardinality(inError) = size - Succeeded
          <4>1. inError \subseteq sent
              BY <2>10
          <4>2. Cardinality(inError) \in Nat
              BY <3>4, <4>1, FS_Subset, FS_CardinalityType
          <4> HIDE DEF passed, size
          <4> QED BY <2>2, <3>6, <3>7, <3>9, <4>2
      <3>11. /\ events[n].total = size /\ events[n].succeeded = Succeeded
             /\ events[n].failed = size - Succeeded
          BY <3>1, <3>2 DEF Complete
      <3> QED BY <2>2, <3>1, <3>7, <3>8, <3>10, <3>11
  <2> QED BY <2>5, <2>6, <2>7, <2>8, <2>10 DEF StreamAddsUp, told, refused, inError
<1> QED BY <1>1, BatchAlways, PTL
=============================================================================
