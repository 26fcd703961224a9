----------------------------- MODULE ProbeEngine -----------------------------
(****************************************************************************)
(* The probe engine of the main process: class SsrfProbeEngine of           *)
(* analysis/probe-engine.ts, over the gate of ProbeGate. A call of resolve  *)
(* (kind "result") or of text (kind "text") is answered from the cache, or  *)
(* from the request in flight for its key, or by a request of its own that  *)
(* passes through the gate.                                                 *)
(*                                                                          *)
(* For a text the code's key also holds the size asked for: two sizes of    *)
(* one page are two addresses here. Of a ProbeResult the model keeps what   *)
(* the engine decides on: the address, the call whose request produced it,  *)
(* when, whether a status was obtained, and whether a body may be           *)
(* remembered. A unit of "now" is FAILURE_TTL_MS. Calls are numbered in the *)
(* order in which they are made.                                            *)
(****************************************************************************)
EXTENDS ProbeGate, Sublists

CONSTANTS Key,            \* the keys asked for: records of a kind and an address
          CacheMax,       \* [Kinds -> Nat \ {0}]: CACHE_MAX_ENTRIES, TEXT_CACHE_MAX_ENTRIES
          SuccessTtl, FailureTtl,
          MaxTime,        \* bound on the clock
          None            \* "no call", "no result", "nothing asked", "no reply"

Kinds == {"result", "text"}

ASSUME EngineAssumption ==
    /\ Calls \subseteq Nat
    /\ \A k \in Key : k.kind \in Kinds /\ k = [kind |-> k.kind, url |-> k.url]
    /\ CacheMax \in [Kinds -> Nat \ {0}]
    /\ SuccessTtl \in Nat /\ FailureTtl \in Nat /\ MaxTime \in Nat
    /\ None \notin Calls

VARIABLES now,
          cache,      \* resultCache and textCache: entries in insertion order
          inFlight,   \* inFlightResults and inFlightTexts: the owner, per key
          want,       \* what each call asked for
          state,      \* where the call stands in resolve or text
          source,     \* the call whose request a sharing call awaits
          sent,       \* the outgoing requests made for the call
          outcome,    \* what the call's own request gave
          reply       \* what the call returned

callVars == <<want, state, source, sent, outcome, reply>>
vars == <<gateVars, now, cache, inFlight, callVars>>

Urls == {k.url : k \in Key}
Result == [url : Urls, by : Calls, at : 0..MaxTime, reached : BOOLEAN, small : BOOLEAN]
Entry == [url : Urls, value : Result, expiresAt : Nat]

(* ttlFor: a failure is believed for a much shorter time.                   *)
TtlFor(result) == IF result.reached THEN SuccessTtl ELSE FailureTtl

(* A text is remembered when it has a body and the body is small enough.    *)
Cacheable(kind, result) == kind = "text" => result.reached /\ result.small

Expired(entry) == now > entry.expiresAt

EntriesOf(k) == {e \in ToSet(cache[k.kind]) : e.url = k.url}

(* Mutant of Found: a lookup that forgets the expiry.                       *)
FoundStale(k) == {e.value : e \in EntriesOf(k)}

(* cacheGet: what a lookup returns, and the cache it leaves (an entry found *)
(* expired is deleted).                                                     *)
Found(k) == {e.value : e \in {f \in EntriesOf(k) : ~Expired(f)}}
AfterLookup(k) ==
    [cache EXCEPT ![k.kind] = Keep(@, {i \in DOMAIN @ : ~(@[i].url = k.url /\ Expired(@[i]))})]

(* Mutant of CacheSet: the oldest leave, good or expired.                   *)
CacheSetByAge(entries, entry, max) ==
    LET put == Append(Keep(entries, {i \in DOMAIN entries : entries[i].url # entry.url}), entry)
    IN  IF Len(put) <= max THEN put ELSE SubSeq(put, Len(put) - max + 1, Len(put))

(* cacheSet: over the limit, expired entries leave first, then the oldest.  *)
CacheSet(entries, entry, max) ==
    LET put  == IF \E i \in DOMAIN entries : entries[i].url = entry.url
                THEN [i \in DOMAIN entries |->
                          IF entries[i].url = entry.url THEN entry ELSE entries[i]]
                ELSE Append(entries, entry)
        live == Keep(put, {i \in DOMAIN put : ~Expired(put[i])})
    IN  IF Len(put) <= max THEN put
        ELSE IF Len(live) <= max THEN live
        ELSE SubSeq(live, Len(live) - max + 1, Len(live))

Init ==
    /\ GateInit
    /\ now = 0
    /\ cache = [kind \in Kinds |-> <<>>]
    /\ inFlight = [k \in Key |-> None]
    /\ want = [c \in Calls |-> None]
    /\ state = [c \in Calls |-> "idle"]
    /\ source = [c \in Calls |-> None]
    /\ sent = [c \in Calls |-> 0]
    /\ outcome = [c \in Calls |-> None]
    /\ reply = [c \in Calls |-> None]

Answer(c, result, billable) ==
    /\ state' = [state EXCEPT ![c] = "answered"]
    /\ reply' = [reply EXCEPT ![c] = [result |-> result, billable |-> billable]]

-----------------------------------------------------------------------------
(* resolve or text, first segment: served by the cache.                     *)
Hit(c, k) ==
    /\ state[c] = "idle"
    /\ \E result \in Found(k) : Answer(c, result, FALSE)
    /\ want' = [want EXCEPT ![c] = k]
    /\ UNCHANGED <<gateVars, now, cache, inFlight, source, sent, outcome>>

(* First segment: a request is already in flight for this key, await it.    *)
Join(c, k) ==
    /\ state[c] = "idle"
    /\ Found(k) = {}
    /\ inFlight[k] # None
    /\ cache' = AfterLookup(k)
    /\ want' = [want EXCEPT ![c] = k]
    /\ state' = [state EXCEPT ![c] = "sharing"]
    /\ source' = [source EXCEPT ![c] = inFlight[k]]
    /\ UNCHANGED <<gateVars, now, inFlight, sent, outcome, reply>>

(* Mutant of Launch: the request leaves without going through the gate.     *)
LaunchUngated(c, k) ==
    /\ state[c] = "idle"
    /\ Found(k) = {}
    /\ inFlight[k] = None
    /\ cache' = AfterLookup(k)
    /\ inFlight' = [inFlight EXCEPT ![k] = c]
    /\ want' = [want EXCEPT ![c] = k]
    /\ state' = [state EXCEPT ![c] = "owning"]
    /\ sent' = [sent EXCEPT ![c] = 1]
    /\ active' = active + 1
    /\ phase' = [phase EXCEPT ![c] = "running"]
    /\ UNCHANGED <<waiting, now, source, outcome, reply>>

(* First segment: nothing known, a request of its own. It leaves at once if *)
(* the gate has room.                                                       *)
Launch(c, k) ==
    /\ state[c] = "idle"
    /\ Found(k) = {}
    /\ inFlight[k] = None
    /\ cache' = AfterLookup(k)
    /\ inFlight' = [inFlight EXCEPT ![k] = c]
    /\ want' = [want EXCEPT ![c] = k]
    /\ state' = [state EXCEPT ![c] = "owning"]
    /\ \/ Enter(c) /\ sent' = [sent EXCEPT ![c] = 1]
       \/ Park(c) /\ UNCHANGED sent
    /\ UNCHANGED <<now, source, outcome, reply>>

Ask(c) ==
    /\ \A d \in Calls : d < c => state[d] # "idle"
    /\ \E k \in Key : Hit(c, k) \/ Join(c, k) \/ Launch(c, k)

(* A woken waiter starts its request.                                       *)
WakeUp(c) ==
    /\ Resume(c)
    /\ sent' = [sent EXCEPT ![c] = 1]
    /\ UNCHANGED <<now, cache, inFlight, want, state, source, outcome, reply>>

(* Mutant of RetryWithGet: retried for as long as the server refuses.       *)
RetryWithoutEnd(c) ==
    /\ phase[c] = "running"
    /\ want[c].kind = "result"
    /\ sent' = [sent EXCEPT ![c] = @ + 1]
    /\ UNCHANGED <<gateVars, now, cache, inFlight, want, state, source, outcome, reply>>

(* perform: the server refuses the method (403, 405 or 501), ask again with *)
(* GET. The place in the gate is kept.                                      *)
RetryWithGet(c) ==
    /\ phase[c] = "running"
    /\ want[c].kind = "result"
    /\ sent[c] = 1
    /\ sent' = [sent EXCEPT ![c] = 2]
    /\ UNCHANGED <<gateVars, now, cache, inFlight, want, state, source, outcome, reply>>

(* The request is over: a status, or a failure (network, timeout, refused   *)
(* address), which is a result and never an exception. The finally block of *)
(* run follows. "small" is about a body: FALSE unless a text was read.      *)
Finish(c) ==
    /\ Release(c)
    /\ \E reached, small \in BOOLEAN :
          /\ small => reached /\ want[c].kind = "text"
          /\ outcome' = [outcome EXCEPT ![c] =
                [url |-> want[c].url, by |-> c, at |-> now,
                 reached |-> reached, small |-> small]]
    /\ UNCHANGED <<now, cache, inFlight, want, state, source, sent, reply>>

(* Mutants: Settle gives the key back only when the result is kept (no      *)
(* finally); Share bills the request of another call.                       *)
SettleNoFinally(c) ==
    /\ state[c] = "owning"
    /\ phase[c] = "left"
    /\ LET k == want[c]
           entry == [url |-> k.url, value |-> outcome[c],
                     expiresAt |-> now + TtlFor(outcome[c])]
       IN IF Cacheable(k.kind, outcome[c])
          THEN /\ cache' = [cache EXCEPT ![k.kind] = CacheSet(@, entry, CacheMax[k.kind])]
               /\ inFlight' = [inFlight EXCEPT ![k] = None]
          ELSE UNCHANGED <<cache, inFlight>>
    /\ Answer(c, outcome[c], TRUE)
    /\ UNCHANGED <<gateVars, now, want, source, sent, outcome>>
ShareBilled(c) ==
    /\ state[c] = "sharing"
    /\ state[source[c]] = "answered"
    /\ Answer(c, outcome[source[c]], TRUE)
    /\ UNCHANGED <<gateVars, now, cache, inFlight, want, source, sent, outcome>>

(* The owner's continuation: remember, answer as billable, and give the key *)
(* back.                                                                    *)
Settle(c) ==
    /\ state[c] = "owning"
    /\ phase[c] = "left"
    /\ LET k == want[c]
           entry == [url |-> k.url, value |-> outcome[c],
                     expiresAt |-> now + TtlFor(outcome[c])]
       IN /\ cache' = IF Cacheable(k.kind, outcome[c])
                      THEN [cache EXCEPT ![k.kind] = CacheSet(@, entry, CacheMax[k.kind])]
                      ELSE cache
          /\ inFlight' = [inFlight EXCEPT ![k] = None]
    /\ Answer(c, outcome[c], TRUE)
    /\ UNCHANGED <<gateVars, now, want, source, sent, outcome>>

(* A sharing call's continuation. It registered on the promise after the    *)
(* owner did, so it runs after the owner's.                                 *)
Share(c) ==
    /\ state[c] = "sharing"
    /\ state[source[c]] = "answered"
    /\ Answer(c, outcome[source[c]], FALSE)
    /\ UNCHANGED <<gateVars, now, cache, inFlight, want, source, sent, outcome>>

(* Time passes between two drains of the microtask queue: a drain is short  *)
(* beside a unit of the clock.                                              *)
Drained ==
    \A c \in Calls : /\ phase[c] # "woken"
                     /\ ~(state[c] = "owning" /\ phase[c] = "left")
                     /\ ~(state[c] = "sharing" /\ state[source[c]] = "answered")
Tick ==
    /\ now < MaxTime
    /\ Drained
    /\ now' = now + 1
    /\ UNCHANGED <<gateVars, cache, inFlight, callVars>>

Next ==
    \/ \E c \in Calls : \/ Ask(c) \/ WakeUp(c) \/ RetryWithGet(c)
                        \/ Finish(c) \/ Settle(c) \/ Share(c)
    \/ Tick

Spec == Init /\ [][Next]_vars

(* Microtasks run, and every request ends (timeoutMs bounds each fetch).    *)
Fairness ==
    \A c \in Calls : /\ WF_vars(WakeUp(c)) /\ WF_vars(Finish(c))
                     /\ WF_vars(Settle(c)) /\ WF_vars(Share(c))

FairSpec == Spec /\ Fairness

-----------------------------------------------------------------------------
(* The tables, the caches and the state of each call keep their types.      *)
TypeOK ==
    /\ GateTypeOK
    /\ now \in 0..MaxTime
    /\ \A kind \in Kinds : ToSet(cache[kind]) \subseteq Entry
    /\ inFlight \in [Key -> Calls \cup {None}]
    /\ want \in [Calls -> Key \cup {None}]
    /\ state \in [Calls -> {"idle", "sharing", "owning", "answered"}]
    /\ source \in [Calls -> Calls \cup {None}]
    /\ sent \in [Calls -> 0..2]
    /\ outcome \in [Calls -> Result \cup {None}]
    /\ reply \in [Calls -> [result : Result, billable : BOOLEAN] \cup {None}]

(* "Deux demandes simultanees sur la meme URL partagent la meme requete"    *)
(* (probe-engine.ts:19): the calls that own an unfinished request have      *)
(* different keys, and the in-flight table names exactly them, from the     *)
(* queue of the gate to the writing of the cache.                           *)
OneRequestPerKey ==
    \A k \in Key : \A c \in Calls :
        (state[c] = "owning" /\ want[c] = k) <=> (inFlight[k] = c)

(* A call is billed exactly when a request really left for it: what the     *)
(* wallets of network-probe.ts keep or give back is decided on this.        *)
BilledIffSent ==
    \A c \in Calls : reply[c] # None => (reply[c].billable <=> sent[c] > 0)

(* An answer is about the address asked for, and it is not older than its   *)
(* time to live when it is given: a failure does not outlive a minute.      *)
FreshAnswers ==
    [][\A c \in Calls : reply[c] # reply'[c] =>
          LET r == reply'[c].result
          IN r.url = want'[c].url /\ now - r.at <= TtlFor(r)]_vars

(* Eviction drops an entry that is still good only when the cache is full   *)
(* of good entries, and then the oldest of them: what remains was obtained  *)
(* no earlier than what left. What was just written is among what remains.  *)
EvictsOldestLast ==
    [][/\ \A kind \in Kinds : \A e \in ToSet(cache[kind]) \ ToSet(cache'[kind]) :
             ~Expired(e) =>
                 /\ Len(cache'[kind]) = CacheMax[kind]
                 /\ \A f \in ToSet(cache'[kind]) : ~Expired(f) /\ f.value.at >= e.value.at
       /\ \A c \in Calls : LET kind == want[c].kind
                           IN  (state[c] = "owning" /\ reply[c] # reply'[c]
                                /\ Cacheable(kind, outcome[c]))
                               => \E f \in ToSet(cache'[kind]) : f.value = outcome[c]]_vars

(* Every call is answered: none stays parked, and none waits for a request  *)
(* that nobody settles.                                                     *)
EveryCallAnswered ==
    \A c \in Calls : (state[c] # "idle") ~> (state[c] = "answered")
=============================================================================
