----------------------------- MODULE Probe_proofs ----------------------------
(****************************************************************************)
(* What the gate of ProbeGate, the engine of ProbeEngine and the budget of  *)
(* ProbeBudget guarantee for any calls, keys, caches and times, any checks, *)
(* quotas, ceiling and pool size.                                           *)
(*                                                                          *)
(* The gate: its bookkeeping is exact and no call waits in front of a free  *)
(* place. The engine: it drives its gate as ProbeGate says, and inherits    *)
(* what is proved of it; the in-flight table names exactly the requests     *)
(* under way; a call is billed exactly when a request left for it; an       *)
(* answer is fresh; an eviction spares what it can. The budget: nothing is  *)
(* lost between the two wallets, so that the ceiling is kept, and each call *)
(* of checkMany is a pool of workers.                                       *)
(****************************************************************************)
EXTENDS ProbeEngine, ProbeBudget, TLAPS, FiniteSetTheorems, SequenceTheorems


(* The gate. Its four facts are inductive only together: that no call waits *)
(* in front of a free place rests on the counter being exact, on the queue  *)
(* holding the parked calls, and on the types.                              *)
GateInv == GateTypeOK /\ ActiveExact /\ QueueExact /\ NoIdlePlace

(* The calls in a phase are finitely many.                                  *)
LEMMA PhaseFinite ==
    ASSUME NEW p
    PROVE  /\ IsFiniteSet(InPhase(p))
           /\ Cardinality(InPhase(p)) \in Nat
<1>1. InPhase(p) \in SUBSET Calls
    BY DEF InPhase
<1>2. IsFiniteSet(InPhase(p))
    BY <1>1, FS_Subset, GateAssumption
<1> QED BY <1>2, FS_CardinalityType

(* One call moves from a phase to another: what becomes of the number of    *)
(* calls in each phase.                                                     *)
LEMMA OneMoves ==
    ASSUME GateTypeOK, NEW t \in Calls, NEW p, NEW q,
           phase[t] = p, p # q, phase' = [phase EXCEPT ![t] = q]
    PROVE  /\ Cardinality(InPhase(p))' = Cardinality(InPhase(p)) - 1
           /\ Cardinality(InPhase(q))' = Cardinality(InPhase(q)) + 1
<1>1. InPhase(p)' = InPhase(p) \ {t}
    BY DEF InPhase, GateTypeOK
<1>2. InPhase(q)' = InPhase(q) \cup {t}
    BY DEF InPhase, GateTypeOK
<1>3. t \in InPhase(p) /\ t \notin InPhase(q)
    BY DEF InPhase
<1>4. Cardinality(InPhase(p) \ {t}) = Cardinality(InPhase(p)) - 1
    BY <1>3, PhaseFinite, FS_RemoveElement
<1>5. Cardinality(InPhase(q) \cup {t}) = Cardinality(InPhase(q)) + 1
    BY <1>3, PhaseFinite, FS_AddElement
<1> QED BY <1>1, <1>2, <1>4, <1>5

(* The step of the finally block that wakes a waiter moves two calls.       *)
LEMMA TwoMove ==
    ASSUME GateTypeOK, NEW t \in Calls, NEW h \in Calls,
           phase[t] = "running", phase[h] = "parked",
           phase' = [phase EXCEPT ![t] = "left", ![h] = "woken"]
    PROVE  /\ Cardinality(InPhase("running"))' = Cardinality(InPhase("running")) - 1
           /\ Cardinality(InPhase("woken"))' = Cardinality(InPhase("woken")) + 1
           /\ InPhase("parked")' = InPhase("parked") \ {h}
<1>1. t # h /\ phase'[t] = "left" /\ phase'[h] = "woken"
    BY DEF GateTypeOK
<1>2. \A c \in Calls : c # t /\ c # h => phase'[c] = phase[c]
    BY DEF GateTypeOK
<1>3. InPhase("running")' = InPhase("running") \ {t}
    BY <1>1, <1>2 DEF InPhase
<1>4. InPhase("woken")' = InPhase("woken") \cup {h}
    BY <1>1, <1>2 DEF InPhase
<1>5. InPhase("parked")' = InPhase("parked") \ {h}
    BY <1>1, <1>2 DEF InPhase
<1>6. t \in InPhase("running") /\ h \notin InPhase("woken")
    BY DEF InPhase
<1>7. Cardinality(InPhase("running") \ {t}) = Cardinality(InPhase("running")) - 1
    BY <1>6, PhaseFinite, FS_RemoveElement
<1>8. Cardinality(InPhase("woken") \cup {h}) = Cardinality(InPhase("woken")) + 1
    BY <1>6, PhaseFinite, FS_AddElement
<1> QED BY <1>3, <1>4, <1>5, <1>7, <1>8

LEMMA GateInitInv == GateInit => GateInv
<1> SUFFICES ASSUME GateInit PROVE GateInv
    OBVIOUS
<1>1. GateTypeOK
    BY DEF GateInit, GateTypeOK, Phases
<1>2. InPhase("running") = {} /\ InPhase("parked") = {}
    BY DEF GateInit, InPhase
<1>3. ActiveExact
    BY <1>2, FS_EmptySet DEF GateInit, ActiveExact
<1>4. QueueExact /\ NoIdlePlace
    BY <1>2 DEF GateInit, QueueExact, NoIdlePlace
<1> QED BY <1>1, <1>3, <1>4 DEF GateInv

(* A call that finds room takes a place.                                    *)
LEMMA EnterInv ==
    ASSUME GateInv, NEW t \in Calls, Enter(t) PROVE GateInv'
<1> USE DEF GateInv
<1>0. phase[t] = "outside" /\ phase' = [phase EXCEPT ![t] = "running"]
    BY DEF Enter
<1>1. /\ Cardinality(InPhase("running"))' = Cardinality(InPhase("running")) + 1
      /\ InPhase("parked")' = InPhase("parked")
      /\ InPhase("woken")' = InPhase("woken")
  <2>1. /\ Cardinality(InPhase("running"))' = Cardinality(InPhase("running")) + 1
      BY <1>0, OneMoves
  <2>2. /\ InPhase("parked")' = InPhase("parked")
        /\ InPhase("woken")' = InPhase("woken")
      BY <1>0 DEF InPhase, GateTypeOK
  <2> QED BY <2>1, <2>2
<1>2. GateTypeOK'
    BY DEF GateTypeOK, Phases, Enter
<1>3. ActiveExact'
    BY <1>1, PhaseFinite DEF ActiveExact, Enter
<1>4. QueueExact'
    BY <1>1 DEF QueueExact, GateTypeOK, Enter, InPhase
<1>5. NoIdlePlace'
    BY <1>1, PhaseFinite, GateAssumption DEF NoIdlePlace, GateTypeOK, Enter
<1> QED BY <1>2, <1>3, <1>4, <1>5

(* A call that finds the gate full joins the end of the queue.              *)
LEMMA ParkInv ==
    ASSUME GateInv, NEW t \in Calls, Park(t) PROVE GateInv'
<1> USE DEF GateInv
<1>0. phase[t] = "outside" /\ phase' = [phase EXCEPT ![t] = "parked"]
    BY DEF Park
<1>1. /\ InPhase("running")' = InPhase("running")
      /\ InPhase("woken")' = InPhase("woken")
    BY <1>0 DEF InPhase, GateTypeOK
<1>2. GateTypeOK'
    BY DEF GateTypeOK, Phases, Park
<1>3. ActiveExact'
    BY <1>1 DEF ActiveExact, Park
<1>4. /\ Len(waiting') = Len(waiting) + 1
      /\ \A i \in 1..Len(waiting) : waiting'[i] = waiting[i]
      /\ waiting'[Len(waiting) + 1] = t
    BY DEF GateTypeOK, Park
<1>5. \A i \in 1..Len(waiting) : waiting[i] # t
    BY DEF QueueExact, Park
<1>6. QueueExact'
  <2>1. \A i \in 1..Len(waiting') : phase'[waiting'[i]] = "parked"
      BY <1>4, <1>5 DEF QueueExact, GateTypeOK, Park
  <2>2. \A i, j \in 1..Len(waiting') : waiting'[i] = waiting'[j] => i = j
      BY <1>4, <1>5 DEF QueueExact, GateTypeOK
  <2>3. \A c \in InPhase("parked")' : \E i \in 1..Len(waiting') : waiting'[i] = c
      BY <1>4 DEF QueueExact, GateTypeOK, Park, InPhase
  <2> QED BY <2>1, <2>2, <2>3 DEF QueueExact
<1>7. NoIdlePlace'
    BY <1>1, PhaseFinite, GateAssumption DEF NoIdlePlace, GateTypeOK, Park
<1> QED BY <1>2, <1>3, <1>6, <1>7

(* A woken waiter takes its place: it was counted as woken, it is now       *)
(* counted as active.                                                       *)
LEMMA ResumeInv ==
    ASSUME GateInv, NEW t \in Calls, Resume(t) PROVE GateInv'
<1> USE DEF GateInv
<1>0. phase[t] = "woken" /\ phase' = [phase EXCEPT ![t] = "running"]
    BY DEF Resume
<1>1. /\ Cardinality(InPhase("running"))' = Cardinality(InPhase("running")) + 1
      /\ Cardinality(InPhase("woken"))' = Cardinality(InPhase("woken")) - 1
      /\ InPhase("parked")' = InPhase("parked")
  <2>1. /\ Cardinality(InPhase("running"))' = Cardinality(InPhase("running")) + 1
        /\ Cardinality(InPhase("woken"))' = Cardinality(InPhase("woken")) - 1
      BY <1>0, OneMoves
  <2>2. /\ InPhase("parked")' = InPhase("parked")
      BY <1>0 DEF InPhase, GateTypeOK
  <2> QED BY <2>1, <2>2
<1>2. GateTypeOK'
    BY DEF GateTypeOK, Phases, Resume
<1>3. ActiveExact'
    BY <1>1, PhaseFinite DEF ActiveExact, Resume
<1>4. QueueExact'
    BY <1>1 DEF QueueExact, GateTypeOK, Resume, InPhase
<1>5. NoIdlePlace'
    BY <1>1, PhaseFinite, GateAssumption DEF NoIdlePlace, GateTypeOK, Resume
<1> QED BY <1>2, <1>3, <1>4, <1>5

(* The finally block: the place it gives back goes to the waiter it wakes.  *)
LEMMA ReleaseInv ==
    ASSUME GateInv, NEW t \in Calls, Release(t) PROVE GateInv'
<1> USE DEF GateInv
<1>0. active >= 1
  <2>1. t \in InPhase("running")
      BY DEF InPhase, Release
  <2>2. Cardinality(InPhase("running")) # 0
      BY <2>1, PhaseFinite, FS_EmptySet
  <2> QED BY <2>2, PhaseFinite DEF ActiveExact
<1>1. CASE waiting = <<>>
  <2>1. /\ Cardinality(InPhase("running"))' = Cardinality(InPhase("running")) - 1
        /\ InPhase("parked")' = InPhase("parked")
    <3>1. phase[t] = "running" /\ phase' = [phase EXCEPT ![t] = "left"]
        BY <1>1 DEF Release
    <3>2. Cardinality(InPhase("running"))' = Cardinality(InPhase("running")) - 1
        BY <3>1, OneMoves
    <3>3. InPhase("parked")' = InPhase("parked")
        BY <3>1 DEF InPhase, GateTypeOK
    <3> QED BY <3>2, <3>3
  <2>2. GateTypeOK'
      BY <1>0, <1>1 DEF GateTypeOK, Phases, Release
  <2>3. ActiveExact'
      BY <1>1, <2>1, PhaseFinite DEF ActiveExact, Release
  <2>4. QueueExact' /\ NoIdlePlace'
      BY <1>1, <2>1 DEF QueueExact, NoIdlePlace, GateTypeOK, Release
  <2> QED BY <2>2, <2>3, <2>4
<1>2. CASE waiting # <<>>
  <2> DEFINE h == waiting[1]
  <2>1. /\ Len(waiting) >= 1
        /\ h \in Calls
        /\ Head(waiting) = h
        /\ waiting' = Tail(waiting)
        /\ waiting' \in Seq(Calls)
        /\ Len(waiting') = Len(waiting) - 1
        /\ \A i \in 1..Len(waiting') : waiting'[i] = waiting[i + 1]
      BY <1>2, HeadTailProperties DEF GateTypeOK, Release
  <2>2. phase[t] = "running" /\ phase[h] = "parked"
      BY <2>1 DEF QueueExact, Release
  <2>3. phase' = [phase EXCEPT ![t] = "left", ![h] = "woken"]
      BY <1>2, <2>1 DEF Release
  <2>4. /\ Cardinality(InPhase("running"))' = Cardinality(InPhase("running")) - 1
        /\ Cardinality(InPhase("woken"))' = Cardinality(InPhase("woken")) + 1
        /\ InPhase("parked")' = InPhase("parked") \ {h}
      BY <2>1, <2>2, <2>3, TwoMove
  <2>5. GateTypeOK'
      BY <1>0, <2>1, <2>3 DEF GateTypeOK, Phases, Release
  <2>6. ActiveExact'
      BY <2>4, PhaseFinite DEF ActiveExact, Release
  <2>7. QueueExact'
    <3>1. \A i \in 1..Len(waiting') : waiting'[i] # h /\ waiting'[i] # t
        BY <2>1, <2>2 DEF QueueExact, GateTypeOK
    <3>2. \A i \in 1..Len(waiting') : phase'[waiting'[i]] = "parked"
      <4> SUFFICES ASSUME NEW i \in 1..Len(waiting')
                   PROVE  phase'[waiting'[i]] = "parked"
          OBVIOUS
      <4>1. waiting'[i] \in Calls /\ phase[waiting'[i]] = "parked"
          BY <2>1 DEF QueueExact, GateTypeOK
      <4> QED BY <3>1, <4>1, <2>3 DEF GateTypeOK
    <3>3. \A i, j \in 1..Len(waiting') : waiting'[i] = waiting'[j] => i = j
        BY <2>1 DEF QueueExact, GateTypeOK
    <3>4. \A c \in InPhase("parked")' : \E i \in 1..Len(waiting') : waiting'[i] = c
      <4> SUFFICES ASSUME NEW c \in InPhase("parked") \ {h}
                   PROVE  \E i \in 1..Len(waiting') : waiting'[i] = c
          BY <2>4
      <4>1. PICK i \in 1..Len(waiting) : waiting[i] = c
          BY DEF QueueExact
      <4>2. i - 1 \in 1..Len(waiting') /\ waiting'[i - 1] = waiting[i]
          BY <2>1, <4>1 DEF GateTypeOK
      <4> QED BY <4>1, <4>2
    <3> QED BY <3>2, <3>3, <3>4 DEF QueueExact
  <2>8. NoIdlePlace'
      BY <1>2, <2>4, PhaseFinite, GateAssumption DEF NoIdlePlace, GateTypeOK, Release
  <2> QED BY <2>5, <2>6, <2>7, <2>8
<1> QED BY <1>1, <1>2

LEMMA GateStepInv == GateInv /\ [GateNext]_gateVars => GateInv'
<1> SUFFICES ASSUME GateInv, [GateNext]_gateVars PROVE GateInv'
    OBVIOUS
<1>1. ASSUME NEW t \in Calls, GateStep(t) PROVE GateInv'
    BY <1>1, EnterInv, ParkInv, ResumeInv, ReleaseInv DEF GateStep
<1>2. CASE UNCHANGED gateVars
    BY <1>2 DEF gateVars, GateInv, GateTypeOK, ActiveExact, QueueExact, NoIdlePlace, InPhase
<1> QED BY <1>1, <1>2 DEF GateNext

(* The gate keeps its whole invariant (Gate.run, probe-engine.ts:232).      *)
THEOREM GateInvariant == GateSpec => []GateInv
<1> QED BY GateInitInv, GateStepInv, PTL DEF GateSpec

(* The counter, the queue and the phases keep their types: in particular    *)
(* "active" never goes below zero.                                          *)
THEOREM GateTypeCorrect == GateSpec => []GateTypeOK
<1>1. GateInv => GateTypeOK
    BY DEF GateInv
<1> QED BY <1>1, GateInvariant, PTL

(* The gate's bookkeeping is exact: "active" counts the running tasks, and  *)
(* the waiting list holds each parked call once.                            *)
THEOREM GateIsExact == GateSpec => []GateExact
<1>1. GateInv => GateExact
    BY DEF GateInv, GateExact
<1> QED BY <1>1, GateInvariant, PTL

(* No call waits in front of a free place, for any limit and any calls.     *)
THEOREM GateIsNeverIdle == GateSpec => []NoIdlePlace
<1>1. GateInv => NoIdlePlace
    BY DEF GateInv
<1> QED BY <1>1, GateInvariant, PTL

-----------------------------------------------------------------------------
(* Every step of the engine is a step of the gate, or leaves it alone.      *)
LEMMA EngineStepIsGateStep == [Next]_vars => [GateNext]_gateVars
<1> SUFFICES ASSUME [Next]_vars PROVE [GateNext]_gateVars
    OBVIOUS
<1>1. ASSUME NEW c \in Calls, Ask(c) PROVE [GateNext]_gateVars
    BY <1>1 DEF Ask, Hit, Join, Launch, GateNext, GateStep
<1>2. ASSUME NEW c \in Calls, WakeUp(c) PROVE [GateNext]_gateVars
    BY <1>2 DEF WakeUp, GateNext, GateStep
<1>3. ASSUME NEW c \in Calls, RetryWithGet(c) PROVE [GateNext]_gateVars
    BY <1>3 DEF RetryWithGet
<1>4. ASSUME NEW c \in Calls, Finish(c) PROVE [GateNext]_gateVars
    BY <1>4 DEF Finish, GateNext, GateStep
<1>5. ASSUME NEW c \in Calls, Settle(c) \/ Share(c) PROVE [GateNext]_gateVars
    BY <1>5 DEF Settle, Share
<1>6. CASE Tick \/ UNCHANGED vars
    BY <1>6 DEF Tick, vars
<1> QED BY <1>1, <1>2, <1>3, <1>4, <1>5, <1>6 DEF Next

(* The engine implements the gate (resolve and text call Gate.run and       *)
(* nothing else touches it, probe-engine.ts:126-217).                       *)
THEOREM EngineImplementsGate == Spec => GateSpec
<1>1. Init => GateInit
    BY DEF Init
<1> QED BY <1>1, EngineStepIsGateStep, PTL DEF Spec, GateSpec

(* So no call of the engine waits in front of a free place.                 *)
THEOREM EngineIsNeverIdle == Spec => []NoIdlePlace
<1> QED BY EngineImplementsGate, GateIsNeverIdle, PTL

(* And its gate's bookkeeping is exact.                                     *)
THEOREM EngineGateIsExact == Spec => []GateExact
<1> QED BY EngineImplementsGate, GateIsExact, PTL

-----------------------------------------------------------------------------
(* How the two halves of a call go together: where it stands in resolve or  *)
(* text, where it stands in the gate, and how many requests left for it.    *)
Coupled(c) ==
    \/ /\ state[c] \in {"idle", "sharing"}
       /\ phase[c] = "outside" /\ sent[c] = 0 /\ reply[c] = None
    \/ /\ state[c] = "owning"
       /\ phase[c] \in {"parked", "woken"} /\ sent[c] = 0 /\ reply[c] = None
    \/ /\ state[c] = "owning"
       /\ phase[c] \in {"running", "left"} /\ sent[c] \in {1, 2} /\ reply[c] = None
    \/ /\ state[c] = "answered"
       /\ \/ phase[c] = "outside" /\ sent[c] = 0 /\ ~reply[c].billable
          \/ phase[c] = "left" /\ sent[c] \in {1, 2} /\ reply[c].billable

CallTypes ==
    /\ state \in [Calls -> {"idle", "sharing", "owning", "answered"}]
    /\ sent \in [Calls -> 0..2]
    /\ DOMAIN reply = Calls
    /\ DOMAIN want = Calls
    /\ DOMAIN inFlight = Key

CallsInv == CallTypes /\ \A c \in Calls : Coupled(c)
EngineInv == CallTypes /\ OneRequestPerKey

LEMMA EngineInit == Init => CallsInv /\ EngineInv
<1> SUFFICES ASSUME Init PROVE CallsInv /\ EngineInv
    OBVIOUS
<1>1. CallTypes
    BY DEF Init, CallTypes
<1>2. \A c \in Calls : Coupled(c)
    BY DEF Init, GateInit, Coupled
<1>3. OneRequestPerKey
    BY EngineAssumption DEF Init, OneRequestPerKey
<1> QED BY <1>1, <1>2, <1>3 DEF CallsInv, EngineInv

LEMMA TypesStep == CallTypes /\ [Next]_vars => CallTypes'
<1> SUFFICES ASSUME CallTypes, [Next]_vars PROVE CallTypes'
    OBVIOUS
<1> USE DEF CallTypes
<1>1. ASSUME NEW c \in Calls, Ask(c) PROVE CallTypes'
    BY <1>1 DEF Ask, Hit, Join, Launch, Answer
<1>2. ASSUME NEW c \in Calls, WakeUp(c) PROVE CallTypes'
    BY <1>2 DEF WakeUp
<1>3. ASSUME NEW c \in Calls, RetryWithGet(c) PROVE CallTypes'
    BY <1>3 DEF RetryWithGet
<1>4. ASSUME NEW c \in Calls, Finish(c) PROVE CallTypes'
    BY <1>4 DEF Finish
<1>5. ASSUME NEW c \in Calls, Settle(c) \/ Share(c) PROVE CallTypes'
    BY <1>5 DEF Settle, Share, Answer
<1>6. CASE Tick \/ UNCHANGED vars
    BY <1>6 DEF Tick, vars, callVars
<1> QED BY <1>1, <1>2, <1>3, <1>4, <1>5, <1>6 DEF Next

(* The in-flight table: an owner registers a free key, and only the owner   *)
(* of a key gives it back.                                                  *)
LEMMA OneRequestStep == EngineInv /\ [Next]_vars => OneRequestPerKey'
<1> SUFFICES ASSUME EngineInv, [Next]_vars PROVE OneRequestPerKey'
    OBVIOUS
<1> USE DEF EngineInv, CallTypes, OneRequestPerKey
<1>1. ASSUME NEW c \in Calls, NEW k \in Key, Hit(c, k) PROVE OneRequestPerKey'
    BY <1>1, EngineAssumption DEF Hit, Answer
<1>2. ASSUME NEW c \in Calls, NEW k \in Key, Join(c, k) PROVE OneRequestPerKey'
    BY <1>2, EngineAssumption DEF Join
<1>3. ASSUME NEW c \in Calls, NEW k \in Key, Launch(c, k) PROVE OneRequestPerKey'
    BY <1>3, EngineAssumption DEF Launch
<1>4. ASSUME NEW c \in Calls, WakeUp(c) \/ RetryWithGet(c) \/ Finish(c)
      PROVE  OneRequestPerKey'
    BY <1>4 DEF WakeUp, RetryWithGet, Finish
<1>5. ASSUME NEW c \in Calls, Settle(c) PROVE OneRequestPerKey'
    BY <1>5, EngineAssumption DEF Settle, Answer
<1>6. ASSUME NEW c \in Calls, Share(c) PROVE OneRequestPerKey'
    BY <1>6 DEF Share, Answer
<1>7. CASE Tick \/ UNCHANGED vars
    BY <1>7 DEF Tick, vars, callVars
<1> QED BY <1>1, <1>2, <1>3, <1>4, <1>5, <1>6, <1>7 DEF Next, Ask

(* At most one request is under way for a key, however many calls ask for   *)
(* it and however long it waits in the gate (resolve and text,              *)
(* probe-engine.ts:126-168).                                                *)
THEOREM EngineOneRequestPerKey == Spec => []OneRequestPerKey
<1>1. EngineInv /\ [Next]_vars => EngineInv'
    BY TypesStep, OneRequestStep DEF EngineInv
<1>2. EngineInv => OneRequestPerKey
    BY DEF EngineInv
<1> QED BY EngineInit, <1>1, <1>2, PTL DEF Spec

-----------------------------------------------------------------------------
(* A step that is c's own leaves the other calls' halves together.          *)
LEMMA CoupledStep == GateInv /\ CallsInv /\ [Next]_vars => (\A c \in Calls : Coupled(c))'
<1> SUFFICES ASSUME GateInv, CallsInv, [Next]_vars, NEW d \in Calls
             PROVE  Coupled(d)'
    OBVIOUS
<1>0. Coupled(d)
    BY DEF CallsInv
<1> USE DEF CallsInv, CallTypes
<1>1. ASSUME NEW c \in Calls, NEW k \in Key, Hit(c, k) PROVE Coupled(d)'
    BY <1>0, <1>1 DEF Hit, Answer, Coupled, gateVars
<1>2. ASSUME NEW c \in Calls, NEW k \in Key, Join(c, k) PROVE Coupled(d)'
    BY <1>0, <1>2 DEF Join, Coupled, gateVars
<1>3. ASSUME NEW c \in Calls, NEW k \in Key, Launch(c, k) PROVE Coupled(d)'
  <2>1. phase \in [Calls -> Phases]
      BY DEF GateInv, GateTypeOK
  <2>2. Coupled(c) /\ state[c] = "idle"
      BY <1>3 DEF Launch
  <2>3. CASE Enter(c) /\ sent' = [sent EXCEPT ![c] = 1]
      BY <1>0, <1>3, <2>1, <2>2, <2>3 DEF Launch, Enter, Coupled
  <2>4. CASE Park(c) /\ UNCHANGED sent
      BY <1>0, <1>3, <2>1, <2>2, <2>4 DEF Launch, Park, Coupled
  <2> QED BY <1>3, <2>3, <2>4 DEF Launch
<1>4. ASSUME NEW c \in Calls, WakeUp(c) PROVE Coupled(d)'
    BY <1>0, <1>4 DEF WakeUp, Resume, Coupled, GateInv, GateTypeOK
<1>5. ASSUME NEW c \in Calls, RetryWithGet(c) PROVE Coupled(d)'
    BY <1>0, <1>5 DEF RetryWithGet, Coupled, gateVars
<1>6. ASSUME NEW c \in Calls, Finish(c) PROVE Coupled(d)'
  <2>1. phase \in [Calls -> Phases] /\ waiting \in Seq(Calls)
      BY DEF GateInv, GateTypeOK
  <2>2. Coupled(c) /\ phase[c] = "running" /\ Release(c)
      BY <1>6 DEF Finish, Release
  <2>3. CASE waiting = <<>>
      BY <1>0, <1>6, <2>1, <2>2, <2>3 DEF Finish, Release, Coupled
  <2>4. CASE waiting # <<>>
    <3>1. Head(waiting) = waiting[1] /\ 1 \in 1..Len(waiting)
        BY <2>1, <2>4
    <3>2. phase[Head(waiting)] = "parked"
        BY <3>1 DEF GateInv, QueueExact
    <3> QED BY <1>0, <1>6, <2>1, <2>2, <2>4, <3>2 DEF Finish, Release, Coupled
  <2> QED BY <2>3, <2>4
<1>7. ASSUME NEW c \in Calls, Settle(c) PROVE Coupled(d)'
    BY <1>0, <1>7 DEF Settle, Answer, Coupled, gateVars
<1>8. ASSUME NEW c \in Calls, Share(c) PROVE Coupled(d)'
    BY <1>0, <1>8 DEF Share, Answer, Coupled, gateVars
<1>9. CASE Tick \/ UNCHANGED vars
    BY <1>0, <1>9 DEF Tick, vars, callVars, gateVars, Coupled
<1> QED BY <1>1, <1>2, <1>3, <1>4, <1>5, <1>6, <1>7, <1>8, <1>9 DEF Next, Ask

(* A reply is billable exactly when a request left for the call: the units  *)
(* of network-probe.ts are kept or given back on this.                      *)
THEOREM EngineBilledIffSent == Spec => []BilledIffSent
<1>1. Spec => []GateInv
    BY EngineImplementsGate, GateInvariant, PTL
<1>2. GateInv /\ CallsInv /\ [Next]_vars => CallsInv'
    BY CoupledStep, TypesStep DEF CallsInv
<1>3. CallsInv => BilledIffSent
    BY DEF CallsInv, CallTypes, Coupled, BilledIffSent
<1> QED BY EngineInit, <1>1, <1>2, <1>3, PTL DEF Spec
-----------------------------------------------------------------------------
(* The caches. An entry is about its address, was obtained in the past, and *)
(* does not expire later than its time to live; a cache lists its entries   *)
(* from the oldest to the newest.                                           *)
Good(e) ==
    /\ e.value.url = e.url
    /\ e.value.at <= now
    /\ e.expiresAt <= e.value.at + TtlFor(e.value)

ByAge(entries) ==
    \A i, j \in DOMAIN entries : i < j => entries[i].value.at <= entries[j].value.at

CacheKept ==
    /\ now \in 0..MaxTime
    /\ DOMAIN cache = Kinds
    /\ \A kind \in Kinds : cache[kind] \in Seq(Entry) /\ ByAge(cache[kind])
    /\ \A kind \in Kinds : \A e \in ToSet(cache[kind]) : Good(e)

(* The owner of a key found nothing for it, and nobody else writes it: it   *)
(* never overwrites an entry, which would break the order of the cache.     *)
NothingKept ==
    \A c \in Calls : state[c] = "owning" =>
        /\ want[c] \in Key
        /\ \A e \in ToSet(cache[want[c].kind]) : e.url # want[c].url

(* What a request gave is handed on before time passes: by the owner, then  *)
(* by the calls that share it.                                              *)
Landed(c) == outcome[c] \in Result /\ outcome[c].at = now /\ outcome[c].url = want[c].url

OwnersLanded ==
    /\ DOMAIN outcome = Calls
    /\ \A c \in Calls : state[c] = "owning" /\ phase[c] = "left" => Landed(c)

SharersFollow ==
    /\ DOMAIN source = Calls
    /\ \A k \in Key : inFlight[k] \in Calls \union {None}
    /\ \A c \in Calls : state[c] = "sharing" =>
           /\ want[c] \in Key
           /\ source[c] \in Calls /\ want[source[c]] = want[c]
           /\ \/ state[source[c]] = "owning"
              \/ state[source[c]] = "answered" /\ Landed(source[c])

KeptInv == CacheKept /\ NothingKept /\ OwnersLanded /\ SharersFollow

(* A key is its kind and its address.                                       *)
LEMMA KeysTold ==
    ASSUME NEW k \in Key
    PROVE  /\ k.kind \in Kinds /\ k.url \in Urls
           /\ \A l \in Key : l.kind = k.kind /\ l.url = k.url => l = k
BY EngineAssumption DEF Urls

LEMMA EntriesTyped ==
    ASSUME NEW e \in Entry
    PROVE  e.value \in Result /\ e.value.at \in Nat /\ e.expiresAt \in Nat /\ e.url \in Urls
           /\ TtlFor(e.value) \in Nat
BY EngineAssumption DEF Entry, Result, TtlFor

(* Keeping some entries of a cache keeps their order.                       *)
LEMMA KeptByAge ==
    ASSUME NEW entries \in Seq(Entry), ByAge(entries), NEW S \in SUBSET DOMAIN entries
    PROVE  /\ Keep(entries, S) \in Seq(Entry) /\ ByAge(Keep(entries, S))
           /\ ToSet(Keep(entries, S)) = {entries[i] : i \in S}
<1>1. /\ Keep(entries, S) \in Seq(Entry)
      /\ \A k \in DOMAIN Keep(entries, S) :
             InOrder(S)[k] \in S /\ Keep(entries, S)[k] = entries[InOrder(S)[k]]
      /\ \A k, l \in DOMAIN Keep(entries, S) : k < l => InOrder(S)[k] < InOrder(S)[l]
      /\ ToSet(Keep(entries, S)) = {entries[i] : i \in S}
    BY Kept
<1>2. ByAge(Keep(entries, S))
    BY <1>1 DEF ByAge
<1> QED BY <1>1, <1>2

(* cacheSet on a cache that does not hold the address: what it keeps, and   *)
(* what it lets go.                                                         *)
LEMMA Remembered ==
    ASSUME NEW entries \in Seq(Entry), ByAge(entries), NEW entry \in Entry, NEW max \in Nat \ {0},
           now \in Nat, entry.value.at = now, entry.expiresAt >= now,
           \A i \in DOMAIN entries : entries[i].url # entry.url /\ entries[i].value.at <= now,
           NEW kept, kept = CacheSet(entries, entry, max)
    PROVE  /\ kept \in Seq(Entry) /\ ByAge(kept)
           /\ ToSet(kept) \subseteq ToSet(entries) \union {entry}
           /\ entry \in ToSet(kept)
           /\ \A e \in ToSet(entries) \ ToSet(kept) : ~Expired(e) =>
                  /\ Len(kept) = max
                  /\ \A f \in ToSet(kept) : ~Expired(f) /\ f.value.at >= e.value.at
<1> DEFINE put  == Append(entries, entry)
           good == {i \in DOMAIN put : ~Expired(put[i])}
           live == Keep(put, good)
           tail == SubSeq(live, Len(live) - max + 1, Len(live))
<1>1. kept = IF Len(put) <= max THEN put ELSE IF Len(live) <= max THEN live ELSE tail
    BY DEF CacheSet
<1>2. /\ put \in Seq(Entry) /\ Len(put) = Len(entries) + 1 /\ DOMAIN put = 1..Len(entries) + 1
      /\ \A i \in DOMAIN entries : put[i] = entries[i]
      /\ put[Len(put)] = entry /\ DOMAIN entries = 1..Len(entries) /\ Len(entries) \in Nat
    OBVIOUS
<1>3. ToSet(put) = ToSet(entries) \union {entry}
    BY <1>2 DEF ToSet
<1>4. ByAge(put)
  <2> SUFFICES ASSUME NEW i \in DOMAIN put, NEW j \in DOMAIN put, i < j
               PROVE  put[i].value.at <= put[j].value.at
      BY DEF ByAge
  <2>1. i \in DOMAIN entries
      BY <1>2
  <2>2. CASE j = Len(put)
      BY <1>2, <2>1, <2>2
  <2>3. CASE j # Len(put)
      BY <1>2, <2>1, <2>3 DEF ByAge
  <2> QED BY <2>2, <2>3
<1>5. ~Expired(entry)
    BY EntriesTyped DEF Expired
<1> HIDE DEF put
<1>6. /\ live \in Seq(Entry) /\ ByAge(live)
      /\ ToSet(live) = {e \in ToSet(put) : ~Expired(e)}
  <2>1. good \in SUBSET DOMAIN put
      OBVIOUS
  <2>2. {put[i] : i \in good} = {e \in ToSet(put) : ~Expired(e)}
      BY DEF ToSet
  <2> HIDE DEF good
  <2> QED BY <1>2, <1>4, <2>1, <2>2, KeptByAge
<1>7. entry \in ToSet(live)
    BY <1>3, <1>5, <1>6
<1>8. /\ live # <<>> /\ live[Len(live)] = entry
  <2>1. Len(put) \in good /\ good \in SUBSET DOMAIN put
      BY <1>2, <1>5
  <2>2. /\ DOMAIN live = 1..Len(live) /\ Len(live) \in Nat
      BY <1>6
  <2>3. /\ \A k \in DOMAIN live : InOrder(good)[k] \in good /\ live[k] = put[InOrder(good)[k]]
        /\ Rank(good, Len(put)) \in DOMAIN live
        /\ InOrder(good)[Rank(good, Len(put))] = Len(put)
        /\ \A k, l \in DOMAIN live : k < l => InOrder(good)[k] < InOrder(good)[l]
    <3> HIDE DEF good
    <3> QED BY <1>2, <2>1, Kept
  <2> DEFINE r == Rank(good, Len(put))
  <2>4. r \in 1..Len(live) /\ live[r] = entry
      BY <1>2, <2>2, <2>3
  <2>5. r = Len(live)
    <3> SUFFICES ASSUME r < Len(live) PROVE FALSE
        BY <2>2, <2>4
    <3>1. Len(live) \in DOMAIN live /\ r \in DOMAIN live
        BY <2>2, <2>4
    <3>2. InOrder(good)[r] < InOrder(good)[Len(live)] /\ InOrder(good)[Len(live)] \in DOMAIN put
        BY <2>1, <2>3, <3>1
    <3> HIDE DEF live, good, r
    <3>3. Len(put) < InOrder(good)[Len(live)]
        BY <2>3, <3>2 DEF r
    <3> QED BY <1>2, <3>2, <3>3
  <2> HIDE DEF r, live
  <2> QED BY <2>2, <2>4, <2>5
<1> HIDE DEF live, good
<1>9. CASE Len(put) <= max
    BY <1>1, <1>2, <1>3, <1>4, <1>9
<1>10. CASE Len(put) > max /\ Len(live) <= max
  <2>1. kept = live
      BY <1>1, <1>2, <1>10
  <2> QED BY <1>3, <1>6, <1>7, <2>1
<1>11. CASE Len(put) > max /\ Len(live) > max
  <2> DEFINE from == Len(live) - max
  <2>1. /\ from \in Nat /\ Len(live) \in Nat /\ Len(live) = from + max /\ max \in Nat /\ max >= 1
        /\ DOMAIN live = 1..Len(live)
      BY <1>6, <1>11
  <2>2. kept = tail
      BY <1>1, <1>2, <1>11, <2>1
  <2>3. /\ tail \in Seq(Entry) /\ Len(tail) = max
        /\ \A i \in 1..max : tail[i] = live[i + from] /\ i + from \in DOMAIN live
      BY <1>6, <2>1
  <2> HIDE DEF tail, from
  <2>4. kept \in Seq(Entry) /\ Len(kept) = max /\ DOMAIN kept = 1..max
        /\ \A i \in 1..max : kept[i] = live[i + from] /\ i + from \in DOMAIN live
      BY <2>1, <2>2, <2>3
  <2>5. ByAge(kept)
    <3>1. \A i, j \in 1..max : i < j => i + from < j + from
        BY <2>1
    <3> QED BY <1>6, <2>4, <3>1 DEF ByAge
  <2>6. ToSet(kept) \subseteq ToSet(live)
      BY <2>4 DEF ToSet
  <2>7. entry \in ToSet(kept)
    <3>1. max \in 1..max /\ max + from = Len(live)
        BY <2>1
    <3>2. kept[max] = live[Len(live)]
        BY <2>4, <3>1
    <3> QED BY <1>8, <2>4, <3>1, <3>2 DEF ToSet
  <2>8. ASSUME NEW e \in ToSet(entries) \ ToSet(kept), ~Expired(e), NEW f \in ToSet(kept)
        PROVE  ~Expired(f) /\ f.value.at >= e.value.at
    <3>1. e \in ToSet(live) /\ ~Expired(f)
        BY <1>3, <1>6, <2>6, <2>8
    <3>2. PICK i \in DOMAIN live : live[i] = e
        BY <3>1 DEF ToSet
    <3>3. PICK j \in 1..max : kept[j] = f
        BY <2>4 DEF ToSet
    <3>4. ~(i > from)
      <4> SUFFICES ASSUME i > from PROVE FALSE
          OBVIOUS
      <4>1. i - from \in 1..max /\ (i - from) + from = i
          BY <2>1
      <4>2. kept[i - from] = e
          BY <2>4, <3>2, <4>1
      <4> QED BY <2>4, <2>8, <4>1, <4>2 DEF ToSet
    <3>5. i < j + from /\ j + from \in DOMAIN live /\ live[j + from] = f
        BY <2>1, <2>4, <3>2, <3>3, <3>4
    <3>6. e.value.at <= f.value.at
        BY <1>6, <3>2, <3>5 DEF ByAge
    <3>7. e \in Entry /\ f \in Entry
        BY <1>6, <2>4, <3>2, <3>3
    <3> QED BY <3>1, <3>6, <3>7, EntriesTyped
  <2>9. ToSet(kept) \subseteq ToSet(entries) \union {entry}
      BY <1>3, <1>6, <2>6
  <2> QED BY <2>4, <2>5, <2>7, <2>8, <2>9
<1>12. Len(put) \in Nat /\ Len(live) \in Nat
    BY <1>2, <1>6
<1> QED BY <1>9, <1>10, <1>11, <1>12

(* A lookup leaves what has not expired, and nothing about an address that  *)
(* it did not find.                                                         *)
LEMMA LookedUp ==
    ASSUME CacheKept, NEW k \in Key, cache' = AfterLookup(k), now' = now
    PROVE  /\ CacheKept'
           /\ \A kind \in Kinds : /\ ToSet(cache'[kind]) \subseteq ToSet(cache[kind])
                                  /\ \A e \in ToSet(cache[kind]) \ ToSet(cache'[kind]) : Expired(e)
           /\ Found(k) = {} => \A e \in ToSet(cache'[k.kind]) : e.url # k.url
<1> USE DEF CacheKept
<1> DEFINE S == {i \in DOMAIN cache[k.kind] :
                    ~(cache[k.kind][i].url = k.url /\ Expired(cache[k.kind][i]))}
<1>1. k.kind \in Kinds
    BY KeysTold
<1>2. /\ cache'[k.kind] = Keep(cache[k.kind], S)
      /\ DOMAIN cache' = Kinds
      /\ \A kind \in Kinds : kind # k.kind => cache'[kind] = cache[kind]
    BY <1>1 DEF AfterLookup
<1>3. S \in SUBSET DOMAIN cache[k.kind]
    OBVIOUS
<1>4. /\ \A i \in DOMAIN cache[k.kind] :
             i \notin S => cache[k.kind][i].url = k.url /\ Expired(cache[k.kind][i])
      /\ \A i \in S : ~(cache[k.kind][i].url = k.url /\ Expired(cache[k.kind][i]))
    OBVIOUS
<1> HIDE DEF S
<1>5. /\ cache'[k.kind] \in Seq(Entry) /\ ByAge(cache'[k.kind])
      /\ ToSet(cache'[k.kind]) = {cache[k.kind][i] : i \in S}
    BY <1>1, <1>2, <1>3, KeptByAge
<1>6. /\ ToSet(cache'[k.kind]) \subseteq ToSet(cache[k.kind])
      /\ \A e \in ToSet(cache[k.kind]) \ ToSet(cache'[k.kind]) : Expired(e)
    BY <1>3, <1>4, <1>5 DEF ToSet
<1>7. \A kind \in Kinds : \A e \in ToSet(cache'[kind]) : e \in ToSet(cache[kind])
    BY <1>2, <1>6
<1>8. \A e : Good(e) => Good(e)'
    BY DEF Good
<1>9. CacheKept'
  <2>1. \A kind \in Kinds : cache'[kind] \in Seq(Entry) /\ ByAge(cache'[kind])
      BY <1>2, <1>5
  <2>2. \A kind \in Kinds : \A e \in ToSet(cache'[kind]) : Good(e)'
      BY <1>7, <1>8
  <2>3. now' \in 0..MaxTime /\ DOMAIN cache' = Kinds
      BY <1>2
  <2>4. \A s : ByAge(s)' <=> ByAge(s)
      BY DEF ByAge
  <2> QED BY <2>1, <2>2, <2>3, <2>4
<1>10. ASSUME Found(k) = {}, NEW e \in ToSet(cache'[k.kind]) PROVE e.url # k.url
  <2>1. PICK i \in S : cache[k.kind][i] = e
      BY <1>5, <1>10
  <2>2. e \in ToSet(cache[k.kind])
      BY <1>6, <1>10
  <2> QED BY <1>4, <1>10, <2>1, <2>2 DEF Found, EntriesOf
<1> QED BY <1>2, <1>6, <1>9, <1>10

LEMMA KeptInit == Init => KeptInv
<1> SUFFICES ASSUME Init PROVE KeptInv
    OBVIOUS
<1>1. \A kind \in Kinds : cache[kind] = <<>>
    BY DEF Init
<1>2. <<>> \in Seq(Entry) /\ DOMAIN <<>> = {}
    OBVIOUS
<1>3. CacheKept
    BY <1>1, <1>2, EngineAssumption DEF Init, CacheKept, ByAge, ToSet
<1> QED BY <1>3 DEF Init, KeptInv, NothingKept, OwnersLanded, SharersFollow

(* When the caches, the time and what the requests gave stay, the facts     *)
(* stay, but for the calls that enter a phase or change their state.        *)
LEMMA CacheStays ==
    ASSUME CacheKept, UNCHANGED <<cache, now>> PROVE CacheKept'
<1>1. \A e : Good(e) => Good(e)'
    BY DEF Good
<1>2. \A s : ByAge(s)' <=> ByAge(s)
    BY DEF ByAge
<1> QED BY <1>1, <1>2 DEF CacheKept

(* The owner writes what it obtained at the end of its cache.               *)
LEMMA Written ==
    ASSUME CallTypes, KeptInv, NEW c \in Calls, Settle(c)
    PROVE  LET kind == want[c].kind
               entry == [url |-> want[c].url, value |-> outcome[c],
                         expiresAt |-> now + TtlFor(outcome[c])]
           IN  /\ kind \in Kinds /\ Landed(c)
               /\ \A other \in Kinds : other # kind => cache'[other] = cache[other]
               /\ DOMAIN cache' = Kinds
               /\ \/ /\ ~Cacheable(kind, outcome[c]) /\ cache' = cache
                  \/ /\ Cacheable(kind, outcome[c])
                     /\ cache'[kind] \in Seq(Entry) /\ ByAge(cache'[kind])
                     /\ ToSet(cache'[kind]) \subseteq ToSet(cache[kind]) \union {entry}
                     /\ entry \in ToSet(cache'[kind]) /\ Good(entry)
                     /\ \A e \in ToSet(cache[kind]) \ ToSet(cache'[kind]) : ~Expired(e) =>
                            /\ Len(cache'[kind]) = CacheMax[kind]
                            /\ \A f \in ToSet(cache'[kind]) :
                                   ~Expired(f) /\ f.value.at >= e.value.at
<1> DEFINE kind  == want[c].kind
           entry == [url |-> want[c].url, value |-> outcome[c],
                     expiresAt |-> now + TtlFor(outcome[c])]
           max   == CacheMax[kind]
<1>1. /\ state[c] = "owning" /\ phase[c] = "left" /\ want[c] \in Key
      /\ \A e \in ToSet(cache[kind]) : e.url # want[c].url
      /\ Landed(c)
    BY DEF Settle, KeptInv, NothingKept, OwnersLanded
<1>2. kind \in Kinds /\ want[c].url \in Urls
    BY <1>1, KeysTold
<1>3. /\ CacheKept /\ now \in Nat /\ max \in Nat \ {0}
    BY <1>2, EngineAssumption DEF KeptInv, CacheKept
<1>4. TtlFor(outcome[c]) \in Nat
    BY EngineAssumption DEF TtlFor
<1>5. entry \in Entry /\ entry.value.at = now /\ entry.expiresAt >= now
    BY <1>1, <1>2, <1>3, <1>4 DEF Landed, Entry
<1>6. /\ cache[kind] \in Seq(Entry) /\ ByAge(cache[kind])
      /\ \A i \in DOMAIN cache[kind] : cache[kind][i].url # entry.url
                                       /\ cache[kind][i].value.at <= now
    BY <1>1, <1>2, <1>3 DEF CacheKept, Good, ToSet
<1>7. Good(entry)
    BY <1>1, <1>3, <1>4 DEF Good, Landed
<1>8. CASE ~Cacheable(kind, outcome[c])
    BY <1>1, <1>2, <1>3, <1>8 DEF Settle, CacheKept
<1>9. CASE Cacheable(kind, outcome[c])
  <2>1. cache' = [cache EXCEPT ![kind] = CacheSet(cache[kind], entry, max)]
      BY <1>9 DEF Settle
  <2>2. cache'[kind] = CacheSet(cache[kind], entry, max) /\ DOMAIN cache' = Kinds
        /\ \A other \in Kinds : other # kind => cache'[other] = cache[other]
      BY <1>2, <1>3, <2>1 DEF CacheKept
  <2> HIDE DEF kind, entry, max
  <2>3. /\ cache'[kind] \in Seq(Entry) /\ ByAge(cache'[kind])
        /\ ToSet(cache'[kind]) \subseteq ToSet(cache[kind]) \union {entry}
        /\ entry \in ToSet(cache'[kind])
        /\ \A e \in ToSet(cache[kind]) \ ToSet(cache'[kind]) : ~Expired(e) =>
               /\ Len(cache'[kind]) = max
               /\ \A f \in ToSet(cache'[kind]) : ~Expired(f) /\ f.value.at >= e.value.at
      BY <1>3, <1>5, <1>6, <2>2, Remembered
  <2> QED BY <1>1, <1>2, <1>7, <1>9, <2>2, <2>3 DEF kind, entry, max
<1> QED BY <1>8, <1>9

(* A call of its own passes through the gate after the others it shares     *)
(* nothing with: what the other calls know stays.                           *)
LEMMA KeptStep ==
    GateInv /\ CallsInv /\ EngineInv /\ KeptInv /\ [Next]_vars => KeptInv'
<1> SUFFICES ASSUME GateInv, CallsInv, EngineInv, KeptInv, [Next]_vars PROVE KeptInv'
    OBVIOUS
<1>0. /\ CallTypes /\ CacheKept /\ NothingKept /\ OwnersLanded /\ SharersFollow
      /\ phase \in [Calls -> Phases] /\ OneRequestPerKey /\ now \in Nat
    BY DEF CallsInv, KeptInv, CacheKept, GateInv, GateTypeOK, EngineInv
<1> USE DEF CallTypes
<1>1. ASSUME NEW c \in Calls, NEW k \in Key, Hit(c, k) PROVE KeptInv'
  <2>1. CacheKept'
      BY <1>0, <1>1, CacheStays DEF Hit
  <2>2. NothingKept' /\ OwnersLanded' /\ SharersFollow'
      BY <1>0, <1>1 DEF Hit, Answer, NothingKept, OwnersLanded, SharersFollow, Landed, gateVars
  <2> QED BY <2>1, <2>2 DEF KeptInv
<1>2. ASSUME NEW c \in Calls, NEW k \in Key, Join(c, k) PROVE KeptInv'
  <2>1. CacheKept' /\ \A kind \in Kinds : ToSet(cache'[kind]) \subseteq ToSet(cache[kind])
      BY <1>0, <1>2, LookedUp DEF Join
  <2>2. inFlight[k] \in Calls /\ state[inFlight[k]] = "owning" /\ want[inFlight[k]] = k
      BY <1>0, <1>2 DEF Join, OneRequestPerKey, SharersFollow
  <2>3. NothingKept'
      BY <1>0, <1>2, <2>1, KeysTold DEF Join, NothingKept
  <2>4. OwnersLanded' /\ SharersFollow'
      BY <1>0, <1>2, <2>2 DEF Join, OwnersLanded, SharersFollow, Landed, gateVars
  <2> QED BY <2>1, <2>3, <2>4 DEF KeptInv
<1>3. ASSUME NEW c \in Calls, NEW k \in Key, Launch(c, k) PROVE KeptInv'
  <2>1. /\ CacheKept' /\ \A kind \in Kinds : ToSet(cache'[kind]) \subseteq ToSet(cache[kind])
        /\ \A e \in ToSet(cache'[k.kind]) : e.url # k.url
      BY <1>0, <1>3, LookedUp DEF Launch
  <2>2. /\ phase'[c] # "left" /\ \A d \in Calls : d # c => phase'[d] = phase[d]
      BY <1>0, <1>3 DEF Launch, Enter, Park
  <2>3. NothingKept'
      BY <1>0, <1>3, <2>1, KeysTold DEF Launch, NothingKept
  <2>4. OwnersLanded' /\ SharersFollow'
      BY <1>0, <1>3, <2>2 DEF Launch, OwnersLanded, SharersFollow, Landed
  <2> QED BY <2>1, <2>3, <2>4 DEF KeptInv
<1>4. ASSUME NEW c \in Calls, WakeUp(c) \/ RetryWithGet(c) PROVE KeptInv'
  <2>1. CacheKept'
      BY <1>0, <1>4, CacheStays DEF WakeUp, RetryWithGet
  <2>2. \A d \in Calls : phase'[d] = "left" => phase[d] = "left"
      BY <1>0, <1>4 DEF WakeUp, RetryWithGet, Resume, gateVars
  <2>3. NothingKept' /\ OwnersLanded' /\ SharersFollow'
      BY <1>0, <1>4, <2>2
         DEF WakeUp, RetryWithGet, NothingKept, OwnersLanded, SharersFollow, Landed
  <2> QED BY <2>1, <2>3 DEF KeptInv
<1>5. ASSUME NEW c \in Calls, Finish(c) PROVE KeptInv'
  <2>1. CacheKept'
      BY <1>0, <1>5, CacheStays DEF Finish
  <2>2. \A d \in Calls : d # c /\ phase'[d] = "left" => phase[d] = "left"
      BY <1>0, <1>5 DEF Finish, Release
  <2>3. state[c] = "owning" /\ want[c] \in Key
      BY <1>0, <1>5 DEF Finish, Release, CallsInv, Coupled, NothingKept
  <2>4. Landed(c)'
    <3>1. PICK reached \in BOOLEAN, small \in BOOLEAN :
              outcome' = [outcome EXCEPT ![c] = [url |-> want[c].url, by |-> c, at |-> now,
                                                 reached |-> reached, small |-> small]]
        BY <1>5 DEF Finish
    <3>2. outcome'[c] = [url |-> want[c].url, by |-> c, at |-> now,
                         reached |-> reached, small |-> small]
        BY <1>0, <3>1 DEF OwnersLanded
    <3>3. want' = want /\ now' = now /\ now \in 0..MaxTime
        BY <1>0, <1>5 DEF Finish, CacheKept
    <3> QED BY <2>3, <3>2, <3>3, KeysTold DEF Landed, Result
  <2>5. /\ DOMAIN outcome' = Calls /\ \A d \in Calls : d # c => outcome'[d] = outcome[d]
      BY <1>0, <1>5 DEF Finish, OwnersLanded
  <2>6. NothingKept'
      BY <1>0, <1>5 DEF Finish, NothingKept
  <2>7. OwnersLanded'
      BY <1>0, <1>5, <2>2, <2>4, <2>5 DEF Finish, OwnersLanded, Landed
  <2>8. SharersFollow'
      BY <1>0, <1>5, <2>3, <2>5 DEF Finish, SharersFollow, Landed
  <2> QED BY <2>1, <2>6, <2>7, <2>8 DEF KeptInv
<1>6. ASSUME NEW c \in Calls, Settle(c) PROVE KeptInv'
  <2> DEFINE kind  == want[c].kind
             entry == [url |-> want[c].url, value |-> outcome[c],
                       expiresAt |-> now + TtlFor(outcome[c])]
  <2>1. /\ kind \in Kinds /\ Landed(c) /\ DOMAIN cache' = Kinds
        /\ \A other \in Kinds : other # kind => cache'[other] = cache[other]
        /\ cache'[kind] \in Seq(Entry) /\ ByAge(cache'[kind])
        /\ \/ ToSet(cache'[kind]) \subseteq ToSet(cache[kind])
           \/ ToSet(cache'[kind]) \subseteq ToSet(cache[kind]) \union {entry} /\ Good(entry)
    <3>1. /\ kind \in Kinds /\ Landed(c) /\ DOMAIN cache' = Kinds
          /\ \A other \in Kinds : other # kind => cache'[other] = cache[other]
          /\ \/ cache' = cache
             \/ /\ cache'[kind] \in Seq(Entry) /\ ByAge(cache'[kind])
                /\ ToSet(cache'[kind]) \subseteq ToSet(cache[kind]) \union {entry} /\ Good(entry)
        BY <1>0, <1>6, Written
    <3> HIDE DEF kind, entry
    <3>2. cache[kind] \in Seq(Entry) /\ ByAge(cache[kind])
        BY <1>0, <3>1 DEF CacheKept
    <3> QED BY <3>1, <3>2
  <2>2. /\ state[c] = "owning" /\ want[c] \in Key /\ entry.url = want[c].url
        /\ UNCHANGED <<now, want, phase, outcome, source>>
        /\ state' = [state EXCEPT ![c] = "answered"]
        /\ inFlight' = [inFlight EXCEPT ![want[c]] = None]
      BY <1>0, <1>6 DEF Settle, Answer, gateVars, NothingKept
  <2> HIDE DEF entry
  <2>3. CacheKept'
    <3>1. \A other \in Kinds : \A e \in ToSet(cache'[other]) : Good(e)
        BY <1>0, <2>1 DEF CacheKept
    <3>2. \A e : Good(e) => Good(e)'
        BY <2>2 DEF Good
    <3>3. \A s : ByAge(s)' <=> ByAge(s)
        BY DEF ByAge
    <3> QED BY <1>0, <2>1, <2>2, <3>1, <3>2, <3>3 DEF CacheKept
  <2>4. ASSUME NEW d \in Calls, state'[d] = "owning", NEW e \in ToSet(cache'[want[d].kind])
        PROVE  e.url # want[d].url
    <3>1. d # c /\ state[d] = "owning" /\ want[d] \in Key
        BY <1>0, <2>2, <2>4 DEF NothingKept
    <3>2. want[d] # want[c]
        BY <1>0, <2>2, <3>1 DEF OneRequestPerKey
    <3>3. \A f \in ToSet(cache[want[d].kind]) : f.url # want[d].url
        BY <1>0, <3>1 DEF NothingKept
    <3>4. want[d].kind \in Kinds
        BY <3>1, KeysTold
    <3>5. CASE want[d].kind # kind
        BY <2>1, <2>4, <3>3, <3>4, <3>5
    <3>6. CASE want[d].kind = kind
      <4>1. want[d].url # want[c].url
          BY <2>2, <3>1, <3>2, <3>6, KeysTold
      <4>2. e \in ToSet(cache[kind]) \/ e = entry
          BY <2>1, <2>4, <3>6
      <4> QED BY <2>2, <3>3, <3>6, <4>1, <4>2
    <3> QED BY <3>5, <3>6
  <2>5. NothingKept'
      BY <1>0, <2>2, <2>4 DEF NothingKept
  <2>6. OwnersLanded'
      BY <1>0, <2>2 DEF OwnersLanded, Landed
  <2>7. SharersFollow'
      BY <1>0, <2>1, <2>2 DEF SharersFollow, Landed
  <2> QED BY <2>3, <2>5, <2>6, <2>7 DEF KeptInv
<1>7. ASSUME NEW c \in Calls, Share(c) PROVE KeptInv'
  <2>1. CacheKept'
      BY <1>0, <1>7, CacheStays DEF Share
  <2>2. NothingKept' /\ OwnersLanded' /\ SharersFollow'
      BY <1>0, <1>7 DEF Share, Answer, NothingKept, OwnersLanded, SharersFollow, Landed, gateVars
  <2> QED BY <2>1, <2>2 DEF KeptInv
<1>8. CASE Tick
  <2>1. /\ UNCHANGED <<cache, inFlight, want, state, source, outcome, phase>>
        /\ now' = now + 1 /\ now < MaxTime /\ Drained
      BY <1>8 DEF Tick, callVars, gateVars
  <2>2. CacheKept'
    <3>1. \A e \in Entry : Good(e) => Good(e)'
        BY <1>0, <2>1, EntriesTyped DEF Good
    <3>2. \A s : ByAge(s)' <=> ByAge(s)
        BY DEF ByAge
    <3>3. \A kind \in Kinds : ToSet(cache[kind]) \subseteq Entry
        BY <1>0 DEF CacheKept, ToSet
    <3>4. now' \in 0..MaxTime
        BY <1>0, <2>1, EngineAssumption
    <3> QED BY <1>0, <2>1, <3>1, <3>2, <3>3, <3>4 DEF CacheKept
  <2>3. NothingKept' /\ OwnersLanded' /\ SharersFollow'
      BY <1>0, <2>1 DEF Drained, NothingKept, OwnersLanded, SharersFollow
  <2> QED BY <2>2, <2>3 DEF KeptInv
<1>9. CASE UNCHANGED vars
  <2>1. CacheKept'
      BY <1>0, <1>9, CacheStays DEF vars
  <2>2. NothingKept' /\ OwnersLanded' /\ SharersFollow'
      BY <1>0, <1>9 DEF vars, callVars, gateVars, NothingKept, OwnersLanded, SharersFollow, Landed
  <2> QED BY <2>1, <2>2 DEF KeptInv
<1> QED BY <1>1, <1>2, <1>3, <1>4, <1>5, <1>6, <1>7, <1>8, <1>9 DEF Next, Ask

(* What the steps of the engine rest on.                                    *)
EngineKept == GateInv /\ CallsInv /\ EngineInv /\ KeptInv

LEMMA EngineKeeps == Spec => []EngineKept
<1>1. Spec => []GateInv
    BY EngineImplementsGate, GateInvariant, PTL
<1>2. Init => CallsInv /\ EngineInv /\ KeptInv
    BY EngineInit, KeptInit
<1>3. GateInv /\ CallsInv /\ EngineInv /\ KeptInv /\ [Next]_vars
          => (CallsInv /\ EngineInv /\ KeptInv)'
    BY CoupledStep, TypesStep, OneRequestStep, KeptStep DEF CallsInv, EngineInv
<1>4. EngineKept <=> GateInv /\ CallsInv /\ EngineInv /\ KeptInv
    BY DEF EngineKept
<1> QED BY <1>1, <1>2, <1>3, <1>4, PTL DEF Spec

FreshTo(c) == LET r == reply'[c].result
              IN r.url = want'[c].url /\ now - r.at <= TtlFor(r)

(* An answer is about the address asked for, and no older than its time to  *)
(* live when it is given, whichever of the three ways it came: cacheGet     *)
(* (probe-engine.ts:318), the promise shared, or the request itself.        *)
THEOREM EngineAnswersFresh == Spec => FreshAnswers
<1>1. ASSUME EngineKept, [Next]_vars
      PROVE  [\A c \in Calls : reply[c] # reply'[c] =>
                 LET r == reply'[c].result
                 IN r.url = want'[c].url /\ now - r.at <= TtlFor(r)]_vars
  <2> SUFFICES ASSUME NEW d \in Calls, reply[d] # reply'[d] PROVE FreshTo(d)
      BY DEF FreshTo
  <2>0. /\ CallTypes /\ CacheKept /\ OwnersLanded /\ SharersFollow /\ now \in Nat
      BY <1>1 DEF EngineKept, CallsInv, KeptInv, CacheKept
  <2> USE DEF CallTypes
  <2> USE DEF FreshTo
  <2>1. \A r \in Result : TtlFor(r) \in Nat /\ r.at \in Nat
      BY EngineAssumption DEF Result, TtlFor
  <2>2. \A c \in Calls : Landed(c) => outcome[c].url = want[c].url
                                      /\ now - outcome[c].at <= TtlFor(outcome[c])
      BY <2>0, <2>1 DEF Landed
  <2>3. ASSUME NEW k \in Key, Hit(d, k) PROVE FreshTo(d)
    <3>1. PICK result \in Found(k) : Answer(d, result, FALSE)
        BY <2>3 DEF Hit
    <3>2. reply'[d].result = result /\ want'[d] = k
        BY <2>0, <2>3, <3>1 DEF Hit, Answer
    <3>3. PICK e \in ToSet(cache[k.kind]) : e.value = result /\ e.url = k.url /\ ~Expired(e)
        BY DEF Found, EntriesOf
    <3>4. k.kind \in Kinds /\ e \in Entry /\ Good(e)
        BY <2>0, KeysTold DEF CacheKept, ToSet
    <3>5. now <= e.expiresAt /\ e.expiresAt <= result.at + TtlFor(result) /\ result.url = k.url
        BY <2>0, <3>3, <3>4, EntriesTyped DEF Expired, Good
    <3> QED BY <2>0, <3>2, <3>3, <3>4, <3>5, EntriesTyped
  <2>4. ASSUME NEW c \in Calls, Settle(c) PROVE FreshTo(d)
    <3>1. c = d /\ want' = want /\ reply'[d].result = outcome[d] /\ Landed(d)
        BY <2>0, <2>4 DEF Settle, Answer, OwnersLanded
    <3> QED BY <2>2, <3>1
  <2>5. ASSUME NEW c \in Calls, Share(c) PROVE FreshTo(d)
    <3>1. c = d /\ want' = want /\ reply'[d].result = outcome[source[d]]
        BY <2>0, <2>5 DEF Share, Answer
    <3>2. source[d] \in Calls /\ want[source[d]] = want[d] /\ Landed(source[d])
        BY <2>0, <2>5, <3>1 DEF Share, SharersFollow
    <3> QED BY <2>2, <3>1, <3>2
  <2>6. ASSUME NEW c \in Calls, NEW k \in Key, Hit(c, k), c # d PROVE FALSE
      BY <2>0, <2>6 DEF Hit, Answer
  <2>7. ASSUME NEW c \in Calls, \/ WakeUp(c) \/ RetryWithGet(c) \/ Finish(c)
                                \/ \E k \in Key : Join(c, k) \/ Launch(c, k)
        PROVE  FALSE
      BY <2>7 DEF WakeUp, RetryWithGet, Finish, Join, Launch
  <2>8. CASE Tick \/ UNCHANGED vars
      BY <2>8 DEF Tick, vars, callVars
  <2> QED BY <1>1, <2>3, <2>4, <2>5, <2>6, <2>7, <2>8 DEF Next, Ask
<1> QED BY <1>1, EngineKeeps, PTL DEF Spec, FreshAnswers

(* An eviction spares the entries that are still good as long as it can,    *)
(* and then drops the oldest; what was just written remains (cacheSet,      *)
(* probe-engine.ts:327).                                                    *)
THEOREM EngineEvictsOldest == Spec => EvictsOldestLast
<1> DEFINE Spared == \A kind \in Kinds : \A e \in ToSet(cache[kind]) \ ToSet(cache'[kind]) :
                         ~Expired(e) =>
                             /\ Len(cache'[kind]) = CacheMax[kind]
                             /\ \A f \in ToSet(cache'[kind]) :
                                    ~Expired(f) /\ f.value.at >= e.value.at
           Remains == \A c \in Calls :
                          LET kind == want[c].kind
                          IN  (state[c] = "owning" /\ reply[c] # reply'[c]
                               /\ Cacheable(kind, outcome[c]))
                                  => \E f \in ToSet(cache'[kind]) : f.value = outcome[c]
<1>1. ASSUME EngineKept, [Next]_vars PROVE [Spared /\ Remains]_vars
  <2>0. CallTypes /\ CacheKept /\ KeptInv
      BY <1>1 DEF EngineKept, CallsInv, KeptInv
  <2> USE DEF CallTypes
  <2>1. ASSUME NEW c \in Calls, NEW k \in Key, Hit(c, k) PROVE Spared /\ Remains
      BY <2>0, <2>1 DEF Hit, Answer
  <2>2. ASSUME NEW c \in Calls, NEW k \in Key, Join(c, k) \/ Launch(c, k) PROVE Spared /\ Remains
    <3>1. cache' = AfterLookup(k) /\ now' = now /\ reply' = reply
        BY <2>2 DEF Join, Launch
    <3> QED BY <2>0, <3>1, LookedUp
  <2>3. ASSUME NEW c \in Calls, Settle(c) PROVE Spared /\ Remains
    <3>1. Spared
        BY <2>0, <2>3, Written
    <3>2. \A d \in Calls : d # c => reply'[d] = reply[d]
        BY <2>0, <2>3 DEF Settle, Answer
    <3>3. Cacheable(want[c].kind, outcome[c]) =>
              \E f \in ToSet(cache'[want[c].kind]) : f.value = outcome[c]
        BY <2>0, <2>3, Written
    <3> QED BY <3>1, <3>2, <3>3
  <2>4. ASSUME NEW c \in Calls, WakeUp(c) \/ RetryWithGet(c) \/ Finish(c) \/ Share(c)
        PROVE  Spared /\ Remains
    <3>1. cache' = cache /\ \A d \in Calls : state[d] = "owning" => reply'[d] = reply[d]
        BY <2>0, <2>4 DEF WakeUp, RetryWithGet, Finish, Share, Answer
    <3> QED BY <3>1
  <2>5. CASE Tick
      BY <2>5 DEF Tick, callVars
  <2>6. CASE UNCHANGED vars
      BY <2>6
  <2> HIDE DEF Spared, Remains
  <2> QED BY <1>1, <2>1, <2>2, <2>3, <2>4, <2>5, <2>6 DEF Next, Ask
<1> QED BY <1>1, EngineKeeps, PTL DEF Spec, EvictsOldestLast

(****************************************************************************)
(* The budget. The ceiling is kept because the units are conserved: what is *)
(* left, what is held by a request in progress and what was spent always    *)
(* add up to what was given. Conservation needs one more fact: a check that *)
(* has not started has no worker holding a unit, so that Start counts each  *)
(* unit it hands out once.                                                  *)
(****************************************************************************)

BudgetTypes ==
    /\ wallet \in Nat
    /\ quota \in [Checks -> Nat]
    /\ next \in [Checks -> Nat \ {0}]
    /\ prober \in [Checks -> [Probers -> ProberState]]
    /\ billed \in [Checks -> Nat]
    /\ spent \in Nat
    /\ DOMAIN report = Checks
    /\ \A c \in Checks : report[c] # NoAnswer => DOMAIN report[c] = 1..Len(List[c])

NotStarted == \A c \in Checks : next[c] = 1 =>
                  \A i \in Workers : prober[c][i].at = "idle"

BudgetInv == BudgetTypes /\ NotStarted /\ UnitsConserved

(* Sizes of finite sets.                                                    *)
LEMMA CardUnion ==
    ASSUME NEW S, NEW T, IsFiniteSet(S), IsFiniteSet(T), S \cap T = {}
    PROVE  Cardinality(S \cup T) = Cardinality(S) + Cardinality(T)
<1>1. Cardinality(S \cap T) = 0
    BY FS_EmptySet
<1>2. Cardinality(S) \in Nat /\ Cardinality(T) \in Nat
    BY FS_CardinalityType
<1>3. Cardinality(S \cup T) = Cardinality(S) + Cardinality(T) - Cardinality(S \cap T)
    BY FS_Union
<1> QED BY <1>1, <1>2, <1>3

LEMMA CardPairs ==
    ASSUME NEW x, NEW T, IsFiniteSet(T)
    PROVE  IsFiniteSet({x} \X T) /\ Cardinality({x} \X T) = Cardinality(T)
<1>1. IsFiniteSet({x}) /\ Cardinality({x}) = 1
    BY FS_Singleton
<1>2. Cardinality(T) \in Nat
    BY FS_CardinalityType
<1>3. IsFiniteSet({x} \X T) /\ Cardinality({x} \X T) = Cardinality({x}) * Cardinality(T)
    BY <1>1, FS_Product
<1> QED BY <1>1, <1>2, <1>3

LEMMA CardBounded ==
    ASSUME NEW m \in Nat, NEW T, T \subseteq 1..m
    PROVE  Cardinality(T) <= m
<1>1. IsFiniteSet(1..m) /\ Cardinality(1..m) = m
    BY FS_Interval
<1>2. T \in SUBSET (1..m)
    OBVIOUS
<1>3. Cardinality(T) <= Cardinality(1..m)
    BY <1>1, <1>2, FS_Subset
<1> QED BY <1>1, <1>3

(* The seats are finitely many, and so are those that hold a unit.          *)
LEMMA HoldingFinite ==
    /\ IsFiniteSet(Probers) /\ IsFiniteSet(Workers) /\ IsFiniteSet(Seats)
    /\ IsFiniteSet(Holding) /\ Cardinality(Holding) \in Nat
    /\ \A c : IsFiniteSet(HoldingOf(c)) /\ Cardinality(HoldingOf(c)) \in Nat
<1>1. IsFiniteSet(Probers) /\ IsFiniteSet(Workers)
    BY FS_Interval, BudgetAssumption DEF Probers, Workers
<1>2. IsFiniteSet(Seats)
    BY <1>1, FS_Product, BudgetAssumption DEF Seats
<1>3. Holding \in SUBSET Seats
    BY DEF Holding
<1>4. IsFiniteSet(Holding)
    BY <1>2, <1>3, FS_Subset
<1>5. ASSUME NEW c PROVE IsFiniteSet(HoldingOf(c)) /\ Cardinality(HoldingOf(c)) \in Nat
  <2>1. HoldingOf(c) \in SUBSET Probers
      BY DEF HoldingOf
  <2>2. IsFiniteSet(HoldingOf(c))
      BY <1>1, <2>1, FS_Subset
  <2> QED BY <2>2, FS_CardinalityType
<1> QED BY <1>1, <1>2, <1>4, <1>5, FS_CardinalityType

(* A prober moves on to another state with its address in hand.             *)
LEMMA AtMoves ==
    ASSUME BudgetTypes, NEW c \in Checks, NEW i \in Probers,
           NEW x \in {"waiting", "answered", "done"},
           prober' = [prober EXCEPT ![c][i].at = x]
    PROVE  \E s \in ProberState : s.at = x /\ prober' = [prober EXCEPT ![c][i] = s]
<1> DEFINE r == prober[c][i]
           s == [at |-> x, pos |-> r.pos, refused |-> r.refused]
<1>1. r \in ProberState
    BY DEF BudgetTypes
<1>2. s \in ProberState /\ s.at = x
    BY <1>1 DEF ProberState
<1>3. [r EXCEPT !.at = x] = s
    BY <1>1 DEF ProberState
<1>4. prober' = [prober EXCEPT ![c][i] = s]
    BY <1>3
<1> QED BY <1>2, <1>4

(* The types and NotStarted do not depend on which address a prober has.    *)
LEMMA ProberTypes ==
    ASSUME BudgetTypes, NotStarted, NEW c \in Checks, NEW i \in Probers,
           NEW s \in ProberState, prober' = [prober EXCEPT ![c][i] = s],
           next'[c] # 1 \/ i \notin Workers,
           \A d \in Checks \ {c} : next'[d] = next[d],
           next'[c] = 1 => next[c] = 1
    PROVE  prober' \in [Checks -> [Probers -> ProberState]] /\ NotStarted'
<1>1. \A d \in Checks, j \in Probers :
          prober'[d][j] = IF d = c /\ j = i THEN s ELSE prober[d][j]
    BY DEF BudgetTypes
<1>2. prober' \in [Checks -> [Probers -> ProberState]]
    BY DEF BudgetTypes
<1>3. Workers \subseteq Probers
    BY BudgetAssumption DEF Workers, Probers
<1>4. NotStarted'
    BY <1>1, <1>3 DEF NotStarted
<1> QED BY <1>2, <1>4

(* A prober takes a unit: one more seat holds one, for its check alone.     *)
LEMMA OneMoreHolds ==
    ASSUME BudgetTypes, NEW c \in Checks, NEW i \in Probers, NEW s,
           prober[c][i].at # "waiting", s.at = "waiting",
           prober' = [prober EXCEPT ![c][i] = s]
    PROVE  /\ Cardinality(Holding)' = Cardinality(Holding) + 1
           /\ Cardinality(HoldingOf(c))' = Cardinality(HoldingOf(c)) + 1
           /\ \A d \in Checks \ {c} : HoldingOf(d)' = HoldingOf(d)
<1>1. \A d \in Checks, j \in Probers :
          prober'[d][j] = IF d = c /\ j = i THEN s ELSE prober[d][j]
    BY DEF BudgetTypes
<1>2. Holding' = Holding \cup {<<c, i>>} /\ <<c, i>> \notin Holding
    BY <1>1 DEF Holding, Seats
<1>3. HoldingOf(c)' = HoldingOf(c) \cup {i} /\ i \notin HoldingOf(c)
    BY <1>1 DEF HoldingOf
<1>4. \A d \in Checks \ {c} : HoldingOf(d)' = HoldingOf(d)
    BY <1>1 DEF HoldingOf
<1>5. Cardinality(Holding \cup {<<c, i>>}) = Cardinality(Holding) + 1
    BY <1>2, HoldingFinite, FS_AddElement
<1>6. Cardinality(HoldingOf(c) \cup {i}) = Cardinality(HoldingOf(c)) + 1
    BY <1>3, HoldingFinite, FS_AddElement
<1> QED BY <1>2, <1>3, <1>4, <1>5, <1>6

(* A prober gives its unit up, spent or returned.                           *)
LEMMA OneLessHolds ==
    ASSUME BudgetTypes, NEW c \in Checks, NEW i \in Probers, NEW s,
           prober[c][i].at = "waiting", s.at # "waiting",
           prober' = [prober EXCEPT ![c][i] = s]
    PROVE  /\ Cardinality(Holding)' = Cardinality(Holding) + (0 - 1)
           /\ Cardinality(HoldingOf(c))' = Cardinality(HoldingOf(c)) + (0 - 1)
           /\ \A d \in Checks \ {c} : HoldingOf(d)' = HoldingOf(d)
<1>1. \A d \in Checks, j \in Probers :
          prober'[d][j] = IF d = c /\ j = i THEN s ELSE prober[d][j]
    BY DEF BudgetTypes
<1>2. Holding' = Holding \ {<<c, i>>} /\ <<c, i>> \in Holding
    BY <1>1 DEF Holding, Seats
<1>3. HoldingOf(c)' = HoldingOf(c) \ {i} /\ i \in HoldingOf(c)
    BY <1>1 DEF HoldingOf
<1>4. \A d \in Checks \ {c} : HoldingOf(d)' = HoldingOf(d)
    BY <1>1 DEF HoldingOf
<1>5. Cardinality(Holding \ {<<c, i>>}) = Cardinality(Holding) - 1
    BY <1>2, HoldingFinite, FS_RemoveElement
<1>6. Cardinality(HoldingOf(c) \ {i}) = Cardinality(HoldingOf(c)) - 1
    BY <1>3, HoldingFinite, FS_RemoveElement
<1>7. Cardinality(Holding) \in Nat /\ Cardinality(HoldingOf(c)) \in Nat
    BY HoldingFinite
<1>8. /\ Cardinality(Holding)' = Cardinality(Holding) + (0 - 1)
      /\ Cardinality(HoldingOf(c))' = Cardinality(HoldingOf(c)) + (0 - 1)
    BY <1>2, <1>3, <1>5, <1>6, <1>7
<1> QED BY <1>4, <1>8

(* A prober moves on without a unit in hand before or after.                *)
LEMMA NobodyHolds ==
    ASSUME BudgetTypes, NEW c \in Checks, NEW i \in Probers, NEW s,
           prober[c][i].at # "waiting", s.at # "waiting",
           prober' = [prober EXCEPT ![c][i] = s]
    PROVE  Holding' = Holding /\ \A d \in Checks : HoldingOf(d)' = HoldingOf(d)
<1>1. \A d \in Checks, j \in Probers :
          prober'[d][j] = IF d = c /\ j = i THEN s ELSE prober[d][j]
    BY DEF BudgetTypes
<1>2. Holding' = Holding
    BY <1>1 DEF Holding, Seats
<1>3. \A d \in Checks : HoldingOf(d)' = HoldingOf(d)
    BY <1>1 DEF HoldingOf
<1> QED BY <1>2, <1>3

(* A step of check c that takes h units in hand and spends p of those it    *)
(* had conserves them.                                                      *)
LEMMA UnitsMove ==
    ASSUME BudgetTypes, UnitsConserved, NEW c \in Checks, NEW h \in Int, NEW p \in Int,
           Cardinality(Holding)' = Cardinality(Holding) + h,
           Cardinality(HoldingOf(c))' = Cardinality(HoldingOf(c)) + h,
           \A d \in Checks \ {c} : HoldingOf(d)' = HoldingOf(d),
           wallet' = wallet - h - p, spent' = spent + p,
           quota'[c] = quota[c] - h - p, billed'[c] = billed[c] + p,
           \A d \in Checks \ {c} : quota'[d] = quota[d] /\ billed'[d] = billed[d]
    PROVE  UnitsConserved'
<1>1. /\ wallet \in Nat /\ spent \in Nat /\ quota[c] \in Nat /\ billed[c] \in Nat
      /\ Cardinality(Holding) \in Nat /\ Cardinality(HoldingOf(c)) \in Nat
      /\ Budget \in Nat /\ Quota[c] \in Nat
    BY HoldingFinite, BudgetAssumption DEF BudgetTypes
<1>2. (wallet + Cardinality(Holding) + spent = Budget)'
    BY <1>1 DEF UnitsConserved
<1>3. ASSUME NEW d \in Checks
      PROVE  (quota[d] + Cardinality(HoldingOf(d)) + billed[d] = Quota[d])'
  <2>1. CASE d = c
    <3>1. quota[c] + Cardinality(HoldingOf(c)) + billed[c] = Quota[c]
        BY DEF UnitsConserved
    <3>2. (quota[c] + Cardinality(HoldingOf(c)) + billed[c] = Quota[c])'
        BY <1>1, <3>1
    <3> QED BY <2>1, <3>2
  <2>2. CASE d # c
      BY <2>2 DEF UnitsConserved
  <2> QED BY <2>1, <2>2
<1> QED BY <1>2, <1>3 DEF UnitsConserved

-----------------------------------------------------------------------------
LEMMA InitInv == BudgetInit => BudgetInv
<1> SUFFICES ASSUME BudgetInit PROVE BudgetInv
    OBVIOUS
<1>1. BudgetTypes
    BY BudgetAssumption DEF BudgetInit, BudgetTypes, ProberState, Probers
<1>2. NotStarted
    BY DEF BudgetInit, NotStarted, Workers, Probers
<1>3. Holding = {} /\ \A c \in Checks : HoldingOf(c) = {}
    BY DEF BudgetInit, Holding, HoldingOf, Seats, Probers
<1>4. Cardinality({}) = 0
    BY FS_EmptySet
<1>5. wallet + Cardinality(Holding) + spent = Budget
    BY <1>3, <1>4, BudgetAssumption DEF BudgetInit
<1>6. ASSUME NEW c \in Checks
      PROVE  quota[c] + Cardinality(HoldingOf(c)) + billed[c] = Quota[c]
  <2>1. Cardinality(HoldingOf(c)) = 0 /\ Quota[c] \in Nat
      BY <1>3, <1>4, BudgetAssumption
  <2> QED BY <2>1 DEF BudgetInit
<1>7. UnitsConserved
    BY <1>5, <1>6 DEF UnitsConserved
<1> QED BY <1>1, <1>2, <1>7 DEF BudgetInv

(* Start hands out one unit to each of the first workers, no more than the  *)
(* quota or the ceiling have.                                               *)
LEMMA StartInv ==
    ASSUME BudgetInv, NEW c \in Checks, Start(c) PROVE BudgetInv'
<1> DEFINE crew == {i \in Workers : i <= Len(Todo[c])}
           granted == {i \in crew : i <= quota[c] /\ i <= wallet}
           n == Cardinality(granted)
           m == Cardinality(crew)
           seat == [j \in Probers |->
                IF j \in granted THEN [at |-> "waiting", pos |-> j, refused |-> FALSE]
                ELSE IF j \in crew THEN [at |-> "answered", pos |-> j, refused |-> TRUE]
                ELSE IF j = 0 THEN prober[c][0]
                ELSE [at |-> "done", pos |-> 0, refused |-> FALSE]]
<1> USE DEF BudgetInv
<1>1. /\ granted \subseteq Workers /\ crew \subseteq Workers /\ crew # {}
      /\ \A i \in granted : i <= quota[c] /\ i <= wallet
    BY DEF Start
<1>2. /\ quota' = [quota EXCEPT ![c] = @ - n]
      /\ wallet' = wallet - n
      /\ next' = [next EXCEPT ![c] = 1 + m]
      /\ prober' = [prober EXCEPT ![c] = seat]
      /\ UNCHANGED <<report, billed, spent>>
    BY DEF Start
<1>3. /\ 0 \notin Workers /\ Workers \subseteq Probers /\ 0 \in Probers
      /\ Probers \subseteq Nat /\ Probers = Workers \cup {0}
    BY BudgetAssumption DEF Workers, Probers
<1>4. /\ quota[c] \in Nat /\ wallet \in Nat /\ quota \in [Checks -> Nat]
      /\ prober[c][0] \in ProberState
    BY <1>3 DEF BudgetTypes
<1>5. \A j \in Workers : prober[c][j].at = "idle"
    BY DEF Start, NotStarted
<1>6. /\ seat \in [Probers -> ProberState]
      /\ \A j \in Probers : seat[j].at = "waiting" <=>
                               j \in granted \/ (j = 0 /\ prober[c][0].at = "waiting")
    BY <1>1, <1>3, <1>4 DEF ProberState
<1> HIDE DEF seat, n, m, granted, crew
<1>7. /\ IsFiniteSet(granted) /\ n \in Nat
      /\ m \in Nat /\ m # 0
  <2>1. granted \in SUBSET Workers /\ crew \in SUBSET Workers
      BY <1>1
  <2>2. IsFiniteSet(granted) /\ IsFiniteSet(crew)
      BY <2>1, HoldingFinite, FS_Subset
  <2> QED BY <1>1, <2>2, FS_CardinalityType, FS_EmptySet DEF n, m
<1>8. n <= quota[c] /\ n <= wallet
  <2>1. granted \subseteq 1..quota[c] /\ granted \subseteq 1..wallet
      BY <1>1, <1>4, BudgetAssumption DEF Workers
  <2> QED BY <1>4, <2>1, CardBounded DEF n
<1>9. \A d \in Checks, j \in Probers :
          prober'[d][j] = IF d = c THEN seat[j] ELSE prober[d][j]
    BY <1>2 DEF BudgetTypes
<1>10. BudgetTypes'
  <2>1. prober' \in [Checks -> [Probers -> ProberState]]
      BY <1>2, <1>6 DEF BudgetTypes
  <2>2. next' \in [Checks -> Nat \ {0}]
      BY <1>2, <1>7 DEF BudgetTypes
  <2>3. quota' \in [Checks -> Nat] /\ wallet' \in Nat
      BY <1>2, <1>4, <1>7, <1>8
  <2> QED BY <1>2, <2>1, <2>2, <2>3 DEF BudgetTypes
<1>11. NotStarted'
  <2>1. next'[c] # 1
      BY <1>2, <1>7 DEF BudgetTypes
  <2>2. \A d \in Checks \ {c} : next'[d] = next[d]
      BY <1>2 DEF BudgetTypes
  <2> QED BY <1>3, <1>9, <2>1, <2>2 DEF NotStarted
<1>12. UnitsConserved'
  <2>0. \A d \in Checks, j \in Probers :
            prober'[d][j].at = "waiting" <=>
                prober[d][j].at = "waiting" \/ (d = c /\ j \in granted)
    <3> TAKE d \in Checks, j \in Probers
    <3>1. CASE d # c
        BY <1>9, <3>1
    <3>2. CASE d = c
      <4>1. prober'[d][j] = seat[j]
          BY <1>9, <3>2
      <4>2. CASE j = 0
        <5>1. j \notin granted
            BY <1>1, <1>3, <4>2
        <5>2. seat[j].at = "waiting" <=> prober[c][j].at = "waiting"
            BY <1>6, <4>2, <5>1
        <5> QED BY <3>2, <4>1, <5>1, <5>2
      <4>3. CASE j # 0
        <5>1. j \in Workers
            BY <1>3, <4>3
        <5>2. prober[c][j].at # "waiting"
            BY <1>5, <5>1
        <5>3. seat[j].at = "waiting" <=> j \in granted
            BY <1>6, <4>3
        <5> QED BY <3>2, <4>1, <5>2, <5>3
      <4> QED BY <4>2, <4>3
    <3> QED BY <3>1, <3>2
  <2>1. Holding' = Holding \cup ({c} \X granted)
    <3>1. \A d \in Checks, j \in Probers :
              <<d, j>> \in Holding' <=>
                  <<d, j>> \in Holding \/ <<d, j>> \in {c} \X granted
        BY <2>0 DEF Holding, Seats
    <3>2. Holding' \subseteq Checks \X Probers /\ Holding \subseteq Checks \X Probers
        BY DEF Holding, Seats
    <3>3. {c} \X granted \subseteq Checks \X Probers
        BY <1>1, <1>3
    <3> QED BY <3>1, <3>2, <3>3
  <2>2. Holding \cap ({c} \X granted) = {}
      BY <1>1, <1>5 DEF Holding
  <2>3. HoldingOf(c)' = HoldingOf(c) \cup granted
      BY <1>1, <1>3, <2>0 DEF HoldingOf
  <2>4. HoldingOf(c) \cap granted = {}
      BY <1>1, <1>5 DEF HoldingOf
  <2>5. \A d \in Checks \ {c} : HoldingOf(d)' = HoldingOf(d)
      BY <1>9 DEF HoldingOf
  <2>6. IsFiniteSet({c} \X granted) /\ Cardinality({c} \X granted) = n
      BY <1>7, CardPairs DEF n
  <2>7. Cardinality(Holding)' = Cardinality(Holding) + n
      BY <2>1, <2>2, <2>6, HoldingFinite, CardUnion
  <2>8. Cardinality(HoldingOf(c))' = Cardinality(HoldingOf(c)) + n
      BY <1>7, <2>3, <2>4, HoldingFinite, CardUnion DEF n
  <2>9. /\ wallet' = wallet - n - 0 /\ spent' = spent + 0
        /\ quota'[c] = quota[c] - n - 0 /\ billed'[c] = billed[c] + 0
        /\ \A d \in Checks \ {c} : quota'[d] = quota[d] /\ billed'[d] = billed[d]
      BY <1>2, <1>4, <1>7 DEF BudgetTypes
  <2> QED BY <1>7, <2>5, <2>7, <2>8, <2>9, UnitsMove
<1> QED BY <1>10, <1>11, <1>12

(* A unit is spent or comes back when the engine answers.                   *)
LEMMA ReturnInv ==
    ASSUME BudgetInv, NEW c \in Checks, NEW i \in Probers, Return(c, i) PROVE BudgetInv'
<1> USE DEF BudgetInv
<1>1. \E s \in ProberState :
          s.at # "waiting" /\ prober' = [prober EXCEPT ![c][i] = s]
  <2>1. CASE i = 0
    <3>1. prober' = [prober EXCEPT ![c][i].at = "done"]
        BY <2>1 DEF Return
    <3>2. \E s \in ProberState : s.at = "done" /\ prober' = [prober EXCEPT ![c][i] = s]
        BY <3>1, AtMoves
    <3> QED BY <3>2
  <2>2. CASE i # 0
    <3>1. prober' = [prober EXCEPT ![c][i].at = "answered"]
        BY <2>2 DEF Return
    <3>2. \E s \in ProberState : s.at = "answered" /\ prober' = [prober EXCEPT ![c][i] = s]
        BY <3>1, AtMoves
    <3> QED BY <3>2
  <2> QED BY <2>1, <2>2
<1>s. PICK s \in ProberState :
          s.at # "waiting" /\ prober' = [prober EXCEPT ![c][i] = s]
    BY <1>1
<1>2. prober[c][i].at = "waiting"
    BY DEF Return
<1>3. /\ Cardinality(Holding)' = Cardinality(Holding) + (0 - 1)
      /\ Cardinality(HoldingOf(c))' = Cardinality(HoldingOf(c)) + (0 - 1)
      /\ \A d \in Checks \ {c} : HoldingOf(d)' = HoldingOf(d)
    BY <1>s, <1>2, OneLessHolds
<1>4. UNCHANGED <<next, report>> /\ (next'[c] # 1 \/ i \notin Workers)
    BY <1>2 DEF Return, NotStarted
<1>5. prober' \in [Checks -> [Probers -> ProberState]] /\ NotStarted'
    BY <1>s, <1>4, ProberTypes
<1>6. \/ /\ billed' = [billed EXCEPT ![c] = @ + 1] /\ spent' = spent + 1
         /\ UNCHANGED <<wallet, quota>>
      \/ /\ quota' = [quota EXCEPT ![c] = @ + 1] /\ wallet' = wallet + 1
         /\ UNCHANGED <<billed, spent>>
    BY DEF Return
<1>7. CASE /\ billed' = [billed EXCEPT ![c] = @ + 1] /\ spent' = spent + 1
           /\ UNCHANGED <<wallet, quota>>
  <2>1. BudgetTypes'
      BY <1>4, <1>5, <1>7 DEF BudgetTypes
  <2>2. /\ wallet' = wallet - (0 - 1) - 1 /\ spent' = spent + 1
        /\ quota'[c] = quota[c] - (0 - 1) - 1 /\ billed'[c] = billed[c] + 1
        /\ \A d \in Checks \ {c} : quota'[d] = quota[d] /\ billed'[d] = billed[d]
      BY <1>7 DEF BudgetTypes
  <2>3. UnitsConserved'
      BY <1>3, <2>2, UnitsMove, HoldingFinite
  <2> QED BY <1>5, <2>1, <2>3
<1>8. CASE /\ quota' = [quota EXCEPT ![c] = @ + 1] /\ wallet' = wallet + 1
           /\ UNCHANGED <<billed, spent>>
  <2>1. BudgetTypes'
      BY <1>4, <1>5, <1>8 DEF BudgetTypes
  <2>2. /\ wallet' = wallet - (0 - 1) - 0 /\ spent' = spent + 0
        /\ quota'[c] = quota[c] - (0 - 1) - 0 /\ billed'[c] = billed[c] + 0
        /\ \A d \in Checks \ {c} : quota'[d] = quota[d] /\ billed'[d] = billed[d]
      BY <1>8 DEF BudgetTypes
  <2>3. UnitsConserved'
      BY <1>3, <2>2, UnitsMove, HoldingFinite
  <2> QED BY <1>5, <2>1, <2>3
<1> QED BY <1>6, <1>7, <1>8

(* A worker takes the next address, with a unit, without one, or ends.      *)
LEMMA ContinueInv ==
    ASSUME BudgetInv, NEW c \in Checks, NEW i \in Probers, Continue(c, i) PROVE BudgetInv'
<1> USE DEF BudgetInv
<1>0. prober[c][i].at = "answered" /\ i \in Workers /\ next[c] # 1
    BY DEF Continue, NotStarted
<1>1. CASE next[c] > Len(Todo[c])
  <2>0. PICK s \in ProberState : s.at = "done" /\ prober' = [prober EXCEPT ![c][i] = s]
      BY <1>1, AtMoves DEF Continue
  <2>1. /\ prober' = [prober EXCEPT ![c][i] = s] /\ s.at = "done" /\ s \in ProberState
        /\ UNCHANGED <<wallet, quota, next, report, billed, spent>>
      BY <1>1, <2>0 DEF Continue
  <2>2. Holding' = Holding /\ \A d \in Checks : HoldingOf(d)' = HoldingOf(d)
      BY <1>0, <2>1, NobodyHolds
  <2>3. prober' \in [Checks -> [Probers -> ProberState]] /\ NotStarted'
    <3>1. /\ next'[c] # 1 \/ i \notin Workers
          /\ \A d \in Checks \ {c} : next'[d] = next[d]
          /\ next'[c] = 1 => next[c] = 1
        BY <1>0, <2>1 DEF BudgetTypes
    <3> QED BY <1>0, <2>1, <3>1, ProberTypes
  <2>4. BudgetTypes'
      BY <2>1, <2>3 DEF BudgetTypes
  <2>5. UnitsConserved'
      BY <2>1, <2>2 DEF UnitsConserved
  <2> QED BY <2>3, <2>4, <2>5
<1>2. CASE ~(next[c] > Len(Todo[c])) /\ CanTake(c)
  <2> DEFINE s == [at |-> "waiting", pos |-> next[c], refused |-> FALSE]
  <2>1. /\ prober' = [prober EXCEPT ![c][i] = s] /\ s.at = "waiting" /\ s \in ProberState
        /\ next' = [next EXCEPT ![c] = @ + 1]
        /\ quota' = [quota EXCEPT ![c] = @ - 1] /\ wallet' = wallet - 1
        /\ UNCHANGED <<report, billed, spent>>
      BY <1>2 DEF Continue, BudgetTypes, ProberState
  <2> HIDE DEF s
  <2>2. /\ Cardinality(Holding)' = Cardinality(Holding) + 1
        /\ Cardinality(HoldingOf(c))' = Cardinality(HoldingOf(c)) + 1
        /\ \A d \in Checks \ {c} : HoldingOf(d)' = HoldingOf(d)
      BY <1>0, <2>1, OneMoreHolds
  <2>3. prober' \in [Checks -> [Probers -> ProberState]] /\ NotStarted'
    <3>1. /\ next'[c] # 1 \/ i \notin Workers
          /\ \A d \in Checks \ {c} : next'[d] = next[d]
          /\ next'[c] = 1 => next[c] = 1
        BY <1>0, <2>1 DEF BudgetTypes
    <3> QED BY <1>0, <2>1, <3>1, ProberTypes
  <2>4. BudgetTypes'
      BY <1>2, <2>1, <2>3 DEF BudgetTypes, CanTake
  <2>5. /\ wallet' = wallet - 1 - 0 /\ spent' = spent + 0
        /\ quota'[c] = quota[c] - 1 - 0 /\ billed'[c] = billed[c] + 0
        /\ \A d \in Checks \ {c} : quota'[d] = quota[d] /\ billed'[d] = billed[d]
      BY <2>1 DEF BudgetTypes
  <2>6. UnitsConserved'
      BY <2>2, <2>5, UnitsMove
  <2> QED BY <2>3, <2>4, <2>6
<1>3. CASE ~(next[c] > Len(Todo[c])) /\ ~CanTake(c)
  <2> DEFINE s == [at |-> "answered", pos |-> next[c], refused |-> TRUE]
  <2>1. /\ prober' = [prober EXCEPT ![c][i] = s] /\ s.at = "answered" /\ s \in ProberState
        /\ next' = [next EXCEPT ![c] = @ + 1]
        /\ UNCHANGED <<wallet, quota, report, billed, spent>>
      BY <1>3 DEF Continue, BudgetTypes, ProberState
  <2> HIDE DEF s
  <2>2. Holding' = Holding /\ \A d \in Checks : HoldingOf(d)' = HoldingOf(d)
      BY <1>0, <2>1, NobodyHolds
  <2>3. prober' \in [Checks -> [Probers -> ProberState]] /\ NotStarted'
    <3>1. /\ next'[c] # 1 \/ i \notin Workers
          /\ \A d \in Checks \ {c} : next'[d] = next[d]
          /\ next'[c] = 1 => next[c] = 1
        BY <1>0, <2>1 DEF BudgetTypes
    <3> QED BY <1>0, <2>1, <3>1, ProberTypes
  <2>4. BudgetTypes'
      BY <2>1, <2>3 DEF BudgetTypes
  <2>5. UnitsConserved'
      BY <2>1, <2>2 DEF UnitsConserved
  <2> QED BY <2>3, <2>4, <2>5
<1> QED BY <1>1, <1>2, <1>3

(* fetchText takes a unit for its only request.                             *)
LEMMA FetchTextInv ==
    ASSUME BudgetInv, NEW c \in Checks, FetchText(c) PROVE BudgetInv'
<1> USE DEF BudgetInv
<1>0. prober[c][0].at = "idle" /\ 0 \in Probers /\ 0 \notin Workers
    BY BudgetAssumption DEF FetchText, Probers, Workers
<1>1. CASE CanTake(c)
  <2>0. PICK s \in ProberState : s.at = "waiting" /\ prober' = [prober EXCEPT ![c][0] = s]
      BY <1>0, <1>1, AtMoves DEF FetchText
  <2>1. /\ prober' = [prober EXCEPT ![c][0] = s] /\ s.at = "waiting" /\ s \in ProberState
        /\ quota' = [quota EXCEPT ![c] = @ - 1] /\ wallet' = wallet - 1
        /\ UNCHANGED <<next, report, billed, spent>>
      BY <1>1, <2>0 DEF FetchText
  <2>2. /\ Cardinality(Holding)' = Cardinality(Holding) + 1
        /\ Cardinality(HoldingOf(c))' = Cardinality(HoldingOf(c)) + 1
        /\ \A d \in Checks \ {c} : HoldingOf(d)' = HoldingOf(d)
      BY <1>0, <2>1, OneMoreHolds
  <2>3. prober' \in [Checks -> [Probers -> ProberState]] /\ NotStarted'
    <3>1. /\ next'[c] # 1 \/ 0 \notin Workers
          /\ \A d \in Checks \ {c} : next'[d] = next[d]
          /\ next'[c] = 1 => next[c] = 1
        BY <1>0, <2>1 DEF BudgetTypes
    <3> QED BY <1>0, <2>1, <3>1, ProberTypes
  <2>4. BudgetTypes'
      BY <1>0, <1>1, <2>1, <2>3 DEF BudgetTypes, CanTake
  <2>5. /\ wallet' = wallet - 1 - 0 /\ spent' = spent + 0
        /\ quota'[c] = quota[c] - 1 - 0 /\ billed'[c] = billed[c] + 0
        /\ \A d \in Checks \ {c} : quota'[d] = quota[d] /\ billed'[d] = billed[d]
      BY <2>1 DEF BudgetTypes
  <2>6. UnitsConserved'
      BY <2>2, <2>5, UnitsMove
  <2> QED BY <2>3, <2>4, <2>6
<1>2. CASE ~CanTake(c)
  <2>0. PICK s \in ProberState : s.at = "done" /\ prober' = [prober EXCEPT ![c][0] = s]
      BY <1>0, <1>2, AtMoves DEF FetchText
  <2>1. /\ prober' = [prober EXCEPT ![c][0] = s] /\ s.at = "done" /\ s \in ProberState
        /\ UNCHANGED <<wallet, quota, next, report, billed, spent>>
      BY <1>2, <2>0 DEF FetchText
  <2>2. Holding' = Holding /\ \A d \in Checks : HoldingOf(d)' = HoldingOf(d)
      BY <1>0, <2>1, NobodyHolds
  <2>3. prober' \in [Checks -> [Probers -> ProberState]] /\ NotStarted'
    <3>1. /\ next'[c] # 1 \/ 0 \notin Workers
          /\ \A d \in Checks \ {c} : next'[d] = next[d]
          /\ next'[c] = 1 => next[c] = 1
        BY <1>0, <2>1 DEF BudgetTypes
    <3> QED BY <1>0, <2>1, <3>1, ProberTypes
  <2>4. BudgetTypes'
      BY <1>0, <2>1, <2>3 DEF BudgetTypes
  <2>5. UnitsConserved'
      BY <2>1, <2>2 DEF UnitsConserved
  <2> QED BY <2>3, <2>4, <2>5
<1> QED BY <1>1, <1>2

(* Deliver only files the report.                                            *)
LEMMA FinishInv ==
    ASSUME BudgetInv, NEW c \in Checks, Deliver(c) PROVE BudgetInv'
<1> USE DEF BudgetInv
<1>1. BudgetTypes'
    BY DEF Deliver, BudgetTypes
<1>2. NotStarted' /\ UnitsConserved'
    BY DEF Deliver, NotStarted, UnitsConserved, Holding, HoldingOf
<1> QED BY <1>1, <1>2

LEMMA StepInv == BudgetInv /\ [BudgetNext]_budgetVars => BudgetInv'
<1> SUFFICES ASSUME BudgetInv, [BudgetNext]_budgetVars PROVE BudgetInv'
    OBVIOUS
<1>1. CASE BudgetNext
    BY <1>1, StartInv, ReturnInv, ContinueInv, FetchTextInv, FinishInv DEF BudgetNext
<1>2. CASE UNCHANGED budgetVars
    BY <1>2 DEF budgetVars, BudgetInv, BudgetTypes, NotStarted, UnitsConserved, Holding, HoldingOf
<1> QED BY <1>1, <1>2

(* BudgetedProbe and its two wallets (network-probe.ts): the invariant of   *)
(* the theorems below, for any checks, lists, quotas, ceiling and pool.     *)
THEOREM BudgetInvariant == BudgetSpec => []BudgetInv
<1> QED BY InitInv, StepInv, PTL DEF BudgetSpec

(* Wallets, quotas and counters keep their types: in particular, none of    *)
(* them goes below zero.                                                    *)
THEOREM BudgetTypeCorrect == BudgetSpec => []BudgetTypeOK
<1>1. BudgetInv => BudgetTypeOK
    BY DEF BudgetInv, BudgetTypes, BudgetTypeOK
<1> QED BY <1>1, BudgetInvariant, PTL

(* No unit is lost or made, in the quota of a check or in the ceiling of    *)
(* the analysis (BudgetWallet and CheckWallet, network-probe.ts:111-151).   *)
THEOREM BudgetConserved == BudgetSpec => []UnitsConserved
<1>1. BudgetInv => UnitsConserved
    BY DEF BudgetInv
<1> QED BY <1>1, BudgetInvariant, PTL

(* The ceiling is absolute, for any checks, quotas and pool size, even      *)
(* counting the requests in progress (network-probe.ts:84).                 *)
THEOREM BudgetCeilingKept == BudgetSpec => []CeilingKept
<1>1. BudgetInv => CeilingKept
    BY HoldingFinite, BudgetAssumption
    DEF BudgetInv, BudgetTypes, UnitsConserved, CeilingKept
<1> QED BY <1>1, BudgetInvariant, PTL

-----------------------------------------------------------------------------
(* Each checkMany as a pool of workers. A worker has an address that the    *)
(* shared index has passed, and nothing is filed before the start.          *)
Places ==
    /\ \A c \in Checks : next[c] <= Len(Todo[c]) + 1
    /\ \A c \in Checks : \A i \in Workers :
           prober[c][i].at \in {"waiting", "answered"} => prober[c][i].pos \in 1..(next[c] - 1)
    /\ DOMAIN byUrl = Checks
    /\ \A c \in Checks :
           /\ DOMAIN byUrl[c] = ToSet(List[c])
           /\ next[c] = 1 => \A u \in ToSet(List[c]) : byUrl[c][u] = NoAnswer

PoolInv == BudgetInv /\ Places

(* The pool of a check, as its own operators.                               *)
Waits(c) == {Todo[c][n] : n \in next[c]..Len(Todo[c])}
Desks(c) == [i \in Workers |-> IF prober[c][i].at \in {"waiting", "answered"}
                              THEN Todo[c][prober[c][i].pos] ELSE NoAnswer]
Filed(c) == {u \in ToSet(List[c]) : byUrl[c][u] # NoAnswer}

LEMMA TodoFacts ==
    ASSUME NEW c \in Checks
    PROVE  /\ Len(Todo[c]) \in Nat /\ DOMAIN Todo[c] = 1..Len(Todo[c])
           /\ \A k \in 1..Len(Todo[c]) : Todo[c][k] \in ToSet(List[c])
           /\ \A k, l \in 1..Len(Todo[c]) : Todo[c][k] = Todo[c][l] => k = l
           /\ ToSet(List[c]) = {Todo[c][k] : k \in 1..Len(Todo[c])}
           /\ NoAnswer \notin ToSet(List[c])
<1>1. Todo[c] = Distinct(List[c]) /\ List[c] \in Seq(ToSet(List[c]))
    BY ListAssumption DEF Todo
<1>2. /\ Todo[c] \in Seq(ToSet(List[c])) /\ ToSet(Todo[c]) = ToSet(List[c])
      /\ \A k, l \in DOMAIN Todo[c] : Todo[c][k] = Todo[c][l] => k = l
    BY <1>1, DistinctOnce
<1>3. Len(Todo[c]) \in Nat /\ DOMAIN Todo[c] = 1..Len(Todo[c])
    BY <1>2
<1>4. ToSet(Todo[c]) = {Todo[c][k] : k \in DOMAIN Todo[c]}
    BY DEF ToSet
<1> QED BY <1>2, <1>3, <1>4, ListAssumption

(* A step that touches neither the index, nor what is filed, nor the        *)
(* address of a worker at work is no step of the pool.                      *)
LEMMA PoolStutters ==
    ASSUME NEW c \in Checks, next'[c] = next[c], byUrl'[c] = byUrl[c],
           \A i \in Workers :
               /\ prober'[c][i].at \in {"waiting", "answered"} <=>
                      prober[c][i].at \in {"waiting", "answered"}
               /\ prober'[c][i].pos = prober[c][i].pos
    PROVE  UNCHANGED Pool(c)!vars
BY DEF Pool!vars

(* A prober changes, the index and what is filed do not: the pool does not  *)
(* move, as long as the prober keeps its address.                           *)
LEMMA ProberAlone ==
    ASSUME BudgetTypes, Places, NEW c \in Checks, NEW i \in Probers, NEW x,
           UNCHANGED <<next, byUrl>>, prober' = [prober EXCEPT ![c][i].at = x],
           i \in Workers => prober[c][i].at \in {"waiting", "answered"}
                            /\ x \in {"waiting", "answered"}
    PROVE  Places' /\ \A d \in Checks : UNCHANGED Pool(d)!vars
<1>1. \A d \in Checks, j \in Probers :
          /\ prober'[d][j].pos = prober[d][j].pos
          /\ prober'[d][j].at = IF d = c /\ j = i THEN x ELSE prober[d][j].at
    BY DEF BudgetTypes, ProberState
<1>2. Workers \subseteq Probers
    BY BudgetAssumption DEF Workers, Probers
<1>3. Places'
    BY <1>1, <1>2 DEF Places
<1>4. ASSUME NEW d \in Checks PROVE UNCHANGED Pool(d)!vars
    BY <1>1, <1>2, PoolStutters
<1> QED BY <1>3, <1>4

(* checkMany's first segment hires the workers.                             *)
LEMMA StartHires ==
    ASSUME PoolInv, NEW c \in Checks, Start(c)
    PROVE  Places' /\ Pool(c)!Hire /\ \A d \in Checks \ {c} : UNCHANGED Pool(d)!vars
<1> DEFINE size == Len(Todo[c])
           crew == {i \in Workers : i <= size}
           granted == {i \in crew : i <= quota[c] /\ i <= wallet}
           m == Cardinality(crew)
           seat == [i \in Probers |->
                IF i \in granted THEN [at |-> "waiting", pos |-> i, refused |-> FALSE]
                ELSE IF i \in crew THEN [at |-> "answered", pos |-> i, refused |-> TRUE]
                ELSE IF i = 0 THEN prober[c][0]
                ELSE [at |-> "done", pos |-> 0, refused |-> FALSE]]
<1>1. /\ next[c] = 1 /\ crew # {} /\ next' = [next EXCEPT ![c] = 1 + m]
      /\ prober' = [prober EXCEPT ![c] = seat] /\ byUrl' = byUrl
    BY DEF Start
<1>2. /\ size \in Nat /\ PoolSize \in Nat \ {0} /\ Workers = 1..PoolSize
      /\ Probers = 0..PoolSize
    BY TodoFacts, BudgetAssumption DEF Workers, Probers
<1>3. granted \subseteq crew /\ \A i \in Workers : i \in crew <=> i <= size
    OBVIOUS
<1>4. \A i \in Workers :
          /\ i \in crew => seat[i].pos = i /\ seat[i].at \in {"waiting", "answered"}
          /\ i \notin crew => seat[i].at = "done"
    BY <1>2, <1>3
<1>5. /\ m \in 1..size /\ \A i : i \in 1..m <=> i \in crew
      /\ m = PoolSize \/ m = size
    <2> HIDE DEF size
    <2>1. CASE PoolSize <= size
        <3>1. crew = 1..PoolSize
            BY <1>2, <2>1
        <3>2. m = PoolSize
            BY <1>2, <3>1, UpTo
        <3> HIDE DEF m, crew
        <3> QED BY <1>2, <2>1, <3>1, <3>2
    <2>2. CASE ~(PoolSize <= size)
        <3>1. crew = 1..size
            BY <1>2, <2>2
        <3>2. m = size
            BY <1>2, <3>1, UpTo
        <3> HIDE DEF m, crew
        <3>3. size # 0
            BY <1>1, <1>2, <3>1
        <3> QED BY <1>2, <2>2, <3>1, <3>2, <3>3
    <2> QED BY <2>1, <2>2
<1> HIDE DEF seat, granted, crew, m, size
<1>6. /\ next'[c] = 1 + m /\ prober'[c] = seat
      /\ \A d \in Checks \ {c} : next'[d] = next[d] /\ prober'[d] = prober[d]
    BY <1>1 DEF PoolInv, BudgetInv, BudgetTypes
<1>7. Places'
    <2>1. \A i \in Workers : seat[i].at \in {"waiting", "answered"} => seat[i].pos \in 1..m
        BY <1>4, <1>5
    <2>2. 1 + m <= size + 1 /\ (1 + m) - 1 = m /\ 1 + m # 1
        BY <1>2, <1>5
    <2> QED BY <1>1, <1>6, <2>1, <2>2 DEF PoolInv, Places, size
<1>8. \A d \in Checks \ {c} : UNCHANGED Pool(d)!vars
    <2> TAKE d \in Checks \ {c}
    <2>1. next'[d] = next[d] /\ prober'[d] = prober[d] /\ byUrl'[d] = byUrl[d]
        BY <1>1, <1>6
    <2> QED BY <2>1, PoolStutters
<1>9. /\ \A k \in 1..size : Todo[c][k] \in ToSet(List[c]) /\ Todo[c][k] # NoAnswer
      /\ \A k, l \in 1..size : Todo[c][k] = Todo[c][l] => k = l
      /\ ToSet(List[c]) = {Todo[c][k] : k \in 1..size}
    <2>1. /\ \A k \in 1..size : Todo[c][k] \in ToSet(List[c])
          /\ NoAnswer \notin ToSet(List[c])
        BY TodoFacts, Zenon DEF size
    <2>2. \A k, l \in 1..size : Todo[c][k] = Todo[c][l] => k = l
        BY TodoFacts, Zenon DEF size
    <2>3. ToSet(List[c]) = {Todo[c][k] : k \in 1..size}
        BY TodoFacts, Zenon DEF size
    <2> QED BY <2>1, <2>2, <2>3
<1>10. Waits(c) = ToSet(List[c]) /\ Filed(c) = {} /\ Filed(c)' = {}
    BY <1>1, <1>9 DEF Waits, Filed, PoolInv, Places, size
<1>11. Waits(c)' = {Todo[c][k] : k \in (1 + m)..size}
    BY <1>6 DEF Waits, size
<1>12. \A i \in Workers : Desks(c)[i] = NoAnswer
    BY <1>1 DEF Desks, PoolInv, BudgetInv, NotStarted
<1>13. /\ \A i \in Workers : Desks(c)'[i] = IF i \in 1..m THEN Todo[c][i] ELSE NoAnswer
       /\ Desks(c)' = [i \in Workers |-> Desks(c)'[i]]
    <2>1. Desks(c)' = [i \in Workers |-> IF seat[i].at \in {"waiting", "answered"}
                                        THEN Todo[c][seat[i].pos] ELSE NoAnswer]
        BY <1>6 DEF Desks
    <2> QED BY <2>1, <1>4, <1>5
<1>14. \A i \in 1..m : i \in 1..size /\ i \in Workers
    BY <1>2, <1>5 DEF crew
<1>15. Desks(c)' \in [Workers -> Waits(c) \union {NoAnswer}]
    BY <1>9, <1>10, <1>13, <1>14
<1>16. \A v, w \in Workers : Desks(c)'[v] = Desks(c)'[w] /\ Desks(c)'[v] # NoAnswer => v = w
    BY <1>9, <1>13, <1>14
<1>17. Waits(c)' = {j \in Waits(c) : \A w \in Workers : Desks(c)'[w] # j}
    <2>1. ASSUME NEW k \in 1..size
          PROVE  k \in (1 + m)..size <=> \A w \in Workers : Desks(c)'[w] # Todo[c][k]
        <3>1. CASE k \in 1..m
            <4>1. k \in Workers /\ Desks(c)'[k] = Todo[c][k] /\ k \notin (1 + m)..size
                BY <1>2, <1>5, <1>13, <1>14, <3>1
            <4> QED BY <4>1
        <3>2. CASE k \notin 1..m
            <4>1. k \in (1 + m)..size
                BY <1>2, <1>5, <3>2
            <4>2. ASSUME NEW w \in Workers, Desks(c)'[w] = Todo[c][k] PROVE FALSE
                <5>1. w \in 1..m /\ w \in 1..size /\ Todo[c][w] = Todo[c][k]
                    BY <1>9, <1>13, <1>14, <4>2
                <5> QED BY <1>9, <3>2, <5>1
            <4> QED BY <4>1, <4>2
        <3> QED BY <3>1, <3>2
    <2>2. \A k \in (1 + m)..size : k \in 1..size
        BY <1>2, <1>5
    <2> QED BY <1>9, <1>10, <1>11, <2>1, <2>2
<1>18. Waits(c)' = {} \/ \A w \in Workers : Desks(c)'[w] # NoAnswer
    <2>1. CASE m = size
        BY <1>2, <1>11, <2>1
    <2>2. CASE m = PoolSize
        BY <1>2, <1>9, <1>13, <1>14, <2>2
    <2> QED BY <1>5, <2>1, <2>2
<1>19. Waits(c) # {}
    <2>1. 1 \in 1..size
        BY <1>2, <1>5
    <2> QED BY <1>9, <1>10, <2>1
<1>20. Pool(c)!Hire
    BY <1>10, <1>12, <1>15, <1>16, <1>17, <1>18, <1>19
    DEF Pool!Hire, Pool!Busy, Waits, Desks, Filed
<1> QED BY <1>7, <1>8, <1>20

(* A worker that files its answer and takes the next address has its turn.  *)
LEMMA ContinueTurns ==
    ASSUME PoolInv, NEW c \in Checks, NEW i \in Probers, Continue(c, i)
    PROVE  Places' /\ i \in Workers /\ Pool(c)!Turn(i)
           /\ \A d \in Checks \ {c} : UNCHANGED Pool(d)!vars
<1> DEFINE url == Todo[c][prober[c][i].pos]
           ans == [url |-> url, exhausted |-> prober[c][i].refused]
           size == Len(Todo[c])
           more == ~(next[c] > size)
           new == IF ~more THEN [at |-> "done", pos |-> prober[c][i].pos,
                                 refused |-> prober[c][i].refused]
                  ELSE [at |-> IF CanTake(c) THEN "waiting" ELSE "answered", pos |-> next[c],
                        refused |-> ~CanTake(c)]
<1>0. PoolInv /\ BudgetTypes /\ Places /\ prober[c][i] \in ProberState
    BY DEF PoolInv, BudgetInv, BudgetTypes
<1>1. /\ i \in Workers /\ prober[c][i].at = "answered"
      /\ byUrl' = [byUrl EXCEPT ![c][url] = ans]
    BY DEF Continue
<1>2. /\ next' = (IF more THEN [next EXCEPT ![c] = @ + 1] ELSE next)
      /\ prober' = [prober EXCEPT ![c][i] = new]
    <2>1. CASE ~more
        <3>1. prober' = [prober EXCEPT ![c][i].at = "done"] /\ next' = next
            BY <2>1 DEF Continue
        <3>2. [prober[c][i] EXCEPT !.at = "done"] = new
            BY <1>0, <2>1 DEF ProberState
        <3>3. prober' = [prober EXCEPT ![c][i] = new]
            BY <3>1, <3>2
        <3> QED BY <2>1, <3>1, <3>3
    <2>2. CASE more /\ CanTake(c)
        BY <2>2 DEF Continue
    <2>3. CASE more /\ ~CanTake(c)
        BY <2>3 DEF Continue
    <2> QED BY <2>1, <2>2, <2>3
<1>3. /\ next[c] \in Nat \ {0} /\ size \in Nat /\ next[c] <= size + 1
      /\ prober[c][i].pos \in 1..(next[c] - 1) /\ i \in Probers
      /\ DOMAIN byUrl = Checks /\ DOMAIN byUrl[c] = ToSet(List[c])
    BY <1>0, <1>1, TodoFacts DEF BudgetTypes, Places
<1>4. prober[c][i].pos \in 1..size
    BY <1>3
<1>5. /\ url \in ToSet(List[c]) /\ url # NoAnswer /\ ans # NoAnswer
      /\ \A k \in 1..size : Todo[c][k] \in ToSet(List[c]) /\ Todo[c][k] # NoAnswer
      /\ \A k, l \in 1..size : Todo[c][k] = Todo[c][l] => k = l
    <2>1. prober[c][i].refused \in BOOLEAN
        BY <1>0 DEF ProberState
    <2> QED BY <1>4, <2>1, TodoFacts, ListAssumption
<1> HIDE DEF url, ans, size, new
<1>6. /\ \A d \in Checks : d # c => byUrl'[d] = byUrl[d]
      /\ DOMAIN byUrl' = Checks /\ DOMAIN byUrl'[c] = ToSet(List[c])
      /\ \A u \in ToSet(List[c]) : byUrl'[c][u] = IF u = url THEN ans ELSE byUrl[c][u]
    BY <1>1, <1>3
<1>7. \A d \in Checks, j \in Probers : prober'[d][j] = IF d = c /\ j = i THEN new ELSE prober[d][j]
    BY <1>0, <1>2 DEF BudgetTypes
<1>8. /\ next'[c] = IF more THEN next[c] + 1 ELSE next[c]
      /\ \A d \in Checks : d # c => next'[d] = next[d]
    BY <1>0, <1>2 DEF BudgetTypes
<1>9. /\ more <=> new.at \in {"waiting", "answered"}
      /\ more => new.pos = next[c]
    BY DEF new
<1>10. Workers \subseteq Probers /\ next[c] # 1
    BY <1>0, <1>1 DEF Workers, Probers, PoolInv, BudgetInv, NotStarted
<1>11. Places'
    <2>1. ASSUME NEW d \in Checks PROVE next'[d] <= Len(Todo[d]) + 1
        <3>1. CASE d = c
            BY <1>3, <1>8, <3>1 DEF size
        <3>2. CASE d # c
            BY <1>0, <1>8, <3>2 DEF Places
        <3> QED BY <3>1, <3>2
    <2>2. ASSUME NEW d \in Checks, NEW j \in Workers, prober'[d][j].at \in {"waiting", "answered"}
          PROVE  prober'[d][j].pos \in 1..(next'[d] - 1)
        <3>1. CASE d = c /\ j = i
            BY <1>3, <1>7, <1>8, <1>9, <2>2, <3>1
        <3>2. CASE d = c /\ j # i
            <4>1. prober[c][j].pos \in 1..(next[c] - 1) /\ prober'[c][j] = prober[c][j]
                BY <1>0, <1>7, <1>10, <2>2, <3>2 DEF Places
            <4> QED BY <1>3, <1>8, <3>2, <4>1
        <3>3. CASE d # c
            BY <1>0, <1>7, <1>8, <1>10, <2>2, <3>3 DEF Places
        <3> QED BY <3>1, <3>2, <3>3
    <2>3. ASSUME NEW d \in Checks
          PROVE  /\ DOMAIN byUrl'[d] = ToSet(List[d])
                 /\ next'[d] = 1 => \A u \in ToSet(List[d]) : byUrl'[d][u] = NoAnswer
        <3>1. CASE d = c
            BY <1>3, <1>6, <1>8, <1>10, <3>1
        <3>2. CASE d # c
            BY <1>0, <1>6, <1>8, <3>2 DEF Places
        <3> QED BY <3>1, <3>2
    <2> QED BY <1>6, <2>1, <2>2, <2>3 DEF Places
<1>12. ASSUME NEW d \in Checks, d # c PROVE UNCHANGED Pool(d)!vars
    <2>1. next'[d] = next[d] /\ prober'[d] = prober[d] /\ byUrl'[d] = byUrl[d]
        BY <1>0, <1>2, <1>6, <1>8, <1>12 DEF BudgetTypes
    <2> QED BY <2>1, PoolStutters
<1>13. Desks(c)[i] = url /\ Filed(c)' = Filed(c) \union {url}
    BY <1>1, <1>5, <1>6 DEF Desks, Filed, url
<1>14. Desks(c)' = [Desks(c) EXCEPT ![i] = IF more THEN Todo[c][next[c]] ELSE NoAnswer]
    BY <1>7, <1>9, <1>10 DEF Desks
<1>15. Waits(c)' = Waits(c) \ (IF more THEN {Todo[c][next[c]]} ELSE {})
    <2>1. CASE ~more
        BY <1>8, <2>1 DEF Waits
    <2>2. CASE more
        <3>1. Waits(c)' = {Todo[c][k] : k \in (next[c] + 1)..size}
            BY <1>8, <2>2 DEF Waits, size
        <3>2. \A k \in next[c]..size : k = next[c] \/ k \in (next[c] + 1)..size
            BY <1>3
        <3>3. \A k \in (next[c] + 1)..size :
                  k \in next[c]..size /\ k # next[c] /\ k \in 1..size
            BY <1>3
        <3>4. next[c] \in 1..size
            BY <1>3, <2>2
        <3>5. \A k \in (next[c] + 1)..size : Todo[c][k] # Todo[c][next[c]]
            BY <1>5, <3>3, <3>4
        <3> QED BY <2>2, <3>1, <3>2, <3>3, <3>5 DEF Waits, size
    <2> QED BY <2>1, <2>2
<1>16. /\ more => Todo[c][next[c]] \in Waits(c)
       /\ ~more => Waits(c) = {}
    BY <1>3 DEF Waits, size
<1>17. CASE more
    <2>1. Waits(c) # {} /\ Todo[c][next[c]] \in Waits(c)
        BY <1>16, <1>17
    <2>2. Pool(c)!Turn(i)
        BY <1>5, <1>13, <1>14, <1>15, <1>17, <2>1 DEF Pool!Turn, Waits, Desks, Filed
    <2> QED BY <1>1, <1>11, <1>12, <2>2
<1>18. CASE ~more
    <2>1. Pool(c)!Turn(i)
        BY <1>5, <1>13, <1>14, <1>15, <1>16, <1>18 DEF Pool!Turn, Waits, Desks, Filed
    <2> QED BY <1>1, <1>11, <1>12, <2>1
<1> QED BY <1>17, <1>18

LEMMA PoolStarts == BudgetInit => PoolInv /\ \A c \in Checks : Pool(c)!Init
<1> SUFFICES ASSUME BudgetInit PROVE PoolInv /\ \A c \in Checks : Pool(c)!Init
    OBVIOUS
<1>1. Places
    BY TodoFacts DEF BudgetInit, Places, Workers, Probers
<1>2. ASSUME NEW c \in Checks PROVE Pool(c)!Init
    <2>1. Waits(c) = ToSet(List[c])
        BY TodoFacts DEF BudgetInit, Waits
    <2>2. \A i \in Workers : prober[c][i].at = "idle"
        BY DEF BudgetInit, Workers, Probers
    <2>3. Desks(c) = [i \in Workers |-> NoAnswer] /\ Filed(c) = {}
        BY <2>2 DEF BudgetInit, Desks, Filed
    <2> QED BY <2>1, <2>3 DEF Pool!Init, Waits, Desks, Filed
<1> QED BY <1>1, <1>2, InitInv DEF PoolInv

(* Every step moves each pool as a pool may move, or leaves it alone.       *)
LEMMA PoolSteps == PoolInv /\ [BudgetNext]_budgetVars => PoolInv' /\ PoolsMove
<1> SUFFICES ASSUME PoolInv, [BudgetNext]_budgetVars PROVE Places' /\ PoolsMove
    BY StepInv DEF PoolInv
<1>0. BudgetTypes /\ Places /\ 0 \in Probers /\ 0 \notin Workers
    BY BudgetAssumption DEF PoolInv, BudgetInv, Probers, Workers
<1>1. CASE UNCHANGED budgetVars
    <2>1. Places' /\ \A d \in Checks : UNCHANGED Pool(d)!vars
        BY <1>0, <1>1 DEF budgetVars, Places, Pool!vars
    <2> QED BY <2>1 DEF PoolsMove
<1>2. ASSUME NEW c \in Checks, Start(c) PROVE Places' /\ PoolsMove
    BY <1>2, StartHires DEF PoolsMove, Pool!Next
<1>3. ASSUME NEW c \in Checks, NEW i \in Probers, Continue(c, i) PROVE Places' /\ PoolsMove
    BY <1>3, ContinueTurns DEF PoolsMove, Pool!Next
<1>4. ASSUME NEW c \in Checks, NEW i \in Probers, Return(c, i) PROVE Places' /\ PoolsMove
    <2>1. CASE i = 0
        <3>1. prober' = [prober EXCEPT ![c][i].at = "done"] /\ UNCHANGED <<next, byUrl>>
            BY <1>4, <2>1 DEF Return
        <3> QED BY <1>0, <2>1, <3>1, ProberAlone DEF PoolsMove
    <2>2. CASE i # 0
        <3>1. prober' = [prober EXCEPT ![c][i].at = "answered"] /\ UNCHANGED <<next, byUrl>>
              /\ prober[c][i].at = "waiting"
            BY <1>4, <2>2 DEF Return
        <3> QED BY <1>0, <3>1, ProberAlone DEF PoolsMove
    <2> QED BY <2>1, <2>2
<1>5. ASSUME NEW c \in Checks, FetchText(c) PROVE Places' /\ PoolsMove
    <2>1. UNCHANGED <<next, byUrl>>
          /\ \E x \in {"waiting", "done"} : prober' = [prober EXCEPT ![c][0].at = x]
        BY <1>5 DEF FetchText
    <2> QED BY <1>0, <2>1, ProberAlone DEF PoolsMove
<1>6. ASSUME NEW c \in Checks, Deliver(c) PROVE Places' /\ PoolsMove
    <2>1. UNCHANGED <<next, prober, byUrl>>
        BY <1>6 DEF Deliver
    <2>2. Places' /\ \A d \in Checks : UNCHANGED Pool(d)!vars
        BY <1>0, <2>1 DEF Places, Pool!vars
    <2> QED BY <2>2 DEF PoolsMove
<1> QED BY <1>1, <1>2, <1>3, <1>4, <1>5, <1>6 DEF BudgetNext

(* BudgetedProbe.checkMany (network-probe.ts): each call implements the     *)
(* pool of workers, for any list, pool size, quota and ceiling.             *)
THEOREM BudgetImplementsPools == BudgetSpec => ImplementsPools
<1>1. BudgetInit => PoolInv /\ \A c \in Checks : Pool(c)!Init
    BY PoolStarts
<1>2. PoolInv /\ [BudgetNext]_budgetVars => PoolInv' /\ PoolsMove
    BY PoolSteps
<1> QED BY <1>1, <1>2, PTL DEF BudgetSpec, ImplementsPools

-----------------------------------------------------------------------------
(* The pools' own invariant, lemma by lemma: the two moves of a pool keep   *)
(* every address in one place.                                              *)
LEMMA HireKeeps ==
    ASSUME NEW c \in Checks, Pool(c)!EachJobOnce, Pool(c)!Hire
    PROVE  Pool(c)!EachJobOnce'
<1> DEFINE all == ToSet(List[c])
           waits == Waits(c)
           desks == Desks(c)
           done == Filed(c)
<1>0. /\ {v \in Workers : desks[v] # NoAnswer} = {} /\ done = {} /\ done' = done
      /\ desks' \in [Workers -> waits \union {NoAnswer}]
      /\ \A v, w \in Workers : desks'[v] = desks'[w] /\ desks'[v] # NoAnswer => v = w
      /\ waits' = {j \in waits : \A w \in Workers : desks'[w] # j}
    BY DEF Pool!Hire, Pool!Busy, Waits, Desks, Filed
<1>1. waits \union {desks[v] : v \in {u \in Workers : desks[u] # NoAnswer}} \union done = all
    BY DEF Pool!EachJobOnce, Pool!Busy, Waits, Desks, Filed
<1>2. NoAnswer \notin all
    BY TodoFacts
<1> HIDE DEF all, waits, desks, done
<1>3. waits = all
    BY <1>0, <1>1
<1>4. /\ waits' \union {desks'[v] : v \in {u \in Workers : desks'[u] # NoAnswer}} \union done' = all
      /\ waits' \cap done' = {}
      /\ \A v \in Workers : desks'[v] # NoAnswer => desks'[v] \notin waits' \union done'
    BY <1>0, <1>2, <1>3
<1> QED BY <1>0, <1>4 DEF Pool!EachJobOnce, Pool!Busy, Waits, Desks, Filed, all, waits, desks, done

LEMMA TurnKeeps ==
    ASSUME NEW c \in Checks, Pool(c)!EachJobOnce, NEW w \in Workers, Pool(c)!Turn(w)
    PROVE  Pool(c)!EachJobOnce'
<1> DEFINE all == ToSet(List[c])
           waits == Waits(c)
           desk == Desks(c)
           done == Filed(c)
           busy == {desk[v] : v \in {u \in Workers : desk[u] # NoAnswer}}
<1>1. /\ waits \union busy \union done = all /\ waits \cap done = {}
      /\ \A v \in Workers : desk[v] # NoAnswer => desk[v] \notin waits \union done
      /\ \A u, v \in Workers : desk[u] # NoAnswer /\ desk[u] = desk[v] => u = v
    BY DEF Pool!EachJobOnce, Pool!Busy, Waits, Desks, Filed
<1>2. \A x : x \in busy <=> x # NoAnswer /\ \E v \in Workers : desk[v] = x
    OBVIOUS
<1>3. desk[w] # NoAnswer /\ done' = done \union {desk[w]}
    BY DEF Pool!Turn, Desks, Filed
<1>4. PICK j \in waits \union {NoAnswer} :
          /\ desk' = [desk EXCEPT ![w] = j] /\ waits' = waits \ {j}
          /\ j \in waits \/ waits = {}
    BY DEF Pool!Turn, Waits, Desks
<1>5. \A v \in Workers : desk'[v] = IF v = w THEN j ELSE desk[v]
    BY <1>4 DEF Desks
<1>6. \A x : x \in busy' <=> x # NoAnswer /\ \E v \in Workers : desk'[v] = x
    OBVIOUS
<1>7. NoAnswer \notin all
    BY TodoFacts
<1> HIDE DEF all, waits, desk, done, busy
<1>8. \A x : x \in busy' <=> x # NoAnswer /\ (x = j \/ (x \in busy /\ x # desk[w]))
    BY <1>1, <1>2, <1>5, <1>6
<1>9. NoAnswer \notin waits /\ waits \subseteq all
    BY <1>1, <1>7
<1>10. waits' \union busy' \union done' = all /\ waits' \cap done' = {}
    BY <1>1, <1>2, <1>3, <1>4, <1>8, <1>9
<1>11. /\ \A v \in Workers : desk'[v] # NoAnswer => desk'[v] \notin waits' \union done'
       /\ \A u, v \in Workers : desk'[u] # NoAnswer /\ desk'[u] = desk'[v] => u = v
    BY <1>1, <1>3, <1>4, <1>5, <1>9
<1> QED BY <1>10, <1>11
        DEF Pool!EachJobOnce, Pool!Busy, Waits, Desks, Filed, all, waits, desk, done, busy

(* Each call of checkMany asks for each of its distinct addresses at most   *)
(* once: an address waits, is one worker's, or has its answer.              *)
EachAddressOnce == \A c \in Checks : Pool(c)!EachJobOnce

LEMMA OnceSteps == EachAddressOnce /\ (PoolsMove \/ UNCHANGED budgetVars) => EachAddressOnce'
<1> SUFFICES ASSUME EachAddressOnce, PoolsMove \/ UNCHANGED budgetVars, NEW c \in Checks
             PROVE  Pool(c)!EachJobOnce'
    BY DEF EachAddressOnce
<1>1. Pool(c)!EachJobOnce
    BY DEF EachAddressOnce
<1>2. CASE UNCHANGED Pool(c)!vars \/ UNCHANGED budgetVars
    <2>1. Waits(c)' = Waits(c) /\ Desks(c)' = Desks(c) /\ Filed(c)' = Filed(c)
        BY <1>2 DEF Pool!vars, budgetVars, Waits, Desks, Filed
    <2> DEFINE Once(waits, desk, done) ==
            /\ waits \union {desk[w] : w \in {u \in Workers : desk[u] # NoAnswer}}
                   \union done = ToSet(List[c])
            /\ waits \cap done = {}
            /\ \A w \in Workers : desk[w] # NoAnswer => desk[w] \notin waits \union done
            /\ \A v, w \in Workers :
                   desk[v] # NoAnswer /\ desk[w] # NoAnswer /\ desk[v] = desk[w] => v = w
    <2>2. Once(Waits(c), Desks(c), Filed(c))
        BY <1>1 DEF Pool!EachJobOnce, Pool!Busy, Waits, Desks, Filed
    <2>3. Once(Waits(c)', Desks(c)', Filed(c)')
        BY <2>1, <2>2
    <2> QED BY <2>3 DEF Pool!EachJobOnce, Pool!Busy, Waits, Desks, Filed
<1>3. CASE Pool(c)!Hire
    BY <1>1, <1>3, HireKeeps
<1>4. ASSUME NEW w \in Workers, Pool(c)!Turn(w) PROVE Pool(c)!EachJobOnce'
    BY <1>1, <1>4, TurnKeeps
<1> QED BY <1>2, <1>3, <1>4 DEF PoolsMove, Pool!Next

(* BudgetedProbe.checkMany (network-probe.ts): whatever the engine and the  *)
(* other checks do, no address of a call is asked for twice, none is        *)
(* dropped, and none already answered is asked for again.                   *)
THEOREM BudgetEachAddressOnce == BudgetSpec => []EachAddressOnce
<1>1. BudgetInit => EachAddressOnce
    <2> SUFFICES ASSUME BudgetInit, NEW c \in Checks PROVE Pool(c)!EachJobOnce
        BY DEF EachAddressOnce
    <2> QED BY PoolStarts DEF Pool!Init, Pool!EachJobOnce, Pool!Busy
<1>2. PoolInv /\ EachAddressOnce /\ [BudgetNext]_budgetVars => PoolInv' /\ EachAddressOnce'
    BY PoolSteps, OnceSteps
<1>3. BudgetInit => PoolInv
    BY PoolStarts
<1> QED BY <1>1, <1>2, <1>3, PTL DEF BudgetSpec
=============================================================================
