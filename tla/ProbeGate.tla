------------------------------ MODULE ProbeGate ------------------------------
(****************************************************************************)
(* The concurrency gate of the probe engine: class Gate of                  *)
(* analysis/probe-engine.ts. Every outgoing request of the process passes   *)
(* through the single gate of its engine.                                   *)
(*                                                                          *)
(* JavaScript runs one synchronous segment at a time, and a segment ends at *)
(* an await. Gate.run has three: the call (up to the await of the waiting   *)
(* list, or up to the await of the task), the resumption of a waiter, and   *)
(* the finally block. Each is one action. Resolving a waiter's promise only *)
(* queues its resumption: between the finally block that wakes a waiter and *)
(* the waiter's own "active += 1", other segments may run, and a waiter in  *)
(* that window is "woken".                                                  *)
(****************************************************************************)
EXTENDS Integers, Sequences, FiniteSets

CONSTANTS Calls,       \* the calls of Gate.run, each made at most once
          MaxActive    \* the gate's max: Math.max(1, options.concurrency)

ASSUME GateAssumption ==
    /\ IsFiniteSet(Calls)
    /\ MaxActive \in Nat \ {0}

VARIABLES active,      \* the counter "active"
          waiting,     \* the list "waiting" of the parked calls' resolvers
          phase        \* where each call of run stands

gateVars == <<active, waiting, phase>>

Phases == {"outside", "parked", "woken", "running", "left"}

InPhase(p) == {t \in Calls : phase[t] = p}

GateInit ==
    /\ active = 0
    /\ waiting = <<>>
    /\ phase = [t \in Calls |-> "outside"]

-----------------------------------------------------------------------------
(* run, first segment, when the gate has room: the task starts at once.     *)
Enter(t) ==
    /\ phase[t] = "outside"
    /\ active < MaxActive
    /\ active' = active + 1
    /\ phase' = [phase EXCEPT ![t] = "running"]
    /\ UNCHANGED waiting

(* run, first segment, when the gate is full: the call awaits its turn.     *)
Park(t) ==
    /\ phase[t] = "outside"
    /\ active >= MaxActive
    /\ waiting' = Append(waiting, t)
    /\ phase' = [phase EXCEPT ![t] = "parked"]
    /\ UNCHANGED active

(* The microtask of a woken waiter: it takes its place without looking at   *)
(* the counter again, and starts its task.                                  *)
Resume(t) ==
    /\ phase[t] = "woken"
    /\ active' = active + 1
    /\ phase' = [phase EXCEPT ![t] = "running"]
    /\ UNCHANGED waiting

(* Mutant of Release: a finally block that forgets the waiting list.        *)
ReleaseNoWake(t) ==
    /\ phase[t] = "running"
    /\ active' = active - 1
    /\ phase' = [phase EXCEPT ![t] = "left"]
    /\ UNCHANGED waiting

(* The finally block, whatever the task did: one place back, and the oldest *)
(* waiter, if there is one, is woken.                                       *)
Release(t) ==
    /\ phase[t] = "running"
    /\ active' = active - 1
    /\ IF waiting = <<>>
       THEN /\ phase' = [phase EXCEPT ![t] = "left"]
            /\ UNCHANGED waiting
       ELSE /\ phase' = [phase EXCEPT ![t] = "left", ![Head(waiting)] = "woken"]
            /\ waiting' = Tail(waiting)

GateStep(t) == Enter(t) \/ Park(t) \/ Resume(t) \/ Release(t)

GateNext == \E t \in Calls : GateStep(t)

GateSpec == GateInit /\ [][GateNext]_gateVars

-----------------------------------------------------------------------------
GateTypeOK ==
    /\ active \in Nat
    /\ waiting \in Seq(Calls)
    /\ phase \in [Calls -> Phases]

(* The counter counts the tasks that run: no path of run leaks a place.     *)
ActiveExact == active = Cardinality(InPhase("running"))

(* The waiting list holds each parked call, once, and nothing else: a call  *)
(* is never forgotten in it, nor woken twice.                               *)
QueueExact ==
    /\ \A i \in 1..Len(waiting) : phase[waiting[i]] = "parked"
    /\ \A i, j \in 1..Len(waiting) : waiting[i] = waiting[j] => i = j
    /\ \A t \in InPhase("parked") : \E i \in 1..Len(waiting) : waiting[i] = t

(* The bookkeeping of the gate is exact, on every path through run.         *)
GateExact == ActiveExact /\ QueueExact

(* No call waits in front of a free place: as long as one is parked, the    *)
(* running tasks and the waiters already woken fill the gate. This is what  *)
(* rules out a call parked for ever, since run wakes only from its finally. *)
NoIdlePlace ==
    waiting # <<>> => active + Cardinality(InPhase("woken")) >= MaxActive

(* "Il borne les requetes SIMULTANEES du processus" (probe-engine.ts:223):  *)
(* at most MaxActive requests run at the same time. The code does not keep  *)
(* it: a call made in the window of a woken waiter takes the place that was *)
(* given to that waiter, which then takes one more.                         *)
SimultaneousBound == active <= MaxActive
=============================================================================
