------------------------------ MODULE Requests ------------------------------
(****************************************************************************)
(* A request of the back office (accounts, profiles, messages, feedback) is *)
(* a sequence of SQL statements and file operations, each atomic, with an   *)
(* await after each: other requests run in between. Nothing starts again a  *)
(* request that was cut short.                                              *)
(****************************************************************************)
EXTENDS Naturals, FiniteSets

CONSTANTS Calls,     \* the requests, each made at most once
          Ask,       \* [request -> what it asks]
          Mixes,     \* the sets of requests that behaviours make
          None

ASSUME RequestsAssumption ==
    /\ \A mix \in Mixes : mix \subseteq Calls
    /\ None \notin Calls

VARIABLES made,      \* the requests of this behaviour
          pc,        \* where each request stands
          dead       \* the requests cut short by a failure or by a crash

requestVars == <<made, pc, dead>>

RequestsInit ==
    /\ made \in Mixes
    /\ pc = [c \in Calls |-> "idle"]
    /\ dead = {}

Doing(c, what, phase) == Ask[c].do \in what /\ pc[c] = phase /\ c \notin dead
Goto(c, phase) == pc' = [pc EXCEPT ![c] = phase] /\ UNCHANGED <<made, dead>>

(* A statement throws and nothing catches it, or the process dies, after    *)
(* the first write. Before that a failure shows nothing: the request just   *)
(* makes no further step, as does one that is refused.                      *)
Dies(c, phases) ==
    /\ c \notin dead
    /\ pc[c] \in phases
    /\ dead' = dead \union {c}
    /\ UNCHANGED <<made, pc>>
=============================================================================
