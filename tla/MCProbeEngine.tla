---------------------------- MODULE MCProbeEngine ----------------------------
(* A small instance of ProbeEngine: a gate of one place, so that calls      *)
(* queue; three addresses for a result cache of two entries, so that it     *)
(* overflows; one of them also asked for as a text; a failure that expires  *)
(* while a success is still good.                                           *)
EXTENDS ProbeEngine

MCCalls == 1..3
MCKey == [kind : {"result"}, url : {"u1", "u2", "u3"}] \cup [kind : {"text"}, url : {"u1"}]
MCCacheMax == [result |-> 2, text |-> 1]
=============================================================================
