------------------------------- MODULE Client -------------------------------
(****************************************************************************)
(* The web client: the session under all screens, a screen that reads the   *)
(* API, or a screen that follows a stream. They share the browser and one   *)
(* thread but no state: a stream goes through fetch and meets no            *)
(* interceptor, and to a screen a call is answered or it fails. A behaviour *)
(* is about one of the three.                                               *)
(****************************************************************************)
EXTENDS Screens, LiveRuns, HttpSession

VARIABLE scene

clientVars == <<scene, screenVars, liveVars, sessionVars>>

Init ==
    /\ scene \in {"screens", "live", "session"}
    /\ IF scene = "screens" THEN ScreensInit
       ELSE /\ screen = None /\ address = None /\ wanted = None /\ latest = None
            /\ shown = Nothing /\ loading = FALSE /\ error = None
            /\ calls = <<>> /\ gestures = 0
            /\ counted = FALSE /\ busy = None /\ astray = FALSE
            /\ purged = FALSE /\ selected = {} /\ comparison = None /\ comparing = FALSE
    /\ IF scene = "live" THEN LiveInit
       ELSE /\ live = "gone" /\ phase = "idle" /\ failure = Nobody /\ typed = {}
            /\ rows = <<>> /\ expected = 0 /\ report = 0
            /\ filter = "problems" /\ link = [url |-> {}, filter |-> "problems"]
            /\ limit = 0 /\ entries = {} /\ picked = {}
            /\ runs = <<>> /\ current = 0 /\ moves = 0
    /\ IF scene = "session" THEN SessionInit
       ELSE /\ server = [alive |-> FALSE, last |-> 0, fresh |-> {}] /\ jar = 0
            /\ user = NoUser /\ path = "" /\ requests = <<>>
            /\ rotations = <<>> /\ inFlight = 0 /\ lost = FALSE /\ left = FALSE

Next ==
    \/ scene = "screens" /\ ScreensNext /\ UNCHANGED <<scene, liveVars, sessionVars>>
    \/ scene = "live" /\ LiveNext /\ UNCHANGED <<scene, screenVars, sessionVars>>
    \/ scene = "session" /\ SessionNext /\ UNCHANGED <<scene, screenVars, liveVars>>

Spec == Init /\ [][Next]_clientVars /\ ScreensFairness /\ LiveFairness /\ SessionFairness
-----------------------------------------------------------------------------
(* Nothing on a screen waits for ever: no skeleton, no disabled button, no  *)
(* run, no call that joined a rotation.                                     *)
NothingWaits ==
    /\ scene = "screens" => EveryScreenSettles
    /\ scene = "live" => EveryRunEnds
    /\ scene = "session" => EveryRequestEnds
=============================================================================
