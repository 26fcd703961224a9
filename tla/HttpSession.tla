---------------------------- MODULE HttpSession ----------------------------
(****************************************************************************)
(* The session as the web client lives it: the service that asks who the    *)
(* user is, the guards of the routes, and the interceptor that renews the   *)
(* access token when the API answers 401, with one rotation for all the     *)
(* calls that wait, and then sends each of them again as it was.            *)
(*                                                                          *)
(* The tokens of one opening or rotation are set together and have one      *)
(* number. The server, the exchanges and the loss of either half of them    *)
(* are external; of the server the module keeps the one session it opened.  *)
(****************************************************************************)
EXTENDS Integers, Sequences

CONSTANTS MaxRequests,   \* bound on the calls of the screens
          NoUser

ASSUME UserAssumption == NoUser \notin {"editor", "admin"}

VARIABLES server,        \* [alive, last, fresh]: the numbers issued and still accepted
          jar,           \* the number of the cookies of the browser, 0 if none
          user,          \* the rank the profile gave
          path,          \* the route that is shown, "" before the first
          requests,      \* the calls made by the client
          rotations,     \* the calls of /auth/refresh
          inFlight,      \* inFlightRefresh: the rotation the next 401 will join
          lost,          \* ghost: an exchange that decides of the session was lost
          left           \* ghost: the user asked to leave

sessionVars == <<server, jar, user, path, requests, rotations, inFlight, lost, left>>

(* The header of a mutation repeats the cookie that came with the tokens.   *)
Request(route, writes) ==
    [route |-> route, writes |-> writes, cookie |-> jar, header |-> jar,
     again |-> FALSE, on |-> 0, st |-> "sent"]

(* The page is loaded, with the cookies of an earlier visit: refreshProfile.*)
SessionInit ==
    /\ \E alive \in BOOLEAN, fresh \in SUBSET {1} :
           server = [alive |-> alive, last |-> 1, fresh |-> IF alive THEN fresh ELSE {}]
    /\ jar \in IF server.alive THEN {1} ELSE {0, 1}
    /\ user = NoUser /\ path = ""
    /\ requests = <<Request("me", FALSE)>>
    /\ rotations = <<>> /\ inFlight = 0
    /\ lost = FALSE /\ left = FALSE
-----------------------------------------------------------------------------
(* The server: JwtAuthGuard, then CsrfGuard, then the handler.              *)
Verdict(r) ==
    IF r.cookie \notin server.fresh THEN "refused"
    ELSE IF r.writes /\ r.header # r.cookie THEN "forbidden" ELSE "ok"

Serve(c) ==
    /\ c \in DOMAIN requests /\ requests[c].st = "sent"
    /\ requests' = [requests EXCEPT ![c].st = Verdict(requests[c])]
    /\ server' = IF requests[c].route = "logout" /\ Verdict(requests[c]) = "ok"
                 THEN [server EXCEPT !.alive = FALSE, !.fresh = {}] ELSE server
    /\ UNCHANGED <<jar, user, path, rotations, inFlight, lost, left>>

(* The exchange is lost on its way, or on its way back.                     *)
Break(c) ==
    /\ c \in DOMAIN requests /\ requests[c].st \in {"sent", "ok", "refused", "forbidden"}
    /\ requests' = [requests EXCEPT ![c].st = "broken"]
    /\ lost' = (lost \/ requests[c].route = "me")
    /\ UNCHANGED <<server, jar, user, path, rotations, inFlight, left>>

(* AuthService.refresh: the token shown must be the last one.               *)
ServeRotation(r) ==
    /\ r \in DOMAIN rotations /\ rotations[r].st = "sent"
    /\ IF server.alive /\ rotations[r].shows = server.last
       THEN /\ server' = [server EXCEPT !.last = @ + 1, !.fresh = @ \union {server.last + 1}]
            /\ rotations' = [rotations EXCEPT ![r].st = "renewed", ![r].sets = server.last + 1]
       ELSE rotations' = [rotations EXCEPT ![r].st = "denied"] /\ UNCHANGED server
    /\ UNCHANGED <<jar, user, path, requests, inFlight, lost, left>>
BreakRotation(r) ==
    /\ r \in DOMAIN rotations /\ rotations[r].st \in {"sent", "renewed", "denied"}
    /\ rotations' = [rotations EXCEPT ![r].st = "broken"]
    /\ lost' = TRUE
    /\ UNCHANGED <<server, jar, user, path, requests, inFlight, left>>

(* An access token outlives the calls it was renewed for; an administrator  *)
(* revokes everything.                                                      *)
Expires ==
    /\ jar \in server.fresh
    /\ \A c \in DOMAIN requests : ~(requests[c].again /\ requests[c].st = "sent")
    /\ server' = [server EXCEPT !.fresh = @ \ {jar}]
    /\ UNCHANGED <<jar, user, path, requests, rotations, inFlight, lost, left>>
Revoked ==
    /\ server.alive
    /\ server' = [server EXCEPT !.alive = FALSE, !.fresh = {}]
    /\ UNCHANGED <<jar, user, path, requests, rotations, inFlight, lost, left>>
-----------------------------------------------------------------------------
(* The end of a call, for who made it.                                      *)
Returns(c) == requests' = [requests EXCEPT ![c].st = "ended"]

(* refreshProfile: any failure means no session, and the first guard sends  *)
(* the visitor to sign in.                                                  *)
ProfileComes(c) ==
    /\ requests[c].route = "me" /\ requests[c].st = "ok"
    /\ user' \in {"editor", "admin"} /\ path' = "tableau-de-bord"
    /\ Returns(c)
    /\ UNCHANGED <<server, jar, rotations, inFlight, lost, left>>
ProfileFails(c) ==
    /\ requests[c].route = "me"
    /\ user' = NoUser /\ path' = "connexion"
    /\ Returns(c)
    /\ UNCHANGED <<server, jar, rotations, inFlight, lost, left>>

(* logout: the profile goes, whatever the API says; the dashboard leaves    *)
(* only when it said yes.                                                   *)
LogoutEnds(c) ==
    /\ requests[c].route = "logout"
    /\ user' = NoUser
    /\ IF requests[c].st = "ok" THEN jar' = 0 /\ path' = "connexion" ELSE UNCHANGED <<jar, path>>
    /\ Returns(c)
    /\ UNCHANGED <<server, rotations, inFlight, lost, left>>

ScreenIsAnswered(c) ==
    /\ requests[c].route = "api"
    /\ Returns(c)
    /\ UNCHANGED <<server, jar, user, path, rotations, inFlight, lost, left>>

(* Mutant of StartsRotation: each 401 starts a rotation of its own.         *)
StartsEachTime == TRUE

(* authInterceptor: a 401 joins the rotation in flight, or starts it.       *)
StartsRotation == inFlight = 0

Waits(c) ==
    /\ requests[c].st = "refused" /\ ~requests[c].again /\ requests[c].route # "logout"
    /\ LET r == IF StartsRotation THEN Len(rotations) + 1 ELSE inFlight
       IN /\ inFlight' = r
          /\ requests' = [requests EXCEPT ![c].st = "waiting", ![c].on = r]
    /\ rotations' = IF StartsRotation
                    THEN Append(rotations, [st |-> "sent", shows |-> jar, sets |-> 0])
                    ELSE rotations
    /\ UNCHANGED <<server, jar, user, path, lost, left>>

Deliver(c) ==
    /\ c \in DOMAIN requests /\ requests[c].st \in {"ok", "refused", "forbidden", "broken"}
    /\ \/ Waits(c)
       \/ /\ requests[c].st # "refused" \/ requests[c].again \/ requests[c].route = "logout"
          /\ \/ ProfileComes(c)
             \/ requests[c].st # "ok" /\ ProfileFails(c)
             \/ LogoutEnds(c)
             \/ ScreenIsAnswered(c)

(* refreshSession ends: the cookies are set, and every call that waited is  *)
(* sent again as it was; or there is no user any more.                      *)
Waiting(r) == {c \in DOMAIN requests : requests[c].st = "waiting" /\ requests[c].on = r}
Renews(r) ==
    /\ rotations[r].st = "renewed"
    /\ jar' = rotations[r].sets
    /\ requests' = [c \in DOMAIN requests |->
            IF c \in Waiting(r)
            THEN [requests[c] EXCEPT !.st = "sent", !.again = TRUE, !.cookie = rotations[r].sets]
            ELSE requests[c]]
    /\ UNCHANGED <<user, path>>
Expels(r) ==
    /\ rotations[r].st \in {"denied", "broken"}
    /\ jar' = IF rotations[r].st = "denied" THEN 0 ELSE jar
    /\ user' = NoUser /\ path' = "connexion"
    /\ requests' = [c \in DOMAIN requests |->
            IF c \in Waiting(r) THEN [requests[c] EXCEPT !.st = "ended"] ELSE requests[c]]

RotationEnds(r) ==
    /\ r \in DOMAIN rotations
    /\ Renews(r) \/ Expels(r)
    /\ rotations' = [rotations EXCEPT ![r].st = "ended"]
    /\ inFlight' = 0
    /\ UNCHANGED <<server, lost, left>>
-----------------------------------------------------------------------------
Calls(route, writes) ==
    /\ user # NoUser /\ Len(requests) <= MaxRequests
    /\ requests' = Append(requests, Request(route, writes))
    /\ UNCHANGED <<server, jar, user, path, rotations, inFlight, lost>>
ScreenCalls == \E writes \in BOOLEAN : Calls("api", writes) /\ UNCHANGED left
Logout == path = "tableau-de-bord" /\ ~left /\ Calls("logout", TRUE) /\ left' = TRUE

(* authGuard, rankGuard, guestGuard: the profile is known by then.          *)
Guarded(to) ==
    CASE to = "connexion" -> IF user = NoUser THEN to ELSE "tableau-de-bord"
      [] user = NoUser -> "connexion"
      [] to = "utilisateurs" /\ user # "admin" -> "acces-refuse"
      [] OTHER -> to
Visits(to) ==
    /\ path # ""
    /\ path' = Guarded(to)
    /\ UNCHANGED <<server, jar, user, requests, rotations, inFlight, lost, left>>

SessionNext ==
    \/ ScreenCalls \/ Logout \/ Expires \/ Revoked
    \/ \E to \in {"connexion", "tableau-de-bord", "utilisateurs"} : Visits(to)
    \/ \E c \in DOMAIN requests : Serve(c) \/ Break(c) \/ Deliver(c)
    \/ \E r \in DOMAIN rotations : ServeRotation(r) \/ BreakRotation(r) \/ RotationEnds(r)

(* Every call is served or broken, and its answer delivered.                *)
SessionFairness ==
    \A c \in 1..(MaxRequests + 1) :
        /\ WF_sessionVars(Serve(c)) /\ WF_sessionVars(Deliver(c))
        /\ WF_sessionVars(ServeRotation(c)) /\ WF_sessionVars(RotationEnds(c))
-----------------------------------------------------------------------------
(* "Une rotation partagee entre requetes concurrentes, sinon dix appels     *)
(* simultanes declencheraient dix rotations, dont neuf invalideraient le    *)
(* jeton obtenu par la premiere" (auth.interceptor.ts:20): a user who did   *)
(* not ask to leave is sent to sign in only when the session is over at the *)
(* server, or when the network lost an exchange that decided of it.         *)
LiveSessionKept == path = "connexion" /\ ~lost /\ ~left => ~server.alive

(* "Le nouveau cookie est deja pose : il suffit de rejouer la requete"      *)
(* (auth.interceptor.ts:51).                                                *)
ReplayIsEnough == \A c \in DOMAIN requests : requests[c].again => requests[c].st # "forbidden"

EveryRequestEnds == <>[](\A c \in DOMAIN requests : requests[c].st = "ended")
=============================================================================
