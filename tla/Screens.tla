------------------------------ MODULE Screens ------------------------------
(****************************************************************************)
(* One screen of the web client that reads the API: five lists that follow  *)
(* the filters of the address, and three screens that follow an identifier  *)
(* of the route. The browser runs one thing at a time; a step is a gesture, *)
(* or what follows an await. Answers come in any order.                     *)
(*                                                                          *)
(* A navigation within a screen is one step: the router changes the         *)
(* parameters, the effect of the screen fills the draft and loads.          *)
(* An answer is a total; its lines are named in Items.                      *)
(****************************************************************************)
EXTENDS AddressFilters

CONSTANTS Addresses,     \* [list screen -> addresses of the browser's history]
          Drafts,        \* [list screen -> what the user may type in the form]
          Targets,       \* [detail screen -> identifiers it is opened with]
          Items,         \* the lines of the answers
          MaxGestures,   \* bound on what the user does
          None

VARIABLES screen,        \* the screen that is open
          address,       \* its parameters, or its identifier
          wanted,        \* the filters, or the identifier, last asked for by the user
          latest,        \* derniereCle, lastLoadKey: the filters of the last load
          shown,         \* what it lists, and what that answers: [of, rows, unread, total]
          loading, error,
          counted,       \* the counters of the screen have been read
          busy,          \* enCours: the line a gesture is about
          calls,         \* the calls made, each with its continuation
          purged,        \* the report of the page has been purged
          selected,      \* the audits ticked
          comparison,    \* the audits whose comparison is shown
          comparing,     \* a comparison is under way
          astray,        \* ghost: a gesture has put lines back, or taken an error away
          gestures

detailVars == <<purged, selected, comparison, comparing>>
listVars == <<counted, busy, astray>>
screenVars == <<screen, address, wanted, latest, shown, loading, error, calls, gestures,
                listVars, detailVars>>

Lists == {"history", "users", "audit", "feedback", "inbox"}
Details == {"site", "session", "page"}

Fields == [history |-> HistoryFields, users |-> UsersFields, audit |-> AuditFields,
           feedback |-> FeedbackFields, inbox |-> InboxFields]
ReadAddress(p) ==
    CASE screen = "history" -> HistoryRead(p) [] screen = "users" -> UsersRead(p)
      [] screen = "audit" -> AuditRead(p) [] screen = "feedback" -> FeedbackRead(p)
      [] screen = "inbox" -> InboxRead(p)
WriteAddress(f) ==
    CASE screen = "history" -> HistoryWrite(f) [] screen = "users" -> UsersWrite(f)
      [] screen = "audit" -> AuditWrite(f) [] screen = "feedback" -> FeedbackWrite(f)
      [] screen = "inbox" -> InboxWrite(f)
QueryOf(f) ==
    CASE screen = "history" -> HistoryQuery(f) [] screen = "users" -> UsersQuery(f)
      [] screen = "audit" -> AuditQuery(f) [] screen = "feedback" -> FeedbackQuery(f)
      [] screen = "inbox" -> InboxQuery(f)

(* What a form offers: texts as typed where it trims them, and valid values.*)
Offered(s, trimmed) ==
    \A d \in Drafts[s] :
        /\ trimmed \subseteq DOMAIN d /\ DOMAIN d \subseteq DOMAIN Fields[s] \ {"page"}
        /\ \A n \in DOMAIN d :
               IF n \in trimmed THEN d[n] \in DOMAIN Trim ELSE Valid(Fields[s][n], d[n])

(* A page of a list holds all the lines an answer may have.                 *)
ASSUME ScreensAssumption ==
    /\ None \notin Lists \union Details \union {"load", "gesture"}
    /\ PageSize \in Nat /\ Items # {} /\ IsFiniteSet(Items) /\ Cardinality(Items) <= PageSize
    /\ \A s \in Lists : \A p \in Addresses[s] : \A n \in DOMAIN p : p[n] \in DOMAIN Trim
    /\ Offered("history", {"q", "gamme"}) /\ Offered("audit", {"actor"})
    /\ \A s \in {"users", "feedback", "inbox"} : Offered(s, {"search"})

Filters == ReadAddress(address)
Nothing == [of |-> None, rows |-> {}, unread |-> {}, total |-> 0]
Calling(what, key, line, before) ==
    [do |-> what, key |-> key, line |-> line, before |-> before]
Ended == Calling("ended", None, None, None)

(* An answer: no line, one, or more than a page of them.                    *)
Answers(of) ==
    {[of |-> of, rows |-> r, unread |-> r,
      total |-> IF r = Items THEN PageSize + 1 ELSE Cardinality(r)] :
        r \in {{}, {CHOOSE i \in Items : TRUE}, Items}}

ScreensInit ==
    /\ \/ screen \in Lists /\ address \in Addresses[screen]
       \/ screen \in Details /\ address \in Targets[screen]
    /\ wanted = IF screen \in Lists THEN Filters ELSE address
    /\ latest = wanted
    /\ shown = Nothing
    /\ loading = TRUE /\ error = None
    /\ counted = FALSE /\ busy = None /\ astray = FALSE
    /\ calls = <<Calling("load", wanted, None, None)>>
    /\ purged = FALSE /\ selected = {} /\ comparison = None /\ comparing = FALSE
    /\ gestures = 0

(* What the screen shows decides which gestures it offers. The lists but    *)
(* the inbox show an error, or the skeleton, instead of their lines.        *)
ShowsLines == ~loading /\ (error # None => screen = "inbox") /\ shown.rows # {}
HistoryShows == screen = "history" /\ ShowsLines
UsersShows == screen = "users" /\ ShowsLines
AuditShows == screen = "audit" /\ ShowsLines
FeedbackShows == screen = "feedback" /\ ShowsLines
InboxShows == screen = "inbox" /\ ShowsLines
SiteShows == screen = "site" /\ ShowsLines
ShowsPager == HistoryShows \/ UsersShows \/ AuditShows \/ FeedbackShows \/ InboxShows

Gesture == gestures < MaxGestures /\ gestures' = gestures + 1 /\ UNCHANGED screen
Goes(more) == calls' = Append(calls, more)
Becomes(c, next) == calls' = [calls EXCEPT ![c] = next]
-----------------------------------------------------------------------------
(* charger, load: start.                                                    *)
Loads(key) ==
    /\ latest' = key
    /\ loading' = TRUE
    /\ error' = None
    /\ Goes(Calling("load", key, None, None))

(* The effect of a list on its filters.                                     *)
Follows(params) ==
    /\ address' = params
    /\ Loads(ReadAddress(params))
    /\ UNCHANGED <<shown, listVars, detailVars>>

(* naviguer, navigate. The router ignores the address it is at.             *)
Navigates(filters) ==
    /\ wanted' = filters
    /\ IF WriteAddress(filters) = address
       THEN UNCHANGED <<address, latest, shown, loading, error, calls, listVars, detailVars>>
       ELSE Follows(WriteAddress(filters))

Back ==
    /\ Gesture
    /\ screen \in Lists
    /\ \E p \in Addresses[screen] \ {address} : wanted' = ReadAddress(p) /\ Follows(p)

(* recharger, reload: offered beside an error.                              *)
Retry ==
    /\ Gesture
    /\ error # None
    /\ Loads(IF screen \in Lists THEN Filters ELSE address)
    /\ purged' = FALSE
    /\ UNCHANGED <<address, wanted, shown, listVars, selected, comparison, comparing>>

(* The form: some fields are typed, the texts lose their blanks, the other  *)
(* filters stay, and the page is the first.                                 *)
Typed(draft, trimmed) ==
    [n \in DOMAIN Filters |->
        IF n = "page" THEN 1
        ELSE IF n \in trimmed THEN Trim[draft[n]]
        ELSE IF n \in DOMAIN draft THEN draft[n] ELSE Filters[n]]

ApplyHistoryDraft ==
    \E d \in Drafts.history :
        /\ screen = "history"
        /\ ~HistoryIssues([n \in DOMAIN Filters |-> IF n \in DOMAIN d THEN d[n] ELSE Filters[n]])
        /\ Navigates(Typed(d, {"q", "gamme"}))
ApplyUsersDraft ==
    \E d \in Drafts.users : screen = "users" /\ Navigates(Typed(d, {"search"}))
ApplyAuditDraft ==
    \E d \in Drafts.audit :
        /\ screen = "audit"
        /\ ~AuditIssues([n \in DOMAIN Filters |-> IF n \in DOMAIN d THEN d[n] ELSE Filters[n]])
        /\ Navigates(Typed(d, {"actor"}))
ApplyFeedbackDraft ==
    \E d \in Drafts.feedback : screen = "feedback" /\ Navigates(Typed(d, {"search"}))
ApplyInboxDraft ==
    \E d \in Drafts.inbox : screen = "inbox" /\ Navigates(Typed(d, {"search"}))

(* resetFilters keeps the order of the history; reinitialiser keeps nothing.*)
ResetHistory ==
    /\ screen = "history" /\ HistoryActive(Filters)
    /\ Navigates([Unset(HistoryFields) EXCEPT !.sort = Filters.sort, !.order = Filters.order])
ResetList ==
    /\ \/ screen = "users" /\ UsersActive(Filters)
       \/ screen = "audit" /\ AuditActive(Filters)
       \/ screen = "feedback" /\ FeedbackActive(Filters)
       \/ screen = "inbox" /\ InboxActive(Filters)
    /\ Navigates(Unset(Fields[screen]))

SortBy == \E k \in {"domain", "url", "score"} :
              HistoryShows /\ Navigates(ToggleSort(Filters, k))

GoToPage ==
    /\ ShowsPager /\ PagesOf(shown.total) > 1
    /\ \/ Filters.page > 1 /\ Navigates([Filters EXCEPT !.page = @ - 1])
       \/ Filters.page < PagesOf(shown.total) /\ Navigates([Filters EXCEPT !.page = @ + 1])

(* A counter acts as a filter: the second click takes it away.              *)
Toggled(value, on, off) == IF value = on THEN off ELSE on
FilterByCounter ==
    /\ counted
    /\ \/ /\ screen = "inbox"
          /\ \/ Navigates([Filters EXCEPT !.unread = ~@, !.page = 1])
             \/ Navigates([Filters EXCEPT !.importance = Toggled(@, "critique", ""), !.page = 1])
       \/ /\ screen = "feedback"
          /\ \E s \in Statuses :
                 Navigates([Filters EXCEPT !.status = Toggled(@, s, ""), !.page = 1])

FilterGesture ==
    /\ Gesture
    /\ \/ ApplyHistoryDraft \/ ApplyUsersDraft \/ ApplyAuditDraft
       \/ ApplyFeedbackDraft \/ ApplyInboxDraft
       \/ ResetHistory \/ ResetList \/ SortBy \/ GoToPage \/ FilterByCounter

(* The end of a load of a list: nothing, unless it is the last one asked.   *)
Fills(answer) ==
    /\ shown' = answer
    /\ counted' = (counted \/ screen \in {"inbox", "feedback"})
    /\ astray' = FALSE
    /\ UNCHANGED error
Fails ==
    /\ shown' = [shown EXCEPT !.rows = {}, !.unread = {}]
    /\ error' = "load"
    /\ UNCHANGED <<counted, astray>>
Settles(c) ==
    /\ Becomes(c, Ended)
    /\ busy' = IF calls[c].line = "all" THEN None ELSE busy
    /\ UNCHANGED <<screen, address, wanted, latest, detailVars, gestures>>

(* Mutant of ListLoadEnds: every answer is shown.                           *)
ListLoadEndsAnyway(c) ==
    /\ screen \in Lists /\ calls[c].do = "load"
    /\ Fails \/ \E a \in Answers(QueryOf(calls[c].key)) : Fills(a)
    /\ loading' = FALSE
    /\ Settles(c)

ListLoadEnds(c) ==
    /\ screen \in Lists /\ calls[c].do = "load"
    /\ IF latest # calls[c].key
       THEN UNCHANGED <<shown, counted, astray, loading, error>>
       ELSE /\ Fails \/ \E a \in Answers(QueryOf(calls[c].key)) : Fills(a)
            /\ loading' = FALSE
    /\ Settles(c)
-----------------------------------------------------------------------------
(* Gestures on the lines.                                                   *)
Begins(what, line, before) ==
    /\ Goes(Calling(what, None, line, before))
    /\ UNCHANGED <<address, wanted, latest, loading, detailVars>>
GoesOn(c, next) ==
    /\ Becomes(c, next)
    /\ UNCHANGED <<screen, address, wanted, latest, loading, counted, detailVars, gestures>>

(* ouvrir: the message counts as read when the API says so.                 *)
Ouvrir(m) ==
    /\ Gesture
    /\ InboxShows /\ m \in shown.unread
    /\ Begins("open", m, None)
    /\ UNCHANGED <<shown, error, listVars>>
OuvrirEnds(c) ==
    /\ UNCHANGED <<error, busy, astray>>
    /\ \/ /\ calls[c].do = "open"
          /\ shown' = [shown EXCEPT !.unread = @ \ {calls[c].line}]
          /\ GoesOn(c, Calling("openCounts", None, calls[c].line, None))
       \/ /\ calls[c].do \in {"open", "openCounts"}
          /\ UNCHANGED shown
          /\ GoesOn(c, Ended)

(* basculerArchive: the line leaves the list at once; when the API refuses, *)
(* or fails to give the counters, the list of before the gesture is back.   *)
BasculerArchive(m) ==
    /\ Gesture
    /\ InboxShows /\ m \in shown.rows /\ busy # m
    /\ Begins("file", m, shown)
    /\ shown' = [shown EXCEPT !.rows = @ \ {m}, !.unread = @ \ {m},
                              !.total = IF @ = 0 THEN 0 ELSE @ - 1]
    /\ busy' = m /\ error' = None
    /\ UNCHANGED <<counted, astray>>
ArchiveEnds(c) ==
    \/ /\ calls[c].do = "file"
       /\ UNCHANGED <<shown, error, busy, astray>>
       /\ GoesOn(c, [calls[c] EXCEPT !.do = "fileCounts"])
    \/ /\ calls[c].do \in {"file", "fileCounts"}
       /\ shown' = [calls[c].before EXCEPT !.total = Cardinality(calls[c].before.rows)]
       /\ error' = "gesture" /\ busy' = None /\ astray' = TRUE
       /\ GoesOn(c, Ended)
    \/ /\ calls[c].do = "fileCounts"
       /\ busy' = None
       /\ UNCHANGED <<shown, error, astray>>
       /\ GoesOn(c, Ended)

(* toutMarquerLu, then a load. Offered beside an error too, which it hides. *)
ToutMarquerLu ==
    /\ Gesture
    /\ screen = "inbox" /\ counted /\ busy = None
    /\ Begins("readAll", "all", None)
    /\ busy' = "all" /\ error' = None
    /\ astray' = (astray \/ error # None)
    /\ UNCHANGED <<shown, counted>>
MarquerEnds(c) ==
    /\ calls[c].do = "readAll"
    /\ UNCHANGED <<screen, address, wanted, shown, counted, astray, detailVars, gestures>>
    /\ \/ /\ latest' = Filters /\ loading' = TRUE /\ error' = None
          /\ Becomes(c, Calling("load", Filters, "all", None))
          /\ UNCHANGED busy
       \/ /\ error' = "gesture" /\ busy' = None
          /\ Becomes(c, Ended)
          /\ UNCHANGED <<latest, loading>>

(* Mutant of AvancerEnds: no finally.                                       *)
AvancerEndsOrNot(c) ==
    \/ /\ calls[c].do = "triage"
       /\ UNCHANGED <<shown, error, busy, astray>>
       /\ GoesOn(c, [calls[c] EXCEPT !.do = "triageCounts"])
    \/ /\ calls[c].do \in {"triage", "triageCounts"}
       /\ error' \in {error, "gesture"}
       /\ error' = error => calls[c].do = "triageCounts"
       /\ busy' = IF error' = error THEN None ELSE busy
       /\ UNCHANGED <<shown, astray>>
       /\ GoesOn(c, Ended)

(* avancer: the line the API gives back takes its place in the list.        *)
Avancer(r) ==
    /\ Gesture
    /\ FeedbackShows /\ r \in shown.rows /\ busy = None
    /\ Begins("triage", r, None)
    /\ busy' = r /\ error' = None
    /\ UNCHANGED <<shown, counted, astray>>
AvancerEnds(c) ==
    \/ /\ calls[c].do = "triage"
       /\ UNCHANGED <<shown, error, busy, astray>>
       /\ GoesOn(c, [calls[c] EXCEPT !.do = "triageCounts"])
    \/ /\ calls[c].do \in {"triage", "triageCounts"}
       /\ error' \in {error, "gesture"}
       /\ error' = error => calls[c].do = "triageCounts"
       /\ busy' = None
       /\ UNCHANGED <<shown, astray>>
       /\ GoesOn(c, Ended)
-----------------------------------------------------------------------------
(* The screens of a site, of an audit and of a page. The router keeps the   *)
(* component from one identifier to the next; its effect loads again.       *)
Opens(id) ==
    /\ address' = id /\ wanted' = id
    /\ Loads(id)
    /\ UNCHANGED <<shown, listVars, comparing>>
SiteOpens(id) == screen = "site" /\ Opens(id) /\ selected' = {} /\ comparison' = None
                 /\ UNCHANGED purged
SessionOpens(id) == screen = "session" /\ Opens(id) /\ UNCHANGED <<purged, selected, comparison>>
PageOpens(id) == screen = "page" /\ Opens(id) /\ purged' = FALSE
                 /\ UNCHANGED <<selected, comparison>>
OpensAnother ==
    /\ Gesture
    /\ screen \in Details
    /\ \E id \in Targets[screen] \ {address} : SiteOpens(id) \/ SessionOpens(id) \/ PageOpens(id)

(* load: no guard, any answer is shown.                                     *)
DetailEnds(c, on) ==
    /\ screen = on /\ calls[c].do = "load"
    /\ loading' = FALSE
    /\ Becomes(c, Ended)
    /\ UNCHANGED <<screen, address, wanted, latest, listVars, selected, comparison, comparing,
                   gestures>>
Answered(c) == \E a \in Answers(calls[c].key) : shown' = a
SiteEnds(c) ==
    /\ DetailEnds(c, "site") /\ UNCHANGED purged
    /\ \/ Answered(c) /\ UNCHANGED error
       \/ shown' = [shown EXCEPT !.rows = {}] /\ error' = "load"
SessionEnds(c) ==
    /\ DetailEnds(c, "session") /\ UNCHANGED purged
    /\ \/ Answered(c) /\ UNCHANGED error
       \/ UNCHANGED shown /\ error' = "load"
PageEnds(c) ==
    /\ DetailEnds(c, "page")
    /\ \/ Answered(c) /\ UNCHANGED <<error, purged>>
       \/ UNCHANGED <<shown, purged>> /\ error' = "load"
       \/ UNCHANGED <<shown, error>> /\ purged' = TRUE

(* Two audits at most are ticked; clearSelection forgets the comparison too.*)
Ticks(c) ==
    /\ UNCHANGED <<address, wanted, latest, shown, loading, error, calls, listVars, purged,
                   comparing>>
    /\ selected' = c
ToggleSelection(s) ==
    /\ Gesture
    /\ SiteShows /\ s \in shown.rows
    /\ s \in selected \/ Cardinality(selected) < 2
    /\ Ticks(IF s \in selected THEN selected \ {s} ELSE selected \union {s})
    /\ UNCHANGED comparison
ClearSelection ==
    /\ Gesture
    /\ SiteShows /\ selected # {}
    /\ Ticks({}) /\ comparison' = None

Compare ==
    /\ Gesture
    /\ SiteShows /\ Cardinality(selected) = 2 /\ ~comparing
    /\ comparing' = TRUE
    /\ Goes(Calling("compare", selected, None, None))
    /\ UNCHANGED <<address, wanted, latest, shown, loading, error, listVars, purged, selected,
                   comparison>>
CompareEnds(c) ==
    /\ calls[c].do = "compare"
    /\ comparison' \in {calls[c].key, None}
    /\ comparing' = FALSE
    /\ Becomes(c, Ended)
    /\ UNCHANGED <<screen, address, wanted, latest, shown, loading, error, listVars, purged,
                   selected, gestures>>
-----------------------------------------------------------------------------
UserActs ==
    \/ Back \/ Retry \/ FilterGesture
    \/ \E i \in Items : Ouvrir(i) \/ BasculerArchive(i) \/ Avancer(i) \/ ToggleSelection(i)
    \/ ToutMarquerLu \/ OpensAnother \/ ClearSelection \/ Compare

CallEnds(c) ==
    /\ c \in DOMAIN calls
    /\ \/ ListLoadEnds(c)
       \/ OuvrirEnds(c) \/ ArchiveEnds(c) \/ MarquerEnds(c) \/ AvancerEnds(c)
       \/ SiteEnds(c) \/ SessionEnds(c) \/ PageEnds(c) \/ CompareEnds(c)

ScreensNext == UserActs \/ \E c \in DOMAIN calls : CallEnds(c)

(* Every call is answered, or fails by its timeout.                         *)
ScreensFairness == \A c \in 1..(MaxGestures + 1) : WF_screenVars(CallEnds(c))
-----------------------------------------------------------------------------
(* "Une reponse plus lente qu'une navigation suivante ne doit pas ecraser   *)
(* l'affichage courant" (scan-history.component.ts:374): a list that has    *)
(* loaded shows the answer to the filters the user last asked for, whatever *)
(* crossed it, through the parameters of the address and back. Left out: a  *)
(* refused filing puts the lines of the former address back, and marking    *)
(* everything as read hides the error of a load (README).                   *)
ShowsWhatIsAsked ==
    screen \in Lists /\ ~loading /\ error = None /\ ~astray => shown.of = QueryOf(wanted)

(* No skeleton, no disabled button stays for ever.                          *)
EveryScreenSettles == <>[](~loading /\ ~comparing /\ busy = None)
=============================================================================
