------------------------------ MODULE ScanHistory ------------------------------
(****************************************************************************)
(* The history of the scans and its trash: ScansService (record and the     *)
(* four deletions, scans/scans.service.ts), ScanTrashService (archive,      *)
(* restore, purge, scans/scan-trash.service.ts) and the statements of       *)
(* ScanRepository and ScanTrashRepository they are made of.                 *)
(*                                                                          *)
(* A request is a sequence of statements, each atomic, with an await after  *)
(* each: other requests run in between. Only the recording and the restore  *)
(* are transactions. The database keeps the foreign keys: deleting a site   *)
(* deletes its sessions, deleting a session deletes its pages. Deletions by *)
(* site, domain or session copy what they will delete into the trash first; *)
(* deletions by page do not, on purpose.                                    *)
(****************************************************************************)
EXTENDS Integers, FiniteSets

CONSTANTS Jobs,      \* the requests, each made at most once
          Op,        \* [request -> what it asks]
          DomainOf,  \* [identity of a site: its domain and gamme -> its domain]
          MaxMade    \* how many of the requests are made in a behaviour

Recordings == {j \in Jobs : Op[j].do = "record"}
PageIds == UNION {Op[j].pages : j \in Recordings}

ASSUME HistoryAssumption ==
    /\ \A j \in Recordings : Op[j].identity \in DOMAIN DomainOf /\ IsFiniteSet(Op[j].pages)
    /\ \A j, k \in Recordings : j # k => Op[j].pages \cap Op[k].pages = {}

VARIABLES sites,     \* rows [id, identity]
          sessions,  \* rows [id, site, count]: count is page_count
          pages,     \* rows [id, session]
          trash,     \* entries [id, sites, sessions, pages]
          pc,        \* where each request stands
          seen,      \* the ids it has resolved
          copy,      \* the rows it has copied, from the history or the trash
          lasting,   \* history variable: the pages live since it began
          back       \* history variable: what restores have put back

db == <<sites, sessions, pages>>
local == <<seen, copy>>
vars == <<sites, sessions, pages, trash, pc, seen, copy, lasting, back>>

(* The UUIDs of a site and a session are named after the request that made  *)
(* them, the id of an entry after the deletion that filled it.              *)
SiteRow == [id : Jobs, identity : DOMAIN DomainOf]
SessionRow == [id : Jobs, site : Jobs, count : Nat]
PageRow == [id : PageIds, session : Jobs]
Entry == [id : Jobs, sites : SUBSET SiteRow, sessions : SUBSET SessionRow,
          pages : SUBSET PageRow]

Ids(rows) == {r.id : r \in rows}
PagesOf(session, rows) == {p \in rows : p.session = session}
Deletions == {j \in Jobs : Op[j].do \in {"deleteSite", "deleteDomain", "deleteSession"}}

Doing(j, what, phase) == Op[j].do = what /\ pc[j] = phase
Goto(j, phase) == pc' = [pc EXCEPT ![j] = phase]

(* ON DELETE CASCADE, from the sites that stay or the sessions that stay.   *)
KeepSessions(stay) ==
    /\ sessions' = stay
    /\ pages' = {p \in pages : p.session \in Ids(stay)}
KeepSites(stay) ==
    /\ sites' = stay
    /\ KeepSessions({s \in sessions : s.site \in Ids(stay)})

Init ==
    /\ sites = {} /\ sessions = {} /\ pages = {} /\ trash = {}
    /\ pc = [j \in Jobs |-> "idle"]
    /\ seen = [j \in Jobs |-> [sites |-> {}, sessions |-> {}]]
    /\ copy = [j \in Jobs |-> [id |-> j, sites |-> {}, sessions |-> {}, pages |-> {}]]
    /\ lasting = [j \in Deletions |-> {}]
    /\ back = [sites |-> {}, sessions |-> {}]

-----------------------------------------------------------------------------
(* record, ingestSession: one transaction. The site that has the identity   *)
(* is kept, otherwise it is created.                                        *)
Record(j) ==
    LET identity == Op[j].identity
        known == {s \in sites : s.identity = identity}
        home == IF known = {} THEN [id |-> j, identity |-> identity]
                              ELSE CHOOSE s \in known : TRUE
    IN
    /\ Doing(j, "record", "idle")
    /\ sites' = sites \union {home}
    /\ sessions' = sessions \union
           {[id |-> j, site |-> home.id, count |-> Cardinality(Op[j].pages)]}
    /\ pages' = pages \union [id : Op[j].pages, session : {j}]
    /\ Goto(j, "done")
    /\ UNCHANGED <<trash, seen, copy, back>>

-----------------------------------------------------------------------------
(* The sites a deletion is about.                                           *)
Named(j, site) ==
    \/ Op[j].do = "deleteSite" /\ site.identity = Op[j].identity
    \/ Op[j].do = "deleteDomain" /\ DomainOf[site.identity] = Op[j].domain

(* archiverSite, resoudre: the ids of the sites; with none there is nothing *)
(* to archive, but the DELETE still follows.                                *)
LocateSites(j) ==
    LET found == {s \in sites : Named(j, s)} IN
    /\ j \in Deletions /\ Op[j].do # "deleteSession"
    /\ pc[j] = "idle"
    /\ seen' = [seen EXCEPT ![j].sites = Ids(found)]
    /\ Goto(j, IF found = {} THEN "deleting" ELSE "located")
    /\ UNCHANGED <<db, trash, copy, back>>

(* deleteSession: the session and its site, or a 404.                       *)
LocateSession(j) ==
    LET found == {s \in sessions : s.id = Op[j].session} IN
    /\ Doing(j, "deleteSession", "idle")
    /\ seen' = [seen EXCEPT ![j] = [sites |-> {s.site : s \in found},
                                    sessions |-> Ids(found)]]
    /\ Goto(j, IF found = {} THEN "done" ELSE "resolved")
    /\ UNCHANGED <<db, trash, copy, back>>

(* Mutant of ResolveSessions: the sessions of one of the sites.             *)
ResolveSessionsOfOne(j) ==
    /\ pc[j] = "located" /\ j \in Deletions
    /\ \E site \in seen[j].sites :
           seen' = [seen EXCEPT ![j].sessions = Ids({s \in sessions : s.site = site})]
    /\ Goto(j, "resolved")
    /\ UNCHANGED <<db, trash, copy, back>>

(* sessionsDesSites.                                                        *)
ResolveSessions(j) ==
    /\ pc[j] = "located" /\ j \in Deletions
    /\ seen' = [seen EXCEPT ![j].sessions =
                    Ids({s \in sessions : s.site \in seen[j].sites})]
    /\ Goto(j, "resolved")
    /\ UNCHANGED <<db, trash, copy, back>>

(* capturer: three SELECTs, outside any transaction.                        *)
CopySites(j) ==
    /\ pc[j] = "resolved"
    /\ copy' = [copy EXCEPT ![j].sites = {s \in sites : s.id \in seen[j].sites}]
    /\ Goto(j, "sitesCopied")
    /\ UNCHANGED <<db, trash, seen, back>>

CopySessions(j) ==
    /\ pc[j] = "sitesCopied"
    /\ copy' = [copy EXCEPT ![j].sessions = {s \in sessions : s.id \in seen[j].sessions}]
    /\ Goto(j, "sessionsCopied")
    /\ UNCHANGED <<db, trash, seen, back>>

CopyPages(j) ==
    /\ pc[j] = "sessionsCopied"
    /\ copy' = [copy EXCEPT ![j].pages = {p \in pages : p.session \in seen[j].sessions}]
    /\ Goto(j, "copied")
    /\ UNCHANGED <<db, trash, seen, back>>

(* ajouter: the entry is in the trash before anything is deleted.           *)
Archive(j) ==
    /\ pc[j] = "copied"
    /\ trash' = trash \union {copy[j]}
    /\ Goto(j, "deleting")
    /\ UNCHANGED <<db, seen, copy, back>>

(* deleteSite and deleteDomain delete by name, not by the ids resolved.     *)
DeleteSites(j) ==
    /\ pc[j] = "deleting" /\ Op[j].do # "deleteSession"
    /\ KeepSites({s \in sites : ~Named(j, s)})
    /\ Goto(j, "done")
    /\ UNCHANGED <<trash, seen, copy, back>>

(* Mutant of DeleteSession: the orphan sites are left.                      *)
DeleteSessionOnly(j) ==
    /\ Doing(j, "deleteSession", "deleting")
    /\ KeepSessions({s \in sessions : s.id # Op[j].session})
    /\ Goto(j, "done")
    /\ UNCHANGED <<sites, trash, seen, copy, back>>

DeleteSession(j) ==
    /\ Doing(j, "deleteSession", "deleting")
    /\ KeepSessions({s \in sessions : s.id # Op[j].session})
    /\ Goto(j, "sweeping")
    /\ UNCHANGED <<sites, trash, seen, copy, back>>

(* deleteOrphanSites.                                                       *)
Sweep(j) ==
    /\ pc[j] = "sweeping"
    /\ sites' = {x \in sites : \E s \in sessions : s.site = x.id}
    /\ Goto(j, "done")
    /\ UNCHANGED <<sessions, pages, trash, seen, copy, back>>

-----------------------------------------------------------------------------
(* deletePages: the sessions of the pages, the pages, then reconcileSessions*)
(* (two statements) and deleteOrphanSites. The ids are those of pages that  *)
(* have been listed: recorded at some time, and maybe deleted since.        *)
LocatePages(j) ==
    /\ Doing(j, "deletePages", "idle")
    /\ \A id \in Op[j].pages : \E r \in Recordings : id \in Op[r].pages /\ pc[r] = "done"
    /\ seen' = [seen EXCEPT ![j].sessions = {p.session : p \in {q \in pages : q.id \in Op[j].pages}}]
    /\ Goto(j, "found")
    /\ UNCHANGED <<db, trash, copy, back>>

DeletePages(j) ==
    LET gone == {p \in pages : p.id \in Op[j].pages} IN
    /\ pc[j] = "found"
    /\ pages' = pages \ gone
    /\ Goto(j, IF gone = {} THEN "done" ELSE "deleted")
    /\ UNCHANGED <<sites, sessions, trash, seen, copy, back>>

(* Mutant of Recount: what was asked for is taken off, deleted or not.      *)
RecountByDifference(j) ==
    /\ pc[j] = "deleted"
    /\ sessions' = {IF s.id \in seen[j].sessions
                     THEN [s EXCEPT !.count = s.count - Cardinality(Op[j].pages)] ELSE s
                    : s \in sessions}
    /\ Goto(j, "recounted")
    /\ UNCHANGED <<sites, pages, trash, seen, copy, back>>

(* The UPDATE joins the sessions that have pages left; the others keep      *)
(* their count until the next statement deletes them.                       *)
Recount(j) ==
    LET stale(s) == s.id \in seen[j].sessions /\ PagesOf(s.id, pages) # {}
    IN
    /\ pc[j] = "deleted"
    /\ sessions' = {IF stale(s) THEN [s EXCEPT !.count = Cardinality(PagesOf(s.id, pages))] ELSE s
                    : s \in sessions}
    /\ Goto(j, "recounted")
    /\ UNCHANGED <<sites, pages, trash, seen, copy, back>>

DropEmpty(j) ==
    /\ pc[j] = "recounted"
    /\ sessions' = {s \in sessions : s.id \in seen[j].sessions => PagesOf(s.id, pages) # {}}
    /\ Goto(j, "sweeping")
    /\ UNCHANGED <<sites, pages, trash, seen, copy, back>>

-----------------------------------------------------------------------------
(* restaurer reads the entry twice, and an entry is never changed nor put   *)
(* back: the second read decides.                                           *)
Load(j) ==
    /\ Doing(j, "restore", "idle")
    /\ \E e \in trash : copy' = [copy EXCEPT ![j] = e]
    /\ Goto(j, "loaded")
    /\ UNCHANGED <<db, trash, seen, back>>

(* The site a restored session goes to: the live one of the same identity   *)
(* if there is one.                                                         *)
Home(site, rows) ==
    LET namesake == {x \in sites : \E y \in rows : y.id = site /\ y.identity = x.identity}
    IN  IF namesake = {} THEN site ELSE (CHOOSE x \in namesake : TRUE).id

(* Mutant of Reinsert: the pages of the sessions skipped are put back too.  *)
ReinsertMixed(j) ==
    /\ pc[j] = "loaded"
    /\ Ids(copy[j].sessions) \subseteq Ids(sessions)
    /\ pages' = pages \union copy[j].pages
    /\ Goto(j, "restored")
    /\ UNCHANGED <<sites, sessions, trash, seen, copy, back>>

(* ScanTrashRepository.restaurer, one transaction: the sites whose identity *)
(* is not live, the sessions that are not live, and the pages of the        *)
(* sessions put back. A session without a site violates its foreign key:    *)
(* everything is rolled back and the request fails.                         *)
Reinsert(j) ==
    LET e == copy[j]
        newSites == {x \in e.sites : \A y \in sites : y.identity # x.identity}
        newSessions == {[s EXCEPT !.site = Home(s.site, e.sites)]
                        : s \in {t \in e.sessions : t.id \notin Ids(sessions)}}
        newPages == {p \in e.pages : p.session \in Ids(newSessions)}
    IN
    /\ pc[j] = "loaded"
    /\ \A s \in newSessions : s.site \in Ids(sites \union newSites)
    /\ sites' = sites \union newSites
    /\ sessions' = sessions \union newSessions
    /\ pages' = pages \union newPages
    /\ back' = [sites |-> back.sites \union Ids(newSites),
                sessions |-> back.sessions \union Ids(newSessions)]
    /\ Goto(j, "restored")
    /\ UNCHANGED <<trash, seen, copy>>

(* supprimer: only then does the entry leave the trash.                     *)
Forget(j) ==
    /\ pc[j] = "restored"
    /\ trash' = {e \in trash : e.id # copy[j].id}
    /\ Goto(j, "done")
    /\ UNCHANGED <<db, seen, copy, back>>

(* purger, for an entry someone chose; purgerEchues, for entries that are   *)
(* days old: their deletions have ended.                                    *)
Purge(j) ==
    /\ Doing(j, "purge", "idle")
    /\ \E e \in trash : trash' = trash \ {e}
    /\ Goto(j, "done")
    /\ UNCHANGED <<db, seen, copy, back>>

PurgeExpired(j) ==
    /\ Doing(j, "retention", "idle")
    /\ \E old \in SUBSET {e \in trash : pc[e.id] \in {"done", "failed"}} : trash' = trash \ old
    /\ Goto(j, "done")
    /\ UNCHANGED <<db, seen, copy, back>>

(* A statement throws, or the process dies, after the first write: the rest *)
(* does not happen, and nothing is started again. Before the first write a  *)
(* failure shows nothing: the request just makes no further step.           *)
Fail(j) ==
    /\ pc[j] \in {"deleting", "deleted", "recounted", "sweeping", "restored"}
    /\ Goto(j, "failed")
    /\ UNCHANGED <<db, trash, seen, copy, back>>

Statement(j) ==
    \/ Record(j)
    \/ LocateSites(j) \/ LocateSession(j) \/ ResolveSessions(j)
    \/ CopySites(j) \/ CopySessions(j) \/ CopyPages(j) \/ Archive(j)
    \/ DeleteSites(j) \/ DeleteSession(j) \/ Sweep(j)
    \/ LocatePages(j) \/ DeletePages(j) \/ Recount(j) \/ DropEmpty(j)
    \/ Load(j) \/ Reinsert(j) \/ Forget(j)
    \/ Purge(j) \/ PurgeExpired(j)
    \/ Fail(j)

(* The pages that were live when a deletion began, and at every moment      *)
(* since: observed, never read by the requests.                             *)
Observe ==
    lasting' = [j \in Deletions |->
        IF pc'[j] \in {"idle", "sweeping", "done", "failed"} THEN {}
        ELSE IF pc[j] = "idle" THEN pages' ELSE lasting[j] \intersect pages']

(* The requests made so far.                                                *)
Made == {j \in Jobs : pc[j] # "idle"}

Next ==
    /\ \E j \in Jobs :
           /\ pc[j] = "idle" => Cardinality(Made) < MaxMade
           /\ Statement(j)
    /\ Observe

Spec == Init /\ [][Next]_vars

-----------------------------------------------------------------------------
Phases == {"idle", "located", "resolved", "sitesCopied", "sessionsCopied", "copied", "deleting",
           "sweeping", "found", "deleted", "recounted", "loaded", "restored", "done", "failed"}

(* The keys of the schema (003-scan-history.sql): one row per id, one site  *)
(* per identity, no reference to a missing row.                             *)
Integrity ==
    /\ \A x, y \in sites : x.id = y.id \/ x.identity = y.identity => x = y
    /\ \A s, t \in sessions : s.id = t.id => s = t
    /\ \A p, q \in pages : p.id = q.id => p = q
    /\ \A s \in sessions : s.site \in Ids(sites)
    /\ \A p \in pages : p.session \in Ids(sessions)

(* The rows keep their types and the three tables their keys.               *)
TypeOK ==
    /\ sites \subseteq SiteRow /\ sessions \subseteq SessionRow /\ pages \subseteq PageRow
    /\ Integrity
    /\ trash \subseteq Entry
    /\ pc \in [Jobs -> Phases]
    /\ seen \in [Jobs -> [sites : SUBSET Jobs, sessions : SUBSET Jobs]]
    /\ copy \in [Jobs -> Entry]
    /\ lasting \in [Deletions -> SUBSET PageRow]

(* The requests made have ended, and none has failed.                       *)
AtRest == \A j \in Jobs : pc[j] \in {"idle", "done"}

(* A step that is the DELETE of a deletion by site, domain or session.      *)
Deletes(j) == pc[j] = "deleting" /\ pc'[j] \in {"done", "sweeping"}

(* "Apres la cascade, les lignes n'existent plus et il n'y a plus rien a    *)
(* capturer" (scan-trash.service.ts:31): the copy is made of several reads  *)
(* and the deletion is another statement, by name. Whatever other requests  *)
(* do in between, a deleted page that was live since the deletion began is  *)
(* in the copy, with its session and the site of its session.               *)
CaptureComplete ==
    [][\A j \in Deletions : Deletes(j) =>
        \A p \in lasting[j] \ pages' :
            /\ p \in copy[j].pages
            /\ \E s \in copy[j].sessions : s.id = p.session /\ s.site \in Ids(copy[j].sites)]_vars

(* "Une session continuerait d'annoncer un nombre de pages [...] qu'elle    *)
(* n'a plus" (scans.service.ts:333): once the requests made have all ended, *)
(* and none has failed, the page count of a session is the number of its    *)
(* pages, even after deletions of pages that overlapped. Sessions put back  *)
(* by a restore are left out: their row and their pages were copied by two  *)
(* reads, and pages may have been deleted in between.                       *)
CountsAgree ==
    AtRest => \A s \in sessions :
        s.count = Cardinality(PagesOf(s.id, pages)) \/ s.id \in back.sessions

(* "Un site sans session reste sinon en tete de liste" (deleteOrphanSites,  *)
(* scan.repository.ts:500): once the requests made have ended, and none has *)
(* failed, every site has a session. Sites put back by a restore are left   *)
(* out: a site copied after its last session was deleted comes back empty.  *)
NoGhostSite ==
    AtRest => \A x \in sites :
        x.id \in back.sites \/ \E s \in sessions : s.site = x.id

(* What a restore promises (scan-trash.repository.ts:243-254): it changes   *)
(* nothing that is live, and mixes no archived page into a live session;    *)
(* afterwards all the sessions of the entry are there; those it put back    *)
(* have the pages of the entry and belong to a site of the same identity.   *)
RestoreFaithful ==
    [][\A j \in Jobs : pc[j] = "loaded" /\ pc'[j] = "restored" =>
        /\ sites \subseteq sites' /\ sessions \subseteq sessions'
        /\ \A s \in sessions : PagesOf(s.id, pages') = PagesOf(s.id, pages)
        /\ Ids(copy[j].sessions) \subseteq Ids(sessions')
        /\ \A s \in sessions' \ sessions, t \in copy[j].sessions : s.id = t.id =>
            /\ PagesOf(s.id, pages') = PagesOf(s.id, copy[j].pages)
            /\ \/ s.site = t.site
               \/ \E x \in sites', y \in copy[j].sites :
                      x.id = s.site /\ y.id = t.site /\ x.identity = y.identity]_vars

=============================================================================
