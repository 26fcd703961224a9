-------------------------- MODULE ScanHistory_proofs -------------------------
(****************************************************************************)
(* What ScanHistory guarantees for any requests and any number of them: the *)
(* tables keep their keys, a deletion has copied what it deletes of what    *)
(* was live since it began, a restore spoils nothing that is live; and once *)
(* the requests have ended, counts match pages and no site is left empty.   *)
(****************************************************************************)
EXTENDS ScanHistory, FiniteSetTheorems, TLAPS

Done == {j \in Jobs : pc[j] = "done"}

(* A row says which recording made it, live, copied or archived: the site   *)
(* of an id has one identity, the page of an id one session.                *)
SoundSites(D, rows) == \A x \in rows :
    x \in SiteRow /\ x.id \in Recordings \intersect D /\ x.identity = Op[x.id].identity
SoundSessions(D, rows) == \A s \in rows :
    s \in SessionRow /\ s.id \in Recordings \intersect D
SoundPages(D, rows) == \A p \in rows :
    p \in PageRow /\ p.session \in Recordings \intersect D /\ p.id \in Op[p.session].pages
OneSitePerIdentity(rows) == \A x, y \in rows : x.identity = y.identity => x.id = y.id
OneSessionPerId(rows) == \A s, t \in rows : s.id = t.id => s = t

Sound(D, xs, ss, ps) ==
    /\ SoundSites(D, xs) /\ SoundSessions(D, ss) /\ SoundPages(D, ps)
    /\ OneSitePerIdentity(xs) /\ OneSessionPerId(ss)

ForeignKeys ==
    /\ \A s \in sessions : s.site \in Ids(sites)
    /\ \A p \in pages : p.session \in Ids(sessions)

LocalTypes ==
    /\ pc \in [Jobs -> Phases]
    /\ seen \in [Jobs -> [sites : SUBSET Jobs, sessions : SUBSET Jobs]]
    /\ copy \in [Jobs -> Entry]
    /\ lasting \in [Deletions -> SUBSET PageRow]

(* The inductive invariant: the history, the copies and the trash are made  *)
(* of sound rows.                                                           *)
HistoryInv ==
    /\ LocalTypes
    /\ trash \subseteq Entry
    /\ Sound(Done, sites, sessions, pages)
    /\ ForeignKeys
    /\ \A j \in Jobs : Sound(Done, copy[j].sites, copy[j].sessions, copy[j].pages)
    /\ \A e \in trash : Sound(Done, e.sites, e.sessions, e.pages)

-----------------------------------------------------------------------------
(* Fewer rows, and more requests done, stay sound.                          *)
LEMMA SoundKept ==
    ASSUME NEW D, NEW E, D \subseteq E,
           NEW xs, NEW ss, NEW ps, Sound(D, xs, ss, ps),
           NEW xt, NEW st, NEW pt, xt \subseteq xs, st \subseteq ss, pt \subseteq ps
    PROVE  Sound(E, xt, st, pt)
<1>1. SoundSites(E, xt) /\ OneSitePerIdentity(xt)
  BY DEF Sound, SoundSites, OneSitePerIdentity
<1>2. SoundSessions(E, st) /\ OneSessionPerId(st)
  BY DEF Sound, SoundSessions, OneSessionPerId
<1>3. SoundPages(E, pt)
  BY DEF Sound, SoundPages
<1> QED BY <1>1, <1>2, <1>3 DEF Sound

(* Sound rows with the same id are the same.                                *)
LEMMA SameSite ==
    ASSUME NEW D, NEW rows, SoundSites(D, rows), NEW x \in rows, NEW y \in rows, x.id = y.id
    PROVE  x = y
BY DEF SoundSites, SiteRow

LEMMA SamePage ==
    ASSUME NEW D, NEW rows, SoundPages(D, rows), NEW p \in rows, NEW q \in rows, p.id = q.id
    PROVE  p = q
BY HistoryAssumption DEF SoundPages, PageRow

(* The pages of a session are among those of its recording: finitely many.  *)
LEMMA PagesCounted ==
    ASSUME NEW D, NEW rows, SoundPages(D, rows), NEW s \in Recordings
    PROVE  Cardinality(PagesOf(s, rows)) \in Nat
<1> DEFINE T == PagesOf(s, rows)
           ids == {i \in Op[s].pages : \E p \in T : p.id = i}
           f == [i \in ids |-> [id |-> i, session |-> s]]
<1>1. \A p \in T : p.id \in ids /\ p = [id |-> p.id, session |-> s]
  BY DEF PagesOf, SoundPages, PageRow
<1>2. \A i \in ids : [id |-> i, session |-> s] \in T
  BY <1>1
<1>3. f \in Surjection(ids, T)
  BY <1>1, <1>2 DEF Surjection
<1>4. IsFiniteSet(ids)
  BY HistoryAssumption, FS_Subset
<1>5. IsFiniteSet(T)
  BY <1>3, <1>4, FS_Surjection
<1> QED BY <1>5, FS_CardinalityType

-----------------------------------------------------------------------------
(* What every action needs: a request that was not done moves to a phase.   *)
LEMMA Moved ==
    ASSUME LocalTypes, NEW j \in Jobs, NEW phase \in Phases, pc[j] # "done", Goto(j, phase)
    PROVE  pc' \in [Jobs -> Phases] /\ Done \subseteq Done'
BY DEF LocalTypes, Goto, Done

LEMMA CopiesKept ==
    ASSUME HistoryInv, Done \subseteq Done', copy' = copy
    PROVE  /\ copy' \in [Jobs -> Entry]
           /\ \A j \in Jobs : Sound(Done, copy[j].sites, copy[j].sessions, copy[j].pages)'
BY SoundKept DEF HistoryInv, LocalTypes

LEMMA TrashKept ==
    ASSUME HistoryInv, Done \subseteq Done', trash' \subseteq trash
    PROVE  /\ trash' \subseteq Entry
           /\ \A e \in trash' : Sound(Done', e.sites, e.sessions, e.pages)
BY SoundKept DEF HistoryInv

LEMMA DbKept ==
    ASSUME HistoryInv, Done \subseteq Done', UNCHANGED db
    PROVE  Sound(Done, sites, sessions, pages)' /\ ForeignKeys'
BY SoundKept DEF HistoryInv, ForeignKeys, Ids, db

LEMMA Observed ==
    ASSUME HistoryInv, Observe, Sound(Done, sites, sessions, pages)'
    PROVE  lasting' \in [Deletions -> SUBSET PageRow]
<1>1. pages' \subseteq PageRow
  BY DEF Sound, SoundPages
<1> QED BY <1>1 DEF Observe, HistoryInv, LocalTypes

(* A step that moves one request keeps the invariant when it keeps the      *)
(* types of what a request holds, the rows sound and the foreign keys.      *)
LEMMA Kept ==
    ASSUME HistoryInv, Observe, NEW j \in Jobs, NEW phase \in Phases,
           pc[j] # "done", Goto(j, phase),
           (seen \in [Jobs -> [sites : SUBSET Jobs, sessions : SUBSET Jobs]])',
           Done \subseteq Done' => (Sound(Done, sites, sessions, pages) /\ ForeignKeys)',
           Done \subseteq Done' =>
               /\ copy' \in [Jobs -> Entry]
               /\ \A i \in Jobs : Sound(Done, copy[i].sites, copy[i].sessions, copy[i].pages)',
           Done \subseteq Done' =>
               /\ trash' \subseteq Entry
               /\ \A e \in trash' : Sound(Done', e.sites, e.sessions, e.pages)
    PROVE  HistoryInv'
<1>1. pc' \in [Jobs -> Phases] /\ Done \subseteq Done'
  BY Moved DEF HistoryInv
<1>2. lasting' \in [Deletions -> SUBSET PageRow]
  BY <1>1, Observed
<1> QED BY <1>1, <1>2 DEF HistoryInv, LocalTypes

(* The requests that only look, or only change the trash.                   *)
LEMMA LocateKept ==
    ASSUME HistoryInv, Observe, NEW j \in Jobs,
           \/ LocateSites(j) \/ LocateSession(j) \/ ResolveSessions(j) \/ LocatePages(j)
           \/ Fail(j) \/ Forget(j) \/ Purge(j) \/ PurgeExpired(j)
    PROVE  HistoryInv'
<1>1. Sound(Done, sites, sessions, pages) /\ seen \in [Jobs -> [sites : SUBSET Jobs, sessions : SUBSET Jobs]]
  BY DEF HistoryInv, LocalTypes
<1>2. Ids(sites) \subseteq Jobs /\ Ids(sessions) \subseteq Jobs /\ {s.site : s \in sessions} \subseteq Jobs
  BY <1>1 DEF Sound, SoundSites, SoundSessions, SiteRow, SessionRow, Ids
<1>3. {p.session : p \in pages} \subseteq Jobs
  BY <1>1 DEF Sound, SoundPages, PageRow
<1>4. (seen \in [Jobs -> [sites : SUBSET Jobs, sessions : SUBSET Jobs]])'
  <2>1. CASE LocateSites(j)
    BY <1>1, <1>2, <2>1 DEF LocateSites, Ids
  <2>2. CASE LocateSession(j)
    BY <1>1, <1>2, <2>2 DEF LocateSession, Ids
  <2>3. CASE ResolveSessions(j)
    BY <1>1, <1>2, <2>3 DEF ResolveSessions, Ids
  <2>4. CASE LocatePages(j)
    BY <1>1, <1>3, <2>4 DEF LocatePages
  <2>5. CASE Fail(j) \/ Forget(j) \/ Purge(j) \/ PurgeExpired(j)
    BY <1>1, <2>5 DEF Fail, Forget, Purge, PurgeExpired
  <2> QED BY <2>1, <2>2, <2>3, <2>4, <2>5
<1>5. \E phase \in Phases : pc[j] # "done" /\ Goto(j, phase)
  BY DEF LocateSites, LocateSession, ResolveSessions, LocatePages, Fail, Forget, Purge,
         PurgeExpired, Doing, Phases
<1>6. UNCHANGED db /\ copy' = copy /\ trash' \subseteq trash
  BY DEF LocateSites, LocateSession, ResolveSessions, LocatePages, Fail, Forget, Purge,
         PurgeExpired
<1> QED BY <1>4, <1>5, <1>6, DbKept, CopiesKept, TrashKept, Kept

(* The copies a deletion makes of the history, and of its copy in the trash;*)
(* the copy a restore makes of an entry.                                    *)
LEMMA CopyKept ==
    ASSUME HistoryInv, Observe, NEW j \in Jobs,
           CopySites(j) \/ CopySessions(j) \/ CopyPages(j) \/ Archive(j) \/ Load(j)
    PROVE  HistoryInv'
<1>1. \E phase \in Phases : pc[j] # "done" /\ Goto(j, phase)
  BY DEF CopySites, CopySessions, CopyPages, Archive, Load, Doing, Phases
<1>2. UNCHANGED db /\ seen' = seen
  BY DEF CopySites, CopySessions, CopyPages, Archive, Load, db
<1>3. (seen \in [Jobs -> [sites : SUBSET Jobs, sessions : SUBSET Jobs]])'
  BY <1>2 DEF HistoryInv, LocalTypes
<1>4. CASE Archive(j)
  <2>1. copy' = copy /\ trash' = trash \union {copy[j]}
    BY <1>4 DEF Archive
  <2>2. ASSUME Done \subseteq Done'
        PROVE  /\ trash' \subseteq Entry
               /\ \A e \in trash' : Sound(Done', e.sites, e.sessions, e.pages)
    BY <2>1, <2>2, SoundKept DEF HistoryInv, LocalTypes
  <2> QED BY <1>1, <1>2, <1>3, <2>1, <2>2, DbKept, CopiesKept, Kept
<1>5. ASSUME ~Archive(j), Done \subseteq Done'
      PROVE  /\ copy' \in [Jobs -> Entry]
             /\ \A i \in Jobs : Sound(Done, copy[i].sites, copy[i].sessions, copy[i].pages)'
  <2>1. PICK e \in Entry : copy' = [copy EXCEPT ![j] = e] /\ Sound(Done, e.sites, e.sessions, e.pages)
    <3>0. copy \in [Jobs -> Entry] /\ Sound(Done, sites, sessions, pages)
          /\ Sound(Done, copy[j].sites, copy[j].sessions, copy[j].pages)
      BY DEF HistoryInv, LocalTypes
    <3>1. CASE CopySites(j)
      <4> DEFINE e == [copy[j] EXCEPT !.sites = {s \in sites : s.id \in seen[j].sites}]
      <4>1. e \in Entry /\ copy' = [copy EXCEPT ![j] = e]
        BY <3>0, <3>1 DEF CopySites, Entry, Sound, SoundSites
      <4>2. Sound(Done, e.sites, e.sessions, e.pages)
        BY <3>0 DEF Sound, SoundSites, OneSitePerIdentity, Entry
      <4> QED BY <4>1, <4>2
    <3>2. CASE CopySessions(j)
      <4> DEFINE e == [copy[j] EXCEPT !.sessions = {s \in sessions : s.id \in seen[j].sessions}]
      <4>1. e \in Entry /\ copy' = [copy EXCEPT ![j] = e]
        BY <3>0, <3>2 DEF CopySessions, Entry, Sound, SoundSessions
      <4>2. Sound(Done, e.sites, e.sessions, e.pages)
        BY <3>0 DEF Sound, SoundSessions, OneSessionPerId, Entry
      <4> QED BY <4>1, <4>2
    <3>3. CASE CopyPages(j)
      <4> DEFINE e == [copy[j] EXCEPT !.pages = {p \in pages : p.session \in seen[j].sessions}]
      <4>1. e \in Entry /\ copy' = [copy EXCEPT ![j] = e]
        BY <3>0, <3>3 DEF CopyPages, Entry, Sound, SoundPages
      <4>2. Sound(Done, e.sites, e.sessions, e.pages)
        BY <3>0 DEF Sound, SoundPages, Entry
      <4> QED BY <4>1, <4>2
    <3>4. CASE Load(j)
      BY <3>4 DEF Load, HistoryInv
    <3> QED BY <1>5, <3>1, <3>2, <3>3, <3>4
  <2> QED BY <1>5, <2>1, SoundKept DEF HistoryInv, LocalTypes
<1>6. CASE ~Archive(j)
  <2>1. trash' \subseteq trash
    BY <1>6 DEF CopySites, CopySessions, CopyPages, Load
  <2> QED BY <1>1, <1>2, <1>3, <1>5, <1>6, <2>1, DbKept, TrashKept, Kept
<1> QED BY <1>4, <1>6

(* The deletions: rows go, and with a row the rows that refer to it.        *)
LEMMA DeletionKept ==
    ASSUME HistoryInv, Observe, NEW j \in Jobs,
           \/ DeleteSites(j) \/ DeleteSession(j) \/ Sweep(j)
           \/ DeletePages(j) \/ DropEmpty(j)
    PROVE  HistoryInv'
<1>1. \E phase \in Phases : pc[j] # "done" /\ Goto(j, phase)
  BY DEF DeleteSites, DeleteSession, Sweep, DeletePages, DropEmpty, Doing, Phases
<1>2. trash' \subseteq trash /\ copy' = copy /\ seen' = seen
  BY DEF DeleteSites, DeleteSession, Sweep, DeletePages, DropEmpty
<1>3. (seen \in [Jobs -> [sites : SUBSET Jobs, sessions : SUBSET Jobs]])'
  BY <1>2 DEF HistoryInv, LocalTypes
<1>4. sites' \subseteq sites /\ sessions' \subseteq sessions /\ pages' \subseteq pages
  BY DEF DeleteSites, DeleteSession, Sweep, DeletePages, DropEmpty, KeepSites, KeepSessions
<1>5. ASSUME Done \subseteq Done' PROVE Sound(Done, sites, sessions, pages)'
  BY <1>4, <1>5, SoundKept DEF HistoryInv
<1>6. ForeignKeys'
  <2>1. CASE DeleteSites(j)
    BY <2>1 DEF DeleteSites, KeepSites, KeepSessions, ForeignKeys
  <2>2. CASE DeleteSession(j)
    BY <2>2 DEF DeleteSession, KeepSessions, HistoryInv, ForeignKeys
  <2>3. CASE Sweep(j)
    BY <2>3 DEF Sweep, HistoryInv, ForeignKeys, Ids
  <2>4. CASE DeletePages(j)
    BY <2>4 DEF DeletePages, HistoryInv, ForeignKeys
  <2>5. CASE DropEmpty(j)
    <3>1. ASSUME NEW p \in pages PROVE p.session \in Ids(sessions')
      <4>1. PICK s \in sessions : s.id = p.session
        BY DEF HistoryInv, ForeignKeys, Ids
      <4>2. p \in PagesOf(s.id, pages)
        BY <4>1 DEF PagesOf
      <4> QED BY <4>1, <4>2, <2>5 DEF DropEmpty, Ids
    <3> QED BY <3>1, <2>5 DEF DropEmpty, HistoryInv, ForeignKeys
  <2> QED BY <2>1, <2>2, <2>3, <2>4, <2>5
<1> QED BY <1>1, <1>2, <1>3, <1>5, <1>6, CopiesKept, TrashKept, Kept

LEMMA RecountKept ==
    ASSUME HistoryInv, Observe, NEW j \in Jobs, Recount(j)
    PROVE  HistoryInv'
<1>1. \E phase \in Phases : pc[j] # "done" /\ Goto(j, phase)
  BY DEF Recount, Phases
<1>2. sites' = sites /\ pages' = pages /\ trash' \subseteq trash /\ copy' = copy /\ seen' = seen
  BY DEF Recount
<1>3. (seen \in [Jobs -> [sites : SUBSET Jobs, sessions : SUBSET Jobs]])'
  BY <1>2 DEF HistoryInv, LocalTypes
<1>4. Sound(Done, sites, sessions, pages)
  BY DEF HistoryInv
<1> DEFINE recounted(s) == [s EXCEPT !.count = Cardinality(PagesOf(s.id, pages))]
<1>5. \A s \in sessions : s \in SessionRow /\ s.id \in Recordings \intersect Done
  BY <1>4 DEF Sound, SoundSessions
<1>6. \A s \in sessions :
        recounted(s) \in SessionRow /\ recounted(s).id = s.id /\ recounted(s).site = s.site
  BY <1>4, <1>5, PagesCounted DEF Sound, SessionRow
<1>7. \A t \in sessions' : \E s \in sessions : t = recounted(s) \/ t = s
  BY DEF Recount
<1>8. \A s, t \in sessions' : s.id = t.id => s = t
  <2> DEFINE stale(s) == s.id \in seen[j].sessions /\ PagesOf(s.id, pages) # {}
             new(s) == IF stale(s) THEN recounted(s) ELSE s
  <2>1. sessions' = {new(s) : s \in sessions}
    BY DEF Recount
  <2>2. \A s \in sessions : new(s).id = s.id
    BY <1>6
  <2>3. \A s, t \in sessions : s.id = t.id => s = t
    BY <1>4 DEF Sound, OneSessionPerId
  <2> HIDE DEF new
  <2> QED BY <2>1, <2>2, <2>3
<1>9. \A t \in sessions' : t \in SessionRow /\ t.id \in Recordings \intersect Done /\ t.site \in Ids(sites)
  BY <1>5, <1>6, <1>7 DEF HistoryInv, ForeignKeys
<1>10. Ids(sessions) \subseteq Ids(sessions')
  BY <1>6 DEF Recount, Ids
<1>11. ForeignKeys'
  BY <1>2, <1>9, <1>10 DEF HistoryInv, ForeignKeys, Ids
<1>12. ASSUME Done \subseteq Done' PROVE Sound(Done, sites, sessions, pages)'
  BY <1>2, <1>4, <1>8, <1>9, <1>12
     DEF Sound, SoundSites, SoundSessions, SoundPages, OneSitePerIdentity, OneSessionPerId
<1> QED BY <1>1, <1>2, <1>3, <1>11, <1>12, CopiesKept, TrashKept, Kept

(* Nothing has the name of a recording that has not been made.              *)
LEMMA RecordKept ==
    ASSUME HistoryInv, Observe, NEW j \in Jobs, Record(j)
    PROVE  HistoryInv'
<1> DEFINE identity == Op[j].identity
           known == {x \in sites : x.identity = identity}
           home == IF known = {} THEN [id |-> j, identity |-> identity]
                                 ELSE CHOOSE x \in known : TRUE
           new == [id |-> j, site |-> home.id, count |-> Cardinality(Op[j].pages)]
<1>1. pc[j] # "done" /\ Goto(j, "done") /\ "done" \in Phases /\ j \in Recordings
  BY DEF Record, Doing, Recordings, Phases
<1>2. trash' \subseteq trash /\ copy' = copy /\ seen' = seen
  BY DEF Record
<1>3. (seen \in [Jobs -> [sites : SUBSET Jobs, sessions : SUBSET Jobs]])'
  BY <1>2 DEF HistoryInv, LocalTypes
<1>4. /\ sites' = sites \union {home}
      /\ sessions' = sessions \union {new}
      /\ pages' = pages \union [id : Op[j].pages, session : {j}]
  BY DEF Record
<1>5. SoundSites(Done, sites) /\ SoundSessions(Done, sessions) /\ SoundPages(Done, pages)
      /\ OneSitePerIdentity(sites) /\ OneSessionPerId(sessions)
  BY DEF HistoryInv, Sound
<1>6. /\ home.identity = identity /\ home.id \in Jobs /\ home \in SiteRow
      /\ home \in sites \/ (known = {} /\ home.id = j)
  <2>1. identity \in DOMAIN DomainOf
    BY <1>1, HistoryAssumption
  <2>2. CASE known = {}
    BY <2>1, <2>2, <1>1 DEF SiteRow
  <2>3. CASE known # {}
    <3>1. home \in sites /\ home.identity = identity
      BY <2>3
    <3> QED BY <3>1, <1>5 DEF SoundSites, SiteRow
  <2> QED BY <2>2, <2>3
<1> HIDE DEF home
<1>7. new \in SessionRow /\ new.id = j /\ new.site = home.id
  BY <1>1, <1>6, HistoryAssumption, FS_CardinalityType DEF SessionRow
<1>8. \A s \in sessions : s.id # j
  BY <1>1, <1>5 DEF SoundSessions, Done
<1> HIDE DEF new
<1>9. ForeignKeys'
  <2>1. home.id \in Ids(sites') /\ j \in Ids(sessions')
    BY <1>4, <1>7 DEF Ids
  <2>2. Ids(sites) \subseteq Ids(sites') /\ Ids(sessions) \subseteq Ids(sessions')
    BY <1>4 DEF Ids
  <2>3. \A s \in sessions' : s.site \in Ids(sites')
    BY <1>4, <1>7, <2>1, <2>2 DEF HistoryInv, ForeignKeys
  <2>4. \A p \in pages' : p.session \in Ids(sessions')
    BY <1>4, <2>1, <2>2 DEF HistoryInv, ForeignKeys
  <2> QED BY <2>3, <2>4 DEF ForeignKeys
<1>10. ASSUME Done \subseteq Done' PROVE Sound(Done, sites, sessions, pages)'
  <2>1. j \in Done'
    BY <1>1 DEF Goto, HistoryInv, LocalTypes, Done
  <2>2. SoundSites(Done', sites')
    BY <1>1, <1>4, <1>5, <1>6, <1>10, <2>1 DEF SoundSites
  <2>3. OneSitePerIdentity(sites')
    BY <1>4, <1>5, <1>6 DEF OneSitePerIdentity
  <2>4. SoundSessions(Done', sessions')
    BY <1>1, <1>4, <1>5, <1>7, <1>10, <2>1 DEF SoundSessions
  <2>5. OneSessionPerId(sessions')
    BY <1>4, <1>5, <1>7, <1>8 DEF OneSessionPerId
  <2>6. SoundPages(Done', pages')
    BY <1>1, <1>4, <1>5, <1>10, <2>1 DEF SoundPages, PageRow, PageIds
  <2> QED BY <2>2, <2>3, <2>4, <2>5, <2>6 DEF Sound
<1> QED BY <1>1, <1>2, <1>3, <1>9, <1>10, CopiesKept, TrashKept, Kept

-----------------------------------------------------------------------------
(* What a restore puts back, as Reinsert defines it.                        *)
BackSites(e) == {x \in e.sites : \A y \in sites : y.identity # x.identity}
BackSession(e, s) == [s EXCEPT !.site = Home(s.site, e.sites)]
BackSessions(e) == {BackSession(e, s) : s \in {t \in e.sessions : t.id \notin Ids(sessions)}}
BackPages(e) == {p \in e.pages : p.session \in Ids(BackSessions(e))}

LEMMA ReinsertWrites ==
    ASSUME NEW j \in Jobs, Reinsert(j)
    PROVE  /\ sites' = sites \union BackSites(copy[j])
           /\ sessions' = sessions \union BackSessions(copy[j])
           /\ pages' = pages \union BackPages(copy[j])
           /\ \A s \in BackSessions(copy[j]) : s.site \in Ids(sites')
BY DEF Reinsert, BackSites, BackSession, BackSessions, BackPages

(* The session put back is the one of the entry, under the site of the      *)
(* entry or under a live one of the same identity.                          *)
LEMMA PutBack ==
    ASSUME NEW e \in Entry, NEW s \in e.sessions, SoundSites(Done, sites)
    PROVE  /\ BackSession(e, s) \in SessionRow
           /\ BackSession(e, s).id = s.id
           /\ \/ BackSession(e, s).site = s.site
              \/ \E x \in sites, y \in e.sites :
                     x.id = BackSession(e, s).site /\ y.id = s.site /\ x.identity = y.identity
<1> DEFINE namesake == {x \in sites : \E y \in e.sites : y.id = s.site /\ y.identity = x.identity}
           home == Home(s.site, e.sites)
<1>1. s \in SessionRow
  BY DEF Entry
<1>2. home = IF namesake = {} THEN s.site ELSE (CHOOSE x \in namesake : TRUE).id
  BY DEF Home
<1>3. home = s.site \/ \E x \in namesake : x.id = home
  BY <1>2
<1>4. home \in Jobs
  BY <1>1, <1>3 DEF SessionRow, SoundSites, SiteRow
<1> HIDE DEF home
<1>5. BackSession(e, s) = [s EXCEPT !.site = home]
  BY DEF BackSession, home
<1>6. BackSession(e, s) \in SessionRow /\ BackSession(e, s).id = s.id /\ BackSession(e, s).site = home
  BY <1>1, <1>4, <1>5 DEF SessionRow
<1> QED BY <1>3, <1>6

LEMMA ReinsertKept ==
    ASSUME HistoryInv, Observe, NEW j \in Jobs, Reinsert(j)
    PROVE  HistoryInv'
<1> DEFINE e == copy[j]
<1>1. pc[j] # "done" /\ Goto(j, "restored") /\ "restored" \in Phases
  BY DEF Reinsert, Phases
<1>2. trash' \subseteq trash /\ copy' = copy /\ seen' = seen
  BY DEF Reinsert
<1>3. (seen \in [Jobs -> [sites : SUBSET Jobs, sessions : SUBSET Jobs]])'
  BY <1>2 DEF HistoryInv, LocalTypes
<1>4. e \in Entry /\ Sound(Done, e.sites, e.sessions, e.pages) /\ Sound(Done, sites, sessions, pages)
  BY DEF HistoryInv, LocalTypes
<1>5. \A s \in BackSessions(e) :
        /\ s \in SessionRow
        /\ \E t \in e.sessions : t.id \notin Ids(sessions) /\ s = BackSession(e, t) /\ s.id = t.id
  BY <1>4, PutBack DEF BackSessions, Sound
<1>6. ForeignKeys'
  BY ReinsertWrites DEF HistoryInv, ForeignKeys, BackPages, Ids
<1>7. SoundSites(Done, sites') /\ OneSitePerIdentity(sites')
  BY <1>4, ReinsertWrites DEF Sound, SoundSites, OneSitePerIdentity, BackSites
<1>8. SoundSessions(Done, sessions')
  BY <1>4, <1>5, ReinsertWrites DEF Sound, SoundSessions
<1>9. OneSessionPerId(sessions')
  <2>1. \A s, t \in BackSessions(e) : s.id = t.id => s = t
    BY <1>4, <1>5 DEF Sound, OneSessionPerId
  <2>2. \A s \in sessions, t \in BackSessions(e) : s.id # t.id
    BY <1>5 DEF Ids
  <2> QED BY <1>4, <2>1, <2>2, ReinsertWrites DEF Sound, OneSessionPerId
<1>10. SoundPages(Done, pages')
  BY <1>4, ReinsertWrites DEF Sound, SoundPages, BackPages
<1>11. ASSUME Done \subseteq Done' PROVE Sound(Done, sites, sessions, pages)'
  <2>1. Sound(Done, sites', sessions', pages')
    BY <1>7, <1>8, <1>9, <1>10 DEF Sound
  <2> QED BY <1>11, <2>1, SoundKept
<1> QED BY <1>1, <1>2, <1>3, <1>6, <1>11, CopiesKept, TrashKept, Kept

-----------------------------------------------------------------------------
LEMMA HistoryInvInit == Init => HistoryInv
BY DEF Init, HistoryInv, LocalTypes, Phases, Entry, Sound, SoundSites, SoundSessions, SoundPages,
       OneSitePerIdentity, OneSessionPerId, ForeignKeys

LEMMA HistoryInvStep == HistoryInv /\ [Next]_vars => HistoryInv'
<1> SUFFICES ASSUME HistoryInv, [Next]_vars PROVE HistoryInv'
  OBVIOUS
<1>1. CASE UNCHANGED vars
  BY <1>1 DEF vars, HistoryInv, LocalTypes, Sound, SoundSites, SoundSessions, SoundPages,
              OneSitePerIdentity, OneSessionPerId, ForeignKeys, Done, Ids
<1>2. CASE Next
  <2>1. PICK j \in Jobs : Statement(j) /\ Observe
    BY <1>2 DEF Next
  <2> QED BY <2>1, LocateKept, CopyKept, DeletionKept, RecountKept, RecordKept, ReinsertKept
          DEF Statement
<1> QED BY <1>1, <1>2

LEMMA HistoryInvariant == Spec => []HistoryInv
BY HistoryInvInit, HistoryInvStep, PTL DEF Spec

(* The keys of the three tables hold whatever the requests interleave: one  *)
(* row per id and one site per identity, even when a restore puts back what *)
(* a recording made again, and no row refers to a missing one.              *)
THEOREM HistoryTypeCorrect == Spec => []TypeOK
<1>1. HistoryInv => TypeOK
  <2> SUFFICES ASSUME HistoryInv PROVE TypeOK
    OBVIOUS
  <2>1. Sound(Done, sites, sessions, pages)
    BY DEF HistoryInv
  <2>2. Integrity
    <3>1. \A x, y \in sites : x.id = y.id => x = y
      BY <2>1, SameSite DEF Sound
    <3>2. \A x, y \in sites : x.identity = y.identity => x = y
      BY <2>1, <3>1 DEF Sound, OneSitePerIdentity
    <3>3. \A p, q \in pages : p.id = q.id => p = q
      BY <2>1, SamePage DEF Sound
    <3> QED BY <2>1, <3>1, <3>2, <3>3 DEF HistoryInv, Integrity, ForeignKeys, Sound, OneSessionPerId
  <2>3. sites \subseteq SiteRow /\ sessions \subseteq SessionRow /\ pages \subseteq PageRow
    BY <2>1 DEF Sound, SoundSites, SoundSessions, SoundPages
  <2> QED BY <2>2, <2>3 DEF HistoryInv, LocalTypes, TypeOK
<1> QED BY <1>1, HistoryInvariant, PTL

-----------------------------------------------------------------------------
(* Only the transaction of a restore takes it from "loaded" to "restored".  *)
LEMMA RestoredByReinsert ==
    ASSUME LocalTypes, NEW j \in Jobs, [Next]_vars, pc[j] = "loaded", pc'[j] = "restored"
    PROVE  Reinsert(j)
<1>1. PICK i \in Jobs : Statement(i)
  BY DEF Next, vars
<1>2. \E phase : Goto(i, phase)
  BY <1>1 DEF Statement, Record, LocateSites, LocateSession, ResolveSessions, CopySites, CopySessions,
     CopyPages, Archive, DeleteSites, DeleteSession, Sweep, LocatePages, DeletePages, Recount,
     DropEmpty, Load, Reinsert, Forget, Purge, PurgeExpired, Fail
<1>3. i = j
  BY <1>2 DEF Goto, LocalTypes
<1>4. Load(j) \/ Forget(j) \/ Purge(j) \/ PurgeExpired(j) \/ Fail(j) => FALSE
  BY DEF Load, Forget, Purge, PurgeExpired, Fail, Doing
<1>5. LocateSites(j) \/ LocateSession(j) \/ ResolveSessions(j) \/ CopySites(j) \/ CopySessions(j)
      \/ CopyPages(j) \/ Archive(j) \/ DeleteSites(j) \/ DeleteSession(j) \/ Sweep(j) => FALSE
  BY DEF LocateSites, LocateSession, ResolveSessions, CopySites, CopySessions, CopyPages, Archive,
         DeleteSites, DeleteSession, Sweep, Doing
<1>6. Record(j) \/ LocatePages(j) \/ DeletePages(j) \/ Recount(j) \/ DropEmpty(j) => FALSE
  BY DEF Record, LocatePages, DeletePages, Recount, DropEmpty, Doing
<1> QED BY <1>1, <1>3, <1>4, <1>5, <1>6 DEF Statement

(* A restore changes nothing that is live, skips a session that is live     *)
(* with all its pages, and puts the others back whole, each under a site of *)
(* its own identity (ScanTrashRepository.restaurer).                        *)
THEOREM HistoryRestoreFaithful == Spec => RestoreFaithful
<1> DEFINE Faithful(j) ==
        /\ sites \subseteq sites' /\ sessions \subseteq sessions'
        /\ \A s \in sessions : PagesOf(s.id, pages') = PagesOf(s.id, pages)
        /\ Ids(copy[j].sessions) \subseteq Ids(sessions')
        /\ \A s \in sessions' \ sessions, t \in copy[j].sessions : s.id = t.id =>
            /\ PagesOf(s.id, pages') = PagesOf(s.id, copy[j].pages)
            /\ \/ s.site = t.site
               \/ \E x \in sites', y \in copy[j].sites :
                      x.id = s.site /\ y.id = t.site /\ x.identity = y.identity
<1>1. ASSUME HistoryInv, NEW j \in Jobs, Reinsert(j) PROVE Faithful(j)
  <2> DEFINE e == copy[j]
  <2>1. e \in Entry /\ Sound(Done, e.sites, e.sessions, e.pages) /\ Sound(Done, sites, sessions, pages)
    BY <1>1 DEF HistoryInv, LocalTypes
  <2>2. /\ sites' = sites \union BackSites(e)
        /\ sessions' = sessions \union BackSessions(e)
        /\ pages' = pages \union BackPages(e)
    BY <1>1, ReinsertWrites
  <2>3. \A s \in e.sessions : BackSession(e, s).id = s.id
    BY <2>1, PutBack DEF Sound
  <2>4. Ids(BackSessions(e)) = Ids(e.sessions) \ Ids(sessions)
    BY <2>3 DEF BackSessions, Ids
  <2>5. \A s \in sessions : PagesOf(s.id, pages') = PagesOf(s.id, pages)
    BY <2>2, <2>4 DEF PagesOf, BackPages, Ids
  <2>6. Ids(e.sessions) \subseteq Ids(sessions')
    BY <2>2, <2>4 DEF Ids
  <2>7. ASSUME NEW s \in sessions' \ sessions, NEW t \in e.sessions, s.id = t.id
        PROVE  /\ PagesOf(s.id, pages') = PagesOf(s.id, e.pages)
               /\ \/ s.site = t.site
                  \/ \E x \in sites', y \in e.sites :
                         x.id = s.site /\ y.id = t.site /\ x.identity = y.identity
    <3>1. PICK u \in e.sessions : u.id \notin Ids(sessions) /\ s = BackSession(e, u)
      BY <2>2, <2>7 DEF BackSessions
    <3>2. u = t /\ s.id \in Ids(BackSessions(e)) /\ s.id \notin Ids(sessions)
      BY <2>1, <2>3, <2>4, <2>7, <3>1 DEF Sound, OneSessionPerId, Ids
    <3>3. PagesOf(s.id, pages) = {}
      BY <1>1, <3>2 DEF HistoryInv, ForeignKeys, PagesOf
    <3>4. PagesOf(s.id, pages') = PagesOf(s.id, e.pages)
      BY <2>2, <3>2, <3>3 DEF PagesOf, BackPages
    <3>5. \/ s.site = t.site
          \/ \E x \in sites, y \in e.sites :
                 x.id = s.site /\ y.id = t.site /\ x.identity = y.identity
      BY <2>1, <3>1, <3>2, PutBack DEF Sound
    <3> QED BY <2>2, <3>4, <3>5
  <2> QED BY <2>2, <2>5, <2>6, <2>7
<1>2. HistoryInv /\ [Next]_vars =>
        [\A j \in Jobs : pc[j] = "loaded" /\ pc'[j] = "restored" => Faithful(j)]_vars
  BY <1>1, RestoredByReinsert DEF HistoryInv
<1> QED BY <1>2, HistoryInvariant, PTL DEF Spec, RestoreFaithful

-----------------------------------------------------------------------------
(* A live page of a session, under a site, that a deletion is about.        *)
Target(j, session, x) ==
    IF Op[j].do = "deleteSession" THEN session = Op[j].session ELSE Named(j, x)
Concerned(j, p, site) ==
    \E s \in sessions, x \in sites :
        s.id = p.session /\ s.site = site /\ x.id = site /\ Target(j, p.session, x)

(* What a deletion has of such a page by the phase it has reached.          *)
HasPages == {"copied", "deleting"}
HasSessions == {"sessionsCopied"} \union HasPages
HasSites == {"sitesCopied"} \union HasSessions
Captured(j, p, site) ==
    /\ pc[j] \in {"located", "resolved"} \union HasSites => site \in seen[j].sites
    /\ pc[j] \in {"resolved"} \union HasSites => p.session \in seen[j].sessions
    /\ pc[j] \in HasSites => site \in Ids(copy[j].sites)
    /\ pc[j] \in HasSessions => \E t \in copy[j].sessions : t.id = p.session /\ t.site = site
    /\ pc[j] \in HasPages => p \in copy[j].pages

CaptureInv == \A j \in Deletions : \A p \in lasting[j] :
    p \in pages /\ \A site \in Jobs : Concerned(j, p, site) => Captured(j, p, site)

(* Every statement keeps, of a session that stays, the id and the site.     *)
LEMMA SessionsStay ==
    ASSUME HistoryInv, Next
    PROVE  \A s \in sessions' : \/ s.id \notin Ids(sessions)
                                \/ \E t \in sessions : t.id = s.id /\ t.site = s.site
<1>1. PICK j \in Jobs : Statement(j)
  BY DEF Next
<1>2. CASE Record(j)
  <2>1. \A s \in sessions : s.id # j
    BY <1>2 DEF HistoryInv, Sound, SoundSessions, Done, Record, Doing
  <2>2. \A s \in sessions' : s \in sessions \/ s.id = j
    BY <1>2 DEF Record
  <2> QED BY <2>1, <2>2 DEF Ids
<1>3. CASE Recount(j)
  <2>1. \A s \in sessions : s \in SessionRow
    BY DEF HistoryInv, Sound, SoundSessions
  <2> QED BY <1>3, <2>1 DEF Recount, SessionRow
<1>4. CASE Reinsert(j)
  <2>1. \A s \in BackSessions(copy[j]) : s.id \notin Ids(sessions)
    BY PutBack DEF BackSessions, HistoryInv, LocalTypes, Sound
  <2> QED BY <1>4, <2>1, ReinsertWrites
<1>5. CASE DeleteSites(j) \/ DeleteSession(j) \/ DropEmpty(j)
  BY <1>5 DEF DeleteSites, DeleteSession, DropEmpty, KeepSites, KeepSessions
<1>6. CASE \/ LocateSites(j) \/ LocateSession(j) \/ ResolveSessions(j) \/ CopySites(j)
           \/ CopySessions(j) \/ CopyPages(j) \/ Archive(j) \/ Sweep(j) \/ LocatePages(j)
           \/ DeletePages(j) \/ Load(j) \/ Forget(j) \/ Purge(j) \/ PurgeExpired(j) \/ Fail(j)
  BY <1>6 DEF LocateSites, LocateSession, ResolveSessions, CopySites, CopySessions, CopyPages,
              Archive, Sweep, LocatePages, DeletePages, Load, Forget, Purge, PurgeExpired, Fail, db
<1> QED BY <1>1, <1>2, <1>3, <1>4, <1>5, <1>6 DEF Statement

(* A page that stays is not concerned by a deletion it did not concern.     *)
LEMMA NotMoreConcerned ==
    ASSUME HistoryInv, HistoryInv', Next,
           NEW j, NEW p \in pages, NEW site, Concerned(j, p, site)'
    PROVE  Concerned(j, p, site)
<1>1. PICK s \in sessions', x \in sites' :
        s.id = p.session /\ s.site = site /\ x.id = site /\ Target(j, p.session, x)
  BY DEF Concerned, Target, Named
<1>2. PICK t \in sessions : t.id = s.id /\ t.site = s.site
  BY <1>1, SessionsStay DEF HistoryInv, ForeignKeys
<1>3. PICK y \in sites : y.id = site
  BY <1>1, <1>2 DEF HistoryInv, ForeignKeys, Ids
<1>4. x = y
  BY <1>1, <1>3 DEF HistoryInv, Sound, SoundSites, SiteRow
<1> QED BY <1>1, <1>2, <1>3, <1>4 DEF Concerned

(* A statement of a deletion, and what it knows then of a page concerned.   *)
LEMMA OwnStatement ==
    ASSUME HistoryInv, NEW j \in Deletions, Statement(j),
           NEW p \in pages, NEW site \in Jobs, Concerned(j, p, site),
           pc[j] = "idle" \/ Captured(j, p, site)
    PROVE  Captured(j, p, site)'
<1>1. PICK s \in sessions, x \in sites :
        s.id = p.session /\ s.site = site /\ x.id = site /\ Target(j, p.session, x)
  BY DEF Concerned
<1>2. /\ pc \in [Jobs -> Phases] /\ j \in Jobs
      /\ seen \in [Jobs -> [sites : SUBSET Jobs, sessions : SUBSET Jobs]]
      /\ copy \in [Jobs -> Entry]
  BY DEF HistoryInv, LocalTypes, Deletions
<1>3. CASE LocateSites(j)
  <2> DEFINE found == {y \in sites : Named(j, y)}
  <2>1. x \in found
    BY <1>1, <1>3 DEF LocateSites, Target
  <2>2. pc'[j] = "located" /\ seen'[j].sites = Ids(found)
    BY <1>2, <1>3, <2>1 DEF LocateSites, Goto
  <2> QED BY <1>1, <2>1, <2>2 DEF Captured, Ids, HasSites, HasSessions, HasPages
<1>4. CASE LocateSession(j)
  <2>1. s \in {t \in sessions : t.id = Op[j].session}
    BY <1>1, <1>4 DEF LocateSession, Doing, Target
  <2>2. /\ pc'[j] = "resolved" /\ s.site \in seen'[j].sites /\ s.id \in seen'[j].sessions
    BY <1>2, <1>4, <2>1 DEF LocateSession, Goto, Ids
  <2> QED BY <1>1, <2>2 DEF Captured, HasSites, HasSessions, HasPages
<1>5. CASE ResolveSessions(j)
  <2>1. pc'[j] = "resolved" /\ pc[j] = "located"
    BY <1>2, <1>5 DEF ResolveSessions, Goto
  <2>2. /\ seen'[j].sites = seen[j].sites
        /\ seen'[j].sessions = Ids({t \in sessions : t.site \in seen[j].sites})
    BY <1>2, <1>5 DEF ResolveSessions
  <2> QED BY <1>1, <2>1, <2>2 DEF Captured, Ids, HasSites, HasSessions, HasPages
<1>6. CASE CopySites(j)
  <2>1. pc'[j] = "sitesCopied" /\ pc[j] = "resolved" /\ seen' = seen
    BY <1>2, <1>6 DEF CopySites, Goto
  <2>2. copy'[j].sites = {y \in sites : y.id \in seen[j].sites}
    BY <1>2, <1>6 DEF CopySites, Entry
  <2> QED BY <1>1, <2>1, <2>2 DEF Captured, Ids, HasSites, HasSessions, HasPages
<1>7. CASE CopySessions(j)
  <2>1. pc'[j] = "sessionsCopied" /\ pc[j] = "sitesCopied" /\ seen' = seen
    BY <1>2, <1>7 DEF CopySessions, Goto
  <2>2. /\ copy'[j].sites = copy[j].sites
        /\ copy'[j].sessions = {t \in sessions : t.id \in seen[j].sessions}
    BY <1>2, <1>7 DEF CopySessions, Entry
  <2> QED BY <1>1, <2>1, <2>2 DEF Captured, HasSites, HasSessions, HasPages, Ids
<1>8. CASE CopyPages(j)
  <2>1. pc'[j] = "copied" /\ pc[j] = "sessionsCopied" /\ seen' = seen
    BY <1>2, <1>8 DEF CopyPages, Goto
  <2>2. /\ copy'[j].sites = copy[j].sites /\ copy'[j].sessions = copy[j].sessions
        /\ copy'[j].pages = {q \in pages : q.session \in seen[j].sessions}
    BY <1>2, <1>8 DEF CopyPages, Entry
  <2> QED BY <2>1, <2>2 DEF Captured, HasSites, HasSessions, HasPages, Ids
<1>9. CASE Archive(j)
  <2>1. pc'[j] = "deleting" /\ pc[j] = "copied" /\ seen' = seen /\ copy' = copy
    BY <1>2, <1>9 DEF Archive, Goto
  <2> QED BY <2>1 DEF Captured, HasSites, HasSessions, HasPages
<1>10. CASE \/ Record(j) \/ LocatePages(j) \/ DeletePages(j) \/ Recount(j) \/ DropEmpty(j)
            \/ DeleteSites(j) \/ DeleteSession(j) \/ Sweep(j)
            \/ Load(j) \/ Reinsert(j) \/ Forget(j) \/ Purge(j) \/ PurgeExpired(j) \/ Fail(j)
  <2>1. pc'[j] \in {"done", "found", "deleted", "recounted", "sweeping", "loaded", "restored", "failed"}
    BY <1>2, <1>10 DEF Record, LocatePages, DeletePages, Recount, DropEmpty, DeleteSites, DeleteSession,
              Sweep, Load, Reinsert, Forget, Purge, PurgeExpired, Fail, Goto
  <2> QED BY <2>1 DEF Captured, HasSites, HasSessions, HasPages
<1> QED BY <1>3, <1>4, <1>5, <1>6, <1>7, <1>8, <1>9, <1>10 DEF Statement

(* A statement of another request leaves what a deletion has.               *)
LEMMA OtherStatement ==
    ASSUME LocalTypes, NEW i \in Jobs, NEW j \in Jobs, i # j, Statement(i)
    PROVE  pc'[j] = pc[j] /\ seen'[j] = seen[j] /\ copy'[j] = copy[j]
<1>1. pc'[j] = pc[j]
  BY DEF LocalTypes, Goto, Statement, Record, LocateSites, LocateSession, ResolveSessions, CopySites,
     CopySessions, CopyPages, Archive, DeleteSites, DeleteSession, Sweep, LocatePages, DeletePages,
     Recount, DropEmpty, Load, Reinsert, Forget, Purge, PurgeExpired, Fail
<1>2. seen'[j] = seen[j]
  BY DEF LocalTypes, Statement, Record, LocateSites, LocateSession, ResolveSessions, CopySites,
     CopySessions, CopyPages, Archive, DeleteSites, DeleteSession, Sweep, LocatePages, DeletePages,
     Recount, DropEmpty, Load, Reinsert, Forget, Purge, PurgeExpired, Fail
<1>3. copy'[j] = copy[j]
  BY DEF LocalTypes, Statement, Record, LocateSites, LocateSession, ResolveSessions, CopySites,
     CopySessions, CopyPages, Archive, DeleteSites, DeleteSession, Sweep, LocatePages, DeletePages,
     Recount, DropEmpty, Load, Reinsert, Forget, Purge, PurgeExpired, Fail
<1> QED BY <1>1, <1>2, <1>3

LEMMA CaptureInvStep == HistoryInv /\ CaptureInv /\ [Next]_vars => CaptureInv'
<1> SUFFICES ASSUME HistoryInv, CaptureInv, [Next]_vars PROVE CaptureInv'
  OBVIOUS
<1>1. CASE UNCHANGED vars
  BY <1>1 DEF vars, CaptureInv, Concerned, Captured, Target, Named, Ids
<1>2. CASE Next
  <2>1. HistoryInv'
    BY HistoryInvStep
  <2>2. PICK i \in Jobs : Statement(i) /\ Observe
    BY <1>2 DEF Next
  <2> SUFFICES ASSUME NEW j \in Deletions, NEW p \in lasting'[j]
               PROVE  /\ p \in pages'
                      /\ \A site \in Jobs : Concerned(j, p, site)' => Captured(j, p, site)'
    BY DEF CaptureInv
  <2>3. /\ p \in pages' /\ pc'[j] # "idle"
        /\ pc[j] = "idle" \/ p \in lasting[j]
    BY <2>2 DEF Observe
  <2>4. CASE pc[j] = "idle"
    <3>1. i = j
      BY <2>2, <2>3, <2>4, OtherStatement DEF HistoryInv, Deletions
    <3>2. LocateSites(j) \/ LocateSession(j) \/ Fail(j)
      BY <2>2, <2>4, <3>1 DEF Deletions, Statement, Record, ResolveSessions, CopySites, CopySessions,
         CopyPages, Archive, DeleteSites, DeleteSession, Sweep, LocatePages, DeletePages, Recount,
         DropEmpty, Load, Reinsert, Forget, Purge, PurgeExpired, Doing
    <3>3. pages' = pages
      BY <3>2 DEF LocateSites, LocateSession, Fail, db
    <3> QED BY <1>2, <2>1, <2>2, <2>3, <2>4, <3>1, <3>3, NotMoreConcerned, OwnStatement
  <2>5. CASE pc[j] # "idle"
    <3>1. p \in lasting[j] /\ p \in pages
      BY <2>3, <2>5 DEF CaptureInv
    <3> SUFFICES ASSUME NEW site \in Jobs, Concerned(j, p, site)' PROVE Captured(j, p, site)'
      BY <2>3
    <3>2. Concerned(j, p, site) /\ Captured(j, p, site)
      BY <1>2, <2>1, <3>1, NotMoreConcerned DEF CaptureInv
    <3>3. CASE i = j
      BY <2>2, <3>1, <3>2, <3>3, OwnStatement
    <3>4. CASE i # j
      <4>1. pc'[j] = pc[j] /\ seen'[j] = seen[j] /\ copy'[j] = copy[j]
        BY <2>2, <3>4, OtherStatement DEF HistoryInv, Deletions
      <4> QED BY <3>2, <4>1 DEF Captured
    <3> QED BY <3>3, <3>4
  <2> QED BY <2>4, <2>5
<1> QED BY <1>1, <1>2

(* Only the DELETE of a deletion takes it from "deleting" to an end.        *)
LEMMA DeletesByDelete ==
    ASSUME LocalTypes, NEW j \in Deletions, Next, Deletes(j)
    PROVE  DeleteSites(j) \/ DeleteSession(j)
<1>1. PICK i \in Jobs : Statement(i)
  BY DEF Next
<1>2. i = j
  BY <1>1, OtherStatement DEF Deletes, Deletions
<1>3. ~ (\/ Record(j) \/ LocateSites(j) \/ LocateSession(j) \/ ResolveSessions(j)
         \/ CopySites(j) \/ CopySessions(j) \/ CopyPages(j) \/ Archive(j) \/ Sweep(j)
         \/ LocatePages(j) \/ DeletePages(j) \/ Recount(j) \/ DropEmpty(j)
         \/ Load(j) \/ Reinsert(j) \/ Forget(j) \/ Purge(j) \/ PurgeExpired(j))
  BY DEF Deletes, Record, LocateSites, LocateSession, ResolveSessions, CopySites, CopySessions,
         CopyPages, Archive, Sweep, LocatePages, DeletePages, Recount, DropEmpty, Load, Reinsert,
         Forget, Purge, PurgeExpired, Doing
<1>4. ~ Fail(j)
  BY DEF Fail, Goto, Deletes, LocalTypes
<1> QED BY <1>1, <1>2, <1>3, <1>4 DEF Statement

(* What the DELETE removes is concerned by the deletion.                    *)
LEMMA DeletedConcerned ==
    ASSUME HistoryInv, NEW j \in Deletions, DeleteSites(j) \/ DeleteSession(j),
           NEW p \in pages, p \notin pages'
    PROVE  \E site \in Jobs : Concerned(j, p, site)
<1>1. PICK s \in sessions : s.id = p.session
  BY DEF HistoryInv, ForeignKeys, Ids
<1>2. PICK x \in sites : x.id = s.site
  BY DEF HistoryInv, ForeignKeys, Ids
<1>3. x.id \in Jobs
  BY DEF HistoryInv, Sound, SoundSites, SiteRow
<1>4. CASE DeleteSites(j)
  <2>1. Named(j, x)
    BY <1>1, <1>2, <1>4 DEF DeleteSites, KeepSites, KeepSessions, Ids
  <2> QED BY <1>1, <1>2, <1>3, <1>4, <2>1 DEF DeleteSites, Concerned, Target
<1>5. CASE DeleteSession(j)
  <2>1. s.id = Op[j].session
    BY <1>1, <1>5 DEF DeleteSession, KeepSessions, Ids
  <2> QED BY <1>1, <1>2, <1>3, <1>5, <2>1 DEF DeleteSession, Doing, Concerned, Target
<1> QED BY <1>4, <1>5

(* Whatever the others do between its statements, a deletion has copied all *)
(* it deletes of what was live since it began, session and site with it     *)
(* (ScanTrashService.archiver and resoudre, ScansService.deleteSession).    *)
THEOREM HistoryCaptureComplete == Spec => CaptureComplete
<1> DEFINE Complete(j) ==
        \A p \in lasting[j] \ pages' :
            /\ p \in copy[j].pages
            /\ \E s \in copy[j].sessions : s.id = p.session /\ s.site \in Ids(copy[j].sites)
<1>1. ASSUME HistoryInv, CaptureInv, Next, NEW j \in Deletions, Deletes(j) PROVE Complete(j)
  <2> SUFFICES ASSUME NEW p \in lasting[j], p \notin pages'
               PROVE  /\ p \in copy[j].pages
                      /\ \E s \in copy[j].sessions : s.id = p.session /\ s.site \in Ids(copy[j].sites)
    OBVIOUS
  <2>1. p \in pages
    BY <1>1 DEF CaptureInv
  <2>2. PICK site \in Jobs : Concerned(j, p, site)
    BY <1>1, <2>1, DeletesByDelete, DeletedConcerned DEF HistoryInv
  <2>3. Captured(j, p, site)
    BY <1>1, <2>2 DEF CaptureInv
  <2> QED BY <1>1, <2>3 DEF Deletes, Captured, HasSites, HasSessions, HasPages
<1>2. HistoryInv /\ CaptureInv /\ [Next]_vars => [\A j \in Deletions : Deletes(j) => Complete(j)]_vars
  BY <1>1
<1>3. Init => CaptureInv
  BY DEF Init, CaptureInv
<1> QED BY <1>2, <1>3, CaptureInvStep, HistoryInvariant, PTL DEF Spec, CaptureComplete

-----------------------------------------------------------------------------
(* The requests that do not make the step stay where they are.              *)
LEMMA OthersStay ==
    ASSUME HistoryInv, NEW j \in Jobs, Statement(j)
    PROVE  \A k \in Jobs : k # j => pc'[k] = pc[k] /\ seen'[k] = seen[k]
<1>1. \E phase \in Phases : Goto(j, phase)
  BY DEF Statement, Record, LocateSites, LocateSession, ResolveSessions, CopySites, CopySessions,
         CopyPages, Archive, DeleteSites, DeleteSession, Sweep, LocatePages, DeletePages, Recount,
         DropEmpty, Load, Reinsert, Forget, Purge, PurgeExpired, Fail, Phases
<1>2. seen' = seen \/ \E v : seen' = [seen EXCEPT ![j] = v]
  BY DEF Statement, Record, LocateSites, LocateSession, ResolveSessions, CopySites, CopySessions,
         CopyPages, Archive, DeleteSites, DeleteSession, Sweep, LocatePages, DeletePages, Recount,
         DropEmpty, Load, Reinsert, Forget, Purge, PurgeExpired, Fail
<1> QED BY <1>1, <1>2 DEF HistoryInv, LocalTypes, Goto

(* A site without a session is due to a restore, or some request still owes *)
(* the sweep, or has failed before it.                                      *)
Sweeping == {"sweeping", "failed"}
GhostInv == \A x \in sites :
    \/ x.id \in back.sites
    \/ \E s \in sessions : s.site = x.id
    \/ \E j \in Jobs : pc[j] \in Sweeping

(* A step of another phase that takes no session from a site that stays.    *)
LEMMA GhostKept ==
    ASSUME GhostInv, NEW j \in Jobs, pc[j] \notin Sweeping,
           \A k \in Jobs : k # j => pc'[k] = pc[k],
           back' = back, sites' \subseteq sites,
           \A s \in sessions : s.site \in Ids(sites') => \E t \in sessions' : t.site = s.site
    PROVE  GhostInv'
<1> SUFFICES ASSUME NEW x \in sites',
                    x.id \notin back.sites, ~ \E s \in sessions' : s.site = x.id
             PROVE  \E k \in Jobs : pc'[k] \in Sweeping
  BY DEF GhostInv
<1>1. x.id \in Ids(sites')
  BY DEF Ids
<1>2. ~ \E s \in sessions : s.site = x.id
  BY <1>1
<1>3. PICK k \in Jobs : pc[k] \in Sweeping
  BY <1>2 DEF GhostInv
<1> QED BY <1>3

LEMMA GhostInvStep == HistoryInv /\ GhostInv /\ [Next]_vars => GhostInv'
<1> SUFFICES ASSUME HistoryInv, GhostInv, [Next]_vars PROVE GhostInv'
  OBVIOUS
<1>1. CASE UNCHANGED vars
  BY <1>1 DEF vars, GhostInv
<1>2. CASE Next
  <2>1. PICK j \in Jobs : Statement(j)
    BY <1>2 DEF Next
  <2>2. \A k \in Jobs : k # j => pc'[k] = pc[k]
    BY <2>1, OthersStay
  <2>3. CASE \/ LocateSites(j) \/ LocateSession(j) \/ ResolveSessions(j) \/ LocatePages(j)
             \/ CopySites(j) \/ CopySessions(j) \/ CopyPages(j) \/ Archive(j) \/ Load(j)
             \/ Forget(j) \/ Purge(j) \/ PurgeExpired(j) \/ DeletePages(j)
    <3>1. sites' = sites /\ sessions' = sessions /\ back' = back /\ pc[j] \notin Sweeping
      BY <2>3 DEF LocateSites, LocateSession, ResolveSessions, LocatePages, CopySites,
                  CopySessions, CopyPages, Archive, Load, Forget, Purge, PurgeExpired, DeletePages,
                  Doing, Sweeping, db
    <3> QED BY <2>2, <3>1, GhostKept
  <2>4. CASE DeleteSites(j)
    <3>1. /\ sites' = {s \in sites : ~Named(j, s)}
          /\ sessions' = {s \in sessions : s.site \in Ids(sites')}
          /\ back' = back /\ pc[j] \notin Sweeping
      BY <2>4 DEF DeleteSites, KeepSites, KeepSessions, Sweeping
    <3> QED BY <2>2, <3>1, GhostKept
  <2>5. CASE Recount(j)
    <3>1. sites' = sites /\ back' = back /\ pc[j] \notin Sweeping
      BY <2>5 DEF Recount, Sweeping
    <3>2. \A s \in sessions : \E t \in sessions' : t.site = s.site
      <4> DEFINE stale(s) == s.id \in seen[j].sessions /\ PagesOf(s.id, pages) # {}
                 new(s) == IF stale(s)
                           THEN [s EXCEPT !.count = Cardinality(PagesOf(s.id, pages))] ELSE s
      <4>1. sessions' = {new(s) : s \in sessions}
        BY <2>5 DEF Recount
      <4>2. \A s \in sessions : new(s).site = s.site
        BY DEF HistoryInv, Sound, SoundSessions, SessionRow
      <4> HIDE DEF new
      <4> QED BY <4>1, <4>2
    <3> QED BY <2>2, <3>1, <3>2, GhostKept
  <2>6. CASE DeleteSession(j) \/ DropEmpty(j) \/ Fail(j)
    <3>1. pc'[j] \in Sweeping
      BY <2>6 DEF DeleteSession, DropEmpty, Fail, Goto, Sweeping, HistoryInv, LocalTypes
    <3> QED BY <3>1 DEF GhostInv
  <2>7. CASE Sweep(j)
    BY <2>7 DEF Sweep, GhostInv
  <2>8. CASE Record(j)
    <3>1. PICK home : /\ sites' = sites \union {home}
                      /\ sessions' = sessions \union
                            {[id |-> j, site |-> home.id, count |-> Cardinality(Op[j].pages)]}
                      /\ back' = back /\ pc[j] \notin Sweeping
      BY <2>8 DEF Record, Doing, Sweeping
    <3> DEFINE new == [id |-> j, site |-> home.id, count |-> Cardinality(Op[j].pages)]
    <3>2. new.site = home.id /\ new \in sessions'
      BY <3>1
    <3> QED BY <2>2, <3>1, <3>2 DEF GhostInv
  <2>9. CASE Reinsert(j)
    <3>1. /\ sites' = sites \union BackSites(copy[j]) /\ sessions \subseteq sessions'
          /\ back'.sites = back.sites \union Ids(BackSites(copy[j]))
          /\ pc[j] \notin Sweeping
      BY <2>9, ReinsertWrites DEF Reinsert, BackSites, Sweeping
    <3>2. \A x \in BackSites(copy[j]) : x.id \in back'.sites
      BY <3>1 DEF Ids
    <3> QED BY <2>2, <3>1, <3>2 DEF GhostInv
  <2> QED BY <2>1, <2>3, <2>4, <2>5, <2>6, <2>7, <2>8, <2>9 DEF Statement
<1> QED BY <1>1, <1>2

(* A site that has no session left is swept by the request that took the    *)
(* last one, whatever the others do meanwhile, unless it fails first.       *)
THEOREM HistoryNoGhostSite == Spec => []NoGhostSite
<1>1. Init => GhostInv
  BY DEF Init, GhostInv
<1>2. GhostInv => NoGhostSite
  BY DEF GhostInv, NoGhostSite, AtRest, Sweeping
<1> QED BY <1>1, <1>2, HistoryInvariant, GhostInvStep, PTL DEF Spec

-----------------------------------------------------------------------------
(* A request that has deleted pages owes the sessions it has seen a new     *)
(* count, and owes the deletion of those that have no page left.            *)
Owes(j, s) ==
    \/ pc[j] = "failed"
    \/ /\ s.id \in seen[j].sessions
       /\ \/ pc[j] = "deleted"
          \/ pc[j] = "recounted" /\ PagesOf(s.id, pages) = {}
CountInv == \A s \in sessions :
    \/ s.count = Cardinality(PagesOf(s.id, pages))
    \/ s.id \in back.sessions
    \/ \E j \in Jobs : Owes(j, s)

(* The pages a request is about to delete belong to sessions it has seen: a *)
(* page is of one recording, and what came back since is known as such.     *)
FoundInv == \A j \in Jobs : pc[j] = "found" =>
    /\ \A id \in Op[j].pages : \E r \in Recordings : id \in Op[r].pages /\ pc[r] = "done"
    /\ \A p \in pages : p.id \in Op[j].pages =>
           p.session \in seen[j].sessions \union back.sessions

(* A step that leaves the rows of the sessions that stay, and their pages.  *)
LEMMA CountKept ==
    ASSUME CountInv, NEW j \in Jobs, pc[j] \notin {"deleted", "recounted", "failed"},
           \A k \in Jobs : k # j => pc'[k] = pc[k] /\ seen'[k] = seen[k],
           back' = back, sessions' \subseteq sessions,
           \A s \in sessions' : PagesOf(s.id, pages') = PagesOf(s.id, pages)
    PROVE  CountInv'
<1> SUFFICES ASSUME NEW s \in sessions', s.count # Cardinality(PagesOf(s.id, pages)),
                    s.id \notin back.sessions
             PROVE  \E k \in Jobs : Owes(k, s)'
  BY DEF CountInv
<1>1. PICK k \in Jobs : Owes(k, s)
  BY DEF CountInv
<1>2. k # j
  BY <1>1 DEF Owes
<1> QED BY <1>1, <1>2 DEF Owes

LEMMA FoundKept ==
    ASSUME HistoryInv, FoundInv, NEW j \in Jobs, NEW phase \in Phases, Goto(j, phase),
           phase # "found",
           \A k \in Jobs : k # j => pc'[k] = pc[k] /\ seen'[k] = seen[k],
           pc[j] # "done", back.sessions \subseteq back'.sessions,
           \A p \in pages' \ pages : p.session \in back'.sessions
    PROVE  FoundInv'
<1> SUFFICES ASSUME NEW k \in Jobs, pc'[k] = "found"
             PROVE  /\ \A id \in Op[k].pages :
                           \E r \in Recordings : id \in Op[r].pages /\ pc'[r] = "done"
                    /\ \A p \in pages' : p.id \in Op[k].pages =>
                           p.session \in seen'[k].sessions \union back'.sessions
  BY DEF FoundInv
<1>1. k # j
  BY DEF Goto, HistoryInv, LocalTypes
<1>2. pc[k] = "found" /\ seen'[k] = seen[k]
  BY <1>1
<1>3. \A r \in Recordings : pc[r] = "done" => pc'[r] = "done"
  BY DEF Recordings
<1> QED BY <1>2, <1>3 DEF FoundInv

LEMMA PagesRecorded ==
    ASSUME NEW j \in Recordings
    PROVE  LET new == [id : Op[j].pages, session : {j}]
           IN  PagesOf(j, new) = new /\ Cardinality(new) = Cardinality(Op[j].pages)
<1> DEFINE new == [id : Op[j].pages, session : {j}]
           f == [i \in Op[j].pages |-> [id |-> i, session |-> j]]
<1>1. f \in Bijection(Op[j].pages, new)
  <2>1. f \in [Op[j].pages -> new]
    OBVIOUS
  <2>2. \A a, b \in Op[j].pages : f[a] = f[b] => a = b
    OBVIOUS
  <2>3. \A p \in new : \E i \in Op[j].pages : f[i] = p
    OBVIOUS
  <2> HIDE DEF f, new
  <2> QED BY <2>1, <2>2, <2>3 DEF Bijection, Injection, IsInjective, Surjection
<1>2. ExistsBijection(Op[j].pages, new)
  BY <1>1 DEF ExistsBijection
<1>3. IsFiniteSet(Op[j].pages)
  BY HistoryAssumption
<1>4. PagesOf(j, new) = new
  BY DEF PagesOf
<1> QED BY <1>2, <1>3, <1>4, FS_Bijection

CountsInv == HistoryInv /\ CountInv /\ FoundInv

(* Recording: a new session, with its pages.                                *)
LEMMA RecordCounts ==
    ASSUME CountsInv, NEW j \in Jobs, Record(j),
           \A k \in Jobs : k # j => pc'[k] = pc[k] /\ seen'[k] = seen[k]
    PROVE  CountInv' /\ FoundInv'
<1> DEFINE newPages == [id : Op[j].pages, session : {j}]
<1>1. PICK site : /\ sessions' = sessions \union
                         {[id |-> j, site |-> site, count |-> Cardinality(Op[j].pages)]}
                  /\ pages' = pages \union newPages /\ back' = back
                  /\ pc[j] = "idle" /\ j \in Recordings /\ Goto(j, "done")
  BY DEF Record, Doing, Recordings
<1> DEFINE new == [id |-> j, site |-> site, count |-> Cardinality(Op[j].pages)]
<1>2. (\A s \in sessions : s.id # j) /\ (\A p \in pages : p.session # j)
  BY <1>1 DEF CountsInv, HistoryInv, Sound, SoundSessions, SoundPages, Done
<1>3. \A s \in sessions : PagesOf(s.id, pages') = PagesOf(s.id, pages)
  BY <1>1, <1>2 DEF PagesOf
<1>4. PagesOf(j, pages') = newPages /\ Cardinality(newPages) = Cardinality(Op[j].pages)
  <2>1. PagesOf(j, newPages) = newPages /\ Cardinality(newPages) = Cardinality(Op[j].pages)
    BY <1>1, PagesRecorded
  <2>2. PagesOf(j, pages') = PagesOf(j, newPages)
    BY <1>1, <1>2 DEF PagesOf
  <2> QED BY <2>1, <2>2
<1>5. CountInv'
  <2> SUFFICES ASSUME NEW s \in sessions', s.count # Cardinality(PagesOf(s.id, pages')),
                      s.id \notin back.sessions
               PROVE  \E k \in Jobs : Owes(k, s)'
    BY <1>1 DEF CountInv
  <2>0. /\ new.id = j /\ new.count = Cardinality(Op[j].pages)
        /\ sessions' = sessions \union {new}
    BY <1>1
  <2> HIDE DEF new, newPages
  <2>1. s # new
    BY <1>4, <2>0
  <2>2. s \in sessions
    BY <2>0, <2>1
  <2>3. PICK k \in Jobs : Owes(k, s)
    BY <1>3, <2>2 DEF CountsInv, CountInv
  <2>4. k # j
    BY <1>1, <2>3 DEF Owes
  <2> QED BY <1>3, <2>2, <2>3, <2>4 DEF Owes
<1>6. FoundInv'
  <2> SUFFICES ASSUME NEW k \in Jobs, pc'[k] = "found"
               PROVE  /\ \A id \in Op[k].pages :
                             \E r \in Recordings : id \in Op[r].pages /\ pc'[r] = "done"
                      /\ \A p \in pages' : p.id \in Op[k].pages =>
                             p.session \in seen'[k].sessions \union back'.sessions
    BY DEF FoundInv
  <2>1. k # j
    BY <1>1 DEF Goto, CountsInv, HistoryInv, LocalTypes
  <2>2. pc[k] = "found" /\ seen'[k] = seen[k]
    BY <2>1
  <2>3. \A r \in Recordings : pc[r] = "done" => pc'[r] = "done" /\ r # j
    BY <1>1 DEF Recordings
  <2>4. \A p \in newPages : p.id \notin Op[k].pages
    BY <1>1, <2>2, <2>3, HistoryAssumption DEF CountsInv, FoundInv
  <2> QED BY <1>1, <2>2, <2>3, <2>4 DEF CountsInv, FoundInv
<1> QED BY <1>5, <1>6

(* Restoring: what comes back is known to have come back, and no live       *)
(* session gets a page.                                                     *)
LEMMA ReinsertCounts ==
    ASSUME CountsInv, NEW j \in Jobs, Reinsert(j),
           \A k \in Jobs : k # j => pc'[k] = pc[k] /\ seen'[k] = seen[k]
    PROVE  CountInv' /\ FoundInv'
<1> DEFINE e == copy[j]
<1>1. /\ sessions' = sessions \union BackSessions(e) /\ pages' = pages \union BackPages(e)
      /\ back'.sessions = back.sessions \union Ids(BackSessions(e))
      /\ pc[j] = "loaded" /\ Goto(j, "restored")
  BY ReinsertWrites DEF Reinsert, BackSessions, BackSession
<1>2. \A s \in BackSessions(e) : s.id \in back'.sessions /\ s.id \notin Ids(sessions)
  <2>1. SoundSites(Done, sites) /\ e \in Entry
    BY DEF CountsInv, HistoryInv, LocalTypes, Sound
  <2> QED BY <1>1, <2>1, PutBack DEF BackSessions, Ids
<1>3. \A p \in BackPages(e) : p.session \in back'.sessions /\ p.session \notin Ids(sessions)
  BY <1>1, <1>2 DEF BackPages, Ids
<1>4. \A s \in sessions : PagesOf(s.id, pages') = PagesOf(s.id, pages)
  BY <1>1, <1>3 DEF PagesOf, Ids
<1>5. CountInv'
  <2> SUFFICES ASSUME NEW s \in sessions', s.count # Cardinality(PagesOf(s.id, pages')),
                      s.id \notin back'.sessions
               PROVE  \E k \in Jobs : Owes(k, s)'
    BY DEF CountInv
  <2>1. s \in sessions /\ s.id \notin back.sessions
    BY <1>1, <1>2
  <2>2. PICK k \in Jobs : Owes(k, s)
    BY <1>4, <2>1 DEF CountsInv, CountInv
  <2>3. k # j
    BY <1>1, <2>2 DEF Owes
  <2> QED BY <1>4, <2>1, <2>2, <2>3 DEF Owes
<1>6. FoundInv'
  <2>1. "restored" \in Phases /\ pc[j] # "done"
    BY <1>1 DEF Phases
  <2> QED BY <1>1, <1>3, <2>1, FoundKept DEF CountsInv
<1> QED BY <1>5, <1>6

LEMMA DeletePagesCounts ==
    ASSUME CountsInv, NEW j \in Jobs, DeletePages(j),
           \A k \in Jobs : k # j => pc'[k] = pc[k] /\ seen'[k] = seen[k]
    PROVE  CountInv' /\ FoundInv'
<1> DEFINE gone == {p \in pages : p.id \in Op[j].pages}
<1>1. /\ pages' = pages \ gone /\ sessions' = sessions /\ back' = back /\ pc[j] = "found"
      /\ seen' = seen /\ Goto(j, IF gone = {} THEN "done" ELSE "deleted")
  BY DEF DeletePages
<1>2. pc'[j] = IF gone = {} THEN "done" ELSE "deleted"
  BY <1>1 DEF Goto, CountsInv, HistoryInv, LocalTypes
<1>3. CountInv'
  <2> SUFFICES ASSUME NEW s \in sessions, s.count # Cardinality(PagesOf(s.id, pages')),
                      s.id \notin back.sessions
               PROVE  \E k \in Jobs : Owes(k, s)'
    BY <1>1 DEF CountInv
  <2>1. CASE \E p \in gone : p.session = s.id
    <3>1. s.id \in seen[j].sessions /\ gone # {}
      BY <1>1, <2>1 DEF CountsInv, FoundInv
    <3> QED BY <1>1, <1>2, <3>1 DEF Owes
  <2>2. CASE ~ \E p \in gone : p.session = s.id
    <3>1. PagesOf(s.id, pages') = PagesOf(s.id, pages)
      BY <1>1, <2>2 DEF PagesOf
    <3>2. PICK k \in Jobs : Owes(k, s)
      BY <3>1 DEF CountsInv, CountInv
    <3>3. k # j
      BY <1>1, <3>2 DEF Owes
    <3> QED BY <3>1, <3>2, <3>3 DEF Owes
  <2> QED BY <2>1, <2>2
<1>4. FoundInv'
  <2>1. PICK phase \in Phases : Goto(j, phase) /\ phase # "found"
    BY <1>1 DEF Phases
  <2> QED BY <1>1, <2>1, FoundKept DEF CountsInv
<1> QED BY <1>3, <1>4

LEMMA RecountCounts ==
    ASSUME CountsInv, NEW j \in Jobs, Recount(j),
           \A k \in Jobs : k # j => pc'[k] = pc[k] /\ seen'[k] = seen[k]
    PROVE  CountInv' /\ FoundInv'
<1> DEFINE stale(s) == s.id \in seen[j].sessions /\ PagesOf(s.id, pages) # {}
           recounted(s) == [s EXCEPT !.count = Cardinality(PagesOf(s.id, pages))]
           new(s) == IF stale(s) THEN recounted(s) ELSE s
<1>1. /\ sessions' = {new(s) : s \in sessions} /\ pages' = pages /\ back' = back /\ seen' = seen
      /\ pc[j] = "deleted" /\ Goto(j, "recounted") /\ pc'[j] = "recounted"
  BY DEF Recount, Goto, CountsInv, HistoryInv, LocalTypes
<1>2. \A s \in sessions : recounted(s).id = s.id
                          /\ recounted(s).count = Cardinality(PagesOf(s.id, pages))
  BY DEF CountsInv, HistoryInv, Sound, SoundSessions, SessionRow
<1> HIDE DEF recounted
<1>3. CountInv'
  <2> SUFFICES ASSUME NEW t \in sessions', t.count # Cardinality(PagesOf(t.id, pages')),
                      t.id \notin back'.sessions
               PROVE  \E k \in Jobs : Owes(k, t)'
    BY DEF CountInv
  <2>0. PICK s \in sessions : t = new(s)
    BY <1>1
  <2>1. ~stale(s) /\ t = s
    BY <1>1, <1>2, <2>0
  <2> HIDE DEF new
  <2>2. PICK k \in Jobs : Owes(k, s)
    BY <1>1, <2>1 DEF CountsInv, CountInv
  <2>3. CASE k = j
    BY <1>1, <2>1, <2>2, <2>3 DEF Owes
  <2>4. CASE k # j
    BY <1>1, <2>1, <2>2, <2>4 DEF Owes
  <2> QED BY <2>3, <2>4
<1>4. FoundInv'
  <2>1. "recounted" \in Phases /\ pc[j] # "done"
    BY <1>1 DEF Phases
  <2> QED BY <1>1, <2>1, FoundKept DEF CountsInv
<1> QED BY <1>3, <1>4

LEMMA DropEmptyCounts ==
    ASSUME CountsInv, NEW j \in Jobs, DropEmpty(j),
           \A k \in Jobs : k # j => pc'[k] = pc[k] /\ seen'[k] = seen[k]
    PROVE  CountInv' /\ FoundInv'
<1>1. /\ sessions' = {s \in sessions : s.id \in seen[j].sessions => PagesOf(s.id, pages) # {}}
      /\ pages' = pages /\ back' = back /\ pc[j] = "recounted" /\ Goto(j, "sweeping")
  BY DEF DropEmpty
<1>2. CountInv'
  <2> SUFFICES ASSUME NEW s \in sessions', s.count # Cardinality(PagesOf(s.id, pages)),
                      s.id \notin back.sessions
               PROVE  \E k \in Jobs : Owes(k, s)'
    BY <1>1 DEF CountInv
  <2>1. PICK k \in Jobs : Owes(k, s)
    BY <1>1 DEF CountsInv, CountInv
  <2>2. k # j
    BY <1>1, <2>1 DEF Owes
  <2> QED BY <1>1, <2>1, <2>2 DEF Owes
<1>3. FoundInv'
  <2>1. "sweeping" \in Phases /\ pc[j] # "done"
    BY <1>1 DEF Phases
  <2> QED BY <1>1, <2>1, FoundKept DEF CountsInv
<1> QED BY <1>2, <1>3

LEMMA CountsInvStep == CountsInv /\ [Next]_vars => CountInv' /\ FoundInv'
<1> SUFFICES ASSUME CountsInv, [Next]_vars PROVE CountInv' /\ FoundInv'
  OBVIOUS
<1>1. CASE UNCHANGED vars
  BY <1>1 DEF vars, CountsInv, CountInv, FoundInv, Owes
<1>2. CASE Next
  <2>1. PICK j \in Jobs : Statement(j)
    BY <1>2 DEF Next
  <2>2. \A k \in Jobs : k # j => pc'[k] = pc[k] /\ seen'[k] = seen[k]
    BY <2>1, OthersStay DEF CountsInv
  <2>3. CASE \/ LocateSites(j) \/ LocateSession(j) \/ ResolveSessions(j)
             \/ CopySites(j) \/ CopySessions(j) \/ CopyPages(j) \/ Archive(j) \/ Load(j)
             \/ Forget(j) \/ Purge(j) \/ PurgeExpired(j) \/ Sweep(j)
    <3>1. /\ sessions' = sessions /\ pages' = pages /\ back' = back
          /\ pc[j] \notin {"deleted", "recounted", "failed"}
      BY <2>3 DEF LocateSites, LocateSession, ResolveSessions, CopySites, CopySessions, CopyPages,
                  Archive, Load, Forget, Purge, PurgeExpired, Sweep, Doing, db
    <3>2. PICK phase \in Phases : Goto(j, phase) /\ phase # "found" /\ pc[j] # "done"
      BY <2>3 DEF LocateSites, LocateSession, ResolveSessions, CopySites, CopySessions, CopyPages,
                  Archive, Load, Forget, Purge, PurgeExpired, Sweep, Doing, Phases
    <3>3. CountInv'
      BY <2>2, <3>1, CountKept DEF CountsInv
    <3>4. FoundInv'
      BY <2>2, <3>1, <3>2, FoundKept DEF CountsInv
    <3> QED BY <3>3, <3>4
  <2>4. CASE DeleteSites(j) \/ DeleteSession(j)
    <3>1. /\ sessions' \subseteq sessions
          /\ pages' = {p \in pages : p.session \in Ids(sessions')}
          /\ back' = back /\ pc[j] = "deleting"
      BY <2>4 DEF DeleteSites, DeleteSession, KeepSites, KeepSessions, Doing
    <3>2. \A s \in sessions' : PagesOf(s.id, pages') = PagesOf(s.id, pages)
      BY <3>1 DEF PagesOf, Ids
    <3>3. PICK phase \in Phases : Goto(j, phase) /\ phase # "found"
      BY <2>4 DEF DeleteSites, DeleteSession, Phases
    <3>4. CountInv'
      BY <2>2, <3>1, <3>2, CountKept DEF CountsInv
    <3>5. FoundInv'
      BY <2>2, <3>1, <3>3, FoundKept DEF CountsInv
    <3> QED BY <3>4, <3>5
  <2>5. CASE LocatePages(j)
    <3>1. /\ sessions' = sessions /\ pages' = pages /\ back' = back /\ pc[j] = "idle"
          /\ Goto(j, "found") /\ pc'[j] = "found"
          /\ \A id \in Op[j].pages : \E r \in Recordings : id \in Op[r].pages /\ pc[r] = "done"
          /\ seen'[j].sessions = {p.session : p \in {q \in pages : q.id \in Op[j].pages}}
      BY <2>5 DEF LocatePages, Doing, db, Goto, CountsInv, HistoryInv, LocalTypes
    <3>2. CountInv'
      BY <2>2, <3>1, CountKept DEF CountsInv
    <3>3. \A r \in Recordings : pc[r] = "done" => pc'[r] = "done"
      BY <2>2, <3>1 DEF Recordings
    <3>4. FoundInv'
      <4> SUFFICES ASSUME NEW k \in Jobs, pc'[k] = "found"
                   PROVE  /\ \A id \in Op[k].pages :
                                 \E r \in Recordings : id \in Op[r].pages /\ pc'[r] = "done"
                          /\ \A p \in pages' : p.id \in Op[k].pages =>
                                 p.session \in seen'[k].sessions \union back'.sessions
        BY DEF FoundInv
      <4>1. CASE k = j
        BY <3>1, <3>3, <4>1
      <4>2. CASE k # j
        BY <2>2, <3>1, <3>3, <4>2 DEF CountsInv, FoundInv
      <4> QED BY <4>1, <4>2
    <3> QED BY <3>2, <3>4
  <2>6. CASE Fail(j)
    <3>1. /\ pages' = pages /\ back' = back /\ Goto(j, "failed") /\ "failed" \in Phases
          /\ pc[j] # "done" /\ pc'[j] = "failed"
      BY <2>6 DEF Fail, db, Goto, Phases, CountsInv, HistoryInv, LocalTypes
    <3>2. CountInv'
      BY <3>1 DEF CountInv, Owes
    <3> QED BY <2>2, <3>1, <3>2, FoundKept DEF CountsInv
  <2>7. CASE Record(j)
    BY <2>2, <2>7, RecordCounts
  <2>8. CASE Reinsert(j)
    BY <2>2, <2>8, ReinsertCounts
  <2>9. CASE DeletePages(j)
    BY <2>2, <2>9, DeletePagesCounts
  <2>10. CASE Recount(j)
    BY <2>2, <2>10, RecountCounts
  <2>11. CASE DropEmpty(j)
    BY <2>2, <2>11, DropEmptyCounts
  <2> QED BY <2>1, <2>3, <2>4, <2>5, <2>6, <2>7, <2>8, <2>9, <2>10, <2>11 DEF Statement
<1> QED BY <1>1, <1>2

(* Deletions of pages that overlap leave the counts right, for any pages,   *)
(* sessions and number of requests, once all have ended and none failed.    *)
THEOREM HistoryCountsAgree == Spec => []CountsAgree
<1>1. Init => CountInv /\ FoundInv
  BY DEF Init, CountInv, FoundInv
<1>2. CountInv => CountsAgree
  BY DEF CountInv, CountsAgree, AtRest, Owes
<1>3. HistoryInv /\ CountInv /\ FoundInv /\ [Next]_vars => CountInv' /\ FoundInv'
  BY CountsInvStep DEF CountsInv
<1> QED BY <1>1, <1>2, <1>3, HistoryInvariant, HistoryInvStep, PTL DEF Spec
=============================================================================
