# A TLA+ model of WebSentry

WebSentry audits web pages. A request names a page, or a batch of pages; the API
fetches each page, runs twenty-nine criteria ("analysers") over it, in a worker
thread when it can, streams the progress to the browser, and keeps the reports in a
history. Around that core stand accounts and sessions, permissions, settings
profiles, the history with its trash, an internal messaging system, feedback, and a
web client that reads all of it.

This directory holds TLA+ modules that model the parts of the system whose
correctness depends on the order in which things happen, or on arithmetic that is
easy to get wrong; TLC configurations that check them on small instances; and
theorems about them with TLAPS proofs. `PROJECT.json` maps each definition to the
lines of source it stands for, and lists runs, mutants, findings, hazards and
theorems.

Paths below are relative to `src/apps/api/src/` unless they begin with `apps/` or
`packages/`, which are under `src/`.

    tlc -config MCProbeEngine.cfg MCProbeEngine      checks an instance
    tlapm Probe_proofs.tla                           checks the proofs

Contents: 1. Inventory. 2. Plan. 3. The modules. 4. The runs. 5. The proofs.
6. Notes on the code. 7. Not modelled.

## 1. Inventory

| Component | State | Operations | Who it talks to | What is hard |
|---|---|---|---|---|
| Probe engine, `analysis/probe-engine.ts` | two caches, two in-flight tables, the gate (counter and waiting list); all shared by the process | `resolve`, `text`, `Gate.run` | called by every analysis of the process, through budgets or through the probe channel | interleaved calls on shared tables across awaits; expiry; eviction; wake-ups |
| Request budget, `analysis/network-probe.ts` | the ceiling of one analysis, one quota per criterion | `check`, `checkMany`, `fetchText` | called by analysers, calls the engine | units taken before an await and given back after it, at two levels; a pool of workers over one index |
| Runner, channel, thread: `analysis/analysis-runner.service.ts`, `probe-rpc.ts`, `analysis.worker.ts`, `orchestrator.ts` | the pool and its failure flag; pending requests by id, on the thread's side; progress count | `run`, `runWithProgress`, `ask`, replies, close | main process and threads, over two message channels and the outcome of a task | real concurrency; a thread that dies; channels closed under pending requests; a fallback that starts the analysis again |
| Analysis API, `analysis/analysis.controller.ts`, `analysis.service.ts`, `sse-writer.ts` | per request: queue, results, reports; whether the client is still there | `analyze`, `stream`, `batch`, `batchStream` | the runner, the history, the browser | completion order; failing pages; a client that leaves; one session for many pages |
| Criteria, `analysis/analyzers/`, `analysis/anchor-text.*` | none | one pure function each | their view of the probe | twenty scales written by hand |
| Styles, `analysis/css/`, `analyzers/contrast.analyzer.ts` | the parsed sheets a process remembers | fetch, parse, cascade, resolve, audit | the network | a memory shared by pages; the cascade as one comparison of seven numbers |
| Scores and rules, `orchestrator.ts`, `verdict.ts`, `page-rules.ts`, `packages/shared/src` | none | weighting, polarity, verdict, comparison | | boundaries, rounding, missing weights |
| Page fetcher, sitemap, SSRF policy | DNS and agent caches | `fetchPage`, `safeFetch`, `detect` | network | redirects; an agent evicted while in use |
| Authentication and users, `auth/`, `users/`, `rbac/` | accounts, grants, sessions, failed-login counters, token versions | `login`, `refresh`, `logout`, create, update, password, delete, grant, revoke | database, cookies | what was read in one query is used in another; several writes that are no transaction |
| Scan history, `scans/`, `database/repositories/scan*.ts` | sites, sessions, pages, trash entries, a cache of statistics | record, delete, archive, restore, purge, compress | the batch, timers | archive and delete are two steps; so are restore and removal; a stale cache |
| Settings profiles, `profiles/` | versioned settings per gamme | save, reset, delete, boot | analyses | optimistic versions, race on creation |
| Messages, `messages/` | messages, copies, attachment rows and files | send, open, archive, read all | database and files | files stored before the transaction |
| Feedback, `feedback/` | status of each item | create, triage | | read, check, write |
| Usage and audit, `usage/`, `audit/` | the journal | append, anonymise | timers | a batch loop |
| Supervision, docs, registry, settings, health, configuration | none of their own | reads | | |
| Web client, `apps/web` | the address, the lists and details shown, live runs, the session and its one rotation | gestures, calls, streams, interceptors | the API | answers in any order; a gesture during a call; shared rotations |

What makes each component correct:

* **Engine**: an address is never requested twice at the same time; an answer is
  about the address asked for and not older than its time to live; it is billed
  when, and only when, a request left for it; caches evict in the right order;
  every call is answered.
* **Budget**: units are conserved at both levels; the ceiling of an analysis is
  absolute; each address is given to one worker, once; every check ends.
* **Runner, channel, thread**: a reply reaches the analyser that asked; nobody waits
  for ever whatever dies or closes; the stream starts once, counts from one, ends
  once, and does not mix a dead attempt with the fallback.
* **Batch**: each distinct page once; what is streamed, logged and answered agree;
  a failing page, history or client does not stop the batch.
* **Criteria, scores**: the verdict follows the items; setting a defect right never
  costs; two scans compared say the same read in either direction.
* **Styles**: what is remembered from one page changes nothing on the next; what wins
  is what the cascade of CSS says; a verdict tells what it has not seen.
* **Accounts**: the guards believe a rank only as long as it is that of the account; a
  suspension leaves no session that a refresh would revive; a lock holds; an active
  administrator remains.
* **Profiles, feedback, messages**: a save overwrites what its client has read; a status
  follows its transitions; files and rows match.
* **History**: the tables keep their keys; nothing that was live when a deletion began
  is deleted without being in the trash; a restore spoils nothing that is live; counts
  of a session agree with its pages.
* **Client**: what is shown answers what was asked last; a list is what the last
  run has brought, and nothing of another; a live session is not thrown away; nothing waits for ever.

`PROJECT.json` lists the hazards of this kind met in the code, at their lines, with
the properties that cover each or the reason why none does.

## 2. Plan

The modules, in the order in which they were written, the most important behaviour
first. All of them are done.

1. `ProbeGate`, the gate alone: small, everything goes through it, and it is the
   abstract specification of the concurrency of the engine; `ProbeEngine`, which
   implements it.
2. `ProbeBudget`, the budget of an analysis over an engine that may or may not bill;
   `AnalysisStream`, one analysis between the main process and a thread;
   `AnalysisBatch`, a batch and its session in the history.
3. `ScanHistory`: record, the four deletions with their archive step, restore, purge
   and expiry of the trash.
4. `WorkerPool`, the abstract specification of the two pools of workers of the code,
   which `ProbeBudget` and `AnalysisBatch` implement.
5. The back office: `Requests`, `Accounts`, `Profiles`, `Messages`, `Feedback`, composed
   in `Backoffice`.
6. The criteria: `Scoring`, four modules of analysers, `Registry`, composed in `Criteria`.
7. The styles: `Stylesheets`, `Cascade`, `Colours`, `ContrastAudit`, composed in `Styles`.
8. The client: `AddressFilters`, `Screens`, `LiveRuns`, `HttpSession`, composed in `Client`.

Proofs were written from the smallest module up: the gate and the engine, the budget,
the history, then accounts, the rest of the back office, the runs and the session of the client,
and the probe channel; then `Sublists`, and with it the caches of the engine, the two pools of
workers, the batch and the stream; the lists of the client; last, the criteria: their
verdicts, the comparison of two scans, and what it costs to set one thing right.

What could follow, in this order: the cache of statistics and the retention beside
`ScanHistory`; `ProbeBudget` composed with `AnalysisStream`, for the ceiling of an analysis
across a failure of the pool; outgoing requests with their redirects and pinned agents;
the editors and notifications of the client.

## 3. The modules

JavaScript runs one synchronous segment at a time; a segment ends at an `await`. In
every module of the API and of the client an action is such a segment, or a statement of
the database, and any enabled one may run next.

### ProbeGate — `class Gate`

| Action | Segment |
|---|---|
| `Enter` | the call, when `active < max`: the counter goes up and the task starts |
| `Park` | the call, when the gate is full: its resolver joins `waiting` |
| `Resume` | the continuation of a woken waiter: `active += 1`, the task starts |
| `Release` | the `finally` block: `active -= 1`, and the oldest waiter is woken |

`phase` says where each call stands. The phase "woken" is the time between the
resolution of a waiter's promise and the microtask that continues it; other
microtasks run in that window. The order of microtasks is not modelled.

### ProbeEngine — `class SsrfProbeEngine`

Extends `ProbeGate`. `resolve` and `text` have the same shape and are one set of
actions over a key (kind, address). A call is answered from the cache (`Hit`), waits
for the request in flight (`Join`, then `Share`), or makes a request (`Launch`,
`WakeUp`, `RetryWithGet`, `Finish`, `Settle`). `cache` holds `resultCache` and
`textCache` as sequences in the insertion order of the code's `Map`, so that
`CacheSet` can evict as `cacheSet` does; `inFlight` holds the two in-flight tables.
`Settle` is the continuation after `await request`: it writes the cache and runs the
`finally`. Of a result the model keeps the address, the call that obtained it, when,
whether there was a status, and whether a body may be remembered. `text` keys in the
code hold the size asked for: that is another address in the model. One billed unit
may be two requests (HEAD, then GET): `sent` counts them.

### WorkerPool — what a pool of workers promises

The code builds the same pool twice, by hand: workers that shift a queue
(`analyzeBatch`), workers that move an index (`checkMany`). `WorkerPool` is what both
promise: every job is taken by one worker, once; nobody rests while a job waits; a job
that is taken is finished. `AnalysisBatch` and `ProbeBudget` implement it, each through
an `INSTANCE` with a refinement mapping.

### Sublists — filters of arrays

`Array.filter`, `[...new Set(urls)]`, `Map.delete`: what is left of a sequence when some of its
positions are kept, in their order. `Keep(s, S)` says which element comes where by the rank of its
position in `S`, without recursion, so that its lemmas can be proved. The caches of `ProbeEngine` are cut
with it; the addresses of `ProbeBudget` and the pages of `AnalysisBatch` are made distinct, and the
entries of a batch put back in the order asked, with it. The rank alone numbers the progress of a side in
the stream of `AnalysisStream`.

### ProbeBudget — `BudgetWallet`, `CheckWallet`, `BudgetedProbe`

`wallet` and `quota` are the two wallets. `checkMany` is `Start` (its workers all run
their first segment at once), `Return` (the engine's answer, with the refund), `Continue`
(file the answer, take the next address and a unit) and `Deliver`. `FetchText` is the
other operation of a check, made by prober 0. `CheckWallet.take` is `CanTake` followed by
the two decrements, in one segment. Whether an answer is billable depends on caches
that the whole process shares: `Return` may go either way. `billed` and `spent` are
history variables: the units really spent.

What an analyser does with its probe is not modelled: a check may call `checkMany` and
`fetchText` in any order, together or not at all.

### AnalysisStream — controller, runner, channel, thread

`runner` is where `analyzePage` stands in the main process, `thread` the task of the
pool. `requests` and `replies` are the two directions of the probe channel,
`progress` the progress channel. The main side's actions: `Fetched`, `FetchFails`,
`Serve`, `EngineEnds`, `Progress`, `PoolResolves`, `PoolRejects`, `InlineCompletes`,
`InlineReturns`, `Recorded`. The thread's: `Ask`, `Receive`, `SeesClose`,
`ThreadCompletes`, `ThreadReturns`. `ThreadDies` may happen at any step and `PoolRejects`
also while the thread still runs (`Piscina.destroy` at shutdown). `return
this.runInline(...)` in the `catch` block is not awaited there, so the `finally` block closes
the channels before the fallback does anything: `PoolRejects` closes them. The
report comes with the outcome of the task, and may overtake progress messages,
which are then dropped (`CloseChannels`).

An analyser makes at most one request here; how many it makes and what it pays is
`ProbeBudget`'s subject. The events go through `Send`: nothing is written once the
client has gone, and an event that does not pass the schema of the stream is logged and not
emitted (`analysis/sse-writer.ts:64`), which its field `emitted` tells. That happens to a check whose
items hold a text longer than the schema allows (the links are not cut), and then to the report
that holds this check. `Leave` takes the listener of `close` at what its comment says of it, the
client's departure, at any time.

### AnalysisBatch — `analyzeBatch`, `batchStream`

`Start` (the workers' first segment), `PageEnds` (the continuation of a worker, up to its
next page), `Gather` (`Promise.all`), `Record` (`record`, which swallows the failure of the
history), `Return`, `Leave`. The analysis of a page is one outcome, with or without a
report; `analyzeOne` never throws, which `EveryBatchEnds` depends on. `Domain` is the
hostname of the address a page ends at after redirects, `Gamme` what `extractGamme` finds
in it. `Written` is the writer, as in `AnalysisStream`: a page whose report does not pass the schema is
logged and not told.

### ScanHistory — `ScansService`, `ScanTrashService` and their repositories

A request is a sequence of SQL statements with an `await` after each: each statement is an
action, and `pc` says which comes next. Two operations are transactions, and one action each:
`Record` (`ingestSession`) and `Reinsert` (`ScanTrashRepository.restaurer`).

| Request | Actions |
|---|---|
| recording | `Record` |
| deletion of a site or a domain | `LocateSites`, `ResolveSessions`, `CopySites`, `CopySessions`, `CopyPages`, `Archive`, `DeleteSites` |
| deletion of a session | `LocateSession`, the same copies, `Archive`, `DeleteSession`, `Sweep` |
| deletion of pages | `LocatePages`, `DeletePages`, `Recount`, `DropEmpty`, `Sweep` |
| restore | `Load`, `Reinsert`, `Forget` |
| purge, expiry | `Purge`, `PurgeExpired` |
| any, between two statements | `Fail`: an error or the end of the process |

`sites`, `sessions` and `pages` are the tables, reduced to their keys, the identity of a
site (domain and gamme) and `page_count`; `trash` holds the entries, `seen` the ids a
deletion has resolved, `copy` the rows it has read. `KeepSites` and `KeepSessions` are the
`ON DELETE CASCADE` of the schema. Names stand for UUIDs: a site and a session bear the name
of the recording that made them, an entry that of its deletion. `lasting` and `back` are
history variables: the pages live since a deletion began, and what restores have put back.

`PurgeExpired` may remove any entries whose deletion has ended: dates, and the size of a batch, are
not modelled. `Fail` is an action only after the first write of a request: before it, a
request that stops leaves nothing behind.

### Requests, Accounts, Profiles, Messages, Feedback, Backoffice

`Requests` is what the requests of the back office share: `Ask[c]` is what a request asks,
`pc[c]` the statement it comes to, `Dies` a failure or a crash after its first write. A request
that is refused, or that dies before it has written, just makes no further step.

* **Accounts** — `UsersService`, `AuthService`, `JwtAuthGuard`, `PermissionsGuard`, `RbacService` and
  their repositories. `Enter` is the authentication of a request (the access token, its version compared
  with the account), `Authorize` its permissions. Then, according to what is asked: `FindName`,
  `InsertAccount`; `ReadTarget`, `CountAdministrators`, and `UpdateAccount`, `WritePassword`,
  `GrantPermission`, `RevokePermission` or `DeleteAccount`, followed by `BumpVersion` and `DropSessions` (two
  statements, not a transaction); `FindLogin` and `RecordFailure` or `ResetFailures`; `FindSession`,
  `ReadHolder`; `OpenSession`, which both a login and a rotation end with. `target` is the row a request has
  read: whatever it writes afterwards relies on it. `tokens` are the access tokens given out, signed
  snapshots that no statement can take back. `crossed` is a history variable, the sessions opened on a
  row that had changed since it was read.
* **Profiles** — `ProfilesService`. A client reads a profile (`Open`) and sends it back later with
  its version: `LookVersion` chooses between `Create` (then `Overwrite` when another creation came first)
  and `ReadLabel`, `Update`. The UPDATE compares the version. Settings and label bear the name of the
  request that wrote them.
* **Messages** — `ResolveAudience`, then for each file `StoreFile` (it is created) and `FileStored` (it is whole),
  `WriteMessage` (the transaction), `SendFails` (a file is refused or its write stops half-way, the transaction is refused, or is
  committed and its answer lost), `TakeBack` (the files stored are removed, or not; the one cut short is not among them);
  `MarkOwnCopy`, `FindCopy`, `MarkCopy`, `MarkAllRead`.
* **Feedback** — `Report`, `ReadReport`, `WriteTriage`, with the table of transitions.
* **Backoffice** composes them: they pass the same guards, and a removal of an account reaches,
  through the foreign keys, sessions, permissions, mailboxes and reports (`RemoveAccount`).

### Scoring, the criteria, Registry, Criteria

* **Scoring** — `verdict.ts`, `base.analyzer.ts`, the polarity and the weights of `orchestrator.ts`,
  `page-rules.ts`, `check-weights.ts` and `scan-comparison.ts`. Scores are in tenths; items are counted, not
  listed.
* **LinkCriteria, LegalCriteria, HeadCriteria, ContentCriteria** — the twenty-nine analysers, as operators from what each
  one reads of a page (a record of counts and flags, or a sequence where order matters: headings,
  links, navigations) to items, verdict and score. What a text, a DOM or an address contains is data:
  the operators keep which counts matter, in which order the early answers come, and the scales. Each criterion has
  the type of its pages (`CtaPage`, `HnPage`... and `PageType` in `Criteria`): which fields it reads, and how
  they constrain one another.
* **Registry** — the points of control a profile can mark as absent (`analyzers-registry.ts`).
* **Criteria** — a page is scanned, its author sets one thing right or its profile is edited, it is
  scanned again and the two reports are compared: `Scan`, `ScanThrows`, `Mend`, `Retune`. What an author sets
  right is defined there, as it is the environment of the code: one element of a sequence (`Better`: a link that leads
  somewhere, an answer that is a 200, a text a little closer to the page it names), or anything else a criterion looks at
  (`Reworked`: the defects of one kind gone, an h1 put in front, one word more, one text made readable).

### Stylesheets, Cascade, Colours, ContrastAudit, Styles

* **Stylesheets** — a sheet cut into rules, media, layers; selectors, their specificity and the index of the document
  that stands for a query (`KeyOf`, `NodesFor`); the sheets a process remembers (`sheetCache`).
* **Cascade** — `priorityRank` and `cascadeWins` as one comparison of keys, inheritance, variables,
  keywords, the shorthand `background`.
* **Colours** — the notations of CSS reduced to greys: a level in 64ths and an alpha in quarters; blending, luminance, ratio.
* **ContrastAudit** — the background a text is really read on, gradients, what cannot be measured, the verdict.
* **Styles** — pages analysed side by side in one process: `Begin`, `Answer` (the sheets come in any
  order, or fail), `Analyse` (all that follows the last answer is one segment).

### AddressFilters, Screens, LiveRuns, HttpSession, Client

* **AddressFilters** — the filters of the five list screens as tables of fields: read from the address,
  written to it, made into a query.
* **Screens** — one screen that reads the API. A gesture changes the address or starts a call; an answer comes
  at any later time (`CallEnds`), and what its continuation does depends on the screen: lists compare
  the key of the answer with the last one asked for, details do not.
* **LiveRuns** — the analysis of a page, of a batch, and the sitemap that fills a batch. A run is a stream
  that brings events until it ends, breaks or is interrupted (`Start`, `Cancel`, `Leaves`). Any event may be
  missing, dropped by the server or unreadable; a check may come twice, from an analysis that fell back; `Progress`
  lists what comes, and `Complete` is taken whatever came before.
* **HttpSession** — `authInterceptor`, `csrfInterceptor`, `AuthService` and the guards of the routes. `inFlight` is the one
  rotation that calls share; `Waits` joins it or starts it, `RotationEnds` sends the waiting calls
  again or gives up. The server and the network are external: they may refuse, lose a
  request, or lose its answer.
* **Client** — the three share the browser and no state: a behaviour is about one of them (`scene`).

### How they fit

    Client ── reads the API, follows the streams of ── AnalysisBatch, AnalysisStream
                                                          │ a page is an outcome of
    AnalysisBatch ── implements WorkerPool ────────────── AnalysisStream
                                                          │ a request is answered
    ProbeBudget ── implements WorkerPool                  │
         │ billable or not                                │
         └───────────── ProbeEngine ◄─────────────────────┘
                            │ implements (GateSpec)
                        ProbeGate

    AnalysisStream ── runs ── Criteria, Styles         the verdicts of a report
    AnalysisBatch ── ends with ── ScanHistory          its `Record`
    HttpSession ── calls ── Accounts                   rotation and revocation

`ProbeEngine` extends `ProbeGate` and is checked, and proved, to implement it. The
others use what the module below promises as their fairness: `EveryCallAnswered` of
the engine justifies the fairness of `Return` in the budget and of `EngineEnds` in the stream;
`EveryAnalysisEnds` of the stream justifies that of `PageEnds` in the batch. The server of `HttpSession`
keeps of `Accounts` one session whose last token alone can be rotated. A rotation is one step there, since the client shows one at a time; in `Accounts` it is several statements,
and two of them on one session may both open one.

## 4. The runs

Each property of a passing run has a mutant: a plausible mistake in a mapped
definition, kept beside it in the module, with which TLC finds the property violated.
Numbers of states are distinct states.

### `engine` — MCProbeEngine, 222,420 states

Three calls, a gate of one place, three addresses of which one is also asked for as a
text, a result cache of two entries, a text cache of one, a clock of two steps, a
success that outlives a failure.

* `OneRequestPerKey`: the in-flight tables name exactly the owners of unfinished requests.
* `BilledIffSent`: billable exactly when a request left for the call.
* `FreshAnswers`: what is answered is about the address asked for and within its time to live.
* `EvictsOldestLast`: what eviction may drop, and in which order.
* `NoIdlePlace`: no call is parked in front of a free place.
* `GateSpec`: the engine implements the gate.
* `EveryCallAnswered`: no call waits for ever.

Three calls are the fewest for a call to overtake a woken waiter, for a third address to
overflow the cache, and for a sharing call to meet both an owner and a later one. A
gate of one makes every second call queue. Two clock steps are enough for an entry
to be fresh, to expire and to be replaced. Calls are numbered in the order in which
they are made: their names carry nothing else.

### `budget` — MCProbeBudget, 80,304 states

Check `links` has six addresses (one twice), a quota of four; `images` one address and a
quota of two; ceiling of five; pools of two. So the quota of `links` runs out, the ceiling
is below the sum of the quotas, and a worker takes more than one address.

* `UnitsConserved`: no unit is lost or made, at either level, counting requests in progress.
* `ImplementsPools`: each check implements `WorkerPool`.
* `EveryCheckReports`: `checkMany` returns.

### `batch` — MCAnalysisBatch, 33,148 states

Five addresses, four distinct, two sites, three workers: one page waits in the queue
while three are analysed, and ends come in any order.

* `StreamAddsUp`: each page is told, or refused by the schema and logged, under the number of its turn;
  a page in error is always told; the last event counts those told and those refused.
* `AnswerInOrder`: the answer lists the pages in the order asked, once each (the recorded session keeps
  the order in which they ended).
* `ImplementsPool`: the batch implements `WorkerPool`.
* `EveryBatchEnds`: whatever pages, history and client do.

### `stream` — AnalysisStream, 403,516 states

Three analysers, two of which ask: replies can cross, progress can still be in the
channel when the task ends, and a thread can die with one request pending, served
or answered.

* `OwnAnswer`: an analyser gets the answer to its own request, or "unavailable".
* `StreamWellFormed`: one "start", the checks of each side told or logged under their numbers from one, the
  thread's before the fallback's and never mixed, one end; only a check or the report is ever refused. After a failure of the pool the progress restarts at one; this is
  what the code does, and the property says so.
* `EveryAnalysisEnds`: whatever dies or closes.

### `history` — MCScanHistory, 601,426 states

Two recordings of one site and one of another site of the same domain; a deletion of that
site, of the domain, of a session and two of pages; a restore, a purge and an expiry. Any
`MaxMade` = 5 of these eleven requests are made, in any order and interleaved statement by
statement.

* `CaptureComplete`: whatever the others do between the reads of a deletion, each page it
  deletes that was live since it began is in its copy, with its session and its site.
* `CountsAgree`, `NoGhostSite`: when all requests have ended, none having failed, counts and
  pages agree and no site is empty, even after overlapping deletions of pages. Both leave out
  what a restore has put back: its session may carry a count read before pages were deleted, and a
  site copied after its last session went comes back empty.
* `RestoreFaithful`: a restore changes nothing live, mixes no page into a live session, and puts
  the other sessions back whole under a site of their identity.

Five requests allow two overlapping deletions over two recordings and a restore of either
entry, or a deletion, a new recording of the same site, a restore that meets it, and another
deletion. The pages {2, 3} and {1, 3} of the two page deletions overlap on a page of one session
and share the other session.

### `backoffice` — MCBackoffice, 29,833 states

Two super administrators, an administrator and an editor; any two of twenty-nine requests,
and sixteen mixes of three or four that act on the same rows, interleaved statement by
statement and cut short anywhere. Two failed logins lock (five in the code): a count can then be
lost, reach the limit, and pass it.

* `AcceptedRankIsCurrent`: the guards trust the rank written in a token; it is the account's.
* `SuspendedHoldsNoSession`: nothing is left for a refresh to revive.
* `LockHolds`: who may open a locked account.
* `AdministratorRemains`: a request takes the last administrator away only if its count was stale.
* `SavesOverwriteWhatTheyRead`: what a save of a profile replaces.
* `StatusNeverSkips`: the transitions of a report and its date of resolution.
* `FilesMatchRows`: attachments, their files, and the copies of a message: which files may be left without
  a row, and how many of them cut short.

Each of these says, in its formula, which overlap of requests can still break the promise: those
exceptions are what the code allows, and each was met as a counterexample of the property
without it. Two requests are enough for each of them but the lock, whose loss takes a mix of
three wrong logins and a right one.

### `criteria` — MCCriteria, 419,827 states

Each of the twenty-nine criteria, on small pages chosen around the thresholds of its scale, with the
profiles that name it; then one defect is set right, or the profile is edited, or the scan throws.

* `VerdictFollowsItems`: verdict, score and items of a report agree.
* `FixingNeverCosts`: no scale and no rounding makes setting one thing right lose a point or a
  verdict, for the criterion or for the page. Profiles that invert a point of control are out of it: for
  them a defect is what is asked for.
* `ComparisonAgrees`: two scans compared in either direction say the same.

Counts go up to just past the last threshold of each scale: beyond it every scale is constant. The other pages of
the site vary with TRACKING, the addresses named by rules with CONTENT_LENGTH. A navigation
misses any of the three expected pages, so that each of its four verdicts is reached.

### `styles` — MCStyles, 26,067 states

Two analyses in one process, five documents, seven sheets that come in any order or not at
all. `SheetCacheMax` is nine characters, that is two or three sheets; two links are read and two
texts measured in a page (eight and four hundred in the code), so that each limit is passed.

* `SharedSheetsInert`: what is remembered from another page changes nothing.
* `CascadeAgrees`: what wins is what the strata of CSS, written out one by one, say.
* `ReportTellsItsLimits`: a sheet not read and a text not measured are each counted in a note.

### `client` — MCClient, 399,740 states

One of three scenes: a screen (each of the five lists and three details, with three gestures), a
run (three moves), the session (two calls, and the rotations they share).

* `ShowsWhatIsAsked`: a list that has loaded answers the filters asked for last.
* `RunShowsItsOwn`: the list is all that the last run started has brought, and nothing of another; a batch
  never lists more pages than it counts; the report and the end announced are those of that run.
* `LiveSessionKept`: who is sent to sign in.
* `NothingWaits`: no skeleton, disabled button, run or call stays for ever.

Three gestures allow a call, a second one that overtakes it, and a return to the first
address while both are unanswered. Two calls allow one to start a rotation and the other to join it
or to come just after it.

### Violations

* `gate_bound`: `SimultaneousBound`. "Il borne les requêtes SIMULTANÉES du processus"
  (`analysis/probe-engine.ts:223`), but a call made while a woken waiter has not resumed
  takes that waiter's place. Requests then exceed the limit by one for each such
  overtaking. The counter itself stays right (theorem `GateIsExact`).
* `css_key`: `BucketsAreExact`. The index of a document by tag, class and id is said to be exact
  (`analysis/css/micro-cssom.ts:1022`), but the key of `a[href$=".pdf"]` is read as the class `pdf`,
  which no element carries: the rule is dropped, and the contrast of the links to documents is judged
  without it.
* `stale_header`: `ReplayIsEnough`. "Le nouveau cookie est déjà posé : il suffit de rejouer la
  requête" (`apps/web/src/app/core/auth/auth.interceptor.ts:51`), but the request that is sent again
  carries the CSRF header of before the rotation: a mutation is refused with 403.

### Deadlock

`CHECK_DEADLOCK FALSE` where calls, checks, batches, streams, requests and gestures end, and the
models have nothing left to do then. The liveness properties say that they end as they should.

### Bounds

`MaxTime` (clock), `Calls` (each made once), the lists of addresses, `Concurrency`, `PoolSize`,
`MaxActive` and the cache limits, `Jobs` and `MaxMade` (requests on the history), `Mixes` (requests on
the back office made in one behaviour), `MaxAttempts`, `MaxGestures`, `MaxMoves`, `MaxBrought`, `MaxRequests`.
`MaxTime`, `MaxMade`, `Mixes`, `MaxGestures`, `MaxMoves`, `MaxBrought` and `MaxRequests` are bounds that the
code does not have; they cut behaviours short and forbid none of the others' steps. `MaxBrought` is three: two
checks, one of them twice.

### Fairness

Weak fairness only, on steps that the code's scheduling runs once they are enabled:
continuations (microtasks always run), the end of a request (`timeoutMs` bounds each fetch),
the receipt of a message by an event loop, the rejection of the task of a dead thread; in the
client, the end of a call (an answer or its timeout) and the next event, or the break, of a
stream. Nothing forces a client to leave, a thread to die, a pool to be destroyed, a caller to
call, an analyser to ask, a user to move, or the clock to advance. The history, the back office, the
criteria and the styles state no fairness: a request there may stop anywhere, as a process that
crashes does.

## 5. The proofs

All theorems hold for every value of the constants that satisfies the named assumptions of
their modules; each is an `ASSUME` that TLC evaluates on the values of the runs.

| Assumption | Says |
|---|---|
| `GateAssumption`, `EngineAssumption` | finitely many calls, numbered; a positive limit, caches of at least one entry, natural times; a key is a kind and an address |
| `BudgetAssumption`, `ListAssumption` | finitely many checks, natural quotas and ceiling, a positive number of workers; lists are finite sequences, "no answer" is neither an address nor an answer |
| `BatchAssumption` | a request has at least one address (the schema refuses an empty one), a positive number of workers, "no page" is not an address |
| `StreamAssumption` | finitely many analysers, at least one, those that ask among them |
| `HistoryAssumption` | recordings have finite sets of pages, no page in common (UUIDs), identities with a domain |
| `RequestsAssumption`, `AccountsAssumption` | "nobody" is not a request; ids of accounts are fresh; ranks are numbers, and the attempts allowed a positive one |
| `MessagesAssumption` | no two sends name the same file (`randomUUID`, `messages/attachment-storage.service.ts:109`) |
| `LiveAssumption` | the addresses of a batch are finitely many, the gestures are counted |
| `UserAssumption` | "nobody" is not the name of a user |
| `ParametersAssumption` | `trim` leaves nothing to trim; the words of a catalogue have no blank around them; a number read from its decimal writing is itself |
| `WeightAssumption` | the greatest weight is positive, and a weight that nobody chose is between 1 and it |
| `PagesAssumption`, `ProfilesAssumption`, `CompaniesAssumption` | pages are of the type their criterion reads; the fields of a profile are typed, also once edited; the rest of a report and the other pages of a site carry verdicts of analysers, and scores on the scale or none |
| `KeysAssumption` | the keys of the items of two mandatory or optional fields differ, as the fields do (the provers do not compute on the text of a string; TLC does) |
| `ScreensAssumption` | a form offers the filters of its screen, valid ones where it does not trim; the lines of an answer fit in a page |

Eight modules hold proofs. Each begins with the smallest invariant that needs nothing else, and adds
to it what the next property lacks.

**`Sublists`.** `RankGrows` and `InOrderLists` say that the rank numbers the positions kept, in order,
from one to their count; every other lemma follows from these two and from the library's facts on finite
sets. `DistinctOnce` (the values of `Distinct(s)` are those of `s`, each once) is what the pools need, `Kept`
(which element of `s` stands where in `Keep(s, S)`, and in which order) what the caches need.

**`Probe_proofs`.** The gate, the engine, then the budget. The gate first. `GateInv` is inductive: the types, `ActiveExact`, `QueueExact`
and `NoIdlePlace`. None of them is inductive alone: that `Release` wakes a parked call needs
`QueueExact`, and that `NoIdlePlace` survives a `Release` needs the counter to be exact. One lemma
per action; two lemmas say how the number of calls in a phase changes when one or two calls move.
Then the engine: each of its steps is a gate step or leaves the gate alone
(`EngineStepIsGateStep`), hence `EngineImplementsGate` and, from the gate's theorems and without any
new invariant, `EngineGateIsExact` and `EngineIsNeverIdle`. `EngineOneRequestPerKey` needs the types of
the in-flight table. `EngineBilledIffSent` needs a coupling between the phase of a call in the
gate, its state in the engine and the requests it has sent (`Coupled`): an owner that has left
the gate has sent.

The caches last. `KeptInv` has four parts. `CacheKept`: the entries of a cache are in the order of their
ages, and expire no later than their time to live. `NothingKept`: the owner of a key found no entry for
it and no other call writes one, so that a write never replaces an entry, which would keep its old
place. `OwnersLanded` and `SharersFollow`: what a request gave is handed on, to its owner and then to
the calls that share it, before the clock moves: microtasks end before a timer fires (`Drained`).
`EngineAnswersFresh` and `EngineEvictsOldest` follow, step by step. The second one rests on the
order: a full cache drops its first entries, which are its oldest.

Of the budget, `BudgetInv` is the types, "a check that has not started has idle workers"
and `UnitsConserved`. The second conjunct is what `Start` needs to know that nobody held a unit.
`BudgetConserved` is the conservation; `BudgetCeilingKept` follows from it with the types: a wallet is
never below zero. `PoolInv` adds `Places`: a worker is on an address that the shared index has passed, and
nothing is filed before the start. With it `Start` is a `Hire` of the pool (`StartHires`), `Continue` a
`Turn` (`ContinueTurns`), and everything else leaves every pool alone: `BudgetImplementsPools`. What a
pool promises then holds of the code's (`HireKeeps`, `TurnKeeps`): `BudgetEachAddressOnce`.

**`AnalysisBatch_proofs`.** `BatchInv` is the types, `QueueIsRest` (the queue is an end of the list of
pages), `Pool!EachJobOnce`, `PhasesKept` (no worker stops while a page waits), `ResultsOnce`,
`EventsMirror` (what the writer was given is an image of the results as long as the client is there) and
`AnswerMade`. The end of a page is a turn of the pool (`PageIsTurn`): `BatchIsPool`, `BatchEachPageOnce`. When all
workers have ended, the queue is empty and each page can only be among the results: their number is that
of the distinct addresses, and `OrderByRequest` finds one for each, hence `BatchAnswerInOrder`
and `BatchStreamAddsUp`.

**`AnalysisStream_proofs`.** `RpcInv`: ids grow and are given once, an id travels with the name of
who asked, each analyser waits for one reply at most, and a reply carries what its id asked for.
`StreamOwnAnswer` follows, whatever the order of the replies and whatever closes the channel. `StreamInv` is
about the events: while somebody reads them, they show of the main side all that has completed (`Read`),
and of the thread all but what is still in the channel (`OnItsWay`), whose messages carry the numbers
that come next; once the channel is closed nothing of the thread is added, and before that nothing of the fallback
(`Turns`). `StreamStaysWellFormed` needs all three: each new event is numbered by what was completed,
not by what was written.

**`ScanHistory_proofs`.** `HistoryInv` is inductive: types, foreign keys, and "sound rows" in the
tables, in every copy and in every entry. A sound row was made by a recording that has ended,
and says so. The types are not inductive alone because a restore brings rows back from a copy:
that no two rows then share a key needs the copies and the tables to agree on what an id means.
`HistoryTypeCorrect` and `HistoryRestoreFaithful` follow from it. Three more invariants stand on it:
`CaptureInv` (what a deletion has, by the phase it has reached, of each page live since it began and
that it concerns; its key lemma, `NotMoreConcerned`, is that no statement gives a page that stays
another session) for `HistoryCaptureComplete`; `GhostInv` (an empty site has a deletion that will sweep
it) for `HistoryNoGhostSite`; `CountInv` and `FoundInv` (a session whose count is wrong has a
deletion that will recount it) for `HistoryCountsAgree`. `MaxMade` is any number here.

**`Backoffice_proofs`.** `RowsInv` is the types and keys of accounts and sessions, what a request remembers
of the row it has read, and that a row is locked exactly when it counts the failures of a lock:
`AccountRowsSound` and `LocksHold`. `TokensInv` adds that no version is ahead of its account, and that a
token of the current version says the rank, unless an update stands before its bump: `AcceptedRankHolds`. `SessionsInv`
follows a session from the row its request has read, and knows which requests have crossed
a change: `SuspensionHolds`. `CountInv` ties what a request has counted to what it has read of the account
it withdraws: `AdministratorStays`.
Requests on accounts, profiles, messages and reports keep out of each
other's phases (`AccountsApart` and its sisters), so that one invariant for each of the others is enough: `FeedbackInv`, `ProfilesInv`
(what a client has opened is the profile, or an older version of it) and `MessagesInv` (what a send has stored, written and may still take back,
and the one file it is writing, `CutFiles`).

**`Client_proofs`.** The scenes share no state. `LiveInv` says which run is read (the last, or none), that the rows
are all that it has brought (`RowsAreLast`), that those of a batch are distinct addresses of its request (`BatchFits`), and that a run announced as done
has said so (`DoneIsSaid`): `RunsShown`. `SessionInv` says what each
call and each rotation knows of the server's session, and that no two rotations are under way: `SessionIsKept`.
`ListInv` is about the five lists: the filters read from the address are those of the last load
(`InStep`), and a list that has loaded shows their answer, or an error and no line (`ShowsOrTells`). That a gesture
keeps `InStep` is a round trip: filters written to the address are read back the same. It is proved
field by field, by the kind of the field (`FieldRead`, `FieldAbsent`, `FieldWritten`), then for the five tables of
fields; it is where `ParametersAssumption` is needed. `ListsShowWhatIsAsked` follows: an answer is
shown only under the key of the last load. A list is `astray` after the two gestures that break the promise in the code (see
section 6, Client), until the next load that ends well.

**`Criteria_proofs`.** A verdict counts items and a score weighs verdicts: both are sums over finite sets, of
which nothing can be had by the library's induction theorems (they take an operator). `Gather` replaces them: a family of
subsets that holds the empty set and grows by one element holds the whole set; what a sum is (`SumStep`), that it grows with its
terms (`SumGrows`), when it is zero (`SumZero`), each follows by applying it to the subsets that satisfy the fact. Then a
lemma per analyser (`CtaRight`, `HnRight`...) says that its result is right: its items are
countable, verdict and score are what they must be of each other. The exceptions the code has are in the statement
(`Fair`, `Mute`: see `VerdictFollowsItems`). `PolarityFounded` says that inverting a criterion keeps this; a scan is one of the analysers
(`RunFairly`). `VerdictInv` carries it to the reports of `Spec`: `VerdictsFollow`.
For the comparison, `ReportsInv` says that a recorded report counts its own verdicts (`GlobalCounts`), and `SidesAgree` that what
improves in one direction degrades in the other, and that the order of the lines (kind of change, points lost, criteria
lost, address) is strict, transitive and total: `ComparisonsAgree`.

That a page with one thing set right loses nothing takes a second lemma per analyser (`CtaEases`, `HnEases`...), on the
results before and after (`NoWorse`). For most of them it is enough that nothing is reported that was not
(`Sub`), then that each scale is monotonic (`ScalesEase`, `VerdictEases`). The others each need an argument on data: split links are
counted by chains, and there is one as soon as one link follows another closely (`ChainsBegin`); a link set right has no fault it
had not, of any kind (`LinkFaults`); an h1 put in front may bring a jump of levels, but a page without h1 had failed already (`HnEases`);
a text closer to the page it names has better averages on both sides, hence a greater F-score
(`FractionGrows`, `MeanGrows`, `BestsGrow`, `FBetaGrows`), hence a level at least as good (`LevelRises`), and the summary of the
page follows (`AnchorTextEases`). `MendedPage` keeps the types, `AnalysisEases` covers every criterion, `GlobalGrows` the weighted score of
the page. `FixInv` remembers which page the first report was made from; the rest is `NotLost`: `FixingIsFree`.

**Only model-checked.**

* Liveness, since fairness and ENABLED are outside what the prover does: `EveryCallAnswered`,
  `EveryCheckReports`, `EveryBatchEnds`, `EveryAnalysisEnds`, `NothingWaits`, and the part of `ImplementsPool`
  that says that a page taken is finished (`TakenIsFinished`).
* `SharedSheetsInert`, `CascadeAgrees`, `ReportTellsItsLimits`: sheets, selectors and the tree of a document are walked by
  recursive operators, which the provers do not reason about.

## 6. Notes on the code

Behaviours met while modelling that a maintainer may want to know. The models do what the code
does; where a property of section 4 has an exception, it is one of these.

**Analysis**

* A unit is held until its request is answered: with a quota of one and two addresses already in the
  cache, two workers start, the second finds no unit, and its address is reported as exhausted
  though nothing was paid (`analysis/network-probe.ts:228`, against :101 "n'a rien coûté").
* The fallback after a failure of the pool makes a new probe with a full budget
  (`analysis/analysis-runner.service.ts:145`): the ceiling of one analysis may be spent twice.
* A batch over two sites is one session, with the domain of its first report and the first gamme found on
  any page (`analysis/analysis.service.ts:121`, against :208 "L'historique décrit le site tel qu'il est").
* An event that does not pass its schema is logged and not emitted (`analysis/sse-writer.ts:64`). An anchor, a title or an address
  that `analyzers/links.analyzer.ts:249` does not cut is enough: the page of a batch is never told, against "chaque page
  arrive dès qu'elle est terminée" (`apps/web/src/app/core/analysis/analysis.api.ts:118`), and an analysis ends with neither a report nor an
  error, which the client takes for a connection cut on the way.
* A navigation that misses every expected page, and a page without headings, fail without an item that
  says so. CONTRAST_V2 may fail with 5.0; ANCHOR_TEXT may warn with 5; a first tracking tool without
  consent turns a warning into a failure; DUDA_PARAMS ignores its settings; IMAGES says the weights
  are right when every measure was refused for lack of budget.
* The registry of criteria calls itself the source of truth; seventeen keys the analysers use are not in
  it, and dozens in it are no longer produced.
* The pattern `contact` of `page-rules.ts` also takes `/prise-de-contact-commercial/equipe`, which its comment
  excludes.

**Styles**

* Of an ancestor's gradient, the colours are blended over the ancestor's own opaque background, which
  the gradient hides; an own solid background does not shield a text from the image of an ancestor.
* An ancestor's gradient that cannot be read is passed over in silence.
* `display: none` and `opacity: 0` are looked for on the text's own element only.
* The sheet of the browser is an unlayered sheet of the author; nested layers are flat; custom properties are inherited
  unresolved; `background: black` in a shorthand is ignored when nothing else is in it that is known;
  a longhand beats a shorthand of the same rule wherever it stands; an unresolved variable on an inherited
  property gives the initial value; `[href="#x"]` counts as an id.
* Two links with the same address count as two declared and one read: the note on unread sheets is then
  too high. A page without text to measure says nothing of unread sheets.

**History**

* A site is archived, then deleted by name in a later statement (`scans/scans.service.ts:368`): a
  recording of the same site that commits in between is deleted by the cascade and is in no entry,
  against `scans/scan-trash.service.ts:110`. Three requests. `CaptureComplete` says what does hold.
* Two overlapping deletions of one session leave two entries; once one is restored the other has nothing
  left to restore (`scans/scan-trash.service.ts:187`, against :183). Four requests.
* Statistics computed before a deletion are cached after it has emptied the cache
  (`scans/scans.service.ts:319`).

**Accounts**

* Failed logins that overlap lose counts, and one may take away the lock another has just set
  (`auth/auth.service.ts:195`); a right login that had read the account before the lock clears it.
* Two refreshes with one token may both open a session (`database/repositories/session.repository.ts:86`, against
  `auth/auth.service.ts:235` "strictement à usage unique").
* Two administrators who withdraw each other at the same time may leave none
  (`users/users.service.ts:137`).

**Messages**

* A file whose write stops half-way is created and is not among those taken back
  (`messages/attachment-storage.service.ts:110`, :83): it stays, truncated, and no row names it.

**Client**

* After a failure of the pool the checks of the thread stay in the list and those of the fallback are added to them
  (`apps/web/src/app/features/analysis/analysis.component.ts:299`): the same criterion is listed twice until the report comes. A batch
  announced as done lists only the pages that reached it.
* Interrupting a run shows an error: the controller is forgotten before the catch that would recognise
  the interruption runs (`apps/web/src/app/features/analysis/batch.component.ts:302`, `analysis.component.ts:276`),
  against the test "interrompre est une décision, pas une panne". A run started while a finished stream is still
  open is marked as failed; a break after the last event turns "done" into "error".
* A change of filter of a report puts in the address what is typed, not what was analysed.
* A refused filing restores the list of the address it was asked from; a count that fails after a filing
  that succeeded says the filing failed. Marking all as read clears the error of a load, so that an empty inbox is shown.
* Details have no guard against a late answer, which shows the audits of the site left
  (`apps/web/src/app/features/scans/site-sessions.component.ts:264`, against its comment at :251). A comparison asked
  before the selection was cleared is shown after it.
* A logout with an expired access token is refused by the server and forgotten by the browser: the
  server's session stays. Any failure of `/auth/me` signs out on the screen. A rotation whose answer is lost
  loses the session. Two tabs share the cookies and not the rotation.

**Network**

* A DNS failure, too many redirects and too large a body are all thrown as `SsrfBlockedError`, which its
  comment sets apart from network failures (`security/ssrf.service.ts`). The memory of DNS answers has no limit. A pinned agent
  is destroyed at thirty seconds, or on eviction, even if a request uses it.

## 7. Not modelled, and why

* **Page fetcher, sitemap, SSRF policy, DNS and pinned agents.** A request ends with a status, with a failure, or
  not at once: nothing the other modules promise depends on why. The rules on addresses are data.
* **Text, DOM, CSS and colours as data.** What a tokenizer, an HTML parser or a table of words yields
  is an input of the criteria. Colours are greys in 64 levels, alpha in quarters.
* **Retention, cache of statistics.** Periodic passes over dates, and a cache of a minute.
* **Usage, audit and its anonymisation, supervision, documents, registry routes, settings, health, configuration,
  database access.** Reads, appends, and one loop in batches.
* **Client**: the editors of profiles and settings, the counters of notifications, the view of a report, forms.
* **Validation schemas, throttling, CSRF at the server**: a request that reaches an action has passed them; of the schema of
  events, the models keep whether an event passes. `HttpSession`
  has the CSRF header since the client handles it.
* **`clearProbeCache`** (tests), the view of a probe without a check (no analyser uses it), a clock that goes back.
* **End-to-end tests, scripts, CI.**
