------------------------------- MODULE Criteria ------------------------------
(****************************************************************************)
(* A page analysed, changed by its author or judged with another profile,   *)
(* analysed again, and the two reports compared: the analysers, polarity,   *)
(* page rules and weights (orchestrator.ts) with scan-comparison.ts.        *)
(*                                                                          *)
(* Each behaviour looks at one criterion. The other criteria of the report  *)
(* are one more result, and the other pages of the site two sides, the      *)
(* pages before and after: they are the company of the page.                *)
(****************************************************************************)
EXTENDS LinkCriteria, LegalCriteria, HeadCriteria, ContentCriteria, Registry

CONSTANTS
    Pages,         \* [criterion -> the pages it is shown]
    Profiles,      \* [criterion -> the settings it is run with]
    Retuned(_, _), \* the settings that may replace some, for a criterion
    Companies,     \* [criterion -> [rest, before, after, address]]
    NoScan         \* model value: not analysed yet

(* What each criterion reads of a page.                                     *)
PageType(c) ==
    CASE c = "LINKS"            -> LinksPage
      [] c = "BROKEN_LINKS"     -> BrokenLinksPage
      [] c = "SPLIT_LINKS"      -> SplitLinksPage
      [] c = "NAV_STRUCTURE"    -> NavPage
      [] c = "CTA"              -> CtaPage
      [] c = "MENTIONS_LEGALES" -> LegalPage
      [] c = "MENTIONS_LEGALES_DATA" -> LegalDataPage
      [] c = "DATA_BINDING"     -> DataBindingPage
      [] c = "METAS"            -> MetasPage
      [] c = "CANONICAL"        -> CanonicalPage
      [] c = "ROBOTS_META"      -> RobotsPage
      [] c = "OPEN_GRAPH"       -> OpenGraphPage
      [] c = "LANG"             -> LangPage
      [] c = "FAVICON"          -> FaviconPage
      [] c = "REDIRECTS"        -> RedirectsPage
      [] c = "TRACKING"         -> TrackingPage
      [] c = "STRUCTURED_DATA"  -> StructuredDataPage
      [] c = "DUDA_PARAMS"      -> DudaPage
      [] c = "HN_STRUCTURE"     -> HnPage
      [] c = "HN_LENGTH"        -> HnLengthPage
      [] c = "CONTENT_LENGTH"   -> ContentPage
      [] c = "BOLD"             -> BoldPage
      [] c = "IMAGES"           -> ImagesPage
      [] c = "DUPLICATE_IMAGES" -> DuplicateImagesPage
      [] c = "LOGO"             -> LogoPage
      [] c = "PICTOGRAM"        -> PictogramPage
      [] c = "ACCESSIBILITY"    -> AccessibilityPage
      [] c = "CONTRAST_V2"      -> ContrastPage
      [] c = "ANCHOR_TEXT"      -> AnchorPage
      [] OTHER                  -> {}

ASSUME PagesAssumption == \A c \in DOMAIN Pages : Pages[c] \subseteq PageType(c)

(* A profile names sets of criteria and of keys; its weights are a partial  *)
(* function, and a rule names the words of the addresses it is about.       *)
Thresholds == [1..2 -> Nat]

IsProfile(s) ==
    /\ s \in [disabled : SUBSET STRING, enabled : SUBSET STRING, informational : SUBSET STRING,
              absent : SUBSET STRING, weights : {s.weights}, words : Thresholds,
              rules : Seq([patterns : SUBSET STRING, disabled : SUBSET STRING,
                           words : Thresholds \union {<<>>}]),
              anchors : BOOLEAN, concordant : 0..100, probable : 0..100, maxReported : Nat,
              ignoreZones : SUBSET STRING, excludeShop : BOOLEAN, distinctive : BOOLEAN]
    /\ \A c \in DOMAIN s.weights : s.weights[c] \in Int

ASSUME ProfilesAssumption ==
    \A c \in DOMAIN Pages : \A s \in Profiles[c] :
        IsProfile(s) /\ \A t \in Retuned(c, s) : IsProfile(t)

(* The pages of a scan: each has an address, a score or none, and the       *)
(* status of some criteria.                                                 *)
IsSide(side) ==
    /\ DOMAIN side \subseteq Int
    /\ \A u \in DOMAIN side :
          /\ side[u].score \in (0..Full) \union {NoScore}
          /\ IsFiniteSet(DOMAIN side[u].summary)
          /\ \A c \in DOMAIN side[u].summary : side[u].summary[c] \in Verdicts

ASSUME CompaniesAssumption ==
    \A c \in DOMAIN Pages : \A k \in Companies[c] :
        /\ k.rest.status \in Verdicts /\ k.rest.score \in 0..Full
        /\ IsSide(k.before) /\ IsSide(k.after)

VARIABLES
    criterion,     \* the criterion this behaviour is about
    page,          \* what it reads of the page
    settings,      \* the profile the page is judged with
    company,       \* the rest of the report and of the site
    past,          \* the scan before the last change, [result, side, global]
    present,       \* the last scan, NoScan before it
    change         \* what lies between the two: "none", "mended" or "retuned"

vars == <<criterion, page, settings, company, past, present, change>>

Rest == "REST"     \* the other criteria of the report, as one
Here == 1          \* the address of the page among those of its site

(****************************************************************************)
(* One analysis                                                             *)
(****************************************************************************)
Analyse(c, p, s) ==
    CASE c = "LINKS"            -> Links(p)
      [] c = "BROKEN_LINKS"     -> BrokenLinks(p)
      [] c = "SPLIT_LINKS"      -> SplitLinks(p)
      [] c = "NAV_STRUCTURE"    -> NavStructure(p)
      [] c = "CTA"              -> Cta(p)
      [] c = "MENTIONS_LEGALES" -> MentionsLegales(p)
      [] c = "MENTIONS_LEGALES_DATA" -> MentionsLegalesData(p)
      [] c = "DATA_BINDING"     -> DataBinding(p)
      [] c = "METAS"            -> Metas(p)
      [] c = "CANONICAL"        -> Canonical(p)
      [] c = "ROBOTS_META"      -> RobotsMeta(p)
      [] c = "OPEN_GRAPH"       -> OpenGraph(p)
      [] c = "LANG"             -> Lang(p)
      [] c = "FAVICON"          -> Favicon(p)
      [] c = "REDIRECTS"        -> Redirects(p)
      [] c = "TRACKING"         -> Tracking(p)
      [] c = "STRUCTURED_DATA"  -> StructuredData(p)
      [] c = "DUDA_PARAMS"      -> DudaParams(p)
      [] c = "HN_STRUCTURE"     -> Hn(p)
      [] c = "HN_LENGTH"        -> HnLength(p)
      [] c = "CONTENT_LENGTH"   -> ContentLength(p, s.words)
      [] c = "BOLD"             -> Bold(p)
      [] c = "IMAGES"           -> Images(p)
      [] c = "DUPLICATE_IMAGES" -> DuplicateImages(p)
      [] c = "LOGO"             -> Logo(p)
      [] c = "PICTOGRAM"        -> Pictogram(p)
      [] c = "ACCESSIBILITY"    -> Accessibility(p)
      [] c = "CONTRAST_V2"      -> Contrast(p)
      [] c = "ANCHOR_TEXT"      -> AnchorText(p, s)

RunOne(c, p, s) ==
    ApplyPolarity(IF IsEnabled(c, s) THEN Analyse(c, p, s) ELSE Na({}), s.absent)

(* The checks of a report, and the page as a history keeps it.              *)
Checks(result) ==
    [c \in {criterion, Rest} |-> IF c = criterion THEN result ELSE company.rest]

ToCheckSummary(checks) == [c \in DOMAIN checks |-> checks[c].status]

Report(result, s, others) ==
    LET checks == Checks(result)
        global == WeightedGlobalScore(checks, s)
    IN [result |-> result,
        global |-> global,
        side   |-> [u \in DOMAIN others \union {Here} |->
                      IF u = Here THEN [score |-> global, summary |-> ToCheckSummary(checks)]
                      ELSE others[u]]]

Init ==
    /\ criterion \in DOMAIN Pages
    /\ page \in Pages[criterion]
    /\ settings \in Profiles[criterion]
    /\ company \in Companies[criterion]
    /\ past = NoScan /\ present = NoScan
    /\ change = "none"

Others == IF past = NoScan THEN company.before ELSE company.after

Effective == ApplyPageRules(company.address, settings)

(* runAnalysis, on the page as it is.                                       *)
Scan ==
    /\ present = NoScan
    /\ present' = Report(RunOne(criterion, page, Effective), Effective, Others)
    /\ UNCHANGED <<criterion, page, settings, company, past, change>>

(* The analyser throws: its criterion fails, and the report goes on.        *)
ScanThrows ==
    /\ present = NoScan /\ past = NoScan
    /\ present' = Report(InternalError, Effective, Others)
    /\ UNCHANGED <<criterion, page, settings, company, past, change>>

(****************************************************************************)
(* What happens between two scans of the page                               *)
(****************************************************************************)
(* One element of a sequence set right.                                     *)
Better(c, e) ==
    CASE c = "LINKS" ->
            {[e EXCEPT !.to = CASE e.to = "bad phone" -> "phone" [] e.to = "bad mail" -> "mail"
                                [] e.to \in {"nowhere", "self"} -> "internal" [] OTHER -> e.to],
             [e EXCEPT !.follow = FALSE]}
      [] c = "BROKEN_LINKS" ->
            IF e.exhausted THEN {} ELSE {[e EXCEPT !.status = 200, !.moved = FALSE]}
      [] c = "SPLIT_LINKS" -> {[e EXCEPT !.glued = FALSE], [e EXCEPT !.after = FALSE]}
      [] c = "NAV_STRUCTURE" -> {[e EXCEPT !.links = 3]}
      [] c = "STRUCTURED_DATA" -> {[e EXCEPT !.lacks = @ \ {f}] : f \in e.lacks}
      [] c = "ANCHOR_TEXT" ->
            {[e EXCEPT !.alike[t][s] = 100] : t \in DOMAIN e.alike, s \in Segments(e)}

Elements(c) ==
    CASE c \in {"LINKS", "SPLIT_LINKS"} -> {"links"} [] c = "BROKEN_LINKS" -> {"results"}
      [] c = "NAV_STRUCTURE" -> {"navs"} [] c = "STRUCTURED_DATA" -> {"nodes"}
      [] c = "ANCHOR_TEXT" -> {"anchors"} [] OTHER -> {}

(* Anything else of a page, one thing at a time: the defects of one kind, a *)
(* text, a word more, one h1 put in front or one too many made an h2, a text *)
(* hard to read, a page that the navigation misses.                         *)
Without(p, kinds) == {[p EXCEPT ![k] = 0] : k \in kinds}

Reworked(c, p) ==
    CASE c = "CTA" ->
            Without(p, {"noButton", "noPhone", "noEmail", "badPhone", "badEmail", "emptyButtons"})
      [] c = "MENTIONS_LEGALES" ->
            Without(p, {"noLegal", "dead", "noPrivacy", "noConsent", "solocal"})
            \union {[p EXCEPT !.hostHere = TRUE], [p EXCEPT !.hostThere = TRUE]}
      [] c = "MENTIONS_LEGALES_DATA" ->
            {[p EXCEPT !.unbound = {}], [p EXCEPT !.empty = {}], [p EXCEPT !.rcs = "good"]}
      [] c = "DATA_BINDING" ->
            Without(p, {"noFooter", "noField", "emptyFields", "emptyBindings", "noLogo"})
            \union {[p EXCEPT !.loose = {}], [p EXCEPT !.noBinding = 0, !.active = 1]}
      [] c = "METAS" ->
            {[p EXCEPT !.title = "fits"], [p EXCEPT !.description = "fits"],
             [p EXCEPT !.noindex = 0]}
      [] c = "CANONICAL" ->
            Without(p, {"noHref", "unreadable", "otherDomain", "query", "http"})
            \union {[p EXCEPT !.tags = 1]}
      [] c = "ROBOTS_META" ->
            {[p EXCEPT !.meta = {}], [p EXCEPT !.header = {}], [p EXCEPT !.robots = 200]}
      [] c = "OPEN_GRAPH" -> {[p EXCEPT !.missing = 0], [p EXCEPT !.twitter = TRUE]}
      [] c = "LANG" -> Without(p, {"noLang", "unusual", "noDefault"})
                       \union {[p EXCEPT !.content = "same"]}
      [] c = "FAVICON" -> {[p EXCEPT !.standard = "own"], [p EXCEPT !.apple = "own"]}
      [] c = "REDIRECTS" ->
            {[p EXCEPT !.hops = 0, !.temporary = 0], [p EXCEPT !.temporary = 0]}
      [] c = "TRACKING" -> {[p EXCEPT !.tools = 1], [p EXCEPT !.noConsent = 0]}
      [] c = "STRUCTURED_DATA" -> Without(p, {"invalid"})
      [] c = "HN_LENGTH" -> Without(p, {"short", "long"})
      [] c = "CONTENT_LENGTH" -> {[p EXCEPT !.words = @ + 1]}
      [] c = "BOLD" -> Without(p, {"poor", "empty"}) \union {[p EXCEPT !.count = "fits"]}
      [] c = "IMAGES" -> Without(p, {"noAlt", "heavy", "borderline", "legacy"})
      [] c = "DUPLICATE_IMAGES" -> Without(p, {"twice"})
      [] c = "LOGO" -> Without(p, {"noTitle", "noSrc"})
                       \union {[p EXCEPT !.found = 1], [p EXCEPT !.alt = "set"],
                               [p EXCEPT !.link = "homepage"]}
      [] c = "PICTOGRAM" -> Without(p, {"mute", "unloaded", "bare"})
      [] c = "ACCESSIBILITY" ->
            Without(p, {"noSkip", "noLandmark", "noAlt", "nameless", "unlabelled", "tabindex",
                        "noLang"})
      [] c = "HN_STRUCTURE" ->
            (IF \E i \in DOMAIN p.headings : p.headings[i] = 1 THEN {}
             ELSE {[p EXCEPT !.headings = <<1>> \o @]})
            \union {[p EXCEPT !.headings[i] = 2]
                      : i \in {j \in DOMAIN p.headings :
                                  p.headings[j] = 1 /\ \E k \in 1..(j - 1) : p.headings[k] = 1}}
      [] c = "CONTRAST_V2" ->
            IF p.low > 0 THEN {[p EXCEPT !.low = @ - 1, !.conform = @ + 1]} ELSE {}
      [] c = "NAV_STRUCTURE" -> {[p EXCEPT !.missing = @ \ {e}] : e \in p.missing}
      [] OTHER -> {}

Mended(c, p) ==
    Reworked(c, p)
    \union (UNION {UNION {{[p EXCEPT ![f][i] = e] : e \in Better(c, p[f][i])}
                            : i \in DOMAIN p[f]} : f \in Elements(c)})

(* The author sets one thing right.                                         *)
Mend ==
    /\ present # NoScan /\ past = NoScan /\ present.result # InternalError
    /\ page' \in Mended(criterion, page) \ {page}
    /\ past' = present /\ present' = NoScan
    /\ change' = "mended"
    /\ UNCHANGED <<criterion, settings, company>>

(* The profile of the site is edited.                                       *)
Retune ==
    /\ present # NoScan /\ past = NoScan /\ present.result # InternalError
    /\ settings' \in Retuned(criterion, settings) \ {settings}
    /\ past' = present /\ present' = NoScan
    /\ change' = "retuned"
    /\ UNCHANGED <<criterion, page, company>>

(* Two scans are compared: the behaviour ends there.                        *)
Next == Scan \/ ScanThrows \/ Mend \/ Retune

Spec == Init /\ [][Next]_vars

(****************************************************************************)
(* Properties                                                               *)
(****************************************************************************)
Compared == past # NoScan /\ present # NoScan

(* Two verdicts come without the items that would explain them: a page      *)
(* without headings, and a navigation that misses every expected page.      *)
Unexplained ==
    \/ criterion = "HN_STRUCTURE" /\ page.headings = <<>>
    \/ criterion = "NAV_STRUCTURE" /\ page.missing = Expected

(* The verdict of a criterion is that of the worst of its items, inverted   *)
(* ones included, and its score is on the scale and on the side of its      *)
(* verdict: nothing to report is a 5, something is less. (ANCHOR_TEXT gives *)
(* a 5 with one or two warnings, CONTRAST_V2 a share that may round to 5;   *)
(* polarity moves the score and not the scale.) A criterion that does not   *)
(* apply keeps its 5. verdict.ts, each analyser, applyPolarity.             *)
VerdictFollowsItems ==
    present # NoScan =>
        LET r == present.result
            failures == CountOf(r.items, "fail")
            warnings == CountOf(r.items, "warning")
        IN /\ r.score \in 0..Full
           /\ IF r.status = "na" THEN r.score = Full /\ failures + warnings = 0
              ELSE r.status = StatusOf(failures, warnings) \/ Unexplained
           /\ settings.absent = {} /\ criterion \notin {"ANCHOR_TEXT", "CONTRAST_V2"} =>
                 (r.status \in {"pass", "na"} <=> r.score = Full)

(* Setting one thing right never costs: neither the score of the criterion, *)
(* nor its verdict, nor the score of the page gets worse, whatever the      *)
(* scale of the analyser. The exception: with no tracking tool there is a   *)
(* warning and consent is not looked at, so that a first tool without       *)
(* consent makes it a failure. The scales of the analysers.                 *)
FixingNeverCosts ==
    Compared /\ change = "mended" /\ settings.absent = {}
        /\ ~(criterion = "TRACKING" /\ page.noConsent > 0) =>
            LET was == past.result
                now == present.result
            IN /\ now.score >= was.score
               /\ CompareStatus(was.status, now.status) # "degraded"
               /\ present.global >= past.global
               /\ ComparePages([u \in {Here} |-> past.side[u]],
                               [u \in {Here} |-> present.side[u]])[Here] # "degraded"

(* A comparison says the same thing read in either direction: what improved *)
(* is what degrades backwards, what came is what went, and a page is called *)
(* improved only if none of its criteria, nor its score, got worse. A       *)
(* criterion that stops applying is no loss by itself. The lines have one   *)
(* order, in which a page that lost more never comes after. comparePages.   *)
ComparisonAgrees ==
    Compared =>
        LET there == ComparePages(past.side, present.side)
            back  == ComparePages(present.side, past.side)
            lines == DOMAIN there
            Before(u, v) == Precedes(past.side, present.side, u, v)
            Fell(u) == /\ past.side[u].score # NoScore /\ present.side[u].score # NoScore
                       /\ present.side[u].score < past.side[u].score
        IN /\ \A u \in lines :
                /\ there[u] = "added" <=> back[u] = "removed"
                /\ there[u] = "unchanged" <=> back[u] = "unchanged"
                /\ there[u] = "improved" =>
                      back[u] = "degraded" /\ ~Fell(u)
                /\ there[u] = "degraded" =>
                      \/ Fell(u)
                      \/ \E c \in DOMAIN past.side[u].summary \intersect DOMAIN present.side[u].summary :
                            /\ present.side[u].summary[c] \in {"fail", "warning"}
                            /\ past.side[u].summary[c] \notin {"na", "fail"}
           /\ \A u, v \in lines : u # v => (Before(u, v) <=> ~Before(v, u))
           /\ \A u, v, w \in lines : Before(u, v) /\ Before(v, w) => Before(u, w)
           /\ \A u, v \in lines :
                there[u] = "improved" /\ there[v] = "degraded" /\ Fell(v) => Before(v, u)
=============================================================================
