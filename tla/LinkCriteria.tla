---------------------------- MODULE LinkCriteria ----------------------------
(****************************************************************************)
(* The criteria about links: LINKS, BROKEN_LINKS, SPLIT_LINKS,              *)
(* NAV_STRUCTURE and CTA (analysis/analyzers of the API, link-zone.ts).     *)
(*                                                                          *)
(* A page shows a criterion the fields that the operator reads. A field     *)
(* that counts defects is 0 when there is none.                             *)
(****************************************************************************)
EXTENDS Scoring

(****************************************************************************)
(* Zones. A link has the set of marks of each of its ancestors, the nearest *)
(* first. "fcontainer" is a footer to the zones and no navigation.          *)
(****************************************************************************)
ZonesByRank == <<"shop", "footer", "nav", "header", "sidebar", "hero", "cta", "content">>

Marks(element) == IF "fcontainer" \in element THEN element \union {"footer"} ELSE element

ZoneOf(element) ==
    LET known == SelectSeq(ZonesByRank, LAMBDA z : z \in Marks(element))
    IN IF known = <<>> THEN {} ELSE {known[1]}

DetectLinkZone(link) ==
    LET zoned == {i \in DOMAIN link.around : ZoneOf(link.around[i]) # {}}
    IN IF zoned = {} THEN (IF link.button THEN "cta" ELSE "content")
       ELSE CHOOSE z \in ZoneOf(link.around[Min(zoned)]) : TRUE

Within(link, marks) == \E i \in DOMAIN link.around : link.around[i] \intersect marks # {}

(****************************************************************************)
(* LINKS. [links: sequence of [to, follow, button, around]]                 *)
(****************************************************************************)
Destinations == {"internal", "external", "phone", "bad phone", "mail", "bad mail", "nowhere",
                 "self", "section"}

LinksPage == [links : Seq([to : Destinations, follow : BOOLEAN, button : BOOLEAN,
                           around : Seq(SUBSET STRING)])]

SelfReference(link) ==
    /\ link.to = "self"
    /\ ~Within(link, {"shop"})
    /\ ~Within(link, {"nav", "header", "footer", "breadcrumb"})
    /\ DetectLinkZone(link) \notin {"nav", "header", "footer", "sidebar"}

FaultScale(failures, warnings) ==
    IF failures >= 2 THEN 0 ELSE IF failures = 1 THEN 2
    ELSE IF warnings >= 2 THEN 3 ELSE IF warnings = 1 THEN 4 ELSE 5

LinksTo(p, kinds) == {i \in DOMAIN p.links : p.links[i].to \in kinds}

BadContacts(p) ==
    Item("LINKS.ctc_invalid", "fail", Cardinality(LinksTo(p, {"bad phone"})))
    \union Item("LINKS.ctm_invalid", "fail", Cardinality(LinksTo(p, {"bad mail"})))

Summarize(p) ==
    LET dangling == Cardinality(LinksTo(p, {"nowhere"}))
        selves   == Cardinality({i \in DOMAIN p.links : SelfReference(p.links[i])})
    IN Item("LINKS.total", "pass", 1) \union Item("LINKS.internal", "pass", 1)
       \union Item("LINKS.external", "pass", 1)
       \union When(\E i \in LinksTo(p, {"external"}) : p.links[i].follow,
                   "LINKS.external_nofollow", "warning")
       \union When(dangling > 0, "LINKS.empty_anchors", "warning")
       \union Item("LINKS.empty_anchors", "info", dangling)
       \union When(selves > 0, "LINKS.self_reference", "fail")
       \union Item("LINKS.self_reference", "info", selves)
       \union When(LinksTo(p, {"self", "section", "internal", "external"}) = {},
                   "LINKS.no_http", "warning")

Links(p) == Graded(BadContacts(p) \union Summarize(p), FaultScale)

(****************************************************************************)
(* BROKEN_LINKS. [results: sequence of [exhausted, status, social, moved],  *)
(* beyond: links past MAX_CHECKED, net]; status 0 is no answer.             *)
(****************************************************************************)
BrokenLinksPage ==
    [results : Seq([exhausted : BOOLEAN, status : Nat, social : BOOLEAN, moved : BOOLEAN]),
     beyond : Nat, net : BOOLEAN]

SortResult(r) ==
    IF r.exhausted THEN "unverified"
    ELSE IF r.status = 0 THEN "unreachable"
    ELSE IF r.status >= 400
         THEN IF r.status \in {403, 999} \/ (r.status = 429 /\ r.social)
              THEN "refused" ELSE "broken"
    ELSE IF r.moved THEN "redirected" ELSE "healthy"

Sorted(p, kind) == Cardinality({i \in DOMAIN p.results : SortResult(p.results[i]) = kind})

BrokenItems(p) ==
    Item("BROKEN.broken", "fail", Sorted(p, "broken"))
    \union Item("BROKEN.timeout", "warning", Sorted(p, "unreachable"))
    \union Item("BROKEN.redirected", "info", Sorted(p, "redirected"))
    \union When(Sorted(p, "refused") > 0, "BROKEN.rate_limited", "info")
    \union Item("BROKEN.link_valid", "info", Sorted(p, "healthy"))

BrokenLinks(p) ==
    LET Scale(failures, warnings) ==
            IF failures >= 3 THEN 0 ELSE IF failures >= 1 THEN 2
            ELSE IF warnings > 2 THEN 3 ELSE IF warnings > 0 THEN 4 ELSE 5
    IN IF p.results = <<>> \/ ~p.net THEN Na({})
       ELSE Graded(
              When(p.beyond > 0, NoKey, "info")
              \union When(Sorted(p, "unverified") > 0, NoKey, "info")
              \union Item("BROKEN.checked", "pass", 1)
              \union When(Sorted(p, "broken") = 0, "BROKEN.no_broken", "pass")
              \union BrokenItems(p),
              Scale)

(****************************************************************************)
(* SPLIT_LINKS. [blocks: content blocks, links: the links of the content in *)
(* order, [to, glued, after]]: "glued" when the text before ends with a     *)
(* letter that is no unit, "after" when only blanks separate the link from  *)
(* the one before.                                                          *)
(****************************************************************************)
SplitLinksPage == [blocks : BOOLEAN,
                   links : Seq([to : STRING, glued : BOOLEAN, after : BOOLEAN])]

Chained(links, i) ==
    i > 1 /\ links[i].to # "" /\ links[i].to = links[i - 1].to /\ links[i].after
Groups(links) ==
    {i \in DOMAIN links : ~Chained(links, i) /\ i < Len(links) /\ Chained(links, i + 1)}

SplitLinks(p) ==
    LET split == Cardinality({i \in DOMAIN p.links : p.links[i].glued})
        twice == Cardinality(Groups(p.links))
    IN IF ~p.blocks THEN Na({})
       ELSE Graded(
              Judge(split = 0, "SPLIT.no_split", "pass", "SPLIT.split_found", "fail")
              \union Item("SPLIT.split_item", "info", split)
              \union Judge(twice = 0, "SPLIT.no_duplicate", "pass",
                           "SPLIT.duplicate_found", "fail")
              \union Item("SPLIT.duplicate_item", "info", twice),
              FaultScale)

(****************************************************************************)
(* NAV_STRUCTURE. [header, navs: sequence of [hidden, links], missing: the  *)
(* expected pages that no visible nav names]. The score comes from the      *)
(* missing pages and not from the items.                                    *)
(****************************************************************************)
Expected == {"home", "about", "realisations"}

NavPage == [header : BOOLEAN, navs : Seq([hidden : BOOLEAN, links : Nat]),
            missing : SUBSET Expected]

NavVerdict(missing, items) ==
    IF missing = 0 THEN Pass(items)
    ELSE IF Cardinality(Expected) - missing >= 2 THEN Warn(items, 3)
    ELSE IF Cardinality(Expected) - missing = 1 THEN Warn(items, 2)
    ELSE Fail(items, 0)

ExpectedItems(missing) ==
    (UNION {Item("NAV_STRUCTURE." \o e \o "_present", "pass", 1) : e \in Expected \ missing})
    \union (UNION {Item("NAV_STRUCTURE." \o e \o "_missing", "warning", 1) : e \in missing})

Visible(navs) == {i \in DOMAIN navs : ~navs[i].hidden}

NavStructure(p) ==
    LET visible == Visible(p.navs)
        hidden  == Cardinality(DOMAIN p.navs \ visible)
        found   == Item("NAV_STRUCTURE.nav_role_found", "pass", 1)
                   \union Item("NAV_STRUCTURE.nav_hidden", "info", hidden)
        chosen  == found \union
                   (IF Cardinality(visible) > 1
                    THEN Item("NAV_STRUCTURE.nav_detail", "info", Cardinality(visible))
                         \union Item("NAV_STRUCTURE.primary_selection", "info", 1)
                    ELSE {})
    IN IF ~p.header \/ p.navs = <<>> THEN Na({})
       ELSE IF visible = {} THEN Fail(found \union Item("NAV_STRUCTURE.all_hidden", "fail", 1), 0)
       ELSE IF p.navs[Min(visible)].links = 0
            THEN Fail(chosen \union Item("NAV_STRUCTURE.no_links", "fail", 1), 0)
       ELSE NavVerdict(Cardinality(p.missing),
              chosen \union Item("NAV_STRUCTURE.links_count", "pass", 1)
              \union ExpectedItems(p.missing))

(****************************************************************************)
(* CTA. [noButton, noPhone, noEmail, badPhone, badEmail: defects,           *)
(* emptyButtons, ctaLinks, imageLinks]                                      *)
(****************************************************************************)
CtaPage ==
    {p \in [noButton : Nat, noPhone : Nat, noEmail : Nat, badPhone : Nat, badEmail : Nat,
            emptyButtons : Nat, ctaLinks : Nat, imageLinks : Nat] :
        /\ p.noButton > 0 => p.emptyButtons = 0
        /\ p.noPhone > 0 => p.badPhone = 0
        /\ p.noEmail > 0 => p.badEmail = 0}

Contact(absent, bad, countKey, noneKey) ==
    IF absent > 0 THEN Item(noneKey, "warning", 1)
    ELSE Item(countKey, IF bad > 0 THEN "fail" ELSE "pass", 1)

Cta(p) ==
    LET noCta == /\ p.noButton > 0 /\ p.noPhone > 0 /\ p.noEmail > 0
                 /\ p.ctaLinks = 0 /\ p.imageLinks = 0
    IN Graded(
         Item("CTA.button_count", IF p.noButton > 0 THEN "warning" ELSE "pass", 1)
         \union When(p.noButton = 0 /\ p.emptyButtons > 0, "CTA.buttons_empty", "info")
         \union When(p.ctaLinks > 0, "CTA.cta_links", "pass")
         \union When(p.imageLinks > 0, "CTA.image_links", "info")
         \union Contact(p.noPhone, p.badPhone, "CTA.phone_count", "CTA.no_phone")
         \union Contact(p.noEmail, p.badEmail, "CTA.email_count", "CTA.no_email")
         \union When(noCta, "CTA.no_cta", "fail"),
         FaultScale)

(****************************************************************************)
(* ANCHOR_TEXT: whether the text of a link announces the page it leads to   *)
(* (anchor-text.analyzer.ts and anchor-text.scoring.ts).                    *)
(*                                                                          *)
(* A link is [comparable: it leads to another page of the site; text:       *)
(* "none", "paragraph", "generic", "contact" (an address, a telephone or a  *)
(* mail) or "words"; excluded, around: the zones of itself and its          *)
(* ancestors; target: "contact", "about", "shop" or "plain"; named: how     *)
(* much of the name of the company the text holds, "none", "part" or "full";*)
(* lengths: of its words, at most 10; alike: for each word, how much it or a*)
(* synonym resembles each segment of the address, in hundredths;            *)
(* family: text and address are of the same family of words].               *)
(****************************************************************************)
Anchor ==
    {a \in [comparable : BOOLEAN, text : STRING, excluded : BOOLEAN, around : SUBSET STRING,
            target : STRING, named : STRING, lengths : Seq(0..10), alike : Seq(Seq(0..100)),
            family : BOOLEAN] :
        /\ DOMAIN a.alike \subseteq DOMAIN a.lengths
        /\ \A t \in DOMAIN a.alike : Len(a.alike[t]) = Len(a.alike[1])}

AnchorPage == [anchors : Seq(Anchor)]

(* The zones of this criterion are not those of link-zone.ts: a menu wins   *)
(* over a header, a header over a footer, at any distance.                  *)
AnchorZone(link) ==
    IF "nav" \in link.around THEN "nav" ELSE IF "header" \in link.around THEN "header"
    ELSE IF "footer" \in link.around THEN "footer" ELSE "content"

Examined(link, config) ==
    /\ link.comparable
    /\ link.text \notin {"none", "paragraph"}
    /\ ~link.excluded
    /\ AnchorZone(link) \notin config.ignoreZones

(* The best resemblance of a word, and of a segment: the largest of theirs. *)
BestToken(link, t) == Max({0} \union {link.alike[t][s] : s \in DOMAIN link.alike[t]})
BestSegment(link, s) == Max({0} \union {link.alike[t][s] : t \in DOMAIN link.alike})
Segments(link) == IF link.alike = <<>> THEN {} ELSE DOMAIN link.alike[1]

(* 1.25 P R / (0.25 P + R), the precision P weighing the words by their     *)
(* length and the recall R being the mean over the segments; in hundredths, *)
(* rounded down, which no comparison with a threshold can tell.             *)
ComputeFBetaScore(link) ==
    LET words   == DOMAIN link.alike
        found   == SumFunctionOnSet([t \in words |-> link.lengths[t] * BestToken(link, t)], words)
        total   == SumFunctionOnSet([t \in words |-> link.lengths[t]], words)
        covered == SumFunctionOnSet([s \in Segments(link) |-> BestSegment(link, s)], Segments(link))
        below   == found * Cardinality(Segments(link)) + 4 * covered * total
    IN IF below = 0 THEN 0 ELSE (5 * found * covered) \div below

CategoryBonus(link) == IF link.family THEN 85 ELSE 0

PromoteAnyway(score, link, config) ==
    LET dominant == Max({0} \union {BestToken(link, t) : t \in DOMAIN link.alike})
    IN IF dominant >= 90 THEN Larger(score, config.concordant)
       ELSE IF dominant >= 85 THEN Larger(score, config.probable) ELSE score

(* A word that dominates promotes a link whose segments are all covered.    *)
PromoteByDominantToken(score, link, config) ==
    IF \A s \in Segments(link) : BestSegment(link, s) >= 60
    THEN PromoteAnyway(score, link, config) ELSE score

ClassifyByIntent(link) == link.text = "contact" /\ link.target = "contact"
ClassifyByCompany(link, config) ==
    \/ link.named = "full" /\ config.distinctive /\ link.target # "shop"
    \/ link.named # "none" /\ link.target = "about"

(* The level of a link, "ignored" for one to the shop when they are left    *)
(* out. A word or an address that says nothing is ambiguous.                *)
JudgeAnchor(link, config) ==
    LET raw   == Larger(ComputeFBetaScore(link), CategoryBonus(link))
        score == IF raw < config.concordant
                 THEN PromoteByDominantToken(raw, link, config) ELSE raw
    IN IF link.text = "generic" THEN "generic"
       ELSE IF config.excludeShop /\ link.target = "shop" THEN "ignored"
       ELSE IF ClassifyByIntent(link) \/ ClassifyByCompany(link, config) THEN "concordant"
       ELSE IF Segments(link) = {} THEN "ambiguous"
       ELSE IF score >= config.concordant THEN "concordant"
       ELSE IF score >= config.probable THEN "probable" ELSE "discordant"

(* The summary is an item too, and counts among the failures or warnings.   *)
SummaryStatus(discordant, generic, analysed) ==
    IF discordant = 0 /\ generic = 0 THEN "pass"
    ELSE IF 10 * discordant > 3 * Larger(analysed, 1) THEN "fail" ELSE "warning"

AnchorText(p, config) ==
    LET examined == {i \in DOMAIN p.anchors : Examined(p.anchors[i], config)}
        Level(l) == Cardinality({i \in examined : JudgeAnchor(p.anchors[i], config) = l})
        analysed == Level("concordant") + Level("probable")
                    + Level("ambiguous") + Level("discordant")
        reported == Smaller(Level("discordant"), config.maxReported)
        shown(l) == Item("ANCHOR_TEXT." \o l, "info", Smaller(Level(l), config.maxReported))
    IN IF ~config.anchors THEN Na({})
       ELSE IF analysed + Level("generic") = 0
            THEN Pass(Item("ANCHOR_TEXT.no_links", "pass", 1))
       ELSE Graded(
              Item("ANCHOR_TEXT.summary",
                   SummaryStatus(Level("discordant"), Level("generic"), analysed), 1)
              \union Item("ANCHOR_TEXT.discordant", "fail", reported)
              \union Item("ANCHOR_TEXT.ambiguous", "warning",
                          Smaller(Level("ambiguous"), config.maxReported - reported))
              \union shown("concordant") \union shown("probable")
              \union When(Level("generic") > 0, "ANCHOR_TEXT.generic", "warning"),
              LAMBDA failures, warnings :
                  IF failures >= 5 THEN 1 ELSE IF failures >= 3 THEN 2
                  ELSE IF failures >= 1 THEN 3 ELSE IF warnings >= 3 THEN 4 ELSE 5)
=============================================================================
