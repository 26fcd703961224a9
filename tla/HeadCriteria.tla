---------------------------- MODULE HeadCriteria ----------------------------
(****************************************************************************)
(* The criteria about the head of a page, its answer and its data: METAS,   *)
(* CANONICAL, ROBOTS_META, OPEN_GRAPH, LANG, FAVICON, REDIRECTS, TRACKING,  *)
(* STRUCTURED_DATA and DUDA_PARAMS (analysis/analyzers of the API).         *)
(*                                                                          *)
(* A field that counts defects is 0 when there is none.                     *)
(****************************************************************************)
EXTENDS Scoring

(* A text the head should hold: "none", "short", "long" or "fits".          *)
BoundedText(text, prefix) ==
    Item(prefix \o (CASE text = "none" -> "missing" [] text = "fits" -> "ok" [] OTHER -> text),
         CASE text = "none" -> "fail" [] text = "fits" -> "pass" [] OTHER -> "warning", 1)

(* METAS. [title, description, noindex, preview]                            *)
MetasPage == [title : {"none", "short", "long", "fits"},
              description : {"none", "short", "long", "fits"}, noindex : Nat, preview : BOOLEAN]

Metas(p) ==
    Graded(
        BoundedText(p.title, "METAS.title_") \union BoundedText(p.description, "METAS.desc_")
        \union (IF p.noindex = 0 THEN {}
                ELSE IF p.preview THEN Item("METAS.noindex_preview", "info", 1)
                ELSE Item("METAS.noindex", "fail", 1)),
        LAMBDA failures, warnings :
            IF failures > 1 THEN 1 ELSE IF failures = 1 THEN 2
            ELSE IF warnings > 0 THEN 3 ELSE 5)

(* CANONICAL. [tags, noHref, unreadable, otherDomain, query, http]: nothing *)
(* more is said of a tag without address, or with one that is no URL.       *)
CanonicalPage == [tags : Nat, noHref : Nat, unreadable : Nat, otherDomain : Nat,
                  query : Nat, http : Nat]

Canonical(p) ==
    LET many  == When(p.tags > 1, "CANONICAL.multiple", "fail")
        found == many \union Item("CANONICAL.url_ok", "pass", 1)
    IN IF p.tags = 0 THEN Fail(Item("CANONICAL.missing", "fail", 1), 0)
       ELSE IF p.noHref > 0 THEN Fail(many \union Item("CANONICAL.no_href", "fail", 1), 0)
       ELSE IF p.unreadable > 0
            THEN VerdictOf(found \union Item("CANONICAL.invalid_url", "fail", 1))
       ELSE VerdictOf(
              found \union When(p.otherDomain > 0, "CANONICAL.cross_domain", "warning")
              \union When(p.query > 0, "CANONICAL.query_fragment", "warning")
              \union When(p.http > 0, "CANONICAL.http", "warning"))

(* ROBOTS_META. [meta, header: what each directs; preview, resolves, net,   *)
(* exhausted; robots: the status of robots.txt, 0 for no answer]            *)
RobotsPage == [meta : SUBSET STRING, header : SUBSET STRING, preview : BOOLEAN,
               resolves : BOOLEAN, net : BOOLEAN, exhausted : BOOLEAN, robots : Nat]

RobotsTxt(p) ==
    IF ~p.resolves THEN Item("ROBOTS.robots_txt_error", "warning", 1)
    ELSE IF ~p.net THEN Item("ROBOTS.robots_txt_error", "info", 1)
    ELSE IF p.exhausted THEN Item(NoKey, "info", 1)
    ELSE CASE p.robots = 200 -> Item("ROBOTS.robots_txt_ok", "pass", 1)
           [] p.robots = 0   -> Item("ROBOTS.robots_txt_error", "warning", 1)
           [] p.robots \in {404, 410} -> Item("ROBOTS.robots_txt_missing", "warning", 1)
           [] OTHER          -> Item("ROBOTS.robots_txt_status", "warning", 1)

RobotsMeta(p) ==
    LET directives == p.meta \union p.header
    IN Graded(
         Item(IF directives = {} THEN "ROBOTS.no_directive" ELSE "ROBOTS.directive_ok", "pass", 1)
         \union (IF "noindex" \in directives
                 THEN Item("ROBOTS.noindex", IF p.preview THEN "info" ELSE "fail", 1) ELSE {})
         \union When("nofollow" \in directives, "ROBOTS.nofollow", "warning")
         \union When("noarchive" \in directives, "ROBOTS.noarchive", "warning")
         \union When(p.header # {}, "ROBOTS.x_robots_tag", "info")
         \union RobotsTxt(p),
         LAMBDA failures, warnings :
             IF failures > 0 THEN 0 ELSE IF warnings >= 2 THEN 3
             ELSE IF warnings = 1 THEN 4 ELSE 5)

(* OPEN_GRAPH. [missing: of the four properties, twitter]                   *)
OpenGraphPage == [missing : 0..4, twitter : BOOLEAN]

OpenGraph(p) ==
    VerdictOf(
        Item("OG.property", "pass", 4 - p.missing)
        \union When(p.missing > 0, "OG.missing", "warning")
        \union Judge(p.twitter, "OG.twitter_card", "pass", "OG.twitter_missing", "info"))

(* LANG. [noLang, unusual, content: what the header says, "none", "same" or *)
(* "other"; alternates, noDefault, rtl]                                     *)
LangPage == [noLang : Nat, unusual : Nat, content : {"none", "same", "other"},
             alternates : BOOLEAN, noDefault : Nat, rtl : BOOLEAN]

Lang(p) ==
    VerdictOf(
        (IF p.noLang > 0 THEN Item("LANG.missing", "fail", 1)
         ELSE Judge(p.unusual = 0, "LANG.ok", "pass", "LANG.unusual", "warning"))
        \union When(p.content # "none", "LANG.content_language", "pass")
        \union When(p.content = "other" /\ p.noLang = 0, "LANG.lang_mismatch", "warning")
        \union When(p.alternates, "LANG.hreflang_count", "pass")
        \union When(p.alternates /\ p.noDefault > 0, "LANG.hreflang_no_default", "warning")
        \union When(p.rtl, "LANG.rtl", "pass"))

(* FAVICON. [standard, apple: "none", "duda" or "own"; sizes]               *)
FaviconPage == [standard : {"none", "duda", "own"}, apple : {"none", "duda", "own"},
                sizes : BOOLEAN]

Favicon(p) ==
    IF p.standard = "none" /\ p.apple = "none" THEN Fail(Item("FAVICON.missing", "fail", 1), 0)
    ELSE VerdictOf(
           When(p.standard = "none", "FAVICON.missing", "warning")
           \union When(p.apple = "none", "FAVICON.apple_touch_missing", "warning")
           \union Item("FAVICON.duda_default", "warning",
                       (IF p.standard = "duda" THEN 1 ELSE 0) + (IF p.apple = "duda" THEN 1 ELSE 0))
           \union When(p.standard = "own", "FAVICON.present", "pass")
           \union When(p.apple = "own", "FAVICON.apple_touch", "pass")
           \union When(p.sizes, "FAVICON.sizes", "pass"))

(* REDIRECTS. [hops, temporary]                                             *)
RedirectsPage == [hops : Nat, temporary : Nat]

Redirects(p) ==
    IF p.hops = 0 THEN Pass(Item("REDIRECTS.none", "pass", 1))
    ELSE VerdictOf(
           Item("REDIRECTS.hop", "info", p.hops)
           \union When(p.hops > 1, "REDIRECTS.chain_long", "warning")
           \union When(p.temporary > 0, "REDIRECTS.temporary", "warning"))

(* TRACKING. [tools, noConsent]: with no tool consent is not asked for.     *)
TrackingPage == [tools : Nat, noConsent : Nat]

Tracking(p) ==
    VerdictOf(
        Item("TRACKING.tool_detected", "pass", p.tools)
        \union Judge(p.tools > 0, "TRACKING.count", "pass", "TRACKING.none", "warning")
        \union When(p.noConsent = 0, "TRACKING.cmp_ok", "pass")
        \union When(p.noConsent > 0 /\ p.tools > 0, "TRACKING.no_cmp", "fail"))

(* STRUCTURED_DATA. [invalid, nodes: sequence of [kind, lacks, images],     *)
(* fiveImages: required by the profile, microdata]. A node is "untyped",    *)
(* an "entity", a "breadcrumb", an empty one, or of another type.           *)
StructuredDataPage ==
    [invalid : Nat,
     nodes : Seq([kind : STRING, lacks : SUBSET {"name", "contact", "address"},
                  images : {"few", "repeated", "five"}]),
     fiveImages : BOOLEAN, microdata : BOOLEAN]

NodeItems(node, fiveImages) ==
    CASE node.kind = "untyped" -> Item("SD.type_missing", "warning", 1)
      [] node.kind = "empty breadcrumb" ->
            Item("SD.type_block", "pass", 1) \union Item("SD.breadcrumb_empty", "warning", 1)
      [] node.kind = "entity" ->
            Item("SD.type_block", "pass", 1)
            \union (UNION {Item("SD.lb_" \o f \o "_missing", "warning", 1) : f \in node.lacks})
            \union (IF ~fiveImages THEN {}
                    ELSE Item("SD.lb_five_images",
                              CASE node.images = "few" -> "fail"
                                [] node.images = "repeated" -> "warning"
                                [] node.images = "five" -> "pass", 1))
      [] OTHER -> Item("SD.type_block", "pass", 1)

StructuredData(p) ==
    LET numbered == UNION {{[key |-> i.key, status |-> i.status, n |-> i.n, node |-> k]
                              : i \in NodeItems(p.nodes[k], p.fiveImages)} : k \in DOMAIN p.nodes}
    IN Graded(
         When(p.invalid > 0, "SD.json_invalid", "fail")
         \union Judge(p.nodes # <<>>, "SD.json_ld_count", "pass", "SD.no_json_ld", "warning")
         \union When(p.microdata, "SD.microdata", "pass")
         \union numbered,
         LAMBDA failures, warnings :
             IF failures > 0 THEN 1 ELSE IF warnings >= 3 THEN 2
             ELSE IF warnings >= 1 THEN 3 ELSE 5)

(* DUDA_PARAMS. [duda, shop]: an inventory, never a judgement.              *)
DudaPage == [duda : BOOLEAN, shop : BOOLEAN]

DudaParams(p) ==
    IF ~p.duda THEN Na({})
    ELSE Na(Item(NoKey, "info", 1) \union When(p.shop, NoKey, "pass"))
=============================================================================
