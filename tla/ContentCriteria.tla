--------------------------- MODULE ContentCriteria ---------------------------
(****************************************************************************)
(* The criteria about the body of a page: HN_STRUCTURE, HN_LENGTH,          *)
(* CONTENT_LENGTH, BOLD, IMAGES, DUPLICATE_IMAGES, LOGO, PICTOGRAM,         *)
(* ACCESSIBILITY and CONTRAST_V2 (analysis/analyzers of the API).           *)
(*                                                                          *)
(* A field that counts defects is 0 when there is none.                     *)
(****************************************************************************)
EXTENDS Scoring

(* HN_STRUCTURE. [headings: sequence of levels, words: whether some come    *)
(* back in the h1 and h2]. An insufficient number of h2 is reported only    *)
(* under an h1.                                                             *)
HnPage == [headings : Seq(1..6), words : BOOLEAN]

Hn(p) ==
    LET h == p.headings
        Count(level) == Cardinality({i \in DOMAIN h : h[i] = level})
        jumps == Cardinality({i \in 1..(Len(h) - 1) : h[i + 1] > h[i] + 1})
    IN IF h = <<>> THEN Fail({}, 0)
       ELSE Graded(
              Item(CASE Count(1) = 0 -> "HN.h1_missing"
                     [] Count(1) = 1 -> "HN.h1_unique"
                     [] OTHER -> "HN.h1_duplicate",
                   IF Count(1) = 1 THEN "pass" ELSE "fail", 1)
              \union When(h[1] # 1, "HN.first_not_h1", "warning")
              \union When(Count(1) > 0 /\ Count(2) < 2, "HN.h2_insufficient", "warning")
              \union When(Count(2) >= 2, "HN.h2_count", "pass")
              \union Item("HN.hierarchy_break", "warning", jumps)
              \union When(jumps = 0, "HN.hierarchy_ok", "pass")
              \union When(p.words, "HN.common_words", "info"),
              GradedScale)

(* HN_LENGTH. [short, long, fitting: the h1 and h2 by length]               *)
HnLengthPage == [short : Nat, long : Nat, fitting : Nat]

HnLength(p) ==
    IF p.short + p.long + p.fitting = 0 THEN Pass(Item("HN_LENGTH.no_h1_h2", "info", 1))
    ELSE Graded(Item("HN_LENGTH.too_short", "fail", p.short)
                \union Item("HN_LENGTH.too_long", "warning", p.long)
                \union Item("HN_LENGTH.ok", "pass", p.fitting), GradedScale)

(* CONTENT_LENGTH. [words], against the thresholds <<least, wished>> of the *)
(* profile or of the last page rule that has some.                          *)
ContentPage == [words : Nat]

ContentLength(p, thresholds) ==
    IF p.words < thresholds[1] THEN Fail(Item("CONTENT.too_short", "fail", 1), 2)
    ELSE IF p.words < thresholds[2] THEN Warn(Item("CONTENT.short", "warning", 1), 3)
    ELSE Pass(Item("CONTENT.ok", "pass", 1))

(* BOLD. [count: "none", "few", "many" or "fits"; poor, empty]              *)
BoldPage == {p \in [count : {"none", "few", "many", "fits"}, poor : Nat, empty : Nat] :
                p.count = "none" => p.poor = 0 /\ p.empty = 0}

Bold(p) ==
    IF p.count = "none" THEN Warn(Item("BOLD.none", "warning", 1), 2)
    ELSE Graded(
           Judge(p.count = "fits", "BOLD.count_ok", "pass", "BOLD.too_" \o p.count, "warning")
           \union Judge(p.poor = 0, "BOLD.context_ok", "pass", "BOLD.context_poor", "warning")
           \union When(p.empty > 0, "BOLD.empty", "fail"),
           LAMBDA failures, warnings :
               IF failures > 0 THEN 1 ELSE IF warnings >= 2 THEN 3
               ELSE IF warnings = 1 THEN 4 ELSE 5)

(* IMAGES. [images, noAlt, decorative, heavy, borderline, unverified,       *)
(* beyond, legacy, net]: the weights are asked of the probe.                *)
ImagesPage ==
    [images : Nat, noAlt : Nat, decorative : BOOLEAN, heavy : Nat, borderline : Nat,
     unverified : Nat, beyond : BOOLEAN, legacy : Nat, net : BOOLEAN]

ImageWeights(p) ==
    IF ~p.net THEN Item(NoKey, "info", 1)
    ELSE When(p.heavy > 0, "IMAGES.weight_fail", "fail")
         \union When(p.borderline > 0, "IMAGES.weight_warn", "warning")
         \union When(p.heavy = 0 /\ p.borderline = 0, "IMAGES.weight_ok", "pass")
         \union When(p.unverified > 0, NoKey, "info")
         \union When(p.beyond, NoKey, "info")

Images(p) ==
    IF p.images = 0 THEN Na({})
    ELSE Graded(
           Judge(p.noAlt = 0, "IMAGES.alt_present", "pass", "IMAGES.alt_missing", "fail")
           \union When(p.decorative, "IMAGES.decorative", "pass")
           \union ImageWeights(p)
           \union When(p.legacy > 0, "IMAGES.format_modern", "warning"),
           LAMBDA failures, warnings :
               IF failures >= 2 THEN 0 ELSE IF failures = 1 THEN 2
               ELSE IF warnings > 1 THEN 3 ELSE IF warnings = 1 THEN 4 ELSE 5)

(* DUPLICATE_IMAGES. [images, logos, twice]                                 *)
DuplicateImagesPage == [images : Nat, logos : BOOLEAN, twice : Nat]

DuplicateImages(p) ==
    IF p.images = 0 THEN Na({})
    ELSE VerdictOf(
           Item("DUP.unique_count", "pass", 1) \union When(p.logos, "DUP.logos", "info")
           \union Judge(p.twice = 0, "DUP.no_duplicates", "pass", "DUP.duplicates", "warning"))

(* LOGO. [found, alt: "set", "missing" or "empty"; link: "homepage",        *)
(* "other_page", "external", "no_href" or "none"; noTitle, noSrc]: the      *)
(* title is looked at only when there is a link.                            *)
LogoPage ==
    [found : Nat, alt : {"set", "missing", "empty"}, noTitle : Nat, noSrc : Nat,
     link : {"homepage", "other_page", "external", "no_href", "none"}]

LogoLink(p) ==
    IF p.link = "none" THEN Item("LOGO.not_clickable", "warning", 1)
    ELSE Item("LOGO.link_" \o p.link, IF p.link = "homepage" THEN "pass" ELSE "warning", 1)
         \union Judge(p.noTitle = 0, "LOGO.link_title_ok", "pass",
                      "LOGO.link_title_missing", "warning")

Logo(p) ==
    IF p.found = 0 THEN Fail(Item("LOGO.not_found", "fail", 1), 0)
    ELSE Graded(
           Judge(p.alt = "set", "LOGO.alt_ok", "pass", "LOGO.alt_" \o p.alt, "fail")
           \union LogoLink(p)
           \union Judge(p.noSrc = 0, "LOGO.src_ok", "pass", "LOGO.src_missing", "fail"),
           LAMBDA failures, warnings :
               IF failures > 0 THEN 1 ELSE IF warnings >= 3 THEN 2
               ELSE IF warnings = 2 THEN 3 ELSE IF warnings = 1 THEN 4 ELSE 5)

(* PICTOGRAM. [icons: the libraries in use; mute: Font Awesome icons with   *)
(* neither label nor text, unloaded, svg, bare: SVG that say nothing]       *)
PictogramPage == [icons : SUBSET {"fa", "mi", "bi", "svg"}, mute : Nat, unloaded : Nat,
                  bare : Nat]

Pictogram(p) ==
    LET fontAwesome == "fa" \in p.icons
    IN Graded(
         (UNION {Item("PICTO." \o l \o "_count", "pass", 1) : l \in p.icons})
         \union When(fontAwesome /\ p.mute > 0, "PICTO.fa_accessibility", "warning")
         \union When(fontAwesome /\ p.unloaded > 0, "PICTO.fa_not_loaded", "warning")
         \union When("svg" \in p.icons /\ p.bare > 0, "PICTO.svg_accessibility", "warning")
         \union Item(IF p.icons = {} THEN "PICTO.no_icons" ELSE "PICTO.total", "pass", 1),
         LAMBDA failures, warnings :
             IF failures > 0 THEN 1 ELSE IF warnings >= 2 THEN 3
             ELSE IF warnings = 1 THEN 4 ELSE 5)

(* ACCESSIBILITY. [noSkip, noLandmark, noAlt, nameless, fields, unlabelled, *)
(* tabindex, roles, noLang]                                                 *)
AccessibilityPage ==
    [noSkip : Nat, noLandmark : Nat, noAlt : Nat, nameless : Nat, fields : BOOLEAN,
     unlabelled : Nat, tabindex : Nat, roles : Nat, noLang : Nat]

Controls(p) ==
    (IF ~p.fields THEN {}
     ELSE Judge(p.unlabelled = 0, "A11Y.form_labeled", "pass", "A11Y.form_no_label", "fail"))
    \union When(p.tabindex > 0, "A11Y.tabindex_positive", "warning")
    \union When(p.roles > 0, "A11Y.aria_invalid", "warning")
    \union When(p.noLang > 0, "A11Y.lang_missing", "fail")

Accessibility(p) ==
    Graded(
        Judge(p.noSkip = 0, "A11Y.skip_ok", "pass", "A11Y.skip_missing", "warning")
        \union Judge(p.noLandmark = 0, "A11Y.structure_ok", "pass",
                     "A11Y.structure_incomplete", "warning")
        \union Judge(p.noAlt = 0, "A11Y.img_alt_ok", "pass", "A11Y.img_alt_missing", "fail")
        \union Judge(p.nameless = 0, "A11Y.links_ok", "pass", "A11Y.links_empty", "fail")
        \union Controls(p),
        LAMBDA failures, warnings :
            IF failures >= 3 THEN 0 ELSE IF failures = 2 THEN 1
            ELSE IF failures = 1 THEN (IF warnings >= 1 THEN 2 ELSE 3)
            ELSE IF warnings >= 3 THEN 3 ELSE IF warnings >= 1 THEN 4 ELSE 5)

(* CONTRAST_V2. [conform, low, review: texts; groups: pairs of colours the  *)
(* first two show; unread: style sheets not read, cut]. The score is the    *)
(* share of conforming texts, rounded to a tenth.                           *)
ContrastPage ==
    {p \in [conform : Nat, low : Nat, review : Nat, groups : Nat, unread : BOOLEAN,
            cut : BOOLEAN] : p.conform + p.low > 0 => p.groups > 0}

Contrast(p) ==
    LET scored == p.conform + p.low
        items  == Item("CONTRAST_V2.low", "fail", Smaller(p.low, p.groups))
                  \union Item("CONTRAST_V2.review", "info", p.review)
                  \union Item("CONTRAST_V2.ok", "pass", Smaller(p.conform, p.groups))
                  \union When(p.unread, NoKey, "info") \union When(p.cut, NoKey, "info")
        share  == (100 * p.conform + scored) \div (2 * scored)
    IN IF scored + p.review = 0 THEN Na({})
       ELSE IF scored = 0 THEN Na(items)
       ELSE Result(IF p.low > 0 THEN "fail" ELSE "pass", share, items)
=============================================================================
