------------------------------ MODULE MCCriteria -----------------------------
(****************************************************************************)
(* Instance of Criteria: for each criterion some pages, profiles and things *)
(* to set right. Every analyser meets each of its verdicts and each of its  *)
(* early answers.                                                           *)
(****************************************************************************)
EXTENDS Criteria

Bool == {0, 1}
Tuples(S, n) == UNION {[1..k -> S] : k \in 0..n}

(****************************************************************************)
(* Links                                                                    *)
(****************************************************************************)
Link(to, follow, button, around) ==
    [to |-> to, follow |-> follow, button |-> button, around |-> around]
SomeLinks == {
    Link("internal", FALSE, FALSE, <<>>), Link("external", TRUE, FALSE, <<{"footer"}>>),
    Link("bad phone", FALSE, TRUE, <<{"fcontainer"}>>), Link("bad mail", FALSE, FALSE, <<>>),
    Link("nowhere", FALSE, FALSE, <<{"shop"}>>), Link("self", FALSE, FALSE, <<{}, {"content"}>>),
    Link("self", FALSE, FALSE, <<{"hero"}, {"header"}>>), Link("section", FALSE, TRUE, <<>>)}

Answer(exhausted, status, social, moved) ==
    [exhausted |-> exhausted, status |-> status, social |-> social, moved |-> moved]
SomeAnswers == {
    Answer(FALSE, 200, FALSE, FALSE), Answer(FALSE, 200, FALSE, TRUE),
    Answer(FALSE, 404, FALSE, TRUE), Answer(FALSE, 429, TRUE, FALSE),
    Answer(FALSE, 429, FALSE, FALSE), Answer(FALSE, 0, FALSE, FALSE),
    Answer(TRUE, 0, FALSE, FALSE)}

SomeNavs == [hidden : BOOLEAN, links : {0, 3}]
SomeContentLinks == [to : {"a", "b", ""}, glued : {FALSE}, after : BOOLEAN]
                    \union {[to |-> "a", glued |-> TRUE, after |-> FALSE]}

LinkPages == [links : Tuples(SomeLinks, 2)]
BrokenLinksPages ==
    [results : Tuples(SomeAnswers, 2)
               \union [1..3 -> {Answer(FALSE, 404, FALSE, FALSE), Answer(FALSE, 0, FALSE, FALSE)}],
     beyond : {0}, net : {TRUE}]
    \union [results : {<<Answer(FALSE, 404, FALSE, FALSE)>>}, beyond : {1}, net : BOOLEAN]
SplitLinksPages == [blocks : {TRUE}, links : Tuples(SomeContentLinks, 3)]
                   \union [blocks : {FALSE}, links : {<<>>}]
NavPages == [header : {TRUE}, navs : Tuples(SomeNavs, 2), missing : SUBSET Expected]
            \union [header : {FALSE}, navs : {<<>>}, missing : {Expected}]
CtaPages ==
    {p \in [noButton : Bool, noPhone : Bool, noEmail : Bool, badPhone : Bool, badEmail : Bool,
            emptyButtons : Bool, ctaLinks : Bool, imageLinks : Bool] :
        /\ p.noButton = 1 => p.emptyButtons = 0
        /\ p.noPhone = 1 => p.badPhone = 0
        /\ p.noEmail = 1 => p.badEmail = 0}

(****************************************************************************)
(* The law and the editor                                                   *)
(****************************************************************************)
LegalPages ==
    {p \in [noLegal : Bool, dead : Bool, noPrivacy : Bool, noConsent : Bool, solocal : Bool,
            resolves : BOOLEAN, net : {TRUE}, exhausted : BOOLEAN, terms : {TRUE},
            editor : {TRUE}, hostHere : BOOLEAN, hostThere : BOOLEAN] :
        /\ p.exhausted => p.resolves /\ p.dead = 0
        /\ p.noLegal = 1 => p.dead = 0 /\ ~p.exhausted}
LegalDataPages ==
    [duda : {TRUE}, legalPage : {TRUE}, widget : {"bindings", "config"},
     unbound : {{}, {"siret"}, {"tva", "ordre"}, Optional}, unread : {{}, {"rcs"}},
     empty : {{}, {"siret"}, {"rcs"}, {"adresse", "email", "juridique"}},
     rcs : {"good", "malformed", "other company"}]
    \union [duda : BOOLEAN, legalPage : BOOLEAN, widget : {"none"}, unbound : {{}}, unread : {{}},
            empty : {{}}, rcs : {"good"}]
BindingPages ==
    {p \in [duda : {TRUE}, noFooter : Bool, noField : Bool, emptyFields : Bool,
            noBinding : Bool, active : Bool, emptyBindings : Bool, noLogo : Bool,
            joined : {{}, {"ctc", "map"}}, loose : {{}, {"map", "hours"}},
            form : {"none", "encrypted", "loose"}] :
        /\ p.noField = 1 => p.emptyFields = 0
        /\ p.noBinding = 1 => p.emptyBindings = 0 /\ p.active = 0}
    \union [duda : {FALSE}, noFooter : {1}, noField : {1}, emptyFields : {0}, noBinding : {1},
            active : {0}, emptyBindings : {0}, noLogo : {1}, joined : {{}}, loose : {{}},
            form : {"none"}]

(****************************************************************************)
(* The head                                                                 *)
(****************************************************************************)
Texts == {"none", "short", "long", "fits"}
MetasPages == [title : Texts, description : Texts, noindex : Bool, preview : BOOLEAN]
CanonicalPages == [tags : 0..2, noHref : Bool, unreadable : Bool, otherDomain : Bool,
                   query : Bool, http : Bool]
RobotsPages ==
    [meta : SUBSET {"noindex", "nofollow", "noarchive"}, header : {{}, {"noindex"}},
     preview : BOOLEAN, resolves : {TRUE}, net : {TRUE}, exhausted : BOOLEAN,
     robots : {200, 404, 0}]
    \union [meta : {{}}, header : {{}}, preview : {FALSE}, resolves : BOOLEAN, net : BOOLEAN,
            exhausted : {FALSE}, robots : {500}]
OpenGraphPages == [missing : 0..4, twitter : BOOLEAN]
LangPages ==
    {p \in [noLang : Bool, unusual : Bool, content : {"none", "same", "other"},
            alternates : BOOLEAN, noDefault : Bool, rtl : BOOLEAN] :
        p.noLang = 1 => p.unusual = 0}
FaviconPages == [standard : {"none", "duda", "own"}, apple : {"none", "duda", "own"},
                 sizes : BOOLEAN]
RedirectsPages == {p \in [hops : 0..3, temporary : Bool] : p.hops = 0 => p.temporary = 0}
TrackingPages == [tools : 0..2, noConsent : Bool]
Node(kind, lacks, images) == [kind |-> kind, lacks |-> lacks, images |-> images]
SomeNodes == {Node("untyped", {}, "five"), Node("empty breadcrumb", {}, "five"),
              Node("other", {}, "five"), Node("entity", {"name", "contact", "address"}, "few"),
              Node("entity", {"contact"}, "repeated"), Node("entity", {}, "five")}
StructuredPages == [invalid : Bool, nodes : Tuples(SomeNodes, 2), fiveImages : BOOLEAN,
                    microdata : {FALSE}]
DudaPages == [duda : BOOLEAN, shop : BOOLEAN]

(****************************************************************************)
(* The body                                                                 *)
(****************************************************************************)
HnPages == [headings : Tuples({1, 2, 3, 5}, 3), words : {FALSE}]
HnLengthPages == [short : 0..4, long : 0..3, fitting : 0..1]
ContentPages == [words : {0, 1, 3, 5}]
BoldPages == [count : {"few", "many", "fits"}, poor : Bool, empty : Bool]
             \union [count : {"none"}, poor : {0}, empty : {0}]
ImagesPages ==
    [images : {3}, noAlt : Bool, decorative : {FALSE}, heavy : Bool, borderline : Bool,
     unverified : Bool, beyond : BOOLEAN, legacy : Bool, net : BOOLEAN]
    \union [images : {0}, noAlt : {0}, decorative : {FALSE}, heavy : {0}, borderline : {0},
            unverified : {0}, beyond : {FALSE}, legacy : {0}, net : {TRUE}]
DuplicatePages == [images : {0, 4}, logos : {FALSE}, twice : {0}]
                  \union [images : {4}, logos : {TRUE}, twice : Bool]
LogoPages ==
    [found : Bool, alt : {"set", "missing", "empty"}, noTitle : Bool, noSrc : Bool,
     link : {"homepage", "other_page", "external", "no_href", "none"}]
PictogramPages == [icons : {{}, {"fa"}, {"svg", "mi"}, {"fa", "svg"}}, mute : Bool,
                   unloaded : Bool, bare : Bool]
AccessPages ==
    [noSkip : Bool, noLandmark : Bool, noAlt : Bool, nameless : Bool, fields : {TRUE},
     unlabelled : Bool, tabindex : Bool, roles : {0}, noLang : Bool]
ContrastPages ==
    {p \in [conform : {0, 1, 199}, low : 0..2, review : Bool, groups : 1..2, unread : {FALSE},
            cut : BOOLEAN] : p.cut => p.conform = 199}

(****************************************************************************)
(* The texts of links                                                       *)
(****************************************************************************)
Text(text, target, named, lengths, alike, family) ==
    [comparable |-> TRUE, text |-> text, excluded |-> FALSE, around |-> {}, target |-> target,
     named |-> named, lengths |-> lengths, alike |-> alike, family |-> family]
SomeAnchors == {
    [Text("words", "plain", "none", <<7>>, <<<<0>>>>, FALSE) EXCEPT !.around = {"nav", "footer"}],
    Text("words", "plain", "none", <<7, 9>>, <<<<100, 0>>, <<0, 40>>>>, FALSE),
    Text("words", "plain", "none", <<4, 10>>, <<<<0, 20>>, <<0, 0>>>>, FALSE),
    Text("words", "plain", "none", <<6>>, <<<<0, 87>>>>, FALSE),
    Text("words", "plain", "none", <<6>>, <<<<10>>>>, TRUE),
    Text("words", "plain", "none", <<3, 3>>, <<>>, FALSE),
    Text("words", "shop", "full", <<8>>, <<<<0>>>>, FALSE),
    Text("words", "about", "part", <<8>>, <<<<0>>>>, FALSE),
    Text("contact", "contact", "none", <<5>>, <<<<0>>>>, FALSE),
    Text("generic", "plain", "none", <<3>>, <<<<0>>>>, FALSE)}
(* Three on a page: those that announce nothing, whose number counts.       *)
Silent == {a \in SomeAnchors :
             a.text = "generic" \/ a.alike \in {<<>>, <<<<0, 20>>, <<0, 0>>>>}}
Discordant == Text("words", "plain", "none", <<4, 10>>, <<<<0, 20>>, <<0, 0>>>>, FALSE)
AnchorPages == [anchors : Tuples(SomeAnchors, 2) \union [1..3 -> Silent]
                          \union [1..4 -> {Discordant}]]

(****************************************************************************)
(* Constants                                                                *)
(****************************************************************************)
MCPages == [
    LINKS |-> LinkPages, BROKEN_LINKS |-> BrokenLinksPages, SPLIT_LINKS |-> SplitLinksPages,
    NAV_STRUCTURE |-> NavPages, CTA |-> CtaPages, MENTIONS_LEGALES |-> LegalPages,
    MENTIONS_LEGALES_DATA |-> LegalDataPages, DATA_BINDING |-> BindingPages,
    METAS |-> MetasPages, CANONICAL |-> CanonicalPages, ROBOTS_META |-> RobotsPages,
    OPEN_GRAPH |-> OpenGraphPages, LANG |-> LangPages, FAVICON |-> FaviconPages,
    REDIRECTS |-> RedirectsPages, TRACKING |-> TrackingPages, STRUCTURED_DATA |-> StructuredPages,
    DUDA_PARAMS |-> DudaPages, HN_STRUCTURE |-> HnPages, HN_LENGTH |-> HnLengthPages,
    CONTENT_LENGTH |-> ContentPages, BOLD |-> BoldPages, IMAGES |-> ImagesPages,
    DUPLICATE_IMAGES |-> DuplicatePages, LOGO |-> LogoPages, PICTOGRAM |-> PictogramPages,
    ACCESSIBILITY |-> AccessPages, CONTRAST_V2 |-> ContrastPages, ANCHOR_TEXT |-> AnchorPages]

Every == DOMAIN MCPages
Plain == [disabled |-> {}, enabled |-> Every, informational |-> {}, absent |-> {},
          weights |-> [c \in {} |-> 0], words |-> <<2, 4>>, rules |-> <<>>,
          anchors |-> TRUE, concordant |-> 60, probable |-> 35, maxReported |-> 2,
          ignoreZones |-> {"nav", "header", "footer"}, excludeShop |-> FALSE,
          distinctive |-> TRUE]

(* The rules of the site name the pages that have a word in their address.  *)
Ruled(c) == [Plain EXCEPT !.rules = <<
    [patterns |-> {"contact"}, disabled |-> {}, words |-> <<1, 2>>],
    [patterns |-> {"/"}, disabled |-> {}, words |-> <<4, 5>>],
    [patterns |-> {"contact", "legal"}, disabled |-> {c}, words |-> <<>>]>>]

Weighing(c, w) == [Plain EXCEPT !.weights = [k \in {c} |-> w]]
Few == {"TRACKING", "OPEN_GRAPH", "REDIRECTS", "DUDA_PARAMS", "CONTENT_LENGTH",
        "DUPLICATE_IMAGES"}
MCProfiles == [c \in Every |->
    {Plain} \union {[Plain EXCEPT !.absent = {k}] : k \in SubChecksOf(c)}
    \union (IF c \in Few THEN {Ruled(c), Weighing(c, 9), Weighing(c, -3),
                               [Plain EXCEPT !.enabled = {"MENTIONS_LEGALES_DATA"}]}
            ELSE IF c = "ANCHOR_TEXT"
            THEN {[Plain EXCEPT !.excludeShop = TRUE, !.distinctive = FALSE, !.maxReported = 1],
                  [Plain EXCEPT !.anchors = FALSE], [Plain EXCEPT !.maxReported = 4]}
            ELSE {})]

(* From the plain profile only: the criterion switched off, only listed     *)
(* with its parent, indicative, or made twice as heavy.                     *)
MCRetuned(c, s) ==
    IF s # Plain THEN {}
    ELSE {[Plain EXCEPT !.disabled = {c}], [Plain EXCEPT !.informational = {c}],
          [Plain EXCEPT !.enabled = {"MENTIONS_LEGALES_DATA"}], Weighing(c, 2 * DefaultWeight)}

Shown(score, status) == [score |-> score, summary |-> [c \in {"LOGO"} |-> status]]
None == [u \in {} |-> 0]
Alone == [rest |-> Result("warning", 35, {}), before |-> None, after |-> None,
          address |-> [readable |-> TRUE, path |-> {"contact"}]]
Sides == {None} \union [{0} -> {Shown(40, "pass"), Shown(50, "na"), Shown(NoScore, "fail")}]
         \union [{0, 2} -> {Shown(40, "warning"), Shown(30, "pass")}]
(* The other pages of the site with one criterion, the addresses that a     *)
(* rule may name with another.                                              *)
MCCompanies == [c \in Every |->
    CASE c = "TRACKING" ->
            [rest : {Alone.rest, Na({})}, before : Sides, after : Sides,
             address : {Alone.address}]
      [] c = "CONTENT_LENGTH" ->
            [rest : {Alone.rest, Na({})}, before : {None},
             after : {None, [u \in {0} |-> Shown(40, "pass")]},
             address : {[readable |-> FALSE, path |-> {"contact"}],
                        [readable |-> TRUE, path |-> {}], Alone.address}]
      [] OTHER -> {Alone}]
=============================================================================
