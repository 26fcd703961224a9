------------------------------- MODULE Cascade -------------------------------
(****************************************************************************)
(* The style of an element (analysis/css/micro-cssom.ts, buildCSSOM): which *)
(* declarations apply to it, which of them win, what is inherited, and what *)
(* variables and keywords stand for.                                        *)
(*                                                                          *)
(* A document is [els, sheets, dark]; an element is [tag, id, classes,      *)
(* attrs, parent, text, inline]; declarations map a property to [value,     *)
(* important]. A value is [text, n, unit, var, alt, image]: a word, a       *)
(* number of hundredths with its unit, or var(name, alternative); the       *)
(* shorthand "background" may hold an image too. "" is nothing.             *)
(****************************************************************************)
EXTENDS Stylesheets

CONSTANTS
    CustomProps,   \* the names of variables
    UnseenColours, \* those COLOR_TOKEN does not match: words other than transparent and
                   \* currentcolor, hwb(), color(), and a color-mix() of these
    UaSheet        \* the text of UA_STYLESHEET

Tracked == {"color", "background-color", "background-image", "opacity", "font-style",
            "visibility", "display", "font-size", "font-weight"}
Inherited == {"color", "font-size", "font-weight", "font-style", "visibility"}
Worded == Tracked \ {"font-size", "font-weight"}

Initial == [p \in Worded |->
    CASE p = "color" -> "#000"              [] p = "background-color" -> "transparent"
      [] p = "background-image" -> "none"   [] p = "opacity" -> "1"
      [] p = "font-style" -> "normal"       [] p = "visibility" -> "visible"
      [] OTHER -> "inline"]

RootDefaults == [style |-> [Initial EXCEPT !["display"] = "block"],
                 px |-> 1600, weight |-> 400, vars |-> <<>>]

Value(text, n, unit, var, alt, image) ==
    [text |-> text, n |-> n, unit |-> unit, var |-> var, alt |-> alt, image |-> image]
Word(t) == Value(t, 0, "", "", <<>>, "")
Nothing == Word("")

(****************************************************************************)
(* Shorthands                                                               *)
(****************************************************************************)
\* The colour of a shorthand is found by its notation (COLOR_TOKEN), which
\* leaves some out.
HasColour(v) == v.var # "" \/ (v.text # "" /\ v.text \notin UnseenColours)

Missing(decls, part) == part \notin DOMAIN decls

ExpandShorthands(decls) ==
    LET has(p) == p \in DOMAIN decls
        value(p) == decls[p].value
        as(p, v, whole) == p :> [value |-> v, important |-> decls[whole].important]
        none == [p \in {} |-> p]
        image == IF has("background") /\ Missing(decls, "background-image")
                    /\ value("background").image # ""
                 THEN as("background-image", Word(value("background").image), "background")
                 ELSE none
        colour == IF has("background") /\ Missing(decls, "background-color")
                     /\ HasColour(value("background"))
                  THEN as("background-color", [value("background") EXCEPT !.image = ""],
                          "background")
                  ELSE none
        sized == has("font") /\ Missing(decls, "font-size")
        size == IF sized /\ value("font").unit # ""
                THEN as("font-size", [value("font") EXCEPT !.text = ""], "font") ELSE none
        weight == IF sized /\ Missing(decls, "font-weight") /\ value("font").text # ""
                  THEN as("font-weight", Word(value("font").text), "font") ELSE none
    IN decls @@ image @@ colour @@ size @@ weight

(****************************************************************************)
(* The rules of a document                                                  *)
(****************************************************************************)
\* The texts of the sheets of a document, in its order; read maps an address
\* to the text that was fetched from it.
Texts(doc, read) ==
    LET own == SelectSeq(doc.sheets, LAMBDA s : s.kind = "style" \/ s.ref \in DOMAIN read)
    IN <<UaSheet>> \o [i \in DOMAIN own |-> IF own[i].kind = "style" THEN own[i].ref
                                            ELSE read[own[i].ref]]

\* Only :root, html and body speak for the palette of the document.
SpeaksForPalette(sel) ==
    LET c == sel[1]
    IN /\ Len(sel) = 1 /\ c.id = "" /\ c.classes = {} /\ c.attrs = {}
       /\ \/ c.tag \in {"html", "body"} /\ c.fns = {}
          \/ c.tag = "" /\ {fn.name : fn \in c.fns} = {"root"}

PaletteOf(rule) ==
    IF \E i \in DOMAIN rule.selectors : SpeaksForPalette(rule.selectors[i])
    THEN [x \in CustomProps \intersect DOMAIN rule.decls |-> rule.decls[x].value]
    ELSE <<>>

Applies(rule) == \A i \in DOMAIN rule.media : MatchMedia(rule.media[i])

LayerIndex(layers, name) ==
    IF name = NoLayer THEN 0 ELSE CHOOSE i \in DOMAIN layers : layers[i] = name

\* A number for each selector, whether it reaches an element or not.
AddRule(els, layers, acc, rule) ==
    IF ~Applies(rule) THEN acc
    ELSE [acc EXCEPT
            !.palette = PaletteOf(rule) @@ @,
            !.entries = @ \o [i \in DOMAIN rule.selectors |->
                [decls |-> rule.decls, spec |-> Specificity(rule.selectors[i]),
                 order |-> acc.order + i, layer |-> LayerIndex(layers, rule.layer),
                 inline |-> FALSE, nodes |-> NodesFor(els, rule.selectors[i])]],
            !.order = @ + Len(rule.selectors)]

AddSheet(els, acc, text) ==
    LET cut == ParseTopLevelSheet(text, acc.page, acc.cache)
        added == FoldLeft(LAMBDA a, rule : AddRule(els, cut.page.layers, a, rule),
                          acc, cut.page.rules)
    IN [added EXCEPT !.page = cut.page, !.cache = cut.cache]

BuildCSSOM(doc, read, cache) ==
    FoldLeft(LAMBDA acc, text : AddSheet(doc.els, acc, text),
             [page |-> Fresh, cache |-> cache, palette |-> <<>>, entries |-> <<>>, order |-> 0],
             Texts(doc, read))

(****************************************************************************)
(* The cascade                                                              *)
(****************************************************************************)
Infinity == 1000000

LayerScoreUnturned(c) == IF c.layer # 0 THEN c.layer ELSE Infinity

LayerScore(c) ==
    CASE c.important /\ c.layer # 0 -> -c.layer
      [] c.important -> -Infinity
      [] c.layer # 0 -> c.layer
      [] OTHER -> Infinity

PriorityRank(c) ==
    <<IF c.important THEN 1 ELSE 0, IF c.inline THEN 1 ELSE 0, LayerScore(c),
      c.spec[1], c.spec[2], c.spec[3], c.order>>

CascadeWins(x, y) ==
    LET a == PriorityRank(x)
        b == PriorityRank(y)
    IN \E i \in DOMAIN a : a[i] > b[i] /\ \A j \in 1..(i - 1) : a[j] = b[j]

\* The declarations of an element, those of its style attribute last.
EntriesOf(doc, cssom, e) ==
    SelectSeq(cssom.entries, LAMBDA r : e \in r.nodes)
    \o <<[decls |-> doc.els[e].inline, spec |-> <<0, 0, 0>>, order |-> Infinity,
          layer |-> 0, inline |-> TRUE, nodes |-> {e}]>>

Candidate(r, decl) ==
    [value |-> decl.value, important |-> decl.important, inline |-> r.inline,
     spec |-> r.spec, order |-> r.order, layer |-> r.layer]

\* The candidates for each property, in their order.
Candidates(doc, cssom, e) ==
    LET rules == EntriesOf(doc, cssom, e)
        all   == [i \in DOMAIN rules |-> ExpandShorthands(rules[i].decls)]
        props == UNION {DOMAIN all[i] : i \in DOMAIN all}
        with(p) == SelectSeq([i \in DOMAIN rules |-> i], LAMBDA i : p \in DOMAIN all[i])
    IN [p \in props |-> [k \in DOMAIN with(p) |->
           Candidate(rules[with(p)[k]], all[with(p)[k]][p])]]

Winner(cands) ==
    FoldLeft(LAMBDA best, c : IF CascadeWins(c, best) THEN c ELSE best, Head(cands), Tail(cands))

ResolveDeclarations(doc, cssom, e) ==
    LET cands == Candidates(doc, cssom, e)
    IN [p \in DOMAIN cands |-> Winner(cands[p]).value]

(****************************************************************************)
(* Variables, keywords and sizes                                            *)
(****************************************************************************)
RECURSIVE SubstituteVars(_, _, _)
SubstituteVars(v, registry, seen) ==
    CASE v.var = "" -> v
      [] v.var \in DOMAIN registry \ seen ->
           SubstituteVars(registry[v.var], registry, seen \union {v.var})
      [] v.alt # <<>> -> SubstituteVars(v.alt[1], registry, seen)
      [] OTHER -> Nothing

\* What get(p) gives for a declared value: the variables of the element, then
\* the palette of the document, then the mark of what cannot be resolved.
Resolve(v, vars, palette) ==
    LET own == SubstituteVars(v, vars, {})
    IN IF own # Nothing THEN own ELSE SubstituteVars(v, palette, {})

RECURSIVE ResolveFontSize(_, _, _)
ResolveFontSize(v, parent, root) ==
    CASE v.text = "initial" -> 1600
      [] v.text = "x-small" -> 1200
      [] v.text = "medium"  -> 1600
      [] v.text = "x-large" -> 2400
      [] v.text = "larger"  -> (12 * parent) \div 10
      [] v.text = "smaller" -> (10 * parent) \div 12
      [] v.unit = "clamp"   -> ResolveFontSize(v.alt[1], parent, root)
      [] v.unit = "px"      -> v.n
      [] v.unit = "pt"      -> (v.n * 96) \div 72
      [] v.unit = "em"      -> (v.n * parent) \div 100
      [] v.unit = "rem"     -> (v.n * root) \div 100
      [] v.unit = "%"       -> (v.n * parent) \div 10000
      [] v.unit = "vw"      -> (v.n * 1920) \div 100
      [] v.unit = "vh"      -> (v.n * 1080) \div 100
      [] OTHER -> parent

ResolveFontWeight(v, parent) ==
    CASE v.text \in {"normal", "initial"} -> 400
      [] v.text = "bold"    -> 700
      [] v.text = "bolder"  -> IF parent < 700 THEN 700 ELSE 900
      [] v.text = "lighter" -> IF parent > 400 THEN 400 ELSE 100
      [] v.unit = "weight"  -> v.n
      [] OTHER -> parent

ResolveKeyword(p, t, parent) ==
    CASE t = "inherit" -> parent[p]
      [] t = "initial" -> Initial[p]
      [] t \in {"unset", "revert"} -> IF p \in Inherited THEN parent[p] ELSE Initial[p]
      [] OTHER -> t

(****************************************************************************)
(* The computed style                                                       *)
(****************************************************************************)
RECURSIVE ComputedStyle(_, _, _, _)
\* One property that is a word, from the declaration that won, if any. colour:
\* what currentcolor stands for.
Computed(p, decls, vars, palette, parent, colour) ==
    IF p \notin DOMAIN decls
    THEN IF p \in Inherited THEN parent[p] ELSE Initial[p]
    ELSE LET v == Resolve(decls[p], vars, palette)
             t == ResolveKeyword(p, v.text, parent)
         IN CASE v = Nothing -> Initial[p]
              [] t = "currentcolor" -> colour
              [] OTHER -> t

StyleOver(parent, decls, palette, rootPx) ==
    LET own  == [x \in CustomProps \intersect DOMAIN decls |-> decls[x]]
        vars == own @@ parent.vars
        get(p) == IF p \in DOMAIN decls THEN Resolve(decls[p], vars, palette) ELSE Nothing
        word(p, colour) == Computed(p, decls, vars, palette, parent.style, colour)
        colour == word("color", parent.style["color"])
    IN [style  |-> [p \in Worded |-> IF p = "color" THEN colour ELSE word(p, colour)],
        px     |-> ResolveFontSize(get("font-size"), parent.px, rootPx),
        weight |-> ResolveFontWeight(get("font-weight"), parent.weight),
        vars   |-> vars]

ComputedStyle(doc, cssom, e, rootPx) ==
    LET above == doc.els[e].parent
    IN StyleOver(IF above = 0 THEN RootDefaults ELSE ComputedStyle(doc, cssom, above, rootPx),
                 ResolveDeclarations(doc, cssom, e), cssom.palette, rootPx)

\* The style of every element. A rem is the size of the root, itself computed
\* with sixteen pixels to the rem.
StylesOf(doc, cssom) ==
    LET root == CHOOSE e \in DOMAIN doc.els : doc.els[e].parent = 0
        rem  == ComputedStyle(doc, cssom, root, 1600).px
    IN [e \in DOMAIN doc.els |-> ComputedStyle(doc, cssom, e, rem)]
=============================================================================
