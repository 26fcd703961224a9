---------------------------- MODULE ContrastAudit ----------------------------
(****************************************************************************)
(* The contrast of the texts of a page (analysis/css/contrast-resolver.ts   *)
(* and analyzers/contrast.analyzer.ts): the background a text is really     *)
(* read on, the worst case of a gradient, what cannot be measured, and what *)
(* the report says of what it has not seen.                                 *)
(****************************************************************************)
EXTENDS Cascade, Colours

CONSTANTS
    Images,       \* [text of a background-image -> [url, layers, stops]]
    Opacities,    \* [text of an opacity -> quarters]
    Audited,      \* DEFAULT_SELECTOR: the tags whose text is measured
    MaxElements   \* maxElements

\* A style here is what ComputedStyle gives.
Paint(s) == s.style["background-image"]
HasPaint(s) == Paint(s) # "none"
HasUrl(s) == HasPaint(s) /\ Images[Paint(s)].url

\* An opacity that is not a number changes nothing.
OpacityOf(s) ==
    LET t == s.style["opacity"] IN IF t \in DOMAIN Opacities THEN Opacities[t] ELSE Solid

\* The stops of a gradient of one layer, those whose colour can be read.
GradientStops(s) ==
    LET image == Images[Paint(s)]
        read == SelectSeq([i \in DOMAIN image.stops |-> ParseColor(image.stops[i])],
                          LAMBDA c : c # NoColour)
    IN IF image.url \/ image.layers > 1 THEN <<>> ELSE read

\* A colour that cannot be read gives way to another.
Readable(c, otherwise) == IF c = NoColour THEN otherwise ELSE c

(****************************************************************************)
(* The background                                                           *)
(****************************************************************************)
\* The layers of colour under an element, the nearest first, down to the
\* first that hides what is under it.
RECURSIVE LayersUnder(_, _, _)
LayersUnder(els, styles, e) ==
    IF e = 0 THEN <<>>
    ELSE LET s == styles[e]
             above == els[e].parent
             bg == Faded(Readable(ParseColor(s.style["background-color"]), Colour(0, 0)),
                         OpacityOf(s))
         IN CASE s.style["display"] = "contents" \/ IsTransparent(bg) ->
                   LayersUnder(els, styles, above)
              [] bg.a >= Solid -> <<bg>>
              [] OTHER -> <<bg>> \o LayersUnder(els, styles, above)

EffectiveBackground(els, styles, e, base) ==
    FoldRight(LAMBDA layer, under : BlendOver(layer, under), LayersUnder(els, styles, e), base)

\* The nearest ancestor that is painted, unless a solid one shields from it:
\* whether it is an image, and the stops of its gradient.
RECURSIVE AncestorBackground(_, _, _)
AncestorBackground(els, styles, e) ==
    IF e = 0 THEN [url |-> FALSE, stops |-> <<>>]
    ELSE LET s == styles[e]
         IN IF ParseColor(s.style["background-color"]).a = Solid
            THEN [url |-> FALSE, stops |-> <<>>]
            ELSE IF HasPaint(s) THEN [url |-> HasUrl(s), stops |-> GradientStops(s)]
            ELSE AncestorBackground(els, styles, els[e].parent)

(****************************************************************************)
(* One text                                                                 *)
(****************************************************************************)
\* The stops of the element's own gradient, within its opacity; of the nearest
\* painted ancestor when it has none.
StopsOver(els, styles, e, bg) ==
    LET s == styles[e]
        own == GradientStops(s)
        faded == [i \in DOMAIN own |-> Faded(own[i], OpacityOf(s))]
        above == AncestorBackground(els, styles, els[e].parent).stops
        painted == HasPaint(s) /\ ~HasUrl(s)
        stops == IF painted THEN faded ELSE above
    IN [i \in DOMAIN stops |-> BlendOver(stops[i], bg)]

\* A colour on another one, which shows through when it is not solid.
LaidOn(c, bg) == IF c.a < Solid THEN BlendOver(c, bg) ELSE c

\* The colour of the text once it is laid on what is under it.
TextColour(els, styles, e, bg, base) ==
    LET s == styles[e]
        laid == LaidOn(Readable(ParseColor(s.style["color"]), Black), bg)
    IN IF OpacityOf(s) < Solid
       THEN BlendOver(Faded(laid, OpacityOf(s)),
                      EffectiveBackground(els, styles, els[e].parent, base))
       ELSE laid

WorstOf(fg, grounds) ==
    FoldLeft(LAMBDA worst, g : IF Lower(ContrastRatio(fg, g), ContrastRatio(fg, worst))
                               THEN g ELSE worst,
             Head(grounds), Tail(grounds))

IsLarge(s) == s.px >= 2400 \/ (s.px >= 1866 /\ s.weight >= 700)

Measured(e, s, fg, bg, unread) ==
    [e      |-> e,
     fg     |-> fg.v,
     bg     |-> bg.v,
     large  |-> IsLarge(s),
     review |-> unread \/ fg.v = bg.v,
     AA     |-> AtLeast(ContrastRatio(fg, bg), IF IsLarge(s) THEN 30 ELSE 45)]

\* On the worst of the stops, or on the colour under them when there are none.
OnWorst(els, styles, e, fg, solid, stops) ==
    LET s == styles[e]
    IN Measured(e, s, fg, IF stops = <<>> THEN solid ELSE WorstOf(fg, stops),
                \/ HasPaint(s) /\ (HasUrl(s) \/ stops = <<>>)
                \/ AncestorBackground(els, styles, els[e].parent).url)

OnSolid(els, styles, e, base, solid) ==
    OnWorst(els, styles, e, TextColour(els, styles, e, solid, base), solid,
            StopsOver(els, styles, e, solid))

Evaluate(els, styles, e, base) ==
    OnSolid(els, styles, e, base, EffectiveBackground(els, styles, e, base))

(****************************************************************************)
(* The page                                                                 *)
(****************************************************************************)
\* A dark scheme, declared by the page, by one of its own sheets or by a style
\* attribute, puts the page on black.
HasDarkScheme(doc) ==
    \/ doc.dark
    \/ \E i \in DOMAIN doc.sheets : doc.sheets[i].kind = "style" /\ Sheets[doc.sheets[i].ref].dark
    \/ \E e \in DOMAIN doc.els : "color-scheme" \in DOMAIN doc.els[e].inline

\* Only what the element itself declares hides it.
Hidden(s) ==
    \/ s.style["display"] = "none"
    \/ s.style["visibility"] = "hidden"
    \/ OpacityOf(s) <= 0

\* The elements in their order, until MaxElements of them are measured.
Audit(doc, styles) ==
    LET base == IF HasDarkScheme(doc) THEN Black ELSE White
        step(acc, e) ==
            IF doc.els[e].tag \notin Audited THEN acc
            ELSE IF Len(acc.elements) >= MaxElements THEN [acc EXCEPT !.truncated = TRUE]
            ELSE IF ~doc.els[e].text \/ Hidden(styles[e]) THEN acc
            ELSE [acc EXCEPT !.elements = Append(@, Evaluate(doc.els, styles, e, base))]
    IN FoldLeft(step, [elements |-> <<>>, truncated |-> FALSE], [e \in DOMAIN doc.els |-> e])

\* What the criterion says of the page: how many texts conform, fall short or
\* need an eye, the score out of fifty, the notes on what was not seen.
Verdict(audit, declared, loaded) ==
    LET measured == Range(audit.elements)
        review   == {r \in measured : r.review}
        passing  == {r \in measured \ review : r.AA}
        failing  == {r \in measured \ review : ~r.AA}
        scored   == Cardinality(passing) + Cardinality(failing)
        notes    == [unread |-> declared - loaded, truncated |-> audit.truncated]
        status   == IF scored = 0 THEN "na" ELSE IF failing # {} THEN "fail" ELSE "pass"
    IN [status |-> status,
        score  |-> IF scored = 0 THEN 0
                   ELSE (2 * Cardinality(passing) * 50 + scored) \div (2 * scored),
        passing |-> passing, failing |-> failing, review |-> review,
        notes  |-> IF measured = {} THEN [unread |-> 0, truncated |-> FALSE] ELSE notes]
=============================================================================
