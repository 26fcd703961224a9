------------------------------- MODULE MCStyles -------------------------------
(****************************************************************************)
(* Two analyses in one process, over five documents and seven sheets: the   *)
(* same layers declared in two orders, two anonymous layers, important      *)
(* declarations in and out of layers, variables, media queries, an image, a *)
(* gradient, an opacity, more links than are read and more texts than are   *)
(* measured.                                                                *)
(****************************************************************************)
EXTENDS Styles

(* Declarations *)
No  == <<>>
D(p, t) == p :> [value |-> Word(t), important |-> FALSE]
Imp(p, t) == p :> [value |-> Word(t), important |-> TRUE]
Size(n, u) == "font-size" :> [value |-> Value("", n, u, "", No, ""), important |-> FALSE]
Var(p, x, alt) ==
    p :> [value |-> Value("", 0, "", x, <<Word(alt)>>, ""), important |-> FALSE]
Background(t, image) ==
    "background" :> [value |-> Value(t, 0, "", "", No, image), important |-> FALSE]

(* Selectors *)
Compound(tag, id, classes, attrs, fns) ==
    [tag |-> tag, id |-> id, classes |-> classes, attrs |-> attrs, fns |-> fns, plain |-> TRUE]
Tag(t) == Compound(t, "", {}, {}, {})
Class(c) == Compound("", "", {c}, {}, {})
Id(i) == Compound("", i, {}, {}, {})
Root == Compound("", "", {}, {}, {[name |-> "root", args |-> {}]})
Not(t, sel) == Compound(t, "", {}, {}, {[name |-> "not", args |-> {sel}]})
Pdf == [name |-> "href", value |-> <<".", "pdf">>]
LinkTo(a) == Compound("a", "", {}, {a}, {})

(* Sheets *)
Rule(sels, decls) == [at |-> "rule", selectors |-> sels, decls |-> decls]
Layer(name, items) == [at |-> "layer", name |-> name, items |-> items]
Order(names) == [at |-> "order", names |-> names]
Media(queries, items) == [at |-> "media", queries |-> queries, items |-> items]
Query(negate, types, features) == [negate |-> negate, types |-> types, features |-> features]
Sheet(n, items) == [chars |-> n, items |-> items, dark |-> FALSE]

MCSheets ==
    [ua |-> Sheet(1, <<
        Rule(<< <<Tag("h1")>> >>, Size(200, "em") @@ D("font-weight", "bold")) >>),
     theme |-> Sheet(4, <<
        Order(<< <<"base">>, <<"theme">> >>),
        Layer(<<"base">>, << Rule(<< <<Id("main")>> >>,
            D("color", "#fff") @@ Imp("background-color", "#fff")) >>),
        Layer(<<"theme">>, << Rule(<< <<Class("text")>> >>,
            D("color", "#000") @@ Imp("background-color", "silver")) >>) >>),
     brand |-> Sheet(4, <<
        Layer(<<"theme">>, << Rule(<< <<Tag("p")>>, <<Tag("body"), Tag("a")>> >>,
            D("color", "rgb(60%)") @@ D("background-color", "transparent")) >>),
        Layer(<<"base">>, << Rule(<< <<Not("p", <<Class("none")>>)>> >>,
            D("color", "hsl(0 0% 25%)") @@ D("font-weight", "bold")) >>),
        Rule(<< <<Root>> >>, D("--ink", "#000")),
        Media({Query(FALSE, {"screen"}, {[on |-> "width", op |-> "min", value |-> 1200]})},
            << Rule(<< <<Tag("a")>> >>, Var("color", "--ink", "gray")) >>),
        Media({Query(FALSE, {}, {[on |-> "prefers-color-scheme", op |-> "=", value |-> "dark"]})},
            << Rule(<< <<Tag("body")>> >>, D("background-color", "#000")) >>) >>),
     faint |-> Sheet(3, <<
        Layer(<<>>, << Rule(<< <<Id("main")>> >>, D("color", "silver") @@ D("opacity", "0.5")) >>) >>),
     plain |-> Sheet(3, <<
        Layer(<<>>, << Rule(<< <<Tag("p")>> >>, D("color", "currentcolor")) >>) >>),
     own |-> Sheet(2, <<
        Rule(<< <<Tag("body")>> >>, Background("mix(black, white)", "")),
        Rule(<< <<Class("text")>> >>, D("background-image", "gradient") @@ Size(15, "px")) >>),
     pdf |-> Sheet(2, <<
        Rule(<< <<LinkTo(Pdf)>> >>, D("color", "#fff")) >>)]

(* Documents *)
El(tag, id, classes, parent, text) ==
    [tag |-> tag, id |-> id, classes |-> classes, attrs |-> {}, parent |-> parent,
     text |-> text, inline |-> No]
Frame == << El("html", "", {}, 0, FALSE), El("body", "", {}, 1, FALSE) >>
Article == Frame \o << El("p", "main", {"text"}, 2, TRUE), El("a", "", {}, 3, TRUE),
                       El("h1", "", {}, 2, TRUE) >>
Styled == [Article EXCEPT ![4].inline = Imp("color", "#000")]
Linked == [Article EXCEPT ![4].attrs = {Pdf}]
Pictured == [Article EXCEPT ![2].inline = Background("", "photo")]

Link(a) == [kind |-> "link", ref |-> a]
Style(t) == [kind |-> "style", ref |-> t]
Doc(els, sheets) == [els |-> els, sheets |-> sheets, dark |-> FALSE]

MCDocuments ==
    {Doc(Article, <<Link("theme"), Link("brand")>>),
     Doc(Styled, <<Link("brand"), Style("own"), Link("theme")>>),
     Doc(Article, <<Link("faint"), Link("plain"), Link("theme")>>),
     Doc(Pictured, <<Style("brand"), Link("own")>>),
     [Doc(Article, <<Link("brand"), Link("brand")>>) EXCEPT !.dark = TRUE]}

KeyDocuments ==
    {Doc(Article, <<Link("theme"), Link("brand")>>),
     Doc(Article, <<Link("faint"), Link("plain"), Link("theme")>>),
     Doc(Linked, <<Style("own"), Link("pdf")>>)}

MCWeb == [a \in DOMAIN MCSheets |-> a]

MCScreen == [width |-> 1920, height |-> 1080, type |-> "screen",
             features |-> [x \in {"prefers-color-scheme"} |-> "light"]]

(* Colours and images *)
Comp(n, u) == [n |-> n, unit |-> u]
Absent == Comp(0, "")
Notation(fn, comps, alpha, parts) == [fn |-> fn, comps |-> comps, alpha |-> alpha, parts |-> parts]

MCNotations ==
    [t \in {"black", "white", "gray", "silver", "transparent"} |-> Notation("name", No, Absent, No)]
    @@ "#000" :> Notation("#", <<Comp(0, "64")>>, Absent, No)
    @@ "#fff" :> Notation("#", <<Comp(64, "64")>>, Absent, No)
    @@ "#0008" :> Notation("#", <<Comp(0, "64"), Comp(2, "4")>>, Absent, No)
    @@ "rgb(60%)" :> Notation("rgb", <<Comp(60, "%")>>, Absent, No)
    @@ "hsl(0 0% 25%)" :> Notation("hsl", <<Comp(0, "64"), Comp(0, "%"), Comp(25, "%")>>, Absent, No)
    @@ "hwb(0 3 1)" :> Notation("hwb", <<Comp(0, "64"), Comp(3, "%"), Comp(1, "%")>>, Comp(50, "%"), No)
    @@ "mix(black, white)" :> Notation("color-mix", <<Comp(25, "%"), Comp(-1, "")>>, Absent,
                                       <<"black", "white">>)

MCUnseenColours == {"black", "white", "gray", "silver", "hwb(0 3 1)", "mix(black, white)"}
MCImages == [photo |-> [url |-> TRUE, layers |-> 1, stops |-> No],
             gradient |-> [url |-> FALSE, layers |-> 1, stops |-> <<"#0008", "hwb(0 3 1)", "name">>]]
MCOpacities == ("0" :> 0) @@ ("0.5" :> 2) @@ ("1" :> 4)
MCAudited == {"p", "a", "h1"}
MCCustomProps == {"--ink"}

AnySymmetry == Permutations(Pages)
=============================================================================
