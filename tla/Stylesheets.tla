----------------------------- MODULE Stylesheets -----------------------------
(****************************************************************************)
(* The style sheets of a page (analysis/css/micro-cssom.ts): how a sheet is *)
(* cut into rules, which media it applies to, what order its layers get,    *)
(* which elements a selector reaches and how specific it is, and the sheets *)
(* a process remembers from one page to the next.                           *)
(*                                                                          *)
(* A sheet is [chars, items]. An item is a rule, an at-rule with a block    *)
(* (media, layer, plain for @supports and @container) or one without        *)
(* (order for "@layer a, b;", other for what is skipped). The name of a     *)
(* layer is a sequence of names; a name that is empty is anonymous.         *)
(*                                                                          *)
(* A selector is a sequence of compounds, each the descendant of the one    *)
(* before it: [tag, id, classes, attrs, fns, plain]. The value of an        *)
(* attribute is <<mark, word>>: the mark "." or "#" is what its text looks  *)
(* like to the code that reads selectors. plain is FALSE for what has to be *)
(* escaped.                                                                 *)
(****************************************************************************)
EXTENDS Naturals, Integers, SequencesExt

CONSTANTS
    Sheets,          \* [name of a text -> sheet]
    Screen,          \* the viewport: [width, height, type, features]
    SheetCacheMax    \* SHEET_CACHE_MAX_CHARS

NoLayer == <<>>

(****************************************************************************)
(* Media queries                                                            *)
(****************************************************************************)
\* A feature is [on, op, value]: on is "width", "height" or a named feature.
Compare(a, op, b) ==
    CASE op \in {"min", ">="} -> a >= b
      [] op \in {"max", "<="} -> a <= b
      [] op = ">" -> a > b
      [] op = "<" -> a < b
      [] OTHER -> a = b

EvalFeature(f) ==
    CASE f.on = "width"  -> Compare(Screen.width, f.op, f.value)
      [] f.on = "height" -> Compare(Screen.height, f.op, f.value)
      [] OTHER -> f.on \in DOMAIN Screen.features /\ Screen.features[f.on] = f.value

\* A query is [negate, types, features]: all its parts hold, or not all with "not".
EvalSingleQuery(q) ==
    q.negate # (/\ q.types \subseteq {"all", Screen.type}
                /\ \A f \in q.features : EvalFeature(f))

MatchMedia(queries) == \E q \in queries : EvalSingleQuery(q)

(****************************************************************************)
(* Specificity                                                              *)
(****************************************************************************)
Add(x, y) == <<x[1] + y[1], x[2] + y[2], x[3] + y[3]>>

CompareSpec(x, y) ==
    IF x[1] # y[1] THEN x[1] - y[1] ELSE IF x[2] # y[2] THEN x[2] - y[2] ELSE x[3] - y[3]

Strongest(specs) == CHOOSE x \in specs : \A y \in specs : CompareSpec(x, y) >= 0

RECURSIVE Specificity(_)
\* What stands before the brackets of an attribute is read first: the "#" of
\* a value counts for an identifier.
SpecOfFn(fn) ==
    LET args == {Specificity(s) : s \in fn.args}
    IN CASE fn.name = "where" -> <<0, 0, 0>>
         [] fn.name \in {"is", "matches", "not", "has"} -> Strongest({<<0, 0, 0>>} \union args)
         [] fn.name \in {"nth-child", "nth-last-child"} ->
                FoldSet(LAMBDA s, sum : Add(sum, Specificity(s)), <<0, 1, 0>>, fn.args)
         [] OTHER -> <<0, 1, 0>>

SpecOfCompound(c) ==
    LET own == <<(IF c.id = "" THEN 0 ELSE 1)
                   + Cardinality({a \in c.attrs : a.value[1] = "#"}),
                 Cardinality(c.classes) + Cardinality(c.attrs),
                 IF c.tag = "" THEN 0 ELSE 1>>
    IN FoldSet(LAMBDA fn, sum : Add(sum, SpecOfFn(fn)), own, c.fns)

Specificity(sel) == FoldSeq(LAMBDA c, sum : Add(sum, SpecOfCompound(c)), <<0, 0, 0>>, sel)

(****************************************************************************)
(* The elements a selector reaches                                          *)
(****************************************************************************)
\* els: the elements of a document, each with the index of its parent, 0 for
\* the root.
RECURSIVE Ancestors(_, _)
Ancestors(els, e) ==
    IF els[e].parent = 0 THEN {} ELSE {els[e].parent} \union Ancestors(els, els[e].parent)

RECURSIVE Matches(_, _, _)
MatchesFn(els, e, fn) ==
    CASE fn.name \in {"is", "where", "matches"} -> \E s \in fn.args : Matches(els, e, s)
      [] fn.name = "not" -> \A s \in fn.args : ~Matches(els, e, s)
      [] fn.name = "has" -> \E d \in DOMAIN els : /\ e \in Ancestors(els, d)
                                                  /\ \E s \in fn.args : Matches(els, d, s)
      [] fn.name = "root" -> els[e].parent = 0
      [] OTHER -> FALSE

MatchesCompound(els, e, c) ==
    /\ c.tag \in {"", els[e].tag}
    /\ c.id \in {"", els[e].id}
    /\ c.classes \subseteq els[e].classes
    /\ c.attrs \subseteq els[e].attrs
    /\ \A fn \in c.fns : MatchesFn(els, e, fn)

Matches(els, e, sel) ==
    /\ MatchesCompound(els, e, Last(sel))
    /\ Len(sel) > 1 => \E a \in Ancestors(els, e) : Matches(els, a, Front(sel))

Reached(els, sel) == {e \in DOMAIN els : Matches(els, e, sel)}

\* What the last compound says its element carries, by the first sign found
\* in its text; "none" when it cannot be read there.
KeyOf(sel) ==
    LET c == Last(sel)
        marked(m) == {a.value[2] : a \in {a \in c.attrs : a.value[1] = m}}
        first(own, read) == IF own # {} THEN CHOOSE x \in own : TRUE ELSE CHOOSE x \in read : TRUE
        ids == IF c.id = "" THEN {} ELSE {c.id}
    IN CASE c.fns # {} \/ ~c.plain -> <<"none", "">>
         [] ids \union marked("#") # {} -> <<"id", first(ids, marked("#"))>>
         [] c.classes \union marked(".") # {} -> <<"class", first(c.classes, marked("."))>>
         [] c.tag # "" -> <<"tag", c.tag>>
         [] OTHER -> <<"none", "">>

\* The element an index lists under a key.
Bucket(els, key) ==
    {e \in DOMAIN els : CASE key[1] = "id" -> els[e].id = key[2]
                          [] key[1] = "class" -> key[2] \in els[e].classes
                          [] OTHER -> els[e].tag = key[2]}

\* The three ways: a plain query, a bucket that is tried, a bucket as it is.
NodesFor(els, sel) ==
    LET c == Last(sel)
        bare == /\ Len(sel) = 1 /\ c.attrs = {}
                /\ Cardinality(c.classes) + (IF c.id = "" THEN 0 ELSE 1)
                     + (IF c.tag = "" THEN 0 ELSE 1) = 1
    IN IF KeyOf(sel)[1] = "none" THEN Reached(els, sel)
       ELSE IF bare THEN Bucket(els, KeyOf(sel))
       ELSE {e \in Bucket(els, KeyOf(sel)) : Matches(els, e, sel)}

(****************************************************************************)
(* Cutting a sheet into rules                                               *)
(****************************************************************************)
\* A parse in progress: the rules read, the layers in the order they came,
\* and the number of anonymous layers.
Fresh == [rules |-> <<>>, layers |-> <<>>, anon |-> 0]

RegisterLayer(order, name) == IF Contains(order, name) THEN order ELSE Append(order, name)

RegisterAll(order, names) == FoldLeft(RegisterLayer, order, names)

RECURSIVE ParseStylesheet(_, _, _, _)
ParseItem(item, media, layer, p) ==
    CASE item.at = "rule" ->
           [p EXCEPT !.rules = Append(@, [selectors |-> item.selectors, decls |-> item.decls,
                                          media |-> media, layer |-> layer])]
      [] item.at = "order" ->
           [p EXCEPT !.layers = RegisterAll(@, [i \in DOMAIN item.names |-> layer \o item.names[i]])]
      [] item.at = "media" -> ParseStylesheet(item.items, Append(media, item.queries), layer, p)
      [] item.at = "layer" ->
           LET anonymous == item.name = <<>>
               name == layer \o (IF anonymous THEN <<"#anon" \o ToString(p.anon)>> ELSE item.name)
           IN ParseStylesheet(item.items, media, name,
                  [p EXCEPT !.layers = RegisterLayer(@, name),
                            !.anon = IF anonymous THEN @ + 1 ELSE @])
      [] item.at = "plain" -> ParseStylesheet(item.items, media, layer, p)
      [] OTHER -> p

ParseStylesheet(items, media, layer, p) ==
    FoldLeft(LAMBDA acc, item : ParseItem(item, media, layer, acc), p, items)

(****************************************************************************)
(* The sheets a process remembers                                           *)
(****************************************************************************)
\* cache: what is remembered, in the order of insertion; chars: their length.
EmptyCache == [entries |-> <<>>, chars |-> 0]

RECURSIVE Evict(_)
Evict(cache) ==
    IF cache.chars <= SheetCacheMax \/ cache.entries = <<>> THEN cache
    ELSE Evict([entries |-> Tail(cache.entries),
                chars |-> cache.chars - Sheets[Head(cache.entries).text].chars])

Remember(cache, text, parsed) ==
    Evict([entries |-> Append(cache.entries,
                              [text |-> text, rules |-> parsed.rules, layers |-> parsed.layers]),
           chars |-> cache.chars + Sheets[text].chars])

MemorableAlways(parsed) == TRUE

\* A sheet with an anonymous layer, whose name depends on the page, is cut in
\* the context of the page and not remembered.
Memorable(parsed) == parsed.anon = 0

\* One sheet of a page. p: the layers and anonymous layers of the page so far;
\* p.rules is what this sheet gives.
ParseTopLevelSheet(text, p, cache) ==
    LET known  == {i \in DOMAIN cache.entries : cache.entries[i].text = text}
        parsed == ParseStylesheet(Sheets[text].items, <<>>, NoLayer, Fresh)
    IN IF known # {}
       THEN LET entry == cache.entries[CHOOSE i \in known : TRUE]
            IN [page |-> [rules |-> entry.rules, layers |-> RegisterAll(p.layers, entry.layers),
                          anon |-> p.anon], cache |-> cache]
       ELSE IF ~Memorable(parsed)
       THEN [page |-> ParseStylesheet(Sheets[text].items, <<>>, NoLayer,
                                      [p EXCEPT !.rules = <<>>]), cache |-> cache]
       ELSE [page |-> [rules |-> parsed.rules, layers |-> RegisterAll(p.layers, parsed.layers),
                       anon |-> p.anon], cache |-> Remember(cache, text, parsed)]

=============================================================================
