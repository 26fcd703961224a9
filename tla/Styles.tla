-------------------------------- MODULE Styles --------------------------------
(****************************************************************************)
(* The contrast of pages analysed one after the other, or side by side, by  *)
(* one process: each fetches the sheets it links to, whose answers come in  *)
(* any order or not at all (fetchExternalCss), then resolves its styles     *)
(* with the sheets the process remembers from the pages before              *)
(* (parseTopLevelSheet, auditPageContrast).                                 *)
(****************************************************************************)
EXTENDS ContrastAudit

CONSTANTS
    Pages,       \* the analyses at work in the process
    Documents,   \* the documents they may be given
    Web,         \* [address -> text], what each address serves
    MaxSheets    \* MAX_EXTERNAL_SHEETS

VARIABLES
    job,      \* [page -> its analysis, Idle outside of one]
    report,   \* what an analysis has just said, NoReport after any other step
    cache     \* sheetCache

vars == <<job, report, cache>>

Idle == [stage |-> "idle"]
NoReport == [status |-> "none"]

Links(doc) == SelectSeq(doc.sheets, LAMBDA s : s.kind = "link")

Asked(doc) == LET links == Links(doc)
              IN {links[i].ref : i \in 1..(IF Len(links) < MaxSheets THEN Len(links) ELSE MaxSheets)}

Init ==
    /\ job = [p \in Pages |-> Idle]
    /\ report = NoReport
    /\ cache = EmptyCache

Begin(p) ==
    /\ job[p] = Idle
    /\ \E doc \in Documents :
         job' = [job EXCEPT ![p] = [stage |-> "fetching", doc |-> doc,
                                    pending |-> Asked(doc), read |-> {}]]
    /\ report' = NoReport
    /\ UNCHANGED cache

\* A sheet is read, or it is refused, out of reach or empty.
Answer(p) ==
    /\ job[p].stage = "fetching"
    /\ \E a \in job[p].pending, ok \in BOOLEAN :
         job' = [job EXCEPT ![p].pending = @ \ {a},
                            ![p].read = IF ok THEN @ \union {a} ELSE @]
    /\ report' = NoReport
    /\ UNCHANGED cache

Read(links) == [a \in links |-> Web[a]]

\* What the declarations of each element come to, by property.
Resolved(doc, cssom) == [e \in DOMAIN doc.els |-> ResolveDeclarations(doc, cssom, e)]

DeclaredLinksAsked(doc) == Cardinality(Asked(doc))

DeclaredLinks(doc) == Len(Links(doc))

\* Everything that follows the last answer is one turn of the event loop.
Analyse(p) ==
    /\ job[p].stage = "fetching" /\ job[p].pending = {}
    /\ LET doc   == job[p].doc
           cssom == BuildCSSOM(doc, Read(job[p].read), cache)
           audit == Audit(doc, StylesOf(doc, cssom))
       IN /\ cache' = cssom.cache
          /\ report' = [doc |-> doc, read |-> job[p].read, layers |-> cssom.page.layers,
                        resolved |-> Resolved(doc, cssom)]
                       @@ Verdict(audit, DeclaredLinks(doc), Cardinality(job[p].read))
    /\ job' = [job EXCEPT ![p] = Idle]

Next == \E p \in Pages : Begin(p) \/ Answer(p) \/ Analyse(p)

Spec == Init /\ [][Next]_vars

(****************************************************************************)
(* Properties                                                               *)
(****************************************************************************)
Reported == report # NoReport

\* A page alone: every sheet is cut in the context of the page, nothing is
\* remembered.
CutAlone(texts) ==
    FoldLeft(LAMBDA p, text : ParseStylesheet(Sheets[text].items, <<>>, NoLayer, p), Fresh, texts)

CssomAlone(doc, read) ==
    LET cut == CutAlone(Texts(doc, read))
    IN FoldLeft(LAMBDA a, rule : AddRule(doc.els, cut.layers, a, rule),
                [page |-> cut, palette |-> <<>>, entries |-> <<>>, order |-> 0], cut.rules)

\* The sheets remembered from one page to the next change nothing in what a
\* page is said to be: its layers come in the order of its own sheets, and
\* the declarations that win are those that win when it is analysed alone
\* (micro-cssom.ts, sheetCache: the layers of a sheet are played again, a
\* sheet with an anonymous layer is not kept).
SharedSheetsInert ==
    Reported =>
        LET alone == CssomAlone(report.doc, Read(report.read))
        IN /\ report.layers = alone.page.layers
           /\ report.resolved = Resolved(report.doc, alone)

\* The strata of the CSS cascade, the weakest first, for n layers: the layers
\* in their order, what is in no layer, the style attribute, then what is
\* important, where the layers come after the rest and in the reverse order.
Stratum(c, n) ==
    IF ~c.important
    THEN IF c.inline THEN n + 2 ELSE IF c.layer = 0 THEN n + 1 ELSE c.layer
    ELSE IF c.inline THEN 2 * n + 5 ELSE IF c.layer = 0 THEN n + 3 ELSE 2 * n + 4 - c.layer

Overrides(c, d, n) ==
    \/ Stratum(c, n) > Stratum(d, n)
    \/ /\ Stratum(c, n) = Stratum(d, n)
       /\ \/ CompareSpec(c.spec, d.spec) > 0
          \/ CompareSpec(c.spec, d.spec) = 0 /\ c.order > d.order

\* What wins for each property of each element is what the cascade of CSS
\* says: no other declaration that reaches the element overrides it
\* (priorityRank and cascadeWins, one comparison at a time).
CascadeAgrees ==
    Reported =>
        LET doc   == report.doc
            alone == CssomAlone(doc, Read(report.read))
            n     == Len(alone.page.layers)
        IN \A e \in DOMAIN doc.els :
             LET cands == Candidates(doc, alone, e)
             IN \A prop \in DOMAIN cands :
                  \E i \in DOMAIN cands[prop] :
                     /\ cands[prop][i].value = report.resolved[e][prop]
                     /\ \A j \in DOMAIN cands[prop] \ {i} :
                           Overrides(cands[prop][i], cands[prop][j], n)

\* A verdict never passes over what it has not seen: a sheet the page declares
\* and that was not read is counted in a note, and a visible text that was not
\* measured in another (contrast.analyzer.ts: "La taire laisserait conclure").
ReportTellsItsLimits ==
    Reported /\ report.status # "na" =>
        LET doc   == report.doc
            seen  == report.passing \union report.failing \union report.review
            shown == {e \in DOMAIN doc.els : /\ doc.els[e].tag \in Audited /\ doc.els[e].text
                                             /\ DOMAIN report.resolved[e] \intersect
                                                  {"display", "visibility", "opacity"} = {}}
            links == {doc.sheets[i].ref : i \in {i \in DOMAIN doc.sheets : doc.sheets[i].kind = "link"}}
        IN /\ Cardinality(links \ report.read) <= report.notes.unread
           /\ shown \subseteq {r.e : r \in seen} \/ report.notes.truncated

\* "Un panier absent vaut certitude": the buckets of the index give exactly
\* the elements a selector reaches (micro-cssom.ts, keyOf and nodesFor).
BucketsAreExact ==
    Reported =>
        LET cut == CutAlone(Texts(report.doc, Read(report.read)))
        IN \A i \in DOMAIN cut.rules : \A j \in DOMAIN cut.rules[i].selectors :
             LET sel == cut.rules[i].selectors[j]
             IN NodesFor(report.doc.els, sel) = Reached(report.doc.els, sel)
=============================================================================
