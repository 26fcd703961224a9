--------------------------- MODULE AddressFilters ---------------------------
(****************************************************************************)
(* The filters of the list screens of the web client, which live in the     *)
(* address: "l'etat de recherche vit dans la barre d'adresse"               *)
(* (features/scans/scan-filters.ts:12). Five files read the parameters into *)
(* filters, write them back and make the query of the API out of them; each *)
(* is a table of fields and the operators below.                            *)
(*                                                                          *)
(* A raw parameter is a string. What String.prototype.trim and Number make  *)
(* of it is given by two functions.                                         *)
(****************************************************************************)
EXTENDS Integers, Sequences, FiniteSets, TLC

CONSTANTS Trim,      \* [raw parameter -> what is left without its blanks]
          Number,    \* [raw parameter -> its number, NaN if it has none]
          Days,      \* the dates YYYY-MM-DD, in their order
          PageSize   \* lines of a page of a list

MaxPage == 9         \* bound on the number of a page
NaN == -1
Absent == "(absent)"
TESTER == 10
EDITOR == 30
ADMIN == 50
SUPER_ADMIN == 100
Ranks == {TESTER, EDITOR, ADMIN, SUPER_ADMIN}

Raw(params, name) == IF name \in DOMAIN params THEN params[name] ELSE Absent
Text(raw) == IF raw = Absent THEN "" ELSE Trim[raw]
NumberIn(raw) == IF raw = Absent THEN NaN ELSE Number[raw]

(* A field: its parameter, how it is read, what it is when not set, and the *)
(* values it may take.                                                      *)
Field(param, read, unset, of) == [param |-> param, read |-> read, unset |-> unset, of |-> of]
TextField(param) == Field(param, "text", "", {})
ChoiceField(param, catalogue) == Field(param, "choice", "", catalogue)
DateField(param) == ChoiceField(param, {Days[i] : i \in DOMAIN Days})
FlagField(param) == Field(param, "flag", FALSE, BOOLEAN)
PageField == Field("page", "number", 1, 1..MaxPage)

(* A value that is unreadable or out of its catalogue counts as not set. A  *)
(* blank is the number 0, except for a score.                               *)
ReadField(f, raw) ==
    CASE f.read = "text" -> Text(raw)
      [] f.read = "flag" -> Text(raw) = "oui"
      [] f.read = "choice" -> IF Text(raw) \in f.of THEN Text(raw) ELSE f.unset
      [] f.read = "exact" -> IF raw \in f.of THEN raw ELSE f.unset
      [] f.read = "number" -> IF NumberIn(raw) \in f.of THEN NumberIn(raw) ELSE f.unset
      [] f.read = "score" ->
            IF Text(raw) # "" /\ NumberIn(raw) \in f.of THEN NumberIn(raw) ELSE f.unset

Read(fields, params) ==
    [n \in DOMAIN fields |-> ReadField(fields[n], Raw(params, fields[n].param))]

Unset(fields) == [n \in DOMAIN fields |-> fields[n].unset]
Posed(fields, filters) == {n \in DOMAIN fields : filters[n] # fields[n].unset}

(* Values that are not set are left out of the address.                     *)
WrittenField(f, v) ==
    CASE f.read = "flag" -> "oui" [] f.read \in {"number", "score"} -> ToString(v) [] OTHER -> v
Write(fields, filters) ==
    [p \in {fields[n].param : n \in Posed(fields, filters)} |->
        LET n == CHOOSE m \in Posed(fields, filters) : fields[m].param = p
        IN WrittenField(fields[n], filters[n])]

(* What a filter may be: not set, a text without blanks, a value offered.   *)
Valid(f, v) ==
    \/ v = f.unset
    \/ f.read = "text" /\ v \in DOMAIN Trim /\ Trim[v] = v
    \/ f.read # "text" /\ v \in f.of

(* Out of the query too; the page becomes an offset.                        *)
Query(fields, filters) ==
    [n \in Posed(fields, filters) \ {"page"} |-> filters[n]]
    @@ [limit |-> PageSize, offset |-> (filters.page - 1) * PageSize]

PagesOf(total) == IF total = 0 THEN 1 ELSE (total + PageSize - 1) \div PageSize

Day(d) == CHOOSE i \in DOMAIN Days : Days[i] = d
Inverted(from, to) == from # "" /\ to # "" /\ Day(from) > Day(to)
-----------------------------------------------------------------------------
(* The history of the scans. An unknown column or order is not set.         *)
Columns == {"analyzedAt", "score", "domain", "url"}
HistoryFields == [
    q        |-> TextField("q"),
    domain   |-> TextField("domain"),
    gamme    |-> TextField("gamme"),
    epj      |-> TextField("epj"),
    scoreMin |-> Field("scoreMin", "score", NaN, 0..5),
    scoreMax |-> Field("scoreMax", "score", NaN, 0..5),
    dateFrom |-> DateField("dateFrom"),
    dateTo   |-> DateField("dateTo"),
    sort     |-> Field("sort", "exact", "analyzedAt", Columns),
    order    |-> Field("order", "exact", "desc", {"asc", "desc"}),
    page     |-> PageField]

HistoryRead(params) == Read(HistoryFields, params)
HistoryWrite(filters) == Write(HistoryFields, filters)

(* Its query has a page, and always says how to sort.                       *)
HistoryQuery(filters) ==
    [n \in Posed(HistoryFields, filters) \union {"page", "sort", "order"} |-> filters[n]]
    @@ [limit |-> PageSize]

HistoryActive(filters) == Posed(HistoryFields, filters) \ {"sort", "order", "page"} # {}

HistoryIssues(filters) ==
    \/ /\ filters.scoreMin # NaN /\ filters.scoreMax # NaN
       /\ filters.scoreMin > filters.scoreMax
    \/ Inverted(filters.dateFrom, filters.dateTo)

ToggleSort(filters, column) ==
    [filters EXCEPT
        !.sort = column,
        !.order = IF filters.sort = column THEN (IF @ = "asc" THEN "desc" ELSE "asc")
                  ELSE IF column \in {"domain", "url"} THEN "asc" ELSE "desc",
        !.page = 1]
-----------------------------------------------------------------------------
(* The messages of the user.                                                *)
InboxFields == [
    unread     |-> FlagField("nonlus"),
    importance |-> ChoiceField("importance", {"normale", "haute", "critique"}),
    search     |-> TextField("recherche"),
    archived   |-> FlagField("archives"),
    page       |-> PageField]

InboxRead(params) == Read(InboxFields, params)
InboxWrite(filters) == Write(InboxFields, filters)
InboxQuery(filters) == Query(InboxFields, filters)
InboxActive(filters) == Posed(InboxFields, filters) \ {"page"} # {}
-----------------------------------------------------------------------------
(* The feedback.                                                            *)
Statuses == {"nouveau", "accepte", "en_cours", "resolu", "rejete"}
FeedbackFields == [
    status   |-> ChoiceField("statut", Statuses),
    kind     |-> ChoiceField("type", {"bug", "suggestion", "question"}),
    severity |-> ChoiceField("gravite", {"bloquant", "majeur", "mineur", "cosmetique"}),
    search   |-> TextField("recherche"),
    mine     |-> FlagField("miens"),
    page     |-> PageField]

FeedbackRead(params) == Read(FeedbackFields, params)
FeedbackWrite(filters) == Write(FeedbackFields, filters)
FeedbackQuery(filters) == Query(FeedbackFields, filters)
FeedbackActive(filters) == Posed(FeedbackFields, filters) \ {"page"} # {}
-----------------------------------------------------------------------------
(* The accounts. Their rank is a number too, read without its blanks.       *)
UsersFields == [
    search |-> TextField("recherche"),
    rank   |-> Field("rang", "number", NaN, Ranks),
    status |-> ChoiceField("statut", {"active", "suspended", "pending"}),
    page   |-> PageField]

UsersRead(params) == Read(UsersFields, params)
UsersWrite(filters) == Write(UsersFields, filters)
UsersQuery(filters) == Query(UsersFields, filters)
UsersActive(filters) == Posed(UsersFields, filters) \ {"page"} # {}
-----------------------------------------------------------------------------
(* The audit log.                                                           *)
AuditFields == [
    actor    |-> TextField("acteur"),
    action   |-> TextField("action"),
    targetId |-> TextField("cible"),
    from     |-> DateField("du"),
    to       |-> DateField("au"),
    page     |-> PageField]

AuditRead(params) == Read(AuditFields, params)
AuditWrite(filters) == Write(AuditFields, filters)
AuditQuery(filters) == Query(AuditFields, filters)
AuditActive(filters) == Posed(AuditFields, filters) \ {"page"} # {}
AuditIssues(filters) == Inverted(filters.from, filters.to)
-----------------------------------------------------------------------------
(* The words of a catalogue have no blank around them, and a number reads   *)
(* as itself.                                                               *)
Legible(f) ==
    /\ f.read = "choice" => \A w \in f.of : w \in DOMAIN Trim /\ Trim[w] = w
    /\ f.read \in {"number", "score"} =>
           \A v \in f.of : /\ ToString(v) \in DOMAIN Trim /\ Trim[ToString(v)] # ""
                           /\ Number[ToString(v)] = v

(* String.prototype.trim leaves nothing to trim; no parameter is Absent.    *)
ASSUME ParametersAssumption ==
    /\ Absent \notin DOMAIN Trim
    /\ \A r \in DOMAIN Trim : Trim[r] \in DOMAIN Trim /\ Trim[Trim[r]] = Trim[r]
    /\ "oui" \in DOMAIN Trim /\ Trim["oui"] = "oui"
    /\ \A n \in DOMAIN HistoryFields : Legible(HistoryFields[n])
    /\ \A n \in DOMAIN InboxFields : Legible(InboxFields[n])
    /\ \A n \in DOMAIN FeedbackFields : Legible(FeedbackFields[n])
    /\ \A n \in DOMAIN UsersFields : Legible(UsersFields[n])
    /\ \A n \in DOMAIN AuditFields : Legible(AuditFields[n])
=============================================================================
