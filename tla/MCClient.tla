------------------------------ MODULE MCClient -------------------------------
(****************************************************************************)
(* The client on small sets. The raw parameters of an address are the words *)
(* of the catalogues, a text with and without blanks, a blank, numbers in   *)
(* and out of range and a word that means nothing; each list screen has the *)
(* bare address and some that set filters, well or badly.                   *)
(****************************************************************************)
EXTENDS Client

Blank == " "
Words == {"a", "oui", "non", "x", "asc", "desc", "score", "domain", "url",
          "auth.", "active", "suspended", "pending", "normale", "haute", "critique",
          "bug", "suggestion", "question", "bloquant", "majeur", "mineur", "cosmetique",
          "nouveau", "accepte", "en_cours", "resolu", "rejete", "d1", "d2", "m1"}
Numbers == [r \in {ToString(n) : n \in 0..100} |-> CHOOSE n \in 0..100 : ToString(n) = r]
RawParameters == Words \union DOMAIN Numbers \union {"", Blank, " a "}

MCTrim == [r \in RawParameters |-> IF r = Blank THEN "" ELSE IF r = " a " THEN "a" ELSE r]
MCNumber == [r \in RawParameters |->
    IF r \in DOMAIN Numbers THEN Numbers[r] ELSE IF r \in {"", Blank} THEN 0 ELSE NaN]
MCDays == <<"d1", "d2">>

Bare == [p \in {} |-> ""]

MCAddresses == [
    history  |-> {Bare,
                  "q" :> " a " @@ "page" :> "2" @@ "sort" :> "x",
                  "sort" :> "score" @@ "order" :> "asc" @@ "scoreMin" :> Blank @@ "scoreMax" :> "2"},
    users    |-> {Bare,
                  "rang" :> "50" @@ "statut" :> "suspended",
                  "rang" :> "51" @@ "recherche" :> "a" @@ "page" :> "0"},
    audit    |-> {Bare,
                  "du" :> "d1" @@ "action" :> "auth.",
                  "du" :> "x" @@ "cible" :> "a" @@ "page" :> "2"},
    feedback |-> {Bare,
                  "statut" :> "nouveau" @@ "miens" :> "oui",
                  "ouvert" :> "m1"},
    inbox    |-> {Bare,
                  "ouvert" :> "m1",
                  "nonlus" :> "non" @@ "archives" :> "oui" @@ "page" :> "2"}]

(* What is typed in the form of each screen before it is applied.           *)
MCDrafts == [
    history  |-> {[q |-> " a ", gamme |-> "", dateFrom |-> "d1", dateTo |-> ""],
                  [q |-> "", gamme |-> "a", dateFrom |-> "d2", dateTo |-> "d1"]},
    users    |-> {[search |-> " a ", rank |-> 50, status |-> ""]},
    audit    |-> {[actor |-> "a", action |-> "auth.", from |-> "d1", to |-> "d2"],
                  [actor |-> " a ", action |-> "", from |-> "d2", to |-> "d1"]},
    feedback |-> {[search |-> " a ", kind |-> "bug", severity |-> "majeur", mine |-> TRUE]},
    inbox    |-> {[search |-> " a ", importance |-> "critique", archived |-> TRUE]}]

MCTargets == [site |-> {"s1", "s2"}, session |-> {"s1", "s2"}, page |-> {"s1", "s2"}]
=============================================================================
