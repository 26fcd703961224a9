---------------------------- MODULE LegalCriteria ----------------------------
(****************************************************************************)
(* The criteria about what the law and the Duda editor expect of a page:    *)
(* MENTIONS_LEGALES, MENTIONS_LEGALES_DATA and DATA_BINDING.                *)
(****************************************************************************)
EXTENDS Scoring

LegalScale(failures, warnings) ==
    IF failures >= 2 THEN 0 ELSE IF failures = 1 THEN 2
    ELSE IF warnings >= 2 THEN 3 ELSE IF warnings = 1 THEN 4 ELSE 5

(****************************************************************************)
(* MENTIONS_LEGALES. [noLegal, dead, noPrivacy, noConsent, solocal: defects;*)
(* resolves, net, exhausted, terms, editor; hostHere, hostThere: whether    *)
(* the page, and the legal page it links to, name the host]                 *)
(****************************************************************************)
LegalPage ==
    {p \in [noLegal : Nat, dead : Nat, noPrivacy : Nat, noConsent : Nat, solocal : Nat,
            resolves : BOOLEAN, net : BOOLEAN, exhausted : BOOLEAN, terms : BOOLEAN,
            editor : BOOLEAN, hostHere : BOOLEAN, hostThere : BOOLEAN] :
        /\ p.exhausted => p.resolves /\ p.dead = 0
        /\ p.noLegal > 0 => p.dead = 0 /\ ~p.exhausted}

LegalLink(p) ==
    IF p.noLegal > 0 THEN Item("ML.legal_missing", "fail", 1)
    ELSE Item("ML.legal_ok", "pass", 1)
         \union (IF ~p.resolves \/ ~p.net THEN {}
                 ELSE IF p.exhausted THEN Item(NoKey, "info", 1)
                 ELSE Item("ML.legal_inaccessible", IF p.dead > 0 THEN "fail" ELSE "pass", 1))

Hosting(p) ==
    LET read == p.noLegal = 0 /\ p.resolves /\ p.net /\ ~p.exhausted /\ p.dead = 0
    IN Judge(IF read THEN p.hostThere ELSE p.hostHere,
             "ML.hosting_ok", "pass", "ML.hosting_missing", "warning")

LegalNotices(p) ==
    Judge(p.noPrivacy = 0, "ML.privacy_ok", "pass", "ML.privacy_missing", "warning")
    \union Item(IF p.terms THEN "ML.cgu_ok" ELSE "ML.cgu_missing", "pass", 1)
    \union (IF ~p.editor THEN {}
            ELSE Judge(p.solocal = 0, "ML.solocal_ok", "pass", "ML.solocal_detected", "fail"))
    \union Judge(p.noConsent = 0, "ML.cookie_ok", "pass", "ML.cookie_missing", "warning")

MentionsLegales(p) == Graded(LegalLink(p) \union LegalNotices(p) \union Hosting(p), LegalScale)

(****************************************************************************)
(* MENTIONS_LEGALES_DATA. [duda, legalPage, widget: "config", "bindings" or *)
(* "none"; unbound: fields without a binding, empty: without a value,       *)
(* unread: bound to a field the page does not show; rcs: "good",            *)
(* "malformed" or "other company"]. The number of the RCS is compared with  *)
(* the SIRET when there is one.                                             *)
(****************************************************************************)
Mandatory == {"raisonsociale", "juridique", "capitalsocial", "adresse", "email", "telephone",
              "rcs", "siret", "directeur"}
Optional == {"tva", "reglespro", "titrepro", "etat", "ordre", "specifique", "champlibre",
             "mediateur", "mentionsobligatoires"}

(* The key of an item names its field.                                      *)
ASSUME KeysAssumption ==
    \A f, g \in Mandatory \union Optional :
        "ML_DATA.binding_" \o f = "ML_DATA.binding_" \o g => f = g

LegalDataPage ==
    [duda : BOOLEAN, legalPage : BOOLEAN, widget : {"config", "bindings", "none"},
     unbound : SUBSET STRING, unread : SUBSET STRING, empty : SUBSET STRING,
     rcs : {"good", "malformed", "other company"}]

ValidateRcs(p, filled) ==
    IF p.rcs = "malformed" \/ (p.rcs = "other company" /\ "siret" \in filled)
    THEN "warning" ELSE "pass"

LegalFields(p) ==
    LET bound   == IF p.widget = "config" THEN Mandatory \union Optional
                   ELSE (Mandatory \union Optional) \ p.unbound
        unread  == IF p.widget = "config" THEN {} ELSE p.unread \intersect bound
        filled  == (bound \ unread) \ p.empty
        missing == (Mandatory \union Optional) \ (filled \union unread)
    IN (UNION {Item("ML_DATA.binding_" \o f, IF f \in Mandatory THEN "fail" ELSE "warning", 1)
                : f \in missing})
       \union (UNION {Item("ML_DATA.binding_" \o f, "info", 1) : f \in unread})
       \union (UNION {Item("ML_DATA.binding_" \o f,
                          IF f = "rcs" THEN ValidateRcs(p, filled) ELSE "pass", 1) : f \in filled})

MentionsLegalesData(p) ==
    LET Scale(failures, warnings) ==
            IF failures >= 3 THEN 0 ELSE IF failures >= 1 THEN 2
            ELSE IF warnings >= 5 THEN 3 ELSE IF warnings > 0 THEN 4 ELSE 5
    IN IF ~p.duda \/ ~p.legalPage THEN Na({})
       ELSE IF p.widget = "none" THEN Fail(Item("ML_DATA.widget_missing", "fail", 1), 0)
       ELSE Graded(Item("ML_DATA.widget_found", "pass", 1) \union LegalFields(p), Scale)

(****************************************************************************)
(* DATA_BINDING. [duda; noFooter, noField, emptyFields, noBinding,          *)
(* emptyBindings, noLogo: defects; active: bindings that are alive; joined  *)
(* and loose: the components that are bound and those that are not; form:   *)
(* "none", "bound", "encrypted" or "loose"]                                 *)
(****************************************************************************)
Components == {"ctc", "map", "hours", "social"}
DataBindingPage ==
    {p \in [duda : BOOLEAN, noFooter : Nat, noField : Nat, emptyFields : Nat, noBinding : Nat,
            active : Nat, emptyBindings : Nat, noLogo : Nat, joined : SUBSET Components,
            loose : SUBSET Components, form : {"none", "bound", "encrypted", "loose"}] :
        /\ p.noField > 0 => p.emptyFields = 0
        /\ p.noBinding > 0 => p.emptyBindings = 0 /\ p.active = 0}

FormItem(form) ==
    CASE form = "none"      -> {}
      [] form = "bound"     -> Item("DATA_BINDING.form_connected", "pass", 1)
      [] form = "encrypted" -> Item("DATA_BINDING.form_connected", "info", 1)
      [] form = "loose"     -> Item("DATA_BINDING.form_connected", "warning", 1)

BindingItems(p) ==
    IF p.noBinding > 0 THEN Item("DATA_BINDING.no_data_binding", "warning", 1)
    ELSE Item("DATA_BINDING.data_binding_count", IF p.active > 0 THEN "pass" ELSE "warning", 1)
         \union When(p.emptyBindings > 0, "DATA_BINDING.data_binding_empty", "warning")

ComponentItems(p) ==
    LET Component(k, status) == Item("DATA_BINDING." \o k \o "_connected", status, 1)
    IN Component("logo", IF p.noLogo > 0 THEN "warning" ELSE "pass")
       \union (UNION {Component(k, "pass") : k \in p.joined \ p.loose})
       \union (UNION {Component(k, "warning") : k \in p.loose})

DataBinding(p) ==
    LET Scale(failures, warnings) ==
            IF warnings >= 3 THEN 2 ELSE IF warnings = 2 THEN 3 ELSE IF warnings = 1 THEN 4 ELSE 5
    IN IF ~p.duda THEN Na({})
       ELSE Graded(
              Item("DATA_BINDING.footer_address", IF p.noFooter > 0 THEN "warning" ELSE "pass", 1)
              \union Judge(p.noField = 0, "DATA_BINDING.data_field_count", "pass",
                           "DATA_BINDING.no_data_field", "warning")
              \union When(p.noField = 0 /\ p.emptyFields > 0,
                          "DATA_BINDING.empty_data_field", "warning")
              \union BindingItems(p)
              \union Item("DATA_BINDING.ctc_count", "pass", 1)
              \union Item("DATA_BINDING.ctm_count", "pass", 1)
              \union ComponentItems(p) \union FormItem(p.form)
              \union Item("DATA_BINDING.duda_config", "pass", 1),
              Scale)
=============================================================================
