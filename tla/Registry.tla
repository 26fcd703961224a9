------------------------------ MODULE Registry ------------------------------
(****************************************************************************)
(* The points of control a profile can name (analyzers-registry.ts): for    *)
(* each visible criterion the keys that its polarity may mark "absent". The *)
(* list is not that of the keys the analysers give: some that they give are *)
(* missing, and of many that it has no analyser speaks any more.            *)
(****************************************************************************)
EXTENDS Sequences, TLC

Keys(prefix, names) == {prefix \o "." \o n : n \in names}

(* The criteria shown inside another one.                                   *)
MergedInto(c) ==
    CASE c = "DUPLICATE_IMAGES" -> "IMAGES"
      [] c = "STRUCTURED_DATA"  -> "MENTIONS_LEGALES_DATA"
      [] OTHER -> c

DesignSubChecks == [
    LOGO |-> Keys("LOGO", {"not_found", "alt_missing", "alt_empty", "alt_ok", "not_clickable",
        "link_no_href", "link_homepage", "link_other_page", "link_external", "src_missing",
        "src_ok", "link_title_ok", "link_title_missing"}),
    IMAGES |-> Keys("IMAGES", {"alt_missing", "alt_present", "decorative", "format_modern",
            "weight_fail", "weight_warn", "weight_ok"})
        \union Keys("DUP", {"unique_count", "logos", "no_duplicates", "duplicates"}),
    NAV_STRUCTURE |-> Keys("NAV_STRUCTURE", {"nav_role_found", "no_links", "links_count"}),
    PICTOGRAM |-> Keys("PICTO", {"fa_count", "fa_accessibility", "mi_count", "bi_count",
        "svg_count", "svg_accessibility", "fa_not_loaded", "no_icons", "total"})]

DataSubChecks == [
    DATA_BINDING |-> Keys("DATA_BINDING", {"no_data_field", "data_field_count",
        "empty_data_field", "no_data_binding", "data_binding_count", "data_binding_empty",
        "ctc_count", "ctm_count", "duda_config", "logo_connected", "ctc_connected",
        "map_connected", "hours_connected", "social_connected", "form_connected",
        "footer_address"}),
    FAVICON |-> Keys("FAVICON", {"missing", "present", "duda_default", "apple_touch",
        "apple_touch_missing", "sizes"}),
    CANONICAL |-> Keys("CANONICAL", {"missing", "multiple", "no_href", "url_ok",
        "cross_domain", "query_fragment", "http", "invalid_url"})]

LegalSubChecks == [
    MENTIONS_LEGALES_DATA |-> Keys("ML_DATA", {"widget_missing", "widget_found",
            "binding_raisonsociale", "binding_juridique", "binding_capitalsocial",
            "binding_adresse", "binding_email", "binding_telephone", "binding_rcs",
            "binding_siret", "binding_tva", "binding_directeur", "binding_reglespro",
            "binding_titrepro", "binding_etat", "binding_ordre", "binding_specifique",
            "binding_champlibre", "binding_mediateur", "binding_mentionsobligatoires"})
        \union Keys("SD", {"json_invalid", "no_json_ld", "json_ld_count", "type_block",
            "lb_name_missing", "lb_contact_missing", "lb_address_missing",
            "breadcrumb_empty", "microdata", "lb_five_images"})]

OpenGraphSubChecks == [
    OPEN_GRAPH |-> Keys("OG", {"og_title_missing", "og_title_ok", "og_description_missing",
        "og_description_ok", "og_image_missing", "og_image_ok", "og_image_present",
        "og_image_http", "og_url_missing", "og_url_ok", "og_type_missing", "og_type_ok",
        "twitter_none", "twitter_card_missing", "twitter_card_ok", "twitter_title_missing",
        "twitter_title_ok", "twitter_description_missing", "twitter_description_ok",
        "twitter_image_missing", "twitter_image_ok"})]

TechnicalSubChecks == [
    ANCHOR_TEXT |-> Keys("ANCHOR_TEXT", {"summary", "discordant", "ambiguous", "concordant",
        "probable", "generic", "no_links"}),
    ROBOTS_META |-> Keys("ROBOTS", {"no_directive", "directive_ok", "noindex", "nofollow",
        "noarchive", "robots_txt_missing", "robots_txt_ok", "robots_txt_status",
        "robots_txt_error", "x_robots_tag"}),
    LANG |-> Keys("LANG", {"missing", "unusual", "ok", "content_language", "lang_mismatch",
        "hreflang_count", "hreflang_no_default", "rtl"})]

NetworkSubChecks == [
    REDIRECTS |-> Keys("REDIRECTS", {"hop_count", "http_to_https", "final_http", "https",
        "www_mismatch", "status_redirect", "status_ok", "status_error",
        "internal_link_redirected"}),
    TRACKING |-> Keys("TRACKING", {"tool_detected", "none", "count", "no_cmp", "cmp_ok"}),
    BROKEN_LINKS |-> Keys("BROKEN", {"checked", "broken", "no_broken", "timeout",
        "redirected", "rate_limited", "link_valid"}),
    SPLIT_LINKS |-> Keys("SPLIT", {"no_split", "split_found", "no_duplicate",
        "duplicate_found"})]

HeadingSubChecks == [
    HN_STRUCTURE |-> Keys("HN", {"h1_missing", "h1_duplicate", "h1_unique", "first_not_h1",
        "h2_insufficient", "h2_count", "hierarchy_break", "hierarchy_ok", "common_words"}),
    HN_LENGTH |-> Keys("HN_LENGTH", {"too_short", "too_long", "ok", "no_h1_h2"})]

MetaSubChecks == [
    METAS |-> Keys("METAS", {"title_missing", "title_short", "title_long", "title_ok",
        "desc_missing", "desc_short", "desc_long", "desc_ok", "title_desc_identical",
        "noindex", "robots_ok", "viewport_missing", "viewport_ok", "charset_missing",
        "charset_ok", "og_title_missing", "og_title_ok", "title_unique", "desc_unique",
        "title_duplicate", "desc_duplicate"})]

BodySubChecks == [
    BOLD |-> Keys("BOLD", {"none", "too_few", "too_many", "count_ok", "context_poor",
        "context_ok", "empty"}),
    LINKS |-> Keys("LINKS", {"total", "internal", "external", "ctc_invalid", "ctm_invalid",
        "external_nofollow", "empty_anchors", "no_http", "self_reference"}),
    CONTENT_LENGTH |-> Keys("CONTENT", {"word_count_fail", "word_count_warn",
        "word_count_ok", "duplicates", "no_duplicates", "ratio_low", "ratio_ok"})]

CtaSubChecks == [
    CTA |-> Keys("CTA", {"button_count", "buttons_empty", "cta_links", "image_links",
        "phone_count", "no_phone", "email_count", "no_email", "no_cta"}),
    MENTIONS_LEGALES |-> Keys("ML", {"legal_missing", "legal_ok", "legal_inaccessible",
        "privacy_missing", "privacy_ok", "cgu_missing", "cgu_ok", "solocal_detected",
        "solocal_ok", "cookie_missing", "cookie_ok", "hosting_missing", "hosting_ok"})]

AccessSubChecks == [
    CONTRAST_V2 |-> Keys("CONTRAST_V2", {"ok", "ok.var", "low", "low.var"}),
    ACCESSIBILITY |-> Keys("A11Y", {"skip_missing", "skip_ok", "structure_incomplete",
        "structure_ok", "img_alt_missing", "img_alt_ok", "links_empty", "links_ok",
        "form_no_label", "form_labeled", "tabindex_positive", "aria_invalid",
        "lang_missing"})]

SubChecks ==
    DesignSubChecks @@ DataSubChecks @@ LegalSubChecks @@ OpenGraphSubChecks
    @@ TechnicalSubChecks @@ NetworkSubChecks @@ HeadingSubChecks @@ MetaSubChecks
    @@ BodySubChecks @@ CtaSubChecks @@ AccessSubChecks

(* The keys a profile may mark for a criterion.                             *)
SubChecksOf(c) == IF MergedInto(c) \in DOMAIN SubChecks THEN SubChecks[MergedInto(c)] ELSE {}
=============================================================================
