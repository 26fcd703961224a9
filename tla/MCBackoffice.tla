----------------------------- MODULE MCBackoffice -----------------------------
(* Two super administrators, an administrator and an editor. Any two of     *)
(* these requests, and some mixes of three or four that act on the same     *)
(* rows, interleaved statement by statement.                                *)
EXTENDS Backoffice

MCStaff == [ada |-> SUPER_ADMIN, bob |-> SUPER_ADMIN, cleo |-> ADMIN, dan |-> EDITOR]
MCGammes == {"start"}

Upd(by, u, rank, to) == [do |-> "update", by |-> by, target |-> u, rank |-> rank, status |-> to]
Triage(by, to, who) == [do |-> "triage", by |-> by, status |-> to, assign |-> who]
Save(by, what, g, keeps) == [do |-> what, by |-> by, gamme |-> g, keepsLabel |-> keeps]
Fine(what) == [do |-> what, by |-> "ada", target |-> "dan", permission |-> "messages:write"]

MCAsk == [
    create     |-> [do |-> "create", by |-> "cleo", name |-> "eve", rank |-> EDITOR],
    demoteAda  |-> Upd("bob", "ada", EDITOR, "active"),
    suspendBob |-> Upd("ada", "bob", SUPER_ADMIN, "suspended"),
    removeCleo |-> [do |-> "remove", by |-> "bob", target |-> "cleo"],
    suspendDan |-> Upd("cleo", "dan", EDITOR, "suspended"),
    password   |-> [do |-> "password", by |-> "cleo", target |-> "dan"],
    grant      |-> Fine("grant"),
    revoke     |-> Fine("revoke"),
    login      |-> [do |-> "login", by |-> "dan", right |-> TRUE],
    wrong1     |-> [do |-> "login", by |-> "dan", right |-> FALSE],
    wrong2     |-> [do |-> "login", by |-> "dan", right |-> FALSE],
    wrong3     |-> [do |-> "login", by |-> "dan", right |-> FALSE],
    refresh    |-> [do |-> "refresh", by |-> "dan", session |-> "dan"],
    logout     |-> [do |-> "logout", by |-> "dan"],
    save       |-> Save("ada", "save", "start", TRUE),
    save2      |-> Save("bob", "save", "start", FALSE),
    saveNew    |-> Save("ada", "save", "default", FALSE),
    reset      |-> Save("cleo", "reset", "start", TRUE),
    delete     |-> Save("cleo", "delete", "start", FALSE),
    boot       |-> Save(None, "boot", "default", FALSE),
    send       |-> [do |-> "send", by |-> "cleo", to |-> DOMAIN MCStaff, rank |-> TESTER,
                    files |-> {"f1", "f2"}],
    sendPlain  |-> [do |-> "send", by |-> "dan", to |-> {"ada", "cleo"}, rank |-> ADMIN,
                    files |-> {}],
    open       |-> [do |-> "open", by |-> "dan", message |-> "send"],
    archive    |-> [do |-> "archive", by |-> "dan", message |-> "send", on |-> TRUE],
    readAll    |-> [do |-> "readAll", by |-> "dan"],
    report     |-> [do |-> "report", by |-> "cleo"],
    accept     |-> Triage("cleo", "accepte", None),
    reject     |-> Triage("ada", "rejete", "cleo"),
    work       |-> Triage("ada", "en_cours", None)]
MCCalls == DOMAIN MCAsk

MCMixes == {{c, d} : c, d \in MCCalls} \union {
    {"demoteAda", "suspendBob", "removeCleo"}, {"create", "removeCleo", "suspendBob"},
    {"suspendDan", "login", "refresh"}, {"suspendDan", "password", "login"},
    {"suspendDan", "logout", "refresh"}, {"wrong1", "wrong2", "wrong3", "login"}, {"grant", "revoke", "sendPlain"},
    {"save", "save2", "reset"}, {"save", "save2", "delete"}, {"save", "reset", "delete"},
    {"saveNew", "boot", "save"},
    {"send", "removeCleo", "open"}, {"send", "suspendDan", "removeCleo"},
    {"send", "archive", "readAll", "open"},
    {"report", "accept", "reject", "work"}, {"report", "removeCleo", "reject"}}
=============================================================================
