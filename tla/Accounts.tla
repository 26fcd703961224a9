------------------------------ MODULE Accounts ------------------------------
(****************************************************************************)
(* Accounts and what opens them: UsersService (users/users.service.ts), the *)
(* login, rotation and logout of AuthService (auth/auth.service.ts), the    *)
(* guards every request passes (auth/guards, rbac/rbac.service.ts) and the  *)
(* statements of their repositories.                                        *)
(*                                                                          *)
(* An access token is a signed snapshot: the account, its rank and the      *)
(* version of its tokens when it was made. It is compared with the account  *)
(* on every request. Expiry (of tokens, sessions and locks), the limit of   *)
(* logins per address and the profile fields of an account are left out.    *)
(****************************************************************************)
EXTENDS Requests

CONSTANTS Staff,      \* [account -> rank], the accounts there are at first
          MaxAttempts \* the failed logins that lock an account

(* An account that is created is named after its request, hence new.        *)
ASSUME AccountsAssumption ==
    /\ MaxAttempts \in Nat \ {0}
    /\ \A u \in DOMAIN Staff : Staff[u] \in Nat
    /\ Calls \intersect DOMAIN Staff = {}
    /\ \A c \in Calls : Ask[c].do \in {"create", "update"} => Ask[c].rank \in Nat

VARIABLES users,     \* [account -> [name, rank, status, version,
                     \*   failed, locked]], rows of users
          grants,    \* rows [user, permission] of user_permissions
          sessions,  \* rows [id, user, revoked] of user_sessions
          tokens,    \* access tokens [user, rank, version] that were given out
          acting,    \* the token a request was admitted with
          target,    \* the row of users it has read
          actives,   \* the number of administrators it has counted
          crossed    \* history variable: sessions opened on a row read before
                     \* it changed

tables == <<users, grants, sessions, tokens>>
reads == <<acting, target, actives>>
accountVars == <<tables, reads, crossed>>

TESTER == 10
EDITOR == 30
ADMIN == 50
SUPER_ADMIN == 100

NewAccount(name, rank) ==
    [name |-> name, rank |-> rank, status |-> "active", version |-> 0,
     failed |-> 0, locked |-> FALSE]

AccountsInit ==
    /\ users = [u \in DOMAIN Staff |->
                   NewAccount(u, Staff[u])]
    /\ grants = {}
    /\ sessions = {[id |-> u, user |-> u, revoked |-> FALSE] : u \in DOMAIN Staff}
    /\ tokens = {[user |-> u, rank |-> Staff[u], version |-> 0] : u \in DOMAIN Staff}
    /\ acting = [c \in Calls |-> None]
    /\ target = [c \in Calls |-> None]
    /\ actives = [c \in Calls |-> 0]
    /\ crossed = {}

Active(u) == u \in DOMAIN users /\ users[u].status = "active"
Administrators == {u \in DOMAIN users : Active(u) /\ users[u].rank >= ADMIN}

-----------------------------------------------------------------------------
(* isTokenVersionCurrent: existence, status and version in one query.       *)
Accepted(token) == Active(token.user) /\ users[token.user].version = token.version

(* RANK_DEFAULT_PERMISSIONS, the permissions the requests need.             *)
RankHas(rank, permission) ==
    \/ rank >= SUPER_ADMIN
    \/ rank >= ADMIN /\ permission \in {"users:write", "messages:write", "feedback:read"}

(* What a route asks of who calls it (the controllers).                     *)
Required(c) ==
    CASE Ask[c].do \in {"create", "update", "password", "grant", "revoke"} -> "users:write"
      [] Ask[c].do = "remove" -> "users:delete"
      [] Ask[c].do = "send" -> "messages:write"
      [] Ask[c].do = "triage" -> "feedback:read"
      [] OTHER -> None
AdminOnly == {"save", "reset", "delete"}
Public == {"login", "refresh", "boot"}

(* JwtAuthGuard, with any token of the caller, then RankGuard on the rank   *)
(* the token says.                                                          *)
Enter(c) ==
    /\ pc[c] = "idle" /\ Ask[c].do \notin Public
    /\ \E token \in tokens :
           /\ token.user = Ask[c].by /\ Accepted(token)
           /\ Ask[c].do \in AdminOnly => token.rank >= ADMIN
           /\ acting' = [acting EXCEPT ![c] = token]
           /\ Goto(c, IF Required(c) = None \/ token.rank >= SUPER_ADMIN
                      THEN "allowed" ELSE "entered")
    /\ UNCHANGED <<tables, target, actives, crossed>>

(* RbacService.resolve, one more query: a row for this permission, or the   *)
(* defaults of the rank.                                                    *)
Authorize(c) ==
    /\ pc[c] = "entered"
    /\ \/ [user |-> Ask[c].by, permission |-> Required(c)] \in grants
       \/ RankHas(acting[c].rank, Required(c))
    /\ Goto(c, "allowed")
    /\ UNCHANGED accountVars

-----------------------------------------------------------------------------
(* refuseRangSuperieur.                                                     *)
MayActOn(c, rank) == acting[c].rank >= SUPER_ADMIN \/ rank < acting[c].rank

(* create: no such username, then the INSERT, which fails on the unique key *)
(* if the name was taken since. The id is new: the request's name.          *)
FindName(c) ==
    /\ Doing(c, {"create"}, "allowed")
    /\ MayActOn(c, Ask[c].rank)
    /\ \A u \in DOMAIN users : users[u].name # Ask[c].name
    /\ Goto(c, "free")
    /\ UNCHANGED accountVars

InsertAccount(c) ==
    /\ Doing(c, {"create"}, "free")
    /\ \A u \in DOMAIN users : users[u].name # Ask[c].name
    /\ users' = [u \in DOMAIN users \union {c} |->
                    IF u # c THEN users[u] ELSE NewAccount(Ask[c].name, Ask[c].rank)]
    /\ Goto(c, "done")
    /\ UNCHANGED <<grants, sessions, tokens, reads, crossed>>

(* perdAdministration: the update takes the right to administer away.       *)
Withdraws(c) ==
    \/ Ask[c].do = "remove"
    \/ Ask[c].do = "update" /\ (Ask[c].rank < ADMIN \/ Ask[c].status # "active")

(* requireUser, and the guards on the row it gives: not oneself, nobody of  *)
(* one's own rank or above, no rank of one's own or above, no permission    *)
(* one's rank does not hold.                                                *)
ReadTarget(c) ==
    LET u == Ask[c].target IN
    /\ Doing(c, {"update", "password", "remove", "grant", "revoke"}, "allowed")
    /\ u \in DOMAIN users
    /\ Ask[c].do \in {"update", "remove"} => u # Ask[c].by
    /\ MayActOn(c, users[u].rank)
    /\ Ask[c].do = "update" => MayActOn(c, Ask[c].rank)
    /\ Ask[c].do = "grant" => RankHas(acting[c].rank, Ask[c].permission)
    /\ target' = [target EXCEPT ![c] = users[u]]
    /\ Goto(c, IF Withdraws(c) /\ u \in Administrators THEN "lastOne" ELSE "checked")
    /\ UNCHANGED <<tables, acting, actives, crossed>>

(* Mutant of CountAdministrators: one is enough.                            *)
CountLoosely(c) ==
    /\ Doing(c, {"update", "remove"}, "lastOne")
    /\ Cardinality(Administrators) > 0
    /\ actives' = [actives EXCEPT ![c] = Cardinality(Administrators)]
    /\ Goto(c, "checked")
    /\ UNCHANGED <<tables, acting, target, crossed>>

(* refuseDernierAdministrateur: there must be another one.                  *)
CountAdministrators(c) ==
    /\ Doing(c, {"update", "remove"}, "lastOne")
    /\ Cardinality(Administrators) > 1
    /\ actives' = [actives EXCEPT ![c] = Cardinality(Administrators)]
    /\ Goto(c, "checked")
    /\ UNCHANGED <<tables, acting, target, crossed>>

(* An UPDATE of a row that is gone changes nothing, and the request goes on.*)
Write(u, row) == IF u \in DOMAIN users THEN [users EXCEPT ![u] = row] ELSE users

(* Mutant of UpdateAccount: the version moves only with the status.         *)
UpdateWithoutBump(c) ==
    LET u == Ask[c].target IN
    /\ Doing(c, {"update"}, "checked")
    /\ users' = Write(u, [users[u] EXCEPT !.rank = Ask[c].rank, !.status = Ask[c].status])
    /\ Goto(c, IF Ask[c].status = "active" THEN "done" ELSE "bump")
    /\ UNCHANGED <<grants, sessions, tokens, reads, crossed>>

(* update gives a rank and a status here; the bump is another statement.    *)
UpdateAccount(c) ==
    LET u == Ask[c].target IN
    /\ Doing(c, {"update"}, "checked")
    /\ users' = Write(u, [users[u] EXCEPT !.rank = Ask[c].rank, !.status = Ask[c].status])
    /\ Goto(c, "bump")
    /\ UNCHANGED <<grants, sessions, tokens, reads, crossed>>

(* resetPassword: the same UPDATE moves the version.                        *)
WritePassword(c) ==
    LET u == Ask[c].target IN
    /\ Doing(c, {"password"}, "checked")
    /\ users' = Write(u, [users[u] EXCEPT !.version = @ + 1])
    /\ Goto(c, "drop")
    /\ UNCHANGED <<grants, sessions, tokens, reads, crossed>>

(* grantPermission fails on its foreign key when the account is gone.       *)
GrantPermission(c) ==
    /\ Doing(c, {"grant"}, "checked")
    /\ Ask[c].target \in DOMAIN users
    /\ grants' = grants \union {[user |-> Ask[c].target, permission |-> Ask[c].permission]}
    /\ Goto(c, "bump")
    /\ UNCHANGED <<users, sessions, tokens, reads, crossed>>

(* revokePermission answers 404 when there was no such row.                 *)
RevokePermission(c) ==
    LET row == [user |-> Ask[c].target, permission |-> Ask[c].permission] IN
    /\ Doing(c, {"revoke"}, "checked")
    /\ row \in grants
    /\ grants' = grants \ {row}
    /\ Goto(c, "bump")
    /\ UNCHANGED <<users, sessions, tokens, reads, crossed>>

(* Mutant of BumpVersion: nothing follows it.                               *)
BumpAndEnd(c) ==
    LET u == Ask[c].target IN
    /\ Doing(c, {"update", "grant", "revoke"}, "bump")
    /\ users' = Write(u, [users[u] EXCEPT !.version = @ + 1])
    /\ Goto(c, "done")
    /\ UNCHANGED <<grants, sessions, tokens, reads, crossed>>

(* bumpTokenVersion; an account that is no longer active loses its sessions *)
(* too.                                                                     *)
BumpVersion(c) ==
    LET u == Ask[c].target IN
    /\ Doing(c, {"update", "grant", "revoke"}, "bump")
    /\ users' = Write(u, [users[u] EXCEPT !.version = @ + 1])
    /\ Goto(c, IF Ask[c].do = "update" /\ Ask[c].status # "active" THEN "drop" ELSE "done")
    /\ UNCHANGED <<grants, sessions, tokens, reads, crossed>>

(* revokeAllForUser: the last statement of a suspension, of a new password  *)
(* and of a logout, the one before the DELETE of a removal.                 *)
DropSessions(c) ==
    LET u == IF Ask[c].do = "logout" THEN Ask[c].by ELSE Ask[c].target IN
    /\ \/ Doing(c, {"update", "password"}, "drop")
       \/ Doing(c, {"remove"}, "checked")
       \/ Doing(c, {"logout"}, "allowed")
    /\ sessions' = {IF s.user = u THEN [s EXCEPT !.revoked = TRUE] ELSE s : s \in sessions}
    /\ Goto(c, IF Ask[c].do = "remove" THEN "delete" ELSE "done")
    /\ UNCHANGED <<users, grants, tokens, reads, crossed>>

(* DELETE FROM users: sessions and permissions go with the account.         *)
DeleteAccount(c) ==
    LET u == Ask[c].target IN
    /\ Doing(c, {"remove"}, "delete")
    /\ users' = [v \in DOMAIN users \ {u} |-> users[v]]
    /\ sessions' = {s \in sessions : s.user # u}
    /\ grants' = {g \in grants : g.user # u}
    /\ Goto(c, "done")
    /\ UNCHANGED <<tokens, reads, crossed>>

-----------------------------------------------------------------------------
(* login: the row of the username; the password is checked on it, then, for *)
(* a right one, the lock and the status.                                    *)
FindLogin(c) ==
    LET u == Ask[c].by IN
    /\ Doing(c, {"login"}, "idle")
    /\ u \in DOMAIN users
    /\ Ask[c].right => Active(u) /\ ~users[u].locked
    /\ target' = [target EXCEPT ![c] = users[u]]
    /\ Goto(c, IF Ask[c].right THEN "right" ELSE "wrong")
    /\ UNCHANGED <<tables, acting, actives, crossed>>

(* Mutant of RecordFailure: the lock comes with one failure only.           *)
RecordFailureOnce(c) ==
    LET u == Ask[c].by
        failed == target[c].failed + 1
    IN
    /\ Doing(c, {"login"}, "wrong")
    /\ users' = Write(u, [users[u] EXCEPT !.failed = failed, !.locked = failed = MaxAttempts])
    /\ Goto(c, "done")
    /\ UNCHANGED <<grants, sessions, tokens, reads, crossed>>

(* onFailedLogin: one more failure than the row that was read, and the lock *)
(* or its absence, whatever the row says by now.                            *)
RecordFailure(c) ==
    LET u == Ask[c].by
        failed == target[c].failed + 1
    IN
    /\ Doing(c, {"login"}, "wrong")
    /\ users' = Write(u, [users[u] EXCEPT !.failed = failed, !.locked = failed >= MaxAttempts])
    /\ Goto(c, "done")
    /\ UNCHANGED <<grants, sessions, tokens, reads, crossed>>

(* resetFailedLogins.                                                       *)
ResetFailures(c) ==
    LET u == Ask[c].by IN
    /\ Doing(c, {"login"}, "right")
    /\ users' = Write(u, [users[u] EXCEPT !.failed = 0, !.locked = FALSE])
    /\ Goto(c, "known")
    /\ UNCHANGED <<grants, sessions, tokens, reads, crossed>>

(* refresh: the session, joined with its account, then the account again.   *)
FindSession(c) ==
    /\ Doing(c, {"refresh"}, "idle")
    /\ [id |-> Ask[c].session, user |-> Ask[c].by, revoked |-> FALSE] \in sessions
    /\ Active(Ask[c].by)
    /\ Goto(c, "valid")
    /\ UNCHANGED accountVars

ReadHolder(c) ==
    /\ Doing(c, {"refresh"}, "valid")
    /\ Active(Ask[c].by)
    /\ target' = [target EXCEPT ![c] = users[Ask[c].by]]
    /\ Goto(c, "known")
    /\ UNCHANGED <<tables, acting, actives, crossed>>

(* The new session, and for a refresh the end of the one presented, in one  *)
(* transaction; the access token carries the row that was read. The INSERT  *)
(* fails on its foreign key when the account is gone.                       *)
OpenSession(c) ==
    LET u == Ask[c].by
        kept == IF Ask[c].do = "login" THEN sessions
                ELSE {IF s.id = Ask[c].session THEN [s EXCEPT !.revoked = TRUE] ELSE s
                      : s \in sessions}
    IN
    /\ Doing(c, {"login", "refresh"}, "known")
    /\ u \in DOMAIN users
    /\ sessions' = kept \union {[id |-> c, user |-> u, revoked |-> FALSE]}
    /\ tokens' = tokens \union {[user |-> u, rank |-> target[c].rank,
                                 version |-> target[c].version]}
    /\ crossed' = IF \A f \in {"rank", "status", "version"} : target[c][f] = users[u][f]
                  THEN crossed ELSE crossed \union {c}
    /\ Goto(c, "done")
    /\ UNCHANGED <<users, grants, reads>>

(* The statements that concern nothing else than accounts.                  *)
AccountStep(c) ==
    \/ Enter(c) \/ Authorize(c)
    \/ FindName(c) \/ InsertAccount(c)
    \/ ReadTarget(c) \/ CountAdministrators(c)
    \/ UpdateAccount(c) \/ WritePassword(c) \/ GrantPermission(c) \/ RevokePermission(c)
    \/ BumpVersion(c) \/ DropSessions(c)
    \/ FindLogin(c) \/ RecordFailure(c) \/ ResetFailures(c)
    \/ FindSession(c) \/ ReadHolder(c) \/ OpenSession(c)

(* Where a failure leaves half of the work done.                            *)
AccountDies(c) == Dies(c, {"bump", "drop", "delete"}) /\ UNCHANGED accountVars

-----------------------------------------------------------------------------
(* "Le dernier administrateur actif ne se retire pas" (users.service.ts:49).*)
(* The count is one statement and the withdrawal another: the last active   *)
(* administrator is only ever withdrawn by a request whose count another    *)
(* request has made stale, or that has read the account before it became    *)
(* an administrator and has not counted.                                    *)
AdministratorRemains ==
    [][\A c \in Calls :
        /\ pc'[c] # pc[c] /\ pc[c] \in {"checked", "delete"}
        /\ Administrators # {} /\ Administrators' = {}
        => \/ target[c].rank < ADMIN \/ target[c].status # "active"
           \/ actives[c] # Cardinality(Administrators)]_<<pc, accountVars>>

(* "Toute ecriture revoque" (users.service.ts:51): the guards trust the rank*)
(* written in a token. A token they accept says the rank its account has    *)
(* now, unless an update of this account stands, or died, between its write *)
(* and the bump that follows.                                               *)
AcceptedRankIsCurrent ==
    \A token \in tokens : Accepted(token) =>
        \/ token.rank = users[token.user].rank
        \/ \E c \in Calls : /\ Ask[c].do = "update" /\ Ask[c].target = token.user
                            /\ pc[c] = "bump"

(* A suspended account has no session left that a refresh would revive the  *)
(* day it is active again, except one opened by a request that had read the *)
(* account before the suspension, or if the suspension has not ended.       *)
SuspendedHoldsNoSession ==
    \A s \in sessions : s.revoked \/ Active(s.user) \/ s.id \in crossed
        \/ \E c \in Calls : /\ Ask[c].do = "update" /\ Ask[c].target = s.user
                            /\ pc[c] \in {"bump", "drop"}

(* "Verrouillage temporaire" (auth.service.ts:125): a locked account, until *)
(* the lock runs out, is opened again by nobody but a login that had read   *)
(* it before the failure that locked it: a right one, which clears the      *)
(* lock, or a wrong one, which writes its own smaller count. A failure on a *)
(* locked account locks it again, and so does every failure after it.       *)
LockHolds ==
    [][\A u \in DOMAIN users \intersect DOMAIN users' :
        users[u].locked /\ ~users'[u].locked =>
            \E c \in Calls : /\ pc[c] \in {"right", "wrong"} /\ pc'[c] # pc[c]
                            /\ Ask[c].by = u
                            /\ ~target[c].locked
                            /\ target[c].failed < users[u].failed]_<<pc, accountVars>>
=============================================================================
