-------------------------- MODULE Backoffice_proofs --------------------------
(****************************************************************************)
(* What the back office guarantees for any requests, any number of them and *)
(* any accounts. First about accounts: what a lock, a token, a session and  *)
(* the last administrator are worth while requests overlap. Then about      *)
(* profiles, messages and reports, accounts coming and going meanwhile.     *)
(****************************************************************************)
EXTENDS Backoffice, FiniteSetTheorems, TLAPS

(* The ids given so far. An id is never given twice.                        *)
Issued == DOMAIN Staff \union {c \in Calls : pc[c] = "done"}

Names == DOMAIN Staff \union {Ask[c].name : c \in {d \in Calls : Ask[d].do = "create"}}
Standings == {"active"} \union {Ask[c].status : c \in {d \in Calls : Ask[d].do = "update"}}
AccountRow == [name : Names, rank : Nat, status : Standings, version : Nat,
               failed : Nat, locked : BOOLEAN]

(* A row counts the failures its lock needs, and no more without the lock.  *)
WellLocked(row) == row.locked <=> row.failed >= MaxAttempts

(* The phases in which a request holds the row of users that it has read.   *)
Holding == {"lastOne", "checked", "bump", "drop", "delete", "right", "wrong", "known"}
ReadsARow == {"update", "password", "remove", "grant", "revoke", "login", "refresh"}

(* The phases of the requests that are not about accounts.                  *)
OtherPhases == {"creating", "overwriting", "updating", "writing", "storing", "written",
                "cleaning", "found", "read", "done"}
Phases == {"idle", "entered", "allowed", "free", "valid"} \union Holding \union OtherPhases

RowsInv ==
    /\ made \subseteq Calls
    /\ pc \in [Calls -> Phases]
    /\ users \in [DOMAIN users -> AccountRow]
    /\ DOMAIN users \subseteq Issued
    /\ \A u \in DOMAIN users : WellLocked(users[u])
    /\ target \in [Calls -> AccountRow \union {None}]
    /\ \A c \in Calls : Ask[c].do \in ReadsARow /\ pc[c] \in Holding =>
           target[c] \in AccountRow /\ WellLocked(target[c])
    /\ \A c \in Calls : pc[c] = "right" => ~target[c].locked

-----------------------------------------------------------------------------
Moves(c, phases) ==
    /\ pc[c] # "done"
    /\ pc'[c] \in phases
    /\ pc' = [pc EXCEPT ![c] = pc'[c]]
    /\ made' = made

MovesElsewhere(c) == Moves(c, OtherPhases) /\ pc[c] \notin Holding

LEMMA Going ==
    ASSUME NEW c \in Calls, pc \in [Calls -> Phases], NEW phases, NEW phase \in phases,
           pc[c] # "done", Goto(c, phase)
    PROVE  Moves(c, phases)
BY DEF Goto, Moves

(* The requests that are not about accounts pass through phases of their own*)
(* and leave the accounts as they are.                                      *)
LEMMA Elsewhere ==
    ASSUME NEW c \in Calls, pc \in [Calls -> Phases],
           ProfileStep(c) \/ MessageStep(c) \/ FeedbackStep(c) \/ MessageDies(c)
    PROVE  UNCHANGED <<pc, made>> \/ MovesElsewhere(c)
<1>1. CASE ProfileStep(c)
  <2>1. CASE LookVersion(c) BY <2>1, Going DEF LookVersion, Doing, MovesElsewhere, OtherPhases, Holding
  <2>2. CASE Create(c) BY <2>2, Going DEF Create, Doing, MovesElsewhere, OtherPhases, Holding
  <2>3. CASE Overwrite(c) BY <2>3, Going DEF Overwrite, Doing, MovesElsewhere, OtherPhases, Holding
  <2>4. CASE ReadLabel(c) BY <2>4, Going DEF ReadLabel, Doing, MovesElsewhere, OtherPhases, Holding
  <2>5. CASE Update(c) BY <2>5, Going DEF Update, Doing, MovesElsewhere, OtherPhases, Holding
  <2>6. CASE DeleteProfile(c) BY <2>6, Going DEF DeleteProfile, Doing, MovesElsewhere, OtherPhases, Holding
  <2>7. CASE Open(c) BY <2>7 DEF Open, requestVars
  <2> QED BY <1>1, <2>1, <2>2, <2>3, <2>4, <2>5, <2>6, <2>7 DEF ProfileStep
<1>2. CASE MessageStep(c)
  <2>1. CASE ResolveAudience(c) BY <2>1, Going DEF ResolveAudience, Doing, MovesElsewhere, OtherPhases, Holding
  <2>2. CASE StoreFile(c) BY <2>2, Going DEF StoreFile, Doing, MovesElsewhere, OtherPhases, Holding
  <2>3. CASE WriteMessage(c) BY <2>3, Going DEF WriteMessage, Doing, MovesElsewhere, OtherPhases, Holding
  <2>4. CASE MarkOwnCopy(c) BY <2>4, Going DEF MarkOwnCopy, Doing, MovesElsewhere, OtherPhases, Holding
  <2>5. CASE SendFails(c) BY <2>5, Going DEF SendFails, Doing, MovesElsewhere, OtherPhases, Holding
  <2>6. CASE TakeBack(c) BY <2>6, Going DEF TakeBack, Doing, MovesElsewhere, OtherPhases, Holding
  <2>7. CASE FindCopy(c) BY <2>7, Going DEF FindCopy, Doing, MovesElsewhere, OtherPhases, Holding
  <2>8. CASE MarkCopy(c) BY <2>8, Going DEF MarkCopy, Doing, MovesElsewhere, OtherPhases, Holding
  <2>9. CASE MarkAllRead(c) BY <2>9, Going DEF MarkAllRead, Doing, MovesElsewhere, OtherPhases, Holding
  <2>10. CASE FileStored(c) BY <2>10, Going DEF FileStored, Doing, MovesElsewhere, OtherPhases, Holding
  <2> QED BY <1>2, <2>1, <2>2, <2>3, <2>4, <2>5, <2>6, <2>7, <2>8, <2>9, <2>10 DEF MessageStep
<1>3. CASE FeedbackStep(c)
  <2>1. CASE Report(c) BY <2>1, Going DEF Report, Doing, MovesElsewhere, OtherPhases, Holding
  <2>2. CASE ReadReport(c) BY <2>2, Going DEF ReadReport, Doing, MovesElsewhere, OtherPhases, Holding
  <2>3. CASE WriteTriage(c) BY <2>3, Going DEF WriteTriage, Doing, MovesElsewhere, OtherPhases, Holding
  <2> QED BY <1>3, <2>1, <2>2, <2>3 DEF FeedbackStep
<1>4. CASE MessageDies(c) BY <1>4 DEF MessageDies, Dies
<1> QED BY <1>1, <1>2, <1>3, <1>4

(* What a step of the back office is, as far as accounts go.                *)
LEMMA Steps ==
    ASSUME NEW c \in Calls, pc \in [Calls -> Phases], Step(c)
    PROVE  \/ AccountStep(c)
           \/ DeleteAccount(c)
           \/ /\ UNCHANGED accountVars
              /\ UNCHANGED <<pc, made>> \/ MovesElsewhere(c)
BY Elsewhere DEF Step, RemoveAccount, AccountDies, Dies

(* An id given stays given.                                                 *)
LEMMA StaysIssued ==
    ASSUME RowsInv, NEW c \in Calls, NEW phases, Moves(c, phases)
    PROVE  Issued \subseteq Issued'
BY DEF RowsInv, Issued, Moves
-----------------------------------------------------------------------------
LEMMA RowsInit == Init => RowsInv
<1> SUFFICES ASSUME Init PROVE RowsInv
  OBVIOUS
<1>1. \A u \in DOMAIN Staff :
          NewAccount(u, Staff[u]) \in AccountRow /\ WellLocked(NewAccount(u, Staff[u]))
  BY AccountsAssumption DEF NewAccount, AccountRow, WellLocked, Names, Standings
<1>2. /\ pc = [c \in Calls |-> "idle"]
      /\ users = [u \in DOMAIN Staff |-> NewAccount(u, Staff[u])]
      /\ target = [c \in Calls |-> None]
  BY DEF Init, RequestsInit, AccountsInit
<1>3. \A c \in Calls : pc[c] \notin Holding
  BY <1>2 DEF Holding
<1>4. DOMAIN users = DOMAIN Staff /\ \A u \in DOMAIN users : users[u] = NewAccount(u, Staff[u])
  BY <1>2
<1>5. users \in [DOMAIN users -> AccountRow] /\ \A u \in DOMAIN users : WellLocked(users[u])
  BY <1>1, <1>2, <1>4
<1>6. pc \in [Calls -> Phases] /\ \A c \in Calls : pc[c] # "right"
  BY <1>2 DEF Phases
<1>7. target \in [Calls -> AccountRow \union {None}]
  BY <1>2
<1>8. DOMAIN users \subseteq Issued
  BY <1>4 DEF Issued
<1>9. made \subseteq Calls
  BY RequestsAssumption DEF Init, RequestsInit
<1> QED BY <1>9, <1>3, <1>5, <1>6, <1>7, <1>8 DEF RowsInv

(* A step that writes a row of users in place and moves on.                 *)
LEMMA RowWritten ==
    ASSUME RowsInv, NEW c \in Calls, NEW u, NEW row, Moves(c, Phases \ {"right"}),
           u \in DOMAIN users => row \in AccountRow /\ WellLocked(row),
           users' = Write(u, row), target' = target,
           pc'[c] \in Holding => pc[c] \in Holding
    PROVE  RowsInv'
<1>1. Issued \subseteq Issued'
  BY StaysIssued
<1>2. /\ users' \in [DOMAIN users' -> AccountRow]
      /\ DOMAIN users' = DOMAIN users
      /\ \A v \in DOMAIN users' : WellLocked(users'[v])
  BY DEF RowsInv, Write
<1> QED BY <1>1, <1>2 DEF RowsInv, Moves

(* A step that leaves users as they are, and reads none.                    *)
LEMMA RowsStay ==
    ASSUME RowsInv, NEW c \in Calls, Moves(c, Phases \ {"right"}),
           UNCHANGED <<users, target>>,
           pc'[c] \in Holding => pc[c] \in Holding
    PROVE  RowsInv'
<1>1. Issued \subseteq Issued'
  BY StaysIssued
<1> QED BY <1>1 DEF RowsInv, Moves

(* A step that reads a row.                                                 *)
LEMMA RowRead ==
    ASSUME RowsInv, NEW c \in Calls, Moves(c, Phases), UNCHANGED users,
           NEW u \in DOMAIN users, target' = [target EXCEPT ![c] = users[u]],
           pc'[c] = "right" => ~users[u].locked
    PROVE  RowsInv'
<1>1. Issued \subseteq Issued'
  BY StaysIssued
<1>2. users[u] \in AccountRow /\ WellLocked(users[u])
  BY DEF RowsInv
<1> QED BY <1>1, <1>2 DEF RowsInv, Moves

(* A row of which the failures and the lock are written together.           *)
LEMMA Failed ==
    ASSUME NEW row \in AccountRow, NEW failed \in Nat, NEW locked,
           locked = (failed >= MaxAttempts)
    PROVE  LET written == [row EXCEPT !.failed = failed, !.locked = locked]
           IN  written \in AccountRow /\ WellLocked(written)
<1>1. locked \in BOOLEAN
  OBVIOUS
<1> DEFINE written == [row EXCEPT !.failed = failed, !.locked = locked]
<1>2. written \in AccountRow
  BY <1>1 DEF AccountRow
<1>3. written.failed = failed /\ written.locked = locked
  BY DEF AccountRow
<1> QED BY <1>2, <1>3 DEF WellLocked

LEMMA RowsStep ==
    ASSUME RowsInv, NEW c \in Calls, Step(c)
    PROVE  RowsInv'
<1> USE DEF RowsInv
<1>1. CASE UNCHANGED accountVars /\ (UNCHANGED <<pc, made>> \/ MovesElsewhere(c))
  <2>1. CASE UNCHANGED <<pc, made>>
    BY <1>1, <2>1 DEF accountVars, tables, reads, Issued
  <2>2. CASE MovesElsewhere(c)
    <3>1. Moves(c, Phases \ {"right"}) /\ pc'[c] \notin Holding
      BY <2>2 DEF MovesElsewhere, Moves, Phases, OtherPhases, Holding
    <3> QED BY <1>1, <3>1, RowsStay DEF accountVars, tables, reads
  <2> QED BY <1>1, <2>1, <2>2
<1>2. CASE Enter(c)
  <2>1. Moves(c, Phases \ {"right"}) /\ (pc'[c] \in Holding => pc[c] \in Holding)
    BY <1>2 DEF Enter, Doing, Goto, Moves, Phases, OtherPhases, Holding
  <2> QED BY <1>2, <2>1, RowsStay DEF Enter, accountVars, tables, reads
<1>3. CASE Authorize(c)
  <2>1. Moves(c, Phases \ {"right"}) /\ (pc'[c] \in Holding => pc[c] \in Holding)
    BY <1>3 DEF Authorize, Doing, Goto, Moves, Phases, OtherPhases, Holding
  <2> QED BY <1>3, <2>1, RowsStay DEF Authorize, accountVars, tables, reads
<1>4. CASE FindName(c)
  <2>1. Moves(c, Phases \ {"right"}) /\ (pc'[c] \in Holding => pc[c] \in Holding)
    BY <1>4 DEF FindName, Doing, Goto, Moves, Phases, OtherPhases, Holding
  <2> QED BY <1>4, <2>1, RowsStay DEF FindName, accountVars, tables, reads
<1>5. CASE CountAdministrators(c)
  <2>1. Moves(c, Phases \ {"right"}) /\ (pc'[c] \in Holding => pc[c] \in Holding)
    BY <1>5 DEF CountAdministrators, Doing, Goto, Moves, Phases, OtherPhases, Holding
  <2> QED BY <1>5, <2>1, RowsStay DEF CountAdministrators, accountVars, tables, reads
<1>6. CASE GrantPermission(c)
  <2>1. Moves(c, Phases \ {"right"}) /\ (pc'[c] \in Holding => pc[c] \in Holding)
    BY <1>6 DEF GrantPermission, Doing, Goto, Moves, Phases, OtherPhases, Holding
  <2> QED BY <1>6, <2>1, RowsStay DEF GrantPermission, accountVars, tables, reads
<1>7. CASE RevokePermission(c)
  <2>1. Moves(c, Phases \ {"right"}) /\ (pc'[c] \in Holding => pc[c] \in Holding)
    BY <1>7 DEF RevokePermission, Doing, Goto, Moves, Phases, OtherPhases, Holding
  <2> QED BY <1>7, <2>1, RowsStay DEF RevokePermission, accountVars, tables, reads
<1>8. CASE DropSessions(c)
  <2>1. Moves(c, Phases \ {"right"}) /\ (pc'[c] \in Holding => pc[c] \in Holding)
    BY <1>8 DEF DropSessions, Doing, Goto, Moves, Phases, OtherPhases, Holding
  <2> QED BY <1>8, <2>1, RowsStay DEF DropSessions, accountVars, tables, reads
<1>9. CASE FindSession(c)
  <2>1. Moves(c, Phases \ {"right"}) /\ (pc'[c] \in Holding => pc[c] \in Holding)
    BY <1>9 DEF FindSession, Doing, Goto, Moves, Phases, OtherPhases, Holding
  <2> QED BY <1>9, <2>1, RowsStay DEF FindSession, accountVars, tables, reads
<1>10. CASE OpenSession(c)
  <2>1. Moves(c, Phases \ {"right"}) /\ (pc'[c] \in Holding => pc[c] \in Holding)
    BY <1>10 DEF OpenSession, Doing, Goto, Moves, Phases, OtherPhases, Holding
  <2> QED BY <1>10, <2>1, RowsStay DEF OpenSession, accountVars, tables, reads
<1>11. CASE ReadTarget(c)
  <2>1. Moves(c, Phases)
    BY <1>11 DEF ReadTarget, Doing, Goto, Moves, Phases, OtherPhases, Holding
  <2>2. /\ Ask[c].target \in DOMAIN users
        /\ target' = [target EXCEPT ![c] = users[Ask[c].target]]
        /\ pc'[c] = "right" => ~users[Ask[c].target].locked
    BY <1>11 DEF ReadTarget, Doing, Goto, Active
  <2> QED BY <1>11, <2>1, <2>2, RowRead DEF ReadTarget, tables
<1>12. CASE FindLogin(c)
  <2>1. Moves(c, Phases)
    BY <1>12 DEF FindLogin, Doing, Goto, Moves, Phases, OtherPhases, Holding
  <2>2. /\ Ask[c].by \in DOMAIN users
        /\ target' = [target EXCEPT ![c] = users[Ask[c].by]]
        /\ pc'[c] = "right" => ~users[Ask[c].by].locked
    BY <1>12 DEF FindLogin, Doing, Goto, Active
  <2> QED BY <1>12, <2>1, <2>2, RowRead DEF FindLogin, tables
<1>13. CASE ReadHolder(c)
  <2>1. Moves(c, Phases)
    BY <1>13 DEF ReadHolder, Doing, Goto, Moves, Phases, OtherPhases, Holding
  <2>2. /\ Ask[c].by \in DOMAIN users
        /\ target' = [target EXCEPT ![c] = users[Ask[c].by]]
        /\ pc'[c] = "right" => ~users[Ask[c].by].locked
    BY <1>13 DEF ReadHolder, Doing, Goto, Active
  <2> QED BY <1>13, <2>1, <2>2, RowRead DEF ReadHolder, tables
<1>14. CASE UpdateAccount(c)
  <2> DEFINE u == Ask[c].target
             row == [users[u] EXCEPT !.rank = Ask[c].rank, !.status = Ask[c].status]
  <2>1. Moves(c, Phases \ {"right"}) /\ (pc'[c] \in Holding => pc[c] \in Holding)
    BY <1>14 DEF UpdateAccount, Doing, Goto, Moves, Phases, OtherPhases, Holding
  <2>2. users' = Write(u, row) /\ target' = target
    BY <1>14 DEF UpdateAccount, reads
  <2>3. ASSUME u \in DOMAIN users PROVE row \in AccountRow /\ WellLocked(row)
    <3>1. users[u] \in AccountRow /\ WellLocked(users[u])
      BY <2>3
    <3>2. Ask[c].rank \in Nat /\ Ask[c].status \in Standings
      BY <1>14, AccountsAssumption DEF UpdateAccount, Doing, Standings
    <3> QED BY <3>1, <3>2 DEF AccountRow, WellLocked
  <2> HIDE DEF u, row
  <2> QED BY <2>1, <2>2, <2>3, RowWritten
<1>15. CASE WritePassword(c)
  <2> DEFINE u == Ask[c].target
             row == [users[u] EXCEPT !.version = @ + 1]
  <2>1. Moves(c, Phases \ {"right"}) /\ (pc'[c] \in Holding => pc[c] \in Holding)
    BY <1>15 DEF WritePassword, Doing, Goto, Moves, Phases, OtherPhases, Holding
  <2>2. users' = Write(u, row) /\ target' = target
    BY <1>15 DEF WritePassword, reads
  <2>3. ASSUME u \in DOMAIN users PROVE row \in AccountRow /\ WellLocked(row)
    <3>1. users[u] \in AccountRow /\ WellLocked(users[u])
      BY <2>3
    <3> QED BY <3>1 DEF AccountRow, WellLocked
  <2> HIDE DEF u, row
  <2> QED BY <2>1, <2>2, <2>3, RowWritten
<1>16. CASE BumpVersion(c)
  <2> DEFINE u == Ask[c].target
             row == [users[u] EXCEPT !.version = @ + 1]
  <2>1. Moves(c, Phases \ {"right"}) /\ (pc'[c] \in Holding => pc[c] \in Holding)
    BY <1>16 DEF BumpVersion, Doing, Goto, Moves, Phases, OtherPhases, Holding
  <2>2. users' = Write(u, row) /\ target' = target
    BY <1>16 DEF BumpVersion, reads
  <2>3. ASSUME u \in DOMAIN users PROVE row \in AccountRow /\ WellLocked(row)
    <3>1. users[u] \in AccountRow /\ WellLocked(users[u])
      BY <2>3
    <3> QED BY <3>1 DEF AccountRow, WellLocked
  <2> HIDE DEF u, row
  <2> QED BY <2>1, <2>2, <2>3, RowWritten
<1>17. CASE RecordFailure(c)
  <2> DEFINE u == Ask[c].by
             row == [users[u] EXCEPT !.failed = target[c].failed + 1, !.locked = target[c].failed + 1 >= MaxAttempts]
  <2>1. Moves(c, Phases \ {"right"}) /\ (pc'[c] \in Holding => pc[c] \in Holding)
    BY <1>17 DEF RecordFailure, Doing, Goto, Moves, Phases, OtherPhases, Holding
  <2>2. users' = Write(u, row) /\ target' = target
    BY <1>17 DEF RecordFailure, reads
  <2>3. ASSUME u \in DOMAIN users PROVE row \in AccountRow /\ WellLocked(row)
    <3>1. users[u] \in AccountRow /\ WellLocked(users[u])
      BY <2>3
    <3>2. target[c].failed + 1 \in Nat
      BY <1>17 DEF RecordFailure, Doing, ReadsARow, Holding, AccountRow
    <3> QED BY <3>1, <3>2, Failed
  <2> HIDE DEF u, row
  <2> QED BY <2>1, <2>2, <2>3, RowWritten
<1>18. CASE ResetFailures(c)
  <2> DEFINE u == Ask[c].by
             row == [users[u] EXCEPT !.failed = 0, !.locked = FALSE]
  <2>1. Moves(c, Phases \ {"right"}) /\ (pc'[c] \in Holding => pc[c] \in Holding)
    BY <1>18 DEF ResetFailures, Doing, Goto, Moves, Phases, OtherPhases, Holding
  <2>2. users' = Write(u, row) /\ target' = target
    BY <1>18 DEF ResetFailures, reads
  <2>3. ASSUME u \in DOMAIN users PROVE row \in AccountRow /\ WellLocked(row)
    <3>1. users[u] \in AccountRow /\ WellLocked(users[u])
      BY <2>3
    <3>2. FALSE = (0 >= MaxAttempts)
      BY AccountsAssumption
    <3> QED BY <3>1, <3>2, Failed
  <2> HIDE DEF u, row
  <2> QED BY <2>1, <2>2, <2>3, RowWritten
<1>19. CASE InsertAccount(c)
  <2> DEFINE row == NewAccount(Ask[c].name, Ask[c].rank)
  <2>1. Moves(c, Phases \ {"right"}) /\ pc'[c] = "done"
    BY <1>19 DEF InsertAccount, Doing, Goto, Moves, Phases, OtherPhases, Holding
  <2>2. row \in AccountRow /\ WellLocked(row)
    BY <1>19, AccountsAssumption
       DEF InsertAccount, Doing, NewAccount, AccountRow, WellLocked, Names, Standings
  <2>3. users' = [v \in DOMAIN users \union {c} |-> IF v # c THEN users[v] ELSE row]
    BY <1>19 DEF InsertAccount
  <2> HIDE DEF row
  <2>4. /\ users' \in [DOMAIN users' -> AccountRow]
        /\ DOMAIN users' = DOMAIN users \union {c}
        /\ \A v \in DOMAIN users' : WellLocked(users'[v])
    BY <2>2, <2>3
  <2>5. Issued \subseteq Issued' /\ c \in Issued'
    BY <2>1, StaysIssued DEF Issued
  <2> QED BY <1>19, <2>1, <2>4, <2>5 DEF InsertAccount, reads, Moves, Holding
<1>20. CASE DeleteAccount(c)
  <2>1. Moves(c, Phases \ {"right"}) /\ pc'[c] = "done"
    BY <1>20 DEF DeleteAccount, Doing, Goto, Moves, Phases, OtherPhases, Holding
  <2>2. /\ users' \in [DOMAIN users' -> AccountRow]
        /\ DOMAIN users' \subseteq DOMAIN users
        /\ \A v \in DOMAIN users' : WellLocked(users'[v])
    BY <1>20 DEF DeleteAccount
  <2>3. Issued \subseteq Issued'
    BY <2>1, StaysIssued
  <2> QED BY <1>20, <2>1, <2>2, <2>3 DEF DeleteAccount, reads, Moves, Holding
<1> QED
  <2>1. \/ AccountStep(c) \/ DeleteAccount(c)
        \/ UNCHANGED accountVars /\ (UNCHANGED <<pc, made>> \/ MovesElsewhere(c))
    BY Steps
  <2> QED BY <2>1, <1>1, <1>2, <1>3, <1>4, <1>5, <1>6, <1>7, <1>8, <1>9, <1>10, <1>11, <1>12, <1>13, <1>14, <1>15, <1>16, <1>17, <1>18, <1>19, <1>20 DEF AccountStep

(* users and sessions (user.repository.ts, session.repository.ts): the      *)
(* tables of accounts keep their keys and types, an account is locked       *)
(* exactly when its failures reach the limit, and a request holds the row   *)
(* it has read, for any requests interleaved statement by statement and cut *)
(* short anywhere.                                                          *)
THEOREM AccountRowsSound == Spec => []RowsInv
<1>1. RowsInv /\ [Next]_vars => RowsInv'
  <2> SUFFICES ASSUME RowsInv, [Next]_vars PROVE RowsInv'
    OBVIOUS
  <2>1. CASE Next
    BY <2>1, RowsStep DEF Next, RowsInv
  <2>2. CASE UNCHANGED vars
    BY <2>2 DEF vars, requestVars, accountVars, tables, reads, RowsInv, Issued
  <2> QED BY <2>1, <2>2
<1> QED BY <1>1, RowsInit, PTL DEF Spec
-----------------------------------------------------------------------------
(* The statements that write users.                                         *)
LEMMA UsersWriters ==
    ASSUME RowsInv, NEW c \in Calls, Step(c)
    PROVE  \/ UNCHANGED users
           \/ UpdateAccount(c) \/ WritePassword(c) \/ BumpVersion(c)
           \/ InsertAccount(c) \/ DeleteAccount(c) \/ RecordFailure(c) \/ ResetFailures(c)
<1>1. \/ AccountStep(c) \/ DeleteAccount(c)
      \/ UNCHANGED accountVars /\ (UNCHANGED <<pc, made>> \/ MovesElsewhere(c))
  BY Steps DEF RowsInv
<1>2. UNCHANGED accountVars => UNCHANGED users
  BY DEF accountVars, tables
<1>3. Enter(c) => UNCHANGED users
  BY DEF Enter, accountVars, tables
<1>4. Authorize(c) => UNCHANGED users
  BY DEF Authorize, accountVars, tables
<1>5. FindName(c) => UNCHANGED users
  BY DEF FindName, accountVars, tables
<1>6. CountAdministrators(c) => UNCHANGED users
  BY DEF CountAdministrators, accountVars, tables
<1>7. GrantPermission(c) => UNCHANGED users
  BY DEF GrantPermission, accountVars, tables
<1>8. RevokePermission(c) => UNCHANGED users
  BY DEF RevokePermission, accountVars, tables
<1>9. DropSessions(c) => UNCHANGED users
  BY DEF DropSessions, accountVars, tables
<1>10. FindSession(c) => UNCHANGED users
  BY DEF FindSession, accountVars, tables
<1>11. OpenSession(c) => UNCHANGED users
  BY DEF OpenSession, accountVars, tables
<1>12. ReadTarget(c) => UNCHANGED users
  BY DEF ReadTarget, accountVars, tables
<1>13. FindLogin(c) => UNCHANGED users
  BY DEF FindLogin, accountVars, tables
<1>14. ReadHolder(c) => UNCHANGED users
  BY DEF ReadHolder, accountVars, tables
<1> QED BY <1>1, <1>2, <1>3, <1>4, <1>5, <1>6, <1>7, <1>8, <1>9, <1>10, <1>11, <1>12, <1>13, <1>14 DEF AccountStep

(* A lock only gives way to a login that had read the row without it.       *)
Unlocks(u) ==
    \E c \in Calls : /\ pc[c] \in {"right", "wrong"} /\ pc'[c] # pc[c]
                    /\ Ask[c].by = u
                    /\ ~target[c].locked
                    /\ target[c].failed < users[u].failed

LEMMA LockStep ==
    ASSUME RowsInv, NEW c \in Calls, Step(c),
           NEW u \in DOMAIN users \intersect DOMAIN users',
           users[u].locked, ~users'[u].locked
    PROVE  Unlocks(u)
<1> USE DEF RowsInv
<1>0. users[u] \in AccountRow /\ users[u].failed >= MaxAttempts
  BY DEF WellLocked
<1>1. CASE UNCHANGED users
  BY <1>1
<1>2. CASE UpdateAccount(c)
  BY <1>2, <1>0 DEF UpdateAccount, Write, AccountRow
<1>3. CASE WritePassword(c)
  BY <1>3, <1>0 DEF WritePassword, Write, AccountRow
<1>4. CASE BumpVersion(c)
  BY <1>4, <1>0 DEF BumpVersion, Write, AccountRow
<1>5. CASE InsertAccount(c)
  <2>1. c \notin DOMAIN users
    BY <1>5, AccountsAssumption DEF InsertAccount, Doing, Issued
  <2> QED BY <1>5, <2>1 DEF InsertAccount
<1>6. CASE DeleteAccount(c)
  BY <1>6 DEF DeleteAccount
<1>7. CASE RecordFailure(c)
  <2>1. u = Ask[c].by /\ ~(target[c].failed + 1 >= MaxAttempts)
    BY <1>7, <1>0 DEF RecordFailure, Write, AccountRow
  <2>2. target[c] \in AccountRow /\ WellLocked(target[c])
    BY <1>7 DEF RecordFailure, Doing, ReadsARow, Holding
  <2>3. target[c].failed < users[u].failed /\ ~target[c].locked
    BY <1>0, <2>1, <2>2, AccountsAssumption DEF AccountRow, WellLocked
  <2> QED BY <1>7, <2>1, <2>3 DEF RecordFailure, Doing, Goto, Unlocks
<1>8. CASE ResetFailures(c)
  <2>1. u = Ask[c].by
    BY <1>8, <1>0 DEF ResetFailures, Write
  <2>2. target[c] \in AccountRow /\ WellLocked(target[c]) /\ ~target[c].locked
    BY <1>8 DEF ResetFailures, Doing, ReadsARow, Holding
  <2>3. target[c].failed < users[u].failed
    BY <1>0, <2>2, AccountsAssumption DEF AccountRow, WellLocked
  <2> QED BY <1>8, <2>1, <2>2, <2>3 DEF ResetFailures, Doing, Goto, Unlocks
<1> QED
  <2>1. \/ UNCHANGED users
        \/ UpdateAccount(c) \/ WritePassword(c) \/ BumpVersion(c)
        \/ InsertAccount(c) \/ DeleteAccount(c) \/ RecordFailure(c) \/ ResetFailures(c)
    BY UsersWriters
  <2> QED BY <2>1, <1>1, <1>2, <1>3, <1>4, <1>5, <1>6, <1>7, <1>8

(* "Verrouillage temporaire" (auth.service.ts:125): nobody opens a locked   *)
(* account but a login that had read it before the lock.                    *)
THEOREM LocksHold == Spec => LockHolds
<1> DEFINE Opens(u) == users[u].locked /\ ~users'[u].locked => Unlocks(u)
<1>1. RowsInv /\ [Next]_vars
      => [\A u \in DOMAIN users \intersect DOMAIN users' : Opens(u)]_<<pc, accountVars>>
  <2> SUFFICES ASSUME RowsInv, [Next]_vars
               PROVE  [\A u \in DOMAIN users \intersect DOMAIN users' : Opens(u)]_<<pc, accountVars>>
    OBVIOUS
  <2>1. CASE Next
    BY <2>1, LockStep DEF Next, RowsInv
  <2>2. CASE UNCHANGED vars
    BY <2>2 DEF vars, requestVars
  <2> QED BY <2>1, <2>2
<1>2. LockHolds <=> [][\A u \in DOMAIN users \intersect DOMAIN users' : Opens(u)]_<<pc, accountVars>>
  BY DEF LockHolds, Unlocks
<1> QED BY <1>1, <1>2, AccountRowsSound, PTL DEF Spec
-----------------------------------------------------------------------------
(* An update of u that has written and not moved the version.               *)
Pending(u) == \E c \in Calls :
    Ask[c].do = "update" /\ Ask[c].target = u /\ pc[c] = "bump"

(* A rank and a version that were those of u once.                          *)
Snapshot(rank, version, u) ==
    /\ u \in Issued
    /\ version \in Nat
    /\ u \in DOMAIN users =>
           /\ version <= users[u].version
           /\ version = users[u].version => rank = users[u].rank \/ Pending(u)

TokensInv ==
    /\ \A t \in tokens : Snapshot(t.rank, t.version, t.user)
    /\ \A c \in Calls : Ask[c].do \in {"login", "refresh"} /\ pc[c] \in Holding =>
           Snapshot(target[c].rank, target[c].version, Ask[c].by)

(* What a step may do to a row: move its version, or leave rank and version *)
(* alone, or announce that the version will move.                           *)
Advances(u) ==
    /\ u \in DOMAIN users
    /\ users[u].version \in Nat /\ users'[u].version \in Nat
    /\ \/ users'[u].version > users[u].version
       \/ /\ users'[u].version = users[u].version
          /\ \/ Pending(u)'
             \/ users'[u].rank = users[u].rank /\ ~Pending(u)

LEMMA PendingKept ==
    ASSUME RowsInv, NEW c \in Calls, Moves(c, Phases), NEW u, Pending(u),
           pc[c] # "bump" \/ Ask[c].target # u
    PROVE  Pending(u)'
BY DEF Pending, Moves, RowsInv

(* A step moves a request, or leaves it to die; only one leaves the bump.   *)
LEMMA Stepping ==
    ASSUME RowsInv, NEW c \in Calls, Step(c)
    PROVE  \/ UNCHANGED <<pc, users>>
           \/ Moves(c, Phases) /\ (pc[c] = "bump" => BumpVersion(c))
<1> USE DEF RowsInv
<1>1. \/ AccountStep(c) \/ DeleteAccount(c)
      \/ UNCHANGED accountVars /\ (UNCHANGED <<pc, made>> \/ MovesElsewhere(c))
  BY Steps
<1>2. UNCHANGED accountVars => UNCHANGED users
  BY DEF accountVars, tables
<1>3. MovesElsewhere(c) => Moves(c, Phases) /\ pc[c] # "bump" /\ pc[c] # "bump"
  BY DEF MovesElsewhere, Moves, Phases, Holding
<1>4. Enter(c) => Moves(c, Phases) /\ pc[c] # "bump"
  BY DEF Enter, Doing, Goto, Moves, Phases, OtherPhases, Holding
<1>5. Authorize(c) => Moves(c, Phases) /\ pc[c] # "bump"
  BY DEF Authorize, Doing, Goto, Moves, Phases, OtherPhases, Holding
<1>6. FindName(c) => Moves(c, Phases) /\ pc[c] # "bump"
  BY DEF FindName, Doing, Goto, Moves, Phases, OtherPhases, Holding
<1>7. InsertAccount(c) => Moves(c, Phases) /\ pc[c] # "bump"
  BY DEF InsertAccount, Doing, Goto, Moves, Phases, OtherPhases, Holding
<1>8. ReadTarget(c) => Moves(c, Phases) /\ pc[c] # "bump"
  BY DEF ReadTarget, Doing, Goto, Moves, Phases, OtherPhases, Holding
<1>9. CountAdministrators(c) => Moves(c, Phases) /\ pc[c] # "bump"
  BY DEF CountAdministrators, Doing, Goto, Moves, Phases, OtherPhases, Holding
<1>10. UpdateAccount(c) => Moves(c, Phases) /\ pc[c] # "bump"
  BY DEF UpdateAccount, Doing, Goto, Moves, Phases, OtherPhases, Holding
<1>11. WritePassword(c) => Moves(c, Phases) /\ pc[c] # "bump"
  BY DEF WritePassword, Doing, Goto, Moves, Phases, OtherPhases, Holding
<1>12. GrantPermission(c) => Moves(c, Phases) /\ pc[c] # "bump"
  BY DEF GrantPermission, Doing, Goto, Moves, Phases, OtherPhases, Holding
<1>13. RevokePermission(c) => Moves(c, Phases) /\ pc[c] # "bump"
  BY DEF RevokePermission, Doing, Goto, Moves, Phases, OtherPhases, Holding
<1>14. BumpVersion(c) => Moves(c, Phases)
  BY DEF BumpVersion, Doing, Goto, Moves, Phases, OtherPhases, Holding
<1>15. DropSessions(c) => Moves(c, Phases) /\ pc[c] # "bump"
  BY DEF DropSessions, Doing, Goto, Moves, Phases, OtherPhases, Holding
<1>16. FindLogin(c) => Moves(c, Phases) /\ pc[c] # "bump"
  BY DEF FindLogin, Doing, Goto, Moves, Phases, OtherPhases, Holding
<1>17. RecordFailure(c) => Moves(c, Phases) /\ pc[c] # "bump"
  BY DEF RecordFailure, Doing, Goto, Moves, Phases, OtherPhases, Holding
<1>18. ResetFailures(c) => Moves(c, Phases) /\ pc[c] # "bump"
  BY DEF ResetFailures, Doing, Goto, Moves, Phases, OtherPhases, Holding
<1>19. FindSession(c) => Moves(c, Phases) /\ pc[c] # "bump"
  BY DEF FindSession, Doing, Goto, Moves, Phases, OtherPhases, Holding
<1>20. ReadHolder(c) => Moves(c, Phases) /\ pc[c] # "bump"
  BY DEF ReadHolder, Doing, Goto, Moves, Phases, OtherPhases, Holding
<1>21. OpenSession(c) => Moves(c, Phases) /\ pc[c] # "bump"
  BY DEF OpenSession, Doing, Goto, Moves, Phases, OtherPhases, Holding
<1>22. DeleteAccount(c) => Moves(c, Phases) /\ pc[c] # "bump"
  BY DEF DeleteAccount, Doing, Goto, Moves, Phases, OtherPhases, Holding
<1> QED BY <1>1, <1>2, <1>3, <1>4, <1>5, <1>6, <1>7, <1>8, <1>9, <1>10, <1>11, <1>12, <1>13, <1>14, <1>15, <1>16, <1>17, <1>18, <1>19, <1>20, <1>21, <1>22 DEF AccountStep

LEMMA Advancing ==
    ASSUME RowsInv, NEW c \in Calls, Step(c), NEW u \in DOMAIN users', u \in Issued
    PROVE  Advances(u)
<1> USE DEF RowsInv
<1>0. u \in DOMAIN users => users[u].version \in Nat
  BY DEF AccountRow
<1>1. CASE UNCHANGED users /\ UNCHANGED pc
  BY <1>0, <1>1 DEF Advances, Pending
<1>2. CASE UNCHANGED users /\ Moves(c, Phases) /\ pc[c] # "bump"
  BY <1>0, <1>2, PendingKept DEF Advances
<1>3. CASE UpdateAccount(c)
  <2>1. Moves(c, Phases) /\ pc[c] # "bump" /\ pc'[c] = "bump" /\ Ask[c].do = "update"
    BY <1>3 DEF UpdateAccount, Doing, Goto, Moves, Phases, Holding
  <2>2. u \in DOMAIN users /\ users'[u].version = users[u].version
    BY <1>3 DEF UpdateAccount, Write, AccountRow
  <2>3. CASE u = Ask[c].target
    BY <1>0, <2>1, <2>2, <2>3 DEF Advances, Pending
  <2>4. CASE u # Ask[c].target
    <3>1. users'[u] = users[u]
      BY <1>3, <2>4 DEF UpdateAccount, Write
    <3> QED BY <1>0, <2>1, <2>2, <3>1, PendingKept DEF Advances
  <2> QED BY <2>3, <2>4
<1>4. CASE WritePassword(c)
  <2>1. Moves(c, Phases) /\ pc[c] # "bump"
    BY <1>4 DEF WritePassword, Doing, Goto, Moves, Phases, Holding
  <2>2. CASE u = Ask[c].target
    BY <1>0, <1>4, <2>2 DEF WritePassword, Write, AccountRow, Advances
  <2>3. CASE u # Ask[c].target
    <3>1. u \in DOMAIN users /\ users'[u] = users[u]
      BY <1>4, <2>3 DEF WritePassword, Write
    <3> QED BY <1>0, <2>1, <3>1, PendingKept DEF Advances
  <2> QED BY <2>2, <2>3
<1>5. CASE BumpVersion(c)
  <2>1. Moves(c, Phases)
    BY <1>5 DEF BumpVersion, Doing, Goto, Moves, Phases, Holding, OtherPhases
  <2>2. CASE u = Ask[c].target
    BY <1>0, <1>5, <2>2 DEF BumpVersion, Write, AccountRow, Advances
  <2>3. CASE u # Ask[c].target
    <3>1. u \in DOMAIN users /\ users'[u] = users[u]
      BY <1>5, <2>3 DEF BumpVersion, Write
    <3> QED BY <1>0, <2>1, <2>3, <3>1, PendingKept DEF Advances
  <2> QED BY <2>2, <2>3
<1>6. CASE InsertAccount(c)
  <2>1. Moves(c, Phases) /\ pc[c] # "bump" /\ u # c
    BY <1>6, AccountsAssumption
       DEF InsertAccount, Doing, Goto, Moves, Phases, OtherPhases, Issued
  <2>2. u \in DOMAIN users /\ users'[u] = users[u]
    BY <1>6, <2>1 DEF InsertAccount
  <2> QED BY <1>0, <2>1, <2>2, PendingKept DEF Advances
<1>7. CASE DeleteAccount(c)
  <2>1. Moves(c, Phases) /\ pc[c] # "bump"
    BY <1>7 DEF DeleteAccount, Doing, Goto, Moves, Phases, OtherPhases
  <2>2. u \in DOMAIN users /\ users'[u] = users[u]
    BY <1>7 DEF DeleteAccount
  <2> QED BY <1>0, <2>1, <2>2, PendingKept DEF Advances
<1>8. CASE RecordFailure(c)
  <2>1. Moves(c, Phases) /\ pc[c] # "bump"
    BY <1>8 DEF RecordFailure, Doing, Goto, Moves, Phases, OtherPhases
  <2>2. /\ u \in DOMAIN users /\ users'[u].version = users[u].version
        /\ users'[u].rank = users[u].rank
    BY <1>8 DEF RecordFailure, Write, AccountRow
  <2> QED BY <1>0, <2>1, <2>2, PendingKept DEF Advances
<1>9. CASE ResetFailures(c)
  <2>1. Moves(c, Phases) /\ pc[c] # "bump"
    BY <1>9 DEF ResetFailures, Doing, Goto, Moves, Phases, Holding
  <2>2. /\ u \in DOMAIN users /\ users'[u].version = users[u].version
        /\ users'[u].rank = users[u].rank
    BY <1>9 DEF ResetFailures, Write, AccountRow
  <2> QED BY <1>0, <2>1, <2>2, PendingKept DEF Advances
<1>10. UNCHANGED users => \/ UNCHANGED users /\ UNCHANGED pc
                          \/ UNCHANGED users /\ Moves(c, Phases) /\ pc[c] # "bump"
                          \/ BumpVersion(c)
  BY Stepping
<1> QED BY <1>1, <1>2, <1>3, <1>4, <1>5, <1>6, <1>7, <1>8, <1>9, <1>10, UsersWriters

(* What was a snapshot stays one.                                           *)
LEMMA SnapshotKept ==
    ASSUME RowsInv, NEW c \in Calls, Step(c),
           NEW rank, NEW version, NEW u, Snapshot(rank, version, u)
    PROVE  Snapshot(rank, version, u)'
<1>1. Issued \subseteq Issued'
  BY Stepping, StaysIssued DEF Issued
<1>2. u \in DOMAIN users' => Advances(u)
  BY Advancing DEF Snapshot
<1> QED BY <1>1, <1>2 DEF Snapshot, Advances

(* A row that is read is one.                                               *)
LEMMA SnapshotTaken ==
    ASSUME RowsInv, NEW u \in DOMAIN users
    PROVE  Snapshot(users[u].rank, users[u].version, u)
BY DEF RowsInv, Snapshot, AccountRow
-----------------------------------------------------------------------------
(* What a step does to the row that a login or a rotation holds.            *)
LEMMA Opening ==
    ASSUME RowsInv, NEW c \in Calls, Step(c)
    PROVE  /\ UNCHANGED tokens \/ OpenSession(c)
           /\ \A d \in Calls \ {c} : target'[d] = target[d] /\ pc'[d] = pc[d]
           /\ Ask[c].do \in {"login", "refresh"} /\ pc'[c] \in Holding =>
                  \/ target'[c] = target[c] /\ pc[c] \in Holding
                  \/ Ask[c].by \in DOMAIN users /\ target'[c] = users[Ask[c].by]
<1> USE DEF RowsInv
<1> DEFINE Claim ==
        /\ UNCHANGED tokens \/ OpenSession(c)
        /\ \A d \in Calls \ {c} : target'[d] = target[d] /\ pc'[d] = pc[d]
        /\ Ask[c].do \in {"login", "refresh"} /\ pc'[c] \in Holding =>
               \/ target'[c] = target[c] /\ pc[c] \in Holding
               \/ Ask[c].by \in DOMAIN users /\ target'[c] = users[Ask[c].by]
<1>1. \/ AccountStep(c) \/ DeleteAccount(c)
      \/ UNCHANGED accountVars /\ (UNCHANGED <<pc, made>> \/ MovesElsewhere(c))
  BY Steps
<1>2. UNCHANGED accountVars /\ UNCHANGED <<pc, made>> => Claim
  BY DEF accountVars, tables, reads
<1>3. UNCHANGED accountVars /\ MovesElsewhere(c) => Claim
  BY DEF MovesElsewhere, Moves, OtherPhases, Holding, accountVars, tables, reads
<1>4. Enter(c) => Claim
  BY DEF Enter, Doing, Goto, Active, Holding, accountVars, tables, reads
<1>5. Authorize(c) => Claim
  BY DEF Authorize, Doing, Goto, Active, Holding, accountVars, tables, reads
<1>6. FindName(c) => Claim
  BY DEF FindName, Doing, Goto, Active, Holding, accountVars, tables, reads
<1>7. InsertAccount(c) => Claim
  BY DEF InsertAccount, Doing, Goto, Active, Holding, accountVars, tables, reads
<1>8. ReadTarget(c) => Claim
  BY DEF ReadTarget, Doing, Goto, Active, Holding, accountVars, tables, reads
<1>9. CountAdministrators(c) => Claim
  BY DEF CountAdministrators, Doing, Goto, Active, Holding, accountVars, tables, reads
<1>10. UpdateAccount(c) => Claim
  BY DEF UpdateAccount, Doing, Goto, Active, Holding, accountVars, tables, reads
<1>11. WritePassword(c) => Claim
  BY DEF WritePassword, Doing, Goto, Active, Holding, accountVars, tables, reads
<1>12. GrantPermission(c) => Claim
  BY DEF GrantPermission, Doing, Goto, Active, Holding, accountVars, tables, reads
<1>13. RevokePermission(c) => Claim
  BY DEF RevokePermission, Doing, Goto, Active, Holding, accountVars, tables, reads
<1>14. BumpVersion(c) => Claim
  BY DEF BumpVersion, Doing, Goto, Active, Holding, accountVars, tables, reads
<1>15. DropSessions(c) => Claim
  BY DEF DropSessions, Doing, Goto, Active, Holding, accountVars, tables, reads
<1>16. FindLogin(c) => Claim
  BY DEF FindLogin, Doing, Goto, Active, Holding, accountVars, tables, reads
<1>17. RecordFailure(c) => Claim
  BY DEF RecordFailure, Doing, Goto, Active, Holding, accountVars, tables, reads
<1>18. ResetFailures(c) => Claim
  BY DEF ResetFailures, Doing, Goto, Active, Holding, accountVars, tables, reads
<1>19. FindSession(c) => Claim
  BY DEF FindSession, Doing, Goto, Active, Holding, accountVars, tables, reads
<1>20. ReadHolder(c) => Claim
  BY DEF ReadHolder, Doing, Goto, Active, Holding, accountVars, tables, reads
<1>21. OpenSession(c) => Claim
  BY DEF OpenSession, Doing, Goto, Active, Holding, accountVars, tables, reads
<1>22. DeleteAccount(c) => Claim
  BY DEF DeleteAccount, Doing, Goto, Active, Holding, accountVars, tables, reads
<1> QED BY <1>1, <1>2, <1>3, <1>4, <1>5, <1>6, <1>7, <1>8, <1>9, <1>10, <1>11, <1>12, <1>13, <1>14, <1>15, <1>16, <1>17, <1>18, <1>19, <1>20, <1>21, <1>22 DEF AccountStep

LEMMA TokensInit == Init => TokensInv
<1> SUFFICES ASSUME Init PROVE TokensInv
  OBVIOUS
<1>1. /\ pc = [c \in Calls |-> "idle"]
      /\ users = [u \in DOMAIN Staff |-> NewAccount(u, Staff[u])]
      /\ tokens = {[user |-> u, rank |-> Staff[u], version |-> 0] : u \in DOMAIN Staff}
  BY DEF Init, RequestsInit, AccountsInit
<1>2. \A c \in Calls : pc[c] \notin Holding
  BY <1>1 DEF Holding
<1>3. \A t \in tokens : Snapshot(t.rank, t.version, t.user)
  BY <1>1 DEF Snapshot, Issued, NewAccount
<1> QED BY <1>2, <1>3 DEF TokensInv

LEMMA TokensStep ==
    ASSUME RowsInv, TokensInv, NEW c \in Calls, Step(c)
    PROVE  TokensInv'
<1>1. ASSUME NEW t \in tokens' PROVE Snapshot(t.rank, t.version, t.user)'
  <2>1. CASE t \in tokens
    BY <2>1, SnapshotKept DEF TokensInv
  <2>2. CASE t \notin tokens
    <3>1. OpenSession(c)
      BY <2>2, Opening
    <3>2. t = [user |-> Ask[c].by, rank |-> target[c].rank, version |-> target[c].version]
      BY <2>2, <3>1 DEF OpenSession
    <3>3. Snapshot(target[c].rank, target[c].version, Ask[c].by)
      BY <3>1 DEF OpenSession, Doing, TokensInv, Holding
    <3> QED BY <3>2, <3>3, SnapshotKept
  <2> QED BY <2>1, <2>2
<1>2. ASSUME NEW d \in Calls, Ask[d].do \in {"login", "refresh"}, pc'[d] \in Holding
      PROVE  Snapshot(target[d].rank, target[d].version, Ask[d].by)'
  <2>1. PICK row : row = target'[d]
    OBVIOUS
  <2>2. Snapshot(row.rank, row.version, Ask[d].by)
    <3>1. CASE target'[d] = target[d] /\ pc[d] \in Holding
      BY <1>2, <2>1, <3>1 DEF TokensInv
    <3>2. CASE Ask[d].by \in DOMAIN users /\ target'[d] = users[Ask[d].by]
      BY <2>1, <3>2, SnapshotTaken
    <3> QED BY <1>2, <3>1, <3>2, Opening
  <2>3. Snapshot(row.rank, row.version, Ask[d].by)'
    BY <2>2, SnapshotKept
  <2> QED BY <2>1, <2>3 DEF Snapshot
<1> QED BY <1>1, <1>2 DEF TokensInv

(* "Toute ecriture revoque" (users.service.ts:51): a token that the guards  *)
(* accept says the rank of its account, or an update of it is under way.    *)
THEOREM AcceptedRankHolds == Spec => []AcceptedRankIsCurrent
<1>1. RowsInv /\ TokensInv /\ [Next]_vars => TokensInv'
  <2> SUFFICES ASSUME RowsInv, TokensInv, [Next]_vars PROVE TokensInv'
    OBVIOUS
  <2>1. CASE Next
    BY <2>1, TokensStep DEF Next, RowsInv
  <2>2. CASE UNCHANGED vars
    BY <2>2 DEF vars, requestVars, accountVars, tables, reads, TokensInv, Snapshot, Pending, Issued
  <2> QED BY <2>1, <2>2
<1>2. RowsInv /\ TokensInv => AcceptedRankIsCurrent
  BY DEF RowsInv, TokensInv, Snapshot, Pending, AcceptedRankIsCurrent, Accepted, Active
<1> QED BY <1>1, <1>2, TokensInit, AccountRowsSound, PTL DEF Spec
-----------------------------------------------------------------------------
(* An update that makes u inactive and has not yet revoked its sessions.    *)
Suspending(u) == \E c \in Calls :
    /\ Ask[c].do = "update" /\ Ask[c].target = u /\ Ask[c].status # "active"
    /\ pc[c] \in {"bump", "drop"}

Watched(u) == Active(u) \/ Suspending(u)

Ids == DOMAIN Staff \union Calls
SessionRow == [id : Ids, user : Ids, revoked : BOOLEAN]

SessionsInv ==
    /\ sessions \subseteq SessionRow
    /\ \A s \in sessions : s.revoked = TRUE \/ Watched(s.user) \/ s.id \in crossed
    /\ \A c \in Calls : Ask[c].do \in {"login", "refresh"} /\ pc[c] \in {"right", "known"} =>
           target[c].status = "active"

(* Only the statement that drops them leaves the phase of the sessions.     *)
LEMMA DropIsOne ==
    ASSUME RowsInv, NEW c \in Calls, Step(c), Ask[c].do = "update", pc[c] = "drop"
    PROVE  DropSessions(c) \/ UNCHANGED <<pc, users>>
<1>1. \/ AccountStep(c) \/ DeleteAccount(c)
      \/ UNCHANGED accountVars /\ (UNCHANGED <<pc, made>> \/ MovesElsewhere(c))
  BY Steps DEF RowsInv
<1>2. UNCHANGED accountVars => UNCHANGED users
  BY DEF accountVars, tables
<1>3. ~MovesElsewhere(c)
  BY DEF MovesElsewhere, Holding
<1>4. ~Enter(c)
  BY DEF Enter, Doing
<1>5. ~Authorize(c)
  BY DEF Authorize, Doing
<1>6. ~FindName(c)
  BY DEF FindName, Doing
<1>7. ~InsertAccount(c)
  BY DEF InsertAccount, Doing
<1>8. ~ReadTarget(c)
  BY DEF ReadTarget, Doing
<1>9. ~CountAdministrators(c)
  BY DEF CountAdministrators, Doing
<1>10. ~UpdateAccount(c)
  BY DEF UpdateAccount, Doing
<1>11. ~WritePassword(c)
  BY DEF WritePassword, Doing
<1>12. ~GrantPermission(c)
  BY DEF GrantPermission, Doing
<1>13. ~RevokePermission(c)
  BY DEF RevokePermission, Doing
<1>14. ~BumpVersion(c)
  BY DEF BumpVersion, Doing
<1>15. ~FindLogin(c)
  BY DEF FindLogin, Doing
<1>16. ~RecordFailure(c)
  BY DEF RecordFailure, Doing
<1>17. ~ResetFailures(c)
  BY DEF ResetFailures, Doing
<1>18. ~FindSession(c)
  BY DEF FindSession, Doing
<1>19. ~ReadHolder(c)
  BY DEF ReadHolder, Doing
<1>20. ~OpenSession(c)
  BY DEF OpenSession, Doing
<1>21. ~DeleteAccount(c)
  BY DEF DeleteAccount, Doing
<1> QED BY <1>1, <1>2, <1>3, <1>4, <1>5, <1>6, <1>7, <1>8, <1>9, <1>10, <1>11, <1>12, <1>13, <1>14, <1>15, <1>16, <1>17, <1>18, <1>19, <1>20, <1>21 DEF AccountStep

(* The account of a session stays active, or someone is about to end it.    *)
LEMMA WatchedKept ==
    ASSUME RowsInv, NEW c \in Calls, Step(c), NEW u, Watched(u),
           ~(DropSessions(c) /\ Ask[c].do = "update" /\ Ask[c].target = u),
           ~(DeleteAccount(c) /\ Ask[c].target = u)
    PROVE  Watched(u)'
<1> USE DEF RowsInv
<1>1. CASE UNCHANGED users
  <2>1. CASE Active(u)
    BY <1>1, <2>1 DEF Active, Watched
  <2>2. CASE Suspending(u)
    <3>1. CASE UNCHANGED pc
      BY <2>2, <3>1 DEF Suspending, Watched
    <3>2. CASE BumpVersion(c)
      BY <2>2, <3>2 DEF BumpVersion, Goto, Suspending, Watched
    <3>3. CASE Moves(c, Phases) /\ pc[c] # "bump"
      <4>1. pc[c] = "drop" /\ Ask[c].do = "update" /\ Ask[c].target = u => pc' = pc
        BY DropIsOne
      <4> QED BY <2>2, <3>3, <4>1 DEF Suspending, Watched, Moves
    <3> QED BY <3>1, <3>2, <3>3, Stepping
  <2> QED BY <2>1, <2>2 DEF Watched
<1>2. CASE UpdateAccount(c)
  <2>1. pc[c] = "checked" /\ pc' = [pc EXCEPT ![c] = "bump"] /\ Ask[c].do = "update"
    BY <1>2 DEF UpdateAccount, Doing, Goto
  <2>2. Suspending(u) => Suspending(u)'
    BY <2>1 DEF Suspending
  <2>3. CASE Active(u) /\ u # Ask[c].target
    BY <1>2, <2>3 DEF UpdateAccount, Write, Active, Watched
  <2>4. CASE Active(u) /\ u = Ask[c].target /\ Ask[c].status = "active"
    BY <1>2, <2>4 DEF UpdateAccount, Write, Active, Watched, AccountRow
  <2>5. CASE Active(u) /\ u = Ask[c].target /\ Ask[c].status # "active"
    BY <2>1, <2>5 DEF Suspending, Watched
  <2> QED BY <2>2, <2>3, <2>4, <2>5 DEF Watched
<1>3. CASE BumpVersion(c)
  <2>1. /\ pc[c] = "bump"
        /\ pc' = [pc EXCEPT ![c] = pc'[c]]
        /\ Ask[c].do = "update" /\ Ask[c].status # "active" => pc'[c] = "drop"
    BY <1>3 DEF BumpVersion, Doing, Goto
  <2>2. Suspending(u) => Suspending(u)'
    BY <2>1 DEF Suspending
  <2>3. Active(u) => Active(u)'
    BY <1>3 DEF BumpVersion, Write, Active, AccountRow
  <2> QED BY <2>2, <2>3 DEF Watched
<1>4. CASE WritePassword(c)
  <2>1. pc[c] \notin {"bump", "drop"} /\ pc' = [pc EXCEPT ![c] = pc'[c]]
    BY <1>4 DEF WritePassword, Doing, Goto
  <2>2. Suspending(u) => Suspending(u)'
    BY <2>1 DEF Suspending
  <2>3. Active(u) => Active(u)'
    BY <1>4 DEF WritePassword, Write, AccountRow, Active
  <2> QED BY <2>2, <2>3 DEF Watched
<1>5. CASE RecordFailure(c)
  <2>1. pc[c] \notin {"bump", "drop"} /\ pc' = [pc EXCEPT ![c] = pc'[c]]
    BY <1>5 DEF RecordFailure, Doing, Goto
  <2>2. Suspending(u) => Suspending(u)'
    BY <2>1 DEF Suspending
  <2>3. Active(u) => Active(u)'
    BY <1>5 DEF RecordFailure, Write, AccountRow, Active
  <2> QED BY <2>2, <2>3 DEF Watched
<1>6. CASE ResetFailures(c)
  <2>1. pc[c] \notin {"bump", "drop"} /\ pc' = [pc EXCEPT ![c] = pc'[c]]
    BY <1>6 DEF ResetFailures, Doing, Goto
  <2>2. Suspending(u) => Suspending(u)'
    BY <2>1 DEF Suspending
  <2>3. Active(u) => Active(u)'
    BY <1>6 DEF ResetFailures, Write, AccountRow, Active
  <2> QED BY <2>2, <2>3 DEF Watched
<1>7. CASE InsertAccount(c)
  <2>0. c \notin DOMAIN users
    BY <1>7, AccountsAssumption DEF InsertAccount, Doing, Issued
  <2>1. pc[c] \notin {"bump", "drop"} /\ pc' = [pc EXCEPT ![c] = pc'[c]]
    BY <1>7 DEF InsertAccount, Doing, Goto
  <2>2. Suspending(u) => Suspending(u)'
    BY <2>1 DEF Suspending
  <2>3. Active(u) => Active(u)'
    BY <1>7, <2>0 DEF InsertAccount, Active
  <2> QED BY <2>2, <2>3 DEF Watched
<1>8. CASE DeleteAccount(c)
  <2>1. pc[c] \notin {"bump", "drop"} /\ pc' = [pc EXCEPT ![c] = pc'[c]]
    BY <1>8 DEF DeleteAccount, Doing, Goto
  <2>2. Suspending(u) => Suspending(u)'
    BY <2>1 DEF Suspending
  <2>3. Active(u) => Active(u)'
    BY <1>8 DEF DeleteAccount, Active
  <2> QED BY <2>2, <2>3 DEF Watched
<1> QED BY <1>1, <1>2, <1>3, <1>4, <1>5, <1>6, <1>7, <1>8, UsersWriters

(* The statements that write sessions.                                      *)
LEMMA SessionsWriters ==
    ASSUME RowsInv, NEW c \in Calls, Step(c)
    PROVE  \/ DropSessions(c) \/ DeleteAccount(c) \/ OpenSession(c)
           \/ UNCHANGED <<sessions, crossed>> /\ ~DropSessions(c) /\ ~DeleteAccount(c)
<1>1. \/ AccountStep(c) \/ DeleteAccount(c)
      \/ UNCHANGED accountVars
  BY Steps DEF RowsInv
<1>2. UNCHANGED accountVars => UNCHANGED <<sessions, crossed>>
  BY DEF accountVars, tables
<1>3. Enter(c) => UNCHANGED <<sessions, crossed>>
  BY DEF Enter, accountVars, tables
<1>4. Authorize(c) => UNCHANGED <<sessions, crossed>>
  BY DEF Authorize, accountVars, tables
<1>5. FindName(c) => UNCHANGED <<sessions, crossed>>
  BY DEF FindName, accountVars, tables
<1>6. InsertAccount(c) => UNCHANGED <<sessions, crossed>>
  BY DEF InsertAccount, accountVars, tables
<1>7. ReadTarget(c) => UNCHANGED <<sessions, crossed>>
  BY DEF ReadTarget, accountVars, tables
<1>8. CountAdministrators(c) => UNCHANGED <<sessions, crossed>>
  BY DEF CountAdministrators, accountVars, tables
<1>9. UpdateAccount(c) => UNCHANGED <<sessions, crossed>>
  BY DEF UpdateAccount, accountVars, tables
<1>10. WritePassword(c) => UNCHANGED <<sessions, crossed>>
  BY DEF WritePassword, accountVars, tables
<1>11. GrantPermission(c) => UNCHANGED <<sessions, crossed>>
  BY DEF GrantPermission, accountVars, tables
<1>12. RevokePermission(c) => UNCHANGED <<sessions, crossed>>
  BY DEF RevokePermission, accountVars, tables
<1>13. BumpVersion(c) => UNCHANGED <<sessions, crossed>>
  BY DEF BumpVersion, accountVars, tables
<1>14. FindLogin(c) => UNCHANGED <<sessions, crossed>>
  BY DEF FindLogin, accountVars, tables
<1>15. RecordFailure(c) => UNCHANGED <<sessions, crossed>>
  BY DEF RecordFailure, accountVars, tables
<1>16. ResetFailures(c) => UNCHANGED <<sessions, crossed>>
  BY DEF ResetFailures, accountVars, tables
<1>17. FindSession(c) => UNCHANGED <<sessions, crossed>>
  BY DEF FindSession, accountVars, tables
<1>18. ReadHolder(c) => UNCHANGED <<sessions, crossed>>
  BY DEF ReadHolder, accountVars, tables
<1> QED BY <1>1, <1>2, <1>3, <1>4, <1>5, <1>6, <1>7, <1>8, <1>9, <1>10, <1>11, <1>12, <1>13, <1>14, <1>15, <1>16, <1>17, <1>18 DEF AccountStep

(* A login or a rotation that may open a session holds an active row.       *)
LEMMA OpeningActive ==
    ASSUME RowsInv, SessionsInv, NEW c \in Calls, Step(c),
           Ask[c].do \in {"login", "refresh"}, pc'[c] \in {"right", "known"}
    PROVE  target'[c].status = "active"
<1> USE DEF RowsInv
<1> DEFINE Claim == target'[c].status = "active"
<1>1. \/ AccountStep(c) \/ DeleteAccount(c)
      \/ UNCHANGED accountVars /\ (UNCHANGED <<pc, made>> \/ MovesElsewhere(c))
  BY Steps
<1>2. UNCHANGED accountVars /\ UNCHANGED <<pc, made>> => Claim
  BY DEF accountVars, tables, reads, SessionsInv
<1>3. ~MovesElsewhere(c)
  BY DEF MovesElsewhere, Moves, OtherPhases
<1>4. Enter(c) => Claim
  BY DEF Enter, Doing, Goto, Active, SessionsInv, accountVars, tables, reads
<1>5. Authorize(c) => Claim
  BY DEF Authorize, Doing, Goto, Active, SessionsInv, accountVars, tables, reads
<1>6. FindName(c) => Claim
  BY DEF FindName, Doing, Goto, Active, SessionsInv, accountVars, tables, reads
<1>7. InsertAccount(c) => Claim
  BY DEF InsertAccount, Doing, Goto, Active, SessionsInv, accountVars, tables, reads
<1>8. ReadTarget(c) => Claim
  BY DEF ReadTarget, Doing, Goto, Active, SessionsInv, accountVars, tables, reads
<1>9. CountAdministrators(c) => Claim
  BY DEF CountAdministrators, Doing, Goto, Active, SessionsInv, accountVars, tables, reads
<1>10. UpdateAccount(c) => Claim
  BY DEF UpdateAccount, Doing, Goto, Active, SessionsInv, accountVars, tables, reads
<1>11. WritePassword(c) => Claim
  BY DEF WritePassword, Doing, Goto, Active, SessionsInv, accountVars, tables, reads
<1>12. GrantPermission(c) => Claim
  BY DEF GrantPermission, Doing, Goto, Active, SessionsInv, accountVars, tables, reads
<1>13. RevokePermission(c) => Claim
  BY DEF RevokePermission, Doing, Goto, Active, SessionsInv, accountVars, tables, reads
<1>14. BumpVersion(c) => Claim
  BY DEF BumpVersion, Doing, Goto, Active, SessionsInv, accountVars, tables, reads
<1>15. DropSessions(c) => Claim
  BY DEF DropSessions, Doing, Goto, Active, SessionsInv, accountVars, tables, reads
<1>16. FindLogin(c) => Claim
  BY DEF FindLogin, Doing, Goto, Active, SessionsInv, accountVars, tables, reads
<1>17. RecordFailure(c) => Claim
  BY DEF RecordFailure, Doing, Goto, Active, SessionsInv, accountVars, tables, reads
<1>18. ResetFailures(c) => Claim
  BY DEF ResetFailures, Doing, Goto, Active, SessionsInv, accountVars, tables, reads
<1>19. FindSession(c) => Claim
  BY DEF FindSession, Doing, Goto, Active, SessionsInv, accountVars, tables, reads
<1>20. ReadHolder(c) => Claim
  BY DEF ReadHolder, Doing, Goto, Active, SessionsInv, accountVars, tables, reads
<1>21. OpenSession(c) => Claim
  BY DEF OpenSession, Doing, Goto, Active, SessionsInv, accountVars, tables, reads
<1>22. DeleteAccount(c) => Claim
  BY DEF DeleteAccount, Doing, Goto, Active, SessionsInv, accountVars, tables, reads
<1> QED BY <1>1, <1>2, <1>3, <1>4, <1>5, <1>6, <1>7, <1>8, <1>9, <1>10, <1>11, <1>12, <1>13, <1>14, <1>15, <1>16, <1>17, <1>18, <1>19, <1>20, <1>21, <1>22 DEF AccountStep

LEMMA SessionsInit == Init => SessionsInv
<1> SUFFICES ASSUME Init PROVE SessionsInv
  OBVIOUS
<1>1. /\ pc = [c \in Calls |-> "idle"]
      /\ users = [u \in DOMAIN Staff |-> NewAccount(u, Staff[u])]
      /\ sessions = {[id |-> u, user |-> u, revoked |-> FALSE] : u \in DOMAIN Staff}
  BY DEF Init, RequestsInit, AccountsInit
<1>2. \A u \in DOMAIN Staff : Watched(u)
  BY <1>1 DEF Watched, Active, NewAccount
<1>3. ASSUME NEW s \in sessions PROVE s \in SessionRow
  <2>1. PICK u \in DOMAIN Staff : s = [id |-> u, user |-> u, revoked |-> FALSE]
    BY <1>1
  <2> QED BY <2>1 DEF SessionRow, Ids
<1>4. \A s \in sessions : Watched(s.user)
  BY <1>1, <1>2
<1> QED BY <1>1, <1>3, <1>4 DEF SessionsInv

LEMMA SessionsStep ==
    ASSUME RowsInv, SessionsInv, NEW c \in Calls, Step(c)
    PROVE  SessionsInv'
<1> USE DEF RowsInv, SessionsInv
<1> DEFINE Sound(s) == s \in SessionRow /\ (s.revoked = TRUE \/ Watched(s.user) \/ s.id \in crossed)
<1>1. \A s \in sessions' : Sound(s)'
  <2>1. CASE DropSessions(c)
    <3> DEFINE u == IF Ask[c].do = "logout" THEN Ask[c].by ELSE Ask[c].target
    <3>1. /\ sessions' = {IF s.user = u THEN [s EXCEPT !.revoked = TRUE] ELSE s : s \in sessions}
          /\ crossed' = crossed
      BY <2>1 DEF DropSessions
    <3>2. ~DeleteAccount(c)
      BY <2>1 DEF DropSessions, DeleteAccount, Doing
    <3>3. Ask[c].do = "update" => u = Ask[c].target
      OBVIOUS
    <3> HIDE DEF u
    <3> TAKE t \in sessions'
    <3>4. PICK s \in sessions : t = IF s.user = u THEN [s EXCEPT !.revoked = TRUE] ELSE s
      BY <3>1
    <3>5. CASE s.user = u
      BY <3>4, <3>5 DEF SessionRow
    <3>6. CASE s.user # u
      <4>1. Watched(s.user) => Watched(s.user)'
        BY <3>2, <3>3, <3>6, WatchedKept
      <4> QED BY <3>1, <3>4, <3>6, <4>1
    <3> QED BY <3>5, <3>6
  <2>2. CASE DeleteAccount(c)
    <3>1. ~DropSessions(c)
      BY <2>2 DEF DropSessions, DeleteAccount, Doing
    <3>2. sessions' = {s \in sessions : s.user # Ask[c].target} /\ crossed' = crossed
      BY <2>2 DEF DeleteAccount
    <3>3. \A s \in sessions' : Watched(s.user) => Watched(s.user)'
      BY <3>1, <3>2, WatchedKept
    <3> QED BY <3>2, <3>3
  <2>3. CASE OpenSession(c)
    <3> DEFINE new == [id |-> c, user |-> Ask[c].by, revoked |-> FALSE]
    <3>1. ~DropSessions(c) /\ ~DeleteAccount(c)
      BY <2>3 DEF OpenSession, DropSessions, DeleteAccount, Doing
    <3>2. \A u : Watched(u) => Watched(u)'
      BY <3>1, WatchedKept
    <3>3. crossed \subseteq crossed'
      BY <2>3 DEF OpenSession
    <3>4. Sound(new)'
      <4>1. new \in SessionRow
        BY <2>3 DEF OpenSession, SessionRow, Ids, Issued
      <4>2. CASE c \in crossed'
        BY <4>1, <4>2
      <4>3. CASE c \notin crossed'
        <5>1. target[c].status = users[Ask[c].by].status /\ Ask[c].by \in DOMAIN users
          BY <2>3, <4>3 DEF OpenSession
        <5>2. target[c].status = "active"
          BY <2>3 DEF OpenSession, Doing
        <5>3. Watched(Ask[c].by)
          BY <5>1, <5>2 DEF Watched, Active
        <5> QED BY <3>2, <4>1, <5>3
      <4> QED BY <4>2, <4>3
    <3>5. \A s \in sessions : Sound(s)' /\ Sound([s EXCEPT !.revoked = TRUE])'
      BY <3>2, <3>3 DEF SessionRow
    <3>6. \A t \in sessions' :
              t = new \/ \E s \in sessions : t = s \/ t = [s EXCEPT !.revoked = TRUE]
      BY <2>3 DEF OpenSession
    <3> HIDE DEF new, Sound
    <3> QED BY <3>4, <3>5, <3>6
  <2>4. CASE UNCHANGED <<sessions, crossed>> /\ ~DropSessions(c) /\ ~DeleteAccount(c)
    BY <2>4, WatchedKept
  <2> QED BY <2>1, <2>2, <2>3, <2>4, SessionsWriters
<1>2. ASSUME NEW d \in Calls, Ask[d].do \in {"login", "refresh"}, pc'[d] \in {"right", "known"}
      PROVE  target'[d].status = "active"
  <2>1. CASE d # c
    BY <1>2, <2>1, Opening
  <2>2. CASE d = c
    BY <1>2, <2>2, OpeningActive
  <2> QED BY <2>1, <2>2
<1> QED BY <1>1, <1>2

(* A suspended account has no session left that a refresh would revive,     *)
(* except one opened on a row read before.                                  *)
THEOREM SuspensionHolds == Spec => []SuspendedHoldsNoSession
<1>1. RowsInv /\ SessionsInv /\ [Next]_vars => SessionsInv'
  <2> SUFFICES ASSUME RowsInv, SessionsInv, [Next]_vars PROVE SessionsInv'
    OBVIOUS
  <2>1. CASE Next
    BY <2>1, SessionsStep DEF Next, RowsInv
  <2>2. CASE UNCHANGED vars
    BY <2>2 DEF vars, requestVars, accountVars, tables, reads, SessionsInv, Watched, Active,
                Suspending
  <2> QED BY <2>1, <2>2
<1>2. SessionsInv => SuspendedHoldsNoSession
  BY DEF SessionsInv, Watched, Suspending, SuspendedHoldsNoSession
<1> QED BY <1>1, <1>2, SessionsInit, AccountRowsSound, PTL DEF Spec
-----------------------------------------------------------------------------
(* A request that takes administration away from an administrator it has    *)
(* read has counted another one.                                            *)
Counted(c) ==
    /\ pc[c] \in {"checked", "delete"} /\ Ask[c].do \in {"update", "remove"}
    /\ Withdraws(c) /\ target[c].rank >= ADMIN /\ target[c].status = "active"
    => actives[c] > 1

CountInv ==
    /\ actives = [c \in Calls |-> actives[c]]
    /\ \A c \in Calls : Counted(c)

LEMMA CountStep ==
    ASSUME RowsInv, CountInv, NEW c \in Calls, Step(c)
    PROVE  CountInv'
<1> USE DEF RowsInv, CountInv
<1> DEFINE Claim ==
        /\ actives' = [d \in Calls |-> actives'[d]]
        /\ \A d \in Calls \ {c} : actives'[d] = actives[d]
        /\ Counted(c)'
<1>1. \/ AccountStep(c) \/ DeleteAccount(c)
      \/ UNCHANGED accountVars /\ (UNCHANGED <<pc, made>> \/ MovesElsewhere(c))
  BY Steps
<1>2. UNCHANGED accountVars /\ UNCHANGED <<pc, made>> => Claim
  BY DEF accountVars, tables, reads, Counted, Withdraws
<1>3. UNCHANGED accountVars /\ MovesElsewhere(c) => Claim
  BY DEF MovesElsewhere, Moves, OtherPhases, accountVars, tables, reads, Counted, Withdraws
<1>4. ReadTarget(c) => Claim
  <2> SUFFICES ASSUME ReadTarget(c) PROVE Claim
    OBVIOUS
  <2> DEFINE u == Ask[c].target
  <2>1. /\ actives' = actives /\ target'[c] = users[u] /\ u \in DOMAIN users
        /\ Withdraws(c) /\ u \in Administrators => pc'[c] = "lastOne"
    BY DEF ReadTarget, Goto
  <2>2. users[u].rank >= ADMIN /\ users[u].status = "active" => u \in Administrators
    BY <2>1 DEF Administrators, Active
  <2> QED BY <2>1, <2>2 DEF Counted, Withdraws
<1>5. CountAdministrators(c) => Claim
  BY DEF CountAdministrators, Doing, Goto, Counted, Withdraws
<1>6. DropSessions(c) => Claim
  BY DEF DropSessions, Doing, Goto, reads, Counted, Withdraws
<1>7. Enter(c) => Claim
  BY DEF Enter, Doing, Goto, Counted, Withdraws, accountVars, tables, reads
<1>8. Authorize(c) => Claim
  BY DEF Authorize, Doing, Goto, Counted, Withdraws, accountVars, tables, reads
<1>9. FindName(c) => Claim
  BY DEF FindName, Doing, Goto, Counted, Withdraws, accountVars, tables, reads
<1>10. InsertAccount(c) => Claim
  BY DEF InsertAccount, Doing, Goto, Counted, Withdraws, accountVars, tables, reads
<1>11. UpdateAccount(c) => Claim
  BY DEF UpdateAccount, Doing, Goto, Counted, Withdraws, accountVars, tables, reads
<1>12. WritePassword(c) => Claim
  BY DEF WritePassword, Doing, Goto, Counted, Withdraws, accountVars, tables, reads
<1>13. GrantPermission(c) => Claim
  BY DEF GrantPermission, Doing, Goto, Counted, Withdraws, accountVars, tables, reads
<1>14. RevokePermission(c) => Claim
  BY DEF RevokePermission, Doing, Goto, Counted, Withdraws, accountVars, tables, reads
<1>15. BumpVersion(c) => Claim
  BY DEF BumpVersion, Doing, Goto, Counted, Withdraws, accountVars, tables, reads
<1>16. FindLogin(c) => Claim
  BY DEF FindLogin, Doing, Goto, Counted, Withdraws, accountVars, tables, reads
<1>17. RecordFailure(c) => Claim
  BY DEF RecordFailure, Doing, Goto, Counted, Withdraws, accountVars, tables, reads
<1>18. ResetFailures(c) => Claim
  BY DEF ResetFailures, Doing, Goto, Counted, Withdraws, accountVars, tables, reads
<1>19. FindSession(c) => Claim
  BY DEF FindSession, Doing, Goto, Counted, Withdraws, accountVars, tables, reads
<1>20. ReadHolder(c) => Claim
  BY DEF ReadHolder, Doing, Goto, Counted, Withdraws, accountVars, tables, reads
<1>21. OpenSession(c) => Claim
  BY DEF OpenSession, Doing, Goto, Counted, Withdraws, accountVars, tables, reads
<1>22. DeleteAccount(c) => Claim
  BY DEF DeleteAccount, Doing, Goto, Counted, Withdraws, accountVars, tables, reads
<1>23. Claim
  BY <1>1, <1>2, <1>3, <1>4, <1>5, <1>6, <1>7, <1>8, <1>9, <1>10, <1>11, <1>12, <1>13, <1>14, <1>15, <1>16, <1>17, <1>18, <1>19, <1>20, <1>21, <1>22 DEF AccountStep
<1>24. ASSUME NEW d \in Calls \ {c} PROVE Counted(d)'
  <2>1. Counted(d) /\ target'[d] = target[d] /\ pc'[d] = pc[d]
    BY Opening
  <2> QED BY <1>23, <2>1 DEF Counted, Withdraws
<1> QED BY <1>23, <1>24

(* Who takes away the last administrator relies on a count that has changed *)
(* since, or has not counted.                                               *)
LEMMA WithdrawalStep ==
    ASSUME RowsInv, CountInv, NEW c \in Calls, Step(c),
           NEW d \in Calls, pc'[d] # pc[d], pc[d] \in {"checked", "delete"},
           Administrators # {}, Administrators' = {}
    PROVE  \/ target[d].rank < ADMIN \/ target[d].status # "active"
           \/ actives[d] # Cardinality(Administrators)
<1> USE DEF RowsInv, CountInv
<1>1. d = c
  BY Opening
<1>2. PICK last : last \in Administrators
  OBVIOUS
<1>3. Ask[c].target = last /\ (UpdateAccount(c) \/ DeleteAccount(c))
  <2> DEFINE Kept(u) == Active(u) /\ users[u].rank >= ADMIN
  <2>1. ~UNCHANGED users
    BY DEF Administrators, Active
  <2>2. UpdateAccount(c) => Ask[c].target = last
    BY <1>2 DEF UpdateAccount, Write, Administrators, Active
  <2>3. DeleteAccount(c) => Ask[c].target = last
    BY <1>2 DEF DeleteAccount, Administrators, Active
  <2>4. ~WritePassword(c) /\ ~BumpVersion(c)
    BY <1>2 DEF WritePassword, BumpVersion, Write, Administrators, Active, AccountRow
  <2>5. ~InsertAccount(c) /\ ~RecordFailure(c) /\ ~ResetFailures(c)
    BY <1>1 DEF InsertAccount, RecordFailure, ResetFailures, Doing
  <2> QED BY <2>1, <2>2, <2>3, <2>4, <2>5, UsersWriters
<1>4. Administrators = {last}
  <2>1. ASSUME NEW u \in Administrators, u # last PROVE FALSE
    <3>1. u \in Administrators'
      BY <1>3, <2>1 DEF UpdateAccount, DeleteAccount, Write, Administrators, Active
    <3> QED BY <3>1
  <2> QED BY <1>2, <2>1
<1>5. Cardinality(Administrators) = 1
  BY <1>4, FS_Singleton
<1>6. Withdraws(c) /\ Ask[c].do \in {"update", "remove"}
  <2>1. CASE DeleteAccount(c)
    BY <2>1 DEF DeleteAccount, Doing, Withdraws
  <2>2. CASE UpdateAccount(c)
    <3>1. Ask[c].do = "update" /\ Ask[c].rank \in Nat
      BY <2>2, AccountsAssumption DEF UpdateAccount, Doing
    <3>2. /\ last \in DOMAIN users' /\ users'[last].rank = Ask[c].rank
          /\ users'[last].status = Ask[c].status
      <4>1. last \in DOMAIN users /\ users[last] \in AccountRow
        BY <1>2 DEF Administrators, Active
      <4>2. users' = [users EXCEPT ![last] = [users[last] EXCEPT !.rank = Ask[c].rank,
                                                              !.status = Ask[c].status]]
        BY <1>3, <2>2, <4>1 DEF UpdateAccount, Write
      <4> QED BY <4>1, <4>2 DEF AccountRow
    <3>3. last \notin Administrators'
      OBVIOUS
    <3>4. ~(Ask[c].rank >= ADMIN /\ Ask[c].status = "active")
      BY <3>2, <3>3 DEF Administrators, Active
    <3> QED BY <3>1, <3>4 DEF Withdraws, ADMIN
  <2> QED BY <1>3, <2>1, <2>2
<1>7. target[c] \in AccountRow
  BY <1>1, <1>6 DEF ReadsARow, Holding
<1>8. target[c].rank >= ADMIN /\ target[c].status = "active" => actives[c] > 1
  BY <1>1, <1>6 DEF Counted
<1> QED BY <1>1, <1>5, <1>7, <1>8 DEF AccountRow, ADMIN

(* "Le dernier administrateur actif ne se retire pas" (users.service.ts:49).*)
THEOREM AdministratorStays == Spec => AdministratorRemains
<1>1. Init => CountInv
  <2> SUFFICES ASSUME Init PROVE CountInv
    OBVIOUS
  <2>1. pc = [c \in Calls |-> "idle"] /\ actives = [c \in Calls |-> 0]
    BY DEF Init, RequestsInit, AccountsInit
  <2> QED BY <2>1 DEF CountInv, Counted
<1>2. RowsInv /\ CountInv /\ [Next]_vars => CountInv'
  <2> SUFFICES ASSUME RowsInv, CountInv, [Next]_vars PROVE CountInv'
    OBVIOUS
  <2>1. CASE Next
    BY <2>1, CountStep DEF Next, RowsInv
  <2>2. CASE UNCHANGED vars
    BY <2>2 DEF vars, requestVars, accountVars, reads, CountInv, Counted, Withdraws
  <2> QED BY <2>1, <2>2
<1> DEFINE LastOnes == \A c \in Calls :
        /\ pc'[c] # pc[c] /\ pc[c] \in {"checked", "delete"}
        /\ Administrators # {} /\ Administrators' = {}
        => \/ target[c].rank < ADMIN \/ target[c].status # "active"
           \/ actives[c] # Cardinality(Administrators)
<1>3. RowsInv /\ CountInv /\ [Next]_vars => [LastOnes]_<<pc, accountVars>>
  <2> SUFFICES ASSUME RowsInv, CountInv, [Next]_vars PROVE [LastOnes]_<<pc, accountVars>>
    OBVIOUS
  <2>1. CASE Next
    BY <2>1, WithdrawalStep DEF Next, RowsInv
  <2>2. CASE UNCHANGED vars
    BY <2>2 DEF vars, requestVars
  <2> QED BY <2>1, <2>2
<1>4. AdministratorRemains <=> [][LastOnes]_<<pc, accountVars>>
  BY DEF AdministratorRemains
<1> QED BY <1>1, <1>2, <1>3, <1>4, AccountRowsSound, PTL DEF Spec

-----------------------------------------------------------------------------
(* Who moves what: a request on an account never passes through the phases  *)
(* of the others, and only enters when it is one of the others.             *)
Entering(c) == Moves(c, {"entered", "allowed"}) /\ pc[c] \in {"idle", "entered"}
Untouched(c) == UNCHANGED pc \/ Entering(c)

OnAccounts == {"create", "update", "password", "remove", "grant", "revoke",
               "login", "refresh", "logout"}

LEMMA AccountsApart ==
    ASSUME RowsInv, NEW c \in Calls, Ask[c].do \notin OnAccounts,
           AccountStep(c) \/ DeleteAccount(c) \/ AccountDies(c)
    PROVE  Entering(c) \/ UNCHANGED pc
<1> USE DEF RowsInv
<1>1. Enter(c) => Entering(c)
  BY DEF Enter, Goto, Moves, Entering
<1>2. Authorize(c) => Entering(c)
  BY DEF Authorize, Goto, Moves, Entering
<1>3. ~FindName(c)
  BY DEF FindName, Doing, OnAccounts
<1>4. ~InsertAccount(c)
  BY DEF InsertAccount, Doing, OnAccounts
<1>5. ~ReadTarget(c)
  BY DEF ReadTarget, Doing, OnAccounts
<1>6. ~CountAdministrators(c)
  BY DEF CountAdministrators, Doing, OnAccounts
<1>7. ~UpdateAccount(c)
  BY DEF UpdateAccount, Doing, OnAccounts
<1>8. ~WritePassword(c)
  BY DEF WritePassword, Doing, OnAccounts
<1>9. ~GrantPermission(c)
  BY DEF GrantPermission, Doing, OnAccounts
<1>10. ~RevokePermission(c)
  BY DEF RevokePermission, Doing, OnAccounts
<1>11. ~BumpVersion(c)
  BY DEF BumpVersion, Doing, OnAccounts
<1>12. ~DropSessions(c)
  BY DEF DropSessions, Doing, OnAccounts
<1>13. ~FindLogin(c)
  BY DEF FindLogin, Doing, OnAccounts
<1>14. ~RecordFailure(c)
  BY DEF RecordFailure, Doing, OnAccounts
<1>15. ~ResetFailures(c)
  BY DEF ResetFailures, Doing, OnAccounts
<1>16. ~FindSession(c)
  BY DEF FindSession, Doing, OnAccounts
<1>17. ~ReadHolder(c)
  BY DEF ReadHolder, Doing, OnAccounts
<1>18. ~OpenSession(c)
  BY DEF OpenSession, Doing, OnAccounts
<1>19. ~DeleteAccount(c)
  BY DEF DeleteAccount, Doing, OnAccounts
<1>20. AccountDies(c) => UNCHANGED pc
  BY DEF AccountDies, Dies
<1> QED BY <1>1, <1>2, <1>3, <1>4, <1>5, <1>6, <1>7, <1>8, <1>9, <1>10, <1>11, <1>12, <1>13, <1>14, <1>15, <1>16, <1>17, <1>18, <1>19, <1>20 DEF AccountStep

LEMMA ProfilesApart ==
    ASSUME NEW c \in Calls, ProfileStep(c)
    PROVE  Ask[c].do \in {"save", "reset", "boot", "delete"}
<1>1. Open(c) => Ask[c].do \in {"save", "reset", "boot", "delete"}
  BY DEF Open, Doing, Writes
<1>2. LookVersion(c) => Ask[c].do \in {"save", "reset", "boot", "delete"}
  BY DEF LookVersion, Doing, Writes
<1>3. Create(c) => Ask[c].do \in {"save", "reset", "boot", "delete"}
  BY DEF Create, Doing, Writes
<1>4. Overwrite(c) => Ask[c].do \in {"save", "reset", "boot", "delete"}
  BY DEF Overwrite, Doing, Writes
<1>5. ReadLabel(c) => Ask[c].do \in {"save", "reset", "boot", "delete"}
  BY DEF ReadLabel, Doing, Writes
<1>6. Update(c) => Ask[c].do \in {"save", "reset", "boot", "delete"}
  BY DEF Update, Doing, Writes
<1>7. DeleteProfile(c) => Ask[c].do \in {"save", "reset", "boot", "delete"}
  BY DEF DeleteProfile, Doing, Writes
<1> QED BY <1>1, <1>2, <1>3, <1>4, <1>5, <1>6, <1>7 DEF ProfileStep

LEMMA MessagesApart ==
    ASSUME NEW c \in Calls, MessageStep(c)
    PROVE  Ask[c].do \in {"send", "open", "archive", "readAll"}
<1>1. ResolveAudience(c) => Ask[c].do \in {"send", "open", "archive", "readAll"}
  BY DEF ResolveAudience, Doing
<1>2. StoreFile(c) => Ask[c].do \in {"send", "open", "archive", "readAll"}
  BY DEF StoreFile, Doing
<1>3. WriteMessage(c) => Ask[c].do \in {"send", "open", "archive", "readAll"}
  BY DEF WriteMessage, Doing
<1>4. MarkOwnCopy(c) => Ask[c].do \in {"send", "open", "archive", "readAll"}
  BY DEF MarkOwnCopy, Doing
<1>5. SendFails(c) => Ask[c].do \in {"send", "open", "archive", "readAll"}
  BY DEF SendFails, Doing
<1>6. TakeBack(c) => Ask[c].do \in {"send", "open", "archive", "readAll"}
  BY DEF TakeBack, Doing
<1>7. FindCopy(c) => Ask[c].do \in {"send", "open", "archive", "readAll"}
  BY DEF FindCopy, Doing
<1>8. MarkCopy(c) => Ask[c].do \in {"send", "open", "archive", "readAll"}
  BY DEF MarkCopy, Doing
<1>9. MarkAllRead(c) => Ask[c].do \in {"send", "open", "archive", "readAll"}
  BY DEF MarkAllRead, Doing
<1>10. FileStored(c) => Ask[c].do \in {"send", "open", "archive", "readAll"}
  BY DEF FileStored, Doing
<1> QED BY <1>1, <1>2, <1>3, <1>4, <1>5, <1>6, <1>7, <1>8, <1>9, <1>10 DEF MessageStep

LEMMA FeedbackApart ==
    ASSUME NEW c \in Calls, FeedbackStep(c)
    PROVE  Ask[c].do \in {"report", "triage"}
BY DEF FeedbackStep, Report, ReadReport, WriteTriage, Doing
-----------------------------------------------------------------------------
(* Reports.                                                                 *)
Persons == {None} \union {Ask[c].by : c \in Calls}
           \union {Ask[c].assign : c \in {d \in Calls : Ask[d].do = "triage"}}
ReportRow == [status : DOMAIN Transitions, author : Persons, assigned : Persons,
              resolved : BOOLEAN]
Dated(row) == row.resolved <=> row.status = "resolu"

(* A triage has read a status, and what it asks may follow this status.     *)
Read(c) ==
    /\ status[c] = [report |-> status[c].report, from |-> status[c].from]
    /\ status[c].report \in DOMAIN feedback
    /\ status[c].from \in DOMAIN Transitions
    /\ Ask[c].status # None => Ask[c].status \in Transitions[status[c].from]

FeedbackInv ==
    /\ feedback \in [DOMAIN feedback -> ReportRow]
    /\ DOMAIN feedback \subseteq Issued
    /\ \A r \in DOMAIN feedback : Dated(feedback[r])
    /\ status = [c \in Calls |-> status[c]]
    /\ \A c \in Calls : Ask[c].do = "triage" /\ pc[c] = "read" => Read(c)

LEMMA TransitionsStay ==
    ASSUME NEW s \in DOMAIN Transitions
    PROVE  Transitions[s] \subseteq DOMAIN Transitions
BY DEF Transitions

(* What a step may do to a report.                                          *)
Follows(r) ==
    /\ r \in DOMAIN feedback'
    /\ \/ feedback'[r].status \in Transitions[feedback[r].status] \union {feedback[r].status}
       \/ \E c \in Calls : /\ pc[c] = "read" /\ pc'[c] = "done"
                           /\ status[c] # [report |-> r, from |-> feedback[r].status]
    /\ Dated(feedback'[r])

LEMMA ReadsKept ==
    ASSUME RowsInv, FeedbackInv, NEW c \in Calls, DOMAIN feedback \subseteq DOMAIN feedback',
           UNCHANGED status, UNCHANGED pc \/ Moves(c, Phases \ {"read"})
    PROVE  \A d \in Calls : Ask[d].do = "triage" /\ pc'[d] = "read" => Read(d)'
BY DEF RowsInv, FeedbackInv, Moves, Read

LEMMA FeedbackElsewhere ==
    ASSUME RowsInv, FeedbackInv, NEW c \in Calls, UNCHANGED feedbackVars,
           UNCHANGED pc \/ Moves(c, Phases \ {"read"})
    PROVE  FeedbackInv' /\ \A r \in DOMAIN feedback : Follows(r)
<1>1. Issued \subseteq Issued'
  BY StaysIssued DEF Issued
<1>2. UNCHANGED feedback /\ UNCHANGED status
  BY DEF feedbackVars
<1>3. \A d \in Calls : Ask[d].do = "triage" /\ pc'[d] = "read" => Read(d)'
  BY <1>2, ReadsKept
<1> QED BY <1>1, <1>2, <1>3 DEF FeedbackInv, Follows

(* Only a triage reads a report.                                            *)
LEMMA Unread ==
    ASSUME RowsInv, NEW c \in Calls, Step(c), ~FeedbackStep(c)
    PROVE  UNCHANGED pc \/ Moves(c, Phases \ {"read"})
<1> USE DEF RowsInv
<1> DEFINE Claim == UNCHANGED pc \/ Moves(c, Phases \ {"read"})
<1>1. Enter(c) => Claim
  BY DEF Enter, Doing, Goto, Moves, Phases, OtherPhases, Holding
<1>2. Authorize(c) => Claim
  BY DEF Authorize, Doing, Goto, Moves, Phases, OtherPhases, Holding
<1>3. FindName(c) => Claim
  BY DEF FindName, Doing, Goto, Moves, Phases, OtherPhases, Holding
<1>4. InsertAccount(c) => Claim
  BY DEF InsertAccount, Doing, Goto, Moves, Phases, OtherPhases, Holding
<1>5. ReadTarget(c) => Claim
  BY DEF ReadTarget, Doing, Goto, Moves, Phases, OtherPhases, Holding
<1>6. CountAdministrators(c) => Claim
  BY DEF CountAdministrators, Doing, Goto, Moves, Phases, OtherPhases, Holding
<1>7. UpdateAccount(c) => Claim
  BY DEF UpdateAccount, Doing, Goto, Moves, Phases, OtherPhases, Holding
<1>8. WritePassword(c) => Claim
  BY DEF WritePassword, Doing, Goto, Moves, Phases, OtherPhases, Holding
<1>9. GrantPermission(c) => Claim
  BY DEF GrantPermission, Doing, Goto, Moves, Phases, OtherPhases, Holding
<1>10. RevokePermission(c) => Claim
  BY DEF RevokePermission, Doing, Goto, Moves, Phases, OtherPhases, Holding
<1>11. BumpVersion(c) => Claim
  BY DEF BumpVersion, Doing, Goto, Moves, Phases, OtherPhases, Holding
<1>12. DropSessions(c) => Claim
  BY DEF DropSessions, Doing, Goto, Moves, Phases, OtherPhases, Holding
<1>13. FindLogin(c) => Claim
  BY DEF FindLogin, Doing, Goto, Moves, Phases, OtherPhases, Holding
<1>14. RecordFailure(c) => Claim
  BY DEF RecordFailure, Doing, Goto, Moves, Phases, OtherPhases, Holding
<1>15. ResetFailures(c) => Claim
  BY DEF ResetFailures, Doing, Goto, Moves, Phases, OtherPhases, Holding
<1>16. FindSession(c) => Claim
  BY DEF FindSession, Doing, Goto, Moves, Phases, OtherPhases, Holding
<1>17. ReadHolder(c) => Claim
  BY DEF ReadHolder, Doing, Goto, Moves, Phases, OtherPhases, Holding
<1>18. OpenSession(c) => Claim
  BY DEF OpenSession, Doing, Goto, Moves, Phases, OtherPhases, Holding
<1>19. DeleteAccount(c) => Claim
  BY DEF DeleteAccount, Doing, Goto, Moves, Phases, OtherPhases, Holding
<1>20. Open(c) => Claim
  BY DEF Open, Doing, Goto, Moves, Phases, OtherPhases, Holding, requestVars
<1>21. LookVersion(c) => Claim
  BY DEF LookVersion, Doing, Goto, Moves, Phases, OtherPhases, Holding
<1>22. Create(c) => Claim
  BY DEF Create, Doing, Goto, Moves, Phases, OtherPhases, Holding
<1>23. Overwrite(c) => Claim
  BY DEF Overwrite, Doing, Goto, Moves, Phases, OtherPhases, Holding
<1>24. ReadLabel(c) => Claim
  BY DEF ReadLabel, Doing, Goto, Moves, Phases, OtherPhases, Holding
<1>25. Update(c) => Claim
  BY DEF Update, Doing, Goto, Moves, Phases, OtherPhases, Holding
<1>26. DeleteProfile(c) => Claim
  BY DEF DeleteProfile, Doing, Goto, Moves, Phases, OtherPhases, Holding
<1>27. ResolveAudience(c) => Claim
  BY DEF ResolveAudience, Doing, Goto, Moves, Phases, OtherPhases, Holding
<1>28. StoreFile(c) => Claim
  BY DEF StoreFile, Doing, Goto, Moves, Phases, OtherPhases, Holding
<1>29. WriteMessage(c) => Claim
  BY DEF WriteMessage, Doing, Goto, Moves, Phases, OtherPhases, Holding
<1>30. MarkOwnCopy(c) => Claim
  BY DEF MarkOwnCopy, Doing, Goto, Moves, Phases, OtherPhases, Holding
<1>31. SendFails(c) => Claim
  BY DEF SendFails, Doing, Goto, Moves, Phases, OtherPhases, Holding
<1>32. TakeBack(c) => Claim
  BY DEF TakeBack, Doing, Goto, Moves, Phases, OtherPhases, Holding
<1>33. FindCopy(c) => Claim
  BY DEF FindCopy, Doing, Goto, Moves, Phases, OtherPhases, Holding
<1>34. MarkCopy(c) => Claim
  BY DEF MarkCopy, Doing, Goto, Moves, Phases, OtherPhases, Holding
<1>35. MarkAllRead(c) => Claim
  BY DEF MarkAllRead, Doing, Goto, Moves, Phases, OtherPhases, Holding
<1>36. AccountDies(c) \/ MessageDies(c) => Claim
  BY DEF AccountDies, MessageDies, Dies
<1>37. FileStored(c) => Claim
  BY DEF FileStored, Doing, Goto, Moves, Phases, OtherPhases, Holding
<1> QED BY <1>1, <1>2, <1>3, <1>4, <1>5, <1>6, <1>7, <1>8, <1>9, <1>10, <1>11, <1>12, <1>13, <1>14, <1>15, <1>16, <1>17, <1>18, <1>19, <1>20, <1>21, <1>22, <1>23, <1>24, <1>25, <1>26, <1>27, <1>28, <1>29, <1>30, <1>31, <1>32, <1>33, <1>34, <1>35, <1>36, <1>37
       DEF Step, RemoveAccount, AccountStep, ProfileStep, MessageStep

LEMMA FeedbackSteps ==
    ASSUME RowsInv, FeedbackInv, NEW c \in Calls, Step(c)
    PROVE  FeedbackInv' /\ \A r \in DOMAIN feedback : Follows(r)
<1> USE DEF FeedbackInv
<1>1. CASE Report(c)
  <2> DEFINE row == [status |-> "nouveau", author |-> Ask[c].by, assigned |-> None,
                     resolved |-> FALSE]
  <2>1. /\ Moves(c, Phases \ {"read"}) /\ pc'[c] = "done"
        /\ feedback' = [r \in DOMAIN feedback \union {c} |-> IF r # c THEN feedback[r] ELSE row]
        /\ UNCHANGED status
    BY <1>1 DEF Report, Doing, Goto, Moves, Phases, OtherPhases, RowsInv
  <2>2. row \in ReportRow /\ Dated(row)
    BY DEF ReportRow, Dated, Persons, Transitions
  <2> HIDE DEF row
  <2>3. c \notin DOMAIN feedback
    BY <1>1, AccountsAssumption DEF Report, Doing, Issued
  <2>4. Issued \subseteq Issued' /\ c \in Issued'
    BY <2>1, StaysIssued DEF Issued
  <2>5. /\ feedback' \in [DOMAIN feedback' -> ReportRow]
        /\ DOMAIN feedback' = DOMAIN feedback \union {c}
        /\ \A r \in DOMAIN feedback' : Dated(feedback'[r])
        /\ \A r \in DOMAIN feedback : feedback'[r] = feedback[r]
    BY <2>1, <2>2, <2>3
  <2>6. \A d \in Calls : Ask[d].do = "triage" /\ pc'[d] = "read" => Read(d)'
    BY <2>1, <2>5, ReadsKept
  <2> QED BY <2>1, <2>4, <2>5, <2>6 DEF Follows
<1>2. CASE ReadReport(c)
  <2>1. PICK r \in DOMAIN feedback :
            /\ Ask[c].status # None => Ask[c].status \in Transitions[feedback[r].status]
            /\ status' = [status EXCEPT ![c] = [report |-> r, from |-> feedback[r].status]]
    BY <1>2 DEF ReadReport
  <2>2. Moves(c, Phases) /\ UNCHANGED feedback
    BY <1>2 DEF ReadReport, Doing, Goto, Moves, Phases, OtherPhases, RowsInv
  <2>3. feedback[r].status \in DOMAIN Transitions
    BY <2>1 DEF ReportRow
  <2>4. Issued \subseteq Issued'
    BY <2>2, StaysIssued
  <2>5. status'[c] = [report |-> r, from |-> feedback[r].status]
    BY <2>1
  <2>6. Read(c)'
    BY <2>1, <2>2, <2>3, <2>5 DEF Read
  <2>7. \A d \in Calls \ {c} : pc'[d] = "read" => pc[d] = "read" /\ status'[d] = status[d]
    BY <2>1, <2>2 DEF Moves, RowsInv
  <2>8. \A d \in Calls \ {c} : Ask[d].do = "triage" /\ pc'[d] = "read" => Read(d)'
    BY <2>2, <2>7 DEF Read
  <2>9. status' = [d \in Calls |-> status'[d]]
    BY <2>1
  <2> QED BY <2>2, <2>4, <2>6, <2>8, <2>9 DEF Follows
<1>3. CASE WriteTriage(c)
  <2> DEFINE r == status[c].report
             moved == IF Ask[c].status = None THEN feedback[r]
                      ELSE [feedback[r] EXCEPT !.status = Ask[c].status,
                                               !.resolved = Ask[c].status = "resolu"]
             row == IF Ask[c].assign = None THEN moved
                    ELSE [moved EXCEPT !.assigned = Ask[c].assign]
  <2>1. Read(c)
    BY <1>3 DEF WriteTriage, Doing
  <2>2. /\ Moves(c, Phases \ {"read"}) /\ pc[c] = "read" /\ pc'[c] = "done"
        /\ feedback' = [feedback EXCEPT ![r] = row]
        /\ UNCHANGED status
    BY <1>3 DEF WriteTriage, Doing, Goto, Moves, Phases, OtherPhases, RowsInv
  <2>3. r \in DOMAIN feedback /\ feedback[r] \in ReportRow /\ Dated(feedback[r])
    BY <2>1 DEF Read
  <2>4. /\ moved \in ReportRow /\ Dated(moved)
        /\ moved.status = IF Ask[c].status = None THEN feedback[r].status ELSE Ask[c].status
    <3>1. CASE Ask[c].status = None
      BY <2>3, <3>1
    <3>2. CASE Ask[c].status # None
      <4> DEFINE solved == Ask[c].status = "resolu"
      <4>1. solved \in BOOLEAN /\ (solved <=> Ask[c].status = "resolu")
        OBVIOUS
      <4>2. Ask[c].status \in DOMAIN Transitions
        BY <2>1, <3>2, TransitionsStay DEF Read
      <4>3. moved = [feedback[r] EXCEPT !.status = Ask[c].status, !.resolved = solved]
        BY <3>2
      <4> HIDE DEF solved, moved
      <4>4. moved \in ReportRow /\ moved.status = Ask[c].status /\ moved.resolved = solved
        BY <2>3, <4>1, <4>2, <4>3 DEF ReportRow
      <4> QED BY <3>2, <4>1, <4>4 DEF Dated
    <3> QED BY <3>1, <3>2
  <2> HIDE DEF moved
  <2>5. row \in ReportRow /\ Dated(row) /\ row.status = moved.status
    <3>1. Ask[c].assign \in Persons
      BY <1>3 DEF WriteTriage, Doing, Persons
    <3> QED BY <2>4, <3>1 DEF ReportRow, Dated
  <2> HIDE DEF row
  <2>6. /\ feedback' \in [DOMAIN feedback' -> ReportRow]
        /\ DOMAIN feedback' = DOMAIN feedback
        /\ \A x \in DOMAIN feedback' : Dated(feedback'[x])
    BY <2>2, <2>3, <2>5
  <2>7. Issued \subseteq Issued'
    BY <2>2, StaysIssued
  <2>8. \A d \in Calls : Ask[d].do = "triage" /\ pc'[d] = "read" => Read(d)'
    BY <2>2, <2>6, ReadsKept
  <2>9. \A x \in DOMAIN feedback : Follows(x)
    <3> TAKE x \in DOMAIN feedback
    <3>1. CASE x # r
      BY <2>2, <2>6, <3>1 DEF Follows
    <3>2. CASE x = r
      <4>1. CASE status[c].from = feedback[r].status
        <5>1. moved.status \in Transitions[feedback[r].status] \union {feedback[r].status}
          BY <2>1, <2>4, <4>1 DEF Read
        <5> QED BY <2>2, <2>3, <2>5, <2>6, <3>2, <5>1 DEF Follows
      <4>2. CASE status[c].from # feedback[r].status
        <5>1. status[c] # [report |-> r, from |-> feedback[r].status]
          BY <4>2
        <5> QED BY <2>2, <2>6, <3>2, <5>1 DEF Follows
      <4> QED BY <4>1, <4>2
    <3> QED BY <3>1, <3>2
  <2> QED BY <2>2, <2>6, <2>7, <2>8, <2>9
<1>4. CASE ForgetReporter(Ask[c].target) /\ DeleteAccount(c)
  <2> DEFINE u == Ask[c].target
             kept(row) == [row EXCEPT !.author = IF @ = u THEN None ELSE @,
                                      !.assigned = IF @ = u THEN None ELSE @]
  <2>1. feedback' = [r \in DOMAIN feedback |-> kept(feedback[r])] /\ UNCHANGED status
    BY <1>4 DEF ForgetReporter
  <2>2. \A row \in ReportRow : kept(row) \in ReportRow /\ kept(row).status = row.status
                              /\ kept(row).resolved = row.resolved
    BY DEF ReportRow, Persons
  <2> HIDE DEF kept
  <2>3. Moves(c, Phases \ {"read"})
    BY <1>4 DEF DeleteAccount, Doing, Goto, Moves, Phases, OtherPhases, RowsInv
  <2>4. /\ feedback' \in [DOMAIN feedback' -> ReportRow]
        /\ DOMAIN feedback' = DOMAIN feedback
        /\ \A r \in DOMAIN feedback' : feedback'[r].status = feedback[r].status
                                      /\ Dated(feedback'[r])
    BY <2>1, <2>2 DEF Dated
  <2>5. \A d \in Calls : Ask[d].do = "triage" /\ pc'[d] = "read" => Read(d)'
    BY <2>1, <2>3, <2>4, ReadsKept
  <2>6. Issued \subseteq Issued'
    BY <2>3, StaysIssued
  <2> QED BY <2>1, <2>4, <2>5, <2>6 DEF Follows
<1>5. CASE UNCHANGED feedbackVars /\ ~FeedbackStep(c)
  <2>1. UNCHANGED pc \/ Moves(c, Phases \ {"read"})
    BY <1>5, Unread
  <2> QED BY <1>5, <2>1, FeedbackElsewhere
<1> QED BY <1>1, <1>2, <1>3, <1>4, <1>5 DEF Step, RemoveAccount, FeedbackStep

(* "Un statut ne se remonte pas au hasard" (feedback.schema.ts:36).         *)
THEOREM StatusHolds == Spec => StatusNeverSkips
<1>1. Init => FeedbackInv
  <2> SUFFICES ASSUME Init PROVE FeedbackInv
    OBVIOUS
  <2>1. pc = [c \in Calls |-> "idle"] /\ feedback = << >> /\ status = [c \in Calls |-> None]
    BY DEF Init, RequestsInit, FeedbackInit
  <2>2. DOMAIN feedback = {} /\ feedback \in [{} -> ReportRow]
    BY <2>1
  <2> QED BY <2>1, <2>2 DEF FeedbackInv
<1>2. RowsInv /\ FeedbackInv /\ [Next]_vars => FeedbackInv'
  <2> SUFFICES ASSUME RowsInv, FeedbackInv, [Next]_vars PROVE FeedbackInv'
    OBVIOUS
  <2>1. CASE Next
    BY <2>1, FeedbackSteps DEF Next, RowsInv
  <2>2. CASE UNCHANGED vars
    BY <2>2 DEF vars, requestVars, feedbackVars, FeedbackInv, Issued, Read
  <2> QED BY <2>1, <2>2
<1> DEFINE Moved == \A r \in DOMAIN feedback :
        /\ \/ feedback'[r].status \in Transitions[feedback[r].status] \union {feedback[r].status}
           \/ \E c \in Calls : /\ pc[c] = "read" /\ pc'[c] = "done"
                               /\ status[c] # [report |-> r, from |-> feedback[r].status]
        /\ feedback'[r].resolved = (feedback'[r].status = "resolu")
<1>3. RowsInv /\ FeedbackInv /\ [Next]_vars => [Moved]_<<pc, feedbackVars>>
  <2> SUFFICES ASSUME RowsInv, FeedbackInv, [Next]_vars PROVE [Moved]_<<pc, feedbackVars>>
    OBVIOUS
  <2>1. CASE Next
    <3>1. FeedbackInv' /\ \A r \in DOMAIN feedback : Follows(r)
      BY <2>1, FeedbackSteps DEF Next, RowsInv
    <3>2. \A r \in DOMAIN feedback : feedback'[r].resolved \in BOOLEAN
      BY <3>1 DEF FeedbackInv, Follows, ReportRow
    <3> QED BY <3>1, <3>2 DEF Follows, Dated
  <2>2. CASE UNCHANGED vars
    BY <2>2 DEF vars, requestVars
  <2> QED BY <2>1, <2>2
<1>4. StatusNeverSkips <=> [][Moved]_<<pc, feedbackVars>>
  BY DEF StatusNeverSkips
<1> QED BY <1>1, <1>2, <1>3, <1>4, AccountRowsSound, PTL DEF Spec
-----------------------------------------------------------------------------
(* Profiles. A profile says which request created it: two with the same     *)
(* gamme and the same maker are the same, at two ages.                      *)
Makers == {None} \union {c \in Calls : pc[c] = "done"}
Hands == {None} \union Calls
ProfileRow == [version : Nat, born : Hands, settings : Hands, label : Hands]

(* What a save has opened is still there.                                   *)
StillThere(c) ==
    /\ opened[c] # None /\ Known(Ask[c].gamme)
    /\ profiles[Ask[c].gamme].born = opened[c].born

(* Then it is the one opened, or a later version of it, and a save that is  *)
(* to keep the label has read the one it would write over.                  *)
Faithful(c) ==
    LET now == profiles[Ask[c].gamme] IN
    StillThere(c) =>
        /\ opened[c].version <= now.version
        /\ opened[c].version = now.version => now = opened[c]
        /\ pc[c] \notin {"creating", "overwriting"}
        /\ pc[c] = "writing" /\ Ask[c].keepsLabel /\ now = opened[c] => label[c] = now.label

ProfilesInv ==
    /\ profiles \in [DOMAIN profiles -> ProfileRow]
    /\ opened \in [Calls -> ProfileRow \union {None}]
    /\ label \in [Calls -> Hands]
    /\ \A g \in DOMAIN profiles : profiles[g].born \in Makers
    /\ \A c \in Calls : opened[c] # None => opened[c].born \in Makers
    /\ \A c \in Calls : Ask[c].do = "save" => Faithful(c)

(* What a step may do to a profile: leave it, age it, or create it anew.    *)
Ages(g) ==
    /\ profiles'[g] \in ProfileRow
    /\ \/ g \in DOMAIN profiles /\ profiles'[g] = profiles[g]
       \/ /\ g \in DOMAIN profiles
          /\ profiles'[g].version > profiles[g].version
          /\ profiles'[g].born = profiles[g].born
       \/ g \notin DOMAIN profiles /\ profiles'[g].born \notin Makers

LEMMA MakersStay ==
    ASSUME RowsInv, NEW c \in Calls, UNCHANGED pc \/ Moves(c, Phases)
    PROVE  Makers \subseteq Makers'
BY DEF RowsInv, Makers, Moves

(* The request that moves does not matter to what the others have opened.   *)
LEMMA FaithfulKept ==
    ASSUME RowsInv, ProfilesInv, NEW d \in Calls, Ask[d].do = "save",
           opened'[d] = opened[d], label'[d] = label[d],
           pc'[d] = pc[d] \/ pc'[d] \notin {"creating", "overwriting", "writing"},
           \A g \in DOMAIN profiles' : Ages(g)
    PROVE  Faithful(d)'
<1> DEFINE g == Ask[d].gamme
<1> USE DEF ProfilesInv, Known
<1> SUFFICES ASSUME StillThere(d)'
             PROVE  /\ opened'[d].version <= profiles'[g].version
                    /\ opened'[d].version = profiles'[g].version => profiles'[g] = opened'[d]
                    /\ pc'[d] \notin {"creating", "overwriting"}
                    /\ pc'[d] = "writing" /\ Ask[d].keepsLabel /\ profiles'[g] = opened'[d] =>
                           label'[d] = profiles'[g].label
  BY DEF Faithful
<1>1. /\ g \in DOMAIN profiles' /\ opened[d] # None
      /\ profiles'[g].born = opened[d].born /\ opened[d].born \in Makers
      /\ opened[d] \in ProfileRow
  BY DEF StillThere
<1>2. Ages(g)
  BY <1>1
<1>3. g \in DOMAIN profiles /\ profiles[g].born = opened[d].born
  BY <1>1, <1>2 DEF Ages
<1>4. /\ opened[d].version <= profiles[g].version
      /\ opened[d].version = profiles[g].version => profiles[g] = opened[d]
      /\ pc[d] \notin {"creating", "overwriting"}
      /\ pc[d] = "writing" /\ Ask[d].keepsLabel /\ profiles[g] = opened[d] =>
             label[d] = profiles[g].label
  BY <1>1, <1>3 DEF Faithful, StillThere
<1>5. CASE profiles'[g] = profiles[g]
  BY <1>4, <1>5
<1>6. CASE profiles'[g].version > profiles[g].version
  BY <1>1, <1>2, <1>3, <1>4, <1>6 DEF Ages, ProfileRow
<1> QED BY <1>2, <1>3, <1>5, <1>6 DEF Ages

(* What keeps the other parts of the invariant.                             *)
LEMMA AgesKept ==
    ASSUME RowsInv, ProfilesInv, Makers \subseteq Makers',
           profiles' = [g \in DOMAIN profiles' |-> profiles'[g]],
           \A g \in DOMAIN profiles' : Ages(g),
           \A g \in DOMAIN profiles' \ DOMAIN profiles : profiles'[g].born \in Makers'
    PROVE  /\ profiles' \in [DOMAIN profiles' -> ProfileRow]
           /\ \A g \in DOMAIN profiles' : profiles'[g].born \in Makers'
<1>1. ASSUME NEW g \in DOMAIN profiles'
      PROVE  profiles'[g] \in ProfileRow /\ profiles'[g].born \in Makers'
  <2>1. Ages(g)
    BY <1>1
  <2> QED BY <2>1 DEF Ages, ProfilesInv
<1> QED BY <1>1

(* A step that writes a profile writes one, and only a request on profiles  *)
(* passes through their phases.                                             *)
LEMMA ProfilesUntouched ==
    ASSUME RowsInv, ProfilesInv, NEW c \in Calls, UNCHANGED profileVars,
           \/ UNCHANGED pc
           \/ Moves(c, Phases) /\ (Ask[c].do = "save" =>
                  pc'[c] \notin {"creating", "overwriting", "writing"})
    PROVE  ProfilesInv'
<1>1. UNCHANGED profiles /\ UNCHANGED opened /\ UNCHANGED label
  BY DEF profileVars
<1>2. \A g \in DOMAIN profiles' : Ages(g)
  BY <1>1 DEF Ages, ProfilesInv
<1>3. Makers \subseteq Makers'
  BY MakersStay
<1>4. ASSUME NEW d \in Calls, Ask[d].do = "save" PROVE Faithful(d)'
  <2>1. pc'[d] = pc[d] \/ pc'[d] \notin {"creating", "overwriting", "writing"}
    BY <1>4 DEF Moves, RowsInv
  <2> QED BY <1>1, <1>2, <1>4, <2>1, FaithfulKept
<1> QED BY <1>1, <1>3, <1>4 DEF ProfilesInv

(* A profile written again is one, a version later.                         *)
LEMMA Aged ==
    ASSUME NEW old \in ProfileRow, NEW hand \in Hands, NEW kept \in Hands
    PROVE  LET row == [old EXCEPT !.version = @ + 1, !.settings = hand, !.label = kept]
           IN  row \in ProfileRow /\ row.version > old.version /\ row.born = old.born
<1> DEFINE row == [old EXCEPT !.version = @ + 1, !.settings = hand, !.label = kept]
<1>1. row \in ProfileRow
  <2>1. [old EXCEPT !.version = @ + 1] \in ProfileRow
    BY DEF ProfileRow
  <2>2. \A r \in ProfileRow : [r EXCEPT !.settings = hand, !.label = kept] \in ProfileRow
    BY DEF ProfileRow
  <2>3. row = [[old EXCEPT !.version = @ + 1] EXCEPT !.settings = hand, !.label = kept]
    OBVIOUS
  <2> QED BY <2>1, <2>2, <2>3
<1>2. row.version = old.version + 1 /\ row.born = old.born /\ old.version \in Nat
  BY DEF ProfileRow
<1>3. row.version > old.version
  BY <1>2
<1> QED BY <1>1, <1>2, <1>3

(* A write in the place of a profile.                                       *)
LEMMA PutAges ==
    ASSUME ProfilesInv, NEW g, NEW row \in ProfileRow, Put(g, row),
           g \in DOMAIN profiles =>
               row.version > profiles[g].version /\ row.born = profiles[g].born,
           g \notin DOMAIN profiles => row.born \notin Makers
    PROVE  /\ profiles' = [h \in DOMAIN profiles' |-> profiles'[h]]
           /\ DOMAIN profiles' = DOMAIN profiles \union {g}
           /\ profiles'[g] = row
           /\ \A h \in DOMAIN profiles' : Ages(h)
<1>1. /\ profiles' = [h \in DOMAIN profiles \union {g} |-> IF h = g THEN row ELSE profiles[h]]
      /\ \A h \in DOMAIN profiles : profiles[h] \in ProfileRow
  BY DEF Put, ProfilesInv
<1>2. ASSUME NEW h \in DOMAIN profiles' PROVE Ages(h)
  <2>1. CASE h = g
    BY <1>1, <2>1 DEF Ages
  <2>2. CASE h # g
    BY <1>1, <1>2, <2>2 DEF Ages
  <2> QED BY <2>1, <2>2
<1> QED BY <1>1, <1>2

LEMMA ProfilesStep ==
    ASSUME RowsInv, ProfilesInv, NEW c \in Calls, ProfileStep(c)
    PROVE  ProfilesInv'
<1> DEFINE g == Ask[c].gamme
<1>0. /\ profiles \in [DOMAIN profiles -> ProfileRow]
      /\ opened \in [Calls -> ProfileRow \union {None}]
      /\ label \in [Calls -> Hands]
      /\ pc \in [Calls -> Phases]
  BY DEF ProfilesInv, RowsInv
<1>1. CASE Open(c)
  <2>1. /\ UNCHANGED pc /\ UNCHANGED profiles /\ UNCHANGED label
        /\ g \in DOMAIN profiles /\ opened' = [opened EXCEPT ![c] = profiles[g]]
        /\ pc[c] = "idle"
    BY <1>1 DEF Open, Known, requestVars
  <2>2. \A h \in DOMAIN profiles' : Ages(h)
    BY <1>0, <2>1 DEF Ages
  <2>3. Makers = Makers'
    BY <2>1 DEF Makers
  <2>4. ASSUME NEW d \in Calls, Ask[d].do = "save" PROVE Faithful(d)'
    <3>1. CASE d = c
      <4>1. profiles[g].version \in Nat
        BY <1>0, <2>1 DEF ProfileRow
      <4>2. profiles'[g] = profiles[g] /\ opened'[c] = profiles[g] /\ pc'[c] = "idle"
        BY <1>0, <2>1
      <4> QED BY <3>1, <4>1, <4>2 DEF Faithful
    <3>2. CASE d # c
      BY <1>0, <2>1, <2>2, <2>4, <3>2, FaithfulKept
    <3> QED BY <3>1, <3>2
  <2> QED BY <1>0, <2>1, <2>3, <2>4 DEF ProfilesInv
<1>2. CASE LookVersion(c)
  <2>1. /\ UNCHANGED profileVars /\ Moves(c, Phases)
        /\ pc'[c] = IF Known(g) THEN "updating" ELSE "creating"
    BY <1>0, <1>2 DEF LookVersion, Doing, Goto, Moves, Phases, OtherPhases
  <2>2. UNCHANGED profiles /\ UNCHANGED opened /\ UNCHANGED label
    BY <2>1 DEF profileVars
  <2>3. CASE Known(g)
    BY <2>1, <2>3, ProfilesUntouched
  <2>4. CASE ~Known(g)
    <3>1. \A h \in DOMAIN profiles' : Ages(h)
      BY <1>0, <2>2 DEF Ages
    <3>2. Makers \subseteq Makers'
      BY <2>1, MakersStay
    <3>3. Faithful(c)'
      BY <2>2, <2>4 DEF Faithful, StillThere, Known
    <3>4. \A d \in Calls \ {c} : Ask[d].do = "save" => Faithful(d)'
      BY <1>0, <2>1, <2>2, <3>1, FaithfulKept DEF Moves
    <3> QED BY <2>2, <3>2, <3>3, <3>4 DEF ProfilesInv
  <2> QED BY <2>3, <2>4
<1>3. CASE ReadLabel(c)
  <2>1. /\ UNCHANGED profiles /\ UNCHANGED opened /\ Moves(c, Phases)
        /\ label' = [label EXCEPT ![c] = IF ~Ask[c].keepsLabel \/ ~Known(g) THEN c
                                         ELSE profiles[g].label]
        /\ pc'[c] = "writing"
    BY <1>0, <1>3 DEF ReadLabel, Doing, Goto, Moves, Phases, OtherPhases
  <2>2. \A h \in DOMAIN profiles' : Ages(h)
    BY <1>0, <2>1 DEF Ages
  <2>3. Makers \subseteq Makers'
    BY <2>1, MakersStay
  <2>4. label' \in [Calls -> Hands]
    BY <1>0, <2>1 DEF Hands, Known, ProfileRow
  <2>5. ASSUME Ask[c].do = "save" PROVE Faithful(c)'
    <3>1. Faithful(c)
      BY <2>5 DEF ProfilesInv
    <3>2. Ask[c].keepsLabel /\ Known(g) => label'[c] = profiles[g].label
      BY <1>0, <2>1
    <3> QED BY <2>1, <3>1, <3>2 DEF Faithful, StillThere, Known
  <2>6. \A d \in Calls \ {c} : Ask[d].do = "save" => Faithful(d)'
    BY <1>0, <2>1, <2>2, FaithfulKept DEF Moves
  <2> QED BY <2>1, <2>3, <2>4, <2>5, <2>6 DEF ProfilesInv
<1>4. CASE Create(c)
  <2>1. /\ UNCHANGED opened /\ UNCHANGED label /\ Moves(c, Phases)
        /\ pc[c] = "creating"
        /\ pc'[c] \in {"overwriting", "done"}
        /\ IF Known(g) THEN UNCHANGED profiles ELSE Put(g, New(c)) /\ pc'[c] = "done"
    BY <1>0, <1>4 DEF Create, Doing, Goto, Moves, Phases, OtherPhases
  <2>2. Makers \subseteq Makers'
    BY <2>1, MakersStay
  <2>3. New(c) \in ProfileRow /\ New(c).born = c
    BY DEF New, ProfileRow, Hands
  <2>4. c \notin Makers /\ (pc'[c] = "done" => c \in Makers')
    BY <2>1, RequestsAssumption DEF Makers
  <2>5. /\ profiles' = [h \in DOMAIN profiles' |-> profiles'[h]]
        /\ \A h \in DOMAIN profiles' : Ages(h)
        /\ \A h \in DOMAIN profiles' \ DOMAIN profiles : profiles'[h].born \in Makers'
    <3>1. CASE Known(g)
      BY <1>0, <2>1, <3>1 DEF Ages
    <3>2. CASE ~Known(g)
      <4>1. Put(g, New(c)) /\ pc'[c] = "done" /\ g \notin DOMAIN profiles
        BY <2>1, <3>2 DEF Known
      <4>2. /\ profiles' = [h \in DOMAIN profiles' |-> profiles'[h]]
            /\ DOMAIN profiles' = DOMAIN profiles \union {g}
            /\ profiles'[g] = New(c)
            /\ \A h \in DOMAIN profiles' : Ages(h)
        BY <2>3, <2>4, <4>1, PutAges
      <4> QED BY <2>3, <2>4, <4>1, <4>2
    <3> QED BY <3>1, <3>2
  <2>6. /\ profiles' \in [DOMAIN profiles' -> ProfileRow]
        /\ \A h \in DOMAIN profiles' : profiles'[h].born \in Makers'
    BY <2>2, <2>5, AgesKept
  <2>7. ASSUME Ask[c].do = "save" PROVE Faithful(c)'
    <3>1. Faithful(c)
      BY <2>7 DEF ProfilesInv
    <3>2. CASE Known(g)
      BY <2>1, <3>1, <3>2 DEF Faithful, StillThere, Known
    <3>3. CASE ~Known(g)
      BY <2>1, <2>5, <2>7, <3>3, FaithfulKept
    <3> QED BY <3>2, <3>3
  <2>8. \A d \in Calls \ {c} : Ask[d].do = "save" => Faithful(d)'
    BY <1>0, <2>1, <2>5, FaithfulKept DEF Moves
  <2> QED BY <2>1, <2>2, <2>6, <2>7, <2>8 DEF ProfilesInv
<1>5. CASE Overwrite(c) \/ Update(c)
  <2>1. PICK kept \in Hands :
            /\ UNCHANGED opened /\ UNCHANGED label /\ Moves(c, Phases)
            /\ pc'[c] = "done"
            /\ \/ g \in DOMAIN profiles
                  /\ Put(g, [profiles[g] EXCEPT !.version = @ + 1, !.settings = c, !.label = kept])
               \/ UNCHANGED profiles
    <3>1. CASE Overwrite(c)
      BY <1>0, <3>1 DEF Overwrite, Doing, Goto, Moves, Phases, OtherPhases, Known, Hands
    <3>2. CASE Update(c)
      BY <1>0, <3>2 DEF Update, Doing, Goto, Moves, Phases, OtherPhases, Known
    <3> QED BY <1>5, <3>1, <3>2
  <2>2. Makers \subseteq Makers'
    BY <2>1, MakersStay
  <2>3. /\ profiles' = [h \in DOMAIN profiles' |-> profiles'[h]]
        /\ DOMAIN profiles' = DOMAIN profiles
        /\ \A h \in DOMAIN profiles' : Ages(h)
    <3>1. CASE UNCHANGED profiles
      BY <1>0, <3>1 DEF Ages
    <3>2. CASE ~UNCHANGED profiles
      <4> DEFINE row == [profiles[g] EXCEPT !.version = @ + 1, !.settings = c, !.label = kept]
      <4>1. g \in DOMAIN profiles /\ Put(g, row)
        BY <2>1, <3>2
      <4>2. /\ row \in ProfileRow /\ row.version > profiles[g].version
            /\ row.born = profiles[g].born
        <5>1. profiles[g] \in ProfileRow /\ c \in Hands
          BY <1>0, <4>1 DEF Hands
        <5> QED BY <5>1, Aged
      <4> HIDE DEF row
      <4> QED BY <4>1, <4>2, PutAges
    <3> QED BY <3>1, <3>2
  <2>4. /\ profiles' \in [DOMAIN profiles' -> ProfileRow]
        /\ \A h \in DOMAIN profiles' : profiles'[h].born \in Makers'
    BY <2>2, <2>3, AgesKept
  <2>5. \A d \in Calls : Ask[d].do = "save" => Faithful(d)'
    BY <1>0, <2>1, <2>3, FaithfulKept DEF Moves
  <2> QED BY <2>1, <2>2, <2>4, <2>5 DEF ProfilesInv
<1>6. CASE DeleteProfile(c)
  <2>1. /\ UNCHANGED opened /\ UNCHANGED label /\ Moves(c, Phases)
        /\ pc'[c] = "done"
        /\ profiles' = [h \in DOMAIN profiles \ {g} |-> profiles[h]]
    BY <1>0, <1>6 DEF DeleteProfile, Doing, Goto, Moves, Phases, OtherPhases
  <2>2. Makers \subseteq Makers'
    BY <2>1, MakersStay
  <2>3. /\ profiles' = [h \in DOMAIN profiles' |-> profiles'[h]]
        /\ DOMAIN profiles' \subseteq DOMAIN profiles
        /\ \A h \in DOMAIN profiles' : Ages(h)
    BY <1>0, <2>1 DEF Ages
  <2>4. /\ profiles' \in [DOMAIN profiles' -> ProfileRow]
        /\ \A h \in DOMAIN profiles' : profiles'[h].born \in Makers'
    BY <2>2, <2>3, AgesKept
  <2>5. \A d \in Calls : Ask[d].do = "save" => Faithful(d)'
    BY <1>0, <2>1, <2>3, FaithfulKept DEF Moves
  <2> QED BY <2>1, <2>2, <2>4, <2>5 DEF ProfilesInv
<1> QED BY <1>1, <1>2, <1>3, <1>4, <1>5, <1>6 DEF ProfileStep

LEMMA ProfilesKept ==
    ASSUME RowsInv, ProfilesInv, NEW c \in Calls, Step(c)
    PROVE  ProfilesInv'
<1>1. CASE ProfileStep(c)
  BY <1>1, ProfilesStep
<1>2. CASE ~ProfileStep(c)
  <2>1. UNCHANGED profileVars
    BY <1>2 DEF Step, RemoveAccount
  <2>2. UNCHANGED pc \/ Moves(c, Phases)
    BY Stepping
  <2>3. Ask[c].do = "save" =>
            UNCHANGED pc \/ pc'[c] \notin {"creating", "overwriting", "writing"}
    BY <1>2, AccountsApart, MessagesApart, FeedbackApart
       DEF Step, RemoveAccount, OnAccounts, Entering, Moves, MessageDies, Dies
  <2> QED BY <2>1, <2>2, <2>3, ProfilesUntouched
<1> QED BY <1>1, <1>2

(* A save that writes over what it has opened writes over that very version.*)
LEMMA SavesStep ==
    ASSUME RowsInv, ProfilesInv, NEW c \in Calls, Step(c),
           NEW d \in Calls, pc'[d] # pc[d], profiles' # profiles,
           Ask[d].do = "save", StillThere(d)
    PROVE  /\ profiles[Ask[d].gamme] = opened[d]
           /\ Ask[d].keepsLabel => profiles'[Ask[d].gamme].label = profiles[Ask[d].gamme].label
<1> DEFINE g == Ask[d].gamme
<1>1. d = c
  BY Opening
<1>2. ProfileStep(c)
  BY DEF Step, RemoveAccount, profileVars
<1>3. Faithful(c) /\ g \in DOMAIN profiles
  BY <1>1 DEF ProfilesInv, StillThere, Known
<1>4. Update(c)
  <2>1. ~Open(c)
    BY <1>1 DEF Open, requestVars
  <2>2. ~LookVersion(c) /\ ~ReadLabel(c)
    BY DEF LookVersion, ReadLabel, profileVars
  <2>3. ~DeleteProfile(c)
    BY <1>1 DEF DeleteProfile, Doing
  <2>4. ~Create(c) /\ ~Overwrite(c)
    BY <1>1, <1>3 DEF Create, Overwrite, Doing, Faithful, StillThere
  <2> QED BY <1>2, <2>1, <2>2, <2>3, <2>4 DEF ProfileStep
<1>5. /\ profiles[g].version = opened[c].version /\ pc[c] = "writing"
      /\ Put(g, [profiles[g] EXCEPT !.version = @ + 1, !.settings = c, !.label = label[c]])
  BY <1>1, <1>4 DEF Update, Doing, StillThere
<1>6. profiles[g] = opened[c] /\ (Ask[c].keepsLabel => label[c] = profiles[g].label)
  BY <1>1, <1>3, <1>5 DEF Faithful
<1>7. profiles'[g].label = label[c]
  <2>1. profiles[g] \in ProfileRow
    BY <1>3 DEF ProfilesInv
  <2> QED BY <1>5, <2>1 DEF Put, ProfileRow
<1> QED BY <1>1, <1>6, <1>7

(* "L'ecriture est refusee (409) si le profil a change"                     *)
(* (profile.schema.ts:83).                                                  *)
THEOREM SavesHold == Spec => SavesOverwriteWhatTheyRead
<1>1. Init => ProfilesInv
  <2> SUFFICES ASSUME Init PROVE ProfilesInv
    OBVIOUS
  <2>1. /\ profiles = [g \in Gammes |-> New(None)]
        /\ opened = [c \in Calls |-> None]
        /\ label = [c \in Calls |-> None]
    BY DEF Init, ProfilesInit
  <2>2. New(None) \in ProfileRow /\ New(None).born \in Makers
    BY DEF New, ProfileRow, Hands, Makers
  <2> QED BY <2>1, <2>2 DEF ProfilesInv, Faithful, StillThere, Hands
<1>2. RowsInv /\ ProfilesInv /\ [Next]_vars => ProfilesInv'
  <2> SUFFICES ASSUME RowsInv, ProfilesInv, [Next]_vars PROVE ProfilesInv'
    OBVIOUS
  <2>1. CASE Next
    BY <2>1, ProfilesKept DEF Next, RowsInv
  <2>2. CASE UNCHANGED vars
    BY <2>2 DEF vars, requestVars, profileVars, ProfilesInv, Faithful, StillThere, Known, Makers
  <2> QED BY <2>1, <2>2
<1> DEFINE Saved == \A c \in Calls : LET g == Ask[c].gamme IN
        /\ pc'[c] # pc[c] /\ profiles' # profiles
        /\ Ask[c].do = "save" /\ opened[c] # None /\ Known(g)
        /\ profiles[g].born = opened[c].born
        => /\ profiles[g] = opened[c]
           /\ Ask[c].keepsLabel => profiles'[g].label = profiles[g].label
<1>3. RowsInv /\ ProfilesInv /\ [Next]_vars => [Saved]_<<pc, profileVars>>
  <2> SUFFICES ASSUME RowsInv, ProfilesInv, [Next]_vars PROVE [Saved]_<<pc, profileVars>>
    OBVIOUS
  <2>1. CASE Next
    BY <2>1, SavesStep DEF Next, RowsInv, StillThere
  <2>2. CASE UNCHANGED vars
    BY <2>2 DEF vars, requestVars
  <2> QED BY <2>1, <2>2
<1>4. SavesOverwriteWhatTheyRead <=> [][Saved]_<<pc, profileVars>>
  BY DEF SavesOverwriteWhatTheyRead
<1> QED BY <1>1, <1>2, <1>3, <1>4, AccountRowsSound, PTL DEF Spec
-----------------------------------------------------------------------------
(* Messages and their files.                                                *)
Flags == BOOLEAN \union {Ask[c].on : c \in {d \in Calls : Ask[d].do = "archive"}}
CopyRow == [message : Calls, user : Ids, read : BOOLEAN, archived : Flags]
HasCopy(m, u) == \E k \in copies : k.message = m /\ k.user = u
Sends == {c \in Calls : Ask[c].do = "send"}
UnderWay(c) == c \in Sends /\ pc[c] \in {"storing", "writing", "cleaning"}

RowsOfMessages ==
    /\ copies \subseteq CopyRow
    /\ audience = [c \in Calls |-> audience[c]]
    /\ \A m \in messages : m \in Sends /\ pc[m] \in {"written", "cleaning", "done"}
    /\ \A k \in copies : k.message \in messages
    /\ \A m \in messages : audience[m] \subseteq Issued
    /\ \A m \in messages : \A u : HasCopy(m, u) <=> u \in audience[m] \intersect DOMAIN users

(* A file whose write has not ended belongs to no message that is written,  *)
(* and a send has one at most.                                              *)
CutFiles ==
    /\ \A c \in Sends : c \in messages \/ pc[c] = "writing" => Ask[c].files \intersect cut = {}
    /\ \A c \in Sends : \A f, g \in Ask[c].files \intersect cut : f = g

FilesOfMessages ==
    /\ \A f \in pieces : \E m \in messages : f \in Ask[m].files
    /\ \A m \in messages : Ask[m].files \subseteq pieces
    /\ pieces \subseteq files \union lost
    /\ \A f \in files \ pieces :
           f \in lost \union cut \/ \E c \in Calls : UnderWay(c) /\ f \in Ask[c].files
    /\ \A c \in Sends : pc[c] = "writing" => Ask[c].files \subseteq files
    /\ \A c \in Sends : pc[c] = "cleaning" /\ c \in messages => Ask[c].files \subseteq lost
    /\ CutFiles

MessagesInv == RowsOfMessages /\ FilesOfMessages

(* Accounts come with a new id, or stay; or one goes.                       *)
LEMMA AccountsMove ==
    ASSUME RowsInv, NEW c \in Calls, Step(c)
    PROVE  \/ DeleteAccount(c)
           \/ DOMAIN users \subseteq DOMAIN users' /\ DOMAIN users' \intersect Issued \subseteq DOMAIN users
<1> USE DEF RowsInv
<1>1. CASE InsertAccount(c)
  <2>1. c \notin Issued
    BY <1>1, AccountsAssumption DEF InsertAccount, Doing, Issued
  <2> QED BY <1>1, <2>1 DEF InsertAccount
<1>2. CASE UpdateAccount(c) \/ WritePassword(c) \/ BumpVersion(c) \/ RecordFailure(c)
           \/ ResetFailures(c)
  BY <1>2 DEF UpdateAccount, WritePassword, BumpVersion, RecordFailure, ResetFailures, Write
<1> QED BY <1>1, <1>2, UsersWriters

(* The rows of messages when no message is written.                         *)
LEMMA RowsOfMessagesKept ==
    ASSUME RowsInv, RowsOfMessages, NEW c \in Calls, Step(c),
           UNCHANGED messages, \A m \in messages : audience'[m] = audience[m],
           audience' = [d \in Calls |-> audience'[d]],
           copies' \subseteq CopyRow,
           \A k \in copies' : k.message \in messages,
           ~DeleteAccount(c) => \A m, u : HasCopy(m, u)' <=> HasCopy(m, u),
           DeleteAccount(c) => \A m, u : HasCopy(m, u)' <=> HasCopy(m, u) /\ u # Ask[c].target,
           c \in messages => pc'[c] \in {"written", "cleaning", "done"}
    PROVE  RowsOfMessages'
<1>1. Issued \subseteq Issued'
  BY Stepping, StaysIssued DEF Issued
<1>2. \A m \in messages' : m \in Sends /\ pc'[m] \in {"written", "cleaning", "done"}
  BY Opening DEF RowsOfMessages, Sends
<1>3. ASSUME NEW m \in messages', NEW u
      PROVE  HasCopy(m, u)' <=> u \in audience'[m] \intersect DOMAIN users'
  <2>1. /\ audience'[m] = audience[m] /\ audience[m] \subseteq Issued
        /\ HasCopy(m, u) <=> u \in audience[m] \intersect DOMAIN users
    BY DEF RowsOfMessages
  <2>2. CASE DeleteAccount(c)
    <3>1. DOMAIN users' = DOMAIN users \ {Ask[c].target}
      BY <2>2 DEF DeleteAccount
    <3> QED BY <2>1, <2>2, <3>1
  <2>3. CASE ~DeleteAccount(c)
    BY <2>1, <2>3, AccountsMove
  <2> QED BY <2>2, <2>3
<1> QED BY <1>1, <1>2, <1>3 DEF RowsOfMessages

(* The files when neither they nor their rows change.                       *)
LEMMA FilesOfMessagesKept ==
    ASSUME RowsInv, FilesOfMessages, NEW c \in Calls, Step(c),
           UNCHANGED <<messages, pieces, files, cut, lost>>,
           \A d \in Calls : UnderWay(d) => UnderWay(d)',
           c \in Sends /\ pc'[c] = "writing" =>
               Ask[c].files \subseteq files /\ Ask[c].files \intersect cut = {},
           c \in Sends /\ pc'[c] = "cleaning" => pc[c] = "cleaning" \/ c \notin messages
    PROVE  FilesOfMessages'
<1>1. \A d \in Calls \ {c} : pc'[d] = pc[d]
  BY Opening
<1>2. \A d \in Sends : pc'[d] = "writing" => Ask[d].files \subseteq files
  BY <1>1 DEF FilesOfMessages, Sends
<1>3. \A d \in Sends : pc'[d] = "cleaning" /\ d \in messages => Ask[d].files \subseteq lost
  BY <1>1 DEF FilesOfMessages, Sends
<1>4. CutFiles'
  BY <1>1 DEF FilesOfMessages, CutFiles, Sends
<1> QED BY <1>2, <1>3, <1>4 DEF FilesOfMessages

(* A step that is not about messages.                                       *)
LEMMA MessagesUntouched ==
    ASSUME RowsInv, MessagesInv, NEW c \in Calls, Step(c), ~DeleteAccount(c),
           UNCHANGED messageVars,
           c \notin Sends \/ UNCHANGED pc \/ Entering(c)
    PROVE  MessagesInv'
<1>1. UNCHANGED <<messages, copies, pieces, files, cut, audience, lost>>
  BY DEF messageVars
<1>2. RowsOfMessages'
  BY <1>1, RowsOfMessagesKept DEF MessagesInv, RowsOfMessages, HasCopy, Sends, Entering
<1>3. \A d \in Calls : UnderWay(d) => UnderWay(d)'
  BY Opening DEF UnderWay, Entering
<1>4. FilesOfMessages'
  BY <1>1, <1>3, FilesOfMessagesKept DEF MessagesInv, FilesOfMessages, CutFiles, Entering, Moves
<1> QED BY <1>2, <1>4 DEF MessagesInv

(* The removal of an account empties its mailbox.                           *)
LEMMA MailboxEmptied ==
    ASSUME RowsInv, MessagesInv, NEW c \in Calls, Step(c), DeleteAccount(c),
           EmptyMailbox(Ask[c].target)
    PROVE  MessagesInv'
<1>1. /\ copies' = {k \in copies : k.user # Ask[c].target}
      /\ UNCHANGED <<messages, pieces, files, cut, audience, lost>>
  BY DEF EmptyMailbox
<1>2. c \notin Sends
  BY DEF DeleteAccount, Doing, Sends
<1>3. \A m, u : HasCopy(m, u)' <=> HasCopy(m, u) /\ u # Ask[c].target
  BY <1>1 DEF HasCopy
<1>4. RowsOfMessages'
  BY <1>1, <1>2, <1>3, RowsOfMessagesKept DEF MessagesInv, RowsOfMessages
<1>5. \A d \in Calls : UnderWay(d) => UnderWay(d)'
  BY <1>2, Opening DEF UnderWay
<1>6. FilesOfMessages'
  BY <1>1, <1>2, <1>5, FilesOfMessagesKept DEF MessagesInv
<1> QED BY <1>4, <1>6 DEF MessagesInv

(* A reading, an archiving: the copies stay those of the same mailboxes.    *)
LEMMA CopiesMarked ==
    ASSUME RowsOfMessages, NEW which, UNCHANGED messages,
           \/ copies' = ReadCopies(which)
           \/ \E flag \in Flags :
                  copies' = (copies \ which) \union
                            {[k EXCEPT !.archived = flag] : k \in which \intersect copies}
    PROVE  /\ copies' \subseteq CopyRow
           /\ \A k \in copies' : k.message \in messages
           /\ \A m, u : HasCopy(m, u)' <=> HasCopy(m, u)
<1>1. CASE copies' = ReadCopies(which)
  <2> DEFINE marked(k) == IF k \in which THEN [k EXCEPT !.read = TRUE] ELSE k
  <2>1. \A k \in CopyRow :
            marked(k) \in CopyRow /\ marked(k).message = k.message /\ marked(k).user = k.user
    BY DEF CopyRow
  <2>2. copies' = {marked(k) : k \in copies}
    BY <1>1 DEF ReadCopies
  <2> HIDE DEF marked
  <2> QED BY <2>1, <2>2 DEF RowsOfMessages, HasCopy
<1>2. CASE \E flag \in Flags :
               copies' = (copies \ which) \union
                         {[k EXCEPT !.archived = flag] : k \in which \intersect copies}
  <2>1. PICK flag \in Flags :
               copies' = (copies \ which) \union
                         {[k EXCEPT !.archived = flag] : k \in which \intersect copies}
    BY <1>2
  <2> DEFINE marked(k) == [k EXCEPT !.archived = flag]
  <2>2. \A k \in CopyRow :
            marked(k) \in CopyRow /\ marked(k).message = k.message /\ marked(k).user = k.user
    BY DEF CopyRow
  <2>3. copies' = (copies \ which) \union {marked(k) : k \in which \intersect copies}
    BY <2>1
  <2> HIDE DEF marked
  <2> QED BY <2>2, <2>3 DEF RowsOfMessages, HasCopy
<1> QED BY <1>1, <1>2

(* A step that only marks copies, or none.                                  *)
LEMMA MessagesMarked ==
    ASSUME RowsInv, MessagesInv, NEW c \in Calls, Step(c), ~DeleteAccount(c),
           UNCHANGED <<messages, pieces, files, cut, audience, lost>>,
           copies' \subseteq CopyRow, \A k \in copies' : k.message \in messages,
           \A m, u : HasCopy(m, u)' <=> HasCopy(m, u),
           c \in Sends => pc[c] \notin {"storing", "writing", "cleaning"} /\ pc'[c] = "done"
    PROVE  MessagesInv'
<1>1. RowsOfMessages'
  BY RowsOfMessagesKept DEF MessagesInv, RowsOfMessages
<1>2. \A d \in Calls : UnderWay(d) => UnderWay(d)'
  BY Opening DEF UnderWay
<1>3. FilesOfMessages'
  BY <1>2, FilesOfMessagesKept DEF MessagesInv
<1> QED BY <1>1, <1>3 DEF MessagesInv

(* A transaction that commits.                                              *)
LEMMA MessageInserted ==
    ASSUME RowsInv, MessagesInv, NEW c \in Sends, InsertMessage(c), pc[c] = "writing",
           pc' = [pc EXCEPT ![c] = pc'[c]],
           UNCHANGED <<files, cut, audience, users>>,
           \/ pc'[c] = "written" /\ UNCHANGED lost
           \/ pc'[c] = "cleaning" /\ lost' = lost \union Ask[c].files
    PROVE  MessagesInv'
<1> DEFINE new == [message : {c}, user : audience[c], read : {FALSE}, archived : {FALSE}]
<1>1. /\ audience[c] \subseteq DOMAIN users
      /\ messages' = messages \union {c}
      /\ copies' = copies \union new
      /\ pieces' = pieces \union Ask[c].files
  BY DEF InsertMessage
<1>2. c \in Calls /\ c \notin messages /\ DOMAIN users \subseteq Issued /\ Issued \subseteq Ids
  BY DEF MessagesInv, RowsOfMessages, RowsInv, Sends, Issued, Ids
<1>3. new \subseteq CopyRow
  BY <1>1, <1>2 DEF CopyRow, Flags
<1>4. /\ \A k \in new : k.message = c /\ k.user \in audience[c]
      /\ \A u \in audience[c] : \E k \in new : k.message = c /\ k.user = u
  <2>1. \A u \in audience[c] :
            [message |-> c, user |-> u, read |-> FALSE, archived |-> FALSE] \in new
    OBVIOUS
  <2> QED BY <2>1
<1> HIDE DEF new
<1>5. pc \in [Calls -> Phases] /\ Issued \subseteq Issued'
  BY DEF RowsInv, Issued
<1>6. \A m \in messages : \A u : HasCopy(m, u)' <=> HasCopy(m, u)
  BY <1>1, <1>2, <1>4 DEF HasCopy
<1>7. \A u : HasCopy(c, u)' <=> u \in audience[c]
  BY <1>1, <1>2, <1>4 DEF HasCopy, MessagesInv, RowsOfMessages
<1>8. RowsOfMessages'
  <2>1. \A m \in messages' : m \in Sends /\ pc'[m] \in {"written", "cleaning", "done"}
    BY <1>1, <1>5 DEF MessagesInv, RowsOfMessages, Sends
  <2>2. copies' \subseteq CopyRow /\ \A k \in copies' : k.message \in messages'
    BY <1>1, <1>3, <1>4 DEF MessagesInv, RowsOfMessages
  <2>3. \A m \in messages' : audience'[m] \subseteq Issued'
    BY <1>1, <1>2, <1>5 DEF MessagesInv, RowsOfMessages
  <2>4. \A m \in messages' : \A u : HasCopy(m, u)' <=> u \in audience'[m] \intersect DOMAIN users'
    BY <1>1, <1>6, <1>7 DEF MessagesInv, RowsOfMessages
  <2> QED BY <2>1, <2>2, <2>3, <2>4 DEF MessagesInv, RowsOfMessages
<1>9. FilesOfMessages'
  <2>1. Ask[c].files \subseteq files
    BY DEF MessagesInv, FilesOfMessages
  <2>2. \A d \in Calls \ {c} : pc'[d] = pc[d]
    BY <1>5
  <2>3. ASSUME NEW f \in files' \ pieces'
        PROVE  f \in (lost \union cut)' \/ \E d \in Calls : UnderWay(d)' /\ f \in Ask[d].files
    <3>1. f \in files \ pieces /\ f \notin Ask[c].files
      BY <1>1
    <3>2. CASE f \in lost \union cut
      BY <3>2
    <3>3. CASE \E d \in Calls : UnderWay(d) /\ f \in Ask[d].files
      <4>1. PICK d \in Calls : UnderWay(d) /\ f \in Ask[d].files
        BY <3>3
      <4>2. UnderWay(d)'
        BY <2>2, <3>1, <4>1 DEF UnderWay
      <4> QED BY <4>1, <4>2
    <3> QED BY <3>1, <3>2, <3>3 DEF MessagesInv, FilesOfMessages
  <2>4. pieces' \subseteq files' \union lost'
    BY <1>1, <2>1 DEF MessagesInv, FilesOfMessages
  <2>5. /\ \A f \in pieces' : \E m \in messages' : f \in Ask[m].files
        /\ \A m \in messages' : Ask[m].files \subseteq pieces'
    BY <1>1 DEF MessagesInv, FilesOfMessages
  <2>6. \A d \in Sends : pc'[d] = "writing" => Ask[d].files \subseteq files'
    BY <2>2 DEF MessagesInv, FilesOfMessages, Sends
  <2>7. \A d \in Sends : pc'[d] = "cleaning" /\ d \in messages' => Ask[d].files \subseteq lost'
    BY <1>1, <2>2 DEF MessagesInv, FilesOfMessages, Sends
  <2>8. CutFiles'
    BY <1>1, <2>2 DEF MessagesInv, FilesOfMessages, CutFiles, Sends
  <2> QED BY <2>3, <2>4, <2>5, <2>6, <2>7, <2>8 DEF FilesOfMessages
<1> QED BY <1>8, <1>9 DEF MessagesInv

LEMMA MessagesStep ==
    ASSUME RowsInv, MessagesInv, NEW c \in Calls, Step(c), MessageStep(c), UNCHANGED accountVars
    PROVE  MessagesInv'
<1>0. UNCHANGED users /\ ~DeleteAccount(c) /\ pc \in [Calls -> Phases]
  BY MessagesApart DEF DeleteAccount, Doing, RowsInv, accountVars, tables
<1>1. CASE ResolveAudience(c)
  <2>1. /\ UNCHANGED <<messages, copies, pieces, files, cut, lost>>
        /\ \E a : audience' = [audience EXCEPT ![c] = a]
        /\ pc[c] = "allowed" /\ c \in Sends
        /\ pc'[c] \in {"writing", "storing"} /\ (pc'[c] = "writing" => Ask[c].files = {})
    BY <1>0, <1>1 DEF ResolveAudience, Doing, Goto, Sends
  <2>2. c \notin messages
    BY <2>1 DEF MessagesInv, RowsOfMessages
  <2>3. \A m \in messages : audience'[m] = audience[m]
    BY <2>1, <2>2 DEF MessagesInv, RowsOfMessages
  <2>4. audience' = [d \in Calls |-> audience'[d]]
    BY <2>1 DEF MessagesInv, RowsOfMessages
  <2>5. RowsOfMessages'
    BY <1>0, <2>1, <2>2, <2>3, <2>4, RowsOfMessagesKept DEF MessagesInv, RowsOfMessages, HasCopy
  <2>6. \A d \in Calls : UnderWay(d) => UnderWay(d)'
    BY <2>1, Opening DEF UnderWay
  <2>7. FilesOfMessages'
    BY <2>1, <2>6, FilesOfMessagesKept DEF MessagesInv
  <2> QED BY <2>5, <2>7 DEF MessagesInv
<1>2. CASE StoreFile(c)
  <2>1. PICK f \in Ask[c].files \ files :
            /\ files' = files \union {f} /\ cut' = cut \union {f}
            /\ UNCHANGED <<messages, copies, pieces, audience, lost>>
            /\ pc[c] = "storing" /\ c \in Sends
            /\ pc'[c] = "storing" /\ Ask[c].files \intersect cut = {}
    BY <1>0, <1>2 DEF StoreFile, Doing, Goto, Sends
  <2>2. c \notin messages
    BY <2>1 DEF MessagesInv, RowsOfMessages
  <2>3. RowsOfMessages'
    <3>1. \A m, u : HasCopy(m, u)' <=> HasCopy(m, u)
      BY <2>1 DEF HasCopy
    <3> QED BY <1>0, <2>1, <2>2, <3>1, RowsOfMessagesKept DEF MessagesInv, RowsOfMessages
  <2>4. \A d \in Calls : UnderWay(d) => UnderWay(d)'
    BY <2>1, Opening DEF UnderWay
  <2>5. UnderWay(c)' /\ f \in Ask[c].files
    BY <2>1 DEF UnderWay
  <2>6. \A d \in Calls \ {c} : pc'[d] = pc[d]
    BY Opening
  <2>7. \A g \in files' \ pieces' : g \in (lost \union cut)' \/ \E d \in Calls : UnderWay(d)' /\ g \in Ask[d].files
    BY <2>1, <2>4, <2>5 DEF MessagesInv, FilesOfMessages
  <2>8. \A d \in Sends : pc'[d] = "writing" => Ask[d].files \subseteq files'
    BY <2>1, <2>6 DEF MessagesInv, FilesOfMessages, Sends
  <2>9. \A d \in Sends : pc'[d] = "cleaning" /\ d \in messages' => Ask[d].files \subseteq lost'
    BY <2>1, <2>2, <2>6 DEF MessagesInv, FilesOfMessages, Sends
  <2>11. \A d \in Sends \ {c} : f \notin Ask[d].files
    BY <2>1, MessagesAssumption DEF Sends
  <2>12. CutFiles'
    BY <2>1, <2>2, <2>6, <2>11 DEF MessagesInv, FilesOfMessages, CutFiles, Sends
  <2>10. FilesOfMessages'
    BY <2>1, <2>7, <2>8, <2>9, <2>12 DEF MessagesInv, FilesOfMessages
  <2> QED BY <2>3, <2>10 DEF MessagesInv
<1>10. CASE FileStored(c)
  <2>1. /\ cut' = cut \ Ask[c].files
        /\ UNCHANGED <<messages, copies, pieces, files, audience, lost>>
        /\ pc[c] = "storing" /\ c \in Sends
        /\ pc'[c] = IF Ask[c].files \subseteq files THEN "writing" ELSE "storing"
    BY <1>0, <1>10 DEF FileStored, Doing, Goto, Sends
  <2>2. c \notin messages
    BY <2>1 DEF MessagesInv, RowsOfMessages
  <2>3. RowsOfMessages'
    <3>1. \A m, u : HasCopy(m, u)' <=> HasCopy(m, u)
      BY <2>1 DEF HasCopy
    <3> QED BY <1>0, <2>1, <2>2, <3>1, RowsOfMessagesKept DEF MessagesInv, RowsOfMessages
  <2>4. (\A d \in Calls : UnderWay(d) => UnderWay(d)') /\ UnderWay(c)'
    BY <2>1, Opening DEF UnderWay
  <2>5. \A d \in Calls \ {c} : pc'[d] = pc[d]
    BY Opening
  <2>6. \A g \in files' \ pieces' :
            g \in (lost \union cut)' \/ \E d \in Calls : UnderWay(d)' /\ g \in Ask[d].files
    BY <2>1, <2>4 DEF MessagesInv, FilesOfMessages
  <2>7. \A d \in Sends : pc'[d] = "writing" => Ask[d].files \subseteq files'
    BY <2>1, <2>5 DEF MessagesInv, FilesOfMessages, Sends
  <2>8. \A d \in Sends : pc'[d] = "cleaning" /\ d \in messages' => Ask[d].files \subseteq lost'
    BY <2>1, <2>2, <2>5 DEF MessagesInv, FilesOfMessages, Sends
  <2>9. CutFiles'
    BY <2>1, <2>2, <2>5 DEF MessagesInv, FilesOfMessages, CutFiles, Sends
  <2>10. FilesOfMessages'
    BY <2>1, <2>6, <2>7, <2>8, <2>9 DEF MessagesInv, FilesOfMessages
  <2> QED BY <2>3, <2>10 DEF MessagesInv
<1>3. CASE WriteMessage(c)
  BY <1>0, <1>3, MessageInserted DEF WriteMessage, Doing, Goto, Sends
<1>4. CASE SendFails(c)
  <2>1. CASE InsertMessage(c) /\ pc[c] = "writing" /\ lost' = lost \union Ask[c].files
    BY <1>0, <1>4, <2>1, MessageInserted DEF SendFails, Doing, Goto, Sends
  <2>2. CASE UNCHANGED <<messages, copies, pieces, lost>>
    <3>1. /\ c \in Sends /\ pc[c] \in {"storing", "writing"} /\ pc'[c] = "cleaning"
          /\ UNCHANGED <<files, cut, audience>>
      BY <1>0, <1>4 DEF SendFails, Doing, Goto, Sends
    <3>2. c \notin messages
      BY <3>1 DEF MessagesInv, RowsOfMessages
    <3>3. RowsOfMessages'
      <4>1. \A m, u : HasCopy(m, u)' <=> HasCopy(m, u)
        BY <2>2 DEF HasCopy
      <4> QED BY <1>0, <2>2, <3>1, <3>2, <4>1, RowsOfMessagesKept DEF MessagesInv, RowsOfMessages
    <3>4. \A d \in Calls : UnderWay(d) => UnderWay(d)'
      BY <3>1, Opening DEF UnderWay
    <3>5. FilesOfMessages'
      BY <2>2, <3>1, <3>2, <3>4, FilesOfMessagesKept DEF MessagesInv
    <3> QED BY <3>3, <3>5 DEF MessagesInv
  <2> QED BY <1>4, <2>1, <2>2 DEF SendFails
<1>5. CASE TakeBack(c)
  <2> DEFINE stored == (Ask[c].files \intersect files) \ cut
  <2>1. PICK stuck \in SUBSET stored :
            /\ files' = (files \ stored) \union stuck
            /\ lost' = lost \union stuck
            /\ UNCHANGED <<messages, copies, pieces, cut, audience>>
            /\ pc[c] = "cleaning" /\ pc'[c] = "done" /\ c \in Sends
    BY <1>0, <1>5 DEF TakeBack, Doing, Goto, Sends
  <2>2. RowsOfMessages'
    BY <1>0, <2>1, RowsOfMessagesKept DEF MessagesInv, RowsOfMessages, HasCopy
  <2>3. \A d \in Calls \ {c} : pc'[d] = pc[d]
    BY Opening
  <2>4. \A d \in Sends \ {c} : Ask[d].files \intersect Ask[c].files = {}
    BY <2>1, MessagesAssumption DEF Sends
  <2>5. pieces' \subseteq files' \union lost'
    <3> SUFFICES ASSUME NEW f \in pieces PROVE f \in files' \union lost'
      BY <2>1
    <3>1. PICK m \in messages : f \in Ask[m].files
      BY DEF MessagesInv, FilesOfMessages
    <3>2. CASE m = c
      BY <2>1, <3>1, <3>2 DEF MessagesInv, FilesOfMessages
    <3>3. CASE m # c
      BY <2>1, <2>4, <3>1, <3>3 DEF MessagesInv, FilesOfMessages, RowsOfMessages
    <3> QED BY <3>2, <3>3
  <2>6. ASSUME NEW f \in files' \ pieces'
        PROVE  f \in (lost \union cut)' \/ \E d \in Calls : UnderWay(d)' /\ f \in Ask[d].files
    <3>1. f \in files \ pieces /\ (f \in (lost \union cut)' \/ f \notin Ask[c].files)
      BY <2>1
    <3>2. CASE f \in lost \union cut
      BY <2>1, <3>2
    <3>3. CASE \E d \in Calls : UnderWay(d) /\ f \in Ask[d].files
      <4>1. PICK d \in Calls : UnderWay(d) /\ f \in Ask[d].files
        BY <3>3
      <4>2. d # c => UnderWay(d)'
        BY <2>3, <4>1 DEF UnderWay
      <4> QED BY <3>1, <4>1, <4>2
    <3> QED BY <3>1, <3>2, <3>3 DEF MessagesInv, FilesOfMessages
  <2>7. \A d \in Sends : pc'[d] = "writing" => Ask[d].files \subseteq files'
    BY <2>1, <2>3, <2>4 DEF MessagesInv, FilesOfMessages, Sends
  <2>8. \A d \in Sends : pc'[d] = "cleaning" /\ d \in messages' => Ask[d].files \subseteq lost'
    BY <2>1, <2>3 DEF MessagesInv, FilesOfMessages, Sends
  <2>10. CutFiles'
    BY <2>1, <2>3 DEF MessagesInv, FilesOfMessages, CutFiles, Sends
  <2>9. FilesOfMessages'
    BY <2>1, <2>5, <2>6, <2>7, <2>8, <2>10 DEF MessagesInv, FilesOfMessages
  <2> QED BY <2>2, <2>9 DEF MessagesInv
<1>6. CASE MarkOwnCopy(c)
  BY <1>0, <1>6, CopiesMarked, MessagesMarked DEF MarkOwnCopy, Doing, Goto, MessagesInv
<1>7. CASE MarkCopy(c)
  <2> DEFINE mine == {k \in copies : k.message = Ask[c].message /\ k.user = Ask[c].by}
  <2>1. \/ copies' = ReadCopies(mine)
        \/ \E flag \in Flags :
               copies' = (copies \ mine) \union
                         {[k EXCEPT !.archived = flag] : k \in mine \intersect copies}
    <3>1. mine = mine \intersect copies
      OBVIOUS
    <3>2. Ask[c].do = "archive" => Ask[c].on \in Flags
      BY DEF Flags
    <3> HIDE DEF mine
    <3> QED BY <1>7, <3>1, <3>2 DEF MarkCopy, Doing, mine
  <2>2. /\ UNCHANGED <<messages, pieces, files, cut, audience, lost>>
        /\ c \notin Sends
    BY <1>7 DEF MarkCopy, Doing, Sends
  <2> HIDE DEF mine
  <2> QED BY <1>0, <2>1, <2>2, CopiesMarked, MessagesMarked DEF MessagesInv
<1>8. CASE MarkAllRead(c)
  BY <1>0, <1>8, CopiesMarked, MessagesMarked DEF MarkAllRead, Doing, Sends, MessagesInv
<1>9. CASE FindCopy(c)
  BY <1>0, <1>9, MessagesUntouched DEF FindCopy, Doing, Sends
<1> QED BY <1>1, <1>2, <1>3, <1>4, <1>5, <1>6, <1>7, <1>8, <1>9, <1>10 DEF MessageStep

(* A removal is no other step.                                              *)
LEMMA Alone ==
    ASSUME NEW c \in Calls, DeleteAccount(c), pc \in [Calls -> Phases]
    PROVE  /\ ~AccountStep(c) /\ ~ProfileStep(c) /\ ~FeedbackStep(c)
           /\ ~AccountDies(c) /\ ~MessageDies(c)
<1>0. Ask[c].do = "remove" /\ pc[c] = "delete" /\ pc'[c] = "done"
  BY DEF DeleteAccount, Doing, Goto
<1>1. ~Enter(c)
  BY <1>0 DEF Enter, Doing
<1>2. ~Authorize(c)
  BY <1>0 DEF Authorize, Doing
<1>3. ~FindName(c)
  BY <1>0 DEF FindName, Doing
<1>4. ~InsertAccount(c)
  BY <1>0 DEF InsertAccount, Doing
<1>5. ~ReadTarget(c)
  BY <1>0 DEF ReadTarget, Doing
<1>6. ~CountAdministrators(c)
  BY <1>0 DEF CountAdministrators, Doing
<1>7. ~UpdateAccount(c)
  BY <1>0 DEF UpdateAccount, Doing
<1>8. ~WritePassword(c)
  BY <1>0 DEF WritePassword, Doing
<1>9. ~GrantPermission(c)
  BY <1>0 DEF GrantPermission, Doing
<1>10. ~RevokePermission(c)
  BY <1>0 DEF RevokePermission, Doing
<1>11. ~BumpVersion(c)
  BY <1>0 DEF BumpVersion, Doing
<1>12. ~DropSessions(c)
  BY <1>0 DEF DropSessions, Doing
<1>13. ~FindLogin(c)
  BY <1>0 DEF FindLogin, Doing
<1>14. ~RecordFailure(c)
  BY <1>0 DEF RecordFailure, Doing
<1>15. ~ResetFailures(c)
  BY <1>0 DEF ResetFailures, Doing
<1>16. ~FindSession(c)
  BY <1>0 DEF FindSession, Doing
<1>17. ~ReadHolder(c)
  BY <1>0 DEF ReadHolder, Doing
<1>18. ~OpenSession(c)
  BY <1>0 DEF OpenSession, Doing
<1>19. ~ProfileStep(c) /\ ~FeedbackStep(c)
  BY <1>0, ProfilesApart, FeedbackApart
<1>20. ~AccountDies(c) /\ ~MessageDies(c)
  BY <1>0 DEF AccountDies, MessageDies, Dies
<1> QED BY <1>1, <1>2, <1>3, <1>4, <1>5, <1>6, <1>7, <1>8, <1>9, <1>10, <1>11, <1>12, <1>13, <1>14, <1>15, <1>16, <1>17, <1>18, <1>19, <1>20 DEF AccountStep

LEMMA MessagesKept ==
    ASSUME RowsInv, MessagesInv, NEW c \in Calls, Step(c)
    PROVE  MessagesInv'
<1>1. CASE MessageStep(c) /\ UNCHANGED accountVars
  BY <1>1, MessagesStep
<1>2. CASE RemoveAccount(c)
  BY <1>2, MailboxEmptied DEF RemoveAccount
<1>3. CASE ~(MessageStep(c) /\ UNCHANGED accountVars) /\ ~RemoveAccount(c)
  <2>1. UNCHANGED messageVars
    BY <1>3 DEF Step, MessageDies
  <2>2. c \notin Sends \/ UNCHANGED pc \/ Entering(c)
    BY <1>3, AccountsApart, ProfilesApart, FeedbackApart
       DEF Step, OnAccounts, Sends, MessageDies, Dies
  <2>3. CASE DeleteAccount(c)
    <3>1. c \notin Sends /\ users' = [v \in DOMAIN users \ {Ask[c].target} |-> users[v]]
      BY <2>3 DEF DeleteAccount, Doing, Sends
    <3>2. ~AccountStep(c) /\ ~ProfileStep(c) /\ ~FeedbackStep(c) /\ ~AccountDies(c) /\ ~MessageDies(c)
      BY <2>3, Alone DEF RowsInv
    <3> QED BY <1>3, <3>2 DEF Step
  <2>4. CASE ~DeleteAccount(c)
    BY <2>1, <2>2, <2>4, MessagesUntouched
  <2> QED BY <2>3, <2>4
<1> QED BY <1>1, <1>2, <1>3

(* "Les fichiers deja ranges n'ont plus de ligne pour les decrire"          *)
(* (messages.service.ts:193).                                               *)
THEOREM FilesHold == Spec => []FilesMatchRows
<1>1. Init => MessagesInv
  <2> SUFFICES ASSUME Init PROVE MessagesInv
    OBVIOUS
  <2>1. /\ pc = [c \in Calls |-> "idle"] /\ audience = [c \in Calls |-> {}]
        /\ messages = {} /\ copies = {} /\ pieces = {} /\ files = {} /\ cut = {}
    BY DEF Init, RequestsInit, MessagesInit
  <2>2. RowsOfMessages
    BY <2>1 DEF RowsOfMessages
  <2>3. FilesOfMessages
    BY <2>1 DEF FilesOfMessages, CutFiles, Sends
  <2> QED BY <2>2, <2>3 DEF MessagesInv
<1>2. RowsInv /\ MessagesInv /\ [Next]_vars => MessagesInv'
  <2> SUFFICES ASSUME RowsInv, MessagesInv, [Next]_vars PROVE MessagesInv'
    OBVIOUS
  <2>1. CASE Next
    BY <2>1, MessagesKept DEF Next, RowsInv
  <2>2. CASE UNCHANGED vars
    <3>1. UNCHANGED <<pc, users, messages, copies, pieces, files, cut, audience, lost>>
      BY <2>2 DEF vars, requestVars, accountVars, tables, messageVars
    <3> QED BY <3>1 DEF MessagesInv, RowsOfMessages, FilesOfMessages, CutFiles, HasCopy, UnderWay,
                      Issued
  <2> QED BY <2>1, <2>2
<1>3. MessagesInv => FilesMatchRows
  <2> SUFFICES ASSUME MessagesInv PROVE FilesMatchRows
    OBVIOUS
  <2>1. ASSUME NEW m \in messages
        PROVE  {k.user : k \in {x \in copies : x.message = m}} = audience[m] \intersect DOMAIN users
    BY DEF MessagesInv, RowsOfMessages, HasCopy
  <2>2. \A f \in files \ pieces :
           \/ f \in lost
           \/ f \in cut
           \/ \E c \in Calls : /\ Ask[c].do = "send" /\ f \in Ask[c].files
                               /\ pc[c] \in {"storing", "writing", "cleaning"}
    BY DEF MessagesInv, FilesOfMessages, UnderWay, Sends
  <2>3. pieces \intersect cut = {}
    BY DEF MessagesInv, FilesOfMessages, CutFiles, RowsOfMessages
  <2>4. \A c \in Calls : Ask[c].do = "send" => \A f, g \in Ask[c].files \intersect cut : f = g
    BY DEF MessagesInv, FilesOfMessages, CutFiles, Sends
  <2> QED BY <2>1, <2>2, <2>3, <2>4 DEF MessagesInv, FilesOfMessages, FilesMatchRows
<1> QED BY <1>1, <1>2, <1>3, AccountRowsSound, PTL DEF Spec
=============================================================================
