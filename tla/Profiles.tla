------------------------------ MODULE Profiles ------------------------------
(****************************************************************************)
(* The settings profiles: ProfilesService (profiles/profiles.service.ts) on *)
(* the statements of ProfileRepository. A profile is read by a client, which*)
(* sends it back later with the version it has read: the UPDATE compares it *)
(* ("verrouillage optimiste"). A reset or an import gives no version.       *)
(*                                                                          *)
(* The settings and the label are named after the request that wrote them.  *)
(* The requests have passed the guards of Accounts.                         *)
(****************************************************************************)
EXTENDS Requests

CONSTANTS Gammes     \* the profiles there are at first

VARIABLES profiles,  \* [gamme -> [version, born, settings, label]]
          opened,    \* the profile the client has read before it saves
          label      \* the label a save has read, to keep it

profileVars == <<profiles, opened, label>>

Default == "default"
Writes == {"save", "reset"}

New(c) == [version |-> 1, born |-> c, settings |-> c, label |-> c]

ProfilesInit ==
    /\ profiles = [g \in Gammes |-> New(None)]
    /\ opened = [c \in Calls |-> None]
    /\ label = [c \in Calls |-> None]

Known(g) == g \in DOMAIN profiles
Put(g, row) ==
    profiles' = [h \in DOMAIN profiles \union {g} |-> IF h = g THEN row ELSE profiles[h]]

(* The editor loads a profile, long before it is saved.                     *)
Open(c) ==
    /\ pc[c] = "idle" /\ Ask[c].do = "save"
    /\ Known(Ask[c].gamme)
    /\ opened[c] = None
    /\ opened' = [opened EXCEPT ![c] = profiles[Ask[c].gamme]]
    /\ UNCHANGED <<requestVars, profiles, label>>

(* save (also import, and reset which gives neither version nor label) and  *)
(* ensureDefaultProfile: currentVersion decides between the two paths.      *)
LookVersion(c) ==
    /\ \/ Doing(c, Writes, "allowed")
       \/ Doing(c, {"boot"}, "idle") /\ ~Known(Default)
    /\ Goto(c, IF Known(Ask[c].gamme) THEN "updating" ELSE "creating")
    /\ UNCHANGED profileVars

(* create: INSERT IGNORE. When it has lost the race a save overwrites what  *)
(* won it, with no version; the start of the server leaves it.              *)
Create(c) ==
    LET g == Ask[c].gamme IN
    /\ Doing(c, Writes \union {"boot"}, "creating")
    /\ IF Known(g) THEN UNCHANGED profiles ELSE Put(g, New(c))
    /\ Goto(c, IF Known(g) /\ Ask[c].do # "boot" THEN "overwriting" ELSE "done")
    /\ UNCHANGED <<opened, label>>

Overwrite(c) ==
    LET g == Ask[c].gamme IN
    /\ Doing(c, Writes, "overwriting")
    /\ IF Known(g)
       THEN Put(g, [profiles[g] EXCEPT !.version = @ + 1, !.settings = c, !.label = c])
       ELSE UNCHANGED profiles
    /\ Goto(c, "done")
    /\ UNCHANGED <<opened, label>>

(* update: findByGamme, for the label when none is given.                   *)
ReadLabel(c) ==
    LET g == Ask[c].gamme IN
    /\ Doing(c, Writes, "updating")
    /\ label' = [label EXCEPT ![c] =
                    IF ~Ask[c].keepsLabel \/ ~Known(g) THEN c ELSE profiles[g].label]
    /\ Goto(c, "writing")
    /\ UNCHANGED <<profiles, opened>>

(* Mutant of Update: the version is the one the service has read.           *)
UpdateAnyVersion(c) ==
    LET g == Ask[c].gamme IN
    /\ Doing(c, Writes, "writing")
    /\ Known(g)
    /\ Put(g, [profiles[g] EXCEPT !.version = @ + 1, !.settings = c, !.label = label[c]])
    /\ Goto(c, "done")
    /\ UNCHANGED <<opened, label>>

(* updateWithVersion: one UPDATE, on the version if there is one. When it   *)
(* touches no row the request ends with a conflict.                         *)
Update(c) ==
    LET g == Ask[c].gamme IN
    /\ Doing(c, Writes, "writing")
    /\ Known(g)
    /\ opened[c] # None => profiles[g].version = opened[c].version
    /\ Put(g, [profiles[g] EXCEPT !.version = @ + 1, !.settings = c, !.label = label[c]])
    /\ Goto(c, "done")
    /\ UNCHANGED <<opened, label>>

(* remove: never the default profile.                                       *)
DeleteProfile(c) ==
    LET g == Ask[c].gamme IN
    /\ Doing(c, {"delete"}, "allowed")
    /\ g # Default /\ Known(g)
    /\ profiles' = [h \in DOMAIN profiles \ {g} |-> profiles[h]]
    /\ Goto(c, "done")
    /\ UNCHANGED <<opened, label>>

ProfileStep(c) ==
    \/ Open(c) \/ LookVersion(c)
    \/ Create(c) \/ Overwrite(c) \/ ReadLabel(c) \/ Update(c)
    \/ DeleteProfile(c)

-----------------------------------------------------------------------------
(* "L'ecriture est refusee (409) si le profil a change"                     *)
(* (packages/shared/src/schemas/profile.schema.ts:83): a save writes over   *)
(* the very profile its client has read, settings and label, and keeps the  *)
(* label when it gives none. Left out: the profile was deleted and created  *)
(* again since, its versions count from 1 again.                            *)
SavesOverwriteWhatTheyRead ==
    [][\A c \in Calls : LET g == Ask[c].gamme IN
        /\ pc'[c] # pc[c] /\ profiles' # profiles
        /\ Ask[c].do = "save" /\ opened[c] # None /\ Known(g)
        /\ profiles[g].born = opened[c].born
        => /\ profiles[g] = opened[c]
           /\ Ask[c].keepsLabel => profiles'[g].label = profiles[g].label]_<<pc, profileVars>>
=============================================================================
