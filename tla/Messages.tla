------------------------------ MODULE Messages ------------------------------
(****************************************************************************)
(* Messages and their attachments: MessagesService                          *)
(* (messages/messages.service.ts), the files of AttachmentStorageService    *)
(* (messages/attachment-storage.service.ts) and the statements of           *)
(* MessageRepository. The files are written before the transaction that     *)
(* describes them, and removed if it fails, except the one whose own write  *)
(* failed. Nothing deletes a message.                                       *)
(****************************************************************************)
EXTENDS Accounts

(* The id of a file is drawn when it is stored: no two sends share one.     *)
ASSUME MessagesAssumption ==
    \A c, d \in Calls :
        Ask[c].do = "send" /\ Ask[d].do = "send" /\ c # d
        => Ask[c].files \intersect Ask[d].files = {}

VARIABLES messages,  \* rows of messages: the requests that sent them
          copies,    \* rows [message, user, read, archived] of message_recipients
          pieces,    \* rows of message_attachments: the ids of the files
          files,     \* the files on the disk
          cut,       \* those whose write has begun and has not ended
          audience,  \* the recipients a send has resolved
          lost       \* history variable: the commits whose answer was lost, the
                     \* files the system would not remove

messageVars == <<messages, copies, pieces, files, cut, audience, lost>>

MessagesInit ==
    /\ messages = {} /\ copies = {} /\ pieces = {} /\ files = {} /\ cut = {}
    /\ audience = [c \in Calls |-> {}]
    /\ lost = {}

(* resoudreAudience: active accounts, of a rank or named; nobody is a 404.  *)
(* The author gets a copy too.                                              *)
ResolveAudience(c) ==
    LET found == {u \in Ask[c].to \intersect DOMAIN users :
                      Active(u) /\ users[u].rank >= Ask[c].rank} IN
    /\ Doing(c, {"send"}, "allowed")
    /\ found # {}
    /\ audience' = [audience EXCEPT ![c] = found \union {Ask[c].by}]
    /\ Goto(c, IF Ask[c].files = {} THEN "writing" ELSE "storing")
    /\ UNCHANGED <<messages, copies, pieces, files, cut, lost>>

(* ranger, one file after the other: writeFile creates the file of an id    *)
(* that it alone knows, fills it, and only then does the id join those      *)
(* ranger would take back.                                                  *)
StoreFile(c) ==
    /\ Doing(c, {"send"}, "storing")
    /\ Ask[c].files \intersect cut = {}
    /\ \E f \in Ask[c].files \ files : files' = files \union {f} /\ cut' = cut \union {f}
    /\ Goto(c, "storing")
    /\ UNCHANGED <<messages, copies, pieces, audience, lost>>

FileStored(c) ==
    /\ Doing(c, {"send"}, "storing")
    /\ Ask[c].files \intersect cut # {}
    /\ cut' = cut \ Ask[c].files
    /\ Goto(c, IF Ask[c].files \subseteq files THEN "writing" ELSE "storing")
    /\ UNCHANGED <<messages, copies, pieces, files, audience, lost>>

(* The rows of a message, if the foreign keys allow: author and recipients. *)
InsertMessage(c) ==
    /\ audience[c] \subseteq DOMAIN users
    /\ messages' = messages \union {c}
    /\ copies' = copies \union
           [message : {c}, user : audience[c], read : {FALSE}, archived : {FALSE}]
    /\ pieces' = pieces \union Ask[c].files

(* createWithRecipients, one transaction.                                   *)
WriteMessage(c) ==
    /\ Doing(c, {"send"}, "writing")
    /\ InsertMessage(c)
    /\ Goto(c, "written")
    /\ UNCHANGED <<files, cut, audience, lost>>

(* It throws. A file is refused, or its write fails, before it is created   *)
(* or half-way; or the rows are rolled back, or the commit was done and     *)
(* only its answer is lost.                                                 *)
SendFails(c) ==
    /\ Doing(c, {"send"}, "storing") \/ Doing(c, {"send"}, "writing")
    /\ \/ UNCHANGED <<messages, copies, pieces, lost>>
       \/ /\ pc[c] = "writing" /\ InsertMessage(c)
          /\ lost' = lost \union Ask[c].files
    /\ Goto(c, "cleaning")
    /\ UNCHANGED <<files, cut, audience>>

(* Mutant of TakeBack: the files are left where they are.                   *)
TakeNothingBack(c) ==
    /\ Doing(c, {"send"}, "cleaning")
    /\ Goto(c, "done")
    /\ UNCHANGED messageVars

(* supprimer: rm of each file stored, whose failure is logged and no more.  *)
(* The file whose write failed is not among them.                           *)
TakeBack(c) ==
    LET stored == (Ask[c].files \intersect files) \ cut IN
    /\ Doing(c, {"send"}, "cleaning")
    /\ \E stuck \in SUBSET stored :
           /\ files' = (files \ stored) \union stuck
           /\ lost' = lost \union stuck
    /\ Goto(c, "done")
    /\ UNCHANGED <<messages, copies, pieces, cut, audience>>

(* markRead: the first reading stays.                                       *)
ReadCopies(which) == {IF k \in which THEN [k EXCEPT !.read = TRUE] ELSE k : k \in copies}

MarkOwnCopy(c) ==
    /\ Doing(c, {"send"}, "written")
    /\ copies' = ReadCopies({k \in copies : k.message = c /\ k.user = Ask[c].by})
    /\ Goto(c, "done")
    /\ UNCHANGED <<messages, pieces, files, cut, audience, lost>>

(* open and setArchived: requireDansLaBoite, then the UPDATE.               *)
FindCopy(c) ==
    /\ Doing(c, {"open", "archive"}, "allowed")
    /\ \E k \in copies : k.message = Ask[c].message /\ k.user = Ask[c].by
    /\ Goto(c, "found")
    /\ UNCHANGED messageVars

MarkCopy(c) ==
    LET mine == {k \in copies : k.message = Ask[c].message /\ k.user = Ask[c].by} IN
    /\ Doing(c, {"open", "archive"}, "found")
    /\ copies' = IF Ask[c].do = "open" THEN ReadCopies(mine)
                 ELSE (copies \ mine) \union {[k EXCEPT !.archived = Ask[c].on] : k \in mine}
    /\ Goto(c, "done")
    /\ UNCHANGED <<messages, pieces, files, cut, audience, lost>>

MarkAllRead(c) ==
    /\ Doing(c, {"readAll"}, "allowed")
    /\ copies' = ReadCopies({k \in copies : k.user = Ask[c].by /\ ~k.archived})
    /\ Goto(c, "done")
    /\ UNCHANGED <<messages, pieces, files, cut, audience, lost>>

(* ON DELETE CASCADE, of message_recipients.user_id; the message stays.     *)
EmptyMailbox(u) ==
    /\ copies' = {k \in copies : k.user # u}
    /\ UNCHANGED <<messages, pieces, files, cut, audience, lost>>

MessageStep(c) ==
    \/ ResolveAudience(c) \/ StoreFile(c) \/ FileStored(c) \/ WriteMessage(c) \/ MarkOwnCopy(c)
    \/ SendFails(c) \/ TakeBack(c)
    \/ FindCopy(c) \/ MarkCopy(c) \/ MarkAllRead(c)

MessageDies(c) ==
    /\ Dies(c, {"storing", "writing", "cleaning"})
    /\ UNCHANGED messageVars

-----------------------------------------------------------------------------
(* "Les fichiers deja ranges n'ont plus de ligne pour les decrire, donc plus*)
(* personne pour les effacer un jour" (messages.service.ts:193). A row has  *)
(* its whole file, unless the answer to a commit was lost. A file without   *)
(* its row belongs to a send that goes on or has died, or the system would  *)
(* not remove it, or it is the one file of a send whose own write failed,   *)
(* which nobody takes back and which stays cut short. A message has a copy  *)
(* for each account of its audience that is still there.                    *)
FilesMatchRows ==
    /\ pieces \subseteq files \union lost /\ pieces \intersect cut = {}
    /\ \A f \in files \ pieces :
           \/ f \in lost
           \/ f \in cut
           \/ \E c \in Calls : /\ Ask[c].do = "send" /\ f \in Ask[c].files
                               /\ pc[c] \in {"storing", "writing", "cleaning"}
    /\ \A c \in Calls : Ask[c].do = "send" =>
           \A f, g \in Ask[c].files \intersect cut : f = g
    /\ \A m \in messages :
           {k.user : k \in {x \in copies : x.message = m}} = audience[m] \intersect DOMAIN users
=============================================================================
