------------------------------ MODULE Backoffice ------------------------------
(****************************************************************************)
(* The requests on accounts, profiles, messages and feedback together: they *)
(* pass the same guards, and a removal of an account reaches, through the   *)
(* foreign keys, mailboxes and reports.                                     *)
(****************************************************************************)
EXTENDS Messages, Feedback, Profiles

vars == <<requestVars, accountVars, profileVars, messageVars, feedbackVars>>

Init == RequestsInit /\ AccountsInit /\ ProfilesInit /\ MessagesInit /\ FeedbackInit

(* Mutant of RemoveAccount: the mailbox stays.                              *)
RemoveAccountOnly(c) ==
    /\ DeleteAccount(c)
    /\ ForgetReporter(Ask[c].target)
    /\ UNCHANGED <<messageVars, profileVars>>

(* DELETE FROM users, with what the foreign keys make of it elsewhere.      *)
RemoveAccount(c) ==
    /\ DeleteAccount(c)
    /\ EmptyMailbox(Ask[c].target)
    /\ ForgetReporter(Ask[c].target)
    /\ UNCHANGED profileVars

Step(c) ==
    \/ AccountStep(c) /\ UNCHANGED <<profileVars, messageVars, feedbackVars>>
    \/ RemoveAccount(c)
    \/ ProfileStep(c) /\ UNCHANGED <<accountVars, messageVars, feedbackVars>>
    \/ MessageStep(c) /\ UNCHANGED <<accountVars, profileVars, feedbackVars>>
    \/ FeedbackStep(c) /\ UNCHANGED <<accountVars, profileVars, messageVars>>
    \/ AccountDies(c) /\ UNCHANGED <<profileVars, messageVars, feedbackVars>>
    \/ MessageDies(c) /\ UNCHANGED <<accountVars, profileVars, feedbackVars>>

Next == \E c \in made : Step(c)

Spec == Init /\ [][Next]_vars
=============================================================================
