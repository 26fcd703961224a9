------------------------------ MODULE Feedback ------------------------------
(****************************************************************************)
(* What users report and its triage: FeedbackService                        *)
(* (feedback/feedback.service.ts) on the statements of FeedbackRepository,  *)
(* with the transitions of packages/shared/src/schemas/feedback.schema.ts.  *)
(* Texts, kinds and severities are left out.                                *)
(****************************************************************************)
EXTENDS Accounts

VARIABLES feedback,  \* [report -> [status, author, assigned, resolved]]
          status     \* the status a triage has read

feedbackVars == <<feedback, status>>

FeedbackInit ==
    /\ feedback = << >>
    /\ status = [c \in Calls |-> None]

(* TRANSITIONS_STATUT.                                                      *)
Transitions ==
    [nouveau  |-> {"accepte", "rejete"},
     accepte  |-> {"en_cours", "rejete"},
     en_cours |-> {"resolu", "rejete"},
     resolu   |-> {"en_cours"},
     rejete   |-> {"nouveau"}]

(* create: the author must still be there, by a foreign key.                *)
Report(c) ==
    /\ Doing(c, {"report"}, "allowed")
    /\ Ask[c].by \in DOMAIN users
    /\ feedback' = [r \in DOMAIN feedback \union {c} |-> IF r # c THEN feedback[r] ELSE
                       [status |-> "nouveau", author |-> Ask[c].by, assigned |-> None,
                        resolved |-> FALSE]]
    /\ Goto(c, "done")
    /\ UNCHANGED status

(* Mutant of ReadReport: any other status will do.                          *)
ReadReportLoosely(c) ==
    /\ Doing(c, {"triage"}, "allowed")
    /\ \E r \in DOMAIN feedback :
           /\ Ask[c].status # None => Ask[c].status # feedback[r].status
           /\ status' = [status EXCEPT ![c] = [report |-> r, from |-> feedback[r].status]]
    /\ Goto(c, "read")
    /\ UNCHANGED feedback

(* triage: the report, and the transition from the status it has.           *)
ReadReport(c) ==
    /\ Doing(c, {"triage"}, "allowed")
    /\ \E r \in DOMAIN feedback :
           /\ Ask[c].status # None => Ask[c].status \in Transitions[feedback[r].status]
           /\ status' = [status EXCEPT ![c] = [report |-> r, from |-> feedback[r].status]]
    /\ Goto(c, "read")
    /\ UNCHANGED feedback

(* The UPDATE: the fields given, and resolved_at with the status. It fails  *)
(* on its foreign key when the assignee is gone.                            *)
WriteTriage(c) ==
    LET r == status[c].report
        moved == IF Ask[c].status = None THEN feedback[r]
                 ELSE [feedback[r] EXCEPT !.status = Ask[c].status,
                                          !.resolved = Ask[c].status = "resolu"]
    IN
    /\ Doing(c, {"triage"}, "read")
    /\ Ask[c].assign # None => Ask[c].assign \in DOMAIN users
    /\ feedback' = [feedback EXCEPT ![r] =
                       IF Ask[c].assign = None THEN moved
                       ELSE [moved EXCEPT !.assigned = Ask[c].assign]]
    /\ Goto(c, "done")
    /\ UNCHANGED status

(* ON DELETE SET NULL, of author_id and assigned_to.                        *)
ForgetReporter(u) ==
    /\ feedback' = [r \in DOMAIN feedback |->
           [feedback[r] EXCEPT !.author = IF @ = u THEN None ELSE @,
                               !.assigned = IF @ = u THEN None ELSE @]]
    /\ UNCHANGED status

FeedbackStep(c) == Report(c) \/ ReadReport(c) \/ WriteTriage(c)

-----------------------------------------------------------------------------
(* "Un statut ne se remonte pas au hasard" (feedback.schema.ts:36): a status*)
(* moves along the transitions, unless another triage has moved it between  *)
(* the reading and the write of this one; and a report is dated as resolved *)
(* when, and only when, it is, whatever the triages that overlap.           *)
StatusNeverSkips ==
    [][\A r \in DOMAIN feedback :
        /\ \/ feedback'[r].status \in Transitions[feedback[r].status] \union {feedback[r].status}
           \/ \E c \in Calls : /\ pc[c] = "read" /\ pc'[c] = "done"
                               /\ status[c] # [report |-> r, from |-> feedback[r].status]
        /\ feedback'[r].resolved = (feedback'[r].status = "resolu")]_<<pc, feedbackVars>>
=============================================================================
