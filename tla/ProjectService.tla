--------------------------- MODULE ProjectService ---------------------------
(***************************************************************************)
(* projects/projects.service.ts with its state service, and the admin's    *)
(* closeProject: the listing is published, closed, cancelled or deleted,   *)
(* and the engagement is completed.  Except for completion every write is  *)
(* unconditional: it relies on the status read before.                     *)
(***************************************************************************)
EXTENDS EscrowService

\* Mutant: a project in progress may be closed.
CanCloseUnfinished(status) == status \in {"OPEN", "IN_PROGRESS"}

\* ProjectStateService.assertCan...
CanPublish(status) == status = "DRAFT"
CanDelete(status)  == status = "DRAFT"
CanClose(status)   == status = "OPEN"
CanCancel(status)  == status \in {"DRAFT", "OPEN"}
CanComplete(status) == status = "IN_PROGRESS"
AdminMayClose(status) == status \in {"DRAFT", "OPEN"}

\* An UPDATE of the project row by its id.
SetProject(r, status) ==
    /\ project # "ABSENT"
    /\ Free("project", r)
    /\ project' = status
    /\ UNCHANGED <<accepted, completionRequested, completions>>

RejectPending ==
    proposal' = [p \in Proposals |-> IF proposal[p] = "PENDING" THEN "REJECTED"
                                                               ELSE proposal[p]]

-----------------------------------------------------------------------------
(* The listing *)

BeginPublish(r) == CanPublish(project) /\ Begin(r, "publish", NoProposal)

CommitPublish(r) ==
    /\ At(r, "publish", "checked")
    /\ SetProject(r, "OPEN")
    /\ Finish(r)
    /\ UNCHANGED <<proposal, escrowVars, payment, gatewayVars>>

BeginClose(r) == CanClose(project) /\ Begin(r, "close", NoProposal)

CommitClose(r) ==
    /\ At(r, "close", "checked")
    /\ SetProject(r, "CLOSED")
    /\ RejectPending
    /\ Finish(r)
    /\ UNCHANGED <<escrowVars, payment, gatewayVars>>

BeginCancel(r) == CanCancel(project) /\ Begin(r, "cancel", NoProposal)

CommitCancel(r) ==
    /\ At(r, "cancel", "checked")
    /\ SetProject(r, "CANCELLED")
    /\ RejectPending
    /\ Finish(r)
    /\ UNCHANGED <<escrowVars, payment, gatewayVars>>

BeginAdminClose(r) == AdminMayClose(project) /\ Begin(r, "adminClose", NoProposal)

\* Unlike the client's close, the admin's leaves the proposals alone.
CommitAdminClose(r) ==
    /\ At(r, "adminClose", "checked")
    /\ SetProject(r, "CLOSED")
    /\ Finish(r)
    /\ UNCHANGED <<proposal, escrowVars, payment, gatewayVars>>

BeginDeleteDraft(r) == CanDelete(project) /\ Begin(r, "deleteDraft", NoProposal)

\* ON DELETE CASCADE takes the proposals, the escrow, its ledger, dispute and
\* payment with the project; open checkouts lose the row they refer to.
CommitDeleteDraft(r) ==
    /\ At(r, "deleteDraft", "checked")
    /\ project # "ABSENT"
    /\ \A row \in Rows : Free(row, r)
    /\ project' = "ABSENT"
    /\ accepted' = NoProposal
    /\ proposal' = [p \in Proposals |-> "ABSENT"]
    /\ escrow' = "ABSENT"
    /\ escrowFor' = NoProposal
    /\ dispute' = "ABSENT"
    /\ ledger' = [t \in LedgerType |-> 0]
    /\ payment' = "ABSENT"
    /\ checkouts' = [checkouts EXCEPT !["linked"] = 0,
                                      !["orphan"] = @ + checkouts["linked"]]
    /\ Finish(r)
    /\ UNCHANGED <<completionRequested, completions, charges, refunds, events,
                   stranded>>

-----------------------------------------------------------------------------
(* Completion *)

\* assertFreelancerCanRequestCompletion, assertClientCanComplete
EngagementActive ==
    /\ accepted # NoProposal
    /\ proposal[accepted] = "ACCEPTED"
    /\ CanComplete(project)

BeginRequestCompletion(r) ==
    /\ EngagementActive
    /\ ~completionRequested
    /\ Begin(r, "requestCompletion", NoProposal)

CommitRequestCompletion(r) ==
    /\ At(r, "requestCompletion", "checked")
    /\ project # "ABSENT"
    /\ Free("project", r)
    /\ completionRequested' = TRUE
    /\ Finish(r)
    /\ UNCHANGED <<project, accepted, completions, proposal, escrowVars, payment,
                   gatewayVars>>

BeginComplete(r) ==
    /\ EngagementActive
    /\ BeginAt(r, "complete", "read", NoProposal)
    /\ UNCHANGED payment

AssertNoDispute(r) ==
    /\ At(r, "complete", "read")
    /\ escrow # "DISPUTED"
    /\ Goto(r, "checked")
    /\ UNCHANGED <<projectVars, proposal, escrowVars, payment, gatewayVars, lock>>

\* Mutant: the update to COMPLETED names the project by its id alone.
ProjectExists(r) == project # "ABSENT"

\* The condition of the update to COMPLETED, which waits for the row lock.
StillInProgress(r) == Free("project", r) /\ project = "IN_PROGRESS"

\* The conditional update locks the project until the end of the transaction;
\* then releaseOnComplete reads the escrow, which it does not lock yet.
CompleteInTx(r) ==
    /\ At(r, "complete", "checked")
    /\ StillInProgress(r)
    /\ escrow \in Releasable
    /\ lock' = [lock EXCEPT !["project"] = r]
    /\ Remember(r, "inTx", escrow)
    /\ UNCHANGED <<projectVars, proposal, escrowVars, payment, gatewayVars>>

CommitComplete(r) ==
    /\ At(r, "complete", "inTx")
    /\ project' = "COMPLETED"
    /\ completions' = completions + 1
    /\ ReleaseOnComplete(r)
    /\ Finish(r)
    /\ UNCHANGED <<accepted, completionRequested, proposal, escrowFor, dispute,
                   payment, gatewayVars>>
=============================================================================
