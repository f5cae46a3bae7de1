-------------------------- MODULE EngagementPages --------------------------
(***************************************************************************)
(* The pages of the web client that drive an engagement: the calls that    *)
(* each of them offers on the rows it has just loaded.  Their conditions   *)
(* repeat the server's in another language, field by field.                *)
(***************************************************************************)
EXTENDS Marketplace

\* The client's list of projects and the edit page, with its form.
StatusActions(op) ==
    \/ op \in {"publish", "deleteDraft"} /\ project = "DRAFT"
    \/ op = "close" /\ project = "OPEN"
    \/ op = "cancel" /\ project \in {"DRAFT", "OPEN"}

\* Mutant: the button is not disabled by a dispute.
CompletionPanelAlways(op) ==
    /\ project = "IN_PROGRESS"
    /\ op = "complete" \/ (op = "openDispute" /\ escrow = "FUNDED")

\* The panel of the client's edit page while the work is under way.
CompletionPanel(op) ==
    /\ project = "IN_PROGRESS"
    /\ \/ op = "complete" /\ escrow # "DISPUTED"
       \/ op = "openDispute" /\ escrow = "FUNDED"

\* The client's page of a project's proposals, whatever the project's status.
ProposalCard(op, p) == op \in {"fundAndAccept", "reject"} /\ proposal[p] = "PENDING"

\* The public page shows OPEN projects only, and its button who has not applied.
ApplyButton(op, p) == op = "submit" /\ project = "OPEN" /\ proposal[p] = "ABSENT"

\* The freelancer's list of proposals.
WithdrawButton(op, p) == op = "withdraw" /\ proposal[p] = "PENDING"

\* Its part about the work: once he has requested completion, it offers nothing.
FreelancerCompletion(op) ==
    /\ project = "IN_PROGRESS" /\ \E p \in Proposals : proposal[p] = "ACCEPTED"
    /\ ~completionRequested
    /\ \/ op = "requestCompletion" /\ escrow # "DISPUTED"
       \/ op = "openDispute" /\ escrow = "FUNDED"

\* The admin's page of one project, and the tab of open disputes.
AdminProjectPage(op) == op = "adminClose" /\ project \in {"DRAFT", "OPEN"}

DisputesTab(op) ==
    op \in {"refundClient", "releaseFreelancer"} /\ dispute \in {"OPEN", "UNDER_REVIEW"}

Offered(op, p) ==
    \/ /\ p \in Proposals
       /\ ProposalCard(op, p) \/ ApplyButton(op, p) \/ WithdrawButton(op, p)
    \/ /\ p = NoProposal
       /\ \/ StatusActions(op) \/ CompletionPanel(op) \/ FreelancerCompletion(op)
          \/ AdminProjectPage(op) \/ DisputesTab(op)

-----------------------------------------------------------------------------
\* Two buttons that the server refuses: to hire on a listing that the admin
\* closed, or while the escrow is another proposal's or settled already; and to
\* complete after a refund, which leaves the project IN_PROGRESS.
KnownRefusal(op, p) ==
    \/ /\ op = "fundAndAccept"
       /\ \/ project # "OPEN"
          \/ escrow # "ABSENT" /\ ~(escrow \in {"PENDING_FUNDING", "FUNDED"} /\ escrowFor = p)
    \/ op = "complete" /\ escrow = "REFUNDED"

\* The gateway captures and refunds, within the bound of the model.
GatewayServes ==
    /\ "succeeded" \in ProviderOutcomes
    /\ charges < MaxProviderCalls /\ refunds < MaxProviderCalls

-----------------------------------------------------------------------------
(* The conditions of the actions that serve these calls *)

\* The checks of a handler before its transaction.
ListingAccepts(op) ==
    \/ op = "publish" /\ CanPublish(project)
    \/ op = "deleteDraft" /\ CanDelete(project)
    \/ op = "close" /\ CanClose(project)
    \/ op = "cancel" /\ CanCancel(project)
    \/ op = "adminClose" /\ AdminMayClose(project)
    \/ op = "complete" /\ EngagementActive
    \/ op = "requestCompletion" /\ EngagementActive /\ ~completionRequested

ProposalAccepts(op, p) ==
    \/ op = "submit" /\ project = "OPEN" /\ proposal[p] = "ABSENT"
    \/ op \in {"reject", "withdraw"} /\ proposal[p] = "PENDING"
    \/ op = "fundAndAccept" /\ CanAcceptNow(p)

DisputeAccepts(op) ==
    \/ op = "openDispute" /\ escrow = "FUNDED" /\ dispute = "ABSENT"
    \/ /\ op \in {"refundClient", "releaseFreelancer"}
       /\ dispute \in {"OPEN", "UNDER_REVIEW"}

Accepts(op, p) ==
    \/ p \in Proposals /\ ProposalAccepts(op, p)
    \/ p = NoProposal /\ (ListingAccepts(op) \/ DisputeAccepts(op))

\* What the next step of a request in flight asks of the rows, the locks and the
\* gateway.
ListingProceeds(r) ==
    \/ /\ req[r].op \in {"publish", "close", "cancel", "adminClose", "requestCompletion"}
       /\ req[r].pc = "checked"
       /\ project # "ABSENT" /\ Free("project", r)
    \/ /\ At(r, "deleteDraft", "checked")
       /\ project # "ABSENT" /\ \A row \in Rows : Free(row, r)
    \/ At(r, "complete", "read") /\ escrow # "DISPUTED"
    \/ At(r, "complete", "checked") /\ StillInProgress(r) /\ escrow \in Releasable
    \/ At(r, "complete", "inTx") /\ (req[r].seen = "FUNDED" => escrow # "ABSENT")

ProposalProceeds(r) ==
    \/ /\ At(r, "submit", "checked")
       /\ project # "ABSENT" /\ proposal[req[r].prop] = "ABSENT"
    \/ /\ req[r].op \in {"reject", "withdraw"} /\ req[r].pc = "checked"
       /\ proposal[req[r].prop] # "ABSENT"

HireProceeds(r) ==
    /\ req[r].op = "fundAndAccept"
    /\ \/ /\ req[r].pc = "checked"
          /\ \/ escrow = "ABSENT" /\ project # "ABSENT" /\ Free("escrow", r)
             \/ escrow \in {"PENDING_FUNDING", "FUNDED"} /\ escrowFor = req[r].prop
       \/ /\ req[r].pc = "inTx"
          /\ payment # "SUCCEEDED" => MayCharge(r) /\ GatewayServes
       \/ /\ req[r].pc \in {"captured", "charged"}
          /\ Free("project", r)
          /\ CanAcceptNow(req[r].prop) /\ OneAcceptedIndexAllows(req[r].prop)
          /\ escrow = "ABSENT" => req[r].seen \in {"ABSENT", "FUNDED"}

DisputeProceeds(r) ==
    \/ At(r, "openDispute", "checked") /\ escrow # "ABSENT" /\ dispute = "ABSENT"
    \/ /\ At(r, "refundClient", "checked")
       /\ dispute # "ABSENT" /\ Free("dispute", r)
       /\ payment = "SUCCEEDED" => refunds < MaxProviderCalls
    \/ /\ req[r].op = "refundClient" /\ req[r].pc \in {"captured", "refunded"}
       /\ escrow # "ABSENT"
    \/ At(r, "releaseFreelancer", "checked") /\ dispute # "ABSENT" /\ Free("dispute", r)

Proceeds(r) ==
    ListingProceeds(r) \/ ProposalProceeds(r) \/ HireProceeds(r) \/ DisputeProceeds(r)

\* The conditions leave nothing out: where they hold the actions are enabled.
ConditionsEnable ==
    \A r \in Requests :
        /\ req[r].pc = "idle" =>
             \A op \in Operations, p \in Proposals \cup {NoProposal} :
                 Accepts(op, p) => ENABLED (Start(r) /\ req'[r].op = op /\ req'[r].prop = p)
        /\ Proceeds(r) => ENABLED (Continue(r) \/ Commit(r))

-----------------------------------------------------------------------------
(* What the pages promise *)

\* A call that is offered passes the checks before its transaction, and every
\* later one until it commits, if nobody else's call comes between.
OffersHonoured ==
    GatewayServes =>
        \A r \in Requests, op \in Operations, p \in Proposals \cup {NoProposal} :
            Offered(op, p) /\ ~KnownRefusal(op, p) =>
                IF req[r].pc = "idle"
                THEN Accepts(op, p)
                ELSE req[r].op = op /\ req[r].prop = p => Proceeds(r)

\* The deposit of a hire can always be settled from a page: by the client's
\* confirmation, or by the admin's decision.
DepositSettleable ==
    accepted # NoProposal /\ escrow \in {"FUNDED", "DISPUTED"} =>
        \E op \in {"complete", "refundClient", "releaseFreelancer"} : Offered(op, NoProposal)

\* The buttons of the pages and the checks of the services agree: what a page
\* offers on fresh rows is carried out, but for two known refusals, and no
\* deposit for a hired freelancer is left without a button that settles it.
PagesServe == OffersHonoured /\ DepositSettleable /\ ConditionsEnable
=============================================================================
