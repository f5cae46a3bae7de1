---------------------------- MODULE EscrowService ----------------------------
(***************************************************************************)
(* escrow/escrow.service.ts and proposals/proposal-acceptance.util.ts: the *)
(* escrow is prepared for one proposal, funded through PaymentService,     *)
(* released when the project completes, or disputed and resolved.          *)
(***************************************************************************)
EXTENDS PaymentService

-----------------------------------------------------------------------------
(* Accepting a proposal *)

\* loadProposalForClient, and the same checks at the head of accept.
CanAcceptNow(p) ==
    /\ project = "OPEN"
    /\ accepted = NoProposal
    /\ proposal[p] = "PENDING"

\* "Proposal_one_accepted_per_project", a partial unique index.
OneAcceptedIndexAllows(p) ==
    \A q \in Proposals \ {p} : proposal[q] # "ACCEPTED"

\* What the proposals become: the accepted one, and its pending rivals.
ProposalsAfterAccept(p) ==
    [q \in Proposals |-> IF q = p THEN "ACCEPTED"
                         ELSE IF proposal[q] = "PENDING" THEN "REJECTED"
                         ELSE proposal[q]]

\* Mutant: the project row is not linked to the proposal.
AcceptUnlinked(p) ==
    /\ project' = "IN_PROGRESS"
    /\ proposal' = ProposalsAfterAccept(p)
    /\ UNCHANGED <<accepted, completionRequested, completions>>

RecordAcceptance(p) ==
    /\ project' = "IN_PROGRESS"
    /\ accepted' = p
    /\ proposal' = ProposalsAfterAccept(p)
    /\ UNCHANGED <<completionRequested, completions>>

\* acceptProposalInTransaction: three conditional updates, each of which sees
\* the latest committed row; any of them matching no row rolls back.
AcceptInTx(r, p) ==
    /\ Free("project", r)
    /\ project = "OPEN"
    /\ accepted = NoProposal
    /\ proposal[p] = "PENDING"
    /\ OneAcceptedIndexAllows(p)
    /\ RecordAcceptance(p)

-----------------------------------------------------------------------------
(* Preparing and funding *)

\* An escrow of this proposal that still awaits funding is returned as it is.
BeginPrepare(r, p) ==
    /\ CanAcceptNow(p)
    /\ escrowFor # p
    /\ Begin(r, "prepare", p)

\* projectId and proposalId are unique: one escrow per project.
CommitPrepare(r) ==
    /\ At(r, "prepare", "checked")
    /\ project # "ABSENT"
    /\ proposal[req[r].prop] # "ABSENT"
    /\ escrow = "ABSENT"
    /\ Free("escrow", r)
    /\ escrow' = "PENDING_FUNDING"
    /\ escrowFor' = req[r].prop
    /\ Finish(r)
    /\ UNCHANGED <<projectVars, proposal, dispute, ledger, payment, gatewayVars>>

\* Mutant: the update to FUNDED forgets its condition on the status.
AnyEscrow == escrow # "ABSENT"

\* The condition of the funding updates.
StillPending == escrow = "PENDING_FUNDING"

BeginFund(r) ==
    /\ escrow = "PENDING_FUNDING"
    /\ Begin(r, "fund", NoProposal)

CommitFund(r) ==
    /\ req[r].op = "fund"
    /\ req[r].pc \in {"captured", "charged"}
    /\ StillPending
    /\ escrow' = "FUNDED"
    /\ payment' = PaymentAfterCapture(r)
    /\ Book({"DEPOSIT"})
    /\ Finish(r)
    /\ UNCHANGED <<projectVars, proposal, escrowFor, dispute, gatewayVars>>

\* completeFundingAfterPayment, called by the webhook that recorded a success.
BeginCompleteFunding(r) ==
    /\ At(r, "webhook", "applied")
    /\ payment = "SUCCEEDED"
    /\ escrow \notin {"ABSENT", "FUNDED"}
    /\ req' = [req EXCEPT ![r] = [op |-> "completeFunding", pc |-> "checked",
                                  prop |-> NoProposal, seen |-> "ABSENT"]]
    /\ UNCHANGED <<projectVars, proposal, escrowVars, payment, gatewayVars,
                   lock>>

\* A transaction that finds the escrow no longer pending returns quietly.
CommitCompleteFunding(r) ==
    /\ req[r].op = "completeFunding"
    /\ req[r].pc \in {"captured", "charged"}
    /\ escrow # "ABSENT"
    /\ IF StillPending
       THEN /\ escrow' = "FUNDED"
            /\ IF ledger["DEPOSIT"] = 0 THEN Book({"DEPOSIT"})
                                        ELSE UNCHANGED ledger
       ELSE UNCHANGED <<escrow, ledger>>
    /\ payment' = PaymentAfterCapture(r)
    /\ Finish(r)
    /\ UNCHANGED <<projectVars, proposal, escrowFor, dispute, gatewayVars>>

-----------------------------------------------------------------------------
(* fundAndAccept: ensureFundedEscrowInTx and the acceptance in one *)
(* transaction, which reads the escrow once and acts on what it saw *)

BeginFundAndAccept(r, p) ==
    /\ CanAcceptNow(p)
    /\ Begin(r, "fundAndAccept", p)

\* Mutant: no unique key keeps other escrows out while this one is inserted.
ReadEscrowUnlocked(r) ==
    /\ At(r, "fundAndAccept", "checked")
    /\ escrow = "ABSENT" \/ escrowFor = req[r].prop
    /\ escrow \in {"ABSENT", "PENDING_FUNDING", "FUNDED"}
    /\ Remember(r, IF escrow = "FUNDED" THEN "captured" ELSE "inTx", escrow)
    /\ UNCHANGED <<projectVars, proposal, escrowVars, payment, gatewayVars, lock>>

\* A missing escrow is inserted, which holds the unique keys; a funded one
\* needs no capture; one that belongs to another proposal is a conflict.
ReadEscrow(r) ==
    /\ At(r, "fundAndAccept", "checked")
    /\ \/ /\ escrow = "ABSENT"
          /\ project # "ABSENT"
          /\ Free("escrow", r)
          /\ lock' = [lock EXCEPT !["escrow"] = r]
       \/ /\ escrow \in {"PENDING_FUNDING", "FUNDED"}
          /\ escrowFor = req[r].prop
          /\ UNCHANGED lock
    /\ Remember(r, IF escrow = "FUNDED" THEN "captured" ELSE "inTx", escrow)
    /\ UNCHANGED <<projectVars, proposal, escrowVars, payment, gatewayVars>>

\* The update to FUNDED has no condition on the status the row has by now.
CommitFundAndAccept(r) ==
    /\ req[r].op = "fundAndAccept"
    /\ req[r].pc \in {"captured", "charged"}
    /\ AcceptInTx(r, req[r].prop)
    /\ IF req[r].seen = "FUNDED"
       THEN UNCHANGED <<escrow, escrowFor, ledger>>
       ELSE /\ escrow # "ABSENT" \/ req[r].seen = "ABSENT"
            /\ escrow' = "FUNDED"
            /\ escrowFor' = req[r].prop
            /\ Book({"DEPOSIT"})
    /\ payment' = PaymentAfterCapture(r)
    /\ Finish(r)
    /\ UNCHANGED <<dispute, gatewayVars>>

-----------------------------------------------------------------------------
(* Release on completion *)

\* What releaseOnComplete accepts to find; it does nothing unless FUNDED.
Releasable == {"ABSENT", "RELEASED", "FUNDED"}

\* The update to RELEASED has no condition on the status the row has by now.
ReleaseOnComplete(r) ==
    IF req[r].seen = "FUNDED"
    THEN /\ escrow # "ABSENT"
         /\ escrow' = "RELEASED"
         /\ Book({"PLATFORM_FEE", "RELEASE"})
    ELSE UNCHANGED <<escrow, ledger>>

-----------------------------------------------------------------------------
(* Disputes *)

BeginOpenDispute(r) ==
    /\ escrow = "FUNDED"
    /\ dispute = "ABSENT"
    /\ Begin(r, "openDispute", NoProposal)

\* escrowId is unique on EscrowDispute: the second insert rolls back.
CommitOpenDispute(r) ==
    /\ At(r, "openDispute", "checked")
    /\ escrow # "ABSENT"
    /\ dispute = "ABSENT"
    /\ escrow' = "DISPUTED"
    /\ dispute' = "OPEN"
    /\ Finish(r)
    /\ UNCHANGED <<projectVars, proposal, escrowFor, ledger, payment,
                   gatewayVars>>

\* Mutant: a resolved dispute may be resolved again.
ResolveAgain(r, outcome) == dispute # "ABSENT" /\ Begin(r, outcome, NoProposal)

BeginResolve(r, outcome) ==
    /\ dispute \in {"OPEN", "UNDER_REVIEW"}
    /\ Begin(r, outcome, NoProposal)

\* The dispute row is updated first, so it is locked while the gateway refunds.
RefundInTx(r) ==
    /\ At(r, "refundClient", "checked")
    /\ dispute # "ABSENT"
    /\ Free("dispute", r)
    /\ lock' = [lock EXCEPT !["dispute"] = r]
    /\ RefundCall(r)
    /\ UNCHANGED <<projectVars, proposal, escrowVars, payment, charges,
                   checkouts, events, stranded>>

CommitRefund(r) ==
    /\ req[r].op = "refundClient"
    /\ req[r].pc \in {"captured", "refunded"}
    /\ escrow # "ABSENT"
    /\ dispute' = "RESOLVED_REFUND_CLIENT"
    /\ escrow' = "REFUNDED"
    /\ payment' = PaymentAfterRefund(r)
    /\ Book({"REFUND"})
    /\ Finish(r)
    /\ UNCHANGED <<projectVars, proposal, escrowFor, gatewayVars>>

CommitRelease(r) ==
    /\ At(r, "releaseFreelancer", "checked")
    /\ dispute # "ABSENT"
    /\ Free("dispute", r)
    /\ dispute' = "RESOLVED_RELEASE_FREELANCER"
    /\ escrow' = "RELEASED"
    /\ Book({"PLATFORM_FEE", "RELEASE"})
    /\ Finish(r)
    /\ UNCHANGED <<projectVars, proposal, escrowFor, payment, gatewayVars>>
=============================================================================
