----------------------------- MODULE Marketplace -----------------------------
(***************************************************************************)
(* One engagement served by concurrent requests: the composition of the    *)
(* project, proposal, escrow and payment services over their shared rows.  *)
(***************************************************************************)
EXTENDS ProjectService, ProposalService

\* A request's first step: its handler's reads and checks.
Start(r) ==
    \/ BeginPublish(r) \/ BeginClose(r) \/ BeginCancel(r)
    \/ BeginAdminClose(r) \/ BeginDeleteDraft(r)
    \/ BeginRequestCompletion(r) \/ BeginComplete(r)
    \/ BeginFund(r) \/ BeginInitiate(r) \/ BeginWebhook(r)
    \/ BeginOpenDispute(r)
    \/ BeginResolve(r, "refundClient") \/ BeginResolve(r, "releaseFreelancer")
    \/ \E p \in Proposals :
         \/ BeginSubmit(r, p) \/ BeginReject(r, p) \/ BeginWithdraw(r, p)
         \/ BeginAccept(r, p) \/ BeginPrepare(r, p) \/ BeginFundAndAccept(r, p)

\* The steps between the first and the last.
Continue(r) ==
    \/ AssertNoDispute(r) \/ CompleteInTx(r)
    \/ ReadEscrow(r) \/ CaptureExisting(r) \/ CaptureCharge(r)
    \/ CaptureRedirect(r)
    \/ InitiateCall(r) \/ ApplySucceeded(r) \/ BeginCompleteFunding(r)
    \/ RefundInTx(r)

Commit(r) ==
    \/ CommitPublish(r) \/ CommitClose(r) \/ CommitCancel(r)
    \/ CommitAdminClose(r) \/ CommitDeleteDraft(r)
    \/ CommitRequestCompletion(r) \/ CommitComplete(r)
    \/ CommitSubmit(r) \/ CommitReject(r) \/ CommitWithdraw(r)
    \/ CommitAccept(r) \/ CommitPrepare(r) \/ CommitFund(r)
    \/ CommitCompleteFunding(r) \/ CommitFundAndAccept(r)
    \/ CommitOpenDispute(r) \/ CommitRefund(r) \/ CommitRelease(r)
    \/ InitiateRecord(r)

Gateway == PayCheckout \/ FailCheckout \/ AnnounceRefund \/ ApplyOther

Busy(r) == req[r].pc # "idle"

\* early, after any step: a hire records who is still being served.
Overlaps ==
    early' = {r \in Requests :
                /\ Busy(r)'
                /\ \/ r \in early
                   \/ accepted = NoProposal /\ accepted' # NoProposal}

Next ==
    /\ \/ \E r \in Requests : Start(r) \/ Continue(r) \/ Commit(r) \/ Abort(r)
       \/ Gateway
    /\ Overlaps

Spec == Init /\ [][Next]_vars

-----------------------------------------------------------------------------
(* Properties that hold under every interleaving *)

\* Type correctness of every row, request and lock.
TypeOK == StoreTypeOK

\* PROPOSAL_INVARIANT.md: whatever accepts, publishes, rejections and
\* withdrawals race, an accepted proposal is the one the project points to, so
\* a project never has two.
OneAccepted ==
    \A p \in Proposals : proposal[p] = "ACCEPTED" => accepted = p

\* The hire is in force: the project is under way or done, by the accepted proposal.
HireStands ==
    /\ accepted # NoProposal
    /\ project \in {"IN_PROGRESS", "COMPLETED"}
    /\ proposal[accepted] = "ACCEPTED"

\* No request that begins after the hire undoes it: whatever reopens, closes, cancels
\* or deletes the project of a hired freelancer, or withdraws or rejects his proposal,
\* had made its checks before the hire was committed.  (Such requests do undo hires.)
\* Nobody else is hired in his place in any case.
HireIsFinal ==
    [][accepted # NoProposal =>
        /\ accepted' = accepted \/ project' = "ABSENT"
        /\ HireStands => HireStands' \/ \E r \in early : ~Busy(r)']_vars

\* A freelancer is hired only against a deposit for exactly his proposal, even
\* though accept checks the escrow before its transaction.
HiredOnDeposit ==
    accepted # NoProposal =>
        /\ escrowFor = accepted
        /\ escrow \in Deposited
        /\ ledger["DEPOSIT"] >= 1

\* A double confirmation credits one completed job, and a completed project
\* has paid its freelancer.
CompletedOnce ==
    /\ completions <= 1
    /\ project = "COMPLETED" => completions = 1 /\ ledger["RELEASE"] >= 1

\* As long as nobody disputes the escrow, the ledger shows exactly one fee and
\* one payout for a released escrow, and none of them, and no refund, otherwise.
UndisputedLedger ==
    dispute = "ABSENT" =>
        /\ ledger["RELEASE"] = (IF escrow = "RELEASED" THEN 1 ELSE 0)
        /\ ledger["PLATFORM_FEE"] = ledger["RELEASE"]
        /\ ledger["REFUND"] = 0

\* The platform never holds or pays out money the gateway did not capture.
BackedByCharge ==
    payment = "SUCCEEDED" \/ escrow \in Deposited => charges >= 1

\* Without fundAndAccept, the deposit is booked exactly once however often and
\* however late the client and the webhooks fund the same escrow.
DepositBookedOnce ==
    ledger["DEPOSIT"] = (IF escrow \in Deposited THEN 1 ELSE 0)

\* The idempotency key: however many requests fund one escrow, its client is charged
\* once, but for the captures that were rolled back with their transaction and that
\* nobody returns, unless a payment was initiated separately or refunded: then the key
\* exists, and two requests that find it may both charge.
ChargedByOne == refunds = 0 => charges <= 1 + stranded

-----------------------------------------------------------------------------
(* Why they hold: the inductive invariant *)

ProposalOps == {"submit", "reject", "withdraw", "accept", "prepare",
                "fundAndAccept"}

\* The committed rows agree.
RowsSound ==
    /\ OneAccepted
    /\ HiredOnDeposit
    /\ CompletedOnce
    /\ escrow = "ABSENT" <=> escrowFor = NoProposal
    /\ escrow \in Deposited => ledger["DEPOSIT"] >= 1
    /\ escrow = "RELEASED" => ledger["RELEASE"] >= 1
    /\ dispute # "ABSENT" => escrow \in Deposited
    /\ project = "ABSENT" => escrow = "ABSENT" /\ accepted = NoProposal
    /\ project \in {"IN_PROGRESS", "COMPLETED"} => accepted # NoProposal
    /\ completions >= 1 => /\ project # "IN_PROGRESS"
                           /\ accepted # NoProposal \/ project = "ABSENT"

\* What a handler read before a deposit or a deletion may be stale; this much
\* of it still holds when the request commits.
ReadsSound(r) ==
    /\ req[r].op \in ProposalOps => req[r].prop \in Proposals
    /\ req[r].op \in {"accept", "openDispute", "refundClient"}
          \/ req[r].seen = "FUNDED"
       => project = "ABSENT" \/ escrow \in Deposited
    /\ req[r].op = "accept"
          \/ (req[r].op = "fundAndAccept" /\ req[r].seen # "ABSENT")
       => project = "ABSENT" \/ escrowFor = req[r].prop

\* A row lock means the transaction it belongs to is the only one that may
\* insert the escrow, or move the project on.
LocksSound(r) ==
    /\ req[r].op = "fundAndAccept" /\ req[r].pc \in {"inTx", "captured", "charged"}
       => /\ req[r].seen \in {"ABSENT", "PENDING_FUNDING", "FUNDED"}
          /\ req[r].seen = "ABSENT" => lock["escrow"] = r
    /\ lock["escrow"] = r
       => /\ At(r, "fundAndAccept", req[r].pc)
          /\ req[r].pc \in {"inTx", "captured", "charged"}
          /\ req[r].seen = "ABSENT"
          /\ escrow = "ABSENT"
    /\ lock["project"] = r => At(r, "complete", "inTx")
    /\ At(r, "complete", "inTx")
       => /\ lock["project"] = r
          /\ project = "IN_PROGRESS"
          /\ completions = 0
          /\ req[r].seen \in {"FUNDED", "RELEASED"}
          /\ req[r].seen = "RELEASED" => ledger["RELEASE"] >= 1

\* The strengthening of the properties above that every step preserves: rows,
\* stale reads and held locks stay consistent whatever requests interleave.
EngagementInv ==
    /\ RowsSound
    /\ \A r \in Requests : ReadsSound(r) /\ LocksSound(r)

-----------------------------------------------------------------------------
(* The abstract specification this one implements *)

Promise == INSTANCE EngagementPromise WITH
    funded   <- IF escrow \in Deposited THEN escrowFor ELSE NoProposal,
    hired    <- accepted,
    credited <- completions

\* Every step, of whatever handler, is a step of the promise or changes none of
\* its variables: funding, hiring and crediting happen once and in that order.
KeepsPromise == Promise!Spec

-----------------------------------------------------------------------------
(* Properties of requests served one after the other *)

StatusesAgree ==
    /\ project \in {"IN_PROGRESS", "COMPLETED"} <=> accepted # NoProposal
    /\ \A p \in Proposals : proposal[p] = "ACCEPTED" <=> accepted = p
    /\ project = "COMPLETED" => escrow = "RELEASED"
    /\ dispute \in {"OPEN", "UNDER_REVIEW"} <=> escrow = "DISPUTED"

LedgerBalanced ==
    /\ ledger["DEPOSIT"] = (IF escrow \in Deposited THEN 1 ELSE 0)
    /\ ledger["RELEASE"] = (IF escrow = "RELEASED" THEN 1 ELSE 0)
    /\ ledger["PLATFORM_FEE"] = ledger["RELEASE"]
    /\ ledger["REFUND"] = (IF escrow = "REFUNDED" THEN 1 ELSE 0)

\* Between two calls the project's status, the accepted proposal, the escrow and its
\* dispute agree, and the ledger with them: every deposit is still held, or was paid
\* out once to one side.
EngagementCoherent == StatusesAgree /\ LedgerBalanced

StageOf ==
    [ABSENT |-> "none", PENDING_FUNDING |-> "none", FUNDED |-> "held",
     DISPUTED |-> "disputed", RELEASED |-> "paid", REFUNDED |-> "returned"]

Settlement == INSTANCE EscrowPromise WITH
    stage <- StageOf[escrow],
    owner <- IF escrow \in Deposited THEN escrowFor ELSE NoProposal,
    done  <- project = "COMPLETED"

\* The money of a hire follows the second abstract specification: deposited once,
\* never lost with a deleted draft, disputed before a completion or not at all, and
\* paid or returned for good.
KeepsEscrowPromise == Settlement!Spec
=============================================================================
