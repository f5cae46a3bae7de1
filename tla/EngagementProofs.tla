-------------------------- MODULE EngagementProofs --------------------------
(***************************************************************************)
(* Type correctness; EngagementInv is inductive, for any number of         *)
(* requests and proposals and any answers of the gateway; the safety       *)
(* properties, the finality of a hire and the refinement of                *)
(* EngagementPromise follow.                                               *)
(***************************************************************************)
EXTENDS Marketplace, TLAPS

USE DEF ProjectStatus, ProposalStatus, EscrowStatus, DisputeStatus,
        PaymentStatus, projectVars, escrowVars, gatewayVars

-----------------------------------------------------------------------------
(* Type correctness *)

LEMMA IdleType == Idle \in Request
BY DEF Idle, Request, Pcs

\* Ending a request, or moving it on, keeps the requests and the locks typed.
LEMMA FinishType ==
    ASSUME NEW r \in Requests, StoreTypeOK, Finish(r)
    PROVE  req' \in [Requests -> Request] /\ lock' \in [Rows -> Requests \cup {NoRequest}]
BY IdleType DEF StoreTypeOK, Finish, Unlock

LEMMA GotoType ==
    ASSUME NEW r \in Requests, StoreTypeOK, NEW pc \in Pcs, Goto(r, pc)
    PROVE  req' \in [Requests -> Request]
BY DEF StoreTypeOK, Request, Goto

LEMMA RememberType ==
    ASSUME NEW r \in Requests, StoreTypeOK, NEW pc \in Pcs,
           NEW status \in EscrowStatus, Remember(r, pc, status)
    PROVE  req' \in [Requests -> Request]
BY DEF StoreTypeOK, Request, Remember

LEMMA BookType ==
    ASSUME NEW types, StoreTypeOK, Book(types)
    PROVE  ledger' \in [LedgerType -> Nat]
BY DEF StoreTypeOK, Book

LEMMA ProposalUpdateType ==
    ASSUME NEW p, StoreTypeOK, NEW status \in ProposalStatus,
           proposal' = [proposal EXCEPT ![p] = status]
    PROVE  proposal' \in [Proposals -> ProposalStatus]
BY DEF StoreTypeOK

LEMMA RequestedProposal ==
    ASSUME NEW r \in Requests, StoreTypeOK
    PROVE  req[r].prop \in Proposals \cup {NoProposal}
BY DEF StoreTypeOK, Request

\* A request that begins leaves every row alone, except that initiate may have
\* inserted the Payment row, and stands where its handler's checks passed.
LEMMA StartStep ==
    ASSUME NEW r \in Requests, StoreTypeOK, Start(r)
    PROVE  /\ req' \in [Requests -> Request]
           /\ payment' \in PaymentStatus
           /\ UNCHANGED <<projectVars, proposal, escrowVars, gatewayVars, lock>>
<1> USE StoreAssumption
    DEF Begin, BeginAt, StoreTypeOK, Request, Pcs, OperationNames
<1>1. CASE \E p \in Proposals :
             \/ BeginSubmit(r, p) \/ BeginReject(r, p) \/ BeginWithdraw(r, p)
             \/ BeginAccept(r, p) \/ BeginPrepare(r, p)
             \/ BeginFundAndAccept(r, p)
  BY <1>1 DEF BeginSubmit, BeginReject, BeginWithdraw, BeginAccept,
              BeginPrepare, BeginFundAndAccept
<1>2. CASE BeginInitiate(r)
  BY <1>2 DEF BeginInitiate
<1>3. CASE BeginResolve(r, "refundClient") \/ BeginResolve(r, "releaseFreelancer")
  BY <1>3 DEF BeginResolve
<1>4. CASE \/ BeginPublish(r) \/ BeginClose(r) \/ BeginCancel(r)
           \/ BeginAdminClose(r) \/ BeginDeleteDraft(r)
           \/ BeginRequestCompletion(r) \/ BeginComplete(r)
           \/ BeginFund(r) \/ BeginWebhook(r) \/ BeginOpenDispute(r)
  BY <1>4 DEF BeginPublish, BeginClose, BeginCancel, BeginAdminClose,
              BeginDeleteDraft, BeginRequestCompletion, BeginComplete,
              BeginFund, BeginWebhook, BeginOpenDispute
<1>5. QED
  BY <1>1, <1>2, <1>3, <1>4 DEF Start

LEMMA InitTypeOK == Init => StoreTypeOK
<1> SUFFICES ASSUME Init PROVE StoreTypeOK
  OBVIOUS
<1> USE DEF Init
<1>1. ledger \in [LedgerType -> Nat] /\ checkouts \in [{"linked", "orphan"} -> Nat]
  OBVIOUS
<1>2. proposal \in [Proposals -> ProposalStatus]
  OBVIOUS
<1>3. req \in [Requests -> Request]
  BY IdleType
<1>4. lock \in [Rows -> Requests \cup {NoRequest}]
  OBVIOUS
<1>5. QED
  BY <1>1, <1>2, <1>3, <1>4 DEF StoreTypeOK

\* A request's intermediate steps.
LEMMA ContinueTypeOK ==
    ASSUME NEW r \in Requests, StoreTypeOK, Continue(r), early' \subseteq Requests
    PROVE  StoreTypeOK'
<1> USE DEF StoreTypeOK
<1>1. CASE AssertNoDispute(r)
  BY <1>1, GotoType DEF AssertNoDispute, Pcs
<1>2. CASE CompleteInTx(r)
  BY <1>2, RememberType DEF CompleteInTx, Pcs, Rows
<1>3. CASE ReadEscrow(r)
  BY <1>3, RememberType DEF ReadEscrow, Pcs, Rows
<1>4. CASE CaptureExisting(r)
  BY <1>4, GotoType DEF CaptureExisting, Pcs
<1>5. CASE ApplySucceeded(r)
  BY <1>5, GotoType DEF ApplySucceeded, Pcs
<1>6. CASE BeginCompleteFunding(r)
  BY <1>6 DEF BeginCompleteFunding, Request, Pcs
<1>7. CASE CaptureCharge(r)
  BY <1>7, GotoType DEF CaptureCharge, HoldKey, Pcs, Rows
<1>8. CASE CaptureRedirect(r)
  BY <1>8, FinishType DEF CaptureRedirect
<1>9. CASE InitiateCall(r)
  BY <1>9, GotoType DEF InitiateCall, Pcs
<1>10. CASE RefundInTx(r)
  BY <1>10, GotoType DEF RefundInTx, RefundCall, Pcs, Rows
<1>11. QED
  BY <1>1, <1>2, <1>3, <1>4, <1>5, <1>6, <1>7, <1>8, <1>9, <1>10 DEF Continue

\* The committing step of a handler.
LEMMA CommitTypeOK ==
    ASSUME NEW r \in Requests, StoreTypeOK, Commit(r), early' \subseteq Requests
    PROVE  StoreTypeOK'
<1> USE DEF StoreTypeOK
<1>1. CASE CommitPublish(r)
  BY <1>1, FinishType DEF CommitPublish, SetProject
<1>2. CASE CommitAdminClose(r)
  BY <1>2, FinishType DEF CommitAdminClose, SetProject
<1>3. CASE CommitClose(r)
  BY <1>3, FinishType DEF CommitClose, SetProject, RejectPending
<1>4. CASE CommitCancel(r)
  BY <1>4, FinishType DEF CommitCancel, SetProject, RejectPending
<1>5. CASE CommitDeleteDraft(r)
  BY <1>5, FinishType DEF CommitDeleteDraft
<1>6. CASE CommitRequestCompletion(r)
  BY <1>6, FinishType DEF CommitRequestCompletion
<1>7. CASE CommitComplete(r)
  BY <1>7, FinishType, BookType DEF CommitComplete, ReleaseOnComplete
<1>8. CASE CommitSubmit(r)
  <2>1. proposal' \in [Proposals -> ProposalStatus]
    BY <1>8, ProposalUpdateType DEF CommitSubmit
  <2>2. QED
    BY <1>8, <2>1, FinishType DEF CommitSubmit
<1>9. CASE CommitReject(r) \/ CommitWithdraw(r)
  <2>1. PICK status \in {"REJECTED", "WITHDRAWN"} : SetProposal(r, status)
    BY <1>9 DEF CommitReject, CommitWithdraw
  <2>2. proposal' \in [Proposals -> ProposalStatus]
    BY <2>1, ProposalUpdateType DEF SetProposal
  <2>3. QED
    BY <2>1, <2>2, FinishType DEF SetProposal
<1>10. CASE CommitAccept(r)
  BY <1>10, FinishType, RequestedProposal DEF CommitAccept, AcceptInTx,
                                              RecordAcceptance, ProposalsAfterAccept
<1>11. CASE CommitPrepare(r)
  BY <1>11, FinishType, RequestedProposal DEF CommitPrepare
<1>12. CASE CommitFund(r)
  BY <1>12, FinishType, BookType DEF CommitFund, PaymentAfterCapture
<1>13. CASE CommitCompleteFunding(r)
  BY <1>13, FinishType, BookType DEF CommitCompleteFunding, PaymentAfterCapture
<1>14. CASE CommitFundAndAccept(r)
  BY <1>14, FinishType, BookType, RequestedProposal
     DEF CommitFundAndAccept, AcceptInTx, RecordAcceptance,
         ProposalsAfterAccept, PaymentAfterCapture
<1>15. CASE CommitOpenDispute(r)
  BY <1>15, FinishType DEF CommitOpenDispute
<1>16. CASE CommitRefund(r)
  BY <1>16, FinishType, BookType DEF CommitRefund, PaymentAfterRefund
<1>17. CASE CommitRelease(r)
  BY <1>17, FinishType, BookType DEF CommitRelease
<1>18. CASE InitiateRecord(r)
  BY <1>18, FinishType DEF InitiateRecord
<1>19. QED
  BY <1>1, <1>2, <1>3, <1>4, <1>5, <1>6, <1>7, <1>8, <1>9, <1>10, <1>11, <1>12,
     <1>13, <1>14, <1>15, <1>16, <1>17, <1>18 DEF Commit

LEMMA AbortTypeOK ==
    ASSUME NEW r \in Requests, StoreTypeOK, Abort(r), early' \subseteq Requests
    PROVE  StoreTypeOK'
BY FinishType DEF StoreTypeOK, Abort

LEMMA GatewayTypeOK ==
    ASSUME StoreTypeOK, Gateway, early' \subseteq Requests
    PROVE  StoreTypeOK'
<1> USE DEF StoreTypeOK
<1>1. CASE PayCheckout
  BY <1>1 DEF PayCheckout
<1>2. CASE FailCheckout
  BY <1>2 DEF FailCheckout
<1>3. CASE AnnounceRefund
  BY <1>3 DEF AnnounceRefund
<1>4. CASE ApplyOther
  BY <1>4 DEF ApplyOther
<1>5. QED
  BY <1>1, <1>2, <1>3, <1>4 DEF Gateway

\* Every row, request and lock keeps its type.
THEOREM TypeCorrect == Spec => []TypeOK
<1>1. Init => StoreTypeOK
  BY InitTypeOK
<1>2. StoreTypeOK /\ [Next]_vars => StoreTypeOK'
  <2> SUFFICES ASSUME StoreTypeOK, [Next]_vars
               PROVE  StoreTypeOK'
    OBVIOUS
  <2> early' \subseteq Requests
    BY DEF Next, Overlaps, vars, StoreTypeOK
  <2>1. ASSUME NEW r \in Requests, Start(r) PROVE StoreTypeOK'
    BY ZenonT(30), <2>1, StartStep DEF StoreTypeOK
  <2>2. ASSUME NEW r \in Requests, Continue(r) \/ Commit(r) \/ Abort(r)
        PROVE  StoreTypeOK'
    BY <2>2, ContinueTypeOK, CommitTypeOK, AbortTypeOK
  <2>3. CASE Gateway
    BY <2>3, GatewayTypeOK
  <2>4. CASE UNCHANGED vars
    BY <2>4 DEF vars, StoreTypeOK
  <2>5. QED
    BY <2>1, <2>2, <2>3, <2>4 DEF Next
<1>3. QED
  BY <1>1, <1>2, PTL DEF Spec, TypeOK

HIDE DEF ProjectStatus, ProposalStatus, EscrowStatus, DisputeStatus, PaymentStatus

-----------------------------------------------------------------------------
(* The invariant *)

RowsUnchanged == UNCHANGED <<projectVars, proposal, escrowVars>>

\* What a step of request r may do to the rows without surprising the others:
\* deposits and the escrow's owner last until the project is deleted, and
\* what another request has locked does not change.
Advance(r) ==
    /\ project = "ABSENT" => project' = "ABSENT"
    /\ escrow \in Deposited => project' = "ABSENT" \/ escrow' \in Deposited
    /\ escrowFor # NoProposal => project' = "ABSENT" \/ escrowFor' = escrowFor
    /\ Free("escrow", r) \/ escrow # "ABSENT" \/ escrow' = "ABSENT"
    /\ Free("project", r)
         \/ /\ project' = project
            /\ completions' = completions
            /\ ledger'["RELEASE"] >= ledger["RELEASE"]

\* The step of r leaves the other requests and their locks alone.
OthersUntouched(r) ==
    \A r2 \in Requests \ {r} :
        /\ req'[r2] = req[r2]
        /\ \A row \in Rows : lock'[row] = r2 <=> lock[row] = r2

LEMMA RowsKept ==
    ASSUME RowsSound, RowsUnchanged
    PROVE  RowsSound'
BY DEF RowsSound, RowsUnchanged, OneAccepted, HiredOnDeposit, CompletedOnce

LEMMA AdvanceKept ==
    ASSUME NEW r, StoreTypeOK, RowsUnchanged
    PROVE  Advance(r)
BY DEF Advance, RowsUnchanged, StoreTypeOK, LedgerType

LEMMA OthersSound ==
    ASSUME NEW r \in Requests, StoreTypeOK, StoreTypeOK', EngagementInv,
           Advance(r), OthersUntouched(r), NEW r2 \in Requests \ {r}
    PROVE  ReadsSound(r2)' /\ LocksSound(r2)'
<1> USE StoreAssumption
<1>1. /\ req'[r2] = req[r2]
      /\ lock'["escrow"] = r2 <=> lock["escrow"] = r2
      /\ lock'["project"] = r2 <=> lock["project"] = r2
  BY DEF OthersUntouched, Rows
<1>2. ReadsSound(r2) /\ LocksSound(r2) /\ RowsSound
  BY DEF EngagementInv
<1>3. ReadsSound(r2)'
  <2>1. (req[r2].op \in ProposalOps => req[r2].prop \in Proposals)'
    BY <1>1, <1>2 DEF ReadsSound
  <2>2. ((req[r2].op \in {"accept", "openDispute", "refundClient"}
            \/ req[r2].seen = "FUNDED")
           => project = "ABSENT" \/ escrow \in Deposited)'
    BY <1>1, <1>2 DEF ReadsSound, Advance
  <2>3. ((req[r2].op = "accept"
            \/ (req[r2].op = "fundAndAccept" /\ req[r2].seen # "ABSENT"))
           => project = "ABSENT" \/ escrowFor = req[r2].prop)'
    BY <1>1, <1>2 DEF ReadsSound, ProposalOps, Advance
  <2>4. QED
    BY <2>1, <2>2, <2>3 DEF ReadsSound
<1>4. LocksSound(r2)'
  <2>1. lock["escrow"] = r2 => escrow' = "ABSENT"
    BY <1>2 DEF LocksSound, Advance, Free
  <2>2. lock["project"] = r2 =>
          /\ project' = project
          /\ completions' = completions
          /\ ledger'["RELEASE"] >= ledger["RELEASE"]
    BY DEF Advance, Free
  <2>3. ledger["RELEASE"] \in Nat /\ ledger'["RELEASE"] \in Nat
    BY DEF StoreTypeOK, LedgerType
  <2>4. (req[r2].op = "fundAndAccept" /\ req[r2].pc \in {"inTx", "captured", "charged"}
          => /\ req[r2].seen \in {"ABSENT", "PENDING_FUNDING", "FUNDED"}
             /\ req[r2].seen = "ABSENT" => lock["escrow"] = r2)'
    BY <1>1, <1>2 DEF LocksSound
  <2>5. (lock["escrow"] = r2
          => /\ At(r2, "fundAndAccept", req[r2].pc)
             /\ req[r2].pc \in {"inTx", "captured", "charged"}
             /\ req[r2].seen = "ABSENT"
             /\ escrow = "ABSENT")'
    BY <1>1, <1>2, <2>1 DEF LocksSound, At
  <2>6. (lock["project"] = r2 => At(r2, "complete", "inTx"))'
    BY <1>1, <1>2 DEF LocksSound, At
  <2>7. CASE req[r2].op = "complete" /\ req[r2].pc = "inTx"
    <3>1. /\ lock["project"] = r2
          /\ project = "IN_PROGRESS"
          /\ completions = 0
          /\ req[r2].seen \in {"FUNDED", "RELEASED"}
          /\ req[r2].seen = "RELEASED" => ledger["RELEASE"] >= 1
      BY <1>2, <2>7 DEF LocksSound, At
    <3>2. req[r2].seen = "RELEASED" => ledger'["RELEASE"] >= 1
      BY <3>1, <2>2, <2>3
    <3>3. QED
      BY <3>1, <3>2, <2>2, <1>1, <2>4, <2>5, <2>6 DEF LocksSound, At
  <2>8. CASE ~(req[r2].op = "complete" /\ req[r2].pc = "inTx")
    BY <2>8, <1>1, <2>4, <2>5, <2>6 DEF LocksSound, At
  <2>9. QED
    BY <2>7, <2>8
<1>5. QED
  BY <1>3, <1>4
\* A request that ends holds no lock and has nothing left to act on.
LEMMA FinishSound ==
    ASSUME NEW r \in Requests, StoreTypeOK, StoreTypeOK', EngagementInv,
           Finish(r), Advance(r), RowsSound'
    PROVE  EngagementInv'
<1> USE StoreAssumption
<1>1. req'[r] = Idle /\ lock'["escrow"] # r /\ lock'["project"] # r
  BY DEF Finish, Unlock, StoreTypeOK, Rows
<1>2. ReadsSound(r)' /\ LocksSound(r)'
  BY <1>1 DEF ReadsSound, LocksSound, Idle, At, ProposalOps
<1>3. OthersUntouched(r)
  BY DEF OthersUntouched, Finish, Unlock, StoreTypeOK
<1>4. QED
  BY <1>2, <1>3, OthersSound DEF EngagementInv

\* A request that begins holds no lock.
LEMMA StartSound ==
    ASSUME NEW r \in Requests, StoreTypeOK, StoreTypeOK', EngagementInv, Start(r)
    PROVE  EngagementInv'
<1> USE StoreAssumption
<1>1. RowsUnchanged /\ UNCHANGED lock
  BY StartStep DEF RowsUnchanged
<1>2. PICK op \in OperationNames, pc \in {"checked", "read"},
           p \in Proposals \cup {NoProposal} :
        /\ req[r].pc = "idle"
        /\ req' = [req EXCEPT ![r] = [op |-> op, pc |-> pc, prop |-> p,
                                      seen |-> "ABSENT"]]
        /\ op \in ProposalOps => p \in Proposals
        /\ op \in {"accept", "openDispute", "refundClient"} => escrow \in Deposited
        /\ op = "accept" => escrowFor = p
  <2> USE DEF Begin, BeginAt, OperationNames, ProposalOps, Deposited
  <2>1. CASE \E p \in Proposals :
               \/ BeginSubmit(r, p) \/ BeginReject(r, p) \/ BeginWithdraw(r, p)
               \/ BeginPrepare(r, p) \/ BeginFundAndAccept(r, p)
    BY <2>1 DEF BeginSubmit, BeginReject, BeginWithdraw, BeginPrepare,
                BeginFundAndAccept
  <2>2. CASE \E p \in Proposals : BeginAccept(r, p)
    BY <2>2 DEF BeginAccept
  <2>3. CASE BeginOpenDispute(r)
    BY <2>3 DEF BeginOpenDispute
  <2>4. CASE BeginResolve(r, "refundClient") \/ BeginResolve(r, "releaseFreelancer")
    <3>1. escrow \in Deposited
      BY <2>4 DEF BeginResolve, EngagementInv, RowsSound
    <3>2. QED
      BY <2>4, <3>1 DEF BeginResolve
  <2>5. CASE \/ BeginPublish(r) \/ BeginClose(r) \/ BeginCancel(r)
             \/ BeginAdminClose(r) \/ BeginDeleteDraft(r)
             \/ BeginRequestCompletion(r) \/ BeginComplete(r)
             \/ BeginFund(r) \/ BeginInitiate(r) \/ BeginWebhook(r)
    BY <2>5 DEF BeginPublish, BeginClose, BeginCancel, BeginAdminClose,
                BeginDeleteDraft, BeginRequestCompletion, BeginComplete,
                BeginFund, BeginInitiate, BeginWebhook
  <2>6. QED
    BY <2>1, <2>2, <2>3, <2>4, <2>5 DEF Start
<1>3. req'[r] = [op |-> op, pc |-> pc, prop |-> p, seen |-> "ABSENT"]
  BY <1>2 DEF StoreTypeOK
<1>4. lock["escrow"] # r /\ lock["project"] # r
  BY <1>2 DEF EngagementInv, LocksSound, At
<1>5. ReadsSound(r)' /\ LocksSound(r)'
  BY <1>1, <1>2, <1>3, <1>4 DEF ReadsSound, LocksSound, At, ProposalOps, RowsUnchanged
<1>6. OthersUntouched(r)
  BY <1>1, <1>2 DEF OthersUntouched, StoreTypeOK
<1>7. QED
  BY <1>1, <1>5, <1>6, RowsKept, AdvanceKept, OthersSound DEF EngagementInv
\* An intermediate step of a request changes no row these properties are about
\* and keeps what the request's own commit relies on.
LEMMA ContinueSound ==
    ASSUME NEW r \in Requests, StoreTypeOK, StoreTypeOK', EngagementInv, Continue(r)
    PROVE  EngagementInv'
<1> USE StoreAssumption
<1>1. RowsUnchanged
  BY DEF Continue, AssertNoDispute, CompleteInTx, ReadEscrow, CaptureExisting,
         CaptureCharge, CaptureRedirect, MayCharge, InitiateCall, ApplySucceeded,
         BeginCompleteFunding, RefundInTx, RowsUnchanged
<1>2. CASE CaptureRedirect(r)
  BY <1>1, <1>2, RowsKept, AdvanceKept, FinishSound DEF CaptureRedirect, EngagementInv
<1>3. CASE ~CaptureRedirect(r)
  <2>1. OthersUntouched(r)
    <3> USE DEF OthersUntouched, StoreTypeOK, Goto, Remember
    <3>1. CASE AssertNoDispute(r) \/ CaptureExisting(r) \/ ApplySucceeded(r)
               \/ BeginCompleteFunding(r) \/ InitiateCall(r)
      BY <3>1 DEF AssertNoDispute, CaptureExisting, ApplySucceeded,
                  BeginCompleteFunding, InitiateCall
    <3>2. CASE CompleteInTx(r)
      BY <3>2 DEF CompleteInTx, StillInProgress, Free
    <3>3. CASE ReadEscrow(r)
      BY <3>3 DEF ReadEscrow, Free
    <3>4. CASE CaptureCharge(r)
      BY <3>4 DEF CaptureCharge, HoldKey, MayCharge, Free
    <3>5. CASE RefundInTx(r)
      BY <3>5 DEF RefundInTx, RefundCall, Free
    <3>6. QED
      BY <1>3, <3>1, <3>2, <3>3, <3>4, <3>5 DEF Continue
  <2>2. ReadsSound(r) /\ LocksSound(r) /\ RowsSound
    BY DEF EngagementInv
  <2>3. ReadsSound(r)' /\ LocksSound(r)'
    <3> USE DEF StoreTypeOK, Goto, Remember, RowsUnchanged
    <3>1. CASE AssertNoDispute(r) \/ ApplySucceeded(r) \/ InitiateCall(r)
      BY <1>1, <2>2, <3>1 DEF AssertNoDispute, ApplySucceeded, InitiateCall,
                              ReadsSound, LocksSound, At
    <3>2. CASE CaptureExisting(r)
      BY <1>1, <2>2, <3>2 DEF CaptureExisting, Capturing, ReadsSound, LocksSound, At
    <3>3. CASE BeginCompleteFunding(r)
      BY <1>1, <2>2, <3>3 DEF BeginCompleteFunding, ReadsSound, LocksSound, At,
                              ProposalOps
    <3>4. CASE CompleteInTx(r)
      BY <1>1, <2>2, <3>4 DEF CompleteInTx, StillInProgress, ReadsSound, LocksSound, RowsSound, At,
                              Free, Rows, Releasable, Deposited, HiredOnDeposit
    <3>5. CASE ReadEscrow(r)
      BY <1>1, <2>2, <3>5 DEF ReadEscrow, ReadsSound, LocksSound, At, Free, Rows,
                              Deposited, ProposalOps
    <3>6. CASE CaptureCharge(r)
      BY <1>1, <2>2, <3>6 DEF CaptureCharge, HoldKey, MayCharge, Capturing, ReadsSound,
                              LocksSound, At, Rows
    <3>7. CASE RefundInTx(r)
      BY <1>1, <2>2, <3>7 DEF RefundInTx, RefundCall, ReadsSound, LocksSound, At, Rows
    <3>8. QED
      BY <1>3, <3>1, <3>2, <3>3, <3>4, <3>5, <3>6, <3>7 DEF Continue
  <2>4. QED
    BY <1>1, <2>1, <2>2, <2>3, RowsKept, AdvanceKept, OthersSound DEF EngagementInv
<1>4. QED
  BY <1>2, <1>3
\* The transactions that write none of the rows above, or only move the
\* project's status by itself.
LEMMA StatusCommitSound ==
    ASSUME NEW r \in Requests, StoreTypeOK, StoreTypeOK', EngagementInv,
           \/ CommitPublish(r) \/ CommitClose(r) \/ CommitCancel(r)
           \/ CommitAdminClose(r) \/ CommitDeleteDraft(r)
           \/ CommitRequestCompletion(r) \/ CommitSubmit(r)
           \/ CommitReject(r) \/ CommitWithdraw(r) \/ InitiateRecord(r)
    PROVE  EngagementInv'
<1> USE StoreAssumption
<1>1. RowsSound
  BY DEF EngagementInv
<1>2. Finish(r) /\ RowsSound' /\ Advance(r)
  <2>1. CASE InitiateRecord(r)
    BY <1>1, <2>1, RowsKept, AdvanceKept DEF InitiateRecord, RowsUnchanged
  <2>2. CASE CommitRequestCompletion(r)
    BY <1>1, <2>2 DEF CommitRequestCompletion, RowsSound, OneAccepted,
       HiredOnDeposit, CompletedOnce, Advance, StoreTypeOK, LedgerType
  <2>3. CASE CommitSubmit(r)
    BY <1>1, <2>3 DEF CommitSubmit, RowsSound, OneAccepted, HiredOnDeposit,
       CompletedOnce, Advance, StoreTypeOK, LedgerType
  <2>4. CASE CommitReject(r) \/ CommitWithdraw(r)
    BY <1>1, <2>4 DEF CommitReject, CommitWithdraw, SetProposal, RowsSound,
       OneAccepted, HiredOnDeposit, CompletedOnce, Advance, StoreTypeOK, LedgerType
  <2>5. CASE CommitPublish(r) \/ CommitAdminClose(r)
    BY <1>1, <2>5 DEF CommitPublish, CommitAdminClose, SetProject, RowsSound,
       OneAccepted, HiredOnDeposit, CompletedOnce, Advance
  <2>6. CASE CommitClose(r) \/ CommitCancel(r)
    BY <1>1, <2>6 DEF CommitClose, CommitCancel, SetProject, RejectPending,
       RowsSound, OneAccepted, HiredOnDeposit, CompletedOnce, Advance
  <2>7. CASE CommitDeleteDraft(r)
    <3>1. Free("escrow", r) /\ Free("project", r)
      BY <2>7 DEF CommitDeleteDraft, Rows
    <3>2. QED
      BY <1>1, <2>7, <3>1 DEF CommitDeleteDraft, RowsSound, OneAccepted,
         HiredOnDeposit, CompletedOnce, Advance, Deposited
  <2>8. QED
    BY <2>1, <2>2, <2>3, <2>4, <2>5, <2>6, <2>7
<1>3. QED
  BY <1>2, FinishSound

\* An acceptance whose escrow is deposited for the accepted proposal.
LEMMA AcceptRows ==
    ASSUME NEW r \in Requests, NEW p \in Proposals, StoreTypeOK, StoreTypeOK',
           RowsSound, AcceptInTx(r, p),
           escrowFor' = p, escrow' \in Deposited, ledger'["DEPOSIT"] >= 1,
           escrow' = "RELEASED" => ledger'["RELEASE"] >= 1,
           dispute' = dispute
    PROVE  RowsSound'
<1> USE StoreAssumption
<1>1. OneAccepted'
  BY DEF AcceptInTx, RecordAcceptance, ProposalsAfterAccept, RowsSound, OneAccepted, OneAcceptedIndexAllows
<1>2. HiredOnDeposit'
  BY DEF AcceptInTx, RecordAcceptance, HiredOnDeposit
<1>3. CompletedOnce'
  BY DEF AcceptInTx, RecordAcceptance, ProposalsAfterAccept, RowsSound, CompletedOnce
<1>4. completions = 0
  BY DEF AcceptInTx, RecordAcceptance, ProposalsAfterAccept, RowsSound, StoreTypeOK
<1>5. QED
  BY <1>1, <1>2, <1>3, <1>4 DEF AcceptInTx, RecordAcceptance, ProposalsAfterAccept, RowsSound, Deposited

\* The transactions that accept a proposal or write its escrow.
LEMMA AcceptCommitSound ==
    ASSUME NEW r \in Requests, StoreTypeOK, StoreTypeOK', EngagementInv,
           CommitAccept(r) \/ CommitFundAndAccept(r)
    PROVE  EngagementInv'
<1> USE StoreAssumption
<1>1. RowsSound /\ ReadsSound(r) /\ LocksSound(r)
  BY DEF EngagementInv
<1> DEFINE p == req[r].prop
<1>2. p \in Proposals
  BY <1>1 DEF CommitAccept, CommitFundAndAccept, At, ReadsSound, ProposalOps
<1>3. AcceptInTx(r, p) /\ project = "OPEN" /\ Free("project", r)
  BY DEF CommitAccept, CommitFundAndAccept, AcceptInTx
<1>4. CASE CommitAccept(r)
  <2>1. escrow \in Deposited /\ escrowFor = p
    BY <1>1, <1>3, <1>4 DEF CommitAccept, At, ReadsSound
  <2>2. UNCHANGED escrowVars
    BY <1>4 DEF CommitAccept
  <2>3. RowsSound'
    BY <1>1, <1>2, <1>3, <2>1, <2>2, AcceptRows DEF RowsSound
  <2>4. Advance(r)
    BY <1>3, <2>2 DEF Advance
  <2>5. QED
    BY <1>4, <2>3, <2>4, FinishSound DEF CommitAccept
<1>5. CASE CommitFundAndAccept(r) /\ req[r].seen = "FUNDED"
  <2>1. escrow \in Deposited /\ escrowFor = p
    BY <1>1, <1>3, <1>5 DEF CommitFundAndAccept, ReadsSound
  <2>2. UNCHANGED escrowVars
    BY <1>5 DEF CommitFundAndAccept
  <2>3. RowsSound'
    BY <1>1, <1>2, <1>3, <2>1, <2>2, AcceptRows DEF RowsSound
  <2>4. Advance(r)
    BY <1>3, <2>2 DEF Advance
  <2>5. QED
    BY <1>5, <2>3, <2>4, FinishSound DEF CommitFundAndAccept
<1>6. CASE CommitFundAndAccept(r) /\ req[r].seen # "FUNDED"
  <2>1. /\ escrow # "ABSENT" \/ req[r].seen = "ABSENT"
        /\ escrow' = "FUNDED" /\ escrowFor' = p /\ UNCHANGED dispute
        /\ Book({"DEPOSIT"})
        /\ Finish(r)
    BY <1>6 DEF CommitFundAndAccept
  <2>2. ledger'["DEPOSIT"] >= 1 /\ ledger'["RELEASE"] = ledger["RELEASE"]
    BY <2>1 DEF Book, StoreTypeOK, LedgerType
  <2>3. req[r].seen \in {"ABSENT", "PENDING_FUNDING"}
    BY <1>1, <1>6 DEF CommitFundAndAccept, LocksSound
  <2>4. escrowFor # NoProposal => escrowFor = p
    <3>1. CASE req[r].seen = "ABSENT"
      BY <1>1, <1>6, <3>1 DEF CommitFundAndAccept, LocksSound, RowsSound
    <3>2. CASE req[r].seen # "ABSENT"
      BY <1>1, <1>3, <1>6, <3>2 DEF CommitFundAndAccept, ReadsSound
    <3>3. QED
      BY <3>1, <3>2
  <2>5. Free("escrow", r) \/ escrow # "ABSENT"
    BY <1>1, <1>6, <2>1, <2>3 DEF CommitFundAndAccept, LocksSound, Free
  <2>6. RowsSound'
    BY <1>1, <1>2, <1>3, <2>1, <2>2, AcceptRows DEF Deposited
  <2>7. Advance(r)
    BY <1>3, <2>1, <2>4, <2>5 DEF Advance, Deposited
  <2>8. QED
    BY <2>1, <2>6, <2>7, FinishSound
<1>7. QED
  BY <1>4, <1>5, <1>6

LEMMA EscrowCommitSound ==
    ASSUME NEW r \in Requests, StoreTypeOK, StoreTypeOK', EngagementInv,
           \/ CommitPrepare(r) \/ CommitFund(r) \/ CommitCompleteFunding(r)
           \/ CommitOpenDispute(r) \/ CommitRefund(r) \/ CommitRelease(r)
           \/ CommitComplete(r)
    PROVE  EngagementInv'
<1> USE StoreAssumption
<1>1. RowsSound /\ ReadsSound(r) /\ LocksSound(r)
  BY DEF EngagementInv
<1>2. \A t \in LedgerType : ledger[t] \in Nat
  BY DEF StoreTypeOK
<1> USE DEF RowsSound, Deposited, LedgerType, StoreTypeOK
<1>3. CASE CommitPrepare(r)
  <2>1. RowsSound'
    BY <1>1, <1>3 DEF CommitPrepare, At, ReadsSound, ProposalOps, OneAccepted,
       HiredOnDeposit, CompletedOnce
  <2>2. Advance(r)
    BY <1>1, <1>2, <1>3 DEF CommitPrepare, Advance
  <2>3. QED
    BY <1>3, <2>1, <2>2, FinishSound DEF CommitPrepare
<1>4. CASE CommitFund(r)
  <2>1. RowsSound'
    BY <1>1, <1>2, <1>4 DEF CommitFund, StillPending, Book, OneAccepted, HiredOnDeposit, CompletedOnce
  <2>2. Advance(r)
    BY <1>1, <1>2, <1>4 DEF CommitFund, StillPending, Book, Advance
  <2>3. QED
    BY <1>4, <2>1, <2>2, FinishSound DEF CommitFund
<1>5. CASE CommitCompleteFunding(r)
  <2>1. RowsSound'
    BY <1>1, <1>2, <1>5 DEF CommitCompleteFunding, StillPending, Book, OneAccepted,
       HiredOnDeposit, CompletedOnce
  <2>2. Advance(r)
    BY <1>1, <1>2, <1>5 DEF CommitCompleteFunding, StillPending, Book, Advance
  <2>3. QED
    BY <1>5, <2>1, <2>2, FinishSound DEF CommitCompleteFunding
<1>6. CASE CommitOpenDispute(r)
  <2>1. escrow \in Deposited
    BY <1>1, <1>6 DEF CommitOpenDispute, At, ReadsSound
  <2>2. RowsSound'
    BY <1>1, <2>1, <1>6 DEF CommitOpenDispute, OneAccepted, HiredOnDeposit, CompletedOnce
  <2>3. Advance(r)
    BY <1>1, <1>2, <1>6 DEF CommitOpenDispute, Advance
  <2>4. QED
    BY <1>6, <2>2, <2>3, FinishSound DEF CommitOpenDispute
<1>7. CASE CommitRefund(r)
  <2>1. escrow \in Deposited
    BY <1>1, <1>7 DEF CommitRefund, ReadsSound
  <2>2. RowsSound'
    BY <1>1, <1>2, <2>1, <1>7 DEF CommitRefund, Book, OneAccepted, HiredOnDeposit,
       CompletedOnce
  <2>3. Advance(r)
    BY <1>1, <1>2, <1>7 DEF CommitRefund, Book, Advance
  <2>4. QED
    BY <1>7, <2>2, <2>3, FinishSound DEF CommitRefund
<1>8. CASE CommitRelease(r)
  <2>1. RowsSound'
    BY <1>1, <1>2, <1>8 DEF CommitRelease, Book, OneAccepted, HiredOnDeposit,
       CompletedOnce
  <2>2. Advance(r)
    BY <1>1, <1>2, <1>8 DEF CommitRelease, Book, Advance
  <2>3. QED
    BY <1>8, <2>1, <2>2, FinishSound DEF CommitRelease
<1>9. CASE CommitComplete(r)
  <2>1. /\ lock["project"] = r
        /\ project = "IN_PROGRESS" /\ completions = 0
        /\ req[r].seen \in {"FUNDED", "RELEASED"}
        /\ req[r].seen = "RELEASED" => ledger["RELEASE"] >= 1
    BY <1>1, <1>9 DEF CommitComplete, LocksSound
  <2>2. escrow \in Deposited
    BY <1>1, <2>1 DEF HiredOnDeposit
  <2>3. ledger'["RELEASE"] >= 1 /\ ledger'["DEPOSIT"] = ledger["DEPOSIT"]
    BY <1>2, <1>9, <2>1 DEF CommitComplete, ReleaseOnComplete, Book
  <2>4. escrow' \in Deposited
    BY <1>9, <2>2 DEF CommitComplete, ReleaseOnComplete
  <2>5. completions' = 1 /\ project' = "COMPLETED" /\ Finish(r)
        /\ UNCHANGED <<accepted, proposal, escrowFor, dispute>>
    BY <1>9, <2>1 DEF CommitComplete
  <2>6. RowsSound'
    BY <1>1, <2>1, <2>2, <2>3, <2>4, <2>5 DEF OneAccepted, HiredOnDeposit, CompletedOnce
  <2>7. Advance(r)
    BY <1>1, <2>1, <2>2, <2>4, <2>5 DEF Advance, Free
  <2>8. QED
    BY <2>5, <2>6, <2>7, FinishSound
<1>10. QED
  BY <1>3, <1>4, <1>5, <1>6, <1>7, <1>8, <1>9
LEMMA InitSound == Init => EngagementInv
<1> SUFFICES ASSUME Init PROVE EngagementInv
  OBVIOUS
<1> USE StoreAssumption
<1>1. RowsSound
  BY DEF Init, RowsSound, OneAccepted, HiredOnDeposit, CompletedOnce, Deposited
<1>2. ASSUME NEW r \in Requests PROVE ReadsSound(r) /\ LocksSound(r)
  BY DEF Init, Idle, Rows, ReadsSound, LocksSound, At, ProposalOps
<1>3. QED
  BY <1>1, <1>2 DEF EngagementInv

LEMMA StepSound ==
    ASSUME StoreTypeOK, StoreTypeOK', EngagementInv, [Next]_vars
    PROVE  EngagementInv'
<1>1. ASSUME NEW r \in Requests, Start(r) PROVE EngagementInv'
  BY <1>1, StartSound
<1>2. ASSUME NEW r \in Requests, Continue(r) PROVE EngagementInv'
  BY <1>2, ContinueSound
<1>3. ASSUME NEW r \in Requests, Commit(r) PROVE EngagementInv'
  BY <1>3, StatusCommitSound, AcceptCommitSound, EscrowCommitSound DEF Commit
<1>4. ASSUME NEW r \in Requests, Abort(r) PROVE EngagementInv'
  BY <1>4, RowsKept, AdvanceKept, FinishSound DEF Abort, EngagementInv, RowsUnchanged
<1>5. ASSUME UNCHANGED <<projectVars, proposal, escrowVars, req, lock>>
      PROVE  EngagementInv'
  <2>1. RowsSound'
    BY <1>5, RowsKept DEF EngagementInv, RowsUnchanged
  <2>2. ASSUME NEW r \in Requests PROVE ReadsSound(r)' /\ LocksSound(r)'
    BY <1>5 DEF EngagementInv, ReadsSound, LocksSound, At
  <2>3. QED
    BY <2>1, <2>2 DEF EngagementInv
<1>6. CASE Gateway
  BY <1>5, <1>6 DEF Gateway, PayCheckout, FailCheckout, AnnounceRefund, ApplyOther
<1>7. CASE UNCHANGED vars
  BY <1>5, <1>7 DEF vars
<1>8. QED
  BY <1>1, <1>2, <1>3, <1>4, <1>6, <1>7 DEF Next

\* Every step keeps rows, stale reads and held locks consistent.
THEOREM EngagementInvariant == Spec => []EngagementInv
<1>1. Init => EngagementInv
  BY InitSound
<1>2. StoreTypeOK /\ StoreTypeOK' /\ EngagementInv /\ [Next]_vars => EngagementInv'
  BY StepSound
<1>3. QED
  BY <1>1, <1>2, TypeCorrect, PTL DEF Spec, TypeOK

\* A project never has two accepted proposals, and the accepted one is the one
\* it points to.
THEOREM AcceptedUnique == Spec => []OneAccepted
<1>1. EngagementInv => OneAccepted
  BY DEF EngagementInv, RowsSound
<1>2. QED
  BY <1>1, EngagementInvariant, PTL

\* Nobody is hired without a deposit for his own proposal.
THEOREM HiredIsFunded == Spec => []HiredOnDeposit
<1>1. EngagementInv => HiredOnDeposit
  BY DEF EngagementInv, RowsSound
<1>2. QED
  BY <1>1, EngagementInvariant, PTL

\* A job is credited at most once, and a completed project has paid for it.
THEOREM CompletionUnique == Spec => []CompletedOnce
<1>1. EngagementInv => CompletedOnce
  BY DEF EngagementInv, RowsSound
<1>2. QED
  BY <1>1, EngagementInvariant, PTL
-----------------------------------------------------------------------------
(* What the steps may never do *)

\* Every step that hires, dismisses or deletes.
LEMMA AcceptedStep ==
    ASSUME [Next]_vars
    PROVE  \/ accepted' = accepted
           \/ accepted = NoProposal
           \/ project' = "ABSENT"
<1>1. ASSUME NEW r \in Requests, Start(r)
      PROVE  accepted' = accepted
  BY <1>1 DEF Start, Begin, BeginAt, BeginPublish, BeginClose, BeginCancel,
     BeginAdminClose, BeginDeleteDraft, BeginRequestCompletion, BeginComplete,
     BeginFund, BeginInitiate, BeginWebhook, BeginOpenDispute, BeginResolve,
     BeginSubmit, BeginReject, BeginWithdraw, BeginAccept, BeginPrepare,
     BeginFundAndAccept
<1>2. ASSUME NEW r \in Requests, Continue(r)
      PROVE  accepted' = accepted
  BY <1>2 DEF Continue, AssertNoDispute, CompleteInTx, ReadEscrow,
     CaptureExisting, CaptureCharge, CaptureRedirect, InitiateCall,
     ApplySucceeded, BeginCompleteFunding, RefundInTx
<1>3. ASSUME NEW r \in Requests, CommitAccept(r) \/ CommitFundAndAccept(r)
      PROVE  accepted = NoProposal
  BY <1>3 DEF CommitAccept, CommitFundAndAccept, AcceptInTx
<1>4. ASSUME NEW r \in Requests, CommitDeleteDraft(r)
      PROVE  project' = "ABSENT"
  BY <1>4 DEF CommitDeleteDraft
<1>5. ASSUME NEW r \in Requests, Commit(r), ~CommitAccept(r),
             ~CommitFundAndAccept(r), ~CommitDeleteDraft(r)
      PROVE  accepted' = accepted
  BY <1>5 DEF Commit, CommitPublish, CommitClose, CommitCancel, CommitAdminClose,
     SetProject, CommitRequestCompletion, CommitComplete, CommitSubmit,
     CommitReject, CommitWithdraw, SetProposal, CommitPrepare, CommitFund,
     CommitCompleteFunding, CommitOpenDispute, CommitRefund, CommitRelease,
     InitiateRecord
<1>6. ASSUME NEW r \in Requests, Abort(r)
      PROVE  accepted' = accepted
  BY <1>6 DEF Abort
<1>7. CASE Gateway
  BY <1>7 DEF Gateway, PayCheckout, FailCheckout, AnnounceRefund, ApplyOther
<1>8. CASE UNCHANGED vars
  BY <1>8 DEF vars
<1>9. QED
  BY <1>1, <1>2, <1>3, <1>4, <1>5, <1>6, <1>7, <1>8 DEF Next

\* What a step does to the other requests, and to the one it serves.
Served(r) == \A r2 \in Requests \ {r} : req'[r2] = req[r2]

LEMMA FinishServes ==
    ASSUME NEW r \in Requests, StoreTypeOK, Finish(r)
    PROVE  Served(r) /\ req'[r] = Idle
BY DEF StoreTypeOK, Finish, Served

LEMMA CommitFinishes ==
    ASSUME NEW r \in Requests, Commit(r)
    PROVE  Finish(r)
BY DEF Commit, CommitPublish, CommitClose, CommitCancel, CommitAdminClose,
   CommitRequestCompletion, CommitSubmit, CommitReject, CommitWithdraw,
   SetProposal, CommitAccept, CommitDeleteDraft, CommitPrepare, CommitFund,
   CommitCompleteFunding, CommitFundAndAccept, CommitOpenDispute, CommitRefund,
   CommitRelease, CommitComplete, InitiateRecord

LEMMA GotoServes ==
    ASSUME NEW r \in Requests, StoreTypeOK, NEW pc, NEW status,
           Goto(r, pc) \/ Remember(r, pc, status)
    PROVE  Served(r) /\ req'[r].op = req[r].op /\ req'[r].pc = pc
BY DEF StoreTypeOK, Goto, Remember, Served

\* A request that would undo the hire: it writes the project's status, or the hired
\* freelancer's proposal, whatever they are by now.
Undoing(r) ==
    /\ Busy(r)
    /\ \/ req[r].op \in {"publish", "close", "cancel", "adminClose", "deleteDraft"}
       \/ req[r].op \in {"reject", "withdraw"} /\ req[r].prop = accepted

\* While a hire stands, such a request was being served when it was made.
HireInv == HireStands => \A r \in Requests : Undoing(r) => r \in early

\* None of them begins while the hire stands.
LEMMA UndoingStart ==
    ASSUME NEW r \in Requests, StoreTypeOK, HireStands, Start(r)
    PROVE  \A r2 \in Requests : Undoing(r2)' => Undoing(r2)
<1>1. UNCHANGED accepted
  BY StartStep DEF projectVars
<1> USE DEF StoreTypeOK, Begin, BeginAt, Undoing, Busy, HireStands
<1>2. CASE \E p \in Proposals : BeginReject(r, p) \/ BeginWithdraw(r, p)
  BY <1>1, <1>2 DEF BeginReject, BeginWithdraw
<1>3. CASE \E p \in Proposals :
             \/ BeginSubmit(r, p) \/ BeginAccept(r, p) \/ BeginPrepare(r, p)
             \/ BeginFundAndAccept(r, p)
  BY <1>1, <1>3 DEF BeginSubmit, BeginAccept, BeginPrepare, BeginFundAndAccept
<1>4. CASE \/ BeginPublish(r) \/ BeginClose(r) \/ BeginCancel(r)
           \/ BeginAdminClose(r) \/ BeginDeleteDraft(r)
  BY <1>4 DEF BeginPublish, BeginClose, BeginCancel, BeginAdminClose, BeginDeleteDraft,
     CanPublish, CanClose, CanCancel, AdminMayClose, CanDelete
<1>5. CASE \/ BeginRequestCompletion(r) \/ BeginComplete(r) \/ BeginInitiate(r)
           \/ BeginFund(r) \/ BeginWebhook(r) \/ BeginOpenDispute(r)
           \/ BeginResolve(r, "refundClient") \/ BeginResolve(r, "releaseFreelancer")
  BY <1>1, <1>5 DEF BeginRequestCompletion, BeginComplete, BeginInitiate, BeginFund,
     BeginWebhook, BeginOpenDispute, BeginResolve
<1>6. QED
  BY <1>2, <1>3, <1>4, <1>5 DEF Start

\* Going on does not make a request one of them.
LEMMA UndoingContinue ==
    ASSUME NEW r \in Requests, StoreTypeOK, Continue(r)
    PROVE  \A r2 \in Requests : Undoing(r2)' => Undoing(r2)
<1>1. UNCHANGED accepted
  BY DEF Continue, AssertNoDispute, CompleteInTx, ReadEscrow, CaptureExisting,
     CaptureCharge, CaptureRedirect, InitiateCall, ApplySucceeded,
     BeginCompleteFunding, RefundInTx, projectVars
<1>2. CASE BeginCompleteFunding(r)
  BY <1>1, <1>2 DEF BeginCompleteFunding, StoreTypeOK, Undoing, Busy
<1>3. CASE CaptureRedirect(r)
  BY <1>1, <1>3, FinishServes DEF CaptureRedirect, Served, Undoing, Busy, Idle
<1>4. CASE ~BeginCompleteFunding(r) /\ ~CaptureRedirect(r)
  <2>1. Busy(r)
    BY <1>4 DEF Continue, AssertNoDispute, CompleteInTx, ReadEscrow, CaptureExisting,
       CaptureCharge, MayCharge, Capturing, InitiateCall, ApplySucceeded, RefundInTx,
       At, Busy
  <2>2. /\ Served(r)
        /\ req'[r].op = req[r].op /\ req'[r].prop = req[r].prop
    BY <1>4 DEF Continue, AssertNoDispute, CompleteInTx, ReadEscrow, CaptureExisting,
       CaptureCharge, InitiateCall, ApplySucceeded, RefundInTx, RefundCall, Goto,
       Remember, Served, StoreTypeOK
  <2>3. QED
    BY <1>1, <2>1, <2>2 DEF Served, Undoing, Busy
<1>5. QED
  BY <1>2, <1>3, <1>4

\* A hire that stands is undone by such a request only, which is served with that; and
\* one that does not stand is not restored.
LEMMA HireStep ==
    ASSUME StoreTypeOK, EngagementInv, accepted # NoProposal, [Next]_vars
    PROVE  /\ HireStands' => HireStands /\ accepted' = accepted
           /\ HireStands => HireStands' \/ (\E r \in Requests : Undoing(r) /\ ~Busy(r)')
<1> USE StoreAssumption
<1>1. ASSUME UNCHANGED <<project, accepted, proposal>>
      PROVE  /\ HireStands' => HireStands /\ accepted' = accepted
             /\ HireStands => HireStands'
  BY <1>1 DEF HireStands
<1>2. ASSUME NEW r \in Requests, Start(r) \/ Continue(r) \/ Abort(r)
      PROVE  UNCHANGED <<project, accepted, proposal>>
  <2>1. CASE Start(r)
    BY <2>1, StartStep DEF projectVars
  <2>2. CASE Continue(r)
    BY <2>2 DEF Continue, AssertNoDispute, CompleteInTx, ReadEscrow, CaptureExisting,
       CaptureCharge, CaptureRedirect, InitiateCall, ApplySucceeded,
       BeginCompleteFunding, RefundInTx, projectVars
  <2>3. CASE Abort(r)
    BY <2>3 DEF Abort, projectVars
  <2>4. QED
    BY <1>2, <2>1, <2>2, <2>3
<1>3. CASE Gateway \/ UNCHANGED vars
  BY <1>1, <1>3 DEF Gateway, PayCheckout, FailCheckout, AnnounceRefund, ApplyOther,
     vars, projectVars
<1>4. ASSUME NEW r \in Requests, Commit(r)
      PROVE  /\ HireStands' => HireStands /\ accepted' = accepted
             /\ HireStands => HireStands' \/ (Undoing(r) /\ ~Busy(r)')
  <2>1. ~Busy(r)'
    BY <1>4, CommitFinishes, FinishServes DEF Idle, Busy
  <2>2. CASE \/ CommitPublish(r) \/ CommitClose(r) \/ CommitCancel(r)
             \/ CommitAdminClose(r) \/ CommitDeleteDraft(r)
    BY <2>1, <2>2 DEF CommitPublish, CommitClose, CommitCancel, CommitAdminClose,
       CommitDeleteDraft, SetProject, At, Undoing, Busy, HireStands
  <2>3. CASE CommitReject(r) \/ CommitWithdraw(r)
    <3>1. UNCHANGED <<project, accepted>>
      BY <2>3 DEF CommitReject, CommitWithdraw, SetProposal, projectVars
    <3>2. PICK status \in {"REJECTED", "WITHDRAWN"} :
            proposal' = [proposal EXCEPT ![req[r].prop] = status]
      BY <2>3 DEF CommitReject, CommitWithdraw, SetProposal
    <3>3. accepted # req[r].prop => proposal'[accepted] = proposal[accepted]
      BY <3>2 DEF StoreTypeOK
    <3>4. accepted = req[r].prop => proposal'[accepted] # "ACCEPTED" /\ Undoing(r)
      BY <2>3, <3>2 DEF StoreTypeOK, CommitReject, CommitWithdraw, At, Undoing, Busy
    <3>5. QED
      BY <2>1, <3>1, <3>3, <3>4 DEF HireStands
  <2>4. CASE CommitSubmit(r)
    <3>1. UNCHANGED <<project, accepted>> /\ accepted \in Proposals
      BY <2>4 DEF CommitSubmit, projectVars, StoreTypeOK
    <3>2. accepted # req[r].prop => proposal'[accepted] = proposal[accepted]
      BY <2>4 DEF CommitSubmit, StoreTypeOK
    <3>3. accepted = req[r].prop =>
            proposal[accepted] # "ACCEPTED" /\ proposal'[accepted] # "ACCEPTED"
      BY <2>4, <3>1 DEF CommitSubmit, StoreTypeOK
    <3>4. QED
      BY <3>1, <3>2, <3>3 DEF HireStands
  <2>5. CASE CommitComplete(r)
    <3>1. project = "IN_PROGRESS"
      BY <2>5 DEF CommitComplete, EngagementInv, LocksSound
    <3>2. project' = "COMPLETED" /\ UNCHANGED <<accepted, proposal>>
      BY <2>5 DEF CommitComplete
    <3>3. QED
      BY <3>1, <3>2 DEF HireStands
  <2>6. CASE \/ CommitRequestCompletion(r) \/ CommitPrepare(r) \/ CommitFund(r)
             \/ CommitCompleteFunding(r) \/ CommitOpenDispute(r) \/ CommitRefund(r)
             \/ CommitRelease(r) \/ InitiateRecord(r)
    <3>1. UNCHANGED <<project, accepted, proposal>>
      BY <2>6 DEF CommitRequestCompletion, CommitPrepare, CommitFund,
         CommitCompleteFunding, CommitOpenDispute, CommitRefund, CommitRelease,
         InitiateRecord, projectVars
    <3>2. QED
      BY <1>1, <3>1
  <2>7. CASE CommitAccept(r) \/ CommitFundAndAccept(r)
    BY <2>7 DEF CommitAccept, CommitFundAndAccept, AcceptInTx
  <2>8. QED
    BY <1>4, <2>2, <2>3, <2>4, <2>5, <2>6, <2>7 DEF Commit
<1>5. QED
  BY <1>1, <1>2, <1>3, <1>4 DEF Next

\* A request that is served before and after a step in which nobody is hired stays on
\* record; a hire puts all of them on it.
LEMMA HireInvStep ==
    ASSUME StoreTypeOK, EngagementInv, HireInv, [Next]_vars
    PROVE  HireInv'
<1> SUFFICES ASSUME HireStands', NEW r2 \in Requests, Undoing(r2)'
             PROVE  r2 \in early'
  BY DEF HireInv
<1>1. Busy(r2)'
  BY DEF Undoing
<1>2. CASE UNCHANGED vars
  BY <1>2 DEF vars, HireInv, HireStands, Undoing, Busy, projectVars
<1>3. CASE accepted = NoProposal /\ Next
  BY <1>1, <1>3 DEF Next, Overlaps, HireStands
<1>4. CASE accepted # NoProposal /\ Next
  <2>1. HireStands /\ accepted' = accepted
    BY <1>4, HireStep
  <2>2. Undoing(r2)
    <3>1. ASSUME NEW r \in Requests, Start(r) \/ Continue(r) PROVE Undoing(r2)
      BY <2>1, <3>1, UndoingStart, UndoingContinue
    <3>2. ASSUME NEW r \in Requests, Commit(r) \/ Abort(r) PROVE Undoing(r2)
      BY <2>1, <3>2, CommitFinishes, FinishServes DEF Abort, Served, Undoing, Busy, Idle
    <3>3. CASE Gateway
      BY <2>1, <3>3 DEF Gateway, PayCheckout, FailCheckout, AnnounceRefund, ApplyOther,
         Undoing, Busy
    <3>4. QED
      BY <1>4, <3>1, <3>2, <3>3 DEF Next
  <2>3. QED
    BY <1>1, <1>4, <2>1, <2>2 DEF HireInv, Next, Overlaps
<1>5. QED
  BY <1>2, <1>3, <1>4

\* However stale the reads of requests, and however many: nobody is hired in another's
\* place, and a hire is undone only by a request that was in flight when it was made.
THEOREM HireFinal == Spec => HireIsFinal
<1>1. Init => HireInv
  BY DEF Init, HireInv, HireStands
<1>2. StoreTypeOK /\ EngagementInv /\ HireInv /\ [Next]_vars => HireInv'
  BY HireInvStep
<1>3. StoreTypeOK /\ EngagementInv /\ HireInv /\ [Next]_vars
        => [accepted # NoProposal =>
              /\ accepted' = accepted \/ project' = "ABSENT"
              /\ HireStands => HireStands' \/ \E r \in early : ~Busy(r)']_vars
  BY AcceptedStep, HireStep DEF HireInv
<1>4. QED
  BY <1>1, <1>2, <1>3, TypeCorrect, EngagementInvariant, PTL DEF Spec, TypeOK, HireIsFinal

-----------------------------------------------------------------------------
(* The refinement of EngagementPromise *)

Funded == IF escrow \in Deposited THEN escrowFor ELSE NoProposal

PromiseStep == [Promise!Next]_(Promise!promiseVars)

LEMMA QuietStep ==
    ASSUME UNCHANGED <<accepted, completions, Funded>>
    PROVE  PromiseStep
BY DEF Funded, PromiseStep, Promise!promiseVars

\* The steps that fund the escrow without accepting.
LEMMA FundingStep ==
    ASSUME NEW r \in Requests, StoreTypeOK, EngagementInv,
           CommitFund(r) \/ CommitCompleteFunding(r)
    PROVE  PromiseStep
<1>1. UNCHANGED <<accepted, completions, escrowFor>>
  BY DEF CommitFund, CommitCompleteFunding, StillPending
<1>2. CASE escrow = "PENDING_FUNDING"
  <2>1. escrow' = "FUNDED"
    BY <1>2 DEF CommitFund, CommitCompleteFunding, StillPending
  <2>2. escrowFor \in Proposals
    BY <1>2 DEF EngagementInv, RowsSound, StoreTypeOK
  <2>3. Promise!Fund(escrowFor)
    BY <1>1, <1>2, <2>1 DEF Promise!Fund, Deposited
  <2>4. QED
    BY <2>2, <2>3 DEF PromiseStep, Promise!Next
<1>3. CASE escrow # "PENDING_FUNDING"
  <2>1. UNCHANGED escrow
    BY <1>3 DEF CommitFund, CommitCompleteFunding, StillPending
  <2>2. QED
    BY <1>1, <2>1, QuietStep DEF Funded
<1>4. QED
  BY <1>2, <1>3

\* An acceptance hires the funded proposal, or funds and hires at once.
LEMMA HiringStep ==
    ASSUME NEW r \in Requests, StoreTypeOK, EngagementInv, EngagementInv',
           CommitAccept(r) \/ CommitFundAndAccept(r)
    PROVE  PromiseStep
<1> USE StoreAssumption
<1>1. RowsSound /\ ReadsSound(r) /\ LocksSound(r)
  BY DEF EngagementInv
<1> DEFINE p == req[r].prop
<1>2. p \in Proposals
  BY <1>1 DEF CommitAccept, CommitFundAndAccept, At, ReadsSound, ProposalOps
<1>3. accepted = NoProposal /\ accepted' = p /\ completions' = completions
      /\ project = "OPEN"
  BY DEF CommitAccept, CommitFundAndAccept, AcceptInTx, RecordAcceptance
<1>4. escrow' \in Deposited /\ escrowFor' = p
  BY <1>2, <1>3, StoreAssumption DEF EngagementInv, RowsSound, HiredOnDeposit
<1>5. escrow \in Deposited => escrowFor = p
  <2>1. CASE CommitAccept(r)
    BY <1>1, <1>3, <2>1 DEF CommitAccept, At, ReadsSound
  <2>2. CASE CommitFundAndAccept(r) /\ req[r].seen # "ABSENT"
    BY <1>1, <1>3, <2>2 DEF CommitFundAndAccept, ReadsSound
  <2>3. CASE CommitFundAndAccept(r) /\ req[r].seen = "ABSENT"
    BY <1>1, <2>3 DEF CommitFundAndAccept, LocksSound, Deposited
  <2>4. QED
    BY <2>1, <2>2, <2>3
<1>6. CASE escrow \in Deposited
  <2>1. Promise!Hire(p)
    BY <1>2, <1>3, <1>4, <1>5, <1>6 DEF Promise!Hire
  <2>2. QED
    BY <1>2, <2>1 DEF PromiseStep, Promise!Next
<1>7. CASE escrow \notin Deposited
  <2>1. Promise!FundAndHire(p)
    BY <1>2, <1>3, <1>4, <1>7 DEF Promise!FundAndHire
  <2>2. QED
    BY <1>2, <2>1 DEF PromiseStep, Promise!Next
<1>8. QED
  BY <1>6, <1>7

LEMMA CreditStep ==
    ASSUME NEW r \in Requests, StoreTypeOK, EngagementInv, CommitComplete(r)
    PROVE  PromiseStep
<1>1. project = "IN_PROGRESS" /\ completions = 0
  BY DEF EngagementInv, LocksSound, CommitComplete
<1>2. accepted # NoProposal /\ escrow \in Deposited
  BY <1>1 DEF EngagementInv, RowsSound, HiredOnDeposit
<1>3. completions' = 1 /\ UNCHANGED <<accepted, escrowFor>> /\ escrow' \in Deposited
  BY <1>1, <1>2 DEF CommitComplete, ReleaseOnComplete, Deposited
<1>4. Promise!Credit
  BY <1>1, <1>2, <1>3 DEF Promise!Credit
<1>5. QED
  BY <1>4 DEF PromiseStep, Promise!Next

LEMMA DeleteStep ==
    ASSUME NEW r \in Requests, CommitDeleteDraft(r)
    PROVE  PromiseStep
<1>1. Promise!Delete
  BY DEF CommitDeleteDraft, Promise!Delete, Deposited
<1>2. QED
  BY <1>1 DEF PromiseStep, Promise!Next

\* Once money was deposited a dispute and its resolution keep it so; an escrow
\* that is only prepared is not a deposit.
LEMMA DisputeStep ==
    ASSUME NEW r \in Requests, EngagementInv,
           \/ CommitPrepare(r) \/ CommitOpenDispute(r) \/ CommitRefund(r)
           \/ CommitRelease(r)
    PROVE  PromiseStep
<1>1. RowsSound /\ ReadsSound(r)
  BY DEF EngagementInv
<1>2. UNCHANGED <<accepted, completions>>
  BY DEF CommitPrepare, CommitOpenDispute, CommitRefund, CommitRelease
<1>3. CASE CommitPrepare(r)
  BY <1>2, <1>3, QuietStep DEF CommitPrepare, Funded, Deposited
<1>4. CASE ~CommitPrepare(r)
  <2>1. escrow \in Deposited
    BY <1>1, <1>4 DEF CommitOpenDispute, CommitRefund, CommitRelease, ReadsSound,
                      RowsSound, At
  <2>2. escrow' \in Deposited /\ UNCHANGED escrowFor
    BY <1>4 DEF CommitOpenDispute, CommitRefund, CommitRelease, Deposited
  <2>3. QED
    BY <1>2, <2>1, <2>2, QuietStep DEF Funded
<1>5. QED
  BY <1>3, <1>4

\* All other steps leave the deposit, the hire and the credit alone.
LEMMA OtherStep ==
    ASSUME NEW r \in Requests, StoreTypeOK,
           \/ Start(r) \/ Continue(r) \/ Abort(r)
           \/ CommitPublish(r) \/ CommitClose(r) \/ CommitCancel(r)
           \/ CommitAdminClose(r) \/ CommitRequestCompletion(r)
           \/ CommitSubmit(r) \/ CommitReject(r) \/ CommitWithdraw(r)
           \/ InitiateRecord(r)
    PROVE  PromiseStep
<1>1. UNCHANGED <<accepted, completions, escrow, escrowFor>>
  <2>1. CASE Start(r)
    BY <2>1, StartStep
  <2>2. CASE Continue(r)
    BY <2>2 DEF Continue, AssertNoDispute, CompleteInTx, ReadEscrow,
       CaptureExisting, CaptureCharge, CaptureRedirect, InitiateCall,
       ApplySucceeded, BeginCompleteFunding, RefundInTx
  <2>3. CASE ~Start(r) /\ ~Continue(r)
    BY <2>3 DEF Abort, CommitPublish, CommitClose, CommitCancel,
       CommitAdminClose, SetProject, CommitRequestCompletion, CommitSubmit,
       CommitReject, CommitWithdraw, SetProposal, InitiateRecord
  <2>4. QED
    BY <2>1, <2>2, <2>3
<1>2. QED
  BY <1>1, QuietStep DEF Funded

\* Whatever the requests interleave, the engagement is funded, hired and
\* credited as EngagementPromise says.
THEOREM PromiseKept == Spec => KeepsPromise
<1>1. Init => Promise!Init
  BY DEF Init, Promise!Init, Deposited
<1>2. StoreTypeOK /\ EngagementInv /\ EngagementInv' /\ [Next]_vars
        => [Promise!Next]_(Promise!promiseVars)
  <2> SUFFICES ASSUME StoreTypeOK, EngagementInv, EngagementInv', [Next]_vars
               PROVE  PromiseStep
    BY DEF PromiseStep
  <2>1. ASSUME NEW r \in Requests, Start(r) \/ Continue(r) \/ Commit(r) \/ Abort(r)
        PROVE  PromiseStep
    BY <2>1, FundingStep, HiringStep, CreditStep, DeleteStep, DisputeStep,
       OtherStep DEF Commit
  <2>2. CASE Gateway
    BY <2>2, QuietStep DEF Gateway, PayCheckout, FailCheckout, AnnounceRefund,
       ApplyOther, Funded
  <2>3. CASE UNCHANGED vars
    BY <2>3, QuietStep DEF vars, Funded
  <2>4. QED
    BY <2>1, <2>2, <2>3 DEF Next
<1>3. QED
  BY <1>1, <1>2, TypeCorrect, EngagementInvariant, PTL
     DEF Spec, TypeOK, KeepsPromise, Promise!Spec
=============================================================================
