-------------------------- MODULE SettlementProofs --------------------------
(***************************************************************************)
(* The money of an engagement: what the ledger shows, what the gateway     *)
(* captured and who captured it, for any number of requests; and what      *)
(* requests served one after the other leave behind.                       *)
(***************************************************************************)
EXTENDS EngagementProofs, MarketplaceClaims

USE DEF projectVars, escrowVars, gatewayVars

\* No step but a commit touches the rows of the engagement.
Uncommitted == UNCHANGED <<projectVars, proposal, escrowVars>>

LEMMA QuietRows ==
    ASSUME NEW r \in Requests, StoreTypeOK,
           Start(r) \/ Continue(r) \/ Abort(r) \/ InitiateRecord(r)
    PROVE  Uncommitted
<1>1. CASE Start(r)
  BY <1>1, StartStep DEF Uncommitted
<1>2. CASE Continue(r)
  BY <1>2 DEF Uncommitted, Continue, AssertNoDispute, CompleteInTx, ReadEscrow,
     CaptureExisting, CaptureCharge, CaptureRedirect, InitiateCall,
     ApplySucceeded, BeginCompleteFunding, RefundInTx
<1>3. CASE Abort(r) \/ InitiateRecord(r)
  BY <1>3 DEF Uncommitted, Abort, InitiateRecord
<1>4. QED
  BY <1>1, <1>2, <1>3

LEMMA QuietGateway ==
    ASSUME Gateway \/ UNCHANGED vars
    PROVE  Uncommitted /\ UNCHANGED <<req, lock>>
BY DEF Gateway, PayCheckout, FailCheckout, AnnounceRefund, ApplyOther, vars,
   Uncommitted

\* The commits that leave the escrow and its ledger alone.
LEMMA QuietEscrow ==
    ASSUME NEW r \in Requests,
           \/ CommitPublish(r) \/ CommitClose(r) \/ CommitCancel(r)
           \/ CommitAdminClose(r) \/ CommitRequestCompletion(r)
           \/ CommitSubmit(r) \/ CommitReject(r) \/ CommitWithdraw(r)
           \/ CommitAccept(r)
    PROVE  UNCHANGED <<escrowVars, completions, payment, gatewayVars>>
BY DEF CommitPublish, CommitClose, CommitCancel, CommitAdminClose, SetProject,
   CommitRequestCompletion, CommitSubmit, CommitReject, CommitWithdraw,
   SetProposal, CommitAccept, AcceptInTx, RecordAcceptance

-----------------------------------------------------------------------------
(* The ledger of an escrow that nobody disputes *)

\* Only a completion releases an escrow that nobody disputes, ...
ReleasedByCompletion ==
    dispute = "ABSENT" /\ escrow = "RELEASED" => completions >= 1

\* ... and the row lock of its project lets one completion through: the entries
\* that it writes are the first ones.
LedgerInv == UndisputedLedger /\ ReleasedByCompletion

LEMMA LedgerKept ==
    ASSUME StoreTypeOK, EngagementInv, LedgerInv,
           UNCHANGED <<escrow, dispute, ledger, completions>>
    PROVE  LedgerInv'
BY DEF LedgerInv, UndisputedLedger, ReleasedByCompletion

LEMMA LedgerCommit ==
    ASSUME StoreTypeOK, EngagementInv, LedgerInv, NEW r \in Requests,
           \/ CommitDeleteDraft(r) \/ CommitPrepare(r) \/ CommitFund(r)
           \/ CommitCompleteFunding(r) \/ CommitFundAndAccept(r)
           \/ CommitOpenDispute(r) \/ CommitRefund(r) \/ CommitRelease(r)
           \/ CommitComplete(r)
    PROVE  LedgerInv'
<1> USE DEF LedgerInv, UndisputedLedger, ReleasedByCompletion
<1>1. /\ RowsSound /\ LocksSound(r)
      /\ \A t \in LedgerType : ledger[t] \in Nat
      /\ completions \in Nat
  BY DEF EngagementInv, StoreTypeOK
<1>2. CASE CommitDeleteDraft(r)
  BY <1>2 DEF CommitDeleteDraft, LedgerType
<1>3. CASE CommitPrepare(r)
  BY <1>3 DEF CommitPrepare
<1>4. CASE CommitFund(r) \/ CommitCompleteFunding(r)
  BY <1>1, <1>4 DEF CommitFund, CommitCompleteFunding, StillPending, Book,
     LedgerType
<1>5. CASE CommitFundAndAccept(r)
  <2>1. completions = 0
    BY <1>1, <1>5 DEF CommitFundAndAccept, AcceptInTx, RowsSound
  <2>2. ~(dispute = "ABSENT" /\ escrow = "RELEASED")
    BY <2>1
  <2>3. UNCHANGED <<dispute, completions>>
    BY <1>5 DEF CommitFundAndAccept, AcceptInTx, RecordAcceptance
  <2>4. QED
    BY <1>1, <1>5, <2>2, <2>3 DEF CommitFundAndAccept, Book, LedgerType
<1>6. CASE CommitOpenDispute(r) \/ CommitRefund(r) \/ CommitRelease(r)
  BY <1>6 DEF CommitOpenDispute, CommitRefund, CommitRelease
<1>7. CASE CommitComplete(r)
  <2>1. /\ completions = 0 /\ completions' = 1 /\ dispute' = dispute
        /\ req[r].seen \in {"FUNDED", "RELEASED"}
        /\ req[r].seen = "RELEASED" => ledger["RELEASE"] >= 1
    BY <1>1, <1>7 DEF CommitComplete, LocksSound
  <2>2. CASE dispute # "ABSENT"
    BY <2>1, <2>2
  <2>3. CASE dispute = "ABSENT"
    <3>1. ledger["RELEASE"] = 0 /\ req[r].seen = "FUNDED"
      BY <2>1, <2>3
    <3>2. QED
      BY <1>1, <1>7, <2>1, <2>3, <3>1
         DEF CommitComplete, ReleaseOnComplete, Book, LedgerType
  <2>4. QED
    BY <2>2, <2>3
<1>8. QED
  BY <1>2, <1>3, <1>4, <1>5, <1>6, <1>7

LEMMA LedgerStep ==
    ASSUME StoreTypeOK, EngagementInv, LedgerInv, [Next]_vars
    PROVE  LedgerInv'
<1>1. ASSUME NEW r \in Requests,
             Start(r) \/ Continue(r) \/ Abort(r) \/ InitiateRecord(r)
      PROVE  LedgerInv'
  BY <1>1, QuietRows, LedgerKept DEF Uncommitted
<1>2. ASSUME NEW r \in Requests, Commit(r), ~InitiateRecord(r)
      PROVE  LedgerInv'
  BY <1>2, QuietEscrow, LedgerKept, LedgerCommit DEF Commit
<1>3. CASE Gateway \/ UNCHANGED vars
  BY <1>3, QuietGateway, LedgerKept DEF Uncommitted
<1>4. QED
  BY <1>1, <1>2, <1>3 DEF Next

\* As long as nobody disputes an escrow, its ledger shows one fee and one payout
\* if it was released and nothing else, whatever else its requests interleave.
THEOREM LedgerUndisputed == Spec => []UndisputedLedger
<1>1. Init => LedgerInv
  BY DEF Init, LedgerInv, UndisputedLedger, ReleasedByCompletion, LedgerType
<1>2. StoreTypeOK /\ EngagementInv /\ LedgerInv /\ [Next]_vars => LedgerInv'
  BY LedgerStep
<1>3. LedgerInv => UndisputedLedger
  BY DEF LedgerInv
<1>4. QED
  BY <1>1, <1>2, <1>3, TypeCorrect, EngagementInvariant, PTL DEF Spec, TypeOK
-----------------------------------------------------------------------------
(* Nothing is held that the gateway did not capture *)

\* A request that has seen a capture, made or found.
SawCharge(r) ==
    \/ req[r].op \in {"webhook", "completeFunding"}
    \/ req[r].pc \in {"captured", "charged"} /\ req[r].op # "refundClient"

\* As long as the gateway has captured nothing, no request believes that it did.
ChargeInv ==
    charges = 0 =>
        /\ payment # "SUCCEEDED" /\ escrow \notin Deposited
        /\ "payment.succeeded" \notin events
        /\ \A r \in Requests : ~SawCharge(r)

LEMMA ChargesGrow ==
    ASSUME StoreTypeOK, [Next]_vars
    PROVE  charges \in Nat /\ charges' \in Nat /\ charges' >= charges
<1>1. charges \in Nat
  BY DEF StoreTypeOK
<1>2. ASSUME NEW r \in Requests, Start(r)
      PROVE  charges' = charges
  BY <1>2, StartStep
<1>3. ASSUME NEW r \in Requests, Continue(r)
      PROVE  charges' = charges \/ charges' = charges + 1
  BY <1>3 DEF Continue, AssertNoDispute, CompleteInTx, ReadEscrow,
     CaptureExisting, CaptureCharge, CaptureRedirect, InitiateCall,
     ApplySucceeded, BeginCompleteFunding, RefundInTx
<1>4. ASSUME NEW r \in Requests, Commit(r) \/ Abort(r)
      PROVE  charges' = charges
  BY <1>4, QuietEscrow DEF Commit, CommitDeleteDraft, CommitPrepare, CommitFund,
     CommitCompleteFunding, CommitFundAndAccept, CommitOpenDispute, CommitRefund,
     CommitRelease, CommitComplete, InitiateRecord, Abort
<1>5. CASE Gateway \/ UNCHANGED vars
  BY <1>1, <1>5 DEF Gateway, PayCheckout, FailCheckout, AnnounceRefund, ApplyOther, vars
<1>6. QED
  BY <1>1, <1>2, <1>3, <1>4, <1>5 DEF Next

\* What a request's first step promises, by operation.
LEMMA StartServes ==
    ASSUME NEW r \in Requests, StoreTypeOK, Start(r)
    PROVE  /\ Served(r) /\ req[r].pc = "idle"
           /\ req'[r].op \in Operations /\ req'[r].pc \in {"checked", "read"}
           /\ req'[r].op = "webhook" =>
                 "payment.succeeded" \in events /\ UNCHANGED payment
           /\ payment' # payment =>
                 payment = "ABSENT" /\ payment' = "PENDING" /\ "initiate" \in Operations
<1> USE DEF StoreTypeOK, Begin, BeginAt, Served
<1>1. CASE \E p \in Proposals :
             \/ BeginSubmit(r, p) \/ BeginReject(r, p) \/ BeginWithdraw(r, p)
             \/ BeginAccept(r, p) \/ BeginPrepare(r, p) \/ BeginFundAndAccept(r, p)
  BY <1>1 DEF BeginSubmit, BeginReject, BeginWithdraw, BeginAccept,
              BeginPrepare, BeginFundAndAccept
<1>2. CASE BeginInitiate(r)
  BY <1>2 DEF BeginInitiate
<1>3. CASE \/ BeginResolve(r, "refundClient") \/ BeginResolve(r, "releaseFreelancer")
           \/ BeginOpenDispute(r) \/ BeginFund(r) \/ BeginWebhook(r)
  BY <1>3 DEF BeginResolve, BeginOpenDispute, BeginFund, BeginWebhook
<1>4. CASE \/ BeginPublish(r) \/ BeginClose(r) \/ BeginCancel(r)
           \/ BeginAdminClose(r) \/ BeginDeleteDraft(r)
           \/ BeginRequestCompletion(r) \/ BeginComplete(r)
  BY <1>4 DEF BeginPublish, BeginClose, BeginCancel, BeginAdminClose,
              BeginDeleteDraft, BeginRequestCompletion, BeginComplete
<1>5. QED
  BY <1>1, <1>2, <1>3, <1>4 DEF Start

\* A request that begins, or continues without a charge, knows of none.
LEMMA ChargeRequest ==
    ASSUME StoreTypeOK, ChargeInv, charges = 0, NEW r \in Requests, Served(r),
           ~SawCharge(r)',
           UNCHANGED <<escrow, events>>, payment' # "SUCCEEDED"
    PROVE  ChargeInv'
<1>1. ASSUME NEW r2 \in Requests PROVE ~SawCharge(r2)'
  BY DEF ChargeInv, SawCharge, Served
<1>2. QED
  BY <1>1 DEF ChargeInv

LEMMA ChargeContinue ==
    ASSUME StoreTypeOK, ChargeInv, charges = 0, charges' = 0,
           NEW r \in Requests, Continue(r)
    PROVE  ChargeInv'
<1> USE DEF ChargeInv
<1>1. CASE AssertNoDispute(r) \/ CompleteInTx(r)
  <2>1. Served(r) /\ req'[r].op = "complete" /\ req'[r].pc \in {"checked", "inTx"}
    BY <1>1, GotoServes DEF AssertNoDispute, CompleteInTx, At
  <2>2. QED
    BY <1>1, <2>1, ChargeRequest DEF AssertNoDispute, CompleteInTx, SawCharge
<1>2. CASE ReadEscrow(r)
  <2>1. escrow # "FUNDED"
    BY DEF Deposited
  <2>2. Served(r) /\ req'[r].op = "fundAndAccept" /\ req'[r].pc = "inTx"
    BY <1>2, <2>1, GotoServes DEF ReadEscrow, At
  <2>3. QED
    BY <1>2, <2>2, ChargeRequest DEF ReadEscrow, SawCharge
<1>3. CASE \/ CaptureExisting(r) \/ ApplySucceeded(r) \/ BeginCompleteFunding(r)
           \/ CaptureCharge(r)
  <2>1. ~SawCharge(r)
    OBVIOUS
  <2>2. QED
    BY <1>3, <2>1 DEF CaptureExisting, ApplySucceeded, BeginCompleteFunding,
       CaptureCharge, SawCharge, At
<1>4. CASE CaptureRedirect(r)
  <2>1. Served(r) /\ req'[r] = Idle
    BY <1>4, FinishServes DEF CaptureRedirect
  <2>2. QED
    BY <1>4, <2>1, ChargeRequest DEF CaptureRedirect, SawCharge, Idle
<1>5. CASE InitiateCall(r)
  <2>1. Served(r) /\ req'[r].op = "initiate" /\ req'[r].pc \in {"declined", "redirected"}
    <3>1. PICK pc \in {"declined", "redirected"} : Goto(r, pc)
      BY <1>5 DEF InitiateCall
    <3>2. QED
      BY <1>5, <3>1, GotoServes DEF InitiateCall, At
  <2>2. QED
    BY <1>5, <2>1, ChargeRequest DEF InitiateCall, SawCharge
<1>6. CASE RefundInTx(r)
  <2>1. Served(r) /\ req'[r].op = "refundClient"
    BY <1>6, GotoServes DEF RefundInTx, RefundCall, At
  <2>2. QED
    BY <1>6, <2>1, ChargeRequest DEF RefundInTx, SawCharge
<1>7. QED
  BY <1>1, <1>2, <1>3, <1>4, <1>5, <1>6 DEF Continue

LEMMA ChargeCommit ==
    ASSUME StoreTypeOK, EngagementInv, ChargeInv, charges = 0,
           NEW r \in Requests, Commit(r) \/ Abort(r)
    PROVE  ChargeInv'
<1> USE DEF ChargeInv
<1>1. Finish(r) /\ UNCHANGED events
  BY QuietEscrow DEF Commit, Abort, CommitPublish, CommitClose, CommitCancel,
     CommitAdminClose, CommitRequestCompletion, CommitSubmit, CommitReject,
     CommitWithdraw, SetProposal, CommitAccept, CommitDeleteDraft, CommitPrepare,
     CommitFund, CommitCompleteFunding, CommitFundAndAccept, CommitOpenDispute,
     CommitRefund, CommitRelease, CommitComplete, InitiateRecord
<1>2. ASSUME NEW r2 \in Requests PROVE ~SawCharge(r2)'
  BY <1>1, FinishServes DEF SawCharge, Served, Idle
<1>3. ~SawCharge(r)
  OBVIOUS
<1>4. RowsSound /\ ReadsSound(r) /\ LocksSound(r)
  BY DEF EngagementInv
<1>5. payment' # "SUCCEEDED" /\ escrow' \notin Deposited
  <2>1. CASE \/ CommitPublish(r) \/ CommitClose(r) \/ CommitCancel(r)
             \/ CommitAdminClose(r) \/ CommitRequestCompletion(r)
             \/ CommitSubmit(r) \/ CommitReject(r) \/ CommitWithdraw(r)
             \/ CommitAccept(r)
    BY <2>1, QuietEscrow
  <2>2. CASE CommitDeleteDraft(r) \/ CommitPrepare(r) \/ Abort(r)
    BY <2>2 DEF CommitDeleteDraft, CommitPrepare, Abort, Deposited
  <2>3. CASE CommitFund(r) \/ CommitCompleteFunding(r) \/ CommitFundAndAccept(r)
    BY <2>3, <1>3 DEF CommitFund, CommitCompleteFunding, CommitFundAndAccept, SawCharge
  <2>4. CASE CommitOpenDispute(r) \/ CommitRefund(r)
    <3>1. escrow \in Deposited
      BY <2>4, <1>4 DEF CommitOpenDispute, CommitRefund, At, ReadsSound, RowsSound
    <3>2. QED
      BY <3>1
  <2>5. CASE CommitRelease(r)
    BY <2>5, <1>4 DEF CommitRelease, RowsSound
  <2>6. CASE CommitComplete(r)
    BY <2>6, <1>4 DEF CommitComplete, LocksSound, RowsSound, HiredOnDeposit
  <2>7. CASE InitiateRecord(r)
    BY <2>7, <1>3 DEF InitiateRecord, SawCharge
  <2>8. QED
    BY <2>1, <2>2, <2>3, <2>4, <2>5, <2>6, <2>7 DEF Commit
<1>6. QED
  BY <1>1, <1>2, <1>5

LEMMA ChargeStep ==
    ASSUME StoreTypeOK, EngagementInv, ChargeInv, [Next]_vars
    PROVE  ChargeInv'
<1>1. CASE charges' # 0
  BY <1>1 DEF ChargeInv
<1>2. CASE charges' = 0
  <2>1. charges = 0
    BY <1>2, ChargesGrow
  <2>2. ASSUME NEW r \in Requests, Start(r)
        PROVE  ChargeInv'
    <3>1. /\ UNCHANGED <<escrow, events>> /\ payment' # "SUCCEEDED"
          /\ Served(r) /\ ~SawCharge(r)'
      BY <2>1, <2>2, StartStep, StartServes, StoreAssumption
         DEF ChargeInv, SawCharge, OperationNames
    <3>2. QED
      BY <2>1, <3>1, ChargeRequest
  <2>3. ASSUME NEW r \in Requests, Continue(r)
        PROVE  ChargeInv'
    BY <1>2, <2>1, <2>3, ChargeContinue
  <2>4. ASSUME NEW r \in Requests, Commit(r) \/ Abort(r)
        PROVE  ChargeInv'
    BY <2>1, <2>4, ChargeCommit
  <2>5. CASE Gateway
    BY <1>2, <2>1, <2>5 DEF Gateway, PayCheckout, FailCheckout, AnnounceRefund,
       ApplyOther, ChargeInv, SawCharge, StoreTypeOK
  <2>6. CASE UNCHANGED vars
    BY <2>1, <2>6 DEF vars, ChargeInv, SawCharge
  <2>7. QED
    BY <2>2, <2>3, <2>4, <2>5, <2>6 DEF Next
<1>3. QED
  BY <1>1, <1>2

\* The platform never holds or pays out money that the gateway did not capture,
\* whatever payments, webhooks and refunds interleave.
THEOREM BackedAlways == Spec => []BackedByCharge
<1>1. Init => ChargeInv
  BY DEF Init, ChargeInv, SawCharge, Idle, Deposited
<1>2. StoreTypeOK /\ EngagementInv /\ ChargeInv /\ [Next]_vars => ChargeInv'
  BY ChargeStep
<1>3. StoreTypeOK /\ ChargeInv => BackedByCharge
  BY DEF StoreTypeOK, ChargeInv, BackedByCharge
<1>4. QED
  BY <1>1, <1>2, <1>3, TypeCorrect, EngagementInvariant, PTL DEF Spec, TypeOK
-----------------------------------------------------------------------------
(* Who deposits, and who charges, while one way of paying is not used *)

\* No request of an endpoint that is not called is in flight.
NoCallOf(op) == \A r \in Requests : req[r].op # op

LEMMA NoCallStep ==
    ASSUME StoreTypeOK, NEW op \in OperationNames \ Operations, NoCallOf(op),
           [Next]_vars
    PROVE  NoCallOf(op)'
<1> USE DEF NoCallOf
<1>1. op \notin {"none", "completeFunding"}
  BY DEF OperationNames
<1>2. ASSUME NEW r \in Requests, Served(r), req'[r].op # op
      PROVE  NoCallOf(op)'
  BY <1>2 DEF Served
<1>3. ASSUME NEW r \in Requests, Start(r)
      PROVE  NoCallOf(op)'
  BY <1>2, <1>3, StartServes
<1>4. ASSUME NEW r \in Requests, NEW pc, NEW status, Goto(r, pc) \/ Remember(r, pc, status)
      PROVE  NoCallOf(op)'
  BY ZenonT(30), <1>2, <1>4, GotoServes
<1>5. ASSUME NEW r \in Requests, Finish(r)
      PROVE  NoCallOf(op)'
  BY <1>1, <1>2, <1>5, FinishServes DEF Idle
<1>6. ASSUME NEW r \in Requests, Continue(r)
      PROVE  NoCallOf(op)'
  <2>1. CASE BeginCompleteFunding(r)
    BY <1>1, <1>2, <2>1 DEF BeginCompleteFunding, StoreTypeOK, Served
  <2>2. CASE CaptureRedirect(r)
    BY <1>5, <2>2 DEF CaptureRedirect
  <2>3. CASE \/ AssertNoDispute(r) \/ CompleteInTx(r) \/ ReadEscrow(r)
             \/ CaptureExisting(r) \/ CaptureCharge(r) \/ InitiateCall(r)
             \/ ApplySucceeded(r) \/ RefundInTx(r)
    BY <1>4, <2>3 DEF AssertNoDispute, CompleteInTx, ReadEscrow, CaptureExisting,
       CaptureCharge, InitiateCall, ApplySucceeded, RefundInTx, RefundCall
  <2>4. QED
    BY <1>6, <2>1, <2>2, <2>3 DEF Continue
<1>7. ASSUME NEW r \in Requests, Commit(r) \/ Abort(r)
      PROVE  NoCallOf(op)'
  BY <1>5, <1>7, CommitFinishes DEF Abort
<1>8. CASE Gateway \/ UNCHANGED vars
  BY <1>8, QuietGateway
<1>9. QED
  BY <1>3, <1>6, <1>7, <1>8 DEF Next

LEMMA NoCallInit ==
    ASSUME NEW op \in OperationNames
    PROVE  Init => NoCallOf(op)
BY DEF Init, NoCallOf, Idle, OperationNames

LEMMA DepositKept ==
    ASSUME DepositBookedOnce, UNCHANGED <<escrow, ledger>>
    PROVE  DepositBookedOnce'
BY DEF DepositBookedOnce

LEMMA DepositStep ==
    ASSUME StoreTypeOK, EngagementInv, NoCallOf("fundAndAccept"),
           DepositBookedOnce, [Next]_vars
    PROVE  DepositBookedOnce'
<1>1. ASSUME NEW r \in Requests,
             Start(r) \/ Continue(r) \/ Abort(r) \/ InitiateRecord(r)
      PROVE  DepositBookedOnce'
  BY <1>1, QuietRows, DepositKept DEF Uncommitted
<1>2. ASSUME NEW r \in Requests, Commit(r), ~InitiateRecord(r)
      PROVE  DepositBookedOnce'
  <2>1. /\ RowsSound /\ ReadsSound(r) /\ LocksSound(r)
        /\ \A t \in LedgerType : ledger[t] \in Nat
    BY DEF EngagementInv, StoreTypeOK
  <2>2. CASE CommitDeleteDraft(r) \/ CommitPrepare(r)
    BY <2>2 DEF CommitDeleteDraft, CommitPrepare, DepositBookedOnce, Deposited,
       LedgerType
  <2>3. CASE CommitFund(r) \/ CommitCompleteFunding(r)
    BY <2>1, <2>3 DEF CommitFund, CommitCompleteFunding, StillPending, Book,
       DepositBookedOnce, Deposited, LedgerType
  <2>4. CASE CommitOpenDispute(r) \/ CommitRefund(r) \/ CommitRelease(r)
    <3>1. escrow \in Deposited
      BY <2>1, <2>4 DEF CommitOpenDispute, CommitRefund, CommitRelease, At,
         ReadsSound, RowsSound
    <3>2. escrow' \in Deposited /\ ledger'["DEPOSIT"] = ledger["DEPOSIT"]
      BY <2>1, <2>4 DEF CommitOpenDispute, CommitRefund, CommitRelease, Book,
         Deposited, LedgerType
    <3>3. QED
      BY <3>1, <3>2 DEF DepositBookedOnce
  <2>5. CASE CommitComplete(r)
    <3>1. escrow \in Deposited
      BY <2>1, <2>5 DEF CommitComplete, LocksSound, RowsSound, HiredOnDeposit
    <3>2. escrow' \in Deposited /\ ledger'["DEPOSIT"] = ledger["DEPOSIT"]
      BY <2>1, <2>5, <3>1 DEF CommitComplete, ReleaseOnComplete, Book, Deposited,
         LedgerType
    <3>3. QED
      BY <3>1, <3>2 DEF DepositBookedOnce
  <2>6. ~CommitFundAndAccept(r)
    BY DEF NoCallOf, CommitFundAndAccept
  <2>7. QED
    BY <1>2, <2>2, <2>3, <2>4, <2>5, <2>6, QuietEscrow, DepositKept DEF Commit
<1>3. CASE Gateway \/ UNCHANGED vars
  BY <1>3, QuietGateway, DepositKept DEF Uncommitted
<1>4. QED
  BY <1>1, <1>2, <1>3 DEF Next

\* While nobody funds and accepts in one call, a deposit is booked exactly once,
\* however often and however late the client and the webhooks fund the escrow.
THEOREM DepositOnce ==
    ASSUME "fundAndAccept" \notin Operations
    PROVE  Spec => []DepositBookedOnce
<1>1. Init => DepositBookedOnce
  BY DEF Init, DepositBookedOnce, Deposited, LedgerType
<1>2. StoreTypeOK /\ EngagementInv /\ NoCallOf("fundAndAccept") /\ DepositBookedOnce
        /\ [Next]_vars => DepositBookedOnce'
  BY DepositStep
<1>3. Init => NoCallOf("fundAndAccept")
  BY NoCallInit DEF OperationNames
<1>4. StoreTypeOK /\ NoCallOf("fundAndAccept") /\ [Next]_vars => NoCallOf("fundAndAccept")'
  BY NoCallStep DEF OperationNames
<1>5. QED
  BY <1>1, <1>2, <1>3, <1>4, TypeCorrect, EngagementInvariant, PTL DEF Spec, TypeOK

\* As long as nothing was refunded there is a Payment row only once it succeeded,
\* so a checkout has no row to refer to and its webhook finds none; a request that
\* has charged the client is inserting that row and holds its key.
KeyInv ==
    refunds = 0 =>
        /\ payment \in {"ABSENT", "SUCCEEDED"}
        /\ checkouts["linked"] = 0 /\ events = {}
        /\ \A r \in Requests :
              /\ req[r].op # "webhook" /\ req[r].pc # "refunded"
              /\ req[r].pc = "charged" => payment = "ABSENT" /\ lock["payment"] = r

LEMMA RefundsGrow ==
    ASSUME StoreTypeOK, [Next]_vars
    PROVE  refunds \in Nat /\ refunds' \in Nat /\ refunds' >= refunds
<1>1. refunds \in Nat
  BY DEF StoreTypeOK
<1>2. ASSUME NEW r \in Requests, Start(r)
      PROVE  refunds' = refunds
  BY <1>2, StartStep
<1>3. ASSUME NEW r \in Requests, Continue(r)
      PROVE  refunds' = refunds \/ refunds' = refunds + 1
  BY <1>3 DEF Continue, AssertNoDispute, CompleteInTx, ReadEscrow,
     CaptureExisting, CaptureCharge, CaptureRedirect, InitiateCall,
     ApplySucceeded, BeginCompleteFunding, RefundInTx, RefundCall
<1>4. ASSUME NEW r \in Requests, Commit(r) \/ Abort(r)
      PROVE  refunds' = refunds
  BY <1>4, QuietEscrow DEF Commit, CommitDeleteDraft, CommitPrepare, CommitFund,
     CommitCompleteFunding, CommitFundAndAccept, CommitOpenDispute, CommitRefund,
     CommitRelease, CommitComplete, InitiateRecord, Abort
<1>5. CASE Gateway \/ UNCHANGED vars
  BY <1>1, <1>5 DEF Gateway, PayCheckout, FailCheckout, AnnounceRefund, ApplyOther, vars
<1>6. QED
  BY <1>1, <1>2, <1>3, <1>4, <1>5 DEF Next

\* A step that leaves the Payment row and its key alone, unless it refunds.
LEMMA KeyRequest ==
    ASSUME StoreTypeOK, KeyInv, refunds = 0, NEW r \in Requests, Served(r),
           req'[r].op # "webhook", req'[r].pc \notin {"refunded", "charged"},
           \A r2 \in Requests \ {r} : lock["payment"] = r2 => lock'["payment"] = r2,
           UNCHANGED payment, checkouts'["linked"] = 0, events' = {}
    PROVE  KeyInv'
<1>1. ASSUME NEW r2 \in Requests
      PROVE  (/\ req[r2].op # "webhook" /\ req[r2].pc # "refunded"
              /\ req[r2].pc = "charged" => payment = "ABSENT" /\ lock["payment"] = r2)'
  <2>1. CASE r2 = r
    BY <2>1
  <2>2. CASE r2 # r
    BY <2>2 DEF KeyInv, Served
  <2>3. QED
    BY <2>1, <2>2
<1>2. QED
  BY <1>1 DEF KeyInv

LEMMA KeyContinue ==
    ASSUME StoreTypeOK, KeyInv, refunds = 0, refunds' = 0,
           NEW r \in Requests, Continue(r), req[r].op # "initiate"
    PROVE  KeyInv'
<1>0. /\ payment \in {"ABSENT", "SUCCEEDED"} /\ checkouts["linked"] = 0 /\ events = {}
      /\ req[r].op # "webhook" /\ req[r].pc # "refunded"
  BY DEF KeyInv
<1>1. CASE AssertNoDispute(r) \/ CompleteInTx(r) \/ ReadEscrow(r)
  <2>1. PICK pc \in {"checked", "inTx", "captured"} :
           Goto(r, pc) \/ Remember(r, pc, escrow)
    <3>1. \/ Goto(r, "checked") \/ Remember(r, "inTx", escrow)
          \/ Remember(r, "captured", escrow)
      BY <1>1 DEF AssertNoDispute, CompleteInTx, ReadEscrow
    <3>2. QED
      BY <3>1
  <2>2. Served(r) /\ req'[r].op = req[r].op /\ req'[r].pc = pc
    BY <2>1, GotoServes
  <2>3. UNCHANGED <<payment, checkouts, events>> /\ lock'["payment"] = lock["payment"]
    BY <1>1 DEF AssertNoDispute, CompleteInTx, ReadEscrow, StoreTypeOK, Rows
  <2>4. QED
    BY <1>0, <2>2, <2>3, KeyRequest
<1>2. CASE CaptureExisting(r)
  <2>1. Served(r) /\ req'[r].op = req[r].op /\ req'[r].pc = "captured"
    BY <1>2, GotoServes DEF CaptureExisting
  <2>2. QED
    BY <1>0, <1>2, <2>1, KeyRequest DEF CaptureExisting
<1>3. CASE CaptureCharge(r)
  <2>1. Served(r) /\ req'[r].op = req[r].op /\ req'[r].pc = "charged"
    BY <1>3, GotoServes DEF CaptureCharge
  <2>2. payment = "ABSENT" /\ lock["payment"] \in {NoRequest, r} /\ lock'["payment"] = r
    BY <1>0, <1>3 DEF CaptureCharge, MayCharge, Free, HoldKey, StoreTypeOK, Rows
  <2>3. ASSUME NEW r2 \in Requests \ {r}
        PROVE  req[r2].pc # "charged"
    BY <2>2, StoreAssumption DEF KeyInv
  <2>4. UNCHANGED <<payment, checkouts, events>>
    BY <1>3 DEF CaptureCharge
  <2>5. QED
    BY <1>0, <2>1, <2>2, <2>3, <2>4 DEF KeyInv, Served
<1>4. CASE CaptureRedirect(r)
  <2>1. Served(r) /\ req'[r] = Idle
    BY <1>4, FinishServes DEF CaptureRedirect
  <2>2. payment = "ABSENT"
    BY <1>0, <1>4 DEF CaptureRedirect, MayCharge
  <2>3. checkouts'["linked"] = 0
    BY <1>0, <1>4, <2>2 DEF CaptureRedirect, StoreTypeOK
  <2>4. \A r2 \in Requests \ {r} : lock["payment"] = r2 => lock'["payment"] = r2
    BY <1>4 DEF CaptureRedirect, Finish, Unlock, Rows
  <2>5. QED
    BY <1>0, <1>4, <2>1, <2>3, <2>4, KeyRequest DEF CaptureRedirect, Idle
<1>5. CASE RefundInTx(r)
  <2>1. Goto(r, "captured")
    BY <1>5 DEF RefundInTx, RefundCall
  <2>2. Served(r) /\ req'[r].op = req[r].op /\ req'[r].pc = "captured"
    BY <2>1, GotoServes
  <2>3. UNCHANGED <<payment, checkouts, events>> /\ lock'["payment"] = lock["payment"]
    BY <1>5 DEF RefundInTx, StoreTypeOK
  <2>4. QED
    BY <1>0, <2>2, <2>3, KeyRequest
<1>6. ~InitiateCall(r) /\ ~ApplySucceeded(r) /\ ~BeginCompleteFunding(r)
  BY <1>0 DEF InitiateCall, ApplySucceeded, BeginCompleteFunding, At
<1>7. QED
  BY <1>1, <1>2, <1>3, <1>4, <1>5, <1>6 DEF Continue

LEMMA KeyCommit ==
    ASSUME StoreTypeOK, KeyInv, refunds = 0, NEW r \in Requests,
           Commit(r) \/ Abort(r), req[r].op # "initiate"
    PROVE  KeyInv'
<1>0. /\ payment \in {"ABSENT", "SUCCEEDED"} /\ checkouts["linked"] = 0 /\ events = {}
      /\ req[r].op # "webhook" /\ req[r].pc # "refunded"
  BY DEF KeyInv
<1>1. /\ Served(r) /\ req'[r] = Idle
      /\ \A r2 \in Requests \ {r} : lock["payment"] = r2 => lock'["payment"] = r2
  BY CommitFinishes, FinishServes DEF Abort, Finish, Unlock, Rows
<1>2. CASE UNCHANGED <<payment, checkouts, events>>
  BY <1>0, <1>1, <1>2, KeyRequest DEF Idle
<1>3. CASE CommitFund(r) \/ CommitCompleteFunding(r) \/ CommitFundAndAccept(r)
  <2>1. UNCHANGED <<checkouts, events>>
    BY <1>3 DEF CommitFund, CommitCompleteFunding, CommitFundAndAccept
  <2>2. CASE req[r].pc # "charged"
    BY <1>2, <1>3, <2>1, <2>2 DEF CommitFund, CommitCompleteFunding,
       CommitFundAndAccept, PaymentAfterCapture
  <2>3. CASE req[r].pc = "charged"
    <3>1. payment' = "SUCCEEDED" /\ lock["payment"] = r
      BY <1>3, <2>3 DEF CommitFund, CommitCompleteFunding, CommitFundAndAccept,
         PaymentAfterCapture, KeyInv
    <3>2. ASSUME NEW r2 \in Requests \ {r}
          PROVE  req[r2].pc # "charged"
      BY <3>1 DEF KeyInv
    <3>3. QED
      BY <1>0, <1>1, <2>1, <3>1, <3>2 DEF KeyInv, Served, Idle
  <2>4. QED
    BY <2>2, <2>3
<1>4. CASE CommitDeleteDraft(r)
  <2>1. payment' = "ABSENT" /\ checkouts'["linked"] = 0 /\ events' = {}
        /\ lock["payment"] \in {NoRequest, r}
    BY <1>0, <1>4 DEF CommitDeleteDraft, Rows, Free, StoreTypeOK
  <2>2. ASSUME NEW r2 \in Requests \ {r}
        PROVE  req[r2].pc # "charged"
    BY <2>1, StoreAssumption DEF KeyInv
  <2>3. QED
    BY <1>1, <2>1, <2>2 DEF KeyInv, Served, Idle
<1>5. CASE CommitRefund(r)
  BY <1>0, <1>2, <1>5 DEF CommitRefund, PaymentAfterRefund
<1>6. CASE \/ CommitPrepare(r) \/ CommitOpenDispute(r) \/ CommitRelease(r)
           \/ CommitComplete(r) \/ Abort(r)
  BY <1>2, <1>6 DEF CommitPrepare, CommitOpenDispute, CommitRelease,
     CommitComplete, Abort
<1>7. ~InitiateRecord(r)
  BY DEF InitiateRecord
<1>8. QED
  BY <1>2, <1>3, <1>4, <1>5, <1>6, <1>7, QuietEscrow DEF Commit

LEMMA KeyStep ==
    ASSUME StoreTypeOK, NoCallOf("initiate"), "initiate" \notin Operations,
           KeyInv, [Next]_vars
    PROVE  KeyInv'
<1>1. CASE refunds' # 0
  BY <1>1 DEF KeyInv
<1>2. CASE refunds' = 0
  <2>1. /\ refunds = 0 /\ payment \in {"ABSENT", "SUCCEEDED"}
        /\ checkouts["linked"] = 0 /\ events = {}
    BY <1>2, RefundsGrow DEF KeyInv
  <2>2. ASSUME NEW r \in Requests, Start(r)
        PROVE  KeyInv'
    <3>1. UNCHANGED <<payment, checkouts, events, lock>>
      BY <2>2, StartStep, StartServes
    <3>2. /\ Served(r) /\ req'[r].op # "webhook"
          /\ req'[r].pc \in {"checked", "read"}
      BY <2>1, <2>2, StartServes
    <3>3. QED
      BY <2>1, <3>1, <3>2, KeyRequest
  <2>3. ASSUME NEW r \in Requests, Continue(r)
        PROVE  KeyInv'
    BY <1>2, <2>1, <2>3, KeyContinue DEF NoCallOf
  <2>4. ASSUME NEW r \in Requests, Commit(r) \/ Abort(r)
        PROVE  KeyInv'
    BY <2>1, <2>4, KeyCommit DEF NoCallOf
  <2>5. CASE Gateway
    <3>1. ~FailCheckout /\ ~AnnounceRefund /\ ~ApplyOther
      BY <2>1 DEF FailCheckout, AnnounceRefund, ApplyOther
    <3>2. PayCheckout
      BY <2>5, <3>1 DEF Gateway
    <3>3. /\ UNCHANGED <<payment, events, req, lock>>
          /\ checkouts'["linked"] = 0
      BY <2>1, <3>2 DEF PayCheckout, StoreTypeOK
    <3>4. QED
      BY <2>1, <3>3 DEF KeyInv
  <2>6. CASE UNCHANGED vars
    BY <2>1, <2>6 DEF vars, KeyInv
  <2>7. QED
    BY <2>2, <2>3, <2>4, <2>5, <2>6 DEF Next
<1>3. QED
  BY <1>1, <1>2

\* A deleted project has no escrow whose keys a transaction could hold.
EscrowKeyInv == project = "ABSENT" => lock["escrow"] = NoRequest

LEMMA EscrowKeyStep ==
    ASSUME StoreTypeOK, EscrowKeyInv, [Next]_vars
    PROVE  EscrowKeyInv'
<1> USE StoreAssumption DEF EscrowKeyInv
<1>1. ASSUME UNCHANGED project, lock'["escrow"] \in {lock["escrow"], NoRequest}
      PROVE  EscrowKeyInv'
  BY <1>1
<1>2. ASSUME NEW r \in Requests, Finish(r)
      PROVE  /\ lock'["escrow"] \in {lock["escrow"], NoRequest}
             /\ Free("escrow", r) => lock'["escrow"] = NoRequest
  BY <1>2 DEF Finish, Unlock, Free, Rows
<1>3. ASSUME NEW r \in Requests, Start(r)
      PROVE  EscrowKeyInv'
  BY <1>3, StartStep
<1>4. ASSUME NEW r \in Requests, Continue(r)
      PROVE  EscrowKeyInv'
  <2>1. CASE ReadEscrow(r)
    <3>1. project = "ABSENT" => UNCHANGED lock
      BY <2>1, StoreTypeOK DEF ReadEscrow, StoreTypeOK
    <3>2. QED
      BY <2>1, <3>1 DEF ReadEscrow
  <2>2. CASE CompleteInTx(r) \/ RefundInTx(r) \/ CaptureCharge(r)
    <3>1. UNCHANGED project /\ lock'["escrow"] = lock["escrow"]
      BY <2>2 DEF CompleteInTx, RefundInTx, CaptureCharge, HoldKey, StoreTypeOK, Rows
    <3>2. QED
      BY <1>1, <3>1
  <2>3. CASE CaptureRedirect(r)
    BY <1>1, <1>2, <2>3 DEF CaptureRedirect
  <2>4. CASE \/ AssertNoDispute(r) \/ CaptureExisting(r) \/ InitiateCall(r)
             \/ ApplySucceeded(r) \/ BeginCompleteFunding(r)
    BY <2>4 DEF AssertNoDispute, CaptureExisting, InitiateCall, ApplySucceeded,
       BeginCompleteFunding
  <2>5. QED
    BY <1>4, <2>1, <2>2, <2>3, <2>4 DEF Continue
<1>5. ASSUME NEW r \in Requests, Commit(r) \/ Abort(r)
      PROVE  EscrowKeyInv'
  <2>1. Finish(r)
    BY <1>5, CommitFinishes DEF Abort
  <2>2. CASE CommitDeleteDraft(r)
    BY <1>2, <2>1, <2>2 DEF CommitDeleteDraft, Rows
  <2>3. CASE ~CommitDeleteDraft(r)
    <3>1. project' = project \/ project' # "ABSENT"
      BY <1>5, <2>3 DEF Abort, Commit, CommitPublish, CommitClose, CommitCancel,
         CommitAdminClose, SetProject, CommitRequestCompletion, CommitSubmit,
         CommitReject, CommitWithdraw, SetProposal, CommitAccept, AcceptInTx,
         RecordAcceptance, CommitPrepare, CommitFund, CommitCompleteFunding,
         CommitFundAndAccept, CommitOpenDispute, CommitRefund, CommitRelease,
         CommitComplete, InitiateRecord
    <3>2. QED
      BY <1>1, <1>2, <2>1, <3>1
  <2>4. QED
    BY <2>2, <2>3
<1>6. CASE Gateway \/ UNCHANGED vars
  BY <1>6, QuietGateway DEF Uncommitted
<1>7. QED
  BY <1>3, <1>4, <1>5, <1>6 DEF Next

NobodyCharged == \A r \in Requests : req[r].pc # "charged"

\* Of the captures, one may be neither rolled back nor orphaned: that of the request
\* that holds the key, or the one that is recorded.
CountInv ==
    refunds = 0 =>
        /\ charges <= stranded + 1
        /\ payment = "ABSENT" /\ project # "ABSENT" /\ NobodyCharged
              => charges <= stranded

LEMMA CountKept ==
    ASSUME StoreTypeOK, CountInv, refunds = 0, UNCHANGED <<charges, stranded>>,
           \/ payment' # "ABSENT" \/ project' = "ABSENT"
           \/ /\ payment = "ABSENT" /\ project # "ABSENT"
              /\ NobodyCharged' => NobodyCharged
    PROVE  CountInv'
BY DEF CountInv

\* A request that was not at "charged" and is not leaves the others' captures alone.
LEMMA ChargedKept ==
    ASSUME NEW r \in Requests, Served(r), req[r].pc # "charged"
    PROVE  NobodyCharged' => NobodyCharged
BY DEF NobodyCharged, Served

LEMMA CountContinue ==
    ASSUME StoreTypeOK, EngagementInv, KeyInv, EscrowKeyInv, CountInv, refunds = 0,
           NEW r \in Requests, Continue(r), req[r].op # "initiate"
    PROVE  CountInv'
<1> USE StoreAssumption
<1>1. /\ payment \in {"ABSENT", "SUCCEEDED"} /\ req[r].op # "webhook"
      /\ charges \in Nat /\ stranded \in Nat
  BY DEF KeyInv, StoreTypeOK
<1>2. CASE CaptureCharge(r)
  <2>1. payment = "ABSENT" /\ lock["payment"] \in {NoRequest, r}
    BY <1>1, <1>2 DEF CaptureCharge, MayCharge, Free
  <2>2. req[r].pc # "charged"
    BY <1>2 DEF CaptureCharge, MayCharge, Capturing, At
  <2>3. NobodyCharged
    BY <2>1, <2>2 DEF NobodyCharged, KeyInv
  <2>4. project # "ABSENT"
    BY <1>2 DEF CaptureCharge, MayCharge, EscrowKeyInv, EngagementInv, RowsSound
  <2>5. charges <= stranded
    BY <2>1, <2>3, <2>4 DEF CountInv
  <2>6. charges' = charges + 1 /\ stranded' = stranded
    BY <1>2 DEF CaptureCharge
  <2>7. ~NobodyCharged'
    BY <1>2, GotoServes DEF CaptureCharge, NobodyCharged
  <2>8. QED
    BY <1>1, <2>5, <2>6, <2>7 DEF CountInv
<1>3. CASE ~CaptureCharge(r)
  <2>1. UNCHANGED <<charges, stranded, project, payment>>
    BY <1>1, <1>3 DEF Continue, AssertNoDispute, CompleteInTx, ReadEscrow,
       CaptureExisting, CaptureRedirect, InitiateCall, ApplySucceeded,
       BeginCompleteFunding, RefundInTx, At
  <2>2. req[r].pc # "charged"
    BY <1>1, <1>3 DEF Continue, AssertNoDispute, CompleteInTx, ReadEscrow,
       CaptureExisting, CaptureRedirect, MayCharge, Capturing, InitiateCall,
       ApplySucceeded, BeginCompleteFunding, RefundInTx, At
  <2>3. Served(r)
    <3>1. CASE CaptureRedirect(r)
      BY <3>1, FinishServes DEF CaptureRedirect
    <3>2. CASE \/ AssertNoDispute(r) \/ CompleteInTx(r) \/ ReadEscrow(r)
               \/ CaptureExisting(r) \/ RefundInTx(r)
      BY <3>2, GotoServes DEF AssertNoDispute, CompleteInTx, ReadEscrow,
         CaptureExisting, RefundInTx, RefundCall
    <3>3. ~InitiateCall(r) /\ ~ApplySucceeded(r) /\ ~BeginCompleteFunding(r)
      BY <1>1 DEF InitiateCall, ApplySucceeded, BeginCompleteFunding, At
    <3>4. QED
      BY <1>3, <3>1, <3>2, <3>3 DEF Continue
  <2>4. NobodyCharged' => NobodyCharged
    BY <2>2, <2>3, ChargedKept
  <2>5. QED
    BY <2>1, <2>4, CountKept
<1>4. QED
  BY <1>2, <1>3

LEMMA CountCommit ==
    ASSUME StoreTypeOK, EngagementInv, KeyInv, CountInv, refunds = 0, NEW r \in Requests,
           Commit(r), req[r].op # "initiate"
    PROVE  CountInv'
<1>1. UNCHANGED <<charges, stranded>>
  BY QuietEscrow DEF Commit, CommitDeleteDraft, CommitPrepare, CommitFund,
     CommitCompleteFunding, CommitFundAndAccept, CommitOpenDispute, CommitRefund,
     CommitRelease, CommitComplete, InitiateRecord
<1>2. Served(r)
  BY CommitFinishes, FinishServes
<1>3. CASE CommitDeleteDraft(r)
  BY <1>1, <1>3, CountKept DEF CommitDeleteDraft
<1>4. CASE CommitFund(r) \/ CommitCompleteFunding(r) \/ CommitFundAndAccept(r)
  <2>1. project' = "ABSENT" \/ project # "ABSENT"
    BY <1>4 DEF CommitFund, CommitCompleteFunding, CommitFundAndAccept, AcceptInTx,
       RecordAcceptance
  <2>2. CASE req[r].pc = "charged"
    BY <1>1, <1>4, <2>2, CountKept DEF CommitFund, CommitCompleteFunding,
       CommitFundAndAccept, PaymentAfterCapture
  <2>3. CASE req[r].pc # "charged"
    <3>1. payment' = payment
      BY <1>4, <2>3 DEF CommitFund, CommitCompleteFunding, CommitFundAndAccept,
         PaymentAfterCapture
    <3>2. NobodyCharged' => NobodyCharged
      BY <1>2, <2>3, ChargedKept
    <3>3. QED
      BY <1>1, <2>1, <3>1, <3>2, CountKept
  <2>4. QED
    BY <2>2, <2>3
<1>5. CASE ~CommitDeleteDraft(r) /\ ~CommitFund(r) /\ ~CommitCompleteFunding(r)
           /\ ~CommitFundAndAccept(r)
  <2>1. req[r].pc # "charged" /\ payment' = payment
    <3>1. CASE CommitRefund(r)
      BY <3>1 DEF KeyInv, CommitRefund, PaymentAfterRefund
    <3>2. CASE CommitPrepare(r) \/ CommitOpenDispute(r) \/ CommitRelease(r)
               \/ CommitComplete(r)
      BY <3>2 DEF CommitPrepare, CommitOpenDispute, CommitRelease, CommitComplete, At
    <3>3. CASE ~CommitRefund(r) /\ ~CommitPrepare(r) /\ ~CommitOpenDispute(r)
               /\ ~CommitRelease(r) /\ ~CommitComplete(r)
      <4>1. \/ CommitPublish(r) \/ CommitClose(r) \/ CommitCancel(r)
            \/ CommitAdminClose(r) \/ CommitRequestCompletion(r)
            \/ CommitSubmit(r) \/ CommitReject(r) \/ CommitWithdraw(r)
            \/ CommitAccept(r)
        BY <1>5, <3>3 DEF Commit, InitiateRecord
      <4>2. QED
        BY <4>1, QuietEscrow DEF CommitPublish, CommitClose, CommitCancel,
           CommitAdminClose, CommitRequestCompletion, CommitSubmit, CommitReject,
           CommitWithdraw, CommitAccept, At
    <3>4. QED
      BY <3>1, <3>2, <3>3
  <2>2. project' = "ABSENT" \/ project # "ABSENT"
    <3>1. CASE CommitComplete(r)
      BY <3>1 DEF CommitComplete, EngagementInv, LocksSound
    <3>2. CASE ~CommitComplete(r)
      BY <1>5, <3>2 DEF Commit, CommitPublish, CommitClose, CommitCancel,
         CommitAdminClose, SetProject, CommitRequestCompletion, CommitSubmit,
         CommitReject, CommitWithdraw, SetProposal, CommitAccept, AcceptInTx,
         CommitPrepare, CommitOpenDispute, CommitRefund, CommitRelease, InitiateRecord
    <3>3. QED
      BY <3>1, <3>2
  <2>3. NobodyCharged' => NobodyCharged
    BY <1>2, <2>1, ChargedKept
  <2>4. QED
    BY <1>1, <2>1, <2>2, <2>3, CountKept
<1>6. QED
  BY <1>3, <1>4, <1>5

LEMMA CountStep ==
    ASSUME StoreTypeOK, EngagementInv, NoCallOf("initiate"), "initiate" \notin Operations,
           KeyInv, EscrowKeyInv, CountInv, [Next]_vars
    PROVE  CountInv'
<1>1. CASE refunds' # 0
  BY <1>1 DEF CountInv
<1>2. CASE refunds' = 0
  <2>1. refunds = 0 /\ checkouts["linked"] = 0 /\ charges \in Nat /\ stranded \in Nat
    BY <1>2, RefundsGrow DEF KeyInv, StoreTypeOK
  <2>2. ASSUME NEW r \in Requests, Start(r)
        PROVE  CountInv'
    <3>1. UNCHANGED <<payment, project, charges, stranded>>
      BY <2>2, StartStep, StartServes
    <3>2. NobodyCharged' => NobodyCharged
      BY <2>2, StartServes, ChargedKept
    <3>3. QED
      BY <2>1, <3>1, <3>2, CountKept
  <2>3. ASSUME NEW r \in Requests, Continue(r)
        PROVE  CountInv'
    BY <2>1, <2>3, CountContinue DEF NoCallOf
  <2>4. ASSUME NEW r \in Requests, Commit(r)
        PROVE  CountInv'
    BY <2>1, <2>4, CountCommit DEF NoCallOf
  <2>5. ASSUME NEW r \in Requests, Abort(r)
        PROVE  CountInv'
    <3>1. UNCHANGED <<charges, payment, project>>
      BY <2>5 DEF Abort
    <3>2. CASE req[r].pc = "charged"
      BY <2>1, <2>5, <3>1, <3>2 DEF Abort, CountInv
    <3>3. CASE req[r].pc # "charged"
      <4>1. NobodyCharged' => NobodyCharged
        BY <2>5, <3>3, FinishServes, ChargedKept DEF Abort
      <4>2. QED
        BY <2>1, <2>5, <3>1, <3>3, <4>1, CountKept DEF Abort
    <3>4. QED
      BY <3>2, <3>3
  <2>6. CASE PayCheckout
    <3>1. /\ charges' = charges + 1 /\ stranded' = stranded + 1
          /\ UNCHANGED <<payment, project, req>>
      BY <2>1, <2>6 DEF PayCheckout
    <3>2. QED
      BY <2>1, <3>1 DEF CountInv, NobodyCharged
  <2>7. CASE FailCheckout \/ AnnounceRefund \/ ApplyOther \/ UNCHANGED vars
    <3>1. UNCHANGED <<project, payment, charges, stranded, req>>
      BY <2>1, <2>7 DEF FailCheckout, AnnounceRefund, ApplyOther, KeyInv, vars
    <3>2. QED
      BY <2>1, <3>1 DEF CountInv, NobodyCharged
  <2>8. QED
    BY <2>2, <2>3, <2>4, <2>5, <2>6, <2>7 DEF Next, Gateway
<1>3. QED
  BY <1>1, <1>2

\* However many requests fund one escrow, while no payment is initiated separately and
\* nothing was refunded: its client pays for one capture, and for those whose
\* transaction was rolled back or whose checkout had lost its row.  The unique
\* idempotency key keeps a second request out until the first has committed.
THEOREM ChargedOnce ==
    ASSUME "initiate" \notin Operations
    PROVE  Spec => []ChargedByOne
<1>1. Init => KeyInv /\ EscrowKeyInv /\ CountInv
  BY DEF Init, KeyInv, Idle, EscrowKeyInv, Rows, CountInv
<1>2. StoreTypeOK /\ NoCallOf("initiate") /\ KeyInv /\ [Next]_vars => KeyInv'
  BY KeyStep
<1>3. StoreTypeOK /\ EscrowKeyInv /\ [Next]_vars => EscrowKeyInv'
  BY EscrowKeyStep
<1>4. StoreTypeOK /\ EngagementInv /\ NoCallOf("initiate") /\ KeyInv /\ EscrowKeyInv
        /\ CountInv /\ [Next]_vars => CountInv'
  BY CountStep
<1>5. StoreTypeOK /\ CountInv => ChargedByOne
  BY DEF CountInv, ChargedByOne, StoreTypeOK
<1>6. Init => NoCallOf("initiate")
  BY NoCallInit DEF OperationNames
<1>7. StoreTypeOK /\ NoCallOf("initiate") /\ [Next]_vars => NoCallOf("initiate")'
  BY NoCallStep DEF OperationNames
<1>8. QED
  BY <1>1, <1>2, <1>3, <1>4, <1>5, <1>6, <1>7, TypeCorrect, EngagementInvariant, PTL
     DEF Spec, TypeOK
-----------------------------------------------------------------------------
(* Requests served one after the other *)

OneAtATime == \A r, r2 \in Requests : r = r2

\* What a request found in its checks is still so when it commits, as nobody
\* else's commit can come between.
StillTrue(r) ==
    /\ req[r].op \in {"publish", "deleteDraft"} => project = "DRAFT"
    /\ req[r].op \in {"close", "prepare"} => project = "OPEN"
    /\ req[r].op \in {"cancel", "adminClose"} => project \in {"DRAFT", "OPEN"}
    /\ req[r].op \in {"reject", "withdraw"} => proposal[req[r].prop] = "PENDING"
    /\ req[r].op = "openDispute" => escrow = "FUNDED" /\ dispute = "ABSENT"
    /\ req[r].op \in {"refundClient", "releaseFreelancer"}
          => dispute \in {"OPEN", "UNDER_REVIEW"}
    /\ At(r, "complete", "inTx") => escrow = req[r].seen
    /\ req[r].op = "fundAndAccept" /\ req[r].pc \in {"inTx", "captured", "charged"}
          => escrow = req[r].seen

SequentialInv == EngagementCoherent /\ \A r \in Requests : StillTrue(r)

LEMMA CoherentKept ==
    ASSUME EngagementCoherent, Uncommitted
    PROVE  EngagementCoherent'
BY DEF EngagementCoherent, StatusesAgree, LedgerBalanced, Uncommitted

LEMMA SequentialStart ==
    ASSUME StoreTypeOK, OneAtATime, SequentialInv, NEW r \in Requests, Start(r)
    PROVE  StillTrue(r)'
<1> USE DEF StoreTypeOK, Begin, BeginAt, StillTrue, At
<1>1. Uncommitted
  BY QuietRows
<1>2. CASE \E p \in Proposals :
             \/ BeginSubmit(r, p) \/ BeginReject(r, p) \/ BeginWithdraw(r, p)
             \/ BeginAccept(r, p) \/ BeginPrepare(r, p) \/ BeginFundAndAccept(r, p)
  BY <1>1, <1>2 DEF Uncommitted, BeginSubmit, BeginReject, BeginWithdraw,
     BeginAccept, BeginPrepare, BeginFundAndAccept, CanAcceptNow
<1>3. CASE \/ BeginPublish(r) \/ BeginClose(r) \/ BeginCancel(r)
           \/ BeginAdminClose(r) \/ BeginDeleteDraft(r)
           \/ BeginRequestCompletion(r) \/ BeginComplete(r)
  BY <1>1, <1>3 DEF Uncommitted, BeginPublish, BeginClose, BeginCancel,
     BeginAdminClose, BeginDeleteDraft, BeginRequestCompletion, BeginComplete,
     CanPublish, CanClose, CanCancel, AdminMayClose, CanDelete
<1>4. CASE \/ BeginFund(r) \/ BeginInitiate(r) \/ BeginWebhook(r)
           \/ BeginOpenDispute(r)
           \/ BeginResolve(r, "refundClient") \/ BeginResolve(r, "releaseFreelancer")
  BY <1>1, <1>4 DEF Uncommitted, BeginFund, BeginInitiate, BeginWebhook,
     BeginOpenDispute, BeginResolve
<1>5. QED
  BY <1>2, <1>3, <1>4 DEF Start

LEMMA SequentialContinue ==
    ASSUME StoreTypeOK, OneAtATime, SequentialInv, NEW r \in Requests, Continue(r)
    PROVE  StillTrue(r)'
<1> USE DEF StoreTypeOK, StillTrue, At
<1>1. Uncommitted /\ StillTrue(r)
  BY QuietRows DEF SequentialInv
<1>2. CASE AssertNoDispute(r) \/ CompleteInTx(r) \/ ReadEscrow(r)
  BY <1>1, <1>2 DEF Uncommitted, AssertNoDispute, CompleteInTx, ReadEscrow, Goto,
     Remember
<1>3. CASE CaptureExisting(r) \/ CaptureCharge(r)
  BY <1>1, <1>3 DEF Uncommitted, CaptureExisting, CaptureCharge, MayCharge,
     Capturing, Goto
<1>4. CASE CaptureRedirect(r) \/ BeginCompleteFunding(r)
  BY <1>4 DEF CaptureRedirect, Finish, Idle, BeginCompleteFunding
<1>5. CASE InitiateCall(r) \/ ApplySucceeded(r) \/ RefundInTx(r)
  BY <1>1, <1>5 DEF Uncommitted, InitiateCall, ApplySucceeded, RefundInTx,
     RefundCall, Goto
<1>6. QED
  BY <1>2, <1>3, <1>4, <1>5 DEF Continue

\* The commits that move the project or a proposal.
LEMMA SequentialListing ==
    ASSUME StoreTypeOK, EngagementInv, SequentialInv, NEW r \in Requests,
           \/ CommitPublish(r) \/ CommitClose(r) \/ CommitCancel(r)
           \/ CommitAdminClose(r) \/ CommitRequestCompletion(r)
           \/ CommitSubmit(r) \/ CommitReject(r) \/ CommitWithdraw(r)
           \/ CommitAccept(r)
    PROVE  EngagementCoherent'
<1> USE DEF StoreTypeOK
<1>1. LedgerBalanced'
  BY QuietEscrow DEF SequentialInv, EngagementCoherent, LedgerBalanced
<1>2. UNCHANGED <<escrow, dispute>>
  BY QuietEscrow
<1>3. StatusesAgree /\ StillTrue(r) /\ ReadsSound(r)
  BY DEF SequentialInv, EngagementCoherent, EngagementInv
<1>4. StatusesAgree'
  <2>1. CASE \/ CommitPublish(r) \/ CommitClose(r) \/ CommitCancel(r)
             \/ CommitAdminClose(r) \/ CommitRequestCompletion(r)
    BY <1>2, <1>3, <2>1 DEF CommitPublish, CommitClose, CommitCancel,
       CommitAdminClose, CommitRequestCompletion, SetProject, RejectPending,
       StillTrue, StatusesAgree, At
  <2>2. CASE CommitSubmit(r) \/ CommitReject(r) \/ CommitWithdraw(r)
    BY <1>2, <1>3, <2>2 DEF CommitSubmit, CommitReject, CommitWithdraw, SetProposal,
       StillTrue, StatusesAgree, At, ReadsSound, ProposalOps
  <2>3. CASE CommitAccept(r)
    BY <1>2, <1>3, <2>3, StoreAssumption DEF CommitAccept, AcceptInTx,
       RecordAcceptance, ProposalsAfterAccept, OneAcceptedIndexAllows, StatusesAgree,
       At, ReadsSound, ProposalOps
  <2>4. QED
    BY <2>1, <2>2, <2>3
<1>5. QED
  BY <1>1, <1>4 DEF EngagementCoherent

\* The commits that move the escrow.
LEMMA SequentialEscrow ==
    ASSUME StoreTypeOK, EngagementInv, SequentialInv, NEW r \in Requests,
           \/ CommitDeleteDraft(r) \/ CommitPrepare(r) \/ CommitFund(r)
           \/ CommitCompleteFunding(r) \/ CommitFundAndAccept(r)
           \/ CommitOpenDispute(r) \/ CommitRefund(r) \/ CommitRelease(r)
           \/ CommitComplete(r)
    PROVE  EngagementCoherent'
<1>1. /\ StatusesAgree /\ LedgerBalanced /\ StillTrue(r)
      /\ RowsSound /\ ReadsSound(r) /\ LocksSound(r)
      /\ \A t \in LedgerType : ledger[t] \in Nat
      /\ proposal \in [Proposals -> ProposalStatus]
  BY DEF SequentialInv, EngagementCoherent, EngagementInv, StoreTypeOK
<1> USE DEF EngagementCoherent, StatusesAgree, LedgerBalanced, Deposited, LedgerType
<1>2. CASE CommitDeleteDraft(r)
  BY <1>2, StoreAssumption DEF CommitDeleteDraft
<1>3. CASE CommitPrepare(r)
  BY <1>1, <1>3 DEF CommitPrepare
<1>4. CASE CommitFund(r) \/ CommitCompleteFunding(r)
  BY <1>1, <1>4 DEF CommitFund, CommitCompleteFunding, StillPending, Book
<1>5. CASE CommitFundAndAccept(r)
  <2>1. escrow = req[r].seen /\ req[r].seen \in {"ABSENT", "PENDING_FUNDING", "FUNDED"}
        /\ req[r].prop \in Proposals
    BY <1>1, <1>5 DEF CommitFundAndAccept, StillTrue, LocksSound, ReadsSound, ProposalOps
  <2>2. StatusesAgree'
    BY <1>1, <1>5, <2>1, StoreAssumption DEF CommitFundAndAccept, AcceptInTx,
       RecordAcceptance, ProposalsAfterAccept, OneAcceptedIndexAllows
  <2>3. LedgerBalanced'
    BY <1>1, <1>5, <2>1 DEF CommitFundAndAccept, Book
  <2>4. QED
    BY <2>2, <2>3
<1>6. CASE CommitOpenDispute(r)
  BY <1>1, <1>6 DEF CommitOpenDispute, StillTrue, At
<1>7. CASE CommitRefund(r)
  BY <1>1, <1>7 DEF CommitRefund, StillTrue, Book
<1>8. CASE CommitRelease(r)
  BY <1>1, <1>8 DEF CommitRelease, StillTrue, Book, At
<1>9. CASE CommitComplete(r)
  <2>1. escrow = req[r].seen /\ req[r].seen \in {"FUNDED", "RELEASED"}
        /\ project = "IN_PROGRESS"
    BY <1>1, <1>9 DEF CommitComplete, StillTrue, LocksSound
  <2>2. QED
    BY <1>1, <1>9, <2>1 DEF CommitComplete, ReleaseOnComplete, Book
<1>10. QED
  BY <1>2, <1>3, <1>4, <1>5, <1>6, <1>7, <1>8, <1>9

LEMMA SequentialStep ==
    ASSUME StoreTypeOK, EngagementInv, OneAtATime, SequentialInv, [Next]_vars
    PROVE  SequentialInv'
<1> USE DEF SequentialInv
<1>1. ASSUME NEW r \in Requests, Start(r) \/ Continue(r)
      PROVE  SequentialInv'
  <2>1. EngagementCoherent'
    BY <1>1, QuietRows, CoherentKept
  <2>2. StillTrue(r)'
    BY <1>1, SequentialStart, SequentialContinue
  <2>3. QED
    BY <2>1, <2>2 DEF OneAtATime
<1>2. ASSUME NEW r \in Requests, Commit(r) \/ Abort(r)
      PROVE  SequentialInv'
  <2>1. EngagementCoherent'
    BY <1>2, QuietRows, CoherentKept, SequentialListing, SequentialEscrow DEF Commit
  <2>2. req'[r] = Idle
    BY <1>2, CommitFinishes, FinishServes DEF Abort
  <2>3. StillTrue(r)'
    BY <2>2 DEF StillTrue, Idle, At
  <2>4. QED
    BY <2>1, <2>3 DEF OneAtATime
<1>3. CASE Gateway \/ UNCHANGED vars
  <2>1. Uncommitted /\ UNCHANGED req
    BY <1>3, QuietGateway
  <2>2. QED
    BY <2>1, CoherentKept DEF Uncommitted, StillTrue, At
<1>4. QED
  BY <1>1, <1>2, <1>3 DEF Next

LEMMA SequentialInit == Init => SequentialInv
BY StoreAssumption DEF Init, SequentialInv, EngagementCoherent, StatusesAgree, LedgerBalanced,
   Deposited, LedgerType, StillTrue, At, Idle

\* Requests served one after the other leave the statuses of the project, its
\* proposals, the escrow and the dispute in agreement, and the ledger balanced,
\* whatever the gateway and its webhooks do meanwhile.
THEOREM SequentialCoherent ==
    ASSUME OneAtATime
    PROVE  Spec => []EngagementCoherent
<1>1. Init => SequentialInv
  BY SequentialInit
<1>2. StoreTypeOK /\ EngagementInv /\ SequentialInv /\ [Next]_vars => SequentialInv'
  BY SequentialStep
<1>3. SequentialInv => EngagementCoherent
  BY DEF SequentialInv
<1>4. QED
  BY <1>1, <1>2, <1>3, TypeCorrect, EngagementInvariant, PTL DEF Spec, TypeOK

-----------------------------------------------------------------------------
(* The pages and the services, one request after the other *)

\* Where a request that a page has made can stand.
ShapeInv(r) ==
    /\ req[r].op \in {"publish", "deleteDraft", "close", "cancel", "adminClose",
                     "requestCompletion", "submit", "reject", "withdraw", "openDispute",
                     "releaseFreelancer"}
         => req[r].pc = "checked"
    /\ req[r].op = "complete" => req[r].pc \in {"read", "checked", "inTx"}
    /\ req[r].op = "fundAndAccept" => req[r].pc \in {"checked", "inTx", "captured", "charged"}
    /\ req[r].op = "refundClient" => req[r].pc \in {"checked", "captured", "refunded"}

\* A dispute leaves its deposit disputed or settled.
DisputeInv == escrow = "FUNDED" => dispute = "ABSENT"

PagesInv == DisputeInv /\ \A r \in Requests : ShapeInv(r)

LEMMA ShapeStart ==
    ASSUME StoreTypeOK, NEW r \in Requests, Start(r)
    PROVE  ShapeInv(r)'
<1> USE DEF StoreTypeOK, Begin, BeginAt, ShapeInv
<1>1. CASE \E p \in Proposals :
             \/ BeginSubmit(r, p) \/ BeginReject(r, p) \/ BeginWithdraw(r, p)
             \/ BeginAccept(r, p) \/ BeginPrepare(r, p) \/ BeginFundAndAccept(r, p)
  BY <1>1 DEF BeginSubmit, BeginReject, BeginWithdraw, BeginAccept, BeginPrepare,
     BeginFundAndAccept
<1>2. CASE \/ BeginPublish(r) \/ BeginClose(r) \/ BeginCancel(r)
           \/ BeginAdminClose(r) \/ BeginDeleteDraft(r)
           \/ BeginRequestCompletion(r) \/ BeginComplete(r)
  BY <1>2 DEF BeginPublish, BeginClose, BeginCancel, BeginAdminClose, BeginDeleteDraft,
     BeginRequestCompletion, BeginComplete
<1>3. CASE \/ BeginFund(r) \/ BeginInitiate(r) \/ BeginWebhook(r)
           \/ BeginOpenDispute(r)
           \/ BeginResolve(r, "refundClient") \/ BeginResolve(r, "releaseFreelancer")
  BY <1>3 DEF BeginFund, BeginInitiate, BeginWebhook, BeginOpenDispute, BeginResolve
<1>4. QED
  BY <1>1, <1>2, <1>3 DEF Start

LEMMA ShapeContinue ==
    ASSUME StoreTypeOK, NEW r \in Requests, Continue(r)
    PROVE  ShapeInv(r)'
<1> USE DEF StoreTypeOK, ShapeInv, At
<1>1. CASE AssertNoDispute(r) \/ CompleteInTx(r) \/ ReadEscrow(r)
  BY <1>1 DEF AssertNoDispute, CompleteInTx, ReadEscrow, Goto, Remember
<1>2. CASE CaptureExisting(r) \/ CaptureCharge(r)
  BY <1>2 DEF CaptureExisting, CaptureCharge, MayCharge, Capturing, Goto
<1>3. CASE CaptureRedirect(r) \/ BeginCompleteFunding(r)
  BY <1>3 DEF CaptureRedirect, Finish, Idle, BeginCompleteFunding
<1>4. CASE InitiateCall(r) \/ ApplySucceeded(r) \/ RefundInTx(r)
  BY <1>4 DEF InitiateCall, ApplySucceeded, RefundInTx, RefundCall, Goto
<1>5. QED
  BY <1>1, <1>2, <1>3, <1>4 DEF Continue

LEMMA DisputeCommit ==
    ASSUME StoreTypeOK, EngagementInv, SequentialInv, DisputeInv, NEW r \in Requests, Commit(r)
    PROVE  DisputeInv'
<1> USE DEF DisputeInv
<1>1. StillTrue(r) /\ LocksSound(r) /\ (dispute # "ABSENT" => escrow \in Deposited)
  BY DEF SequentialInv, EngagementInv, RowsSound
<1>2. CASE \/ CommitPublish(r) \/ CommitClose(r) \/ CommitCancel(r)
           \/ CommitAdminClose(r) \/ CommitRequestCompletion(r)
           \/ CommitSubmit(r) \/ CommitReject(r) \/ CommitWithdraw(r)
           \/ CommitAccept(r)
  BY <1>2, QuietEscrow
<1>3. CASE InitiateRecord(r)
  BY <1>3 DEF InitiateRecord, escrowVars
<1>4. CASE CommitDeleteDraft(r) \/ CommitPrepare(r) \/ CommitOpenDispute(r)
           \/ CommitRefund(r) \/ CommitRelease(r)
  BY <1>4 DEF CommitDeleteDraft, CommitPrepare, CommitOpenDispute, CommitRefund,
     CommitRelease
<1>5. CASE CommitFund(r) \/ CommitCompleteFunding(r)
  BY <1>1, <1>5 DEF CommitFund, CommitCompleteFunding, StillPending, Deposited
<1>6. CASE CommitFundAndAccept(r)
  BY <1>1, <1>6 DEF CommitFundAndAccept, StillTrue, LocksSound, Deposited
<1>7. CASE CommitComplete(r)
  BY <1>7 DEF CommitComplete, ReleaseOnComplete
<1>8. QED
  BY <1>2, <1>3, <1>4, <1>5, <1>6, <1>7 DEF Commit

LEMMA PagesStep ==
    ASSUME StoreTypeOK, EngagementInv, OneAtATime, SequentialInv, PagesInv, [Next]_vars
    PROVE  PagesInv'
<1> USE DEF PagesInv
<1>1. ASSUME NEW r \in Requests, Start(r) \/ Continue(r)
      PROVE  PagesInv'
  <2>1. DisputeInv'
    BY <1>1, QuietRows DEF Uncommitted, DisputeInv, escrowVars
  <2>2. ShapeInv(r)'
    BY <1>1, ShapeStart, ShapeContinue
  <2>3. QED
    BY <2>1, <2>2 DEF OneAtATime
<1>2. ASSUME NEW r \in Requests, Commit(r) \/ Abort(r)
      PROVE  PagesInv'
  <2>1. DisputeInv'
    BY <1>2, DisputeCommit, QuietRows DEF Uncommitted, DisputeInv, escrowVars
  <2>2. req'[r] = Idle
    BY <1>2, CommitFinishes, FinishServes DEF Abort
  <2>3. QED
    BY <2>1, <2>2 DEF OneAtATime, ShapeInv, Idle
<1>3. CASE Gateway \/ UNCHANGED vars
  BY <1>3, QuietGateway DEF Uncommitted, DisputeInv, ShapeInv, escrowVars
<1>4. QED
  BY <1>1, <1>2, <1>3 DEF Next

\* What a page offers passes the first checks.
LEMMA OfferAccepted ==
    ASSUME StoreTypeOK, StatusesAgree, DisputeInv, NEW op, NEW p \in Proposals \cup {NoProposal},
           Offered(op, p), ~KnownRefusal(op, p)
    PROVE  Accepts(op, p)
<1> USE StoreAssumption DEF StatusesAgree, Accepts
<1>1. CASE p \in Proposals
  BY <1>1 DEF Offered, ProposalCard, ApplyButton, WithdrawButton, KnownRefusal,
     ProposalAccepts, CanAcceptNow
<1>2. CASE p = NoProposal
  <2>1. CASE StatusActions(op) \/ AdminProjectPage(op)
    BY <1>2, <2>1 DEF StatusActions, AdminProjectPage, ListingAccepts, CanPublish,
       CanDelete, CanClose, CanCancel, AdminMayClose
  <2>2. CASE CompletionPanel(op) \/ FreelancerCompletion(op)
    BY <1>2, <2>2 DEF StoreTypeOK, CompletionPanel, FreelancerCompletion, ListingAccepts,
       DisputeAccepts, DisputeInv, EngagementActive, CanComplete
  <2>3. CASE DisputesTab(op)
    BY <1>2, <2>3 DEF DisputesTab, DisputeAccepts
  <2>4. QED
    BY <1>2, <2>1, <2>2, <2>3 DEF Offered
<1>3. QED
  BY <1>1, <1>2

\* What is offered while its request is in flight is still carried out.
LEMMA OfferProceeds ==
    ASSUME StoreTypeOK, EngagementInv, OneAtATime, SequentialInv, PagesInv, GatewayServes,
           NEW r \in Requests, Offered(req[r].op, req[r].prop),
           ~KnownRefusal(req[r].op, req[r].prop)
    PROVE  Proceeds(r)
<1> DEFINE op == req[r].op
           p == req[r].prop
<1>1. /\ StatusesAgree /\ StillTrue(r) /\ DisputeInv /\ ShapeInv(r) /\ LocksSound(r)
      /\ HiredOnDeposit
  BY DEF SequentialInv, EngagementCoherent, PagesInv, EngagementInv, RowsSound
<1>2. \A row \in Rows : Free(row, r)
  BY DEF StoreTypeOK, OneAtATime, Free
<1>3. \A row \in {"project", "escrow", "dispute", "payment"} : Free(row, r)
  BY <1>2 DEF Rows
<1>4. CASE StatusActions(op) \/ AdminProjectPage(op)
  BY <1>1, <1>2, <1>3, <1>4 DEF StatusActions, AdminProjectPage, ShapeInv, Proceeds,
     ListingProceeds, At
<1>5. CASE op \in {"complete", "requestCompletion"}
           /\ (CompletionPanel(op) \/ FreelancerCompletion(op))
  <2>1. project = "IN_PROGRESS" /\ escrow \in Deposited
    BY <1>1, <1>5 DEF CompletionPanel, FreelancerCompletion, StatusesAgree, HiredOnDeposit
  <2>2. CASE op = "complete"
    <3>1. escrow # "DISPUTED" /\ escrow # "REFUNDED"
      BY <1>5, <2>2 DEF CompletionPanel, FreelancerCompletion, KnownRefusal
    <3>2. escrow \in Releasable /\ escrow # "ABSENT" /\ StillInProgress(r)
      BY <1>3, <2>1, <3>1 DEF Releasable, Deposited, StillInProgress
    <3>3. ListingProceeds(r)
      BY <1>1, <2>2, <3>1, <3>2 DEF ShapeInv, ListingProceeds, At
    <3>4. QED
      BY <3>3 DEF Proceeds
  <2>3. CASE op = "requestCompletion"
    BY <1>1, <1>3, <2>1, <2>3 DEF ShapeInv, Proceeds, ListingProceeds
  <2>4. QED
    BY <1>5, <2>2, <2>3
<1>6. CASE op = "openDispute" /\ (CompletionPanel(op) \/ FreelancerCompletion(op))
  BY <1>1, <1>6 DEF CompletionPanel, FreelancerCompletion, ShapeInv, DisputeInv, Proceeds,
     DisputeProceeds, At
<1>7. CASE DisputesTab(op)
  BY <1>1, <1>3, <1>7 DEF DisputesTab, ShapeInv, StatusesAgree, GatewayServes, Proceeds,
     DisputeProceeds, At
<1>8. CASE p \in Proposals /\ op \in {"submit", "reject", "withdraw"}
           /\ (ProposalCard(op, p) \/ ApplyButton(op, p) \/ WithdrawButton(op, p))
  BY <1>1, <1>8 DEF ProposalCard, ApplyButton, WithdrawButton, ShapeInv, Proceeds,
     ProposalProceeds, At
<1>9. CASE p \in Proposals /\ op = "fundAndAccept" /\ ProposalCard(op, p)
  <2>1. project = "OPEN" /\ proposal[p] = "PENDING"
        /\ (escrow = "ABSENT" \/ (escrow \in {"PENDING_FUNDING", "FUNDED"} /\ escrowFor = p))
    BY <1>9 DEF KnownRefusal, ProposalCard
  <2>2. CanAcceptNow(p) /\ OneAcceptedIndexAllows(p)
    BY <1>1, <2>1, StoreAssumption DEF StatusesAgree, CanAcceptNow, OneAcceptedIndexAllows
  <2>3. req[r].pc \in {"inTx", "captured", "charged"} =>
          /\ escrow = req[r].seen
          /\ escrow = "ABSENT" => lock["escrow"] = r
    BY <1>1, <1>9 DEF StillTrue, LocksSound
  <2>4. req[r].pc = "inTx" => MayCharge(r) \/ payment = "SUCCEEDED"
    BY <1>3, <1>9, <2>3 DEF MayCharge, Capturing, At
  <2>5. req[r].pc \in {"checked", "inTx", "captured", "charged"}
    BY <1>1, <1>9 DEF ShapeInv
  <2>6. HireProceeds(r)
    BY <1>3, <1>9, <2>1, <2>2, <2>3, <2>4, <2>5 DEF HireProceeds
  <2>7. QED
    BY <2>6 DEF Proceeds
<1>10. QED
  BY <1>4, <1>5, <1>6, <1>7, <1>8, <1>9 DEF Offered, ProposalCard, ApplyButton,
     WithdrawButton, CompletionPanel, FreelancerCompletion

\* When requests take turns, what a page offers passes its handler's checks, the
\* first and every later one, but for the two known refusals.
THEOREM SequentialOffers ==
    ASSUME OneAtATime
    PROVE  Spec => []OffersHonoured
<1>1. Init => SequentialInv /\ PagesInv
  BY SequentialInit DEF Init, PagesInv, DisputeInv, ShapeInv, Idle
<1>2. StoreTypeOK /\ EngagementInv /\ SequentialInv /\ [Next]_vars => SequentialInv'
  BY SequentialStep
<1>3. StoreTypeOK /\ EngagementInv /\ SequentialInv /\ PagesInv /\ [Next]_vars => PagesInv'
  BY PagesStep
<1>4. StoreTypeOK /\ EngagementInv /\ SequentialInv /\ PagesInv => OffersHonoured
  <2> SUFFICES ASSUME StoreTypeOK, EngagementInv, SequentialInv, PagesInv, GatewayServes,
                      NEW r \in Requests, NEW op, NEW p \in Proposals \cup {NoProposal},
                      Offered(op, p), ~KnownRefusal(op, p)
               PROVE  IF req[r].pc = "idle"
                      THEN Accepts(op, p)
                      ELSE req[r].op = op /\ req[r].prop = p => Proceeds(r)
    BY DEF OffersHonoured
  <2>1. Accepts(op, p)
    BY OfferAccepted DEF SequentialInv, EngagementCoherent, PagesInv
  <2>2. req[r].op = op /\ req[r].prop = p => Proceeds(r)
    BY OfferProceeds
  <2>3. QED
    BY <2>1, <2>2
<1>5. QED
  BY <1>1, <1>2, <1>3, <1>4, TypeCorrect, EngagementInvariant, PTL DEF Spec, TypeOK

\* So a deposit for a hired freelancer is never left without a button that settles
\* it: the client may confirm the work, or the admin decide the dispute.
THEOREM SequentialSettleable ==
    ASSUME OneAtATime
    PROVE  Spec => []DepositSettleable
<1>1. EngagementCoherent => DepositSettleable
  BY StoreAssumption DEF EngagementCoherent, StatusesAgree, DepositSettleable, Offered,
     CompletionPanel, DisputesTab
<1>2. QED
  BY <1>1, SequentialCoherent, PTL

\* The pages and the services agree.  The hypothesis is the conjunct that says
\* ENABLED, about the actions alone: a request is not held up by anything that the
\* conditions leave out.
THEOREM SequentialPages ==
    ASSUME OneAtATime
    PROVE  Spec /\ []ConditionsEnable => []PagesServe
<1>1. OffersHonoured /\ DepositSettleable /\ ConditionsEnable => PagesServe
  BY DEF PagesServe
<1>2. QED
  BY <1>1, SequentialOffers, SequentialSettleable, PTL

-----------------------------------------------------------------------------
(* What the documents claim and races break: it holds without them *)

LEMMA RowsMoveByCommit ==
    ASSUME StoreTypeOK, [Next]_vars
    PROVE  Uncommitted \/ \E r \in Requests : Commit(r)
<1>1. CASE \E r \in Requests : Start(r) \/ Continue(r) \/ Abort(r)
  BY <1>1, QuietRows
<1>2. CASE Gateway \/ UNCHANGED vars
  BY <1>2, QuietGateway
<1>3. QED
  BY <1>1, <1>2 DEF Next

LEMMA ListedStep ==
    ASSUME StoreTypeOK, EngagementInv, SequentialInv, [Next]_vars
    PROVE  project' = project \/ <<project, project'>> \in Listed
<1> USE DEF Listed
<1>1. ASSUME NEW r \in Requests, Commit(r), project' # project
      PROVE  <<project, project'>> \in Listed
  <2>1. StillTrue(r) /\ LocksSound(r)
    BY DEF SequentialInv, EngagementInv
  <2>2. CASE \/ CommitPublish(r) \/ CommitClose(r) \/ CommitCancel(r)
             \/ CommitAdminClose(r) \/ CommitDeleteDraft(r)
    BY <2>1, <2>2 DEF CommitPublish, CommitClose, CommitCancel, CommitAdminClose,
       CommitDeleteDraft, SetProject, StillTrue, At
  <2>3. CASE CommitComplete(r)
    BY <2>1, <2>3 DEF CommitComplete, LocksSound
  <2>4. CASE CommitAccept(r) \/ CommitFundAndAccept(r)
    BY <2>4 DEF CommitAccept, CommitFundAndAccept, AcceptInTx, RecordAcceptance
  <2>5. CASE \/ CommitRequestCompletion(r) \/ CommitSubmit(r) \/ CommitReject(r)
             \/ CommitWithdraw(r) \/ CommitPrepare(r) \/ CommitFund(r)
             \/ CommitCompleteFunding(r) \/ CommitOpenDispute(r) \/ CommitRefund(r)
             \/ CommitRelease(r) \/ InitiateRecord(r)
    BY <1>1, <2>5 DEF CommitRequestCompletion, CommitSubmit, CommitReject,
       CommitWithdraw, SetProposal, CommitPrepare, CommitFund, CommitCompleteFunding,
       CommitOpenDispute, CommitRefund, CommitRelease, InitiateRecord
  <2>6. QED
    BY <1>1, <2>2, <2>3, <2>4, <2>5 DEF Commit
<1>2. QED
  BY <1>1, RowsMoveByCommit DEF Uncommitted

LEMMA WithdrawStep ==
    ASSUME StoreTypeOK, SequentialInv, [Next]_vars,
           NEW p \in Proposals, proposal[p] = "ACCEPTED"
    PROVE  proposal'[p] # "WITHDRAWN"
<1>1. ASSUME NEW r \in Requests, Commit(r)
      PROVE  proposal'[p] # "WITHDRAWN"
  <2>1. StillTrue(r) /\ proposal \in [Proposals -> ProposalStatus]
    BY DEF SequentialInv, StoreTypeOK
  <2>2. CASE CommitReject(r) \/ CommitWithdraw(r)
    BY <2>1, <2>2 DEF CommitReject, CommitWithdraw, SetProposal, StillTrue, At
  <2>3. CASE CommitSubmit(r)
    BY <2>1, <2>3 DEF CommitSubmit
  <2>4. CASE CommitClose(r) \/ CommitCancel(r) \/ CommitDeleteDraft(r)
    BY <2>4 DEF CommitClose, CommitCancel, CommitDeleteDraft, RejectPending
  <2>5. CASE CommitAccept(r) \/ CommitFundAndAccept(r)
    BY <2>5 DEF CommitAccept, CommitFundAndAccept, AcceptInTx, RecordAcceptance,
       ProposalsAfterAccept
  <2>6. CASE \/ CommitPublish(r) \/ CommitAdminClose(r) \/ CommitRequestCompletion(r)
             \/ CommitComplete(r) \/ CommitPrepare(r) \/ CommitFund(r)
             \/ CommitCompleteFunding(r) \/ CommitOpenDispute(r) \/ CommitRefund(r)
             \/ CommitRelease(r) \/ InitiateRecord(r)
    BY <2>6 DEF CommitPublish, CommitAdminClose, CommitRequestCompletion, CommitComplete,
       CommitPrepare, CommitFund, CommitCompleteFunding, CommitOpenDispute, CommitRefund,
       CommitRelease, InitiateRecord
  <2>7. QED
    BY <1>1, <2>2, <2>3, <2>4, <2>5, <2>6 DEF Commit
<1>2. QED
  BY <1>1, RowsMoveByCommit DEF Uncommitted

\* The only step that completes a project.
LEMMA CompletionStep ==
    ASSUME StoreTypeOK, [Next]_vars, project' = "COMPLETED", project # "COMPLETED"
    PROVE  \E r \in Requests : CommitComplete(r)
<1>1. PICK r \in Requests : Commit(r)
  BY RowsMoveByCommit DEF Uncommitted
<1>2. ~ \/ CommitPublish(r) \/ CommitClose(r) \/ CommitCancel(r)
        \/ CommitAdminClose(r) \/ CommitDeleteDraft(r)
        \/ CommitAccept(r) \/ CommitFundAndAccept(r)
  BY DEF CommitPublish, CommitClose, CommitCancel, CommitAdminClose, CommitDeleteDraft,
     SetProject, CommitAccept, CommitFundAndAccept, AcceptInTx, RecordAcceptance
<1>3. ~ \/ CommitRequestCompletion(r) \/ CommitSubmit(r) \/ CommitReject(r)
        \/ CommitWithdraw(r) \/ CommitPrepare(r) \/ CommitFund(r)
        \/ CommitCompleteFunding(r) \/ CommitOpenDispute(r) \/ CommitRefund(r)
        \/ CommitRelease(r) \/ InitiateRecord(r)
  BY DEF CommitRequestCompletion, CommitSubmit, CommitReject, CommitWithdraw,
     SetProposal, CommitPrepare, CommitFund, CommitCompleteFunding, CommitOpenDispute,
     CommitRefund, CommitRelease, InitiateRecord
<1>4. QED
  BY <1>1, <1>2, <1>3 DEF Commit

\* PROJECT_STATE.md is right about requests that take turns: the unlisted moves of
\* the run unlisted_transition take two requests that overlap.
THEOREM SequentialTransitions ==
    ASSUME OneAtATime
    PROVE  Spec => ListedTransitions
<1>1. StoreTypeOK /\ EngagementInv /\ SequentialInv /\ [Next]_vars
        => [project' = project \/ <<project, project'>> \in Listed]_vars
  BY ListedStep
<1>2. QED
  BY <1>1, SequentialInit, SequentialStep, TypeCorrect, EngagementInvariant, PTL
     DEF Spec, TypeOK, ListedTransitions

\* So is the test of withdrawals.
THEOREM SequentialWithdrawals ==
    ASSUME OneAtATime
    PROVE  Spec => AcceptedNotWithdrawn
<1>1. StoreTypeOK /\ EngagementInv /\ SequentialInv /\ [Next]_vars
        => [\A p \in Proposals : proposal[p] = "ACCEPTED" => proposal'[p] # "WITHDRAWN"]_vars
  BY WithdrawStep
<1>2. QED
  BY <1>1, SequentialInit, SequentialStep, TypeCorrect, EngagementInvariant, PTL
     DEF Spec, TypeOK, AcceptedNotWithdrawn

\* And the test of disputes.
THEOREM SequentialDisputes ==
    ASSUME OneAtATime
    PROVE  Spec => DisputeBlocksCompletion
<1>1. StoreTypeOK /\ EngagementInv /\ SequentialInv /\ [Next]_vars
        => [escrow = "DISPUTED" /\ project' = "COMPLETED" => project = "COMPLETED"]_vars
  <2> SUFFICES ASSUME StoreTypeOK, EngagementInv, SequentialInv, [Next]_vars,
                      project' = "COMPLETED", project # "COMPLETED"
               PROVE  escrow # "DISPUTED"
    OBVIOUS
  <2>1. PICK r \in Requests : CommitComplete(r)
    BY CompletionStep
  <2>2. StillTrue(r) /\ LocksSound(r)
    BY DEF SequentialInv, EngagementInv
  <2>3. QED
    BY <2>1, <2>2 DEF CommitComplete, StillTrue, LocksSound
<1>2. QED
  BY <1>1, SequentialInit, SequentialStep, TypeCorrect, EngagementInvariant, PTL
     DEF Spec, TypeOK, DisputeBlocksCompletion

\* The proposals left pending are the admin's doing alone: while he does not close
\* listings the document's claim holds, whatever else interleaves.
THEOREM ClosedByClient ==
    ASSUME "adminClose" \notin Operations
    PROVE  Spec => ClosingRejectsPending
<1>1. StoreTypeOK /\ NoCallOf("adminClose") /\ [Next]_vars
        => [project = "OPEN" /\ project' = "CLOSED" =>
              \A p \in Proposals : proposal'[p] # "PENDING"]_vars
  <2> SUFFICES ASSUME StoreTypeOK, NoCallOf("adminClose"), [Next]_vars,
                      project = "OPEN", project' = "CLOSED"
               PROVE  \A p \in Proposals : proposal'[p] # "PENDING"
    OBVIOUS
  <2>1. PICK r \in Requests : Commit(r)
    BY RowsMoveByCommit DEF Uncommitted
  <2>2. ~ \/ CommitPublish(r) \/ CommitCancel(r) \/ CommitAdminClose(r)
          \/ CommitDeleteDraft(r) \/ CommitComplete(r)
          \/ CommitAccept(r) \/ CommitFundAndAccept(r)
    BY DEF CommitPublish, CommitCancel, CommitAdminClose, CommitDeleteDraft, CommitComplete,
       SetProject, CommitAccept, CommitFundAndAccept, AcceptInTx, RecordAcceptance,
       NoCallOf, At
  <2>3. ~ \/ CommitRequestCompletion(r) \/ CommitSubmit(r) \/ CommitReject(r)
          \/ CommitWithdraw(r) \/ CommitPrepare(r) \/ CommitFund(r)
          \/ CommitCompleteFunding(r) \/ CommitOpenDispute(r) \/ CommitRefund(r)
          \/ CommitRelease(r) \/ InitiateRecord(r)
    BY DEF CommitRequestCompletion, CommitSubmit, CommitReject, CommitWithdraw,
       SetProposal, CommitPrepare, CommitFund, CommitCompleteFunding, CommitOpenDispute,
       CommitRefund, CommitRelease, InitiateRecord
  <2>4. CommitClose(r)
    BY <2>1, <2>2, <2>3 DEF Commit
  <2>5. QED
    BY <2>4 DEF CommitClose, RejectPending
<1>2. Init => NoCallOf("adminClose")
  BY NoCallInit DEF OperationNames
<1>3. StoreTypeOK /\ NoCallOf("adminClose") /\ [Next]_vars => NoCallOf("adminClose")'
  BY NoCallStep DEF OperationNames
<1>4. QED
  BY <1>1, <1>2, <1>3, TypeCorrect, PTL DEF Spec, TypeOK, ClosingRejectsPending

-----------------------------------------------------------------------------
(* The refinement of EscrowPromise *)

\* Nothing is deposited for a listing that is not published yet, so a deleted
\* draft takes no money with it.
DraftInv == project = "DRAFT" => escrow = "ABSENT"

LEMMA DraftCommit ==
    ASSUME StoreTypeOK, EngagementInv, SequentialInv, DraftInv, NEW r \in Requests, Commit(r)
    PROVE  DraftInv'
<1> USE DEF DraftInv
<1>1. StillTrue(r) /\ RowsSound
  BY DEF SequentialInv, EngagementInv
<1>2. CASE \/ CommitPublish(r) \/ CommitClose(r) \/ CommitCancel(r)
           \/ CommitAdminClose(r) \/ CommitDeleteDraft(r) \/ CommitComplete(r)
           \/ CommitAccept(r) \/ CommitFundAndAccept(r)
  BY <1>2 DEF CommitPublish, CommitClose, CommitCancel, CommitAdminClose, SetProject,
     CommitDeleteDraft, CommitComplete, CommitAccept, CommitFundAndAccept, AcceptInTx,
     RecordAcceptance
<1>3. CASE \/ CommitRequestCompletion(r) \/ CommitSubmit(r) \/ CommitReject(r)
           \/ CommitWithdraw(r) \/ InitiateRecord(r)
  BY <1>3 DEF CommitRequestCompletion, CommitSubmit, CommitReject, CommitWithdraw,
     SetProposal, InitiateRecord
<1>4. CASE CommitPrepare(r) \/ CommitFund(r) \/ CommitCompleteFunding(r)
  BY <1>1, <1>4 DEF CommitPrepare, StillTrue, At, CommitFund, CommitCompleteFunding,
     StillPending
<1>5. CASE CommitOpenDispute(r) \/ CommitRefund(r) \/ CommitRelease(r)
  BY <1>1, <1>5 DEF CommitOpenDispute, CommitRefund, CommitRelease, RowsSound, Deposited,
     StillTrue, At
<1>6. QED
  BY <1>1, <1>2, <1>3, <1>4, <1>5 DEF Commit

LEMMA DraftStep ==
    ASSUME StoreTypeOK, EngagementInv, SequentialInv, DraftInv, [Next]_vars
    PROVE  DraftInv'
BY RowsMoveByCommit, DraftCommit DEF Uncommitted, DraftInv

Done  == project = "COMPLETED"

SettlementStep == [Settlement!Next]_(Settlement!promiseVars)

LEMMA SettlementQuiet ==
    ASSUME UNCHANGED <<escrow, escrowFor>>, Done' = Done
    PROVE  SettlementStep
BY DEF SettlementStep, Settlement!promiseVars, Deposited, Done

LEMMA DepositSettles ==
    ASSUME NEW r \in Requests, StoreTypeOK, EngagementInv, SequentialInv,
           CommitFund(r) \/ CommitCompleteFunding(r) \/ CommitFundAndAccept(r)
    PROVE  SettlementStep
<1>1. /\ RowsSound /\ ReadsSound(r) /\ LocksSound(r) /\ StillTrue(r)
      /\ escrowFor \in Proposals \cup {NoProposal}
  BY DEF EngagementInv, SequentialInv, StoreTypeOK
<1>2. Done' = Done
  BY DEF Done, CommitFund, CommitCompleteFunding, CommitFundAndAccept, AcceptInTx,
     RecordAcceptance
<1>3. CASE UNCHANGED <<escrow, escrowFor>>
  BY <1>2, <1>3, SettlementQuiet
<1>4. CASE ~UNCHANGED <<escrow, escrowFor>>
  <2>1. escrow \in {"ABSENT", "PENDING_FUNDING"} /\ escrow' = "FUNDED"
    BY <1>1, <1>4 DEF CommitFund, CommitCompleteFunding, StillPending,
       CommitFundAndAccept, StillTrue, LocksSound
  <2>2. escrowFor' \in Proposals
    BY <1>1, <1>4, <2>1 DEF CommitFund, CommitCompleteFunding, StillPending,
       CommitFundAndAccept, RowsSound, ReadsSound, ProposalOps
  <2>3. Settlement!Deposit(escrowFor')
    BY <1>2, <2>1, <2>2 DEF Settlement!Deposit, StageOf, Deposited, Done
  <2>4. QED
    BY <2>2, <2>3 DEF SettlementStep, Settlement!Next
<1>5. QED
  BY <1>3, <1>4

LEMMA DisputeSettles ==
    ASSUME NEW r \in Requests, StoreTypeOK, EngagementInv, SequentialInv,
           CommitOpenDispute(r) \/ CommitRefund(r) \/ CommitRelease(r)
    PROVE  SettlementStep
<1>1. StatusesAgree /\ StillTrue(r)
  BY DEF EngagementInv, SequentialInv, EngagementCoherent
<1>2. UNCHANGED <<project, escrowFor>>
  BY DEF CommitOpenDispute, CommitRefund, CommitRelease
<1>3. CASE CommitOpenDispute(r)
  <2>1. escrow = "FUNDED" /\ escrow' = "DISPUTED"
    BY <1>1, <1>3 DEF CommitOpenDispute, StillTrue, At
  <2>2. Settlement!Dispute
    BY <1>2, <2>1 DEF Settlement!Dispute, StageOf, Deposited
  <2>3. QED
    BY <2>2 DEF SettlementStep, Settlement!Next
<1>4. CASE CommitRefund(r)
  <2>1. escrow = "DISPUTED" /\ escrow' = "REFUNDED"
    BY <1>1, <1>4 DEF CommitRefund, StillTrue, StatusesAgree
  <2>2. Settlement!Decide("returned")
    BY <1>2, <2>1 DEF Settlement!Decide, StageOf, Deposited
  <2>3. QED
    BY <2>2 DEF SettlementStep, Settlement!Next
<1>5. CASE CommitRelease(r)
  <2>1. escrow = "DISPUTED" /\ escrow' = "RELEASED"
    BY <1>1, <1>5 DEF CommitRelease, StillTrue, StatusesAgree, At
  <2>2. Settlement!Decide("paid")
    BY <1>2, <2>1 DEF Settlement!Decide, StageOf, Deposited
  <2>3. QED
    BY <2>2 DEF SettlementStep, Settlement!Next
<1>6. QED
  BY <1>3, <1>4, <1>5

LEMMA ConfirmSettles ==
    ASSUME NEW r \in Requests, StoreTypeOK, EngagementInv, SequentialInv, CommitComplete(r)
    PROVE  SettlementStep
<1>1. StillTrue(r) /\ LocksSound(r)
  BY DEF EngagementInv, SequentialInv
<1>2. escrow \in {"FUNDED", "RELEASED"} /\ req[r].seen = escrow /\ project = "IN_PROGRESS"
  BY <1>1 DEF CommitComplete, StillTrue, LocksSound
<1>3. escrow' = "RELEASED" /\ project' = "COMPLETED" /\ UNCHANGED escrowFor
  BY <1>2 DEF CommitComplete, ReleaseOnComplete
<1>4. Settlement!Confirm
  BY <1>2, <1>3 DEF Settlement!Confirm, StageOf, Deposited
<1>5. QED
  BY <1>4 DEF SettlementStep, Settlement!Next

\* The other commits move no money: an escrow that is prepared, or that goes with a
\* deleted draft, holds none.
LEMMA OtherSettles ==
    ASSUME NEW r \in Requests, StoreTypeOK, EngagementInv, SequentialInv, DraftInv,
           \/ CommitPublish(r) \/ CommitClose(r) \/ CommitCancel(r)
           \/ CommitAdminClose(r) \/ CommitDeleteDraft(r)
           \/ CommitRequestCompletion(r) \/ CommitSubmit(r) \/ CommitReject(r)
           \/ CommitWithdraw(r) \/ CommitAccept(r) \/ CommitPrepare(r)
           \/ InitiateRecord(r)
    PROVE  SettlementStep
<1>1. StillTrue(r) /\ RowsSound
  BY DEF EngagementInv, SequentialInv
<1>2. Done' = Done
  BY <1>1 DEF Done, StillTrue, At, CommitPublish, CommitClose, CommitCancel,
     CommitAdminClose, SetProject, CommitDeleteDraft, CommitRequestCompletion,
     CommitSubmit, CommitReject, CommitWithdraw, SetProposal, CommitAccept, AcceptInTx,
     RecordAcceptance, CommitPrepare, InitiateRecord
<1>3. CASE CommitDeleteDraft(r)
  <2>1. escrow = "ABSENT" /\ escrowFor = NoProposal
    BY <1>1, <1>3 DEF CommitDeleteDraft, StillTrue, At, DraftInv, RowsSound
  <2>2. UNCHANGED <<escrow, escrowFor>>
    BY <1>3, <2>1 DEF CommitDeleteDraft
  <2>3. QED
    BY <1>2, <2>2, SettlementQuiet
<1>4. CASE CommitPrepare(r)
  <2>1. escrow = "ABSENT" /\ escrow' = "PENDING_FUNDING"
    BY <1>4 DEF CommitPrepare
  <2>2. UNCHANGED Settlement!promiseVars
    BY <1>2, <2>1 DEF Settlement!promiseVars, StageOf, Deposited, Done
  <2>3. QED
    BY <2>2 DEF SettlementStep
<1>5. CASE ~CommitDeleteDraft(r) /\ ~CommitPrepare(r)
  <2>1. UNCHANGED <<escrow, escrowFor>>
    BY <1>5 DEF CommitPublish, CommitClose, CommitCancel, CommitAdminClose, SetProject,
       CommitRequestCompletion, CommitSubmit, CommitReject, CommitWithdraw, SetProposal,
       CommitAccept, InitiateRecord
  <2>2. QED
    BY <1>2, <2>1, SettlementQuiet
<1>6. QED
  BY <1>3, <1>4, <1>5

\* Requests served one after the other settle a deposit as EscrowPromise says: it is
\* made once, is neither lost nor moved, and is paid or returned once and for good.
THEOREM SequentialEscrowPromise ==
    ASSUME OneAtATime
    PROVE  Spec => KeepsEscrowPromise
<1>1. Init => Settlement!Init /\ DraftInv
  BY DEF Init, Settlement!Init, StageOf, Deposited, DraftInv
<1>2. StoreTypeOK /\ EngagementInv /\ SequentialInv /\ DraftInv /\ [Next]_vars => DraftInv'
  BY DraftStep
<1>3. StoreTypeOK /\ EngagementInv /\ SequentialInv /\ DraftInv /\ [Next]_vars
        => [Settlement!Next]_(Settlement!promiseVars)
  <2> SUFFICES ASSUME StoreTypeOK, EngagementInv, SequentialInv, DraftInv, [Next]_vars
               PROVE  SettlementStep
    BY DEF SettlementStep
  <2>1. ASSUME NEW r \in Requests, Commit(r)
        PROVE  SettlementStep
    BY <2>1, DepositSettles, DisputeSettles, ConfirmSettles, OtherSettles DEF Commit
  <2>2. CASE Uncommitted
    BY <2>2, SettlementQuiet DEF Uncommitted, Done
  <2>3. QED
    BY <2>1, <2>2, RowsMoveByCommit
<1>4. QED
  BY <1>1, <1>2, <1>3, SequentialInit, SequentialStep, TypeCorrect, EngagementInvariant, PTL
     DEF Spec, TypeOK, KeepsEscrowPromise, Settlement!Spec
=============================================================================
