--------------------------- MODULE PaymentService ---------------------------
(***************************************************************************)
(* payments/payment.service.ts: the Payment row of an escrow, the calls to *)
(* the gateway, and the gateway's webhooks.  The gateway is external: it   *)
(* captures at once, refuses, or opens a checkout page the payer may       *)
(* complete later, and it delivers each event any number of times, late    *)
(* and in any order.                                                       *)
(***************************************************************************)
EXTENDS MarketStore

-----------------------------------------------------------------------------
(* POST /payments/escrow/:id/initiate: no transaction, three writes *)

\* An existing success is returned as it is; otherwise the row of the
\* idempotency key is found or created, and that is already committed.
BeginInitiate(r) ==
    /\ escrow # "ABSENT"
    /\ payment # "SUCCEEDED"
    /\ Free("payment", r)
    /\ payment' = IF payment = "ABSENT" THEN "PENDING" ELSE payment
    /\ BeginAt(r, "initiate", "checked", NoProposal)

InitiateCall(r) ==
    /\ At(r, "initiate", "checked")
    /\ \/ /\ "succeeded" \in ProviderOutcomes
          /\ charges < MaxProviderCalls
          /\ charges' = charges + 1
          /\ Goto(r, "charged")
          /\ UNCHANGED checkouts
       \/ /\ "failed" \in ProviderOutcomes
          /\ Goto(r, "declined")
          /\ UNCHANGED <<charges, checkouts>>
       \/ /\ "pending" \in ProviderOutcomes
          /\ checkouts["linked"] < MaxProviderCalls
          /\ checkouts' = [checkouts EXCEPT !["linked"] = @ + 1]
          /\ Goto(r, "redirected")
          /\ UNCHANGED charges
    /\ UNCHANGED <<projectVars, proposal, escrowVars, payment, refunds, events,
                   stranded, lock>>

\* The answer is written over whatever status the row has by now.
InitiateRecord(r) ==
    /\ req[r].op = "initiate"
    /\ payment # "ABSENT"
    /\ \/ req[r].pc = "charged"    /\ payment' = "SUCCEEDED"
       \/ req[r].pc = "declined"   /\ payment' = "FAILED"
       \/ req[r].pc = "redirected" /\ payment' = "PROCESSING"
    /\ Finish(r)
    /\ UNCHANGED <<projectVars, proposal, escrowVars, gatewayVars>>

-----------------------------------------------------------------------------
(* captureEscrowFundingInTx: part of the transactions that fund an escrow *)

\* The requests whose transaction is about to capture.
Capturing(r) ==
    \/ At(r, "fund", "checked")
    \/ At(r, "completeFunding", "checked")
    \/ At(r, "fundAndAccept", "inTx")

\* Mutant: a payment the gateway is still processing counts as paid.
CaptureProcessing(r) ==
    /\ Capturing(r)
    /\ payment \in {"PROCESSING", "SUCCEEDED"}
    /\ Goto(r, "captured")
    /\ UNCHANGED <<projectVars, proposal, escrowVars, payment, gatewayVars,
                   lock>>

\* The escrow was paid already: nothing is charged.
CaptureExisting(r) ==
    /\ Capturing(r)
    /\ payment = "SUCCEEDED"
    /\ Goto(r, "captured")
    /\ UNCHANGED <<projectVars, proposal, escrowVars, payment, gatewayVars,
                   lock>>

\* Mutant: the idempotency key is not unique.
HoldNoKey(r) == UNCHANGED lock

\* The transaction that inserts the Payment row holds its idempotency key
\* until it ends; one that finds a row calls the gateway without a lock.
HoldKey(r) ==
    lock' = IF payment = "ABSENT" THEN [lock EXCEPT !["payment"] = r] ELSE lock

MayCharge(r) ==
    /\ Capturing(r)
    /\ payment # "SUCCEEDED"
    /\ payment = "ABSENT" => Free("payment", r)
    /\ escrow # "ABSENT" \/ lock["escrow"] = r

CaptureCharge(r) ==
    /\ MayCharge(r)
    /\ "succeeded" \in ProviderOutcomes
    /\ charges < MaxProviderCalls
    /\ charges' = charges + 1
    /\ Goto(r, "charged")
    /\ HoldKey(r)
    /\ UNCHANGED <<projectVars, proposal, escrowVars, payment, refunds,
                   checkouts, events, stranded>>

\* The gateway wants a redirect: the handler writes PROCESSING and throws, so
\* the write is rolled back with the transaction while the checkout stays
\* open.  If the transaction had created the Payment row, no row is left for
\* the checkout's webhook to find.
CaptureRedirect(r) ==
    /\ MayCharge(r)
    /\ "pending" \in ProviderOutcomes
    /\ LET kind == IF payment = "ABSENT" THEN "orphan" ELSE "linked"
       IN  /\ checkouts[kind] < MaxProviderCalls
           /\ checkouts' = [checkouts EXCEPT ![kind] = @ + 1]
    /\ Finish(r)
    /\ UNCHANGED <<projectVars, proposal, escrowVars, payment, charges, refunds,
                   events, stranded>>

\* The Payment row as the committing transaction leaves it.
PaymentAfterCapture(r) ==
    IF req[r].pc = "charged" THEN "SUCCEEDED" ELSE payment

-----------------------------------------------------------------------------
(* The gateway, outside the program *)

PayCheckout ==
    \E kind \in {"linked", "orphan"} :
        /\ checkouts[kind] > 0
        /\ charges < MaxProviderCalls
        /\ charges' = charges + 1
        /\ checkouts' = [checkouts EXCEPT ![kind] = @ - 1]
        /\ events' = IF kind = "linked" THEN events \cup {"payment.succeeded"}
                                        ELSE events
        /\ stranded' = IF kind = "orphan" THEN stranded + 1 ELSE stranded
        /\ UNCHANGED <<projectVars, proposal, escrowVars, payment, refunds, req,
                       lock>>

FailCheckout ==
    /\ checkouts["linked"] > 0
    /\ checkouts' = [checkouts EXCEPT !["linked"] = @ - 1]
    /\ events' = events \cup {"payment.failed"}
    /\ UNCHANGED <<projectVars, proposal, escrowVars, payment, charges, refunds,
                   stranded, req, lock>>

AnnounceRefund ==
    /\ refunds > 0
    /\ events' = events \cup {"payment.refunded"}
    /\ UNCHANGED <<projectVars, proposal, escrowVars, payment, charges, refunds,
                   checkouts, stranded, req, lock>>

-----------------------------------------------------------------------------
(* POST /payments/webhooks/:provider: applyWebhookEvent *)

\* A success that is recorded already answers alreadyProcessed and goes no
\* further; otherwise the read of the row and its update are two statements.
BeginWebhook(r) ==
    /\ "payment.succeeded" \in events
    /\ payment \notin {"ABSENT", "SUCCEEDED"}
    /\ Begin(r, "webhook", NoProposal)

ApplySucceeded(r) ==
    /\ At(r, "webhook", "checked")
    /\ payment # "ABSENT"
    /\ payment' = "SUCCEEDED"
    /\ Goto(r, "applied")
    /\ UNCHANGED <<projectVars, proposal, escrowVars, gatewayVars, lock>>

\* The other events are applied without looking at the current status.
ApplyOther ==
    /\ "webhook" \in Operations
    /\ payment # "ABSENT"
    /\ \/ "payment.failed" \in events   /\ payment' = "FAILED"
       \/ "payment.refunded" \in events /\ payment' = "REFUNDED"
    /\ UNCHANGED <<projectVars, proposal, escrowVars, gatewayVars, req, lock>>

-----------------------------------------------------------------------------
(* recordEscrowRefundInTx: the gateway refunds inside the transaction that *)
(* resolves a dispute; without a successful payment nothing is refunded.   *)

RefundCall(r) ==
    IF payment = "SUCCEEDED"
    THEN /\ refunds < MaxProviderCalls
         /\ refunds' = refunds + 1
         /\ Goto(r, "refunded")
    ELSE /\ Goto(r, "captured")
         /\ UNCHANGED refunds

\* Mutant: the ledger's name for a refund is written to the payment.
PaymentAsLedger(r) ==
    IF req[r].pc = "refunded" THEN "REFUND" ELSE payment

PaymentAfterRefund(r) ==
    IF req[r].pc = "refunded" THEN "REFUNDED" ELSE payment
=============================================================================
