--------------------------- MODULE ProposalService ---------------------------
(***************************************************************************)
(* proposals/proposals.service.ts: a freelancer submits or withdraws, the  *)
(* client rejects or accepts.                                              *)
(***************************************************************************)
EXTENDS EscrowService

BeginSubmit(r, p) ==
    /\ project = "OPEN"
    /\ proposal[p] = "ABSENT"
    /\ Begin(r, "submit", p)

\* The transaction inserts the row and charges the freelancer's points; a
\* missing project or a second proposal of the freelancer fails on a key.
CommitSubmit(r) ==
    /\ At(r, "submit", "checked")
    /\ project # "ABSENT"
    /\ proposal[req[r].prop] = "ABSENT"
    /\ proposal' = [proposal EXCEPT ![req[r].prop] = "PENDING"]
    /\ Finish(r)
    /\ UNCHANGED <<projectVars, escrowVars, payment, gatewayVars>>

BeginReject(r, p) == proposal[p] = "PENDING" /\ Begin(r, "reject", p)

BeginWithdraw(r, p) == proposal[p] = "PENDING" /\ Begin(r, "withdraw", p)

\* An UPDATE of the proposal row by its id, whatever its status is by now.
SetProposal(r, status) ==
    /\ proposal[req[r].prop] # "ABSENT"
    /\ proposal' = [proposal EXCEPT ![req[r].prop] = status]
    /\ Finish(r)
    /\ UNCHANGED <<projectVars, escrowVars, payment, gatewayVars>>

CommitReject(r)   == At(r, "reject", "checked") /\ SetProposal(r, "REJECTED")
CommitWithdraw(r) == At(r, "withdraw", "checked") /\ SetProposal(r, "WITHDRAWN")

\* Mutant: an escrow that is only prepared is enough to accept.
AcceptPrepared(r, p) ==
    /\ CanAcceptNow(p)
    /\ escrow \in {"PENDING_FUNDING", "FUNDED"}
    /\ escrowFor = p
    /\ Begin(r, "accept", p)

\* assertFundedForAccept reads the escrow before the transaction.
BeginAccept(r, p) ==
    /\ CanAcceptNow(p)
    /\ escrow = "FUNDED"
    /\ escrowFor = p
    /\ Begin(r, "accept", p)

CommitAccept(r) ==
    /\ At(r, "accept", "checked")
    /\ AcceptInTx(r, req[r].prop)
    /\ Finish(r)
    /\ UNCHANGED <<escrowVars, payment, gatewayVars>>
=============================================================================
