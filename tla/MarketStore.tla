----------------------------- MODULE MarketStore -----------------------------
(***************************************************************************)
(* The database rows of one engagement (a project, its proposals, its      *)
(* escrow, the escrow's dispute and payment), the payment gateway outside  *)
(* the program, and the HTTP requests being served.                        *)
(*                                                                         *)
(* PostgreSQL runs at its default READ COMMITTED level, so what a handler  *)
(* read before its transaction may be stale when it writes.  A request is  *)
(* therefore a small process: it begins with the reads that precede its    *)
(* transaction, and commits in a later step.  A transaction that reads a   *)
(* row and writes it later, or calls the gateway before it commits, is     *)
(* split at that point; the row locks it holds meanwhile are in lock.      *)
(***************************************************************************)
EXTENDS Naturals, FiniteSets

CONSTANTS
    Proposals,          \* one possible proposal per freelancer
    NoProposal,         \* null reference to a proposal
    Requests,           \* slots for concurrently served requests
    NoRequest,          \* holder of a lock nobody holds
    Operations,         \* the endpoints that are called
    ProviderOutcomes,   \* what the gateway may answer to createPayment
    MaxProviderCalls    \* bound: charges, refunds and open checkouts, each

OperationNames ==
    {"publish", "deleteDraft", "close", "cancel", "adminClose",
     "requestCompletion", "complete",
     "submit", "reject", "withdraw", "accept",
     "prepare", "fund", "fundAndAccept", "openDispute",
     "refundClient", "releaseFreelancer", "initiate", "webhook"}

ASSUME StoreAssumption ==
    /\ NoProposal \notin Proposals
    /\ NoRequest \notin Requests
    /\ Operations \subseteq OperationNames
    /\ ProviderOutcomes \subseteq {"succeeded", "failed", "pending"}
    /\ MaxProviderCalls \in Nat

\* "ABSENT" stands for a row that does not exist.
ProjectStatus  == {"DRAFT", "OPEN", "IN_PROGRESS", "COMPLETED", "CLOSED",
                   "CANCELLED", "ABSENT"}
ProposalStatus == {"PENDING", "ACCEPTED", "REJECTED", "WITHDRAWN", "ABSENT"}
EscrowStatus   == {"PENDING_FUNDING", "FUNDED", "DISPUTED", "RELEASED",
                   "REFUNDED", "ABSENT"}
DisputeStatus  == {"OPEN", "UNDER_REVIEW", "RESOLVED_REFUND_CLIENT",
                   "RESOLVED_RELEASE_FREELANCER", "ABSENT"}
PaymentStatus  == {"PENDING", "PROCESSING", "SUCCEEDED", "FAILED", "REFUNDED",
                   "ABSENT"}
LedgerType     == {"DEPOSIT", "PLATFORM_FEE", "RELEASE", "REFUND"}

VARIABLES
    project,              \* Project.status
    accepted,             \* Project.acceptedProposalId
    completionRequested,  \* Project.completionRequestedAt is set
    completions,          \* increments of FreelancerProfile.completedProjects
    proposal,             \* Proposal.status of each proposal
    escrow,               \* Escrow.status
    escrowFor,            \* Escrow.proposalId
    dispute,              \* EscrowDispute.status
    ledger,               \* number of EscrowTransaction rows of each type
    payment,              \* Payment.status (one row per idempotency key)
    charges,              \* captures the gateway made
    refunds,              \* refunds the gateway made
    checkouts,            \* redirect pages the payer can still complete
    events,               \* webhook events the gateway may deliver, any time
    stranded,             \* captures that were rolled back with the transaction
                          \* that made them, or its crash, or lost with the row
                          \* of their checkout (history)
    req,                  \* the requests in flight
    lock,                 \* row locks held between two steps of a transaction
    early                 \* the requests that were in flight when the freelancer
                          \* was hired, until they end (history)

projectVars == <<project, accepted, completionRequested, completions>>
escrowVars  == <<escrow, escrowFor, dispute, ledger>>
gatewayVars == <<charges, refunds, checkouts, events, stranded>>
vars == <<projectVars, proposal, escrowVars, payment, gatewayVars, req, lock,
          early>>

Rows == {"project", "escrow", "dispute", "payment"}

\* Where a request stands: after the reads before its transaction ("read",
\* "checked"), inside the transaction ("inTx"), after the gateway answered.
Pcs == {"idle", "read", "checked", "inTx", "captured", "charged", "declined",
        "redirected", "refunded", "applied"}

\* prop is the proposal the request is about, seen the escrow status that its
\* transaction read and acts on later.
Request == [op: OperationNames \cup {"none", "completeFunding"}, pc: Pcs,
            prop: Proposals \cup {NoProposal}, seen: EscrowStatus]

Idle == [op |-> "none", pc |-> "idle", prop |-> NoProposal, seen |-> "ABSENT"]

Init ==
    /\ project = "DRAFT"
    /\ accepted = NoProposal
    /\ completionRequested = FALSE
    /\ completions = 0
    /\ proposal = [p \in Proposals |-> "ABSENT"]
    /\ escrow = "ABSENT"
    /\ escrowFor = NoProposal
    /\ dispute = "ABSENT"
    /\ ledger = [t \in LedgerType |-> 0]
    /\ payment = "ABSENT"
    /\ charges = 0
    /\ refunds = 0
    /\ checkouts = [kind \in {"linked", "orphan"} |-> 0]
    /\ events = {}
    /\ stranded = 0
    /\ req = [r \in Requests |-> Idle]
    /\ lock = [row \in Rows |-> NoRequest]
    /\ early = {}

-----------------------------------------------------------------------------
(* Serving a request *)

At(r, op, pc) == req[r].op = op /\ req[r].pc = pc

\* The handler has read what it needs and its checks passed.
BeginAt(r, op, pc, p) ==
    /\ op \in Operations
    /\ req[r].pc = "idle"
    /\ req' = [req EXCEPT ![r] = [op |-> op, pc |-> pc, prop |-> p,
                                  seen |-> "ABSENT"]]
    /\ UNCHANGED <<projectVars, proposal, escrowVars, gatewayVars, lock>>

\* The request moves on, or moves on remembering the escrow status it read.
Goto(r, pc) ==
    req' = [req EXCEPT ![r] = [op |-> req[r].op, pc |-> pc,
                               prop |-> req[r].prop, seen |-> req[r].seen]]

Remember(r, pc, status) ==
    req' = [req EXCEPT ![r] = [op |-> req[r].op, pc |-> pc,
                               prop |-> req[r].prop, seen |-> status]]

Begin(r, op, p) == BeginAt(r, op, "checked", p) /\ UNCHANGED payment

Free(row, r) == lock[row] \in {NoRequest, r}

Unlock(r) == lock' = [row \in Rows |-> IF lock[row] = r THEN NoRequest
                                                        ELSE lock[row]]

\* The request commits what its other conjuncts write, and answers.
Finish(r) == req' = [req EXCEPT ![r] = Idle] /\ Unlock(r)

\* A request may end at any point without committing: a check inside its
\* transaction throws, the transaction times out or is a deadlock victim, or
\* the process dies.  Calls already made to the gateway stay made.
Abort(r) ==
    /\ req[r].pc # "idle"
    /\ Finish(r)
    /\ stranded' = IF req[r].pc = "charged" THEN stranded + 1 ELSE stranded
    /\ UNCHANGED <<projectVars, proposal, escrowVars, payment, charges, refunds,
                   checkouts, events>>

Book(types) == ledger' = [t \in LedgerType |->
                            IF t \in types THEN ledger[t] + 1 ELSE ledger[t]]

\* EscrowStatus values that are reached only once money was deposited.
Deposited == {"FUNDED", "DISPUTED", "RELEASED", "REFUNDED"}

StoreTypeOK ==
    /\ project \in ProjectStatus
    /\ accepted \in Proposals \cup {NoProposal}
    /\ completionRequested \in BOOLEAN
    /\ completions \in Nat
    /\ proposal \in [Proposals -> ProposalStatus]
    /\ escrow \in EscrowStatus
    /\ escrowFor \in Proposals \cup {NoProposal}
    /\ dispute \in DisputeStatus
    /\ ledger \in [LedgerType -> Nat]
    /\ payment \in PaymentStatus
    /\ charges \in Nat
    /\ refunds \in Nat
    /\ checkouts \in [{"linked", "orphan"} -> Nat]
    /\ events \subseteq {"payment.succeeded", "payment.failed",
                         "payment.refunded"}
    /\ stranded \in Nat
    /\ req \in [Requests -> Request]
    /\ lock \in [Rows -> Requests \cup {NoRequest}]
    /\ early \subseteq Requests
=============================================================================
