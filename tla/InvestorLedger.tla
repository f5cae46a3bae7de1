--------------------------- MODULE InvestorLedger ---------------------------
(***************************************************************************)
(* What one investor earns of the platform's commission: versioned         *)
(* agreements, the accruals that the settlement of an escrow adds to the   *)
(* agreements in force, the payouts that administrators record, and the    *)
(* monthly statements over both.                                           *)
(*                                                                         *)
(* Accrual rows are kept as sums: accrued is what an agreement has earned, *)
(* earned what the investor earned in a month.                             *)
(***************************************************************************)
EXTENDS CommissionRates, Functions

CONSTANTS
    Shares,        \* an agreement's percentage of the commission
    Caps,          \* its returnCap, or Null
    Payouts,       \* payout rows
    PayoutAmount,  \* the amount of each
    DaysPerMonth   \* length of a month

ASSUME LedgerAssumption ==
    /\ Shares \subseteq Percentages
    /\ Caps \subseteq OrNull(Nat)
    /\ PayoutAmount \in Nat /\ IsFiniteSet(Payouts)
    /\ DaysPerMonth \in Nat \ {0}

VARIABLES
    agreements,   \* InvestmentAgreement rows in order of creation
    accrued,      \* sum of the InvestorAccrual rows of each agreement
    earned,       \* sum of the accrual rows created in each month
    terminated,   \* agreements that were terminated (history)
    late,         \* agreements that earned from a settlement that started
                  \* after their termination (history)
    payouts,      \* InvestorPayout rows
    statements    \* InvestorStatement rows by month

accrualRows == <<accrued, earned, late>>
ledgerRows  == <<agreements, accrualRows, terminated, payouts, statements>>

AgreementStatus == {"SCHEDULED", "ACTIVE", "ENDED", "TERMINATED"}
PayoutStatus    == {"NONE", "PENDING", "APPROVED", "PAID", "CANCELLED"}
StatementStatus == {"NONE", "DRAFT", "FINALIZED"}

MonthOf(day) == day \div DaysPerMonth
Months       == {MonthOf(day) : day \in Days}

Open(rows) == {i \in DOMAIN rows : rows[i].status \in {"ACTIVE", "SCHEDULED"}}

\* listActiveAgreementsForSettlement
Settleable(rows, day) ==
    {i \in Open(rows) : rows[i].from <= day /\ Unexpired(rows[i], day)}

(***************************************************************************)
(* Agreements                                                              *)
(***************************************************************************)
\* The predecessor is the latest open agreement (AGREEMENT) or one that the
\* administrator names (REPLACEMENT).
BeginAgreement(r) ==
    \E op \in {"AGREEMENT", "REPLACEMENT"} :
        /\ Begins(r, op)
        /\ \E share \in Shares, cap \in Caps, from \in 0..workload.days :
           \E to \in {Null, from + 1},
              prev \in IF op = "AGREEMENT" THEN FirstOr0(Latest(agreements, Open(agreements)))
                                           ELSE DOMAIN agreements :
              req' = [req EXCEPT ![r] = [Idle EXCEPT !.op = op, !.pc = "commit", !.percent = share,
                         !.sum = cap, !.from = from, !.to = to, !.asOf = now, !.target = prev]]
        /\ UNCHANGED ledgerRows

\* Mutant: only a successor that begins at once ends its predecessor.
ClosedAtOnce(call) ==
    [i \in DOMAIN agreements |->
        IF i = call.target /\ call.from <= call.asOf
        THEN [agreements[i] EXCEPT !.status = "ENDED", !.to = call.from]
        ELSE agreements[i]]

\* The predecessor ends, although its successor may begin later.
Closed(call) ==
    [i \in DOMAIN agreements |->
        IF i = call.target
        THEN [agreements[i] EXCEPT !.status = "ENDED", !.to = call.from]
        ELSE agreements[i]]

CommitAgreement(r) ==
    LET call == req[r]
        allowed == ~HasSuccessor(agreements, call.target)
    IN /\ At(r, "AGREEMENT", "commit") \/ At(r, "REPLACEMENT", "commit")
       /\ allowed => Len(agreements) < workload.versions
       /\ agreements' = IF ~allowed THEN agreements
                        ELSE Append(Closed(call),
                                    [share |-> call.percent, cap |-> call.sum, from |-> call.from,
                                     to |-> call.to, status |-> StatusFrom(call.from, call.asOf),
                                     prev |-> call.target])
       /\ Ends(r)
       /\ UNCHANGED <<accrualRows, terminated, payouts, statements>>

BeginTerminate(r) ==
    /\ Begins(r, "TERMINATE")
    /\ \E i \in Open(agreements) :
          req' = [req EXCEPT ![r] = [Idle EXCEPT !.op = "TERMINATE", !.pc = "commit", !.target = i]]
    /\ UNCHANGED ledgerRows

\* Mutant: the agreement's end date is kept.
TerminateUndated(r) ==
    LET i == req[r].target
    IN /\ At(r, "TERMINATE", "commit")
       /\ agreements' = [agreements EXCEPT ![i].status = "TERMINATED"]
       /\ terminated' = terminated \cup {i}
       /\ Ends(r)
       /\ UNCHANGED <<accrualRows, payouts, statements>>

CommitTerminate(r) ==
    LET i == req[r].target
    IN /\ At(r, "TERMINATE", "commit")
       /\ agreements' = [agreements EXCEPT ![i].status = "TERMINATED", ![i].to = now]
       /\ terminated' = terminated \cup {i}
       /\ Ends(r)
       /\ UNCHANGED <<accrualRows, payouts, statements>>

(***************************************************************************)
(* Settlement of an escrow                                                 *)
(***************************************************************************)
\* The release of the escrow reads the agreements and what they have earned.
BeginSettle(r) ==
    /\ Begins(r, "SETTLE")
    /\ \E p \in Projects :
          /\ escrows[p].status = "OPEN"
          /\ \A other \in Requests : req[other].op = "SETTLE" => req[other].project # p
          /\ req' = [req EXCEPT ![r] = [Idle EXCEPT !.op = "SETTLE", !.pc = "commit",
                        !.project = p, !.asOf = now,
                        !.seen = {[id |-> i, row |-> agreements[i], prior |-> accrued[i],
                                      closed |-> i \in terminated] :
                                     i \in Settleable(agreements, now)}]]
    /\ UNCHANGED <<escrows, ledgerRows>>

\* What one agreement, as it was read, earns of the escrow's fee.
AccrualChoices(read, fee) ==
    {CappedAccrual(split.accrual, read.row.cap, read.prior) :
        split \in InvestorSplit(fee, read.row.share)}

\* A scheduled agreement that has begun is marked ACTIVE by its id, whatever
\* has become of it since it was read.
CommitSettle(r) ==
    LET call == req[r]
        fee == escrows[call.project].fee
        ids == {read.id : read \in call.seen}
        ReadOf(i) == CHOOSE read \in call.seen : read.id = i
    IN /\ At(r, "SETTLE", "commit")
       /\ \E amount \in [ids -> 0..fee] :
             /\ \A i \in ids : amount[i] \in AccrualChoices(ReadOf(i), fee)
             /\ accrued' = [i \in DOMAIN accrued |->
                               IF i \in ids THEN accrued[i] + amount[i] ELSE accrued[i]]
             /\ late' = late \cup {i \in ids : ReadOf(i).closed /\ amount[i] > 0}
             /\ earned' = [earned EXCEPT ![MonthOf(now)] =
                              @ + SumFunction(amount)]
       /\ agreements' = [i \in DOMAIN agreements |->
                            IF i \in ids /\ ReadOf(i).row.status = "SCHEDULED"
                            THEN [agreements[i] EXCEPT !.status = "ACTIVE"] ELSE agreements[i]]
       /\ escrows' = [escrows EXCEPT ![call.project].status = "RELEASED"]
       /\ Ends(r)
       /\ UNCHANGED <<terminated, payouts, statements>>

(***************************************************************************)
(* Payouts and statements                                                  *)
(***************************************************************************)
CreatePayout ==
    /\ "PAYOUT" \in workload.ops
    /\ \E id \in Payouts :
          /\ payouts[id].status = "NONE"
          /\ payouts' = [payouts EXCEPT ![id].status = "PENDING"]
    /\ UNCHANGED <<req, agreements, accrualRows, terminated, statements>>

\* Mutant: a paid payout can be cancelled.
PayoutCallLoose == [APPROVE |-> {"PENDING"}, PAY |-> {"APPROVED", "PENDING"},
                    CANCEL |-> PayoutStatus \ {"NONE"}]

\* The statuses from which each call proceeds.
PayoutCall == [APPROVE |-> {"PENDING"}, PAY |-> {"APPROVED", "PENDING"},
               CANCEL |-> PayoutStatus \ {"NONE", "PAID"}]

BeginPayoutChange(r) ==
    \E op \in DOMAIN PayoutCall, id \in Payouts :
        /\ Begins(r, op)
        /\ payouts[id].status \in PayoutCall[op]
        /\ req' = [req EXCEPT ![r] = [Idle EXCEPT !.op = op, !.pc = "commit", !.seen = {id}]]
        /\ UNCHANGED ledgerRows

\* An update by id: the status is no longer checked.
CommitPayoutChange(r) ==
    /\ req[r].op \in DOMAIN PayoutCall
    /\ \E id \in req[r].seen :
          payouts' = [payouts EXCEPT ![id] =
              CASE req[r].op = "APPROVE" -> [@ EXCEPT !.status = "APPROVED"]
                [] req[r].op = "PAY"     -> [status |-> "PAID", paidOn |-> now]
                [] req[r].op = "CANCEL"  -> [@ EXCEPT !.status = "CANCELLED"]]
    /\ Ends(r)
    /\ UNCHANGED <<agreements, accrualRows, terminated, statements>>

PaidIn(month) ==
    PayoutAmount * Cardinality({id \in Payouts : payouts[id].status = "PAID"
                                                 /\ MonthOf(payouts[id].paidOn) = month})

\* createStatement sums the accruals, then the payments, then inserts the row.
BeginStatement(r) ==
    /\ Begins(r, "STATEMENT")
    /\ \E month \in Months :
          req' = [req EXCEPT ![r] = [Idle EXCEPT !.op = "STATEMENT", !.pc = "payments",
                     !.target = month, !.sum = earned[month]]]
    /\ UNCHANGED ledgerRows

SumPayments(r) ==
    /\ At(r, "STATEMENT", "payments")
    /\ req' = [req EXCEPT ![r].pc = "insert", ![r].paid = PaidIn(req[r].target)]
    /\ UNCHANGED ledgerRows

\* One statement of a month: the unique key refuses another.
CommitStatement(r) ==
    LET month == req[r].target
    IN /\ At(r, "STATEMENT", "insert")
       /\ statements' = IF statements[month].status # "NONE" THEN statements
                        ELSE [statements EXCEPT ![month] =
                                 [status |-> "DRAFT", accruals |-> req[r].sum,
                                  payments |-> req[r].paid, madeOn |-> now]]
       /\ Ends(r)
       /\ UNCHANGED <<agreements, accrualRows, terminated, payouts>>

FinalizeStatement ==
    /\ "FINALIZE" \in workload.ops
    /\ \E month \in Months :
          /\ statements[month].status = "DRAFT"
          /\ statements' = [statements EXCEPT ![month].status = "FINALIZED"]
    /\ UNCHANGED <<req, agreements, accrualRows, terminated, payouts>>

LedgerInit ==
    /\ agreements = <<>>
    /\ accrued = [i \in Versions |-> 0]
    /\ earned = [month \in Months |-> 0]
    /\ terminated = {}
    /\ late = {}
    /\ payouts = [id \in Payouts |-> [status |-> "NONE", paidOn |-> Null]]
    /\ statements = [month \in Months |-> [status |-> "NONE", accruals |-> 0,
                                           payments |-> 0, madeOn |-> Null]]

LedgerCall(r) ==
    \/ BeginAgreement(r) \/ CommitAgreement(r)
    \/ BeginTerminate(r) \/ CommitTerminate(r)
    \/ BeginPayoutChange(r) \/ CommitPayoutChange(r)
    \/ BeginStatement(r) \/ SumPayments(r) \/ CommitStatement(r)

SettleCall(r) == BeginSettle(r) \/ CommitSettle(r)
=============================================================================
