----------------------------- MODULE Commercial -----------------------------
(***************************************************************************)
(* The commercial side of the marketplace: an escrow is prepared at the    *)
(* commission in force (CommissionRates) and, when it is released, its fee *)
(* is shared with the investor (InvestorLedger), while administrators      *)
(* change rates, agreements and payouts.                                   *)
(***************************************************************************)
EXTENDS InvestorLedger

vars == <<workload, now, rateRows, escrows, req, ledgerRows>>

Init == RatesInit /\ LedgerInit

Next ==
    /\ UNCHANGED workload
    /\ \/ \E r \in Requests : RateCall(r) /\ UNCHANGED ledgerRows
       \/ \E r \in Requests : LedgerCall(r) /\ UNCHANGED <<now, rateRows, escrows>>
       \/ \E r \in Requests : SettleCall(r) /\ UNCHANGED <<now, rateRows>>
       \/ \E p \in Projects : Prepare(p) /\ UNCHANGED ledgerRows
       \/ CreatePayout /\ UNCHANGED <<now, rateRows, escrows>>
       \/ FinalizeStatement /\ UNCHANGED <<now, rateRows, escrows>>
       \/ NextDay /\ UNCHANGED ledgerRows

Spec == Init /\ [][Next]_vars

(***************************************************************************)
(* Types                                                                   *)
(***************************************************************************)
Dates == OrNull(Days)

PolicyType   == [terms: Terms, from: Days, to: Dates, status: PolicyStatus, prev: 0..MaxVersions]
CategoryType == [percent: OrNull(Percents), from: Days, to: Dates, status: PolicyStatus,
                 prev: 0..MaxVersions]
OverrideType == [percent: Percents, from: Days, to: Dates, status: PolicyStatus]
AgreementType == [share: Shares, cap: Caps, from: Days, to: OrNull(0..MaxTime + 1),
                  status: AgreementStatus, prev: 0..MaxVersions]
EscrowType == [status: {"NONE", "OPEN", "RELEASED"}, fee: Nat, payout: Nat]

\* Every row keeps its type, and no table outgrows its bound.
TypeOK ==
    /\ workload \in Workloads /\ now \in Days
    /\ policies \in Seq(PolicyType) /\ Len(policies) <= MaxVersions
    /\ categories \in Seq(CategoryType) /\ Len(categories) <= MaxVersions
    /\ \A p \in Projects : /\ overrides[p] \in Seq(OverrideType)
                           /\ Len(overrides[p]) <= MaxVersions
    /\ escrows \in [Projects -> EscrowType]
    /\ agreements \in Seq(AgreementType) /\ Len(agreements) <= MaxVersions
    /\ accrued \in [Versions -> Nat] /\ earned \in [Months -> Nat]
    /\ terminated \subseteq Versions /\ late \subseteq Versions
    /\ payouts \in [Payouts -> [status: PayoutStatus, paidOn: Dates]]
    /\ statements \in [Months -> [status: StatementStatus, accruals: Nat, payments: Nat,
                                  madeOn: Dates]]

(***************************************************************************)
(* The commission                                                          *)
(***************************************************************************)
\* However many administrators change the platform's commission at once, one
\* version is ACTIVE: the unique previousPolicyId makes the second of two
\* overlapping changes fail instead of leaving two rates in force.
OneActivePolicy ==
    \E i \in DOMAIN policies : Current(policies, now) = {i}

\* The terms that the public is told, which are those that a contract gets, follow the
\* administrators' accepted decisions, for any overlap of their calls: one whose day has
\* come, backdated ones included, takes effect when it is accepted, a later one on its
\* day, and nothing else moves them.
Promise == INSTANCE RatePromise WITH
    today <- now,
    terms <- CHOOSE t \in CommissionConfig : TRUE,
    announced <- {[from |-> policies[i].from, terms |-> policies[i].terms] :
                     i \in {j \in DOMAIN policies : policies[j].status = "SCHEDULED"
                                                    /\ policies[j].from > now}}
KeepsRatePromise == Promise!Spec

\* The calls of a behaviour do not overlap.
Sequential == workload.ops \in workload.apart

\* resolveForProject answers what was decided: the project's own percentage
\* until it is ended, else the category's until it is cleared, else the
\* platform's.  Only while no change of the category is scheduled: a
\* scheduled row outlives a later clearing.
ResolvesDecision ==
    (Sequential /\ \A i \in DOMAIN categories : categories[i].status # "SCHEDULED") =>
        \A p \in Projects : \A t \in Resolved(p) :
            t.percent \in IF decided.project[p] # Null THEN {decided.project[p]}
                          ELSE IF decided.category # Null THEN {decided.category}
                          ELSE {platform.percent : platform \in PlatformTerms}

\* A fee and a payout that were stored are the amount, to the cent, and the
\* fee is the percentage of some decided rate, within half a cent, unless a
\* bound or the amount itself replaced it.
SplitFair ==
    \A p \in Projects : escrows[p].status # "NONE" =>
        /\ escrows[p].fee + escrows[p].payout = workload.amount
        /\ \/ escrows[p].fee = workload.amount
           \/ \E t \in Terms :
                \/ escrows[p].fee \in {t.min, t.max}
                \/ \E percent \in Percents \cup {t.percent} :
                      2 * (Whole * escrows[p].fee - workload.amount * percent) \in -Whole..Whole

(***************************************************************************)
(* The investor's ledger                                                   *)
(***************************************************************************)
Apart(ops) == \E group \in workload.apart : ops \subseteq group

CapKept == \A i \in DOMAIN agreements : agreements[i].cap # Null => accrued[i] <= agreements[i].cap

\* On no day does a settlement find two agreements of the investor, unless somebody
\* names the predecessor himself.
OneInForce ==
    (Sequential /\ "REPLACEMENT" \notin workload.ops) =>
        \A day \in Days : Cardinality(Settleable(agreements, day)) <= 1

\* An agreement earns only what it allows, as long as settlements take turns.  It never
\* passes its cap, although agreements are created, replaced and terminated while a
\* settlement is under way; a settlement that starts after it was terminated adds
\* nothing, even if an overlapping one has marked it ACTIVE again, unless somebody names
\* it as a predecessor and gives it a later end; and no day's fee is shared twice,
\* however agreements are backdated, postponed, limited and terminated.
AccrualsAllowed ==
    /\ Apart({"SETTLE"}) => CapKept
    /\ (/\ Apart({"SETTLE"}) /\ Apart({"AGREEMENT", "TERMINATE"})
        /\ "REPLACEMENT" \notin workload.ops) => late = {}
    /\ OneInForce

\* A statement made after its month is over agrees with the ledger for ever:
\* no later call adds an accrual to that month or takes a payment out of it.
StatementComplete ==
    Sequential =>
        \A month \in Months : LET statement == statements[month] IN
            (statement.status # "NONE" /\ MonthOf(statement.madeOn) > month) =>
                statement.accruals = earned[month] /\ statement.payments = PaidIn(month)
=============================================================================
