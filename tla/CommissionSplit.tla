-------------------------- MODULE CommissionSplit --------------------------
(***************************************************************************)
(* How an escrow's amount is divided: the platform's fee, the freelancer's *)
(* payout and the investor's share of the fee.  Money is in cents, a       *)
(* percentage in hundredths of a percent (Decimal(5,2)).                   *)
(*                                                                         *)
(* The code multiplies binary floating-point numbers and rounds them with  *)
(* Math.round, so a result that lies exactly between two cents is rounded  *)
(* to either of them (1.005 becomes 1.00, 1.015 becomes 1.02): every       *)
(* operator returns the set of the possible results.                       *)
(***************************************************************************)
EXTENDS Integers

Null == -1                      \* null: no bound, no date, no percentage
OrNull(S) == S \cup {Null}

Whole == 10000                  \* 100 percent
Percentages == 0..Whole

\* Mutant: cents are cut off.
Truncated(n, d) == {n \div d}

\* roundMoney: the whole numbers nearest to n / d.
Nearest(n, d) ==
    {k \in {n \div d, n \div d + 1} : 2 * k * d <= 2 * n + d /\ 2 * n <= 2 * k * d + d}

AtLeast(x, min) == IF min # Null /\ x < min THEN min ELSE x
AtMost(x, max)  == IF max # Null /\ x > max THEN max ELSE x

\* Mutant: a minimum above the amount is charged in full.
FeesUnclamped(amount, percent, min, max) ==
    {[fee |-> fee, payout |-> amount - fee] :
        fee \in {AtMost(AtLeast(raw, min), max) : raw \in Nearest(amount * percent, Whole)}}

\* calculateFeesFromPercent: first the minimum, then the maximum, and never
\* more than the amount itself.
Fees(amount, percent, min, max) ==
    {[fee |-> fee, payout |-> amount - fee] :
        fee \in {AtMost(AtMost(AtLeast(raw, min), max), amount) :
                    raw \in Nearest(amount * percent, Whole)}}

\* previewCommissionSplit: what an investor with this share gets of a fee, and
\* what the platform keeps.
InvestorSplit(fee, share) ==
    {[accrual |-> accrual, remaining |-> fee - accrual] :
        accrual \in Nearest(fee * share, Whole)}

\* What a settlement adds to an agreement that has earned prior so far.
CappedAccrual(accrual, cap, prior) ==
    IF cap = Null THEN accrual
    ELSE IF cap <= prior THEN 0
    ELSE AtMost(accrual, cap - prior)
=============================================================================
