-------------------------- MODULE CommercialProofs --------------------------
(***************************************************************************)
(* The platform's commission for any number of administrators: one rate is *)
(* in force, it is the one that was decided or announced, and every escrow *)
(* is split to the cent by the rate that somebody decided.  The investor's *)
(* ledger: what agreements may earn, and what statements say of a month.   *)
(* At the end, the types of all rows, from the invariants before.          *)
(***************************************************************************)
EXTENDS Commercial, FiniteSums, SequenceTheorems, TLAPS

PolicyRow == [terms: Terms, from: Days, to: Dates, status: PolicyStatus, prev: Nat]
CategoryRow == [percent: OrNull(Percents), from: Days, to: Dates, status: PolicyStatus, prev: Nat]
OverrideRow == [percent: Percents, from: Days, to: Dates, status: PolicyStatus]
EscrowRow == [status: {"NONE", "OPEN", "RELEASED"}, fee: Int, payout: Int]

\* What a call brings along depends on its operation.
CallShape(call) ==
    /\ DOMAIN call = DOMAIN Idle
    /\ call.op = "PLATFORM" =>
          call.terms \in Terms /\ call.from \in Days /\ call.asOf \in Days
    /\ call.op = "CATEGORY" =>
          /\ call.percent \in OrNull(Percents) /\ call.from \in Days
          /\ call.asOf \in Days /\ call.target \in Nat
    /\ call.op = "OVERRIDE" =>
          call.percent \in Percents /\ call.from \in Days /\ call.project \in Projects
    /\ call.op = "END_OVERRIDE" => call.project \in Projects
    /\ call.op = "SETTLE" => call.project \in Projects

Shape ==
    /\ workload \in Workloads /\ now \in Days
    /\ policies \in Seq(PolicyRow)
    /\ categories \in Seq(CategoryRow)
    /\ overrides \in [Projects -> Seq(OverrideRow)]
    /\ escrows \in [Projects -> EscrowRow]
    /\ DOMAIN req = Requests
    /\ \A r \in Requests : CallShape(req[r])

\* Row k is the current one: the only one that is ACTIVE.
CurrentIs(k) ==
    /\ k \in DOMAIN policies
    /\ policies[k].status = "ACTIVE" /\ policies[k].to = Null /\ policies[k].from <= now
    /\ \A i \in DOMAIN policies : policies[i].status = "ACTIVE" => i = k

\* What was scheduled is the successor of the current row, and there is at
\* most one: the key freezes the table until the successor's date.
PendingOf(k) ==
    /\ \A i \in DOMAIN policies : policies[i].status = "SCHEDULED" =>
          policies[i].prev = k /\ policies[i].to = Null /\ policies[k].from < policies[i].from
    /\ \A i, j \in DOMAIN policies :
          policies[i].status = "SCHEDULED" /\ policies[j].status = "SCHEDULED" => i = j

\* A change in flight would follow the current row, or it breaks the key.
CallsOf(k) ==
    \A r \in Requests : req[r].op = "PLATFORM" =>
        /\ req[r].target \in DOMAIN policies /\ req[r].asOf <= now
        /\ \/ req[r].target = k /\ policies[k].from <= req[r].asOf
           \/ HasSuccessor(policies, req[r].target)

PolicyInv == \E k \in DOMAIN policies : CurrentIs(k) /\ PendingOf(k) /\ CallsOf(k)

\* A settlement releases an escrow that was prepared.
SettlesPrepared ==
    \A r \in Requests : req[r].op = "SETTLE" => escrows[req[r].project].status # "NONE"

CommercialInv == Shape /\ PolicyInv /\ SettlesPrepared /\ SplitFair

\* The step of request r leaves the other calls alone.
Moves(r) ==
    /\ DOMAIN req' = Requests
    /\ \A other \in Requests \ {r} : req'[other] = req[other]
    /\ CallShape(req'[r])

-----------------------------------------------------------------------------
(***************************************************************************)
(* Tables                                                                  *)
(***************************************************************************)
LEMMA SameInterval == \A m, n \in Nat : 1..m = 1..n => m = n
<1> SUFFICES ASSUME NEW m \in Nat, NEW n \in Nat, 1..m = 1..n PROVE m = n
    OBVIOUS
<1>1. \A i \in Int : i \in 1..m <=> i \in 1..n
    OBVIOUS
<1>2. CASE m < n
    BY <1>1, <1>2, n \in 1..n, n \notin 1..m
<1>3. CASE n < m
    BY <1>1, <1>3, m \in 1..m, m \notin 1..n
<1> QED BY <1>2, <1>3

Superseded(row, day) == [row EXCEPT !.status = "SUPERSEDED", !.to = day]

\* Changing the status and the end of some rows keeps a table's type.
LEMMA SupersedeRows ==
    ASSUME NEW S, NEW rows \in Seq(S), NEW ids, NEW day,
           \A row \in S : Superseded(row, day) \in S
    PROVE  /\ Supersede(rows, ids, day) \in Seq(S)
           /\ Len(Supersede(rows, ids, day)) = Len(rows)
           /\ DOMAIN Supersede(rows, ids, day) = DOMAIN rows
<1>1. rows \in [1..Len(rows) -> S] /\ Len(rows) \in Nat
    BY LenProperties
<1>2. Supersede(rows, ids, day) \in [1..Len(rows) -> S]
    <2>1. Supersede(rows, ids, day) = [i \in DOMAIN rows |-> IF i \in ids THEN Superseded(rows[i], day) ELSE rows[i]]
        BY DEF Supersede, Superseded
    <2> QED BY <1>1, <2>1
<1>3. Supersede(rows, ids, day) \in Seq(S)
    BY <1>1, <1>2, SeqDef
<1>4. DOMAIN Supersede(rows, ids, day) = 1..Len(rows) /\ DOMAIN rows = 1..Len(rows)
    BY <1>1, <1>2
<1>5. /\ Len(Supersede(rows, ids, day)) \in Nat
      /\ DOMAIN Supersede(rows, ids, day) = 1..Len(Supersede(rows, ids, day))
    BY <1>3, LenProperties
<1>6. Len(Supersede(rows, ids, day)) = Len(rows)
    BY <1>1, <1>4, <1>5, SameInterval
<1> QED BY <1>3, <1>4, <1>6

LEMMA RowIn ==
    ASSUME NEW S, NEW rows \in Seq(S)
    PROVE  \A i \in DOMAIN rows : rows[i] \in S
BY LenProperties

LEMMA AppendRow ==
    ASSUME NEW S, NEW rows \in Seq(S), NEW row \in S
    PROVE  /\ Append(rows, row) \in Seq(S)
           /\ DOMAIN Append(rows, row) = 1..Len(rows) + 1
           /\ DOMAIN rows = 1..Len(rows) /\ Len(rows) \in Nat
           /\ Append(rows, row)[Len(rows) + 1] = row
           /\ \A i \in DOMAIN rows : Append(rows, row)[i] = rows[i]
BY AppendProperties, LenProperties

LEMMA DatesInt == Days \subseteq Nat /\ Dates \subseteq Int /\ Null \in Dates /\ Days \subseteq Dates
BY RatesAssumption DEF Days, Dates, OrNull, Null

-----------------------------------------------------------------------------
(***************************************************************************)
(* The steps of a call                                                     *)
(***************************************************************************)
LEMMA EndsMoves ==
    ASSUME Shape, NEW r \in Requests, Ends(r)
    PROVE  Moves(r) /\ req'[r].op = "none"
BY DEF Shape, Moves, Ends, CallShape, Idle

\* The investor's side only adds calls of its own.
LEMMA LedgerMoves ==
    ASSUME Shape, NEW r \in Requests, LedgerCall(r)
    PROVE  Moves(r) /\ req'[r].op \notin {"PLATFORM", "SETTLE"}
<1> USE DEF Shape, Moves, CallShape, Idle
<1>1. CASE BeginAgreement(r) \/ BeginTerminate(r) \/ BeginStatement(r)
    <2>1. CASE BeginAgreement(r)
        BY <2>1 DEF BeginAgreement
    <2>2. CASE BeginTerminate(r)
        BY <2>2 DEF BeginTerminate
    <2>3. CASE BeginStatement(r)
        BY <2>3 DEF BeginStatement
    <2> QED BY <1>1, <2>1, <2>2, <2>3
<1>2. CASE BeginPayoutChange(r)
    BY <1>2 DEF BeginPayoutChange, PayoutCall, Begins
<1>3. CASE SumPayments(r)
    BY <1>3 DEF SumPayments, At
<1>4. CASE CommitAgreement(r) \/ CommitTerminate(r) \/ CommitPayoutChange(r) \/ CommitStatement(r)
    <2>1. Ends(r)
        BY <1>4 DEF CommitAgreement, CommitTerminate, CommitPayoutChange, CommitStatement
    <2> QED BY <2>1, EndsMoves
<1> QED BY <1>1, <1>2, <1>3, <1>4 DEF LedgerCall

LEMMA DayRange == Shape => 0..workload.days \subseteq Days /\ now \in 0..MaxTime
BY RatesAssumption DEF Shape, Days

LEMMA RateMoves ==
    ASSUME Shape, NEW r \in Requests, RateCall(r)
    PROVE  /\ Moves(r) /\ req'[r].op # "SETTLE"
           /\ req'[r].op = "PLATFORM" => BeginPlatform(r)
<1> USE DEF Shape, Moves, CallShape, Idle
<1>1. CASE BeginPlatform(r)
    <2>1. PICK t \in Terms, from \in 0..workload.days,
               current \in FirstOr0(Latest(policies, Current(policies, now))) :
              req' = [req EXCEPT ![r] = [Idle EXCEPT !.op = "PLATFORM", !.pc = "commit", !.terms = t,
                        !.from = from, !.asOf = now, !.target = current]]
        BY <1>1 DEF BeginPlatform
    <2>2. from \in Days
        BY DayRange
    <2>3. Moves(r) /\ req'[r].op = "PLATFORM"
        BY <2>1, <2>2
    <2> QED BY <1>1, <2>3
<1>2. CASE BeginCategory(r)
    <2>1. PICK percent \in OrNull(Percents), from \in 0..workload.days,
               current \in FirstOr0(Latest(categories, Current(categories, now))) :
              req' = [req EXCEPT ![r] = [Idle EXCEPT !.op = "CATEGORY", !.pc = "commit", !.percent = percent,
                        !.from = from, !.asOf = now, !.target = current]]
        BY <1>2 DEF BeginCategory
    <2>2. current \in Nat
        BY SMTT(30), <2>1, LenProperties DEF FirstOr0, Latest, Current
    <2>3. from \in Days
        BY DayRange
    <2> QED BY <2>1, <2>2, <2>3
<1>3. CASE BeginOverride(r)
    BY <1>3, DayRange, RatesAssumption DEF BeginOverride
<1>4. CASE FindOverrides(r)
    BY <1>4 DEF FindOverrides, At
<1>5. CASE BeginEndOverride(r)
    BY <1>5 DEF BeginEndOverride
<1>6. CASE CommitPlatform(r) \/ CommitCategory(r) \/ CommitOverride(r) \/ CommitEndOverride(r)
    <2>1. Ends(r)
        BY <1>6 DEF CommitPlatform, CommitCategory, CommitOverride, CommitEndOverride
    <2> QED BY <2>1, EndsMoves
<1> QED BY <1>1, <1>2, <1>3, <1>4, <1>5, <1>6 DEF RateCall

LEMMA SettleMoves ==
    ASSUME Shape, NEW r \in Requests, SettleCall(r)
    PROVE  Moves(r) /\ req'[r].op # "PLATFORM"
<1>1. CASE BeginSettle(r)
    BY <1>1 DEF BeginSettle, Begins, Shape, Moves, CallShape, Idle
<1>2. CASE CommitSettle(r)
    BY <1>2, EndsMoves DEF CommitSettle
<1> QED BY <1>1, <1>2 DEF SettleCall

-----------------------------------------------------------------------------
(***************************************************************************)
(* Types                                                                   *)
(***************************************************************************)
LEMMA InitShape == Init => Shape
<1> SUFFICES ASSUME Init PROVE Shape
    OBVIOUS
<1>1. workload \in Workloads /\ now \in Days
    BY RatesAssumption DEF Init, RatesInit, Days
<1>2. policies \in Seq(PolicyRow)
    <2>1. [terms |-> Seeded, from |-> 0, to |-> Null, status |-> "ACTIVE", prev |-> 0] \in PolicyRow
        BY RatesAssumption, DatesInt DEF Seeded, PolicyRow, PolicyStatus, Days
    <2> QED BY <2>1 DEF Init, RatesInit
<1>3. categories \in Seq(CategoryRow) /\ overrides \in [Projects -> Seq(OverrideRow)]
    BY DEF Init, RatesInit
<1>4. escrows \in [Projects -> EscrowRow]
    BY DEF Init, RatesInit, EscrowRow, NoEscrow
<1>5. DOMAIN req = Requests /\ \A r \in Requests : CallShape(req[r])
    BY DEF Init, RatesInit, CallShape, Idle
<1> QED BY <1>1, <1>2, <1>3, <1>4, <1>5 DEF Shape

LEMMA CallsKept ==
    ASSUME Shape, NEW r \in Requests, Moves(r)
    PROVE  DOMAIN req' = Requests /\ \A other \in Requests : CallShape(req[other])'
<1>1. \A other \in Requests \ {r} : CallShape(req[other])'
    BY DEF Shape, Moves, CallShape
<1>2. CallShape(req[r])'
    BY DEF Moves, CallShape
<1> QED BY <1>1, <1>2 DEF Moves

\* The rows that a change of the platform's commission leaves behind.
LEMMA PolicyRowsShape ==
    ASSUME Shape, NEW call, call.op = "PLATFORM", CallShape(call)
    PROVE  /\ PolicyRows(call) \in Seq(PolicyRow)
           /\ Len(PolicyRows(call)) = Len(policies)
           /\ DOMAIN PolicyRows(call) = DOMAIN policies
<1>1. policies \in Seq(PolicyRow) /\ call.from \in Dates
    BY DatesInt DEF Shape, CallShape
<1>2. CASE call.target # 0 /\ call.from <= call.asOf
    <2>1. \A row \in PolicyRow : Superseded(row, call.from) \in PolicyRow
        BY <1>1 DEF PolicyRow, PolicyStatus, Superseded
    <2> DEFINE Rows == Supersede(policies, {call.target}, call.from)
    <2>2. PolicyRows(call) = Rows
        BY <1>2 DEF PolicyRows
    <2>3. Rows \in Seq(PolicyRow) /\ Len(Rows) = Len(policies)
        BY <1>1, <2>1, SupersedeRows
    <2>5. DOMAIN PolicyRows(call) = DOMAIN policies
        BY <2>2 DEF Supersede
    <2> QED BY <2>2, <2>3, <2>5
<1>3. CASE call.target # 0 /\ ~(call.from <= call.asOf)
    <2> DEFINE Rows == [i \in DOMAIN policies |->
                          IF policies[i].status = "SCHEDULED" /\ policies[i].from > call.asOf
                          THEN [policies[i] EXCEPT !.status = "CANCELLED"] ELSE policies[i]]
    <2>1. policies \in [1..Len(policies) -> PolicyRow] /\ Len(policies) \in Nat
        BY <1>1, LenProperties
    <2>2. \A row \in PolicyRow : [row EXCEPT !.status = "CANCELLED"] \in PolicyRow
        BY DEF PolicyRow, PolicyStatus
    <2>3. Rows \in [1..Len(policies) -> PolicyRow]
        BY <2>1, <2>2
    <2>4. Rows \in Seq(PolicyRow)
        BY <2>1, <2>3, SeqDef
    <2>5. Len(Rows) \in Nat /\ DOMAIN Rows = 1..Len(Rows) /\ DOMAIN Rows = 1..Len(policies)
        BY <2>3, <2>4, LenProperties
    <2>6. Len(Rows) = Len(policies)
        BY <2>1, <2>5, SameInterval
    <2>7. PolicyRows(call) = Rows
        BY <1>3 DEF PolicyRows
    <2> QED BY <2>1, <2>4, <2>5, <2>6, <2>7
<1>4. CASE call.target = 0
    BY <1>1, <1>4 DEF PolicyRows
<1> QED BY <1>2, <1>3, <1>4

LEMMA CommitPlatformShape ==
    ASSUME Shape, PolicyInv, NEW r \in Requests, CommitPlatform(r)
    PROVE  policies' \in Seq(PolicyRow)
<1> DEFINE call == req[r]
           row == [terms |-> call.terms, from |-> call.from, to |-> Null,
                   status |-> StatusFrom(call.from, call.asOf), prev |-> call.target]
<1>1. call.op = "PLATFORM" /\ CallShape(call)
    BY DEF CommitPlatform, At, Shape
<1>2. call.target \in Nat
    BY <1>1, LenProperties DEF PolicyInv, CallsOf, Shape
<1>3. row \in PolicyRow
    BY <1>1, <1>2, DatesInt DEF CallShape, PolicyRow, StatusFrom, PolicyStatus
<1>4. Append(PolicyRows(call), row) \in Seq(PolicyRow)
    BY <1>1, <1>3, PolicyRowsShape, AppendRow
<1> QED BY <1>4 DEF CommitPlatform, Shape

LEMMA CommitCategoryShape ==
    ASSUME Shape, NEW r \in Requests, CommitCategory(r)
    PROVE  categories' \in Seq(CategoryRow)
<1> DEFINE call == req[r]
           row == [percent |-> call.percent, from |-> call.from, to |-> Null,
                   status |-> StatusFrom(call.from, call.asOf), prev |-> call.target]
<1>1. call.op = "CATEGORY" /\ CallShape(call)
    BY DEF CommitCategory, At, Shape
<1>2. row \in CategoryRow /\ call.from \in Dates
    BY <1>1, DatesInt DEF CallShape, CategoryRow, StatusFrom, PolicyStatus
<1>3. categories \in Seq(CategoryRow)
    BY DEF Shape
<1>4. \A old \in CategoryRow : Superseded(old, call.from) \in CategoryRow
    BY <1>2 DEF CategoryRow, PolicyStatus, Superseded
<1>5. Supersede(categories, {call.target}, call.from) \in Seq(CategoryRow)
    BY <1>3, <1>4, SupersedeRows
<1>6. CategoryRows(call) \in Seq(CategoryRow)
    BY <1>3, <1>5 DEF CategoryRows
<1>7. Append(CategoryRows(call), row) \in Seq(CategoryRow)
    BY <1>2, <1>6, AppendRow
<1> QED BY <1>3, <1>7 DEF CommitCategory

LEMMA CommitOverrideShape ==
    ASSUME Shape, NEW r \in Requests, CommitOverride(r) \/ CommitEndOverride(r)
    PROVE  overrides' \in [Projects -> Seq(OverrideRow)]
<1> DEFINE call == req[r]
           rows == overrides[call.project]
           row == [percent |-> call.percent, from |-> call.from, to |-> Null, status |-> "ACTIVE"]
<1>1. CallShape(call) /\ call.project \in Projects /\ now \in Dates
    BY DatesInt DEF CommitOverride, CommitEndOverride, At, Shape, CallShape
<1>2. rows \in Seq(OverrideRow) /\ overrides \in [Projects -> Seq(OverrideRow)]
    BY <1>1 DEF Shape
<1>3. \A day \in Dates : \A old \in OverrideRow : Superseded(old, day) \in OverrideRow
    BY DEF OverrideRow, PolicyStatus, Superseded
<1>4. CASE CommitOverride(r)
    <2>1. row \in OverrideRow /\ call.from \in Dates
        BY <1>1, <1>4, DatesInt DEF CommitOverride, At, CallShape, OverrideRow, PolicyStatus
    <2>2. Supersede(rows, call.seen, call.from) \in Seq(OverrideRow)
        BY <1>2, <1>3, <2>1, SupersedeRows
    <2>3. Append(Supersede(rows, call.seen, call.from), row) \in Seq(OverrideRow)
        BY <2>1, <2>2, AppendRow
    <2> QED BY <1>1, <1>2, <1>4, <2>3 DEF CommitOverride
<1>5. CASE CommitEndOverride(r)
    <2>1. Supersede(rows, {call.target}, now) \in Seq(OverrideRow)
        BY <1>1, <1>2, <1>3, SupersedeRows
    <2> QED BY <1>1, <1>2, <1>5, <2>1 DEF CommitEndOverride
<1> QED BY <1>4, <1>5

-----------------------------------------------------------------------------
(***************************************************************************)
(* The split of an escrow                                                  *)
(***************************************************************************)
LEMMA Between ==
    ASSUME NEW error \in Int, NEW most \in Nat, error <= most, -most <= error
    PROVE  error \in -most..most
OBVIOUS

LEMMA NearestIs ==
    ASSUME NEW n \in Int, NEW k \in Nearest(n, Whole)
    PROVE  k \in Int /\ 2 * (Whole * k - n) \in -Whole..Whole
<1> DEFINE floor == n \div 10000
<1>1. floor \in Int
    BY SMTT(30)
<1> HIDE DEF floor
<1>2. k \in {floor, floor + 1} /\ 2 * k * 10000 <= 2 * n + 10000 /\ 2 * n <= 2 * k * 10000 + 10000
    BY DEF Nearest, Whole, floor
<1>3. k \in Int
    BY <1>1, <1>2
<1> DEFINE error == 2 * (10000 * k - n)
<1>4. error \in Int
    BY ONLY <1>3, n \in Int
<1>5. error <= 10000 /\ -10000 <= error
    BY ONLY <1>2, <1>3, n \in Int
<1>6. error = 2 * (Whole * k - n) /\ Whole \in Nat /\ error <= Whole /\ -Whole <= error
    BY <1>5 DEF Whole
<1> HIDE DEF error
<1> QED BY <1>3, <1>4, <1>6, Between

\* The fee and the payout are the amount, and the fee is the percentage
\* unless a bound replaced it.
LEMMA FeesFair ==
    ASSUME NEW amount \in Nat, NEW percent \in Int, NEW min \in OrNull(Nat), NEW max \in OrNull(Nat),
           NEW split \in Fees(amount, percent, min, max)
    PROVE  /\ split.fee \in Int /\ split.payout \in Int
           /\ split.fee + split.payout = amount
           /\ \/ split.fee \in {amount, min, max}
              \/ 2 * (Whole * split.fee - amount * percent) \in -Whole..Whole
<1>1. PICK raw \in Nearest(amount * percent, Whole) :
          /\ split.fee = AtMost(AtMost(AtLeast(raw, min), max), amount)
          /\ split.payout = amount - split.fee
    BY DEF Fees
<1>2. amount * percent \in Int
    OBVIOUS
<1>3. raw \in Int /\ 2 * (Whole * raw - amount * percent) \in -Whole..Whole
    BY <1>2, NearestIs
<1>4. split.fee \in {raw, min, max, amount} /\ split.fee \in Int
    BY <1>1, <1>3 DEF AtMost, AtLeast, OrNull, Null
<1> QED BY <1>1, <1>3, <1>4

\* resolveForProject answers a platform version, or one whose percentage an
\* override has replaced.
LEMMA ResolvedTerms ==
    ASSUME Shape, NEW p \in Projects, NEW t \in Resolved(p)
    PROVE  \E known \in Terms :
              t.min = known.min /\ t.max = known.max /\ t.percent \in Percents \cup {known.percent}
<1>1. PlatformTerms \subseteq Terms
    <2>1. \A i \in DOMAIN policies : policies[i].terms \in Terms
        <3>1. policies \in Seq(PolicyRow)
            BY DEF Shape
        <3>2. \A i \in DOMAIN policies : policies[i] \in PolicyRow
            BY <3>1, RowIn
        <3> QED BY <3>2 DEF PolicyRow
    <2> QED BY <2>1, RatesAssumption DEF PlatformTerms, Latest, InForce, Current, Due, Fallback
<1>2. CategoryPercents \subseteq Percents
    <2>1. \A i \in DOMAIN categories : categories[i].percent \in OrNull(Percents)
        <3>1. categories \in Seq(CategoryRow)
            BY DEF Shape
        <3>2. \A i \in DOMAIN categories : categories[i] \in CategoryRow
            BY <3>1, RowIn
        <3> QED BY <3>2 DEF CategoryRow
    <2> QED BY <2>1 DEF CategoryPercents, Latest, InForce, Current, Due, OrNull
<1>3. OverridePercents(p) \subseteq Percents
    <2>1. overrides[p] \in Seq(OverrideRow)
        BY DEF Shape
    <2>2. \A i \in DOMAIN overrides[p] : overrides[p][i].percent \in Percents
        <3>1. \A i \in DOMAIN overrides[p] : overrides[p][i] \in OverrideRow
            BY <2>1, RowIn
        <3> QED BY <3>1 DEF OverrideRow
    <2> QED BY <2>2 DEF OverridePercents, Latest, InForce, Current, Due
<1>4. PICK known \in PlatformTerms :
          \E percent \in Percents \cup {known.percent} : t = [known EXCEPT !.percent = percent]
    BY <1>2, <1>3 DEF Resolved
<1> QED BY <1>1, <1>4, RatesAssumption

LEMMA PrepareSplits ==
    ASSUME Shape, SplitFair, NEW p \in Projects, Prepare(p), workload' = workload
    PROVE  escrows' \in [Projects -> EscrowRow] /\ SplitFair'
<1>1. PICK t \in Resolved(p) :
        \E split \in Fees(workload.amount, t.percent, t.min, t.max) :
          escrows' = [escrows EXCEPT ![p] =
                         [status |-> "OPEN", fee |-> split.fee, payout |-> split.payout]]
    BY DEF Prepare
<1>2. PICK split \in Fees(workload.amount, t.percent, t.min, t.max) :
          escrows' = [escrows EXCEPT ![p] =
                         [status |-> "OPEN", fee |-> split.fee, payout |-> split.payout]]
    BY <1>1
<1>3. PICK known \in Terms :
          t.min = known.min /\ t.max = known.max /\ t.percent \in Percents \cup {known.percent}
    BY ResolvedTerms
<1>4. /\ workload.amount \in Nat /\ t.percent \in Int
      /\ t.min \in OrNull(Nat) /\ t.max \in OrNull(Nat)
    <2>1. workload.amount \in Nat
        <3>1. workload \in [ops: SUBSET Operations, apart: SUBSET SUBSET Operations,
                           projects: SUBSET Projects, versions: 0..MaxVersions,
                           amount: Amounts, days: Days]
            BY RatesAssumption DEF Shape
        <3> QED BY <3>1, RatesAssumption
    <2>2. known \in [percent: Percentages, min: OrNull(Nat), max: OrNull(Nat)] /\ Percents \subseteq Percentages
        BY RatesAssumption
    <2>3. t.percent \in Percentages
        BY <1>3, <2>2
    <2> QED BY <1>3, <2>1, <2>2, <2>3 DEF Percentages
<1>5. /\ split.fee \in Int /\ split.payout \in Int
      /\ split.fee + split.payout = workload.amount
      /\ \/ split.fee \in {workload.amount, t.min, t.max}
         \/ 2 * (Whole * split.fee - workload.amount * t.percent) \in -Whole..Whole
    BY <1>2, <1>4, FeesFair
<1>6. escrows \in [Projects -> EscrowRow]
    BY DEF Shape
<1>7. escrows' \in [Projects -> EscrowRow]
    BY <1>2, <1>5, <1>6 DEF EscrowRow
<1>8. ASSUME NEW q \in Projects, escrows'[q].status # "NONE"
      PROVE  /\ escrows'[q].fee + escrows'[q].payout = workload'.amount
             /\ \/ escrows'[q].fee = workload'.amount
                \/ \E terms \in Terms :
                      \/ escrows'[q].fee \in {terms.min, terms.max}
                      \/ \E percent \in Percents \cup {terms.percent} :
                            2 * (Whole * escrows'[q].fee - workload'.amount * percent) \in -Whole..Whole
    <2>1. CASE q = p
        <3>1. escrows'[q].fee = split.fee /\ escrows'[q].payout = split.payout
            BY <1>2, <1>6, <2>1
        <3>2. CASE split.fee \in {workload.amount, t.min, t.max}
            BY <1>3, <1>5, <3>1, <3>2
        <3>3. CASE 2 * (Whole * split.fee - workload.amount * t.percent) \in -Whole..Whole
            BY <1>3, <1>5, <3>1, <3>3
        <3> QED BY <1>5, <3>2, <3>3
    <2>2. CASE q # p
        <3>1. escrows'[q] = escrows[q]
            BY <1>2, <1>6, <2>2
        <3> QED BY <1>8, <3>1 DEF SplitFair
    <2> QED BY <2>1, <2>2
<1> QED BY <1>7, <1>8 DEF SplitFair

\* A release changes neither the fee nor the payout.
LEMMA SettleSplits ==
    ASSUME Shape, SettlesPrepared, SplitFair, NEW r \in Requests, SettleCall(r), workload' = workload
    PROVE  /\ escrows' \in [Projects -> EscrowRow] /\ SplitFair'
           /\ \A p \in Projects : escrows[p].status # "NONE" => escrows'[p].status # "NONE"
           /\ req'[r].op = "SETTLE" => escrows[req'[r].project].status # "NONE"
<1>1. CASE BeginSettle(r)
    <2>1. escrows' = escrows
        BY <1>1 DEF BeginSettle
    <2>2. req'[r].op = "SETTLE" => escrows[req'[r].project].status # "NONE"
        BY <1>1 DEF BeginSettle, Shape
    <2> QED BY <2>1, <2>2 DEF Shape, SplitFair
<1>2. CASE CommitSettle(r)
    <2>1. /\ req[r].op = "SETTLE" /\ req[r].project \in Projects
          /\ escrows' = [escrows EXCEPT ![req[r].project].status = "RELEASED"] /\ Ends(r)
        BY <1>2 DEF CommitSettle, At, Shape, CallShape
    <2>2. escrows \in [Projects -> EscrowRow] /\ escrows[req[r].project].status # "NONE"
        BY <2>1 DEF Shape, SettlesPrepared
    <2>3. escrows' \in [Projects -> EscrowRow]
        BY <2>1, <2>2 DEF EscrowRow
    <2>4. \A p \in Projects : escrows'[p].fee = escrows[p].fee /\ escrows'[p].payout = escrows[p].payout
        BY <2>1, <2>2 DEF EscrowRow
    <2>5. \A p \in Projects : (escrows'[p].status # "NONE") <=> (escrows[p].status # "NONE")
        BY <2>1, <2>2 DEF EscrowRow
    <2>6. SplitFair'
        BY <2>4, <2>5 DEF SplitFair
    <2>7. req'[r].op = "none"
        BY <2>1, EndsMoves
    <2> QED BY <2>3, <2>5, <2>6, <2>7
<1> QED BY <1>1, <1>2 DEF SettleCall

LEMMA ShapeKept == CommercialInv /\ [Next]_vars => Shape'
<1> SUFFICES ASSUME CommercialInv, [Next]_vars PROVE Shape'
    OBVIOUS
<1> USE DEF CommercialInv
<1>1. CASE UNCHANGED vars
    BY <1>1 DEF vars, rateRows, Shape, CallShape
<1>2. ASSUME NEW r \in Requests, RateCall(r), UNCHANGED workload PROVE Shape'
    <2>1. DOMAIN req' = Requests /\ \A other \in Requests : CallShape(req[other])'
        BY <1>2, RateMoves, CallsKept
    <2>2. now' = now /\ escrows' = escrows
        BY <1>2 DEF RateCall, BeginPlatform, CommitPlatform, BeginCategory, CommitCategory,
                    BeginOverride, FindOverrides, CommitOverride, BeginEndOverride, CommitEndOverride
    <2>3. policies' \in Seq(PolicyRow)
        <3>1. CommitPlatform(r) \/ policies' = policies
            BY <1>2 DEF RateCall, rateRows, BeginPlatform, BeginCategory, CommitCategory,
                    BeginOverride, FindOverrides, CommitOverride, BeginEndOverride, CommitEndOverride
        <3> QED BY <3>1, CommitPlatformShape DEF Shape
    <2>4. categories' \in Seq(CategoryRow)
        <3>1. CommitCategory(r) \/ categories' = categories
            BY <1>2 DEF RateCall, rateRows, BeginPlatform, CommitPlatform, BeginCategory,
                    BeginOverride, FindOverrides, CommitOverride, BeginEndOverride, CommitEndOverride
        <3> QED BY <3>1, CommitCategoryShape DEF Shape
    <2>5. overrides' \in [Projects -> Seq(OverrideRow)]
        <3>1. CommitOverride(r) \/ CommitEndOverride(r) \/ overrides' = overrides
            BY <1>2 DEF RateCall, rateRows, BeginPlatform, CommitPlatform, BeginCategory,
                    CommitCategory, BeginOverride, FindOverrides, BeginEndOverride
        <3> QED BY <3>1, CommitOverrideShape DEF Shape
    <2> QED BY <1>2, <2>1, <2>2, <2>3, <2>4, <2>5 DEF Shape
<1>3. ASSUME NEW r \in Requests, LedgerCall(r), UNCHANGED <<workload, now, rateRows, escrows>>
      PROVE  Shape'
    BY <1>3, LedgerMoves, CallsKept DEF Shape, rateRows
<1>4. ASSUME NEW r \in Requests, SettleCall(r), UNCHANGED <<workload, now, rateRows>>
      PROVE  Shape'
    BY <1>4, SettleMoves, SettleSplits, CallsKept DEF Shape, rateRows
<1>5. ASSUME NEW p \in Projects, Prepare(p), UNCHANGED workload PROVE Shape'
    BY <1>5, PrepareSplits DEF Shape, Prepare, rateRows, CallShape
<1>6. CASE UNCHANGED <<workload, now, rateRows, escrows, req>>
    BY <1>6 DEF Shape, rateRows, CallShape
<1>7. CASE NextDay /\ UNCHANGED workload
    <2>1. now' \in Days
        BY <1>7, RatesAssumption DEF NextDay, Shape, Days
    <2> QED BY <1>7, <2>1 DEF Shape, NextDay, rateRows, CallShape
<1> QED BY <1>1, <1>2, <1>3, <1>4, <1>5, <1>6, <1>7
        DEF Next, CreatePayout, FinalizeStatement

-----------------------------------------------------------------------------
(***************************************************************************)
(* One rate in force                                                       *)
(***************************************************************************)
LEMMA InitPolicy == Init => PolicyInv
<1> SUFFICES ASSUME Init PROVE PolicyInv
    OBVIOUS
<1>1. /\ now = 0 /\ DOMAIN policies = {1}
      /\ policies[1].from = 0 /\ policies[1].to = Null /\ policies[1].status = "ACTIVE"
    BY DEF Init, RatesInit
<1>2. \A r \in Requests : req[r].op # "PLATFORM"
    BY DEF Init, RatesInit, Idle
<1>3. CurrentIs(1) /\ PendingOf(1) /\ CallsOf(1)
    BY <1>1, <1>2 DEF CurrentIs, PendingOf, CallsOf
<1> QED BY <1>1, <1>3 DEF PolicyInv

\* A step that leaves the versions alone and begins no change of them.
LEMMA PolicyFrame ==
    ASSUME PolicyInv, Shape, policies' = policies, now' \in Int, now <= now',
           \A r \in Requests : req'[r].op = "PLATFORM" => req'[r] = req[r]
    PROVE  PolicyInv'
<1>1. PICK k \in DOMAIN policies : CurrentIs(k) /\ PendingOf(k) /\ CallsOf(k)
    BY DEF PolicyInv
<1>2. \A i \in DOMAIN policies : policies[i].from \in Int
    <2>1. \A i \in DOMAIN policies : policies[i] \in PolicyRow
        BY RowIn DEF Shape
    <2> QED BY <2>1, DatesInt DEF PolicyRow
<1>3. now \in Int
    BY DatesInt DEF Shape
<1>4. CurrentIs(k)'
    BY <1>1, <1>2, <1>3 DEF CurrentIs
<1>5. PendingOf(k)'
    BY <1>1 DEF PendingOf
<1>6. CallsOf(k)'
    <2> SUFFICES ASSUME NEW r \in Requests, req'[r].op = "PLATFORM"
                 PROVE  /\ req'[r].target \in DOMAIN policies /\ req'[r].asOf <= now'
                        /\ \/ req'[r].target = k /\ policies[k].from <= req'[r].asOf
                           \/ HasSuccessor(policies, req'[r].target)
        BY DEF CallsOf, HasSuccessor
    <2>1. req'[r] = req[r] /\ req[r].asOf \in Int
        BY DatesInt DEF Shape, CallShape
    <2> QED BY <1>1, <1>3, <2>1 DEF CallsOf
<1> QED BY <1>1, <1>4, <1>5, <1>6 DEF PolicyInv

\* An administrator's call finds the current version.
LEMMA BeginPolicy ==
    ASSUME PolicyInv, Shape, NEW r \in Requests, BeginPlatform(r)
    PROVE  PolicyInv'
<1>1. PICK k \in DOMAIN policies : CurrentIs(k) /\ PendingOf(k) /\ CallsOf(k)
    BY DEF PolicyInv
<1>2. Current(policies, now) = {k}
    BY <1>1 DEF CurrentIs, Current, Unexpired
<1>3. policies[k].from \in Int /\ now \in Int
    <2>1. policies[k] \in PolicyRow
        BY RowIn DEF Shape
    <2> QED BY <2>1, DatesInt DEF PolicyRow, Shape
<1>4. Latest(policies, {k}) = {k}
    BY <1>3 DEF Latest
<1>5. /\ policies' = policies /\ now' = now
      /\ req'[r].op = "PLATFORM" /\ req'[r].target = k /\ req'[r].asOf = now
      /\ \A other \in Requests \ {r} : req'[other] = req[other]
    BY ZenonT(30), <1>2, <1>4 DEF BeginPlatform, FirstOr0, rateRows, Shape, Idle
<1>6. CurrentIs(k)' /\ PendingOf(k)'
    BY <1>1, <1>5 DEF CurrentIs, PendingOf
<1>7. CallsOf(k)'
    BY <1>1, <1>3, <1>5 DEF CallsOf, CurrentIs, HasSuccessor
<1> QED BY <1>1, <1>5, <1>6, <1>7 DEF PolicyInv

\* Every row of a table that is typed as policies is.
LEMMA PolicyRowTypes ==
    Shape => \A i \in DOMAIN policies :
                /\ policies[i].terms \in Terms /\ policies[i].from \in Days
                /\ policies[i].status \in PolicyStatus /\ policies[i].prev \in Nat
<1> SUFFICES ASSUME Shape PROVE \A i \in DOMAIN policies : policies[i] \in PolicyRow
    BY DEF PolicyRow
<1> QED BY RowIn DEF Shape

\* What an accepted change does: it supersedes the current version k, or it
\* is scheduled behind it; in both cases nothing was scheduled before.
Accepted(k, call) ==
    /\ call.target = k /\ policies[k].from <= call.asOf /\ call.asOf <= now
    /\ \A i \in DOMAIN policies : policies[i].status # "SCHEDULED"
    /\ DOMAIN policies' = 1..Len(policies) + 1
    /\ policies'[Len(policies) + 1] =
          [terms |-> call.terms, from |-> call.from, to |-> Null,
           status |-> StatusFrom(call.from, call.asOf), prev |-> k]
    /\ \A i \in DOMAIN policies :
          policies'[i] = IF i = k /\ call.from <= call.asOf THEN Superseded(policies[k], call.from)
                                                           ELSE policies[i]

LEMMA CommitPolicyRows ==
    ASSUME Shape, NEW k \in DOMAIN policies, CurrentIs(k), PendingOf(k), CallsOf(k),
           NEW r \in Requests, CommitPlatform(r)
    PROVE  \/ policies' = policies /\ decisions' = decisions
           \/ /\ Accepted(k, req[r])
              /\ decisions' = Append(decisions, [from |-> req[r].from, terms |-> req[r].terms])
<1> DEFINE call == req[r]
           row == [terms |-> call.terms, from |-> call.from, to |-> Null,
                   status |-> StatusFrom(call.from, call.asOf), prev |-> call.target]
<1>1. CASE ~PolicyAllowed(call)
    BY <1>1 DEF CommitPlatform
<1>2. CASE PolicyAllowed(call)
    <2>1. call.op = "PLATFORM" /\ CallShape(call) /\ policies \in Seq(PolicyRow)
        BY DEF CommitPlatform, At, Shape
    <2>2. call.target = k /\ policies[k].from <= call.asOf /\ call.asOf <= now
        BY <1>2, <2>1 DEF PolicyAllowed, CallsOf
    <2>3. k \in Nat /\ k # 0 /\ DOMAIN policies = 1..Len(policies) /\ Len(policies) \in Nat
        BY <2>1, LenProperties
    <2>4. \A i \in DOMAIN policies : policies[i].status # "SCHEDULED"
        BY <1>2, <2>2, <2>3 DEF PolicyAllowed, HasSuccessor, PendingOf
    <2>5. row \in PolicyRow
        BY <2>1, <2>2, <2>3, DatesInt DEF CallShape, PolicyRow, StatusFrom, PolicyStatus
    <2>6. /\ PolicyRows(call) \in Seq(PolicyRow) /\ Len(PolicyRows(call)) = Len(policies)
          /\ DOMAIN PolicyRows(call) = DOMAIN policies
        BY <2>1, PolicyRowsShape
    <2>7. policies' = Append(PolicyRows(call), row)
        BY <1>2 DEF CommitPlatform
    <2>8. /\ DOMAIN policies' = 1..Len(policies) + 1 /\ policies'[Len(policies) + 1] = row
          /\ \A i \in DOMAIN policies : policies'[i] = PolicyRows(call)[i]
        BY SMTT(30), <2>5, <2>6, <2>7, AppendRow
    <2>9. \A i \in DOMAIN policies :
              PolicyRows(call)[i] = IF i = k /\ call.from <= call.asOf
                                    THEN Superseded(policies[k], call.from) ELSE policies[i]
        <3>1. CASE call.from <= call.asOf
            BY <2>2, <2>3, <3>1 DEF PolicyRows, Supersede, Superseded
        <3>2. CASE ~(call.from <= call.asOf)
            BY <2>2, <2>3, <2>4, <3>2 DEF PolicyRows
        <3> QED BY <3>1, <3>2
    <2>10. decisions' = Append(decisions, [from |-> call.from, terms |-> call.terms])
        BY <1>2 DEF CommitPlatform
    <2> QED BY <2>2, <2>4, <2>8, <2>9, <2>10 DEF Accepted
<1> QED BY <1>1, <1>2

LEMMA CommitPolicy ==
    ASSUME PolicyInv, Shape, NEW r \in Requests, CommitPlatform(r)
    PROVE  PolicyInv'
<1> DEFINE call == req[r]
<1>1. PICK k \in DOMAIN policies : CurrentIs(k) /\ PendingOf(k) /\ CallsOf(k)
    BY DEF PolicyInv
<1>2. now' = now /\ Moves(r) /\ req'[r].op = "none"
    BY EndsMoves DEF CommitPlatform
<1>3. CASE policies' = policies
    <2>1. now \in Int
        BY DatesInt DEF Shape
    <2> QED BY <1>2, <1>3, <2>1, PolicyFrame DEF Moves
<1>4. CASE Accepted(k, call)
    <2>1. PICK n \in Nat : n = Len(policies) /\ DOMAIN policies = 1..n /\ k \in 1..n
        BY LenProperties DEF Shape
    <2>2. /\ call.from \in Int /\ call.asOf \in Int /\ now \in Int
          /\ \A i \in DOMAIN policies : policies[i].from \in Int /\ policies[i].prev \in Nat
        BY DatesInt, PolicyRowTypes DEF Shape, CallShape, CommitPlatform, At
    <2>3. \A i \in DOMAIN policies : policies'[i].prev = policies[i].prev
        <3>1. \A i \in DOMAIN policies : policies[i] \in PolicyRow
            BY RowIn DEF Shape
        <3>2. \A row \in PolicyRow : Superseded(row, call.from).prev = row.prev
            BY DEF PolicyRow, Superseded
        <3> QED BY <1>4, <3>1, <3>2 DEF Accepted
    <2>4. \A i \in DOMAIN policies : HasSuccessor(policies, i) => HasSuccessor(policies', i)
        BY <1>4, <2>1, <2>3 DEF Accepted, HasSuccessor
    <2>5. HasSuccessor(policies', k)
        BY <1>4, <2>1 DEF Accepted, HasSuccessor
    <2>6. \A m \in DOMAIN policies' : CallsOf(m)'
        <3> SUFFICES ASSUME NEW q \in Requests, req'[q].op = "PLATFORM"
                     PROVE  /\ req'[q].target \in DOMAIN policies' /\ req'[q].asOf <= now'
                            /\ HasSuccessor(policies', req'[q].target)
            BY DEF CallsOf
        <3>1. req'[q] = req[q]
            BY <1>2 DEF Moves
        <3>2. req[q].target \in DOMAIN policies /\ req[q].asOf <= now
              /\ HasSuccessor(policies', req[q].target)
            BY <1>1, <2>4, <2>5, <3>1 DEF CallsOf
        <3> QED BY <1>2, <1>4, <2>1, <3>1, <3>2 DEF Accepted
    <2>7. CASE call.from <= call.asOf
        <3>1. /\ policies'[n + 1].status = "ACTIVE" /\ policies'[n + 1].to = Null
              /\ policies'[n + 1].from <= now
            BY <1>4, <2>1, <2>2, <2>7 DEF Accepted, StatusFrom
        <3>2. \A i \in DOMAIN policies : policies'[i].status \notin {"ACTIVE", "SCHEDULED"}
            <4>1. Superseded(policies[k], call.from).status = "SUPERSEDED"
                <5>1. policies[k] \in PolicyRow
                    BY RowIn DEF Shape
                <5> QED BY <5>1 DEF Superseded, PolicyRow
            <4> QED BY <1>1, <1>4, <2>7, <4>1 DEF Accepted, CurrentIs
        <3>3. CurrentIs(n + 1)' /\ PendingOf(n + 1)'
            BY <1>2, <1>4, <2>1, <3>1, <3>2 DEF Accepted, CurrentIs, PendingOf
        <3> QED BY <1>4, <2>1, <2>6, <3>3 DEF Accepted, PolicyInv
    <2>8. CASE ~(call.from <= call.asOf)
        <3>1. \A i \in DOMAIN policies : policies'[i] = policies[i]
            BY <1>4, <2>8 DEF Accepted
        <3>2. /\ policies'[n + 1].status = "SCHEDULED" /\ policies'[n + 1].to = Null
              /\ policies'[n + 1].prev = k /\ policies[k].from < policies'[n + 1].from
            BY <1>4, <2>1, <2>2, <2>8 DEF Accepted, StatusFrom
        <3>3. CurrentIs(k)' /\ PendingOf(k)'
            BY <1>1, <1>2, <1>4, <2>1, <3>1, <3>2 DEF Accepted, CurrentIs, PendingOf
        <3> QED BY <1>4, <2>1, <2>6, <3>3 DEF Accepted, PolicyInv
    <2> QED BY <2>7, <2>8
<1> QED BY <1>1, <1>3, <1>4, CommitPolicyRows

-----------------------------------------------------------------------------
(***************************************************************************)
(* Every step keeps the invariant                                          *)
(***************************************************************************)
\* Which steps change the versions or the calls that will.
LEMMA PolicySteps ==
    ASSUME CommercialInv, Next
    PROVE  \/ \E r \in Requests : BeginPlatform(r) \/ CommitPlatform(r)
           \/ /\ policies' = policies /\ decisions' = decisions /\ (now' = now \/ NextDay)
              /\ \A r \in Requests : req'[r].op = "PLATFORM" => req'[r] = req[r]
<1> USE DEF CommercialInv
<1>1. ASSUME NEW r \in Requests, RateCall(r), ~BeginPlatform(r), ~CommitPlatform(r)
      PROVE  /\ policies' = policies /\ decisions' = decisions /\ now' = now
             /\ \A q \in Requests : req'[q].op = "PLATFORM" => req'[q] = req[q]
    <2>1. policies' = policies /\ decisions' = decisions /\ now' = now
        BY <1>1 DEF RateCall, rateRows, BeginCategory, CommitCategory,
                    BeginOverride, FindOverrides, CommitOverride, BeginEndOverride, CommitEndOverride
    <2> QED BY <1>1, <2>1, RateMoves DEF Moves
<1>2. ASSUME NEW r \in Requests, LedgerCall(r) \/ SettleCall(r)
      PROVE  \A q \in Requests : req'[q].op = "PLATFORM" => req'[q] = req[q]
    BY <1>2, LedgerMoves, SettleMoves DEF Moves
<1> QED BY <1>1, <1>2 DEF Next, rateRows, Prepare, NextDay, CreatePayout, FinalizeStatement

LEMMA PolicyKept == CommercialInv /\ [Next]_vars => PolicyInv'
<1> SUFFICES ASSUME CommercialInv, [Next]_vars PROVE PolicyInv'
    OBVIOUS
<1> USE DEF CommercialInv
<1>1. now \in Int
    BY DatesInt DEF Shape
<1>2. CASE UNCHANGED vars
    BY <1>1, <1>2, PolicyFrame DEF vars, rateRows
<1>3. CASE \E r \in Requests : BeginPlatform(r) \/ CommitPlatform(r)
    BY <1>3, BeginPolicy, CommitPolicy
<1>4. CASE /\ policies' = policies /\ (now' = now \/ NextDay)
           /\ \A r \in Requests : req'[r].op = "PLATFORM" => req'[r] = req[r]
    BY <1>1, <1>4, PolicyFrame DEF NextDay
<1> QED BY <1>2, <1>3, <1>4, PolicySteps

LEMMA SplitKept == CommercialInv /\ [Next]_vars => SettlesPrepared' /\ SplitFair'
<1> SUFFICES ASSUME CommercialInv, [Next]_vars PROVE SettlesPrepared' /\ SplitFair'
    OBVIOUS
<1> USE DEF CommercialInv
<1>1. ASSUME escrows' = escrows, workload' = workload PROVE SplitFair'
    BY <1>1 DEF SplitFair
<1>2. CASE UNCHANGED <<workload, escrows, req>>
    BY <1>1, <1>2 DEF SettlesPrepared
<1>3. ASSUME NEW r \in Requests, RateCall(r) \/ LedgerCall(r), escrows' = escrows, workload' = workload
      PROVE  SettlesPrepared' /\ SplitFair'
    <2>1. Moves(r) /\ req'[r].op # "SETTLE"
        BY <1>3, RateMoves, LedgerMoves
    <2> QED BY <1>1, <1>3, <2>1 DEF SettlesPrepared, Moves
<1>4. ASSUME NEW r \in Requests, SettleCall(r), workload' = workload
      PROVE  SettlesPrepared' /\ SplitFair'
    <2>1. /\ SplitFair' /\ Moves(r)
          /\ \A p \in Projects : escrows[p].status # "NONE" => escrows'[p].status # "NONE"
          /\ req'[r].op = "SETTLE" => escrows[req'[r].project].status # "NONE"
        BY <1>4, SettleSplits, SettleMoves
    <2>2. \A q \in Requests : req'[q].op = "SETTLE" => req'[q].project \in Projects
        BY <1>4, SettleMoves, CallsKept DEF CallShape
    <2> QED BY <2>1, <2>2 DEF SettlesPrepared, Moves
<1>5. ASSUME NEW p \in Projects, Prepare(p), workload' = workload
      PROVE  SettlesPrepared' /\ SplitFair'
    <2>1. SplitFair' /\ req' = req
        BY <1>5, PrepareSplits DEF Prepare
    <2>2. escrows[p].status = "NONE" /\ \A q \in Projects \ {p} : escrows'[q] = escrows[q]
        BY <1>5 DEF Prepare, NoEscrow, Shape
    <2>3. \A q \in Requests : req[q].op = "SETTLE" => req[q].project \in Projects
        BY DEF Shape, CallShape
    <2> QED BY <2>1, <2>2, <2>3 DEF SettlesPrepared
<1>6. \A r \in Requests : RateCall(r) => escrows' = escrows
    BY DEF RateCall, BeginPlatform, CommitPlatform, BeginCategory, CommitCategory,
           BeginOverride, FindOverrides, CommitOverride, BeginEndOverride, CommitEndOverride
<1> QED BY <1>2, <1>3, <1>4, <1>5, <1>6
        DEF Next, vars, CreatePayout, FinalizeStatement, NextDay

LEMMA InitInv == Init => CommercialInv
<1> SUFFICES ASSUME Init PROVE SettlesPrepared /\ SplitFair
    BY InitShape, InitPolicy DEF CommercialInv
<1> QED BY DEF Init, RatesInit, NoEscrow, Idle, SettlesPrepared, SplitFair

THEOREM CommercialInvariant == Spec => []CommercialInv
<1>1. CommercialInv /\ [Next]_vars => CommercialInv'
    BY ShapeKept, PolicyKept, SplitKept DEF CommercialInv
<1> QED BY InitInv, <1>1, PTL DEF Spec

\* One version of the platform's commission is ACTIVE, however many
\* administrators change it at once (schedulePlatformCommission).
THEOREM SpecOneActivePolicy == Spec => []OneActivePolicy
<1>1. CommercialInv => OneActivePolicy
    BY DEF CommercialInv, PolicyInv, CurrentIs, OneActivePolicy, Current, Unexpired
<1> QED BY CommercialInvariant, <1>1, PTL

\* Every stored fee and payout add up to the amount, and the fee is the
\* rounded percentage of a decided rate unless a bound replaced it
\* (calculateFeesFromPercent as used by EscrowService.prepare).
THEOREM SpecSplitFair == Spec => []SplitFair
<1>1. CommercialInv => SplitFair
    BY DEF CommercialInv
<1> QED BY CommercialInvariant, <1>1, PTL

-----------------------------------------------------------------------------
(***************************************************************************)
(* The promise about the rates                                             *)
(***************************************************************************)
Told == CHOOSE t \in CommissionConfig : TRUE

Announced == {[from |-> policies[i].from, terms |-> policies[i].terms] :
                 i \in {j \in DOMAIN policies : policies[j].status = "SCHEDULED"
                                                /\ policies[j].from > now}}

\* The terms are those of a scheduled version that is due, else of the
\* current one.
ConfigFollows ==
    \A k \in DOMAIN policies : CurrentIs(k) /\ PendingOf(k) =>
        /\ \A j \in DOMAIN policies :
              (policies[j].status = "SCHEDULED" /\ policies[j].from <= now)
                  => Told = policies[j].terms
        /\ (\A j \in DOMAIN policies : policies[j].status = "SCHEDULED" => policies[j].from > now)
              => Told = policies[k].terms

LEMMA ConfigIs == Shape => ConfigFollows
<1> SUFFICES ASSUME Shape, NEW k \in DOMAIN policies, CurrentIs(k), PendingOf(k)
             PROVE  /\ \A j \in DOMAIN policies :
                          (policies[j].status = "SCHEDULED" /\ policies[j].from <= now)
                              => Told = policies[j].terms
                    /\ (\A j \in DOMAIN policies : policies[j].status = "SCHEDULED" => policies[j].from > now)
                          => Told = policies[k].terms
    BY DEF ConfigFollows
<1>1. now \in Int /\ \A i \in DOMAIN policies : policies[i].from \in Int
    BY PolicyRowTypes, DatesInt DEF Shape
<1>2. Current(policies, now) = {k}
    BY DEF Current, CurrentIs, Unexpired
<1>3. \A S, x : S = {x} => (CHOOSE t \in S : TRUE) = x
    OBVIOUS
<1>4. ASSUME NEW j \in DOMAIN policies, Latest(policies, InForce(policies, now)) = {j}
      PROVE  Told = policies[j].terms
    <2>1. CommissionConfig = {policies[j].terms}
        BY <1>4 DEF CommissionConfig
    <2> QED BY <1>3, <2>1 DEF Told
<1>5. ASSUME NEW j \in DOMAIN policies, policies[j].status = "SCHEDULED", policies[j].from <= now
      PROVE  Told = policies[j].terms
    <2>1. Due(policies, now) = {j} /\ policies[k].from < policies[j].from
        BY <1>5 DEF Due, Unexpired, PendingOf
    <2>2. Latest(policies, InForce(policies, now)) = {j}
        BY <1>1, <1>2, <2>1 DEF Latest, InForce
    <2> QED BY <1>4, <2>2
<1>6. ASSUME \A j \in DOMAIN policies : policies[j].status = "SCHEDULED" => policies[j].from > now
      PROVE  Told = policies[k].terms
    <2>1. Due(policies, now) = {}
        BY <1>1, <1>6 DEF Due
    <2>2. Latest(policies, InForce(policies, now)) = {k}
        BY <1>1, <1>2, <2>1 DEF Latest, InForce
    <2> QED BY <1>4, <2>2
<1> QED BY <1>5, <1>6

LEMMA ToldTerms == Shape /\ PolicyInv => Told \in Terms
<1> SUFFICES ASSUME Shape, PolicyInv PROVE Told \in Terms
    OBVIOUS
<1>1. PICK k \in DOMAIN policies : CurrentIs(k) /\ PendingOf(k)
    BY DEF PolicyInv
<1>2. now \in Int /\ \A i \in DOMAIN policies : policies[i].from \in Int /\ policies[i].terms \in Terms
    BY PolicyRowTypes, DatesInt DEF Shape
<1>3. CASE \E j \in DOMAIN policies : policies[j].status = "SCHEDULED" /\ policies[j].from <= now
    BY <1>1, <1>2, <1>3, ConfigIs DEF ConfigFollows
<1>4. CASE \A j \in DOMAIN policies : policies[j].status = "SCHEDULED" => policies[j].from > now
    BY <1>1, <1>2, <1>4, ConfigIs DEF ConfigFollows
<1> QED BY <1>2, <1>3, <1>4

LEMMA PromiseCommit ==
    ASSUME CommercialInv, CommercialInv', ConfigFollows', Told' \in Terms,
           NEW r \in Requests, CommitPlatform(r)
    PROVE  Promise!Next \/ UNCHANGED <<now, Told, Announced, decisions>>
<1> DEFINE call == req[r]
           change == [from |-> call.from, terms |-> call.terms]
<1> USE DEF CommercialInv
<1>1. PICK k \in DOMAIN policies : CurrentIs(k) /\ PendingOf(k) /\ CallsOf(k)
    BY DEF PolicyInv
<1>2. now' = now /\ now \in Int
    BY DatesInt DEF CommitPlatform, Shape
<1>3. CASE policies' = policies /\ decisions' = decisions
    BY <1>2, <1>3 DEF Told, Announced, CommissionConfig, Latest, InForce, Current, Due, Unexpired
<1>4. CASE Accepted(k, call) /\ decisions' = Append(decisions, change)
    <2>1. PICK n \in Nat : n = Len(policies) /\ DOMAIN policies = 1..n /\ k \in 1..n
        BY LenProperties DEF Shape
    <2>2. /\ call.terms \in Terms /\ call.from \in Days /\ call.asOf \in Int
          /\ call.from \in Int /\ call.asOf <= now /\ change \in Promise!Changes
        BY <1>4, DatesInt DEF Shape, CallShape, CommitPlatform, At, Accepted, Days,
              Promise!Changes
    <2>3. Announced = {}
        BY <1>4 DEF Accepted, Announced
    <2>4. \A i \in DOMAIN policies : policies'[i].status # "SCHEDULED"
        <3>1. Superseded(policies[k], call.from).status = "SUPERSEDED"
            <4>1. policies[k] \in PolicyRow
                BY RowIn DEF Shape
            <4> QED BY <4>1 DEF Superseded, PolicyRow
        <3> QED BY <1>4, <3>1 DEF Accepted
    <2>5. /\ DOMAIN policies' = 1..n + 1
          /\ policies'[n + 1] = [terms |-> call.terms, from |-> call.from, to |-> Null,
                                 status |-> StatusFrom(call.from, call.asOf), prev |-> k]
        BY <1>4, <2>1 DEF Accepted
    <2>6. CASE call.from <= now
        <3>1. \A i \in DOMAIN policies' : ~(policies'[i].status = "SCHEDULED" /\ policies'[i].from > now')
            BY <1>2, <2>1, <2>2, <2>4, <2>5, <2>6
        <3>2. Announced' = {}
            BY <3>1 DEF Announced
        <3>3. Told' = change.terms
            <4>1. PICK m \in DOMAIN policies' : CurrentIs(m)' /\ PendingOf(m)'
                BY DEF PolicyInv
            <4>2. CASE call.from <= call.asOf
                <5>1. m = n + 1
                    <6>1. policies'[n + 1].status = "ACTIVE"
                        BY <2>5, <4>2 DEF StatusFrom
                    <6> QED BY <2>1, <2>5, <4>1, <6>1 DEF CurrentIs
                <5>2. \A i \in DOMAIN policies' : policies'[i].status # "SCHEDULED"
                    BY <2>1, <2>4, <2>5, <4>2 DEF StatusFrom
                <5> QED BY <2>1, <2>5, <4>1, <5>1, <5>2 DEF ConfigFollows
            <4>3. CASE ~(call.from <= call.asOf)
                <5>1. /\ n + 1 \in DOMAIN policies' /\ policies'[n + 1].status = "SCHEDULED"
                      /\ policies'[n + 1].from <= now'
                    BY <1>2, <2>1, <2>5, <2>6, <4>3 DEF StatusFrom
                <5> QED BY <2>5, <4>1, <5>1 DEF ConfigFollows
            <4> QED BY <4>2, <4>3
        <3> QED BY <1>2, <1>4, <2>2, <2>3, <2>6, <3>2, <3>3
                DEF Promise!Next, Promise!Decide, Told, Announced
    <2>7. CASE ~(call.from <= now)
        <3>1. policies'[n + 1].status = "SCHEDULED" /\ policies'[n + 1].from > now'
            BY <1>2, <2>2, <2>5, <2>7 DEF StatusFrom
        <3>2. \A i \in DOMAIN policies : policies'[i] = policies[i]
            BY <1>4, <2>2, <2>7, <1>2 DEF Accepted
        <3>3. {j \in DOMAIN policies' : policies'[j].status = "SCHEDULED" /\ policies'[j].from > now'} = {n + 1}
            BY <2>1, <2>4, <2>5, <3>1
        <3>4. Announced' = {change}
            BY <2>5, <3>3 DEF Announced
        <3>5. Told = policies[k].terms
            BY <1>1, <1>4, ConfigIs DEF ConfigFollows, Accepted
        <3>6. CurrentIs(k)' /\ PendingOf(k)'
            <4>1. policies[k].from < call.from
                <5>1. policies[k].from \in Int
                    BY PolicyRowTypes, DatesInt
                <5>2. policies[k].from <= call.asOf
                    BY <1>4 DEF Accepted
                <5> QED BY <1>2, <2>2, <2>7, <5>1, <5>2
            <4> QED BY <1>1, <1>2, <2>1, <2>4, <2>5, <3>1, <3>2, <4>1 DEF CurrentIs, PendingOf
        <3>7. Told' = policies'[k].terms
            BY <2>1, <2>4, <2>5, <3>1, <3>6 DEF ConfigFollows
        <3>8. Told' = Told
            BY <3>2, <3>5, <3>7
        <3> QED BY <1>2, <1>4, <2>2, <2>7, <3>4, <3>8
                DEF Promise!Next, Promise!Decide, Told, Announced
    <2> QED BY <2>6, <2>7
<1> QED BY <1>1, <1>3, <1>4, CommitPolicyRows

LEMMA PromiseDay ==
    ASSUME CommercialInv, CommercialInv', ConfigFollows', policies' = policies,
           decisions' = decisions, NextDay
    PROVE  Promise!Next
<1> USE DEF CommercialInv
<1>1. PICK k \in DOMAIN policies : CurrentIs(k) /\ PendingOf(k)
    BY DEF PolicyInv
<1>2. now \in Int /\ now' = now + 1 /\ \A i \in DOMAIN policies : policies[i].from \in Int
    BY PolicyRowTypes, DatesInt DEF NextDay, Shape
<1>3. CurrentIs(k)' /\ PendingOf(k)'
    BY <1>1, <1>2 DEF CurrentIs, PendingOf
<1>4. ConfigFollows
    BY ConfigIs
<1>5. Announced' = {change \in Announced : change.from > now'}
    <2>1. ASSUME NEW change PROVE change \in Announced' <=> (change \in Announced /\ change.from > now')
        <3>1. change \in Announced' <=> \E i \in DOMAIN policies :
                  /\ policies[i].status = "SCHEDULED" /\ policies[i].from > now'
                  /\ change = [from |-> policies[i].from, terms |-> policies[i].terms]
            BY DEF Announced
        <3>2. change \in Announced <=> \E i \in DOMAIN policies :
                  /\ policies[i].status = "SCHEDULED" /\ policies[i].from > now
                  /\ change = [from |-> policies[i].from, terms |-> policies[i].terms]
            BY DEF Announced
        <3> QED BY <1>2, <3>1, <3>2
    <2> QED BY <2>1
<1>6. CASE \A j \in DOMAIN policies : ~(policies[j].status = "SCHEDULED" /\ policies[j].from = now')
    <2>1. Announced' = Announced
        <3>1. \A change \in Announced : change.from > now'
            BY <1>2, <1>6 DEF Announced
        <3> QED BY <1>5, <3>1
    <2>2. Told' = Told
        <3>1. CASE \E j \in DOMAIN policies : policies[j].status = "SCHEDULED" /\ policies[j].from <= now
            BY <1>1, <1>2, <1>3, <1>4, <3>1 DEF ConfigFollows
        <3>2. CASE \A j \in DOMAIN policies : policies[j].status = "SCHEDULED" => policies[j].from > now
            <4>1. \A j \in DOMAIN policies : policies[j].status = "SCHEDULED" => policies[j].from > now'
                BY <1>2, <1>6, <3>2
            <4> QED BY <1>1, <1>3, <1>4, <3>2, <4>1 DEF ConfigFollows
        <3> QED BY <1>2, <3>1, <3>2
    <2> QED BY <1>2, <1>5, <2>1, <2>2 DEF Promise!Next, Promise!DayPasses, Told, Announced
<1>7. CASE \E j \in DOMAIN policies : policies[j].status = "SCHEDULED" /\ policies[j].from = now'
    <2>1. PICK j \in DOMAIN policies : policies[j].status = "SCHEDULED" /\ policies[j].from = now'
        BY <1>7
    <2> DEFINE change == [from |-> policies[j].from, terms |-> policies[j].terms]
    <2>2. change \in Announced /\ change \notin Announced'
        <3>1. now' > now /\ change.from = now'
            BY <1>2, <2>1
        <3>2. change \in Announced
            BY <2>1, <3>1 DEF Announced
        <3>3. ~(change.from > now')
            BY <1>2, <3>1
        <3> QED BY <1>5, <3>2, <3>3
    <2>3. Told' = change.terms
        BY <1>2, <1>3, <2>1 DEF ConfigFollows
    <2> QED BY <1>2, <1>5, <2>2, <2>3 DEF Promise!Next, Promise!DayPasses, Told, Announced
<1> QED BY <1>6, <1>7

\* The public rate follows the accepted decisions: each takes effect when it is accepted,
\* or on the day it names if that is still to come, and nothing else moves the rate or
\* forgets an announcement (getCommissionConfig, schedulePlatformCommission).
THEOREM SpecKeepsRatePromise == Spec => KeepsRatePromise
<1>1. Init => Promise!Init
    <2> SUFFICES ASSUME Init PROVE Promise!Init
        OBVIOUS
    <2>1. CommercialInv
        BY InitInv
    <2>2. Told \in Terms
        BY <2>1, ToldTerms DEF CommercialInv
    <2>3. now = 0 /\ Announced = {} /\ decisions = <<>>
        BY DEF Init, RatesInit, Announced
    <2> QED BY <2>2, <2>3 DEF Promise!Init, Told, Announced
<1>2. Shape' => ConfigFollows'
    BY ConfigIs, PTL
<1>3. (Shape /\ PolicyInv => Told \in Terms)'
    BY ToldTerms, PTL
<1>4. CommercialInv /\ CommercialInv' /\ [Next]_vars => [Promise!Next]_Promise!promiseVars
    <2> SUFFICES ASSUME CommercialInv, CommercialInv', [Next]_vars
                 PROVE  Promise!Next \/ UNCHANGED <<now, Told, Announced, decisions>>
        BY DEF Promise!promiseVars, Told, Announced
    <2>1. ConfigFollows' /\ Told' \in Terms
        BY <1>2, <1>3 DEF CommercialInv
    <2>2. ASSUME policies' = policies, now' = now, decisions' = decisions
          PROVE  UNCHANGED <<now, Told, Announced, decisions>>
        BY <2>2 DEF Told, Announced, CommissionConfig, Latest, InForce, Current, Due, Unexpired
    <2>3. CASE UNCHANGED vars
        BY <2>2, <2>3 DEF vars, rateRows
    <2>4. CASE \E r \in Requests : BeginPlatform(r)
        BY <2>2, <2>4 DEF BeginPlatform, rateRows
    <2>5. CASE \E r \in Requests : CommitPlatform(r)
        BY <2>1, <2>5, PromiseCommit
    <2>6. CASE policies' = policies /\ decisions' = decisions /\ NextDay
        BY <2>1, <2>6, PromiseDay
    <2> QED BY <2>2, <2>3, <2>4, <2>5, <2>6, PolicySteps
<1> QED BY <1>1, <1>4, CommercialInvariant, PTL DEF Spec, KeepsRatePromise, Promise!Spec

-----------------------------------------------------------------------------
(***************************************************************************)
(* Calls that take turns                                                   *)
(***************************************************************************)
\* The calls in flight are the workload's, and those that it serves apart
\* do not overlap.
TurnsInv ==
    /\ \A r \in Requests : req[r].op \in workload.ops \cup {"none"}
    /\ \A group \in workload.apart : \A r, s \in Requests :
          (req[r].op \in group /\ req[s].op \in group /\ req[r].op # "none" /\ req[s].op # "none")
          => r = s

\* How a step changes the operation of its request.
CallStep(r) ==
    /\ Moves(r)
    /\ \/ req'[r].op = "none" \/ req'[r].op = req[r].op
       \/ Begins(r, req'[r].op)

LEMMA CallSteps ==
    ASSUME Shape, NEW r \in Requests, RateCall(r) \/ LedgerCall(r) \/ SettleCall(r)
    PROVE  CallStep(r)
<1>1. Moves(r) /\ DOMAIN req = Requests /\ DOMAIN req[r] = DOMAIN Idle
    BY RateMoves, LedgerMoves, SettleMoves DEF Shape, CallShape
<1>2. CASE \/ CommitPlatform(r) \/ CommitCategory(r) \/ CommitOverride(r) \/ CommitEndOverride(r)
           \/ CommitAgreement(r) \/ CommitTerminate(r) \/ CommitPayoutChange(r)
           \/ CommitStatement(r) \/ CommitSettle(r)
    <2>1. Ends(r)
        BY <1>2 DEF CommitPlatform, CommitCategory, CommitOverride, CommitEndOverride,
                    CommitAgreement, CommitTerminate, CommitPayoutChange, CommitStatement,
                    CommitSettle
    <2> QED BY <1>1, <2>1, EndsMoves DEF CallStep
<1>3. CASE FindOverrides(r) \/ SumPayments(r)
    BY <1>1, <1>3 DEF FindOverrides, SumPayments, CallStep, Idle
<1>4. CASE \/ BeginPlatform(r) \/ BeginCategory(r) \/ BeginOverride(r) \/ BeginEndOverride(r)
    <2>1. CASE BeginPlatform(r)
        BY <1>1, <2>1 DEF BeginPlatform, CallStep, Idle
    <2>2. CASE BeginCategory(r)
        BY <1>1, <2>2 DEF BeginCategory, CallStep, Idle
    <2>3. CASE BeginOverride(r)
        BY <1>1, <2>3 DEF BeginOverride, CallStep, Idle
    <2>4. CASE BeginEndOverride(r)
        BY <1>1, <2>4 DEF BeginEndOverride, CallStep, Idle
    <2> QED BY <1>4, <2>1, <2>2, <2>3, <2>4
<1>5. CASE BeginTerminate(r) \/ BeginStatement(r) \/ BeginSettle(r)
    <2>1. CASE BeginTerminate(r)
        BY <1>1, <2>1 DEF BeginTerminate, CallStep, Idle
    <2>2. CASE BeginStatement(r)
        BY <1>1, <2>2 DEF BeginStatement, CallStep, Idle
    <2>3. CASE BeginSettle(r)
        BY <1>1, <2>3 DEF BeginSettle, CallStep, Idle
    <2> QED BY <1>5, <2>1, <2>2, <2>3
<1>6. CASE BeginAgreement(r)
    <2>1. PICK op \in {"AGREEMENT", "REPLACEMENT"} : Begins(r, op) /\ req'[r].op = op
        BY <1>1, <1>6 DEF BeginAgreement, Idle
    <2> QED BY <1>1, <2>1 DEF CallStep
<1>7. CASE BeginPayoutChange(r)
    <2>1. PICK op \in DOMAIN PayoutCall : Begins(r, op) /\ req'[r].op = op
        BY <1>1, <1>7 DEF BeginPayoutChange, Idle
    <2> QED BY <1>1, <2>1 DEF CallStep
<1> QED BY <1>2, <1>3, <1>4, <1>5, <1>6, <1>7 DEF RateCall, LedgerCall, SettleCall

LEMMA InitTurns == Init => TurnsInv
BY DEF Init, RatesInit, TurnsInv, Idle

LEMMA TurnsKept == Shape /\ TurnsInv /\ [Next]_vars => TurnsInv'
<1> SUFFICES ASSUME Shape, TurnsInv, [Next]_vars PROVE TurnsInv'
    OBVIOUS
<1>1. CASE workload' = workload /\ req' = req
    BY <1>1 DEF TurnsInv
<1>2. ASSUME workload' = workload, NEW r \in Requests, CallStep(r)
      PROVE  TurnsInv'
    <2>1. \A s \in Requests \ {r} : req'[s] = req[s]
        BY <1>2 DEF CallStep, Moves
    <2>2. CASE req'[r].op = "none" \/ req'[r].op = req[r].op
        BY <1>2, <2>1, <2>2 DEF TurnsInv
    <2>3. CASE Begins(r, req'[r].op)
        BY <1>2, <2>1, <2>3 DEF TurnsInv, Begins
    <2> QED BY <1>2, <2>2, <2>3 DEF CallStep
<1>3. CASE /\ workload' = workload
           /\ \E r \in Requests : RateCall(r) \/ LedgerCall(r) \/ SettleCall(r)
    BY <1>2, <1>3, CallSteps
<1> QED BY <1>1, <1>3 DEF Next, vars, Prepare, CreatePayout, FinalizeStatement, NextDay

\* In a sequential workload one call is in flight.
LEMMA OneCall ==
    ASSUME TurnsInv, Sequential
    PROVE  \A r, s \in Requests : req[r].op # "none" /\ req[s].op # "none" => r = s
<1>1. \A r \in Requests : req[r].op # "none" => req[r].op \in workload.ops
    BY DEF TurnsInv
<1> QED BY <1>1 DEF TurnsInv, Sequential

-----------------------------------------------------------------------------
(***************************************************************************)
(* The investor's agreements                                               *)
(***************************************************************************)
AgreementRow == [share: Shares, cap: Caps, from: Days, to: Int, status: AgreementStatus, prev: Nat]

AgreementOps == {"AGREEMENT", "REPLACEMENT", "TERMINATE", "SETTLE"}

\* What a call on the agreements brings along: a settlement has read rows of
\* the table, each once, whose caps are still theirs.
AgreementCall(call) ==
    /\ call.op \in {"AGREEMENT", "REPLACEMENT"} =>
          /\ call.percent \in Shares /\ call.sum \in Caps /\ call.from \in Days
          /\ call.to \in Int /\ call.asOf \in Days /\ call.target \in {0} \cup DOMAIN agreements
    /\ call.op = "TERMINATE" => call.target \in DOMAIN agreements
    /\ call.op = "SETTLE" =>
          /\ \A read \in call.seen :
                /\ read.id \in DOMAIN agreements /\ read.row \in AgreementRow
                /\ read.row.cap = agreements[read.id].cap
          /\ \A one, other \in call.seen : one.id = other.id => one = other

LedgerShape ==
    /\ agreements \in Seq(AgreementRow) /\ Len(agreements) <= MaxVersions
    /\ accrued \in [Versions -> Nat]
    /\ \A i \in Versions \ DOMAIN agreements : accrued[i] = 0
    /\ terminated \subseteq DOMAIN agreements
    /\ \A r \in Requests : AgreementCall(req[r])

\* No step removes an agreement or changes its cap.
TableGrows ==
    /\ DOMAIN agreements \subseteq DOMAIN agreements'
    /\ \A i \in DOMAIN agreements : agreements'[i].cap = agreements[i].cap

\* A step that changes no agreement and begins no call on one.
QuietStep ==
    /\ UNCHANGED <<workload, agreements, accrued, terminated, late>>
    /\ now' \in {now, now + 1}
    /\ \A r \in Requests : req'[r].op \in AgreementOps => req'[r] = req[r]

AgreementStep(r) ==
    /\ UNCHANGED <<workload, now>>
    /\ Moves(r)
    /\ \/ BeginAgreement(r) \/ BeginTerminate(r) \/ BeginSettle(r)
       \/ CommitAgreement(r) \/ CommitTerminate(r) \/ CommitSettle(r)

\* The calls about the rates are none of the investor's.
LEMMA RateOps ==
    ASSUME Shape, NEW r \in Requests, RateCall(r)
    PROVE  req'[r].op \in {"PLATFORM", "CATEGORY", "OVERRIDE", "END_OVERRIDE", "none"}
<1>1. DOMAIN req = Requests /\ DOMAIN req[r] = DOMAIN Idle
    BY DEF Shape, CallShape
<1>2. CASE CommitPlatform(r) \/ CommitCategory(r) \/ CommitOverride(r) \/ CommitEndOverride(r)
    <2>1. Ends(r)
        BY <1>2 DEF CommitPlatform, CommitCategory, CommitOverride, CommitEndOverride
    <2> QED BY <2>1, EndsMoves
<1>3. CASE FindOverrides(r)
    BY <1>1, <1>3 DEF FindOverrides, At, Idle
<1>4. CASE BeginPlatform(r)
    BY <1>1, <1>4 DEF BeginPlatform, Idle
<1>5. CASE BeginCategory(r)
    BY <1>1, <1>5 DEF BeginCategory, Idle
<1>6. CASE BeginOverride(r)
    BY <1>1, <1>6 DEF BeginOverride, Idle
<1>7. CASE BeginEndOverride(r)
    BY <1>1, <1>7 DEF BeginEndOverride, Idle
<1> QED BY <1>2, <1>3, <1>4, <1>5, <1>6, <1>7 DEF RateCall

LEMMA AgreementSteps ==
    ASSUME Shape, [Next]_vars
    PROVE  QuietStep \/ \E r \in Requests : AgreementStep(r)
<1> USE DEF ledgerRows, accrualRows
<1>1. CASE UNCHANGED vars
    BY <1>1 DEF vars, QuietStep
<1>2. ASSUME NEW r \in Requests, RateCall(r), UNCHANGED ledgerRows, workload' = workload
      PROVE  QuietStep
    <2>1. now' = now
        BY <1>2 DEF RateCall, BeginPlatform, CommitPlatform, BeginCategory, CommitCategory,
                    BeginOverride, FindOverrides, CommitOverride, BeginEndOverride, CommitEndOverride
    <2>2. Moves(r)
        BY <1>2, RateMoves
    <2>3. req'[r].op \notin AgreementOps
        BY <1>2, RateOps DEF AgreementOps
    <2> QED BY <1>2, <2>1, <2>2, <2>3 DEF QuietStep, Moves
<1>3. ASSUME NEW r \in Requests, LedgerCall(r), UNCHANGED <<workload, now>>
      PROVE  QuietStep \/ AgreementStep(r)
    <2>1. Moves(r)
        BY <1>3, LedgerMoves
    <2>2. DOMAIN req = Requests /\ DOMAIN req[r] = DOMAIN Idle
        BY DEF Shape, CallShape
    <2>3. CASE \/ BeginAgreement(r) \/ BeginTerminate(r) \/ CommitAgreement(r) \/ CommitTerminate(r)
        BY <1>3, <2>1, <2>3 DEF AgreementStep
    <2>4. CASE CommitPayoutChange(r) \/ CommitStatement(r)
        <3>1. Ends(r) /\ UNCHANGED <<agreements, accrued, terminated, late>>
            BY <2>4 DEF CommitPayoutChange, CommitStatement
        <3> QED BY <1>3, <2>1, <3>1, EndsMoves DEF QuietStep, Moves, AgreementOps
    <2>5. CASE BeginPayoutChange(r)
        <3>1. req'[r].op \in {"APPROVE", "PAY", "CANCEL"}
            BY <2>2, <2>5 DEF BeginPayoutChange, PayoutCall, Idle
        <3>2. UNCHANGED ledgerRows
            BY <2>5 DEF BeginPayoutChange
        <3> QED BY <1>3, <2>1, <3>1, <3>2 DEF QuietStep, Moves, AgreementOps
    <2>6. CASE BeginStatement(r) \/ SumPayments(r)
        <3>1. req'[r].op = "STATEMENT" /\ UNCHANGED ledgerRows
            BY ZenonT(30), <2>2, <2>6 DEF BeginStatement, SumPayments, At, Idle
        <3> QED BY <1>3, <2>1, <3>1 DEF QuietStep, Moves, AgreementOps
    <2> QED BY <1>3, <2>3, <2>4, <2>5, <2>6 DEF LedgerCall
<1>4. ASSUME NEW r \in Requests, SettleCall(r), UNCHANGED <<workload, now>>
      PROVE  AgreementStep(r)
    BY <1>4, SettleMoves DEF SettleCall, AgreementStep
<1>5. CASE /\ workload' = workload
           /\ \/ \E p \in Projects : Prepare(p) /\ UNCHANGED ledgerRows
              \/ CreatePayout /\ UNCHANGED now
              \/ FinalizeStatement /\ UNCHANGED now
              \/ NextDay /\ UNCHANGED ledgerRows
    BY <1>5 DEF Prepare, CreatePayout, FinalizeStatement, NextDay, QuietStep
<1> QED BY <1>1, <1>2, <1>3, <1>4, <1>5 DEF Next

-----------------------------------------------------------------------------
\* A table whose rows are rewritten one by one.
LEMMA Rewritten ==
    ASSUME NEW S, NEW rows \in Seq(S), NEW new,
           new = [i \in DOMAIN rows |-> new[i]], \A i \in DOMAIN rows : new[i] \in S
    PROVE  new \in Seq(S) /\ Len(new) = Len(rows) /\ DOMAIN new = DOMAIN rows
<1>1. DOMAIN rows = 1..Len(rows) /\ Len(rows) \in Nat
    BY LenProperties
<1>2. new \in [1..Len(rows) -> S]
    BY <1>1
<1>3. new \in Seq(S)
    BY <1>1, <1>2, SeqDef
<1>4. /\ Len(new) \in Nat /\ DOMAIN new = 1..Len(new) /\ DOMAIN new = 1..Len(rows)
    BY <1>1, <1>2, <1>3, LenProperties
<1> QED BY <1>1, <1>3, <1>4, SameInterval

\* Rows whose status and end are rewritten keep their type and their cap.
Ended(row, status, to) == [row EXCEPT !.status = status, !.to = to]

LEMMA EndedRow ==
    ASSUME NEW row \in AgreementRow, NEW status \in AgreementStatus, NEW to \in Int
    PROVE  Ended(row, status, to) \in AgreementRow /\ Ended(row, status, to).cap = row.cap
           /\ Ended(row, status, to).status = status /\ Ended(row, status, to).to = to
BY DEF Ended, AgreementRow

LEMMA WorkloadBounds ==
    Shape => workload.versions <= MaxVersions /\ workload.versions \in Nat /\ now \in Nat
<1> SUFFICES ASSUME Shape
             PROVE  workload.versions <= MaxVersions /\ workload.versions \in Nat /\ now \in Nat
    OBVIOUS
<1>1. workload \in [ops: SUBSET Operations, apart: SUBSET SUBSET Operations,
                    projects: SUBSET Projects, versions: 0..MaxVersions,
                    amount: Amounts, days: Days]
    BY RatesAssumption DEF Shape
<1>2. now \in Nat
    BY DatesInt DEF Shape
<1> QED BY <1>1, <1>2, RatesAssumption

\* What a new agreement does to the table: nothing if its predecessor has a
\* successor; else the predecessor ends and the row is appended.
NewAgreement(call) ==
    [share |-> call.percent, cap |-> call.sum, from |-> call.from, to |-> call.to,
     status |-> StatusFrom(call.from, call.asOf), prev |-> call.target]

LEMMA ClosedRows ==
    ASSUME LedgerShape, Shape, NEW r \in Requests,
           At(r, "AGREEMENT", "commit") \/ At(r, "REPLACEMENT", "commit")
    PROVE  /\ NewAgreement(req[r]) \in AgreementRow
           /\ Closed(req[r]) \in Seq(AgreementRow)
           /\ Len(Closed(req[r])) = Len(agreements)
           /\ DOMAIN Closed(req[r]) = DOMAIN agreements
           /\ \A i \in DOMAIN agreements : Closed(req[r])[i] =
                 IF i = req[r].target THEN Ended(agreements[i], "ENDED", req[r].from) ELSE agreements[i]
<1> DEFINE call == req[r]
<1>1. AgreementCall(call) /\ call.op \in {"AGREEMENT", "REPLACEMENT"}
    BY DEF LedgerShape, At
<1>2. agreements \in Seq(AgreementRow)
    BY DEF LedgerShape
<1>3. call.target \in Nat /\ call.from \in Int /\ call.asOf \in Int /\ call.from \in Days
    <2>1. DOMAIN agreements = 1..Len(agreements) /\ Len(agreements) \in Nat
        BY <1>2, LenProperties
    <2>2. Days \subseteq Nat
        BY DatesInt
    <2>3. call.from \in Days /\ call.asOf \in Days /\ call.target \in {0} \cup DOMAIN agreements
        BY <1>1 DEF AgreementCall
    <2>4. call.from \in Nat /\ call.asOf \in Nat
        BY <2>2, <2>3
    <2>5. call.target \in Nat
        BY <2>1, <2>3
    <2> QED BY <2>3, <2>4, <2>5
<1>4. NewAgreement(call) \in AgreementRow
    BY <1>1, <1>3 DEF AgreementCall, NewAgreement, AgreementRow, StatusFrom, AgreementStatus
<1>5. \A i \in DOMAIN agreements : Closed(call)[i] =
         IF i = call.target THEN Ended(agreements[i], "ENDED", call.from) ELSE agreements[i]
    BY DEF Closed, Ended
<1>6. Closed(call) = [i \in DOMAIN agreements |-> Closed(call)[i]]
    BY DEF Closed
<1>7. \A i \in DOMAIN agreements : agreements[i] \in AgreementRow
    BY <1>2, RowIn
<1>8. \A i \in DOMAIN agreements : Closed(call)[i] \in AgreementRow
    <2>1. "ENDED" \in AgreementStatus /\ call.from \in Int
        BY <1>3 DEF AgreementStatus
    <2>2. \A row \in AgreementRow : Ended(row, "ENDED", call.from) \in AgreementRow
        BY <2>1, EndedRow
    <2> QED BY <1>5, <1>7, <2>2
<1> HIDE DEF call
<1>9. /\ Closed(call) \in Seq(AgreementRow) /\ Len(Closed(call)) = Len(agreements)
      /\ DOMAIN Closed(call) = DOMAIN agreements
    BY <1>2, <1>6, <1>8, Rewritten
<1> QED BY <1>4, <1>5, <1>9 DEF call

LEMMA CommitAgreementTable ==
    ASSUME LedgerShape, Shape, NEW r \in Requests, CommitAgreement(r)
    PROVE  /\ agreements' \in Seq(AgreementRow) /\ Len(agreements') <= MaxVersions
           /\ TableGrows
           /\ \/ agreements' = agreements
              \/ /\ DOMAIN agreements' = DOMAIN agreements \cup {Len(agreements) + 1}
                 /\ Len(agreements) + 1 \notin DOMAIN agreements
                 /\ Len(agreements) + 1 \in Versions
                 /\ agreements'[Len(agreements) + 1] = NewAgreement(req[r])
                 /\ \A i \in DOMAIN agreements : agreements'[i] =
                       IF i = req[r].target THEN Ended(agreements[i], "ENDED", req[r].from)
                                            ELSE agreements[i]
<1>1. /\ NewAgreement(req[r]) \in AgreementRow
      /\ Closed(req[r]) \in Seq(AgreementRow)
      /\ Len(Closed(req[r])) = Len(agreements)
      /\ DOMAIN Closed(req[r]) = DOMAIN agreements
      /\ \A i \in DOMAIN agreements : Closed(req[r])[i] =
            IF i = req[r].target THEN Ended(agreements[i], "ENDED", req[r].from) ELSE agreements[i]
    BY ClosedRows DEF CommitAgreement
<1>2. agreements \in Seq(AgreementRow) /\ Len(agreements) <= MaxVersions
    BY DEF LedgerShape
<1>3. CASE HasSuccessor(agreements, req[r].target)
    <2>1. agreements' = agreements
        BY <1>3 DEF CommitAgreement
    <2> QED BY <1>2, <2>1 DEF TableGrows
<1>4. CASE ~HasSuccessor(agreements, req[r].target)
    <2>1. /\ agreements' = Append(Closed(req[r]), NewAgreement(req[r]))
          /\ Len(agreements) < workload.versions
        BY <1>4 DEF CommitAgreement, NewAgreement
    <2>2. /\ agreements' \in Seq(AgreementRow)
          /\ DOMAIN agreements' = 1..Len(agreements) + 1
          /\ DOMAIN agreements = 1..Len(agreements) /\ Len(agreements) \in Nat
          /\ agreements'[Len(agreements) + 1] = NewAgreement(req[r])
          /\ \A i \in DOMAIN agreements : agreements'[i] = Closed(req[r])[i]
        BY <1>1, <2>1, AppendRow
    <2>3. Len(agreements') = Len(agreements) + 1
        <3>1. DOMAIN agreements' = 1..Len(agreements') /\ Len(agreements') \in Nat
            BY <2>2, LenProperties
        <3> QED BY <2>2, <3>1, SameInterval
    <2>4. Len(agreements) + 1 <= MaxVersions /\ Len(agreements) + 1 \in Versions
        BY <2>1, <2>2, WorkloadBounds, RatesAssumption DEF Versions
    <2>5. DOMAIN agreements' = DOMAIN agreements \cup {Len(agreements) + 1}
          /\ Len(agreements) + 1 \notin DOMAIN agreements
        BY <2>2
    <2>6. TableGrows
        <3>1. \A i \in DOMAIN agreements : agreements[i] \in AgreementRow
            BY <1>2, RowIn
        <3>2. req[r].from \in Int
            BY <1>1, DatesInt DEF NewAgreement, AgreementRow
        <3>3. "ENDED" \in AgreementStatus
            BY DEF AgreementStatus
        <3>4. \A i \in DOMAIN agreements :
                Ended(agreements[i], "ENDED", req[r].from).cap = agreements[i].cap
            BY <3>1, <3>2, <3>3, EndedRow
        <3> QED BY <1>1, <2>2, <2>5, <3>4 DEF TableGrows
    <2> QED BY <1>1, <2>2, <2>3, <2>4, <2>5, <2>6
<1> QED BY <1>3, <1>4

LEMMA CommitTerminateTable ==
    ASSUME LedgerShape, Shape, NEW r \in Requests, CommitTerminate(r)
    PROVE  /\ agreements' \in Seq(AgreementRow) /\ Len(agreements') = Len(agreements)
           /\ TableGrows /\ DOMAIN agreements' = DOMAIN agreements
           /\ req[r].target \in DOMAIN agreements
           /\ \A i \in DOMAIN agreements : agreements'[i] =
                 IF i = req[r].target THEN Ended(agreements[i], "TERMINATED", now) ELSE agreements[i]
<1>1. agreements \in Seq(AgreementRow) /\ req[r].target \in DOMAIN agreements
    BY DEF LedgerShape, CommitTerminate, At, AgreementCall
<1>2. \A i \in DOMAIN agreements : agreements[i] \in AgreementRow
    BY <1>1, RowIn
<1>3. \A i \in DOMAIN agreements : agreements'[i] =
         IF i = req[r].target THEN Ended(agreements[i], "TERMINATED", now) ELSE agreements[i]
    BY <1>1 DEF CommitTerminate, Ended
<1>4. agreements' = [i \in DOMAIN agreements |-> agreements'[i]]
    BY <1>1 DEF CommitTerminate
<1>5. now \in Int
    BY DatesInt DEF Shape
<1>6. \A i \in DOMAIN agreements : agreements'[i] \in AgreementRow
                                   /\ agreements'[i].cap = agreements[i].cap
    <2>1. "TERMINATED" \in AgreementStatus
        BY DEF AgreementStatus
    <2>2. \A i \in DOMAIN agreements :
            /\ Ended(agreements[i], "TERMINATED", now) \in AgreementRow
            /\ Ended(agreements[i], "TERMINATED", now).cap = agreements[i].cap
        BY <1>2, <1>5, <2>1, EndedRow
    <2> QED BY <1>2, <1>3, <2>2
<1>7. /\ agreements' \in Seq(AgreementRow) /\ Len(agreements') = Len(agreements)
      /\ DOMAIN agreements' = DOMAIN agreements
    BY <1>1, <1>6, <1>4, Rewritten
<1> QED BY <1>1, <1>3, <1>6, <1>7 DEF TableGrows

\* A settlement marks rows ACTIVE and adds what it has computed from its reads.
ReadBy(call, i) == CHOOSE read \in call.seen : read.id = i

LEMMA CommitSettleTable ==
    ASSUME LedgerShape, Shape, NEW r \in Requests, CommitSettle(r)
    PROVE  /\ agreements' \in Seq(AgreementRow) /\ Len(agreements') = Len(agreements)
           /\ TableGrows /\ DOMAIN agreements' = DOMAIN agreements
           /\ \A i \in DOMAIN agreements : agreements'[i] =
                 IF \E read \in req[r].seen : read.id = i /\ read.row.status = "SCHEDULED"
                 THEN [agreements[i] EXCEPT !.status = "ACTIVE"] ELSE agreements[i]
<1> DEFINE call == req[r]
           ids == {read.id : read \in call.seen}
<1>1. agreements \in Seq(AgreementRow) /\ AgreementCall(call) /\ call.op = "SETTLE"
    BY DEF LedgerShape, CommitSettle, At
<1>2. \A i \in DOMAIN agreements : agreements[i] \in AgreementRow
    BY <1>1, RowIn
<1>3. agreements' = [i \in DOMAIN agreements |->
                        IF i \in ids /\ ReadBy(call, i).row.status = "SCHEDULED"
                        THEN [agreements[i] EXCEPT !.status = "ACTIVE"] ELSE agreements[i]]
    BY DEF CommitSettle, ReadBy
<1>4. \A read \in call.seen : ReadBy(call, read.id) = read
    BY <1>1 DEF AgreementCall, ReadBy
<1>5. \A i : (i \in ids /\ ReadBy(call, i).row.status = "SCHEDULED")
              <=> \E read \in call.seen : read.id = i /\ read.row.status = "SCHEDULED"
    BY <1>4
<1> HIDE DEF call, ids
<1>6. /\ agreements' = [i \in DOMAIN agreements |-> agreements'[i]]
      /\ \A i \in DOMAIN agreements : agreements'[i] =
            IF \E read \in call.seen : read.id = i /\ read.row.status = "SCHEDULED"
            THEN [agreements[i] EXCEPT !.status = "ACTIVE"] ELSE agreements[i]
    BY <1>3, <1>5
<1>7. \A i \in DOMAIN agreements : agreements'[i] \in AgreementRow
                                   /\ agreements'[i].cap = agreements[i].cap
    <2>1. \A row \in AgreementRow : /\ [row EXCEPT !.status = "ACTIVE"] \in AgreementRow
                                    /\ [row EXCEPT !.status = "ACTIVE"].cap = row.cap
        BY DEF AgreementRow, AgreementStatus
    <2> QED BY <1>2, <1>6, <2>1
<1>8. /\ agreements' \in Seq(AgreementRow) /\ Len(agreements') = Len(agreements)
      /\ DOMAIN agreements' = DOMAIN agreements
    BY <1>1, <1>6, <1>7, Rewritten
<1> QED BY <1>6, <1>7, <1>8 DEF TableGrows, call

-----------------------------------------------------------------------------
\* The table of agreements keeps its shape, and so does what the calls have read.
LEMMA InitLedger == Init => LedgerShape
<1> SUFFICES ASSUME Init PROVE LedgerShape
    OBVIOUS
<1>1. /\ agreements \in Seq(AgreementRow) /\ Len(agreements) <= MaxVersions
      /\ accrued \in [Versions -> Nat] /\ terminated = {}
      /\ \A i \in Versions : accrued[i] = 0
    BY RatesAssumption DEF Init, LedgerInit
<1>2. \A r \in Requests : AgreementCall(req[r])
    BY DEF Init, RatesInit, Idle, AgreementCall
<1> QED BY <1>1, <1>2 DEF LedgerShape

\* A call that does not move keeps what it has read.
LEMMA StillRead ==
    ASSUME LedgerShape, TableGrows, NEW r \in Requests, req'[r] = req[r]
    PROVE  AgreementCall(req[r])'
<1>1. AgreementCall(req[r])
    BY DEF LedgerShape
<1>2. req[r].op = "SETTLE" => \A read \in req[r].seen :
          read.id \in DOMAIN agreements' /\ read.row.cap = agreements'[read.id].cap
    BY <1>1 DEF AgreementCall, TableGrows
<1>3. DOMAIN agreements \subseteq DOMAIN agreements'
    BY DEF TableGrows
<1> QED BY <1>1, <1>2, <1>3 DEF AgreementCall

LEMMA BeginAgreementCall ==
    ASSUME LedgerShape, Shape, NEW r \in Requests,
           BeginAgreement(r) \/ BeginTerminate(r) \/ BeginSettle(r)
    PROVE  UNCHANGED ledgerRows /\ AgreementCall(req[r])'
<1>1. DOMAIN req = Requests
    BY DEF Shape
<1>2. /\ agreements \in Seq(AgreementRow) /\ 0..workload.days \subseteq Days /\ Days \subseteq Nat
      /\ now \in Days
    BY DayRange, DatesInt DEF LedgerShape, Shape
<1>3. CASE BeginAgreement(r)
    <2>1. UNCHANGED ledgerRows
        BY <1>3 DEF BeginAgreement
    <2>2. PICK op \in {"AGREEMENT", "REPLACEMENT"}, share \in Shares, cap \in Caps, from \in 0..workload.days :
            \E to \in {Null, from + 1},
               prev \in IF op = "AGREEMENT" THEN FirstOr0(Latest(agreements, Open(agreements)))
                                            ELSE DOMAIN agreements :
              req' = [req EXCEPT ![r] = [Idle EXCEPT !.op = op, !.pc = "commit", !.percent = share,
                         !.sum = cap, !.from = from, !.to = to, !.asOf = now, !.target = prev]]
        BY <1>3 DEF BeginAgreement
    <2>3. PICK to \in {Null, from + 1},
               prev \in IF op = "AGREEMENT" THEN FirstOr0(Latest(agreements, Open(agreements)))
                                            ELSE DOMAIN agreements :
              req' = [req EXCEPT ![r] = [Idle EXCEPT !.op = op, !.pc = "commit", !.percent = share,
                         !.sum = cap, !.from = from, !.to = to, !.asOf = now, !.target = prev]]
        BY <2>2
    <2>4. /\ req'[r].op = op /\ req'[r].percent = share /\ req'[r].sum = cap /\ req'[r].from = from
          /\ req'[r].to = to /\ req'[r].asOf = now /\ req'[r].target = prev
        BY <1>1, <2>3 DEF Idle
    <2>5. prev \in {0} \cup DOMAIN agreements
        BY <2>3 DEF FirstOr0, Latest, Open
    <2>6. from \in Days /\ to \in Int
        BY <1>2, <2>3 DEF Null
    <2>7. agreements' = agreements
        BY <2>1 DEF ledgerRows
    <2> QED BY <1>2, <2>1, <2>4, <2>5, <2>6, <2>7 DEF AgreementCall
<1>4. CASE BeginTerminate(r)
    <2>1. req'[r].op = "TERMINATE" /\ req'[r].target \in DOMAIN agreements /\ UNCHANGED ledgerRows
        BY <1>1, <1>4 DEF BeginTerminate, Idle, Open
    <2> QED BY <2>1 DEF AgreementCall, ledgerRows
<1>5. CASE BeginSettle(r)
    <2>1. /\ req'[r].op = "SETTLE" /\ UNCHANGED ledgerRows
          /\ req'[r].seen = {[id |-> i, row |-> agreements[i], prior |-> accrued[i],
                             closed |-> i \in terminated] : i \in Settleable(agreements, now)}
        BY ZenonT(30), <1>1, <1>5 DEF BeginSettle, Idle
    <2>2. \A i \in DOMAIN agreements : agreements[i] \in AgreementRow
        BY <1>2, RowIn
    <2>3. Settleable(agreements, now) \subseteq DOMAIN agreements
        BY DEF Settleable, Open
    <2>4. \A read \in req'[r].seen : /\ read.id \in DOMAIN agreements /\ read.row \in AgreementRow
                                      /\ read.row.cap = agreements[read.id].cap
        BY <2>1, <2>2, <2>3
    <2>5. \A one, other \in req'[r].seen : one.id = other.id => one = other
        BY <2>1
    <2> QED BY <2>1, <2>4, <2>5 DEF AgreementCall, ledgerRows
<1> QED BY <1>3, <1>4, <1>5

\* What the settlement adds is at least nothing.
LEMMA Settles ==
    ASSUME LedgerShape, Shape, NEW r \in Requests, CommitSettle(r)
    PROVE  \E amount \in [{read.id : read \in req[r].seen} -> Nat] :
              /\ \A read \in req[r].seen :
                    amount[read.id] \in AccrualChoices(read, escrows[req[r].project].fee)
              /\ \A i \in Versions : accrued'[i] =
                    IF \E read \in req[r].seen : read.id = i THEN accrued[i] + amount[i] ELSE accrued[i]
              /\ DOMAIN accrued' = Versions
              /\ late' = late \cup {i \in {read.id : read \in req[r].seen} :
                                       ReadBy(req[r], i).closed /\ amount[i] > 0}
<1> DEFINE call == req[r]
           ids == {read.id : read \in call.seen}
           fee == escrows[call.project].fee
<1>1. AgreementCall(call) /\ call.op = "SETTLE" /\ accrued \in [Versions -> Nat]
    BY DEF LedgerShape, CommitSettle, At
<1>2. PICK amount \in [ids -> 0..fee] :
        /\ \A i \in ids : amount[i] \in AccrualChoices(ReadBy(call, i), fee)
        /\ accrued' = [i \in DOMAIN accrued |-> IF i \in ids THEN accrued[i] + amount[i] ELSE accrued[i]]
        /\ late' = late \cup {i \in ids : ReadBy(call, i).closed /\ amount[i] > 0}
    BY DEF CommitSettle, ReadBy
<1>3. \A read \in call.seen : ReadBy(call, read.id) = read
    BY <1>1 DEF AgreementCall, ReadBy
<1>4. amount \in [ids -> Nat]
    <2>1. call.project \in Projects /\ escrows \in [Projects -> EscrowRow]
        BY <1>1 DEF Shape, CallShape
    <2>2. fee \in Int
        BY <2>1 DEF EscrowRow
    <2> HIDE DEF fee, ids
    <2> QED BY <1>2, <2>2
<1>5. \A i : i \in ids <=> \E read \in call.seen : read.id = i
    OBVIOUS
<1> QED BY <1>1, <1>2, <1>3, <1>4, <1>5

LEMMA AccruedShape ==
    ASSUME LedgerShape, Shape, NEW r \in Requests, CommitSettle(r)
    PROVE  /\ accrued' \in [Versions -> Nat]
           /\ \A i \in Versions \ DOMAIN agreements : accrued'[i] = 0
<1>1. PICK amount \in [{read.id : read \in req[r].seen} -> Nat] :
        /\ \A i \in Versions : accrued'[i] =
              IF \E read \in req[r].seen : read.id = i THEN accrued[i] + amount[i] ELSE accrued[i]
        /\ DOMAIN accrued' = Versions
    BY Settles
<1>2. accrued \in [Versions -> Nat] /\ \A i \in Versions \ DOMAIN agreements : accrued[i] = 0
    BY DEF LedgerShape
<1>3. \A read \in req[r].seen : read.id \in DOMAIN agreements /\ amount[read.id] \in Nat
    BY DEF LedgerShape, CommitSettle, At, AgreementCall
<1>4. \A i \in Versions : accrued'[i] \in Nat /\ (i \notin DOMAIN agreements => accrued'[i] = 0)
    BY <1>1, <1>2, <1>3
<1>5. accrued' = [i \in Versions |-> accrued'[i]]
    BY <1>1 DEF CommitSettle
<1> QED BY <1>4, <1>5

LEMMA LedgerKept == LedgerShape /\ Shape /\ [Next]_vars => LedgerShape' /\ TableGrows
<1> SUFFICES ASSUME LedgerShape, Shape, [Next]_vars PROVE LedgerShape' /\ TableGrows
    OBVIOUS
<1>1. CASE QuietStep
    <2>1. TableGrows /\ UNCHANGED <<agreements, accrued, terminated>>
        BY <1>1 DEF QuietStep, TableGrows
    <2>2. ASSUME NEW r \in Requests PROVE AgreementCall(req[r])'
        <3>1. CASE req'[r].op \in AgreementOps
            BY <1>1, <2>1, <3>1, StillRead DEF QuietStep
        <3>2. CASE req'[r].op \notin AgreementOps
            BY <3>2 DEF AgreementCall, AgreementOps
        <3> QED BY <3>1, <3>2
    <2> QED BY <2>1, <2>2 DEF LedgerShape
<1>2. ASSUME NEW r \in Requests, AgreementStep(r), TableGrows, AgreementCall(req[r])'
      PROVE  \A s \in Requests : AgreementCall(req[s])'
    BY <1>2, StillRead DEF AgreementStep, Moves
<1>3. ASSUME NEW r \in Requests, Ends(r) PROVE AgreementCall(req[r])'
    BY <1>3 DEF Ends, Idle, AgreementCall, Shape
<1>4. ASSUME NEW r \in Requests, AgreementStep(r),
             BeginAgreement(r) \/ BeginTerminate(r) \/ BeginSettle(r)
      PROVE  LedgerShape' /\ TableGrows
    <2>1. UNCHANGED ledgerRows /\ AgreementCall(req[r])'
        BY <1>4, BeginAgreementCall
    <2>2. TableGrows /\ UNCHANGED <<agreements, accrued, terminated>>
        BY <2>1 DEF TableGrows, ledgerRows, accrualRows
    <2> QED BY <1>2, <1>4, <2>1, <2>2 DEF LedgerShape
<1>5. ASSUME NEW r \in Requests, AgreementStep(r), CommitAgreement(r)
      PROVE  LedgerShape' /\ TableGrows
    <2>1. /\ agreements' \in Seq(AgreementRow) /\ Len(agreements') <= MaxVersions /\ TableGrows
        BY <1>5, CommitAgreementTable
    <2>2. Ends(r) /\ UNCHANGED <<accrued, terminated>>
        BY <1>5 DEF CommitAgreement, accrualRows
    <2> QED BY <1>2, <1>3, <1>5, <2>1, <2>2 DEF LedgerShape, TableGrows
<1>6. ASSUME NEW r \in Requests, AgreementStep(r), CommitTerminate(r)
      PROVE  LedgerShape' /\ TableGrows
    <2>1. /\ agreements' \in Seq(AgreementRow) /\ Len(agreements') = Len(agreements) /\ TableGrows
          /\ DOMAIN agreements' = DOMAIN agreements /\ req[r].target \in DOMAIN agreements
        BY <1>6, CommitTerminateTable
    <2>2. Ends(r) /\ accrued' = accrued /\ terminated' = terminated \cup {req[r].target}
        BY <1>6 DEF CommitTerminate, accrualRows
    <2> QED BY <1>2, <1>3, <1>6, <2>1, <2>2 DEF LedgerShape, TableGrows
<1>7. ASSUME NEW r \in Requests, AgreementStep(r), CommitSettle(r)
      PROVE  LedgerShape' /\ TableGrows
    <2>1. /\ agreements' \in Seq(AgreementRow) /\ Len(agreements') = Len(agreements) /\ TableGrows
          /\ DOMAIN agreements' = DOMAIN agreements
        BY <1>7, CommitSettleTable
    <2>2. Ends(r) /\ terminated' = terminated
        BY <1>7 DEF CommitSettle
    <2> QED BY <1>2, <1>3, <1>7, <2>1, <2>2, AccruedShape DEF LedgerShape
<1> QED BY <1>1, <1>4, <1>5, <1>6, <1>7, AgreementSteps DEF AgreementStep

-----------------------------------------------------------------------------
(***************************************************************************)
(* What an agreement earns                                                 *)
(***************************************************************************)
\* Settlements that take turns: what one has read is what was earned so far.
CapInv ==
    Apart({"SETTLE"}) =>
        /\ CapKept
        /\ \A r \in Requests : req[r].op = "SETTLE" =>
              \A read \in req[r].seen : read.prior = accrued[read.id]

\* No settlement in flight will mark the agreement ACTIVE.
Unread(i) == \A r \in Requests : req[r].op = "SETTLE" =>
    \A read \in req[r].seen : read.id = i => read.row.status # "SCHEDULED"

\* A terminated agreement has ended, or it is closed and nobody will reopen
\* it; so no settlement has read it after its termination.
LateInv ==
    (/\ Apart({"SETTLE"}) /\ Apart({"AGREEMENT", "TERMINATE"})
     /\ "REPLACEMENT" \notin workload.ops) =>
        /\ late = {}
        /\ \A i \in terminated :
              /\ agreements[i].to \in 0..now \/ i \notin Open(agreements)
              /\ (agreements[i].to \notin 0..now \/ i \in Open(agreements)) => Unread(i)
        /\ \A r \in Requests :
              /\ req[r].op = "SETTLE" => \A read \in req[r].seen : ~read.closed
              /\ req[r].op = "AGREEMENT" /\ req[r].target \in terminated => Unread(req[r].target)

\* Calls that do not overlap leave one agreement open: each new one closes the
\* one that it found.
OpenInv ==
    (Sequential /\ "REPLACEMENT" \notin workload.ops) =>
        /\ \A i, j \in Open(agreements) : i = j
        /\ \A r \in Requests :
              /\ req[r].op = "AGREEMENT" => Open(agreements) \subseteq {req[r].target}
              /\ req[r].op = "SETTLE" => \A read \in req[r].seen :
                    read.row.status = "SCHEDULED" => read.id \in Open(agreements)

LEMMA InitEarns == Init => CapInv /\ LateInv /\ OpenInv
BY DEF Init, RatesInit, LedgerInit, CapInv, LateInv, OpenInv, CapKept, Open, Idle

\* Operations that a group keeps apart.
LEMMA ApartCalls ==
    ASSUME TurnsInv, NEW ops, Apart(ops), "none" \notin ops, NEW r \in Requests, NEW s \in Requests,
           req[r].op \in ops, req[s].op \in ops
    PROVE  r = s
<1>1. PICK group \in workload.apart : ops \subseteq group
    BY DEF Apart
<1>2. req[r].op # "none" /\ req[s].op # "none"
    OBVIOUS
<1> QED BY <1>1, <1>2 DEF TurnsInv

LEMMA AccrualRespectsCap ==
    ASSUME NEW cap \in Nat, NEW prior \in Nat, prior <= cap, NEW accrual, NEW amount \in Nat,
           amount = CappedAccrual(accrual, cap, prior)
    PROVE  prior + amount <= cap
<1>1. cap # Null
    BY DEF Null
<1>2. CASE cap <= prior
    BY <1>1, <1>2 DEF CappedAccrual
<1>3. CASE ~(cap <= prior)
    <2>1. amount = AtMost(accrual, cap - prior) /\ cap - prior # Null
        BY <1>1, <1>3 DEF CappedAccrual, Null
    <2>2. amount <= cap - prior
        <3>1. CASE accrual > cap - prior
            BY <2>1, <3>1 DEF AtMost
        <3>2. CASE ~(accrual > cap - prior)
            <4>1. amount = accrual
                BY <2>1, <3>2 DEF AtMost
            <4> QED BY <3>2, <4>1
        <3> QED BY <3>1, <3>2
    <2> QED BY <2>2
<1> QED BY <1>2, <1>3

LEMMA CapSettles ==
    ASSUME LedgerShape, Shape, TurnsInv, CapInv, NEW r \in Requests, CommitSettle(r), Moves(r),
           workload' = workload
    PROVE  CapInv'
<1> SUFFICES ASSUME Apart({"SETTLE"})
             PROVE  /\ CapKept'
                    /\ \A s \in Requests : req'[s].op # "SETTLE"
    BY DEF CapInv, Apart
<1>1. CapKept /\ \A read \in req[r].seen : read.prior = accrued[read.id]
    BY DEF CapInv, CommitSettle, At
<1>2. \A s \in Requests \ {r} : req[s].op # "SETTLE"
    BY ApartCalls DEF CommitSettle, At
<1>3. req'[r].op = "none"
    BY EndsMoves DEF CommitSettle
<1>4. TableGrows /\ DOMAIN agreements' = DOMAIN agreements
    BY CommitSettleTable
<1>5. PICK amount \in [{read.id : read \in req[r].seen} -> Nat] :
        /\ \A read \in req[r].seen :
              amount[read.id] \in AccrualChoices(read, escrows[req[r].project].fee)
        /\ \A i \in Versions : accrued'[i] =
              IF \E read \in req[r].seen : read.id = i THEN accrued[i] + amount[i] ELSE accrued[i]
    BY Settles
<1>6. DOMAIN agreements \subseteq Versions
    <2>1. DOMAIN agreements = 1..Len(agreements) /\ Len(agreements) \in Nat /\ Len(agreements) <= MaxVersions
        BY LenProperties DEF LedgerShape
    <2> QED BY <2>1, RatesAssumption DEF Versions
<1>7. \A i \in DOMAIN agreements : agreements[i].cap \in OrNull(Nat)
    <2>1. \A i \in DOMAIN agreements : agreements[i] \in AgreementRow
        BY RowIn DEF LedgerShape
    <2> QED BY <2>1, LedgerAssumption DEF AgreementRow
<1>8. ASSUME NEW i \in DOMAIN agreements, agreements[i].cap # Null
      PROVE  accrued'[i] <= agreements[i].cap
    <2>1. agreements[i].cap \in Nat /\ accrued[i] \in Nat /\ accrued[i] <= agreements[i].cap
        BY <1>1, <1>6, <1>7, <1>8 DEF CapKept, OrNull, LedgerShape
    <2>2. CASE \E read \in req[r].seen : read.id = i
        <3>1. PICK read \in req[r].seen : read.id = i
            BY <2>2
        <3>2. accrued'[i] = accrued[i] + amount[i] /\ amount[i] \in Nat
            BY <1>5, <1>6, <3>1
        <3>3. read.row.cap = agreements[i].cap /\ read.prior = accrued[i]
            BY <1>1, <3>1 DEF LedgerShape, AgreementCall, CommitSettle, At
        <3>4. \E accrual : amount[i] = CappedAccrual(accrual, agreements[i].cap, accrued[i])
            BY <1>5, <3>1, <3>3 DEF AccrualChoices
        <3> QED BY <2>1, <3>2, <3>4, AccrualRespectsCap
    <2>3. CASE ~\E read \in req[r].seen : read.id = i
        BY <1>5, <1>6, <2>1, <2>3
    <2> QED BY <2>2, <2>3
<1>9. CapKept'
    BY <1>4, <1>8 DEF CapKept, TableGrows
<1> QED BY <1>2, <1>3, <1>9 DEF Moves

LEMMA CapNext == LedgerShape /\ Shape /\ TurnsInv /\ CapInv /\ [Next]_vars => CapInv'
<1> SUFFICES ASSUME LedgerShape, Shape, TurnsInv, CapInv, [Next]_vars PROVE CapInv'
    OBVIOUS
<1> USE DEF ledgerRows, accrualRows
<1>1. CASE QuietStep
    BY <1>1 DEF QuietStep, CapInv, CapKept, Apart, AgreementOps
<1>2. ASSUME NEW r \in Requests, AgreementStep(r), UNCHANGED <<agreements, accrued>>,
             req'[r].op = "SETTLE" => \A read \in req'[r].seen : read.prior = accrued[read.id]
      PROVE  CapInv'
    BY <1>2 DEF AgreementStep, Moves, CapInv, CapKept, Apart
<1>3. ASSUME NEW r \in Requests, AgreementStep(r),
             BeginAgreement(r) \/ BeginTerminate(r)
      PROVE  CapInv'
    <2>1. req'[r].op # "SETTLE"
        BY <1>3, LedgerMoves DEF LedgerCall
    <2> QED BY <1>2, <1>3, <2>1, BeginAgreementCall
<1>4. ASSUME NEW r \in Requests, AgreementStep(r), BeginSettle(r) PROVE CapInv'
    <2>1. req'[r].seen = {[id |-> i, row |-> agreements[i], prior |-> accrued[i],
                          closed |-> i \in terminated] : i \in Settleable(agreements, now)}
        BY <1>4 DEF BeginSettle, Idle, Shape
    <2>2. \A read \in req'[r].seen : read.prior = accrued[read.id]
        BY <2>1
    <2> QED BY <1>2, <1>4, <2>2 DEF BeginSettle
<1>5. ASSUME NEW r \in Requests, AgreementStep(r), CommitAgreement(r) \/ CommitTerminate(r)
      PROVE  CapInv'
    <2>1. Ends(r) /\ accrued' = accrued
        BY <1>5 DEF CommitAgreement, CommitTerminate
    <2>2. TableGrows
        BY <1>5, CommitAgreementTable, CommitTerminateTable
    <2>3. \A i \in DOMAIN agreements' \ DOMAIN agreements :
            agreements'[i].cap \in OrNull(Nat) /\ accrued[i] = 0
        <3>1. CASE CommitTerminate(r)
            BY <3>1, CommitTerminateTable
        <3>2. CASE CommitAgreement(r)
            <4>1. \A i \in DOMAIN agreements' : agreements'[i] \in AgreementRow
                BY <3>2, CommitAgreementTable, RowIn
            <4>2. DOMAIN agreements' \ DOMAIN agreements \subseteq Versions
                BY <3>2, CommitAgreementTable
            <4> QED BY <4>1, <4>2, LedgerAssumption DEF AgreementRow, LedgerShape
        <3> QED BY <1>5, <3>1, <3>2
    <2>4. CapKept => CapKept'
        BY <2>1, <2>2, <2>3 DEF CapKept, TableGrows, OrNull
    <2>5. req'[r].op = "none"
        BY <2>1, EndsMoves
    <2> QED BY <1>5, <2>1, <2>4, <2>5 DEF AgreementStep, Moves, CapInv, Apart
<1>6. ASSUME NEW r \in Requests, AgreementStep(r), CommitSettle(r) PROVE CapInv'
    BY <1>6, CapSettles DEF AgreementStep
<1> QED BY <1>1, <1>3, <1>4, <1>5, <1>6, AgreementSteps DEF AgreementStep

-----------------------------------------------------------------------------
LateWorkload == /\ Apart({"SETTLE"}) /\ Apart({"AGREEMENT", "TERMINATE"})
                /\ "REPLACEMENT" \notin workload.ops

\* The row of a terminated agreement: ended, or closed and not to be reopened.
Past(i) ==
    /\ agreements[i].to \in 0..now \/ i \notin Open(agreements)
    /\ (agreements[i].to \notin 0..now \/ i \in Open(agreements)) => Unread(i)

\* A settlement that starts now reads no terminated agreement.
LEMMA NotSettleable ==
    ASSUME Shape, NEW i, Past(i)
    PROVE  i \notin Settleable(agreements, now)
<1>1. now \in Nat
    BY WorkloadBounds
<1> QED BY <1>1 DEF Past, Settleable, Unexpired, Null

\* The predecessor that a new agreement has found is an open one, or there is none.
LEMMA BegunAgreement ==
    ASSUME Shape, NEW r \in Requests, BeginAgreement(r)
    PROVE  /\ Begins(r, req'[r].op) /\ req'[r].op \in {"AGREEMENT", "REPLACEMENT"}
           /\ req'[r].op = "AGREEMENT" =>
                 req'[r].target \in FirstOr0(Latest(agreements, Open(agreements)))
<1> DEFINE Found(op) == IF op = "AGREEMENT" THEN FirstOr0(Latest(agreements, Open(agreements)))
                                            ELSE DOMAIN agreements
<1>1. PICK op \in {"AGREEMENT", "REPLACEMENT"} :
        /\ Begins(r, op)
        /\ \E share \in Shares, cap \in Caps, from \in 0..workload.days :
           \E to \in {Null, from + 1}, prev \in Found(op) :
             req' = [req EXCEPT ![r] = [Idle EXCEPT !.op = op, !.pc = "commit", !.percent = share,
                        !.sum = cap, !.from = from, !.to = to, !.asOf = now, !.target = prev]]
    BY Zenon DEF BeginAgreement
<1> HIDE DEF Found
<1>2. \E prev \in Found(op) : req'[r].op = op /\ req'[r].target = prev
    BY <1>1 DEF Shape, Idle
<1> QED BY <1>1, <1>2 DEF Found

LEMMA LateBegins ==
    ASSUME LedgerShape, Shape, TurnsInv, LateInv, NEW r \in Requests, AgreementStep(r),
           BeginAgreement(r) \/ BeginTerminate(r) \/ BeginSettle(r), LateWorkload
    PROVE  LateInv'
<1>1. UNCHANGED ledgerRows /\ UNCHANGED <<workload, now>> /\ Moves(r)
    BY BeginAgreementCall DEF AgreementStep
<1>2. late' = late /\ agreements' = agreements /\ terminated' = terminated
    BY <1>1 DEF ledgerRows, accrualRows
<1>3. /\ late = {} /\ \A i \in terminated : Past(i)
      /\ \A s \in Requests :
            /\ req[s].op = "SETTLE" => \A read \in req[s].seen : ~read.closed
            /\ req[s].op = "AGREEMENT" /\ req[s].target \in terminated => Unread(req[s].target)
    BY DEF LateInv, LateWorkload, Past
<1>4. DOMAIN req = Requests /\ \A s \in Requests \ {r} : req'[s] = req[s]
    BY <1>1 DEF Shape, Moves
<1>5. /\ \A i \in terminated : Unread(i) => Unread(i)'
      /\ req'[r].op = "SETTLE" => \A read \in req'[r].seen : ~read.closed
    <2>1. CASE BeginSettle(r)
        <3>1. req'[r].seen = {[id |-> i, row |-> agreements[i], prior |-> accrued[i],
                              closed |-> i \in terminated] : i \in Settleable(agreements, now)}
            BY <1>4, <2>1 DEF BeginSettle, Idle
        <3>2. \A read \in req'[r].seen : read.id \notin terminated /\ read.closed = (read.id \in terminated)
            BY <1>3, <3>1, NotSettleable
        <3> QED BY <1>4, <3>2 DEF Unread
    <2>2. CASE BeginAgreement(r) \/ BeginTerminate(r)
        <3>1. req'[r].op # "SETTLE"
            BY <2>2, LedgerMoves DEF LedgerCall
        <3> QED BY <1>4, <3>1 DEF Unread
    <2> QED BY <2>1, <2>2
<1>6. req'[r].op = "AGREEMENT" /\ req'[r].target \in terminated => Unread(req'[r].target)
    <2>1. CASE BeginAgreement(r)
        <3>1. req'[r].op = "AGREEMENT" =>
                req'[r].target \in FirstOr0(Latest(agreements, Open(agreements)))
            BY <2>1, BegunAgreement
        <3>2. \A i \in terminated : i # 0
            <4>1. DOMAIN agreements = 1..Len(agreements)
                BY LenProperties DEF LedgerShape
            <4> QED BY <4>1 DEF LedgerShape
        <3>3. req'[r].op = "AGREEMENT" /\ req'[r].target \in terminated =>
                req'[r].target \in Open(agreements)
            BY <3>1, <3>2 DEF FirstOr0, Latest
        <3> QED BY <1>3, <3>3 DEF Past
    <2>2. CASE BeginTerminate(r)
        BY <1>4, <2>2 DEF BeginTerminate, Idle
    <2>3. CASE BeginSettle(r)
        BY <1>4, <2>3 DEF BeginSettle, Idle
    <2> QED BY <2>1, <2>2, <2>3
<1>7. \A i \in terminated : Past(i)'
    BY <1>1, <1>2, <1>3, <1>5 DEF Past
<1>8. \A s \in Requests :
        /\ req'[s].op = "SETTLE" => \A read \in req'[s].seen : ~read.closed
        /\ req'[s].op = "AGREEMENT" /\ req'[s].target \in terminated => Unread(req'[s].target)
    BY <1>3, <1>4, <1>5, <1>6
<1>9. \A i : i \in terminated /\ Unread(i) => \A s \in Requests : req'[s].op = "SETTLE" =>
        \A read \in req'[s].seen : read.id = i => read.row.status # "SCHEDULED"
    BY <1>5 DEF Unread
<1> QED BY <1>2, <1>3, <1>7, <1>8, <1>9 DEF LateInv, Past, Unread

LEMMA LateCommits ==
    ASSUME LedgerShape, Shape, TurnsInv, LateInv, NEW r \in Requests, AgreementStep(r),
           CommitAgreement(r) \/ CommitTerminate(r), LateWorkload
    PROVE  LateInv'
<1>1. UNCHANGED <<workload, now, late>> /\ req'[r].op = "none" /\ Ends(r)
    BY EndsMoves DEF AgreementStep, CommitAgreement, CommitTerminate, accrualRows
<1>2. \A s \in Requests \ {r} : req'[s] = req[s]
    BY DEF AgreementStep, Moves
<1>3. /\ late = {} /\ \A i \in terminated : Past(i)
      /\ \A s \in Requests :
            /\ req[s].op = "SETTLE" => \A read \in req[s].seen : ~read.closed
            /\ req[s].op = "AGREEMENT" /\ req[s].target \in terminated => Unread(req[s].target)
    BY DEF LateInv, LateWorkload, Past
<1>4. \A i : Unread(i) => Unread(i)'
    BY <1>1, <1>2 DEF Unread
<1>5. req[r].op \in {"AGREEMENT", "TERMINATE"}
    <2>1. req[r].op # "REPLACEMENT"
        BY DEF TurnsInv, LateWorkload
    <2> QED BY <2>1 DEF CommitAgreement, CommitTerminate, At
<1>6. \A s \in Requests \ {r} : req[s].op # "AGREEMENT"
    BY <1>5, ApartCalls DEF LateWorkload
<1>7. now \in Nat
    BY WorkloadBounds
<1>8. \A i \in terminated' : Past(i)'
    <2>1. CASE CommitAgreement(r)
        <3>1. terminated' = terminated /\ terminated \subseteq DOMAIN agreements
            BY <2>1 DEF CommitAgreement, LedgerShape
        <3>2. CASE agreements' = agreements
            BY <1>1, <1>3, <1>4, <3>1, <3>2 DEF Past
        <3>3. CASE agreements' # agreements
            <4>1. \A i \in DOMAIN agreements : agreements'[i] =
                    IF i = req[r].target THEN Ended(agreements[i], "ENDED", req[r].from) ELSE agreements[i]
                BY <2>1, <3>3, CommitAgreementTable
            <4>2. DOMAIN agreements \subseteq DOMAIN agreements'
                BY <2>1, CommitAgreementTable DEF TableGrows
            <4>3. ASSUME NEW i \in terminated, i = req[r].target PROVE Past(i)'
                <5>1. agreements'[i].status = "ENDED"
                    <6>1. \A row \in AgreementRow : \A to : Ended(row, "ENDED", to).status = "ENDED"
                        BY DEF Ended, AgreementRow
                    <6>2. agreements[i] \in AgreementRow
                        BY <3>1, RowIn DEF LedgerShape
                    <6> QED BY <3>1, <4>1, <4>3, <6>1, <6>2
                <5>2. Unread(i)
                    BY <1>3, <1>5, <2>1, <4>3 DEF CommitAgreement, At, LateWorkload, TurnsInv
                <5>3. i \notin Open(agreements)'
                    BY <5>1 DEF Open
                <5> QED BY <1>4, <5>2, <5>3 DEF Past
            <4>4. ASSUME NEW i \in terminated, i # req[r].target PROVE Past(i)'
                <5>1. agreements'[i] = agreements[i] /\ (i \in Open(agreements)' <=> i \in Open(agreements))
                    BY <3>1, <4>1, <4>2, <4>4 DEF Open
                <5> QED BY <1>1, <1>3, <1>4, <5>1 DEF Past
            <4> QED BY <3>1, <4>3, <4>4
        <3> QED BY <3>2, <3>3
    <2>2. CASE CommitTerminate(r)
        <3>1. /\ terminated' = terminated \cup {req[r].target} /\ DOMAIN agreements' = DOMAIN agreements
              /\ req[r].target \in DOMAIN agreements /\ terminated \subseteq DOMAIN agreements
              /\ \A i \in DOMAIN agreements : agreements'[i] =
                    IF i = req[r].target THEN Ended(agreements[i], "TERMINATED", now) ELSE agreements[i]
            BY <2>2, CommitTerminateTable DEF CommitTerminate, LedgerShape
        <3>2. ASSUME NEW i \in terminated', i = req[r].target PROVE Past(i)'
            <4>1. agreements'[i].status = "TERMINATED" /\ agreements'[i].to = now
                <5>1. agreements[i] \in AgreementRow /\ "TERMINATED" \in AgreementStatus /\ now \in Int
                    BY <1>7, <3>1, <3>2, RowIn DEF LedgerShape, AgreementStatus
                <5> QED BY <3>1, <3>2, <5>1, EndedRow
            <4> QED BY <1>1, <1>7, <4>1 DEF Past, Open
        <3>3. ASSUME NEW i \in terminated', i # req[r].target PROVE Past(i)'
            <4>1. i \in terminated /\ agreements'[i] = agreements[i]
                  /\ (i \in Open(agreements)' <=> i \in Open(agreements))
                BY <3>1, <3>3 DEF Open
            <4> QED BY <1>1, <1>3, <1>4, <4>1 DEF Past
        <3> QED BY <3>2, <3>3
    <2> QED BY <2>1, <2>2
<1>9. \A s \in Requests : /\ req'[s].op # "AGREEMENT"
                          /\ req'[s].op = "SETTLE" => \A read \in req'[s].seen : ~read.closed
    BY <1>1, <1>2, <1>3, <1>6
<1> QED BY <1>1, <1>3, <1>8, <1>9 DEF LateInv, Past

LEMMA LateSettles ==
    ASSUME LedgerShape, Shape, TurnsInv, LateInv, NEW r \in Requests, AgreementStep(r),
           CommitSettle(r), LateWorkload
    PROVE  LateInv'
<1>1. UNCHANGED <<workload, now, terminated>> /\ req'[r].op = "none" /\ req[r].op = "SETTLE"
    BY EndsMoves DEF AgreementStep, CommitSettle, At
<1>2. \A s \in Requests \ {r} : req'[s] = req[s] /\ req[s].op # "SETTLE"
    BY <1>1, ApartCalls DEF AgreementStep, Moves, LateWorkload
<1>3. /\ late = {} /\ \A i \in terminated : Past(i)
      /\ \A read \in req[r].seen : ~read.closed
    BY <1>1 DEF LateInv, LateWorkload, Past
<1>4. \A i : Unread(i)'
    BY <1>1, <1>2 DEF Unread
<1>5. late' = {}
    <2>1. \A read \in req[r].seen : ReadBy(req[r], read.id) = read
        BY <1>1 DEF LedgerShape, AgreementCall, ReadBy
    <2>2. PICK amount \in [{read.id : read \in req[r].seen} -> Nat] :
            late' = late \cup {i \in {read.id : read \in req[r].seen} :
                                 ReadBy(req[r], i).closed /\ amount[i] > 0}
        BY Settles
    <2>3. \A i \in {read.id : read \in req[r].seen} : ~ReadBy(req[r], i).closed
        BY <1>3, <2>1
    <2> QED BY <1>3, <2>2, <2>3
<1>6. \A i \in terminated : Past(i)'
    <2>1. /\ DOMAIN agreements' = DOMAIN agreements /\ terminated \subseteq DOMAIN agreements
          /\ \A i \in DOMAIN agreements : agreements'[i] =
                IF \E read \in req[r].seen : read.id = i /\ read.row.status = "SCHEDULED"
                THEN [agreements[i] EXCEPT !.status = "ACTIVE"] ELSE agreements[i]
        BY CommitSettleTable DEF LedgerShape
    <2>2. ASSUME NEW i \in terminated PROVE Past(i)'
        <3>1. agreements[i] \in AgreementRow
            BY <2>1, RowIn DEF LedgerShape
        <3>2. CASE \E read \in req[r].seen : read.id = i /\ read.row.status = "SCHEDULED"
            <4>1. ~Unread(i)
                BY <1>1, <3>2 DEF Unread
            <4>2. agreements[i].to \in 0..now
                BY <1>3, <4>1 DEF Past
            <4>3. agreements'[i].to = agreements[i].to
                BY <2>1, <3>1, <3>2 DEF AgreementRow
            <4> QED BY <1>1, <1>4, <4>2, <4>3 DEF Past
        <3>3. CASE ~\E read \in req[r].seen : read.id = i /\ read.row.status = "SCHEDULED"
            <4>1. agreements'[i] = agreements[i] /\ (i \in Open(agreements)' <=> i \in Open(agreements))
                BY <2>1, <3>3 DEF Open
            <4> QED BY <1>1, <1>3, <1>4, <4>1 DEF Past
        <3> QED BY <3>2, <3>3
    <2> QED BY <2>2
<1> QED BY <1>1, <1>2, <1>4, <1>5, <1>6 DEF LateInv, Past

LEMMA LateNext == LedgerShape /\ Shape /\ TurnsInv /\ LateInv /\ [Next]_vars => LateInv'
<1> SUFFICES ASSUME LedgerShape, Shape, TurnsInv, LateInv, [Next]_vars, LateWorkload' PROVE LateInv'
    BY DEF LateInv, LateWorkload
<1>1. workload' = workload /\ LateWorkload
    BY AgreementSteps DEF QuietStep, AgreementStep, LateWorkload, Apart
<1>2. CASE QuietStep
    <2>1. now \in Nat
        BY WorkloadBounds
    <2>2. \A i : Unread(i) => Unread(i)'
        BY <1>2 DEF QuietStep, Unread, AgreementOps
    <2>3. \A i \in terminated : Past(i) => Past(i)'
        BY <1>2, <2>1, <2>2 DEF QuietStep, Past
    <2>4. \A s \in Requests : req'[s].op \in {"SETTLE", "AGREEMENT"} => req'[s] = req[s]
        BY <1>2 DEF QuietStep, AgreementOps
    <2>5. late' = {} /\ terminated' = terminated
        BY <1>1, <1>2 DEF QuietStep, LateInv, LateWorkload
    <2> QED BY <1>1, <2>2, <2>3, <2>4, <2>5 DEF LateInv, LateWorkload, Past
<1> QED BY <1>1, <1>2, AgreementSteps, LateBegins, LateCommits, LateSettles DEF AgreementStep

-----------------------------------------------------------------------------
OpenWorkload == Sequential /\ "REPLACEMENT" \notin workload.ops

\* What an open agreement and a call in flight know of each other.
OpenKnown ==
    /\ \A i, j \in Open(agreements) : i = j
    /\ \A r \in Requests :
          /\ req[r].op = "AGREEMENT" => Open(agreements) \subseteq {req[r].target}
          /\ req[r].op = "SETTLE" => \A read \in req[r].seen :
                read.row.status = "SCHEDULED" => read.id \in Open(agreements)

LEMMA OpenBegins ==
    ASSUME LedgerShape, Shape, TurnsInv, OpenKnown, NEW r \in Requests, AgreementStep(r),
           BeginAgreement(r) \/ BeginTerminate(r) \/ BeginSettle(r), OpenWorkload
    PROVE  OpenKnown'
<1>1. agreements' = agreements /\ \A s \in Requests \ {r} : req'[s] = req[s]
    BY BeginAgreementCall DEF ledgerRows, AgreementStep, Moves
<1>2. DOMAIN req = Requests /\ \A i \in DOMAIN agreements : agreements[i] \in AgreementRow
    BY RowIn DEF Shape, LedgerShape
<1>3. CASE BeginAgreement(r)
    <2>1. req'[r].op = "AGREEMENT" /\ req'[r].target \in FirstOr0(Latest(agreements, Open(agreements)))
        BY <1>3, BegunAgreement DEF Begins, OpenWorkload
    <2>2. Open(agreements) \subseteq {req'[r].target}
        <3>1. CASE Open(agreements) = {}
            BY <3>1
        <3>2. CASE Open(agreements) # {}
            <4>1. PICK k \in Open(agreements) : \A i \in Open(agreements) : i = k
                BY <3>2 DEF OpenKnown
            <4>2. agreements[k].from \in Int
                BY <1>2, DatesInt DEF Open, AgreementRow
            <4>3. k \in Latest(agreements, Open(agreements))
                BY <4>1, <4>2 DEF Latest
            <4>4. req'[r].target \in Latest(agreements, Open(agreements))
                BY <2>1, <4>3 DEF FirstOr0
            <4> QED BY <4>1, <4>4 DEF Latest
        <3> QED BY <3>1, <3>2
    <2> QED BY <1>1, <2>1, <2>2 DEF OpenKnown
<1>4. CASE BeginTerminate(r)
    <2>1. req'[r].op = "TERMINATE"
        BY <1>2, <1>4 DEF BeginTerminate, Idle
    <2> QED BY <1>1, <2>1 DEF OpenKnown
<1>5. CASE BeginSettle(r)
    <2>1. /\ req'[r].op = "SETTLE"
          /\ req'[r].seen = {[id |-> i, row |-> agreements[i], prior |-> accrued[i],
                             closed |-> i \in terminated] : i \in Settleable(agreements, now)}
        BY ZenonT(30), <1>2, <1>5 DEF BeginSettle, Idle
    <2>2. \A read \in req'[r].seen : read.id \in Open(agreements)
        BY <2>1 DEF Settleable
    <2> QED BY <1>1, <2>1, <2>2 DEF OpenKnown
<1> QED BY <1>3, <1>4, <1>5

LEMMA OpenCommits ==
    ASSUME LedgerShape, Shape, TurnsInv, OpenKnown, NEW r \in Requests, AgreementStep(r),
           CommitAgreement(r) \/ CommitTerminate(r) \/ CommitSettle(r), OpenWorkload
    PROVE  OpenKnown'
<1>1. req[r].op # "none" /\ req'[r].op = "none"
    BY EndsMoves DEF CommitAgreement, CommitTerminate, CommitSettle, At
<1>2. \A s \in Requests : req'[s].op = "none"
    BY <1>1, OneCall DEF AgreementStep, Moves, OpenWorkload
<1>3. \A i, j \in Open(agreements') : i = j
    <2>1. CASE CommitAgreement(r)
        <3>1. Open(agreements) \subseteq {req[r].target}
            <4>1. req[r].op = "AGREEMENT"
                BY <2>1 DEF CommitAgreement, At, TurnsInv, OpenWorkload
            <4> QED BY <4>1 DEF OpenKnown
        <3>2. CASE agreements' = agreements
            BY <3>2 DEF OpenKnown
        <3>3. CASE agreements' # agreements
            <4>1. /\ DOMAIN agreements' = DOMAIN agreements \cup {Len(agreements) + 1}
                  /\ \A i \in DOMAIN agreements : agreements'[i] =
                        IF i = req[r].target THEN Ended(agreements[i], "ENDED", req[r].from)
                                             ELSE agreements[i]
                BY <2>1, <3>3, CommitAgreementTable
            <4>2. \A i \in DOMAIN agreements : i \notin Open(agreements')
                <5>1. \A row \in AgreementRow : \A to : Ended(row, "ENDED", to).status = "ENDED"
                    BY DEF Ended, AgreementRow
                <5>2. \A i \in DOMAIN agreements : agreements[i] \in AgreementRow
                    BY RowIn DEF LedgerShape
                <5> QED BY <3>1, <4>1, <5>1, <5>2 DEF Open
            <4> QED BY <4>1, <4>2 DEF Open
        <3> QED BY <3>2, <3>3
    <2>2. CASE CommitTerminate(r)
        <3>1. Open(agreements') \subseteq Open(agreements)
            <4>1. \A row \in AgreementRow : \A to : Ended(row, "TERMINATED", to).status = "TERMINATED"
                BY DEF Ended, AgreementRow
            <4>2. \A i \in DOMAIN agreements : agreements[i] \in AgreementRow
                BY RowIn DEF LedgerShape
            <4>3. /\ DOMAIN agreements' = DOMAIN agreements
                  /\ \A i \in DOMAIN agreements : agreements'[i] =
                        IF i = req[r].target THEN Ended(agreements[i], "TERMINATED", now) ELSE agreements[i]
                BY <2>2, CommitTerminateTable
            <4> QED BY <4>1, <4>2, <4>3 DEF Open
        <3> QED BY <3>1 DEF OpenKnown
    <2>3. CASE CommitSettle(r)
        <3>1. Open(agreements') \subseteq Open(agreements)
            <4>1. \A read \in req[r].seen : read.row.status = "SCHEDULED" => read.id \in Open(agreements)
                BY <2>3 DEF OpenKnown, CommitSettle, At
            <4>2. /\ DOMAIN agreements' = DOMAIN agreements
                  /\ \A i \in DOMAIN agreements : agreements'[i] =
                        IF \E read \in req[r].seen : read.id = i /\ read.row.status = "SCHEDULED"
                        THEN [agreements[i] EXCEPT !.status = "ACTIVE"] ELSE agreements[i]
                BY <2>3, CommitSettleTable
            <4> QED BY <4>1, <4>2 DEF Open
        <3> QED BY <3>1 DEF OpenKnown
    <2> QED BY <2>1, <2>2, <2>3
<1> QED BY <1>2, <1>3 DEF OpenKnown

LEMMA OpenNext == LedgerShape /\ Shape /\ TurnsInv /\ OpenInv /\ [Next]_vars => OpenInv'
<1> SUFFICES ASSUME LedgerShape, Shape, TurnsInv, OpenInv, [Next]_vars, OpenWorkload'
             PROVE  OpenKnown'
    BY DEF OpenInv, OpenWorkload, OpenKnown
<1>1. workload' = workload
    BY AgreementSteps DEF QuietStep, AgreementStep
<1>2. OpenWorkload
    BY <1>1 DEF OpenWorkload, Sequential
<1>3. OpenKnown
    BY <1>2 DEF OpenInv, OpenWorkload, OpenKnown
<1>4. CASE QuietStep
    BY <1>3, <1>4 DEF QuietStep, AgreementOps, OpenKnown
<1> QED BY <1>2, <1>3, <1>4, AgreementSteps, OpenBegins, OpenCommits DEF AgreementStep

\* An agreement never passes its cap, a terminated one earns nothing from a
\* later settlement, and no day has two agreements to share its fee, for any
\* number of overlapping administrators and settlements that take turns
\* (accrueForEscrow, terminateAgreement, createAgreement).
THEOREM SpecAccrualsAllowed == Spec => []AccrualsAllowed
<1>1. CapInv /\ LateInv /\ OpenInv /\ LedgerShape => AccrualsAllowed
    <2> SUFFICES ASSUME CapInv, LateInv, OpenInv PROVE AccrualsAllowed
        OBVIOUS
    <2>1. OneInForce
        <3> SUFFICES ASSUME OpenWorkload, NEW day \in Days
                     PROVE  Cardinality(Settleable(agreements, day)) <= 1
            BY DEF OneInForce, OpenWorkload
        <3>1. \A i, j \in Settleable(agreements, day) : i = j
            BY DEF OpenInv, OpenWorkload, Settleable
        <3>2. CASE Settleable(agreements, day) = {}
            BY <3>2, FS_EmptySet
        <3>3. CASE \E i : Settleable(agreements, day) = {i}
            BY <3>3, FS_Singleton
        <3> QED BY <3>1, <3>2, <3>3
    <2> QED BY <2>1 DEF CapInv, LateInv, AccrualsAllowed
<1>2. CommercialInv => Shape
    BY DEF CommercialInv
<1> QED
    BY InitTurns, TurnsKept, InitLedger, LedgerKept, InitEarns, CapNext, LateNext, OpenNext,
       CommercialInvariant, <1>1, <1>2, PTL DEF Spec

-----------------------------------------------------------------------------
(***************************************************************************)
(* Payouts and statements                                                  *)
(***************************************************************************)
PayoutRow == [status: PayoutStatus, paidOn: Dates]

StatementOps == {"STATEMENT", "APPROVE", "PAY", "CANCEL"}

PaidIds(month) == {id \in Payouts : payouts[id].status = "PAID"
                                    /\ MonthOf(payouts[id].paidOn) = month}

StatementShape ==
    /\ payouts \in [Payouts -> PayoutRow]
    /\ DOMAIN earned = Months /\ DOMAIN statements = Months
    /\ \A month \in Months :
          /\ DOMAIN statements[month] = {"status", "accruals", "payments", "madeOn"}
          /\ statements[month].status # "NONE" => statements[month].madeOn \in 0..now
    /\ \A r \in Requests :
          /\ req[r].op = "STATEMENT" => req[r].target \in Months
          /\ req[r].op \in DOMAIN PayoutCall => req[r].seen \subseteq Payouts

\* When calls take turns, what a statement in progress has summed is still
\* there, and a payout is still in the status that its call has checked.
StatementKnown ==
    /\ \A month \in Months :
          (statements[month].status # "NONE" /\ MonthOf(statements[month].madeOn) > month) =>
              statements[month].accruals = earned[month] /\ statements[month].payments = PaidIn(month)
    /\ \A r \in Requests :
          /\ req[r].op = "STATEMENT" =>
                /\ req[r].sum = earned[req[r].target]
                /\ req[r].pc = "insert" => req[r].paid = PaidIn(req[r].target)
          /\ req[r].op \in DOMAIN PayoutCall =>
                \A id \in req[r].seen : payouts[id].status \in PayoutCall[req[r].op]

StatementInv == StatementShape /\ (Sequential => StatementKnown)

LEMMA LaterMonth == \A a, b \in Nat : a <= b => MonthOf(a) <= MonthOf(b)
<1> SUFFICES ASSUME NEW a \in Nat, NEW b \in Nat, a <= b PROVE MonthOf(a) <= MonthOf(b)
    OBVIOUS
<1> DEFINE D == DaysPerMonth
           p == a \div D
           q == b \div D
<1>1. D \in Nat \ {0}
    BY LedgerAssumption
<1>2. p \in Int /\ q \in Int /\ D * p <= a /\ b < D * (q + 1)
    BY <1>1
<1>3. CASE q < p
    <2>1. q + 1 <= p
        BY <1>2, <1>3
    <2>2. D * (q + 1) <= D * p
        BY <1>1, <1>2, <2>1
    <2> QED BY <1>1, <1>2, <2>2
<1> QED BY <1>2, <1>3 DEF MonthOf

LEMMA InitStatement == Init => StatementInv
<1> SUFFICES ASSUME Init PROVE StatementInv
    OBVIOUS
<1>1. payouts \in [Payouts -> PayoutRow]
    BY DatesInt DEF Init, LedgerInit, PayoutRow, PayoutStatus
<1>2. \A month \in Months : statements[month].status = "NONE"
    BY DEF Init, LedgerInit
<1> QED BY <1>1, <1>2
        DEF Init, RatesInit, LedgerInit, Idle, StatementInv, StatementShape, StatementKnown, PayoutCall

\* A step that leaves the payouts, the statements and the sums alone.
PlainStep ==
    /\ UNCHANGED <<workload, earned, payouts, statements>>
    /\ now' \in {now, now + 1}
    /\ \A r \in Requests : req'[r].op \in StatementOps => req'[r] = req[r]

StatementStep(r) ==
    /\ UNCHANGED <<workload, now>>
    /\ Moves(r)
    /\ \/ CommitSettle(r)
       \/ BeginPayoutChange(r) \/ CommitPayoutChange(r)
       \/ BeginStatement(r) \/ SumPayments(r) \/ CommitStatement(r)

LEMMA StatementSteps ==
    ASSUME Shape, [Next]_vars
    PROVE  \/ PlainStep
           \/ CreatePayout /\ UNCHANGED <<workload, now>>
           \/ FinalizeStatement /\ UNCHANGED <<workload, now>>
           \/ \E r \in Requests : StatementStep(r)
<1> USE DEF ledgerRows, accrualRows
<1>1. CASE UNCHANGED vars
    BY <1>1 DEF vars, PlainStep
<1>2. ASSUME NEW r \in Requests, RateCall(r), UNCHANGED ledgerRows, workload' = workload
      PROVE  PlainStep
    <2>1. now' = now
        BY <1>2 DEF RateCall, BeginPlatform, CommitPlatform, BeginCategory, CommitCategory,
                    BeginOverride, FindOverrides, CommitOverride, BeginEndOverride, CommitEndOverride
    <2>2. Moves(r)
        BY <1>2, RateMoves
    <2>3. req'[r].op \notin StatementOps
        BY <1>2, RateOps DEF StatementOps
    <2> QED BY <1>2, <2>1, <2>2, <2>3 DEF PlainStep, Moves
<1>3. ASSUME NEW r \in Requests, LedgerCall(r), UNCHANGED <<workload, now>>
      PROVE  PlainStep \/ StatementStep(r)
    <2>1. Moves(r)
        BY <1>3, LedgerMoves
    <2>2. DOMAIN req = Requests /\ DOMAIN req[r] = DOMAIN Idle
        BY DEF Shape, CallShape
    <2>3. CASE \/ BeginPayoutChange(r) \/ CommitPayoutChange(r)
               \/ BeginStatement(r) \/ SumPayments(r) \/ CommitStatement(r)
        BY <1>3, <2>1, <2>3 DEF StatementStep
    <2>4. CASE CommitAgreement(r) \/ CommitTerminate(r)
        <3>1. Ends(r) /\ UNCHANGED <<earned, payouts, statements>>
            BY <2>4 DEF CommitAgreement, CommitTerminate
        <3> QED BY <1>3, <2>1, <3>1, EndsMoves DEF PlainStep, Moves, StatementOps
    <2>5. CASE BeginAgreement(r) \/ BeginTerminate(r)
        <3>1. req'[r].op \in {"AGREEMENT", "REPLACEMENT", "TERMINATE"} /\ UNCHANGED ledgerRows
            <4>1. CASE BeginTerminate(r)
                BY <2>2, <4>1 DEF BeginTerminate, Idle
            <4>2. CASE BeginAgreement(r)
                BY <4>2, BegunAgreement DEF BeginAgreement
            <4> QED BY <2>5, <4>1, <4>2
        <3> QED BY <1>3, <2>1, <3>1 DEF PlainStep, Moves, StatementOps
    <2> QED BY <1>3, <2>3, <2>4, <2>5 DEF LedgerCall
<1>4. ASSUME NEW r \in Requests, SettleCall(r), UNCHANGED <<workload, now>>
      PROVE  PlainStep \/ StatementStep(r)
    <2>1. Moves(r)
        BY <1>4, SettleMoves
    <2>2. DOMAIN req = Requests /\ DOMAIN req[r] = DOMAIN Idle
        BY DEF Shape, CallShape
    <2>3. CASE BeginSettle(r)
        <3>1. req'[r].op = "SETTLE" /\ UNCHANGED ledgerRows
            BY <2>2, <2>3 DEF BeginSettle, Idle
        <3> QED BY <1>4, <2>1, <3>1 DEF PlainStep, Moves, StatementOps
    <2> QED BY <1>4, <2>1, <2>3 DEF SettleCall, StatementStep
<1>5. CASE /\ workload' = workload
           /\ \/ \E p \in Projects : Prepare(p) /\ UNCHANGED ledgerRows
              \/ NextDay /\ UNCHANGED ledgerRows
    BY <1>5 DEF Prepare, NextDay, PlainStep
<1> QED BY <1>1, <1>2, <1>3, <1>4, <1>5 DEF Next

LEMMA PaidKept ==
    ASSUME NEW month,
           \A id \in Payouts : (payouts'[id].status = "PAID" /\ MonthOf(payouts'[id].paidOn) = month)
                           <=> (payouts[id].status = "PAID" /\ MonthOf(payouts[id].paidOn) = month)
    PROVE  PaidIn(month)' = PaidIn(month)
<1>1. PaidIds(month)' = PaidIds(month)
    BY DEF PaidIds
<1> QED BY <1>1 DEF PaidIn, PaidIds

\* What a call on a payout does to it.
PayoutAfter(op, row) ==
    CASE op = "APPROVE" -> [row EXCEPT !.status = "APPROVED"]
      [] op = "PAY"     -> [status |-> "PAID", paidOn |-> now]
      [] op = "CANCEL"  -> [row EXCEPT !.status = "CANCELLED"]

LEMMA PayoutChanged ==
    ASSUME Shape, NEW op \in DOMAIN PayoutCall, NEW row \in PayoutRow
    PROVE  /\ PayoutAfter(op, row) \in PayoutRow
           /\ PayoutAfter(op, row).status = "PAID" <=> op = "PAY"
           /\ op = "PAY" => PayoutAfter(op, row).paidOn = now
<1>1. now \in Dates
    BY DatesInt DEF Shape
<1>2. op \in {"APPROVE", "PAY", "CANCEL"}
    BY DEF PayoutCall
<1>3. CASE op = "APPROVE"
    BY <1>3 DEF PayoutAfter, PayoutRow, PayoutStatus
<1>4. CASE op = "PAY"
    BY <1>1, <1>4 DEF PayoutAfter, PayoutRow, PayoutStatus
<1>5. CASE op = "CANCEL"
    BY <1>5 DEF PayoutAfter, PayoutRow, PayoutStatus
<1> QED BY <1>2, <1>3, <1>4, <1>5

\* What the steps of a statement and of a payout leave behind, whatever else
\* is in flight.
LEMMA ChangedPayouts ==
    ASSUME Shape, StatementShape, NEW r \in Requests, CommitPayoutChange(r)
    PROVE  \E id \in req[r].seen :
              /\ id \in Payouts /\ req[r].op \in DOMAIN PayoutCall
              /\ payouts' = [payouts EXCEPT ![id] = PayoutAfter(req[r].op, payouts[id])]
              /\ UNCHANGED <<earned, statements>> /\ Ends(r)
BY DEF CommitPayoutChange, PayoutAfter, StatementShape, accrualRows

LEMMA StatementShapeKept == Shape /\ StatementShape /\ [Next]_vars => StatementShape'
<1> SUFFICES ASSUME Shape, StatementShape, [Next]_vars PROVE StatementShape'
    OBVIOUS
<1> USE DEF ledgerRows, accrualRows
<1>0. DOMAIN req = Requests /\ (\A r \in Requests : DOMAIN req[r] = DOMAIN Idle) /\ now \in Nat
    BY WorkloadBounds DEF Shape, CallShape
<1>1. CASE PlainStep
    <2>1. \A month \in Months : statements'[month].status # "NONE" => statements'[month].madeOn \in 0..now'
        BY <1>0, <1>1 DEF PlainStep, StatementShape
    <2> QED BY <1>1, <2>1 DEF PlainStep, StatementShape, StatementOps, PayoutCall
<1>2. CASE CreatePayout /\ UNCHANGED <<workload, now>>
    <2>1. payouts' \in [Payouts -> PayoutRow]
        <3>1. \A row \in PayoutRow : [row EXCEPT !.status = "PENDING"] \in PayoutRow
            BY DEF PayoutRow, PayoutStatus
        <3> QED BY <1>2, <3>1 DEF CreatePayout, StatementShape
    <2> QED BY <1>2, <2>1 DEF CreatePayout, StatementShape
<1>3. CASE FinalizeStatement /\ UNCHANGED <<workload, now>>
    <2>1. /\ UNCHANGED <<payouts, earned, req, now>> /\ DOMAIN statements' = DOMAIN statements
          /\ \A month \in Months :
                /\ DOMAIN statements'[month] = DOMAIN statements[month]
                /\ statements'[month].madeOn = statements[month].madeOn
                /\ statements'[month].status = "NONE" <=> statements[month].status = "NONE"
        BY <1>3 DEF FinalizeStatement, StatementShape
    <2> QED BY <2>1 DEF StatementShape
<1>4. ASSUME NEW r \in Requests, StatementStep(r) PROVE StatementShape'
    <2>0. /\ now' = now /\ \A s \in Requests \ {r} : req'[s] = req[s]
        BY <1>4 DEF StatementStep, Moves
    <2>1. CASE CommitSettle(r)
        <3>1. Ends(r) /\ UNCHANGED <<payouts, statements>> /\ DOMAIN earned' = DOMAIN earned
            BY <2>1 DEF CommitSettle
        <3> QED BY <2>0, <3>1, EndsMoves DEF StatementShape, PayoutCall
    <2>2. CASE BeginPayoutChange(r)
        <3>1. PICK op \in DOMAIN PayoutCall, id \in Payouts :
                req' = [req EXCEPT ![r] = [Idle EXCEPT !.op = op, !.pc = "commit", !.seen = {id}]]
            BY <2>2 DEF BeginPayoutChange
        <3>2. req'[r].op = op /\ req'[r].seen = {id} /\ op # "STATEMENT"
            BY <1>0, <3>1 DEF Idle, PayoutCall
        <3>3. UNCHANGED ledgerRows
            BY <2>2 DEF BeginPayoutChange
        <3> QED BY <2>0, <3>2, <3>3 DEF StatementShape
    <2>3. CASE CommitPayoutChange(r)
        <3>1. PICK id \in req[r].seen :
                /\ id \in Payouts /\ req[r].op \in DOMAIN PayoutCall
                /\ payouts' = [payouts EXCEPT ![id] = PayoutAfter(req[r].op, payouts[id])]
                /\ UNCHANGED <<earned, statements>> /\ Ends(r)
            BY <2>3, ChangedPayouts
        <3>2. payouts' \in [Payouts -> PayoutRow]
            <4>1. PayoutAfter(req[r].op, payouts[id]) \in PayoutRow
                BY <3>1, PayoutChanged DEF StatementShape
            <4> QED BY <3>1, <4>1 DEF StatementShape
        <3>3. req'[r].op = "none"
            BY <3>1, EndsMoves
        <3> QED BY <2>0, <3>1, <3>2, <3>3 DEF StatementShape, PayoutCall
    <2>4. CASE BeginStatement(r)
        <3>1. req'[r].op = "STATEMENT" /\ req'[r].target \in Months /\ UNCHANGED ledgerRows
            BY <1>0, <2>4 DEF BeginStatement, Idle
        <3> QED BY <2>0, <3>1 DEF StatementShape, PayoutCall
    <2>5. CASE SumPayments(r)
        <3>1. /\ req'[r].op = "STATEMENT" /\ req[r].op = "STATEMENT"
              /\ req'[r].target = req[r].target /\ UNCHANGED ledgerRows
            BY <1>0, <2>5 DEF SumPayments, At, Idle
        <3> QED BY <2>0, <3>1 DEF StatementShape, PayoutCall
    <2>6. CASE CommitStatement(r)
        <3>1. Ends(r) /\ UNCHANGED <<payouts, earned>> /\ req[r].op = "STATEMENT"
            BY <2>6 DEF CommitStatement, At
        <3>2. /\ DOMAIN statements' = Months
              /\ \A month \in Months : \/ statements'[month] = statements[month]
                                       \/ /\ DOMAIN statements'[month] = {"status", "accruals", "payments", "madeOn"}
                                          /\ statements'[month].madeOn = now
            BY <2>6 DEF CommitStatement, StatementShape
        <3>3. req'[r].op = "none" /\ now \in 0..now
            BY <1>0, <3>1, EndsMoves
        <3> QED BY <2>0, <3>1, <3>2, <3>3 DEF StatementShape, PayoutCall
    <2> QED BY <1>4, <2>1, <2>2, <2>3, <2>4, <2>5, <2>6 DEF StatementStep
<1> QED BY <1>1, <1>2, <1>3, <1>4, StatementSteps

\* A statement that was made after its month is about a month that is over.
LEMMA MonthOver ==
    ASSUME Shape, StatementShape, NEW month \in Months, statements[month].status # "NONE",
           MonthOf(statements[month].madeOn) > month
    PROVE  MonthOf(now) # month /\ month \in Int
<1>1. now \in Nat /\ Days \subseteq Nat
    BY WorkloadBounds, DatesInt
<1>2. statements[month].madeOn \in Nat /\ statements[month].madeOn <= now
    BY <1>1 DEF StatementShape
<1>3. MonthOf(statements[month].madeOn) <= MonthOf(now)
    BY <1>1, <1>2, LaterMonth
<1>4. \A day \in Nat : MonthOf(day) \in Int
    BY LedgerAssumption DEF MonthOf
<1>5. month \in Int
    BY <1>1, <1>4 DEF Months
<1> QED BY <1>1, <1>2, <1>3, <1>4, <1>5

\* A step that moves the sums only of the current month keeps what the
\* statements say, if it makes none.
LEMMA StatedKept ==
    ASSUME Shape, StatementShape, StatementKnown, UNCHANGED statements,
           \A month \in Months \ {MonthOf(now)} :
               earned'[month] = earned[month] /\ PaidIn(month)' = PaidIn(month)
    PROVE  \A month \in Months :
              (statements'[month].status # "NONE" /\ MonthOf(statements'[month].madeOn) > month) =>
                  /\ statements'[month].accruals = earned'[month]
                  /\ statements'[month].payments = PaidIn(month)'
<1> SUFFICES ASSUME NEW month \in Months, statements[month].status # "NONE",
                    MonthOf(statements[month].madeOn) > month
             PROVE  /\ statements[month].accruals = earned'[month]
                    /\ statements[month].payments = PaidIn(month)'
    OBVIOUS
<1>1. month \in Months \ {MonthOf(now)}
    BY MonthOver
<1> QED BY <1>1 DEF StatementKnown

StatedRight ==
    \A month \in Months :
        (statements[month].status # "NONE" /\ MonthOf(statements[month].madeOn) > month) =>
            statements[month].accruals = earned[month] /\ statements[month].payments = PaidIn(month)

CallRight(call) ==
    /\ call.op = "STATEMENT" =>
          /\ call.sum = earned[call.target]
          /\ call.pc = "insert" => call.paid = PaidIn(call.target)
    /\ call.op \in DOMAIN PayoutCall =>
          \A id \in call.seen : payouts[id].status \in PayoutCall[call.op]

LEMMA KnownParts == StatementKnown <=> StatedRight /\ \A r \in Requests : CallRight(req[r])
BY DEF StatementKnown, StatedRight, CallRight

LEMMA SettleStated ==
    ASSUME Shape, TurnsInv, StatementShape, StatementKnown, Sequential,
           NEW r \in Requests, StatementStep(r), CommitSettle(r)
    PROVE  StatementKnown'
<1>1. /\ UNCHANGED <<now, payouts, statements>> /\ req[r].op # "none" /\ req'[r].op = "none"
      /\ \A s \in Requests \ {r} : req'[s] = req[s]
    BY EndsMoves DEF CommitSettle, At, StatementStep, Moves
<1>2. \A s \in Requests : req'[s].op = "none"
    BY <1>1, OneCall
<1>3. \A month \in Months \ {MonthOf(now)} : earned'[month] = earned[month]
    BY DEF CommitSettle, StatementShape
<1>4. \A month : PaidIn(month)' = PaidIn(month)
    BY <1>1, PaidKept
<1>5. StatedRight'
    BY <1>1, <1>3, <1>4, StatedKept DEF StatedRight
<1> QED BY <1>2, <1>5 DEF StatementKnown, StatedRight, PayoutCall

LEMMA PayoutStated ==
    ASSUME Shape, TurnsInv, StatementShape, StatementKnown, Sequential,
           NEW r \in Requests, StatementStep(r), CommitPayoutChange(r)
    PROVE  StatementKnown'
<1>1. PICK id \in req[r].seen :
        /\ id \in Payouts /\ req[r].op \in DOMAIN PayoutCall
        /\ payouts' = [payouts EXCEPT ![id] = PayoutAfter(req[r].op, payouts[id])]
        /\ UNCHANGED <<earned, statements>> /\ Ends(r)
    BY ChangedPayouts
<1>2. /\ req[r].op # "none" /\ req'[r].op = "none" /\ \A s \in Requests \ {r} : req'[s] = req[s]
      /\ now' = now
    BY <1>1, EndsMoves DEF PayoutCall, StatementStep, Moves
<1>3. \A s \in Requests : req'[s].op = "none"
    BY <1>2, OneCall
<1>4. payouts[id] \in PayoutRow /\ payouts[id].status # "PAID"
    BY <1>1 DEF StatementKnown, StatementShape, PayoutCall
<1>5. \A month \in Months \ {MonthOf(now)} : PaidIn(month)' = PaidIn(month)
    <2>1. SUFFICES ASSUME NEW month \in Months \ {MonthOf(now)} PROVE PaidIn(month)' = PaidIn(month)
        BY Zenon
    <2>2. /\ payouts'[id] = PayoutAfter(req[r].op, payouts[id])
          /\ \A other \in Payouts \ {id} : payouts'[other] = payouts[other]
        BY <1>1 DEF StatementShape
    <2>3. ~(payouts'[id].status = "PAID" /\ MonthOf(payouts'[id].paidOn) = month)
        BY <1>1, <1>4, <2>2, PayoutChanged
    <2> QED BY <1>4, <2>2, <2>3, PaidKept
<1>6. StatedRight'
    BY <1>1, <1>5, StatedKept DEF StatedRight
<1> QED BY <1>3, <1>6 DEF StatementKnown, StatedRight, PayoutCall

LEMMA BegunStated ==
    ASSUME Shape, StatementShape, StatementKnown, NEW r \in Requests, StatementStep(r),
           BeginPayoutChange(r) \/ BeginStatement(r) \/ SumPayments(r)
    PROVE  StatementKnown'
<1>1. /\ UNCHANGED <<now, payouts, statements, earned>> /\ \A s \in Requests \ {r} : req'[s] = req[s]
      /\ DOMAIN req = Requests /\ DOMAIN req[r] = DOMAIN Idle
    BY DEF StatementStep, Moves, BeginPayoutChange, BeginStatement, SumPayments, ledgerRows,
           accrualRows, Shape, CallShape
<1>2. \A month : PaidIn(month)' = PaidIn(month)
    BY <1>1, PaidKept
<1>3. StatedRight'
    BY <1>1, <1>2, StatedKept DEF StatedRight
<1>4. \A s \in Requests \ {r} : CallRight(req[s])'
    BY <1>1, <1>2, KnownParts DEF CallRight
<1>5. CallRight(req[r])'
    <2>1. CASE BeginPayoutChange(r)
        <3>1. PICK op \in DOMAIN PayoutCall, id \in Payouts :
                /\ payouts[id].status \in PayoutCall[op]
                /\ req' = [req EXCEPT ![r] = [Idle EXCEPT !.op = op, !.pc = "commit", !.seen = {id}]]
            BY <2>1 DEF BeginPayoutChange
        <3>2. req'[r].op = op /\ req'[r].seen = {id} /\ op # "STATEMENT"
            BY <1>1, <3>1 DEF Idle, PayoutCall
        <3> QED BY <1>1, <3>1, <3>2 DEF CallRight
    <2>2. CASE BeginStatement(r)
        <3>1. PICK month \in Months :
                req' = [req EXCEPT ![r] = [Idle EXCEPT !.op = "STATEMENT", !.pc = "payments",
                           !.target = month, !.sum = earned[month]]]
            BY <2>2 DEF BeginStatement
        <3>2. /\ req'[r].op = "STATEMENT" /\ req'[r].pc = "payments"
              /\ req'[r].target = month /\ req'[r].sum = earned[month]
            BY <1>1, <3>1 DEF Idle
        <3> QED BY <1>1, <3>2 DEF CallRight, PayoutCall
    <2>3. CASE SumPayments(r)
        <3>1. /\ req[r].op = "STATEMENT" /\ req'[r].op = "STATEMENT"
              /\ req'[r].target = req[r].target /\ req'[r].sum = req[r].sum
              /\ req'[r].paid = PaidIn(req[r].target)
            BY <1>1, <2>3 DEF SumPayments, At, Idle
        <3>2. req[r].sum = earned[req[r].target]
            BY <3>1 DEF StatementKnown
        <3> QED BY <1>1, <1>2, <3>1, <3>2 DEF CallRight, PayoutCall
    <2> QED BY <2>1, <2>2, <2>3
<1>6. StatedRight' /\ \A s \in Requests : CallRight(req[s])'
    BY <1>3, <1>4, <1>5
<1> QED BY <1>6 DEF StatementKnown, StatedRight, CallRight

LEMMA InsertStated ==
    ASSUME Shape, TurnsInv, StatementShape, StatementKnown, Sequential,
           NEW r \in Requests, StatementStep(r), CommitStatement(r)
    PROVE  StatementKnown'
<1> DEFINE target == req[r].target
<1>1. /\ UNCHANGED <<now, payouts, earned>> /\ req[r].op = "STATEMENT" /\ req'[r].op = "none"
      /\ \A s \in Requests \ {r} : req'[s] = req[s]
    BY EndsMoves DEF CommitStatement, At, StatementStep, Moves, accrualRows
<1>2. \A s \in Requests : req'[s].op = "none"
    BY <1>1, OneCall
<1>3. \A month : PaidIn(month)' = PaidIn(month)
    BY <1>1, PaidKept
<1>4. target \in Months /\ req[r].sum = earned[target] /\ req[r].paid = PaidIn(target)
    BY <1>1 DEF StatementKnown, StatementShape, CommitStatement, At
<1>5. /\ \A month \in Months \ {target} : statements'[month] = statements[month]
      /\ \/ statements'[target] = statements[target]
         \/ statements'[target].accruals = req[r].sum /\ statements'[target].payments = req[r].paid
    BY <1>4 DEF CommitStatement, StatementShape
<1>6. StatedRight'
    BY <1>1, <1>3, <1>4, <1>5 DEF StatedRight, StatementKnown
<1> QED BY <1>2, <1>6 DEF StatementKnown, StatedRight, PayoutCall

LEMMA StatementNext == Shape /\ TurnsInv /\ StatementInv /\ [Next]_vars => StatementInv'
<1> SUFFICES ASSUME Shape, TurnsInv, StatementInv, [Next]_vars, Sequential' PROVE StatementKnown'
    BY StatementShapeKept DEF StatementInv
<1>1. StatementShape /\ Sequential /\ StatementKnown
    <2>1. workload' = workload
        BY StatementSteps DEF PlainStep, StatementStep
    <2> QED BY <2>1 DEF StatementInv, Sequential
<1>2. CASE PlainStep
    <2>1. \A month : PaidIn(month)' = PaidIn(month)
        BY <1>2, PaidKept DEF PlainStep
    <2>2. StatedRight'
        BY <1>1, <1>2, <2>1 DEF PlainStep, StatedRight, StatementKnown
    <2>3. \A s \in Requests : CallRight(req[s])'
        <3>1. ASSUME NEW s \in Requests, req'[s] = req[s] PROVE CallRight(req[s])'
            BY <1>1, <1>2, <2>1, <3>1, KnownParts DEF PlainStep, CallRight
        <3>2. ASSUME NEW s \in Requests, req'[s].op \notin StatementOps PROVE CallRight(req[s])'
            BY <3>2 DEF CallRight, StatementOps, PayoutCall
        <3> QED BY <1>2, <3>1, <3>2 DEF PlainStep
    <2> QED BY <2>2, <2>3 DEF StatementKnown, StatedRight, CallRight
<1>3. CASE CreatePayout /\ UNCHANGED <<workload, now>>
    <2>1. PICK id \in Payouts : /\ payouts[id].status = "NONE"
                                /\ payouts' = [payouts EXCEPT ![id].status = "PENDING"]
        BY <1>3 DEF CreatePayout
    <2>2. /\ UNCHANGED <<req, earned, statements, now>>
          /\ payouts'[id].status = "PENDING" /\ \A other \in Payouts \ {id} : payouts'[other] = payouts[other]
        BY <1>1, <1>3, <2>1 DEF CreatePayout, accrualRows, StatementShape, PayoutRow
    <2>3. \A month : PaidIn(month)' = PaidIn(month)
        BY <2>1, <2>2, PaidKept
    <2>4. StatedRight'
        BY <1>1, <2>2, <2>3, StatedKept DEF StatedRight
    <2>5. \A s \in Requests : CallRight(req[s])'
        <3> SUFFICES ASSUME NEW s \in Requests PROVE CallRight(req[s])'
            OBVIOUS
        <3>1. req[s].op \in DOMAIN PayoutCall => \A other \in req[s].seen : other \in Payouts \ {id}
            BY <1>1, <2>1 DEF StatementKnown, StatementShape, PayoutCall
        <3> QED BY <1>1, <2>2, <2>3, <3>1, KnownParts DEF CallRight
    <2> QED BY <2>4, <2>5 DEF StatementKnown, StatedRight, CallRight
<1>4. CASE FinalizeStatement /\ UNCHANGED <<workload, now>>
    <2>1. /\ UNCHANGED <<payouts, earned, req, now>>
          /\ \A month \in Months :
                /\ statements'[month].madeOn = statements[month].madeOn
                /\ statements'[month].accruals = statements[month].accruals
                /\ statements'[month].payments = statements[month].payments
                /\ statements'[month].status = "NONE" <=> statements[month].status = "NONE"
        BY <1>1, <1>4 DEF FinalizeStatement, StatementShape, accrualRows
    <2>2. \A month : PaidIn(month)' = PaidIn(month)
        BY <2>1, PaidKept
    <2>3. StatedRight'
        BY <1>1, <2>1, <2>2 DEF StatedRight, StatementKnown
    <2>4. \A s \in Requests : CallRight(req[s])'
        BY <1>1, <2>1, <2>2, KnownParts DEF CallRight
    <2> QED BY <2>3, <2>4 DEF StatementKnown, StatedRight, CallRight
<1> QED BY <1>1, <1>2, <1>3, <1>4, StatementSteps, SettleStated, PayoutStated, BegunStated,
           InsertStated DEF StatementStep

\* A statement that is made when its month is over says for ever what the
\* ledger says of that month, as long as calls take turns (createStatement,
\* accrueForEscrow, markPayoutPaid, cancelPayout).
THEOREM SpecStatementComplete == Spec => []StatementComplete
<1>1. StatementInv => StatementComplete
    BY DEF StatementInv, StatementKnown, StatementComplete
<1>2. CommercialInv => Shape
    BY DEF CommercialInv
<1> QED BY InitTurns, TurnsKept, InitStatement, StatementNext, CommercialInvariant, <1>1, <1>2, PTL DEF Spec

-----------------------------------------------------------------------------
(***************************************************************************)
(* What resolves is what was decided                                       *)
(***************************************************************************)
DecisionOps == {"CATEGORY", "OVERRIDE", "END_OVERRIDE"}

ActiveIn(rows) == {i \in DOMAIN rows : rows[i].status = "ACTIVE"}

NoneScheduled == \A i \in DOMAIN categories : categories[i].status # "SCHEDULED"

\* The ACTIVE row of a table, if there is one, carries what was decided.
Carries(rows, decision) ==
    /\ \A i \in ActiveIn(rows) : rows[i].to = Null /\ rows[i].percent = decision
    /\ \A i, j \in ActiveIn(rows) : i = j
    /\ decision # Null => ActiveIn(rows) # {}

DecidedShape ==
    /\ DOMAIN decided = {"category", "project"} /\ DOMAIN decided.project = Projects
    /\ \A p \in Projects : \A i \in DOMAIN overrides[p] : overrides[p][i].status # "SCHEDULED"
    /\ \A r \in Requests : req[r].op = "END_OVERRIDE" =>
          req[r].project \in Projects /\ req[r].target \in DOMAIN overrides[req[r].project]

CategoryTarget(call) ==
    call.op = "CATEGORY" => call.target = 0 \/ call.target \in ActiveIn(categories)

CategoryKnown ==
    /\ Carries(categories, decided.category)
    /\ \A r \in Requests : req[r].op = "CATEGORY" => \A i \in ActiveIn(categories) : i = req[r].target

\* When calls take turns: a change of the category supersedes the row that
\* is ACTIVE, and one of a project supersedes all that are.
DecisionKnown ==
    /\ \A r \in Requests : CategoryTarget(req[r])
    /\ NoneScheduled => CategoryKnown
    /\ \A p \in Projects : Carries(overrides[p], decided.project[p])
    /\ \A r \in Requests : (req[r].op = "OVERRIDE" /\ req[r].pc = "commit") =>
          ActiveIn(overrides[req[r].project]) \subseteq req[r].seen

DecisionInv == Sequential => DecidedShape /\ DecisionKnown

LEMMA InitDecision == Init => DecisionInv
<1> SUFFICES ASSUME Init PROVE DecisionInv
    OBVIOUS
<1>1. /\ categories = <<>> /\ \A p \in Projects : overrides[p] = <<>>
      /\ decided.category = Null /\ \A p \in Projects : decided.project[p] = Null
      /\ DOMAIN decided = {"category", "project"} /\ DOMAIN decided.project = Projects
      /\ \A r \in Requests : req[r].op = "none"
    BY DEF Init, RatesInit, Idle
<1>2. DOMAIN <<>> = {} /\ ActiveIn(<<>>) = {}
    BY DEF ActiveIn
<1>3. DecidedShape
    BY <1>1, <1>2 DEF DecidedShape
<1>4. \A p \in Projects : Carries(overrides[p], decided.project[p])
    BY <1>1, <1>2 DEF Carries
<1>5. Carries(categories, decided.category)
    BY <1>1, <1>2 DEF Carries
<1> QED BY <1>1, <1>3, <1>4, <1>5 DEF DecisionInv, DecisionKnown, CategoryKnown, CategoryTarget

LEMMA LedgerOps ==
    ASSUME Shape, NEW r \in Requests, LedgerCall(r) \/ SettleCall(r)
    PROVE  req'[r].op \notin DecisionOps
<1>1. DOMAIN req = Requests /\ DOMAIN req[r] = DOMAIN Idle
    BY DEF Shape, CallShape
<1>2. CASE \/ CommitAgreement(r) \/ CommitTerminate(r) \/ CommitPayoutChange(r)
           \/ CommitStatement(r) \/ CommitSettle(r)
    <2>1. Ends(r)
        BY <1>2 DEF CommitAgreement, CommitTerminate, CommitPayoutChange, CommitStatement, CommitSettle
    <2> QED BY <2>1, EndsMoves DEF DecisionOps
<1>3. CASE BeginAgreement(r)
    BY <1>3, BegunAgreement DEF DecisionOps
<1>4. CASE BeginTerminate(r)
    BY <1>1, <1>4 DEF BeginTerminate, DecisionOps, Idle
<1>5. CASE BeginPayoutChange(r)
    BY <1>1, <1>5 DEF BeginPayoutChange, PayoutCall, DecisionOps, Idle
<1>6. CASE BeginStatement(r)
    BY <1>1, <1>6 DEF BeginStatement, DecisionOps, Idle
<1>7. CASE SumPayments(r)
    BY <1>1, <1>7 DEF SumPayments, At, DecisionOps, Idle
<1>8. CASE BeginSettle(r)
    BY <1>1, <1>8 DEF BeginSettle, DecisionOps, Idle
<1> QED BY <1>2, <1>3, <1>4, <1>5, <1>6, <1>7, <1>8 DEF LedgerCall, SettleCall

\* A step that leaves the decisions and the rows that carry them alone.
UndecidedStep ==
    /\ UNCHANGED <<workload, categories, overrides, decided>>
    /\ \A r \in Requests : req'[r].op \in DecisionOps => req'[r] = req[r]

DecisionStep(r) ==
    /\ UNCHANGED <<workload, now>>
    /\ Moves(r)
    /\ \/ BeginCategory(r) \/ CommitCategory(r)
       \/ BeginOverride(r) \/ FindOverrides(r) \/ CommitOverride(r)
       \/ BeginEndOverride(r) \/ CommitEndOverride(r)

LEMMA DecisionSteps ==
    ASSUME Shape, [Next]_vars
    PROVE  UndecidedStep \/ \E r \in Requests : DecisionStep(r)
<1> USE DEF rateRows
<1>1. CASE UNCHANGED vars
    BY <1>1 DEF vars, UndecidedStep
<1>2. ASSUME NEW r \in Requests, RateCall(r), workload' = workload
      PROVE  UndecidedStep \/ DecisionStep(r)
    <2>1. Moves(r)
        BY <1>2, RateMoves
    <2>2. CASE \/ BeginCategory(r) \/ CommitCategory(r)
               \/ BeginOverride(r) \/ FindOverrides(r) \/ CommitOverride(r)
               \/ BeginEndOverride(r) \/ CommitEndOverride(r)
        <3>1. now' = now
            BY <2>2 DEF BeginCategory, CommitCategory, BeginOverride, FindOverrides,
                        CommitOverride, BeginEndOverride, CommitEndOverride
        <3> QED BY <1>2, <2>1, <2>2, <3>1 DEF DecisionStep
    <2>3. CASE BeginPlatform(r) \/ CommitPlatform(r)
        <3>1. UNCHANGED <<categories, overrides, decided>>
            BY <2>3 DEF BeginPlatform, CommitPlatform
        <3>2. req'[r].op \notin DecisionOps
            <4>1. DOMAIN req = Requests /\ DOMAIN req[r] = DOMAIN Idle
                BY DEF Shape, CallShape
            <4>2. CASE BeginPlatform(r)
                BY <4>1, <4>2 DEF BeginPlatform, DecisionOps, Idle
            <4>3. CASE CommitPlatform(r)
                BY <4>3, EndsMoves DEF CommitPlatform, DecisionOps
            <4> QED BY <2>3, <4>2, <4>3
        <3> QED BY <1>2, <2>1, <3>1, <3>2 DEF UndecidedStep, Moves
    <2> QED BY <1>2, <2>2, <2>3 DEF RateCall
<1>3. ASSUME NEW r \in Requests, LedgerCall(r) \/ SettleCall(r), UNCHANGED <<workload, rateRows>>
      PROVE  UndecidedStep
    <2>1. Moves(r)
        BY <1>3, LedgerMoves, SettleMoves
    <2> QED BY <1>3, <2>1, LedgerOps DEF UndecidedStep, Moves
<1>4. CASE /\ workload' = workload
           /\ \/ \E p \in Projects : Prepare(p)
              \/ CreatePayout /\ UNCHANGED rateRows
              \/ FinalizeStatement /\ UNCHANGED rateRows
              \/ NextDay
    BY <1>4 DEF Prepare, CreatePayout, FinalizeStatement, NextDay, UndecidedStep
<1> QED BY <1>1, <1>2, <1>3, <1>4 DEF Next

LEMMA CategoryTable ==
    ASSUME Shape, NEW r \in Requests, CommitCategory(r), CategoryTarget(req[r])
    PROVE  \/ UNCHANGED <<categories, decided>>
           \/ LET n == Len(categories) + 1
                  call == req[r]
                  ended == IF call.target # 0 /\ call.from <= call.asOf THEN {call.target} ELSE {}
              IN /\ DOMAIN categories' = DOMAIN categories \cup {n} /\ n \notin DOMAIN categories
                 /\ categories'[n] = [percent |-> call.percent, from |-> call.from, to |-> Null,
                                      status |-> StatusFrom(call.from, call.asOf), prev |-> call.target]
                 /\ \A i \in DOMAIN categories : i \notin ended => categories'[i] = categories[i]
                 /\ \A i \in DOMAIN categories : i \in ended => categories'[i].status = "SUPERSEDED"
                 /\ decided' = IF call.from <= call.asOf
                               THEN [decided EXCEPT !.category = call.percent] ELSE decided
<1> DEFINE call == req[r]
           row == [percent |-> call.percent, from |-> call.from, to |-> Null,
                   status |-> StatusFrom(call.from, call.asOf), prev |-> call.target]
           now0 == call.target # 0 /\ call.from <= call.asOf
<1>1. call.op = "CATEGORY" /\ CallShape(call)
    BY DEF CommitCategory, At, Shape
<1>2. row \in CategoryRow /\ call.from \in Dates
    BY <1>1, DatesInt DEF CallShape, CategoryRow, StatusFrom, PolicyStatus
<1>3. categories \in Seq(CategoryRow)
    BY DEF Shape
<1>4. \A old \in CategoryRow : /\ Superseded(old, call.from) \in CategoryRow
                               /\ Superseded(old, call.from).status = "SUPERSEDED"
    BY <1>2 DEF CategoryRow, PolicyStatus, Superseded
<1>5. CASE HasSuccessor(categories, call.target)
    BY <1>5 DEF CommitCategory
<1>6. CASE ~HasSuccessor(categories, call.target) /\ now0
    <2> DEFINE table == Supersede(categories, {call.target}, call.from)
    <2>1. categories' = Append(table, row)
        BY <1>6 DEF CommitCategory, CategoryRows
    <2>2. decided' = IF call.from <= call.asOf THEN [decided EXCEPT !.category = call.percent] ELSE decided
        BY <1>6 DEF CommitCategory
    <2>3. table \in Seq(CategoryRow) /\ Len(table) = Len(categories) /\ DOMAIN table = DOMAIN categories
        BY <1>3, <1>4, SupersedeRows
    <2>4. \A i \in DOMAIN categories :
            table[i] = IF i = call.target THEN Superseded(categories[i], call.from) ELSE categories[i]
        BY DEF Supersede, Superseded
    <2>5. \A i \in DOMAIN categories : categories[i] \in CategoryRow
        BY <1>3, RowIn
    <2>6. /\ DOMAIN categories' = DOMAIN categories \cup {Len(categories) + 1}
          /\ Len(categories) + 1 \notin DOMAIN categories
          /\ categories'[Len(categories) + 1] = row
          /\ \A i \in DOMAIN categories : categories'[i] = table[i]
        BY <1>2, <2>1, <2>3, AppendRow
    <2> HIDE DEF table, now0
    <2>7. \A i \in DOMAIN categories : i = call.target => categories'[i].status = "SUPERSEDED"
        BY <1>4, <2>4, <2>5, <2>6
    <2>8. \A i \in DOMAIN categories : i # call.target => categories'[i] = categories[i]
        BY <2>4, <2>6
    <2> QED BY <1>6, <2>2, <2>6, <2>7, <2>8 DEF now0
<1>7. CASE ~HasSuccessor(categories, call.target) /\ ~now0
    <2>1. categories' = Append(categories, row)
        BY <1>7 DEF CommitCategory, CategoryRows
    <2>2. decided' = IF call.from <= call.asOf THEN [decided EXCEPT !.category = call.percent] ELSE decided
        BY <1>7 DEF CommitCategory
    <2>3. /\ DOMAIN categories' = DOMAIN categories \cup {Len(categories) + 1}
          /\ Len(categories) + 1 \notin DOMAIN categories
          /\ categories'[Len(categories) + 1] = row
          /\ \A i \in DOMAIN categories : categories'[i] = categories[i]
        BY <1>2, <1>3, <2>1, AppendRow
    <2> QED BY <1>7, <2>2, <2>3
<1> QED BY <1>5, <1>6, <1>7

LEMMA CommitCategoryDecides ==
    ASSUME Shape, TurnsInv, DecidedShape, DecisionKnown, Sequential,
           NEW r \in Requests, DecisionStep(r), CommitCategory(r)
    PROVE  DecisionKnown' /\ DecidedShape'
<1>1. /\ UNCHANGED <<now, overrides>> /\ req[r].op = "CATEGORY" /\ req'[r].op = "none"
      /\ \A s \in Requests \ {r} : req'[s] = req[s]
    BY EndsMoves DEF CommitCategory, At, DecisionStep, Moves
<1>2. \A s \in Requests : req'[s].op = "none"
    BY <1>1, OneCall
<1>3. CategoryTarget(req[r]) /\ CallShape(req[r])
    BY DEF DecisionKnown, Shape
<1>4. /\ DOMAIN decided' = {"category", "project"} /\ decided'.project = decided.project
    BY DEF DecidedShape, CommitCategory
<1>5. NoneScheduled' => CategoryKnown'
    <2> SUFFICES ASSUME NoneScheduled' PROVE Carries(categories', decided'.category)
        BY <1>2 DEF CategoryKnown
    <2>1. CASE UNCHANGED <<categories, decided>>
        BY <2>1 DEF DecisionKnown, CategoryKnown, NoneScheduled
    <2>2. CASE ~UNCHANGED <<categories, decided>>
        <3> DEFINE n == Len(categories) + 1
                   call == req[r]
                   ended == IF call.target # 0 /\ call.from <= call.asOf THEN {call.target} ELSE {}
        <3>1. /\ DOMAIN categories' = DOMAIN categories \cup {n} /\ n \notin DOMAIN categories
              /\ categories'[n] = [percent |-> call.percent, from |-> call.from, to |-> Null,
                                   status |-> StatusFrom(call.from, call.asOf), prev |-> call.target]
              /\ \A i \in DOMAIN categories : i \notin ended => categories'[i] = categories[i]
              /\ \A i \in DOMAIN categories : i \in ended => categories'[i].status = "SUPERSEDED"
              /\ decided' = IF call.from <= call.asOf
                            THEN [decided EXCEPT !.category = call.percent] ELSE decided
            BY <1>3, <2>2, CategoryTable
        <3>2. call.from <= call.asOf /\ categories'[n].status = "ACTIVE"
            BY <3>1 DEF NoneScheduled, StatusFrom
        <3>3. NoneScheduled
            <4>1. \A i \in ended : categories[i].status = "ACTIVE"
                BY <1>1, <1>3 DEF CategoryTarget, ActiveIn
            <4> QED BY <3>1, <4>1 DEF NoneScheduled
        <3>4. \A i \in ActiveIn(categories) : i \in ended
            <4>1. \A i \in ActiveIn(categories) : i = call.target /\ i # 0
                <5>1. 0 \notin DOMAIN categories
                    BY LenProperties DEF Shape
                <5> QED BY <1>1, <3>3, <5>1 DEF DecisionKnown, CategoryKnown, ActiveIn
            <4> QED BY <3>2, <4>1
        <3>5. \A i \in ActiveIn(categories') : i = n
            BY <3>1, <3>4 DEF ActiveIn
        <3>6. n \in ActiveIn(categories')
            BY <3>1, <3>2 DEF ActiveIn
        <3>7. decided'.category = call.percent
            BY <3>1, <3>2 DEF DecidedShape
        <3> QED BY <3>1, <3>5, <3>6, <3>7 DEF Carries
    <2> QED BY <2>1, <2>2
<1>6. \A p \in Projects : Carries(overrides'[p], decided'.project[p])
    BY <1>1, <1>4 DEF DecisionKnown
<1>7. DecidedShape'
    BY <1>1, <1>2, <1>4 DEF DecidedShape
<1>8. \A s \in Requests : CategoryTarget(req[s])'
    BY <1>2 DEF CategoryTarget
<1> QED BY <1>2, <1>5, <1>6, <1>7, <1>8 DEF DecisionKnown

LEMMA BeginDecides ==
    ASSUME Shape, DecidedShape, DecisionKnown, NEW r \in Requests, DecisionStep(r),
           BeginCategory(r) \/ BeginOverride(r) \/ FindOverrides(r) \/ BeginEndOverride(r)
    PROVE  DecisionKnown' /\ DecidedShape'
<1>1. /\ UNCHANGED <<categories, overrides, decided>> /\ \A s \in Requests \ {r} : req'[s] = req[s]
      /\ DOMAIN req = Requests /\ DOMAIN req[r] = DOMAIN Idle
    BY DEF DecisionStep, Moves, BeginCategory, BeginOverride, FindOverrides, BeginEndOverride,
           rateRows, Shape, CallShape
<1>2. /\ \A s \in Requests \ {r} : CategoryTarget(req[s])'
      /\ \A p \in Projects : Carries(overrides'[p], decided'.project[p])
      /\ NoneScheduled' => Carries(categories', decided'.category)
    BY <1>1 DEF DecisionKnown, CategoryTarget, CategoryKnown, NoneScheduled
<1>3. CASE BeginCategory(r)
    <2>1. PICK percent \in OrNull(Percents), from \in 0..workload.days,
               current \in FirstOr0(Latest(categories, Current(categories, now))) :
              req' = [req EXCEPT ![r] = [Idle EXCEPT !.op = "CATEGORY", !.pc = "commit", !.percent = percent,
                        !.from = from, !.asOf = now, !.target = current]]
        BY <1>3 DEF BeginCategory
    <2>2. req'[r].op = "CATEGORY" /\ req'[r].target = current
        BY <1>1, <2>1 DEF Idle
    <2>3. CategoryTarget(req[r])'
        BY <1>1, <2>2 DEF CategoryTarget, FirstOr0, Latest, Current, ActiveIn
    <2>4. ASSUME NoneScheduled PROVE \A i \in ActiveIn(categories) : i = current
        <3> SUFFICES ASSUME NEW i \in ActiveIn(categories) PROVE i = current
            OBVIOUS
        <3>1. \A j \in ActiveIn(categories) : j = i
            BY <2>4 DEF DecisionKnown, CategoryKnown, Carries
        <3>2. Current(categories, now) = {i}
            BY <2>4, <3>1 DEF DecisionKnown, CategoryKnown, Carries, Current, ActiveIn, Unexpired
        <3>3. categories[i].from \in Int
            <4>1. categories[i] \in CategoryRow
                BY RowIn DEF ActiveIn, Shape
            <4> QED BY <4>1, DatesInt DEF CategoryRow
        <3>4. Latest(categories, Current(categories, now)) = {i}
            BY <3>2, <3>3 DEF Latest
        <3> QED BY <3>4 DEF FirstOr0
    <2>5. NoneScheduled' => CategoryKnown'
        BY <1>1, <1>2, <2>2, <2>4 DEF NoneScheduled, CategoryKnown, DecisionKnown
    <2> QED BY <1>1, <1>2, <2>2, <2>3, <2>5 DEF DecisionKnown, DecidedShape
<1>4. CASE BeginOverride(r)
    <2>1. req'[r].op = "OVERRIDE" /\ req'[r].pc = "find"
        BY ZenonT(30), <1>1, <1>4 DEF BeginOverride, Idle
    <2>2. CategoryTarget(req[r])'
        BY <2>1 DEF CategoryTarget
    <2> QED BY <1>1, <1>2, <2>1, <2>2 DEF DecisionKnown, DecidedShape, CategoryKnown, NoneScheduled
<1>5. CASE FindOverrides(r)
    <2>1. /\ req'[r].op = "OVERRIDE" /\ req'[r].project = req[r].project
          /\ req'[r].seen = ActiveIn(overrides[req[r].project])
        BY <1>1, <1>5 DEF FindOverrides, At, Idle, ActiveIn
    <2>2. CategoryTarget(req[r])'
        BY <2>1 DEF CategoryTarget
    <2> QED BY <1>1, <1>2, <2>1, <2>2 DEF DecisionKnown, DecidedShape, CategoryKnown, NoneScheduled
<1>6. CASE BeginEndOverride(r)
    <2>1. /\ req'[r].op = "END_OVERRIDE" /\ req'[r].project \in Projects
          /\ req'[r].target \in DOMAIN overrides[req'[r].project]
        <3>1. PICK p \in Projects : \E i \in DOMAIN overrides[p] :
                req' = [req EXCEPT ![r] = [Idle EXCEPT !.op = "END_OVERRIDE", !.pc = "commit",
                           !.project = p, !.target = i]]
            BY <1>6 DEF BeginEndOverride
        <3> QED BY <1>1, <3>1 DEF Idle
    <2>2. CategoryTarget(req[r])'
        BY <2>1 DEF CategoryTarget
    <2> QED BY <1>1, <1>2, <2>1, <2>2 DEF DecisionKnown, DecidedShape, CategoryKnown, NoneScheduled
<1> QED BY <1>3, <1>4, <1>5, <1>6

\* What a decision about one project leaves of the rest.
LEMMA OneProject ==
    ASSUME Shape, TurnsInv, DecidedShape, DecisionKnown, Sequential, NEW r \in Requests,
           NEW p \in Projects, NEW decision,
           req[r].op # "none", req'[r].op = "none", Moves(r), categories' = categories,
           \A q \in Projects \ {p} : overrides'[q] = overrides[q],
           \/ decided' = [decided EXCEPT !.project[p] = decision]
           \/ decided' = decided /\ decision = decided.project[p],
           \A i \in DOMAIN overrides'[p] : overrides'[p][i].status # "SCHEDULED",
           Carries(overrides'[p], decision)
    PROVE  DecisionKnown' /\ DecidedShape'
<1>1. \A s \in Requests : req'[s].op = "none"
    BY OneCall DEF Moves
<1>2. /\ DOMAIN decided' = {"category", "project"} /\ DOMAIN decided'.project = Projects
      /\ decided'.category = decided.category /\ decided'.project[p] = decision
      /\ \A q \in Projects \ {p} : decided'.project[q] = decided.project[q]
    BY DEF DecidedShape
<1>3. \A q \in Projects : Carries(overrides'[q], decided'.project[q])
    BY <1>2 DEF DecisionKnown
<1>4. NoneScheduled' => CategoryKnown'
    BY <1>1, <1>2 DEF DecisionKnown, CategoryKnown, NoneScheduled
<1>5. DecidedShape'
    BY <1>1, <1>2 DEF DecidedShape
<1>6. \A s \in Requests : CategoryTarget(req[s])'
    BY <1>1 DEF CategoryTarget
<1> QED BY <1>1, <1>3, <1>4, <1>5, <1>6 DEF DecisionKnown

LEMMA OverrideRows ==
    ASSUME Shape, NEW p \in Projects, NEW day \in Dates
    PROVE  /\ overrides[p] \in Seq(OverrideRow)
           /\ \A old \in OverrideRow : /\ Superseded(old, day) \in OverrideRow
                                       /\ Superseded(old, day).status = "SUPERSEDED"
BY DEF Shape, OverrideRow, PolicyStatus, Superseded

LEMMA CommitOverrideDecides ==
    ASSUME Shape, TurnsInv, DecidedShape, DecisionKnown, Sequential,
           NEW r \in Requests, DecisionStep(r), CommitOverride(r)
    PROVE  DecisionKnown' /\ DecidedShape'
<1> DEFINE call == req[r]
           p == call.project
           rows == overrides[p]
           row == [percent |-> call.percent, from |-> call.from, to |-> Null, status |-> "ACTIVE"]
           n == Len(rows) + 1
<1>1. /\ call.op = "OVERRIDE" /\ call.pc = "commit" /\ CallShape(call) /\ Moves(r)
      /\ req'[r].op = "none" /\ categories' = categories
    BY EndsMoves DEF CommitOverride, At, Shape, DecisionStep
<1>2. p \in Projects /\ row \in OverrideRow /\ call.from \in Dates
    BY <1>1, DatesInt DEF CallShape, OverrideRow, PolicyStatus
<1>3. /\ overrides'[p] = Append(Supersede(rows, call.seen, call.from), row)
      /\ \A q \in Projects \ {p} : overrides'[q] = overrides[q]
    BY <1>2 DEF CommitOverride, Shape
<1>4. /\ DOMAIN overrides'[p] = DOMAIN rows \cup {n} /\ n \notin DOMAIN rows
      /\ overrides'[p][n] = row
      /\ \A i \in DOMAIN rows : i \notin call.seen => overrides'[p][i] = rows[i]
      /\ \A i \in DOMAIN rows : i \in call.seen => overrides'[p][i].status = "SUPERSEDED"
    <2> DEFINE table == Supersede(rows, call.seen, call.from)
    <2>1. /\ rows \in Seq(OverrideRow)
          /\ \A old \in OverrideRow : /\ Superseded(old, call.from) \in OverrideRow
                                      /\ Superseded(old, call.from).status = "SUPERSEDED"
        BY <1>2, OverrideRows
    <2>2. table \in Seq(OverrideRow) /\ Len(table) = Len(rows) /\ DOMAIN table = DOMAIN rows
        BY <2>1, SupersedeRows
    <2>3. \A i \in DOMAIN rows :
            table[i] = IF i \in call.seen THEN Superseded(rows[i], call.from) ELSE rows[i]
        BY DEF Supersede, Superseded
    <2>4. \A i \in DOMAIN rows : rows[i] \in OverrideRow
        BY <2>1, RowIn
    <2>5. /\ DOMAIN overrides'[p] = DOMAIN rows \cup {n} /\ n \notin DOMAIN rows
          /\ overrides'[p][n] = row
          /\ \A i \in DOMAIN rows : overrides'[p][i] = table[i]
        <3>1. overrides'[p] = Append(table, row) /\ row \in OverrideRow
            BY <1>2, <1>3
        <3>2. /\ DOMAIN overrides'[p] = 1..n /\ DOMAIN rows = 1..Len(rows) /\ Len(rows) \in Nat
              /\ overrides'[p][n] = row
              /\ \A i \in DOMAIN rows : overrides'[p][i] = table[i]
            <4> HIDE DEF table, row, rows
            <4> QED BY <2>2, <3>1, AppendRow
        <3> QED BY ONLY <3>2
    <2> QED BY <2>1, <2>3, <2>4, <2>5
<1>5. ActiveIn(rows) \subseteq call.seen
    BY <1>1 DEF DecisionKnown
<1>6. \A i \in ActiveIn(overrides'[p]) : i = n
    BY <1>4, <1>5 DEF ActiveIn
<1>7. n \in ActiveIn(overrides'[p])
    BY <1>4 DEF ActiveIn
<1>8. Carries(overrides'[p], call.percent)
    BY <1>4, <1>6, <1>7 DEF Carries
<1>9. \A i \in DOMAIN overrides'[p] : overrides'[p][i].status # "SCHEDULED"
    BY <1>2, <1>4 DEF DecidedShape
<1>10. decided' = [decided EXCEPT !.project[p] = call.percent]
    BY DEF CommitOverride
<1> HIDE DEF p, rows
<1> QED BY <1>1, <1>2, <1>3, <1>8, <1>9, <1>10, OneProject

LEMMA CommitEndDecides ==
    ASSUME Shape, TurnsInv, DecidedShape, DecisionKnown, Sequential,
           NEW r \in Requests, DecisionStep(r), CommitEndOverride(r)
    PROVE  DecisionKnown' /\ DecidedShape'
<1> DEFINE call == req[r]
           p == call.project
           rows == overrides[p]
           i0 == call.target
           decision == IF rows[i0].status = "ACTIVE" THEN Null ELSE decided.project[p]
<1>1. /\ call.op = "END_OVERRIDE" /\ Moves(r) /\ req'[r].op = "none" /\ categories' = categories
    BY EndsMoves DEF CommitEndOverride, At, DecisionStep
<1>2. p \in Projects /\ i0 \in DOMAIN rows /\ now \in Dates
    BY <1>1, DatesInt DEF DecidedShape, Shape
<1>3. /\ overrides'[p] = Supersede(rows, {i0}, now)
      /\ \A q \in Projects \ {p} : overrides'[q] = overrides[q]
    BY <1>2 DEF CommitEndOverride, Shape
<1>4. /\ DOMAIN overrides'[p] = DOMAIN rows
      /\ overrides'[p][i0].status = "SUPERSEDED"
      /\ \A i \in DOMAIN rows \ {i0} : overrides'[p][i] = rows[i]
    <2>1. \A i \in DOMAIN rows : rows[i] \in OverrideRow
        BY <1>2, OverrideRows, RowIn
    <2>2. \A i \in DOMAIN rows : overrides'[p][i] = IF i = i0 THEN Superseded(rows[i], now) ELSE rows[i]
        BY <1>3 DEF Supersede, Superseded
    <2>3. DOMAIN overrides'[p] = DOMAIN rows
        BY <1>3 DEF Supersede
    <2> QED BY <1>2, <2>1, <2>2, <2>3, OverrideRows
<1>5. /\ \A i \in DOMAIN overrides'[p] : overrides'[p][i].status # "SCHEDULED"
    BY <1>2, <1>4 DEF DecidedShape
<1>6. Carries(rows, decided.project[p])
    BY <1>2 DEF DecisionKnown
<1>7. Carries(overrides'[p], decision)
    <2>1. \A i : i \in ActiveIn(overrides'[p]) <=> i \in ActiveIn(rows) /\ i # i0
        BY <1>2, <1>4 DEF ActiveIn
    <2>2. CASE rows[i0].status = "ACTIVE"
        <3>1. i0 \in ActiveIn(rows)
            BY <1>2, <2>2 DEF ActiveIn
        <3>2. ActiveIn(overrides'[p]) = {}
            BY <1>6, <2>1, <3>1 DEF Carries
        <3> QED BY <2>2, <3>2 DEF Carries
    <2>3. CASE rows[i0].status # "ACTIVE"
        <3>1. ActiveIn(overrides'[p]) = ActiveIn(rows)
            BY <2>1, <2>3 DEF ActiveIn
        <3>2. \A i \in ActiveIn(rows) : overrides'[p][i] = rows[i]
            BY <1>4, <2>3 DEF ActiveIn
        <3> QED BY <1>6, <2>3, <3>1, <3>2 DEF Carries
    <2> QED BY <2>2, <2>3
<1>8. \/ decided' = [decided EXCEPT !.project[p] = decision]
      \/ decided' = decided /\ decision = decided.project[p]
    BY DEF CommitEndOverride
<1> HIDE DEF p, rows, decision
<1> QED BY <1>1, <1>2, <1>3, <1>5, <1>7, <1>8, OneProject


LEMMA DecisionNext == Shape /\ TurnsInv /\ DecisionInv /\ [Next]_vars => DecisionInv'
<1> SUFFICES ASSUME Shape, TurnsInv, DecisionInv, [Next]_vars, Sequential'
             PROVE  DecidedShape' /\ DecisionKnown'
    BY DEF DecisionInv
<1>1. Sequential
    BY DecisionSteps DEF UndecidedStep, DecisionStep, Sequential
<1>2. DecidedShape /\ DecisionKnown
    BY <1>1 DEF DecisionInv
<1>3. CASE UndecidedStep
    <2>1. DecidedShape'
        BY <1>2, <1>3 DEF UndecidedStep, DecisionOps, DecidedShape
    <2>2. \A s \in Requests : CategoryTarget(req[s])'
        BY <1>2, <1>3 DEF UndecidedStep, DecisionOps, DecisionKnown, CategoryTarget
    <2>3. NoneScheduled' => CategoryKnown'
        BY <1>2, <1>3 DEF UndecidedStep, DecisionOps, DecisionKnown, NoneScheduled, CategoryKnown
    <2> QED BY <1>2, <1>3, <2>1, <2>2, <2>3 DEF UndecidedStep, DecisionOps, DecisionKnown
<1>4. ASSUME NEW r \in Requests, DecisionStep(r) PROVE DecidedShape' /\ DecisionKnown'
    BY <1>1, <1>2, <1>4, CommitCategoryDecides, BeginDecides, CommitOverrideDecides,
       CommitEndDecides DEF DecisionStep
<1> QED BY <1>3, <1>4, DecisionSteps

\* A table whose ACTIVE row carries a decision answers with it.
LEMMA CarriedIn ==
    ASSUME NEW rows, NEW decision, Carries(rows, decision),
           \A i \in DOMAIN rows : rows[i].status # "SCHEDULED" /\ rows[i].from \in Int
    PROVE  InForce(rows, now) = ActiveIn(rows) /\ Latest(rows, ActiveIn(rows)) = ActiveIn(rows)
<1>1. Due(rows, now) = {}
    BY DEF Due
<1>2. Current(rows, now) = ActiveIn(rows)
    BY DEF Carries, Current, ActiveIn, Unexpired
<1>3. \A i, j \in ActiveIn(rows) : rows[j].from <= rows[i].from
    BY DEF Carries, ActiveIn
<1> QED BY <1>1, <1>2, <1>3 DEF InForce, Latest

\* While no change of the category is scheduled, an escrow resolves the
\* project's own percentage, else the category's, else the platform's, as long
\* as calls take turns (resolveForProject, setProjectOverride,
\* endProjectOverride, setCategoryCommission).
THEOREM SpecResolvesDecision == Spec => []ResolvesDecision
<1>1. Shape /\ DecisionInv => ResolvesDecision
    <2> SUFFICES ASSUME Shape, DecisionInv, Sequential, NoneScheduled, NEW p \in Projects,
                        NEW t \in Resolved(p)
                 PROVE  t.percent \in IF decided.project[p] # Null THEN {decided.project[p]}
                                      ELSE IF decided.category # Null THEN {decided.category}
                                      ELSE {platform.percent : platform \in PlatformTerms}
        BY DEF ResolvesDecision, NoneScheduled
    <2>1. /\ Carries(overrides[p], decided.project[p]) /\ Carries(categories, decided.category)
          /\ \A i \in DOMAIN overrides[p] : overrides[p][i].status # "SCHEDULED"
        BY DEF DecisionInv, DecisionKnown, CategoryKnown, DecidedShape
    <2>2. /\ \A i \in DOMAIN overrides[p] : overrides[p][i] \in OverrideRow
          /\ \A i \in DOMAIN categories : categories[i] \in CategoryRow
        BY RowIn DEF Shape
    <2>3. /\ \A i \in DOMAIN overrides[p] : overrides[p][i].from \in Int /\ overrides[p][i].percent # Null
          /\ \A i \in DOMAIN categories : categories[i].from \in Int
        <3>1. Percents \subseteq Nat /\ Null \notin Nat /\ Days \subseteq Int
            BY DatesInt, RatesAssumption DEF Percentages, Null
        <3> QED BY <2>2, <3>1 DEF OverrideRow, CategoryRow
    <2>4. /\ InForce(overrides[p], now) = ActiveIn(overrides[p])
          /\ Latest(overrides[p], ActiveIn(overrides[p])) = ActiveIn(overrides[p])
        BY <2>1, <2>3, CarriedIn
    <2>5. InForce(categories, now) = ActiveIn(categories)
        BY <2>1, <2>3, CarriedIn DEF NoneScheduled
    <2>6. OverridePercents(p) = IF decided.project[p] # Null THEN {decided.project[p]} ELSE {}
        <3>1. OverridePercents(p) = {overrides[p][i].percent : i \in ActiveIn(overrides[p])}
            BY <2>4 DEF OverridePercents
        <3>2. CASE decided.project[p] # Null
            BY <2>1, <3>1, <3>2 DEF Carries
        <3>3. CASE decided.project[p] = Null
            <4>1. ActiveIn(overrides[p]) = {}
                BY <2>1, <2>3, <3>3 DEF Carries, ActiveIn
            <4> QED BY <3>1, <3>3, <4>1
        <3> QED BY <3>2, <3>3
    <2>7. CategoryPercents = IF decided.category # Null THEN {decided.category} ELSE {}
        <3> DEFINE set == {i \in ActiveIn(categories) : categories[i].percent # Null}
        <3>1. CategoryPercents = {categories[i].percent : i \in Latest(categories, set)}
            BY <2>5 DEF CategoryPercents
        <3>2. CASE decided.category # Null
            <4>1. set = ActiveIn(categories)
                BY <2>1, <3>2 DEF Carries
            <4>2. Latest(categories, set) = ActiveIn(categories)
                BY <2>1, <2>3, <4>1, CarriedIn DEF NoneScheduled
            <4> QED BY <2>1, <3>1, <3>2, <4>2 DEF Carries
        <3>3. CASE decided.category = Null
            <4>1. set = {}
                BY <2>1, <3>3 DEF Carries
            <4> QED BY <3>1, <3>3, <4>1 DEF Latest
        <3> QED BY <3>2, <3>3
    <2>8. PICK platform \in PlatformTerms :
            LET overriding == IF OverridePercents(p) # {} THEN OverridePercents(p)
                                                          ELSE CategoryPercents
            IN \E percent \in IF overriding = {} THEN {platform.percent} ELSE overriding :
                  t = [platform EXCEPT !.percent = percent]
        BY DEF Resolved
    <2>9. platform \in [percent: Percentages, min: OrNull(Nat), max: OrNull(Nat)]
        <3>1. \A i \in DOMAIN policies : policies[i] \in PolicyRow
            BY RowIn DEF Shape
        <3>2. PlatformTerms \subseteq Terms
            BY <3>1, RatesAssumption
               DEF PolicyRow, PlatformTerms, Latest, InForce, Current, Due, Fallback
        <3> QED BY <3>2, RatesAssumption
    <2>10. \A percent : [platform EXCEPT !.percent = percent].percent = percent
        BY <2>9
    <2> QED BY <2>6, <2>7, <2>8, <2>10
<1>2. CommercialInv => Shape
    BY DEF CommercialInv
<1> QED BY InitTurns, TurnsKept, InitDecision, DecisionNext, CommercialInvariant, <1>1, <1>2, PTL DEF Spec

-----------------------------------------------------------------------------
(***************************************************************************)
(* Types and bounds                                                        *)
(***************************************************************************)
\* A table of versions within its bound, each row of which follows one.
Bounded(rows) == /\ Len(rows) <= MaxVersions
                 /\ \A i \in DOMAIN rows : rows[i].prev \in 0..MaxVersions

VersionsBounded ==
    /\ Bounded(policies) /\ Bounded(categories)
    /\ \A p \in Projects : Len(overrides[p]) <= MaxVersions
    /\ \A r \in Requests : req[r].op \in {"PLATFORM", "CATEGORY"} => req[r].target \in 0..MaxVersions

\* How a step changes the tables and the calls that follow their rows.
LEMMA TableSteps ==
    ASSUME Shape, [Next]_vars
    PROVE  /\ workload' = workload
           /\ policies' = policies \/ \E r \in Requests : CommitPlatform(r)
           /\ categories' = categories \/ \E r \in Requests : CommitCategory(r)
           /\ overrides' = overrides \/ \E r \in Requests : CommitOverride(r) \/ CommitEndOverride(r)
           /\ \A r \in Requests : req'[r].op \in {"PLATFORM", "CATEGORY"} =>
                 req'[r] = req[r] \/ BeginPlatform(r) \/ BeginCategory(r)
<1>1. CASE UNCHANGED vars
    BY <1>1 DEF vars, rateRows
<1>2. ASSUME NEW r \in Requests, RateCall(r), workload' = workload
      PROVE  /\ policies' = policies \/ CommitPlatform(r)
             /\ categories' = categories \/ CommitCategory(r)
             /\ overrides' = overrides \/ CommitOverride(r) \/ CommitEndOverride(r)
             /\ \A s \in Requests : req'[s].op \in {"PLATFORM", "CATEGORY"} =>
                   req'[s] = req[s] \/ BeginPlatform(s) \/ BeginCategory(s)
    <2>1. \A s \in Requests \ {r} : req'[s] = req[s]
        BY <1>2, RateMoves DEF Moves
    <2>2. DOMAIN req = Requests /\ DOMAIN req[r] = DOMAIN Idle
        BY DEF Shape, CallShape
    <2>3. CASE CommitPlatform(r) \/ CommitCategory(r) \/ CommitOverride(r) \/ CommitEndOverride(r)
        <3>1. req'[r].op = "none"
            BY <2>3, EndsMoves DEF CommitPlatform, CommitCategory, CommitOverride, CommitEndOverride
        <3>2. /\ policies' = policies \/ CommitPlatform(r)
              /\ categories' = categories \/ CommitCategory(r)
              /\ overrides' = overrides \/ CommitOverride(r) \/ CommitEndOverride(r)
            BY <2>3 DEF CommitPlatform, CommitCategory, CommitOverride, CommitEndOverride
        <3> QED BY <2>1, <3>1, <3>2
    <2>4. CASE BeginPlatform(r) \/ BeginCategory(r)
        <3>1. UNCHANGED rateRows
            BY <2>4 DEF BeginPlatform, BeginCategory
        <3>2. \A s \in Requests : req'[s] = req[s] \/ BeginPlatform(s) \/ BeginCategory(s)
            BY <2>1, <2>4
        <3> QED BY <3>1, <3>2 DEF rateRows
    <2>5. CASE BeginOverride(r) \/ BeginEndOverride(r) \/ FindOverrides(r)
        <3>1. UNCHANGED rateRows
            BY <2>5 DEF BeginOverride, BeginEndOverride, FindOverrides
        <3>2. req'[r].op \in {"OVERRIDE", "END_OVERRIDE"}
            <4>1. CASE BeginOverride(r)
                BY <2>2, <4>1 DEF BeginOverride, Idle
            <4>2. CASE BeginEndOverride(r)
                BY <2>2, <4>2 DEF BeginEndOverride, Idle
            <4>3. CASE FindOverrides(r)
                BY <2>2, <4>3 DEF FindOverrides, At, Idle
            <4> QED BY <2>5, <4>1, <4>2, <4>3
        <3> QED BY <2>1, <3>1, <3>2 DEF rateRows
    <2> QED BY <1>2, <2>3, <2>4, <2>5 DEF RateCall
<1>3. ASSUME NEW r \in Requests, LedgerCall(r) \/ SettleCall(r), UNCHANGED <<workload, rateRows>>
      PROVE  \A s \in Requests : req'[s].op \in {"PLATFORM", "CATEGORY"} => req'[s] = req[s]
    <2>1. \A s \in Requests \ {r} : req'[s] = req[s]
        BY <1>3, LedgerMoves, SettleMoves DEF Moves
    <2>2. req'[r].op \notin {"PLATFORM", "CATEGORY"}
        BY <1>3, LedgerOps, LedgerMoves, SettleMoves DEF DecisionOps
    <2> QED BY <2>1, <2>2
<1>4. CASE UNCHANGED <<workload, rateRows, req>>
    BY <1>4 DEF rateRows
<1> QED BY <1>1, <1>2, <1>3, <1>4
        DEF Next, rateRows, Prepare, CreatePayout, FinalizeStatement, NextDay

\* A row that is appended to a table below its bound keeps it bounded.
LEMMA AppendBounded ==
    ASSUME NEW S, NEW old, NEW rows \in Seq(S), NEW row \in S, Bounded(old), old \in Seq(S),
           Len(rows) = Len(old), Len(old) < workload.versions, Shape,
           \A i \in DOMAIN old : rows[i].prev = old[i].prev,
           row.prev \in 0..MaxVersions
    PROVE  Bounded(Append(rows, row))
<1>1. workload.versions <= MaxVersions /\ workload.versions \in Nat /\ MaxVersions \in Nat
    BY WorkloadBounds, RatesAssumption
<1>2. Len(rows) \in Nat /\ DOMAIN rows = 1..Len(rows) /\ DOMAIN old = 1..Len(old)
    BY LenProperties
<1>3. Len(Append(rows, row)) = Len(rows) + 1
    BY AppendProperties
<1>4. /\ DOMAIN Append(rows, row) = 1..Len(rows) + 1
      /\ Append(rows, row)[Len(rows) + 1] = row
      /\ \A i \in DOMAIN rows : Append(rows, row)[i] = rows[i]
    BY AppendRow
<1>5. \A i \in 1..Len(rows) + 1 : i = Len(rows) + 1 \/ i \in 1..Len(rows)
    BY <1>2
<1>6. \A i \in DOMAIN Append(rows, row) : Append(rows, row)[i].prev \in 0..MaxVersions
    BY <1>2, <1>4, <1>5 DEF Bounded
<1> QED BY <1>1, <1>2, <1>3, <1>6 DEF Bounded

LEMMA SupersededPrev ==
    ASSUME NEW rows, NEW ids, NEW day
    PROVE  \A i \in DOMAIN rows : Supersede(rows, ids, day)[i].prev = rows[i].prev
BY DEF Supersede

LEMMA VersionsNext == Shape /\ PolicyInv /\ VersionsBounded /\ [Next]_vars => VersionsBounded'
<1> SUFFICES ASSUME Shape, PolicyInv, VersionsBounded, [Next]_vars PROVE VersionsBounded'
    OBVIOUS
<1>0. workload.versions <= MaxVersions /\ workload.versions \in Nat /\ MaxVersions \in Nat
    BY WorkloadBounds, RatesAssumption
<1>1. ASSUME NEW r \in Requests, CommitPlatform(r) PROVE Bounded(policies')
    <2> DEFINE call == req[r]
               row == [terms |-> call.terms, from |-> call.from, to |-> Null,
                       status |-> StatusFrom(call.from, call.asOf), prev |-> call.target]
    <2>1. call.op = "PLATFORM" /\ CallShape(call) /\ call.target \in 0..MaxVersions
        BY <1>1 DEF CommitPlatform, At, Shape, VersionsBounded
    <2>2. row \in PolicyRow
        BY <2>1, <1>0, DatesInt DEF CallShape, PolicyRow, StatusFrom, PolicyStatus
    <2>3. \A i \in DOMAIN policies : PolicyRows(call)[i].prev = policies[i].prev
        BY DEF PolicyRows, Supersede
    <2>4. CASE policies' = policies
        BY <2>4 DEF VersionsBounded
    <2>5. CASE policies' = Append(PolicyRows(call), row) /\ Len(policies) < workload.versions
        <3>1. PolicyRows(call) \in Seq(PolicyRow) /\ Len(PolicyRows(call)) = Len(policies)
            BY <2>1, PolicyRowsShape
        <3>2. policies \in Seq(PolicyRow) /\ Bounded(policies) /\ row.prev \in 0..MaxVersions
            BY <2>1 DEF Shape, VersionsBounded
        <3> HIDE DEF row, call
        <3> QED BY <2>2, <2>3, <2>5, <3>1, <3>2, AppendBounded
    <2> QED BY <1>1, <2>4, <2>5 DEF CommitPlatform
<1>2. ASSUME NEW r \in Requests, CommitCategory(r) PROVE Bounded(categories')
    <2> DEFINE call == req[r]
               row == [percent |-> call.percent, from |-> call.from, to |-> Null,
                       status |-> StatusFrom(call.from, call.asOf), prev |-> call.target]
    <2>1. call.op = "CATEGORY" /\ CallShape(call) /\ call.target \in 0..MaxVersions
        BY <1>2 DEF CommitCategory, At, Shape, VersionsBounded
    <2>2. row \in CategoryRow /\ call.from \in Dates
        BY <2>1, DatesInt DEF CallShape, CategoryRow, StatusFrom, PolicyStatus
    <2>3. \A i \in DOMAIN categories : CategoryRows(call)[i].prev = categories[i].prev
        BY DEF CategoryRows, Supersede
    <2>4. CASE categories' = categories
        BY <2>4 DEF VersionsBounded
    <2>5. CASE categories' = Append(CategoryRows(call), row) /\ Len(categories) < workload.versions
        <3>1. categories \in Seq(CategoryRow) /\ Bounded(categories) /\ row.prev \in 0..MaxVersions
            BY <2>1 DEF Shape, VersionsBounded
        <3>2. \A old \in CategoryRow : Superseded(old, call.from) \in CategoryRow
            BY <2>2 DEF CategoryRow, PolicyStatus, Superseded
        <3>3. CategoryRows(call) \in Seq(CategoryRow) /\ Len(CategoryRows(call)) = Len(categories)
            BY <3>1, <3>2, SupersedeRows DEF CategoryRows
        <3> HIDE DEF row, call
        <3> QED BY <2>2, <2>3, <2>5, <3>1, <3>3, AppendBounded
    <2> QED BY <1>2, <2>4, <2>5 DEF CommitCategory
<1>3. ASSUME NEW r \in Requests, CommitOverride(r) \/ CommitEndOverride(r)
      PROVE  \A p \in Projects : Len(overrides'[p]) <= MaxVersions
    <2> DEFINE call == req[r]
               rows == overrides[call.project]
    <2>1. CallShape(call) /\ call.project \in Projects /\ now \in Dates
        BY <1>3, DatesInt DEF CommitOverride, CommitEndOverride, At, Shape, CallShape
    <2>2. rows \in Seq(OverrideRow) /\ overrides \in [Projects -> Seq(OverrideRow)]
        BY <2>1 DEF Shape
    <2>3. \A day \in Dates : \A old \in OverrideRow : Superseded(old, day) \in OverrideRow
        BY DEF OverrideRow, PolicyStatus, Superseded
    <2>4. CASE CommitOverride(r)
        <3> DEFINE row == [percent |-> call.percent, from |-> call.from, to |-> Null, status |-> "ACTIVE"]
                   kept == Supersede(rows, call.seen, call.from)
        <3>1. row \in OverrideRow /\ call.from \in Dates
            BY <2>1, <2>4, DatesInt DEF CommitOverride, At, CallShape, OverrideRow, PolicyStatus
        <3>2. kept \in Seq(OverrideRow) /\ Len(kept) = Len(rows)
            BY <2>2, <2>3, <3>1, SupersedeRows
        <3>3. Len(Append(kept, row)) = Len(rows) + 1 /\ Len(rows) \in Nat
            <4> HIDE DEF kept, row, rows
            <4> QED BY <2>2, <3>1, <3>2, AppendProperties, LenProperties
        <3>4. Len(rows) < workload.versions /\ overrides' = [overrides EXCEPT ![call.project] = Append(kept, row)]
            BY <2>4 DEF CommitOverride
        <3> HIDE DEF kept, row, rows, call
        <3> QED BY <1>0, <2>1, <2>2, <3>3, <3>4 DEF VersionsBounded
    <2>5. CASE CommitEndOverride(r)
        <3> DEFINE kept == Supersede(rows, {call.target}, now)
        <3>1. kept \in Seq(OverrideRow) /\ Len(kept) = Len(rows)
            BY <2>1, <2>2, <2>3, SupersedeRows
        <3>2. overrides' = [overrides EXCEPT ![call.project] = kept]
            BY <2>5 DEF CommitEndOverride
        <3>3. Len(rows) <= MaxVersions
            BY <2>1 DEF VersionsBounded
        <3> HIDE DEF kept, call
        <3> QED BY <2>1, <2>2, <3>1, <3>2, <3>3 DEF VersionsBounded
    <2> QED BY <1>3, <2>4, <2>5
<1>4. \A r \in Requests : req'[r].op \in {"PLATFORM", "CATEGORY"} => req'[r].target \in 0..MaxVersions
    <2>1. DOMAIN req = Requests
        BY DEF Shape
    <2>2. {0} \cup DOMAIN policies \cup DOMAIN categories \subseteq 0..MaxVersions
        <3>1. /\ DOMAIN policies = 1..Len(policies) /\ Len(policies) \in Nat
              /\ DOMAIN categories = 1..Len(categories) /\ Len(categories) \in Nat
            BY LenProperties DEF Shape
        <3>2. Len(policies) <= MaxVersions /\ Len(categories) <= MaxVersions
            BY DEF VersionsBounded, Bounded
        <3> QED BY <1>0, <3>1, <3>2
    <2>3. ASSUME NEW r \in Requests, BeginPlatform(r) PROVE req'[r].target \in 0..MaxVersions
        <3>1. PICK t \in Terms, from \in 0..workload.days,
                   current \in FirstOr0(Latest(policies, Current(policies, now))) :
              req' = [req EXCEPT ![r] = [Idle EXCEPT !.op = "PLATFORM", !.pc = "commit", !.terms = t,
                        !.from = from, !.asOf = now, !.target = current]]
            BY <2>3 DEF BeginPlatform
        <3>2. current \in {0} \cup DOMAIN policies
            BY DEF FirstOr0, Latest, Current
        <3> QED BY <2>1, <2>2, <3>1, <3>2 DEF Idle
    <2>4. ASSUME NEW r \in Requests, BeginCategory(r) PROVE req'[r].target \in 0..MaxVersions
        <3>1. PICK percent \in OrNull(Percents), from \in 0..workload.days,
                   current \in FirstOr0(Latest(categories, Current(categories, now))) :
              req' = [req EXCEPT ![r] = [Idle EXCEPT !.op = "CATEGORY", !.pc = "commit", !.percent = percent,
                        !.from = from, !.asOf = now, !.target = current]]
            BY <2>4 DEF BeginCategory
        <3>2. current \in {0} \cup DOMAIN categories
            BY DEF FirstOr0, Latest, Current
        <3> QED BY <2>1, <2>2, <3>1, <3>2 DEF Idle
    <2> QED BY <2>3, <2>4, TableSteps DEF VersionsBounded
<1> QED BY <1>1, <1>2, <1>3, <1>4, TableSteps DEF VersionsBounded

-----------------------------------------------------------------------------
SharesWhole == \A p \in Projects : escrows[p].fee \in Nat /\ escrows[p].payout \in Nat

\* Neither part of a split is negative: the fee is cut off at the amount.
LEMMA FeesWhole ==
    ASSUME NEW amount \in Nat, NEW percent \in Nat, NEW min \in OrNull(Nat), NEW max \in OrNull(Nat),
           NEW split \in Fees(amount, percent, min, max)
    PROVE  split.fee \in Nat /\ split.payout \in Nat
<1>1. PICK raw \in Nearest(amount * percent, Whole) :
          /\ split.fee = AtMost(AtMost(AtLeast(raw, min), max), amount)
          /\ split.payout = amount - split.fee
    BY DEF Fees
<1>2. amount * percent \in Nat
    OBVIOUS
<1>3. \A n \in Nat : n \div Whole \in Nat /\ n \div Whole + 1 \in Nat
    BY DEF Whole
<1>4. raw \in Nat
    BY <1>2, <1>3 DEF Nearest
<1>5. AtMost(AtLeast(raw, min), max) \in Nat
    BY <1>4 DEF AtMost, AtLeast, OrNull, Null
<1>6. split.fee \in 0..amount
    BY <1>1, <1>5 DEF AtMost, Null
<1> QED BY <1>1, <1>6

LEMMA EscrowSteps ==
    ASSUME Shape, [Next]_vars
    PROVE  \/ escrows' = escrows
           \/ \E p \in Projects : Prepare(p)
           \/ \E r \in Requests : CommitSettle(r)
<1>1. ASSUME NEW r \in Requests, RateCall(r) PROVE escrows' = escrows
    BY <1>1 DEF RateCall, BeginPlatform, CommitPlatform, BeginCategory, CommitCategory,
                BeginOverride, FindOverrides, CommitOverride, BeginEndOverride, CommitEndOverride
<1>2. ASSUME NEW r \in Requests, SettleCall(r) PROVE escrows' = escrows \/ CommitSettle(r)
    BY <1>2 DEF SettleCall, BeginSettle
<1> QED BY <1>1, <1>2 DEF Next, vars, NextDay

LEMMA SharesNext == Shape /\ SharesWhole /\ [Next]_vars => SharesWhole'
<1> SUFFICES ASSUME Shape, SharesWhole, [Next]_vars PROVE SharesWhole'
    OBVIOUS
<1>0. escrows \in [Projects -> EscrowRow]
    BY DEF Shape
<1>1. ASSUME NEW p \in Projects, Prepare(p) PROVE SharesWhole'
    <2>1. PICK t \in Resolved(p) :
            \E split \in Fees(workload.amount, t.percent, t.min, t.max) :
              escrows' = [escrows EXCEPT ![p] =
                             [status |-> "OPEN", fee |-> split.fee, payout |-> split.payout]]
        BY <1>1 DEF Prepare
    <2>2. PICK split \in Fees(workload.amount, t.percent, t.min, t.max) :
              escrows' = [escrows EXCEPT ![p] =
                             [status |-> "OPEN", fee |-> split.fee, payout |-> split.payout]]
        BY <2>1
    <2>3. PICK known \in Terms :
              t.min = known.min /\ t.max = known.max /\ t.percent \in Percents \cup {known.percent}
        BY ResolvedTerms
    <2>4. known \in [percent: Percentages, min: OrNull(Nat), max: OrNull(Nat)] /\ Percents \subseteq Percentages
        BY RatesAssumption
    <2>5. t.percent \in Nat /\ t.min \in OrNull(Nat) /\ t.max \in OrNull(Nat)
        <3>1. t.percent \in Percentages
            BY <2>3, <2>4
        <3>2. Percentages \subseteq Nat
            BY DEF Percentages, Whole
        <3> QED BY <2>3, <2>4, <3>1, <3>2
    <2>6. workload.amount \in Nat
        <3>1. workload \in [ops: SUBSET Operations, apart: SUBSET SUBSET Operations,
                           projects: SUBSET Projects, versions: 0..MaxVersions,
                           amount: Amounts, days: Days]
            BY RatesAssumption DEF Shape
        <3> QED BY <3>1, RatesAssumption
    <2>7. split.fee \in Nat /\ split.payout \in Nat
        BY <2>2, <2>5, <2>6, FeesWhole
    <2> QED BY <1>0, <2>2, <2>7 DEF SharesWhole
<1>2. ASSUME NEW r \in Requests, CommitSettle(r) PROVE SharesWhole'
    <2>1. /\ req[r].project \in Projects
          /\ escrows' = [escrows EXCEPT ![req[r].project].status = "RELEASED"]
        BY <1>2 DEF CommitSettle, At, Shape, CallShape
    <2>2. \A p \in Projects : escrows'[p].fee = escrows[p].fee /\ escrows'[p].payout = escrows[p].payout
        BY <1>0, <2>1 DEF EscrowRow
    <2> QED BY <2>2 DEF SharesWhole
<1> QED BY <1>1, <1>2, EscrowSteps DEF SharesWhole

-----------------------------------------------------------------------------
EndDates == OrNull(0..MaxTime + 1)

AgreementsEnd ==
    /\ \A i \in DOMAIN agreements : agreements[i].to \in EndDates /\ agreements[i].prev \in 0..MaxVersions
    /\ \A r \in Requests : req[r].op \in {"AGREEMENT", "REPLACEMENT"} => req[r].to \in EndDates

LEMMA DayEnds == Days \subseteq EndDates /\ \A day \in Days : day + 1 \in EndDates
BY RatesAssumption DEF EndDates, OrNull, Days

LEMMA BegunEnds ==
    ASSUME Shape, NEW r \in Requests, BeginAgreement(r)
    PROVE  req'[r].to \in EndDates
<1> DEFINE Found(op) == IF op = "AGREEMENT" THEN FirstOr0(Latest(agreements, Open(agreements)))
                                            ELSE DOMAIN agreements
<1>1. PICK op \in {"AGREEMENT", "REPLACEMENT"} :
        \E share \in Shares, cap \in Caps, from \in 0..workload.days :
           \E to \in {Null, from + 1}, prev \in Found(op) :
             req' = [req EXCEPT ![r] = [Idle EXCEPT !.op = op, !.pc = "commit", !.percent = share,
                        !.sum = cap, !.from = from, !.to = to, !.asOf = now, !.target = prev]]
    BY Zenon DEF BeginAgreement
<1> HIDE DEF Found
<1>2. \E from \in 0..workload.days : req'[r].to \in {Null, from + 1}
    BY <1>1 DEF Shape, Idle
<1> QED BY <1>2, DayRange, DayEnds DEF EndDates, OrNull

LEMMA EndsNext == Shape /\ LedgerShape /\ AgreementsEnd /\ [Next]_vars => AgreementsEnd'
<1> SUFFICES ASSUME Shape, LedgerShape, AgreementsEnd, [Next]_vars PROVE AgreementsEnd'
    OBVIOUS
<1>0. now \in EndDates /\ now \in Days
    BY DayEnds DEF Shape
<1>1. CASE QuietStep
    BY <1>1 DEF QuietStep, AgreementsEnd, AgreementOps
<1>2. ASSUME NEW r \in Requests, AgreementStep(r) PROVE AgreementsEnd'
    <2>1. \A s \in Requests \ {r} : req'[s] = req[s]
        BY <1>2 DEF AgreementStep, Moves
    <2>2. \A i \in DOMAIN agreements : agreements[i] \in AgreementRow
        BY RowIn DEF LedgerShape
    <2>3. CASE BeginAgreement(r)
        BY <2>1, <2>3, BegunEnds DEF BeginAgreement, ledgerRows, AgreementsEnd
    <2>4. CASE BeginTerminate(r) \/ BeginSettle(r)
        <3>1. req'[r].op \in {"TERMINATE", "SETTLE"} /\ agreements' = agreements
            <4>1. DOMAIN req = Requests
                BY DEF Shape
            <4>2. CASE BeginTerminate(r)
                BY <4>1, <4>2 DEF BeginTerminate, ledgerRows, Idle
            <4>3. CASE BeginSettle(r)
                <5>1. PICK p, seen :
                          req' = [req EXCEPT ![r] = [Idle EXCEPT !.op = "SETTLE", !.pc = "commit",
                                                                 !.project = p, !.asOf = now, !.seen = seen]]
                    BY <4>3 DEF BeginSettle
                <5>2. agreements' = agreements
                    BY <4>3 DEF BeginSettle, ledgerRows
                <5> QED BY <4>1, <5>1, <5>2 DEF Idle
            <4> QED BY <2>4, <4>2, <4>3
        <3> QED BY <2>1, <3>1 DEF AgreementsEnd
    <2>5. CASE CommitAgreement(r)
        <3>1. req'[r].op = "none" /\ req[r].op \in {"AGREEMENT", "REPLACEMENT"}
            BY <2>5, EndsMoves DEF CommitAgreement, At
        <3>2. /\ req[r].from \in Days /\ req[r].to \in EndDates
              /\ req[r].target \in {0} \cup DOMAIN agreements
            BY <3>1 DEF LedgerShape, AgreementCall, AgreementsEnd
        <3>3. req[r].target \in 0..MaxVersions
            <4>1. DOMAIN agreements = 1..Len(agreements) /\ Len(agreements) \in Nat
                BY LenProperties DEF LedgerShape
            <4> QED BY <3>2, <4>1, RatesAssumption DEF LedgerShape
        <3>4. NewAgreement(req[r]).to \in EndDates /\ NewAgreement(req[r]).prev \in 0..MaxVersions
            BY <3>2, <3>3 DEF NewAgreement
        <3>5. \A i \in DOMAIN agreements :
                 /\ Ended(agreements[i], "ENDED", req[r].from).to = req[r].from
                 /\ Ended(agreements[i], "ENDED", req[r].from).prev = agreements[i].prev
            BY <2>2 DEF Ended, AgreementRow
        <3>6. \A i \in DOMAIN agreements' :
                 agreements'[i].to \in EndDates /\ agreements'[i].prev \in 0..MaxVersions
            <4>1. CASE agreements' = agreements
                BY <4>1 DEF AgreementsEnd
            <4>2. CASE agreements' # agreements
                <5>1. /\ DOMAIN agreements' = DOMAIN agreements \cup {Len(agreements) + 1}
                      /\ agreements'[Len(agreements) + 1] = NewAgreement(req[r])
                      /\ \A i \in DOMAIN agreements : agreements'[i] =
                            IF i = req[r].target THEN Ended(agreements[i], "ENDED", req[r].from)
                                                 ELSE agreements[i]
                    BY <2>5, <4>2, CommitAgreementTable
                <5> QED BY <3>2, <3>4, <3>5, <5>1, DayEnds DEF AgreementsEnd
            <4> QED BY <4>1, <4>2
        <3> QED BY <2>1, <3>1, <3>6 DEF AgreementsEnd
    <2>6. CASE CommitTerminate(r)
        <3>1. req'[r].op = "none"
            BY <2>6, EndsMoves DEF CommitTerminate
        <3>2. /\ DOMAIN agreements' = DOMAIN agreements
              /\ \A i \in DOMAIN agreements : agreements'[i] =
                    IF i = req[r].target THEN Ended(agreements[i], "TERMINATED", now) ELSE agreements[i]
            BY <2>6, CommitTerminateTable
        <3>3. \A i \in DOMAIN agreements :
                 /\ Ended(agreements[i], "TERMINATED", now).to = now
                 /\ Ended(agreements[i], "TERMINATED", now).prev = agreements[i].prev
            BY <2>2 DEF Ended, AgreementRow
        <3> QED BY <1>0, <2>1, <3>1, <3>2, <3>3 DEF AgreementsEnd
    <2>7. CASE CommitSettle(r)
        <3>1. req'[r].op = "none"
            BY <2>7, EndsMoves DEF CommitSettle
        <3>2. /\ DOMAIN agreements' = DOMAIN agreements
              /\ \A i \in DOMAIN agreements :
                    agreements'[i] \in {[agreements[i] EXCEPT !.status = "ACTIVE"], agreements[i]}
            BY <2>7, CommitSettleTable
        <3>3. \A i \in DOMAIN agreements :
                 agreements'[i].to = agreements[i].to /\ agreements'[i].prev = agreements[i].prev
            BY <2>2, <3>2 DEF AgreementRow
        <3> QED BY <2>1, <3>1, <3>2, <3>3 DEF AgreementsEnd
    <2> QED BY <1>2, <2>3, <2>4, <2>5, <2>6, <2>7 DEF AgreementStep
<1> QED BY <1>1, <1>2, AgreementSteps

-----------------------------------------------------------------------------
StatementRow == [status: StatementStatus, accruals: Nat, payments: Nat, madeOn: Dates]

SumsTyped ==
    /\ earned \in [Months -> Nat] /\ late \subseteq Versions
    /\ statements \in [Months -> StatementRow]
    /\ \A r \in Requests : req[r].op = "STATEMENT" =>
          req[r].sum \in Nat /\ (req[r].pc = "insert" => req[r].paid \in Nat)

LEMMA MonthOfDay == \A day \in Days : MonthOf(day) \in Months
BY DEF Months

LEMMA PaidWhole == \A month : PaidIn(month) \in Nat
<1> SUFFICES ASSUME NEW month PROVE PaidIn(month) \in Nat
    OBVIOUS
<1>1. IsFiniteSet(PaidIds(month))
    BY LedgerAssumption, FS_Subset DEF PaidIds
<1>2. Cardinality(PaidIds(month)) \in Nat
    BY <1>1, FS_CardinalityType
<1>3. PaidIn(month) = PayoutAmount * Cardinality(PaidIds(month))
    BY DEF PaidIn, PaidIds
<1> HIDE DEF PaidIds
<1> QED BY <1>2, <1>3, LedgerAssumption

LEMMA SettleSums ==
    ASSUME Shape, LedgerShape, SumsTyped, NEW r \in Requests, CommitSettle(r)
    PROVE  earned' \in [Months -> Nat] /\ late' \subseteq Versions
<1> DEFINE call == req[r]
           fee == escrows[call.project].fee
           ids == {read.id : read \in call.seen}
<1>1. AgreementCall(call) /\ call.op = "SETTLE" /\ call.project \in Projects /\ now \in Days
    BY DEF LedgerShape, CommitSettle, At, Shape, CallShape
<1>2. ids \subseteq DOMAIN agreements
    BY <1>1 DEF AgreementCall
<1>3. DOMAIN agreements = 1..Len(agreements) /\ Len(agreements) \in Nat
    BY LenProperties DEF LedgerShape
<1>4. IsFiniteSet(ids)
    <2>1. IsFiniteSet(DOMAIN agreements)
        BY <1>3, FS_Interval
    <2> HIDE DEF ids
    <2> QED BY <1>2, <2>1, FS_Subset
<1>5. fee \in Int
    <2>1. escrows[call.project] \in EscrowRow
        BY <1>1 DEF Shape
    <2> QED BY <2>1 DEF EscrowRow
<1>6. PICK amount \in [ids -> 0..fee] :
          earned' = [earned EXCEPT ![MonthOf(now)] = @ + SumFunction(amount)]
    BY DEF CommitSettle
<1> HIDE DEF fee, ids, call
<1>7. SumFunction(amount) \in Nat
    <2>1. \A i \in ids : amount[i] \in Nat
        BY <1>5, <1>6
    <2>2. SumFunctionOnSet(amount, ids) \in Nat
        BY <1>4, <2>1, SumNotNegative
    <2>3. SumFunction(amount) = SumFunctionOnSet(amount, ids)
        BY <1>6 DEF SumFunction
    <2> QED BY <2>2, <2>3
<1>8. earned \in [Months -> Nat] /\ MonthOf(now) \in Months
    BY <1>1, MonthOfDay DEF SumsTyped
<1>9. earned' \in [Months -> Nat]
    BY <1>6, <1>7, <1>8
<1>10. late' \subseteq late \cup ids
    BY Settles DEF ids, call
<1>11. DOMAIN agreements \subseteq Versions
    BY <1>3, RatesAssumption DEF LedgerShape, Versions
<1> QED BY <1>2, <1>9, <1>10, <1>11 DEF SumsTyped

LEMMA SumsNext == Shape /\ LedgerShape /\ StatementShape /\ SumsTyped /\ [Next]_vars => SumsTyped'
<1> SUFFICES ASSUME Shape, LedgerShape, StatementShape, SumsTyped, [Next]_vars PROVE SumsTyped'
    OBVIOUS
<1>0. /\ DOMAIN req = Requests /\ (\A r \in Requests : DOMAIN req[r] = DOMAIN Idle)
      /\ now \in Days /\ now \in Dates
    BY DatesInt DEF Shape, CallShape
<1>1. late' \subseteq Versions
    <2>1. late' = late \/ \E r \in Requests : CommitSettle(r)
        <3>1. ASSUME NEW r \in Requests, AgreementStep(r) PROVE late' = late \/ CommitSettle(r)
            BY <3>1 DEF AgreementStep, BeginAgreement, BeginTerminate, BeginSettle, CommitAgreement,
                        CommitTerminate, ledgerRows, accrualRows
        <3> QED BY <3>1, AgreementSteps DEF QuietStep
    <2> QED BY <2>1, SettleSums DEF SumsTyped
<1>2. CASE PlainStep
    BY <1>1, <1>2 DEF PlainStep, SumsTyped, StatementOps
<1>3. CASE CreatePayout
    BY <1>1, <1>3 DEF CreatePayout, SumsTyped, accrualRows
<1>4. CASE FinalizeStatement
    <2>1. \A row \in StatementRow : [row EXCEPT !.status = "FINALIZED"] \in StatementRow
        BY DEF StatementRow, StatementStatus
    <2>2. statements' \in [Months -> StatementRow]
        BY <1>4, <2>1 DEF FinalizeStatement, SumsTyped
    <2> QED BY <1>1, <1>4, <2>2 DEF FinalizeStatement, SumsTyped, accrualRows
<1>5. ASSUME NEW r \in Requests, StatementStep(r) PROVE SumsTyped'
    <2>1. \A s \in Requests \ {r} : req'[s] = req[s]
        BY <1>5 DEF StatementStep, Moves
    <2>2. CASE CommitSettle(r)
        <3>1. req'[r].op = "none" /\ statements' = statements
            BY <2>2, EndsMoves DEF CommitSettle
        <3> QED BY <1>1, <2>1, <2>2, <3>1, SettleSums DEF SumsTyped
    <2>3. CASE BeginPayoutChange(r)
        <3>1. req'[r].op # "STATEMENT" /\ UNCHANGED ledgerRows
            BY <1>0, <2>3 DEF BeginPayoutChange, PayoutCall, Idle
        <3> QED BY <1>1, <2>1, <3>1 DEF SumsTyped, ledgerRows, accrualRows
    <2>4. CASE CommitPayoutChange(r)
        <3>1. req'[r].op = "none" /\ statements' = statements /\ earned' = earned
            BY <2>4, EndsMoves DEF CommitPayoutChange, accrualRows
        <3> QED BY <1>1, <2>1, <3>1 DEF SumsTyped
    <2>5. CASE BeginStatement(r)
        <3>1. PICK month \in Months :
                req' = [req EXCEPT ![r] = [Idle EXCEPT !.op = "STATEMENT", !.pc = "payments",
                           !.target = month, !.sum = earned[month]]]
            BY <2>5 DEF BeginStatement
        <3>2. req'[r].pc = "payments" /\ req'[r].sum = earned[month]
            BY <1>0, <3>1 DEF Idle
        <3> QED BY <1>1, <2>1, <2>5, <3>2 DEF SumsTyped, BeginStatement, ledgerRows, accrualRows
    <2>6. CASE SumPayments(r)
        <3>1. PICK paid : paid = PaidIn(req[r].target)
            OBVIOUS
        <3>2. /\ req[r].op = "STATEMENT" /\ req'[r].sum = req[r].sum /\ req'[r].paid = paid
              /\ UNCHANGED ledgerRows
            BY <1>0, <2>6, <3>1 DEF SumPayments, At, Idle
        <3>3. paid \in Nat
            BY <3>1, PaidWhole
        <3> QED BY <1>1, <2>1, <3>2, <3>3 DEF SumsTyped, ledgerRows, accrualRows
    <2>7. CASE CommitStatement(r)
        <3>1. req'[r].op = "none" /\ req[r].op = "STATEMENT" /\ req[r].pc = "insert" /\ earned' = earned
            BY <2>7, EndsMoves DEF CommitStatement, At, accrualRows
        <3>2. [status |-> "DRAFT", accruals |-> req[r].sum, payments |-> req[r].paid,
               madeOn |-> now] \in StatementRow
            BY <1>0, <3>1 DEF SumsTyped, StatementRow, StatementStatus
        <3>3. statements' \in [Months -> StatementRow]
            BY <2>7, <3>2 DEF CommitStatement, SumsTyped
        <3> QED BY <1>1, <2>1, <3>1, <3>3 DEF SumsTyped
    <2> QED BY <1>5, <2>2, <2>3, <2>4, <2>5, <2>6, <2>7 DEF StatementStep
<1> QED BY <1>2, <1>3, <1>4, <1>5, StatementSteps

-----------------------------------------------------------------------------
TypeInv == VersionsBounded /\ SharesWhole /\ AgreementsEnd /\ SumsTyped

LEMMA InitTypes == Init => TypeInv
<1> SUFFICES ASSUME Init PROVE TypeInv
    OBVIOUS
<1>1. VersionsBounded
    <2>1. Len(policies) = 1 /\ DOMAIN policies = {1} /\ policies[1].prev = 0
        BY DEF Init, RatesInit
    <2>2. Len(categories) = 0 /\ DOMAIN categories = {}
        BY DEF Init, RatesInit
    <2>3. \A p \in Projects : Len(overrides[p]) = 0
        BY DEF Init, RatesInit
    <2>4. \A r \in Requests : req[r].op = "none"
        BY DEF Init, RatesInit, Idle
    <2> QED BY <2>1, <2>2, <2>3, <2>4, RatesAssumption DEF VersionsBounded, Bounded
<1>2. SharesWhole
    BY DEF Init, RatesInit, NoEscrow, SharesWhole
<1>3. AgreementsEnd
    BY DEF Init, RatesInit, LedgerInit, Idle, AgreementsEnd
<1>4. SumsTyped
    BY DatesInt DEF Init, RatesInit, LedgerInit, Idle, SumsTyped, StatementRow, StatementStatus
<1> QED BY <1>1, <1>2, <1>3, <1>4 DEF TypeInv

\* A table that has one type and whose rows have another is one of both.
LEMMA Retyped ==
    ASSUME NEW S, NEW T, NEW rows \in Seq(S), \A i \in DOMAIN rows : rows[i] \in T
    PROVE  rows \in Seq(T)
<1>1. rows \in [1..Len(rows) -> S] /\ Len(rows) \in Nat
    BY LenProperties
<1>2. rows \in [1..Len(rows) -> T]
    BY <1>1
<1> QED BY <1>1, <1>2, SeqDef

\* Every row of the commercial side has its type, and no table outgrows its
\* bound: fees, payouts, accruals and sums are never negative, agreements end
\* on a day or not at all, and versions follow versions
\* (calculateFeesFromPercent, settleInvestorAccruals, createStatement).
THEOREM SpecTypes == Spec => []TypeOK
<1>1. /\ CommercialInv /\ LedgerShape /\ StatementShape /\ TypeInv /\ [Next]_vars
      => TypeInv'
    BY VersionsNext, SharesNext, EndsNext, SumsNext DEF CommercialInv, TypeInv
<1>2. CommercialInv /\ LedgerShape /\ StatementShape /\ TypeInv => TypeOK
    <2> SUFFICES ASSUME Shape, LedgerShape, StatementShape, TypeInv PROVE TypeOK
        BY DEF CommercialInv
    <2>1. policies \in Seq(PolicyType)
        <3>1. \A i \in DOMAIN policies : policies[i] \in PolicyRow
            BY RowIn DEF Shape
        <3>2. \A i \in DOMAIN policies : policies[i] \in PolicyType
            BY <3>1 DEF TypeInv, VersionsBounded, Bounded, PolicyRow, PolicyType
        <3> QED BY <3>2, Retyped DEF Shape
    <2>2. categories \in Seq(CategoryType)
        <3>1. \A i \in DOMAIN categories : categories[i] \in CategoryRow
            BY RowIn DEF Shape
        <3>2. \A i \in DOMAIN categories : categories[i] \in CategoryType
            BY <3>1 DEF TypeInv, VersionsBounded, Bounded, CategoryRow, CategoryType
        <3> QED BY <3>2, Retyped DEF Shape
    <2>3. \A p \in Projects : overrides[p] \in Seq(OverrideType)
        BY DEF Shape, OverrideRow, OverrideType
    <2>4. escrows \in [Projects -> EscrowType]
        <3>1. \A p \in Projects : escrows[p] \in EscrowType
            BY DEF Shape, EscrowRow, EscrowType, TypeInv, SharesWhole
        <3> QED BY <3>1 DEF Shape
    <2>5. agreements \in Seq(AgreementType)
        <3>1. \A i \in DOMAIN agreements : agreements[i] \in AgreementRow
            BY RowIn DEF LedgerShape
        <3>2. \A i \in DOMAIN agreements : agreements[i] \in AgreementType
            BY <3>1 DEF TypeInv, AgreementsEnd, EndDates, AgreementRow, AgreementType
        <3> QED BY <3>2, Retyped DEF LedgerShape
    <2>6. terminated \subseteq Versions
        <3>1. DOMAIN agreements = 1..Len(agreements) /\ Len(agreements) \in Nat
            BY LenProperties DEF LedgerShape
        <3> QED BY <3>1, RatesAssumption DEF LedgerShape, Versions
    <2> QED BY <2>1, <2>2, <2>3, <2>4, <2>5, <2>6
            DEF TypeOK, Shape, LedgerShape, StatementShape, TypeInv, VersionsBounded, Bounded,
                SumsTyped, StatementRow, PayoutRow
<1>3. CommercialInv => Shape
    BY DEF CommercialInv
<1>4. Init => StatementShape
    BY InitStatement DEF StatementInv
<1> QED BY InitTypes, InitLedger, LedgerKept, StatementShapeKept, CommercialInvariant,
           <1>1, <1>2, <1>3, <1>4, PTL DEF Spec
=============================================================================
