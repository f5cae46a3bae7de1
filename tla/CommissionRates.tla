-------------------------- MODULE CommissionRates --------------------------
(***************************************************************************)
(* The commission an administrator decides: versioned rows for the         *)
(* platform, for the category of the projects, and for one project, and    *)
(* how an escrow that is prepared resolves them.                           *)
(*                                                                         *)
(* A change is a transaction that reads the current row and then updates   *)
(* it by id and inserts its successor.  Nothing ever moves a row from      *)
(* SCHEDULED to ACTIVE: a scheduled row counts once its date has come.     *)
(* previousPolicyId and previousOverrideId are unique keys, so a row has   *)
(* one successor, and a change whose insertion breaks the key is rolled    *)
(* back.                                                                   *)
(***************************************************************************)
EXTENDS CommissionSplit, Sequences, FiniteSets

CONSTANTS
    Requests,     \* slots for concurrently served calls
    Projects,     \* projects (numbers), each with its escrow, of one category
    Amounts,      \* the amounts of escrows
    Terms,        \* platform terms: percent, minimum and maximum fee
    Percents,     \* percentages of overrides
    Operations,   \* the calls of administrators, clients and settlements
    Workloads,    \* which calls a behaviour serves, and which of them apart
    MaxTime,      \* bound: days of any workload
    MaxVersions   \* bound: versions of one policy, override or agreement
                  \* of any workload

Days == 0..MaxTime

ASSUME RatesAssumption ==
    /\ Amounts \subseteq Nat
    /\ Projects \subseteq Nat \ {0}
    /\ Terms \subseteq [percent: Percentages, min: OrNull(Nat), max: OrNull(Nat)]
    /\ [percent |-> 1000, min |-> Null, max |-> Null] \in Terms
    /\ Percents \subseteq Percentages
    /\ Workloads \subseteq [ops: SUBSET Operations, apart: SUBSET SUBSET Operations,
                           projects: SUBSET Projects, versions: 0..MaxVersions,
                           amount: Amounts, days: Days]
    /\ MaxTime \in Nat /\ MaxVersions \in Nat \ {0}

VARIABLES
    workload,    \* the calls of this behaviour (of a set in apart at most one
                 \* is in flight), its projects and amount, its bounds on versions and days
    now,         \* the day
    policies,    \* PlatformCommissionPolicy rows in order of creation
    categories,  \* CategoryCommissionOverride rows of the category
    overrides,   \* ProjectCommissionOverride rows of each project
    escrows,     \* Escrow row of each project: status, fee and payout
    decided,     \* last accepted immediate decision for the category and each project (history)
    decisions,   \* accepted decisions about the platform, in order (history)
    req          \* calls in flight

rateRows == <<policies, categories, overrides, decided, decisions>>

PolicyStatus == {"SCHEDULED", "ACTIVE", "SUPERSEDED", "CANCELLED"}
Versions     == 1..MaxVersions

\* The terms of calculateFeesFromPercent when there is no policy row.
Fallback == [percent |-> 1000, min |-> Null, max |-> Null]

\* The row that the migration inserts.
Seeded == [percent |-> 1000, min |-> Null, max |-> Null]

NoEscrow == [status |-> "NONE", fee |-> 0, payout |-> 0]
Idle == [op |-> "none", pc |-> "idle", terms |-> Fallback, percent |-> Null,
         from |-> 0, to |-> Null, asOf |-> 0, target |-> 0, project |-> 0,
         seen |-> {}, sum |-> 0, paid |-> 0]

At(r, op, pc) == req[r].op = op /\ req[r].pc = pc

Begins(r, op) ==
    /\ op \in workload.ops
    /\ req[r] = Idle
    /\ \A group \in workload.apart : op \in group => \A other \in Requests : req[other].op \notin group

Ends(r) == req' = [req EXCEPT ![r] = Idle]

(***************************************************************************)
(* Rows                                                                    *)
(***************************************************************************)
Unexpired(row, day) == row.to = Null \/ row.to > day
Current(rows, day)  == {i \in DOMAIN rows : rows[i].status = "ACTIVE"
                                            /\ Unexpired(rows[i], day)}
\* Mutant: a scheduled row waits for somebody to activate it.
NeverDue(rows, day) == {}
Due(rows, day)      == {i \in DOMAIN rows : rows[i].status = "SCHEDULED"
                                            /\ rows[i].from <= day
                                            /\ Unexpired(rows[i], day)}
InForce(rows, day)  == Current(rows, day) \cup Due(rows, day)

\* findFirst, orderBy effectiveFrom desc: of equal dates, any.
Latest(rows, ids) == {i \in ids : \A j \in ids : rows[j].from <= rows[i].from}

\* The unique key of the version chain.
HasSuccessor(rows, i) == i # 0 /\ \E j \in DOMAIN rows : rows[j].prev = i

Supersede(rows, ids, day) ==
    [i \in DOMAIN rows |->
        IF i \in ids THEN [rows[i] EXCEPT !.status = "SUPERSEDED", !.to = day]
                     ELSE rows[i]]

StatusFrom(from, day) == IF from <= day THEN "ACTIVE" ELSE "SCHEDULED"

FirstOr0(ids) == IF ids = {} THEN {0} ELSE ids

(***************************************************************************)
(* Resolution                                                              *)
(***************************************************************************)
PlatformTerms ==
    LET ids == Latest(policies, InForce(policies, now))
    IN IF ids = {} THEN {Fallback} ELSE {policies[i].terms : i \in ids}

\* getCommissionConfig: what everybody is told about the platform's terms.
CommissionConfig ==
    LET ids == Latest(policies, InForce(policies, now))
    IN IF ids = {} THEN {Fallback} ELSE {policies[i].terms : i \in ids}

CategoryPercents ==
    LET set == {i \in InForce(categories, now) : categories[i].percent # Null}
    IN {categories[i].percent : i \in Latest(categories, set)}

OverridePercents(p) ==
    {overrides[p][i].percent : i \in Latest(overrides[p], InForce(overrides[p], now))}

\* resolveForProject: the project's percentage before the category's before
\* the platform's, always with the platform's minimum and maximum.
Resolved(p) ==
    LET overriding == IF OverridePercents(p) # {} THEN OverridePercents(p)
                                                  ELSE CategoryPercents
    IN UNION {{[t EXCEPT !.percent = percent] :
                  percent \in IF overriding = {} THEN {t.percent} ELSE overriding} :
              t \in PlatformTerms}

(***************************************************************************)
(* The platform's commission                                               *)
(***************************************************************************)
BeginPlatform(r) ==
    /\ Begins(r, "PLATFORM")
    /\ \E t \in Terms, from \in 0..workload.days, current \in FirstOr0(Latest(policies, Current(policies, now))) :
          req' = [req EXCEPT ![r] = [Idle EXCEPT !.op = "PLATFORM", !.pc = "commit", !.terms = t,
                        !.from = from, !.asOf = now, !.target = current]]
    /\ UNCHANGED <<now, rateRows, escrows>>

\* Mutant: a backdated change does not supersede a younger row.
PolicyRowsByDate(call) ==
    IF call.target # 0 /\ policies[call.target].from <= call.from /\ call.from <= call.asOf
    THEN Supersede(policies, {call.target}, call.from) ELSE policies
\* An immediate change supersedes the current row; a later one leaves it and
\* cancels the changes that are still pending.
PolicyRows(call) ==
    IF call.target = 0 THEN policies
    ELSE IF call.from <= call.asOf THEN Supersede(policies, {call.target}, call.from)
    ELSE [i \in DOMAIN policies |->
             IF policies[i].status = "SCHEDULED" /\ policies[i].from > call.asOf
             THEN [policies[i] EXCEPT !.status = "CANCELLED"] ELSE policies[i]]

\* Mutant: previousPolicyId is not unique.
PolicyAnyway(call) == TRUE
PolicyAllowed(call) == ~HasSuccessor(policies, call.target)

CommitPlatform(r) ==
    LET call == req[r]
    IN /\ At(r, "PLATFORM", "commit")
       /\ PolicyAllowed(call) => Len(policies) < workload.versions
       /\ policies' = IF ~PolicyAllowed(call) THEN policies
                      ELSE Append(PolicyRows(call),
                                  [terms |-> call.terms, from |-> call.from, to |-> Null,
                                   status |-> StatusFrom(call.from, call.asOf), prev |-> call.target])
       /\ decisions' = IF ~PolicyAllowed(call) THEN decisions
                       ELSE Append(decisions, [from |-> call.from, terms |-> call.terms])
       /\ Ends(r)
       /\ UNCHANGED <<now, categories, overrides, decided, escrows>>

(***************************************************************************)
(* The category's commission; Null clears it                               *)
(***************************************************************************)
BeginCategory(r) ==
    /\ Begins(r, "CATEGORY")
    /\ \E percent \in OrNull(Percents), from \in 0..workload.days,
          current \in FirstOr0(Latest(categories, Current(categories, now))) :
          req' = [req EXCEPT ![r] = [Idle EXCEPT !.op = "CATEGORY", !.pc = "commit", !.percent = percent,
                        !.from = from, !.asOf = now, !.target = current]]
    /\ UNCHANGED <<now, rateRows, escrows>>

\* Mutant: clearing the percentage leaves the current row as it is.
CategoryRowsKept(call) ==
    IF call.target # 0 /\ call.from <= call.asOf /\ call.percent # Null
    THEN Supersede(categories, {call.target}, call.from) ELSE categories
CategoryRows(call) ==
    IF call.target # 0 /\ call.from <= call.asOf
    THEN Supersede(categories, {call.target}, call.from) ELSE categories

CommitCategory(r) ==
    LET call == req[r]
        allowed == ~HasSuccessor(categories, call.target)
    IN /\ At(r, "CATEGORY", "commit")
       /\ allowed => Len(categories) < workload.versions
       /\ categories' = IF ~allowed THEN categories
                        ELSE Append(CategoryRows(call),
                                    [percent |-> call.percent, from |-> call.from, to |-> Null,
                                     status |-> StatusFrom(call.from, call.asOf), prev |-> call.target])
       /\ decided' = IF allowed /\ call.from <= call.asOf
                     THEN [decided EXCEPT !.category = call.percent] ELSE decided
       /\ Ends(r)
       /\ UNCHANGED <<now, policies, overrides, decisions, escrows>>

(***************************************************************************)
(* One project's commission                                                *)
(***************************************************************************)
BeginOverride(r) ==
    /\ Begins(r, "OVERRIDE")
    /\ \E p \in workload.projects, percent \in Percents, from \in 0..workload.days :
          /\ escrows[p].status # "RELEASED"
          /\ req' = [req EXCEPT ![r] = [Idle EXCEPT !.op = "OVERRIDE", !.pc = "find", !.percent = percent,
                           !.from = from, !.project = p]]
    /\ UNCHANGED <<now, rateRows, escrows>>

\* The updateMany: the rows it finds, not those inserted by another
\* transaction meanwhile, will be superseded.
FindOverrides(r) ==
    /\ At(r, "OVERRIDE", "find")
    /\ req' = [req EXCEPT ![r].pc = "commit",
                   ![r].seen = {i \in DOMAIN overrides[req[r].project] :
                                   overrides[req[r].project][i].status = "ACTIVE"}]
    /\ UNCHANGED <<now, rateRows, escrows>>

\* The row is ACTIVE whatever its date is.
CommitOverride(r) ==
    LET call == req[r]
        rows == overrides[call.project]
    IN /\ At(r, "OVERRIDE", "commit")
       /\ Len(rows) < workload.versions
       /\ overrides' = [overrides EXCEPT ![call.project] =
              Append(Supersede(rows, call.seen, call.from),
                     [percent |-> call.percent, from |-> call.from, to |-> Null,
                      status |-> "ACTIVE"])]
       /\ decided' = [decided EXCEPT !.project[call.project] = call.percent]
       /\ Ends(r)
       /\ UNCHANGED <<now, policies, categories, decisions, escrows>>

BeginEndOverride(r) ==
    /\ Begins(r, "END_OVERRIDE")
    /\ \E p \in Projects : \E i \in DOMAIN overrides[p] :
          /\ escrows[p].status # "RELEASED"
          /\ req' = [req EXCEPT ![r] = [Idle EXCEPT !.op = "END_OVERRIDE", !.pc = "commit",
                           !.project = p, !.target = i]]
    /\ UNCHANGED <<now, rateRows, escrows>>

\* Any version may be ended, a superseded one included; ending it again
\* only moves its date.
CommitEndOverride(r) ==
    LET call == req[r]
    IN /\ At(r, "END_OVERRIDE", "commit")
       /\ overrides' = [overrides EXCEPT ![call.project] = Supersede(@, {call.target}, now)]
       /\ decided' = IF overrides[call.project][call.target].status = "ACTIVE"
                     THEN [decided EXCEPT !.project[call.project] = Null] ELSE decided
       /\ Ends(r)
       /\ UNCHANGED <<now, policies, categories, decisions, escrows>>

(***************************************************************************)
(* Escrows and the calendar                                                *)
(***************************************************************************)
\* prepare and ensureFundedEscrowInTx: the new escrow stores what it resolves.
Prepare(p) ==
    /\ "PREPARE" \in workload.ops /\ p \in workload.projects
    /\ escrows[p] = NoEscrow
    /\ \E t \in Resolved(p) : \E split \in Fees(workload.amount, t.percent, t.min, t.max) :
          escrows' = [escrows EXCEPT ![p] =
                         [status |-> "OPEN", fee |-> split.fee, payout |-> split.payout]]
    /\ UNCHANGED <<now, rateRows, req>>

NextDay ==
    /\ now < workload.days
    /\ now' = now + 1
    /\ UNCHANGED <<rateRows, escrows, req>>

RatesInit ==
    /\ workload \in Workloads
    /\ now = 0
    /\ policies = <<[terms |-> Seeded, from |-> 0, to |-> Null, status |-> "ACTIVE",
                     prev |-> 0]>>
    /\ categories = <<>>
    /\ overrides = [p \in Projects |-> <<>>]
    /\ escrows = [p \in Projects |-> NoEscrow]
    /\ decided = [category |-> Null, project |-> [p \in Projects |-> Null]]
    /\ decisions = <<>>
    /\ req = [r \in Requests |-> Idle]

RateCall(r) ==
    \/ BeginPlatform(r) \/ CommitPlatform(r)
    \/ BeginCategory(r) \/ CommitCategory(r)
    \/ BeginOverride(r) \/ FindOverrides(r) \/ CommitOverride(r)
    \/ BeginEndOverride(r) \/ CommitEndOverride(r)
=============================================================================
