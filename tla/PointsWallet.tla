---------------------------- MODULE PointsWallet ----------------------------
(***************************************************************************)
(* The points ("nuqati") of one freelancer: the wallet's balance, the      *)
(* ledger of its transactions, and the tasks and streaks that earn points. *)
(*                                                                         *)
(* credit() reads the wallet and then writes an absolute balance.  Only a  *)
(* proposal's submission and a purchase run in a transaction; a login, a   *)
(* share and the one-time rewards are separate statements, any of which    *)
(* may be the last one before a crash.  ensureWallet() is an upsert with   *)
(* an empty update: it is modelled as a plain read, which allows whatever  *)
(* an upsert that locks the row allows.                                    *)
(***************************************************************************)
EXTENDS Integers, FiniteSets, FiniteSetsExt, Functions

CONSTANTS
    Requests,        \* slots for concurrently served requests
    Nobody,          \* holder of the wallet's row lock when it is free
    Operations,      \* what is called
    Crashes,         \* whether a request may end between two statements
    Points,          \* points of one transaction, by reason
    Milestones,      \* days in a row that earn a streak reward
    StreakPoints,    \* points of each milestone
    LoginCap,        \* dailyLoginMonthlyCap
    ShareCap,        \* socialShareMonthlyCap
    DaysPerMonth,    \* length of a month
    MaxDay,          \* bound: days that pass
    MaxProposals,    \* bound: projects the freelancer can apply to
    MaxPurchases,    \* bound: packages bought
    MaxJobs          \* bound: projects the freelancer is hired for

OneTime == {"PROFILE_COMPLETE", "FIRST_PORTFOLIO", "FIRST_JOB"}
Reasons == OneTime \cup {"WELCOME_BONUS", "DAILY_LOGIN", "SOCIAL_SHARE",
                         "PURCHASE", "PROPOSAL_SUBMIT", "PROPOSAL_BOOST",
                         "MONTHLY_APPLY"}
Days   == 1..MaxDay
MonthOf(day) == (day - 1) \div DaysPerMonth
Months == {MonthOf(day) : day \in Days}
Projects == 1..MaxJobs

ASSUME WalletAssumption ==
    /\ Nobody \notin Requests
    /\ Operations \subseteq OneTime \cup {"DAILY_LOGIN", "SOCIAL_SHARE",
                                          "PURCHASE", "PROPOSAL_SUBMIT"}
    /\ Crashes \in BOOLEAN
    /\ Points \in [Reasons -> Int]
    /\ Milestones \subseteq Nat \ {0} /\ IsFiniteSet(Milestones)
    /\ StreakPoints \in [Milestones -> Nat]
    /\ LoginCap \in Nat /\ ShareCap \in Nat
    /\ DaysPerMonth \in Nat \ {0} /\ MaxDay \in Nat \ {0}
    /\ MaxProposals \in Nat /\ MaxPurchases \in Nat /\ MaxJobs \in Nat

VARIABLES
    today,       \* the UTC day
    balance,     \* PointsWallet.balance
    posted,      \* PointsTransaction rows by reason
    streakRows,  \* PointsTransaction rows of each streak milestone
    done,        \* one-time PointsTaskCompletion rows
    loginDays,   \* DAILY_LOGIN completion rows with a day as their period
    logins,      \* progress of the month's DAILY_LOGIN completion
    shares,      \* progress of the month's SOCIAL_SHARE completion
    applyMonths, \* MONTHLY_APPLY completion rows
    streak,      \* PointsStreakState: days, last day (0: none), claimed
    purchases,   \* PointsPurchase rows by status
    applied,     \* days on which a proposal was submitted (history)
    jobs,        \* FreelancerProfile.completedProjects
    completed,   \* his projects whose status is COMPLETED
    req,         \* requests in flight
    lock         \* the transaction that has written the wallet's row

taskVars == <<done, loginDays, logins, shares>>
applyVars == <<applyMonths, streak, streakRows, applied>>
rows == <<today, balance, posted, taskVars, applyVars, purchases, jobs, completed>>
vars == <<rows, req, lock>>

NoStreak == [days |-> 0, last |-> 0, claimed |-> {}]

\* boost says whether the submission pays for a boost; wallet, progress,
\* monthly and streak are the balance and the task rows the request has read; of a
\* confirmation, progress is the project.
Idle == [op |-> "none", pc |-> "idle", boost |-> FALSE, day |-> 0,
         wallet |-> 0, progress |-> 0, monthly |-> FALSE, streak |-> NoStreak]

\* A freelancer who has just registered: onFreelancerRegistered.
Init ==
    /\ today = 1
    /\ balance = Points["WELCOME_BONUS"]
    /\ posted = [reason \in Reasons |-> IF reason = "WELCOME_BONUS" THEN 1
                                                                    ELSE 0]
    /\ streakRows = [m \in Milestones |-> 0]
    /\ done = {} /\ loginDays = {} /\ applyMonths = {} /\ applied = {}
    /\ logins = [m \in Months |-> 0]
    /\ shares = [m \in Months |-> 0]
    /\ streak = NoStreak
    /\ purchases = [PROCESSING |-> 0, SUCCEEDED |-> 0]
    /\ jobs = 0 /\ completed = {}
    /\ req = [r \in Requests |-> Idle]
    /\ lock = Nobody

Tick ==
    /\ today < MaxDay
    /\ today' = today + 1
    /\ UNCHANGED <<balance, posted, taskVars, applyVars, purchases, jobs, completed, req,
                   lock>>

-----------------------------------------------------------------------------
(* Requests *)

At(r, op, pc) == req[r].op = op /\ req[r].pc = pc

Begin(r, op, pc, boost, progress) ==
    /\ op \in Operations
    /\ req[r].pc = "idle"
    /\ req' = [req EXCEPT ![r] = [Idle EXCEPT !.op = op, !.pc = pc,
                 !.boost = boost, !.day = today, !.progress = progress]]

Goto(r, pc) == req' = [req EXCEPT ![r].pc = pc]

Finish(r) == req' = [req EXCEPT ![r] = Idle]

\* The process dies, or a transaction is rolled back.
Crash(r) ==
    /\ Crashes
    /\ req[r].pc # "idle"
    /\ Finish(r)
    /\ lock' = IF lock = r THEN Nobody ELSE lock
    /\ UNCHANGED rows

-----------------------------------------------------------------------------
(* credit(), outside a transaction *)

\* ensureWallet returns the balance.
ReadWallet(r) ==
    /\ req[r].pc = "credit"
    /\ req' = [req EXCEPT ![r].pc = "read", ![r].wallet = balance]
    /\ UNCHANGED <<rows, lock>>

WriteWallet(r) ==
    /\ req[r].pc = "read" /\ req[r].op \notin {"PURCHASE", "PROPOSAL_SUBMIT"}
    /\ lock = Nobody
    /\ balance' = req[r].wallet + Points[req[r].op]
    /\ Goto(r, "written")
    /\ UNCHANGED <<today, posted, taskVars, applyVars, purchases, jobs, completed,
                   lock>>

PostTransaction(r) ==
    /\ req[r].pc = "written"
    /\ posted' = [posted EXCEPT ![req[r].op] = @ + 1]
    /\ Finish(r)
    /\ UNCHANGED <<today, balance, taskVars, applyVars, purchases, jobs, completed,
                   lock>>

-----------------------------------------------------------------------------
(* purchasePackage *)

BeginPurchase(r) ==
    /\ purchases.PROCESSING + purchases.SUCCEEDED < MaxPurchases
    /\ Begin(r, "PURCHASE", "credit", FALSE, 0)
    /\ purchases' = [purchases EXCEPT !.PROCESSING = @ + 1]
    /\ UNCHANGED <<today, balance, posted, taskVars, applyVars, jobs, completed, lock>>

CommitPurchase(r) ==
    /\ At(r, "PURCHASE", "read")
    /\ lock = Nobody
    /\ balance' = req[r].wallet + Points["PURCHASE"]
    /\ posted' = [posted EXCEPT !["PURCHASE"] = @ + 1]
    /\ purchases' = [PROCESSING |-> purchases.PROCESSING - 1,
                     SUCCEEDED |-> purchases.SUCCEEDED + 1]
    /\ Finish(r)
    /\ UNCHANGED <<today, taskVars, applyVars, jobs, completed, lock>>

-----------------------------------------------------------------------------
(* Rewards that are read, marked and then credited *)

\* submitSocialShare
BeginShare(r) ==
    /\ shares[MonthOf(today)] < ShareCap
    /\ Begin(r, "SOCIAL_SHARE", "mark", FALSE, shares[MonthOf(today)])
    /\ UNCHANGED <<rows, lock>>

MarkShare(r) ==
    /\ At(r, "SOCIAL_SHARE", "mark")
    /\ shares' = [shares EXCEPT ![MonthOf(req[r].day)] = req[r].progress + 1]
    /\ Goto(r, "credit")
    /\ UNCHANGED <<today, balance, posted, done, loginDays, logins, applyVars,
                   purchases, jobs, completed, lock>>

\* onFreelancerLogin
BeginLogin(r) ==
    /\ today \notin loginDays
    /\ logins[MonthOf(today)] < LoginCap
    /\ Begin(r, "DAILY_LOGIN", "mark", FALSE, logins[MonthOf(today)])
    /\ UNCHANGED <<rows, lock>>

\* The row is unique: a second login of the day fails on it and ends there.
MarkLoginDay(r) ==
    /\ At(r, "DAILY_LOGIN", "mark")
    /\ IF req[r].day \in loginDays
       THEN Finish(r) /\ UNCHANGED loginDays
       ELSE Goto(r, "markMonth") /\ loginDays' = loginDays \cup {req[r].day}
    /\ UNCHANGED <<today, balance, posted, done, logins, shares, applyVars,
                   purchases, jobs, completed, lock>>

MarkLoginMonth(r) ==
    /\ At(r, "DAILY_LOGIN", "markMonth")
    /\ logins' = [logins EXCEPT ![MonthOf(req[r].day)] = req[r].progress + 1]
    /\ Goto(r, "credit")
    /\ UNCHANGED <<today, balance, posted, done, loginDays, shares, applyVars,
                   purchases, jobs, completed, lock>>

\* onPortfolioItemCreated, checkProfileComplete
BeginOneTime(r, task) ==
    /\ task \in {"PROFILE_COMPLETE", "FIRST_PORTFOLIO"}
    /\ task \notin done
    /\ Begin(r, task, "mark", FALSE, 0)
    /\ UNCHANGED <<rows, lock>>

\* complete() finds the project under way; of one that is completed it returns at once.
BeginConfirm(r) == \E project \in Projects \ completed :
    /\ Begin(r, "FIRST_JOB", "confirm", FALSE, project)
    /\ UNCHANGED <<rows, lock>>

\* Its transaction completes and counts the project, ...
ConfirmJob(r) ==
    /\ At(r, "FIRST_JOB", "confirm")
    /\ req[r].progress \notin completed
    /\ completed' = completed \cup {req[r].progress}
    /\ jobs' = jobs + 1
    /\ Goto(r, "count")
    /\ UNCHANGED <<today, balance, posted, taskVars, applyVars, purchases, lock>>

\* ... or, if another confirmation of it has come first, goes on all the same ...
ConfirmAgain(r) ==
    /\ At(r, "FIRST_JOB", "confirm")
    /\ req[r].progress \in completed
    /\ Goto(r, "count")
    /\ UNCHANGED <<rows, lock>>

\* Mutant: the count is compared with the value before the completion.
CountJobsBefore(r) ==
    /\ At(r, "FIRST_JOB", "count")
    /\ IF jobs = 0 /\ "FIRST_JOB" \notin done THEN Goto(r, "mark")
                                              ELSE Finish(r)
    /\ UNCHANGED <<rows, lock>>

\* ... to reward the first job (onFirstJobCompleted) when the profile counts one.
CountJobs(r) ==
    /\ At(r, "FIRST_JOB", "count")
    /\ IF jobs = 1 /\ "FIRST_JOB" \notin done THEN Goto(r, "mark")
                                              ELSE Finish(r)
    /\ UNCHANGED <<rows, lock>>

MarkOneTime(r) ==
    /\ req[r].op \in OneTime /\ req[r].pc = "mark"
    /\ done' = done \cup {req[r].op}
    /\ Goto(r, "credit")
    /\ UNCHANGED <<today, balance, posted, loginDays, logins, shares,
                   applyVars, purchases, jobs, completed, lock>>
-----------------------------------------------------------------------------
(* Proposal submission: one transaction *)

\* Mutant: the boost is posted but not charged.
CostOfSubmit(boost) == -Points["PROPOSAL_SUBMIT"]

Cost(boost) == -Points["PROPOSAL_SUBMIT"] -
               (IF boost THEN Points["PROPOSAL_BOOST"] ELSE 0)

\* chargeProposalSubmitWithBoost: one check for the charge and the boost.
BeginSubmit(r) == \E boost \in BOOLEAN :
    /\ posted["PROPOSAL_SUBMIT"] < MaxProposals
    /\ balance >= Cost(boost)
    /\ Begin(r, "PROPOSAL_SUBMIT", "credit", boost, 0)
    /\ UNCHANGED <<rows, lock>>

\* Mutant: the debit leaves the row unlocked.
DebitUnlocked(r) ==
    /\ At(r, "PROPOSAL_SUBMIT", "read")
    /\ req' = [req EXCEPT ![r].pc = "debited",
                          ![r].wallet = @ - Cost(req[r].boost)]
    /\ UNCHANGED <<rows, lock>>

\* The first debit locks the wallet's row until the transaction ends; wallet
\* is the uncommitted balance from here on.
DebitWallet(r) ==
    /\ At(r, "PROPOSAL_SUBMIT", "read")
    /\ lock = Nobody
    /\ lock' = r
    /\ req' = [req EXCEPT ![r].pc = "debited",
                          ![r].wallet = @ - Cost(req[r].boost)]
    /\ UNCHANGED rows

\* onProposalSubmitted reads the month's task and the streak.
ReadTasks(r) ==
    /\ At(r, "PROPOSAL_SUBMIT", "debited")
    /\ req' = [req EXCEPT ![r].pc = "tasks", ![r].day = today,
                          ![r].monthly = MonthOf(today) \in applyMonths,
                          ![r].streak = streak]
    /\ UNCHANGED <<rows, lock>>

\* Mutant: a second application on the same day counts as a day.
StreakOnAnyDay(day, before) ==
    IF before.last \in {day, day - 1} \ {0} THEN before.days + 1 ELSE 1

\* updateApplicationStreak: the length of the streak on day, after before.
StreakOn(day, before) ==
    CASE before.last = day -> before.days
      [] before.last = day - 1 /\ before.last # 0 -> before.days + 1
      [] OTHER -> 1

Earned(days, claimed) == {m \in Milestones : days >= m /\ m \notin claimed}

CommitSubmit(r) ==
    LET q == req[r]
        days == StreakOn(q.day, q.streak)
        earned == Earned(days, q.streak.claimed)
        count == [reason \in Reasons |->
                    CASE reason = "PROPOSAL_SUBMIT" -> 1
                      [] reason = "PROPOSAL_BOOST" /\ q.boost -> 1
                      [] reason = "MONTHLY_APPLY" /\ ~q.monthly -> 1
                      [] OTHER -> 0]
    IN
    /\ At(r, "PROPOSAL_SUBMIT", "tasks")
    /\ posted' = [reason \in Reasons |-> posted[reason] + count[reason]]
    /\ streakRows' = [m \in Milestones |->
                        streakRows[m] + IF m \in earned THEN 1 ELSE 0]
    /\ applyMonths' = applyMonths \cup {MonthOf(q.day)}
    /\ streak' = [days |-> days, last |-> q.day,
                  claimed |-> q.streak.claimed \cup earned]
    /\ applied' = applied \cup {q.day}
    /\ balance' = q.wallet + (IF q.monthly THEN 0 ELSE Points["MONTHLY_APPLY"])
                  + SumFunctionOnSet(StreakPoints, earned)
    /\ Finish(r)
    /\ lock' = Nobody
    /\ UNCHANGED <<today, taskVars, purchases, jobs, completed>>

-----------------------------------------------------------------------------
Next ==
    \/ Tick
    \/ \E r \in Requests :
        \/ Crash(r)
        \/ ReadWallet(r) \/ WriteWallet(r) \/ PostTransaction(r)
        \/ BeginPurchase(r) \/ CommitPurchase(r)
        \/ BeginShare(r) \/ MarkShare(r)
        \/ BeginLogin(r) \/ MarkLoginDay(r) \/ MarkLoginMonth(r)
        \/ BeginConfirm(r) \/ ConfirmJob(r) \/ ConfirmAgain(r)
        \/ CountJobs(r) \/ MarkOneTime(r)
        \/ \E task \in OneTime : BeginOneTime(r, task)
        \/ BeginSubmit(r) \/ DebitWallet(r) \/ ReadTasks(r) \/ CommitSubmit(r)

Spec == Init /\ [][Next]_vars

-----------------------------------------------------------------------------
(* Properties *)

AllIdle == \A r \in Requests : req[r].pc = "idle"

LedgerSum ==
    SumFunction([reason \in Reasons |-> posted[reason] * Points[reason]])
    + SumFunction([m \in Milestones |-> streakRows[m] * StreakPoints[m]])

\* Between requests the balance is what the ledger adds up to, and it is
\* never overdrawn: chargeProposalSubmitWithBoost checks once for two debits.
BalanceIsLedger == AllIdle => balance = LedgerSum /\ balance >= 0

\* onProposalSubmitted checks before it marks, with no lock of its own: the
\* month's reward and each milestone's are still given once, because the
\* charge that precedes it holds the wallet's row.
ApplyRewardedOnce ==
    /\ posted["MONTHLY_APPLY"] = Cardinality(applyMonths)
    /\ \A m \in Milestones :
        streakRows[m] = IF m \in streak.claimed THEN 1 ELSE 0

Run(last, days) == (last - days + 1)..last \subseteq applied

\* The streak kept incrementally is the longest run of consecutive days with a
\* proposal that ends on the last such day, and a milestone is claimed exactly
\* when some run reached it.
StreakIsRun ==
    /\ applied # {} =>
        /\ streak.last = Max(applied)
        /\ Run(streak.last, streak.days) /\ ~Run(streak.last, streak.days + 1)
    /\ \A m \in Milestones : m \in streak.claimed
                              <=> \E day \in applied : Run(day, m)

\* A freelancer who has completed a project was rewarded for his first one,
\* although complete recognises it by a count it reads after its transaction.
FirstJobRewarded == AllIdle /\ jobs > 0 => posted["FIRST_JOB"] = 1

=============================================================================
