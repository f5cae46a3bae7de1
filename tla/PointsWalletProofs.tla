------------------------- MODULE PointsWalletProofs -------------------------
(***************************************************************************)
(* The wallet for any number of requests: the rewards of a submission are  *)
(* given once, the streak they count is the run of days, the first         *)
(* completed job earns its own, and requests that take turns keep the      *)
(* balance equal to the ledger's sum.                                      *)
(***************************************************************************)
EXTENDS PointsWallet, FiniteSums, FiniteSetTheorems, TLAPS

\* What the argument needs of the shape of the state.
Shape ==
    /\ DOMAIN req = Requests
    /\ \A r \in Requests :
        /\ DOMAIN req[r] = DOMAIN Idle
        /\ req[r].op \in Operations \cup {"none"}
        /\ req[r].streak.claimed \subseteq Milestones
    /\ posted \in [Reasons -> Nat]
    /\ streakRows \in [Milestones -> Nat]
    /\ streak.claimed \subseteq Milestones
    /\ IsFiniteSet(applyMonths)

Charged(r) == At(r, "PROPOSAL_SUBMIT", "debited")
              \/ At(r, "PROPOSAL_SUBMIT", "tasks")

\* A submission that has debited the wallet holds its row until it ends, ...
HoldsLock == \A r \in Requests : lock = r <=> Charged(r)

\* ... so the tasks that it has read are still what the rows say.
TasksCurrent ==
    \A r \in Requests :
        At(r, "PROPOSAL_SUBMIT", "tasks") =>
            /\ req[r].streak = streak
            /\ req[r].monthly <=> MonthOf(req[r].day) \in applyMonths

\* The inductive invariant: the rewards are given once because what a request
\* read of its tasks is current, and that because it holds the lock.
WalletInv == Shape /\ HoldsLock /\ TasksCurrent /\ ApplyRewardedOnce

-----------------------------------------------------------------------------
\* A newly registered freelancer has no month and no milestone rewarded.
LEMMA InitWallet == Init => WalletInv
<1> SUFFICES ASSUME Init PROVE WalletInv
    OBVIOUS
<1> USE WalletAssumption
<1>1. Shape
    BY FS_EmptySet DEF Init, Shape, Idle, NoStreak, Reasons, OneTime
<1>2. HoldsLock /\ TasksCurrent
    BY DEF Init, HoldsLock, TasksCurrent, Charged, At, Idle
<1>3. ApplyRewardedOnce
    BY FS_EmptySet DEF Init, ApplyRewardedOnce, NoStreak, Reasons, OneTime
<1> QED BY <1>1, <1>2, <1>3 DEF WalletInv

\* A request that is neither before nor after a charge moves on without
\* touching what the invariant reads: every step but those of a submission.
LEMMA Elsewhere ==
    ASSUME WalletInv, NEW r \in Requests, NEW q,
           req' = [req EXCEPT ![r] = q],
           DOMAIN q = DOMAIN Idle, q.op \in Operations \cup {"none"},
           q.streak.claimed \subseteq Milestones,
           ~Charged(r),
           ~(q.op = "PROPOSAL_SUBMIT" /\ q.pc \in {"debited", "tasks"}),
           posted' \in [Reasons -> Nat],
           posted'["MONTHLY_APPLY"] = posted["MONTHLY_APPLY"],
           lock' = lock, UNCHANGED applyVars
    PROVE  WalletInv'
<1>1. /\ DOMAIN req' = Requests
      /\ req'[r] = q
      /\ \A s \in Requests \ {r} : req'[s] = req[s]
    BY DEF WalletInv, Shape
<1>2. Shape'
    BY <1>1 DEF WalletInv, Shape, applyVars
<1>3. HoldsLock'
    BY <1>1 DEF WalletInv, HoldsLock, Charged, At
<1>4. TasksCurrent'
    BY <1>1 DEF WalletInv, TasksCurrent, At, applyVars
<1>5. ApplyRewardedOnce'
    BY DEF WalletInv, ApplyRewardedOnce, applyVars
<1> QED BY <1>2, <1>3, <1>4, <1>5 DEF WalletInv

\* A request goes to another statement, starts, or ends.
LEMMA MovesOn ==
    ASSUME WalletInv, NEW r \in Requests, ~Charged(r),
           NEW pc \in {"count", "mark", "markMonth", "credit", "written"},
           req' = [req EXCEPT ![r].pc = pc] \/ req' = [req EXCEPT ![r] = Idle],
           posted' \in [Reasons -> Nat],
           posted'["MONTHLY_APPLY"] = posted["MONTHLY_APPLY"],
           lock' = lock, UNCHANGED applyVars
    PROVE  WalletInv'
<1>1. CASE req' = [req EXCEPT ![r].pc = pc]
    <2> DEFINE q == [req[r] EXCEPT !.pc = pc]
    <2>1. DOMAIN req[r] = DOMAIN Idle /\ req[r].op \in Operations \cup {"none"}
          /\ req[r].streak.claimed \subseteq Milestones
        BY DEF WalletInv, Shape
    <2>2. /\ DOMAIN q = DOMAIN Idle /\ q.op = req[r].op /\ q.pc = pc
          /\ q.streak = req[r].streak
        BY <2>1 DEF Idle
    <2> QED BY <1>1, <2>1, <2>2, Elsewhere
<1>2. CASE req' = [req EXCEPT ![r] = Idle]
    <2>1. /\ Idle.op = "none" /\ Idle.pc = "idle"
          /\ Idle.streak.claimed \subseteq Milestones
        BY DEF Idle, NoStreak
    <2> QED BY <1>2, <2>1, Elsewhere
<1> QED BY <1>1, <1>2

LEMMA Begins ==
    ASSUME WalletInv, NEW r \in Requests, NEW op,
           NEW pc \in {"credit", "mark", "confirm"}, NEW boost \in BOOLEAN,
           NEW progress, Begin(r, op, pc, boost, progress),
           posted' = posted, lock' = lock, UNCHANGED applyVars
    PROVE  WalletInv'
<1> DEFINE q == [Idle EXCEPT !.op = op, !.pc = pc, !.boost = boost,
                             !.day = today, !.progress = progress]
<1>1. /\ DOMAIN q = DOMAIN Idle /\ q.op = op /\ q.pc = pc
      /\ q.streak.claimed \subseteq Milestones
    BY DEF Idle, NoStreak
<1>2. ~Charged(r)
    BY DEF Begin, Charged, At
<1>3. req' = [req EXCEPT ![r] = q] /\ op \in Operations
    BY DEF Begin
<1>4. /\ posted' \in [Reasons -> Nat]
      /\ posted'["MONTHLY_APPLY"] = posted["MONTHLY_APPLY"]
      /\ lock' = lock
      /\ UNCHANGED applyVars
    BY DEF WalletInv, Shape
<1> HIDE DEF q
<1> QED BY <1>1, <1>2, <1>3, <1>4, Elsewhere

-----------------------------------------------------------------------------
\* A crash rolls a submission back: its lock is released, its reads forgotten.
LEMMA CrashKeeps ==
    ASSUME WalletInv, NEW r \in Requests, Crash(r)
    PROVE  WalletInv'
<1>1. /\ DOMAIN req' = Requests
      /\ req'[r] = Idle
      /\ \A s \in Requests \ {r} : req'[s] = req[s]
    BY DEF WalletInv, Shape, Crash, Finish
<1>2. Shape'
    BY <1>1 DEF WalletInv, Shape, Crash, Idle, NoStreak, rows, applyVars
<1>3. HoldsLock'
    <2>1. ~Charged(r)'
        BY <1>1 DEF Charged, At, Idle
    <2>2. \A s \in Requests \ {r} : Charged(s)' <=> Charged(s)
        BY <1>1 DEF Charged, At
    <2> QED
        BY <2>1, <2>2, WalletAssumption DEF WalletInv, HoldsLock, Crash
<1>4. TasksCurrent'
    BY <1>1 DEF WalletInv, TasksCurrent, At, Crash, Idle, rows, applyVars
<1>5. ApplyRewardedOnce'
    BY DEF WalletInv, ApplyRewardedOnce, Crash, rows, applyVars
<1> QED BY <1>2, <1>3, <1>4, <1>5 DEF WalletInv

\* ensureWallet: a submission reads the balance before it takes the lock.
LEMMA ReadWalletKeeps ==
    ASSUME WalletInv, NEW r \in Requests, ReadWallet(r)
    PROVE  WalletInv'
<1> DEFINE q == [req[r] EXCEPT !.pc = "read", !.wallet = balance]
<1>1. /\ DOMAIN req[r] = DOMAIN Idle /\ req[r].op \in Operations \cup {"none"}
      /\ req[r].streak.claimed \subseteq Milestones
    BY DEF WalletInv, Shape
<1>2. /\ DOMAIN q = DOMAIN Idle /\ q.op = req[r].op /\ q.pc = "read"
      /\ q.streak = req[r].streak
    BY <1>1 DEF Idle
<1>3. req' = [req EXCEPT ![r] = q]
    BY DEF ReadWallet
<1>4. ~Charged(r)
    BY DEF ReadWallet, Charged, At
<1>5. /\ posted' \in [Reasons -> Nat]
      /\ posted'["MONTHLY_APPLY"] = posted["MONTHLY_APPLY"]
      /\ lock' = lock
      /\ UNCHANGED applyVars
    BY DEF WalletInv, Shape, ReadWallet, rows, applyVars
<1> HIDE DEF q
<1> QED BY <1>1, <1>2, <1>3, <1>4, <1>5, Elsewhere

-----------------------------------------------------------------------------
\* The charge: only a free row can be debited, and the debit takes it.
LEMMA DebitKeeps ==
    ASSUME WalletInv, NEW r \in Requests, DebitWallet(r)
    PROVE  WalletInv'
<1>1. /\ DOMAIN req' = Requests /\ DOMAIN req'[r] = DOMAIN Idle
      /\ req'[r].op = req[r].op /\ req'[r].pc = "debited"
      /\ req'[r].streak = req[r].streak
      /\ \A s \in Requests \ {r} : req'[s] = req[s]
    BY DEF WalletInv, Shape, DebitWallet, Idle
<1>2. Shape'
    BY <1>1 DEF WalletInv, Shape, DebitWallet, rows, applyVars
<1>3. HoldsLock'
    <2>1. Charged(r)'
        BY <1>1 DEF Charged, At, DebitWallet
    <2>2. \A s \in Requests \ {r} : ~Charged(s)'
        BY <1>1, WalletAssumption
        DEF WalletInv, HoldsLock, Charged, At, DebitWallet
    <2> QED BY <2>1, <2>2 DEF HoldsLock, DebitWallet
<1>4. TasksCurrent'
    BY <1>1 DEF WalletInv, TasksCurrent, At, DebitWallet, rows, applyVars
<1>5. ApplyRewardedOnce'
    BY DEF WalletInv, ApplyRewardedOnce, DebitWallet, rows, applyVars
<1> QED BY <1>2, <1>3, <1>4, <1>5 DEF WalletInv

\* The tasks are read under the lock.
LEMMA ReadTasksKeeps ==
    ASSUME WalletInv, NEW r \in Requests, ReadTasks(r)
    PROVE  WalletInv'
<1>1. /\ DOMAIN req' = Requests /\ DOMAIN req'[r] = DOMAIN Idle
      /\ req'[r].op = req[r].op /\ req'[r].pc = "tasks"
      /\ req'[r].streak = streak
      /\ req'[r].monthly <=> MonthOf(req'[r].day) \in applyMonths
      /\ \A s \in Requests \ {r} : req'[s] = req[s]
    BY DEF WalletInv, Shape, ReadTasks, Idle
<1>2. Shape'
    BY <1>1 DEF WalletInv, Shape, ReadTasks, rows, applyVars
<1>3. HoldsLock'
    <2>1. Charged(r) /\ Charged(r)'
        BY <1>1 DEF Charged, At, ReadTasks
    <2>2. \A s \in Requests \ {r} : Charged(s)' <=> Charged(s)
        BY <1>1 DEF Charged, At
    <2> QED BY <2>1, <2>2 DEF WalletInv, HoldsLock, ReadTasks
<1>4. TasksCurrent'
    <2>1. applyMonths' = applyMonths /\ streak' = streak
        BY DEF ReadTasks, rows, applyVars
    <2>2. ASSUME NEW s \in Requests, At(s, "PROPOSAL_SUBMIT", "tasks")'
          PROVE  /\ req'[s].streak = streak
                 /\ req'[s].monthly <=> MonthOf(req'[s].day) \in applyMonths
        <3>1. CASE s = r
            BY <1>1, <3>1
        <3>2. CASE s # r
            BY <1>1, <2>2, <3>2 DEF WalletInv, TasksCurrent, At
        <3> QED BY <3>1, <3>2
    <2> QED BY <2>1, <2>2 DEF TasksCurrent, MonthOf
<1>5. ApplyRewardedOnce'
    BY DEF WalletInv, ApplyRewardedOnce, ReadTasks, rows, applyVars
<1> QED BY <1>2, <1>3, <1>4, <1>5 DEF WalletInv

\* The commit: the request still holds the lock, so its reads are current; it
\* adds the month's row with its reward and claims each milestone it pays.
LEMMA CommitKeeps ==
    ASSUME WalletInv, NEW r \in Requests, CommitSubmit(r)
    PROVE  WalletInv'
<1> DEFINE month == MonthOf(req[r].day)
           earned == Earned(StreakOn(req[r].day, req[r].streak),
                            req[r].streak.claimed)
<1>1. /\ DOMAIN req' = Requests
      /\ req'[r] = Idle
      /\ \A s \in Requests \ {r} : req'[s] = req[s]
    BY DEF WalletInv, Shape, CommitSubmit, Finish
<1>2. /\ lock = r
      /\ req[r].streak = streak
      /\ req[r].monthly <=> month \in applyMonths
    BY DEF WalletInv, HoldsLock, TasksCurrent, Charged, At, CommitSubmit
<1>3. /\ applyMonths' = applyMonths \cup {month}
      /\ streak'.claimed = streak.claimed \cup earned
      /\ streakRows' = [m \in Milestones |->
                          streakRows[m] + IF m \in earned THEN 1 ELSE 0]
      /\ lock' = Nobody
    BY <1>2 DEF CommitSubmit
<1>4. earned = earned \cap (Milestones \ streak.claimed)
    BY <1>2 DEF Earned
<1>5. /\ posted' \in [Reasons -> Nat]
      /\ posted'["MONTHLY_APPLY"] = posted["MONTHLY_APPLY"]
                                    + IF month \in applyMonths THEN 0 ELSE 1
    <2>1. "MONTHLY_APPLY" \in Reasons
        BY DEF Reasons
    <2>2. posted \in [Reasons -> Nat]
        BY DEF WalletInv, Shape
    <2> QED BY <1>2, <2>1, <2>2 DEF CommitSubmit
<1> HIDE DEF month, earned
<1>6. Shape'
    <2>1. IsFiniteSet(applyMonths')
        BY <1>3, FS_AddElement DEF WalletInv, Shape
    <2>2. streakRows' \in [Milestones -> Nat]
        BY <1>3 DEF WalletInv, Shape
    <2>3. streak'.claimed \subseteq Milestones
        BY <1>3, <1>4 DEF WalletInv, Shape
    <2> QED
        BY <1>1, <1>5, <2>1, <2>2, <2>3 DEF WalletInv, Shape, Idle, NoStreak
<1>7. \A s \in Requests : ~Charged(s)'
    BY <1>1, <1>2 DEF WalletInv, HoldsLock, Charged, At, Idle
<1>8. HoldsLock' /\ TasksCurrent'
    BY <1>3, <1>7, WalletAssumption DEF HoldsLock, TasksCurrent, Charged, At
<1>9. ApplyRewardedOnce'
    <2>1. posted'["MONTHLY_APPLY"] = Cardinality(applyMonths')
        <3>1. IsFiniteSet(applyMonths)
              /\ posted["MONTHLY_APPLY"] = Cardinality(applyMonths)
            BY DEF WalletInv, Shape, ApplyRewardedOnce
        <3>2. Cardinality(applyMonths \cup {month})
                = IF month \in applyMonths THEN Cardinality(applyMonths)
                                           ELSE Cardinality(applyMonths) + 1
            BY <3>1, FS_AddElement
        <3>3. Cardinality(applyMonths) \in Nat
            BY <3>1, FS_CardinalityType
        <3> QED BY <1>3, <1>5, <3>1, <3>2, <3>3
    <2>2. ASSUME NEW m \in Milestones
          PROVE  streakRows'[m] = IF m \in streak'.claimed THEN 1 ELSE 0
        BY <1>3, <1>4 DEF WalletInv, ApplyRewardedOnce
    <2> QED BY <2>1, <2>2 DEF ApplyRewardedOnce
<1> QED BY <1>6, <1>8, <1>9 DEF WalletInv

-----------------------------------------------------------------------------
\* No other reward is posted as a month's: the calls have reasons of their own.
LEMMA PostKeeps ==
    ASSUME WalletInv, NEW r \in Requests, PostTransaction(r)
    PROVE  WalletInv'
<1>1. /\ posted' \in [Reasons -> Nat]
      /\ posted'["MONTHLY_APPLY"] = posted["MONTHLY_APPLY"]
    <2>1. posted \in [Reasons -> Nat] /\ req[r].op # "MONTHLY_APPLY"
        BY WalletAssumption DEF WalletInv, Shape, OneTime
    <2>2. posted' = [posted EXCEPT ![req[r].op] = posted[req[r].op] + 1]
        BY DEF PostTransaction
    <2>3. "MONTHLY_APPLY" \in Reasons
        BY DEF Reasons
    <2> DEFINE op == req[r].op
    <2> HIDE DEF op
    <2>4. /\ posted' = [posted EXCEPT ![op] = posted[op] + 1]
          /\ op # "MONTHLY_APPLY"
        BY <2>1, <2>2 DEF op
    <2>5. CASE op \in Reasons
        BY <2>1, <2>3, <2>4, <2>5
    <2>6. CASE op \notin Reasons
        BY <2>1, <2>3, <2>4, <2>6
    <2> QED BY <2>5, <2>6
<1>2. ~Charged(r)
    BY DEF PostTransaction, Charged, At
<1> QED
    BY <1>1, <1>2, MovesOn DEF PostTransaction, Finish, taskVars, applyVars

\* A purchase posts its own row and no reward.
LEMMA PurchaseKeeps ==
    ASSUME WalletInv, NEW r \in Requests, CommitPurchase(r)
    PROVE  WalletInv'
<1>1. /\ posted' \in [Reasons -> Nat]
      /\ posted'["MONTHLY_APPLY"] = posted["MONTHLY_APPLY"]
    BY DEF WalletInv, Shape, CommitPurchase, Reasons
<1>2. ~Charged(r)
    BY DEF CommitPurchase, Charged, At
<1> QED
    BY <1>1, <1>2, MovesOn DEF CommitPurchase, Finish, applyVars

\* The steps between two statements of the other calls.
LEMMA StatementKeeps ==
    ASSUME WalletInv, NEW r \in Requests,
           \/ WriteWallet(r) \/ MarkShare(r) \/ MarkLoginDay(r)
           \/ MarkLoginMonth(r) \/ ConfirmJob(r) \/ ConfirmAgain(r)
           \/ CountJobs(r) \/ MarkOneTime(r)
    PROVE  WalletInv'
<1>1. posted \in [Reasons -> Nat]
    BY DEF WalletInv, Shape
<1>2. ~Charged(r)
    BY WalletAssumption DEF WriteWallet, MarkShare, MarkLoginDay,
       MarkLoginMonth, ConfirmJob, ConfirmAgain, CountJobs, MarkOneTime, Charged,
       At, OneTime
<1>3. CASE WriteWallet(r)
    <2>1. /\ req' = [req EXCEPT ![r].pc = "written"]
          /\ posted' = posted /\ lock' = lock /\ UNCHANGED applyVars
        BY <1>3 DEF WriteWallet, Goto
    <2> QED BY <1>1, <1>2, <2>1, MovesOn
<1>4. CASE MarkShare(r)
    <2>1. /\ req' = [req EXCEPT ![r].pc = "credit"]
          /\ posted' = posted /\ lock' = lock /\ UNCHANGED applyVars
        BY <1>4 DEF MarkShare, Goto
    <2> QED BY <1>1, <1>2, <2>1, MovesOn
<1>5. CASE MarkLoginDay(r)
    BY <1>1, <1>2, <1>5, MovesOn DEF MarkLoginDay, Goto, Finish
<1>6. CASE MarkLoginMonth(r)
    <2>1. /\ req' = [req EXCEPT ![r].pc = "credit"]
          /\ posted' = posted /\ lock' = lock /\ UNCHANGED applyVars
        BY <1>6 DEF MarkLoginMonth, Goto
    <2> QED BY <1>1, <1>2, <2>1, MovesOn
<1>7. CASE CountJobs(r)
    BY <1>1, <1>2, <1>7, MovesOn DEF CountJobs, Goto, Finish, rows
<1>8. CASE MarkOneTime(r)
    <2>1. /\ req' = [req EXCEPT ![r].pc = "credit"]
          /\ posted' = posted /\ lock' = lock /\ UNCHANGED applyVars
        BY <1>8 DEF MarkOneTime, Goto
    <2> QED BY <1>1, <1>2, <2>1, MovesOn
<1>9. CASE ConfirmJob(r)
    <2>1. /\ req' = [req EXCEPT ![r].pc = "count"]
          /\ posted' = posted /\ lock' = lock /\ UNCHANGED applyVars
        BY <1>9 DEF ConfirmJob, Goto
    <2> QED BY <1>1, <1>2, <2>1, MovesOn
<1>10. CASE ConfirmAgain(r)
    <2>1. /\ req' = [req EXCEPT ![r].pc = "count"]
          /\ posted' = posted /\ lock' = lock /\ UNCHANGED applyVars
        BY <1>10 DEF ConfirmAgain, Goto, rows
    <2> QED BY <1>1, <1>2, <2>1, MovesOn
<1> QED BY <1>3, <1>4, <1>5, <1>6, <1>7, <1>8, <1>9, <1>10

\* The checks with which a call starts.
LEMMA StartKeeps ==
    ASSUME WalletInv, NEW r \in Requests,
           \/ BeginPurchase(r) \/ BeginShare(r) \/ BeginLogin(r)
           \/ BeginConfirm(r) \/ BeginSubmit(r)
           \/ \E task \in OneTime : BeginOneTime(r, task)
    PROVE  WalletInv'
<1>1. CASE BeginPurchase(r)
    <2>1. /\ Begin(r, "PURCHASE", "credit", FALSE, 0)
          /\ posted' = posted /\ lock' = lock /\ UNCHANGED applyVars
        BY <1>1 DEF BeginPurchase, rows
    <2> QED BY <2>1, Begins
<1>2. CASE BeginShare(r)
    <2>1. /\ Begin(r, "SOCIAL_SHARE", "mark", FALSE,
                shares[MonthOf(today)])
          /\ posted' = posted /\ lock' = lock /\ UNCHANGED applyVars
        BY <1>2 DEF BeginShare, rows
    <2> QED BY <2>1, Begins
<1>3. CASE BeginLogin(r)
    <2>1. /\ Begin(r, "DAILY_LOGIN", "mark", FALSE,
                logins[MonthOf(today)])
          /\ posted' = posted /\ lock' = lock /\ UNCHANGED applyVars
        BY <1>3 DEF BeginLogin, rows
    <2> QED BY <2>1, Begins
<1>4. CASE BeginConfirm(r)
    BY <1>4, Begins DEF BeginConfirm, rows
<1>5. CASE BeginSubmit(r)
    BY <1>5, Begins DEF BeginSubmit, rows
<1>6. CASE \E task \in OneTime : BeginOneTime(r, task)
    <2>1. PICK task \in OneTime : BeginOneTime(r, task)
        BY <1>6
    <2>2. /\ Begin(r, task, "mark", FALSE, 0)
          /\ posted' = posted /\ lock' = lock /\ UNCHANGED applyVars
        BY <2>1 DEF BeginOneTime, rows
    <2> QED BY <2>2, Begins
<1> QED BY <1>1, <1>2, <1>3, <1>4, <1>5, <1>6

-----------------------------------------------------------------------------
\* Every step keeps the invariant.
LEMMA NextWallet == WalletInv /\ [Next]_vars => WalletInv'
<1> SUFFICES ASSUME WalletInv, [Next]_vars PROVE WalletInv'
    OBVIOUS
<1>1. CASE Tick \/ UNCHANGED vars
    <2>1. UNCHANGED <<posted, applyVars, req, lock>>
        BY <1>1 DEF Tick, vars, rows
    <2> QED
        BY <2>1 DEF WalletInv, Shape, HoldsLock, TasksCurrent, Charged, At,
           ApplyRewardedOnce, applyVars, MonthOf
<1>2. CASE \E r \in Requests : Crash(r)
    BY <1>2, CrashKeeps
<1>3. CASE \E r \in Requests : ReadWallet(r) \/ PostTransaction(r)
                               \/ CommitPurchase(r)
    BY <1>3, ReadWalletKeeps, PostKeeps, PurchaseKeeps
<1>4. CASE \E r \in Requests :
            \/ WriteWallet(r) \/ MarkShare(r) \/ MarkLoginDay(r)
            \/ MarkLoginMonth(r) \/ ConfirmJob(r) \/ ConfirmAgain(r)
            \/ CountJobs(r) \/ MarkOneTime(r)
    BY <1>4, StatementKeeps
<1>5. CASE \E r \in Requests :
            \/ BeginPurchase(r) \/ BeginShare(r) \/ BeginLogin(r)
            \/ BeginConfirm(r) \/ BeginSubmit(r)
            \/ \E task \in OneTime : BeginOneTime(r, task)
    BY <1>5, StartKeeps
<1>6. CASE \E r \in Requests :
            DebitWallet(r) \/ ReadTasks(r) \/ CommitSubmit(r)
    BY <1>6, DebitKeeps, ReadTasksKeeps, CommitKeeps
<1> QED BY <1>1, <1>2, <1>3, <1>4, <1>5, <1>6 DEF Next

\* onProposalSubmitted checks its tasks with no lock of its own, and yet no
\* month and no milestone is rewarded twice, whatever runs beside it.
THEOREM RewardedOnce == Spec => []ApplyRewardedOnce
<1>1. WalletInv => ApplyRewardedOnce
    BY DEF WalletInv
<1> QED BY InitWallet, NextWallet, <1>1, PTL DEF Spec

-----------------------------------------------------------------------------
(***************************************************************************)
(* The streak                                                              *)
(***************************************************************************)
\* What the incremental streak knows of the days with a proposal: its last
\* day is the latest of them, and its length is that of the longest run that
\* ends there.
StreakOfApplied ==
    /\ streak.days \in Nat /\ streak.last \in Nat
    /\ applied = {} <=> streak.last = 0
    /\ applied # {} =>
        /\ streak.days > 0 /\ streak.last \in applied
        /\ \A day \in applied : day <= streak.last
        /\ Run(streak.last, streak.days) /\ ~Run(streak.last, streak.days + 1)

ClaimedByRun ==
    \A m \in Milestones : m \in streak.claimed
                           <=> \E day \in applied : Run(day, m)

\* A submission that holds the lock commits a day that is not before the last.
DaysInOrder ==
    /\ today \in Nat \ {0} /\ applied \subseteq 1..today
    /\ \A r \in Requests : At(r, "PROPOSAL_SUBMIT", "tasks") =>
          req[r].day \in 1..today /\ streak.last <= req[r].day

StreakInv == StreakOfApplied /\ ClaimedByRun /\ DaysInOrder

LEMMA InitStreak == Init => StreakInv
<1> SUFFICES ASSUME Init PROVE StreakInv
    OBVIOUS
<1>1. StreakOfApplied /\ ClaimedByRun
    BY DEF Init, NoStreak, StreakOfApplied, ClaimedByRun
<1>2. DaysInOrder
    BY DEF Init, DaysInOrder, At, Idle
<1> QED BY <1>1, <1>2 DEF StreakInv

\* A step that adds no application and reads no tasks.
LEMMA NoApplication ==
    ASSUME StreakInv, UNCHANGED <<streak, applied>>,
           today' \in {today, today + 1},
           \A r \in Requests : At(r, "PROPOSAL_SUBMIT", "tasks")' =>
              req'[r] = req[r]
    PROVE  StreakInv'
<1>1. StreakOfApplied'
    BY DEF StreakInv, StreakOfApplied, Run
<1>2. ClaimedByRun'
    BY DEF StreakInv, ClaimedByRun, Run
<1>3. DaysInOrder'
    <2>1. today' \in Nat \ {0} /\ today <= today' /\ applied' \subseteq 1..today'
        BY DEF StreakInv, DaysInOrder
    <2>2. ASSUME NEW r \in Requests, At(r, "PROPOSAL_SUBMIT", "tasks")'
          PROVE  req'[r].day \in 1..today' /\ streak'.last <= req'[r].day
        <3>1. req'[r] = req[r] /\ At(r, "PROPOSAL_SUBMIT", "tasks")
            BY <2>2 DEF At
        <3> QED BY <2>1, <3>1 DEF StreakInv, DaysInOrder
    <2> QED BY <2>1, <2>2 DEF DaysInOrder
<1> QED BY <1>1, <1>2, <1>3 DEF StreakInv

\* Every call but a submission, and a submission until it has its charge.
LEMMA OtherCallsKeepStreak ==
    ASSUME WalletInv, StreakInv, NEW r \in Requests,
           \/ Crash(r) \/ ReadWallet(r) \/ WriteWallet(r) \/ PostTransaction(r)
           \/ BeginPurchase(r) \/ CommitPurchase(r)
           \/ BeginShare(r) \/ MarkShare(r)
           \/ BeginLogin(r) \/ MarkLoginDay(r) \/ MarkLoginMonth(r)
           \/ BeginConfirm(r) \/ ConfirmJob(r) \/ ConfirmAgain(r)
           \/ CountJobs(r) \/ MarkOneTime(r)
           \/ \E task \in OneTime : BeginOneTime(r, task)
           \/ BeginSubmit(r) \/ DebitWallet(r)
    PROVE  StreakInv'
<1>1. UNCHANGED <<today, streak, applied>>
    BY DEF Crash, ReadWallet, WriteWallet, PostTransaction, BeginPurchase,
       CommitPurchase, BeginShare, MarkShare, BeginLogin, MarkLoginDay,
       MarkLoginMonth, BeginConfirm, ConfirmJob, ConfirmAgain, CountJobs,
       MarkOneTime, BeginOneTime,
       BeginSubmit, DebitWallet, rows, applyVars
<1>2. /\ \A s \in Requests \ {r} : req'[s] = req[s]
      /\ req'[r].pc # "tasks"
    <2>1. DOMAIN req = Requests /\ DOMAIN req[r] = DOMAIN Idle
        BY DEF WalletInv, Shape
    <2>2. CASE \/ Crash(r) \/ PostTransaction(r) \/ CommitPurchase(r)
        BY <2>1, <2>2
        DEF Crash, PostTransaction, CommitPurchase, Finish, Idle
    <2>3. CASE \/ WriteWallet(r) \/ MarkShare(r) \/ MarkLoginDay(r)
               \/ MarkLoginMonth(r) \/ ConfirmJob(r) \/ ConfirmAgain(r)
               \/ CountJobs(r) \/ MarkOneTime(r)
        BY <2>1, <2>3
        DEF WriteWallet, MarkShare, MarkLoginDay, MarkLoginMonth, ConfirmJob,
            ConfirmAgain, CountJobs, MarkOneTime, Goto, Finish, Idle
    <2>4. CASE ReadWallet(r) \/ DebitWallet(r)
        BY <2>1, <2>4 DEF ReadWallet, DebitWallet, Idle
    <2>5. CASE \/ BeginPurchase(r) \/ BeginShare(r) \/ BeginLogin(r)
               \/ BeginConfirm(r) \/ BeginSubmit(r)
               \/ \E task \in OneTime : BeginOneTime(r, task)
        <3>1. ASSUME NEW op, NEW pc \in {"credit", "mark", "confirm"},
                     NEW boost, NEW progress, Begin(r, op, pc, boost, progress)
              PROVE  /\ \A s \in Requests \ {r} : req'[s] = req[s]
                     /\ req'[r].pc # "tasks"
            BY <2>1, <3>1 DEF Begin, Idle
        <3>2. CASE BeginPurchase(r)
            BY <3>1, <3>2 DEF BeginPurchase
        <3>3. CASE BeginShare(r)
            BY <3>1, <3>3 DEF BeginShare
        <3>4. CASE BeginLogin(r)
            BY <3>1, <3>4 DEF BeginLogin
        <3>5. CASE BeginConfirm(r) \/ BeginSubmit(r)
            BY <3>1, <3>5 DEF BeginConfirm, BeginSubmit
        <3>6. CASE \E task \in OneTime : BeginOneTime(r, task)
            BY <3>1, <3>6 DEF BeginOneTime
        <3> QED BY <2>5, <3>2, <3>3, <3>4, <3>5, <3>6
    <2> QED BY <2>2, <2>3, <2>4, <2>5
<1> QED BY <1>1, <1>2, NoApplication DEF At

LEMMA ReadTasksKeepsStreak ==
    ASSUME WalletInv, StreakInv, NEW r \in Requests, ReadTasks(r)
    PROVE  StreakInv'
<1>1. /\ req'[r].day = today
      /\ \A s \in Requests \ {r} : req'[s] = req[s]
      /\ UNCHANGED <<today, streak, applied>>
    BY DEF WalletInv, Shape, ReadTasks, Idle, rows, applyVars
<1>2. today \in 1..today /\ streak.last <= today
    BY DEF StreakInv, StreakOfApplied, DaysInOrder
<1>3. StreakOfApplied' /\ ClaimedByRun'
    BY <1>1 DEF StreakInv, StreakOfApplied, ClaimedByRun, Run
<1>4. DaysInOrder'
    BY <1>1, <1>2 DEF StreakInv, DaysInOrder, At
<1> QED BY <1>3, <1>4 DEF StreakInv

\* Run, of any set of days.
RunIn(days, last, length) == (last - length + 1)..last \subseteq days

\* updateApplicationStreak: on a day that is not before the last one, the
\* length it computes is that of the longest run that ends on the day.
LEMMA StreakGrows ==
    ASSUME StreakOfApplied, applied \subseteq Nat \ {0},
           NEW day \in Nat \ {0}, streak.last <= day,
           NEW days, days = StreakOn(day, streak), applied' = applied \cup {day}
    PROVE  /\ days \in Nat \ {0}
           /\ RunIn(applied', day, days) /\ ~RunIn(applied', day, days + 1)
<1>1. streak.last \in Nat /\ streak.days \in Nat
    BY DEF StreakOfApplied
<1>2. CASE streak.last = day
    <2>1. days = streak.days /\ applied # {} /\ applied' = applied
        BY <1>2 DEF StreakOn, StreakOfApplied
    <2> QED BY <1>2, <2>1 DEF StreakOfApplied, Run, RunIn
<1>3. CASE streak.last = day - 1 /\ streak.last # 0
    <2>1. days = streak.days + 1 /\ applied # {} /\ day \notin applied
        BY <1>1, <1>3 DEF StreakOn, StreakOfApplied
    <2>2. RunIn(applied', day, days)
        BY <1>1, <1>3, <2>1 DEF StreakOfApplied, Run, RunIn
    <2>3. PICK gap \in (streak.last - streak.days)..streak.last : gap \notin applied
        BY <1>1, <2>1 DEF StreakOfApplied, Run, RunIn
    <2>4. gap \in (day - days)..day /\ gap \notin applied'
        BY <1>1, <1>3, <2>1, <2>3
    <2> QED BY <1>1, <2>1, <2>2, <2>4 DEF Run, RunIn
<1>4. CASE streak.last # day /\ ~(streak.last = day - 1 /\ streak.last # 0)
    <2>1. days = 1
        BY <1>4 DEF StreakOn
    <2>2. day - 1 \notin applied'
        BY <1>1, <1>4 DEF StreakOfApplied
    <2> QED BY <2>1, <2>2 DEF Run, RunIn
<1> QED BY <1>2, <1>3, <1>4

\* With that length at hand, the milestones it reaches are those of a run.
LEMMA RunsOf ==
    ASSUME NEW day \in Nat \ {0}, NEW days \in Nat \ {0},
           NEW S, RunIn(S, day, days), ~RunIn(S, day, days + 1),
           NEW m \in Nat \ {0}
    PROVE  RunIn(S, day, m) <=> m <= days
<1>1. CASE m <= days
    BY <1>1 DEF RunIn
<1>2. CASE days + 1 <= m
    BY <1>2 DEF RunIn
<1> QED BY <1>1, <1>2

\* The commit of a submission extends the streak, and claims a milestone when
\* the run that ends on its day is the first to reach it.
LEMMA CommitKeepsStreak ==
    ASSUME WalletInv, StreakInv, NEW r \in Requests, CommitSubmit(r)
    PROVE  StreakInv'
<1> DEFINE day == req[r].day
           days == StreakOn(day, streak)
<1>1. /\ req[r].streak = streak
      /\ day \in 1..today /\ streak.last <= day
      /\ today \in Nat \ {0} /\ applied \subseteq 1..today
    BY DEF WalletInv, TasksCurrent, At, CommitSubmit, StreakInv, DaysInOrder
<1>2. /\ streak' = [days |-> days, last |-> day,
                    claimed |-> streak.claimed \cup Earned(days, streak.claimed)]
      /\ applied' = applied \cup {day} /\ today' = today
    BY <1>1 DEF CommitSubmit
<1>3. /\ req'[r].pc = "idle"
      /\ \A s \in Requests \ {r} : req'[s] = req[s]
    BY DEF WalletInv, Shape, CommitSubmit, Finish, Idle
<1> HIDE DEF day
<1>4. day \in Nat \ {0} /\ applied \subseteq Nat \ {0}
    BY <1>1
<1>5. /\ days \in Nat \ {0}
      /\ RunIn(applied', day, days) /\ ~RunIn(applied', day, days + 1)
    BY <1>1, <1>2, <1>4, StreakGrows DEF StreakInv, days
<1> HIDE DEF days
<1>6. \A other \in applied : other <= day
    BY <1>1, <1>4 DEF StreakInv, StreakOfApplied
<1>7. StreakOfApplied'
    <2>1. /\ streak'.days = days /\ streak'.last = day
          /\ applied' # {} /\ day \in applied'
        BY <1>2
    <2>2. \A other \in applied' : other <= day
        BY <1>2, <1>4, <1>6
    <2> QED BY <1>4, <1>5, <2>1, <2>2 DEF StreakOfApplied, Run, RunIn
<1>8. ClaimedByRun'
    <2>1. ASSUME NEW m \in Milestones
          PROVE  m \in streak'.claimed <=> \E d \in applied' : RunIn(applied', d, m)
        <3>1. m \in Nat \ {0}
            BY WalletAssumption
        <3>2. RunIn(applied', day, m) <=> m <= days
            BY <1>4, <1>5, <3>1, RunsOf
        <3>3. m \in streak'.claimed <=> m \in streak.claimed \/ m <= days
            BY <1>2, <1>5, <3>1 DEF Earned
        <3>4. \A d \in applied \ {day} : RunIn(applied', d, m) <=> Run(d, m)
            BY <1>2, <1>4, <1>6, <3>1 DEF Run, RunIn
        <3>5. day \in applied /\ Run(day, m) => RunIn(applied', day, m)
            BY <1>2 DEF Run, RunIn
        <3>6. m \in streak.claimed <=> \E d \in applied : Run(d, m)
            BY DEF StreakInv, ClaimedByRun
        <3> QED BY <1>2, <3>2, <3>3, <3>4, <3>5, <3>6
    <2> QED BY <2>1 DEF ClaimedByRun, Run, RunIn
<1>9. DaysInOrder'
    <2>1. \A s \in Requests : ~At(s, "PROPOSAL_SUBMIT", "tasks")'
        BY <1>3 DEF WalletInv, HoldsLock, Charged, At, CommitSubmit
    <2> QED BY <1>1, <1>2, <2>1 DEF DaysInOrder
<1> QED BY <1>7, <1>8, <1>9 DEF StreakInv

LEMMA NextStreak == WalletInv /\ StreakInv /\ [Next]_vars => StreakInv'
<1> SUFFICES ASSUME WalletInv, StreakInv, [Next]_vars PROVE StreakInv'
    OBVIOUS
<1>1. CASE Tick \/ UNCHANGED vars
    <2>1. today' \in {today, today + 1} /\ UNCHANGED <<streak, applied, req>>
        BY <1>1 DEF Tick, vars, rows, applyVars
    <2> QED BY <2>1, NoApplication
<1>2. CASE \E r \in Requests : ReadTasks(r) \/ CommitSubmit(r)
    BY <1>2, ReadTasksKeepsStreak, CommitKeepsStreak
<1>3. CASE Next /\ ~Tick /\ ~\E r \in Requests : ReadTasks(r) \/ CommitSubmit(r)
    BY <1>3, OtherCallsKeepStreak DEF Next
<1> QED BY <1>1, <1>2, <1>3

LEMMA MaxOf ==
    ASSUME NEW S \in SUBSET Int, NEW last \in S, \A day \in S : day <= last
    PROVE  Max(S) = last
<1>1. \E x \in S : \A y \in S : x >= y
    OBVIOUS
<1>2. Max(S) \in S /\ \A y \in S : Max(S) >= y
    BY <1>1 DEF Max
<1>3. Max(S) \in Int /\ last \in Int /\ Max(S) >= last /\ Max(S) <= last
    BY <1>2
<1> QED BY <1>3

\* The streak kept incrementally is the run of days with a proposal, for any
\* number of overlapping submissions, any calendar and any milestones: two
\* applications on one day, a gap and a restart included.
THEOREM StreakIsKept == Spec => []StreakIsRun
<1>1. StreakInv => StreakIsRun
    <2> SUFFICES ASSUME StreakInv PROVE StreakIsRun
        OBVIOUS
    <2>1. applied # {} => streak.last = Max(applied)
        BY MaxOf DEF StreakInv, StreakOfApplied, DaysInOrder
    <2> QED BY <2>1 DEF StreakInv, StreakOfApplied, ClaimedByRun, StreakIsRun
<1> QED BY InitWallet, NextWallet, InitStreak, NextStreak, <1>1, PTL DEF Spec

-----------------------------------------------------------------------------
(***************************************************************************)
(* The first job's reward                                                  *)
(***************************************************************************)
\* The freelancer's completions do not overlap; anything else may.
OneCompletion == \A r, s \in Requests :
    req[r].op = "FIRST_JOB" /\ req[s].op = "FIRST_JOB" => r = s

Unrewarded == posted["FIRST_JOB"] = 0 /\ "FIRST_JOB" \notin done

\* Between completions the reward follows the count; during one, the count
\* that complete() reads tells whether it is the first.
Rewarded == IF jobs = 0 THEN Unrewarded ELSE posted["FIRST_JOB"] = 1

JobInv ==
    /\ jobs \in Nat
    /\ \A r \in Requests : req[r].op = "FIRST_JOB" =>
          \/ req[r].pc = "confirm" /\ req[r].progress \notin completed /\ Rewarded
          \/ /\ req[r].pc = "count" /\ jobs > 0
             /\ IF jobs = 1 THEN Unrewarded ELSE posted["FIRST_JOB"] = 1
          \/ /\ req[r].pc \in {"mark", "credit", "read", "written"}
             /\ jobs = 1 /\ posted["FIRST_JOB"] = 0
    /\ (\A r \in Requests : req[r].op # "FIRST_JOB") => Rewarded

LEMMA InitJob == Init => JobInv
BY DEF Init, JobInv, Rewarded, Unrewarded, Idle, Reasons, OneTime

\* A step that belongs to no completion.
NoCompletion(r) ==
    /\ jobs' = jobs /\ completed' = completed
    /\ posted'["FIRST_JOB"] = posted["FIRST_JOB"]
    /\ "FIRST_JOB" \in done' <=> "FIRST_JOB" \in done
    /\ \A s \in Requests \ {r} : req'[s] = req[s]
    /\ req[r].op # "FIRST_JOB" \/ req[r].pc = "idle"
    /\ req'[r].op # "FIRST_JOB"

LEMMA NotACompletion ==
    ASSUME JobInv, NEW r \in Requests, NoCompletion(r)
    PROVE  JobInv'
BY DEF NoCompletion, JobInv, Rewarded, Unrewarded

\* A step of the completion in flight: no other request is one.
LEMMA CompletionSteps ==
    ASSUME WalletInv, JobInv, OneCompletion, NEW r \in Requests,
           req[r].op = "FIRST_JOB",
           \/ ReadWallet(r) \/ WriteWallet(r) \/ PostTransaction(r)
           \/ ConfirmJob(r) \/ ConfirmAgain(r) \/ CountJobs(r) \/ MarkOneTime(r)
    PROVE  JobInv'
<1>1. /\ DOMAIN req = Requests /\ DOMAIN req[r] = DOMAIN Idle
      /\ posted \in [Reasons -> Nat] /\ "FIRST_JOB" \in Reasons
    BY DEF WalletInv, Shape, Reasons, OneTime
<1>2. \A s \in Requests \ {r} : req[s].op # "FIRST_JOB"
    BY DEF OneCompletion
<1>3. \A s \in Requests \ {r} : req'[s] = req[s]
    BY <1>1 DEF ReadWallet, WriteWallet, PostTransaction, ConfirmJob, ConfirmAgain,
       CountJobs, MarkOneTime, Goto, Finish
<1>4. jobs \in Nat /\ (~ConfirmJob(r) => jobs' = jobs)
    BY DEF JobInv, ReadWallet, WriteWallet, PostTransaction, ConfirmAgain, CountJobs,
       MarkOneTime, rows
<1>5. CASE ReadWallet(r) \/ WriteWallet(r) \/ MarkOneTime(r)
    <2>1. /\ req[r].pc \in {"credit", "read", "mark"}
          /\ req'[r].op = "FIRST_JOB"
          /\ req'[r].pc \in {"credit", "read", "written"}
          /\ posted' = posted
        BY <1>1, <1>5 DEF ReadWallet, WriteWallet, MarkOneTime, Goto, rows, Idle
    <2>2. ~ConfirmJob(r)
        BY <2>1 DEF ConfirmJob, At
    <2> QED BY <1>2, <1>3, <1>4, <2>1, <2>2 DEF JobInv
<1>6. CASE PostTransaction(r)
    <2>1. /\ req[r].pc = "written" /\ req'[r] = Idle
          /\ posted'["FIRST_JOB"] = posted["FIRST_JOB"] + 1
        BY <1>1, <1>6 DEF PostTransaction, Finish
    <2>2. ~ConfirmJob(r)
        BY <2>1 DEF ConfirmJob, At
    <2> QED BY <1>2, <1>3, <1>4, <2>1, <2>2 DEF JobInv, Rewarded, Idle
<1>7. CASE CountJobs(r)
    <2>1. req[r].pc = "count" /\ posted' = posted /\ done' = done /\ ~ConfirmJob(r)
        BY <1>7 DEF CountJobs, ConfirmJob, At, rows, taskVars
    <2>2. jobs > 0 /\ IF jobs = 1 THEN Unrewarded ELSE posted["FIRST_JOB"] = 1
        BY <2>1 DEF JobInv
    <2>3. CASE jobs = 1
        <3>1. req'[r].op = "FIRST_JOB" /\ req'[r].pc = "mark"
            BY <1>1, <1>7, <2>2, <2>3 DEF CountJobs, Unrewarded, Goto, Idle
        <3> QED BY <1>2, <1>3, <1>4, <2>1, <2>2, <2>3, <3>1 DEF JobInv, Unrewarded
    <2>4. CASE jobs # 1
        <3>1. req'[r] = Idle
            BY <1>1, <1>7, <2>4 DEF CountJobs, Finish
        <3> QED BY <1>2, <1>3, <1>4, <2>1, <2>2, <2>4, <3>1 DEF JobInv, Rewarded, Idle
    <2> QED BY <2>3, <2>4
<1>8. CASE ConfirmJob(r)
    <2>1. /\ jobs' = jobs + 1 /\ posted' = posted /\ done' = done
          /\ req[r].pc = "confirm"
          /\ req'[r].op = "FIRST_JOB" /\ req'[r].pc = "count"
        BY <1>1, <1>8 DEF ConfirmJob, At, Goto, taskVars, Idle
    <2>2. Rewarded
        BY <2>1 DEF JobInv
    <2>3. jobs' > 0 /\ IF jobs' = 1 THEN Unrewarded' ELSE posted'["FIRST_JOB"] = 1
        BY <1>4, <2>1, <2>2 DEF Rewarded, Unrewarded
    <2>4. jobs' \in Nat
        BY <1>4, <2>1
    <2> QED BY <1>2, <1>3, <2>1, <2>3, <2>4 DEF JobInv
<1>9. ~ConfirmAgain(r)
    BY DEF ConfirmAgain, At, JobInv
<1> QED BY <1>5, <1>6, <1>7, <1>8, <1>9

\* A confirmation begins for a project that is not completed.
LEMMA CompletionBegins ==
    ASSUME WalletInv, JobInv, OneCompletion', NEW r \in Requests, BeginConfirm(r)
    PROVE  JobInv'
<1>1. /\ DOMAIN req = Requests
      /\ req[r].pc = "idle" /\ req'[r].op = "FIRST_JOB" /\ req'[r].pc = "confirm"
      /\ req'[r].progress \notin completed'
      /\ \A s \in Requests \ {r} : req'[s] = req[s]
      /\ jobs' = jobs /\ posted' = posted /\ done' = done
    BY DEF WalletInv, Shape, BeginConfirm, Begin, Idle, rows, taskVars
<1>2. \A s \in Requests : req[s].op # "FIRST_JOB"
    BY <1>1 DEF OneCompletion, JobInv
<1>3. \A s \in Requests \ {r} : req'[s].op # "FIRST_JOB"
    BY <1>1, <1>2
<1> QED BY <1>1, <1>2, <1>3 DEF JobInv, Rewarded, Unrewarded

\* Every other step of a request.
LEMMA OthersComplete ==
    ASSUME WalletInv, NEW r \in Requests,
           \/ BeginPurchase(r) \/ CommitPurchase(r)
           \/ BeginShare(r) \/ MarkShare(r)
           \/ BeginLogin(r) \/ MarkLoginDay(r) \/ MarkLoginMonth(r)
           \/ \E task \in OneTime : BeginOneTime(r, task)
           \/ BeginSubmit(r) \/ DebitWallet(r) \/ ReadTasks(r) \/ CommitSubmit(r)
           \/ /\ req[r].op # "FIRST_JOB"
              /\ \/ ReadWallet(r) \/ WriteWallet(r) \/ PostTransaction(r)
                 \/ MarkOneTime(r)
    PROVE  NoCompletion(r)
<1>1. /\ DOMAIN req = Requests /\ DOMAIN req[r] = DOMAIN Idle
      /\ posted \in [Reasons -> Nat] /\ "FIRST_JOB" \in Reasons
    BY DEF WalletInv, Shape, Reasons, OneTime
<1>2. jobs' = jobs /\ completed' = completed
    BY DEF BeginPurchase, CommitPurchase, BeginShare, MarkShare, BeginLogin,
       MarkLoginDay, MarkLoginMonth, BeginOneTime, BeginSubmit, DebitWallet,
       ReadTasks, CommitSubmit, ReadWallet, WriteWallet, PostTransaction,
       MarkOneTime, rows
<1>3. CASE \/ BeginPurchase(r) \/ BeginShare(r) \/ BeginLogin(r) \/ BeginSubmit(r)
           \/ \E task \in OneTime : BeginOneTime(r, task)
    <2>1. ASSUME NEW op, op # "FIRST_JOB", NEW pc, NEW boost, NEW progress,
                 Begin(r, op, pc, boost, progress)
          PROVE  /\ \A s \in Requests \ {r} : req'[s] = req[s]
                 /\ req[r].pc = "idle" /\ req'[r].op # "FIRST_JOB"
        BY <1>1, <2>1 DEF Begin, Idle
    <2>2. CASE BeginPurchase(r)
        BY <1>2, <2>1, <2>2 DEF BeginPurchase, NoCompletion, taskVars
    <2>3. CASE BeginShare(r)
        BY <1>2, <2>1, <2>3 DEF BeginShare, NoCompletion, rows, taskVars
    <2>4. CASE BeginLogin(r)
        BY <1>2, <2>1, <2>4 DEF BeginLogin, NoCompletion, rows, taskVars
    <2>5. CASE BeginSubmit(r)
        BY <1>2, <2>1, <2>5 DEF BeginSubmit, NoCompletion, rows, taskVars
    <2>6. CASE \E task \in OneTime : BeginOneTime(r, task)
        <3>1. PICK task \in {"PROFILE_COMPLETE", "FIRST_PORTFOLIO"} :
                    BeginOneTime(r, task)
            BY <2>6 DEF BeginOneTime
        <3> QED
            BY <1>2, <2>1, <3>1 DEF BeginOneTime, NoCompletion, rows, taskVars
    <2> QED BY <1>3, <2>2, <2>3, <2>4, <2>5, <2>6
<1>4. CASE \/ MarkShare(r) \/ MarkLoginDay(r) \/ MarkLoginMonth(r)
           \/ DebitWallet(r) \/ ReadTasks(r)
           \/ req[r].op # "FIRST_JOB" /\ (ReadWallet(r) \/ WriteWallet(r))
    <2>1. /\ req[r].op # "FIRST_JOB" /\ req'[r].op # "FIRST_JOB"
          /\ \A s \in Requests \ {r} : req'[s] = req[s]
        BY <1>1, <1>4
        DEF MarkShare, MarkLoginDay, MarkLoginMonth, DebitWallet, ReadTasks,
            ReadWallet, WriteWallet, At, Goto, Finish, Idle
    <2>2. posted' = posted /\ done' = done
        BY <1>4
        DEF MarkShare, MarkLoginDay, MarkLoginMonth, DebitWallet, ReadTasks,
            ReadWallet, WriteWallet, rows, taskVars
    <2> QED BY <1>2, <2>1, <2>2 DEF NoCompletion
<1>5. CASE req[r].op # "FIRST_JOB" /\ (PostTransaction(r) \/ MarkOneTime(r))
    <2>1. /\ req'[r].op # "FIRST_JOB"
          /\ \A s \in Requests \ {r} : req'[s] = req[s]
        BY <1>1, <1>5 DEF PostTransaction, MarkOneTime, Goto, Finish, Idle
    <2>2. posted'["FIRST_JOB"] = posted["FIRST_JOB"]
        <3> DEFINE op == req[r].op
        <3> HIDE DEF op
        <3>1. posted' = [posted EXCEPT ![op] = posted[op] + 1] \/ posted' = posted
            BY <1>5 DEF PostTransaction, MarkOneTime, op
        <3>2. op # "FIRST_JOB"
            BY <1>5 DEF op
        <3> QED BY <1>1, <3>1, <3>2
    <2>3. "FIRST_JOB" \in done' <=> "FIRST_JOB" \in done
        BY <1>5 DEF PostTransaction, MarkOneTime, taskVars
    <2> QED BY <1>2, <1>5, <2>1, <2>2, <2>3 DEF NoCompletion
<1>6. CASE CommitPurchase(r) \/ CommitSubmit(r)
    <2>1. /\ req[r].op # "FIRST_JOB" /\ req'[r].op # "FIRST_JOB"
          /\ \A s \in Requests \ {r} : req'[s] = req[s]
        BY <1>1, <1>6 DEF CommitPurchase, CommitSubmit, At, Finish, Idle
    <2>2. posted'["FIRST_JOB"] = posted["FIRST_JOB"] /\ done' = done
        <3>1. CASE CommitPurchase(r)
            BY <1>1, <3>1 DEF CommitPurchase, taskVars
        <3>2. CASE CommitSubmit(r)
            BY <1>1, <3>2 DEF CommitSubmit, taskVars
        <3> QED BY <1>6, <3>1, <3>2
    <2> QED BY <1>2, <2>1, <2>2 DEF NoCompletion
<1> QED BY <1>3, <1>4, <1>5, <1>6

LEMMA NextJob ==
    Crashes = FALSE =>
        (WalletInv /\ JobInv /\ OneCompletion /\ OneCompletion' /\ [Next]_vars => JobInv')
<1> SUFFICES ASSUME Crashes = FALSE, WalletInv, JobInv, OneCompletion,
                    OneCompletion', [Next]_vars
             PROVE  JobInv'
    OBVIOUS
<1>1. CASE Tick \/ UNCHANGED vars
    BY <1>1 DEF Tick, vars, rows, taskVars, JobInv, Rewarded, Unrewarded
<1>2. CASE \E r \in Requests :
            \/ ReadWallet(r) \/ WriteWallet(r) \/ PostTransaction(r)
            \/ ConfirmJob(r) \/ ConfirmAgain(r) \/ CountJobs(r) \/ MarkOneTime(r)
    <2>1. PICK r \in Requests :
            \/ ReadWallet(r) \/ WriteWallet(r) \/ PostTransaction(r)
            \/ ConfirmJob(r) \/ ConfirmAgain(r) \/ CountJobs(r) \/ MarkOneTime(r)
        BY <1>2
    <2>2. CASE req[r].op = "FIRST_JOB"
        BY <2>1, <2>2, CompletionSteps
    <2>3. CASE req[r].op # "FIRST_JOB"
        BY <2>1, <2>3, OthersComplete, NotACompletion
           DEF ConfirmJob, ConfirmAgain, CountJobs, At
    <2> QED BY <2>2, <2>3
<1>3. CASE \E r \in Requests : BeginConfirm(r)
    BY <1>3, CompletionBegins
<1>4. CASE \E r \in Requests :
            \/ BeginPurchase(r) \/ CommitPurchase(r)
            \/ BeginShare(r) \/ MarkShare(r)
            \/ BeginLogin(r) \/ MarkLoginDay(r) \/ MarkLoginMonth(r)
            \/ \E task \in OneTime : BeginOneTime(r, task)
            \/ BeginSubmit(r) \/ DebitWallet(r) \/ ReadTasks(r) \/ CommitSubmit(r)
    BY <1>4, OthersComplete, NotACompletion
<1>5. \A r \in Requests : ~Crash(r)
    BY DEF Crash
<1> QED BY <1>1, <1>2, <1>3, <1>4, <1>5 DEF Next

\* A freelancer's first project is rewarded once, whatever else he does at the
\* same time, as long as his completions take turns and no request dies:
\* complete() recognises the first by a count it reads after its transaction.
THEOREM FirstJobIsRewarded ==
    ASSUME Crashes = FALSE
    PROVE  Spec /\ []OneCompletion => []FirstJobRewarded
<1>1. JobInv => FirstJobRewarded
    BY DEF JobInv, Rewarded, FirstJobRewarded, AllIdle
<1>2. WalletInv /\ JobInv /\ OneCompletion /\ OneCompletion' /\ [Next]_vars => JobInv'
    BY NextJob
<1> QED BY InitWallet, NextWallet, InitJob, <1>1, <1>2, PTL DEF Spec

\* No two confirmations of one project are in flight; of two projects they may be.
OneEach == \A r, s \in Requests :
    req[r].op = "FIRST_JOB" /\ req[s].op = "FIRST_JOB"
        /\ req[r].progress = req[s].progress => r = s

Counted(r) == req[r].op = "FIRST_JOB" /\ req[r].pc # "confirm"

\* Then at most one request has counted the first job: a second begins by counting one
\* more, however completions overlap and wherever a process dies.
OnceInv ==
    /\ jobs \in Nat
    /\ posted["FIRST_JOB"] <= 1
    /\ jobs = 0 => posted["FIRST_JOB"] = 0
    /\ \A r \in Requests : req[r].op = "FIRST_JOB" /\ req[r].pc = "confirm" =>
          req[r].progress \notin completed
    /\ \A r \in Requests : Counted(r) =>
          /\ jobs > 0 /\ req[r].pc # "idle"
          /\ req[r].pc # "count" \/ jobs = 1 => posted["FIRST_JOB"] = 0
    /\ \A r, s \in Requests :
          Counted(r) /\ Counted(s) /\ r # s =>
              jobs > 1 /\ (req[r].pc = "count" \/ req[s].pc = "count")

LEMMA CompletionCounts ==
    ASSUME WalletInv, OnceInv, NEW r \in Requests, Counted(r),
           \/ ReadWallet(r) \/ WriteWallet(r) \/ PostTransaction(r)
           \/ CountJobs(r) \/ MarkOneTime(r)
    PROVE  OnceInv'
<1>1. /\ DOMAIN req = Requests /\ DOMAIN req[r] = DOMAIN Idle
      /\ posted \in [Reasons -> Nat] /\ "FIRST_JOB" \in Reasons
      /\ req[r].op = "FIRST_JOB"
    BY DEF WalletInv, Shape, Reasons, OneTime, Counted
<1>2. \A s \in Requests \ {r} : req'[s] = req[s]
    BY <1>1 DEF ReadWallet, WriteWallet, PostTransaction, CountJobs,
       MarkOneTime, Goto, Finish
<1>3. jobs' = jobs /\ completed' = completed
    BY DEF ReadWallet, WriteWallet, PostTransaction, CountJobs, MarkOneTime, rows
<1>4. CASE ReadWallet(r) \/ WriteWallet(r) \/ MarkOneTime(r)
    <2>1. /\ req[r].pc \in {"credit", "read", "mark"}
          /\ req'[r].op = "FIRST_JOB"
          /\ req'[r].pc \in {"credit", "read", "written"}
          /\ posted' = posted
        BY <1>1, <1>4 DEF ReadWallet, WriteWallet, MarkOneTime, Goto, rows, Idle
    <2> QED BY <1>2, <1>3, <2>1 DEF OnceInv, Counted
<1>5. CASE PostTransaction(r)
    <2>1. /\ req[r].pc = "written" /\ req'[r] = Idle
          /\ posted'["FIRST_JOB"] = posted["FIRST_JOB"] + 1
        BY <1>1, <1>5 DEF PostTransaction, Finish
    <2>2. jobs > 0 /\ posted["FIRST_JOB"] = 0
        BY <2>1 DEF OnceInv
    <2>3. \A s \in Requests : Counted(s)' =>
              s # r /\ jobs > 1 /\ req[s].pc = "count" /\ req'[s] = req[s]
        BY <1>2, <2>1 DEF OnceInv, Counted, Idle
    <2> QED BY <1>2, <1>3, <2>1, <2>2, <2>3 DEF OnceInv, Counted, Idle
<1>6. CASE CountJobs(r)
    <2>1. req[r].pc = "count" /\ posted' = posted
        BY <1>6 DEF CountJobs, At, rows
    <2>2. \/ req'[r] = Idle
          \/ jobs = 1 /\ req'[r].op = "FIRST_JOB" /\ req'[r].pc = "mark"
        BY <1>1, <1>6 DEF CountJobs, Goto, Finish, Idle
    <2> QED BY <1>2, <1>3, <2>1, <2>2 DEF OnceInv, Counted, Idle
<1> QED BY <1>4, <1>5, <1>6

\* Of a project that is not completed, nobody else's confirmation is in flight.
LEMMA CompletionConfirms ==
    ASSUME WalletInv, OnceInv, OneEach, NEW r \in Requests, ConfirmJob(r)
    PROVE  OnceInv'
<1>1. /\ req[r].op = "FIRST_JOB" /\ req[r].pc = "confirm"
      /\ req'[r].op = "FIRST_JOB" /\ req'[r].pc = "count"
      /\ \A s \in Requests \ {r} : req'[s] = req[s]
      /\ completed' = completed \cup {req[r].progress}
      /\ jobs' = jobs + 1 /\ posted' = posted
    BY DEF WalletInv, Shape, ConfirmJob, At, Goto, Idle
<1>2. ASSUME NEW s \in Requests, req'[s].op = "FIRST_JOB", req'[s].pc = "confirm"
      PROVE  req'[s].progress \notin completed'
    BY <1>1, <1>2 DEF OnceInv, OneEach
<1>3. /\ jobs' \in Nat /\ jobs' # 0
      /\ posted'["FIRST_JOB"] <= 1
      /\ jobs' = 1 => posted'["FIRST_JOB"] = 0
    BY <1>1 DEF OnceInv
<1>4. ASSUME NEW s \in Requests, Counted(s)'
      PROVE  /\ jobs' > 0 /\ req'[s].pc # "idle"
             /\ req'[s].pc # "count" \/ jobs' = 1 => posted'["FIRST_JOB"] = 0
    BY <1>1, <1>3, <1>4 DEF OnceInv, Counted
<1>5. ASSUME NEW s \in Requests, NEW s2 \in Requests, Counted(s)', Counted(s2)', s # s2
      PROVE  jobs' > 1 /\ (req'[s].pc = "count" \/ req'[s2].pc = "count")
    BY <1>1, <1>5 DEF OnceInv, Counted
<1> QED BY <1>2, <1>3, <1>4, <1>5 DEF OnceInv

LEMMA NextOnce ==
    ASSUME WalletInv, OnceInv, OneEach, [Next]_vars
    PROVE  OnceInv'
<1>1. CASE Tick \/ UNCHANGED vars
    BY <1>1 DEF Tick, vars, rows, taskVars, OnceInv, Counted
<1>2. ASSUME NEW r \in Requests, NoCompletion(r)
      PROVE  OnceInv'
    BY <1>2 DEF NoCompletion, OnceInv, Counted
<1>3. CASE \E r \in Requests :
            \/ ReadWallet(r) \/ WriteWallet(r) \/ PostTransaction(r)
            \/ CountJobs(r) \/ MarkOneTime(r)
    <2>1. PICK r \in Requests :
            \/ ReadWallet(r) \/ WriteWallet(r) \/ PostTransaction(r)
            \/ CountJobs(r) \/ MarkOneTime(r)
        BY <1>3
    <2>2. req[r].pc # "confirm"
        BY <2>1 DEF ReadWallet, WriteWallet, PostTransaction, CountJobs, MarkOneTime, At
    <2>3. CASE req[r].op = "FIRST_JOB"
        BY <2>1, <2>2, <2>3, CompletionCounts DEF Counted
    <2>4. CASE req[r].op # "FIRST_JOB"
        BY <1>2, <2>1, <2>4, OthersComplete DEF CountJobs, At
    <2> QED BY <2>3, <2>4
<1>4. CASE \E r \in Requests : BeginConfirm(r)
    <2>1. PICK r \in Requests : BeginConfirm(r)
        BY <1>4
    <2>2. /\ req'[r].op = "FIRST_JOB" /\ req'[r].pc = "confirm"
          /\ req'[r].progress \notin completed'
          /\ \A s \in Requests \ {r} : req'[s] = req[s]
          /\ jobs' = jobs /\ posted' = posted /\ completed' = completed
        BY <2>1 DEF WalletInv, Shape, BeginConfirm, Begin, Idle, rows
    <2> QED BY <2>2 DEF OnceInv, Counted
<1>5. CASE \E r \in Requests :
            \/ BeginPurchase(r) \/ CommitPurchase(r)
            \/ BeginShare(r) \/ MarkShare(r)
            \/ BeginLogin(r) \/ MarkLoginDay(r) \/ MarkLoginMonth(r)
            \/ \E task \in OneTime : BeginOneTime(r, task)
            \/ BeginSubmit(r) \/ DebitWallet(r) \/ ReadTasks(r) \/ CommitSubmit(r)
    BY <1>2, <1>5, OthersComplete
<1>6. CASE \E r \in Requests : Crash(r)
    <2>1. PICK r \in Requests : Crash(r)
        BY <1>6
    <2>2. /\ req'[r] = Idle /\ \A s \in Requests \ {r} : req'[s] = req[s]
          /\ jobs' = jobs /\ posted' = posted /\ completed' = completed
        BY <2>1 DEF WalletInv, Shape, Crash, Finish, rows
    <2> QED BY <2>2 DEF OnceInv, Counted, Idle
<1>7. CASE \E r \in Requests : ConfirmJob(r)
    BY <1>7, CompletionConfirms
<1>8. \A r \in Requests : ~ConfirmAgain(r)
    BY DEF ConfirmAgain, At, OnceInv
<1> QED BY <1>1, <1>3, <1>4, <1>5, <1>6, <1>7, <1>8 DEF Next

\* Completions of different projects that overlap, and crashes, may lose the reward of
\* the first project, but never repeat it, though nothing locks what complete() counts.
\* Two confirmations of one project that overlap may both be rewarded: the second finds
\* it completed and counts one job as well, and nothing locks the task it then marks.
THEOREM FirstJobOnce == Spec /\ []OneEach => [](posted["FIRST_JOB"] <= 1)
<1>1. Init => OnceInv
    BY DEF Init, OnceInv, Counted, Idle, Reasons, OneTime
<1>2. WalletInv /\ OnceInv /\ OneEach /\ [Next]_vars => OnceInv'
    BY NextOnce
<1>3. OnceInv => posted["FIRST_JOB"] <= 1
    BY DEF OnceInv
<1> QED BY InitWallet, NextWallet, <1>1, <1>2, <1>3, PTL DEF Spec

-----------------------------------------------------------------------------
(***************************************************************************)
(* The balance and the ledger                                              *)
(***************************************************************************)
Posts(p) == SumFunction([reason \in Reasons |-> p[reason] * Points[reason]])
Streaks(p) == SumFunction([m \in Milestones |-> p[m] * StreakPoints[m]])

LEMMA ReasonsFinite == IsFiniteSet(Reasons)
<1> DEFINE Task == {"PROFILE_COMPLETE", "FIRST_PORTFOLIO", "FIRST_JOB"}
           A == {"WELCOME_BONUS", "DAILY_LOGIN", "SOCIAL_SHARE"}
           B == {"PURCHASE", "PROPOSAL_SUBMIT", "PROPOSAL_BOOST"}
           C == {"MONTHLY_APPLY"}
<1>1. ASSUME NEW x, NEW y, NEW z
      PROVE  IsFiniteSet({x, y, z})
    <2>1. IsFiniteSet({x})
        BY FS_Singleton
    <2>2. IsFiniteSet({x} \cup {y})
        BY <2>1, FS_AddElement
    <2>3. IsFiniteSet(({x} \cup {y}) \cup {z})
        BY <2>2, FS_AddElement
    <2>4. {x, y, z} = ({x} \cup {y}) \cup {z}
        OBVIOUS
    <2> QED BY <2>3, <2>4
<1>2. IsFiniteSet(Task) /\ IsFiniteSet(A) /\ IsFiniteSet(B) /\ IsFiniteSet(C)
    BY <1>1, FS_Singleton
<1>3. Reasons = (Task \cup A) \cup (B \cup C)
    BY DEF Reasons, OneTime
<1> HIDE DEF Task, A, B, C
<1>4. IsFiniteSet(Task \cup A) /\ IsFiniteSet(B \cup C)
    BY <1>2, FS_Union
<1>5. IsFiniteSet((Task \cup A) \cup (B \cup C))
    BY <1>4, FS_Union
<1> QED BY <1>3, <1>5

\* The transactions of one step: one row of each reason in T.
LEMMA PostsAdd ==
    ASSUME NEW p, p \in [Reasons -> Nat], NEW T \in SUBSET Reasons, NEW more,
           \A reason \in Reasons :
               more[reason] = p[reason] + IF reason \in T THEN 1 ELSE 0
    PROVE  Posts(more) = Posts(p) + SumFunctionOnSet(Points, T)
<1>1. \A x \in Reasons : Points[x] \in Int /\ p[x] \in Int
    BY WalletAssumption
<1> QED BY <1>1, ReasonsFinite, SumCounted DEF Posts

LEMMA StreaksAdd ==
    ASSUME NEW p, p \in [Milestones -> Nat], NEW T \in SUBSET Milestones, NEW more,
           \A m \in Milestones : more[m] = p[m] + IF m \in T THEN 1 ELSE 0
    PROVE  Streaks(more) = Streaks(p) + SumFunctionOnSet(StreakPoints, T)
<1>1. /\ \A x \in Milestones : StreakPoints[x] \in Int /\ p[x] \in Int
      /\ IsFiniteSet(Milestones)
    BY WalletAssumption
<1> QED BY <1>1, SumCounted DEF Streaks

LEMMA LedgerInteger ==
    ASSUME NEW p, p \in [Reasons -> Nat], NEW q, q \in [Milestones -> Nat]
    PROVE  Posts(p) \in Int /\ Streaks(q) \in Int
<1> DEFINE f == [x \in Reasons |-> p[x] * Points[x]]
           g == [x \in Milestones |-> q[x] * StreakPoints[x]]
<1>1. IsFiniteSet(Milestones) /\ IsFiniteSet(Reasons)
    BY WalletAssumption, ReasonsFinite
<1>2. \A x \in Reasons : f[x] \in Int
    <2> SUFFICES ASSUME NEW x \in Reasons PROVE f[x] \in Int
        OBVIOUS
    <2>1. p[x] \in Int /\ Points[x] \in Int
        BY WalletAssumption
    <2> QED BY <2>1, OneMore
<1>3. \A x \in Milestones : g[x] \in Int
    <2> SUFFICES ASSUME NEW x \in Milestones PROVE g[x] \in Int
        OBVIOUS
    <2>1. q[x] \in Int /\ StreakPoints[x] \in Int
        BY WalletAssumption
    <2> QED BY <2>1, OneMore
<1>4. DOMAIN f = Reasons /\ DOMAIN g = Milestones
    OBVIOUS
<1> HIDE DEF f, g
<1>5. SumFunctionOnSet(f, Reasons) \in Int /\ SumFunctionOnSet(g, Milestones) \in Int
    BY <1>1, <1>2, <1>3, SumInteger
<1>6. SumFunction(f) \in Int /\ SumFunction(g) \in Int
    BY <1>4, <1>5 DEF SumFunction
<1> QED BY <1>6 DEF f, g, Posts, Streaks

LEMMA LedgerIs == /\ LedgerSum = Posts(posted) + Streaks(streakRows)
                  /\ LedgerSum' = Posts(posted') + Streaks(streakRows')
BY DEF LedgerSum, Posts, Streaks

-----------------------------------------------------------------------------
\* The freelancer's requests take turns.
OneRequest == \A r, s \in Requests :
    req[r].pc # "idle" /\ req[s].pc # "idle" => r = s

\* What a request has read, against the balance: a submission could pay when
\* it began, and nothing has been taken since.
Reads(q, points) ==
    /\ q.boost \in BOOLEAN
    /\ q.pc # "idle" => q.op \in Operations
    /\ q.op = "PROPOSAL_SUBMIT" /\ q.pc \in {"credit", "read"} =>
          Cost(q.boost) <= points
    /\ q.pc = "read" => q.wallet = points
    /\ q.pc \in {"debited", "tasks"} =>
          q.wallet = points - Cost(q.boost) /\ q.wallet >= 0

Owing(q, points) ==
    /\ q.op \notin {"PURCHASE", "PROPOSAL_SUBMIT"}
    /\ points = LedgerSum + Points[q.op]

\* Only between the balance's write and its transaction's row do they differ,
\* by the points of that transaction.
BooksInv ==
    /\ balance \in Nat
    /\ \A r \in Requests : Reads(req[r], balance)
    /\ \A r \in Requests : req[r].pc = "written" => Owing(req[r], balance)
    /\ (\A r \in Requests : req[r].pc # "written") => balance = LedgerSum

\* Rewards and packages add points, as nuqati.config.ts has them.
RewardsAdd == \A reason \in Reasons \ {"PROPOSAL_SUBMIT", "PROPOSAL_BOOST"} :
    Points[reason] >= 0

LEMMA CostInteger == \A boost \in BOOLEAN : Cost(boost) \in Int
BY WalletAssumption DEF Cost, Reasons, OneTime

\* A step of a request that moves no points.
LEMMA NothingMoved ==
    ASSUME BooksInv, NEW r \in Requests, DOMAIN req = Requests,
           \A s \in Requests \ {r} : req'[s] = req[s],
           balance' = balance, posted' = posted, streakRows' = streakRows,
           req[r].pc # "written", req'[r].pc # "written",
           Reads(req'[r], balance)
    PROVE  BooksInv'
<1>1. LedgerSum' = LedgerSum
    BY LedgerIs
<1>2. \A s \in Requests : Reads(req'[s], balance)
    BY DEF BooksInv
<1>3. \A s \in Requests : req'[s].pc = "written" => Owing(req[s], balance) /\ req'[s] = req[s]
    BY DEF BooksInv
<1>4. (\A s \in Requests : req'[s].pc # "written") => balance = LedgerSum
    BY DEF BooksInv
<1>5. (\A s \in Requests : Reads(req[s], balance))'
    BY <1>2 DEF Reads, Cost
<1>6. (\A s \in Requests : req[s].pc = "written" => Owing(req[s], balance))'
    BY <1>1, <1>3 DEF Owing
<1> QED BY <1>1, <1>4, <1>5, <1>6 DEF BooksInv

\* A step that moves points while every other request is idle.
LEMMA PointsMoved ==
    ASSUME BooksInv, NEW r \in Requests, DOMAIN req = Requests,
           \A s \in Requests \ {r} : req[s].pc = "idle" /\ req'[s] = req[s],
           balance' \in Nat, Reads(req'[r], balance'),
           IF req'[r].pc = "written"
           THEN (Owing(req[r], balance))'
           ELSE balance' = LedgerSum'
    PROVE  BooksInv'
<1>1. \A s \in Requests \ {r} : Reads(req[s], balance) /\ req'[s] = req[s] /\ req'[s].pc = "idle"
    BY DEF BooksInv
<1>2. ASSUME NEW s \in Requests \ {r}
      PROVE  Reads(req'[s], balance')
    BY <1>1 DEF Reads
<1>3. \A s \in Requests : Reads(req'[s], balance')
    BY <1>2
<1>4. (\A s \in Requests : Reads(req[s], balance))'
    BY <1>3 DEF Reads, Cost
<1>5. (\A s \in Requests : req[s].pc = "written" => Owing(req[s], balance))'
    BY <1>1 DEF Owing
<1>6. ((\A s \in Requests : req[s].pc # "written") => balance = LedgerSum)'
    OBVIOUS
<1> QED BY <1>4, <1>5, <1>6 DEF BooksInv

-----------------------------------------------------------------------------
LEMMA InitBooks ==
    ASSUME RewardsAdd
    PROVE  Init => BooksInv
<1> SUFFICES ASSUME Init PROVE BooksInv
    OBVIOUS
<1> DEFINE none == [reason \in Reasons |-> 0]
           f == [reason \in Reasons |-> none[reason] * Points[reason]]
           unearned == [m \in Milestones |-> 0]
           g == [m \in Milestones |-> unearned[m] * StreakPoints[m]]
           bonus == "WELCOME_BONUS"
<1>1. bonus \in Reasons /\ Points[bonus] \in Nat
    BY WalletAssumption DEF RewardsAdd, Reasons, OneTime
<1>2. Posts(posted) = Posts(none) + SumFunctionOnSet(Points, {bonus})
    <2>1. none \in [Reasons -> Nat] /\ {bonus} \in SUBSET Reasons
        BY <1>1
    <2>2. \A reason \in Reasons :
            posted[reason] = none[reason] + IF reason \in {bonus} THEN 1 ELSE 0
        BY DEF Init
    <2> HIDE DEF none
    <2> QED BY <2>1, <2>2, PostsAdd
<1>3. SumFunctionOnSet(Points, {bonus}) = Points[bonus]
    <2>1. \A y \in {} \cup {bonus} : Points[y] \in Int
        BY <1>1
    <2>2. IsFiniteSet({}) /\ bonus \notin {}
        BY FS_EmptySet
    <2>3. SumFunctionOnSet(Points, {} \cup {bonus}) = SumFunctionOnSet(Points, {}) + Points[bonus]
        BY ONLY <2>1, <2>2, SumExtend
    <2>4. {} \cup {bonus} = {bonus}
        OBVIOUS
    <2> QED BY <1>1, <2>3, <2>4, SumEmpty
<1>4. Posts(none) = 0
    <2>1. \A x \in Reasons : f[x] \in Int /\ f[x] = IF x \in {} THEN f[x] ELSE 0
        <3> SUFFICES ASSUME NEW x \in Reasons PROVE f[x] = 0
            OBVIOUS
        <3>1. Points[x] \in Int
            BY WalletAssumption
        <3> QED BY <3>1
    <2>2. {} \in SUBSET Reasons /\ DOMAIN f = Reasons
        OBVIOUS
    <2> HIDE DEF f
    <2>3. SumFunctionOnSet(f, Reasons) = SumFunctionOnSet(f, {})
        BY <2>1, <2>2, ReasonsFinite, SumPart
    <2>4. SumFunction(f) = 0
        BY <2>2, <2>3, SumEmpty DEF SumFunction
    <2> QED BY <2>4 DEF f, Posts
<1>5. Streaks(unearned) = 0
    <2>1. \A x \in Milestones : g[x] \in Int /\ g[x] = IF x \in {} THEN g[x] ELSE 0
        <3> SUFFICES ASSUME NEW x \in Milestones PROVE g[x] = 0
            OBVIOUS
        <3>1. StreakPoints[x] \in Int
            BY WalletAssumption
        <3> QED BY <3>1
    <2>2. {} \in SUBSET Milestones /\ DOMAIN g = Milestones /\ IsFiniteSet(Milestones)
        BY WalletAssumption
    <2> HIDE DEF g
    <2>3. SumFunctionOnSet(g, Milestones) = SumFunctionOnSet(g, {})
        BY <2>1, <2>2, SumPart
    <2>4. SumFunction(g) = 0
        BY <2>2, <2>3, SumEmpty DEF SumFunction
    <2> QED BY <2>4 DEF g, Streaks
<1>6. balance = LedgerSum /\ balance \in Nat
    <2>1. balance = Points[bonus] /\ streakRows = unearned
        BY DEF Init
    <2> HIDE DEF none, unearned, bonus
    <2> QED BY <1>1, <1>2, <1>3, <1>4, <1>5, <2>1, LedgerIs
<1>7. \A r \in Requests : req[r] = Idle
    BY DEF Init
<1>8. Reads(Idle, balance) /\ Idle.pc = "idle"
    BY DEF Reads, Idle
<1> HIDE DEF none, f, unearned, g, bonus
<1> QED BY <1>6, <1>7, <1>8 DEF BooksInv

\* A request's single row.
LEMMA OneRow ==
    ASSUME NEW p, p \in [Reasons -> Nat], NEW op \in Reasons
    PROVE  Posts([p EXCEPT ![op] = @ + 1]) = Posts(p) + Points[op]
<1> DEFINE more == [p EXCEPT ![op] = @ + 1]
<1>1. \A reason \in Reasons :
        more[reason] = p[reason] + IF reason \in {op} THEN 1 ELSE 0
    OBVIOUS
<1>2. {op} \in SUBSET Reasons
    OBVIOUS
<1> HIDE DEF more
<1>3. Posts(more) = Posts(p) + SumFunctionOnSet(Points, {op})
    BY <1>1, <1>2, PostsAdd
<1>4. SumFunctionOnSet(Points, {op}) = Points[op]
    <2>1. \A y \in {} \cup {op} : Points[y] \in Int
        BY WalletAssumption
    <2>2. IsFiniteSet({}) /\ op \notin {}
        BY FS_EmptySet
    <2>3. SumFunctionOnSet(Points, {} \cup {op}) = SumFunctionOnSet(Points, {}) + Points[op]
        BY ONLY <2>1, <2>2, SumExtend
    <2>4. {} \cup {op} = {op}
        OBVIOUS
    <2>5. Points[op] \in Int
        BY WalletAssumption
    <2> QED BY <2>3, <2>4, <2>5, SumEmpty
<1> QED BY <1>3, <1>4 DEF more

LEMMA OperationsEarn ==
    ASSUME RewardsAdd
    PROVE  /\ Operations \subseteq Reasons
           /\ \A op \in Operations \ {"PROPOSAL_SUBMIT"} : Points[op] \in Nat
<1>1. Operations \subseteq Reasons /\ "PROPOSAL_BOOST" \notin Operations
    BY WalletAssumption DEF Reasons, OneTime
<1> QED BY <1>1, WalletAssumption DEF RewardsAdd

LEMMA OthersIdle ==
    ASSUME OneRequest, NEW r \in Requests, req[r].pc # "idle"
    PROVE  \A s \in Requests \ {r} : req[s].pc = "idle"
BY DEF OneRequest

\* credit() of a login, a share or a one-time reward.
LEMMA CreditBooks ==
    ASSUME RewardsAdd, WalletInv, BooksInv, OneRequest, NEW r \in Requests,
           ReadWallet(r) \/ WriteWallet(r) \/ PostTransaction(r)
    PROVE  BooksInv'
<1>1. /\ DOMAIN req = Requests /\ DOMAIN req[r] = DOMAIN Idle
      /\ posted \in [Reasons -> Nat] /\ Reads(req[r], balance)
      /\ balance \in Nat
    BY DEF WalletInv, Shape, BooksInv
<1>2. \A s \in Requests \ {r} : req'[s] = req[s]
    BY <1>1 DEF ReadWallet, WriteWallet, PostTransaction, Goto, Finish
<1>3. CASE ReadWallet(r)
    <2>1. /\ req[r].pc = "credit" /\ req'[r].pc = "read"
          /\ req'[r].op = req[r].op /\ req'[r].boost = req[r].boost
          /\ req'[r].wallet = balance
        BY <1>1, <1>3 DEF ReadWallet, Idle
    <2>2. Reads(req'[r], balance)
        BY <1>1, <2>1 DEF Reads
    <2>3. balance' = balance /\ posted' = posted /\ streakRows' = streakRows
        BY <1>3 DEF ReadWallet, rows, applyVars
    <2> QED BY <1>1, <1>2, <2>1, <2>2, <2>3, NothingMoved
<1>4. CASE WriteWallet(r)
    <2>1. /\ req[r].pc = "read" /\ req'[r].pc = "written"
          /\ req[r].op \notin {"PURCHASE", "PROPOSAL_SUBMIT"}
          /\ req'[r].op = req[r].op /\ req'[r].boost = req[r].boost
          /\ balance' = req[r].wallet + Points[req[r].op]
          /\ posted' = posted /\ streakRows' = streakRows
        BY <1>1, <1>4 DEF WriteWallet, Goto, Idle, applyVars
    <2>2. req[r].op \in Operations /\ req[r].wallet = balance
        BY <1>1, <2>1 DEF Reads
    <2>3. Points[req[r].op] \in Nat
        BY <2>1, <2>2, OperationsEarn
    <2>4. \A s \in Requests \ {r} : req[s].pc = "idle" /\ req'[s] = req[s]
        BY <1>2, <2>1, OthersIdle
    <2>5. balance = LedgerSum
        BY <2>1, <2>4 DEF BooksInv
    <2>6. balance' \in Nat /\ LedgerSum' = LedgerSum
        BY <1>1, <2>1, <2>2, <2>3, LedgerIs
    <2>7. Reads(req'[r], balance')
        BY <1>1, <2>1, <2>2 DEF Reads
    <2>8. (Owing(req[r], balance))'
        BY <2>1, <2>2, <2>5, <2>6 DEF Owing
    <2> QED BY <1>1, <2>1, <2>4, <2>6, <2>7, <2>8, PointsMoved
<1>5. CASE PostTransaction(r)
    <2>1. /\ req[r].pc = "written" /\ req'[r] = Idle /\ balance' = balance
          /\ posted' = [posted EXCEPT ![req[r].op] = @ + 1]
          /\ streakRows' = streakRows
        BY <1>1, <1>5 DEF PostTransaction, Finish, applyVars
    <2>2. req[r].op \in Operations /\ Owing(req[r], balance)
        BY <1>1, <2>1 DEF Reads, BooksInv
    <2>3. req[r].op \in Reasons
        BY <2>2, OperationsEarn
    <2>4. Posts(posted') = Posts(posted) + Points[req[r].op]
        BY <1>1, <2>1, <2>3, OneRow
    <2>5. /\ Posts(posted) \in Int /\ Streaks(streakRows) \in Int
          /\ Points[req[r].op] \in Int
        BY <2>3, LedgerInteger, WalletAssumption DEF WalletInv, Shape
    <2>6. balance' = LedgerSum'
        BY <2>1, <2>2, <2>4, <2>5, LedgerIs DEF Owing
    <2>7. \A s \in Requests \ {r} : req[s].pc = "idle" /\ req'[s] = req[s]
        BY <1>2, <2>1, OthersIdle
    <2>8. Reads(req'[r], balance') /\ req'[r].pc # "written"
        BY <2>1 DEF Reads, Idle
    <2> QED BY <1>1, <2>1, <2>6, <2>7, <2>8, PointsMoved
<1> QED BY <1>3, <1>4, <1>5

\* A package's points and its transaction are one commit.
LEMMA PurchaseBooks ==
    ASSUME RewardsAdd, WalletInv, BooksInv, OneRequest, NEW r \in Requests,
           CommitPurchase(r)
    PROVE  BooksInv'
<1>1. /\ DOMAIN req = Requests /\ posted \in [Reasons -> Nat]
      /\ Reads(req[r], balance) /\ balance \in Nat
    BY DEF WalletInv, Shape, BooksInv
<1>2. /\ req[r].pc = "read" /\ req[r].op = "PURCHASE" /\ req'[r] = Idle
      /\ balance' = req[r].wallet + Points["PURCHASE"]
      /\ posted' = [posted EXCEPT !["PURCHASE"] = @ + 1]
      /\ streakRows' = streakRows
      /\ \A s \in Requests \ {r} : req'[s] = req[s]
    BY <1>1 DEF CommitPurchase, At, Finish, applyVars
<1>3. "PURCHASE" \in Operations /\ req[r].wallet = balance
    BY <1>1, <1>2 DEF Reads
<1>4. "PURCHASE" \in Reasons /\ Points["PURCHASE"] \in Nat
    BY <1>3, OperationsEarn
<1>5. \A s \in Requests \ {r} : req[s].pc = "idle" /\ req'[s] = req[s]
    BY <1>2, OthersIdle
<1>6. balance = LedgerSum
    BY <1>2, <1>5 DEF BooksInv
<1>7. Posts(posted') = Posts(posted) + Points["PURCHASE"]
    BY <1>1, <1>2, <1>4, OneRow
<1>8. Posts(posted) \in Int /\ Streaks(streakRows) \in Int
    BY LedgerInteger DEF WalletInv, Shape
<1>9. balance' = LedgerSum' /\ balance' \in Nat
    BY <1>1, <1>2, <1>3, <1>4, <1>6, <1>7, <1>8, LedgerIs
<1>10. Reads(req'[r], balance') /\ req'[r].pc # "written"
    BY <1>2 DEF Reads, Idle
<1> QED BY <1>1, <1>5, <1>9, <1>10, PointsMoved

\* The statements that mark a task.
LEMMA MarkBooks ==
    ASSUME WalletInv, BooksInv, NEW r \in Requests,
           \/ MarkShare(r) \/ MarkLoginDay(r) \/ MarkLoginMonth(r)
           \/ ConfirmJob(r) \/ ConfirmAgain(r) \/ CountJobs(r) \/ MarkOneTime(r)
    PROVE  BooksInv'
<1>1. /\ DOMAIN req = Requests /\ DOMAIN req[r] = DOMAIN Idle
      /\ Reads(req[r], balance)
    BY DEF WalletInv, Shape, BooksInv
<1>2. /\ balance' = balance /\ posted' = posted /\ streakRows' = streakRows
      /\ \A s \in Requests \ {r} : req'[s] = req[s]
    BY <1>1 DEF MarkShare, MarkLoginDay, MarkLoginMonth, ConfirmJob, ConfirmAgain,
       CountJobs, MarkOneTime, Goto, Finish, rows, applyVars
<1>3. /\ req[r].pc \in {"mark", "markMonth", "confirm", "count"}
      /\ req[r].op \in OneTime \cup {"SOCIAL_SHARE", "DAILY_LOGIN"}
    BY DEF MarkShare, MarkLoginDay, MarkLoginMonth, ConfirmJob, ConfirmAgain,
       CountJobs, MarkOneTime, At, OneTime
<1> DEFINE Then == {"mark", "markMonth", "count", "credit"}
<1>4. \/ req' = [req EXCEPT ![r] = Idle]
      \/ \E pc \in Then : req' = [req EXCEPT ![r].pc = pc]
    BY DEF MarkShare, MarkLoginDay, MarkLoginMonth, ConfirmJob, ConfirmAgain,
       CountJobs, MarkOneTime, Goto, Finish
<1>5. CASE req' = [req EXCEPT ![r] = Idle]
    <2>1. req'[r] = Idle
        BY <1>1, <1>5
    <2>2. Reads(req'[r], balance) /\ req'[r].pc # "written"
        BY <2>1 DEF Reads, Idle
    <2> QED BY <1>1, <1>2, <1>3, <2>2, NothingMoved
<1>6. CASE \E pc \in Then : req' = [req EXCEPT ![r].pc = pc]
    <2>1. /\ req'[r].pc \in Then
          /\ req'[r].op = req[r].op /\ req'[r].boost = req[r].boost
        BY <1>1, <1>6 DEF Idle
    <2>2. Reads(req'[r], balance) /\ req'[r].pc # "written"
        BY <1>1, <1>3, <2>1 DEF Reads, OneTime
    <2> QED BY <1>1, <1>2, <1>3, <2>2, NothingMoved
<1> QED BY <1>4, <1>5, <1>6

\* A submission begins only with points for the charge and the boost.
LEMMA StartBooks ==
    ASSUME WalletInv, BooksInv, NEW r \in Requests,
           \/ BeginPurchase(r) \/ BeginShare(r) \/ BeginLogin(r)
           \/ BeginConfirm(r) \/ BeginSubmit(r)
           \/ \E task \in OneTime : BeginOneTime(r, task)
    PROVE  BooksInv'
<1>1. DOMAIN req = Requests
    BY DEF WalletInv, Shape
<1>2. balance' = balance /\ posted' = posted /\ streakRows' = streakRows
    BY DEF BeginPurchase, BeginShare, BeginLogin, BeginConfirm, BeginSubmit,
       BeginOneTime, rows, applyVars
<1>3. ASSUME NEW op, NEW pc \in {"credit", "mark", "confirm"}, NEW boost \in BOOLEAN,
             NEW progress, Begin(r, op, pc, boost, progress),
             op = "PROPOSAL_SUBMIT" => Cost(boost) <= balance
      PROVE  BooksInv'
    <2>1. /\ req[r].pc = "idle" /\ op \in Operations
          /\ req'[r].pc = pc /\ req'[r].op = op /\ req'[r].boost = boost
          /\ \A s \in Requests \ {r} : req'[s] = req[s]
        BY <1>1, <1>3 DEF Begin, Idle
    <2>2. Reads(req'[r], balance)
        BY <1>3, <2>1 DEF Reads
    <2> QED BY <1>1, <1>2, <1>3, <2>1, <2>2, NothingMoved
<1>4. CASE BeginSubmit(r)
    <2>1. PICK boost \in BOOLEAN : /\ balance >= Cost(boost)
                                   /\ Begin(r, "PROPOSAL_SUBMIT", "credit", boost, 0)
        BY <1>4 DEF BeginSubmit
    <2>2. Cost(boost) <= balance
        BY <2>1, CostInteger DEF BooksInv
    <2> QED BY <1>3, <2>1, <2>2
<1>5. CASE BeginPurchase(r)
    BY <1>3, <1>5 DEF BeginPurchase
<1>6. CASE BeginShare(r)
    <2>1. PICK progress : progress = shares[MonthOf(today)]
        OBVIOUS
    <2>2. Begin(r, "SOCIAL_SHARE", "mark", FALSE, progress)
        BY <1>6, <2>1 DEF BeginShare, Begin
    <2> QED BY <1>3, <2>2
<1>7. CASE BeginLogin(r)
    <2>1. PICK progress : progress = logins[MonthOf(today)]
        OBVIOUS
    <2>2. Begin(r, "DAILY_LOGIN", "mark", FALSE, progress)
        BY <1>7, <2>1 DEF BeginLogin, Begin
    <2> QED BY <1>3, <2>2
<1>8. CASE BeginConfirm(r)
    BY <1>3, <1>8 DEF BeginConfirm
<1>9. CASE \E task \in OneTime : BeginOneTime(r, task)
    <2>1. PICK task \in OneTime : Begin(r, task, "mark", FALSE, 0)
        BY <1>9 DEF BeginOneTime
    <2>2. task # "PROPOSAL_SUBMIT"
        BY DEF OneTime
    <2> QED BY <1>3, <2>1, <2>2
<1> QED BY <1>4, <1>5, <1>6, <1>7, <1>8, <1>9

\* The charge is taken from the balance that the request has read.
LEMMA ChargeBooks ==
    ASSUME WalletInv, BooksInv, NEW r \in Requests, DebitWallet(r) \/ ReadTasks(r)
    PROVE  BooksInv'
<1>1. /\ DOMAIN req = Requests /\ DOMAIN req[r] = DOMAIN Idle
      /\ Reads(req[r], balance) /\ balance \in Nat
    BY DEF WalletInv, Shape, BooksInv
<1>2. /\ balance' = balance /\ posted' = posted /\ streakRows' = streakRows
      /\ \A s \in Requests \ {r} : req'[s] = req[s]
    BY <1>1 DEF DebitWallet, ReadTasks, rows, applyVars
<1>3. Cost(req[r].boost) \in Int
    BY <1>1, CostInteger DEF Reads
<1>4. CASE DebitWallet(r)
    <2>1. /\ req[r].pc = "read" /\ req[r].op = "PROPOSAL_SUBMIT"
          /\ req'[r].pc = "debited" /\ req'[r].op = req[r].op
          /\ req'[r].boost = req[r].boost
          /\ req'[r].wallet = req[r].wallet - Cost(req[r].boost)
        BY <1>1, <1>4 DEF DebitWallet, At, Idle
    <2>2. Reads(req'[r], balance)
        BY <1>1, <1>3, <2>1 DEF Reads
    <2> QED BY <1>1, <1>2, <2>1, <2>2, NothingMoved
<1>5. CASE ReadTasks(r)
    <2>1. /\ req[r].pc = "debited" /\ req[r].op = "PROPOSAL_SUBMIT"
          /\ req'[r].pc = "tasks" /\ req'[r].op = req[r].op
          /\ req'[r].boost = req[r].boost
          /\ req'[r].wallet = req[r].wallet
        BY <1>1, <1>5 DEF ReadTasks, At, Idle
    <2>2. Reads(req'[r], balance)
        BY <1>1, <2>1 DEF Reads
    <2> QED BY <1>1, <1>2, <2>1, <2>2, NothingMoved
<1> QED BY <1>4, <1>5

\* What a submission's transaction adds to the ledger is what it changed the
\* balance by.
LEMMA CommitBooks ==
    ASSUME RewardsAdd, WalletInv, BooksInv, OneRequest, NEW r \in Requests,
           CommitSubmit(r)
    PROVE  BooksInv'
<1>1. /\ DOMAIN req = Requests /\ posted \in [Reasons -> Nat]
      /\ streakRows \in [Milestones -> Nat]
      /\ Reads(req[r], balance) /\ balance \in Nat
    BY DEF WalletInv, Shape, BooksInv
<1>2. PICK q : q = req[r]
    OBVIOUS
<1>3. PICK earned \in SUBSET Milestones :
        earned = Earned(StreakOn(q.day, q.streak), q.streak.claimed)
    BY DEF Earned
<1> DEFINE S1 == {"PROPOSAL_SUBMIT"}
           S2 == IF q.boost THEN S1 \cup {"PROPOSAL_BOOST"} ELSE S1
           S3 == IF ~q.monthly THEN S2 \cup {"MONTHLY_APPLY"} ELSE S2
<1>4. /\ q.pc = "tasks" /\ q.op = "PROPOSAL_SUBMIT" /\ q.boost \in BOOLEAN
      /\ q.wallet = balance - Cost(q.boost) /\ q.wallet >= 0
    BY <1>1, <1>2 DEF CommitSubmit, At, Reads
<1>5. /\ req'[r] = Idle
      /\ \A s \in Requests \ {r} : req'[s] = req[s]
    BY <1>1 DEF CommitSubmit, Finish
<1>6. balance' = q.wallet + (IF q.monthly THEN 0 ELSE Points["MONTHLY_APPLY"])
                 + SumFunctionOnSet(StreakPoints, earned)
    BY <1>2, <1>3 DEF CommitSubmit
<1>7. \A reason \in Reasons :
        posted'[reason] = posted[reason] + IF reason \in S3 THEN 1 ELSE 0
    BY <1>2 DEF CommitSubmit
<1>8. \A m \in Milestones :
        streakRows'[m] = streakRows[m] + IF m \in earned THEN 1 ELSE 0
    BY <1>2, <1>3 DEF CommitSubmit
<1>9. S3 \in SUBSET Reasons /\ IsFiniteSet(earned)
      /\ \A reason \in Reasons : Points[reason] \in Int
    BY FS_Subset, WalletAssumption DEF Reasons
<1>10. SumFunctionOnSet(Points, S3) =
          Points["PROPOSAL_SUBMIT"] + (IF q.boost THEN Points["PROPOSAL_BOOST"] ELSE 0)
          + (IF ~q.monthly THEN Points["MONTHLY_APPLY"] ELSE 0)
    <2>1. IsFiniteSet(S1) /\ IsFiniteSet({})
        BY FS_Singleton, FS_EmptySet
    <2>2. {"PROPOSAL_SUBMIT", "PROPOSAL_BOOST", "MONTHLY_APPLY"} \subseteq Reasons
        BY DEF Reasons
    <2>3. \A y \in S1 \cup {"PROPOSAL_BOOST"} : Points[y] \in Int
        BY <1>9, <2>2
    <2>4. \A y \in S2 \cup {"MONTHLY_APPLY"} : Points[y] \in Int
        BY <1>9, <2>2
    <2>5. "PROPOSAL_BOOST" \notin S1 /\ "MONTHLY_APPLY" \notin S2
        OBVIOUS
    <2>6. SumFunctionOnSet(Points, S1) = Points["PROPOSAL_SUBMIT"]
        <3>1. SumFunctionOnSet(Points, {} \cup {"PROPOSAL_SUBMIT"})
                = SumFunctionOnSet(Points, {}) + Points["PROPOSAL_SUBMIT"]
            BY <2>1, <2>3, SumExtend
        <3>2. {} \cup {"PROPOSAL_SUBMIT"} = S1
            OBVIOUS
        <3> QED BY <1>9, <2>2, <3>1, <3>2, SumEmpty
    <2>7. /\ SumFunctionOnSet(Points, S2) = SumFunctionOnSet(Points, S1)
                + IF q.boost THEN Points["PROPOSAL_BOOST"] ELSE 0
          /\ IsFiniteSet(S2)
        <3>1. IF q.boost THEN S2 = S1 \cup {"PROPOSAL_BOOST"} ELSE S2 = S1
            OBVIOUS
        <3> HIDE DEF S1, S2
        <3> QED BY <1>4, <2>1, <2>3, <2>5, <3>1, SumWith
    <2>8. SumFunctionOnSet(Points, S3) = SumFunctionOnSet(Points, S2)
                + IF ~q.monthly THEN Points["MONTHLY_APPLY"] ELSE 0
        <3>1. PICK c \in BOOLEAN : c <=> ~q.monthly
            OBVIOUS
        <3>2. IF c THEN S3 = S2 \cup {"MONTHLY_APPLY"} ELSE S3 = S2
            BY <3>1
        <3> HIDE DEF S2, S3
        <3>3. SumFunctionOnSet(Points, S3) = SumFunctionOnSet(Points, S2)
                + IF c THEN Points["MONTHLY_APPLY"] ELSE 0
            BY <2>4, <2>5, <2>7, <3>2, SumWith
        <3> QED BY <3>1, <3>3
    <2> HIDE DEF S1, S2, S3
    <2> QED BY <1>9, <2>2, <2>6, <2>7, <2>8
<1> HIDE DEF S1, S2, S3
<1>11. /\ Posts(posted') = Posts(posted) + SumFunctionOnSet(Points, S3)
       /\ Streaks(streakRows') = Streaks(streakRows) + SumFunctionOnSet(StreakPoints, earned)
    BY <1>1, <1>3, <1>7, <1>8, <1>9, PostsAdd, StreaksAdd
<1>12. /\ Posts(posted) \in Int /\ Streaks(streakRows) \in Int
       /\ SumFunctionOnSet(StreakPoints, earned) \in Nat
    <2>1. \A m \in earned : StreakPoints[m] \in Nat
        BY WalletAssumption
    <2> QED BY <1>1, <1>9, <2>1, LedgerInteger, SumNotNegative
<1>13. /\ Points["PROPOSAL_SUBMIT"] \in Int /\ Points["PROPOSAL_BOOST"] \in Int
       /\ Points["MONTHLY_APPLY"] \in Nat
    BY WalletAssumption DEF RewardsAdd, Reasons
<1>14. \A s \in Requests \ {r} : req[s].pc = "idle" /\ req'[s] = req[s]
    BY <1>2, <1>4, <1>5, OthersIdle
<1>15. balance = LedgerSum
    BY <1>2, <1>4, <1>14 DEF BooksInv
<1>16. balance' \in Nat
    BY <1>1, <1>4, <1>6, <1>12, <1>13, CostInteger
<1>17. balance' = LedgerSum'
    BY <1>1, <1>4, <1>6, <1>10, <1>11, <1>12, <1>13, <1>15, LedgerIs DEF Cost
<1>18. Reads(req'[r], balance') /\ req'[r].pc # "written"
    BY <1>5 DEF Reads, Idle
<1> QED BY <1>1, <1>14, <1>16, <1>17, <1>18, PointsMoved

-----------------------------------------------------------------------------
LEMMA NextBooks ==
    ASSUME RewardsAdd, Crashes = FALSE, WalletInv, BooksInv, OneRequest, [Next]_vars
    PROVE  BooksInv'
<1>1. CASE Tick \/ UNCHANGED vars
    <2>1. UNCHANGED <<balance, posted, streakRows, req>>
        BY <1>1 DEF Tick, vars, rows, applyVars
    <2>2. LedgerSum' = LedgerSum
        BY <2>1, LedgerIs
    <2> QED BY <2>1, <2>2 DEF BooksInv, Reads, Owing, Cost
<1>2. CASE \E r \in Requests : ReadWallet(r) \/ WriteWallet(r) \/ PostTransaction(r)
    BY <1>2, CreditBooks
<1>3. CASE \E r \in Requests : CommitPurchase(r)
    BY <1>3, PurchaseBooks
<1>4. CASE \E r \in Requests :
            \/ MarkShare(r) \/ MarkLoginDay(r) \/ MarkLoginMonth(r)
            \/ ConfirmJob(r) \/ ConfirmAgain(r) \/ CountJobs(r) \/ MarkOneTime(r)
    BY <1>4, MarkBooks
<1>5. CASE \E r \in Requests :
            \/ BeginPurchase(r) \/ BeginShare(r) \/ BeginLogin(r)
            \/ BeginConfirm(r) \/ BeginSubmit(r)
            \/ \E task \in OneTime : BeginOneTime(r, task)
    BY <1>5, StartBooks
<1>6. CASE \E r \in Requests : DebitWallet(r) \/ ReadTasks(r)
    BY <1>6, ChargeBooks
<1>7. CASE \E r \in Requests : CommitSubmit(r)
    BY <1>7, CommitBooks
<1>8. \A r \in Requests : ~Crash(r)
    BY DEF Crash
<1> QED BY <1>1, <1>2, <1>3, <1>4, <1>5, <1>6, <1>7, <1>8 DEF Next

\* Between requests that take turns and run to their end, the balance is the
\* sum of the ledger's transactions and is never overdrawn, although credit()
\* writes an absolute balance and a submission checks once for two debits.
THEOREM BalanceFollowsLedger ==
    ASSUME Crashes = FALSE, RewardsAdd
    PROVE  Spec /\ []OneRequest => []BalanceIsLedger
<1>1. Init => BooksInv
    BY InitBooks
<1>2. WalletInv /\ BooksInv /\ OneRequest /\ [Next]_vars => BooksInv'
    BY NextBooks
<1>3. BooksInv => BalanceIsLedger
    BY DEF BooksInv, BalanceIsLedger, AllIdle
<1> QED BY InitWallet, NextWallet, <1>1, <1>2, <1>3, PTL DEF Spec
=============================================================================
