SPECIFICATION Spec
CONSTANTS
    Requests = {r1}
    Nobody = Nobody
    Operations = {"PROFILE_COMPLETE", "FIRST_PORTFOLIO", "FIRST_JOB", "DAILY_LOGIN", "SOCIAL_SHARE", "PURCHASE", "PROPOSAL_SUBMIT"}
    Crashes = FALSE
    Points <- MCPoints
    Milestones <- MCMilestones
    StreakPoints <- MCStreakPoints
    LoginCap = 2
    ShareCap = 1
    DaysPerMonth = 3
    MaxDay = 4
    MaxProposals = 2
    MaxPurchases = 1
    MaxJobs = 2
INVARIANTS BalanceIsLedger FirstJobRewarded
CHECK_DEADLOCK FALSE
