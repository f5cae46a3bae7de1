SPECIFICATION Spec
CONSTANTS
    Requests = {r1, r2}
    Nobody = Nobody
    Operations = {"FIRST_JOB", "DAILY_LOGIN", "PROPOSAL_SUBMIT"}
    Crashes = TRUE
    Points <- MCNoPoints
    Milestones <- MCMilestones
    StreakPoints <- MCNoStreakPoints
    LoginCap = 1
    ShareCap = 1
    DaysPerMonth = 2
    MaxDay = 3
    MaxProposals = 3
    MaxPurchases = 1
    MaxJobs = 1
SYMMETRY Symmetry
INVARIANTS ApplyRewardedOnce StreakIsRun
CHECK_DEADLOCK FALSE
