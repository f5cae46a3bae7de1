--------------------------- MODULE MCPointsWallet ---------------------------
(***************************************************************************)
(* PointsWallet for TLC: the points of nuqati.config.ts, with caps, streak *)
(* milestones and months that a few days can reach.                        *)
(***************************************************************************)
EXTENDS PointsWallet, TLC

MCPoints ==
    [PROFILE_COMPLETE |-> 10, FIRST_PORTFOLIO |-> 10, FIRST_JOB |-> 20,
     WELCOME_BONUS |-> 40, DAILY_LOGIN |-> 1, SOCIAL_SHARE |-> 20,
     PURCHASE |-> 100, PROPOSAL_SUBMIT |-> -10, PROPOSAL_BOOST |-> -25,
     MONTHLY_APPLY |-> 5]

\* For the runs whose properties count rewards: no balance is ever too low.
MCNoPoints == [reason \in Reasons |-> 0]

MCMilestones == {2, 3}
MCStreakPoints == [m \in MCMilestones |-> IF m = 2 THEN 15 ELSE 25]
MCNoStreakPoints == [m \in MCMilestones |-> 0]

Symmetry == Permutations(Requests)
=============================================================================
