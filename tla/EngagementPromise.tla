-------------------------- MODULE EngagementPromise --------------------------
(***************************************************************************)
(* What the marketplace promises about one engagement, whatever its        *)
(* requests interleave: one proposal is funded, only the funded one may be *)
(* hired, only a hired freelancer is credited with the job, and each of    *)
(* the three happens at most once.                                         *)
(***************************************************************************)
EXTENDS Naturals

CONSTANTS Proposals, NoProposal

VARIABLES
    funded,   \* the proposal whose price the client has deposited
    hired,    \* the proposal the client has accepted
    credited  \* jobs credited to the hired freelancer

promiseVars == <<funded, hired, credited>>

Init == funded = NoProposal /\ hired = NoProposal /\ credited = 0

Fund(p) ==
    /\ funded = NoProposal
    /\ funded' = p
    /\ UNCHANGED <<hired, credited>>

Hire(p) ==
    /\ funded = p
    /\ hired = NoProposal
    /\ hired' = p
    /\ UNCHANGED <<funded, credited>>

\* Both in one transaction.
FundAndHire(p) ==
    /\ funded = NoProposal
    /\ hired = NoProposal
    /\ funded' = p
    /\ hired' = p
    /\ UNCHANGED credited

Credit ==
    /\ hired # NoProposal
    /\ credited = 0
    /\ credited' = 1
    /\ UNCHANGED <<funded, hired>>

\* The project is deleted with everything that belongs to it.
Delete ==
    /\ funded' = NoProposal
    /\ hired' = NoProposal
    /\ UNCHANGED credited

Next ==
    \/ \E p \in Proposals : Fund(p) \/ Hire(p) \/ FundAndHire(p)
    \/ Credit
    \/ Delete

Spec == Init /\ [][Next]_promiseVars
=============================================================================
