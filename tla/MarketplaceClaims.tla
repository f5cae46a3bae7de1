-------------------------- MODULE MarketplaceClaims --------------------------
(***************************************************************************)
(* What the repository's documents and tests say of an engagement and the  *)
(* handlers do not keep once two requests interleave, or once the admin    *)
(* closes a listing.                                                       *)
(***************************************************************************)
EXTENDS EngagementPages

\* PROJECT_STATE.md and ADMIN_PROJECT_MODERATION.md list the transitions of a
\* project's status, hard deletion of a draft and an admin's close included:
\* CLOSED and CANCELLED are final, and an IN_PROGRESS project is not closed.
Listed ==
    {<<"DRAFT", "OPEN">>, <<"DRAFT", "CANCELLED">>, <<"DRAFT", "ABSENT">>,
     <<"OPEN", "CLOSED">>, <<"OPEN", "CANCELLED">>, <<"OPEN", "IN_PROGRESS">>,
     <<"IN_PROGRESS", "COMPLETED">>, <<"DRAFT", "CLOSED">>}
ListedTransitions ==
    [][project' = project \/ <<project, project'>> \in Listed]_vars

\* PROJECT_STATE.md: when an OPEN project is closed with pending proposals,
\* the proposals become REJECTED in the same transaction.
ClosingRejectsPending ==
    [][project = "OPEN" /\ project' = "CLOSED" =>
        \A p \in Proposals : proposal'[p] # "PENDING"]_vars

\* proposals.e2e-spec.ts: "freelancer cannot withdraw ACCEPTED proposal".
AcceptedNotWithdrawn ==
    [][\A p \in Proposals : proposal[p] = "ACCEPTED" =>
                            proposal'[p] # "WITHDRAWN"]_vars

\* escrow.e2e-spec.ts: "dispute blocks completion".
DisputeBlocksCompletion ==
    [][escrow = "DISPUTED" /\ project' = "COMPLETED" =>
        project = "COMPLETED"]_vars
=============================================================================
