-------------------------- MODULE CommercialClaims --------------------------
(***************************************************************************)
(* What a comment says of the platform's commission and the code does not  *)
(* keep.                                                                   *)
(***************************************************************************)
EXTENDS MCCommercial

MCOneAdministrator == {Workload({"PLATFORM"}, {{"PLATFORM"}}, {}, 15, 3, 2)}

Pending(rows, day) ==
    {i \in DOMAIN rows : rows[i].status = "SCHEDULED" /\ rows[i].from > day}

\* "Keep current active until scheduled start; cancel any pending schedule":
\* when a change for a later day has been handled, it is the one pending
\* change.  One administrator, one call at a time.
SchedulingReplacesPending ==
    [][\A r \in Requests :
          LET call == req[r]
          IN At(r, "PLATFORM", "commit") /\ call.from > call.asOf /\ req'[r] = Idle =>
                /\ Pending(policies', call.asOf) = {Len(policies')}
                /\ policies'[Len(policies')].terms = call.terms]_vars
=============================================================================
