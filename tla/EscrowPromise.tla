---------------------------- MODULE EscrowPromise ----------------------------
(***************************************************************************)
(* What the marketplace promises about a client's deposit: it is made once *)
(* for one proposal, stays until it is settled, and is settled once, for   *)
(* one side.  Confirming the work pays the freelancer; while the deposit   *)
(* is disputed nobody confirms, and only an administrator settles.         *)
(***************************************************************************)

CONSTANTS Proposals, NoProposal

VARIABLES
    stage,  \* where the money is
    owner,  \* the proposal that it was deposited for
    done    \* the client has confirmed the work

promiseVars == <<stage, owner, done>>

Init == stage = "none" /\ owner = NoProposal /\ done = FALSE

Deposit(p) ==
    /\ stage = "none"
    /\ stage' = "held"
    /\ owner' = p
    /\ UNCHANGED done

Dispute ==
    /\ stage = "held"
    /\ stage' = "disputed"
    /\ UNCHANGED <<owner, done>>

\* The administrator decides a dispute, for the freelancer or for the client.
Decide(side) ==
    /\ stage = "disputed"
    /\ stage' = side
    /\ UNCHANGED <<owner, done>>

\* The client confirms, also after a decision for the freelancer.
Confirm ==
    /\ ~done
    /\ done' = TRUE
    /\ stage \in {"held", "paid"}
    /\ stage' = "paid"
    /\ UNCHANGED owner

Next ==
    \/ \E p \in Proposals : Deposit(p)
    \/ Dispute
    \/ Decide("paid") \/ Decide("returned")
    \/ Confirm

Spec == Init /\ [][Next]_promiseVars
=============================================================================
