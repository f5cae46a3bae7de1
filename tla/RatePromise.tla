---------------------------- MODULE RatePromise ----------------------------
(***************************************************************************)
(* What an administrator who decides the platform's commission may expect. *)
(* A decision whose day has come takes effect at once; one for a later day *)
(* is announced and takes effect on that day.  Nothing else changes the    *)
(* terms, and an announced change is not forgotten, only replaced by       *)
(* another.                                                                *)
(***************************************************************************)
EXTENDS Integers, Sequences

CONSTANTS Terms, MaxTime

VARIABLES
    today,      \* the day
    terms,      \* the terms of a contract concluded today
    announced,  \* the announced changes, as a set of [from, terms]
    decisions   \* what was decided and not refused, in order

promiseVars == <<today, terms, announced, decisions>>

Changes == [from: 0..MaxTime, terms: Terms]

Init == today = 0 /\ terms \in Terms /\ announced = {} /\ decisions = <<>>

\* The terms move by a decision and to what it says, and it cannot be ignored.
Decide ==
    \E change \in Changes :
        /\ decisions' = Append(decisions, change)
        /\ IF change.from <= today THEN terms' = change.terms /\ announced' = announced
                                  ELSE terms' = terms /\ announced' = {change}
        /\ UNCHANGED today

DayPasses ==
    /\ today' = today + 1
    /\ announced' = {change \in announced : change.from > today'}
    /\ LET due == announced \ announced'
       IN IF due = {} THEN terms' = terms
                      ELSE \E change \in due : terms' = change.terms
    /\ UNCHANGED decisions

Next == Decide \/ DayPasses

Spec == Init /\ [][Next]_promiseVars
=============================================================================
