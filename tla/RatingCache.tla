---------------------------- MODULE RatingCache ----------------------------
(***************************************************************************)
(* The reviews of one user and the average that is cached in the profile.  *)
(* A submission, and an administrator's hiding or restoring, change a row  *)
(* and recompute the average in one transaction: it reads what is          *)
(* committed and its own change, and overwrites the average.  An average   *)
(* is represented by the set of reviews that it was computed from.         *)
(***************************************************************************)
EXTENDS CommunityStore

CONSTANT Reviewers  \* the users who may review, on one project each

VARIABLES
    reviews,  \* per reviewer's unique Review row: "none", "visible" or "hidden"
    cached,   \* averageRating
    clean     \* nothing was committed while the last transaction ran (history)

ratingVars == <<reviews, cached, clean>>

VisibleReviews == {v \in Reviewers : reviews[v] = "visible"}

ReviewOps == {"SUBMIT", "HIDE", "RESTORE"}

After(op) == IF op = "HIDE" THEN "hidden" ELSE "visible"

\* The row is written, and locked, by the first statement of a transaction.
RowLocked(v) ==
    \E r \in Requests : req[r].op \in ReviewOps /\ req[r].pc = "commit" /\ req[r].who = v

BeginReview(r, op, v) ==
    /\ Begins(r, op)
    /\ CASE op = "SUBMIT"  -> TRUE
         [] op = "HIDE"    -> reviews[v] = "visible"
         [] op = "RESTORE" -> reviews[v] = "hidden"
    /\ Starts(r, op, "aggregate", v, 0, {})
    /\ UNCHANGED ratingVars

\* Mutant: the aggregate runs outside the transaction.
AggregateOutside(call) == VisibleReviews

\* Mutant: no ?? 0, so that the average of no review is null.
AggregateNull(call) ==
    IF call.op = "HIDE" /\ VisibleReviews = {call.who} THEN {"null"}
    ELSE VisibleReviews \cup {call.who}

\* refreshForUser: the rows that are visible to the transaction.
Aggregate(call) ==
    IF call.op = "HIDE" THEN VisibleReviews \ {call.who} ELSE VisibleReviews \cup {call.who}

ReadAggregate(r) ==
    /\ req[r].op \in ReviewOps /\ req[r].pc = "aggregate"
    /\ ~RowLocked(req[r].who)
    /\ IF req[r].op = "SUBMIT" /\ reviews[req[r].who] # "none"
       THEN Ends(r)
       ELSE req' = [req EXCEPT ![r].pc = "commit", ![r].seen = Aggregate(req[r])]
    /\ UNCHANGED ratingVars

\* The calls whose aggregate does not contain what r commits are marked.
CommitReview(r) ==
    /\ req[r].op \in ReviewOps /\ req[r].pc = "commit"
    /\ reviews' = [reviews EXCEPT ![req[r].who] = After(req[r].op)]
    /\ cached' = req[r].seen
    /\ clean' = (req[r].row = 0)
    /\ req' = [o \in Requests |->
          IF o = r THEN Idle
          ELSE IF req[o].pc = "commit" THEN [req[o] EXCEPT !.row = 1] ELSE req[o]]

RatingInit ==
    /\ reviews = [v \in Reviewers |-> "none"]
    /\ cached = {} /\ clean = TRUE

RatingBegin == \E r \in Requests, op \in ReviewOps, v \in Reviewers : BeginReview(r, op, v)

RatingStep(r) == ReadAggregate(r) \/ CommitReview(r)
=============================================================================
