---------------------------- MODULE ListingForms ----------------------------
(***************************************************************************)
(* How a listing comes about and changes: the client's page for a new      *)
(* project, which creates, updates and publishes in separate calls, the    *)
(* page that edits it, and the proposals that are made on its terms.       *)
(***************************************************************************)
EXTENDS CommunityStore

CONSTANTS
    Terms,    \* what a client may ask for: budget, skills, title
    MaxRows,  \* bound: projects that are created
    Bidders   \* freelancers; each proposes once to a project

ASSUME FormsAssumption == MaxRows \in Nat

VARIABLES
    projects,  \* Project rows: status and terms
    form,      \* the new-project page: its projectId, 0 before the first save, and
               \* whether it was left after publishing
    bids       \* Proposal rows of the first project

formVars == <<projects, form, bids>>

NoBid == [status |-> "none", terms |-> {}]

Publishes == {"PUBLISH", "EDIT_PUBLISH"}

Edits == {"SAVE", "EDIT"} \cup Publishes

PendingBids == {b \in Bidders : bids[b].status = "PENDING"}

(***************************************************************************)
(* Saving and publishing                                                   *)
(***************************************************************************)
\* The new-project page: one save at a time (isSubmitting), of a new project or of
\* the one it has created.
PressSave(r, op) ==
    /\ Begins(r, op) /\ ~form.left
    /\ InFlight("SAVE") \cup InFlight("PUBLISH") = {}
    /\ \E terms \in Terms :
          Starts(r, op, IF form.id = 0 THEN "create_project" ELSE "find",
                 "nobody", form.id, {terms})
    /\ UNCHANGED formVars

CreateProject(r) ==
    /\ req[r].pc = "create_project"
    /\ Len(projects) < MaxRows
    /\ projects' = Append(projects, [status |-> "DRAFT", terms |-> req[r].seen])
    /\ req' = [req EXCEPT ![r].pc = "created", ![r].row = Len(projects')]
    /\ UNCHANGED <<form, bids>>

\* What a save goes on with.
AfterSave(r) == IF req[r].op \in Publishes THEN Goto(r, "publish") ELSE Ends(r)

\* Mutant: the page remembers the project only once it is published.
RememberDraft(r) ==
    /\ req[r].pc = "created"
    /\ form' = IF req[r].op = "PUBLISH" THEN form ELSE [form EXCEPT !.id = req[r].row]
    /\ AfterSave(r)
    /\ UNCHANGED <<projects, bids>>

\* setProjectId, before anything else may fail.
RememberProject(r) ==
    /\ req[r].pc = "created"
    /\ form' = [form EXCEPT !.id = req[r].row]
    /\ AfterSave(r)
    /\ UNCHANGED <<projects, bids>>

\* The page that edits the listing, in another tab or on another device.
PressEdit(r, op) ==
    /\ Begins(r, op)
    /\ projects # <<>>
    /\ \E terms \in Terms : Starts(r, op, "find", "nobody", 1, {terms})
    /\ UNCHANGED formVars

\* update(): assertCanEdit on what it has read,
FindProject(r) ==
    /\ req[r].pc = "find"
    /\ IF projects[req[r].row].status \in {"DRAFT", "OPEN"} THEN Goto(r, "count") ELSE Ends(r)
    /\ UNCHANGED formVars

\* Mutant: only an accepted proposal keeps the terms.
HiredOnly == {b \in Bidders : bids[b].status = "ACCEPTED"}

\* The proposals that keep the terms from being edited.
Restricting == PendingBids

\* then the number of pending proposals; the form always sends every field,
CountPending(r) ==
    /\ req[r].pc = "count"
    /\ IF req[r].row = 1 /\ Restricting # {} THEN Ends(r) ELSE Goto(r, "write")
    /\ UNCHANGED formVars

\* then the update by id.
WriteProject(r) ==
    /\ req[r].pc = "write"
    /\ projects' = [projects EXCEPT ![req[r].row].terms = req[r].seen]
    /\ AfterSave(r)
    /\ UNCHANGED <<form, bids>>

\* publish(): the switch, the status or an incomplete project may refuse it;
BeginPublish(r) ==
    /\ req[r].pc = "publish"
    /\ \/ projects[req[r].row].status = "DRAFT" /\ Goto(r, "open")
       \/ Ends(r)
    /\ UNCHANGED formVars

OpenProject(r) ==
    /\ req[r].pc = "open"
    /\ projects' = [projects EXCEPT ![req[r].row].status = "OPEN"]
    /\ form' = IF req[r].op = "PUBLISH" THEN [form EXCEPT !.left = TRUE] ELSE form
    /\ Ends(r)
    /\ UNCHANGED bids

(***************************************************************************)
(* Proposals                                                               *)
(***************************************************************************)
\* submit() of a freelancer who has not proposed yet: it reads an open project,
BeginBid(r) ==
    /\ Begins(r, "BID")
    /\ projects # <<>> /\ projects[1].status = "OPEN"
    /\ \E b \in Bidders :
          /\ bids[b] = NoBid
          /\ Starts(r, "BID", "insert_bid", b, 1, projects[1].terms)
    /\ UNCHANGED formVars

\* and inserts the proposal on the terms it was shown.
InsertBid(r) ==
    LET call == req[r]
    IN /\ call.pc = "insert_bid"
       /\ bids' = IF bids[call.who] = NoBid
                  THEN [bids EXCEPT ![call.who] = [status |-> "PENDING", terms |-> call.seen]]
                  ELSE bids
       /\ Ends(r)
       /\ UNCHANGED <<projects, form>>

WithdrawBid(b) ==
    /\ Serves("WITHDRAW")
    /\ bids[b].status = "PENDING"
    /\ bids' = [bids EXCEPT ![b].status = "WITHDRAWN"]
    /\ UNCHANGED <<req, projects, form>>

\* recordProposalAcceptance: the others are rejected.
Hire(r) ==
    /\ Begins(r, "HIRE")
    /\ \E b \in PendingBids : Starts(r, "HIRE", "accept", b, 1, {})
    /\ UNCHANGED formVars

RecordHire(r) ==
    LET call == req[r]
    IN /\ call.pc = "accept"
       /\ IF projects[1].status = "OPEN" /\ call.who \in PendingBids
          THEN /\ projects' = [projects EXCEPT ![1].status = "IN_PROGRESS"]
               /\ bids' = [b \in Bidders |->
                              IF b = call.who THEN [bids[b] EXCEPT !.status = "ACCEPTED"]
                              ELSE IF b \in PendingBids THEN [bids[b] EXCEPT !.status = "REJECTED"]
                              ELSE bids[b]]
          ELSE UNCHANGED <<projects, bids>>
       /\ Ends(r)
       /\ UNCHANGED form

FormsInit ==
    /\ projects = <<>> /\ form = [id |-> 0, left |-> FALSE]
    /\ bids = [b \in Bidders |-> NoBid]

FormsBegin ==
    \/ \E r \in Requests : \/ PressSave(r, "SAVE") \/ PressSave(r, "PUBLISH") \/ PressEdit(r, "EDIT")
                           \/ PressEdit(r, "EDIT_PUBLISH") \/ BeginBid(r) \/ Hire(r)
    \/ \E b \in Bidders : WithdrawBid(b)

FormsStep(r) ==
    \/ CreateProject(r) \/ RememberProject(r) \/ FindProject(r) \/ CountPending(r)
    \/ WriteProject(r) \/ BeginPublish(r) \/ OpenProject(r) \/ InsertBid(r) \/ RecordHire(r)
=============================================================================
