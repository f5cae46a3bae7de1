-------------------------- MODULE CommunityProofs --------------------------
(***************************************************************************)
(* Broadcasts, reviews, uploads, listings, messages with their             *)
(* notifications, and the limiters, for any number of calls in flight,     *)
(* recipients, reviewers, files, projects, bidders and messages.           *)
(***************************************************************************)
EXTENDS AccountProofs, SequenceTheorems, FiniteSums

-----------------------------------------------------------------------------
(***************************************************************************)
(* Broadcasts                                                              *)
(***************************************************************************)
Delivers(r) == At(r, "BROADCAST", "batch")

\* A key has one row; each row has one sender, and whoever is still on its list has got
\* nothing.
BroadcastInv ==
    /\ broadcasts \in Seq(Keys \cup {NoKey}) /\ Len(broadcasts) <= MaxBroadcasts
    /\ inbox \in [1..MaxBroadcasts -> [Audience -> {0, 1}]]
    /\ \A i, j \in DOMAIN broadcasts : broadcasts[i] = broadcasts[j] => i = j \/ broadcasts[i] = NoKey
    /\ \A i \in 1..MaxBroadcasts \ DOMAIN broadcasts : \A u \in Audience : inbox[i][u] = 0
    /\ \A r \in Requests : req[r].op = "BROADCAST" =>
          req[r].seen \subseteq Audience /\ req[r].who \in Keys \cup {NoKey}
    /\ \A r \in Requests : Delivers(r) =>
          /\ req[r].row \in DOMAIN broadcasts
          /\ \A u \in req[r].seen : inbox[req[r].row][u] = 0
    /\ \A r, other \in Requests : Delivers(r) /\ Delivers(other) /\ req[r].row = req[other].row => r = other

LEMMA BatchOfRest ==
    ASSUME NEW users, NEW batch \in Batches(users)
    PROVE  batch \subseteq users
BY DEF Batches, kSubset

LEMMA BroadcastRows ==
    ASSUME BroadcastInv
    PROVE  /\ Len(broadcasts) \in Nat /\ DOMAIN broadcasts = 1..Len(broadcasts)
           /\ DOMAIN broadcasts \subseteq 1..MaxBroadcasts
BY LenProperties, BatchAssumption DEF BroadcastInv

LEMMA BroadcastStepInv ==
    ASSUME Shape, BroadcastInv, [Next]_vars
    PROVE  BroadcastInv'
<1> USE DEF BroadcastInv, Delivers, At
<1>1. CASE UNCHANGED broadcastVars /\ Untouched({"BROADCAST"})
    BY <1>1 DEF broadcastVars, Untouched, Idle
<1> SUFFICES ASSUME NEW r \in Requests, BeginBroadcast(r) \/ BroadcastStep(r)
             PROVE  BroadcastInv'
    BY <1>1, BroadcastFrame DEF BroadcastNext
<1>2. CASE BeginBroadcast(r)
    <2>1. PICK key \in Keys \cup {NoKey} :
              Starts(r, "BROADCAST", "resolve", key, 0, {}) /\ UNCHANGED broadcastVars
        BY <1>2 DEF BeginBroadcast
    <2> QED BY <2>1 DEF Starts, Shape, broadcastVars
<1>3. CASE ResolveRecipients(r)
    BY <1>3 DEF ResolveRecipients, Shape, CallShape, Idle, broadcastVars
<1>4. CASE CreateBroadcast(r)
    <2>1. PICK n \in Nat : n = Len(broadcasts) /\ DOMAIN broadcasts = 1..n
        BY BroadcastRows
    <2>2. /\ req[r].who \in Keys \cup {NoKey} /\ n < MaxBroadcasts
          /\ \A i \in DOMAIN broadcasts : broadcasts[i] = req[r].who => req[r].who = NoKey
        BY <1>4, <2>1 DEF CreateBroadcast, SendsFirst, WithKey
    <2>3. /\ broadcasts' \in Seq(Keys \cup {NoKey}) /\ Len(broadcasts') = n + 1
          /\ DOMAIN broadcasts' = 1..n + 1
          /\ \A i \in DOMAIN broadcasts : broadcasts'[i] = broadcasts[i]
          /\ broadcasts'[n + 1] = req[r].who
        BY <1>4, <2>1, <2>2, AppendProperties DEF CreateBroadcast
    <2>4. /\ req'[r].op = req[r].op /\ req'[r].pc = "batch" /\ req'[r].row = n + 1
          /\ req'[r].seen = req[r].seen /\ req'[r].who = req[r].who
          /\ \A other \in Requests \ {r} : req'[other] = req[other]
        BY <1>4, <2>3 DEF CreateBroadcast, Shape, CallShape, Idle
    <2>5. n + 1 \in 1..MaxBroadcasts \ DOMAIN broadcasts /\ inbox' = inbox
        BY <1>4, <2>1, <2>2, BatchAssumption DEF CreateBroadcast
    <2>6. \A i, j \in DOMAIN broadcasts' :
              broadcasts'[i] = broadcasts'[j] => i = j \/ broadcasts'[i] = NoKey
        BY <2>1, <2>2, <2>3
    <2>7. ASSUME NEW other \in Requests, Delivers(other)'
          PROVE  /\ req'[other].row \in DOMAIN broadcasts'
                 /\ \A u \in req'[other].seen : inbox'[req'[other].row][u] = 0
        <3>1. CASE other = r
            <4>1. req[r].op = "BROADCAST" /\ req[r].seen \subseteq Audience
                BY <1>4 DEF CreateBroadcast
            <4>2. \A u \in Audience : inbox[n + 1][u] = 0
                BY <2>5
            <4>3. n + 1 \in DOMAIN broadcasts'
                BY <2>3
            <4> QED BY <2>4, <2>5, <3>1, <4>1, <4>2, <4>3
        <3>2. CASE other # r
            <4>1. req'[other] = req[other] /\ Delivers(other)
                BY <2>4, <2>7, <3>2
            <4>2. req[other].row \in DOMAIN broadcasts /\ DOMAIN broadcasts \subseteq DOMAIN broadcasts'
                BY <2>1, <2>3, <4>1
            <4> QED BY <2>5, <4>1, <4>2
        <3> QED BY <3>1, <3>2
    <2>8. \A q, other \in Requests :
              Delivers(q)' /\ Delivers(other)' /\ req'[q].row = req'[other].row => q = other
        BY <2>1, <2>4
    <2>9. \A i \in 1..MaxBroadcasts \ DOMAIN broadcasts' : \A u \in Audience : inbox'[i][u] = 0
        BY <2>1, <2>3, <2>5
    <2>10. \A q \in Requests : req'[q].op = "BROADCAST" =>
              req'[q].seen \subseteq Audience /\ req'[q].who \in Keys \cup {NoKey}
        BY <1>4, <2>4 DEF CreateBroadcast
    <2>11. Len(broadcasts') <= MaxBroadcasts /\ inbox' \in [1..MaxBroadcasts -> [Audience -> {0, 1}]]
        BY <2>2, <2>3, <2>5, BatchAssumption
    <2> QED BY <2>3, <2>6, <2>7, <2>8, <2>9, <2>10, <2>11
<1>5. CASE SendBatch(r)
    <2>1. CASE Ends(r) /\ UNCHANGED inbox
        BY <1>5, <2>1 DEF SendBatch, Ends, Shape, Idle
    <2>2. ASSUME NEW batch \in Batches(req[r].seen), Notify(batch, req[r].row),
                 req' = [req EXCEPT ![r].seen = @ \ batch]
          PROVE  BroadcastInv'
        <3> DEFINE row == req[r].row
        <3>1. batch \subseteq req[r].seen /\ req[r].seen \subseteq Audience
            BY <1>5, <2>2, BatchOfRest DEF SendBatch
        <3>2. row \in 1..MaxBroadcasts /\ row \in DOMAIN broadcasts /\ UNCHANGED broadcasts
            BY <1>5, BroadcastRows DEF SendBatch
        <3>3. /\ DOMAIN inbox' = 1..MaxBroadcasts
              /\ \A i \in 1..MaxBroadcasts \ {row} : inbox'[i] = inbox[i]
              /\ inbox'[row] = [u \in Audience |-> IF u \in batch THEN inbox[row][u] + 1 ELSE inbox[row][u]]
            BY <2>2, <3>2 DEF Notify
        <3>4. \A u \in batch : inbox[row][u] = 0
            BY <1>5, <3>1 DEF SendBatch
        <3>5. inbox'[row] \in [Audience -> {0, 1}]
            BY <3>2, <3>3, <3>4
        <3>6. inbox' \in [1..MaxBroadcasts -> [Audience -> {0, 1}]]
            BY <2>2, <3>2, <3>3, <3>5 DEF Notify
        <3>7. /\ req'[r].op = req[r].op /\ req'[r].pc = req[r].pc /\ req'[r].seen = req[r].seen \ batch
              /\ req'[r].row = req[r].row /\ req'[r].who = req[r].who
              /\ \A other \in Requests \ {r} : req'[other] = req[other]
            BY <2>2 DEF Shape, CallShape, Idle
        <3>8. \A u \in req'[r].seen : inbox'[row][u] = 0
            BY <1>5, <3>1, <3>3, <3>7 DEF SendBatch
        <3>9. \A other \in Requests : Delivers(other)' =>
                  /\ req'[other].row \in DOMAIN broadcasts'
                  /\ \A u \in req'[other].seen : inbox'[req'[other].row][u] = 0
            <4>1. ASSUME NEW other \in Requests \ {r}, Delivers(other)
                  PROVE  req[other].row \in 1..MaxBroadcasts \ {row}
                BY <1>5, <4>1, BroadcastRows DEF SendBatch
            <4> QED BY <1>5, <3>2, <3>3, <3>7, <3>8, <4>1 DEF SendBatch
        <3>10. \A i \in 1..MaxBroadcasts \ DOMAIN broadcasts' : \A u \in Audience : inbox'[i][u] = 0
            BY <3>2, <3>3
        <3>11. \A q \in Requests :
                  /\ Delivers(q)' => Delivers(q)
                  /\ req'[q].row = req[q].row
                  /\ req'[q].op = "BROADCAST" =>
                        req'[q].seen \subseteq Audience /\ req'[q].who \in Keys \cup {NoKey}
            BY <1>5, <3>7 DEF SendBatch
        <3> QED BY <3>2, <3>6, <3>9, <3>10, <3>11
    <2> QED BY <1>5, <2>1, <2>2 DEF SendBatch
<1>6. CASE FindBroadcast(r)
    BY <1>6 DEF FindBroadcast, Ends, Shape, Idle, broadcastVars
<1> QED BY <1>2, <1>3, <1>4, <1>5, <1>6 DEF BroadcastStep

LEMMA InitBroadcastInv == Init => Shape /\ BroadcastInv
<1> SUFFICES ASSUME Init PROVE BroadcastInv
    BY InitShape
<1>1. broadcasts \in Seq(Keys \cup {NoKey}) /\ Len(broadcasts) = 0 /\ DOMAIN broadcasts = {}
    BY EmptySeq DEF Init, BroadcastInit
<1> QED BY <1>1, BatchAssumption DEF Init, BroadcastInit, BroadcastInv, Delivers, At, StoreInit, Idle

\* Calls with one key notify nobody twice, and a call without a key notifies once,
\* whatever the number of calls that overlap, the size of a batch and the places
\* where processes die.
THEOREM SpecNotifiedOnce == Spec => []NotifiedOnce
<1>1. Init => Shape /\ BroadcastInv
    BY InitBroadcastInv
<1>2. Shape /\ BroadcastInv /\ [Next]_vars => Shape' /\ BroadcastInv'
    BY BroadcastStepInv, BroadcastFrame
<1>3. BroadcastInv => NotifiedOnce
    <2> SUFFICES ASSUME BroadcastInv, NEW i \in DOMAIN broadcasts, NEW u \in Audience
                 PROVE  inbox[i][u] <= 1 /\ WithKey(broadcasts[i]) \ {i} = {}
        BY DEF NotifiedOnce
    <2>1. i \in 1..MaxBroadcasts
        BY BroadcastRows
    <2> QED BY <2>1 DEF BroadcastInv, WithKey
<1> QED BY <1>1, <1>2, <1>3, PTL DEF Spec

-----------------------------------------------------------------------------
(***************************************************************************)
(* Reviews                                                                 *)
(***************************************************************************)
Committing(r) == req[r].op \in ReviewOps /\ req[r].pc = "commit"

\* What the transaction r leaves visible if nothing else is committed meanwhile.
Leaves(r) ==
    IF req[r].op = "HIDE" THEN VisibleReviews \ {req[r].who} ELSE VisibleReviews \cup {req[r].who}

\* The aggregate of a transaction that nothing overlapped is the one that its commit leaves.
RatingInv ==
    /\ reviews \in [Reviewers -> {"none", "visible", "hidden"}]
    /\ \A r \in Requests : req[r].op \in ReviewOps => req[r].who \in Reviewers
    /\ \A r \in Requests : Committing(r) /\ req[r].row = 0 => req[r].seen = Leaves(r)
    /\ CacheHeals

LEMMA RatingStepInv ==
    ASSUME Shape, RatingInv, [Next]_vars
    PROVE  RatingInv'
<1> USE DEF RatingInv, Committing, Leaves, CacheHeals, VisibleReviews
<1>1. CASE UNCHANGED ratingVars /\ Untouched(ReviewOps)
    <2>1. UNCHANGED <<reviews, cached, clean>> /\ CacheHeals'
        BY <1>1 DEF ratingVars
    <2>2. \A r \in Requests : req'[r].op \in ReviewOps => req'[r] = req[r]
        BY <1>1 DEF Untouched, Idle, ReviewOps
    <2> HIDE DEF CacheHeals
    <2> QED BY <2>1, <2>2
<1>2. ASSUME NEW r \in Requests, NEW op \in ReviewOps, NEW v \in Reviewers, BeginReview(r, op, v)
      PROVE  RatingInv'
    BY <1>2 DEF BeginReview, Starts, Shape, ratingVars, ReviewOps
<1>3. ASSUME NEW r \in Requests, ReadAggregate(r)
      PROVE  RatingInv'
    <2>1. CASE Ends(r)
        BY ZenonT(30), <1>3, <2>1 DEF ReadAggregate, Ends, Shape, Idle, ratingVars, ReviewOps
    <2>2. CASE req' = [req EXCEPT ![r].pc = "commit", ![r].seen = Aggregate(req[r])]
        <3>1. /\ req'[r].op = req[r].op /\ req'[r].who = req[r].who /\ req'[r].seen = Leaves(r)
              /\ \A other \in Requests \ {r} : req'[other] = req[other]
            BY <2>2 DEF Shape, CallShape, Idle, Aggregate
        <3>2. UNCHANGED <<reviews, cached, clean>>
            BY <1>3 DEF ReadAggregate, ratingVars
        <3>3. \A other \in Requests : Leaves(other)' = Leaves(other)
            BY <3>1, <3>2
        <3>4. CacheHeals'
            BY <3>2
        <3> HIDE DEF Leaves, CacheHeals
        <3> QED BY <3>1, <3>2, <3>3, <3>4
    <2> QED BY <1>3, <2>1, <2>2 DEF ReadAggregate
<1>4. ASSUME NEW r \in Requests, CommitReview(r)
      PROVE  RatingInv'
    <2>1. reviews' = [reviews EXCEPT ![req[r].who] = After(req[r].op)]
        BY <1>4 DEF CommitReview
    <2>2. VisibleReviews' = Leaves(r)
        BY <1>4, <2>1 DEF CommitReview, After
    <2>3. \A other \in Requests : other # r =>
              /\ req'[other].op = req[other].op /\ req'[other].who = req[other].who
              /\ req'[other].pc = req[other].pc
              /\ req'[other].pc = "commit" => req'[other].row = 1
        BY <1>4 DEF CommitReview, Shape, CallShape, Idle
    <2>4. req'[r] = Idle
        BY <1>4 DEF CommitReview, Shape
    <2>5. reviews' \in [Reviewers -> {"none", "visible", "hidden"}]
        BY <2>1 DEF After
    <2>6. CacheHeals'
        BY <1>4, <2>2 DEF CommitReview
    <2> HIDE DEF CacheHeals
    <2> QED BY <2>3, <2>4, <2>5, <2>6 DEF Idle, ReviewOps
<1> QED BY <1>1, <1>2, <1>3, <1>4, RatingFrame DEF RatingNext, RatingBegin, RatingStep

LEMMA InitRatingInv == Init => Shape /\ RatingInv
BY InitShape DEF Init, RatingInit, RatingInv, Committing, CacheHeals, VisibleReviews, StoreInit,
                 Idle, ReviewOps

\* However many reviews, hidings and restorations overlapped before, the average
\* is right after a transaction that ran alone.
THEOREM SpecCacheHeals == Spec => []CacheHeals
<1>1. Init => Shape /\ RatingInv
    BY InitRatingInv
<1>2. Shape /\ RatingInv /\ [Next]_vars => Shape' /\ RatingInv'
    BY RatingStepInv, RatingFrame
<1>3. RatingInv => CacheHeals
    BY DEF RatingInv
<1> QED BY <1>1, <1>2, <1>3, PTL DEF Spec

-----------------------------------------------------------------------------
(***************************************************************************)
(* Listings                                                                *)
(***************************************************************************)
ProjectRow == [status : {"DRAFT", "OPEN", "IN_PROGRESS"}, terms : SUBSET Terms]
BidRow == [status : {"none", "PENDING", "WITHDRAWN", "REJECTED", "ACCEPTED"}, terms : SUBSET Terms]

FormCall(call) ==
    /\ call.op \in Edits => call.seen \subseteq Terms
    /\ call.op \in Edits /\ call.pc # "create_project" => call.row \in DOMAIN projects
    /\ call.op \in {"BID", "HIRE"} => projects # <<>> /\ call.who \in Bidders
    /\ call.op = "BID" => call.seen \subseteq Terms

FormsTyped ==
    /\ projects \in Seq(ProjectRow)
    /\ form \in [id : {0} \cup DOMAIN projects, left : BOOLEAN]
    /\ bids \in [Bidders -> BidRow]
    /\ \A b \in Bidders : bids[b].status # "none" => projects # <<>>
    /\ \A r \in Requests : FormCall(req[r])

LEMMA ProjectRows ==
    ASSUME FormsTyped
    PROVE  /\ Len(projects) \in Nat /\ DOMAIN projects = 1..Len(projects)
           /\ \A i \in DOMAIN projects : projects[i] \in ProjectRow
           /\ projects # <<>> => 1 \in DOMAIN projects
BY LenProperties, EmptySeq DEF FormsTyped

\* A row that keeps its place: some field of one project is overwritten.
LEMMA RowReplaced ==
    ASSUME FormsTyped, NEW i \in DOMAIN projects, NEW row \in ProjectRow
    PROVE  LET new == [projects EXCEPT ![i] = row]
           IN new \in Seq(ProjectRow) /\ DOMAIN new = DOMAIN projects /\ Len(new) = Len(projects)
BY ExceptSeq DEF FormsTyped

LEMMA RowAppended ==
    ASSUME FormsTyped, NEW row \in ProjectRow
    PROVE  /\ Append(projects, row) \in Seq(ProjectRow)
           /\ Len(Append(projects, row)) = Len(projects) + 1
           /\ DOMAIN Append(projects, row) = 1..Len(projects) + 1
           /\ \A i \in DOMAIN projects : Append(projects, row)[i] = projects[i]
BY AppendProperties, LenProperties DEF FormsTyped

\* Projects are never deleted here, so that a call may go on with the one it has.
LEMMA CallsStay ==
    ASSUME Shape, FormsTyped, NEW r \in Requests, DOMAIN req' = Requests,
           DOMAIN projects \subseteq DOMAIN projects', projects # <<>> => projects' # <<>>,
           \A other \in Requests \ {r} : req'[other] = req[other],
           FormCall(req[r])'
    PROVE  \A other \in Requests : FormCall(req[other])'
BY DEF FormsTyped, FormCall

\* A call that goes on, or ends, keeps what it brings along.
LEMMA GoesOn ==
    ASSUME Shape, FormsTyped, NEW r \in Requests, NEW pc, Goto(r, pc) \/ Ends(r), pc # "create_project",
           req[r].pc # "create_project",
           DOMAIN projects \subseteq DOMAIN projects', projects # <<>> => projects' # <<>>
    PROVE  /\ \A other \in Requests : FormCall(req[other])'
           /\ \A other \in Requests \ {r} : req'[other] = req[other]
           /\ \/ /\ req'[r].op = req[r].op /\ req'[r].pc = pc /\ req'[r].who = req[r].who
                 /\ req'[r].row = req[r].row /\ req'[r].seen = req[r].seen
              \/ req'[r] = Idle
<1>1. \/ /\ req'[r].op = req[r].op /\ req'[r].pc = pc /\ req'[r].who = req[r].who
         /\ req'[r].row = req[r].row /\ req'[r].seen = req[r].seen
      \/ req'[r] = Idle
    BY ZenonT(30) DEF Goto, Ends, Shape, CallShape, Idle
<1>2. DOMAIN req' = Requests /\ \A other \in Requests \ {r} : req'[other] = req[other]
    BY DEF Goto, Ends, Shape
<1>3. FormCall(req[r])'
    BY <1>1 DEF FormsTyped, FormCall, Idle, Edits, Publishes
<1> QED BY <1>1, <1>2, <1>3, CallsStay

LEMMA FormsTypedStep ==
    ASSUME Shape, FormsTyped, [Next]_vars
    PROVE  FormsTyped'
<1>1. CASE UNCHANGED formVars /\ Untouched(FormOps)
    BY <1>1 DEF formVars, Untouched, Idle, FormsTyped, FormCall, FormOps, Edits, Publishes
<1> USE ProjectRows
<1>2. ASSUME NEW r \in Requests, NEW op \in {"SAVE", "PUBLISH"}, PressSave(r, op)
      PROVE  FormsTyped'
    <2>1. PICK terms \in Terms :
              Starts(r, op, IF form.id = 0 THEN "create_project" ELSE "find",
                     "nobody", form.id, {terms})
        BY <1>2 DEF PressSave
    <2>2. FormCall(req[r])' /\ DOMAIN req' = Requests
        BY <1>2, <2>1 DEF PressSave, Starts, FormCall, FormsTyped, formVars, Shape
    <2>3. \A other \in Requests : FormCall(req[other])'
        BY <1>2, <2>1, <2>2, CallsStay DEF PressSave, Starts, formVars
    <2> QED BY <1>2, <2>3 DEF PressSave, formVars, FormsTyped
<1>3. ASSUME NEW r \in Requests, NEW op \in {"EDIT", "EDIT_PUBLISH"}, PressEdit(r, op)
      PROVE  FormsTyped'
    <2>1. PICK terms \in Terms : Starts(r, op, "find", "nobody", 1, {terms})
        BY <1>3 DEF PressEdit
    <2>2. FormCall(req[r])' /\ DOMAIN req' = Requests
        BY <1>3, <2>1 DEF PressEdit, Starts, FormCall, formVars, Shape
    <2>3. \A other \in Requests : FormCall(req[other])'
        BY <1>3, <2>1, <2>2, CallsStay DEF PressEdit, Starts, formVars
    <2> QED BY <1>3, <2>3 DEF PressEdit, formVars, FormsTyped
<1>4. ASSUME NEW r \in Requests, BeginBid(r) \/ Hire(r)
      PROVE  FormsTyped'
    <2>1. PICK b \in Bidders : \/ BeginBid(r) /\ Starts(r, "BID", "insert_bid", b, 1, projects[1].terms)
                               \/ Hire(r) /\ bids[b].status = "PENDING"
                                  /\ Starts(r, "HIRE", "accept", b, 1, {})
        BY <1>4 DEF BeginBid, Hire, PendingBids
    <2>2. CASE BeginBid(r) /\ Starts(r, "BID", "insert_bid", b, 1, projects[1].terms)
        <3>1. FormCall(req[r])' /\ DOMAIN req' = Requests /\ UNCHANGED <<projects, form, bids>>
            BY <2>2 DEF BeginBid, Starts, FormCall, formVars, Shape, ProjectRow, Edits, Publishes
        <3>2. \A other \in Requests : FormCall(req[other])'
            BY <2>2, <3>1, CallsStay DEF Starts
        <3> QED BY <3>1, <3>2 DEF FormsTyped
    <2>3. CASE Hire(r) /\ bids[b].status = "PENDING" /\ Starts(r, "HIRE", "accept", b, 1, {})
        <3>1. projects # <<>>
            BY <2>3 DEF FormsTyped
        <3>2. FormCall(req[r])' /\ DOMAIN req' = Requests /\ UNCHANGED <<projects, form, bids>>
            BY <2>3, <3>1 DEF Hire, Starts, FormCall, formVars, Shape, Edits, Publishes
        <3>3. \A other \in Requests : FormCall(req[other])'
            BY <2>3, <3>2, CallsStay DEF Starts
        <3> QED BY <3>2, <3>3 DEF FormsTyped
    <2> QED BY <2>1, <2>2, <2>3
<1>5. ASSUME NEW b \in Bidders, WithdrawBid(b)
      PROVE  FormsTyped'
    BY SMTT(30), <1>5 DEF WithdrawBid, FormsTyped, FormCall, BidRow
<1>6. ASSUME NEW r \in Requests, CreateProject(r)
      PROVE  FormsTyped'
    <2>1. req[r].op \in Edits /\ req[r].seen \subseteq Terms
        BY <1>6 DEF CreateProject, FormsTyped, FormCall, Shape, CallShape, Edits, Publishes
    <2>2. [status |-> "DRAFT", terms |-> req[r].seen] \in ProjectRow
        BY <2>1 DEF ProjectRow
    <2>3. /\ projects' \in Seq(ProjectRow) /\ Len(projects') = Len(projects) + 1
          /\ DOMAIN projects' = 1..Len(projects) + 1 /\ projects' # <<>>
        BY <1>6, <2>2, RowAppended, EmptySeq DEF CreateProject
    <2>4. /\ req'[r].op = req[r].op /\ req'[r].seen = req[r].seen /\ req'[r].pc = "created"
          /\ req'[r].row = Len(projects')
        BY <1>6 DEF CreateProject, Shape, CallShape, Idle
    <2>5. FormCall(req[r])' /\ DOMAIN req' = Requests
        BY <1>6, <2>1, <2>3, <2>4 DEF CreateProject, FormCall, Shape, Edits, Publishes
    <2>6. \A other \in Requests : FormCall(req[other])'
        BY <1>6, <2>3, <2>5, CallsStay DEF CreateProject
    <2>7. form' \in [id : {0} \cup DOMAIN projects', left : BOOLEAN] /\ UNCHANGED bids
        BY <1>6, <2>3 DEF CreateProject, FormsTyped
    <2> QED BY <2>3, <2>6, <2>7 DEF FormsTyped
<1>7. ASSUME NEW r \in Requests, RememberProject(r)
      PROVE  FormsTyped'
    <2>1. req[r].row \in DOMAIN projects
        BY <1>7 DEF RememberProject, FormsTyped, FormCall, Shape, CallShape, Edits, Publishes
    <2>2. \A other \in Requests : FormCall(req[other])'
        BY <1>7, GoesOn DEF RememberProject, AfterSave
    <2> QED BY <1>7, <2>1, <2>2 DEF RememberProject, FormsTyped
<1>8. ASSUME NEW r \in Requests, FindProject(r) \/ CountPending(r) \/ BeginPublish(r)
      PROVE  FormsTyped'
    <2>1. \A other \in Requests : FormCall(req[other])'
        BY <1>8, GoesOn DEF FindProject, CountPending, BeginPublish, formVars
    <2> QED BY <1>8, <2>1 DEF FindProject, CountPending, BeginPublish, formVars, FormsTyped
<1>9. ASSUME NEW r \in Requests, WriteProject(r) \/ OpenProject(r)
      PROVE  FormsTyped'
    <2>1. req[r].row \in DOMAIN projects /\ req[r].seen \subseteq Terms
        BY <1>9 DEF WriteProject, OpenProject, FormsTyped, FormCall, Shape, CallShape, Edits, Publishes
    <2>2. /\ projects' \in Seq(ProjectRow) /\ DOMAIN projects' = DOMAIN projects
          /\ projects # <<>> => projects' # <<>>
        <3>1. \E row \in ProjectRow : projects' = [projects EXCEPT ![req[r].row] = row]
            <4>1. CASE WriteProject(r)
                <5>1. [projects[req[r].row] EXCEPT !.terms = req[r].seen] \in ProjectRow
                    BY <2>1 DEF ProjectRow
                <5> QED BY <4>1, <5>1 DEF WriteProject
            <4>2. CASE OpenProject(r)
                <5>1. [projects[req[r].row] EXCEPT !.status = "OPEN"] \in ProjectRow
                    BY <2>1 DEF ProjectRow
                <5> QED BY <4>2, <5>1 DEF OpenProject
            <4> QED BY <1>9, <4>1, <4>2
        <3> QED BY <2>1, <3>1, RowReplaced, EmptySeq
    <2>3. \A other \in Requests : FormCall(req[other])'
        BY <1>9, <2>2, GoesOn DEF WriteProject, OpenProject, AfterSave
    <2>4. form' \in [id : {0} \cup DOMAIN projects', left : BOOLEAN] /\ UNCHANGED bids
        BY <1>9, <2>2 DEF WriteProject, OpenProject, FormsTyped
    <2> QED BY <2>2, <2>3, <2>4 DEF FormsTyped
<1>10. ASSUME NEW r \in Requests, InsertBid(r)
       PROVE  FormsTyped'
    <2>1. \A other \in Requests : FormCall(req[other])'
        BY <1>10, GoesOn DEF InsertBid
    <2>2. req[r].op = "BID" /\ projects # <<>> /\ req[r].seen \subseteq Terms
        BY <1>10 DEF InsertBid, FormsTyped, FormCall, Shape, CallShape
    <2> QED BY <1>10, <2>1, <2>2 DEF InsertBid, FormsTyped, BidRow
<1>11. ASSUME NEW r \in Requests, RecordHire(r)
       PROVE  FormsTyped'
    <2>1. projects # <<>> /\ req[r].who \in Bidders
        BY <1>11 DEF RecordHire, FormsTyped, FormCall, Shape, CallShape
    <2>2. [projects[1] EXCEPT !.status = "IN_PROGRESS"] \in ProjectRow
        BY <2>1 DEF ProjectRow
    <2>3. /\ projects' \in Seq(ProjectRow) /\ DOMAIN projects' = DOMAIN projects
          /\ projects' # <<>>
        <3>1. UNCHANGED projects \/ projects' = [projects EXCEPT ![1] = [projects[1] EXCEPT !.status = "IN_PROGRESS"]]
            BY <1>11 DEF RecordHire
        <3> QED BY <2>1, <2>2, <3>1, RowReplaced, EmptySeq DEF FormsTyped
    <2>4. \A other \in Requests : FormCall(req[other])'
        BY <1>11, <2>3, GoesOn DEF RecordHire
    <2>5. bids' \in [Bidders -> BidRow]
        BY SMTT(30), <1>11, <2>1 DEF RecordHire, FormsTyped, BidRow
    <2> QED BY <1>11, <2>3, <2>4, <2>5 DEF RecordHire, FormsTyped
<1> HIDE ProjectRows
<1>12. FormsNext => FormsTyped'
    BY <1>2, <1>3, <1>4, <1>5, <1>6, <1>7, <1>8, <1>9, <1>10, <1>11
       DEF FormsNext, FormsBegin, FormsStep
<1> QED BY <1>1, <1>12, FormsFrame

-----------------------------------------------------------------------------
(***************************************************************************)
(* One project per visit                                                   *)
(***************************************************************************)
Saving(r) == req[r].op \in {"SAVE", "PUBLISH"}

\* The page waits for its answer; what it does not remember is still to be answered.
ListingInv ==
    ~workload.crashes =>
        /\ \A r, other \in Requests : Saving(r) /\ Saving(other) => r = other
        /\ Len(projects) <= 1
        /\ \A r \in Requests : req[r].pc = "create_project" => projects = <<>>
        /\ form.id = 0 /\ projects # <<>> => \E r \in Requests : req[r].pc = "created"

\* Steps that neither start nor end a creation, and add no project.
LEMMA NoCreation ==
    ASSUME Shape, ListingInv, UNCHANGED <<workload, form>>, Len(projects') = Len(projects),
           projects' = <<>> <=> projects = <<>>,
           \A r \in Requests :
               /\ req'[r].op \in {"SAVE", "PUBLISH"} => Saving(r)
               /\ req'[r].pc = "create_project" => req[r].pc = "create_project"
               /\ req[r].pc = "created" => req'[r].pc = "created"
    PROVE  ListingInv'
BY DEF ListingInv, Saving

LEMMA ListingStepInv ==
    ASSUME Shape, FormsTyped, ListingInv, [Next]_vars
    PROVE  ListingInv'
<1>1. CASE workload.crashes
    BY <1>1, FormsFrame DEF ListingInv
<1> SUFFICES ASSUME ~workload.crashes
             PROVE  ListingInv'
    BY <1>1
<1>2. UNCHANGED workload
    BY FormsFrame
<1>3. CASE UNCHANGED formVars /\ Untouched(FormOps)
    <2>1. \A r \in Requests : req[r].op \in FormOps \/ req'[r].op \in FormOps => req'[r] = req[r]
        BY <1>3 DEF Untouched
    <2>2. \A r \in Requests :
              /\ req'[r].op \in {"SAVE", "PUBLISH"} => Saving(r)
              /\ req'[r].pc = "create_project" => req[r].pc = "create_project"
              /\ req[r].pc = "created" => req'[r].pc = "created"
        BY <2>1, FormsFrame DEF Saving, FormOps, Edits, Publishes, Shape, CallShape
    <2> QED BY <1>2, <1>3, <2>2, NoCreation DEF formVars
<1>4. ASSUME NEW r \in Requests, NEW op \in {"SAVE", "PUBLISH"}, PressSave(r, op)
      PROVE  ListingInv'
    <2>1. PICK terms \in Terms :
              Starts(r, op, IF form.id = 0 THEN "create_project" ELSE "find",
                     "nobody", form.id, {terms})
        BY <1>4 DEF PressSave
    <2>2. \A other \in Requests : ~Saving(other)
        BY <1>4 DEF PressSave, InFlight, Saving
    <2>3. \A other \in Requests : req[other].pc \notin {"create_project", "created"}
        BY <2>2 DEF Shape, CallShape, Saving
    <2>4. UNCHANGED <<projects, form>>
        BY <1>4 DEF PressSave, formVars
    <2>5. /\ req'[r].op = op
          /\ req'[r].pc = IF form.id = 0 THEN "create_project" ELSE "find"
          /\ \A other \in Requests \ {r} : req'[other] = req[other]
        BY <2>1 DEF Starts, Shape
    <2> QED BY <1>2, <2>2, <2>3, <2>4, <2>5 DEF ListingInv, Saving
<1>5. ASSUME NEW r \in Requests,
             PressEdit(r, "EDIT") \/ PressEdit(r, "EDIT_PUBLISH") \/ BeginBid(r) \/ Hire(r)
      PROVE  ListingInv'
    <2>1. PICK op \in {"EDIT", "EDIT_PUBLISH", "BID", "HIRE"},
               pc \in {"find", "insert_bid", "accept"} :
              /\ req'[r].op = op /\ req'[r].pc = pc
              /\ \A other \in Requests \ {r} : req'[other] = req[other]
        BY <1>5 DEF PressEdit, BeginBid, Hire, Starts, Shape
    <2>2. req[r].pc = "idle" /\ UNCHANGED <<projects, form>>
        BY <1>5 DEF PressEdit, BeginBid, Hire, Begins, MayStart, formVars
    <2> QED BY <1>2, <2>1, <2>2, NoCreation DEF Saving
<1>6. ASSUME NEW b \in Bidders, WithdrawBid(b)
      PROVE  ListingInv'
    BY <1>2, <1>6, NoCreation DEF WithdrawBid, Saving
<1>7. ASSUME NEW r \in Requests, CreateProject(r)
      PROVE  ListingInv'
    <2>1. Saving(r) /\ projects = <<>>
        BY <1>7 DEF CreateProject, Shape, CallShape, Saving, ListingInv
    <2>2. /\ req'[r].pc = "created" /\ req'[r].op = req[r].op
          /\ \A other \in Requests \ {r} : req'[other] = req[other]
        BY <1>7 DEF CreateProject, Shape, CallShape, Idle
    <2>3. \A other \in Requests \ {r} : ~Saving(other) /\ req[other].pc # "create_project"
        BY <2>1 DEF Shape, CallShape, Saving, ListingInv
    <2>4. Len(projects') = 1
        BY <1>7, <2>1 DEF CreateProject
    <2> QED BY <1>2, <2>1, <2>2, <2>3, <2>4 DEF ListingInv, Saving
<1>8. ASSUME NEW r \in Requests, RememberProject(r)
      PROVE  ListingInv'
    <2>1. req[r].row \in DOMAIN projects
        BY <1>8 DEF RememberProject, FormsTyped, FormCall, Shape, CallShape, Edits, Publishes
    <2>2. form'.id # 0 /\ UNCHANGED projects
        BY <1>8, <2>1, ProjectRows DEF RememberProject, FormsTyped
    <2>3. /\ \A other \in Requests \ {r} : req'[other] = req[other]
          /\ \/ req'[r].op = req[r].op /\ req'[r].pc = "publish"
             \/ req'[r] = Idle
        BY <1>8 DEF RememberProject, AfterSave, Goto, Ends, Shape, CallShape, Idle
    <2> QED BY <1>2, <2>2, <2>3 DEF ListingInv, Saving, Idle
<1>9. ASSUME NEW r \in Requests,
             \/ FindProject(r) \/ CountPending(r) \/ BeginPublish(r) \/ WriteProject(r)
             \/ OpenProject(r) \/ InsertBid(r) \/ RecordHire(r)
      PROVE  ListingInv'
    <2>1. req[r].pc \notin {"create_project", "created"}
        BY <1>9 DEF FindProject, CountPending, BeginPublish, WriteProject, OpenProject, InsertBid,
                    RecordHire
    <2>2. PICK pc \in {"count", "write", "publish", "open"} : Goto(r, pc) \/ Ends(r)
        BY <1>9 DEF FindProject, CountPending, BeginPublish, WriteProject, OpenProject, InsertBid,
                    RecordHire, AfterSave
    <2>3. /\ \A other \in Requests \ {r} : req'[other] = req[other]
          /\ \/ req'[r].op = req[r].op /\ req'[r].pc = pc
             \/ req'[r] = Idle
        BY <2>2 DEF Goto, Ends, Shape, CallShape, Idle
    <2>4. \A other \in Requests :
              /\ req'[other].op \in {"SAVE", "PUBLISH"} => Saving(other)
              /\ req'[other].pc = "create_project" => req[other].pc = "create_project"
              /\ req[other].pc = "created" => req'[other].pc = "created"
        BY <2>1, <2>3 DEF Saving, Idle
    <2>5. form'.id = form.id /\ Len(projects') = Len(projects) /\ (projects' = <<>> <=> projects = <<>>)
        <3>1. UNCHANGED projects \/ \E i, row : projects' = [projects EXCEPT ![i] = row]
            <4>1. CASE FindProject(r) \/ CountPending(r) \/ BeginPublish(r) \/ InsertBid(r)
                BY <4>1 DEF FindProject, CountPending, BeginPublish, InsertBid, formVars
            <4>2. CASE WriteProject(r)
                <5>1. projects' = [projects EXCEPT ![req[r].row] =
                                       [projects[req[r].row] EXCEPT !.terms = req[r].seen]]
                    BY ONLY <4>2 DEF WriteProject
                <5> QED BY ONLY <5>1
            <4>3. CASE OpenProject(r)
                <5>1. projects' = [projects EXCEPT ![req[r].row] =
                                       [projects[req[r].row] EXCEPT !.status = "OPEN"]]
                    BY ONLY <4>3 DEF OpenProject
                <5> QED BY ONLY <5>1
            <4>4. CASE RecordHire(r)
                <5>1. \/ UNCHANGED projects
                      \/ projects' = [projects EXCEPT ![1] =
                                          [projects[1] EXCEPT !.status = "IN_PROGRESS"]]
                    BY ONLY <4>4 DEF RecordHire
                <5> QED BY ONLY <5>1
            <4> QED BY <1>9, <4>1, <4>2, <4>3, <4>4
        <3>2. Len(projects') = Len(projects)
            BY <3>1 DEF FormsTyped
        <3>3. form'.id = form.id
            BY <1>9 DEF FindProject, CountPending, BeginPublish, WriteProject, OpenProject,
                        InsertBid, RecordHire, formVars, FormsTyped
        <3> QED BY <3>1, <3>2, <3>3, EmptySeq DEF FormsTyped
    <2> QED BY <1>2, <2>4, <2>5 DEF ListingInv, Saving
<1> QED BY <1>3, <1>4, <1>5, <1>6, <1>7, <1>8, <1>9, FormsFrame
        DEF FormsNext, FormsBegin, FormsStep

LEMMA InitListingInv == Init => Shape /\ FormsTyped /\ ListingInv
BY InitShape, EmptySeq DEF Init, FormsInit, FormsTyped, FormCall, ListingInv, Saving, StoreInit,
                 Idle, NoBid, BidRow, Edits, Publishes

\* The new-project page creates one project at most, whatever fails between its
\* calls, unless an answer is lost.
THEOREM SpecOneListing == Spec => []OneListing
<1>1. Init => Shape /\ FormsTyped /\ ListingInv
    BY InitListingInv
<1>2. Shape /\ FormsTyped /\ ListingInv /\ [Next]_vars => Shape' /\ FormsTyped' /\ ListingInv'
    BY FormsTypedStep, ListingStepInv, FormsFrame
<1>3. ListingInv => OneListing
    BY DEF ListingInv, OneListing
<1> QED BY <1>1, <1>2, <1>3, PTL DEF Spec

-----------------------------------------------------------------------------
(***************************************************************************)
(* The terms of a proposal                                                 *)
(***************************************************************************)
Editing(r) == req[r].op \in Edits
Proposing(r) == req[r].op \in {"BID", "HIRE"}
Accepted == {b \in Bidders : bids[b].status = "ACCEPTED"}

\* An edit of the first project that has passed its checks.
Writes(r, pcs) == Editing(r) /\ req[r].pc \in pcs /\ req[r].row = 1

NoOverlap == \A r, other \in Requests : Editing(r) => ~Proposing(other)

\* What an edit has checked stays true while no proposal is made or accepted.
ChecksHold ==
    \A r \in Requests :
        /\ Writes(r, {"count", "write", "open"}) => Accepted = {}
        /\ Writes(r, {"write"}) => PendingBids = {}

\* A freelancer was shown the terms that the project still has.
ShownTerms == \A r \in Requests : req[r].pc = "insert_bid" => req[r].seen = projects[1].terms

SameTerms ==
    \A b \in Bidders :
        bids[b].status \in {"PENDING", "ACCEPTED"} => bids[b].terms = projects[1].terms

HiredWorks == Accepted # {} => projects[1].status = "IN_PROGRESS"

TermsInv ==
    Apart(Edits, {"BID", "HIRE"}) =>
        NoOverlap /\ ChecksHold /\ ShownTerms /\ SameTerms /\ HiredWorks

LEMMA TermsStepInv ==
    ASSUME Shape, FormsTyped, TermsInv, [Next]_vars
    PROVE  TermsInv'
<1> USE DEF Editing, Proposing, Writes
<1>1. UNCHANGED workload
    BY FormsFrame
<1>2. CASE ~Apart(Edits, {"BID", "HIRE"})
    BY <1>1, <1>2 DEF TermsInv, Apart
<1> SUFFICES ASSUME Apart(Edits, {"BID", "HIRE"}),
                    NoOverlap, ChecksHold, ShownTerms, SameTerms, HiredWorks
             PROVE  (NoOverlap /\ ChecksHold /\ ShownTerms /\ SameTerms /\ HiredWorks)'
    BY <1>2 DEF TermsInv
\* Without a change of the first project or of a proposal, a call goes on or ends.
<1>3. ASSUME UNCHANGED bids, projects # <<>> => projects'[1] = projects[1],
             \A r \in Requests :
                 /\ req'[r].op # "none" => req'[r].op = req[r].op
                 /\ req'[r].pc = "insert_bid" => req'[r] = req[r]
                 /\ Writes(r, {"count", "write", "open"})' =>
                       Accepted = {} \/ Writes(r, {"count", "write", "open"})
                 /\ Writes(r, {"write"})' => PendingBids = {} \/ Writes(r, {"write"})
      PROVE  (NoOverlap /\ ChecksHold /\ ShownTerms /\ SameTerms /\ HiredWorks)'
    <2>1. NoOverlap'
        BY <1>3 DEF NoOverlap, Edits, Publishes
    <2>2. Accepted' = Accepted /\ PendingBids' = PendingBids
        BY <1>3 DEF Accepted, PendingBids
    <2>3. ChecksHold'
        BY <1>3, <2>2 DEF ChecksHold
    <2>4. ShownTerms'
        BY <1>3 DEF ShownTerms, FormsTyped, FormCall, Shape, CallShape
    <2>5. SameTerms' /\ HiredWorks'
        BY <1>3, <2>2 DEF SameTerms, HiredWorks, FormsTyped, Accepted
    <2> QED BY <2>1, <2>3, <2>4, <2>5
<1>4. CASE UNCHANGED formVars /\ Untouched(FormOps)
    <2>1. \A r \in Requests :
              \/ req'[r] = req[r] \/ req'[r] = Idle
              \/ req'[r].op \notin FormOps /\ CallShape(req'[r]) /\ req[r].op \notin FormOps
        BY <1>4, FormsFrame DEF Untouched, Shape
    <2>2. NoOverlap' /\ UNCHANGED <<projects, bids>>
        BY <1>4, <2>1 DEF NoOverlap, FormOps, formVars, Idle, Edits, Publishes
    <2>3. Accepted' = Accepted /\ PendingBids' = PendingBids
        BY <2>2 DEF Accepted, PendingBids
    <2>4. ChecksHold' /\ ShownTerms'
        BY <2>1, <2>2, <2>3 DEF ChecksHold, ShownTerms, FormOps, Idle, CallShape
    <2> QED BY <2>2, <2>3, <2>4 DEF SameTerms, HiredWorks
\* An edit begins while no proposal is made, and has checked nothing yet.
<1>5. ASSUME NEW r \in Requests, NEW op \in Edits, PressSave(r, op) \/ PressEdit(r, op)
      PROVE  (NoOverlap /\ ChecksHold /\ ShownTerms /\ SameTerms /\ HiredWorks)'
    <2>1. \A other \in Requests : ~Proposing(other)
        BY <1>5 DEF PressSave, PressEdit, Begins, MayStart, Apart
    <2>2. /\ req'[r].op = op /\ req'[r].pc \in {"create_project", "find"}
          /\ \A other \in Requests \ {r} : req'[other] = req[other]
        BY <1>5 DEF PressSave, PressEdit, Starts, Shape
    <2>3. UNCHANGED <<projects, bids>>
        BY <1>5 DEF PressSave, PressEdit, formVars
    <2>4. Accepted' = Accepted /\ PendingBids' = PendingBids
        BY <2>3 DEF Accepted, PendingBids
    <2>5. NoOverlap'
        BY <2>1, <2>2 DEF NoOverlap, Edits, Publishes
    <2>6. ChecksHold' /\ ShownTerms'
        BY <2>2, <2>3, <2>4 DEF ChecksHold, ShownTerms
    <2> QED BY <2>3, <2>4, <2>5, <2>6 DEF SameTerms, HiredWorks
\* A proposal begins while no edit is made.
<1>6. ASSUME NEW r \in Requests, BeginBid(r) \/ Hire(r)
      PROVE  (NoOverlap /\ ChecksHold /\ ShownTerms /\ SameTerms /\ HiredWorks)'
    <2>1. \A other \in Requests : ~Editing(other)
        <3>1. PICK op \in {"BID", "HIRE"} : MayStart(r, op)
            BY <1>6 DEF BeginBid, Hire, Begins
        <3>2. \A a \in Edits : {op, a} \in workload.apart
            <4>1. \A a \in Edits : {op, a} = {a, op}
                OBVIOUS
            <4> QED BY <4>1 DEF Apart
        <3> QED BY <3>1, <3>2 DEF MayStart
    <2>2. /\ req'[r].op \in {"BID", "HIRE"} /\ req'[r].pc \in {"insert_bid", "accept"}
          /\ req'[r].pc = "insert_bid" => req'[r].seen = projects[1].terms
          /\ \A other \in Requests \ {r} : req'[other] = req[other]
        BY <1>6 DEF BeginBid, Hire, Starts, Shape
    <2>3. UNCHANGED <<projects, bids>>
        BY <1>6 DEF BeginBid, Hire, formVars
    <2>4. Accepted' = Accepted /\ PendingBids' = PendingBids
        BY <2>3 DEF Accepted, PendingBids
    <2>5. NoOverlap'
        BY <2>1, <2>2 DEF NoOverlap, Edits, Publishes
    <2>6. ChecksHold' /\ ShownTerms'
        BY <2>2, <2>3, <2>4 DEF ChecksHold, ShownTerms
    <2> QED BY <2>3, <2>4, <2>5, <2>6 DEF SameTerms, HiredWorks
<1>7. ASSUME NEW b \in Bidders, WithdrawBid(b)
      PROVE  (NoOverlap /\ ChecksHold /\ ShownTerms /\ SameTerms /\ HiredWorks)'
    <2>1. \A other \in Bidders :
              bids'[other] = bids[other] \/ bids'[other].status = "WITHDRAWN"
        BY <1>7 DEF WithdrawBid, FormsTyped, BidRow
    <2>2. UNCHANGED <<req, projects>>
        BY <1>7 DEF WithdrawBid
    <2>3. Accepted' \subseteq Accepted /\ PendingBids' \subseteq PendingBids
        BY <2>1 DEF Accepted, PendingBids
    <2>4. NoOverlap' /\ ShownTerms'
        BY <2>2 DEF NoOverlap, ShownTerms
    <2>5. ChecksHold' /\ HiredWorks'
        BY <2>2, <2>3 DEF ChecksHold, HiredWorks
    <2> QED BY <2>1, <2>2, <2>4, <2>5 DEF SameTerms
<1>8. ASSUME NEW r \in Requests, CreateProject(r)
      PROVE  (NoOverlap /\ ChecksHold /\ ShownTerms /\ SameTerms /\ HiredWorks)'
    <2>1. /\ req'[r].op = req[r].op /\ req'[r].pc = "created"
          /\ \A other \in Requests \ {r} : req'[other] = req[other]
        BY <1>8 DEF CreateProject, Shape, CallShape, Idle
    <2>2. req[r].op \in Edits /\ req[r].seen \subseteq Terms
        BY <1>8 DEF CreateProject, FormsTyped, FormCall, Shape, CallShape, Edits, Publishes
    <2>3. projects # <<>> => projects'[1] = projects[1]
        BY <1>8, <2>2, RowAppended, ProjectRows DEF CreateProject, ProjectRow
    <2>4. UNCHANGED bids
        BY <1>8 DEF CreateProject
    <2>5. \A other \in Requests :
              /\ req'[other].op = req[other].op
              /\ req'[other].pc \in {"insert_bid", "count", "write", "open"} => req'[other] = req[other]
        BY <2>1
    <2> QED BY <1>3, <2>3, <2>4, <2>5
<1>9. ASSUME NEW r \in Requests,
             RememberProject(r) \/ FindProject(r) \/ CountPending(r) \/ BeginPublish(r)
      PROVE  (NoOverlap /\ ChecksHold /\ ShownTerms /\ SameTerms /\ HiredWorks)'
    <2>1. UNCHANGED <<projects, bids>>
        BY <1>9 DEF RememberProject, FindProject, CountPending, BeginPublish, formVars
    <2>2. PICK pc \in {"count", "write", "publish", "open"} :
              /\ Goto(r, pc) \/ Ends(r)
              /\ Goto(r, pc) /\ pc = "count" => projects[req[r].row].status \in {"DRAFT", "OPEN"}
              /\ Goto(r, pc) /\ pc = "open" => projects[req[r].row].status = "DRAFT"
              /\ Goto(r, pc) /\ pc = "write" =>
                     req[r].pc = "count" /\ (req[r].row = 1 => PendingBids = {})
        <3>1. CASE RememberProject(r)
            BY <3>1 DEF RememberProject, AfterSave
        <3>2. CASE FindProject(r)
            BY <3>2 DEF FindProject
        <3>3. CASE CountPending(r)
            BY <3>3 DEF CountPending, Restricting
        <3>4. CASE BeginPublish(r)
            BY <3>4 DEF BeginPublish
        <3> QED BY <1>9, <3>1, <3>2, <3>3, <3>4
    <2>3. /\ \A other \in Requests \ {r} : req'[other] = req[other]
          /\ \/ req'[r].op = req[r].op /\ req'[r].pc = pc /\ req'[r].row = req[r].row /\ Goto(r, pc)
             \/ req'[r] = Idle
        BY <2>2 DEF Goto, Ends, Shape, CallShape, Idle
    <2>4. req[r].op \in Edits
        BY <1>9 DEF RememberProject, FindProject, CountPending, BeginPublish, Shape, CallShape,
                    Edits, Publishes
    <2>5. Writes(r, {"count", "write", "open"})' =>
              Accepted = {} \/ Writes(r, {"count", "write", "open"})
        BY <2>2, <2>3, <2>4 DEF HiredWorks, Idle
    <2>6. Writes(r, {"write"})' => PendingBids = {}
        BY <2>2, <2>3 DEF Idle
    <2>7. req'[r].pc # "insert_bid" /\ (req'[r].op # "none" => req'[r].op = req[r].op)
        BY <2>3 DEF Idle
    <2> QED BY <1>3, <2>1, <2>3, <2>5, <2>6, <2>7
<1>10. ASSUME NEW r \in Requests, WriteProject(r) \/ OpenProject(r)
       PROVE  (NoOverlap /\ ChecksHold /\ ShownTerms /\ SameTerms /\ HiredWorks)'
    <2>1. Editing(r) /\ req[r].row \in DOMAIN projects
        BY <1>10 DEF WriteProject, OpenProject, FormsTyped, FormCall, Shape, CallShape, Edits, Publishes
    <2>2. /\ \A other \in Requests \ {r} : req'[other] = req[other]
          /\ \/ req'[r].op = req[r].op /\ req'[r].pc = "publish"
             \/ req'[r] = Idle
        BY <1>10 DEF WriteProject, OpenProject, AfterSave, Goto, Ends, Shape, CallShape, Idle
    <2>3. UNCHANGED bids
        BY <1>10 DEF WriteProject, OpenProject
    <2>4. \A other \in Requests :
              /\ req'[other].op # "none" => req'[other].op = req[other].op
              /\ req'[other].pc \in {"insert_bid", "count", "write", "open"} => req'[other] = req[other]
        BY <2>2 DEF Idle
    <2>5. CASE req[r].row # 1
        <3>1. projects # <<>> => projects'[1] = projects[1]
            BY <1>10, <2>1, <2>5, ProjectRows DEF WriteProject, OpenProject
        <3> QED BY <1>3, <2>3, <2>4, <3>1
    <2>6. CASE req[r].row = 1
        <3>1. Accepted = {}
            BY <1>10, <2>1, <2>6 DEF WriteProject, OpenProject, ChecksHold
        <3>2. Accepted' = {} /\ PendingBids' = PendingBids
            BY <2>3, <3>1 DEF Accepted, PendingBids
        <3>3. NoOverlap'
            BY <2>4 DEF NoOverlap, Edits, Publishes
        <3>4. ChecksHold' /\ HiredWorks'
            BY <2>4, <3>2 DEF ChecksHold, HiredWorks
        <3>5. ShownTerms'
            <4>1. \A other \in Requests : req'[other].pc # "insert_bid"
                BY <2>1, <2>2, <2>4 DEF NoOverlap, Shape, CallShape
            <4> QED BY <4>1 DEF ShownTerms
        <3>6. SameTerms'
            <4>1. CASE WriteProject(r)
                <5>1. PendingBids = {}
                    BY <2>1, <2>6, <4>1 DEF WriteProject, ChecksHold
                <5> QED BY <2>3, <3>1, <5>1 DEF SameTerms, Accepted, PendingBids
            <4>2. CASE OpenProject(r)
                <5>1. projects'[1].terms = projects[1].terms
                    BY <2>1, <2>6, <4>2, ProjectRows DEF OpenProject, ProjectRow
                <5> QED BY <2>3, <5>1 DEF SameTerms
            <4> QED BY <1>10, <4>1, <4>2
        <3> QED BY <3>3, <3>4, <3>5, <3>6
    <2> QED BY <2>5, <2>6
<1>11. ASSUME NEW r \in Requests, InsertBid(r) \/ RecordHire(r)
       PROVE  (NoOverlap /\ ChecksHold /\ ShownTerms /\ SameTerms /\ HiredWorks)'
    <2>1. Proposing(r) /\ projects # <<>> /\ req[r].who \in Bidders
        BY <1>11 DEF InsertBid, RecordHire, FormsTyped, FormCall, Shape, CallShape
    <2>2. \A other \in Requests : ~Editing(other)
        BY <2>1 DEF NoOverlap
    <2>3. /\ \A other \in Requests \ {r} : req'[other] = req[other]
          /\ req'[r] = Idle
        BY <1>11 DEF InsertBid, RecordHire, Ends, Shape
    <2>4. NoOverlap' /\ ChecksHold'
        BY <2>2, <2>3 DEF NoOverlap, ChecksHold, Idle, Edits, Publishes
    <2>5. projects'[1].terms = projects[1].terms
        BY <1>11, <2>1, ProjectRows DEF InsertBid, RecordHire, ProjectRow
    <2>6. ShownTerms'
        BY <2>3, <2>5 DEF ShownTerms, Idle
    <2>7. CASE InsertBid(r)
        <3>1. req[r].seen = projects[1].terms
            BY <2>7 DEF InsertBid, ShownTerms
        <3>2. \A b \in Bidders :
                  bids'[b] = bids[b] \/ bids'[b] = [status |-> "PENDING", terms |-> req[r].seen]
            BY <2>7, <2>1 DEF InsertBid, FormsTyped
        <3>3. Accepted' \subseteq Accepted /\ UNCHANGED projects
            BY <2>7, <3>2 DEF InsertBid, Accepted
        <3>4. SameTerms'
            BY <2>5, <3>1, <3>2 DEF SameTerms
        <3>5. HiredWorks'
            BY <3>3 DEF HiredWorks
        <3> QED BY <2>4, <2>6, <3>4, <3>5
    <2>8. CASE RecordHire(r)
        <3>1. CASE UNCHANGED <<projects, bids>>
            BY <2>4, <2>6, <3>1 DEF SameTerms, HiredWorks, Accepted
        <3>2. CASE ~UNCHANGED <<projects, bids>>
            <4>1. /\ req[r].who \in PendingBids
                  /\ projects' = [projects EXCEPT ![1].status = "IN_PROGRESS"]
                  /\ bids' = [b \in Bidders |->
                                 IF b = req[r].who THEN [bids[b] EXCEPT !.status = "ACCEPTED"]
                                 ELSE IF b \in PendingBids THEN [bids[b] EXCEPT !.status = "REJECTED"]
                                 ELSE bids[b]]
                BY <2>8, <3>2 DEF RecordHire
            <4>2. projects'[1].status = "IN_PROGRESS"
                BY <2>1, <4>1, ProjectRows DEF ProjectRow
            <4>3. \A b \in Bidders :
                      /\ bids'[b].terms = bids[b].terms
                      /\ bids'[b].status = "PENDING" => bids[b].status = "PENDING"
                      /\ bids'[b].status = "ACCEPTED" => bids[b].status \in {"PENDING", "ACCEPTED"}
                BY <4>1 DEF FormsTyped, BidRow, PendingBids
            <4>4. SameTerms'
                BY <2>5, <4>3 DEF SameTerms
            <4> QED BY <2>4, <2>6, <4>2, <4>4 DEF HiredWorks
        <3> QED BY <3>1, <3>2
    <2> QED BY <1>11, <2>7, <2>8
<1>12. FormsNext => (NoOverlap /\ ChecksHold /\ ShownTerms /\ SameTerms /\ HiredWorks)'
    BY <1>5, <1>6, <1>7, <1>8, <1>9, <1>10, <1>11
       DEF FormsNext, FormsBegin, FormsStep, Edits, Publishes
<1> QED BY <1>4, <1>12, FormsFrame

\* Whatever the number of bidders, edits and acceptances, the terms of a pending or
\* accepted proposal stay those of the listing, unless an edit overlaps the
\* submission or the acceptance.
THEOREM SpecTermsHeld == Spec => []TermsHeld
<1>1. Init => Shape /\ FormsTyped /\ TermsInv
    BY InitShape, EmptySeq DEF Init, FormsInit, FormsTyped, FormCall, TermsInv, NoOverlap, ChecksHold,
                     ShownTerms, SameTerms, HiredWorks, Editing, Proposing, Writes, Accepted,
                     StoreInit, Idle, NoBid, BidRow, Edits, Publishes
<1>2. Shape /\ FormsTyped /\ TermsInv /\ [Next]_vars => Shape' /\ FormsTyped' /\ TermsInv'
    BY FormsTypedStep, TermsStepInv, FormsFrame
<1>3. TermsInv => TermsHeld
    BY DEF TermsInv, SameTerms, TermsHeld
<1> QED BY <1>1, <1>2, <1>3, PTL DEF Spec

-----------------------------------------------------------------------------
(***************************************************************************)
(* Files                                                                   *)
(***************************************************************************)
\* A call whose new file no row points to yet.
Brings(r) == req[r].op \in {"IMAGE", "PHOTO"} /\ req[r].pc \in {"insert", "delete_old", "update"}

\* A call and what it has read; of two that bring a file, each has its own.
FileCall(r) ==
    LET call == req[r]
    IN /\ call.op \in UploadOps => call.seen \subseteq 1..uploaded
       /\ Brings(r) => call.row \in files \ (images \cup photo)
       /\ call.op \in {"IMAGE_REMOVE", "ITEM_REMOVE"} => call.seen \cap photo = {}
       /\ call.pc = "delete_files" => call.seen \cap images = {}
       /\ call.op = "PHOTO" => call.seen \cap images = {}

OwnFile(r, other) ==
    Brings(r) =>
        /\ req[other].op \in UploadOps => req[r].row \notin req[other].seen
        /\ Brings(other) /\ req[r].row = req[other].row => r = other

FileRows ==
    /\ uploaded \in Nat
    /\ images \cup photo \cup files \subseteq 1..uploaded
    /\ images \cap photo = {}
    /\ images \subseteq files

PhotoBroughtBack ==
    ~workload.crashes /\ ~(photo \subseteq files) => \E r \in Requests : At(r, "PHOTO", "update")

FilesInv ==
    /\ FileRows
    /\ \A r \in Requests : FileCall(r)
    /\ \A r, other \in Requests : OwnFile(r, other)
    /\ PhotoBroughtBack

LEMMA FilesStepInv ==
    ASSUME Shape, FilesInv, [Next]_vars
    PROVE  FilesInv'
<1> USE DEF FilesInv, FileRows
<1>1. Shape' /\ UNCHANGED workload
    BY UploadsFrame
<1>2. CASE UNCHANGED uploadVars /\ Untouched(UploadOps)
    <2>1. \A r \in Requests :
              \/ req'[r] = req[r]
              \/ req[r].op \notin UploadOps /\ req'[r].op \notin UploadOps
              \/ workload.crashes /\ req'[r] = Idle
        BY <1>2 DEF Untouched
    <2>2. \A r \in Requests : FileCall(r)'
        BY <1>1, <1>2, <2>1 DEF FileCall, Brings, uploadVars, UploadOps, Shape, CallShape, Idle
    <2>3. \A r, other \in Requests : OwnFile(r, other)'
        BY <2>1 DEF OwnFile, Brings, UploadOps, Idle
    <2>4. PhotoBroughtBack'
        BY <1>1, <1>2, <2>1 DEF PhotoBroughtBack, At, uploadVars, UploadOps
    <2> QED BY <1>2, <2>2, <2>3, <2>4 DEF uploadVars
<1>3. ASSUME NEW r \in Requests,
             BeginAddImage(r) \/ BeginRemoveImage(r) \/ BeginRemoveItem(r) \/ BeginPhoto(r)
      PROVE  FilesInv'
    <2>1. UNCHANGED <<images, photo, files, uploaded>>
        BY <1>3 DEF BeginAddImage, BeginRemoveImage, BeginRemoveItem, BeginPhoto, uploadVars
    <2>2. /\ req'[r].op \in UploadOps /\ req'[r].seen \subseteq images \cup photo
          /\ req'[r].op \in {"IMAGE_REMOVE", "ITEM_REMOVE"} => req'[r].seen \subseteq images
          /\ req'[r].op = "PHOTO" => req'[r].seen \subseteq photo
          /\ req'[r].pc \in {"upload", "delete_row", "delete_item"}
          /\ \A other \in Requests \ {r} : req'[other] = req[other]
        BY <1>3 DEF BeginAddImage, BeginRemoveImage, BeginRemoveItem, BeginPhoto, Starts, Shape, UploadOps
    <2>3. \A other \in Requests : FileCall(other)'
        BY <2>1, <2>2 DEF FileCall, Brings
    <2>4. \A one, other \in Requests : OwnFile(one, other)'
        BY <2>2 DEF OwnFile, Brings, FileCall
    <2>5. req[r].op = "none"
        BY <1>3 DEF BeginAddImage, BeginRemoveImage, BeginRemoveItem, BeginPhoto, Begins, MayStart,
                    Shape, CallShape
    <2>6. PhotoBroughtBack'
        BY <1>1, <2>1, <2>2, <2>5 DEF PhotoBroughtBack, At
    <2> QED BY <2>1, <2>3, <2>4, <2>6
<1>4. ASSUME NEW r \in Requests, Upload(r)
      PROVE  FilesInv'
    <2>1. /\ uploaded' = uploaded + 1 /\ files' = files \cup {uploaded'}
          /\ UNCHANGED <<images, photo>>
        BY <1>4 DEF Upload
    <2>2. /\ req'[r].op = req[r].op /\ req'[r].pc \in {"insert", "delete_old"}
          /\ req'[r].row = uploaded' /\ req'[r].seen = req[r].seen
          /\ \A other \in Requests \ {r} : req'[other] = req[other]
        BY <1>4 DEF Upload, Shape, CallShape, Idle
    <2>3. req[r].op \in {"IMAGE", "PHOTO"} /\ req[r].pc = "upload"
        BY <1>4 DEF Upload, Shape, CallShape
    <2>4. uploaded' \in Nat /\ uploaded' \notin 1..uploaded /\ 1..uploaded \subseteq 1..uploaded'
        BY <2>1
    <2>5. FileRows'
        BY <2>1, <2>4
    <2>6. \A other \in Requests : FileCall(other)'
        BY <2>1, <2>2, <2>3, <2>4 DEF FileCall, Brings, UploadOps
    <2>7. \A other \in Requests : Brings(other) => req[other].row \in 1..uploaded
        BY DEF FileCall
    <2>8. \A one, other \in Requests : OwnFile(one, other)'
        BY <2>2, <2>3, <2>4, <2>7 DEF OwnFile, Brings, FileCall, UploadOps
    <2>9. PhotoBroughtBack'
        BY <1>1, <2>1, <2>2, <2>3 DEF PhotoBroughtBack, At
    <2> QED BY <2>5, <2>6, <2>8, <2>9
<1>5. ASSUME NEW r \in Requests, InsertImage(r)
      PROVE  FilesInv'
    <2>1. Brings(r) /\ req[r].op = "IMAGE"
        BY <1>5 DEF InsertImage, At, Brings
    <2>2. /\ images' \subseteq images \cup {req[r].row} /\ images \subseteq images'
          /\ UNCHANGED <<photo, files, uploaded>>
        BY <1>5 DEF InsertImage
    <2>3. req'[r] = Idle /\ \A other \in Requests \ {r} : req'[other] = req[other]
        BY <1>5 DEF InsertImage, Ends, Shape
    <2>4. FileRows'
        BY <2>1, <2>2 DEF FileCall
    <2>5. \A other \in Requests : FileCall(other)'
        <3>1. FileCall(r)'
            BY <2>3 DEF FileCall, Brings, UploadOps, Idle
        <3>2. ASSUME NEW other \in Requests \ {r}
              PROVE  FileCall(other)'
            <4>1. req[other].op \in UploadOps => req[r].row \notin req[other].seen
                BY <2>1 DEF OwnFile
            <4>2. Brings(other) => req[other].row # req[r].row
                BY <2>1 DEF OwnFile
            <4>3. req[other].pc = "delete_files" => req[other].op \in UploadOps
                BY DEF Shape, CallShape, UploadOps
            <4> QED BY <2>2, <2>3, <4>1, <4>2, <4>3 DEF FileCall, Brings, UploadOps
        <3> QED BY <3>1, <3>2
    <2>6. \A one, other \in Requests : OwnFile(one, other)'
        BY <2>3 DEF OwnFile, Brings, UploadOps, Idle
    <2>7. PhotoBroughtBack'
        BY <1>1, <2>1, <2>2, <2>3 DEF PhotoBroughtBack, At
    <2> QED BY <2>4, <2>5, <2>6, <2>7
<1>6. ASSUME NEW r \in Requests, DeleteImage(r) \/ DeleteItem(r)
      PROVE  FilesInv'
    <2>1. req[r].op \in {"IMAGE_REMOVE", "ITEM_REMOVE"}
        BY <1>6 DEF DeleteImage, DeleteItem, At
    <2>2. images' \subseteq images /\ UNCHANGED <<photo, files, uploaded>>
        BY <1>6 DEF DeleteImage, DeleteItem
    <2>3. /\ \A other \in Requests \ {r} : req'[other] = req[other]
          /\ \/ /\ req'[r].op = req[r].op /\ req'[r].seen = req[r].seen
                /\ req'[r].pc = "delete_files" /\ req'[r].seen \cap images' = {}
             \/ req'[r] = Idle
        <3>1. req[r].seen \cap images' = {}
            BY <1>6 DEF DeleteImage, DeleteItem
        <3>2. Goto(r, "delete_files") \/ Ends(r)
            BY <1>6 DEF DeleteImage, DeleteItem
        <3>3. CASE Goto(r, "delete_files")
            BY <3>1, <3>3 DEF Goto, Shape, CallShape, Idle
        <3>4. CASE Ends(r)
            BY <3>4 DEF Ends, Shape
        <3> QED BY <3>2, <3>3, <3>4
    <2>4. \A other \in Requests : FileCall(other)'
        BY <2>1, <2>2, <2>3 DEF FileCall, Brings, UploadOps, Idle
    <2>5. \A one, other \in Requests : OwnFile(one, other)'
        BY <2>1, <2>3 DEF OwnFile, Brings, UploadOps, Idle
    <2>6. PhotoBroughtBack'
        BY <1>1, <2>1, <2>2, <2>3 DEF PhotoBroughtBack, At
    <2> QED BY <2>2, <2>4, <2>5, <2>6
<1>7. ASSUME NEW r \in Requests, DeleteFile(r) \/ DeleteOldPhoto(r)
      PROVE  FilesInv'
    <2>1. /\ req[r].op \in {"IMAGE_REMOVE", "ITEM_REMOVE", "PHOTO"}
          /\ req[r].pc \in {"delete_files", "delete_old"}
          /\ req[r].op = "PHOTO" <=> req[r].pc = "delete_old"
        BY <1>7 DEF DeleteFile, DeleteOldPhoto, At, Shape, CallShape
    <2>2. /\ files \ req[r].seen \subseteq files' /\ files' \subseteq files
          /\ UNCHANGED <<images, photo, uploaded>>
        BY <1>7 DEF DeleteFile, DeleteOldPhoto
    <2>3. /\ \A other \in Requests \ {r} : req'[other] = req[other]
          /\ \/ /\ req'[r].op = req[r].op /\ req'[r].seen \subseteq req[r].seen
                /\ req'[r].row = req[r].row
                /\ req'[r].pc = IF req[r].op = "PHOTO" THEN "update" ELSE "delete_files"
             \/ req'[r] = Idle /\ req[r].op # "PHOTO"
        BY <1>7, <2>1 DEF DeleteFile, DeleteOldPhoto, At, Goto, Ends, Shape, CallShape, Idle
    <2>4. req[r].seen \cap images = {}
        BY <2>1 DEF FileCall
    <2>5. \A other \in Requests : Brings(other) => req[other].row \in files'
        BY <2>1, <2>2 DEF OwnFile, FileCall, UploadOps
    <2>6. \A other \in Requests : FileCall(other)'
        BY <2>1, <2>2, <2>3, <2>5 DEF FileCall, Brings, UploadOps, Idle
    <2>7. \A one, other \in Requests : OwnFile(one, other)'
        BY <2>1, <2>3 DEF OwnFile, Brings, UploadOps, Idle
    <2>8. PhotoBroughtBack'
        <3>1. CASE req[r].op = "PHOTO"
            BY <2>3, <3>1 DEF PhotoBroughtBack, At
        <3>2. CASE req[r].op # "PHOTO"
            <4>1. photo \subseteq files => photo \subseteq files'
                BY <2>1, <2>2, <3>2 DEF FileCall
            <4> QED BY <1>1, <2>2, <2>3, <3>2, <4>1 DEF PhotoBroughtBack, At
        <3> QED BY <3>1, <3>2
    <2> QED BY <2>2, <2>4, <2>6, <2>7, <2>8
<1>8. ASSUME NEW r \in Requests, UpdatePhoto(r)
      PROVE  FilesInv'
    <2>1. Brings(r) /\ req[r].op = "PHOTO"
        BY <1>8 DEF UpdatePhoto, At, Brings
    <2>2. photo' = {req[r].row} /\ UNCHANGED <<images, files, uploaded>>
        BY <1>8 DEF UpdatePhoto
    <2>3. req'[r] = Idle /\ \A other \in Requests \ {r} : req'[other] = req[other]
        BY <1>8 DEF UpdatePhoto, Ends, Shape
    <2>4. req[r].row \in files \ images
        BY <2>1 DEF FileCall
    <2>5. \A other \in Requests : FileCall(other)'
        <3>1. FileCall(r)'
            BY <2>3 DEF FileCall, Brings, UploadOps, Idle
        <3>2. ASSUME NEW other \in Requests \ {r}
              PROVE  FileCall(other)'
            <4>1. req[other].op \in UploadOps => req[r].row \notin req[other].seen
                BY <2>1 DEF OwnFile
            <4>2. Brings(other) => req[other].row # req[r].row
                BY <2>1 DEF OwnFile
            <4> QED BY <2>2, <2>3, <4>1, <4>2 DEF FileCall, Brings, UploadOps
        <3> QED BY <3>1, <3>2
    <2>6. \A one, other \in Requests : OwnFile(one, other)'
        BY <2>3 DEF OwnFile, Brings, UploadOps, Idle
    <2>7. PhotoBroughtBack'
        BY <2>2, <2>4 DEF PhotoBroughtBack
    <2> QED BY <2>2, <2>4, <2>5, <2>6, <2>7
<1>9. UploadsNext => FilesInv'
    BY <1>3, <1>4, <1>5, <1>6, <1>7, <1>8 DEF UploadsNext, UploadsBegin, UploadsStep
<1> QED BY <1>2, <1>9, UploadsFrame

LEMMA InitFilesInv == Init => Shape /\ FilesInv
BY InitShape DEF Init, UploadsInit, FilesInv, FileRows, FileCall, OwnFile, Brings,
                 PhotoBroughtBack, StoreInit, Idle, UploadOps

\* However uploads and removals overlap and wherever they are cut short, no image
\* row points to a missing file, and the photo's does not once the calls have ended.
THEOREM SpecRowsHaveFiles == Spec => []RowsHaveFiles
<1>1. Init => Shape /\ FilesInv
    BY InitFilesInv
<1>2. Shape /\ FilesInv /\ [Next]_vars => Shape' /\ FilesInv'
    BY FilesStepInv, UploadsFrame
<1>3. Shape /\ FilesInv => RowsHaveFiles
    BY DEF FilesInv, FileRows, PhotoBroughtBack, RowsHaveFiles, At, Quiescent
<1> QED BY <1>1, <1>2, <1>3, PTL DEF Spec

-----------------------------------------------------------------------------
(***************************************************************************)
(* The conversation                                                        *)
(***************************************************************************)
Stopped ==
    market.proposal \in {"REJECTED", "WITHDRAWN"} \/ market.project \in {"CANCELLED", "CLOSED"}

SendBound == IF Apart(Sends, Sends) THEN 1 ELSE Cardinality(Requests)

OneSend ==
    Apart(Sends, Sends) =>
        \A r, other \in Requests : {req[r].op, req[other].op} \subseteq Sends => r = other

\* A message that is too late was begun before the conversation stopped.
LateInv ==
    /\ late \in Nat
    /\ ~Stopped => late = 0
    /\ late + Cardinality(Sending) <= SendBound
    /\ OneSend

LEMMA CallsCounted ==
    ASSUME NEW calls \in SUBSET Requests
    PROVE  /\ IsFiniteSet(calls) /\ Cardinality(calls) \in Nat
           /\ SendBound \in Nat /\ Cardinality(calls) <= Cardinality(Requests)
BY FS_Subset, FS_CardinalityType, StoreAssumption DEF SendBound

LEMMA SendsBounded ==
    ASSUME NEW calls \in SUBSET Requests,
           Apart(Sends, Sends) => \A r, other \in calls : r = other
    PROVE  Cardinality(calls) <= SendBound
<1>1. ASSUME Apart(Sends, Sends)
      PROVE  Cardinality(calls) <= 1
    <2>1. CASE calls = {}
        BY <2>1, FS_EmptySet
    <2>2. ASSUME NEW r \in calls
          PROVE  Cardinality(calls) <= 1
        <3>1. calls = {r}
            BY <1>1, <2>2
        <3> QED BY <3>1, FS_Singleton
    <2> QED BY <2>1, <2>2
<1> QED BY <1>1, CallsCounted DEF SendBound

\* Nothing is stored, and nothing new may be sent once the conversation has stopped.
LEMMA NothingLate ==
    ASSUME Shape', LateInv, UNCHANGED <<workload, late>>,
           Stopped \/ late = 0,
           Stopped' \/ late = 0,
           late # 0 => Sending' \subseteq Sending,
           OneSend'
    PROVE  LateInv'
<1>1. SendBound' = SendBound /\ Sending' \subseteq Requests /\ Sending \subseteq Requests
    BY DEF SendBound, Apart, Sending
<1>2. Cardinality(Sending') <= SendBound
    <2>1. Apart(Sends, Sends) => \A r, other \in Sending' : r = other
        BY DEF OneSend, Apart, Sending, Shape, CallShape
    <2> QED BY <1>1, <2>1, SendsBounded
<1>3. late' + Cardinality(Sending') <= SendBound
    <2>1. CASE late = 0
        BY <1>1, <1>2, <2>1, CallsCounted
    <2>2. CASE late # 0
        <3>1. Cardinality(Sending') <= Cardinality(Sending)
            BY <1>1, <2>2, CallsCounted, FS_Subset
        <3> QED BY <1>1, <3>1, CallsCounted DEF LateInv
    <2> QED BY <2>1, <2>2
<1> QED BY <1>1, <1>3 DEF LateInv

LEMMA LateStepInv ==
    ASSUME Shape, LateInv, [Next]_vars
    PROVE  LateInv'
<1> USE DEF At
<1>1. Shape' /\ UNCHANGED workload
    BY MessagesFrame
\* No message is sent or stored: the others go on, or end.
<1>2. ASSUME UNCHANGED late, Stopped \/ late = 0, Stopped => Stopped',
             \A r \in Requests :
                 /\ req'[r].op \in Sends => req'[r].op = req[r].op
                 /\ req'[r].pc = "store" => req[r].pc = "store"
      PROVE  LateInv'
    <2>1. Sending' \subseteq Sending
        BY <1>2 DEF Sending
    <2>2. OneSend'
        BY <1>1, <1>2 DEF LateInv, OneSend, Apart, Sends
    <2> QED BY <1>1, <1>2, <2>1, <2>2, NothingLate
<1>3. Stopped \/ late = 0
    BY DEF LateInv
<1>4. CASE UNCHANGED messagingVars /\ Untouched(MessageOps)
    <2>1. \A r \in Requests :
              /\ req'[r].op \in Sends => req'[r].op = req[r].op
              /\ req'[r].pc = "store" => req[r].pc = "store"
        BY <1>1, <1>4 DEF Untouched, MessageOps, Sends, Idle, Shape, CallShape
    <2> QED BY <1>2, <1>3, <1>4, <2>1 DEF messagingVars, conversationVars, Stopped
<1>5. ASSUME NEW r \in Requests, NEW op \in Sends, NEW who \in Roles, BeginSend(r, op, who)
      PROVE  LateInv'
    <2>1. UNCHANGED <<late, market>>
        BY <1>5 DEF BeginSend
    <2>2. CASE ~CanSend
        BY <1>2, <1>3, <1>5, <2>1, <2>2 DEF BeginSend, Stopped
    <2>3. CASE CanSend
        <3>1. ~Stopped
            BY <2>3 DEF CanSend, Stopped
        <3>2. Starts(r, op, "store", who, 0, {}) /\ MayStart(r, op)
            BY <1>5, <2>3 DEF BeginSend, Begins
        <3>3. Apart(Sends, Sends) => \A other \in Requests : req[other].op \notin Sends
            BY <3>2 DEF MayStart, Apart
        <3>4. OneSend'
            BY <1>1, <3>2, <3>3 DEF OneSend, Starts, Apart, Shape
        <3>5. late = 0
            BY <1>3, <3>1
        <3> QED BY <1>1, <2>1, <3>4, <3>5, NothingLate
    <2> QED BY <2>2, <2>3
<1>6. ASSUME NEW r \in Requests, NEW who \in Roles, BeginRead(r, who) \/ BeginOpen(r)
      PROVE  LateInv'
    <2>1. \A other \in Requests :
              \/ req'[other] = req[other]
              \/ req'[other].op \in {"READ", "OPEN"} /\ req'[other].pc # "store"
        BY <1>6 DEF BeginRead, BeginOpen, Starts, Shape
    <2>2. UNCHANGED <<late, market>>
        BY <1>6 DEF BeginRead, BeginOpen, conversationVars
    <2> QED BY <1>2, <1>3, <2>1, <2>2 DEF Sends, Stopped
<1>7. CASE MarketMoves \/ Typing \/ Tick \/ ReadNotes
    <2>1. UNCHANGED <<req, late>>
        BY <1>7 DEF MarketMoves, Typing, Tick, ReadNotes
    <2>2. Stopped => Stopped'
        <3>1. CASE MarketMoves
            BY <3>1 DEF MarketMoves, MarketSteps, Market, Stopped
        <3>2. CASE UNCHANGED market
            BY <3>2 DEF Stopped
        <3> QED BY <1>7, <3>1, <3>2 DEF Typing, Tick, ReadNotes
    <2> QED BY <1>2, <1>3, <2>1, <2>2
<1>8. CASE PanelNext
    <2>1. UNCHANGED <<late, market>>
        BY <1>8 DEF PanelNext, OpenPanel, ListMessages, ShowList, JoinRoom, DropSocket, Receive,
                    conversationVars
    <2>2. \A r \in Requests :
              /\ req'[r].op \in Sends => req'[r].op = req[r].op
              /\ req'[r].pc = "store" => req[r].pc = "store"
        BY <1>8 DEF PanelNext, OpenPanel, ListMessages, ShowList, JoinRoom, DropSocket, Receive,
                    Starts, Shape, Sends
    <2> QED BY <1>2, <1>3, <2>1, <2>2 DEF Stopped
<1>9. ASSUME NEW r \in Requests, ConversationStep(r) \/ EndSend(r) \/ Emit(r)
      PROVE  LateInv'
    <2>1. UNCHANGED <<late, market>>
        BY <1>9 DEF ConversationStep, CreateConversation, LookupNote, EndSend, Announce, MarkMessagesRead,
                    MarkNotesRead, Emit, conversationVars
    <2>2. /\ \A other \in Requests \ {r} : req'[other] = req[other]
          /\ \/ req'[r] = Idle
             \/ req'[r].op = req[r].op /\ req'[r].pc # "store"
        <3>1. CASE LookupNote(r)
            BY <3>1 DEF LookupNote, Shape, CallShape, Idle
        <3>2. CASE Emit(r) \/ CreateConversation(r) \/ EndSend(r) \/ MarkMessagesRead(r) \/ MarkNotesRead(r)
            <4>1. PICK pc \in {"emit", "notes"} : Goto(r, pc) \/ Ends(r)
                BY <3>2 DEF Emit, CreateConversation, EndSend, Announce, MarkMessagesRead, MarkNotesRead
            <4> QED BY <4>1 DEF Goto, Ends, Shape, CallShape, Idle
        <3> QED BY <1>9, <3>1, <3>2 DEF ConversationStep
    <2> QED BY <1>2, <1>3, <2>1, <2>2 DEF Stopped, Idle, Sends
<1>10. ASSUME NEW r \in Requests, Store(r)
       PROVE  LateInv'
    <2>1. req[r].pc = "store" /\ UNCHANGED market
        BY <1>10 DEF Store, StoreMessage
    <2>2. late' = IF Stopped THEN late + 1 ELSE late
        BY <1>10 DEF Store, StoreMessage, Stopped
    <2>3. /\ req'[r].op = req[r].op /\ req'[r].pc = "lookup"
          /\ \A other \in Requests \ {r} : req'[other] = req[other]
        BY <1>10 DEF Store, StoreMessage, Shape, CallShape, Idle
    <2>4. Sending' = Sending \ {r} /\ r \in Sending
        BY <2>1, <2>3 DEF Sending
    <2>5. /\ Cardinality(Sending') = Cardinality(Sending) - 1
          /\ Cardinality(Sending) \in Nat /\ SendBound \in Nat
        <3>1. Sending \in SUBSET Requests
            BY DEF Sending
        <3> QED BY <2>4, <3>1, CallsCounted, FS_RemoveElement
    <2>6. SendBound' = SendBound
        BY <1>1 DEF SendBound, Apart
    <2>7. Stopped' = Stopped
        BY <2>1 DEF Stopped
    <2>8. OneSend'
        BY <1>1, <2>3 DEF LateInv, OneSend, Apart
    <2>9. /\ late' \in Nat /\ late' + Cardinality(Sending') <= SendBound'
          /\ ~Stopped' => late' = 0
        BY <2>2, <2>5, <2>6, <2>7 DEF LateInv
    <2> QED BY <2>2, <2>7, <2>8, <2>9 DEF LateInv
<1>11. ConversationBegin => LateInv'
    BY <1>5, <1>6, <1>7 DEF ConversationBegin, Roles
<1>12. MessagesNext => LateInv'
    BY <1>8, <1>9, <1>10, <1>11 DEF MessagesNext
<1> QED BY <1>4, <1>12, MessagesFrame

\* After it stopped, a conversation takes at most the messages that were being sent:
\* one per call in flight, and one in all where sends do not overlap.
THEOREM SpecClosedConversationStops == Spec => []ClosedConversationStops
<1>1. Init => Shape /\ LateInv
    <2> SUFFICES ASSUME Init
                 PROVE  LateInv
        BY InitShape
    <2>1. late = 0 /\ Sending = {} /\ \A r \in Requests : req[r].op = "none"
        BY DEF Init, ConversationInit, StoreInit, Sending, Idle
    <2>2. SendBound \in Nat
        BY CallsCounted
    <2> QED BY <2>1, <2>2, FS_EmptySet DEF LateInv, OneSend, Sends
<1>2. Shape /\ LateInv /\ [Next]_vars => Shape' /\ LateInv'
    BY LateStepInv, MessagesFrame
<1>3. LateInv => ClosedConversationStops
    <2> SUFFICES ASSUME LateInv
                 PROVE  late <= SendBound
        BY DEF ClosedConversationStops, SendBound
    <2>1. Sending \in SUBSET Requests
        BY DEF Sending
    <2> QED BY <2>1, CallsCounted DEF LateInv
<1> QED BY <1>1, <1>2, <1>3, PTL DEF Spec

-----------------------------------------------------------------------------
(***************************************************************************)
(* Messages and their notifications                                        *)
(***************************************************************************)
MessageRow == [from : Roles, read : BOOLEAN]
NoteRow    == [to : Roles, read : BOOLEAN]

UnreadBy(who) == {m \in DOMAIN messages : messages[m].from # who /\ ~messages[m].read}

\* The message is stored and its notification is not yet.
Announcing(r) == req[r].pc \in {"lookup", "announce"}

Recipient(r) == OtherRole(req[r].who)

Closing(r) == At(r, "READ", "notes")

MessagesTyped ==
    /\ messages \in Seq(MessageRow) /\ notes \in Seq(NoteRow)
    /\ \A r \in Requests : req[r].op \in Sends \cup {"READ"} => req[r].who \in Roles

\* Whoever the only send has found no unread notification for has none.
MergeInv ==
    Apart(Sends, Sends) =>
        /\ \A who \in Roles : \A n, other \in UnreadNotes(who) : n = other
        /\ \A r \in Requests :
              req[r].pc = "announce" /\ req[r].seen = {} => UnreadNotes(Recipient(r)) = {}

\* The two take turns, and no call is cut short.
TakeTurns == Apart(Sends, {"READ"}) /\ ~workload.crashes

NoSendDuringRead == \A r, other \in Requests : req[r].op \in Sends => req[other].op # "READ"

\* An unread notification has its unread message or a reader about to mark it.
NotesBacked ==
    /\ \A r \in Requests : Announcing(r) => UnreadBy(Recipient(r)) # {}
    /\ \A r \in Requests : Closing(r) => UnreadBy(req[r].who) = {}
    /\ \A who \in Roles :
          UnreadNotes(who) # {} =>
              UnreadBy(who) # {} \/ \E r \in Requests : Closing(r) /\ req[r].who = who

\* An unread message has its unread notification or a send about to make one.
MessagesNoted ==
    /\ \A r \in Requests : req[r].pc = "announce" => req[r].seen \subseteq UnreadNotes(Recipient(r))
    /\ \A who \in Roles :
          UnreadBy(who) # {} =>
              UnreadNotes(who) # {} \/ \E r \in Requests : Announcing(r) /\ Recipient(r) = who

AnnounceInv ==
    /\ MessagesTyped /\ OneSend /\ MergeInv
    /\ TakeTurns => NoSendDuringRead /\ NotesBacked
    /\ TakeTurns /\ ~Serves("READ_NOTES") => MessagesNoted

LEMMA TwoRoles ==
    ASSUME NEW who \in Roles
    PROVE  /\ OtherRole(who) \in Roles
           /\ \A other \in Roles : other # who <=> other = OtherRole(who)
<1>1. \E other \in Roles : other # who
    BY DEF Roles
<1>2. OtherRole(who) \in Roles /\ OtherRole(who) # who
    BY <1>1 DEF OtherRole
<1> QED BY <1>2 DEF Roles

\* A call that starts, goes on or ends without a message or a notification.
LEMMA NothingAnnounced ==
    ASSUME Shape, Shape', AnnounceInv, UNCHANGED <<workload, messages, notes>>, OneSend',
           TakeTurns => NoSendDuringRead',
           \A r \in Requests :
               \/ req'[r] = req[r]
               \/ /\ workload.crashes \/ (~Announcing(r) /\ ~Closing(r))
                  /\ ~Announcing(r)' /\ ~Closing(r)'
                  /\ req'[r].op \in Sends \cup {"READ"} => req'[r].who \in Roles
    PROVE  AnnounceInv'
<1>1. /\ \A who : UnreadNotes(who)' = UnreadNotes(who) /\ UnreadBy(who)' = UnreadBy(who)
      /\ TakeTurns' = TakeTurns /\ Serves("READ_NOTES")' = Serves("READ_NOTES")
      /\ Apart(Sends, Sends)' = Apart(Sends, Sends)
    BY DEF UnreadNotes, UnreadBy, TakeTurns, Serves, Apart
<1>2. MessagesTyped'
    BY DEF AnnounceInv, MessagesTyped
<1>3. MergeInv'
    BY <1>1 DEF AnnounceInv, MergeInv, Announcing, Recipient
<1>4. ASSUME TakeTurns
      PROVE  NotesBacked'
    BY <1>1, <1>4 DEF AnnounceInv, NotesBacked, Announcing, Recipient, Closing, At, TakeTurns
<1>5. ASSUME TakeTurns, ~Serves("READ_NOTES")
      PROVE  MessagesNoted'
    BY <1>1, <1>5 DEF AnnounceInv, MessagesNoted, Announcing, Recipient, TakeTurns
<1> QED BY <1>1, <1>2, <1>3, <1>4, <1>5 DEF AnnounceInv

LEMMA AnnouncedStore ==
    ASSUME Shape, Shape', AnnounceInv, UNCHANGED workload, NEW r \in Requests, Store(r)
    PROVE  AnnounceInv'
<1> DEFINE row == [from |-> req[r].who, read |-> FALSE]
<1>1. /\ req[r].pc = "store" /\ req[r].op \in Sends /\ req[r].who \in Roles
      /\ messages' = Append(messages, row)
      /\ UNCHANGED <<notes, clock>>
    BY DEF Store, StoreMessage, Shape, CallShape, AnnounceInv, MessagesTyped
<1>2. /\ req'[r].op = req[r].op /\ req'[r].pc = "lookup" /\ req'[r].who = req[r].who
      /\ \A other \in Requests \ {r} : req'[other] = req[other]
    BY DEF Store, StoreMessage, Shape, CallShape, Idle
<1>3. /\ DOMAIN messages' = 1..(Len(messages) + 1) /\ DOMAIN messages = 1..Len(messages)
      /\ Len(messages) \in Nat /\ messages'[Len(messages) + 1] = row
      /\ \A m \in DOMAIN messages : messages'[m] = messages[m]
      /\ messages' \in Seq(MessageRow)
    <2>1. row \in MessageRow
        BY <1>1 DEF MessageRow
    <2>2. messages \in Seq(MessageRow)
        BY DEF AnnounceInv, MessagesTyped
    <2> HIDE DEF row
    <2> QED BY <1>1, <2>1, <2>2
<1>4. /\ \A who : UnreadNotes(who)' = UnreadNotes(who)
      /\ TakeTurns' = TakeTurns /\ Serves("READ_NOTES")' = Serves("READ_NOTES")
      /\ Apart(Sends, Sends)' = Apart(Sends, Sends)
    BY <1>1 DEF UnreadNotes, TakeTurns, Serves, Apart
<1>5. UnreadBy(Recipient(r))' # {} /\ Recipient(r)' = Recipient(r) /\ Recipient(r) \in Roles
    <2>1. OtherRole(req[r].who) # req[r].who /\ OtherRole(req[r].who) \in Roles
        BY <1>1, TwoRoles
    <2>2. messages'[Len(messages) + 1].from = req[r].who /\ ~messages'[Len(messages) + 1].read
        BY <1>3
    <2> QED BY <1>2, <1>3, <2>1, <2>2 DEF UnreadBy, Recipient
<1>6. \A who \in Roles : /\ UnreadBy(who) # {} => UnreadBy(who)' # {}
                         /\ UnreadBy(who)' # {} => UnreadBy(who) # {} \/ who = Recipient(r)
    <2>1. \A who \in Roles : who # req[r].who <=> who = Recipient(r)
        BY <1>1, TwoRoles DEF Recipient
    <2>2. \A who \in Roles : messages'[Len(messages) + 1].from # who => who = Recipient(r)
        BY <1>3, <2>1
    <2> QED BY <1>3, <2>2 DEF UnreadBy
<1>7. MessagesTyped'
    BY <1>1, <1>2, <1>3 DEF AnnounceInv, MessagesTyped
<1>8. OneSend'
    BY <1>2, <1>4 DEF AnnounceInv, OneSend
<1>9. MergeInv'
    BY <1>2, <1>4 DEF AnnounceInv, MergeInv, Recipient
<1>10. ASSUME TakeTurns
       PROVE  NoSendDuringRead' /\ NotesBacked'
    <2>1. NoSendDuringRead /\ NotesBacked
        BY <1>10 DEF AnnounceInv
    <2>2. NoSendDuringRead'
        BY <1>2, <2>1 DEF NoSendDuringRead
    <2>3. \A other \in Requests : ~Closing(other) /\ ~Closing(other)'
        BY <1>1, <1>2, <2>1, <2>2 DEF NoSendDuringRead, Closing, At
    <2>4. \A other \in Requests : Announcing(other)' => UnreadBy(Recipient(other))' # {}
        <3> SUFFICES ASSUME NEW other \in Requests, other # r, Announcing(other)'
                     PROVE  UnreadBy(Recipient(other))' # {}
            BY <1>5
        <3>1. Recipient(other)' = Recipient(other) /\ Announcing(other)
            BY <1>2 DEF Recipient, Announcing
        <3>2. Recipient(other) \in Roles
            BY <3>1, TwoRoles DEF AnnounceInv, MessagesTyped, Announcing, Recipient, Shape, CallShape
        <3>3. UnreadBy(Recipient(other)) # {}
            BY <2>1, <3>1 DEF NotesBacked
        <3> QED BY <1>6, <3>1, <3>2, <3>3 DEF UnreadBy
    <2>5. \A who \in Roles : UnreadNotes(who)' # {} => UnreadBy(who)' # {}
        BY <1>4, <1>6, <2>1, <2>3 DEF NotesBacked
    <2> QED BY <2>2, <2>3, <2>4, <2>5 DEF NotesBacked
<1>11. ASSUME TakeTurns, ~Serves("READ_NOTES")
       PROVE  MessagesNoted'
    <2>1. MessagesNoted
        BY <1>11 DEF AnnounceInv
    <2>2. \A other \in Requests : Announcing(other) => Announcing(other)'
        BY <1>2 DEF Announcing
    <2>3. \A other \in Requests : Recipient(other)' = Recipient(other)
        BY <1>2 DEF Recipient
    <2>4. Announcing(r)'
        BY <1>2 DEF Announcing
    <2>5. \A other \in Requests : req'[other].pc = "announce" => req'[other] = req[other]
        BY <1>2
    <2> QED BY <1>4, <1>6, <2>1, <2>2, <2>3, <2>4, <2>5 DEF MessagesNoted
<1> QED BY <1>4, <1>7, <1>8, <1>9, <1>10, <1>11 DEF AnnounceInv

LEMMA AnnouncedLookup ==
    ASSUME Shape, Shape', AnnounceInv, UNCHANGED workload, NEW r \in Requests, LookupNote(r)
    PROVE  AnnounceInv'
<1>1. /\ req[r].pc = "lookup" /\ req[r].op \in Sends
      /\ UNCHANGED <<messages, notes>>
    BY DEF LookupNote, conversationVars, Shape, CallShape
<1>2. /\ req'[r].op = req[r].op /\ req'[r].pc = "announce" /\ req'[r].who = req[r].who
      /\ req'[r].seen = UnreadNotes(Recipient(r))
      /\ \A other \in Requests \ {r} : req'[other] = req[other]
    BY DEF LookupNote, Shape, CallShape, Idle, FindUnreadNote, UnreadNotes, Recipient
<1>3. /\ \A who : UnreadNotes(who)' = UnreadNotes(who) /\ UnreadBy(who)' = UnreadBy(who)
      /\ TakeTurns' = TakeTurns /\ Serves("READ_NOTES")' = Serves("READ_NOTES")
      /\ Apart(Sends, Sends)' = Apart(Sends, Sends)
    BY <1>1 DEF UnreadNotes, UnreadBy, TakeTurns, Serves, Apart
<1>4. /\ \A other \in Requests : Recipient(other)' = Recipient(other)
      /\ \A other \in Requests : Announcing(other)' <=> Announcing(other)
      /\ \A other \in Requests : Closing(other)' <=> Closing(other)
      /\ \A other \in Requests : req'[other].op = req[other].op /\ req'[other].who = req[other].who
    BY <1>1, <1>2 DEF Recipient, Announcing, Closing, At
<1>5. MessagesTyped'
    BY <1>1, <1>4 DEF AnnounceInv, MessagesTyped
<1>6. OneSend'
    BY <1>3, <1>4 DEF AnnounceInv, OneSend
<1>7. MergeInv'
    BY <1>2, <1>3, <1>4 DEF AnnounceInv, MergeInv
<1>8. ASSUME TakeTurns
      PROVE  NoSendDuringRead' /\ NotesBacked'
    BY <1>3, <1>4, <1>8 DEF AnnounceInv, NoSendDuringRead, NotesBacked
<1>9. ASSUME TakeTurns, ~Serves("READ_NOTES")
      PROVE  MessagesNoted'
    BY <1>2, <1>3, <1>4, <1>9 DEF AnnounceInv, MessagesNoted
<1> QED BY <1>3, <1>5, <1>6, <1>7, <1>8, <1>9 DEF AnnounceInv

LEMMA AnnouncedNow ==
    ASSUME Shape, Shape', AnnounceInv, UNCHANGED workload, NEW r \in Requests, Announce(r)
    PROVE  AnnounceInv'
<1>0. PICK to \in Roles : to = Recipient(r)
    BY TwoRoles DEF Announce, Recipient, Shape, CallShape, AnnounceInv, MessagesTyped
<1> DEFINE row == [to |-> to, read |-> FALSE]
<1>1. /\ req[r].pc = "announce" /\ req[r].op \in Sends /\ UNCHANGED messages
      /\ notes' = IF req[r].seen = {} THEN Append(notes, row) ELSE notes
    BY <1>0 DEF Announce, AnnouncesAnew, Recipient, Shape, CallShape
<1>2. /\ ~Announcing(r)' /\ ~Closing(r)' /\ ~Closing(r)
      /\ req'[r].op \in Sends \cup {"READ"} => req'[r].op = req[r].op /\ req'[r].who = req[r].who
      /\ \A other \in Requests \ {r} : req'[other] = req[other]
    <2>1. Goto(r, "emit") \/ Ends(r)
        BY DEF Announce
    <2> QED BY <1>1, <2>1 DEF Goto, Ends, Shape, CallShape, Idle, Announcing, Closing, At, Sends
<1>3. /\ DOMAIN notes = 1..Len(notes) /\ Len(notes) \in Nat /\ notes' \in Seq(NoteRow)
      /\ \A n \in DOMAIN notes : n \in DOMAIN notes' /\ notes'[n] = notes[n]
      /\ req[r].seen = {} => /\ DOMAIN notes' = 1..(Len(notes) + 1)
                             /\ notes'[Len(notes) + 1] = row
      /\ req[r].seen # {} => notes' = notes
    <2>1. row \in NoteRow
        BY <1>1 DEF NoteRow
    <2>2. notes \in Seq(NoteRow)
        BY DEF AnnounceInv, MessagesTyped
    <2> HIDE DEF row
    <2> QED BY <1>1, <2>1, <2>2
<1>4. /\ \A who : UnreadBy(who)' = UnreadBy(who)
      /\ TakeTurns' = TakeTurns /\ Serves("READ_NOTES")' = Serves("READ_NOTES")
      /\ Apart(Sends, Sends)' = Apart(Sends, Sends)
    BY <1>1 DEF UnreadBy, TakeTurns, Serves, Apart
<1>5. /\ \A who : UnreadNotes(who) \subseteq UnreadNotes(who)'
      /\ \A who : who # to => UnreadNotes(who)' = UnreadNotes(who)
      /\ UnreadNotes(to) = {} => \A n, other \in UnreadNotes(to)' : n = other
      /\ req[r].seen # {} => \A who : UnreadNotes(who)' = UnreadNotes(who)
      /\ req[r].seen = {} => UnreadNotes(to)' # {}
    <2>1. CASE req[r].seen # {}
        BY <1>3, <2>1 DEF UnreadNotes
    <2>2. CASE req[r].seen = {}
        <3>1. /\ row.to = to /\ ~row.read
              /\ notes'[Len(notes) + 1] = row /\ DOMAIN notes' = 1..(Len(notes) + 1)
            BY <1>3, <2>2
        <3> HIDE DEF row
        <3>2. \A who : UnreadNotes(who)' = IF who = to
                                           THEN UnreadNotes(who) \cup {Len(notes) + 1}
                                           ELSE UnreadNotes(who)
            BY <1>3, <3>1 DEF UnreadNotes
        <3> QED BY <2>2, <3>2
    <2> QED BY <2>1, <2>2
<1>6. MessagesTyped'
    BY <1>1, <1>2, <1>3 DEF AnnounceInv, MessagesTyped
<1>7. OneSend'
    BY <1>2, <1>4 DEF AnnounceInv, OneSend
<1>8. ASSUME Apart(Sends, Sends)
      PROVE  MergeInv'
    <2>1. \A other \in Requests : req'[other].pc # "announce"
        <3>1. \A other \in Requests : req[other].pc = "announce" => other = r
            BY <1>1, <1>8 DEF AnnounceInv, OneSend, Shape, CallShape
        <3> QED BY <1>2, <3>1 DEF Announcing
    <2>2. \A who \in Roles : \A n, other \in UnreadNotes(who)' : n = other
        <3>1. /\ \A who \in Roles : \A n, other \in UnreadNotes(who) : n = other
              /\ req[r].seen = {} => UnreadNotes(to) = {}
            BY <1>0, <1>1, <1>8 DEF AnnounceInv, MergeInv
        <3> QED BY <1>5, <3>1
    <2> QED BY <1>4, <2>1, <2>2 DEF MergeInv
<1>9. ASSUME TakeTurns
      PROVE  NoSendDuringRead' /\ NotesBacked'
    <2>1. NoSendDuringRead /\ NotesBacked
        BY <1>9 DEF AnnounceInv
    <2>2. \A other \in Requests : req'[other].op \in Sends \cup {"READ"} => req'[other].op = req[other].op
        BY <1>2
    <2>3. NoSendDuringRead'
        BY <2>1, <2>2 DEF NoSendDuringRead
    <2>4. \A other \in Requests : (Announcing(other)' => Announcing(other))
              /\ (Closing(other)' <=> Closing(other))
        BY <1>2 DEF Announcing, Closing, At
    <2>5. \A other \in Requests : Announcing(other)' \/ Closing(other)' => req'[other] = req[other]
        BY <1>2
    <2>6. UnreadBy(to) # {}
        BY <1>0, <1>1, <2>1 DEF NotesBacked, Announcing
    <2>7. \A other \in Requests : Announcing(other)' => UnreadBy(Recipient(other))' # {}
        BY <1>4, <2>1, <2>4, <2>5 DEF NotesBacked, Recipient
    <2>8. \A other \in Requests : Closing(other)' => UnreadBy(req[other].who)' = {}
        BY <1>4, <2>1, <2>4, <2>5 DEF NotesBacked
    <2>9. \A who \in Roles : UnreadNotes(who)' # {} =>
              UnreadBy(who)' # {} \/ \E other \in Requests : Closing(other)' /\ req'[other].who = who
        BY <1>4, <1>5, <2>1, <2>4, <2>5, <2>6 DEF NotesBacked
    <2> QED BY <1>4, <2>3, <2>7, <2>8, <2>9 DEF NotesBacked
<1>10. ASSUME TakeTurns, ~Serves("READ_NOTES")
       PROVE  MessagesNoted'
    <2>1. MessagesNoted
        BY <1>10 DEF AnnounceInv
    <2>2. UnreadNotes(to)' # {}
        BY <1>0, <1>1, <1>5, <2>1 DEF MessagesNoted
    <2>3. \A other \in Requests \ {r} :
              Recipient(other)' = Recipient(other) /\ (Announcing(other)' <=> Announcing(other))
        BY <1>2 DEF Recipient, Announcing
    <2>4. \A other \in Requests :
              req'[other].pc = "announce" => req'[other].seen \subseteq UnreadNotes(Recipient(other))'
        BY <1>2, <1>5, <2>1, <2>3 DEF MessagesNoted, Announcing
    <2>5. \A who \in Roles : UnreadBy(who)' # {} =>
              UnreadNotes(who)' # {} \/ \E other \in Requests : Announcing(other)' /\ Recipient(other)' = who
        BY <1>0, <1>2, <1>4, <1>5, <2>1, <2>2, <2>3 DEF MessagesNoted
    <2> QED BY <2>4, <2>5 DEF MessagesNoted
<1> QED BY <1>4, <1>6, <1>7, <1>8, <1>9, <1>10 DEF AnnounceInv, MergeInv

LEMMA AnnouncedMessagesRead ==
    ASSUME Shape, Shape', AnnounceInv, UNCHANGED workload, NEW r \in Requests, MarkMessagesRead(r)
    PROVE  AnnounceInv'
<1>1. /\ req[r].op = "READ" /\ req[r].pc = "messages" /\ req[r].who \in Roles /\ UNCHANGED notes
      /\ DOMAIN messages' = DOMAIN messages
      /\ \A m \in DOMAIN messages :
            messages'[m] = IF messages[m].from # req[r].who THEN [messages[m] EXCEPT !.read = TRUE]
                                                            ELSE messages[m]
    BY DEF MarkMessagesRead, At, AnnounceInv, MessagesTyped
<1>2. /\ req'[r].op = "READ" /\ req'[r].pc = "notes" /\ req'[r].who = req[r].who
      /\ \A other \in Requests \ {r} : req'[other] = req[other]
    BY <1>1 DEF MarkMessagesRead, Goto, Shape, CallShape, Idle
<1>3. messages' \in Seq(MessageRow)
    <2>1. messages \in Seq(MessageRow)
        BY DEF AnnounceInv, MessagesTyped
    <2>2. \A m \in 1..Len(messages) : messages[m] \in MessageRow
        BY <2>1
    <2>3. \A row \in MessageRow : [row EXCEPT !.read = TRUE] \in MessageRow
        BY DEF MessageRow
    <2>4. \A m \in 1..Len(messages) : messages'[m] \in MessageRow
        BY <1>1, <2>1, <2>2, <2>3
    <2>5. messages' = [m \in 1..Len(messages) |-> messages'[m]]
        BY <2>1 DEF MarkMessagesRead
    <2>6. messages' \in [1..Len(messages) -> MessageRow]
        BY <2>4, <2>5
    <2> QED BY <2>1, <2>6
<1>4. /\ \A who : UnreadNotes(who)' = UnreadNotes(who)
      /\ TakeTurns' = TakeTurns /\ Serves("READ_NOTES")' = Serves("READ_NOTES")
      /\ Apart(Sends, Sends)' = Apart(Sends, Sends)
    BY <1>1 DEF UnreadNotes, TakeTurns, Serves, Apart
<1>5. /\ \A who : UnreadBy(who)' \subseteq UnreadBy(who)
      /\ UnreadBy(req[r].who)' = {}
      /\ \A who \in Roles : who # req[r].who => UnreadBy(who)' = UnreadBy(who)
    <2>1. \A m \in DOMAIN messages : messages[m] \in MessageRow
        BY DEF AnnounceInv, MessagesTyped
    <2>2. \A m \in DOMAIN messages :
              /\ messages'[m].from = messages[m].from
              /\ ~messages'[m].read <=> ~messages[m].read /\ messages[m].from = req[r].who
        BY <1>1, <2>1 DEF MessageRow
    <2>3. \A m \in DOMAIN messages, who \in Roles :
              who # req[r].who /\ messages[m].from # who => messages[m].from = req[r].who
        BY <1>1, <2>1 DEF MessageRow, Roles
    <2>4. \A who : UnreadBy(who)' \subseteq UnreadBy(who)
        BY <1>1, <2>2 DEF UnreadBy
    <2>5. \A m \in DOMAIN messages' : ~messages'[m].read => messages'[m].from = req[r].who
        BY <1>1, <2>2
    <2>6. UnreadBy(req[r].who)' = {}
        BY <1>2, <2>5 DEF UnreadBy
    <2>7. \A who \in Roles : who # req[r].who => UnreadBy(who)' = UnreadBy(who)
        BY <1>1, <2>2, <2>3 DEF UnreadBy
    <2> QED BY <2>4, <2>6, <2>7
<1>6. /\ \A other \in Requests : Recipient(other)' = Recipient(other)
      /\ \A other \in Requests : Announcing(other)' <=> Announcing(other)
      /\ \A other \in Requests : Closing(other) => Closing(other)'
      /\ \A other \in Requests : req'[other].op = req[other].op /\ req'[other].who = req[other].who
      /\ \A other \in Requests : req'[other].pc = "announce" => req'[other] = req[other]
    BY <1>1, <1>2 DEF Recipient, Announcing, Closing, At
<1>7. MessagesTyped'
    BY <1>1, <1>3, <1>6 DEF AnnounceInv, MessagesTyped
<1>8. OneSend'
    BY <1>4, <1>6 DEF AnnounceInv, OneSend
<1>9. MergeInv'
    BY <1>4, <1>6 DEF AnnounceInv, MergeInv
<1>10. ASSUME TakeTurns
       PROVE  NoSendDuringRead' /\ NotesBacked'
    <2>1. NoSendDuringRead /\ NotesBacked
        BY <1>10 DEF AnnounceInv
    <2>2. NoSendDuringRead'
        BY <1>6, <2>1 DEF NoSendDuringRead
    <2>3. \A other \in Requests : ~Announcing(other)'
        BY <1>1, <1>6, <2>1 DEF NoSendDuringRead, Announcing, Shape, CallShape
    <2>4. \A other \in Requests : Closing(other)' => UnreadBy(req[other].who)' = {}
        <3> SUFFICES ASSUME NEW other \in Requests, other # r, Closing(other)'
                     PROVE  UnreadBy(req[other].who)' = {}
            BY <1>5
        <3>1. Closing(other) /\ req'[other].who = req[other].who
            BY <1>2 DEF Closing, At
        <3>2. UnreadBy(req[other].who) = {}
            BY <2>1, <3>1 DEF NotesBacked
        <3>3. \A who : UnreadBy(who) = {} => UnreadBy(who)' = {}
            BY <1>5
        <3> QED BY <3>1, <3>2, <3>3
    <2>5. Closing(r)'
        BY <1>2 DEF Closing, At
    <2>6. \A who \in Roles : UnreadNotes(who)' # {} =>
              UnreadBy(who)' # {} \/ \E other \in Requests : Closing(other)' /\ req'[other].who = who
        BY <1>4, <1>5, <1>6, <2>1, <2>5 DEF NotesBacked
    <2> QED BY <1>6, <2>2, <2>3, <2>4, <2>6 DEF NotesBacked
<1>11. ASSUME TakeTurns, ~Serves("READ_NOTES")
       PROVE  MessagesNoted'
    <2>1. MessagesNoted
        BY <1>11 DEF AnnounceInv
    <2>2. \A who : UnreadBy(who)' # {} => UnreadBy(who) # {}
        BY <1>5
    <2> QED BY <1>4, <1>6, <2>1, <2>2 DEF MessagesNoted
<1> QED BY <1>4, <1>7, <1>8, <1>9, <1>10, <1>11 DEF AnnounceInv

LEMMA ReadingNotes ==
    ASSUME notes \in Seq(NoteRow), NEW who, NotesRead(who)
    PROVE  /\ notes' \in Seq(NoteRow)
           /\ UnreadNotes(who)' = {}
           /\ \A other : UnreadNotes(other)' \subseteq UnreadNotes(other)
           /\ \A other : other # who => UnreadNotes(other)' = UnreadNotes(other)
<1>1. \A row \in NoteRow : [row EXCEPT !.read = TRUE] \in NoteRow
    BY DEF NoteRow
<1>2. /\ notes' = [n \in 1..Len(notes) |->
                      IF notes[n].to = who THEN [notes[n] EXCEPT !.read = TRUE] ELSE notes[n]]
      /\ \A n \in 1..Len(notes) : notes[n] \in NoteRow
      /\ DOMAIN notes = 1..Len(notes)
    BY DEF NotesRead
<1>3. notes' \in [1..Len(notes) -> NoteRow]
    BY <1>1, <1>2
<1>4. /\ DOMAIN notes' = DOMAIN notes
      /\ \A n \in DOMAIN notes : /\ notes'[n].to = notes[n].to
                                 /\ ~notes'[n].read <=> ~notes[n].read /\ notes[n].to # who
    BY <1>2 DEF NoteRow
<1> QED BY <1>3, <1>4 DEF UnreadNotes

LEMMA AnnouncedNotesRead ==
    ASSUME Shape, Shape', AnnounceInv, UNCHANGED workload, NEW r \in Requests, MarkNotesRead(r)
    PROVE  AnnounceInv'
<1>1. PICK to \in Roles : to = req[r].who /\ NotesRead(to)
    BY DEF MarkNotesRead, At, AnnounceInv, MessagesTyped
<1>2. /\ Closing(r) /\ req[r].op = "READ" /\ req'[r].op = "none" /\ req'[r].pc = "idle"
      /\ \A other \in Requests \ {r} : req'[other] = req[other]
      /\ UNCHANGED messages
    BY DEF MarkNotesRead, Closing, At, Ends, Shape, Idle
<1>3. /\ notes' \in Seq(NoteRow)
      /\ UnreadNotes(to)' = {}
      /\ \A who : UnreadNotes(who)' \subseteq UnreadNotes(who)
      /\ \A who : who # to => UnreadNotes(who)' = UnreadNotes(who)
    BY <1>1, ReadingNotes DEF AnnounceInv, MessagesTyped
<1>4. /\ \A who : UnreadBy(who)' = UnreadBy(who)
      /\ TakeTurns' = TakeTurns /\ Serves("READ_NOTES")' = Serves("READ_NOTES")
      /\ Apart(Sends, Sends)' = Apart(Sends, Sends)
    BY <1>2 DEF UnreadBy, TakeTurns, Serves, Apart
<1>5. /\ ~Announcing(r)' /\ ~Closing(r)' /\ ~Announcing(r) /\ req'[r].op \notin Sends \cup {"READ"}
      /\ \A other \in Requests \ {r} : /\ Recipient(other)' = Recipient(other)
                                       /\ Announcing(other)' <=> Announcing(other)
                                       /\ Closing(other)' <=> Closing(other)
    BY <1>2 DEF Recipient, Announcing, Closing, At, Sends
<1>6. MessagesTyped'
    BY <1>2, <1>3, <1>5 DEF AnnounceInv, MessagesTyped
<1>7. OneSend'
    BY <1>2, <1>4, <1>5 DEF AnnounceInv, OneSend
<1>8. MergeInv'
    <2>1. \A who : UnreadNotes(who) = {} => UnreadNotes(who)' = {}
        BY <1>3
    <2> QED BY <1>2, <1>3, <1>4, <1>5, <2>1 DEF AnnounceInv, MergeInv
<1>9. ASSUME TakeTurns
      PROVE  NoSendDuringRead' /\ NotesBacked'
    <2>1. NoSendDuringRead /\ NotesBacked
        BY <1>9 DEF AnnounceInv
    <2>2. NoSendDuringRead'
        BY <1>2, <1>5, <2>1 DEF NoSendDuringRead
    <2>3. \A other \in Requests : /\ Announcing(other)' => UnreadBy(Recipient(other))' # {}
                                  /\ Closing(other)' => UnreadBy(req[other].who)' = {}
        BY <1>2, <1>4, <1>5, <2>1 DEF NotesBacked
    <2>4. \A who \in Roles : UnreadNotes(who)' # {} =>
              UnreadBy(who)' # {} \/ \E other \in Requests : Closing(other)' /\ req'[other].who = who
        <3> SUFFICES ASSUME NEW who \in Roles, UnreadNotes(who)' # {}
                     PROVE  UnreadBy(who)' # {} \/ \E other \in Requests : Closing(other)' /\ req'[other].who = who
            OBVIOUS
        <3>1. who # to /\ UnreadNotes(who) # {}
            BY <1>3
        <3> QED BY <1>1, <1>2, <1>4, <1>5, <2>1, <3>1 DEF NotesBacked
    <2> QED BY <2>2, <2>3, <2>4 DEF NotesBacked
<1>10. ASSUME TakeTurns, ~Serves("READ_NOTES")
       PROVE  MessagesNoted'
    <2>1. MessagesNoted /\ UnreadBy(to) = {}
        BY <1>1, <1>2, <1>10 DEF AnnounceInv, NotesBacked
    <2>2. \A other \in Requests : ~Announcing(other)
        BY <1>2, <1>10 DEF AnnounceInv, NoSendDuringRead, Announcing, Shape, CallShape
    <2>3. \A other \in Requests : req'[other].pc # "announce"
        BY <1>5, <2>2 DEF Announcing
    <2> QED BY <1>3, <1>4, <2>1, <2>2, <2>3 DEF MessagesNoted
<1> QED BY <1>4, <1>6, <1>7, <1>8, <1>9, <1>10 DEF AnnounceInv

LEMMA AnnouncedBell ==
    ASSUME Shape, Shape', AnnounceInv, UNCHANGED workload, ReadNotes
    PROVE  AnnounceInv'
<1>1. PICK to \in Roles : NotesRead(to)
    BY DEF ReadNotes
<1>2. UNCHANGED <<req, messages>> /\ Serves("READ_NOTES")
    BY DEF ReadNotes
<1>3. /\ notes' \in Seq(NoteRow)
      /\ \A who : UnreadNotes(who)' \subseteq UnreadNotes(who)
    BY <1>1, ReadingNotes DEF AnnounceInv, MessagesTyped
<1>4. /\ \A who : UnreadBy(who)' = UnreadBy(who)
      /\ TakeTurns' = TakeTurns /\ Serves("READ_NOTES")'
      /\ Apart(Sends, Sends)' = Apart(Sends, Sends)
      /\ \A r \in Requests : /\ Recipient(r)' = Recipient(r)
                             /\ Announcing(r)' <=> Announcing(r)
                             /\ Closing(r)' <=> Closing(r)
    BY <1>2 DEF UnreadBy, TakeTurns, Serves, Apart, Recipient, Announcing, Closing, At
<1>5. MessagesTyped' /\ OneSend'
    BY <1>2, <1>3, <1>4 DEF AnnounceInv, MessagesTyped, OneSend
<1>6. MergeInv'
    <2>1. \A who : UnreadNotes(who) = {} => UnreadNotes(who)' = {}
        BY <1>3
    <2> QED BY <1>2, <1>3, <1>4, <2>1 DEF AnnounceInv, MergeInv
<1>7. ASSUME TakeTurns
      PROVE  NoSendDuringRead' /\ NotesBacked'
    <2>1. \A who : UnreadNotes(who)' # {} => UnreadNotes(who) # {}
        BY <1>3
    <2> QED BY <1>2, <1>4, <1>7, <2>1 DEF AnnounceInv, NoSendDuringRead, NotesBacked
<1> QED BY <1>4, <1>5, <1>6, <1>7 DEF AnnounceInv

LEMMA AnnounceStepInv ==
    ASSUME Shape, AnnounceInv, [Next]_vars
    PROVE  AnnounceInv'
<1>1. Shape' /\ UNCHANGED workload
    BY MessagesFrame
<1>2. /\ Apart(Sends, Sends)' = Apart(Sends, Sends) /\ TakeTurns' = TakeTurns
      /\ Apart(Sends, {"READ"})' = Apart(Sends, {"READ"})
    BY <1>1 DEF Apart, TakeTurns
\* Nothing is sent or read anew: the calls stay, or one of them ends or goes on.
<1>3. ASSUME UNCHANGED <<messages, notes>>,
             \A r \in Requests :
                 \/ req'[r] = req[r]
                 \/ /\ workload.crashes \/ (~Announcing(r) /\ ~Closing(r))
                    /\ ~Announcing(r)' /\ ~Closing(r)'
                    /\ req'[r].op \in Sends \cup {"READ"} => req'[r].op = req[r].op /\ req'[r].who = req[r].who
      PROVE  AnnounceInv'
    <2>1. \A r \in Requests : req'[r].op \in Sends \cup {"READ"} => req'[r].op = req[r].op
        BY <1>3
    <2>2. OneSend'
        BY <1>2, <2>1 DEF AnnounceInv, OneSend
    <2>3. TakeTurns => NoSendDuringRead'
        BY <2>1 DEF AnnounceInv, NoSendDuringRead
    <2>4. \A r \in Requests : req[r].op \in Sends \cup {"READ"} => req[r].who \in Roles
        BY DEF AnnounceInv, MessagesTyped
    <2> QED BY <1>1, <1>3, <2>2, <2>3, <2>4, NothingAnnounced
<1>4. CASE UNCHANGED messagingVars /\ Untouched(MessageOps)
    <2>1. \A r \in Requests :
              req[r].op \notin MessageOps => ~Announcing(r) /\ ~Closing(r) /\ req[r].op \notin Sends \cup {"READ"}
        BY DEF MessageOps, Announcing, Closing, At, Shape, CallShape
    <2>2. \A r \in Requests :
              req'[r].op \notin MessageOps => ~Announcing(r)' /\ ~Closing(r)' /\ req'[r].op \notin Sends \cup {"READ"}
        BY <1>1 DEF MessageOps, Announcing, Closing, At, Shape, CallShape
    <2>3. Idle.op \notin MessageOps
        BY DEF Idle, MessageOps, Sends
    <2>4. UNCHANGED <<messages, notes>>
        BY <1>4 DEF messagingVars, conversationVars
    <2> QED BY <1>3, <1>4, <2>1, <2>2, <2>3, <2>4 DEF Untouched
\* A call of op starts in a free slot.
<1>5. ASSUME NEW r \in Requests, NEW op \in MessageOps, NEW pc, NEW who, MayStart(r, op),
             Starts(r, op, pc, who, 0, {}), pc \in {"create", "store", "messages"},
             op \in Sends \cup {"READ"} => who \in Roles, UNCHANGED <<messages, notes>>
      PROVE  AnnounceInv'
    <2>1. /\ req'[r].op = op /\ req'[r].pc = pc /\ req'[r].who = who
          /\ \A other \in Requests \ {r} : req'[other] = req[other]
          /\ req[r].pc = "idle"
        BY <1>5 DEF Starts, Shape, MayStart
    <2>2. \A other \in Requests : {op, req[other].op} \notin workload.apart
        BY <1>5 DEF MayStart
    <2>3. OneSend'
        <3>1. Apart(Sends, Sends) /\ op \in Sends => \A other \in Requests : req[other].op \notin Sends
            BY <2>2 DEF Apart
        <3> QED BY <1>2, <2>1, <3>1 DEF AnnounceInv, OneSend
    <2>4. TakeTurns => NoSendDuringRead'
        <3>1. TakeTurns /\ op \in Sends => \A other \in Requests : req[other].op # "READ"
            BY <2>2 DEF TakeTurns, Apart
        <3>2. TakeTurns /\ op = "READ" => \A other \in Requests : req[other].op \notin Sends
            <4>1. ASSUME NEW other \in Requests, TakeTurns, op = "READ", req[other].op \in Sends
                  PROVE  FALSE
                <5>1. {req[other].op, op} \in workload.apart
                    BY <4>1 DEF TakeTurns, Apart
                <5>2. {req[other].op, op} = {op, req[other].op}
                    OBVIOUS
                <5> QED BY <2>2, <5>1, <5>2
            <4> QED BY <4>1
        <3>3. "READ" \notin Sends
            BY DEF Sends
        <3> QED BY <2>1, <3>1, <3>2, <3>3 DEF AnnounceInv, NoSendDuringRead
    <2>5. ~Announcing(r) /\ ~Closing(r) /\ ~Announcing(r)' /\ ~Closing(r)'
        BY <1>5, <2>1 DEF Announcing, Closing, At
    <2> QED BY <1>1, <1>5, <2>1, <2>3, <2>4, <2>5, NothingAnnounced
<1>6. ASSUME NEW r \in Requests, NEW op \in Sends, NEW who \in Roles, BeginSend(r, op, who)
      PROVE  AnnounceInv'
    <2>1. UNCHANGED <<messages, notes>> /\ op \in MessageOps
        BY <1>6 DEF BeginSend, MessageOps
    <2>2. CASE ~CanSend
        BY <1>3, <1>6, <2>1, <2>2 DEF BeginSend
    <2>3. CASE CanSend
        <3>1. Starts(r, op, "store", who, 0, {}) /\ MayStart(r, op)
            BY <1>6, <2>3 DEF BeginSend, Begins
        <3> QED BY <1>5, <2>1, <3>1
    <2> QED BY <2>2, <2>3
<1>7. ASSUME NEW r \in Requests, NEW who \in Roles, BeginRead(r, who)
      PROVE  AnnounceInv'
    BY <1>5, <1>7 DEF BeginRead, Begins, conversationVars, MessageOps
<1>8. ASSUME NEW r \in Requests, BeginOpen(r)
      PROVE  AnnounceInv'
    <2>1. PICK who \in Roles : Starts(r, "OPEN", "create", who, 0, {})
        BY <1>8 DEF BeginOpen
    <2>2. MayStart(r, "OPEN") /\ UNCHANGED <<messages, notes>> /\ "OPEN" \in MessageOps
        BY <1>8 DEF BeginOpen, Begins, conversationVars, MessageOps
    <2> QED BY <1>5, <2>1, <2>2
<1>9. CASE MarketMoves \/ Typing \/ Tick
    BY <1>3, <1>9 DEF MarketMoves, Typing, Tick
<1>10. CASE PanelNext
    <2>1. ASSUME NEW r \in Requests, ShowList(r)
          PROVE  AnnounceInv'
        BY <1>5, <2>1, ReaderAssumption DEF ShowList, conversationVars, MessageOps
    <2>2. CASE OpenPanel \/ ListMessages \/ JoinRoom \/ DropSocket \/ \E a \in arrivals : Receive(a)
        <3>1. UNCHANGED <<req, messages, notes>>
            BY <2>2 DEF OpenPanel, ListMessages, JoinRoom, DropSocket, Receive, conversationVars
        <3> QED BY <1>3, <3>1
    <2> QED BY <1>10, <2>1, <2>2 DEF PanelNext
<1>11. ASSUME NEW r \in Requests, CreateConversation(r) \/ Emit(r)
       PROVE  AnnounceInv'
    <2>1. /\ req[r].pc \in {"create", "emit"} /\ Ends(r) /\ UNCHANGED <<messages, notes>>
        BY <1>11 DEF CreateConversation, Emit, At, conversationVars
    <2>2. /\ ~Announcing(r) /\ ~Closing(r) /\ ~Announcing(r)' /\ ~Closing(r)'
          /\ req'[r].op \notin Sends \cup {"READ"}
          /\ \A other \in Requests \ {r} : req'[other] = req[other]
        BY <2>1 DEF Announcing, Closing, At, Ends, Shape, Idle, Sends
    <2> QED BY <1>3, <2>1, <2>2
<1>12. ConversationBegin => AnnounceInv'
    BY <1>1, <1>6, <1>7, <1>8, <1>9, AnnouncedBell DEF ConversationBegin
<1>13. ASSUME NEW r \in Requests, ConversationStep(r) \/ EndSend(r)
       PROVE  AnnounceInv'
    BY <1>1, <1>11, <1>13, AnnouncedLookup, AnnouncedNow, AnnouncedMessagesRead, AnnouncedNotesRead
       DEF ConversationStep, EndSend
<1>14. MessagesNext => AnnounceInv'
    BY <1>1, <1>10, <1>11, <1>12, <1>13, AnnouncedStore DEF MessagesNext
<1> QED BY <1>4, <1>14, MessagesFrame

LEMMA InitAnnounceInv == Init => Shape /\ AnnounceInv
<1> SUFFICES ASSUME Init
             PROVE  AnnounceInv
    BY InitShape
<1>1. messages = <<>> /\ notes = <<>> /\ \A r \in Requests : req[r].op = "none" /\ req[r].pc = "idle"
    BY DEF Init, ConversationInit, StoreInit, Idle
<1>2. MessagesTyped
    BY <1>1 DEF MessagesTyped, Sends
<1>3. \A who : UnreadNotes(who) = {} /\ UnreadBy(who) = {}
    BY <1>1 DEF UnreadNotes, UnreadBy
<1> QED BY <1>1, <1>2, <1>3 DEF AnnounceInv, OneSend, MergeInv, NoSendDuringRead, NotesBacked, MessagesNoted,
                                 Announcing, Closing, At, Sends

\* Where sends take turns, one unread notification stands for all the unread messages;
\* where sends and reads do, and nothing is cut short, an idle server has an unread
\* notification for exactly those who have an unread message.
THEOREM SpecUnreadAnnounced == Spec => []UnreadAnnounced
<1>1. Init => Shape /\ AnnounceInv
    BY InitAnnounceInv
<1>2. Shape /\ AnnounceInv /\ [Next]_vars => Shape' /\ AnnounceInv'
    BY AnnounceStepInv, MessagesFrame
<1>3. AnnounceInv => UnreadAnnounced
    <2> SUFFICES ASSUME AnnounceInv
                 PROVE  UnreadAnnounced
        OBVIOUS
    <2>1. ASSUME Apart(Sends, Sends), NEW who \in Roles
          PROVE  Cardinality(UnreadNotes(who)) <= 1
        <3>1. CASE UnreadNotes(who) = {}
            BY <3>1, FS_EmptySet
        <3>2. ASSUME NEW n \in UnreadNotes(who)
              PROVE  Cardinality(UnreadNotes(who)) <= 1
            <4>1. UnreadNotes(who) = {n}
                BY <2>1, <3>2 DEF AnnounceInv, MergeInv
            <4>2. Cardinality({n}) = 1
                BY FS_Singleton
            <4> QED BY <4>1, <4>2
        <3> QED BY <3>1, <3>2
    <2>2. ASSUME Quiescent, TakeTurns, NEW who \in Roles
          PROVE  /\ UnreadNotes(who) # {} => UnreadBy(who) # {}
                 /\ UnreadBy(who) # {} /\ ~Serves("READ_NOTES") => UnreadNotes(who) # {}
        <3>1. \A r \in Requests : ~Announcing(r) /\ ~Closing(r)
            BY <2>2 DEF Quiescent, Announcing, Closing, At
        <3> QED BY <2>2, <3>1 DEF AnnounceInv, NotesBacked, MessagesNoted
    <2>3. \A who : UnreadBy(who) # {} <=>
                       \E m \in DOMAIN messages : messages[m].from # who /\ ~messages[m].read
        BY DEF UnreadBy
    <2> QED BY <2>1, <2>2, <2>3 DEF UnreadAnnounced, TakeTurns
<1> QED BY <1>1, <1>2, <1>3, PTL DEF Spec

-----------------------------------------------------------------------------
(***************************************************************************)
(* The limiters                                                            *)
(***************************************************************************)
Ticks == 0..MaxClock

\* The ticks since an entry's window opened, those of a window's length before,
\* and those of a period.
Since(entry) == {t \in Ticks : t >= entry.resetAt - Window}
Before(entry) == {t \in Ticks : t < entry.resetAt - Window /\ t >= entry.resetAt - Window - Window}
PeriodFrom(start) == {t \in Ticks : t \in start .. start + Window - 1}

\* An entry counts what its window has admitted, and the window before it has
\* admitted no more than its limit.
EntryInv(entry, counts, now, limit) ==
    /\ DOMAIN entry = {"count", "resetAt"}
    /\ entry.count \in 0..limit /\ entry.resetAt \in Nat
    /\ counts \in [Ticks -> Nat]
    /\ \A t \in Ticks : t > now \/ t > entry.resetAt \/ entry.count = 0 => counts[t] = 0
    /\ entry.count # 0 => entry.resetAt - Window <= now
    /\ SumFunctionOnSet(counts, Since(entry)) = entry.count
    /\ SumFunctionOnSet(counts, Before(entry)) <= limit
    /\ \A start \in Ticks : SumFunctionOnSet(counts, PeriodFrom(start)) <= 2 * limit

RateInv ==
    /\ clock \in Ticks
    /\ DOMAIN rate = Limiters /\ DOMAIN admitted = Limiters
    /\ \A key \in Limiters : EntryInv(rate[key], admitted[key], clock, LimitOf(key))

LEMMA TicksFinite ==
    /\ IsFiniteSet(Ticks)
    /\ \A entry : IsFiniteSet(Since(entry)) /\ IsFiniteSet(Before(entry))
    /\ \A start : IsFiniteSet(PeriodFrom(start))
<1>1. IsFiniteSet(Ticks)
    BY FS_Interval, ConversationAssumption DEF Ticks
<1> QED BY <1>1, FS_Subset DEF Since, Before, PeriodFrom

LEMMA Limits == \A key \in Limiters : LimitOf(key) \in Nat \ {0}
BY ConversationAssumption DEF LimitOf

\* A period that reaches into a window is covered by it and the one before.
LEMMA PeriodSplits ==
    ASSUME NEW entry, entry.resetAt \in Nat, NEW counts, counts \in [Ticks -> Nat],
           NEW limit \in Nat, NEW start \in Ticks, NEW now \in PeriodFrom(start),
           entry.resetAt - Window <= now,
           SumFunctionOnSet(counts, Since(entry)) <= limit,
           SumFunctionOnSet(counts, Before(entry)) <= limit
    PROVE  SumFunctionOnSet(counts, PeriodFrom(start)) <= 2 * limit
<1> DEFINE P == PeriodFrom(start)
           N == P \cap Since(entry)
           O == P \ N
<1>1. /\ N \subseteq Since(entry) /\ N \subseteq P /\ O = P \ N
      /\ P \subseteq Ticks /\ Since(entry) \subseteq Ticks /\ Before(entry) \subseteq Ticks
    BY DEF Since, Before, PeriodFrom
<1>2. O \subseteq Before(entry)
    <2>1. Window \in Nat /\ start + Window - 1 >= now /\ now \in Int
        BY ConversationAssumption DEF PeriodFrom, Ticks
    <2>2. ASSUME NEW t \in O
          PROVE  t \in Before(entry)
        <3>1. t \in Ticks /\ t \in Int /\ t >= start /\ ~(t >= entry.resetAt - Window)
            BY <2>2 DEF PeriodFrom, Since, Ticks
        <3>2. start \in Int
            BY DEF Ticks
        <3>3. t >= entry.resetAt - Window - Window
            BY <2>1, <3>1, <3>2
        <3> QED BY <2>1, <3>1, <3>3 DEF Before
    <2> QED BY <2>2
<1> HIDE DEF P, N, O
<1>3. IsFiniteSet(P) /\ IsFiniteSet(Since(entry)) /\ IsFiniteSet(Before(entry))
      /\ IsFiniteSet(N) /\ IsFiniteSet(O)
    BY <1>1, TicksFinite, FS_Subset DEF P
<1>4. \A t \in Ticks : counts[t] \in Nat /\ counts[t] \in Int
    OBVIOUS
<1>5. SumFunctionOnSet(counts, P) = SumFunctionOnSet(counts, N) + SumFunctionOnSet(counts, O)
    BY <1>1, <1>3, <1>4, SumInTwo
<1>6. SumFunctionOnSet(counts, N) <= SumFunctionOnSet(counts, Since(entry))
    BY <1>1, <1>3, <1>4, SumOfPart
<1>7. SumFunctionOnSet(counts, O) <= SumFunctionOnSet(counts, Before(entry))
    BY <1>1, <1>2, <1>3, <1>4, SumOfPart
<1>8. /\ SumFunctionOnSet(counts, N) \in Int /\ SumFunctionOnSet(counts, O) \in Int
      /\ SumFunctionOnSet(counts, Since(entry)) \in Int
      /\ SumFunctionOnSet(counts, Before(entry)) \in Int
    BY <1>1, <1>2, <1>3, <1>4, SumInteger
<1> QED BY <1>5, <1>6, <1>7, <1>8 DEF P

\* One more at now, in a set of ticks.
LEMMA OneAdmitted ==
    ASSUME NEW counts, counts \in [Ticks -> Nat], NEW now \in Ticks,
           NEW T \in SUBSET Ticks
    PROVE  LET more == [counts EXCEPT ![now] = @ + 1]
           IN /\ more \in [Ticks -> Nat]
              /\ SumFunctionOnSet(more, T)
                    = SumFunctionOnSet(counts, T) + IF now \in T THEN 1 ELSE 0
              /\ SumFunctionOnSet(counts, T) \in Nat
<1> DEFINE more == [counts EXCEPT ![now] = @ + 1]
<1>1. /\ more \in [Ticks -> Nat]
      /\ \A t \in T : more[t] = IF t = now THEN counts[t] + 1 ELSE counts[t]
      /\ \A t \in T : counts[t] \in Int /\ counts[t] \in Nat
    OBVIOUS
<1>2. IsFiniteSet(T)
    BY TicksFinite, FS_Subset
<1>3. SumFunctionOnSet(counts, T) \in Nat
    BY <1>1, <1>2, SumNotNegative
<1> HIDE DEF more
<1>4. CASE now \in T
    <2>1. SumFunctionOnSet(more, T) = SumFunctionOnSet(counts, T) + 1
        BY <1>1, <1>2, <1>4, SumBump
    <2> QED BY <1>1, <1>3, <1>4, <2>1 DEF more
<1>5. CASE now \notin T
    <2>1. \A t \in T : counts[t] \in Int /\ more[t] = counts[t]
        BY <1>1, <1>5
    <2>2. SumFunctionOnSet(more, T) = SumFunctionOnSet(counts, T)
        BY <1>2, <2>1, SumSame
    <2> QED BY <1>1, <1>3, <1>5, <2>2 DEF more
<1> QED BY <1>4, <1>5

\* assertRateLimit admits one more.
LEMMA EntryCounts ==
    ASSUME NEW entry, NEW counts, NEW now \in Ticks, NEW limit \in Nat \ {0},
           EntryInv(entry, counts, now, limit),
           ~(now <= entry.resetAt /\ entry.count >= limit), NEW new,
           new = IF entry.count = 0 \/ now > entry.resetAt
                 THEN [count |-> 1, resetAt |-> now + Window]
                 ELSE [entry EXCEPT !.count = @ + 1]
    PROVE  EntryInv(new, [counts EXCEPT ![now] = @ + 1], now, limit)
<1>1. PICK more : more = [counts EXCEPT ![now] = @ + 1]
    OBVIOUS
<1>2. /\ counts \in [Ticks -> Nat] /\ DOMAIN entry = {"count", "resetAt"}
      /\ entry.count \in 0..limit /\ entry.resetAt \in Nat
      /\ Window \in Nat /\ now \in Nat
    BY ConversationAssumption DEF EntryInv, Ticks
<1>3. \A entry2 : Since(entry2) \in SUBSET Ticks /\ Before(entry2) \in SUBSET Ticks
    BY DEF Since, Before
<1>4. /\ more \in [Ticks -> Nat]
      /\ \A T \in SUBSET Ticks :
            /\ SumFunctionOnSet(more, T)
                  = SumFunctionOnSet(counts, T) + IF now \in T THEN 1 ELSE 0
            /\ SumFunctionOnSet(counts, T) \in Nat
    BY <1>1, <1>2, OneAdmitted
<1>5. \A t \in Ticks : t # now => more[t] = counts[t]
    BY <1>1, <1>2
<1>6. /\ DOMAIN new = {"count", "resetAt"} /\ new.count \in 1..limit /\ new.resetAt \in Nat
      /\ new.resetAt - Window <= now /\ now <= new.resetAt
    <2>1. CASE entry.count = 0 \/ now > entry.resetAt
        BY <1>2, <2>1
    <2>2. CASE ~(entry.count = 0 \/ now > entry.resetAt)
        <3>1. new.count = entry.count + 1 /\ new.resetAt = entry.resetAt /\ DOMAIN new = DOMAIN entry
            BY <1>2, <2>2
        <3> QED BY <1>2, <2>2, <3>1 DEF EntryInv
    <2> QED BY <2>1, <2>2
<1>7. \A t \in Ticks : t > now \/ t > new.resetAt => more[t] = 0
    <2>1. ASSUME NEW t \in Ticks, t > now
          PROVE  more[t] = 0
        BY <1>2, <1>5, <2>1 DEF EntryInv, Ticks
    <2>2. \A t \in Ticks : t > new.resetAt => t > now
        BY <1>2, <1>6 DEF Ticks
    <2> QED BY <2>1, <2>2
<1>8. /\ SumFunctionOnSet(more, Since(new)) = new.count
      /\ SumFunctionOnSet(more, Before(new)) <= limit
    <2>1. now \in Since(new) /\ now \notin Before(new)
        BY <1>2, <1>6 DEF Since, Before
    <2>2. /\ SumFunctionOnSet(more, Since(new)) = SumFunctionOnSet(counts, Since(new)) + 1
          /\ SumFunctionOnSet(more, Before(new)) = SumFunctionOnSet(counts, Before(new))
          /\ SumFunctionOnSet(counts, Since(new)) \in Nat
          /\ SumFunctionOnSet(counts, Before(new)) \in Nat
        BY <1>3, <1>4, <2>1
    <2>3. CASE ~(entry.count = 0 \/ now > entry.resetAt)
        <3>1. new.count = entry.count + 1 /\ new.resetAt = entry.resetAt
            BY <1>2, <2>3
        <3>2. Since(new) = Since(entry) /\ Before(new) = Before(entry)
            BY <3>1 DEF Since, Before
        <3> QED BY <2>2, <3>1, <3>2 DEF EntryInv
    <2>4. CASE entry.count = 0 \/ now > entry.resetAt
        <3>1. new.count = 1 /\ new.resetAt - Window = now
            BY <1>2, <2>4
        <3>2. \A t \in Since(new) : counts[t] = 0
            <4>1. \A t \in Since(new) : t \in Ticks /\ t >= now /\ t \in Int
                BY <3>1 DEF Since, Ticks
            <4>2. \A t \in Since(new) : t > entry.resetAt \/ entry.count = 0
                BY <1>2, <2>4, <4>1
            <4> QED BY <4>1, <4>2 DEF EntryInv
        <3>3. SumFunctionOnSet(counts, Since(new)) = 0
            BY <3>2, TicksFinite, SumOfZeros
        <3>4. SumFunctionOnSet(counts, Before(new)) <= limit
            <4>1. CASE entry.count = 0
                <5>1. \A t \in Before(new) : counts[t] = 0
                    BY <1>3, <4>1 DEF EntryInv
                <5>2. SumFunctionOnSet(counts, Before(new)) = 0
                    BY <5>1, TicksFinite, SumOfZeros
                <5> QED BY <5>2
            <4>2. CASE entry.count # 0
                <5>1. Before(new) \subseteq Since(entry)
                    <6>1. ASSUME NEW t \in Before(new)
                          PROVE  t \in Since(entry)
                        <7>1. t \in Ticks /\ t \in Int /\ t >= now - Window
                            BY <3>1 DEF Before, Ticks
                        <7>2. now > entry.resetAt
                            BY <2>4, <4>2
                        <7>3. t >= entry.resetAt - Window
                            BY <1>2, <7>1, <7>2
                        <7> QED BY <7>1, <7>3 DEF Since
                    <6> QED BY <6>1
                <5>2. \A t \in Since(entry) : counts[t] \in Nat
                    BY <1>2, <1>3
                <5>3. SumFunctionOnSet(counts, Before(new)) <= SumFunctionOnSet(counts, Since(entry))
                    BY <5>1, <5>2, TicksFinite, SumOfPart
                <5>4. SumFunctionOnSet(counts, Since(entry)) = entry.count
                    BY DEF EntryInv
                <5> QED BY <1>2, <2>2, <5>3, <5>4
            <4> QED BY <4>1, <4>2
        <3> QED BY <2>2, <3>1, <3>3, <3>4
    <2> QED BY <2>3, <2>4
<1>9. ASSUME NEW start \in Ticks
      PROVE  SumFunctionOnSet(more, PeriodFrom(start)) <= 2 * limit
    <2>1. PeriodFrom(start) \in SUBSET Ticks
        BY DEF PeriodFrom
    <2>2. CASE now \in PeriodFrom(start)
        <3>1. SumFunctionOnSet(more, Since(new)) <= limit
            BY <1>6, <1>8
        <3> QED BY <1>4, <1>6, <1>8, <2>2, <3>1, PeriodSplits
    <2>3. CASE now \notin PeriodFrom(start)
        <3>1. SumFunctionOnSet(more, PeriodFrom(start)) = SumFunctionOnSet(counts, PeriodFrom(start))
            BY <1>4, <2>1, <2>3
        <3> QED BY <3>1 DEF EntryInv
    <2> QED BY <2>2, <2>3
<1>10. EntryInv(new, more, now, limit)
    BY <1>4, <1>6, <1>7, <1>8, <1>9 DEF EntryInv
<1> QED BY <1>1, <1>10

\* Time passes; or nothing is admitted.
LEMMA EntryWaits ==
    ASSUME NEW entry, NEW counts, NEW now \in Ticks, NEW next \in Ticks, NEW limit \in Nat,
           EntryInv(entry, counts, now, limit), next >= now
    PROVE  EntryInv(entry, counts, next, limit)
<1>1. \A t \in Ticks : t > next => t > now
    BY DEF Ticks
<1>2. entry.resetAt - Window <= now => entry.resetAt - Window <= next
    BY ConversationAssumption DEF EntryInv, Ticks
<1> QED BY <1>1, <1>2 DEF EntryInv

LEMMA CountsKeepRate ==
    ASSUME RateInv, NEW key \in Limiters, ~Throttles(rate[key], LimitOf(key)), Counts(key),
           clock' = clock
    PROVE  RateInv'
<1>1. PICK old : old = rate[key]
    OBVIOUS
<1>2. PICK new : new = IF old.count = 0 \/ clock > old.resetAt
                       THEN [count |-> 1, resetAt |-> clock + Window]
                       ELSE [old EXCEPT !.count = @ + 1]
    OBVIOUS
<1>3. PICK counts : counts = admitted[key]
    OBVIOUS
<1>4. PICK now \in Ticks : now = clock
    BY DEF RateInv
<1>5. EntryInv(old, counts, now, LimitOf(key)) /\ LimitOf(key) \in Nat \ {0}
    BY <1>1, <1>3, <1>4, Limits DEF RateInv
<1>6. ~(now <= old.resetAt /\ old.count >= LimitOf(key))
    BY <1>1, <1>4 DEF Throttles
<1>7. EntryInv(new, [counts EXCEPT ![now] = @ + 1], now, LimitOf(key))
    BY <1>2, <1>4, <1>5, <1>6, EntryCounts
<1>8. /\ rate'[key] = new /\ admitted'[key] = [counts EXCEPT ![now] = @ + 1]
      /\ DOMAIN rate' = Limiters /\ DOMAIN admitted' = Limiters
      /\ \A other \in Limiters \ {key} : rate'[other] = rate[other] /\ admitted'[other] = admitted[other]
    <2>1. DOMAIN rate = Limiters /\ DOMAIN admitted = Limiters
        BY DEF RateInv
    <2>2. /\ rate'[key] = OneMoreOf(rate[key]) /\ DOMAIN rate' = Limiters
          /\ \A other \in Limiters \ {key} : rate'[other] = rate[other]
        BY <2>1 DEF Counts
    <2>3. OneMoreOf(rate[key]) = new
        BY <1>1, <1>2, Zenon DEF OneMoreOf
    <2>4. admitted' = [admitted EXCEPT ![key] = [counts EXCEPT ![now] = @ + 1]]
        BY <1>3, <1>4 DEF Counts
    <2> QED BY <2>1, <2>2, <2>3, <2>4
<1>9. ASSUME NEW other \in Limiters
      PROVE  EntryInv(rate'[other], admitted'[other], clock', LimitOf(other))
    BY <1>4, <1>7, <1>8 DEF RateInv
<1>10. clock' \in Ticks
    BY DEF RateInv
<1> QED BY <1>8, <1>9, <1>10 DEF RateInv

LEMMA RateStepInv ==
    ASSUME Shape, RateInv, [Next]_vars
    PROVE  RateInv'
<1>1. ASSUME UNCHANGED <<rate, admitted>>, clock' \in Ticks, clock' >= clock
      PROVE  RateInv'
    <2>1. PICK now \in Ticks, next \in Ticks : now = clock /\ next = clock' /\ next >= now
        BY <1>1 DEF RateInv
    <2>2. ASSUME NEW key \in Limiters
          PROVE  EntryInv(rate[key], admitted[key], next, LimitOf(key))
        <3>1. PICK entry, counts : entry = rate[key] /\ counts = admitted[key]
            OBVIOUS
        <3>2. EntryInv(entry, counts, now, LimitOf(key)) /\ LimitOf(key) \in Nat
            BY <2>1, <3>1, Limits DEF RateInv
        <3>3. EntryInv(entry, counts, next, LimitOf(key))
            BY <2>1, <3>2, EntryWaits
        <3> QED BY <3>1, <3>3
    <2> QED BY <1>1, <2>1, <2>2 DEF RateInv
<1>2. ASSUME UNCHANGED <<clock, rate, admitted>>
      PROVE  RateInv'
    BY <1>2, <1>1 DEF RateInv, Ticks
<1>3. CASE UNCHANGED messagingVars
    BY <1>2, <1>3 DEF messagingVars, conversationVars
<1>4. CASE Tick
    <2>1. clock' \in Ticks /\ clock' >= clock
        BY <1>4, ConversationAssumption DEF Tick, RateInv, Ticks
    <2> QED BY <1>1, <1>4, <2>1 DEF Tick
<1>5. CASE Typing
    <2>1. "typist" \in Limiters /\ LimitOf("typist") = TypingLimit
        BY DEF Limiters, LimitOf
    <2> QED BY <1>5, <2>1, CountsKeepRate DEF Typing
<1>6. ASSUME NEW r \in Requests, NEW op, NEW who \in Roles, BeginSend(r, op, who)
      PROVE  RateInv'
    <2>1. who \in Limiters /\ LimitOf(who) = MessageLimit
        BY DEF Limiters, LimitOf, Roles
    <2> QED BY <1>6, <2>1, CountsKeepRate DEF BeginSend
<1>7. ASSUME NEW r \in Requests, NEW who \in Roles, BeginRead(r, who)
      PROVE  RateInv'
    BY <1>2, <1>7 DEF BeginRead, conversationVars
<1>8. ASSUME NEW r \in Requests, BeginOpen(r)
      PROVE  RateInv'
    BY <1>2, <1>8 DEF BeginOpen, conversationVars
<1>9. CASE MarketMoves \/ ReadNotes
    BY <1>2, <1>9 DEF MarketMoves, ReadNotes
<1>10. ConversationBegin => RateInv'
    BY <1>4, <1>5, <1>6, <1>7, <1>8, <1>9 DEF ConversationBegin
<1>11. PanelNext => RateInv'
    <2>1. PanelNext => UNCHANGED conversationVars
        BY DEF PanelNext, OpenPanel, ListMessages, ShowList, JoinRoom, DropSocket, Receive
    <2> QED BY <1>2, <2>1 DEF conversationVars
<1>12. ASSUME NEW r \in Requests, ConversationStep(r) \/ Store(r) \/ EndSend(r) \/ Emit(r)
       PROVE  RateInv'
    BY <1>2, <1>12 DEF ConversationStep, CreateConversation, LookupNote, EndSend, Announce,
       MarkMessagesRead, MarkNotesRead, Store, StoreMessage, Emit, conversationVars
<1> QED BY <1>3, <1>10, <1>11, <1>12, MessagesFrame DEF MessagesNext

LEMMA InitRateInv == Init => RateInv
<1> SUFFICES ASSUME Init
             PROVE  RateInv
    OBVIOUS
<1> DEFINE none == [tick \in Ticks |-> 0]
           entry == [count |-> 0, resetAt |-> 0]
<1>1. /\ clock = 0 /\ rate = [key \in Limiters |-> entry]
      /\ admitted = [key \in Limiters |-> none]
    BY DEF Init, ConversationInit, Ticks
<1>2. clock \in Ticks
    BY <1>1, ConversationAssumption DEF Ticks
<1>3. /\ DOMAIN entry = {"count", "resetAt"} /\ entry.count = 0 /\ entry.resetAt = 0
      /\ none \in [Ticks -> Nat] /\ \A t \in Ticks : none[t] = 0
    OBVIOUS
<1> HIDE DEF none, entry
<1>4. ASSUME NEW T \in SUBSET Ticks
      PROVE  SumFunctionOnSet(none, T) = 0
    <2>1. \A t \in T : none[t] = 0
        BY <1>3
    <2>2. IsFiniteSet(T)
        BY TicksFinite, FS_Subset
    <2> QED BY <2>1, <2>2, SumOfZeros
<1>5. /\ Since(entry) \in SUBSET Ticks /\ Before(entry) \in SUBSET Ticks
      /\ \A start : PeriodFrom(start) \in SUBSET Ticks
    BY DEF Since, Before, PeriodFrom
<1>6. ASSUME NEW limit \in Nat
      PROVE  EntryInv(entry, none, clock, limit)
    <2>1. /\ SumFunctionOnSet(none, Since(entry)) = 0
          /\ SumFunctionOnSet(none, Before(entry)) = 0
          /\ \A start : SumFunctionOnSet(none, PeriodFrom(start)) = 0
        BY <1>4, <1>5
    <2> QED BY <1>3, <2>1 DEF EntryInv
<1> QED BY <1>1, <1>2, <1>6, Limits DEF RateInv

\* No period of a window's length sees more than twice a limiter's limit, for any
\* limits, window and instants: the limits are at least one.
THEOREM SpecRateKept == Spec => []RateKept
<1>1. Init => RateInv
    BY InitRateInv
<1>2. Shape /\ RateInv /\ [Next]_vars => Shape' /\ RateInv'
    BY RateStepInv, MessagesFrame
<1>3. RateInv => RateKept
    <2> SUFFICES ASSUME RateInv, NEW key \in Limiters, NEW start \in 0..MaxClock
                 PROVE  SumFunctionOnSet(admitted[key], {t \in DOMAIN admitted[key] :
                            t \in start .. start + Window - 1}) <= 2 * LimitOf(key)
        BY DEF RateKept
    <2>1. DOMAIN admitted[key] = Ticks
        BY DEF RateInv, EntryInv
    <2>2. {t \in DOMAIN admitted[key] : t \in start .. start + Window - 1} = PeriodFrom(start)
        BY <2>1 DEF PeriodFrom
    <2> QED BY <2>2 DEF RateInv, EntryInv, Ticks
<1> QED BY InitShape, <1>1, <1>2, <1>3, PTL DEF Spec
-----------------------------------------------------------------------------
(***************************************************************************)
(* Types and bounds                                                        *)
(***************************************************************************)
\* What a slot may hold in the workload of this behaviour.
Served(op) ==
    \/ op \in workload.ops \cup {"none", "READ"}
    \/ Serves("TAB") /\ op \in {"LOGIN", "REFRESH", "LOGOUT"}

OpsServed == \A r \in Requests : Served(req[r].op)

\* A step gives a slot its old operation, none, or one that is served.
Keeps(r) == req'[r].op = req[r].op \/ Served(req'[r].op)

LEMMA SlotKeeps ==
    ASSUME Shape, NEW r \in Requests,
           \/ \E op, pc, who, row, seen : Served(op) /\ Starts(r, op, pc, who, row, seen)
           \/ \E pc : Goto(r, pc)
           \/ \E pc, token : Answers(r, pc, token)
           \/ Ends(r)
           \/ UNCHANGED req
    PROVE  \A other \in Requests : Keeps(other)
<1>1. CASE \E op, pc, who, row, seen : Served(op) /\ Starts(r, op, pc, who, row, seen)
    BY <1>1 DEF Keeps, Starts, Shape
<1>2. CASE \E pc : Goto(r, pc)
    BY <1>2 DEF Keeps, Goto, Shape, CallShape, Idle
<1>3. CASE Ends(r)
    BY <1>3 DEF Keeps, Ends, Shape, Idle, Served
<1>4. CASE \E pc, token : Answers(r, pc, token)
    <2>1. PICK pc, token : Answers(r, pc, token)
        BY <1>4
    <2>2. \A other \in Requests \ {r} : req'[other] = req[other]
        BY <2>1, AnswersSlot
    <2>3. req'[r] = Idle \/ req'[r].op = req[r].op
        BY <2>1, AnswersSlot
    <2> QED BY <2>2, <2>3 DEF Keeps, Served, Idle
<1> QED BY <1>1, <1>2, <1>3, <1>4 DEF Keeps

LEMMA OpsServedStep ==
    ASSUME Shape, OpsServed, [Next]_vars
    PROVE  OpsServed'
<1>1. UNCHANGED workload /\ Shape'
    BY PartStep
<1>2. ASSUME \A r \in Requests : Keeps(r)
      PROVE  OpsServed'
    BY <1>1, <1>2 DEF OpsServed, Keeps, Served, Serves
<1>3. CASE Rests
    BY <1>2, <1>3 DEF Rests, Keeps, Served, Idle
<1> USE DEF Begins, TabStarts, Served
<1>4. ASSUME NEW r \in Requests,
             \/ BeginLogin(r) \/ BeginRefresh(r) \/ BeginModerate(r) \/ BeginModerateStaff(r)
             \/ BeginRevoke(r) \/ BeginReset(r) \/ BeginConnect(r)
      PROVE  OpsServed'
    <2>1. \E op, pc, who, row, seen : Served(op) /\ Starts(r, op, pc, who, row, seen)
        BY <1>4 DEF BeginLogin, BeginRefresh, BeginModerate, BeginModerateStaff, BeginRevoke, BeginReset,
                    BeginConnect, Serves
    <2> QED BY <1>2, <2>1, SlotKeeps
<1>5. ASSUME NEW r \in Requests, SessionsStep(r)
      PROVE  OpsServed'
    <2>1. (\E pc : Goto(r, pc)) \/ (\E pc, token : Answers(r, pc, token)) \/ Ends(r)
        BY <1>5 DEF SessionsStep, DeleteToken, IssueTokens, RevokeSessions, DisconnectUser, JoinUserRoom
    <2> QED BY <1>2, <2>1, SlotKeeps
<1>6. ASSUME NEW r \in Requests, NEW t \in Tabs, Bootstrap(r, t) \/ SubmitLogin(r, t) \/ ClickLogout(r, t)
      PROVE  OpsServed'
    <2>1. \E op, pc, who, row, seen : Served(op) /\ Starts(r, op, pc, who, row, seen)
        BY <1>6 DEF Bootstrap, SubmitLogin, ClickLogout
    <2> QED BY <1>2, <2>1, SlotKeeps
<1>7. ASSUME NEW t \in Tabs, Leave(t)
      PROVE  OpsServed'
    <2>1. \A r \in Requests : req'[r] = req[r] \/ req'[r] = Idle \/ req'[r] = [req[r] EXCEPT !.who = "nobody"]
        BY <1>7 DEF Leave
    <2>2. ASSUME NEW r \in Requests
          PROVE  Keeps(r)
        <3>1. "op" \in DOMAIN req[r]
            BY DEF Shape, CallShape, Idle
        <3>2. req'[r].op = req[r].op \/ req'[r] = Idle
            BY <2>1, <3>1
        <3> QED BY <3>2 DEF Keeps, Idle
    <2> QED BY <1>2, <2>2
<1>8. ASSUME NEW r \in Requests, BrowserStep(r)
      PROVE  OpsServed'
    <2>1. CASE TakeAnswer(r)
        <3>1. req[r].op \in {"LOGIN", "REFRESH", "LOGOUT"}
            BY <2>1 DEF TakeAnswer, Shape, CallShape
        <3>2. Goto(r, "me") \/ Ends(r)
            BY <2>1, <3>1 DEF TakeAnswer
        <3> QED BY <1>2, <3>2, SlotKeeps
    <2>2. CASE ForgetToken(r) \/ TakeMe(r) \/ TakeRefusal(r)
        <3>1. Answers(r, "answered", 0) \/ Ends(r)
            BY <2>2 DEF ForgetToken, TakeMe, TakeRefusal
        <3> QED BY <1>2, <3>1, SlotKeeps
    <2> QED BY <1>8, <2>1, <2>2 DEF BrowserStep
<1>9. CASE UNCHANGED req
    BY <1>1, <1>9 DEF OpsServed, Serves
<1>10. CASE AccountNext
    <2>1. Logout \/ ForgotPassword \/ (\E s \in Sockets : ReceiveEvent(s) \/ RequireActiveUser(s)) => UNCHANGED req
        BY DEF Logout, ForgotPassword, ReceiveEvent, RequireActiveUser
    <2> QED BY <1>4, <1>5, <1>6, <1>7, <1>8, <1>9, <1>10, <2>1 DEF AccountNext, SessionsBegin, BrowserBegin
<1>11. CASE FormsNext
    <2>1. ASSUME NEW r \in Requests, NEW op, PressSave(r, op) \/ PressEdit(r, op)
          PROVE  OpsServed'
        <3>1. \E pc, who, row, seen : Served(op) /\ Starts(r, op, pc, who, row, seen)
            BY <2>1 DEF PressSave, PressEdit, Serves
        <3> QED BY <1>2, <3>1, SlotKeeps
    <2>2. ASSUME NEW r \in Requests, BeginBid(r) \/ Hire(r)
          PROVE  OpsServed'
        <3>1. \E op, pc, who, row, seen : Served(op) /\ Starts(r, op, pc, who, row, seen)
            BY <2>2 DEF BeginBid, Hire, Serves
        <3> QED BY <1>2, <3>1, SlotKeeps
    <2>3. ASSUME NEW r \in Requests, CreateProject(r)
          PROVE  OpsServed'
        BY <1>2, <2>3 DEF CreateProject, Keeps, Shape, CallShape, Idle
    <2>4. ASSUME NEW r \in Requests, FormsStep(r), ~CreateProject(r)
          PROVE  OpsServed'
        <3>1. (\E pc : Goto(r, pc)) \/ Ends(r)
            BY <2>4 DEF FormsStep, RememberProject, FindProject, CountPending, WriteProject, BeginPublish,
                        OpenProject, InsertBid, RecordHire, AfterSave
        <3> QED BY <1>2, <3>1, SlotKeeps
    <2>5. (\E b \in Bidders : WithdrawBid(b)) => UNCHANGED req
        BY DEF WithdrawBid
    <2> QED BY <1>9, <1>11, <2>1, <2>2, <2>3, <2>4, <2>5 DEF FormsNext, FormsBegin
<1>12. CASE MessagesNext
    <2>1. ASSUME NEW r \in Requests, NEW op, NEW who,
                 BeginRead(r, who) \/ BeginSend(r, op, who) \/ BeginOpen(r) \/ ShowList(r)
          PROVE  OpsServed'
        <3>1. (\E o, pc, w, row, seen : Served(o) /\ Starts(r, o, pc, w, row, seen)) \/ UNCHANGED req
            BY <2>1 DEF BeginRead, BeginSend, BeginOpen, ShowList, Serves
        <3> QED BY <1>2, <3>1, SlotKeeps
    <2>2. ASSUME NEW r \in Requests, Store(r) \/ LookupNote(r)
          PROVE  OpsServed'
        BY <1>2, <2>2 DEF Store, StoreMessage, LookupNote, Keeps, Shape, CallShape, Idle
    <2>3. ASSUME NEW r \in Requests,
                 CreateConversation(r) \/ EndSend(r) \/ MarkMessagesRead(r) \/ MarkNotesRead(r) \/ Emit(r)
          PROVE  OpsServed'
        <3>1. (\E pc : Goto(r, pc)) \/ Ends(r)
            BY <2>3 DEF CreateConversation, EndSend, Announce, MarkMessagesRead, MarkNotesRead, Emit
        <3> QED BY <1>2, <3>1, SlotKeeps
    <2>4. \/ MarketMoves \/ Typing \/ Tick \/ ReadNotes \/ OpenPanel \/ ListMessages \/ JoinRoom \/ DropSocket
          \/ \E a \in arrivals : Receive(a)
          => UNCHANGED req
        BY DEF MarketMoves, Typing, Tick, ReadNotes, OpenPanel, ListMessages, JoinRoom, DropSocket, Receive
    <2> QED BY <1>9, <1>12, <2>1, <2>2, <2>3, <2>4 DEF MessagesNext, ConversationBegin, ConversationStep, PanelNext
<1>13. CASE RatingNext
    <2>1. ASSUME NEW r \in Requests, NEW op, NEW v, BeginReview(r, op, v)
          PROVE  OpsServed'
        <3>1. \E pc, who, row, seen : Served(op) /\ Starts(r, op, pc, who, row, seen)
            BY <2>1 DEF BeginReview, Serves
        <3> QED BY <1>2, <3>1, SlotKeeps
    <2>2. ASSUME NEW r \in Requests, RatingStep(r)
          PROVE  OpsServed'
        <3>1. \A o \in Requests : DOMAIN req[o] = DOMAIN Idle
            BY DEF Shape, CallShape
        <3>2. \A o \in Requests : Keeps(o)
            BY <2>2, <3>1 DEF RatingStep, ReadAggregate, CommitReview, Ends, Keeps, Shape, Idle
        <3> QED BY <1>2, <3>2
    <2> QED BY <1>13, <2>1, <2>2 DEF RatingNext, RatingBegin
<1>14. CASE SettingsNext
    <2>1. ASSUME NEW r \in Requests, NEW i, BeginPatch(r, i) \/ BeginGate(r, i)
          PROVE  OpsServed'
        <3>1. \E op, pc, who, row, seen : Served(op) /\ Starts(r, op, pc, who, row, seen)
            BY <2>1 DEF BeginPatch, BeginGate, Serves
        <3> QED BY <1>2, <3>1, SlotKeeps
    <2>2. ASSUME NEW r \in Requests, LoadSettings(r)
          PROVE  OpsServed'
        BY <1>2, <2>2 DEF LoadSettings, Keeps, Shape, CallShape, Idle
    <2>3. ASSUME NEW r \in Requests, Upsert(r) \/ FillCache(r) \/ Decide(r)
          PROVE  OpsServed'
        <3>1. (\E pc : Goto(r, pc)) \/ Ends(r)
            BY <2>3 DEF Upsert, FillCache, Decide
        <3> QED BY <1>2, <3>1, SlotKeeps
    <2>4. (\E i \in Instances : Age(i)) => UNCHANGED req
        BY DEF Age
    <2> QED BY <1>9, <1>14, <2>1, <2>2, <2>3, <2>4 DEF SettingsNext, SettingsBegin, SettingsStep
<1>15. CASE BroadcastNext
    <2>1. ASSUME NEW r \in Requests, BeginBroadcast(r)
          PROVE  OpsServed'
        <3>1. \E op, pc, who, row, seen : Served(op) /\ Starts(r, op, pc, who, row, seen)
            BY <2>1 DEF BeginBroadcast, Serves
        <3> QED BY <1>2, <3>1, SlotKeeps
    <2>2. ASSUME NEW r \in Requests, BroadcastStep(r)
          PROVE  OpsServed'
        BY <1>2, <2>2 DEF BroadcastStep, ResolveRecipients, CreateBroadcast, FindBroadcast, SendBatch, Goto, Ends, Keeps,
                          Shape, CallShape, Idle
    <2> QED BY <1>15, <2>1, <2>2 DEF BroadcastNext
<1>16. CASE UploadsNext
    <2>1. ASSUME NEW r \in Requests,
                 BeginAddImage(r) \/ BeginRemoveImage(r) \/ BeginRemoveItem(r) \/ BeginPhoto(r)
          PROVE  OpsServed'
        <3>1. \E op, pc, who, row, seen : Served(op) /\ Starts(r, op, pc, who, row, seen)
            BY <2>1 DEF BeginAddImage, BeginRemoveImage, BeginRemoveItem, BeginPhoto, Serves
        <3> QED BY <1>2, <3>1, SlotKeeps
    <2>2. ASSUME NEW r \in Requests, Upload(r) \/ DeleteFile(r)
          PROVE  OpsServed'
        BY <1>2, <2>2 DEF Upload, DeleteFile, Ends, Keeps, Shape, CallShape, Idle
    <2>3. ASSUME NEW r \in Requests,
                 InsertImage(r) \/ DeleteImage(r) \/ DeleteItem(r) \/ DeleteOldPhoto(r) \/ UpdatePhoto(r)
          PROVE  OpsServed'
        <3>1. (\E pc : Goto(r, pc)) \/ Ends(r)
            BY <2>3 DEF InsertImage, DeleteImage, DeleteItem, DeleteOldPhoto, UpdatePhoto
        <3> QED BY <1>2, <3>1, SlotKeeps
    <2> QED BY <1>16, <2>1, <2>2, <2>3 DEF UploadsNext, UploadsBegin, UploadsStep
<1> QED BY <1>3, <1>10, <1>11, <1>12, <1>13, <1>14, <1>15, <1>16, PartStep DEF OfOnePart

-----------------------------------------------------------------------------
\* Only creating a project adds one, and it stops at the bound.
LEMMA RowsBounded ==
    ASSUME Shape, FormsTyped, Len(projects) <= MaxRows, [Next]_vars
    PROVE  Len(projects') <= MaxRows
<1> USE ProjectRows
<1>1. CASE UNCHANGED projects
    BY <1>1
<1>2. ASSUME NEW r \in Requests, CreateProject(r)
      PROVE  Len(projects') <= MaxRows
    <2>1. /\ Len(projects) < MaxRows /\ req[r].seen \subseteq Terms
          /\ projects' = Append(projects, [status |-> "DRAFT", terms |-> req[r].seen])
        BY <1>2 DEF CreateProject, FormsTyped, FormCall, Shape, CallShape, Edits, Publishes
    <2>2. [status |-> "DRAFT", terms |-> req[r].seen] \in ProjectRow
        BY <2>1 DEF ProjectRow
    <2>3. Len(projects') = Len(projects) + 1
        BY <2>1, <2>2, RowAppended
    <2> QED BY <2>1, <2>3, FormsAssumption
<1>3. ASSUME NEW i, NEW row, projects' = [projects EXCEPT ![i] = row]
      PROVE  Len(projects') <= MaxRows
    <2>1. projects \in Seq(ProjectRow)
        BY DEF FormsTyped
    <2>2. DOMAIN projects' = DOMAIN projects /\ Len(projects') = Len(projects)
        BY <1>3, <2>1
    <2> QED BY <2>2
<1>4. ASSUME NEW r \in Requests, FormsStep(r), ~CreateProject(r)
      PROVE  Len(projects') <= MaxRows
    <2>1. UNCHANGED projects \/ \E i, row : projects' = [projects EXCEPT ![i] = row]
        BY <1>4 DEF FormsStep, RememberProject, FindProject, CountPending, WriteProject, BeginPublish,
                    OpenProject, InsertBid, RecordHire, formVars
    <2> QED BY <1>1, <1>3, <2>1
<1>5. FormsBegin \/ UNCHANGED formVars => UNCHANGED projects
    BY DEF FormsBegin, PressSave, PressEdit, BeginBid, Hire, WithdrawBid, formVars
<1> QED BY <1>1, <1>2, <1>4, <1>5, FormsFrame DEF FormsNext

-----------------------------------------------------------------------------
\* An average is taken over reviewers.
CachedTyped ==
    /\ cached \subseteq Reviewers
    /\ \A r \in Requests : Committing(r) => req[r].seen \subseteq Reviewers

LEMMA CachedTypedStep ==
    ASSUME Shape, RatingInv, CachedTyped, [Next]_vars
    PROVE  CachedTyped'
<1> USE DEF CachedTyped, Committing
<1>1. CASE UNCHANGED ratingVars /\ Untouched(ReviewOps)
    <2>1. \A r \in Requests : req'[r].op \in ReviewOps => req'[r] = req[r]
        BY <1>1 DEF Untouched, Idle, ReviewOps
    <2> QED BY <1>1, <2>1 DEF ratingVars
<1>2. ASSUME NEW r \in Requests, NEW op \in ReviewOps, NEW v \in Reviewers, BeginReview(r, op, v)
      PROVE  CachedTyped'
    <2>1. /\ req'[r].pc = "aggregate" /\ \A other \in Requests \ {r} : req'[other] = req[other]
          /\ UNCHANGED cached
        BY <1>2 DEF BeginReview, Starts, Shape, ratingVars
    <2> QED BY <2>1
<1>3. ASSUME NEW r \in Requests, ReadAggregate(r)
      PROVE  CachedTyped'
    <2>1. /\ \A other \in Requests \ {r} : req'[other] = req[other]
          /\ req'[r] = Idle \/ req'[r].seen = Aggregate(req[r])
          /\ UNCHANGED cached
        BY <1>3 DEF ReadAggregate, Ends, Shape, CallShape, Idle, ratingVars
    <2>2. req[r].who \in Reviewers
        BY <1>3 DEF ReadAggregate, RatingInv
    <2>3. Aggregate(req[r]) \subseteq Reviewers
        BY <2>2 DEF Aggregate, VisibleReviews
    <2> QED BY <2>1, <2>3 DEF Idle, ReviewOps
<1>4. ASSUME NEW r \in Requests, CommitReview(r)
      PROVE  CachedTyped'
    <2>1. /\ cached' = req[r].seen /\ Committing(r)
          /\ \A other \in Requests : req'[other] = Idle \/ req'[other] = req[other]
                                      \/ (req[other].pc = "commit" /\ req'[other] = [req[other] EXCEPT !.row = 1])
        BY <1>4 DEF CommitReview
    <2>2. ASSUME NEW other \in Requests, Committing(other)'
          PROVE  req'[other].seen \subseteq Reviewers
        <3>1. CASE req'[other] = Idle
            BY <2>2, <3>1 DEF Idle, ReviewOps
        <3>2. CASE req'[other] = req[other]
            BY <2>2, <3>2
        <3>3. CASE req[other].pc = "commit" /\ req'[other] = [req[other] EXCEPT !.row = 1]
            <4>1. {"op", "pc", "seen"} \subseteq DOMAIN req[other]
                BY DEF Shape, CallShape, Idle
            <4>2. req'[other].op = req[other].op /\ req'[other].seen = req[other].seen
                BY <3>3, <4>1
            <4> QED BY <2>2, <3>3, <4>2
        <3> QED BY <2>1, <3>1, <3>2, <3>3
    <2> QED BY <2>1, <2>2
<1> QED BY <1>1, <1>2, <1>3, <1>4, RatingFrame DEF RatingNext, RatingBegin, RatingStep

-----------------------------------------------------------------------------
SettingsTyped ==
    /\ stored \in BOOLEAN
    /\ cache \in [Instances -> BOOLEAN] /\ fresh \in [Instances -> BOOLEAN]

LEMMA SettingsTypedStep ==
    ASSUME Shape, SettingsTyped, [Next]_vars
    PROVE  SettingsTyped'
<1>1. CASE UNCHANGED settingVars
    BY <1>1 DEF settingVars, SettingsTyped
<1>2. ASSUME NEW r \in Requests, NEW i \in Instances, BeginPatch(r, i) \/ BeginGate(r, i)
      PROVE  SettingsTyped'
    BY <1>2 DEF BeginPatch, BeginGate, settingVars, SettingsTyped
<1>3. ASSUME NEW r \in Requests, SettingsStep(r)
      PROVE  SettingsTyped'
    <2>1. stored' \in BOOLEAN
        <3>1. UNCHANGED stored \/ stored' = (TRUE \in req[r].seen)
            BY <1>3 DEF SettingsStep, Upsert, LoadSettings, FillCache, Decide, settingVars
        <3>2. CASE UNCHANGED stored
            BY <3>2 DEF SettingsTyped
        <3>3. CASE stored' = (TRUE \in req[r].seen)
            <4>1. (TRUE \in req[r].seen) \in BOOLEAN
                OBVIOUS
            <4> QED BY <3>3, <4>1
        <3> QED BY <3>1, <3>2, <3>3
    <2>2. \/ UNCHANGED <<cache, fresh>>
          \/ \E i : /\ cache' = [cache EXCEPT ![i] = TRUE \in req[r].seen]
                    /\ fresh' = [fresh EXCEPT ![i] = TRUE]
        BY <1>3 DEF SettingsStep, Upsert, LoadSettings, FillCache, Decide, settingVars
    <2>3. (TRUE \in req[r].seen) \in BOOLEAN
        OBVIOUS
    <2> QED BY <2>1, <2>2, <2>3 DEF SettingsTyped
<1>4. ASSUME NEW i \in Instances, Age(i)
      PROVE  SettingsTyped'
    BY <1>4 DEF Age, SettingsTyped
<1> QED BY <1>1, <1>2, <1>3, <1>4, PartStep
        DEF OfOnePart, OnlyAccount, OnlyForms, OnlyMessaging, OnlyRating, OnlyBroadcasts, OnlyUploads,
            Rests, SettingsNext, SettingsBegin

-----------------------------------------------------------------------------
(* Messages and the panel *)
Announcers == {r \in Requests : Announcing(r)}

ConversationBounds ==
    /\ opened \in BOOLEAN /\ late \in 0..Len(messages)
    /\ Within(Len(messages), Sending, MaxMessages)
    /\ Within(Len(notes), Announcers, Len(messages))

LEMMA MessageRows ==
    ASSUME MessagesTyped
    PROVE  /\ Len(messages) \in Nat /\ DOMAIN messages = 1..Len(messages)
           /\ Len(notes) \in Nat /\ DOMAIN notes = 1..Len(notes)
BY LenProperties DEF MessagesTyped

\* Nothing is stored, and no call is added that may store or announce.
LEMMA BoundsStay ==
    ASSUME ConversationBounds, Len(messages') = Len(messages), Len(notes') = Len(notes),
           opened' \in BOOLEAN, UNCHANGED late,
           Len(messages) \in Nat,
           Sending' \subseteq Sending, Announcers' \subseteq Announcers
    PROVE  ConversationBounds'
<1>1. Sending \in SUBSET Requests /\ Announcers \in SUBSET Requests
    BY DEF Sending, Announcers
<1>2. /\ Within(Len(messages), Sending', MaxMessages)
      /\ Within(Len(notes), Announcers', Len(messages))
    BY <1>1, WithinStays, ConversationAssumption DEF ConversationBounds
<1> QED BY <1>2 DEF ConversationBounds

\* Marking rows as read changes the length of no table.
LEMMA SameLength ==
    ASSUME NEW S, NEW s \in Seq(S), NEW T, NEW t \in Seq(T), DOMAIN t = DOMAIN s
    PROVE  Len(t) = Len(s)
<1>1. Len(s) \in Nat /\ Len(t) \in Nat /\ DOMAIN s = 1..Len(s) /\ DOMAIN t = 1..Len(t)
    BY LenProperties
<1> QED BY <1>1

LEMMA ConversationBoundsStep ==
    ASSUME Shape, AnnounceInv, AnnounceInv', ConversationBounds, [Next]_vars
    PROVE  ConversationBounds'
<1> USE ConversationAssumption
<1>1. /\ Shape' /\ MessagesTyped /\ MessagesTyped'
      /\ Len(messages) \in Nat /\ Len(notes) \in Nat
    BY MessagesFrame, MessageRows DEF AnnounceInv
<1>2. /\ Sending \in SUBSET Requests /\ Announcers \in SUBSET Requests
      /\ Sending' \in SUBSET Requests /\ Announcers' \in SUBSET Requests
    BY DEF Sending, Announcers
<1>3. opened' \in BOOLEAN
    <2>1. opened' = TRUE \/ UNCHANGED opened
        BY MessagesFrame DEF MessagesNext, ConversationBegin, BeginRead, BeginSend, BeginOpen, MarketMoves, Typing,
             Tick, ReadNotes, PanelNext, OpenPanel, ListMessages, ShowList, JoinRoom, DropSocket, Receive,
             ConversationStep, CreateConversation, LookupNote, MarkMessagesRead, MarkNotesRead,
             Store, StoreMessage, EndSend, Announce, Emit, conversationVars, messagingVars
    <2> QED BY <2>1 DEF ConversationBounds
\* No call may store or announce that could not before.
<1>4. ASSUME UNCHANGED late, DOMAIN messages' = DOMAIN messages, DOMAIN notes' = DOMAIN notes,
             \A r \in Requests :
                 \/ req'[r].pc = req[r].pc
                 \/ req'[r].pc \notin {"store", "lookup", "announce"}
                 \/ req[r].pc = "lookup" /\ req'[r].pc = "announce"
      PROVE  ConversationBounds'
    <2>1. Len(messages') = Len(messages) /\ Len(notes') = Len(notes)
        BY <1>1, <1>4, SameLength DEF MessagesTyped
    <2>2. Sending' \subseteq Sending
        BY <1>4 DEF Sending
    <2>3. Announcers' \subseteq Announcers
        BY <1>4 DEF Announcers, Announcing
    <2> QED BY <1>1, <1>3, <1>4, <2>1, <2>2, <2>3, BoundsStay
<1>5. CASE UNCHANGED messagingVars /\ Untouched(MessageOps)
    <2>1. UNCHANGED <<late, messages, notes>>
        BY <1>5 DEF messagingVars, conversationVars
    <2>2. \A r \in Requests : req'[r].op \notin MessageOps => req'[r].pc \notin {"store", "lookup", "announce"}
        BY <1>1 DEF Shape, CallShape, MessageOps
    <2>3. \A r \in Requests : req'[r] = req[r] \/ req'[r].op \notin MessageOps \/ req'[r] = Idle
        BY <1>5 DEF Untouched
    <2> QED BY <1>4, <2>1, <2>2, <2>3 DEF Idle
<1>6. ASSUME NEW r \in Requests, NEW op \in Sends, NEW who, BeginSend(r, op, who)
      PROVE  ConversationBounds'
    <2>1. UNCHANGED <<late, messages, notes>> /\ Len(messages) + Cardinality(Sending) < MaxMessages
        BY <1>6 DEF BeginSend
    <2>2. UNCHANGED req \/ Starts(r, op, "store", who, 0, {})
        BY <1>6 DEF BeginSend
    <2>3. /\ \A other \in Requests \ {r} : req'[other] = req[other]
          /\ req'[r] = req[r] \/ req'[r].pc = "store"
        BY <2>2 DEF Starts, Shape
    <2>4. Sending' \in SUBSET (Sending \cup {r})
        BY <2>3 DEF Sending
    <2>5. Announcers' \in SUBSET Announcers
        BY <2>3 DEF Announcers, Announcing
    <2>6. Within(Len(messages), Sending', MaxMessages)
        BY <1>1, <1>2, <2>1, <2>4, WithinBegins
    <2>7. Within(Len(notes), Announcers', Len(messages))
        BY <1>1, <1>2, <2>5, WithinStays DEF ConversationBounds
    <2> QED BY <1>3, <2>1, <2>6, <2>7 DEF ConversationBounds
<1>7. ASSUME NEW r \in Requests, Store(r)
      PROVE  ConversationBounds'
    <2>1. /\ req[r].pc = "store" /\ UNCHANGED notes
          /\ late' \in {late, late + 1}
          /\ messages' = Append(messages, [from |-> req[r].who, read |-> FALSE])
          /\ req' = [req EXCEPT ![r].pc = "lookup", ![r].row = Len(messages')]
        BY <1>7 DEF Store, StoreMessage
    <2>2. Len(messages') = Len(messages) + 1
        <3>1. [from |-> req[r].who, read |-> FALSE] \in MessageRow
            BY <1>1, <2>1 DEF MessagesTyped, MessageRow, Shape, CallShape
        <3> QED BY <1>1, <2>1, <3>1, AppendProperties DEF MessagesTyped
    <2>3. /\ \A other \in Requests \ {r} : req'[other] = req[other]
          /\ req'[r].pc = "lookup"
        BY <2>1 DEF Shape, CallShape, Idle
    <2>4. r \in Sending /\ Sending' \in SUBSET (Sending \ {r})
        BY <2>1, <2>3 DEF Sending
    <2>5. Announcers' \in SUBSET (Announcers \cup {r})
        BY <2>3 DEF Announcers, Announcing
    <2>6. Within(Len(messages) + 1, Sending', MaxMessages)
        BY <1>1, <1>2, <2>4, WithinAdds DEF ConversationBounds
    <2>7. Within(Len(notes), Announcers', Len(messages) + 1)
        <3>1. Cardinality(Announcers) \in Nat
            BY <1>2, FS_Subset, FS_CardinalityType, StoreAssumption
        <3>2. Len(notes) + Cardinality(Announcers) < Len(messages) + 1
            BY <1>1, <3>1 DEF ConversationBounds, Within
        <3>3. Len(messages) + 1 \in Nat /\ Announcers \subseteq Announcers
            BY <1>1
        <3> QED BY ONLY <1>1, <1>2, <2>5, <3>2, <3>3, WithinBegins, r \in Requests
    <2>8. late' \in 0..Len(messages')
        BY <1>1, <2>1, <2>2 DEF ConversationBounds
    <2> QED BY <1>3, <2>1, <2>2, <2>6, <2>7, <2>8 DEF ConversationBounds
<1>8. ASSUME NEW r \in Requests, Announce(r)
      PROVE  ConversationBounds'
    <2>1. /\ req[r].pc = "announce" /\ UNCHANGED <<late, messages>>
          /\ UNCHANGED notes \/ notes' = Append(notes, [to |-> Recipient(r), read |-> FALSE])
          /\ Goto(r, "emit") \/ Ends(r)
        BY <1>8 DEF Announce, Recipient
    <2>2. /\ \A other \in Requests \ {r} : req'[other] = req[other]
          /\ req'[r].pc \in {"emit", "idle"}
        BY <2>1, GoesOrEnds DEF Idle
    <2>3. r \in Announcers /\ Announcers' \in SUBSET (Announcers \ {r}) /\ Sending' \in SUBSET Sending
        BY <2>1, <2>2 DEF Announcers, Announcing, Sending
    <2>4. Within(Len(messages), Sending', MaxMessages)
        BY <1>1, <1>2, <2>3, WithinStays DEF ConversationBounds
    <2>5. Within(Len(notes'), Announcers', Len(messages))
        <3>1. CASE UNCHANGED notes
            <4>1. Announcers' \in SUBSET Announcers
                BY <2>3
            <4> QED BY <1>1, <1>2, <3>1, <4>1, WithinStays DEF ConversationBounds
        <3>2. CASE notes' = Append(notes, [to |-> Recipient(r), read |-> FALSE])
            <4>1. Recipient(r) \in Roles
                BY <1>1, <2>1, TwoRoles DEF Recipient, MessagesTyped, Shape, CallShape
            <4>2. [to |-> Recipient(r), read |-> FALSE] \in NoteRow
                BY <4>1 DEF NoteRow
            <4>3. Len(notes') = Len(notes) + 1
                BY <1>1, <3>2, <4>2, AppendProperties DEF MessagesTyped
            <4>4. Within(Len(notes) + 1, Announcers', Len(messages))
                BY <1>1, <1>2, <2>3, WithinAdds DEF ConversationBounds
            <4> QED BY <4>3, <4>4
        <3> QED BY <2>1, <3>1, <3>2
    <2> QED BY <1>3, <2>1, <2>4, <2>5 DEF ConversationBounds
<1>9. CASE \/ MarketMoves \/ Typing \/ Tick \/ ReadNotes \/ OpenPanel \/ ListMessages \/ JoinRoom \/ DropSocket
           \/ \E a \in arrivals : Receive(a)
    <2>1. UNCHANGED <<req, late, messages>> /\ DOMAIN notes' = DOMAIN notes
        BY <1>9 DEF MarketMoves, Typing, Tick, ReadNotes, NotesRead, OpenPanel, ListMessages, JoinRoom, DropSocket,
                    Receive, conversationVars
    <2> QED BY <1>4, <2>1
<1>10. ASSUME NEW r \in Requests, NEW who, BeginRead(r, who) \/ BeginOpen(r) \/ ShowList(r)
       PROVE  ConversationBounds'
    <2>1. UNCHANGED <<late, messages, notes>>
        BY <1>10 DEF BeginRead, BeginOpen, ShowList, conversationVars
    <2>2. \E op, w, pc : Starts(r, op, pc, w, 0, {}) /\ pc \in {"messages", "create"}
        BY <1>10 DEF BeginRead, BeginOpen, ShowList
    <2>3. \A other \in Requests : req'[other] = req[other] \/ req'[other].pc \in {"messages", "create"}
        BY <2>2 DEF Starts, Shape
    <2> QED BY <1>4, <2>1, <2>3
<1>11. ASSUME NEW r \in Requests, CreateConversation(r) \/ Emit(r) \/ MarkMessagesRead(r) \/ MarkNotesRead(r)
       PROVE  ConversationBounds'
    <2>1. /\ UNCHANGED late /\ DOMAIN messages' = DOMAIN messages /\ DOMAIN notes' = DOMAIN notes
          /\ Goto(r, "notes") \/ Ends(r)
        BY <1>11 DEF CreateConversation, Emit, MarkMessagesRead, MarkNotesRead, NotesRead, conversationVars
    <2>2. \A other \in Requests : req'[other] = req[other] \/ req'[other].pc \in {"notes", "idle"}
        BY <2>1, GoesOrEnds DEF Idle
    <2> QED BY <1>4, <2>1, <2>2
<1>12. ASSUME NEW r \in Requests, LookupNote(r)
       PROVE  ConversationBounds'
    <2>1. UNCHANGED <<late, messages, notes>> /\ req[r].pc = "lookup"
        BY <1>12 DEF LookupNote, conversationVars
    <2>2. \A other \in Requests : req'[other] = req[other] \/ (other = r /\ req'[other].pc = "announce")
        BY <1>12 DEF LookupNote, Shape, CallShape, Idle
    <2> QED BY <1>4, <2>1, <2>2
<1> QED BY <1>5, <1>6, <1>7, <1>8, <1>9, <1>10, <1>11, <1>12, MessagesFrame
        DEF MessagesNext, ConversationBegin, ConversationStep, EndSend, PanelNext

-----------------------------------------------------------------------------
(***************************************************************************)
(* The panel: a message that was posted is on no other way to it           *)
(***************************************************************************)
Panels(D) == [joined : BOOLEAN, list : {"none", "asked", "replied", "ready"},
              reply : SUBSET D, view : [1..MaxMessages -> {0, 1}]]

Arrivals(D) == [kind : {"event", "ack", "answer"}, row : D]

\* A call that has stored its message.
Holds(r) == req[r].op \in Sends /\ req[r].pc \in {"lookup", "announce", "emit"}

PanelTyped ==
    /\ panel \in Panels(DOMAIN messages)
    /\ arrivals \subseteq Arrivals(DOMAIN messages) /\ due \subseteq DOMAIN messages

\* Every call has a message of its own.
OwnMessage ==
    \A r \in Requests : Holds(r) =>
        /\ req[r].row \in DOMAIN messages
        /\ \A other \in Requests : Holds(other) /\ req[other].row = req[r].row => other = r

NothingAhead == \A m \in 1..MaxMessages \ DOMAIN messages : panel.view[m] = 0

\* What is being posted is on no way to the panel, and shown only if the list had it.
PostsHidden ==
    \A r \in Requests : Holds(r) /\ req[r].op = "POST" =>
        /\ \A a \in arrivals : a.row # req[r].row
        /\ panel.view[req[r].row] = 0 \/ req[r].row \in panel.reply

\* An answer brings a message that is not shown and that nothing else will bring.
AnswersNew ==
    \A a \in arrivals : a.kind = "answer" =>
        /\ panel.list = "ready" /\ panel.view[a.row] = 0
        /\ \A b \in arrivals : b.row = a.row => b = a
        /\ \A r \in Requests : Holds(r) => req[r].row # a.row

PanelInv == PanelTyped /\ OwnMessage /\ NothingAhead /\ PostsHidden /\ AnswersNew

LEMMA StoredWithin ==
    ASSUME MessagesTyped, ConversationBounds
    PROVE  /\ Len(messages) \in Nat /\ DOMAIN messages = 1..Len(messages)
           /\ DOMAIN messages \subseteq 1..MaxMessages
<1>1. Sending \in SUBSET Requests /\ Len(messages) \in Nat /\ DOMAIN messages = 1..Len(messages)
    BY MessageRows DEF Sending
<1>2. Len(messages) \in 0..MaxMessages
    BY <1>1, WithinRange, ConversationAssumption DEF ConversationBounds
<1> QED BY <1>1, <1>2, ConversationAssumption

\* Nothing happens to the panel, and no call stores a message.
LEMMA PanelStays ==
    ASSUME PanelInv, DOMAIN messages' = DOMAIN messages, UNCHANGED panelVars,
           \A r \in Requests : \/ req'[r] = req[r]
                               \/ ~Holds(r)'
                               \/ Holds(r) /\ req'[r].row = req[r].row /\ req'[r].op = req[r].op
    PROVE  PanelInv'
<1>1. \A r \in Requests : Holds(r)' =>
          Holds(r) /\ req'[r].row = req[r].row /\ req'[r].op = req[r].op
    BY DEF Holds
<1>2. UNCHANGED <<panel, arrivals, due>>
    BY DEF panelVars
<1>3. PanelTyped'
    BY <1>2 DEF PanelInv, PanelTyped
<1>4. OwnMessage'
    BY <1>1 DEF PanelInv, OwnMessage
<1>5. NothingAhead'
    BY <1>2 DEF PanelInv, NothingAhead
<1>6. PostsHidden'
    BY <1>1, <1>2 DEF PanelInv, PostsHidden
<1>7. AnswersNew'
    BY <1>1, <1>2 DEF PanelInv, AnswersNew
<1> QED BY <1>3, <1>4, <1>5, <1>6, <1>7 DEF PanelInv

LEMMA PanelStore ==
    ASSUME Shape, MessagesTyped, MessagesTyped', ConversationBounds, ConversationBounds', PanelInv,
           NEW r \in Requests, Store(r)
    PROVE  PanelInv'
<1> DEFINE n == Len(messages) + 1
<1>1. /\ req[r].pc = "store" /\ UNCHANGED <<panel, arrivals>>
      /\ messages' = Append(messages, [from |-> req[r].who, read |-> FALSE])
      /\ due' \subseteq due \cup {Len(messages')}
      /\ req' = [req EXCEPT ![r].pc = "lookup", ![r].row = Len(messages')]
    BY DEF Store, StoreMessage
<1>2. Len(messages') = n
    <2>1. [from |-> req[r].who, read |-> FALSE] \in MessageRow
        BY <1>1 DEF MessagesTyped, MessageRow, Shape, CallShape
    <2> QED BY <1>1, <2>1, AppendProperties DEF MessagesTyped
<1>3. /\ DOMAIN messages = 1..Len(messages) /\ DOMAIN messages' = 1..n
      /\ Len(messages) \in Nat /\ DOMAIN messages' \subseteq 1..MaxMessages
    <2>1. Len(messages') \in Nat /\ DOMAIN messages' = 1..Len(messages')
        BY LenProperties DEF MessagesTyped
    <2>2. Sending' \in SUBSET Requests
        BY DEF Sending
    <2>3. Len(messages') \in 0..MaxMessages
        BY <2>1, <2>2, WithinRange, ConversationAssumption DEF ConversationBounds
    <2> QED BY <1>2, <2>1, <2>3, StoredWithin, ConversationAssumption
<1>4. n \in DOMAIN messages' \ DOMAIN messages /\ DOMAIN messages \subseteq DOMAIN messages'
      /\ n \in 1..MaxMessages
    BY <1>3
<1>5. /\ ~Holds(r) /\ req'[r].row = n
      /\ \A other \in Requests \ {r} : req'[other] = req[other]
    BY <1>1, <1>2 DEF Holds, Shape, CallShape, Idle
<1> HIDE DEF n
<1>6. PanelTyped'
    BY <1>1, <1>2, <1>4 DEF PanelInv, PanelTyped, Panels, Arrivals
<1>7. \A other \in Requests : Holds(other)' /\ other # r => Holds(other) /\ req'[other] = req[other]
    BY <1>5 DEF Holds
<1>8. OwnMessage'
    BY <1>4, <1>5, <1>7 DEF PanelInv, OwnMessage
<1>9. NothingAhead'
    BY <1>1, <1>4 DEF PanelInv, NothingAhead
<1>10. PostsHidden'
    <2>1. \A a \in arrivals : a.row # n
        BY <1>4 DEF PanelInv, PanelTyped, Arrivals
    <2>2. panel.view[n] = 0
        BY <1>4 DEF PanelInv, NothingAhead
    <2> QED BY <1>1, <1>5, <1>7, <2>1, <2>2 DEF PanelInv, PostsHidden
<1>11. AnswersNew'
    <2>1. \A a \in arrivals : a.row # n
        BY <1>4 DEF PanelInv, PanelTyped, Arrivals
    <2>2. \A a \in arrivals : a.kind = "answer" =>
              \A other \in Requests : Holds(other)' => req'[other].row # a.row
        BY <1>5, <1>7, <2>1 DEF PanelInv, AnswersNew
    <2> QED BY <1>1, <2>2 DEF PanelInv, AnswersNew
<1> QED BY <1>6, <1>8, <1>9, <1>10, <1>11 DEF PanelInv

\* A send ends: what goes to the panel carries its message.
LEMMA PanelPuts ==
    ASSUME Shape, PanelInv, NEW r \in Requests, Holds(r), UNCHANGED <<messages, panel>>,
           NEW kinds \in SUBSET {"event", "ack", "answer"}, Puts(r, kinds),
           "answer" \in kinds => kinds = {"answer"} /\ req[r].op = "POST" /\ MayBeOwn(r),
           req' = [req EXCEPT ![r] = Idle]
    PROVE  PanelInv'
<1> DEFINE m == req[r].row
<1>1. /\ arrivals' = arrivals \cup [kind : kinds, row : {m}]
      /\ due' \subseteq due \cup {m} /\ m \in DOMAIN messages
    BY DEF Puts, PanelInv, OwnMessage
<1>2. \A other \in Requests : Holds(other)' => other # r /\ Holds(other) /\ req'[other] = req[other]
    BY DEF Holds, Idle, Sends, Shape
<1>3. \A other \in Requests : Holds(other)' => req[other].row # m
    BY <1>2 DEF PanelInv, OwnMessage
<1>4. \A a \in arrivals' : a \in arrivals \/ (a.row = m /\ a.kind \in kinds /\ a = [kind |-> a.kind, row |-> m])
    BY <1>1
<1> HIDE DEF m
<1>5. PanelTyped'
    BY <1>1 DEF PanelInv, PanelTyped, Arrivals
<1>6. OwnMessage'
    BY <1>2 DEF PanelInv, OwnMessage
<1>7. NothingAhead'
    BY DEF PanelInv, NothingAhead
<1>8. PostsHidden'
    BY <1>2, <1>3, <1>4 DEF PanelInv, PostsHidden
<1>9. AnswersNew'
    <2>1. \A a \in arrivals : a.kind = "answer" => a.row # m
        BY DEF PanelInv, AnswersNew, m
    <2>2. CASE "answer" \in kinds
        <3>1. /\ kinds = {"answer"} /\ panel.list = "ready" /\ panel.view[m] = 0
              /\ \A a \in arrivals : a.row # m
            BY <2>2 DEF PanelInv, PostsHidden, MayBeOwn, m
        <3> QED BY <1>2, <1>3, <1>4, <3>1 DEF PanelInv, AnswersNew
    <2>3. CASE "answer" \notin kinds
        BY <1>2, <1>3, <1>4, <2>1, <2>3 DEF PanelInv, AnswersNew
    <2> QED BY <2>2, <2>3
<1> QED BY <1>5, <1>6, <1>7, <1>8, <1>9 DEF PanelInv

\* What arrives, and the panel's own steps.
LEMMA PanelReceive ==
    ASSUME PanelInv, DOMAIN messages \subseteq 1..MaxMessages, NEW a \in arrivals, Receive(a)
    PROVE  PanelInv'
<1>1. /\ arrivals' = arrivals \ {a} /\ UNCHANGED <<req, messages, due>>
      /\ panel' = [panel EXCEPT !.view[a.row] = Shows(a)]
    BY DEF Receive, conversationVars
<1>2. /\ panel \in Panels(DOMAIN messages) /\ arrivals \subseteq Arrivals(DOMAIN messages)
      /\ a.row \in DOMAIN messages /\ a.row \in 1..MaxMessages
    BY DEF PanelInv, PanelTyped, Arrivals
<1>3. Shows(a) \in {0, 1}
    <2>1. panel.view[a.row] \in {0, 1}
        BY <1>2 DEF Panels
    <2>2. a.kind = "answer" => panel.view[a.row] = 0
        BY DEF PanelInv, AnswersNew
    <2> QED BY <2>1, <2>2 DEF Shows
<1>4. /\ panel'.list = panel.list /\ panel'.reply = panel.reply /\ panel'.joined = panel.joined
      /\ panel'.view \in [1..MaxMessages -> {0, 1}]
      /\ panel' \in Panels(DOMAIN messages)
      /\ \A m \in (1..MaxMessages) \ {a.row} : panel'.view[m] = panel.view[m]
    BY <1>1, <1>2, <1>3 DEF Panels
<1>5. PanelTyped'
    BY <1>1, <1>4 DEF PanelInv, PanelTyped
<1>6. OwnMessage'
    BY <1>1 DEF PanelInv, OwnMessage, Holds
<1>7. NothingAhead'
    BY <1>1, <1>2, <1>4 DEF PanelInv, NothingAhead
<1>8. PostsHidden'
    BY <1>1, <1>4 DEF PanelInv, PostsHidden, OwnMessage, Holds
<1>9. AnswersNew'
    <2> SUFFICES ASSUME NEW b \in arrivals', b.kind = "answer"
                 PROVE  /\ panel'.list = "ready" /\ panel'.view[b.row] = 0
                        /\ \A c \in arrivals' : c.row = b.row => c = b
                        /\ \A r \in Requests : Holds(r)' => req'[r].row # b.row
        BY DEF AnswersNew
    <2>1. b \in arrivals /\ b # a
        BY <1>1
    <2>2. /\ panel.list = "ready" /\ panel.view[b.row] = 0
          /\ \A c \in arrivals : c.row = b.row => c = b
          /\ \A r \in Requests : Holds(r) => req[r].row # b.row
        BY <2>1 DEF PanelInv, AnswersNew
    <2>3. b.row # a.row /\ b.row \in 1..MaxMessages
        BY <1>2, <2>1, <2>2 DEF Arrivals
    <2> QED BY <1>1, <1>4, <2>1, <2>2, <2>3 DEF Holds
<1> QED BY <1>5, <1>6, <1>7, <1>8, <1>9 DEF PanelInv

LEMMA PanelActs ==
    ASSUME Shape, PanelInv, DOMAIN messages \subseteq 1..MaxMessages, PanelNext
    PROVE  PanelInv'
<1> USE DEF PanelInv
<1>1. panel \in Panels(DOMAIN messages)
    BY DEF PanelTyped
\* The list of messages is not there yet, so nothing was sent and answered.
<1>2. panel.list # "ready" => \A a \in arrivals : a.kind # "answer"
    BY DEF AnswersNew
<1>3. ASSUME UNCHANGED <<req, messages, due>>, arrivals' \subseteq arrivals,
             panel' \in Panels(DOMAIN messages), panel'.view = panel.view,
             panel.reply \subseteq panel'.reply,
             panel'.list = panel.list \/ panel.list # "ready"
      PROVE  PanelInv'
    <2>1. PanelTyped'
        BY <1>3 DEF PanelTyped
    <2>2. OwnMessage'
        BY <1>3 DEF OwnMessage, Holds
    <2>3. NothingAhead'
        BY <1>3 DEF NothingAhead
    <2>4. PostsHidden'
        BY <1>3 DEF PostsHidden, Holds
    <2>5. AnswersNew'
        BY <1>2, <1>3 DEF AnswersNew, Holds
    <2> QED BY <2>1, <2>2, <2>3, <2>4, <2>5
<1>4. CASE OpenPanel
    BY <1>1, <1>3, <1>4 DEF OpenPanel, Panels, conversationVars
<1>5. CASE ListMessages
    BY <1>1, <1>3, <1>5 DEF ListMessages, Panels, conversationVars
<1>6. CASE JoinRoom \/ DropSocket
    BY <1>1, <1>3, <1>6 DEF JoinRoom, DropSocket, Panels, conversationVars
<1>7. ASSUME NEW r \in Requests, ShowList(r)
      PROVE  PanelInv'
    <2>1. /\ UNCHANGED <<messages, arrivals, due>> /\ panel.list = "replied"
          /\ panel' = [panel EXCEPT !.list = "ready", !.view = OnceEach(panel.reply)]
        BY <1>7 DEF ShowList, conversationVars
    <2>2. \A other \in Requests : Holds(other)' => Holds(other) /\ req'[other] = req[other]
        BY <1>7 DEF ShowList, Starts, Shape, Holds, Sends
    <2>3. /\ panel' \in Panels(DOMAIN messages) /\ panel'.reply = panel.reply
          /\ \A m \in 1..MaxMessages : panel'.view[m] = IF m \in panel.reply THEN 1 ELSE 0
        BY <1>1, <2>1 DEF Panels, OnceEach
    <2>4. PanelTyped'
        BY <2>1, <2>3 DEF PanelTyped
    <2>5. OwnMessage'
        BY <2>1, <2>2 DEF OwnMessage
    <2>6. NothingAhead'
        BY <1>1, <2>1, <2>3 DEF NothingAhead, Panels
    <2>7. PostsHidden'
        BY <2>1, <2>2, <2>3 DEF PostsHidden, OwnMessage
    <2>8. AnswersNew'
        BY <1>2, <2>1 DEF AnswersNew
    <2> QED BY <2>4, <2>5, <2>6, <2>7, <2>8
<1>8. ASSUME NEW a \in arrivals, Receive(a)
      PROVE  PanelInv'
    BY <1>8, PanelReceive
<1> QED BY <1>4, <1>5, <1>6, <1>7, <1>8 DEF PanelNext

LEMMA PanelStepInv ==
    ASSUME Shape, AnnounceInv, AnnounceInv', ConversationBounds, ConversationBounds', PanelInv, [Next]_vars
    PROVE  PanelInv'
<1>1. /\ Shape' /\ MessagesTyped /\ MessagesTyped'
      /\ DOMAIN messages \subseteq 1..MaxMessages
    BY MessagesFrame, StoredWithin DEF AnnounceInv
<1>2. CASE UNCHANGED messagingVars /\ Untouched(MessageOps)
    <2>1. UNCHANGED messages /\ UNCHANGED panelVars
        BY <1>2 DEF messagingVars, conversationVars
    <2>2. \A r \in Requests : req'[r] = req[r] \/ ~Holds(r)'
        BY <1>2 DEF Untouched, Holds, Idle, MessageOps
    <2> QED BY <2>1, <2>2, PanelStays
<1>3. CASE ConversationBegin /\ UNCHANGED panelVars
    <2>1. UNCHANGED messages
        BY <1>3 DEF ConversationBegin, BeginRead, BeginSend, BeginOpen, MarketMoves, Typing, Tick, ReadNotes,
                    conversationVars
    <2>2. \/ UNCHANGED req
          \/ \E r \in Requests : \E op, pc, who :
                 Starts(r, op, pc, who, 0, {}) /\ pc \in {"messages", "store", "create"}
        BY <1>3 DEF ConversationBegin, BeginRead, BeginSend, BeginOpen, MarketMoves, Typing, Tick, ReadNotes
    <2>3. \A r \in Requests : req'[r] = req[r] \/ ~Holds(r)'
        BY <2>2 DEF Starts, Shape, Holds
    <2> QED BY <1>3, <2>1, <2>3, PanelStays
<1>4. ASSUME NEW r \in Requests, ConversationStep(r), UNCHANGED panelVars
      PROVE  PanelInv'
    <2>1. DOMAIN messages' = DOMAIN messages
        BY <1>4 DEF ConversationStep, CreateConversation, LookupNote, MarkMessagesRead, MarkNotesRead,
                    conversationVars
    <2>2. CASE LookupNote(r)
        <3>1. /\ Holds(r) /\ req'[r].op = req[r].op /\ req'[r].row = req[r].row
              /\ \A other \in Requests \ {r} : req'[other] = req[other]
            BY <2>2 DEF LookupNote, Shape, CallShape, Idle, Holds
        <3> QED BY <1>4, <2>1, <3>1, PanelStays
    <2>3. CASE CreateConversation(r) \/ MarkMessagesRead(r) \/ MarkNotesRead(r)
        <3>1. Goto(r, "notes") \/ Ends(r)
            BY <2>3 DEF CreateConversation, MarkMessagesRead, MarkNotesRead
        <3>2. ~Holds(r)' /\ \A other \in Requests \ {r} : req'[other] = req[other]
            BY <3>1, GoesOrEnds DEF Holds, Idle
        <3> QED BY <1>4, <2>1, <3>2, PanelStays
    <2> QED BY <1>4, <2>2, <2>3 DEF ConversationStep
<1>5. ASSUME NEW r \in Requests, EndSend(r)
      PROVE  PanelInv'
    <2>1. /\ Holds(r) /\ req[r].pc = "announce" /\ UNCHANGED <<messages, panel>>
          /\ IF req[r].op = "SEND" THEN Goto(r, "emit") ELSE Ends(r)
        BY <1>5 DEF EndSend, Announce, Holds, Shape, CallShape
    <2>2. CASE UNCHANGED <<arrivals, due>>
        <3>1. /\ \A other \in Requests \ {r} : req'[other] = req[other]
              /\ ~Holds(r)' \/ (req'[r].row = req[r].row /\ req'[r].op = req[r].op)
            BY <2>1 DEF Goto, Ends, Shape, CallShape, Idle, Holds, Sends
        <3> QED BY <2>1, <2>2, <3>1, PanelStays DEF panelVars
    <2>3. CASE req[r].op = "POST" /\ MayBeOwn(r) /\ Puts(r, {"answer"})
        BY <2>1, <2>3, PanelPuts DEF Ends
    <2> QED BY <1>5, <2>2, <2>3 DEF EndSend
<1>6. ASSUME NEW r \in Requests, Emit(r)
      PROVE  PanelInv'
    <2>1. Holds(r) /\ UNCHANGED <<messages, panel>> /\ req' = [req EXCEPT ![r] = Idle]
        BY <1>6 DEF Emit, At, Holds, Sends, Ends, conversationVars
    <2>2. PICK kinds \in SUBSET {"event", "ack"} : Puts(r, kinds)
        BY <1>6 DEF Emit, RoomEvent
    <2>3. "answer" \notin kinds /\ kinds \in SUBSET {"event", "ack", "answer"}
        BY <2>2
    <2> QED BY <2>1, <2>2, <2>3, PanelPuts
<1>7. CASE PanelNext
    BY <1>1, <1>7, PanelActs
<1> QED BY <1>1, <1>2, <1>3, <1>4, <1>5, <1>6, <1>7, PanelStore, MessagesFrame DEF MessagesNext

LEMMA InitPanelInv == Init => PanelInv
<1> SUFFICES ASSUME Init
             PROVE  PanelInv
    OBVIOUS
<1>1. /\ \A r \in Requests : ~Holds(r)
      /\ messages = <<>> /\ arrivals = {} /\ due = {}
      /\ panel = [joined |-> FALSE, list |-> "none", reply |-> {}, view |-> OnceEach({})]
    BY DEF Init, StoreInit, ConversationInit, PanelInit, Holds, Idle, Sends
<1>2. PanelTyped
    BY <1>1 DEF PanelTyped, Panels, OnceEach
<1>3. NothingAhead
    BY <1>1 DEF NothingAhead, OnceEach
<1> QED BY <1>1, <1>2, <1>3 DEF PanelInv, OwnMessage, PostsHidden, AnswersNew

-----------------------------------------------------------------------------
\* The types of the parts, with what each needs to keep them.
CommunityTypes ==
    /\ Shape /\ OpsServed
    /\ AccountTypes
    /\ FormsTyped /\ Len(projects) <= MaxRows
    /\ AnnounceInv /\ ConversationBounds /\ PanelInv /\ RateInv
    /\ RatingInv /\ CachedTyped
    /\ SettingsTyped
    /\ BroadcastInv
    /\ FilesInv

LEMMA InitCommunityTypes == Init => CommunityTypes
<1> SUFFICES ASSUME Init
             PROVE  CommunityTypes
    OBVIOUS
<1>1. /\ Shape /\ AccountTypes /\ FormsTyped /\ AnnounceInv /\ RateInv /\ RatingInv /\ BroadcastInv /\ FilesInv
    BY AccountTypesInit, InitListingInv, InitAnnounceInv, InitRateInv, InitRatingInv, InitBroadcastInv, InitFilesInv
<1>2. /\ \A r \in Requests : req[r] = Idle
      /\ projects = <<>> /\ messages = <<>> /\ notes = <<>>
    BY DEF Init, StoreInit, FormsInit, ConversationInit
<1>3. OpsServed /\ CachedTyped
    BY <1>2 DEF OpsServed, Served, CachedTyped, Committing, Idle, ReviewOps, Init, RatingInit
<1>4. SettingsTyped
    BY DEF SettingsTyped, Init, SettingsInit
<1>5. Len(projects) <= MaxRows
    BY <1>2, FormsAssumption
<1>6. Sending = {} /\ Announcers = {}
    BY <1>2 DEF Sending, Announcers, Announcing, Idle
<1>7. ConversationBounds
    <2>1. late = 0 /\ Len(messages) = 0 /\ Len(notes) = 0
        BY <1>2 DEF Init, ConversationInit
    <2>2. Within(0, {}, MaxMessages) /\ Within(0, {}, 0)
        BY FS_EmptySet, ConversationAssumption DEF Within
    <2>3. Within(Len(messages), Sending, MaxMessages) /\ Within(Len(notes), Announcers, Len(messages))
        BY ONLY <1>6, <2>1, <2>2
    <2>4. opened \in BOOLEAN
        BY DEF Init, ConversationInit
    <2>5. late \in 0..Len(messages)
        BY ONLY <2>1
    <2> QED BY ONLY <2>3, <2>4, <2>5 DEF ConversationBounds
<1>8. PanelInv
    BY InitPanelInv
<1> QED BY <1>1, <1>3, <1>4, <1>5, <1>7, <1>8 DEF CommunityTypes

LEMMA CommunityTypesStep ==
    ASSUME CommunityTypes, [Next]_vars
    PROVE  CommunityTypes'
<1> USE DEF CommunityTypes
<1>1. Shape' /\ OpsServed' /\ AccountTypes'
    BY PartStep, OpsServedStep, AccountTypesStep
<1>2. FormsTyped' /\ Len(projects') <= MaxRows
    BY FormsTypedStep, RowsBounded
<1>3. AnnounceInv' /\ RateInv'
    BY AnnounceStepInv, RateStepInv
<1>4. ConversationBounds' /\ PanelInv'
    BY <1>3, ConversationBoundsStep, PanelStepInv
<1>5. RatingInv' /\ CachedTyped'
    BY RatingStepInv, CachedTypedStep
<1>6. SettingsTyped' /\ BroadcastInv'
    BY SettingsTypedStep, BroadcastStepInv
<1>7. FilesInv'
    BY FilesStepInv
<1> QED BY <1>1, <1>2, <1>3, <1>4, <1>5, <1>6, <1>7

LEMMA TypesSuffice == CommunityTypes => TypeOK
<1> SUFFICES ASSUME CommunityTypes
             PROVE  TypeOK
    OBVIOUS
<1> USE DEF CommunityTypes
<1>1. /\ workload \in Workloads
      /\ \A r \in Requests :
            \/ req[r].op \in workload.ops \cup {"none", "READ"}
            \/ Serves("TAB") /\ req[r].op \in {"LOGIN", "REFRESH", "LOGOUT"}
    BY DEF Shape, OpsServed, Served
<1>2. /\ issued \in 0..MaxTokens /\ revocations \in 0..MaxRevocations
    BY WithinRange, SessionsAssumption DEF AccountTypes, AccountBounds, Unissued, Ending
<1>3. /\ status \in UserStatus
      /\ tokens \subseteq [id : 1..MaxTokens, epoch : 0..MaxRevocations]
      /\ logins \in 0..issued
      /\ resets \in Seq({"sent", "used"}) /\ Len(resets) <= MaxResets
      /\ sockets \in [Sockets -> [open : BOOLEAN, epoch : 0..MaxRevocations, event : BOOLEAN]]
      /\ cookie \in 0..issued
      /\ tabs \in [Tabs -> [page : {"closed", "loading", "ready"}, user : BOOLEAN, token : BOOLEAN]]
    BY DEF AccountTypes, AccountTyped, Token, Socket, Epochs, Tab
<1>4. /\ projects \in Seq([status : {"DRAFT", "OPEN", "IN_PROGRESS"}, terms : SUBSET Terms])
      /\ form \in [id : 0..Len(projects), left : BOOLEAN] /\ Len(projects) <= MaxRows
      /\ bids \in [Bidders -> [status : {"none", "PENDING", "WITHDRAWN", "REJECTED", "ACCEPTED"},
                               terms : SUBSET Terms]]
    <2>1. Len(projects) \in Nat /\ DOMAIN projects = 1..Len(projects)
        BY ProjectRows
    <2>2. {0} \cup DOMAIN projects = 0..Len(projects)
        BY <2>1
    <2> QED BY <2>2 DEF FormsTyped, ProjectRow, BidRow
<1>5. /\ opened \in BOOLEAN /\ late \in 0..Len(messages) /\ clock \in 0..MaxClock
      /\ messages \in Seq([from : Roles, read : BOOLEAN])
      /\ notes \in Seq([to : Roles, read : BOOLEAN])
    BY DEF ConversationBounds, RateInv, Ticks, AnnounceInv, MessagesTyped, MessageRow, NoteRow
<1>6. Len(messages) <= MaxMessages /\ Len(notes) <= Len(messages)
    <2>1. Sending \in SUBSET Requests /\ Announcers \in SUBSET Requests /\ Len(messages) \in Nat
        BY MessageRows DEF Sending, Announcers, AnnounceInv
    <2>2. Len(messages) \in 0..MaxMessages /\ Len(notes) \in 0..Len(messages)
        BY <2>1, WithinRange, ConversationAssumption DEF ConversationBounds
    <2> QED BY <2>1, <2>2, ConversationAssumption
<1>7. /\ panel \in [joined : BOOLEAN, list : {"none", "asked", "replied", "ready"},
                    reply : SUBSET DOMAIN messages, view : [1..MaxMessages -> Nat]]
      /\ arrivals \subseteq [kind : {"event", "ack", "answer"}, row : DOMAIN messages]
      /\ due \subseteq DOMAIN messages
    BY DEF PanelInv, PanelTyped, Panels, Arrivals
<1>8. /\ reviews \in [Reviewers -> {"none", "visible", "hidden"}] /\ cached \subseteq Reviewers
      /\ stored \in BOOLEAN /\ cache \in [Instances -> BOOLEAN] /\ fresh \in [Instances -> BOOLEAN]
      /\ broadcasts \in Seq(Keys \cup {NoKey}) /\ Len(broadcasts) <= MaxBroadcasts
      /\ inbox \in [1..MaxBroadcasts -> [Audience -> Nat]]
    BY DEF RatingInv, CachedTyped, SettingsTyped, BroadcastInv
<1>9. images \cup photo \subseteq 1..uploaded /\ files \subseteq 1..uploaded
    BY DEF FilesInv, FileRows
<1> QED BY ONLY <1>1, <1>2, <1>3, <1>4, <1>5, <1>6, <1>7, <1>8, <1>9 DEF TypeOK

\* Rows, calls, panel and caches keep their types in every workload, and no table
\* outgrows its bound: what a call may still add is counted when it begins.
THEOREM SpecCommunityTypes == Spec => []TypeOK
<1>1. CommunityTypes /\ [Next]_vars => CommunityTypes'
    BY CommunityTypesStep
<1> QED BY InitCommunityTypes, <1>1, TypesSuffice, PTL DEF Spec

\* A panel never shows a message twice, whichever of its list, an event, an
\* acknowledgement and an answer bring it, in any order and with dropped sockets.
THEOREM SpecNeverTwice == Spec => []NeverTwice
<1>1. CommunityTypes /\ [Next]_vars => CommunityTypes'
    BY CommunityTypesStep
<1>2. CommunityTypes => NeverTwice
    <2> SUFFICES ASSUME CommunityTypes, NEW m \in 1..MaxMessages
                 PROVE  panel.view[m] <= 1
        BY DEF NeverTwice
    <2>1. panel.view \in [1..MaxMessages -> {0, 1}]
        BY DEF CommunityTypes, PanelInv, PanelTyped, Panels
    <2>2. panel.view[m] \in {0, 1}
        BY ONLY <2>1, m \in 1..MaxMessages
    <2> QED BY ONLY <2>2
<1> QED BY InitCommunityTypes, <1>1, <1>2, PTL DEF Spec
=============================================================================
