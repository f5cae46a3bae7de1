--------------------------- MODULE CommunityFrame ---------------------------
(***************************************************************************)
(* Which calls a part of the community side works on: the steps of one     *)
(* part leave the calls of the others alone.  Rests on what a program      *)
(* counter says of the operation that it belongs to.                       *)
(***************************************************************************)
EXTENDS Community, TLAPS

AccountOps == {"LOGIN", "REFRESH", "LOGOUT", "CONNECT"} \cup Revoking
FormOps    == Edits \cup {"BID", "HIRE"}
MessageOps == Sends \cup {"OPEN", "READ"}
SettingOps == {"PATCH", "GATE"}
UploadOps  == {"IMAGE", "IMAGE_REMOVE", "ITEM_REMOVE", "PHOTO"}

CallShape(call) ==
    /\ DOMAIN call = DOMAIN Idle
    /\ call.op = "none" <=> call.pc = "idle"
    /\ call.pc = "issue" => call.op \in {"LOGIN", "REFRESH"}
    /\ call.pc = "answered" => call.op \in {"LOGIN", "REFRESH", "LOGOUT"}
    /\ call.pc = "refused" => call.op = "REFRESH"
    /\ call.pc \in {"revoke", "disconnect"} => call.op \in Revoking
    /\ call.pc \in {"create_project", "created"} => call.op \in {"SAVE", "PUBLISH"}
    /\ call.pc \in {"find", "count", "write"} => call.op \in Edits
    /\ call.pc \in {"publish", "open"} => call.op \in Publishes
    /\ call.pc = "insert_bid" => call.op = "BID"
    /\ call.pc = "accept" => call.op = "HIRE"
    /\ call.pc \in {"store", "lookup", "announce"} => call.op \in Sends
    /\ call.pc = "commit" => call.op \in ReviewOps
    /\ call.pc \in {"load", "fill"} => call.op \in SettingOps
    /\ call.pc = "upload" => call.op \in {"IMAGE", "PHOTO"}
    /\ call.pc = "delete_files" => call.op \in {"IMAGE_REMOVE", "ITEM_REMOVE"}

Shape ==
    /\ workload \in Workloads
    /\ DOMAIN req = Requests
    /\ \A r \in Requests : CallShape(req[r])

\* The step works on calls of these operations only.
Touches(ops) ==
    \A r \in Requests :
        req'[r] = req[r] \/ {req[r].op, req'[r].op} \subseteq ops \cup {"none"}

\* The calls of these operations are left alone, but for those that a crash ends.
Untouched(ops) ==
    \A r \in Requests :
        \/ req'[r] = req[r]
        \/ req[r].op \notin ops /\ req'[r].op \notin ops
        \/ workload.crashes /\ req'[r] = Idle

\* Every call keeps its shape, and only one of these operations is touched.
Works(ops) == Shape' /\ Touches(ops)

-----------------------------------------------------------------------------
(***************************************************************************)
(* The ways in which a step changes a call                                 *)
(***************************************************************************)
Call(op, pc, who, row, seen) == [op |-> op, pc |-> pc, who |-> who, row |-> row, seen |-> seen]

\* A step that gives one slot another content of the right shape.
LEMMA SlotWorks ==
    ASSUME Shape, UNCHANGED workload, NEW r \in Requests, NEW ops, NEW call,
           req' = [req EXCEPT ![r] = call], CallShape(call),
           {req[r].op, call.op} \subseteq ops \cup {"none"}
    PROVE  Works(ops)
BY DEF Shape, Works, Touches

LEMMA StartWorks ==
    ASSUME Shape, UNCHANGED workload, NEW r \in Requests, NEW ops, NEW op \in ops, NEW pc, NEW who,
           NEW row, NEW seen, MayStart(r, op), Starts(r, op, pc, who, row, seen),
           CallShape(Call(op, pc, who, row, seen))
    PROVE  Works(ops)
<1>1. req[r].op = "none"
    BY DEF Shape, CallShape, MayStart
<1>2. req' = [req EXCEPT ![r] = Call(op, pc, who, row, seen)] /\ Call(op, pc, who, row, seen).op = op
    BY DEF Starts, Call
<1> QED BY <1>1, <1>2, SlotWorks

LEMMA GotoWorks ==
    ASSUME Shape, UNCHANGED workload, NEW r \in Requests, NEW ops, req[r].op \in ops, NEW pc, Goto(r, pc),
           CallShape([req[r] EXCEPT !.pc = pc])
    PROVE  Works(ops)
<1>1. req' = [req EXCEPT ![r] = [req[r] EXCEPT !.pc = pc]]
    BY DEF Goto, Shape
<1>2. [req[r] EXCEPT !.pc = pc].op = req[r].op
    BY DEF Shape, CallShape, Idle
<1> QED BY <1>1, <1>2, SlotWorks

LEMMA EndWorks ==
    ASSUME Shape, UNCHANGED workload, NEW r \in Requests, NEW ops, req[r].op \in ops, Ends(r)
    PROVE  Works(ops)
<1>1. CallShape(Idle) /\ Idle.op = "none"
    BY DEF CallShape, Idle
<1> QED BY <1>1, SlotWorks DEF Ends

LEMMA RowWorks ==
    ASSUME Shape, UNCHANGED workload, NEW r \in Requests, NEW ops, req[r].op \in ops, NEW call,
           req' = [req EXCEPT ![r] = call], call.op = req[r].op, CallShape(call)
    PROVE  Works(ops)
BY SlotWorks

LEMMA AnswerWorks ==
    ASSUME Shape, UNCHANGED workload, NEW r \in Requests, NEW ops, req[r].op \in ops, NEW pc, NEW token,
           Answers(r, pc, token), CallShape([req[r] EXCEPT !.pc = pc])
    PROVE  Works(ops)
<1>1. CASE req[r].who = "nobody"
    BY <1>1, EndWorks DEF Answers
<1>2. CASE req[r].who # "nobody"
    <2> DEFINE call == [[req[r] EXCEPT !.pc = pc] EXCEPT !.row = token]
    <2>1. req' = [req EXCEPT ![r] = call]
        BY <1>2 DEF Answers, Shape
    <2>2. call.op = req[r].op /\ CallShape(call)
        BY DEF Shape, CallShape, Idle
    <2> QED BY <2>1, <2>2, SlotWorks
<1> QED BY <1>1, <1>2

LEMMA IdleWorks ==
    ASSUME Shape, UNCHANGED <<workload, req>>, NEW ops
    PROVE  Works(ops)
BY DEF Shape, Works, Touches, CallShape, Idle

-----------------------------------------------------------------------------
(***************************************************************************)
(* Listings                                                                *)
(***************************************************************************)
LEMMA FormsWork ==
    ASSUME Shape, UNCHANGED workload,
           FormsBegin \/ \E r \in Requests : FormsStep(r)
    PROVE  Works(FormOps)
<1> USE DEF FormOps, Edits, Publishes
<1>1. CASE FormsBegin
    <2>1. CASE \E b \in Bidders : WithdrawBid(b)
        BY <2>1, IdleWorks DEF WithdrawBid
    <2>2. ASSUME NEW r \in Requests, NEW op \in {"SAVE", "PUBLISH"}, PressSave(r, op)
          PROVE  Works(FormOps)
        <3>1. PICK terms \in Terms :
                  Starts(r, op, IF form.id = 0 THEN "create_project" ELSE "find",
                         "nobody", form.id, {terms})
            BY <2>2 DEF PressSave
        <3> QED BY <2>2, <3>1, StartWorks DEF PressSave, Begins, CallShape, Call, Idle
    <2>3. ASSUME NEW r \in Requests, NEW op \in {"EDIT", "EDIT_PUBLISH"}, PressEdit(r, op)
          PROVE  Works(FormOps)
        BY <2>3, StartWorks DEF PressEdit, Begins, CallShape, Call, Idle
    <2>4. ASSUME NEW r \in Requests, BeginBid(r)
          PROVE  Works(FormOps)
        BY <2>4, StartWorks DEF BeginBid, Begins, CallShape, Call, Idle
    <2>5. ASSUME NEW r \in Requests, Hire(r)
          PROVE  Works(FormOps)
        BY <2>5, StartWorks DEF Hire, Begins, CallShape, Call, Idle
    <2> QED BY <1>1, <2>1, <2>2, <2>3, <2>4, <2>5 DEF FormsBegin
<1>2. ASSUME NEW r \in Requests, FormsStep(r)
      PROVE  Works(FormOps)
    <2> USE DEF Shape, CallShape, Idle
    <2>1. CASE CreateProject(r)
        <3> DEFINE call == [[req[r] EXCEPT !.pc = "created"] EXCEPT !.row = Len(projects')]
        <3>1. req' = [req EXCEPT ![r] = call]
            BY <2>1 DEF CreateProject
        <3>2. call.op = req[r].op /\ CallShape(call)
            BY <2>1 DEF CreateProject
        <3>3. req[r].op \in FormOps
            BY <2>1 DEF CreateProject
        <3> HIDE DEF call
        <3> QED BY <3>1, <3>2, <3>3, RowWorks
    <2>2. CASE RememberProject(r) \/ WriteProject(r)
        BY <2>2, GotoWorks, EndWorks DEF RememberProject, WriteProject, AfterSave
    <2>3. CASE FindProject(r) \/ CountPending(r) \/ BeginPublish(r)
        BY <2>3, GotoWorks, EndWorks DEF FindProject, CountPending, BeginPublish
    <2>4. CASE OpenProject(r) \/ InsertBid(r) \/ RecordHire(r)
        BY <2>4, EndWorks DEF OpenProject, InsertBid, RecordHire
    <2> QED BY <1>2, <2>1, <2>2, <2>3, <2>4 DEF FormsStep
<1> QED BY <1>1, <1>2

-----------------------------------------------------------------------------
(***************************************************************************)
(* Accounts and browsers                                                   *)
(***************************************************************************)
LEMMA SessionsWork ==
    ASSUME Shape, UNCHANGED workload,
           SessionsBegin \/ \E r \in Requests : SessionsStep(r)
    PROVE  Works(AccountOps)
<1> USE DEF AccountOps, Revoking
<1>1. CASE SessionsBegin
    <2>1. CASE Logout \/ ForgotPassword \/ \E s \in Sockets : ReceiveEvent(s)
        BY <2>1, IdleWorks DEF Logout, ForgotPassword, ReceiveEvent
    <2>2. ASSUME NEW r \in Requests, BeginLogin(r) \/ BeginRefresh(r)
          PROVE  Works(AccountOps)
        BY <2>2, StartWorks DEF BeginLogin, BeginRefresh, Begins, CallShape, Call, Idle
    <2>3. ASSUME NEW r \in Requests, BeginModerate(r)
          PROVE  Works(AccountOps)
        BY <2>3, StartWorks DEF BeginModerate, Begins, CallShape, Call, Idle
    <2>4. ASSUME NEW r \in Requests, BeginModerateStaff(r)
          PROVE  Works(AccountOps)
        BY <2>4, StartWorks DEF BeginModerateStaff, Begins, CallShape, Call, Idle
    <2>5. ASSUME NEW r \in Requests, BeginRevoke(r)
          PROVE  Works(AccountOps)
        BY <2>5, StartWorks DEF BeginRevoke, Begins, CallShape, Call, Idle
    <2>6. ASSUME NEW r \in Requests, BeginReset(r)
          PROVE  Works(AccountOps)
        BY <2>6, StartWorks DEF BeginReset, Begins, CallShape, Call, Idle
    <2>7. ASSUME NEW r \in Requests, BeginConnect(r)
          PROVE  Works(AccountOps)
        BY <2>7, StartWorks DEF BeginConnect, Begins, CallShape, Call, Idle
    <2> QED BY <1>1, <2>1, <2>2, <2>3, <2>4, <2>5, <2>6, <2>7 DEF SessionsBegin
<1>2. ASSUME NEW r \in Requests, SessionsStep(r)
      PROVE  Works(AccountOps)
    <2> USE DEF Shape, CallShape, Idle
    <2>1. CASE DeleteToken(r)
        BY <2>1, AnswerWorks, GotoWorks DEF DeleteToken, At
    <2>2. CASE IssueTokens(r)
        BY <2>2, AnswerWorks DEF IssueTokens
    <2>3. CASE RevokeSessions(r)
        BY <2>3, GotoWorks, EndWorks DEF RevokeSessions
    <2>4. CASE DisconnectUser(r) \/ JoinUserRoom(r)
        BY <2>4, EndWorks DEF DisconnectUser, JoinUserRoom, At
    <2> QED BY <1>2, <2>1, <2>2, <2>3, <2>4 DEF SessionsStep
<1> QED BY <1>1, <1>2

LEMMA BrowserWorks ==
    ASSUME Shape, UNCHANGED workload,
           BrowserBegin \/ \E r \in Requests : BrowserStep(r)
    PROVE  Works(AccountOps)
<1> USE DEF AccountOps
<1>1. CASE BrowserBegin
    <2>1. ASSUME NEW r \in Requests, NEW t \in Tabs, Bootstrap(r, t)
          PROVE  Works(AccountOps)
        BY <2>1, StartWorks DEF Bootstrap, TabStarts, CallShape, Call, Idle
    <2>2. ASSUME NEW r \in Requests, NEW t \in Tabs, SubmitLogin(r, t) \/ ClickLogout(r, t)
          PROVE  Works(AccountOps)
        BY <2>2, StartWorks DEF SubmitLogin, ClickLogout, TabStarts, CallShape, Call, Idle
    <2>3. ASSUME NEW t \in Tabs, Leave(t)
          PROVE  Works(AccountOps)
        BY <2>3 DEF Leave, TabCalls, Works, Touches, Shape, CallShape, Idle
    <2> QED BY <1>1, <2>1, <2>2, <2>3 DEF BrowserBegin
<1>2. ASSUME NEW r \in Requests, BrowserStep(r)
      PROVE  Works(AccountOps)
    <2> USE DEF Shape, CallShape, Idle
    <2>1. CASE ForgetToken(r)
        BY <2>1, AnswerWorks DEF ForgetToken, At
    <2>2. CASE TakeAnswer(r)
        BY <2>2, GotoWorks, EndWorks DEF TakeAnswer
    <2>3. CASE TakeMe(r) \/ TakeRefusal(r)
        BY <2>3, EndWorks DEF TakeMe, TakeRefusal, At
    <2> QED BY <1>2, <2>1, <2>2, <2>3 DEF BrowserStep
<1> QED BY <1>1, <1>2

-----------------------------------------------------------------------------
(***************************************************************************)
(* Messages                                                                *)
(***************************************************************************)
LEMMA MessagesWork ==
    ASSUME Shape, UNCHANGED workload,
           \/ ConversationBegin \/ PanelNext
           \/ \E r \in Requests : ConversationStep(r) \/ Store(r) \/ EndSend(r) \/ Emit(r)
    PROVE  Works(MessageOps)
<1> USE DEF MessageOps, Sends
<1>1. CASE ConversationBegin
    <2>1. CASE MarketMoves \/ Typing \/ Tick \/ ReadNotes
        BY <2>1, IdleWorks DEF MarketMoves, Typing, Tick, ReadNotes
    <2>2. ASSUME NEW r \in Requests, BeginOpen(r)
          PROVE  Works(MessageOps)
        BY <2>2, StartWorks DEF BeginOpen, Begins, CallShape, Call, Idle
    <2>3. ASSUME NEW r \in Requests, NEW op \in Sends, NEW who \in Roles, BeginSend(r, op, who)
          PROVE  Works(MessageOps)
        BY <2>3, StartWorks, IdleWorks DEF BeginSend, Begins, CallShape, Call, Idle
    <2>4. ASSUME NEW r \in Requests, NEW who \in Roles, BeginRead(r, who)
          PROVE  Works(MessageOps)
        BY <2>4, StartWorks DEF BeginRead, Begins, CallShape, Call, Idle
    <2> QED BY <1>1, <2>1, <2>2, <2>3, <2>4 DEF ConversationBegin
<1>2. CASE PanelNext
    <2>1. ASSUME NEW r \in Requests, ShowList(r)
          PROVE  Works(MessageOps)
        <3>1. req' = [req EXCEPT ![r] = Call("READ", "messages", Reader, 0, {})] /\ req[r].op = "none"
            BY <2>1 DEF ShowList, MayStart, Starts, Call, Shape, CallShape
        <3> QED BY <3>1, SlotWorks DEF CallShape, Call, Idle
    <2>2. CASE OpenPanel \/ ListMessages \/ JoinRoom \/ DropSocket \/ \E a \in arrivals : Receive(a)
        BY <2>2, IdleWorks DEF OpenPanel, ListMessages, JoinRoom, DropSocket, Receive
    <2> QED BY <1>2, <2>1, <2>2 DEF PanelNext
<1>3. ASSUME NEW r \in Requests, ConversationStep(r) \/ Store(r) \/ EndSend(r) \/ Emit(r)
      PROVE  Works(MessageOps)
    <2> USE DEF Shape, CallShape, Idle
    <2>1. CASE Store(r)
        <3> DEFINE call == [[req[r] EXCEPT !.pc = "lookup"] EXCEPT !.row = Len(messages')]
        <3>1. req' = [req EXCEPT ![r] = call]
            BY <2>1 DEF Store, StoreMessage
        <3>2. call.op = req[r].op /\ CallShape(call)
            BY <2>1 DEF Store, StoreMessage
        <3>3. req[r].op \in MessageOps
            BY <2>1 DEF Store, StoreMessage
        <3> HIDE DEF call
        <3> QED BY <3>1, <3>2, <3>3, RowWorks
    <2>2. CASE CreateConversation(r) \/ MarkNotesRead(r) \/ Emit(r)
        BY <2>2, EndWorks DEF CreateConversation, MarkNotesRead, Emit, At
    <2>3. CASE LookupNote(r)
        <3> DEFINE call == [[req[r] EXCEPT !.pc = "announce"] EXCEPT !.seen = FindUnreadNote(OtherRole(req[r].who))]
        <3>1. req' = [req EXCEPT ![r] = call]
            BY <2>3 DEF LookupNote
        <3>2. call.op = req[r].op /\ CallShape(call)
            BY <2>3 DEF LookupNote
        <3>3. req[r].op \in MessageOps
            BY <2>3 DEF LookupNote
        <3> HIDE DEF call
        <3> QED BY <3>1, <3>2, <3>3, RowWorks
    <2>4. CASE EndSend(r) \/ MarkMessagesRead(r)
        BY <2>4, GotoWorks, EndWorks DEF EndSend, Announce, MarkMessagesRead, At
    <2> QED BY <1>3, <2>1, <2>2, <2>3, <2>4 DEF ConversationStep
<1> QED BY <1>1, <1>2, <1>3

-----------------------------------------------------------------------------
(***************************************************************************)
(* Reviews, settings, broadcasts, uploads                                  *)
(***************************************************************************)
LEMMA RatingWorks ==
    ASSUME Shape, UNCHANGED workload,
           RatingBegin \/ \E r \in Requests : RatingStep(r)
    PROVE  Works(ReviewOps)
<1> USE DEF ReviewOps
<1>1. ASSUME NEW r \in Requests, NEW op \in ReviewOps, NEW v \in Reviewers, BeginReview(r, op, v)
      PROVE  Works(ReviewOps)
    BY <1>1, StartWorks DEF BeginReview, Begins, CallShape, Call, Idle
<1>2. ASSUME NEW r \in Requests, ReadAggregate(r)
      PROVE  Works(ReviewOps)
    <2> DEFINE call == [[req[r] EXCEPT !.pc = "commit"] EXCEPT !.seen = Aggregate(req[r])]
    <2>1. req[r].op \in ReviewOps
        BY <1>2 DEF ReadAggregate
    <2>2. CallShape(call) /\ call.op = req[r].op
        BY <2>1 DEF Shape, CallShape, Idle
    <2>3. Ends(r) \/ req' = [req EXCEPT ![r] = call]
        BY <1>2 DEF ReadAggregate, Shape
    <2> HIDE DEF call
    <2> QED BY <2>1, <2>2, <2>3, EndWorks, RowWorks
<1>3. ASSUME NEW r \in Requests, CommitReview(r)
      PROVE  Works(ReviewOps)
    BY <1>3 DEF CommitReview, Works, Touches, Shape, CallShape, Idle
<1> QED BY <1>1, <1>2, <1>3 DEF RatingBegin, RatingStep

LEMMA SettingsWork ==
    ASSUME Shape, UNCHANGED workload,
           SettingsBegin \/ \E r \in Requests : SettingsStep(r)
    PROVE  Works(SettingOps)
<1> USE DEF SettingOps
<1>1. ASSUME NEW r \in Requests, NEW i \in Instances, BeginPatch(r, i)
      PROVE  Works(SettingOps)
    BY <1>1, StartWorks DEF BeginPatch, Begins, CallShape, Call, Idle
<1>2. ASSUME NEW r \in Requests, NEW i \in Instances, BeginGate(r, i)
      PROVE  Works(SettingOps)
    BY <1>2, StartWorks DEF BeginGate, Begins, CallShape, Call, Idle
<1>3. ASSUME NEW r \in Requests, SettingsStep(r)
      PROVE  Works(SettingOps)
    <2>1. CASE LoadSettings(r)
        <3> DEFINE call == [[req[r] EXCEPT !.pc = "fill"] EXCEPT !.seen = {stored}]
        <3>1. req[r].op \in SettingOps /\ req' = [req EXCEPT ![r] = call]
            BY <2>1 DEF LoadSettings, Shape, CallShape
        <3>2. CallShape(call) /\ call.op = req[r].op
            BY <3>1 DEF Shape, CallShape, Idle
        <3> HIDE DEF call
        <3> QED BY <3>1, <3>2, RowWorks
    <2> USE DEF Shape, CallShape, Idle
    <2>2. CASE Upsert(r) \/ FillCache(r)
        BY ZenonT(30), <2>2, GotoWorks, EndWorks DEF Upsert, FillCache, At
    <2>3. CASE Decide(r)
        BY <2>3, EndWorks DEF Decide, At
    <2> QED BY <1>3, <2>1, <2>2, <2>3 DEF SettingsStep
<1> QED BY <1>1, <1>2, <1>3 DEF SettingsBegin

LEMMA BroadcastWorks ==
    ASSUME Shape, UNCHANGED workload, NEW r \in Requests, BeginBroadcast(r) \/ BroadcastStep(r)
    PROVE  Works({"BROADCAST"})
<1>1. CASE BeginBroadcast(r)
    BY <1>1, StartWorks DEF BeginBroadcast, Begins, CallShape, Call, Idle
<1>2. CASE ResolveRecipients(r)
    <2> DEFINE call == [[req[r] EXCEPT !.pc = "create"] EXCEPT !.seen = Audience]
    <2>1. req[r].op = "BROADCAST" /\ req' = [req EXCEPT ![r] = call]
        BY <1>2 DEF ResolveRecipients, At, Shape
    <2>2. CallShape(call) /\ call.op = req[r].op
        BY <2>1 DEF Shape, CallShape, Idle
    <2> HIDE DEF call
    <2> QED BY <2>1, <2>2, RowWorks
<1>3. CASE CreateBroadcast(r)
    <2> DEFINE call == [[req[r] EXCEPT !.pc = "batch"] EXCEPT !.row = Len(broadcasts')]
    <2>1. req[r].op = "BROADCAST" /\ req' = [req EXCEPT ![r] = call]
        BY <1>3 DEF CreateBroadcast, At, Shape
    <2>2. CallShape(call) /\ call.op = req[r].op
        BY <2>1 DEF Shape, CallShape, Idle
    <2> HIDE DEF call
    <2> QED BY <2>1, <2>2, RowWorks
<1>5. CASE FindBroadcast(r)
    BY <1>5, EndWorks DEF FindBroadcast, At
<1>4. CASE SendBatch(r)
    <2>1. ASSUME NEW batch, req' = [req EXCEPT ![r].seen = @ \ batch]
          PROVE  Works({"BROADCAST"})
        <3> DEFINE call == [req[r] EXCEPT !.seen = @ \ batch]
        <3>1. req[r].op = "BROADCAST" /\ req' = [req EXCEPT ![r] = call]
            BY <1>4, <2>1 DEF SendBatch, At, Shape
        <3>2. CallShape(call) /\ call.op = req[r].op
            BY <3>1 DEF Shape, CallShape, Idle
        <3> HIDE DEF call
        <3> QED BY <3>1, <3>2, RowWorks
    <2> QED BY <1>4, <2>1, EndWorks DEF SendBatch, At
<1> QED BY <1>1, <1>2, <1>3, <1>4, <1>5 DEF BroadcastStep

LEMMA UploadsWork ==
    ASSUME Shape, UNCHANGED workload,
           UploadsBegin \/ \E r \in Requests : UploadsStep(r)
    PROVE  Works(UploadOps)
<1> USE DEF UploadOps
<1>1. ASSUME NEW r \in Requests, BeginAddImage(r) \/ BeginRemoveItem(r) \/ BeginPhoto(r)
      PROVE  Works(UploadOps)
    BY <1>1, StartWorks DEF BeginAddImage, BeginRemoveItem, BeginPhoto, Begins, CallShape, Call, Idle
<1>2. ASSUME NEW r \in Requests, BeginRemoveImage(r)
      PROVE  Works(UploadOps)
    BY <1>2, StartWorks DEF BeginRemoveImage, Begins, CallShape, Call, Idle
<1>3. ASSUME NEW r \in Requests, Upload(r)
      PROVE  Works(UploadOps)
    <2> DEFINE call == [[req[r] EXCEPT !.pc = IF req[r].op = "PHOTO" THEN "delete_old" ELSE "insert"]
                            EXCEPT !.row = uploaded']
    <2>1. req[r].op \in UploadOps /\ req' = [req EXCEPT ![r] = call]
        BY <1>3 DEF Upload, Shape, CallShape
    <2>2. CallShape(call) /\ call.op = req[r].op
        BY <2>1 DEF Shape, CallShape, Idle
    <2> HIDE DEF call
    <2> QED BY <2>1, <2>2, RowWorks
<1>4. ASSUME NEW r \in Requests, DeleteFile(r)
      PROVE  Works(UploadOps)
    <2>1. req[r].op \in UploadOps
        BY <1>4 DEF DeleteFile, Shape, CallShape
    <2>2. ASSUME NEW file, req' = [req EXCEPT ![r].seen = @ \ {file}]
          PROVE  Works(UploadOps)
        <3> DEFINE call == [req[r] EXCEPT !.seen = @ \ {file}]
        <3>1. req' = [req EXCEPT ![r] = call]
            BY <2>2 DEF Shape
        <3>2. CallShape(call) /\ call.op = req[r].op
            BY <2>1 DEF Shape, CallShape, Idle
        <3> HIDE DEF call
        <3> QED BY <2>1, <3>1, <3>2, RowWorks
    <2> QED BY <1>4, <2>1, <2>2, EndWorks DEF DeleteFile
<1>5. ASSUME NEW r \in Requests, InsertImage(r) \/ UpdatePhoto(r)
      PROVE  Works(UploadOps)
    BY <1>5, EndWorks DEF InsertImage, UpdatePhoto, At
<1>6. ASSUME NEW r \in Requests, DeleteImage(r) \/ DeleteItem(r)
      PROVE  Works(UploadOps)
    BY <1>6, GotoWorks, EndWorks DEF DeleteImage, DeleteItem, At, Shape, CallShape, Idle
<1>7. ASSUME NEW r \in Requests, DeleteOldPhoto(r)
      PROVE  Works(UploadOps)
    BY <1>7, GotoWorks DEF DeleteOldPhoto, At, Shape, CallShape, Idle
<1> QED BY <1>1, <1>2, <1>3, <1>4, <1>5, <1>6, <1>7 DEF UploadsBegin, UploadsStep

-----------------------------------------------------------------------------
(***************************************************************************)
(* A step is a step of one part                                            *)
(***************************************************************************)
AccountNext ==
    \/ SessionsBegin /\ UNCHANGED browserVars
    \/ BrowserBegin
    \/ \E r \in Requests : SessionsStep(r) /\ UNCHANGED browserVars
    \/ \E r \in Requests : BrowserStep(r)
    \/ \E s \in Sockets : RequireActiveUser(s) /\ UNCHANGED browserVars

FormsNext == FormsBegin \/ \E r \in Requests : FormsStep(r)

MessagesNext ==
    \/ ConversationBegin /\ UNCHANGED panelVars
    \/ PanelNext
    \/ \E r \in Requests : ConversationStep(r) /\ UNCHANGED panelVars
    \/ \E r \in Requests : Store(r) \/ EndSend(r) \/ Emit(r)

RatingNext == RatingBegin \/ \E r \in Requests : RatingStep(r)

SettingsNext ==
    \/ SettingsBegin
    \/ \E r \in Requests : SettingsStep(r)
    \/ \E i \in Instances : Age(i)

BroadcastNext == \E r \in Requests : BeginBroadcast(r) \/ BroadcastStep(r)

UploadsNext == UploadsBegin \/ \E r \in Requests : UploadsStep(r)

\* A call ends where it is, or nothing happens.
Rests ==
    /\ \A r \in Requests : req'[r] = req[r] \/ (workload.crashes /\ req'[r] = Idle)
    /\ UNCHANGED <<accountVars, formVars, messagingVars>>
    /\ UNCHANGED <<ratingVars, settingVars, broadcastVars, uploadVars>>

OfOnePart ==
    \/ AccountNext /\ Works(AccountOps) /\ OnlyAccount
    \/ FormsNext /\ Works(FormOps) /\ OnlyForms
    \/ MessagesNext /\ Works(MessageOps) /\ OnlyMessaging
    \/ RatingNext /\ Works(ReviewOps) /\ OnlyRating
    \/ SettingsNext /\ Works(SettingOps) /\ OnlySettings
    \/ BroadcastNext /\ Works({"BROADCAST"}) /\ OnlyBroadcasts
    \/ UploadsNext /\ Works(UploadOps) /\ OnlyUploads
    \/ Rests

LEMMA InitShape == Init => Shape
BY DEF Init, StoreInit, Shape, CallShape, Idle

LEMMA PartStep ==
    ASSUME Shape, [Next]_vars
    PROVE  /\ Shape' /\ UNCHANGED workload
           /\ OfOnePart
<1> DEFINE Goal == Shape' /\ UNCHANGED workload /\ OfOnePart
<1> USE DEF OfOnePart
<1>1. CASE UNCHANGED vars
    BY <1>1 DEF vars, Rests, Shape, CallShape, Idle
<1>2. CASE Arrive
    <2>1. CASE SessionsBegin /\ UNCHANGED browserVars /\ OnlyAccount
        BY <1>2, <2>1, SessionsWork DEF Arrive, AccountNext, Works
    <2>2. CASE BrowserBegin /\ OnlyAccount
        BY <1>2, <2>2, BrowserWorks DEF Arrive, AccountNext, Works
    <2>3. CASE FormsBegin /\ OnlyForms
        BY <1>2, <2>3, FormsWork DEF Arrive, FormsNext, Works
    <2>4. CASE (PanelNext \/ (ConversationBegin /\ UNCHANGED panelVars)) /\ OnlyMessaging
        BY <1>2, <2>4, MessagesWork DEF Arrive, MessagesNext, Works
    <2>5. CASE RatingBegin /\ OnlyRating
        BY <1>2, <2>5, RatingWorks DEF Arrive, RatingNext, Works
    <2>6. CASE SettingsBegin /\ OnlySettings
        BY <1>2, <2>6, SettingsWork DEF Arrive, SettingsNext, Works
    <2>7. CASE (\E r \in Requests : BeginBroadcast(r)) /\ OnlyBroadcasts
        BY <1>2, <2>7, BroadcastWorks DEF Arrive, BroadcastNext, Works
    <2>8. CASE UploadsBegin /\ OnlyUploads
        BY <1>2, <2>8, UploadsWork DEF Arrive, UploadsNext, Works
    <2> QED BY <1>2, <2>1, <2>2, <2>3, <2>4, <2>5, <2>6, <2>7, <2>8 DEF Arrive
<1>3. ASSUME NEW r \in Requests, Step(r)
      PROVE  Goal
    <2>1. CASE SessionsStep(r) /\ UNCHANGED browserVars /\ OnlyAccount
        BY <1>3, <2>1, SessionsWork DEF Step, AccountNext, Works
    <2>2. CASE BrowserStep(r) /\ OnlyAccount
        BY <1>3, <2>2, BrowserWorks DEF Step, AccountNext, Works
    <2>3. CASE FormsStep(r) /\ OnlyForms
        BY <1>3, <2>3, FormsWork DEF Step, FormsNext, Works
    <2>4. CASE (Store(r) \/ EndSend(r) \/ Emit(r) \/ (ConversationStep(r) /\ UNCHANGED panelVars)) /\ OnlyMessaging
        BY <1>3, <2>4, MessagesWork DEF Step, MessagesNext, Works
    <2>5. CASE RatingStep(r) /\ OnlyRating
        BY <1>3, <2>5, RatingWorks DEF Step, RatingNext, Works
    <2>6. CASE SettingsStep(r) /\ OnlySettings
        BY <1>3, <2>6, SettingsWork DEF Step, SettingsNext, Works
    <2>7. CASE BroadcastStep(r) /\ OnlyBroadcasts
        BY <1>3, <2>7, BroadcastWorks DEF Step, BroadcastNext, Works
    <2>8. CASE UploadsStep(r) /\ OnlyUploads
        BY <1>3, <2>8, UploadsWork DEF Step, UploadsNext, Works
    <2> QED BY <1>3, <2>1, <2>2, <2>3, <2>4, <2>5, <2>6, <2>7, <2>8 DEF Step
<1>4. ASSUME NEW r \in Requests, Die(r)
      PROVE  Shape' /\ UNCHANGED workload /\ Rests
    BY <1>4 DEF Die, Crash, Ends, Rests, Shape, CallShape, Idle
<1>5. ASSUME NEW s \in Sockets, Handle(s)
      PROVE  Shape' /\ UNCHANGED workload /\ AccountNext /\ Works(AccountOps) /\ OnlyAccount
    <2>1. Works(AccountOps)
        BY <1>5, IdleWorks DEF Handle, RequireActiveUser
    <2> QED BY <1>5, <2>1 DEF Handle, AccountNext, Works
<1>6. ASSUME NEW i \in Instances, Expire(i)
      PROVE  Shape' /\ UNCHANGED workload /\ SettingsNext /\ Works(SettingOps) /\ OnlySettings
    <2>1. Works(SettingOps)
        BY <1>6, IdleWorks DEF Expire, Age
    <2> QED BY <1>6, <2>1 DEF Expire, SettingsNext, Works
<1> QED BY <1>1, <1>2, <1>3, <1>4, <1>5, <1>6 DEF Next

\* What one part may rely on: it makes a step, or its rows and calls stay.
LEMMA WorksElsewhere ==
    ASSUME NEW ops, NEW others, Works(others), ops \cap (others \cup {"none"}) = {}
    PROVE  Untouched(ops)
BY DEF Works, Touches, Untouched

LEMMA RestsUntouched ==
    ASSUME NEW ops, Rests
    PROVE  Untouched(ops)
BY DEF Rests, Untouched

LEMMA AccountFrame ==
    ASSUME Shape, [Next]_vars
    PROVE  /\ Shape' /\ UNCHANGED workload
           /\ \/ AccountNext /\ Works(AccountOps)
              \/ UNCHANGED accountVars /\ Untouched(AccountOps)
<1>1. Shape' /\ UNCHANGED workload /\ OfOnePart
    BY PartStep
<1>2. \A others \in {FormOps, MessageOps, ReviewOps, {"BROADCAST"}, UploadOps, SettingOps} :
          AccountOps \cap (others \cup {"none"}) = {}
    BY DEF AccountOps, FormOps, MessageOps, SettingOps, UploadOps, ReviewOps, Revoking, Edits,
           Publishes, Sends
<1>3. Rests => UNCHANGED accountVars
    BY DEF Rests, accountVars, messagingVars
<1>4. (OnlyForms \/ OnlyMessaging \/ OnlyRating \/ OnlyBroadcasts \/ OnlyUploads \/ OnlySettings)
          => UNCHANGED accountVars
    BY DEF OnlyAccount, OnlyForms, OnlyMessaging, OnlyRating, OnlySettings, OnlyBroadcasts,
           OnlyUploads
<1> QED BY <1>1, <1>2, <1>3, <1>4, WorksElsewhere, RestsUntouched DEF OfOnePart

LEMMA FormsFrame ==
    ASSUME Shape, [Next]_vars
    PROVE  /\ Shape' /\ UNCHANGED workload
           /\ \/ FormsNext /\ Works(FormOps)
              \/ UNCHANGED formVars /\ Untouched(FormOps)
<1>1. Shape' /\ UNCHANGED workload /\ OfOnePart
    BY PartStep
<1>2. \A others \in {AccountOps, MessageOps, ReviewOps, {"BROADCAST"}, UploadOps, SettingOps} :
          FormOps \cap (others \cup {"none"}) = {}
    BY DEF AccountOps, FormOps, MessageOps, SettingOps, UploadOps, ReviewOps, Revoking, Edits,
           Publishes, Sends
<1>3. Rests => UNCHANGED formVars
    BY DEF Rests, accountVars, messagingVars
<1>4. (OnlyAccount \/ OnlyMessaging \/ OnlyRating \/ OnlyBroadcasts \/ OnlyUploads \/ OnlySettings)
          => UNCHANGED formVars
    BY DEF OnlyAccount, OnlyForms, OnlyMessaging, OnlyRating, OnlySettings, OnlyBroadcasts,
           OnlyUploads
<1> QED BY <1>1, <1>2, <1>3, <1>4, WorksElsewhere, RestsUntouched DEF OfOnePart

LEMMA MessagesFrame ==
    ASSUME Shape, [Next]_vars
    PROVE  /\ Shape' /\ UNCHANGED workload
           /\ \/ MessagesNext /\ Works(MessageOps)
              \/ UNCHANGED messagingVars /\ Untouched(MessageOps)
<1>1. Shape' /\ UNCHANGED workload /\ OfOnePart
    BY PartStep
<1>2. \A others \in {AccountOps, FormOps, ReviewOps, {"BROADCAST"}, UploadOps, SettingOps} :
          MessageOps \cap (others \cup {"none"}) = {}
    BY DEF AccountOps, FormOps, MessageOps, SettingOps, UploadOps, ReviewOps, Revoking, Edits,
           Publishes, Sends
<1>3. Rests => UNCHANGED messagingVars
    BY DEF Rests, accountVars, messagingVars
<1>4. (OnlyAccount \/ OnlyForms \/ OnlyRating \/ OnlyBroadcasts \/ OnlyUploads \/ OnlySettings)
          => UNCHANGED messagingVars
    BY DEF OnlyAccount, OnlyForms, OnlyMessaging, OnlyRating, OnlySettings, OnlyBroadcasts,
           OnlyUploads
<1> QED BY <1>1, <1>2, <1>3, <1>4, WorksElsewhere, RestsUntouched DEF OfOnePart

LEMMA RatingFrame ==
    ASSUME Shape, [Next]_vars
    PROVE  /\ Shape' /\ UNCHANGED workload
           /\ \/ RatingNext /\ Works(ReviewOps)
              \/ UNCHANGED ratingVars /\ Untouched(ReviewOps)
<1>1. Shape' /\ UNCHANGED workload /\ OfOnePart
    BY PartStep
<1>2. \A others \in {AccountOps, FormOps, MessageOps, {"BROADCAST"}, UploadOps, SettingOps} :
          ReviewOps \cap (others \cup {"none"}) = {}
    BY DEF AccountOps, FormOps, MessageOps, SettingOps, UploadOps, ReviewOps, Revoking, Edits,
           Publishes, Sends
<1>3. Rests => UNCHANGED ratingVars
    BY DEF Rests, accountVars, messagingVars
<1>4. (OnlyAccount \/ OnlyForms \/ OnlyMessaging \/ OnlyBroadcasts \/ OnlyUploads \/ OnlySettings)
          => UNCHANGED ratingVars
    BY DEF OnlyAccount, OnlyForms, OnlyMessaging, OnlyRating, OnlySettings, OnlyBroadcasts,
           OnlyUploads
<1> QED BY <1>1, <1>2, <1>3, <1>4, WorksElsewhere, RestsUntouched DEF OfOnePart

LEMMA BroadcastFrame ==
    ASSUME Shape, [Next]_vars
    PROVE  /\ Shape' /\ UNCHANGED workload
           /\ \/ BroadcastNext /\ Works({"BROADCAST"})
              \/ UNCHANGED broadcastVars /\ Untouched({"BROADCAST"})
<1>1. Shape' /\ UNCHANGED workload /\ OfOnePart
    BY PartStep
<1>2. \A others \in {AccountOps, FormOps, MessageOps, ReviewOps, UploadOps, SettingOps} :
          {"BROADCAST"} \cap (others \cup {"none"}) = {}
    BY DEF AccountOps, FormOps, MessageOps, SettingOps, UploadOps, ReviewOps, Revoking, Edits,
           Publishes, Sends
<1>3. Rests => UNCHANGED broadcastVars
    BY DEF Rests, accountVars, messagingVars
<1>4. (OnlyAccount \/ OnlyForms \/ OnlyMessaging \/ OnlyRating \/ OnlyUploads \/ OnlySettings)
          => UNCHANGED broadcastVars
    BY DEF OnlyAccount, OnlyForms, OnlyMessaging, OnlyRating, OnlySettings, OnlyBroadcasts,
           OnlyUploads
<1> QED BY <1>1, <1>2, <1>3, <1>4, WorksElsewhere, RestsUntouched DEF OfOnePart

LEMMA UploadsFrame ==
    ASSUME Shape, [Next]_vars
    PROVE  /\ Shape' /\ UNCHANGED workload
           /\ \/ UploadsNext /\ Works(UploadOps)
              \/ UNCHANGED uploadVars /\ Untouched(UploadOps)
<1>1. Shape' /\ UNCHANGED workload /\ OfOnePart
    BY PartStep
<1>2. \A others \in {AccountOps, FormOps, MessageOps, ReviewOps, {"BROADCAST"}, SettingOps} :
          UploadOps \cap (others \cup {"none"}) = {}
    BY DEF AccountOps, FormOps, MessageOps, SettingOps, UploadOps, ReviewOps, Revoking, Edits,
           Publishes, Sends
<1>3. Rests => UNCHANGED uploadVars
    BY DEF Rests, accountVars, messagingVars
<1>4. (OnlyAccount \/ OnlyForms \/ OnlyMessaging \/ OnlyRating \/ OnlyBroadcasts \/ OnlySettings)
          => UNCHANGED uploadVars
    BY DEF OnlyAccount, OnlyForms, OnlyMessaging, OnlyRating, OnlySettings, OnlyBroadcasts,
           OnlyUploads
<1> QED BY <1>1, <1>2, <1>3, <1>4, WorksElsewhere, RestsUntouched DEF OfOnePart
=============================================================================
