----------------------------- MODULE Community -----------------------------
(***************************************************************************)
(* The community side of the platform: accounts and their sessions, one    *)
(* conversation with a participant's panel, reviews, the platform's        *)
(* switches, broadcasts and uploads.  The parts share the server's calls   *)
(* in flight and the process that may die; each behaviour serves one of    *)
(* the workloads.                                                          *)
(***************************************************************************)
EXTENDS BrowserSession, ListingForms, ChatPanel, RatingCache, PlatformSettings, Broadcasts,
        Uploads

accountVars == <<sessionVars, browserVars>>
messagingVars == <<conversationVars, panelVars>>

vars == <<workload, req, accountVars, formVars, messagingVars, ratingVars,
          settingVars, broadcastVars, uploadVars>>

OnlyAccount == UNCHANGED <<formVars, messagingVars, ratingVars, settingVars,
                           broadcastVars, uploadVars>>
OnlyForms == UNCHANGED <<accountVars, messagingVars, ratingVars, settingVars,
                         broadcastVars, uploadVars>>
OnlyMessaging == UNCHANGED <<accountVars, formVars, ratingVars, settingVars,
                             broadcastVars, uploadVars>>
OnlyRating == UNCHANGED <<accountVars, formVars, messagingVars, settingVars,
                          broadcastVars, uploadVars>>
OnlySettings == UNCHANGED <<accountVars, formVars, messagingVars, ratingVars,
                            broadcastVars, uploadVars>>
OnlyBroadcasts == UNCHANGED <<accountVars, formVars, messagingVars, ratingVars,
                              settingVars, uploadVars>>
OnlyUploads == UNCHANGED <<accountVars, formVars, messagingVars, ratingVars,
                           settingVars, broadcastVars>>

Init ==
    /\ StoreInit
    /\ SessionsInit /\ BrowserInit /\ FormsInit /\ ConversationInit /\ PanelInit
    /\ RatingInit /\ SettingsInit /\ BroadcastInit /\ UploadsInit

\* The next step of a call that is in flight.
Step(r) ==
    /\ req[r].pc # "idle"
    /\ UNCHANGED workload
    /\ \/ SessionsStep(r) /\ UNCHANGED browserVars /\ OnlyAccount
       \/ BrowserStep(r) /\ OnlyAccount
       \/ FormsStep(r) /\ OnlyForms
       \/ ConversationStep(r) /\ UNCHANGED panelVars /\ OnlyMessaging
       \/ (Store(r) \/ EndSend(r) \/ Emit(r)) /\ OnlyMessaging
       \/ RatingStep(r) /\ OnlyRating
       \/ SettingsStep(r) /\ OnlySettings
       \/ BroadcastStep(r) /\ OnlyBroadcasts
       \/ UploadsStep(r) /\ OnlyUploads

\* A call arrives, or somebody or something outside the server acts.
Arrive ==
    /\ UNCHANGED workload
    /\ \/ SessionsBegin /\ UNCHANGED browserVars /\ OnlyAccount
       \/ BrowserBegin /\ OnlyAccount
       \/ FormsBegin /\ OnlyForms
       \/ ConversationBegin /\ UNCHANGED panelVars /\ OnlyMessaging
       \/ PanelNext /\ OnlyMessaging
       \/ RatingBegin /\ OnlyRating
       \/ SettingsBegin /\ OnlySettings
       \/ (\E r \in Requests : BeginBroadcast(r)) /\ OnlyBroadcasts
       \/ UploadsBegin /\ OnlyUploads

Handle(s) == RequireActiveUser(s) /\ UNCHANGED <<workload, browserVars>> /\ OnlyAccount

Deliver(a) == Receive(a) /\ UNCHANGED workload /\ OnlyMessaging

Expire(i) == Age(i) /\ Serves("GATE") /\ UNCHANGED workload /\ OnlySettings

Die(r) ==
    /\ Crash(r)
    /\ UNCHANGED <<workload, accountVars, formVars, messagingVars>>
    /\ UNCHANGED <<ratingVars, settingVars, broadcastVars, uploadVars>>

Next ==
    \/ Arrive
    \/ \E r \in Requests : Step(r) \/ Die(r)
    \/ \E s \in Sockets : Handle(s)
    \/ \E i \in Instances : Expire(i)

\* The server's event loop serves every call, and the copies of the settings
\* grow old, whatever else happens.
Fairness ==
    /\ \A r \in Requests : WF_vars(Step(r))
    /\ \A s \in Sockets : WF_vars(Handle(s))
    /\ WF_vars(\E a \in arrivals : Deliver(a))
    /\ \A i \in Instances : WF_vars(Expire(i))

Spec == Init /\ [][Next]_vars /\ Fairness

(***************************************************************************)
(* Properties                                                              *)
(***************************************************************************)
\* Every variable has its type: CommunityStore's calls and the rows, sockets,
\* panels and caches of the parts.
TypeOK ==
    /\ workload \in Workloads
    /\ \A r \in Requests :
          \/ req[r].op \in workload.ops \cup {"none", "READ"}
          \/ Serves("TAB") /\ req[r].op \in {"LOGIN", "REFRESH", "LOGOUT"}
    /\ status \in UserStatus
    /\ tokens \subseteq [id : 1..MaxTokens, epoch : 0..MaxRevocations]
    /\ issued \in 0..MaxTokens /\ logins \in 0..issued /\ revocations \in 0..MaxRevocations
    /\ resets \in Seq({"sent", "used"}) /\ Len(resets) <= MaxResets
    /\ sockets \in [Sockets -> [open : BOOLEAN, epoch : 0..MaxRevocations, event : BOOLEAN]]
    /\ cookie \in 0..issued
    /\ tabs \in [Tabs -> [page : {"closed", "loading", "ready"}, user : BOOLEAN,
                          token : BOOLEAN]]
    /\ projects \in Seq([status : {"DRAFT", "OPEN", "IN_PROGRESS"}, terms : SUBSET Terms])
    /\ form \in [id : 0..Len(projects), left : BOOLEAN] /\ Len(projects) <= MaxRows
    /\ bids \in [Bidders -> [status : {"none", "PENDING", "WITHDRAWN", "REJECTED", "ACCEPTED"},
                             terms : SUBSET Terms]]
    /\ opened \in BOOLEAN /\ late \in 0..Len(messages) /\ clock \in 0..MaxClock
    /\ messages \in Seq([from : Roles, read : BOOLEAN]) /\ Len(messages) <= MaxMessages
    /\ notes \in Seq([to : Roles, read : BOOLEAN]) /\ Len(notes) <= Len(messages)
    /\ panel \in [joined : BOOLEAN, list : {"none", "asked", "replied", "ready"},
                  reply : SUBSET DOMAIN messages, view : [1..MaxMessages -> Nat]]
    /\ arrivals \subseteq [kind : {"event", "ack", "answer"}, row : DOMAIN messages]
    /\ due \subseteq DOMAIN messages
    /\ reviews \in [Reviewers -> {"none", "visible", "hidden"}] /\ cached \subseteq Reviewers
    /\ stored \in BOOLEAN /\ cache \in [Instances -> BOOLEAN] /\ fresh \in [Instances -> BOOLEAN]
    /\ broadcasts \in Seq(Keys \cup {NoKey}) /\ Len(broadcasts) <= MaxBroadcasts
    /\ inbox \in [1..MaxBroadcasts -> [Audience -> Nat]]
    /\ images \cup photo \subseteq 1..uploaded /\ files \subseteq 1..uploaded

\* Refreshing does not multiply sessions: however refreshes of one account
\* overlap, it has no more refresh tokens than logins.
SessionsNotMultiplied ==
    Cardinality(tokens) + Cardinality({r \in Requests : At(r, "REFRESH", "issue")}) <= logins

SignIns == {"LOGIN", "REFRESH", "CONNECT"}
Revoking == {"MODERATE", "MODERATE_STAFF", "REVOKE", "RESET"}

\* A suspension, a ban, a revocation or a password reset ends the sessions
\* that began before it for good, tokens and, once disconnectUser() ran, sockets:
\* none comes back unless the call overlaps a login, a refresh or a connection,
\* and no socket stays unless the call is cut short before it.
RevokedForGood ==
    Apart(SignIns, Revoking) =>
        /\ \A token \in tokens : token.epoch = revocations
        /\ ~workload.crashes /\ (\A r \in Requests : req[r].pc # "disconnect") =>
              \A s \in Sockets : sockets[s].open => sockets[s].epoch = revocations

\* The browser's cookie is a live session whenever no call is in flight, however the
\* refreshes, logins and logouts of its tabs overlapped and their answers crossed, as
\* long as nobody revokes the sessions or presents the browser's tokens from elsewhere,
\* every tab waits for its answers and none is lost.  A tab shows a user exactly if it
\* can act for him, unless a login overlapped a refresh.
SessionSurvives ==
    Quiescent /\ ~Serves("LEAVE") /\ ~workload.crashes =>
        /\ cookie # 0 /\ revocations = 0 /\ ~Serves("REFRESH") /\ ~Serves("LOGOUT") =>
              \E token \in tokens : token.id = cookie
        /\ Apart({"LOGIN"}, {"REFRESH"}) => \A t \in Tabs : tabs[t].user <=> tabs[t].token

\* A proposal that is pending or was accepted is about the terms that the listing
\* still shows: they do not change under it, unless the edit overlaps the
\* submission or the acceptance.
TermsHeld ==
    Apart(Edits, {"BID", "HIRE"}) =>
        \A b \in Bidders :
            bids[b].status \in {"PENDING", "ACCEPTED"} => bids[b].terms = projects[1].terms

\* A visit to the new-project page creates one project, however often saving and
\* publishing fail and are tried again, if no answer is lost.
OneListing == ~workload.crashes => Len(projects) <= 1

\* A socket that stays behind after its account was suspended or banned is closed
\* by the next event that its user sends over it.
InactiveEventCloses ==
    \A s \in Sockets :
        sockets[s].event /\ status # "ACTIVE" ~> ~sockets[s].open \/ status = "ACTIVE"

UnreadNotes(who) == {n \in DOMAIN notes : notes[n].to = who /\ ~notes[n].read}

\* Messages and their notifications agree when the server is idle: who has an
\* unread notification of the conversation has an unread message, and, unless
\* notifications are read by themselves, the other way round.  Sending and
\* reading do not overlap.  However many messages arrive one at a time, there
\* is one unread notification for them.
UnreadAnnounced ==
    /\ Apart(Sends, Sends) => \A who \in Roles : Cardinality(UnreadNotes(who)) <= 1
    /\ Quiescent /\ Apart(Sends, {"READ"}) /\ ~workload.crashes =>
        \A who \in Roles :
            LET unread == \E m \in DOMAIN messages :
                              messages[m].from # who /\ ~messages[m].read
            IN /\ UnreadNotes(who) # {} => unread
               /\ unread /\ ~Serves("READ_NOTES") => UnreadNotes(who) # {}

\* After a rejection, a withdrawal, a closing or a cancellation the conversation
\* takes no message but those that were being sent at that moment: one, if
\* messages are sent one at a time.
ClosedConversationStops ==
    late <= IF Apart(Sends, Sends) THEN 1 ELSE Cardinality(Requests)

\* Whatever the instants, no period of a window's length sees more than twice
\* the limit of a user's messages or typing events.
RateKept ==
    \A key \in Limiters, start \in 0..MaxClock :
        LET Period == {t \in DOMAIN admitted[key] : t \in start .. start + Window - 1}
        IN SumFunctionOnSet(admitted[key], Period) <= 2 * LimitOf(key)

NeverTwice == \A m \in 1..MaxMessages : panel.view[m] <= 1

\* A panel never shows a message twice, although its list, an event and an
\* acknowledgement may all bring it, in any order, and an HTTP answer is added without
\* looking for it.  It comes to show, and keeps, every message that is sent over the
\* socket while it is live, its list shown and its socket in the room, and every one
\* that is returned to it, if its socket is not dropped.
ShownOnce ==
    /\ []NeverTwice
    /\ ~Serves("DROP") => \A m \in 1..MaxMessages : m \in due ~> [](panel.view[m] = 1)

\* The cached average is that of the visible reviews after every transaction
\* that ran alone, also when earlier ones had overlapped and left it stale.
CacheHeals == clean => cached = VisibleReviews

\* Once the administrators leave a switch alone, every instance comes to decide
\* by its stored value, and goes on to.
EventuallyEnforced ==
    <>[][\A r \in Requests :
            At(r, "GATE", "decide") /\ req'[r] = Idle => cache[req[r].who] = stored]_vars

\* However calls with one idempotency key overlap, are repeated later or die half-way,
\* nobody is notified twice: the unique key lets one of them create the row, and only
\* that one delivers.  A call without a key notifies once.  (A call with a new key, as
\* the admin page makes for every attempt, is another broadcast and notifies again.)
NotifiedOnce ==
    \A i \in DOMAIN broadcasts, u \in Audience :
        /\ inbox[i][u] <= 1
        /\ \A j \in WithKey(broadcasts[i]) \ {i} : inbox[i][u] + inbox[j][u] <= 1

\* A broadcast whose row exists reaches its whole audience, if no process dies.
BroadcastReaches == \A i \in 1..MaxBroadcasts :
    i \in DOMAIN broadcasts /\ ~workload.crashes ~> \A u \in Audience : inbox[i][u] = 1

\* No row points to a file that is gone: an image's never, the photo's not when
\* the server is idle and no call was cut short.
RowsHaveFiles ==
    /\ images \subseteq files
    /\ Quiescent /\ ~workload.crashes => photo \subseteq files
=============================================================================
