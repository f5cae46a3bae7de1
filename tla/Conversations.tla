--------------------------- MODULE Conversations ---------------------------
(***************************************************************************)
(* The conversation about one proposal: it is opened, written to and read  *)
(* by two participants while proposal and project move on.  A message is   *)
(* stored in a transaction; its notification follows in two statements.    *)
(***************************************************************************)
EXTENDS CommunityStore, Functions

CONSTANTS
    MessageLimit,  \* messages a window admits of one user
    TypingLimit,   \* typing events a window admits of one user
    Window,        \* ticks until an entry's resetAt
    MaxClock,      \* bound: ticks
    MaxMessages    \* bound: messages stored

ASSUME ConversationAssumption ==
    /\ MessageLimit \in Nat \ {0} /\ TypingLimit \in Nat \ {0} /\ Window \in Nat
    /\ MaxClock \in Nat /\ MaxMessages \in Nat

VARIABLES
    market,    \* the proposal's and the project's status
    opened,    \* whether the Conversation row exists
    messages,  \* Message rows: sender, readAt is set
    notes,     \* NEW_MESSAGE Notification rows of this conversation: to, isRead
    late,      \* messages stored when the conversation was closed (history)
    clock,
    rate,      \* the limiters' entries: of the messages of each participant,
               \* and of the typing events of one of them, the typist
    admitted   \* per limiter and tick, what it admitted (history)

conversationVars == <<market, opened, messages, notes, late, clock, rate, admitted>>

Roles == {"CLIENT", "FREELANCER"}
Limiters == Roles \cup {"typist"}

OtherRole(who) == CHOOSE other \in Roles : other # who

(***************************************************************************)
(* What the proposal and the project allow                                 *)
(***************************************************************************)
Market(proposal, project) == [proposal |-> proposal, project |-> project]

\* Rejected, withdrawn or accepted; another proposal accepted, the listing
\* closed by its client (who rejects it) or by an administrator, cancelled.
MarketSteps(m) ==
    CASE m = Market("PENDING", "OPEN") ->
            {Market("REJECTED", "OPEN"), Market("WITHDRAWN", "OPEN"),
             Market("ACCEPTED", "IN_PROGRESS"), Market("REJECTED", "IN_PROGRESS"),
             Market("PENDING", "CLOSED"), Market("REJECTED", "CLOSED"),
             Market("REJECTED", "CANCELLED")}
      [] m = Market("ACCEPTED", "IN_PROGRESS") -> {Market("ACCEPTED", "COMPLETED")}
      [] OTHER -> {}

MarketMoves ==
    /\ Serves("MARKET")
    /\ market' \in MarketSteps(market)
    /\ UNCHANGED <<req, opened, messages, notes, late, clock, rate, admitted>>

\* assertCanCreateConversation
CanCreate(who) ==
    /\ market.proposal \notin {"REJECTED", "WITHDRAWN"}
    /\ market.project \notin {"CANCELLED", "CLOSED", "COMPLETED", "DRAFT"}
    /\ who = "FREELANCER" => market.proposal = "ACCEPTED"

\* Mutant: only the project's status counts.
CanSendOpen ==
    market.project \in {"COMPLETED", "IN_PROGRESS", "OPEN"}

\* canSendMessages
CanSend ==
    \/ market.project \in {"COMPLETED", "IN_PROGRESS"} /\ market.proposal = "ACCEPTED"
    \/ market.project = "OPEN" /\ market.proposal \in {"PENDING", "ACCEPTED"}

BeginOpen(r) ==
    /\ Begins(r, "OPEN")
    /\ ~opened
    /\ \E who \in Roles : CanCreate(who) /\ Starts(r, "OPEN", "create", who, 0, {})
    /\ UNCHANGED conversationVars

\* The key is unique: who comes second is given the conversation of the first.
CreateConversation(r) ==
    /\ At(r, "OPEN", "create")
    /\ opened' = TRUE
    /\ Ends(r)
    /\ UNCHANGED <<market, messages, notes, late, clock, rate, admitted>>

(***************************************************************************)
(* The limiters of messages and of typing events                           *)
(***************************************************************************)
LimitOf(key) == IF key = "typist" THEN TypingLimit ELSE MessageLimit

\* Mutant: > for >=.
ThrottlesLate(entry, limit) == clock <= entry.resetAt /\ entry.count > limit

Throttles(entry, limit) == clock <= entry.resetAt /\ entry.count >= limit

\* The entry after one more event: a new window's, or the same one's.
OneMoreOf(entry) ==
    IF entry.count = 0 \/ clock > entry.resetAt THEN [count |-> 1, resetAt |-> clock + Window]
    ELSE [entry EXCEPT !.count = @ + 1]

\* assertRateLimit, assertTypingRateLimit
Counts(key) ==
    /\ rate' = [rate EXCEPT ![key] = OneMoreOf(@)]
    /\ admitted' = [admitted EXCEPT ![key][clock] = @ + 1]

\* The typing:start and typing:stop events of a participant.
Typing ==
    /\ Serves("TYPE")
    /\ ~Throttles(rate["typist"], TypingLimit)
    /\ Counts("typist")
    /\ UNCHANGED <<req, market, opened, messages, notes, late, clock>>

Tick ==
    /\ Serves("TICK")
    /\ clock < MaxClock
    /\ clock' = clock + 1
    /\ UNCHANGED <<req, market, opened, messages, notes, late, rate, admitted>>

(***************************************************************************)
(* Sending: SEND over the socket, POST over HTTP                           *)
(***************************************************************************)
Sends == {"SEND", "POST"}

Sending == {r \in Requests : req[r].pc = "store"}

\* The limiter counts the attempt before the conversation is read.
BeginSend(r, op, who) ==
    /\ Begins(r, op)
    /\ opened /\ Len(messages) + Cardinality(Sending) < MaxMessages
    /\ ~Throttles(rate[who], MessageLimit)
    /\ Counts(who)
    /\ IF CanSend THEN Starts(r, op, "store", who, 0, {}) ELSE UNCHANGED req
    /\ UNCHANGED <<market, opened, messages, notes, late, clock>>

StoreMessage(r) ==
    /\ req[r].pc = "store"
    /\ messages' = Append(messages, [from |-> req[r].who, read |-> FALSE])
    /\ late' = IF market.proposal \in {"REJECTED", "WITHDRAWN"}
                  \/ market.project \in {"CANCELLED", "CLOSED"} THEN late + 1 ELSE late
    /\ req' = [req EXCEPT ![r].pc = "lookup", ![r].row = Len(messages')]
    /\ UNCHANGED <<market, opened, notes, clock, rate, admitted>>

\* Mutant: a read notification is taken for the conversation's.
FindAnyNote(to) == {n \in DOMAIN notes : notes[n].to = to}

FindUnreadNote(to) == {n \in DOMAIN notes : notes[n].to = to /\ ~notes[n].read}

LookupNote(r) ==
    /\ req[r].pc = "lookup"
    /\ req' = [req EXCEPT ![r].pc = "announce", ![r].seen = FindUnreadNote(OtherRole(req[r].who))]
    /\ UNCHANGED conversationVars

\* An unread notification of the conversation only gets a new text.
AnnouncesAnew(call) == call.seen = {}

Announce(r) ==
    /\ req[r].pc = "announce"
    /\ notes' = IF AnnouncesAnew(req[r])
                THEN Append(notes, [to |-> OtherRole(req[r].who), read |-> FALSE])
                ELSE notes
    /\ IF req[r].op = "SEND" THEN Goto(r, "emit") ELSE Ends(r)
    /\ UNCHANGED <<market, opened, messages, late, clock, rate, admitted>>

(***************************************************************************)
(* Reading                                                                 *)
(***************************************************************************)
BeginRead(r, who) ==
    /\ Begins(r, "READ")
    /\ opened
    /\ Starts(r, "READ", "messages", who, 0, {})
    /\ UNCHANGED conversationVars

MarkMessagesRead(r) ==
    /\ At(r, "READ", "messages")
    /\ messages' = [m \in DOMAIN messages |->
          IF messages[m].from # req[r].who THEN [messages[m] EXCEPT !.read = TRUE]
                                           ELSE messages[m]]
    /\ Goto(r, "notes")
    /\ UNCHANGED <<market, opened, notes, late, clock, rate, admitted>>

NotesRead(who) ==
    notes' = [n \in DOMAIN notes |->
                 IF notes[n].to = who THEN [notes[n] EXCEPT !.read = TRUE] ELSE notes[n]]

\* markReadByTargetUrl
MarkNotesRead(r) ==
    /\ At(r, "READ", "notes")
    /\ NotesRead(req[r].who)
    /\ Ends(r)
    /\ UNCHANGED <<market, opened, messages, late, clock, rate, admitted>>

\* The bell: markAllRead, and markRead of the one notification.
ReadNotes ==
    /\ Serves("READ_NOTES")
    /\ \E who \in Roles : NotesRead(who) /\ notes' # notes
    /\ UNCHANGED <<req, market, opened, messages, late, clock, rate, admitted>>

ConversationInit ==
    /\ market = Market("PENDING", "OPEN")
    /\ opened = FALSE
    /\ messages = <<>> /\ notes = <<>> /\ late = 0 /\ clock = 0
    /\ rate = [key \in Limiters |-> [count |-> 0, resetAt |-> 0]]
    /\ admitted = [key \in Limiters |-> [tick \in 0..MaxClock |-> 0]]

ConversationBegin ==
    \/ \E r \in Requests, who \in Roles : BeginRead(r, who)
    \/ \E r \in Requests, op \in Sends, who \in Roles : BeginSend(r, op, who)
    \/ \E r \in Requests : BeginOpen(r)
    \/ MarketMoves
    \/ Typing
    \/ Tick
    \/ ReadNotes

\* Storing a message and ending its call concern the panel as well.
ConversationStep(r) ==
    CreateConversation(r) \/ LookupNote(r) \/ MarkMessagesRead(r) \/ MarkNotesRead(r)
=============================================================================
