----------------------------- MODULE ChatPanel -----------------------------
(***************************************************************************)
(* One participant's chat panel: it joins the conversation's room, asks    *)
(* for the list of messages and shows the reply, and adds what arrives: an *)
(* event for every message that is emitted into the room, the              *)
(* acknowledgement of a message that it sent over the socket itself, and   *)
(* the answer to one that it sent over HTTP, its fallback when the socket  *)
(* refuses.  The list replaces what was shown before it.                   *)
(***************************************************************************)
EXTENDS Conversations

CONSTANT Reader  \* whose panel it is

ASSUME ReaderAssumption == Reader \in Roles

VARIABLES
    panel,     \* joined: the server has put its socket into the room; list: "none",
               \* "asked", "replied" or "ready"; reply: the messages of the list;
               \* view: how many times each message is shown
    arrivals,  \* what is on its way to the panel: "event", "ack" or "answer", and
               \* the message
    due        \* messages stored when the panel was live, or returned to it (history)

panelVars == <<panel, arrivals, due>>

PanelLive == panel.joined /\ panel.list = "ready"

OpenPanel ==
    /\ Serves("PANEL")
    /\ opened /\ panel.list = "none"
    /\ panel' = [panel EXCEPT !.list = "asked"]
    /\ UNCHANGED <<req, conversationVars, arrivals, due>>

ListMessages ==
    /\ panel.list = "asked"
    /\ panel' = [panel EXCEPT !.list = "replied", !.reply = DOMAIN messages]
    /\ UNCHANGED <<req, conversationVars, arrivals, due>>

OnceEach(rows) == [m \in 1..MaxMessages |-> IF m \in rows THEN 1 ELSE 0]

\* setMessages(msgs.items), then markRead.
ShowList(r) ==
    /\ panel.list = "replied"
    /\ MayStart(r, "READ")
    /\ Starts(r, "READ", "messages", Reader, 0, {})
    /\ panel' = [panel EXCEPT !.list = "ready", !.view = OnceEach(panel.reply)]
    /\ UNCHANGED <<conversationVars, arrivals, due>>

\* conversation:join, which is emitted again after a reconnection.
JoinRoom ==
    /\ panel.list # "none" /\ ~panel.joined
    /\ panel' = [panel EXCEPT !.joined = TRUE]
    /\ UNCHANGED <<req, conversationVars, arrivals, due>>

\* What is on its way over the socket is lost; the answer to an HTTP call is not.
DropSocket ==
    /\ Serves("DROP")
    /\ panel.joined
    /\ panel' = [panel EXCEPT !.joined = FALSE]
    /\ arrivals' = {a \in arrivals : a.kind = "answer"}
    /\ UNCHANGED <<req, conversationVars, due>>

Store(r) ==
    /\ StoreMessage(r)
    /\ due' = IF PanelLive /\ req[r].op = "SEND" THEN due \cup {Len(messages')} ELSE due
    /\ UNCHANGED <<panel, arrivals>>

\* The panel sends once its list is shown; its participant may also send from elsewhere.
MayBeOwn(r) == req[r].who = Reader /\ panel.list = "ready" /\ req[r].row \notin panel.reply

Puts(r, kinds) ==
    /\ arrivals' = arrivals \cup [kind : kinds, row : {req[r].row}]
    /\ due' = IF kinds \subseteq {"event"} THEN due ELSE due \cup {req[r].row}

RoomEvent == IF panel.joined THEN {"event"} ELSE {}

\* The gateway emits after sendMessage has returned, then acknowledges.
Emit(r) ==
    /\ At(r, "SEND", "emit")
    /\ \/ Puts(r, RoomEvent)
       \/ MayBeOwn(r) /\ Puts(r, RoomEvent \cup {"ack"})
    /\ Ends(r)
    /\ UNCHANGED <<conversationVars, panel>>

\* The notification is the end of sendMessage: the controller only answers.
EndSend(r) ==
    /\ Announce(r)
    /\ \/ UNCHANGED <<arrivals, due>>
       \/ req[r].op = "POST" /\ MayBeOwn(r) /\ Puts(r, {"answer"})
    /\ UNCHANGED panel

\* Mutant: what arrives is added without looking for its id.
ShowsAgain(a) == panel.view[a.row] + 1

\* Mutant: the panel leaves its participant's messages to the acknowledgement.
ShowsForeign(a) ==
    IF a.kind = "event" /\ messages[a.row].from = Reader THEN panel.view[a.row] ELSE 1

\* How many times it is shown then: an answer is added in any case, the others
\* unless their message is there.
Shows(a) ==
    IF a.kind = "answer" THEN panel.view[a.row] + 1
    ELSE IF panel.view[a.row] = 0 THEN 1 ELSE panel.view[a.row]

Receive(a) ==
    /\ arrivals' = arrivals \ {a}
    /\ panel' = [panel EXCEPT !.view[a.row] = Shows(a)]
    /\ UNCHANGED <<req, conversationVars, due>>

PanelInit ==
    /\ panel = [joined |-> FALSE, list |-> "none", reply |-> {}, view |-> OnceEach({})]
    /\ arrivals = {} /\ due = {}

PanelNext ==
    \/ OpenPanel
    \/ ListMessages
    \/ \E r \in Requests : ShowList(r)
    \/ JoinRoom
    \/ DropSocket
    \/ \E a \in arrivals : Receive(a)
=============================================================================
