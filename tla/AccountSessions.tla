-------------------------- MODULE AccountSessions --------------------------
(***************************************************************************)
(* The sessions of one account: its refresh tokens, which every refresh    *)
(* replaces, its sockets, and the calls that end all of them: an           *)
(* administrator's moderation or revocation, and a password reset.         *)
(*                                                                         *)
(* An access token is valid until it expires whatever happens to the       *)
(* account; the status is read again by every request and socket event.    *)
(***************************************************************************)
EXTENDS CommunityStore

CONSTANTS
    Sockets,    \* connections that the account's browsers may open
    MaxTokens,  \* bound: refresh tokens that are issued
    MaxResets,  \* bound: password reset tokens
    MaxRevocations  \* bound: calls that end the account's sessions

ASSUME SessionsAssumption ==
    MaxTokens \in Nat /\ MaxResets \in Nat /\ MaxRevocations \in Nat

VARIABLES
    status,       \* User.status
    tokens,       \* RefreshToken rows: the token and the number of
                  \* revocations before its issuer had read the account
    issued,       \* tokens issued so far
    logins,       \* tokens issued by a login (history)
    revocations,  \* times that all sessions were ended (history)
    resets,       \* PasswordResetToken rows: used or not
    sockets       \* the server's sockets

sessionVars == <<status, tokens, issued, logins, revocations, resets, sockets>>

UserStatus == {"ACTIVE", "SUSPENDED", "BANNED"}

NoSocket == [open |-> FALSE, epoch |-> 0, event |-> FALSE]

\* assertValidStatusTransition
StatusChange == [ACTIVE |-> {"SUSPENDED", "BANNED"}, SUSPENDED |-> {"ACTIVE", "BANNED"},
                 BANNED |-> {"ACTIVE"}]

(***************************************************************************)
(* Issuing tokens                                                          *)
(***************************************************************************)
\* The call ends with a token or with a refusal; the browser that BrowserSession
\* follows still has to take the answer, and who sends from elsewhere is not followed.
Answers(r, pc, token) ==
    IF req[r].who = "nobody" THEN Ends(r)
    ELSE req' = [req EXCEPT ![r].pc = pc, ![r].row = token]

Issuing == {r \in Requests : req[r].op \in {"LOGIN", "REFRESH"}}

CanIssue == issued + Cardinality(Issuing) < MaxTokens

BeginLogin(r) ==
    /\ Begins(r, "LOGIN")
    /\ CanIssue /\ status = "ACTIVE"
    /\ Starts(r, "LOGIN", "issue", "nobody", revocations, {})
    /\ UNCHANGED sessionVars

\* Any browser may present any token it was ever given.
BeginRefresh(r) ==
    /\ Begins(r, "REFRESH")
    /\ CanIssue /\ status = "ACTIVE"
    /\ \E token \in tokens : Starts(r, "REFRESH", "delete", "nobody", revocations, {token.id})
    /\ UNCHANGED sessionVars

\* Mutant: deleteMany, which does not mind that the row is gone.
DeleteAnyway(r) ==
    /\ At(r, "REFRESH", "delete")
    /\ tokens' = {token \in tokens : token.id \notin req[r].seen}
    /\ Goto(r, "issue")
    /\ UNCHANGED <<status, issued, logins, revocations, resets, sockets>>

\* delete() throws if the row is gone.
DeleteToken(r) ==
    /\ At(r, "REFRESH", "delete")
    /\ tokens' = {token \in tokens : token.id \notin req[r].seen}
    /\ IF tokens' = tokens THEN Answers(r, "refused", 0) ELSE Goto(r, "issue")
    /\ UNCHANGED <<status, issued, logins, revocations, resets, sockets>>

IssueTokens(r) ==
    /\ req[r].pc = "issue"
    /\ issued' = issued + 1
    /\ tokens' = tokens \cup {[id |-> issued', epoch |-> req[r].row]}
    /\ logins' = IF req[r].op = "LOGIN" THEN logins + 1 ELSE logins
    /\ Answers(r, "answered", issued')
    /\ UNCHANGED <<status, revocations, resets, sockets>>

\* Any browser may present any token.
Logout ==
    /\ Serves("LOGOUT")
    /\ \E token \in tokens : tokens' = tokens \ {token}
    /\ UNCHANGED <<req, status, issued, logins, revocations, resets, sockets>>

(***************************************************************************)
(* Ending all sessions                                                     *)
(***************************************************************************)
CanRevoke == revocations + Cardinality({r \in Requests : req[r].pc = "revoke"}) < MaxRevocations

\* suspend, ban, reactivate
BeginModerate(r) ==
    /\ Begins(r, "MODERATE")
    /\ CanRevoke
    /\ \E to \in StatusChange[status] : Starts(r, "MODERATE", "revoke", to, 0, {})
    /\ UNCHANGED sessionVars

\* suspendAdmin, reactivateAdmin: whatever the status of the colleague's account is.
BeginModerateStaff(r) ==
    /\ Begins(r, "MODERATE_STAFF")
    /\ CanRevoke
    /\ \E to \in {"SUSPENDED", "ACTIVE"} : Starts(r, "MODERATE_STAFF", "revoke", to, 0, {})
    /\ UNCHANGED sessionVars

BeginRevoke(r) ==
    /\ Begins(r, "REVOKE")
    /\ CanRevoke
    /\ Starts(r, "REVOKE", "revoke", "nobody", 0, {})
    /\ UNCHANGED sessionVars

ForgotPassword ==
    /\ Serves("RESET")
    /\ Len(resets) < MaxResets
    /\ resets' = Append(resets, "sent")
    /\ UNCHANGED <<req, status, tokens, issued, logins, revocations, sockets>>

BeginReset(r) ==
    /\ Begins(r, "RESET")
    /\ CanRevoke
    /\ \E i \in DOMAIN resets : resets[i] = "sent" /\ Starts(r, "RESET", "revoke", "nobody", i, {})
    /\ UNCHANGED sessionVars

\* Mutant: a suspension leaves the refresh tokens.
EndsBanned(call) == call.who # "ACTIVE" /\ call.who # "SUSPENDED"

\* Whether the transaction deletes the account's refresh tokens.
EndsSessions(call) == call.who # "ACTIVE"

\* The transaction; the sockets are disconnected after it.
RevokeSessions(r) ==
    LET call == req[r]
    IN /\ call.pc = "revoke"
       /\ status' = IF call.op \in {"MODERATE", "MODERATE_STAFF"} THEN call.who ELSE status
       /\ resets' = IF call.op = "RESET" THEN [resets EXCEPT ![call.row] = "used"] ELSE resets
       /\ tokens' = IF EndsSessions(call) THEN {} ELSE tokens
       /\ IF call.who = "ACTIVE"
          THEN revocations' = revocations /\ Ends(r)
          ELSE revocations' = revocations + 1 /\ Goto(r, "disconnect")
       /\ UNCHANGED <<issued, logins, sockets>>

\* disconnectUser: the sockets in the account's room.
DisconnectUser(r) ==
    /\ req[r].pc = "disconnect"
    /\ sockets' = [s \in Sockets |-> NoSocket]
    /\ Ends(r)
    /\ UNCHANGED <<status, tokens, issued, logins, revocations, resets>>

(***************************************************************************)
(* Sockets                                                                 *)
(***************************************************************************)
\* The handshake's middleware reads the account's status.
BeginConnect(r) ==
    /\ Begins(r, "CONNECT")
    /\ status = "ACTIVE"
    /\ \E s \in Sockets :
          /\ ~sockets[s].open
          /\ \A other \in InFlight("CONNECT") : s \notin req[other].seen
          /\ Starts(r, "CONNECT", "join", "nobody", revocations, {s})
    /\ UNCHANGED sessionVars

\* handleConnection joins the account's room.
JoinUserRoom(r) ==
    /\ At(r, "CONNECT", "join")
    /\ \E s \in req[r].seen :
          sockets' = [sockets EXCEPT ![s] = [open |-> TRUE, epoch |-> req[r].row, event |-> FALSE]]
    /\ Ends(r)
    /\ UNCHANGED <<status, tokens, issued, logins, revocations, resets>>

ReceiveEvent(s) ==
    /\ Serves("EVENT")
    /\ sockets[s].open /\ ~sockets[s].event
    /\ sockets' = [sockets EXCEPT ![s].event = TRUE]
    /\ UNCHANGED <<req, status, tokens, issued, logins, revocations, resets>>

\* Mutant: the user that the handshake stored is trusted.
TrustHandshake(s) ==
    /\ sockets[s].event
    /\ sockets' = [sockets EXCEPT ![s].event = FALSE]
    /\ UNCHANGED <<req, status, tokens, issued, logins, revocations, resets>>

\* requireActiveUser, the first step of every event's handler.
RequireActiveUser(s) ==
    /\ sockets[s].event
    /\ sockets' = [sockets EXCEPT ![s] = IF status = "ACTIVE" THEN [@ EXCEPT !.event = FALSE]
                                                              ELSE NoSocket]
    /\ UNCHANGED <<req, status, tokens, issued, logins, revocations, resets>>

SessionsInit ==
    /\ status = "ACTIVE"
    /\ tokens = {} /\ issued = 0 /\ logins = 0 /\ revocations = 0
    /\ resets = <<>>
    /\ sockets = [s \in Sockets |-> NoSocket]

SessionsBegin ==
    \/ \E r \in Requests : \/ BeginLogin(r) \/ BeginRefresh(r) \/ BeginModerate(r)
                           \/ BeginModerateStaff(r) \/ BeginRevoke(r) \/ BeginReset(r)
                           \/ BeginConnect(r)
    \/ Logout
    \/ ForgotPassword
    \/ \E s \in Sockets : ReceiveEvent(s)

SessionsStep(r) ==
    \/ DeleteToken(r) \/ IssueTokens(r) \/ RevokeSessions(r) \/ DisconnectUser(r)
    \/ JoinUserRoom(r)
=============================================================================
