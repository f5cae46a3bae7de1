--------------------------- MODULE BrowserSession ---------------------------
(***************************************************************************)
(* One browser of the account: the refresh cookie that its tabs share and, *)
(* in every tab, what the AuthProvider holds.  A tab that is opened or     *)
(* reloaded refreshes the session; the calls of the tabs are served by     *)
(* AccountSessions, and their answers, which set or clear the cookie,      *)
(* arrive in any order.                                                    *)
(***************************************************************************)
EXTENDS AccountSessions

CONSTANT Tabs

ASSUME TabsAssumption == "nobody" \notin Tabs

VARIABLES
    cookie,  \* id of the refresh token in the browser's cookie, 0 for none
    tabs     \* per tab: its page, whether it shows a user and holds an access token

browserVars == <<cookie, tabs>>

NoPage == [page |-> "closed", user |-> FALSE, token |-> FALSE]

TabCalls(t) == {r \in Requests : req[r].op \in {"LOGIN", "REFRESH", "LOGOUT"} /\ req[r].who = t}

TabStarts(r, t, op, pc, seen) ==
    /\ Serves("TAB")
    /\ MayStart(r, op)
    /\ Starts(r, op, pc, t, revocations, seen)

SetTab(t, user, token) == tabs' = [tabs EXCEPT ![t].user = user, ![t].token = token]

\* The provider mounts and refreshes.  refresh() refuses a cookie that is no
\* token's, and an account that is not active.
Bootstrap(r, t) ==
    /\ tabs[t].page = "closed"
    /\ CanIssue
    /\ LET live == status = "ACTIVE" /\ \E token \in tokens : token.id = cookie
       IN TabStarts(r, t, "REFRESH", IF live THEN "delete" ELSE "refused", {cookie})
    /\ tabs' = [tabs EXCEPT ![t].page = "loading"]
    /\ UNCHANGED <<cookie, sessionVars>>

\* The login form is there while the provider still loads.
SubmitLogin(r, t) ==
    /\ tabs[t].page # "closed" /\ TabCalls(t) \cap InFlight("LOGIN") = {}
    /\ CanIssue /\ status = "ACTIVE"
    /\ TabStarts(r, t, "LOGIN", "issue", {})
    /\ UNCHANGED <<browserVars, sessionVars>>

ClickLogout(r, t) ==
    /\ tabs[t].user
    /\ TabStarts(r, t, "LOGOUT", "forget", {cookie})
    /\ UNCHANGED <<browserVars, sessionVars>>

\* logout() deletes the cookie's token, if it is still there.
ForgetToken(r) ==
    /\ At(r, "LOGOUT", "forget")
    /\ tokens' = {token \in tokens : token.id \notin req[r].seen}
    /\ Answers(r, "answered", 0)
    /\ UNCHANGED <<status, issued, logins, revocations, resets, sockets, browserVars>>

(***************************************************************************)
(* Answers                                                                 *)
(***************************************************************************)
\* Mutant: the controller answers a refresh without the new cookie.
CookieOfLogin(call) == IF call.op = "REFRESH" THEN cookie ELSE call.row

\* setRefreshCookie, clearRefreshCookie; a refusal leaves the cookie alone.
CookieAfter(call) == call.row

\* The answer to a login or logout ends the call; after a refresh the tab has an
\* access token and asks who the user is.
TakeAnswer(r) ==
    LET call == req[r]
    IN /\ call.pc = "answered"
       /\ cookie' = CookieAfter(call)
       /\ CASE call.op = "LOGIN"   -> SetTab(call.who, TRUE, TRUE) /\ Ends(r)
            [] call.op = "LOGOUT"  -> SetTab(call.who, FALSE, FALSE) /\ Ends(r)
            [] call.op = "REFRESH" -> /\ SetTab(call.who, tabs[call.who].user, TRUE)
                                      /\ Goto(r, "me")
       /\ UNCHANGED sessionVars

\* getMe: the user is shown, or the session cleared.
TakeMe(r) ==
    LET t == req[r].who IN
    /\ At(r, "REFRESH", "me")
    /\ tabs' = IF status = "ACTIVE"
               THEN [tabs EXCEPT ![t].page = "ready", ![t].user = TRUE]
               ELSE [tabs EXCEPT ![t] = [NoPage EXCEPT !.page = "ready"]]
    /\ Ends(r)
    /\ UNCHANGED <<cookie, sessionVars>>

\* The bootstrap's catch clears whatever the tab shows by then.
TakeRefusal(r) ==
    /\ req[r].pc = "refused"
    /\ tabs' = [tabs EXCEPT ![req[r].who] = [NoPage EXCEPT !.page = "ready"]]
    /\ Ends(r)
    /\ UNCHANGED <<cookie, sessionVars>>

\* The page is closed or reloaded: the server goes on with the tab's calls,
\* and nobody takes their answers.
Leave(t) ==
    /\ Serves("LEAVE")
    /\ tabs[t].page # "closed"
    /\ tabs' = [tabs EXCEPT ![t] = NoPage]
    /\ req' = [r \in Requests |->
                  IF r \notin TabCalls(t) THEN req[r]
                  ELSE IF req[r].pc \in {"answered", "refused", "me"} THEN Idle
                  ELSE [req[r] EXCEPT !.who = "nobody"]]
    /\ UNCHANGED <<cookie, sessionVars>>

BrowserInit == cookie = 0 /\ tabs = [t \in Tabs |-> NoPage]

BrowserBegin ==
    \E t \in Tabs : \/ \E r \in Requests : Bootstrap(r, t) \/ SubmitLogin(r, t) \/ ClickLogout(r, t)
                    \/ Leave(t)

BrowserStep(r) == ForgetToken(r) \/ TakeAnswer(r) \/ TakeMe(r) \/ TakeRefusal(r)
=============================================================================
