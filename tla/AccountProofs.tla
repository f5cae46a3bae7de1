--------------------------- MODULE AccountProofs ---------------------------
(***************************************************************************)
(* The sessions of an account for any number of calls in flight, tabs,     *)
(* sockets, tokens and revocations; the cookie and the tabs of a browser.  *)
(***************************************************************************)
EXTENDS CommunityFrame, FiniteSetTheorems

-----------------------------------------------------------------------------
(***************************************************************************)
(* The number of sessions                                                  *)
(***************************************************************************)
\* Refreshes that have deleted their token and have not issued the next one.
Exchanging == {r \in Requests : At(r, "REFRESH", "issue")}

CountInv ==
    /\ IsFiniteSet(tokens)
    /\ logins \in Nat
    /\ Cardinality(tokens) + Cardinality(Exchanging) <= logins

LEMMA ExchangingFinite == IsFiniteSet(Exchanging)
<1>1. Exchanging \in SUBSET Requests
    BY DEF Exchanging
<1> QED BY <1>1, FS_Subset, StoreAssumption

\* No token and no exchange is added.
LEMMA FewerSessions ==
    ASSUME CountInv, tokens' \subseteq tokens, Exchanging' \subseteq Exchanging, UNCHANGED logins
    PROVE  CountInv'
<1>1. IsFiniteSet(tokens') /\ Cardinality(tokens') <= Cardinality(tokens)
    BY FS_Subset DEF CountInv
<1>2. IsFiniteSet(Exchanging') /\ Cardinality(Exchanging') <= Cardinality(Exchanging)
    BY FS_Subset, ExchangingFinite
<1>3. /\ Cardinality(tokens) \in Nat /\ Cardinality(tokens') \in Nat
      /\ Cardinality(Exchanging) \in Nat /\ Cardinality(Exchanging') \in Nat
    BY <1>1, <1>2, ExchangingFinite, FS_CardinalityType DEF CountInv
<1> QED BY <1>1, <1>2, <1>3 DEF CountInv

\* The exchange of a token that was there.
LEMMA TokenTaken ==
    ASSUME CountInv, NEW token \in tokens, tokens' \subseteq tokens \ {token},
           NEW r, Exchanging' \subseteq Exchanging \cup {r}, UNCHANGED logins
    PROVE  CountInv'
<1>1. /\ IsFiniteSet(tokens \ {token}) /\ IsFiniteSet(Exchanging \cup {r})
      /\ Cardinality(tokens \ {token}) = Cardinality(tokens) - 1
      /\ Cardinality(Exchanging \cup {r}) <= Cardinality(Exchanging) + 1
    <2>1. Cardinality(Exchanging) \in Nat
        BY ExchangingFinite, FS_CardinalityType
    <2>2. IsFiniteSet(tokens \ {token}) /\ Cardinality(tokens \ {token}) = Cardinality(tokens) - 1
        BY FS_RemoveElement DEF CountInv
    <2>3. /\ IsFiniteSet(Exchanging \cup {r})
          /\ Cardinality(Exchanging \cup {r}) \in {Cardinality(Exchanging), Cardinality(Exchanging) + 1}
        BY ExchangingFinite, FS_AddElement
    <2> QED BY <2>1, <2>2, <2>3
<1>2. /\ IsFiniteSet(tokens') /\ Cardinality(tokens') <= Cardinality(tokens \ {token})
      /\ IsFiniteSet(Exchanging') /\ Cardinality(Exchanging') <= Cardinality(Exchanging \cup {r})
    BY <1>1, FS_Subset
<1>3. /\ Cardinality(tokens) \in Nat /\ Cardinality(tokens') \in Nat
      /\ Cardinality(Exchanging) \in Nat /\ Cardinality(Exchanging') \in Nat
      /\ Cardinality(Exchanging \cup {r}) \in Nat
    BY <1>1, <1>2, ExchangingFinite, FS_CardinalityType DEF CountInv
<1> QED BY <1>1, <1>2, <1>3 DEF CountInv

\* A token is issued, for an exchange or for a login.
LEMMA TokenIssued ==
    ASSUME CountInv, NEW token, tokens' = tokens \cup {token}, NEW r,
           \/ r \in Exchanging /\ Exchanging' \subseteq Exchanging \ {r} /\ logins' = logins
           \/ Exchanging' \subseteq Exchanging /\ logins' = logins + 1
    PROVE  CountInv'
<1>1. Cardinality(tokens) \in Nat /\ Cardinality(Exchanging) \in Nat
    BY ExchangingFinite, FS_CardinalityType DEF CountInv
<1>2. IsFiniteSet(tokens') /\ Cardinality(tokens') <= Cardinality(tokens) + 1
    <2>1. IsFiniteSet(tokens)
        BY DEF CountInv
    <2>2. /\ IsFiniteSet(tokens \cup {token})
          /\ Cardinality(tokens \cup {token}) \in {Cardinality(tokens), Cardinality(tokens) + 1}
        BY <2>1, FS_AddElement
    <2> QED BY <1>1, <2>2
<1>3. Cardinality(tokens') \in Nat
    BY <1>2, FS_CardinalityType
<1>4. CASE r \in Exchanging /\ Exchanging' \subseteq Exchanging \ {r} /\ logins' = logins
    <2>1. /\ IsFiniteSet(Exchanging \ {r})
          /\ Cardinality(Exchanging \ {r}) = Cardinality(Exchanging) - 1
        BY <1>4, ExchangingFinite, FS_RemoveElement
    <2>2. IsFiniteSet(Exchanging') /\ Cardinality(Exchanging') <= Cardinality(Exchanging \ {r})
        BY <1>4, <2>1, FS_Subset
    <2>3. Cardinality(Exchanging') \in Nat
        BY <2>2, FS_CardinalityType
    <2> QED BY <1>1, <1>2, <1>3, <1>4, <2>1, <2>2, <2>3 DEF CountInv
<1>5. CASE Exchanging' \subseteq Exchanging /\ logins' = logins + 1
    <2>1. IsFiniteSet(Exchanging') /\ Cardinality(Exchanging') <= Cardinality(Exchanging)
        BY <1>5, ExchangingFinite, FS_Subset
    <2>2. Cardinality(Exchanging') \in Nat
        BY <2>1, FS_CardinalityType
    <2> QED BY <1>1, <1>2, <1>3, <1>5, <2>1, <2>2 DEF CountInv
<1> QED BY <1>4, <1>5

\* What a step of an account's call does to the slots of the others.
LEMMA AnswersSlot ==
    ASSUME Shape, NEW r \in Requests, NEW pc, NEW token, Answers(r, pc, token)
    PROVE  /\ \A other \in Requests \ {r} : req'[other] = req[other]
           /\ \/ req'[r] = Idle
              \/ req'[r].op = req[r].op /\ req'[r].pc = pc /\ req'[r].row = token
BY DEF Answers, Ends, Shape, CallShape, Idle

LEMMA GoesOrEnds ==
    ASSUME Shape, NEW r \in Requests, NEW pc, Goto(r, pc) \/ Ends(r)
    PROVE  /\ \A other \in Requests \ {r} : req'[other] = req[other]
           /\ \/ req'[r] = Idle
              \/ req'[r].op = req[r].op /\ req'[r].pc = pc /\ req'[r].row = req[r].row
BY DEF Goto, Ends, Shape, CallShape, Idle

LEMMA CountStepInv ==
    ASSUME Shape, CountInv, [Next]_vars
    PROVE  CountInv'
<1> USE DEF At
<1>1. CASE UNCHANGED accountVars /\ Untouched(AccountOps)
    <2>1. Exchanging' \subseteq Exchanging
        BY <1>1 DEF Untouched, AccountOps, Exchanging, Idle
    <2> QED BY <1>1, <2>1, FewerSessions DEF accountVars, sessionVars
<1>2. ASSUME UNCHANGED sessionVars, BrowserBegin
      PROVE  CountInv'
    <2>1. Exchanging' \subseteq Exchanging
        BY <1>2 DEF BrowserBegin, Bootstrap, SubmitLogin, ClickLogout, Leave, TabStarts, Starts,
                    Exchanging, Shape, CallShape, Idle
    <2> QED BY <1>2, <2>1, FewerSessions DEF sessionVars
<1>3. CASE SessionsBegin
    <2>1. Exchanging' \subseteq Exchanging
        BY <1>3 DEF SessionsBegin, BeginLogin, BeginRefresh, BeginModerate, BeginModerateStaff,
                    BeginRevoke, BeginReset, BeginConnect, Logout, ForgotPassword, ReceiveEvent,
                    Starts, Exchanging, Shape
    <2>2. tokens' \subseteq tokens /\ UNCHANGED logins
        BY <1>3 DEF SessionsBegin, BeginLogin, BeginRefresh, BeginModerate, BeginModerateStaff,
                    BeginRevoke, BeginReset, BeginConnect, Logout, ForgotPassword, ReceiveEvent,
                    sessionVars
    <2> QED BY <2>1, <2>2, FewerSessions
<1>4. ASSUME NEW r \in Requests, DeleteToken(r)
      PROVE  CountInv'
    <2>1. tokens' \subseteq tokens /\ UNCHANGED logins
        BY <1>4 DEF DeleteToken
    <2>2. CASE tokens' = tokens
        <3>1. Answers(r, "refused", 0)
            BY <1>4, <2>2 DEF DeleteToken
        <3>2. Exchanging' \subseteq Exchanging
            BY <3>1, AnswersSlot DEF Exchanging, Idle
        <3> QED BY <2>1, <3>2, FewerSessions
    <2>3. CASE tokens' # tokens
        <3>1. PICK token \in tokens : tokens' \subseteq tokens \ {token}
            BY <2>1, <2>3
        <3>2. Goto(r, "issue")
            BY <1>4, <2>3 DEF DeleteToken
        <3>3. Exchanging' \subseteq Exchanging \cup {r}
            BY <3>2 DEF Goto, Exchanging, Shape
        <3> QED BY <2>1, <3>1, <3>3, TokenTaken
    <2> QED BY <2>2, <2>3
<1>5. ASSUME NEW r \in Requests, IssueTokens(r)
      PROVE  CountInv'
    <2>1. PICK token : tokens' = tokens \cup {token}
        BY <1>5 DEF IssueTokens
    <2>2. /\ \A other \in Requests \ {r} : req'[other] = req[other]
          /\ ~At(r, "REFRESH", "issue")'
        BY <1>5, AnswersSlot DEF IssueTokens, Idle
    <2>3. CASE req[r].op = "LOGIN"
        <3>1. Exchanging' \subseteq Exchanging /\ logins' = logins + 1
            BY <1>5, <2>2, <2>3 DEF IssueTokens, Exchanging
        <3> QED BY <2>1, <3>1, TokenIssued
    <2>4. CASE req[r].op # "LOGIN"
        <3>1. r \in Exchanging
            BY <1>5, <2>4 DEF IssueTokens, Exchanging, Shape, CallShape
        <3>2. Exchanging' \subseteq Exchanging \ {r} /\ logins' = logins
            BY <1>5, <2>2, <2>4 DEF IssueTokens, Exchanging
        <3> QED BY <2>1, <3>1, <3>2, TokenIssued
    <2> QED BY <2>3, <2>4
<1>6. ASSUME NEW r \in Requests, RevokeSessions(r) \/ DisconnectUser(r) \/ JoinUserRoom(r)
      PROVE  CountInv'
    <2>1. tokens' \subseteq tokens /\ UNCHANGED logins
        BY <1>6 DEF RevokeSessions, DisconnectUser, JoinUserRoom
    <2>2. Goto(r, "disconnect") \/ Ends(r)
        BY <1>6 DEF RevokeSessions, DisconnectUser, JoinUserRoom
    <2>3. Exchanging' \subseteq Exchanging
        BY <2>2, GoesOrEnds DEF Exchanging, Idle
    <2> QED BY <2>1, <2>3, FewerSessions
<1>7. ASSUME NEW r \in Requests, BrowserStep(r)
      PROVE  CountInv'
    <2>1. tokens' \subseteq tokens /\ UNCHANGED logins
        BY <1>7 DEF BrowserStep, ForgetToken, TakeAnswer, TakeMe, TakeRefusal, sessionVars
    <2>2. Goto(r, "me") \/ Ends(r) \/ Answers(r, "answered", 0)
        <3>1. CASE TakeAnswer(r)
            <4>1. req[r].op \in {"LOGIN", "REFRESH", "LOGOUT"}
                BY <3>1 DEF TakeAnswer, Shape, CallShape
            <4> QED BY <3>1, <4>1 DEF TakeAnswer
        <3> QED BY <1>7, <3>1 DEF BrowserStep, ForgetToken, TakeMe, TakeRefusal
    <2>3. Exchanging' \subseteq Exchanging
        BY <2>2, AnswersSlot, GoesOrEnds DEF Exchanging, Idle
    <2> QED BY <2>1, <2>3, FewerSessions
<1>8. ASSUME NEW s \in Sockets, RequireActiveUser(s)
      PROVE  CountInv'
    BY <1>8, FewerSessions DEF RequireActiveUser, Exchanging
<1>9. BrowserBegin => UNCHANGED sessionVars
    BY DEF BrowserBegin, Bootstrap, SubmitLogin, ClickLogout, Leave
<1> QED BY <1>1, <1>2, <1>3, <1>4, <1>5, <1>6, <1>7, <1>8, <1>9, AccountFrame
        DEF AccountNext, SessionsStep

\* However many tabs and browsers refresh at once, logins alone add sessions.
THEOREM SpecSessionsNotMultiplied == Spec => []SessionsNotMultiplied
<1>1. Init => Shape /\ CountInv
    <2> SUFFICES ASSUME Init
                 PROVE  CountInv
        BY InitShape
    <2>1. tokens = {} /\ logins = 0 /\ Exchanging = {}
        BY DEF Init, SessionsInit, StoreInit, Exchanging, At, Idle
    <2> QED BY <2>1, FS_EmptySet DEF CountInv
<1>2. Shape /\ CountInv /\ [Next]_vars => Shape' /\ CountInv'
    BY CountStepInv, AccountFrame
<1>3. CountInv => SessionsNotMultiplied
    BY DEF CountInv, Exchanging, SessionsNotMultiplied
<1> QED BY <1>1, <1>2, <1>3, PTL DEF Spec

-----------------------------------------------------------------------------
(***************************************************************************)
(* Revocation                                                              *)
(***************************************************************************)
NoSignInDuringRevocation ==
    \A r, other \in Requests : req[r].op \in SignIns => req[other].op \notin Revoking

\* A sign-in has read the account since the last revocation.
ReadSince ==
    \A r \in Requests :
        req[r].op \in SignIns /\ req[r].pc \in {"delete", "issue", "join"} =>
            req[r].row = revocations

TokensSince == \A token \in tokens : token.epoch = revocations

SocketsSince ==
    ~workload.crashes /\ (\A r \in Requests : req[r].pc # "disconnect") =>
        \A s \in Sockets : sockets[s].open => sockets[s].epoch = revocations

RevocationInv ==
    /\ sockets \in [Sockets -> [open : BOOLEAN, epoch : Nat, event : BOOLEAN]]
    /\ revocations \in Nat
    /\ NoSignInDuringRevocation /\ ReadSince /\ TokensSince /\ SocketsSince

LEMMA RevocationStepInv ==
    ASSUME Shape, Apart(SignIns, Revoking), RevocationInv, [Next]_vars
    PROVE  RevocationInv'
<1> USE DEF RevocationInv, At
<1>1. Shape' /\ UNCHANGED workload
    BY AccountFrame
\* No revocation, no new token: calls begin, go on or end.
<1>2. ASSUME UNCHANGED revocations,
             sockets' \in [Sockets -> [open : BOOLEAN, epoch : Nat, event : BOOLEAN]],
             \A s \in Sockets : sockets'[s].open => sockets[s].open /\ sockets'[s].epoch = sockets[s].epoch,
             tokens' \subseteq tokens,
             \A r \in Requests :
                 /\ req'[r].op \in SignIns \cup Revoking =>
                        \/ req'[r].op = req[r].op
                        \/ /\ MayStart(r, req'[r].op)
                           /\ \A other \in Requests \ {r} : req'[other] = req[other]
                 /\ req'[r].op \in SignIns /\ req'[r].pc \in {"delete", "issue", "join"} =>
                        \/ req'[r].row = revocations
                        \/ /\ req'[r].op = req[r].op /\ req[r].pc \in {"delete", "issue", "join"}
                           /\ req'[r].row = req[r].row
                 /\ workload.crashes \/ (req[r].pc = "disconnect" => req'[r].pc = "disconnect")
      PROVE  RevocationInv'
    <2>1. NoSignInDuringRevocation'
        <3> SUFFICES ASSUME NEW r \in Requests, NEW other \in Requests,
                            req'[r].op \in SignIns, req'[other].op \in Revoking
                     PROVE  FALSE
            BY DEF NoSignInDuringRevocation
        <3>1. r # other
            BY DEF SignIns, Revoking
        <3>2. CASE req'[r].op = req[r].op /\ req'[other].op = req[other].op
            BY <3>2 DEF NoSignInDuringRevocation
        <3>3. CASE MayStart(r, req'[r].op) /\ req'[other] = req[other]
            BY <3>3 DEF MayStart, Apart
        <3>4. CASE MayStart(other, req'[other].op) /\ req'[r] = req[r]
            <4>1. {req'[other].op, req[r].op} = {req[r].op, req'[other].op}
                OBVIOUS
            <4> QED BY <3>4, <4>1 DEF MayStart, Apart
        <3> QED BY <1>2, <3>1, <3>2, <3>3, <3>4
    <2>2. ReadSince'
        BY <1>2 DEF ReadSince
    <2>3. TokensSince'
        BY <1>2 DEF TokensSince
    <2>4. SocketsSince'
        BY <1>1, <1>2 DEF SocketsSince
    <2> QED BY <1>2, <2>1, <2>2, <2>3, <2>4
<1>3. CASE UNCHANGED accountVars /\ Untouched(AccountOps)
    <2>1. \A r \in Requests :
              \/ req'[r] = req[r]
              \/ req[r].op \notin AccountOps /\ req'[r].op \notin AccountOps
              \/ workload.crashes /\ req'[r] = Idle
        BY <1>3 DEF Untouched
    <2>2. \A r \in Requests :
              /\ req'[r].op \in SignIns \cup Revoking => req'[r] = req[r]
              /\ workload.crashes \/ (req[r].pc = "disconnect" => req'[r] = req[r])
        BY <2>1 DEF AccountOps, SignIns, Revoking, Idle, Shape, CallShape
    <2> QED BY <1>2, <1>3, <2>2 DEF accountVars, sessionVars
\* A call of the account begins.
<1>4. ASSUME NEW r \in Requests, NEW op, NEW pc, NEW who, NEW row, NEW seen,
             MayStart(r, op), Starts(r, op, pc, who, row, seen), UNCHANGED sessionVars,
             op \in SignIns => row = revocations
      PROVE  RevocationInv'
    <2>1. /\ req'[r].op = op /\ req'[r].pc = pc /\ req'[r].row = row
          /\ \A other \in Requests \ {r} : req'[other] = req[other]
          /\ req[r].pc # "disconnect"
        BY <1>4 DEF Starts, MayStart, Shape
    <2> QED BY <1>2, <1>4, <2>1 DEF sessionVars
<1>5. CASE SessionsBegin
    <2>1. ASSUME NEW r \in Requests,
                 \/ BeginLogin(r) \/ BeginRefresh(r) \/ BeginModerate(r) \/ BeginModerateStaff(r)
                 \/ BeginRevoke(r) \/ BeginReset(r) \/ BeginConnect(r)
          PROVE  RevocationInv'
        BY <1>4, <2>1 DEF BeginLogin, BeginRefresh, BeginModerate, BeginModerateStaff, BeginRevoke,
                          BeginReset, BeginConnect, Begins, SignIns
    <2>2. CASE Logout \/ ForgotPassword
        BY <1>2, <2>2 DEF Logout, ForgotPassword
    <2>3. ASSUME NEW s \in Sockets, ReceiveEvent(s)
          PROVE  RevocationInv'
        BY <1>2, <2>3 DEF ReceiveEvent
    <2> QED BY <1>5, <2>1, <2>2, <2>3 DEF SessionsBegin
<1>6. CASE BrowserBegin
    <2>1. ASSUME NEW t \in Tabs, NEW r \in Requests,
                 Bootstrap(r, t) \/ SubmitLogin(r, t) \/ ClickLogout(r, t)
          PROVE  RevocationInv'
        BY <1>4, <2>1 DEF Bootstrap, SubmitLogin, ClickLogout, TabStarts, SignIns
    <2>2. ASSUME NEW t \in Tabs, Leave(t)
          PROVE  RevocationInv'
        <3>1. \A r \in Requests :
                  \/ req'[r] = req[r]
                  \/ req'[r] = Idle /\ req[r].pc \in {"answered", "refused", "me"}
                  \/ req'[r] = [req[r] EXCEPT !.who = "nobody"]
            BY <2>2 DEF Leave
        <3>2. \A r \in Requests :
                  \/ req'[r] = Idle /\ req[r].pc # "disconnect"
                  \/ req'[r].op = req[r].op /\ req'[r].pc = req[r].pc /\ req'[r].row = req[r].row
            <4>1. ASSUME NEW r \in Requests
                  PROVE  \/ req'[r] = Idle /\ req[r].pc # "disconnect"
                         \/ req'[r].op = req[r].op /\ req'[r].pc = req[r].pc /\ req'[r].row = req[r].row
                <5>1. CASE req'[r] = [req[r] EXCEPT !.who = "nobody"]
                    <6>1. {"op", "pc", "row"} \subseteq DOMAIN req[r]
                        BY DEF Shape, CallShape, Idle
                    <6> QED BY ONLY <5>1, <6>1
                <5>2. CASE req'[r] = Idle /\ req[r].pc \in {"answered", "refused", "me"}
                    BY ONLY <5>2
                <5> QED BY <3>1, <5>1, <5>2
            <4> QED BY ONLY <4>1
        <3>3. UNCHANGED <<sockets, tokens, revocations>>
            BY <2>2 DEF Leave, sessionVars
        <3> QED BY <1>2, <3>2, <3>3 DEF Idle, SignIns, Revoking
    <2> QED BY <1>6, <2>1, <2>2 DEF BrowserBegin
\* A call of the account goes on: with its own row, or past the point where it counts.
<1>7. ASSUME NEW r \in Requests, UNCHANGED <<revocations, sockets>>, tokens' \subseteq tokens,
             req[r].pc # "disconnect",
             \A other \in Requests \ {r} : req'[other] = req[other],
             \/ req'[r] = Idle
             \/ req'[r].op = req[r].op /\ req'[r].pc \in {"answered", "refused", "me"}
             \/ /\ req'[r].op = req[r].op /\ req'[r].pc = "issue" /\ req[r].pc = "delete"
                /\ req'[r].row = req[r].row
      PROVE  RevocationInv'
    BY <1>2, <1>7 DEF Idle, SignIns, Revoking
<1>8. ASSUME NEW r \in Requests, DeleteToken(r)
      PROVE  RevocationInv'
    <2>1. Answers(r, "refused", 0) \/ Goto(r, "issue")
        BY <1>8 DEF DeleteToken
    <2>2. /\ \A other \in Requests \ {r} : req'[other] = req[other]
          /\ \/ req'[r] = Idle
             \/ req'[r].op = req[r].op /\ req'[r].pc = "refused"
             \/ req'[r].op = req[r].op /\ req'[r].pc = "issue" /\ req'[r].row = req[r].row
        BY <2>1, AnswersSlot DEF Goto, Shape, CallShape, Idle
    <2> QED BY <1>7, <1>8, <2>2 DEF DeleteToken
<1>9. ASSUME NEW r \in Requests, IssueTokens(r)
      PROVE  RevocationInv'
    <2>1. req[r].row = revocations /\ req[r].pc = "issue"
        BY <1>9 DEF IssueTokens, ReadSince, Shape, CallShape, SignIns
    <2>2. UNCHANGED <<revocations, sockets>>
        BY <1>9 DEF IssueTokens
    <2>3. /\ \A other \in Requests \ {r} : req'[other] = req[other]
          /\ \/ req'[r] = Idle
             \/ req'[r].op = req[r].op /\ req'[r].pc = "answered"
        BY <1>9, AnswersSlot DEF IssueTokens
    <2>4. TokensSince'
        BY <1>9, <2>1, <2>2 DEF IssueTokens, TokensSince
    <2>5. NoSignInDuringRevocation'
        BY <2>3 DEF NoSignInDuringRevocation, Idle, SignIns, Revoking
    <2>6. ReadSince'
        BY <2>2, <2>3 DEF ReadSince, Idle
    <2>7. SocketsSince'
        BY <1>1, <2>1, <2>2, <2>3 DEF SocketsSince
    <2> QED BY <2>2, <2>4, <2>5, <2>6, <2>7
<1>10. ASSUME NEW r \in Requests, RevokeSessions(r)
       PROVE  RevocationInv'
    <2>1. req[r].op \in Revoking /\ req[r].pc = "revoke"
        BY <1>10 DEF RevokeSessions, Shape, CallShape
    <2>2. CASE req[r].who = "ACTIVE"
        <3>1. UNCHANGED <<revocations, sockets, tokens>> /\ Ends(r)
            BY <1>10, <2>2 DEF RevokeSessions, EndsSessions
        <3> QED BY <1>7, <2>1, <3>1 DEF Ends, Shape
    <2>3. CASE req[r].who # "ACTIVE"
        <3>1. /\ revocations' = revocations + 1 /\ tokens' = {} /\ UNCHANGED sockets
              /\ Goto(r, "disconnect")
            BY <1>10, <2>3 DEF RevokeSessions, EndsSessions
        <3>2. /\ req'[r].op = req[r].op /\ req'[r].pc = "disconnect"
              /\ \A other \in Requests \ {r} : req'[other] = req[other]
            BY <3>1 DEF Goto, Shape, CallShape, Idle
        <3>3. \A other \in Requests : req[other].op \notin SignIns
            BY <2>1 DEF NoSignInDuringRevocation
        <3>4. NoSignInDuringRevocation' /\ ReadSince' /\ TokensSince' /\ SocketsSince'
            BY <3>1, <3>2, <3>3 DEF NoSignInDuringRevocation, ReadSince, TokensSince, SocketsSince
        <3> QED BY <3>1, <3>4
    <2> QED BY <2>2, <2>3
<1>11. ASSUME NEW r \in Requests, DisconnectUser(r)
       PROVE  RevocationInv'
    <2>1. /\ \A s \in Sockets : ~sockets'[s].open
          /\ sockets' \in [Sockets -> [open : BOOLEAN, epoch : Nat, event : BOOLEAN]]
        BY <1>11 DEF DisconnectUser, NoSocket
    <2>2. UNCHANGED <<revocations, tokens>>
        BY <1>11 DEF DisconnectUser
    <2>3. req'[r] = Idle /\ \A other \in Requests \ {r} : req'[other] = req[other]
        BY <1>11 DEF DisconnectUser, Ends, Shape
    <2>4. NoSignInDuringRevocation' /\ ReadSince' /\ TokensSince' /\ SocketsSince'
        BY <2>1, <2>2, <2>3 DEF NoSignInDuringRevocation, ReadSince, TokensSince, SocketsSince, Idle,
                                SignIns, Revoking
    <2> QED BY <2>1, <2>2, <2>4
<1>12. ASSUME NEW r \in Requests, JoinUserRoom(r)
       PROVE  RevocationInv'
    <2>1. req[r].op \in SignIns /\ req[r].row = revocations
        BY <1>12 DEF JoinUserRoom, ReadSince, SignIns
    <2>2. \A other \in Requests : req[other].pc # "disconnect"
        BY <2>1 DEF NoSignInDuringRevocation, Shape, CallShape
    <2>3. UNCHANGED <<revocations, tokens>>
        BY <1>12 DEF JoinUserRoom
    <2>4. req'[r] = Idle /\ \A other \in Requests \ {r} : req'[other] = req[other]
        BY <1>12 DEF JoinUserRoom, Ends, Shape
    <2>5. PICK s : sockets' = [sockets EXCEPT ![s] = [open |-> TRUE, epoch |-> revocations,
                                                      event |-> FALSE]]
        BY <1>12, <2>1 DEF JoinUserRoom
    <2>6. sockets' \in [Sockets -> [open : BOOLEAN, epoch : Nat, event : BOOLEAN]] /\ SocketsSince'
        <3>1. sockets' \in [Sockets -> [open : BOOLEAN, epoch : Nat, event : BOOLEAN]]
            BY <2>5
        <3>2. \A other \in Sockets : other # s => sockets'[other] = sockets[other]
            BY <2>5
        <3>3. s \in Sockets => sockets'[s].epoch = revocations
            BY <2>5
        <3> QED BY <1>1, <2>2, <2>3, <3>1, <3>2, <3>3 DEF SocketsSince
    <2>7. NoSignInDuringRevocation' /\ ReadSince' /\ TokensSince'
        BY <2>3, <2>4 DEF NoSignInDuringRevocation, ReadSince, TokensSince, Idle, SignIns, Revoking
    <2> QED BY <2>3, <2>6, <2>7
<1>13. ASSUME NEW r \in Requests, BrowserStep(r)
       PROVE  RevocationInv'
    <2>1. UNCHANGED <<revocations, sockets>> /\ tokens' \subseteq tokens
        BY <1>13 DEF BrowserStep, ForgetToken, TakeAnswer, TakeMe, TakeRefusal, sessionVars
    <2>2. Goto(r, "me") \/ Ends(r) \/ Answers(r, "answered", 0)
        <3>1. CASE TakeAnswer(r)
            <4>1. req[r].op \in {"LOGIN", "REFRESH", "LOGOUT"}
                BY <3>1 DEF TakeAnswer, Shape, CallShape
            <4> QED BY <3>1, <4>1 DEF TakeAnswer
        <3> QED BY <1>13, <3>1 DEF BrowserStep, ForgetToken, TakeMe, TakeRefusal
    <2>3. /\ \A other \in Requests \ {r} : req'[other] = req[other]
          /\ \/ req'[r] = Idle
             \/ req'[r].op = req[r].op /\ req'[r].pc \in {"answered", "me"}
        BY <2>2, AnswersSlot, GoesOrEnds
    <2>4. req[r].pc # "disconnect"
        BY <1>13 DEF BrowserStep, ForgetToken, TakeAnswer, TakeMe, TakeRefusal
    <2> QED BY <1>7, <2>1, <2>3, <2>4
<1>14. ASSUME NEW s \in Sockets, RequireActiveUser(s)
       PROVE  RevocationInv'
    <2>1. UNCHANGED <<revocations, tokens, req>>
        BY <1>14 DEF RequireActiveUser
    <2>2. /\ sockets' \in [Sockets -> [open : BOOLEAN, epoch : Nat, event : BOOLEAN]]
          /\ \A other \in Sockets :
                 sockets'[other].open => sockets[other].open /\ sockets'[other].epoch = sockets[other].epoch
        BY <1>14 DEF RequireActiveUser, NoSocket
    <2> QED BY <1>2, <2>1, <2>2
<1> QED BY <1>3, <1>5, <1>6, <1>8, <1>9, <1>10, <1>11, <1>12, <1>13, <1>14, AccountFrame
        DEF AccountNext, SessionsStep

\* Whoever was signed in before a suspension, a ban, a revocation or a reset is
\* signed out by it for good, in every behaviour where it overlaps no sign-in.
THEOREM SpecRevokedForGood == Spec => []RevokedForGood
<1> DEFINE Inv == Apart(SignIns, Revoking) => RevocationInv
<1>1. Init => Shape /\ Inv
    BY InitShape DEF Init, SessionsInit, StoreInit, RevocationInv, NoSignInDuringRevocation, ReadSince,
                     TokensSince, SocketsSince, Idle, NoSocket, SignIns, Revoking
<1>2. Shape /\ Inv /\ [Next]_vars => Shape' /\ Inv'
    <2> SUFFICES ASSUME Shape, Inv, [Next]_vars
                 PROVE  Shape' /\ Inv'
        OBVIOUS
    <2>1. Shape' /\ UNCHANGED workload
        BY AccountFrame
    <2>2. Apart(SignIns, Revoking)' => Apart(SignIns, Revoking)
        BY <2>1 DEF Apart
    <2> QED BY <2>1, <2>2, RevocationStepInv
<1>3. Inv => RevokedForGood
    BY DEF RevocationInv, TokensSince, SocketsSince, RevokedForGood
<1> QED BY <1>1, <1>2, <1>3, PTL DEF Spec

-----------------------------------------------------------------------------
(***************************************************************************)
(* The browser's cookie                                                    *)
(***************************************************************************)
\* Nobody presents the browser's tokens from elsewhere, and every answer is taken.
OwnTokens ==
    ~workload.crashes /\ ~Serves("LEAVE") /\ ~Serves("REFRESH") /\ ~Serves("LOGOUT")

Live(id) == \E token \in tokens : token.id = id

Deletes(r) == At(r, "REFRESH", "delete") \/ At(r, "LOGOUT", "forget")

\* The answer is on its way, with a cookie.
BringsToken(r) == req[r].pc = "answered" /\ req[r].row # 0

\* An answer will come that sets the cookie.
Comes(r) == req[r].pc = "answered" \/ (req[r].pc = "issue" /\ req[r].who # "nobody")

CookieTyped ==
    /\ issued \in Nat /\ revocations \in Nat /\ cookie \in 0..issued
    /\ \A r \in Requests :
          /\ req[r].pc = "answered" => req[r].row \in 0..issued
          /\ Deletes(r) => req[r].seen \subseteq 0..issued
          /\ req[r].op \in {"REFRESH", "LOGOUT"} => req[r].who # "nobody"

\* A token on its way to the browser is live and known to no other call.
TokensOnTheWay ==
    \A r \in Requests :
        BringsToken(r) =>
            /\ Live(req[r].row) /\ req[r].row # cookie
            /\ \A other \in Requests :
                  /\ BringsToken(other) /\ other # r => req[other].row # req[r].row
                  /\ Deletes(other) => req[r].row \notin req[other].seen

CookieBacked == cookie = 0 \/ Live(cookie) \/ \E r \in Requests : Comes(r)

CookieInv ==
    /\ CookieTyped
    /\ revocations = 0 => TokensOnTheWay /\ CookieBacked

\* Calls begin, are refused, or end without an answer that sets the cookie.
LEMMA CookieKept ==
    ASSUME Shape, Shape', CookieInv, UNCHANGED <<cookie, issued, tokens>>,
           revocations' \in Nat, revocations' = 0 => revocations = 0,
           \A r \in Requests :
               \/ req'[r] = req[r]
               \/ /\ req'[r].pc # "answered" /\ ~Comes(r)
                  /\ Deletes(r)' => req'[r].seen = {cookie}
                  /\ req'[r].op \in {"REFRESH", "LOGOUT"} => req'[r].who # "nobody"
    PROVE  CookieInv'
<1>1. CookieTyped'
    <2>1. CookieTyped
        BY DEF CookieInv
    <2>2. \A r \in Requests : req'[r] = req[r] => (Deletes(r)' <=> Deletes(r))
        BY DEF Deletes, At
    <2> QED BY <2>1, <2>2 DEF CookieTyped
<1>2. ASSUME revocations' = 0
      PROVE  TokensOnTheWay' /\ CookieBacked'
    <2>1. TokensOnTheWay /\ CookieBacked
        BY <1>2 DEF CookieInv
    <2>2. \A id : Live(id)' <=> Live(id)
        BY DEF Live
    <2>3. \A r \in Requests : BringsToken(r)' => BringsToken(r) /\ req'[r] = req[r]
        BY DEF BringsToken
    <2>4. \A r \in Requests :
              Deletes(r)' => \/ Deletes(r) /\ req'[r].seen = req[r].seen
                             \/ req'[r].seen = {cookie}
        BY DEF Deletes, At
    <2>5. TokensOnTheWay'
        BY <2>1, <2>2, <2>3, <2>4 DEF TokensOnTheWay
    <2>6. \A r \in Requests : Comes(r) => Comes(r)'
        BY DEF Comes
    <2> QED BY <2>1, <2>2, <2>5, <2>6 DEF CookieBacked
<1> QED BY <1>1, <1>2 DEF CookieInv

\* A refresh or a logout deletes its token and goes on to an answer.
LEMMA CookieDeleted ==
    ASSUME Shape, Shape', CookieInv, UNCHANGED <<cookie, issued, revocations>>, NEW r \in Requests,
           Deletes(r), tokens' = {token \in tokens : token.id \notin req[r].seen},
           \A other \in Requests \ {r} : req'[other] = req[other],
           req'[r].op = req[r].op, req'[r].who = req[r].who,
           \/ req'[r].pc = "issue"
           \/ req'[r].pc = "answered" /\ req'[r].row = 0
    PROVE  CookieInv'
<1>1. CookieTyped
    BY DEF CookieInv
<1>2. req[r].who # "nobody"
    BY <1>1 DEF CookieTyped, Deletes, At
<1>3. ~Deletes(r)' /\ ~BringsToken(r)' /\ Comes(r)'
    BY <1>2 DEF Deletes, At, BringsToken, Comes
<1>4. \A other \in Requests \ {r} : (Deletes(other)' <=> Deletes(other)) /\ (BringsToken(other)' <=> BringsToken(other))
    BY DEF Deletes, At, BringsToken
<1>5. CookieTyped'
    <2>1. 0 \in 0..issued
        BY <1>1 DEF CookieTyped
    <2> QED BY <1>1, <1>3, <1>4, <2>1 DEF CookieTyped
<1>6. ASSUME revocations = 0
      PROVE  TokensOnTheWay' /\ CookieBacked'
    <2>1. TokensOnTheWay
        BY <1>6 DEF CookieInv
    <2>2. \A other \in Requests : BringsToken(other) => Live(req[other].row)'
        <3>1. \A other \in Requests :
                  BringsToken(other) => Live(req[other].row) /\ req[other].row \notin req[r].seen
            BY <2>1 DEF TokensOnTheWay
        <3>2. \A id : Live(id) /\ id \notin req[r].seen => Live(id)'
            BY DEF Live
        <3>3. \A other \in Requests : BringsToken(other) => other # r
            BY DEF BringsToken, Deletes, At
        <3> QED BY <3>1, <3>2, <3>3
    <2>3. TokensOnTheWay'
        BY <1>3, <1>4, <2>1, <2>2 DEF TokensOnTheWay
    <2> QED BY <1>3, <2>3 DEF CookieBacked
<1> QED BY <1>5, <1>6 DEF CookieInv

LEMMA CookieIssued ==
    ASSUME Shape, Shape', CookieInv, UNCHANGED cookie, NEW r \in Requests, IssueTokens(r)
    PROVE  CookieInv'
<1>1. CookieTyped /\ issued + 1 \in Nat /\ issued + 1 # 0
    BY DEF CookieInv, CookieTyped
<1>2. PICK id \in Nat : id = issued + 1
    BY <1>1
<1>3. /\ req[r].pc = "issue" /\ issued' = id /\ UNCHANGED revocations
      /\ \E token : token.id = id /\ tokens' = tokens \cup {token}
    BY <1>2 DEF IssueTokens
<1>4. /\ \A other \in Requests \ {r} : req'[other] = req[other]
      /\ \/ req[r].who = "nobody" /\ req'[r] = Idle
         \/ /\ req[r].who # "nobody" /\ req'[r].op = req[r].op /\ req'[r].pc = "answered"
            /\ req'[r].row = id /\ req'[r].who = req[r].who
    BY <1>2 DEF IssueTokens, Answers, Ends, Shape, CallShape, Idle
<1>5. /\ \A other \in Requests \ {r} : (Deletes(other)' <=> Deletes(other)) /\ (BringsToken(other)' <=> BringsToken(other))
      /\ ~Deletes(r)' /\ ~BringsToken(r)
      /\ BringsToken(r)' => req'[r].row = id
    BY <1>3, <1>4 DEF Deletes, At, BringsToken, Idle
<1>6. CookieTyped'
    <2>1. 0..issued \subseteq 0..id /\ id \in 0..id
        BY <1>1, <1>2 DEF CookieTyped
    <2>2. req'[r].op \in {"REFRESH", "LOGOUT"} => req'[r].who # "nobody"
        BY <1>4 DEF Idle
    <2>3. req'[r].pc = "answered" => req'[r].row = id
        BY <1>4 DEF Idle
    <2> QED BY <1>1, <1>3, <1>4, <1>5, <2>1, <2>2, <2>3 DEF CookieTyped
<1>7. ASSUME revocations = 0
      PROVE  TokensOnTheWay' /\ CookieBacked'
    <2>1. TokensOnTheWay /\ CookieBacked
        BY <1>7 DEF CookieInv
    <2>2. Live(id)' /\ \A other : Live(other) => Live(other)'
        BY <1>3 DEF Live
    \* The new token is nobody's yet.
    <2>3. /\ id # cookie
          /\ \A other \in Requests : /\ BringsToken(other) => req[other].row # id
                                     /\ Deletes(other) => id \notin req[other].seen
        <3>1. id \notin 0..issued
            BY <1>1, <1>2 DEF CookieTyped
        <3> QED BY <1>1, <3>1 DEF CookieTyped, BringsToken
    <2>4. TokensOnTheWay'
        <3> SUFFICES ASSUME NEW one \in Requests, BringsToken(one)'
                     PROVE  /\ Live(req[one].row)' /\ req'[one].row # cookie
                            /\ \A other \in Requests :
                                  /\ BringsToken(other)' /\ other # one => req'[other].row # req'[one].row
                                  /\ Deletes(other)' => req'[one].row \notin req'[other].seen
            BY DEF TokensOnTheWay
        <3>1. CASE one = r
            BY <1>4, <1>5, <2>2, <2>3, <3>1
        <3>2. CASE one # r
            <4>1. BringsToken(one) /\ req'[one].row = req[one].row
                BY <1>4, <1>5, <3>2
            <4>2. Live(req[one].row)' /\ req'[one].row # cookie
                BY <2>1, <2>2, <4>1 DEF TokensOnTheWay
            <4>3. \A other \in Requests :
                      /\ BringsToken(other)' /\ other # one => req'[other].row # req'[one].row
                      /\ Deletes(other)' => req'[one].row \notin req'[other].seen
                <5>1. req'[one].row # id
                    BY <2>3, <4>1
                <5> QED BY <1>4, <1>5, <2>1, <4>1, <5>1 DEF TokensOnTheWay
            <4> QED BY <4>2, <4>3
        <3> QED BY <3>1, <3>2
    <2>5. \A other \in Requests : Comes(other) => Comes(other)'
        BY <1>3, <1>4 DEF Comes
    <2> QED BY <2>1, <2>2, <2>4, <2>5 DEF CookieBacked
<1> QED BY <1>3, <1>6, <1>7 DEF CookieInv

LEMMA CookieTaken ==
    ASSUME Shape, Shape', CookieInv, NEW r \in Requests, TakeAnswer(r)
    PROVE  CookieInv'
<1>1. /\ req[r].pc = "answered" /\ req[r].op \in {"LOGIN", "REFRESH", "LOGOUT"}
      /\ cookie' = req[r].row /\ UNCHANGED <<tokens, issued, revocations>>
    BY DEF TakeAnswer, CookieAfter, sessionVars, Shape, CallShape
<1>2. /\ \A other \in Requests \ {r} : req'[other] = req[other]
      /\ \/ req'[r] = Idle
         \/ req'[r].op = req[r].op /\ req'[r].pc = "me" /\ req'[r].who = req[r].who
    <2>1. Goto(r, "me") \/ Ends(r)
        BY <1>1 DEF TakeAnswer
    <2> QED BY <2>1 DEF Goto, Ends, Shape, CallShape, Idle
<1>3. /\ \A other \in Requests \ {r} : (Deletes(other)' <=> Deletes(other)) /\ (BringsToken(other)' <=> BringsToken(other))
      /\ ~Deletes(r)' /\ ~BringsToken(r)'
    BY <1>2 DEF Deletes, At, BringsToken, Idle
<1>4. CookieTyped'
    <2>1. req'[r].op \in {"REFRESH", "LOGOUT"} => req[r].op \in {"REFRESH", "LOGOUT"} /\ req'[r].who = req[r].who
        BY <1>2 DEF Idle
    <2>2. req'[r].pc # "answered"
        BY <1>2 DEF Idle
    <2> QED BY <1>1, <1>2, <1>3, <2>1, <2>2 DEF CookieInv, CookieTyped
<1>5. ASSUME revocations = 0
      PROVE  TokensOnTheWay' /\ CookieBacked'
    <2>1. TokensOnTheWay
        BY <1>5 DEF CookieInv
    <2>2. \A id : Live(id)' <=> Live(id)
        BY <1>1 DEF Live
    <2>3. \A other \in Requests \ {r} : BringsToken(other) => req[other].row # req[r].row
        BY <1>1, <2>1 DEF TokensOnTheWay, BringsToken
    <2>4. TokensOnTheWay'
        BY <1>1, <1>2, <1>3, <2>1, <2>2, <2>3 DEF TokensOnTheWay
    <2>5. cookie' = 0 \/ Live(cookie)'
        <3>1. CASE req[r].row = 0
            BY <1>1, <3>1
        <3>2. CASE req[r].row # 0
            <4>1. Live(req[r].row)
                BY <1>1, <2>1, <3>2 DEF TokensOnTheWay, BringsToken
            <4> QED BY <1>1, <4>1 DEF Live
        <3> QED BY <3>1, <3>2
    <2> QED BY <2>4, <2>5 DEF CookieBacked
<1> QED BY <1>1, <1>4, <1>5 DEF CookieInv

LEMMA CookieStepInv ==
    ASSUME Shape, OwnTokens, CookieInv, [Next]_vars
    PROVE  CookieInv'
<1> USE DEF At
<1>1. Shape' /\ UNCHANGED workload /\ ~workload.crashes /\ revocations \in Nat
    BY AccountFrame DEF OwnTokens, CookieInv, CookieTyped
<1>2. CASE UNCHANGED accountVars /\ Untouched(AccountOps)
    <2>1. UNCHANGED <<cookie, issued, tokens, revocations>>
        BY <1>2 DEF accountVars, sessionVars, browserVars
    <2>2. \A r \in Requests :
              \/ req'[r] = req[r]
              \/ req[r].op \notin AccountOps /\ req'[r].op \notin AccountOps
        BY <1>1, <1>2 DEF Untouched
    <2>3. \A r \in Requests :
              /\ req[r].op \notin AccountOps => ~Comes(r)
              /\ req'[r].op \notin AccountOps => /\ req'[r].pc # "answered" /\ ~Deletes(r)'
                                                 /\ req'[r].op \notin {"REFRESH", "LOGOUT"}
        BY <1>1 DEF AccountOps, Comes, Deletes, Shape, CallShape
    <2> QED BY <1>1, <2>1, <2>2, <2>3, CookieKept
\* A call of the account begins.
<1>3. ASSUME NEW r \in Requests, NEW op, NEW pc, NEW who, NEW row, NEW seen,
             MayStart(r, op), Starts(r, op, pc, who, row, seen), UNCHANGED <<cookie, issued, tokens, revocations>>,
             pc # "answered",
             op \in {"REFRESH", "LOGOUT"} => who # "nobody" /\ seen = {cookie}
      PROVE  CookieInv'
    <2>1. /\ req'[r].op = op /\ req'[r].pc = pc /\ req'[r].who = who /\ req'[r].seen = seen
          /\ \A other \in Requests \ {r} : req'[other] = req[other]
          /\ ~Comes(r)
        BY <1>3 DEF Starts, MayStart, Shape, Comes
    <2>2. Deletes(r)' => req'[r].seen = {cookie}
        BY <1>3, <2>1 DEF Deletes
    <2> QED BY <1>1, <1>3, <2>1, <2>2, CookieKept
<1>4. CASE SessionsBegin /\ UNCHANGED browserVars
    <2>1. UNCHANGED cookie
        BY <1>4 DEF browserVars
    <2>2. ASSUME NEW r \in Requests,
                 \/ BeginLogin(r) \/ BeginModerate(r) \/ BeginModerateStaff(r)
                 \/ BeginRevoke(r) \/ BeginReset(r) \/ BeginConnect(r)
          PROVE  CookieInv'
        BY <1>3, <2>1, <2>2 DEF BeginLogin, BeginModerate, BeginModerateStaff, BeginRevoke,
                                BeginReset, BeginConnect, Begins, sessionVars
    <2>3. ~Logout /\ \A r \in Requests : ~BeginRefresh(r)
        BY DEF OwnTokens, Logout, BeginRefresh, Begins
    <2>4. ASSUME UNCHANGED <<req, tokens, issued, revocations>>
          PROVE  CookieInv'
        BY <1>1, <2>1, <2>4, CookieKept
    <2>5. ForgotPassword \/ (\E s \in Sockets : ReceiveEvent(s)) => CookieInv'
        BY <2>4 DEF ForgotPassword, ReceiveEvent
    <2> QED BY <1>4, <2>2, <2>3, <2>5 DEF SessionsBegin
<1>5. CASE BrowserBegin
    <2>1. ASSUME NEW t \in Tabs, NEW r \in Requests,
                 Bootstrap(r, t) \/ SubmitLogin(r, t) \/ ClickLogout(r, t)
          PROVE  CookieInv'
        BY <1>3, <2>1, TabsAssumption DEF Bootstrap, SubmitLogin, ClickLogout, TabStarts, sessionVars, browserVars
    <2>2. \A t \in Tabs : ~Leave(t)
        BY DEF OwnTokens, Leave
    <2> QED BY <1>5, <2>1, <2>2 DEF BrowserBegin
\* A call goes on or ends without an answer.
<1>6. ASSUME NEW r \in Requests, UNCHANGED <<cookie, issued, tokens, revocations>>, ~Comes(r),
             \A other \in Requests \ {r} : req'[other] = req[other],
             \/ req'[r] = Idle
             \/ req'[r].op = req[r].op /\ req'[r].who = req[r].who /\ req'[r].pc = "refused"
      PROVE  CookieInv'
    <2>1. /\ req'[r].pc # "answered" /\ ~Deletes(r)'
          /\ req'[r].op \in {"REFRESH", "LOGOUT"} => req'[r].who # "nobody"
        BY <1>6 DEF Deletes, Idle, CookieInv, CookieTyped
    <2> QED BY <1>1, <1>6, <2>1, CookieKept
<1>7. ASSUME NEW r \in Requests, DeleteToken(r), UNCHANGED browserVars
      PROVE  CookieInv'
    <2>1. /\ Deletes(r) /\ ~Comes(r) /\ UNCHANGED <<cookie, issued, revocations>>
          /\ tokens' = {token \in tokens : token.id \notin req[r].seen}
        BY <1>7 DEF DeleteToken, Deletes, Comes, browserVars
    <2>2. req[r].who # "nobody"
        BY <2>1 DEF Deletes, CookieInv, CookieTyped
    <2>3. CASE tokens' = tokens
        <3>1. Answers(r, "refused", 0)
            BY <1>7, <2>3 DEF DeleteToken
        <3>2. /\ \A other \in Requests \ {r} : req'[other] = req[other]
              /\ req'[r].op = req[r].op /\ req'[r].who = req[r].who /\ req'[r].pc = "refused"
            BY <2>2, <3>1 DEF Answers, Shape, CallShape, Idle
        <3> QED BY <1>6, <2>1, <2>3, <3>2
    <2>4. CASE tokens' # tokens
        <3>1. Goto(r, "issue")
            BY <1>7, <2>4 DEF DeleteToken
        <3>2. /\ \A other \in Requests \ {r} : req'[other] = req[other]
              /\ req'[r].op = req[r].op /\ req'[r].who = req[r].who /\ req'[r].pc = "issue"
            BY <3>1 DEF Goto, Shape, CallShape, Idle
        <3> QED BY <1>1, <2>1, <3>2, CookieDeleted
    <2> QED BY <2>3, <2>4
<1>8. ASSUME NEW r \in Requests, ForgetToken(r)
      PROVE  CookieInv'
    <2>1. /\ Deletes(r) /\ UNCHANGED <<cookie, issued, revocations>>
          /\ tokens' = {token \in tokens : token.id \notin req[r].seen}
          /\ Answers(r, "answered", 0)
        BY <1>8 DEF ForgetToken, Deletes, browserVars
    <2>2. req[r].who # "nobody"
        BY <2>1 DEF Deletes, CookieInv, CookieTyped
    <2>3. /\ \A other \in Requests \ {r} : req'[other] = req[other]
          /\ req'[r].op = req[r].op /\ req'[r].who = req[r].who /\ req'[r].pc = "answered"
          /\ req'[r].row = 0
        BY <2>1, <2>2 DEF Answers, Shape, CallShape, Idle
    <2> QED BY <1>1, <2>1, <2>3, CookieDeleted
<1>9. ASSUME NEW r \in Requests, TakeMe(r) \/ TakeRefusal(r)
      PROVE  CookieInv'
    <2>1. UNCHANGED <<cookie, issued, tokens, revocations>> /\ ~Comes(r) /\ Ends(r)
        BY <1>9 DEF TakeMe, TakeRefusal, sessionVars, Comes
    <2> QED BY <1>6, <2>1 DEF Ends, Shape
<1>10. ASSUME NEW r \in Requests, DisconnectUser(r) \/ JoinUserRoom(r), UNCHANGED browserVars
       PROVE  CookieInv'
    <2>1. UNCHANGED <<cookie, issued, tokens, revocations>> /\ ~Comes(r) /\ Ends(r)
        BY <1>10 DEF DisconnectUser, JoinUserRoom, browserVars, Comes
    <2> QED BY <1>6, <2>1 DEF Ends, Shape
<1>11. ASSUME NEW r \in Requests, RevokeSessions(r), UNCHANGED browserVars
       PROVE  CookieInv'
    <2>1. /\ UNCHANGED <<cookie, issued>> /\ ~Comes(r) /\ req[r].op \in Revoking /\ req[r].pc = "revoke"
        BY <1>11 DEF RevokeSessions, browserVars, Comes, Shape, CallShape
    <2>2. CASE req[r].who = "ACTIVE"
        <3>1. UNCHANGED <<tokens, revocations>> /\ Ends(r)
            BY <1>11, <2>2 DEF RevokeSessions, EndsSessions
        <3> QED BY <1>6, <2>1, <3>1 DEF Ends, Shape
    <2>3. CASE req[r].who # "ACTIVE"
        <3>1. revocations' = revocations + 1 /\ Goto(r, "disconnect")
            BY <1>11, <2>3 DEF RevokeSessions
        <3>2. /\ \A other \in Requests \ {r} : req'[other] = req[other]
              /\ req'[r].op = req[r].op /\ req'[r].pc = "disconnect"
            BY <3>1 DEF Goto, Shape, CallShape, Idle
        <3>3. /\ ~Deletes(r)' /\ req'[r].pc # "answered" /\ req'[r].op \notin {"REFRESH", "LOGOUT"}
              /\ \A other \in Requests \ {r} : Deletes(other)' <=> Deletes(other)
            BY <2>1, <3>2 DEF Deletes, Revoking
        <3>4. CookieTyped'
            BY <1>1, <2>1, <3>1, <3>2, <3>3 DEF CookieInv, CookieTyped
        <3>5. revocations' # 0
            BY <1>1, <3>1
        <3> QED BY <3>4, <3>5 DEF CookieInv
    <2> QED BY <2>2, <2>3
<1>12. ASSUME NEW r \in Requests, IssueTokens(r), UNCHANGED browserVars
       PROVE  CookieInv'
    BY <1>1, <1>12, CookieIssued DEF browserVars
<1>13. ASSUME NEW r \in Requests, BrowserStep(r)
       PROVE  CookieInv'
    BY <1>1, <1>8, <1>9, <1>13, CookieTaken DEF BrowserStep
<1>14. ASSUME NEW s \in Sockets, RequireActiveUser(s), UNCHANGED browserVars
       PROVE  CookieInv'
    <2>1. UNCHANGED <<cookie, issued, tokens, revocations, req>>
        BY <1>14 DEF RequireActiveUser, browserVars
    <2> QED BY <1>1, <2>1, CookieKept
<1> QED BY <1>2, <1>4, <1>5, <1>7, <1>10, <1>11, <1>12, <1>13, <1>14, AccountFrame
        DEF AccountNext, SessionsStep

-----------------------------------------------------------------------------
(***************************************************************************)
(* The tabs                                                                *)
(***************************************************************************)
Tab == [page : {"closed", "loading", "ready"}, user : BOOLEAN, token : BOOLEAN]

OfTab(r, t) == req[r].op \in {"LOGIN", "REFRESH", "LOGOUT"} /\ req[r].who = t

Refreshes(r, t) == OfTab(r, t) /\ req[r].op = "REFRESH"

\* A tab loads once, alone: until it is done it shows nobody, and it has a token
\* from the answer of the refresh on.
TabSound(t) ==
    /\ tabs[t].page = "closed" =>
           ~tabs[t].user /\ ~tabs[t].token /\ \A r \in Requests : ~OfTab(r, t)
    /\ (\A r \in Requests : ~Refreshes(r, t)) => (tabs[t].user <=> tabs[t].token)
    /\ \A r \in Requests :
          Refreshes(r, t) => /\ ~tabs[t].user
                             /\ tabs[t].token <=> req[r].pc = "me"
                             /\ \A other \in Requests : OfTab(other, t) => other = r

NoLoginDuringRefresh ==
    \A r, other \in Requests : req[r].op = "LOGIN" => req[other].op # "REFRESH"

TabsInv ==
    /\ tabs \in [Tabs -> Tab]
    /\ NoLoginDuringRefresh
    /\ \A t \in Tabs : TabSound(t)

\* The browser waits for its answers, and does not log in during a refresh.
PatientTabs ==
    ~workload.crashes /\ ~Serves("LEAVE") /\ Apart({"LOGIN"}, {"REFRESH"})

\* A step that leaves a tab and its calls alone.
LEMMA TabKept ==
    ASSUME NEW t \in Tabs, TabSound(t), tabs'[t] = tabs[t],
           \A r \in Requests :
               /\ OfTab(r, t)' <=> OfTab(r, t)
               /\ OfTab(r, t) => req'[r].op = req[r].op /\ (req'[r].pc = "me" <=> req[r].pc = "me")
    PROVE  TabSound(t)'
<1>1. \A r \in Requests : Refreshes(r, t)' <=> Refreshes(r, t)
    BY DEF Refreshes
<1>2. \A r \in Requests : Refreshes(r, t) => (req'[r].pc = "me" <=> req[r].pc = "me")
    BY DEF Refreshes
<1> QED BY <1>1, <1>2 DEF TabSound

LEMMA LoginsStayApart ==
    ASSUME PatientTabs, TabsInv,
           \A r \in Requests :
               req'[r].op \in {"LOGIN", "REFRESH"} =>
                   \/ req'[r].op = req[r].op
                   \/ MayStart(r, req'[r].op) /\ \A other \in Requests \ {r} : req'[other] = req[other]
    PROVE  NoLoginDuringRefresh'
<1> SUFFICES ASSUME NEW r \in Requests, NEW other \in Requests,
                    req'[r].op = "LOGIN", req'[other].op = "REFRESH"
             PROVE  FALSE
    BY DEF NoLoginDuringRefresh
<1>1. {"LOGIN", "REFRESH"} \in workload.apart /\ {"REFRESH", "LOGIN"} = {"LOGIN", "REFRESH"}
    BY DEF PatientTabs, Apart
<1>2. r # other
    OBVIOUS
<1>3. CASE req[r].op = "LOGIN" /\ req[other].op = "REFRESH"
    BY <1>3 DEF TabsInv, NoLoginDuringRefresh
<1>4. CASE MayStart(r, "LOGIN") /\ req[other].op = "REFRESH"
    BY <1>1, <1>4 DEF MayStart
<1>5. CASE MayStart(other, "REFRESH") /\ req[r].op = "LOGIN"
    BY <1>1, <1>5 DEF MayStart
<1> QED BY <1>2, <1>3, <1>4, <1>5

\* A step that leaves all tabs and their calls alone.
LEMMA TabsKept ==
    ASSUME PatientTabs, TabsInv, UNCHANGED tabs,
           \A r \in Requests :
               \/ req'[r] = req[r]
               \/ /\ req'[r].op = req[r].op /\ req'[r].who = req[r].who
                  /\ req[r].pc # "me" /\ req'[r].pc # "me"
               \/ /\ \A t \in Tabs : ~OfTab(r, t) /\ ~OfTab(r, t)'
                  /\ req'[r].op \in {"LOGIN", "REFRESH"} =>
                        MayStart(r, req'[r].op) /\ \A other \in Requests \ {r} : req'[other] = req[other]
    PROVE  TabsInv'
<1>1. NoLoginDuringRefresh'
    BY LoginsStayApart
<1>2. ASSUME NEW t \in Tabs
      PROVE  TabSound(t)'
    <2>1. \A r \in Requests :
              /\ OfTab(r, t)' <=> OfTab(r, t)
              /\ OfTab(r, t) => req'[r].op = req[r].op /\ (req'[r].pc = "me" <=> req[r].pc = "me")
        BY DEF OfTab
    <2> QED BY <2>1, TabKept DEF TabsInv
<1> QED BY <1>1, <1>2 DEF TabsInv

\* A step on one tab and one of its calls.
LEMMA TabChanged ==
    ASSUME PatientTabs, TabsInv, NEW t \in Tabs, NEW r \in Requests, NEW tab \in Tab,
           tabs' = [tabs EXCEPT ![t] = tab],
           \A other \in Requests \ {r} : req'[other] = req[other],
           \A other \in Tabs \ {t} : ~OfTab(r, other) /\ ~OfTab(r, other)',
           req'[r].op \in {"LOGIN", "REFRESH"} => req'[r].op = req[r].op \/ MayStart(r, req'[r].op),
           TabSound(t)'
    PROVE  TabsInv'
<1>1. NoLoginDuringRefresh'
    BY LoginsStayApart
<1>2. ASSUME NEW other \in Tabs, other # t
      PROVE  TabSound(other)'
    <2>1. \A call \in Requests :
              /\ OfTab(call, other)' <=> OfTab(call, other)
              /\ OfTab(call, other) => /\ req'[call].op = req[call].op
                                       /\ req'[call].pc = "me" <=> req[call].pc = "me"
        BY <1>2 DEF OfTab
    <2>2. tabs'[other] = tabs[other]
        BY <1>2 DEF TabsInv
    <2> QED BY <2>1, <2>2, TabKept DEF TabsInv
<1>3. tabs' \in [Tabs -> Tab]
    BY DEF TabsInv
<1> QED BY <1>1, <1>2, <1>3 DEF TabsInv

\* Tabs open, log in and log out.
LEMMA TabsBegin ==
    ASSUME Shape, Shape', PatientTabs, TabsInv, NEW t \in Tabs, NEW r \in Requests,
           Bootstrap(r, t) \/ SubmitLogin(r, t) \/ ClickLogout(r, t)
    PROVE  TabsInv'
<1>1. PICK op, pc, row, seen :
          /\ MayStart(r, op) /\ Starts(r, op, pc, t, row, seen) /\ pc # "me"
          /\ \/ op = "REFRESH" /\ Bootstrap(r, t)
             \/ op = "LOGIN" /\ SubmitLogin(r, t)
             \/ op = "LOGOUT" /\ ClickLogout(r, t)
    BY DEF Bootstrap, SubmitLogin, ClickLogout, TabStarts
<1>2. /\ req'[r].op = op /\ req'[r].pc = pc /\ req'[r].who = t
      /\ \A other \in Requests \ {r} : req'[other] = req[other]
      /\ req[r].op = "none"
    BY <1>1 DEF Starts, MayStart, Shape, CallShape
<1>3. /\ \A other \in Tabs : ~OfTab(r, other)
      /\ OfTab(r, t)' /\ \A other \in Tabs \ {t} : ~OfTab(r, other)'
      /\ \A call \in Requests \ {r}, other \in Tabs : OfTab(call, other)' <=> OfTab(call, other)
    BY <1>1, <1>2 DEF OfTab
<1>4. TabSound(t) /\ tabs \in [Tabs -> Tab] /\ tabs[t] \in Tab
    BY DEF TabsInv
<1>5. CASE op = "REFRESH" /\ Bootstrap(r, t)
    <2>1. tabs[t].page = "closed" /\ tabs' = [tabs EXCEPT ![t].page = "loading"]
        BY <1>5 DEF Bootstrap
    <2>2. PICK tab \in Tab : /\ tab.page = "loading" /\ tab.user = tabs[t].user /\ tab.token = tabs[t].token
                             /\ tabs' = [tabs EXCEPT ![t] = tab]
        <3>1. [tabs[t] EXCEPT !.page = "loading"] \in Tab
            BY <1>4 DEF Tab
        <3>2. [tabs EXCEPT ![t].page = "loading"] = [tabs EXCEPT ![t] = [tabs[t] EXCEPT !.page = "loading"]]
            BY <1>4
        <3> QED BY <1>4, <2>1, <3>1, <3>2 DEF Tab
    <2>3. ~tabs[t].user /\ ~tabs[t].token /\ \A call \in Requests : ~OfTab(call, t)
        BY <1>4, <2>1 DEF TabSound
    <2>4. tabs'[t] = tab
        BY <1>4, <2>2
    <2>5. \A call \in Requests : OfTab(call, t)' => call = r
        BY <1>3, <2>3
    <2>6. Refreshes(r, t)' /\ req'[r].pc # "me"
        BY <1>1, <1>2, <1>3, <1>5 DEF Refreshes
    <2>7. \A call \in Requests : Refreshes(call, t)' => call = r
        BY <2>5 DEF Refreshes
    <2>8. TabSound(t)'
        BY <2>2, <2>3, <2>4, <2>5, <2>6, <2>7 DEF TabSound
    <2> QED BY <1>1, <1>2, <1>3, <2>2, <2>8, TabChanged
<1>6. CASE op \in {"LOGIN", "LOGOUT"} /\ (SubmitLogin(r, t) \/ ClickLogout(r, t))
    <2>1. /\ UNCHANGED tabs /\ tabs[t].page # "closed"
          /\ \A call \in Requests : ~Refreshes(call, t)
        <3>1. CASE op = "LOGIN" /\ SubmitLogin(r, t)
            <4>1. \A call \in Requests : req[call].op # "REFRESH"
                BY <1>1, <3>1 DEF MayStart, PatientTabs, Apart
            <4> QED BY <3>1, <4>1 DEF SubmitLogin, browserVars, Refreshes
        <3>2. CASE op = "LOGOUT" /\ ClickLogout(r, t)
            <4>1. tabs[t].user /\ UNCHANGED tabs
                BY <3>2 DEF ClickLogout, browserVars
            <4> QED BY <1>4, <4>1 DEF TabSound
        <3> QED BY <1>1, <1>6, <3>1, <3>2
    <2>2. tabs' = [tabs EXCEPT ![t] = tabs[t]]
        BY <1>4, <2>1
    <2>3. \A call \in Requests : ~Refreshes(call, t)'
        BY <1>2, <1>3, <1>6, <2>1 DEF Refreshes
    <2>4. TabSound(t)'
        BY <1>4, <2>1, <2>3 DEF TabSound
    <2> QED BY <1>1, <1>2, <1>3, <1>4, <2>2, <2>4, TabChanged
<1> QED BY <1>1, <1>5, <1>6

\* Answers arrive.
LEMMA TabsAnswered ==
    ASSUME Shape, Shape', PatientTabs, TabsInv, NEW r \in Requests,
           TakeAnswer(r) \/ TakeMe(r) \/ TakeRefusal(r)
    PROVE  TabsInv'
<1> DEFINE t == req[r].who
<1>1. /\ req[r].op \in {"LOGIN", "REFRESH", "LOGOUT"}
      /\ tabs \in [Tabs -> Tab] /\ \A other \in Tabs : TabSound(other) /\ tabs[other] \in Tab
      /\ TakeMe(r) => req[r].op = "REFRESH" /\ req[r].pc = "me"
      /\ TakeRefusal(r) => req[r].op = "REFRESH" /\ req[r].pc = "refused"
    BY DEF TakeAnswer, TakeMe, TakeRefusal, At, TabsInv, Shape, CallShape
<1>2. /\ \A other \in Requests \ {r} : req'[other] = req[other]
      /\ \/ req'[r] = Idle
         \/ /\ TakeAnswer(r) /\ req[r].op = "REFRESH"
            /\ req'[r].op = req[r].op /\ req'[r].pc = "me" /\ req'[r].who = req[r].who
    <2>1. Ends(r) \/ (Goto(r, "me") /\ TakeAnswer(r) /\ req[r].op = "REFRESH")
        BY <1>1 DEF TakeAnswer, TakeMe, TakeRefusal
    <2> QED BY <2>1 DEF Goto, Ends, Shape, CallShape, Idle
\* What the tab shows then: the answer of a login, of a logout, of a refresh, and of getMe.
<1>3. PICK tab \in Tab :
          /\ tabs' = [tabs EXCEPT ![t] = tab]
          /\ t \in Tabs => tab.page = tabs[t].page \/ tab.page = "ready"
          /\ \/ tab.user = tab.token /\ req'[r] = Idle
             \/ /\ t \in Tabs => tab.user = tabs[t].user
                /\ tab.token = TRUE /\ TakeAnswer(r) /\ req[r].op = "REFRESH" /\ req'[r].op = req[r].op
             \/ /\ TakeMe(r) /\ t \in Tabs /\ req'[r] = Idle
                /\ tab.user = TRUE /\ tab.token = tabs[t].token
    <2> DEFINE ready == [NoPage EXCEPT !.page = "ready"]
    <2>1. ready \in Tab /\ ready.page = "ready" /\ ready.user = FALSE /\ ready.token = FALSE
        BY DEF NoPage, Tab
    <2>2. CASE t \notin Tabs
        <3>1. /\ \A user, token : SetTab(t, user, token) => tabs' = tabs
              /\ \A page : [tabs EXCEPT ![t] = page] = tabs
              /\ [tabs EXCEPT ![t].page = "ready", ![t].user = TRUE] = tabs
            BY <1>1, <2>2 DEF SetTab
        <3>2. tabs' = tabs
            <4>1. TakeAnswer(r) => tabs' = tabs
                BY <1>1, <3>1 DEF TakeAnswer
            <4>2. TakeMe(r) => tabs' = tabs
                BY <3>1 DEF TakeMe
            <4>3. TakeRefusal(r) => tabs' = tabs
                BY <3>1 DEF TakeRefusal
            <4> QED BY <4>1, <4>2, <4>3
        <3>3. CASE req'[r] = Idle
            <4> HIDE DEF ready
            <4> QED BY <2>1, <2>2, <3>1, <3>2, <3>3
        <3>4. CASE TakeAnswer(r) /\ req[r].op = "REFRESH" /\ req'[r].op = req[r].op
            <4>1. PICK tab \in Tab : tab.token = TRUE
                <5>1. [NoPage EXCEPT !.token = TRUE] \in Tab /\ [NoPage EXCEPT !.token = TRUE].token = TRUE
                    BY DEF NoPage, Tab
                <5> QED BY <5>1
            <4> QED BY <2>2, <3>1, <3>2, <3>4, <4>1
        <3> QED BY <1>2, <3>3, <3>4
    <2>3. CASE t \in Tabs /\ TakeAnswer(r)
        <3>1. ASSUME NEW user \in BOOLEAN, NEW token \in BOOLEAN, SetTab(t, user, token)
              PROVE  \E tab \in Tab : /\ tabs' = [tabs EXCEPT ![t] = tab] /\ tab.page = tabs[t].page
                                      /\ tab.user = user /\ tab.token = token
            <4> DEFINE tab == [tabs[t] EXCEPT !.user = user, !.token = token]
            <4>1. tab \in Tab /\ tab.page = tabs[t].page /\ tab.user = user /\ tab.token = token
                BY <1>1, <2>3 DEF Tab
            <4>2. tabs' = [tabs EXCEPT ![t] = tab]
                BY <1>1, <2>3, <3>1 DEF SetTab
            <4> HIDE DEF tab
            <4> QED BY <4>1, <4>2
        <3>2. tabs[t].user \in BOOLEAN
            BY <1>1, <2>3 DEF Tab
        <3>3. CASE req[r].op = "LOGIN"
            <4>1. SetTab(t, TRUE, TRUE) /\ req'[r] = Idle
                BY <2>3, <3>3 DEF TakeAnswer, Ends, Shape
            <4> QED BY <3>1, <4>1
        <3>4. CASE req[r].op = "LOGOUT"
            <4>1. SetTab(t, FALSE, FALSE) /\ req'[r] = Idle
                BY <2>3, <3>4 DEF TakeAnswer, Ends, Shape
            <4> QED BY <3>1, <4>1
        <3>5. CASE req[r].op = "REFRESH"
            <4>1. SetTab(t, tabs[t].user, TRUE) /\ Goto(r, "me")
                BY <2>3, <3>5 DEF TakeAnswer
            <4>2. req'[r].op = req[r].op
                BY <4>1 DEF Goto, Shape, CallShape, Idle
            <4> QED BY <2>3, <3>1, <3>2, <3>5, <4>1, <4>2
        <3> QED BY <1>1, <3>3, <3>4, <3>5
    <2>4. CASE t \in Tabs /\ TakeMe(r)
        <3>1. req'[r] = Idle
            BY <2>4 DEF TakeMe, Ends, Shape
        <3>2. CASE status = "ACTIVE"
            <4> DEFINE tab == [tabs[t] EXCEPT !.page = "ready", !.user = TRUE]
            <4>1. tab \in Tab /\ tab.page = "ready" /\ tab.user = TRUE /\ tab.token = tabs[t].token
                BY <1>1, <2>4 DEF Tab
            <4>2. tabs' = [tabs EXCEPT ![t].page = "ready", ![t].user = TRUE]
                BY <2>4, <3>2 DEF TakeMe
            <4>3. tabs' = [tabs EXCEPT ![t] = tab]
                BY <1>1, <2>4, <4>2
            <4> HIDE DEF tab
            <4> QED BY <2>4, <3>1, <4>1, <4>3
        <3>3. CASE status # "ACTIVE"
            <4>1. tabs' = [tabs EXCEPT ![t] = ready]
                BY <2>4, <3>3 DEF TakeMe
            <4> HIDE DEF ready
            <4> QED BY <2>1, <3>1, <4>1
        <3> QED BY <3>2, <3>3
    <2>5. CASE t \in Tabs /\ TakeRefusal(r)
        <3>1. tabs' = [tabs EXCEPT ![t] = ready] /\ req'[r] = Idle
            BY <2>5 DEF TakeRefusal, Ends, Shape
        <3> HIDE DEF ready
        <3> QED BY <2>1, <3>1
    <2> QED BY <2>2, <2>3, <2>4, <2>5
<1>4. tab \in Tab /\ tab.user \in BOOLEAN /\ tab.token \in BOOLEAN
    BY DEF Tab
<1>5. tabs' = [tabs EXCEPT ![t] = tab]
    BY <1>3
<1>6. /\ \A other \in Tabs \ {t} : ~OfTab(r, other) /\ ~OfTab(r, other)'
      /\ \A call \in Requests \ {r}, other \in Tabs : OfTab(call, other)' <=> OfTab(call, other)
      /\ req'[r] = Idle => \A other \in Tabs : ~OfTab(r, other)'
    BY <1>2 DEF OfTab, Idle
<1>7. req'[r].op \in {"LOGIN", "REFRESH"} => req'[r].op = req[r].op
    BY <1>2 DEF Idle
<1>8. CASE t \notin Tabs
    <2>1. tabs' = tabs
        BY <1>1, <1>5, <1>8
    <2>2. \A other \in Tabs : ~OfTab(r, other) /\ ~OfTab(r, other)'
        BY <1>6, <1>8
    <2>3. NoLoginDuringRefresh'
        BY <1>2, <1>7, LoginsStayApart
    <2>4. ASSUME NEW other \in Tabs
          PROVE  TabSound(other)'
        <3>1. \A call \in Requests :
                  /\ OfTab(call, other)' <=> OfTab(call, other)
                  /\ OfTab(call, other) => /\ req'[call].op = req[call].op
                                           /\ req'[call].pc = "me" <=> req[call].pc = "me"
            BY <1>2, <1>6, <2>2
        <3> QED BY <1>1, <2>1, <3>1, TabKept
    <2> QED BY <1>1, <2>1, <2>3, <2>4 DEF TabsInv
<1>9. ASSUME NEW who \in Tabs, who = t
      PROVE  TabsInv'
    <2>1. OfTab(r, who) /\ TabSound(who) /\ tabs'[who] = tab
        BY <1>1, <1>5, <1>9 DEF OfTab
    <2>2. tab.page # "closed"
        <3>1. tabs[who].page # "closed"
            BY <2>1 DEF TabSound
        <3> QED BY <1>3, <1>9, <3>1
    <2>3. \A call \in Requests \ {r} : Refreshes(call, who)' <=> Refreshes(call, who)
        BY <1>2, <1>6 DEF Refreshes
    <2>4. \A call \in Requests : Refreshes(call, who) => call = r
        BY <2>1 DEF TabSound
    <2>5. TabSound(who)'
        <3>1. CASE tab.user = tab.token /\ req'[r] = Idle
            <4>1. \A call \in Requests : ~Refreshes(call, who)'
                BY <1>6, <2>3, <2>4, <3>1 DEF Refreshes
            <4> QED BY <1>4, <2>1, <2>2, <3>1, <4>1 DEF TabSound
        <3>2. CASE /\ tab.user = tabs[who].user /\ tab.token = TRUE
                   /\ TakeAnswer(r) /\ req[r].op = "REFRESH" /\ req'[r].op = req[r].op
            <4>1. Refreshes(r, who) /\ ~tabs[who].user /\ \A other \in Requests : OfTab(other, who) => other = r
                BY <2>1, <3>2 DEF Refreshes, TabSound
            <4>2. req'[r].pc = "me" /\ req'[r].op = "REFRESH" /\ req'[r].who = who
                BY <1>2, <1>9, <3>2 DEF Idle
            <4>3. Refreshes(r, who)'
                BY <4>2 DEF Refreshes, OfTab
            <4>4. \A other \in Requests : OfTab(other, who)' => other = r
                BY <1>6, <4>1
            <4>5. \A other \in Requests : Refreshes(other, who)' => other = r
                BY <4>4 DEF Refreshes
            <4> QED BY <1>4, <2>1, <2>2, <3>2, <4>1, <4>2, <4>3, <4>4, <4>5 DEF TabSound
        <3>3. CASE TakeMe(r) /\ tab.user = TRUE /\ tab.token = tabs[who].token /\ req'[r] = Idle
            <4>1. Refreshes(r, who) /\ req[r].pc = "me"
                BY <1>1, <2>1, <3>3 DEF Refreshes
            <4>2. tab.token = TRUE
                BY <2>1, <3>3, <4>1 DEF TabSound
            <4>3. \A call \in Requests : ~Refreshes(call, who)'
                BY <1>6, <2>3, <2>4, <3>3 DEF Refreshes
            <4> QED BY <1>4, <2>1, <2>2, <3>3, <4>2, <4>3 DEF TabSound
        <3> QED BY <1>3, <1>9, <3>1, <3>2, <3>3
    <2> QED BY <1>2, <1>4, <1>5, <1>6, <1>7, <1>9, <2>5, TabChanged
<1> QED BY <1>8, <1>9

LEMMA TabsStepInv ==
    ASSUME Shape, PatientTabs, TabsInv, [Next]_vars
    PROVE  TabsInv'
<1>1. Shape' /\ UNCHANGED workload /\ ~workload.crashes
    BY AccountFrame DEF PatientTabs
<1>2. CASE UNCHANGED accountVars /\ Untouched(AccountOps)
    <2>1. UNCHANGED tabs
        BY <1>2 DEF accountVars, browserVars
    <2>2. \A r \in Requests :
              \/ req'[r] = req[r]
              \/ req[r].op \notin AccountOps /\ req'[r].op \notin AccountOps
        BY <1>1, <1>2 DEF Untouched
    <2>3. \A r \in Requests :
              \/ req'[r] = req[r]
              \/ /\ \A t \in Tabs : ~OfTab(r, t) /\ ~OfTab(r, t)'
                 /\ req'[r].op \notin {"LOGIN", "REFRESH"}
        BY <2>2 DEF OfTab, AccountOps
    <2> QED BY <2>1, <2>3, TabsKept
\* A call that is no tab's begins.
<1>3. ASSUME NEW r \in Requests, NEW op, NEW pc, NEW who, NEW row, NEW seen,
             MayStart(r, op), Starts(r, op, pc, who, row, seen), UNCHANGED tabs,
             op \notin {"LOGIN", "REFRESH", "LOGOUT"} \/ who = "nobody"
      PROVE  TabsInv'
    <2>1. /\ req'[r].op = op /\ req'[r].who = who /\ req[r].op = "none"
          /\ \A other \in Requests \ {r} : req'[other] = req[other]
        BY <1>3 DEF Starts, MayStart, Shape, CallShape
    <2>2. \A t \in Tabs : ~OfTab(r, t) /\ ~OfTab(r, t)'
        BY <1>3, <2>1, TabsAssumption DEF OfTab
    <2> QED BY <1>3, <2>1, <2>2, TabsKept
<1>4. CASE SessionsBegin /\ UNCHANGED browserVars
    <2>1. UNCHANGED tabs
        BY <1>4 DEF browserVars
    <2>2. ASSUME NEW r \in Requests, BeginLogin(r) \/ BeginRefresh(r) \/ BeginConnect(r)
          PROVE  TabsInv'
        BY <1>3, <2>1, <2>2 DEF BeginLogin, BeginRefresh, BeginConnect, Begins
    <2>3. ASSUME NEW r \in Requests,
                 BeginModerate(r) \/ BeginModerateStaff(r) \/ BeginRevoke(r) \/ BeginReset(r)
          PROVE  TabsInv'
        BY <1>3, <2>1, <2>3 DEF BeginModerate, BeginModerateStaff, BeginRevoke, BeginReset, Begins
    <2>4. UNCHANGED req => TabsInv'
        BY <2>1, TabsKept
    <2>5. Logout \/ ForgotPassword \/ (\E s \in Sockets : ReceiveEvent(s)) => TabsInv'
        BY <2>4 DEF Logout, ForgotPassword, ReceiveEvent
    <2> QED BY <1>4, <2>2, <2>3, <2>5 DEF SessionsBegin
<1>5. CASE BrowserBegin
    <2>1. \A t \in Tabs : ~Leave(t)
        BY DEF PatientTabs, Leave
    <2> QED BY <1>1, <1>5, <2>1, TabsBegin DEF BrowserBegin
\* A call goes on, before its tab has its answer, or ends without a tab.
<1>6. ASSUME NEW r \in Requests, UNCHANGED tabs,
             \A other \in Requests \ {r} : req'[other] = req[other],
             \/ /\ req'[r].op = req[r].op /\ req'[r].who = req[r].who
                /\ req[r].pc # "me" /\ req'[r].pc # "me"
             \/ /\ req'[r] = Idle
                /\ \A t \in Tabs : ~OfTab(r, t)
      PROVE  TabsInv'
    <2> DEFINE Same(call) == /\ req'[call].op = req[call].op /\ req'[call].who = req[call].who
                             /\ req[call].pc # "me" /\ req'[call].pc # "me"
               Ended(call) == /\ \A t \in Tabs : ~OfTab(call, t) /\ ~OfTab(call, t)'
                              /\ req'[call].op \notin {"LOGIN", "REFRESH"}
    <2>1. CASE Same(r)
        BY <1>6, <2>1, TabsKept
    <2>2. CASE req'[r] = Idle /\ \A t \in Tabs : ~OfTab(r, t)
        <3>1. Ended(r)
            BY <2>2 DEF Idle, OfTab
        <3> QED BY <1>6, <3>1, TabsKept
    <2> QED BY <1>6, <2>1, <2>2
<1>7. ASSUME NEW r \in Requests, NEW pc, NEW row, Answers(r, pc, row), UNCHANGED tabs,
             pc # "me", req[r].pc # "me"
      PROVE  TabsInv'
    <2>1. CASE req[r].who = "nobody"
        <3>1. req'[r] = Idle /\ \A other \in Requests \ {r} : req'[other] = req[other]
            BY <1>7, <2>1 DEF Answers, Ends, Shape
        <3>2. \A t \in Tabs : ~OfTab(r, t)
            BY <2>1, TabsAssumption DEF OfTab
        <3> QED BY <1>6, <1>7, <3>1, <3>2
    <2>2. CASE req[r].who # "nobody"
        <3>1. /\ req'[r].op = req[r].op /\ req'[r].who = req[r].who /\ req'[r].pc = pc
              /\ \A other \in Requests \ {r} : req'[other] = req[other]
            BY <1>7, <2>2 DEF Answers, Shape, CallShape, Idle
        <3> QED BY <1>6, <1>7, <3>1
    <2> QED BY <2>1, <2>2
<1>8. ASSUME NEW r \in Requests, NEW pc, Goto(r, pc), UNCHANGED tabs, pc # "me", req[r].pc # "me"
      PROVE  TabsInv'
    <2>1. /\ req'[r].op = req[r].op /\ req'[r].who = req[r].who /\ req'[r].pc = pc
          /\ \A other \in Requests \ {r} : req'[other] = req[other]
        BY <1>8 DEF Goto, Shape, CallShape, Idle
    <2> QED BY <1>6, <1>8, <2>1
<1>9. ASSUME NEW r \in Requests, SessionsStep(r), UNCHANGED browserVars
      PROVE  TabsInv'
    <2>1. UNCHANGED tabs
        BY <1>9 DEF browserVars
    <2>2. DeleteToken(r) => TabsInv'
        BY <1>7, <1>8, <2>1 DEF DeleteToken, At
    <2>3. IssueTokens(r) => TabsInv'
        BY <1>7, <2>1 DEF IssueTokens
    <2>4. ASSUME RevokeSessions(r) \/ DisconnectUser(r) \/ JoinUserRoom(r)
          PROVE  TabsInv'
        <3>1. req[r].op \in Revoking \cup {"CONNECT"} /\ req[r].pc # "me"
            BY <2>4 DEF RevokeSessions, DisconnectUser, JoinUserRoom, At, Shape, CallShape
        <3>2. \A t \in Tabs : ~OfTab(r, t)
            BY <3>1 DEF OfTab, Revoking
        <3>3. Ends(r) \/ Goto(r, "disconnect")
            BY <2>4 DEF RevokeSessions, DisconnectUser, JoinUserRoom
        <3>4. CASE Ends(r)
            <4>1. req'[r] = Idle /\ \A other \in Requests \ {r} : req'[other] = req[other]
                BY <3>4 DEF Ends, Shape
            <4> QED BY <1>6, <2>1, <3>2, <4>1
        <3> QED BY <1>8, <2>1, <3>1, <3>3, <3>4
    <2> QED BY <1>9, <2>2, <2>3, <2>4 DEF SessionsStep
<1>10. ASSUME NEW r \in Requests, ForgetToken(r)
       PROVE  TabsInv'
    BY <1>7, <1>10 DEF ForgetToken, At, browserVars
<1>11. ASSUME NEW r \in Requests, BrowserStep(r)
       PROVE  TabsInv'
    BY <1>1, <1>10, <1>11, TabsAnswered DEF BrowserStep
<1>12. ASSUME NEW s \in Sockets, RequireActiveUser(s), UNCHANGED browserVars
       PROVE  TabsInv'
    <2>1. UNCHANGED <<tabs, req>>
        BY <1>12 DEF RequireActiveUser, browserVars
    <2> QED BY <2>1, TabsKept
<1> QED BY <1>2, <1>4, <1>5, <1>9, <1>11, <1>12, AccountFrame DEF AccountNext

\* However the calls of the tabs overlap and their answers cross, the browser is left
\* with a cookie that is a live session or none, and each tab with a user exactly if it
\* has a token, under the conditions that SessionSurvives names.
THEOREM SpecSessionSurvives == Spec => []SessionSurvives
<1> DEFINE Inv == (OwnTokens => CookieInv) /\ (PatientTabs => TabsInv)
<1>1. Init => Shape /\ Inv
    <2> SUFFICES ASSUME Init
                 PROVE  CookieInv /\ TabsInv
        BY InitShape
    <2>1. /\ \A r \in Requests : req[r] = Idle
          /\ issued = 0 /\ revocations = 0 /\ cookie = 0 /\ tabs = [t \in Tabs |-> NoPage]
        BY DEF Init, StoreInit, SessionsInit, BrowserInit
    <2>2. CookieInv
        BY <2>1 DEF CookieInv, CookieTyped, TokensOnTheWay, CookieBacked, Deletes, At, BringsToken, Idle
    <2>3. NoPage \in Tab /\ NoPage.page = "closed" /\ NoPage.user = FALSE /\ NoPage.token = FALSE
        BY DEF NoPage, Tab
    <2>4. \A r \in Requests, t \in Tabs : ~OfTab(r, t)
        BY <2>1 DEF OfTab, Idle
    <2>5. \A t \in Tabs : TabSound(t)
        BY <2>1, <2>3, <2>4 DEF TabSound, Refreshes
    <2>6. NoLoginDuringRefresh
        BY <2>1 DEF NoLoginDuringRefresh, Idle
    <2> QED BY <2>1, <2>2, <2>3, <2>5, <2>6 DEF TabsInv
<1>2. Shape /\ Inv /\ [Next]_vars => Shape' /\ Inv'
    <2> SUFFICES ASSUME Shape, Inv, [Next]_vars
                 PROVE  Shape' /\ Inv'
        OBVIOUS
    <2>1. Shape' /\ UNCHANGED workload
        BY AccountFrame
    <2>2. (OwnTokens' => OwnTokens) /\ (PatientTabs' => PatientTabs)
        BY <2>1 DEF OwnTokens, PatientTabs, Serves, Apart
    <2> QED BY <2>1, <2>2, CookieStepInv, TabsStepInv
<1>3. Shape /\ Inv => SessionSurvives
    <2> SUFFICES ASSUME Shape, Inv, Quiescent, ~Serves("LEAVE"), ~workload.crashes
                 PROVE  /\ cookie # 0 /\ revocations = 0 /\ ~Serves("REFRESH") /\ ~Serves("LOGOUT") =>
                              \E token \in tokens : token.id = cookie
                        /\ Apart({"LOGIN"}, {"REFRESH"}) => \A t \in Tabs : tabs[t].user <=> tabs[t].token
        BY DEF SessionSurvives
    <2>1. ASSUME cookie # 0, revocations = 0, OwnTokens
          PROVE  \E token \in tokens : token.id = cookie
        <3>1. \A r \in Requests : ~Comes(r)
            BY DEF Quiescent, Comes
        <3> QED BY <2>1, <3>1 DEF CookieInv, CookieBacked, Live
    <2>2. ASSUME Apart({"LOGIN"}, {"REFRESH"})
          PROVE  \A t \in Tabs : tabs[t].user <=> tabs[t].token
        <3>1. TabsInv
            BY <2>2 DEF PatientTabs
        <3>2. \A r \in Requests, t \in Tabs : ~Refreshes(r, t)
            BY <2>2 DEF Quiescent, Refreshes, OfTab, Shape, CallShape
        <3> QED BY <3>1, <3>2 DEF TabsInv, TabSound
    <2> QED BY <2>1, <2>2 DEF OwnTokens
<1> QED BY <1>1, <1>2, <1>3, PTL DEF Spec

-----------------------------------------------------------------------------
(***************************************************************************)
(* Types and bounds                                                        *)
(***************************************************************************)
\* Calls that may still issue a token, and those that may still end the sessions.
Unissued == {r \in Requests : req[r].op \in {"LOGIN", "REFRESH"} /\ req[r].pc \in {"delete", "issue"}}

Ending == {r \in Requests : req[r].pc = "revoke"}

\* What a call that has begun may still add was counted when it began.
Within(count, calls, max) == count \in Nat /\ count + Cardinality(calls) <= max

LEMMA WithinStays ==
    ASSUME NEW count, NEW max \in Nat, NEW calls \in SUBSET Requests,
           NEW calls1 \in SUBSET calls, Within(count, calls, max)
    PROVE  Within(count, calls1, max)
<1>1. IsFiniteSet(calls)
    BY FS_Subset, StoreAssumption
<1>2. Cardinality(calls1) <= Cardinality(calls) /\ IsFiniteSet(calls1)
    BY <1>1, FS_Subset
<1>3. Cardinality(calls) \in Nat /\ Cardinality(calls1) \in Nat
    BY <1>1, <1>2, FS_CardinalityType
<1> QED BY <1>2, <1>3 DEF Within

LEMMA WithinBegins ==
    ASSUME NEW count \in Nat, NEW max \in Nat, NEW calls \in SUBSET Requests, NEW r \in Requests,
           NEW calls1 \in SUBSET (calls \cup {r}), NEW others \in SUBSET Requests,
           calls \subseteq others, count + Cardinality(others) < max
    PROVE  Within(count, calls1, max)
<1>1. IsFiniteSet(calls) /\ IsFiniteSet(others)
    BY FS_Subset, StoreAssumption
<1>2. Cardinality(calls) <= Cardinality(others)
    BY <1>1, FS_Subset
<1>3. Cardinality(calls) \in Nat /\ Cardinality(others) \in Nat
    BY <1>1, FS_CardinalityType
<1>4. /\ IsFiniteSet(calls \cup {r})
      /\ Cardinality(calls \cup {r}) \in {Cardinality(calls), Cardinality(calls) + 1}
    BY <1>1, FS_AddElement
<1>5. Cardinality(calls1) <= Cardinality(calls \cup {r}) /\ IsFiniteSet(calls1)
    BY <1>4, FS_Subset
<1>6. Cardinality(calls1) \in Nat
    BY <1>5, FS_CardinalityType
<1> QED BY <1>2, <1>3, <1>4, <1>5, <1>6 DEF Within

LEMMA WithinAdds ==
    ASSUME NEW count, NEW max \in Nat, NEW calls \in SUBSET Requests, NEW r \in calls,
           NEW calls1 \in SUBSET (calls \ {r}), Within(count, calls, max)
    PROVE  Within(count + 1, calls1, max) /\ count < max
<1>1. IsFiniteSet(calls)
    BY FS_Subset, StoreAssumption
<1>2. IsFiniteSet(calls \ {r}) /\ Cardinality(calls \ {r}) = Cardinality(calls) - 1
    BY <1>1, FS_RemoveElement
<1>3. Cardinality(calls1) <= Cardinality(calls \ {r}) /\ IsFiniteSet(calls1)
    BY <1>2, FS_Subset
<1>4. Cardinality(calls) \in Nat /\ Cardinality(calls1) \in Nat
    BY <1>1, <1>3, FS_CardinalityType
<1> QED BY <1>2, <1>3, <1>4 DEF Within

\* No call is added, or it is the one that the bound allowed.
LEMMA CallsBegin ==
    ASSUME Shape, SessionsBegin \/ BrowserBegin
    PROVE  /\ \/ Unissued' \subseteq Unissued
              \/ \E r \in Requests : Unissued' \subseteq Unissued \cup {r} /\ CanIssue
           /\ \/ Ending' \subseteq Ending
              \/ \E r \in Requests : Ending' \subseteq Ending \cup {r} /\ CanRevoke
           /\ UNCHANGED <<issued, revocations>>
<1> USE DEF Unissued, Ending, Starts, Begins, TabStarts
<1>1. ASSUME NEW r \in Requests, BeginLogin(r) \/ BeginRefresh(r)
      PROVE  /\ Unissued' \subseteq Unissued \cup {r} /\ CanIssue
             /\ Ending' \subseteq Ending /\ UNCHANGED <<issued, revocations>>
    BY <1>1 DEF BeginLogin, BeginRefresh, sessionVars, Shape
<1>2. ASSUME NEW r \in Requests, BeginModerate(r) \/ BeginModerateStaff(r) \/ BeginRevoke(r) \/ BeginReset(r)
      PROVE  /\ Ending' \subseteq Ending \cup {r} /\ CanRevoke
             /\ Unissued' \subseteq Unissued /\ UNCHANGED <<issued, revocations>>
    BY <1>2 DEF BeginModerate, BeginModerateStaff, BeginRevoke, BeginReset, sessionVars, Shape
<1>3. ASSUME NEW r \in Requests, BeginConnect(r)
      PROVE  /\ Ending' \subseteq Ending
             /\ Unissued' \subseteq Unissued /\ UNCHANGED <<issued, revocations>>
    BY <1>3 DEF BeginConnect, sessionVars, Shape
<1>4. ASSUME NEW r \in Requests, NEW t \in Tabs, Bootstrap(r, t) \/ SubmitLogin(r, t)
      PROVE  /\ Unissued' \subseteq Unissued \cup {r} /\ CanIssue
             /\ Ending' \subseteq Ending /\ UNCHANGED <<issued, revocations>>
    BY <1>4 DEF Bootstrap, SubmitLogin, sessionVars, Shape
<1>5. ASSUME NEW r \in Requests, NEW t \in Tabs, ClickLogout(r, t)
      PROVE  /\ Ending' \subseteq Ending
             /\ Unissued' \subseteq Unissued /\ UNCHANGED <<issued, revocations>>
    BY <1>5 DEF ClickLogout, sessionVars, Shape
<1>6. ASSUME NEW t \in Tabs, Leave(t)
      PROVE  /\ Ending' \subseteq Ending
             /\ Unissued' \subseteq Unissued /\ UNCHANGED <<issued, revocations>>
    BY <1>6 DEF Leave, sessionVars, Shape, CallShape, Idle
<1>7. CASE Logout \/ ForgotPassword \/ \E s \in Sockets : ReceiveEvent(s)
    BY <1>7 DEF Logout, ForgotPassword, ReceiveEvent
<1> QED BY <1>1, <1>2, <1>3, <1>4, <1>5, <1>6, <1>7 DEF SessionsBegin, BrowserBegin

\* A step of a call does what it was counted for, or adds none.
LEMMA CallsStep ==
    ASSUME Shape, NEW r \in Requests, SessionsStep(r) \/ BrowserStep(r)
    PROVE  /\ \/ Unissued' \subseteq Unissued /\ UNCHANGED issued
              \/ r \in Unissued /\ Unissued' \subseteq Unissued \ {r} /\ issued' = issued + 1
           /\ \/ Ending' \subseteq Ending /\ UNCHANGED revocations
              \/ r \in Ending /\ Ending' \subseteq Ending \ {r} /\ revocations' = revocations + 1
<1>1. CASE DeleteToken(r)
    <2>1. Goto(r, "issue") \/ Answers(r, "refused", 0)
        BY <1>1 DEF DeleteToken
    <2>2. At(r, "REFRESH", "delete") /\ UNCHANGED <<issued, revocations>>
        BY <1>1 DEF DeleteToken
    <2> QED BY <2>1, <2>2, AnswersSlot, GoesOrEnds DEF Unissued, Ending, At, Idle
<1>2. CASE IssueTokens(r)
    <2>1. Answers(r, "answered", issued') /\ issued' = issued + 1 /\ UNCHANGED revocations
        BY <1>2 DEF IssueTokens
    <2>2. req[r].pc = "issue" /\ req[r].op \in {"LOGIN", "REFRESH"}
        BY <1>2 DEF IssueTokens, Shape, CallShape
    <2>3. /\ \A other \in Requests \ {r} : req'[other] = req[other]
          /\ req'[r] = Idle \/ req'[r].pc = "answered"
        BY <2>1, AnswersSlot
    <2> QED BY <2>1, <2>2, <2>3 DEF Unissued, Ending, Idle
<1>3. CASE RevokeSessions(r)
    <2>1. /\ req[r].pc = "revoke" /\ UNCHANGED issued
          /\ \/ revocations' = revocations /\ Ends(r)
             \/ revocations' = revocations + 1 /\ Goto(r, "disconnect")
        BY <1>3 DEF RevokeSessions
    <2>2. /\ \A other \in Requests \ {r} : req'[other] = req[other]
          /\ req'[r] = Idle \/ req'[r].pc = "disconnect"
        BY <2>1, GoesOrEnds
    <2> QED BY <2>1, <2>2 DEF Unissued, Ending, Idle
<1>4. CASE DisconnectUser(r) \/ JoinUserRoom(r) \/ TakeMe(r) \/ TakeRefusal(r)
    <2>1. Ends(r) /\ UNCHANGED <<issued, revocations>>
        BY <1>4 DEF DisconnectUser, JoinUserRoom, TakeMe, TakeRefusal, sessionVars
    <2> QED BY <2>1, GoesOrEnds DEF Unissued, Ending, Idle
<1>5. CASE ForgetToken(r)
    <2>1. Answers(r, "answered", 0) /\ UNCHANGED <<issued, revocations>>
        BY <1>5 DEF ForgetToken
    <2> QED BY <2>1, AnswersSlot DEF Unissued, Ending, Idle
<1>6. CASE TakeAnswer(r)
    <2>1. req[r].op \in {"LOGIN", "REFRESH", "LOGOUT"}
        BY <1>6 DEF TakeAnswer, Shape, CallShape
    <2>2. (Goto(r, "me") \/ Ends(r)) /\ UNCHANGED <<issued, revocations>>
        BY <1>6, <2>1 DEF TakeAnswer, sessionVars
    <2> QED BY <2>2, GoesOrEnds DEF Unissued, Ending, Idle
<1> QED BY <1>1, <1>2, <1>3, <1>4, <1>5, <1>6 DEF SessionsStep, BrowserStep

AccountBounds == Within(issued, Unissued, MaxTokens) /\ Within(revocations, Ending, MaxRevocations)

LEMMA AccountBoundsStep ==
    ASSUME Shape, AccountBounds, [Next]_vars
    PROVE  AccountBounds'
<1> USE SessionsAssumption
<1>1. /\ Unissued \subseteq Requests /\ Ending \subseteq Requests
      /\ Issuing \subseteq Requests /\ Unissued \subseteq Issuing
    BY DEF Unissued, Ending, Issuing
<1>2. issued \in Nat /\ revocations \in Nat
    BY DEF AccountBounds, Within
<1>3. CASE UNCHANGED <<issued, revocations>> /\ Unissued' \subseteq Unissued /\ Ending' \subseteq Ending
    <2>1. Within(issued, Unissued', MaxTokens) /\ Within(revocations, Ending', MaxRevocations)
        BY <1>1, <1>3, WithinStays DEF AccountBounds
    <2> QED BY <1>3, <2>1 DEF AccountBounds
<1>4. CASE SessionsBegin \/ BrowserBegin
    <2>1. Within(issued, Unissued', MaxTokens)
        BY <1>1, <1>2, <1>4, CallsBegin, WithinStays, WithinBegins DEF AccountBounds, CanIssue
    <2>2. Within(revocations, Ending', MaxRevocations)
        <3>1. CASE Ending' \subseteq Ending
            BY <1>1, <1>2, <3>1, WithinStays DEF AccountBounds
        <3>2. CASE \E r \in Requests : Ending' \subseteq Ending \cup {r} /\ CanRevoke
            <4>1. revocations + Cardinality(Ending) < MaxRevocations
                BY ONLY <3>2 DEF CanRevoke, Ending
            <4> QED BY <1>1, <1>2, <3>2, <4>1, WithinBegins
        <3> QED BY <1>4, <3>1, <3>2, CallsBegin
    <2> QED BY <1>4, <2>1, <2>2, CallsBegin DEF AccountBounds
<1>5. ASSUME NEW r \in Requests, SessionsStep(r) \/ BrowserStep(r)
      PROVE  AccountBounds'
    <2>1. Within(issued', Unissued', MaxTokens)
        <3>1. CASE Unissued' \subseteq Unissued /\ UNCHANGED issued
            BY <1>1, <3>1, WithinStays DEF AccountBounds
        <3>2. CASE r \in Unissued /\ Unissued' \subseteq Unissued \ {r} /\ issued' = issued + 1
            <4>1. Within(issued + 1, Unissued', MaxTokens)
                BY <1>1, <3>2, WithinAdds DEF AccountBounds
            <4> QED BY <3>2, <4>1
        <3> QED BY <1>5, <3>1, <3>2, CallsStep
    <2>2. Within(revocations', Ending', MaxRevocations)
        BY <1>1, <1>2, <1>5, CallsStep, WithinStays, WithinAdds DEF AccountBounds
    <2> QED BY <2>1, <2>2 DEF AccountBounds
<1>6. ASSUME NEW s \in Sockets, RequireActiveUser(s)
      PROVE  AccountBounds'
    BY <1>3, <1>6 DEF RequireActiveUser, Unissued, Ending
<1>7. CASE UNCHANGED accountVars /\ Untouched(AccountOps)
    <2>1. UNCHANGED <<issued, revocations>>
        BY <1>7 DEF accountVars, sessionVars
    <2>2. Unissued' \subseteq Unissued
        BY <1>7 DEF Untouched, AccountOps, Unissued, Idle
    <2>3. Ending' \subseteq Ending
        BY <1>7, AccountFrame DEF Untouched, AccountOps, Ending, Idle, Shape, CallShape
    <2> QED BY <1>3, <2>1, <2>2, <2>3
<1> QED BY <1>4, <1>5, <1>6, <1>7, AccountFrame DEF AccountNext
\* What a call of an account carries.
AccountCall(call) ==
    /\ call.op \in SignIns /\ call.pc \in {"delete", "issue", "join"} => call.row \in 0..revocations
    /\ call.op \in {"LOGIN", "REFRESH", "LOGOUT"} => call.who \in Tabs \cup {"nobody"}
    /\ call.pc \in {"answered", "refused"} => call.who \in Tabs
    /\ call.op = "REFRESH" /\ call.pc = "me" => call.who \in Tabs
    /\ call.pc = "answered" => call.row \in 0..issued
    /\ call.op \in {"MODERATE", "MODERATE_STAFF"} => call.who \in UserStatus

Epochs == 0..MaxRevocations

Token == [id : 1..MaxTokens, epoch : Epochs]

Socket == [open : BOOLEAN, epoch : Epochs, event : BOOLEAN]

AccountTyped ==
    /\ status \in UserStatus
    /\ tokens \subseteq Token
    /\ logins \in 0..issued
    /\ resets \in Seq({"sent", "used"}) /\ Len(resets) <= MaxResets
    /\ sockets \in [Sockets -> Socket]
    /\ cookie \in 0..issued
    /\ tabs \in [Tabs -> Tab]
    /\ \A r \in Requests : AccountCall(req[r])

LEMMA WithinRange ==
    ASSUME NEW count, NEW max \in Nat, NEW calls \in SUBSET Requests, Within(count, calls, max)
    PROVE  count \in 0..max
<1>1. IsFiniteSet(calls)
    BY FS_Subset, StoreAssumption
<1>2. Cardinality(calls) \in Nat
    BY <1>1, FS_CardinalityType
<1> QED BY <1>2 DEF Within

\* Counters that only grow keep the calls of the other slots in their types.
Grow ==
    /\ issued \in Nat /\ issued' \in Nat /\ issued <= issued'
    /\ revocations \in Nat /\ revocations' \in Nat /\ revocations <= revocations'

LEMMA AccountCallsStay ==
    ASSUME Shape', Grow, \A r \in Requests : AccountCall(req[r]),
           \A r \in Requests :
               \/ req'[r] = req[r]
               \/ req'[r].op \notin AccountOps
               \/ AccountCall(req[r])'
    PROVE  \A r \in Requests : AccountCall(req[r])'
<1> SUFFICES ASSUME NEW r \in Requests
             PROVE  AccountCall(req[r])'
    OBVIOUS
<1>1. CASE req'[r] = req[r]
    <2>1. AccountCall(req[r])
        OBVIOUS
    <2> QED BY <1>1, <2>1 DEF AccountCall, Grow
<1>2. CASE req'[r].op \notin AccountOps
    BY <1>2 DEF AccountCall, AccountOps, SignIns, Revoking, Shape, CallShape
<1> QED BY <1>1, <1>2

\* The typed fields of a slot that a step starts, moves on or ends.
LEMMA AccountCallStarts ==
    ASSUME Shape, NEW r \in Requests, NEW op, NEW pc, NEW who, NEW row, NEW seen,
           Starts(r, op, pc, who, row, seen)
    PROVE  /\ req'[r] = Call(op, pc, who, row, seen)
           /\ \A other \in Requests \ {r} : req'[other] = req[other]
BY DEF Starts, Call, Shape

LEMMA AccountBegins ==
    ASSUME Shape, Shape', AccountTyped, AccountBounds, AccountBounds', Grow,
           SessionsBegin /\ UNCHANGED browserVars
    PROVE  AccountTyped'
<1>1. ASSUME NEW r \in Requests, NEW op, NEW pc, NEW who, NEW row, NEW seen,
             Starts(r, op, pc, who, row, seen), UNCHANGED <<sessionVars, browserVars>>,
             op \in SignIns => row = revocations,
             op \in {"LOGIN", "REFRESH"} => who = "nobody",
             op \in {"MODERATE", "MODERATE_STAFF"} => who \in UserStatus,
             op # "LOGOUT", pc \notin {"answered", "refused", "me"}
      PROVE  AccountTyped'
    <2>1. /\ req'[r] = Call(op, pc, who, row, seen)
          /\ \A other \in Requests \ {r} : req'[other] = req[other]
        BY <1>1, AccountCallStarts
    <2>2. AccountCall(req[r])'
        BY <1>1, <2>1 DEF AccountCall, Call, Grow, sessionVars
    <2>3. \A other \in Requests : AccountCall(req[other])'
        BY <2>1, <2>2, AccountCallsStay DEF AccountTyped
    <2> QED BY <1>1, <2>3 DEF AccountTyped, sessionVars, browserVars
<1>2. ASSUME NEW r \in Requests, BeginLogin(r) \/ BeginRefresh(r)
      PROVE  AccountTyped'
    <2>1. UNCHANGED sessionVars
        BY <1>2 DEF BeginLogin, BeginRefresh
    <2>2. CASE BeginLogin(r)
        <3>1. Starts(r, "LOGIN", "issue", "nobody", revocations, {})
            BY <2>2 DEF BeginLogin
        <3> QED BY <1>1, <2>1, <3>1
    <2>3. CASE BeginRefresh(r)
        <3>1. PICK token \in tokens : Starts(r, "REFRESH", "delete", "nobody", revocations, {token.id})
            BY <2>3 DEF BeginRefresh
        <3> QED BY <1>1, <2>1, <3>1
    <2> QED BY <1>2, <2>2, <2>3
<1>3. ASSUME NEW r \in Requests, BeginModerate(r) \/ BeginModerateStaff(r)
      PROVE  AccountTyped'
    <2>1. UNCHANGED sessionVars
        BY <1>3 DEF BeginModerate, BeginModerateStaff
    <2>2. PICK op \in {"MODERATE", "MODERATE_STAFF"}, to \in UserStatus :
              Starts(r, op, "revoke", to, 0, {})
        BY <1>3 DEF BeginModerate, BeginModerateStaff, AccountTyped, UserStatus, StatusChange
    <2> QED BY <1>1, <2>1, <2>2 DEF SignIns
<1>4. ASSUME NEW r \in Requests, BeginRevoke(r) \/ BeginReset(r)
      PROVE  AccountTyped'
    <2>1. UNCHANGED sessionVars
        BY <1>4 DEF BeginRevoke, BeginReset
    <2>2. \E i : Starts(r, "REVOKE", "revoke", "nobody", i, {}) \/ Starts(r, "RESET", "revoke", "nobody", i, {})
        BY <1>4 DEF BeginRevoke, BeginReset
    <2> QED BY <1>1, <2>1, <2>2 DEF SignIns
<1>5. ASSUME NEW r \in Requests, BeginConnect(r)
      PROVE  AccountTyped'
    <2>1. UNCHANGED sessionVars
        BY <1>5 DEF BeginConnect
    <2>2. PICK s : Starts(r, "CONNECT", "join", "nobody", revocations, {s})
        BY <1>5 DEF BeginConnect
    <2> QED BY <1>1, <2>1, <2>2
<1>6. CASE Logout \/ ForgotPassword \/ \E s \in Sockets : ReceiveEvent(s)
    <2>1. UNCHANGED <<req, status, issued, logins, revocations>> /\ tokens' \subseteq tokens
        BY <1>6 DEF Logout, ForgotPassword, ReceiveEvent
    <2>2. \A other \in Requests : AccountCall(req[other])'
        BY <2>1, AccountCallsStay DEF AccountTyped
    <2>3. resets' \in Seq({"sent", "used"}) /\ Len(resets') <= MaxResets
        <3>1. resets \in Seq({"sent", "used"}) /\ Len(resets) <= MaxResets
            BY DEF AccountTyped
        <3>2. \/ resets' = resets
              \/ resets' = Append(resets, "sent") /\ Len(resets) < MaxResets
            BY <1>6 DEF Logout, ForgotPassword, ReceiveEvent
        <3>3. CASE resets' = Append(resets, "sent") /\ Len(resets) < MaxResets
            <4>1. resets' \in Seq({"sent", "used"}) /\ Len(resets') = Len(resets) + 1
                BY ONLY <3>1, <3>3
            <4>2. Len(resets) \in Nat
                BY ONLY <3>1
            <4> QED BY ONLY <3>3, <4>1, <4>2, SessionsAssumption
        <3> QED BY <3>1, <3>2, <3>3
    <2>4. sockets' \in [Sockets -> Socket]
        BY <1>6 DEF Logout, ForgotPassword, ReceiveEvent, AccountTyped, Socket
    <2> QED BY <2>1, <2>2, <2>3, <2>4 DEF AccountTyped, browserVars
<1> QED BY <1>2, <1>3, <1>4, <1>5, <1>6 DEF SessionsBegin

LEMMA BrowserBegins ==
    ASSUME Shape, Shape', AccountTyped, AccountBounds, AccountBounds', Grow, BrowserBegin
    PROVE  AccountTyped'
<1>1. UNCHANGED sessionVars
    BY DEF BrowserBegin, Bootstrap, SubmitLogin, ClickLogout, Leave
<1>2. cookie' = cookie /\ tabs' \in [Tabs -> Tab]
    <2>1. tabs \in [Tabs -> Tab]
        BY DEF AccountTyped
    <2>2. ASSUME NEW t \in Tabs
          PROVE  NoPage \in Tab /\ [tabs[t] EXCEPT !.page = "loading"] \in Tab
        BY <2>1 DEF Tab, NoPage
    <2>3. ASSUME NEW t \in Tabs, NEW r \in Requests, Bootstrap(r, t)
          PROVE  cookie' = cookie /\ tabs' \in [Tabs -> Tab]
        <3>1. cookie' = cookie /\ tabs' = [tabs EXCEPT ![t] = [tabs[t] EXCEPT !.page = "loading"]]
            BY <2>3 DEF Bootstrap
        <3> QED BY <2>1, <2>2, <3>1
    <2>4. ASSUME NEW t \in Tabs, Leave(t)
          PROVE  cookie' = cookie /\ tabs' \in [Tabs -> Tab]
        BY <2>1, <2>2, <2>4 DEF Leave
    <2> QED BY <2>1, <2>3, <2>4 DEF BrowserBegin, SubmitLogin, ClickLogout, browserVars
<1>3. \A r \in Requests : AccountCall(req[r])'
    <2>1. ASSUME NEW r \in Requests, NEW t \in Tabs,
                 Bootstrap(r, t) \/ SubmitLogin(r, t) \/ ClickLogout(r, t)
          PROVE  \A other \in Requests : AccountCall(req[other])'
        <3>1. PICK op \in {"REFRESH", "LOGIN", "LOGOUT"}, pc \in {"delete", "refused", "issue", "forget"} :
                  \E seen : Starts(r, op, pc, t, revocations, seen)
            BY <2>1 DEF Bootstrap, SubmitLogin, ClickLogout, TabStarts
        <3> PICK seen : Starts(r, op, pc, t, revocations, seen)
            BY <3>1
        <3>2. /\ req'[r] = Call(op, pc, t, revocations, seen)
              /\ \A other \in Requests \ {r} : req'[other] = req[other]
            BY AccountCallStarts
        <3>3. AccountCall(req[r])'
            BY <1>1, <3>2 DEF AccountCall, Call, Grow, sessionVars
        <3> QED BY <3>2, <3>3, AccountCallsStay DEF AccountTyped
    <2>2. ASSUME NEW t \in Tabs, Leave(t)
          PROVE  \A other \in Requests : AccountCall(req[other])'
        <3> SUFFICES ASSUME NEW r \in Requests
                     PROVE  AccountCall(req[r])'
            OBVIOUS
        <3>1. \/ req'[r] = req[r] \/ req'[r] = Idle
              \/ /\ req[r].pc \notin {"answered", "refused", "me"}
                 /\ req'[r] = [req[r] EXCEPT !.who = "nobody"]
                 /\ req[r].op \in {"LOGIN", "REFRESH", "LOGOUT"}
            BY <2>2 DEF Leave, TabCalls, Shape
        <3>2. AccountCall(req[r]) /\ CallShape(req[r])
            BY DEF AccountTyped, Shape
        <3> QED BY <1>1, <3>1, <3>2 DEF AccountCall, CallShape, Idle, sessionVars, SignIns
    <2> QED BY <2>1, <2>2 DEF BrowserBegin
<1> QED BY <1>1, <1>2, <1>3 DEF AccountTyped, sessionVars

LEMMA TabIsSet ==
    ASSUME tabs \in [Tabs -> Tab], NEW t \in Tabs, NEW user \in BOOLEAN, NEW token \in BOOLEAN,
           SetTab(t, user, token)
    PROVE  tabs' \in [Tabs -> Tab]
<1>1. tabs[t] \in Tab
    OBVIOUS
<1>2. [[tabs[t] EXCEPT !.user = user] EXCEPT !.token = token] \in Tab
    BY <1>1 DEF Tab
<1>3. tabs' = [tabs EXCEPT ![t] = [[tabs[t] EXCEPT !.user = user] EXCEPT !.token = token]]
    BY DEF SetTab
<1> QED BY <1>2, <1>3

LEMMA SessionsStepTyped ==
    ASSUME Shape, Shape', AccountTyped, AccountBounds, AccountBounds', Grow,
           NEW r \in Requests, SessionsStep(r), UNCHANGED browserVars
    PROVE  AccountTyped'
<1> USE DEF At
<1>1. /\ issued \in 0..MaxTokens /\ issued' \in 0..MaxTokens
      /\ revocations \in 0..MaxRevocations /\ revocations' \in 0..MaxRevocations
    <2>1. /\ Unissued \in SUBSET Requests /\ Unissued' \in SUBSET Requests
          /\ Ending \in SUBSET Requests /\ Ending' \in SUBSET Requests
        BY DEF Unissued, Ending
    <2>2. /\ Within(issued, Unissued, MaxTokens) /\ Within(issued', Unissued', MaxTokens)
          /\ Within(revocations, Ending, MaxRevocations)
          /\ Within(revocations', Ending', MaxRevocations)
        BY DEF AccountBounds
    <2> QED BY <2>1, <2>2, WithinRange, SessionsAssumption
<1>2. AccountCall(req[r]) /\ CallShape(req[r])
    BY DEF AccountTyped, Shape
<1>3. ASSUME NEW pc, NEW row, Answers(r, pc, row),
             req[r].op \in {"LOGIN", "REFRESH"}, pc \in {"answered", "refused"}, row \in 0..issued'
      PROVE  \A other \in Requests : AccountCall(req[other])'
    <2>1. \/ req'[r] = Idle
          \/ /\ req[r].who # "nobody"
             /\ req'[r].op = req[r].op /\ req'[r].who = req[r].who
             /\ req'[r].pc = pc /\ req'[r].row = row
        BY <1>2, <1>3 DEF Answers, Ends, Shape, CallShape, Idle
    <2>2. AccountCall(req[r])'
        BY <1>2, <1>3, <2>1 DEF AccountCall, Idle, SignIns
    <2>3. \A other \in Requests \ {r} : req'[other] = req[other]
        BY <1>3, AnswersSlot
    <2> QED BY <2>2, <2>3, AccountCallsStay DEF AccountTyped
<1>4. ASSUME NEW pc, Goto(r, pc) \/ Ends(r), pc \in {"issue", "disconnect"}, req[r].op \in AccountOps,
             pc = "issue" => req[r].op \in SignIns /\ req[r].pc = "delete"
      PROVE  \A other \in Requests : AccountCall(req[other])'
    <2>1. \/ req'[r] = Idle
          \/ /\ req'[r].op = req[r].op /\ req'[r].who = req[r].who
             /\ req'[r].pc = pc /\ req'[r].row = req[r].row
        BY <1>2, <1>4 DEF Goto, Ends, Shape, CallShape, Idle
    <2>2. AccountCall(req[r])'
        BY <1>2, <1>4, <2>1 DEF AccountCall, Idle, SignIns, Grow, AccountOps, Revoking, CallShape
    <2>3. \A other \in Requests \ {r} : req'[other] = req[other]
        BY <1>4, GoesOrEnds
    <2> QED BY <2>2, <2>3, AccountCallsStay DEF AccountTyped
<1>5. CASE DeleteToken(r)
    <2>1. /\ tokens' \subseteq tokens /\ UNCHANGED <<status, issued, logins, resets, sockets>>
          /\ req[r].op = "REFRESH" /\ req[r].pc = "delete"
          /\ Answers(r, "refused", 0) \/ Goto(r, "issue")
        BY <1>5 DEF DeleteToken
    <2>2. \A other \in Requests : AccountCall(req[other])'
        BY <1>1, <1>3, <1>4, <2>1 DEF AccountOps, SignIns
    <2> QED BY <2>1, <2>2 DEF AccountTyped, browserVars
<1>6. CASE IssueTokens(r)
    <2>1. /\ issued' = issued + 1 /\ tokens' = tokens \cup {[id |-> issued', epoch |-> req[r].row]}
          /\ logins' = (IF req[r].op = "LOGIN" THEN logins + 1 ELSE logins)
          /\ UNCHANGED <<status, resets, sockets>>
          /\ Answers(r, "answered", issued') /\ req[r].op \in {"LOGIN", "REFRESH"}
          /\ req[r].pc = "issue"
        BY <1>2, <1>6 DEF IssueTokens, CallShape
    <2>2. \A other \in Requests : AccountCall(req[other])'
        BY <1>1, <1>3, <2>1
    <2>3. issued' \in 1..MaxTokens /\ req[r].row \in 0..MaxRevocations
        <3>1. req[r].row \in 0..revocations
            BY <1>2, <2>1 DEF AccountCall, SignIns
        <3> QED BY <1>1, <2>1, <3>1, SessionsAssumption
    <2>4. tokens' \subseteq Token
        BY <2>1, <2>3 DEF AccountTyped, Token, Epochs
    <2>5. logins' \in 0..issued' /\ cookie \in 0..issued'
        BY <1>1, <2>1 DEF AccountTyped
    <2> QED BY <2>1, <2>2, <2>4, <2>5 DEF AccountTyped, browserVars
<1>7. CASE RevokeSessions(r)
    <2>1. /\ req[r].pc = "revoke" /\ req[r].op \in Revoking /\ tokens' \subseteq tokens
          /\ UNCHANGED <<issued, logins, sockets>>
          /\ Ends(r) \/ Goto(r, "disconnect")
        BY <1>2, <1>7 DEF RevokeSessions, CallShape
    <2>2. \A other \in Requests : AccountCall(req[other])'
        BY <1>4, <2>1 DEF AccountOps, SignIns
    <2>3. status' \in UserStatus
        BY <1>2, <1>7 DEF RevokeSessions, AccountTyped, AccountCall
    <2>4. resets' \in Seq({"sent", "used"}) /\ Len(resets') <= MaxResets
        <3>1. resets' = resets \/ resets' = [resets EXCEPT ![req[r].row] = "used"]
            BY <1>7 DEF RevokeSessions
        <3> QED BY <3>1 DEF AccountTyped
    <2> QED BY <2>1, <2>2, <2>3, <2>4 DEF AccountTyped, browserVars
<1>8. CASE DisconnectUser(r) \/ JoinUserRoom(r)
    <2>1. Ends(r) /\ UNCHANGED <<status, tokens, issued, logins, revocations, resets>>
        BY <1>8 DEF DisconnectUser, JoinUserRoom
    <2>2. req[r].op \in AccountOps
        BY <1>2, <1>8 DEF DisconnectUser, JoinUserRoom, CallShape, AccountOps
    <2>3. \A other \in Requests : AccountCall(req[other])'
        BY <1>4, <2>1, <2>2
    <2>4. sockets' \in [Sockets -> Socket]
        <3>1. NoSocket \in Socket
            BY SessionsAssumption DEF NoSocket, Socket, Epochs
        <3>2. CASE DisconnectUser(r)
            BY <3>1, <3>2 DEF DisconnectUser
        <3>3. CASE JoinUserRoom(r)
            <4>1. req[r].row \in 0..MaxRevocations
                <5>1. req[r].row \in 0..revocations
                    BY <1>2, <3>3 DEF AccountCall, JoinUserRoom, SignIns
                <5> QED BY <1>1, <5>1, SessionsAssumption
            <4>2. [open |-> TRUE, epoch |-> req[r].row, event |-> FALSE] \in Socket
                BY <4>1 DEF Socket, Epochs
            <4> QED BY <3>3, <4>2 DEF JoinUserRoom, AccountTyped
        <3> QED BY <1>8, <3>2, <3>3
    <2> QED BY <2>1, <2>3, <2>4 DEF AccountTyped, browserVars
<1> QED BY <1>5, <1>6, <1>7, <1>8 DEF SessionsStep

LEMMA BrowserStepTyped ==
    ASSUME Shape, Shape', AccountTyped, Grow, NEW r \in Requests, BrowserStep(r)
    PROVE  AccountTyped'
<1> USE DEF At
<1>1. AccountCall(req[r]) /\ CallShape(req[r])
    BY DEF AccountTyped, Shape
<1>2. ASSUME UNCHANGED sessionVars, Ends(r) \/ (Goto(r, "me") /\ At(r, "REFRESH", "answered"))
      PROVE  \A other \in Requests : AccountCall(req[other])'
    <2>1. \/ req'[r] = Idle
          \/ /\ req'[r].op = req[r].op /\ req'[r].who = req[r].who /\ req'[r].pc = "me"
             /\ req[r].who \in Tabs
        BY <1>1, <1>2 DEF Goto, Ends, Shape, CallShape, Idle, AccountCall
    <2>2. AccountCall(req[r])'
        BY <1>1, <1>2, <2>1 DEF AccountCall, Idle, SignIns, sessionVars
    <2>3. \A other \in Requests \ {r} : req'[other] = req[other]
        BY <1>2, GoesOrEnds
    <2> QED BY <2>2, <2>3, AccountCallsStay DEF AccountTyped
<1>3. CASE ForgetToken(r)
    <2>1. /\ Answers(r, "answered", 0) /\ req[r].op = "LOGOUT" /\ tokens' \subseteq tokens
          /\ UNCHANGED <<status, issued, logins, revocations, resets, sockets, cookie, tabs>>
        BY <1>3 DEF ForgetToken, browserVars
    <2>2. \/ req'[r] = Idle
          \/ /\ req[r].who # "nobody" /\ req'[r].who = req[r].who
             /\ req'[r].op = "LOGOUT" /\ req'[r].pc = "answered" /\ req'[r].row = 0
        BY <1>1, <2>1 DEF Answers, Ends, Shape, CallShape, Idle
    <2>3. AccountCall(req[r])'
        BY <1>1, <2>1, <2>2 DEF AccountCall, Idle, SignIns, Grow
    <2>4. \A other \in Requests \ {r} : req'[other] = req[other]
        BY <2>1, AnswersSlot
    <2>5. \A other \in Requests : AccountCall(req[other])'
        BY <2>3, <2>4, AccountCallsStay DEF AccountTyped
    <2> QED BY <2>1, <2>5 DEF AccountTyped
<1>4. CASE TakeAnswer(r)
    <2>1. /\ req[r].op \in {"LOGIN", "REFRESH", "LOGOUT"} /\ req[r].who \in Tabs
          /\ req[r].row \in 0..issued /\ req[r].pc = "answered"
        BY <1>1, <1>4 DEF TakeAnswer, CallShape, AccountCall
    <2>2. /\ cookie' = req[r].row /\ UNCHANGED sessionVars
          /\ Ends(r) \/ (Goto(r, "me") /\ req[r].op = "REFRESH")
        BY <1>4, <2>1 DEF TakeAnswer, CookieAfter
    <2>3. \A other \in Requests : AccountCall(req[other])'
        BY <1>2, <2>1, <2>2
    <2>4. tabs' \in [Tabs -> Tab]
        <3>1. tabs \in [Tabs -> Tab] /\ tabs[req[r].who].user \in BOOLEAN
            BY <2>1 DEF AccountTyped, Tab
        <3>2. \/ SetTab(req[r].who, TRUE, TRUE) \/ SetTab(req[r].who, FALSE, FALSE)
              \/ SetTab(req[r].who, tabs[req[r].who].user, TRUE)
            BY <1>4, <2>1 DEF TakeAnswer
        <3> QED BY <2>1, <3>1, <3>2, TabIsSet
    <2> QED BY <2>1, <2>2, <2>3, <2>4 DEF AccountTyped, sessionVars
<1>5. CASE TakeMe(r) \/ TakeRefusal(r)
    <2>1. Ends(r) /\ UNCHANGED <<cookie, sessionVars>> /\ req[r].who \in Tabs
        BY <1>1, <1>5 DEF TakeMe, TakeRefusal, AccountCall
    <2>2. \A other \in Requests : AccountCall(req[other])'
        BY <1>2, <2>1
    <2>3. tabs' \in [Tabs -> Tab]
        <3>1. tabs \in [Tabs -> Tab] /\ tabs[req[r].who] \in Tab
            BY <2>1 DEF AccountTyped
        <3>2. /\ [NoPage EXCEPT !.page = "ready"] \in Tab
              /\ [[tabs[req[r].who] EXCEPT !.page = "ready"] EXCEPT !.user = TRUE] \in Tab
            BY <3>1 DEF Tab, NoPage
        <3>3. \/ tabs' = [tabs EXCEPT ![req[r].who] = [NoPage EXCEPT !.page = "ready"]]
              \/ tabs' = [tabs EXCEPT ![req[r].who] =
                               [[tabs[req[r].who] EXCEPT !.page = "ready"] EXCEPT !.user = TRUE]]
            BY <1>5 DEF TakeMe, TakeRefusal
        <3> QED BY <3>1, <3>2, <3>3
    <2> QED BY <2>1, <2>2, <2>3 DEF AccountTyped, sessionVars
<1> QED BY <1>3, <1>4, <1>5 DEF BrowserStep

AccountTypes == AccountBounds /\ AccountTyped

LEMMA AccountTypesInit == Init => AccountTypes
<1> SUFFICES ASSUME Init
             PROVE  AccountTypes
    OBVIOUS
<1>1. Unissued = {} /\ Ending = {}
    BY DEF Init, StoreInit, Idle, Unissued, Ending
<1>2. AccountBounds
    BY <1>1, FS_EmptySet, SessionsAssumption DEF Init, SessionsInit, AccountBounds, Within
<1>3. NoSocket \in Socket /\ NoPage \in Tab
    BY SessionsAssumption DEF NoSocket, Socket, Epochs, NoPage, Tab
<1>4. \A r \in Requests : AccountCall(req[r])
    BY DEF Init, StoreInit, Idle, AccountCall, SignIns
<1>5. resets \in Seq({"sent", "used"}) /\ Len(resets) <= MaxResets
    BY SessionsAssumption DEF Init, SessionsInit
<1> QED BY <1>2, <1>3, <1>4, <1>5 DEF Init, SessionsInit, BrowserInit, AccountTypes, AccountTyped, UserStatus

LEMMA AccountTypesStep ==
    ASSUME Shape, AccountTypes, [Next]_vars
    PROVE  AccountTypes'
<1>1. AccountBounds' /\ Shape'
    BY AccountBoundsStep, AccountFrame DEF AccountTypes
<1>2. Grow
    <2>1. issued \in Nat /\ revocations \in Nat /\ issued' \in Nat /\ revocations' \in Nat
        BY <1>1 DEF AccountTypes, AccountBounds, Within
    <2>2. issued' \in {issued, issued + 1} /\ revocations' \in {revocations, revocations + 1}
        <3>1. CASE SessionsBegin \/ BrowserBegin
            BY <3>1, CallsBegin
        <3>2. ASSUME NEW r \in Requests, SessionsStep(r) \/ BrowserStep(r)
              PROVE  issued' \in {issued, issued + 1} /\ revocations' \in {revocations, revocations + 1}
            BY <3>2, CallsStep
        <3>3. CASE \E s \in Sockets : RequireActiveUser(s)
            BY <3>3 DEF RequireActiveUser
        <3>4. CASE UNCHANGED accountVars
            BY <3>4 DEF accountVars, sessionVars
        <3> QED BY <3>1, <3>2, <3>3, <3>4, AccountFrame DEF AccountNext
    <2> QED BY <2>1, <2>2 DEF Grow
<1>3. ASSUME NEW s \in Sockets, RequireActiveUser(s), UNCHANGED browserVars
      PROVE  AccountTyped'
    <2>1. UNCHANGED <<req, status, tokens, issued, logins, revocations, resets>>
        BY <1>3 DEF RequireActiveUser
    <2>2. \A other \in Requests : AccountCall(req[other])'
        BY <1>1, <1>2, <2>1, AccountCallsStay DEF AccountTypes, AccountTyped
    <2>3. sockets' \in [Sockets -> Socket]
        <3>1. /\ sockets \in [Sockets -> Socket] /\ sockets[s] \in Socket
            BY DEF AccountTypes, AccountTyped
        <3>2. 0 \in Epochs
            BY SessionsAssumption DEF Epochs
        <3> QED BY <1>3, <3>1, <3>2 DEF RequireActiveUser, NoSocket, Socket
    <2> QED BY <1>3, <2>1, <2>2, <2>3 DEF AccountTypes, AccountTyped, browserVars
<1>4. CASE UNCHANGED accountVars /\ Untouched(AccountOps)
    <2>1. \A r \in Requests : req'[r] = req[r] \/ req'[r].op \notin AccountOps
        BY <1>4 DEF Untouched, Idle, AccountOps, Revoking
    <2>2. \A r \in Requests : AccountCall(req[r])
        BY DEF AccountTypes, AccountTyped
    <2>3. \A r \in Requests : AccountCall(req[r])'
        BY ONLY <1>1, <1>2, <2>1, <2>2, AccountCallsStay
    <2>4. UNCHANGED <<status, tokens, issued, logins, resets, sockets, cookie, tabs>>
        BY <1>4 DEF accountVars, sessionVars, browserVars
    <2>5. AccountTyped'
        BY <2>3, <2>4 DEF AccountTypes, AccountTyped
    <2> QED BY <1>1, <2>5 DEF AccountTypes
<1>5. AccountTyped'
    <2>1. ASSUME NEW r \in Requests, BrowserStep(r)
          PROVE  AccountTyped'
        BY <1>1, <1>2, <2>1, BrowserStepTyped DEF AccountTypes
    <2>2. ASSUME NEW r \in Requests, SessionsStep(r), UNCHANGED browserVars
          PROVE  AccountTyped'
        BY <1>1, <1>2, <2>2, SessionsStepTyped DEF AccountTypes
    <2> QED BY <1>1, <1>2, <1>3, <1>4, <2>1, <2>2, AccountBegins, BrowserBegins, AccountFrame
            DEF AccountNext, AccountTypes
<1> QED BY <1>1, <1>5 DEF AccountTypes
=============================================================================
