---------------------------- MODULE MCCommunity ----------------------------
(***************************************************************************)
(* The instance for TLC: two calls in flight, one small workload per part  *)
(* and question.                                                           *)
(***************************************************************************)
EXTENDS Community

MCOperations ==
    {"LOGIN", "REFRESH", "LOGOUT", "MODERATE", "MODERATE_STAFF", "REVOKE", "RESET",
     "CONNECT", "EVENT", "TAB", "LEAVE", "SAVE", "PUBLISH", "EDIT", "EDIT_PUBLISH",
     "BID", "WITHDRAW", "HIRE",
     "MARKET", "OPEN", "TYPE", "TICK", "SEND", "POST", "READ", "READ_NOTES", "PANEL", "DROP",
     "SUBMIT", "HIDE", "RESTORE", "PATCH", "GATE", "BROADCAST",
     "IMAGE", "IMAGE_REMOVE", "ITEM_REMOVE", "PHOTO"}

Work(ops, apart, crashes) == [ops |-> ops, apart |-> apart, crashes |-> crashes]

Pairs(these, those) == {{a, b} : a \in these, b \in those}

MCWorkloads ==
    { \* sessions: everything overlaps; revocations do not overlap sign-ins; sockets
      Work({"LOGIN", "REFRESH", "LOGOUT", "REVOKE"}, {}, FALSE),
      Work({"LOGIN", "REFRESH", "MODERATE", "RESET"},
           Pairs(SignIns, Revoking), TRUE),
      Work({"CONNECT", "MODERATE"},
           Pairs(SignIns, Revoking), FALSE),
      Work({"CONNECT", "EVENT", "MODERATE"}, {}, FALSE),
      Work({"LOGIN", "REFRESH", "MODERATE_STAFF", "REVOKE"}, Pairs(SignIns, Revoking), FALSE),
      \* the browser: its tabs overlap; a login is not submitted during a refresh;
      \* tabs are left, and the account moderated
      Work({"TAB"}, {}, FALSE),
      Work({"TAB"}, {{"LOGIN", "REFRESH"}}, FALSE),
      Work({"TAB", "LEAVE"}, {{"LOGIN", "REFRESH"}}, FALSE),
      Work({"TAB", "MODERATE"}, Pairs(SignIns \cup {"LOGOUT"}, SignIns \cup Revoking), FALSE),
      \* listings: saves and edits overlap; edits and proposals take turns
      Work({"SAVE", "PUBLISH", "EDIT_PUBLISH"}, {}, FALSE),
      Work({"PUBLISH", "EDIT", "BID", "WITHDRAW", "HIRE"}, Pairs(Edits, {"BID", "HIRE"}), FALSE),
      Work({"SAVE", "PUBLISH"}, {}, TRUE),
      \* the conversation: it closes while messages are sent; sending and reading
      \* take turns; the panel; the limiters
      Work({"OPEN", "SEND", "MARKET"}, {}, FALSE),
      Work({"OPEN", "SEND", "MARKET"}, Pairs(Sends, Sends), FALSE),
      Work({"OPEN", "POST", "READ"}, Pairs(Sends, {"READ"}), FALSE),
      Work({"OPEN", "POST", "READ", "READ_NOTES"},
           Pairs(Sends, Sends \cup {"READ"}), FALSE),
      Work({"OPEN", "SEND", "POST", "PANEL"}, {}, FALSE),
      Work({"OPEN", "SEND", "POST", "PANEL", "DROP"}, {}, FALSE),
      Work({"TYPE", "TICK"}, {}, FALSE),
      Work({"SUBMIT", "HIDE", "RESTORE"}, {}, TRUE),
      Work({"PATCH", "GATE"}, {}, FALSE),
      Work({"BROADCAST"}, {}, FALSE),
      Work({"BROADCAST"}, {}, TRUE),
      Work({"IMAGE", "IMAGE_REMOVE", "ITEM_REMOVE"}, {}, TRUE),
      Work({"PHOTO"}, {}, FALSE) }
=============================================================================
