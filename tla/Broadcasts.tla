----------------------------- MODULE Broadcasts -----------------------------
(***************************************************************************)
(* The broadcasts that administrators send.  A call may carry an           *)
(* idempotency key: calls with one key are one broadcast, and every call   *)
(* without a key is a broadcast of its own.  (The admin page makes a new   *)
(* key for every press of its button, or none where the browser has no     *)
(* randomUUID, so whoever sends again after a lost answer sends another    *)
(* broadcast.)  The row is created first, then the recipients'             *)
(* notifications in batches.                                               *)
(***************************************************************************)
EXTENDS CommunityStore, FiniteSetsExt

CONSTANTS
    Keys,           \* the idempotency keys
    NoKey,          \* the key of a call that carries none
    Audience,       \* the active users that the audience resolves to
    BatchSize,      \* BROADCAST_BATCH
    MaxBroadcasts   \* bound: NotificationBroadcast rows

ASSUME BatchAssumption ==
    /\ BatchSize \in Nat \ {0}
    /\ NoKey \notin Keys
    /\ MaxBroadcasts \in Nat

VARIABLES
    broadcasts,  \* the keys of the NotificationBroadcast rows, in order of creation
    inbox        \* notifications of each broadcast per user

broadcastVars == <<broadcasts, inbox>>

\* The rows that a key finds.
WithKey(key) == {i \in DOMAIN broadcasts : key # NoKey /\ broadcasts[i] = key}

\* A call whose key finds a row answers with it; who is the key of a call.
BeginBroadcast(r) == \E key \in Keys \cup {NoKey} :
    /\ Begins(r, "BROADCAST")
    /\ WithKey(key) = {}
    /\ Starts(r, "BROADCAST", "resolve", key, 0, {})
    /\ UNCHANGED broadcastVars

ResolveRecipients(r) ==
    /\ At(r, "BROADCAST", "resolve")
    /\ req' = [req EXCEPT ![r].pc = "create", ![r].seen = Audience]
    /\ UNCHANGED broadcastVars

\* Mutant: the key is not unique.
SendsAgain(key) == TRUE

SendsFirst(key) == WithKey(key) = {}

CreateBroadcast(r) ==
    /\ At(r, "BROADCAST", "create")
    /\ SendsFirst(req[r].who)
    /\ Len(broadcasts) < MaxBroadcasts
    /\ broadcasts' = Append(broadcasts, req[r].who)
    /\ req' = [req EXCEPT ![r].pc = "batch", ![r].row = Len(broadcasts')]
    /\ UNCHANGED inbox

\* A second row with the key fails, and the call answers with the first.
FindBroadcast(r) ==
    /\ At(r, "BROADCAST", "create")
    /\ ~SendsFirst(req[r].who)
    /\ Ends(r)
    /\ UNCHANGED broadcastVars

\* Mutant: only full batches are sent.
FullBatches(users) == {b \in SUBSET users : Cardinality(b) = BatchSize}

\* The next slice; the order of the recipients is the query's.
Batches(users) ==
    IF Cardinality(users) <= BatchSize THEN {users} ELSE kSubset(BatchSize, users)

Notify(batch, row) ==
    inbox' = [inbox EXCEPT ![row] =
                 [u \in Audience |-> IF u \in batch THEN @[u] + 1 ELSE @[u]]]

SendBatch(r) ==
    /\ At(r, "BROADCAST", "batch")
    /\ IF req[r].seen = {} \/ Batches(req[r].seen) = {}
       THEN Ends(r) /\ UNCHANGED inbox
       ELSE \E batch \in Batches(req[r].seen) :
               /\ Notify(batch, req[r].row)
               /\ req' = [req EXCEPT ![r].seen = @ \ batch]
    /\ UNCHANGED broadcasts

BroadcastInit ==
    /\ broadcasts = <<>>
    /\ inbox = [i \in 1..MaxBroadcasts |-> [u \in Audience |-> 0]]

BroadcastStep(r) ==
    ResolveRecipients(r) \/ CreateBroadcast(r) \/ FindBroadcast(r) \/ SendBatch(r)
=============================================================================
