--------------------------- MODULE CommunityStore ---------------------------
(***************************************************************************)
(* The calls that the community side of the server has in flight: each has *)
(* a slot with its program counter and what it has read so far.  A step of *)
(* a call is one statement or one transaction.                             *)
(***************************************************************************)
EXTENDS Integers, Sequences, FiniteSets

CONSTANTS
    Requests,    \* slots for concurrently served calls
    Operations,  \* the calls and the events of the environment
    Workloads    \* which of them a behaviour serves

ASSUME StoreAssumption ==
    /\ IsFiniteSet(Requests)
    /\ Workloads \subseteq [ops: SUBSET Operations, apart: SUBSET SUBSET Operations,
                            crashes: BOOLEAN]

VARIABLES
    workload,  \* the operations of this behaviour, the pairs of them that never
               \* overlap, and whether a call may end between two steps
    req        \* calls in flight

Idle == [op |-> "none", pc |-> "idle", who |-> "nobody", row |-> 0, seen |-> {}]

Serves(op) == op \in workload.ops

At(r, op, pc) == req[r].op = op /\ req[r].pc = pc

InFlight(op) == {r \in Requests : req[r].op = op}

\* The slot is free, and no call is in flight that op never overlaps.
MayStart(r, op) ==
    /\ req[r].pc = "idle"
    /\ \A other \in Requests : {op, req[other].op} \notin workload.apart

Begins(r, op) == Serves(op) /\ MayStart(r, op)

Starts(r, op, pc, who, row, seen) ==
    req' = [req EXCEPT ![r] = [op |-> op, pc |-> pc, who |-> who, row |-> row, seen |-> seen]]

Goto(r, pc) == req' = [req EXCEPT ![r].pc = pc]

Ends(r) == req' = [req EXCEPT ![r] = Idle]

\* The process dies, or the call throws, between two statements.
Crash(r) ==
    /\ workload.crashes
    /\ req[r].pc # "idle"
    /\ Ends(r)

Quiescent == \A r \in Requests : req[r].pc = "idle"

\* No call of the one set overlaps a call of the other.
Apart(these, those) == \A a \in these, b \in those : {a, b} \in workload.apart

StoreInit ==
    /\ workload \in Workloads
    /\ req = [r \in Requests |-> Idle]
=============================================================================
