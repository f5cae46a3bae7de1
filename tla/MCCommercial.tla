---------------------------- MODULE MCCommercial ----------------------------
(***************************************************************************)
(* Commercial for TLC: two platform terms, one with a minimum and a        *)
(* maximum, amounts whose percentages end in half a cent, and the calls    *)
(* that share rows, workload by workload.                                  *)
(***************************************************************************)
EXTENDS Commercial, TLC

MCTerms == {[percent |-> 1000, min |-> Null, max |-> Null],
            [percent |-> 2500, min |-> 16, max |-> 18]}
MCPercents == {0, 3000}
MCShares == {5000}
MCCaps == {Null, 1}

MCDecisions   == {"CATEGORY", "OVERRIDE", "END_OVERRIDE"}
MCQuotes      == {"PLATFORM", "OVERRIDE", "PREPARE"}
MCAgreements  == {"AGREEMENT", "TERMINATE"}
MCReplacing   == {"AGREEMENT", "REPLACEMENT"}
MCSettling    == {"SETTLE", "PREPARE"}
MCPayouts     == {"PAYOUT", "APPROVE", "PAY", "CANCEL"}
MCStatements  == {"STATEMENT", "FINALIZE"}
MCStatedPayouts  == MCPayouts \cup MCStatements
MCStatedAccruals == {"AGREEMENT"} \cup MCSettling \cup MCStatements

Workload(ops, apart, projects, amount, versions, days) ==
    [ops |-> ops, apart |-> apart, projects |-> projects, amount |-> amount,
     versions |-> versions, days |-> days]

MCWorkloads ==
    {Workload({"PLATFORM"}, {}, {}, 15, 3, 2),
     Workload(MCDecisions, {MCDecisions}, {1}, 15, 2, 1),
     Workload(MCQuotes, {MCQuotes}, {1}, 15, 2, 1),
     Workload(MCQuotes, {MCQuotes}, {1}, 87, 2, 1),
     Workload(MCAgreements, {MCAgreements}, {}, 20, 2, 2),
     Workload(MCAgreements \cup MCSettling, {{"SETTLE"}, MCAgreements}, {1, 2}, 20, 2, 1),
     Workload(MCReplacing \cup MCSettling, {{"SETTLE"}, MCReplacing}, {1, 2}, 20, 2, 1),
     Workload(MCStatedPayouts, {MCStatedPayouts}, {}, 20, 1, 1),
     Workload(MCStatedAccruals, {MCStatedAccruals}, {1}, 20, 1, 1)}

Symmetry == Permutations(Requests) \cup Permutations(Payouts)

MCOperations == UNION {w.ops : w \in MCWorkloads}
=============================================================================
