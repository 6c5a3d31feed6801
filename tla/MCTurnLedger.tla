---------------------------- MODULE MCTurnLedger ----------------------------
(***************************************************************************)
(* A small instance of TurnLedger: a parent with two conflicting tool      *)
(* calls, its child, and their model requests.  Tool calls and model       *)
(* commands change disjoint rows and meet only in the Turn's row, so the   *)
(* instance explores the two crowds apart: either calls are opened while   *)
(* the Turn has one plain request, or requests are lost, retried and       *)
(* inherited by a child while no call is opened.                           *)
(***************************************************************************)
EXTENDS TurnLedgerInv

CONSTANTS main, aside, lead, child

Both == [o \in Ops |-> lead]
Clash == {<<1, 2>>, <<2, 1>>}

Family == [t \in {lead, child} |-> IF t = lead THEN main ELSE aside]
Lineage == [t \in {lead, child} |-> IF t = lead THEN NoTurn ELSE lead]

NoCalls == /\ \A o \in Ops : op[o] = NoOpRow /\ ~reported[o] /\ callRevision[o] = 0
           /\ \A r \in Requests : interaction[r].status = "free"
Answers == {r \in Requests : interaction[r].decision = "answered"}
PlainRequest ==
    /\ turn[child] = "absent" /\ inputRevision[lead] <= 1 + Cardinality(Answers)
    /\ \A m \in Models : model[m].generation <= 1 /\ model[m].scheduledAt = 0

OneCrowdAtATime == NoCalls \/ PlainRequest
=============================================================================
