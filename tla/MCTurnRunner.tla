---------------------------- MODULE MCTurnRunner ----------------------------
(***************************************************************************)
(* Small instances of TurnRunner.                                          *)
(***************************************************************************)
EXTENDS TurnRunner

CONSTANTS main, aside, lead, child

OneTurn == [t \in {lead} |-> main]
NoParent == [t \in {lead} |-> NoTurn]
Both == [o \in Ops |-> lead]
Clash == {<<1, 2>>, <<2, 1>>}

Family == [t \in {lead, child} |-> IF t = lead THEN main ELSE aside]
Lineage == [t \in {lead, child} |-> IF t = lead THEN NoTurn ELSE lead]

AlwaysAllow == [o \in Ops |-> {"allow"}]
AnyPolicy == [o \in Ops |-> {"allow", "ask", "deny"}]

Batch == {{}, Ops}

(* Two calls that must not overlap and need no permission, or one call that *)
(* the policy may put to the user; one Turn makes the one or the other.     *)
(* While the two calls exist, either newer input or a cancellation arrives. *)
Mixed == [o \in Ops |-> IF o = 3 THEN {"allow", "ask", "deny"} ELSE {"allow"}]
PairOrAsked == {{}, {1, 2}, {3}}
Unopened(o) == op[o] = NoOpRow /\ ~reported[o] /\ callRevision[o] = 0
PairOnly == Unopened(3) /\ ~(cancelPending[lead] /\ inputRevision[lead] > 1)
AskedOnly == Unopened(1) /\ Unopened(2)
OneBatch == PairOnly \/ AskedOnly
=============================================================================
