----------------------------- MODULE TurnState -----------------------------
(***************************************************************************)
(* The rows of the runtime ledger that every command reads or writes: the  *)
(* Turn and its Thread's active slot, the durable cancellation fact, the   *)
(* revision of the user's input, the interactions waiting for an answer    *)
(* and the parent that allocated a child Turn.  Rows are projections of    *)
(* appended facts (harness/reducer.py); each command is one SQLite         *)
(* transaction, so one action.                                             *)
(*                                                                         *)
(* A Request identifies a row of the interactions table.  Rows are         *)
(* allocated in order, which is what "newest" and "rowid" mean in the code.*)
(***************************************************************************)
EXTENDS Naturals, FiniteSets

CONSTANTS
    Threads,      \* conversations; each has one active-Turn slot
    Turns,        \* identities a Turn may take
    NoTurn,
    ThreadOf,     \* the Thread of each Turn
    Parent,       \* the Turn that may allocate it as a child, or NoTurn
    Ops,          \* tool operations, one per tool call
    NoOp,
    Requests,     \* identities of interactions, allocated in order
    MaxInputs     \* bound: messages sent to a Turn, its answers not counted

ASSUME TurnConstants ==
    /\ NoTurn \notin Turns
    /\ ThreadOf \in [Turns -> Threads]
    /\ Parent \in [Turns -> Turns \cup {NoTurn}]
    /\ NoOp \notin Ops
    /\ Requests \subseteq Nat \ {0}
    /\ MaxInputs \in Nat

VARIABLES
    turn,          \* turns.status, "absent" before the Turn exists
    activeTurn,    \* threads.active_turn_id
    cancelPending, \* turn_cancellation_requested newer than turn_resumed
    inputRevision, \* completed user_message items of the Turn
    interaction,   \* the interactions table joined with approvals
    allocation,    \* child_budget_allocations.status of a child Turn
    childWait      \* input revision of the newest pause if it waits for children, else 0

slotVars == <<activeTurn, inputRevision, allocation>>
turnVars == <<turn, slotVars, cancelPending, interaction, childWait>>

Open == {"running", "paused", "interrupted"}
Terminal == {"completed", "failed", "cancelled"}
TurnStatus == {"absent"} \cup Open \cup Terminal

InteractionKind == {"tool_approval", "tool_reconciliation", "question"}
Decision == {"none", "approve", "deny", "recheck", "abort", "reconciled", "answered"}
ApprovalStatus == {"none", "pending", "approved", "denied", "invalidated"}

InteractionRow ==
    [status : {"free", "pending", "resolved"},
     kind : InteractionKind \cup {"none"},
     turn : Turns \cup {NoTurn},
     op : Ops \cup {NoOp},
     decision : Decision,
     recheck : BOOLEAN,          \* response.policy_recheck
     approval : ApprovalStatus]  \* approvals.status

FreeRow ==
    [status |-> "free", kind |-> "none", turn |-> NoTurn, op |-> NoOp,
     decision |-> "none", recheck |-> FALSE, approval |-> "none"]

TurnTypeOK ==
    /\ turn \in [Turns -> TurnStatus]
    /\ activeTurn \in [Threads -> Turns \cup {NoTurn}]
    /\ cancelPending \in [Turns -> BOOLEAN]
    /\ inputRevision \in [Turns -> Nat]
    /\ interaction \in [Requests -> InteractionRow]
    /\ allocation \in [Turns -> {"none", "active", "settled"}]
    /\ childWait \in [Turns -> Nat]

TurnInit ==
    /\ turn = [t \in Turns |-> "absent"]
    /\ activeTurn = [h \in Threads |-> NoTurn]
    /\ cancelPending = [t \in Turns |-> FALSE]
    /\ inputRevision = [t \in Turns |-> 0]
    /\ interaction = [r \in Requests |-> FreeRow]
    /\ allocation = [t \in Turns |-> "none"]
    /\ childWait = [t \in Turns |-> 0]

-----------------------------------------------------------------------------
(* Reading the ledger *)

Running(t) == turn[t] = "running"
OwnsSlot(t) == activeTurn[ThreadOf[t]] = t

(* The durable fact that stops new work of t itself.                       *)
Revoked(t) == cancelPending[t] \/ turn[t] \in Terminal

(* The Turns above t through child allocations, nearest first.             *)
Ancestors(t) ==
    LET above[u \in Turns] ==
            IF allocation[u] = "none" \/ Parent[u] = NoTurn THEN {}
            ELSE {Parent[u]} \cup above[Parent[u]]
    IN  above[t]

AdmissionRevoked(t) == Revoked(t) \/ \E a \in Ancestors(t) : Revoked(a)

Pending(t) == {r \in Requests : interaction[r].status = "pending" /\ interaction[r].turn = t}
PendingOf(t, kind) == {r \in Pending(t) : interaction[r].kind = kind}

(* "exactly one pending interaction" of the code: r is that one.           *)
OnlyPending(t, kind, r) == PendingOf(t, kind) = {r}

(* A fresh identity; no row is ever reused.                                *)
Fresh(r) ==
    /\ interaction[r].status = "free"
    /\ \A q \in Requests : q < r => interaction[q].status # "free"

(* Broken: a child that ended no longer counts, settled or not.            *)
OpenChildren(t) == {c \in Turns : Parent[c] = t /\ allocation[c] = "active" /\ turn[c] \in Open}

ActiveChildren(t) == {c \in Turns : Parent[c] = t /\ allocation[c] = "active"}

-----------------------------------------------------------------------------
(* The facts a command appends, as the rows they produce *)

Asked(kind, t, o) ==
    [FreeRow EXCEPT !.status = "pending", !.kind = kind, !.turn = t, !.op = o,
                    !.approval = IF kind = "tool_approval" THEN "pending" ELSE "none"]

Answered(r, decision, approval) ==
    [interaction[r] EXCEPT !.status = "resolved", !.decision = decision, !.approval = approval]

SetTurn(t, status) == turn' = [turn EXCEPT ![t] = status]

(* turn_paused for any reason but attached children.                       *)
Paused(t) ==
    /\ SetTurn(t, "paused")
    /\ childWait' = [childWait EXCEPT ![t] = 0]

(* turn_resumed: the Turn runs again and an older cancellation is spent.   *)
Resumed(t) ==
    /\ SetTurn(t, "running")
    /\ cancelPending' = [cancelPending EXCEPT ![t] = FALSE]

(* Broken: the slot is not released.                                       *)
EndedHoldingSlot(t, status) == SetTurn(t, status) /\ UNCHANGED activeTurn

(* A terminal fact releases the Thread.                                    *)
Ended(t, status) ==
    /\ SetTurn(t, status)
    /\ activeTurn' = [activeTurn EXCEPT ![ThreadOf[t]] = NoTurn]
=============================================================================
