----------------------------- MODULE TurnLedger -----------------------------
(***************************************************************************)
(* The Turn commands of harness/turn_ops.py, the child allocations of      *)
(* harness/budget_ops.py and the owner recovery of harness/ownership.py,   *)
(* composed with the tool and model commands: the whole protocol of the    *)
(* ledger.                                                                 *)
(*                                                                         *)
(* Spec lets any command run at any moment its own checks accept it: the   *)
(* ledger is opened by sessions, hosts, channels and the CLI, each with    *)
(* its own connection, and what it promises must not depend on the order   *)
(* in which they call it.  TurnRunner restricts the order.                 *)
(***************************************************************************)
EXTENDS ModelLedger

vars == <<turnVars, toolVars, modelVars>>

untouchedByTurns == <<toolVars, modelVars>>

-----------------------------------------------------------------------------
(* Turns *)

StartTurn(t) ==
    /\ turn[t] = "absent" /\ Parent[t] = NoTurn
    /\ activeTurn[ThreadOf[t]] = NoTurn
    /\ SetTurn(t, "running")
    /\ activeTurn' = [activeTurn EXCEPT ![ThreadOf[t]] = t]
    /\ inputRevision' = [inputRevision EXCEPT ![t] = 1]
    /\ UNCHANGED <<cancelPending, interaction, allocation, childWait, untouchedByTurns>>

(* start_budgeted_child_turn: a new Thread, a share of the parent's budget  *)
(* and the child Turn are one fact batch.                                   *)
StartChild(c) ==
    /\ turn[c] = "absent" /\ Parent[c] # NoTurn
    /\ Running(Parent[c])
    /\ ~AdmissionRevoked(Parent[c])
    /\ \A t \in Turns : ThreadOf[t] = ThreadOf[c] => turn[t] = "absent"
    /\ SetTurn(c, "running")
    /\ activeTurn' = [activeTurn EXCEPT ![ThreadOf[c]] = c]
    /\ inputRevision' = [inputRevision EXCEPT ![c] = 1]
    /\ allocation' = [allocation EXCEPT ![c] = "active"]
    /\ UNCHANGED <<cancelPending, interaction, childWait, untouchedByTurns>>

(* The exposure of a budget scope that no outcome has settled yet.          *)
Exposed(t) ==
    \/ \E m \in ModelsOf(t), g \in Generations :
           reservation[m][g] \in {"reserved", "dispatched", "unknown"}
    \/ ActiveChildren(t) # {}

SettleChild(c) ==
    /\ allocation[c] = "active"
    /\ turn[c] \in Terminal
    /\ ~Exposed(c)
    /\ allocation' = [allocation EXCEPT ![c] = "settled"]
    /\ UNCHANGED <<turn, activeTurn, inputRevision, cancelPending, interaction, childWait,
                   untouchedByTurns>>

ReceiveInput(t) ==
    /\ OwnsSlot(t) /\ turn[t] \in Open
    /\ ~AdmissionRevoked(t)
    /\ inputRevision[t] < MaxInputs
    /\ inputRevision' = [inputRevision EXCEPT ![t] = @ + 1]
    /\ UNCHANGED <<turn, activeTurn, allocation, cancelPending, interaction, childWait,
                   untouchedByTurns>>

(* Broken: children are not looked at either.                               *)
CompleteAlone(t, expected) ==
    /\ ~AdmissionRevoked(t)
    /\ inputRevision[t] = expected
    /\ Running(t) /\ OwnsSlot(t)
    /\ Ended(t, "completed")
    /\ UNCHANGED <<inputRevision, allocation, cancelPending, interaction, childWait,
                   untouchedByTurns>>

(* complete_turn looks at children, not at tools or interactions.           *)
CompleteTurn(t, expected) ==
    /\ ~AdmissionRevoked(t)
    /\ inputRevision[t] = expected
    /\ Running(t)
    /\ ActiveChildren(t) = {}
    /\ OwnsSlot(t)
    /\ Ended(t, "completed")
    /\ UNCHANGED <<inputRevision, allocation, cancelPending, interaction, childWait,
                   untouchedByTurns>>

FailTurn(t) ==
    /\ Running(t) /\ OwnsSlot(t)
    /\ Ended(t, "failed")
    /\ UNCHANGED <<inputRevision, allocation, cancelPending, interaction, childWait,
                   untouchedByTurns>>

PauseTurn(t) ==
    /\ Running(t) /\ OwnsSlot(t)
    /\ Paused(t)
    /\ UNCHANGED <<slotVars, cancelPending, interaction, untouchedByTurns>>

(* pause_turn with reason_code attached_children.                           *)
PauseForChildren(t, revision) ==
    /\ Running(t) /\ OwnsSlot(t)
    /\ SetTurn(t, "paused")
    /\ childWait' = [childWait EXCEPT ![t] = revision]
    /\ UNCHANGED <<slotVars, cancelPending, interaction, untouchedByTurns>>

(* interrupt_orphaned_turn: nothing durable was started yet.                *)
InterruptOrphaned(t) ==
    /\ Running(t) /\ OwnsSlot(t)
    /\ ModelsOf(t) = {}
    /\ InStatus(t, OpStatus \ {"absent"}) = {}
    /\ \A r \in Requests : interaction[r].turn # t
    /\ SetTurn(t, "interrupted")
    /\ UNCHANGED <<slotVars, cancelPending, interaction, childWait, untouchedByTurns>>

(* Broken: what still waits for an answer is left behind.                   *)
CancelLeavingQuestions(t) ==
    /\ turn[t] \in {"paused", "interrupted"}
    /\ Quiescent(t)
    /\ Ended(t, "cancelled")
    /\ UNCHANGED <<inputRevision, allocation, cancelPending, interaction, childWait,
                   untouchedByTurns>>

(* cancel_turn withdraws what still waits and refuses to drop an effect     *)
(* that may have happened; models in flight are left to their budget.       *)
CancelTurn(t) ==
    /\ turn[t] \in {"paused", "interrupted"}
    /\ Quiescent(t)
    /\ \A r \in Pending(t) :
           interaction[r].op # NoOp => op[interaction[r].op].status = "awaiting_approval"
    /\ interaction' = [r \in Requests |->
           IF r \in Pending(t) THEN Answered(r, "abort", "denied") ELSE interaction[r]]
    /\ op' = [o \in Ops |->
           IF \E r \in Pending(t) : interaction[r].op = o
           THEN [op[o] EXCEPT !.status = "cancelled"] ELSE op[o]]
    /\ Ended(t, "cancelled")
    /\ UNCHANGED <<inputRevision, allocation, cancelPending, childWait, reported, callRevision,
                   modelVars>>

RequestCancellation(t) ==
    /\ turn[t] \in Open
    /\ OwnsSlot(t)
    /\ cancelPending' = [cancelPending EXCEPT ![t] = TRUE]
    /\ UNCHANGED <<turn, slotVars, interaction, childWait, untouchedByTurns>>

-----------------------------------------------------------------------------
(* Resuming *)

ResumeChildWait(t) ==
    /\ ~AdmissionRevoked(t)
    /\ turn[t] = "paused" /\ childWait[t] > 0
    /\ ActiveChildren(t) = {} \/ inputRevision[t] # childWait[t]
    /\ OwnsSlot(t)
    /\ Resumed(t)
    /\ UNCHANGED <<slotVars, childWait, interaction, untouchedByTurns>>

ResumeCancelled(t) ==
    /\ turn[t] = "paused" /\ cancelPending[t]
    /\ OwnsSlot(t)
    /\ Pending(t) = {} /\ Quiescent(t) /\ ModelsIn(t, InFlight) = {}
    /\ Resumed(t)
    /\ UNCHANGED <<slotVars, childWait, interaction, untouchedByTurns>>

(* request_clarification and request_choice.                                *)
AskQuestion(t, r) ==
    /\ Running(t)
    /\ Fresh(r)
    /\ interaction' = [interaction EXCEPT ![r] = Asked("question", t, NoOp)]
    /\ Paused(t)
    /\ UNCHANGED <<slotVars, cancelPending, untouchedByTurns>>

(* resolve_clarification and resolve_choice: the answer is a user message.  *)
AnswerQuestion(t, r) ==
    /\ turn[t] = "paused"
    /\ ~AdmissionRevoked(t)
    /\ r \in PendingOf(t, "question")
    /\ interaction' = [interaction EXCEPT ![r] = Answered(r, "answered", "none")]
    /\ inputRevision' = [inputRevision EXCEPT ![t] = @ + 1]
    /\ Resumed(t)
    /\ UNCHANGED <<activeTurn, allocation, childWait, untouchedByTurns>>

-----------------------------------------------------------------------------
(* recover_owner_loss: one transaction of the new owner of the Thread *)

(* Calls without a result, in the order of the responses.                   *)
Unresolved(t) == {o \in OpsOf(t) : callRevision[o] > 0 /\ ~reported[o] /\ ~op[o].linked}
Missing(t) == {o \in Unresolved(t) : op[o].claims > 0}

(* _close_unstarted_calls stops at the first claimed call without a result. *)
Closable(t) == {o \in Unresolved(t) : \A p \in Missing(t) : o < p}
FirstMissing(t) == {o \in Missing(t) : \A p \in Missing(t) : o <= p}

Closed(o) ==
    CASE op[o].status = "absent" -> op[o]
      [] op[o].status \in {"prepared", "ready"} -> [op[o] EXCEPT !.status = "failed", !.linked = TRUE]
      [] OTHER -> [op[o] EXCEPT !.linked = TRUE]

(* Broken: the lost attempts keep their reservations in flight.             *)
LoseModelsOnly(t) ==
    /\ model' = [m \in Models |->
           IF m \in ModelsIn(t, {"dispatched"}) THEN [model[m] EXCEPT !.status = "unknown"]
                                                ELSE model[m]]
    /\ UNCHANGED reservation

(* Lost dispatches: every model becomes unknown, one running tool is put up *)
(* for reconciliation unless one is already waiting for an answer.          *)
LoseModels(t) ==
    LET lost == ModelsIn(t, {"dispatched"}) IN
    /\ model' = [m \in Models |->
           IF m \in lost THEN [model[m] EXCEPT !.status = "unknown"] ELSE model[m]]
    /\ reservation' = [m \in Models |->
           IF m \in lost THEN [reservation[m] EXCEPT ![model[m].generation] = "unknown"]
                         ELSE reservation[m]]

AfterLostModels(t) ==
    IF Running(t) /\ ModelsIn(t, {"dispatched"}) # {} THEN "interrupted" ELSE turn[t]

(* Broken: a lost call is made ready to run again.                         *)
LoseToolAsReady(t, o, r) ==
    /\ op[o].status = "running" /\ TurnOf[o] = t
    /\ SetStatus(o, "ready")
    /\ UNCHANGED interaction

(* Broken: a lost call starts over under a fresh operation.                *)
LoseToolAfresh(t, o, r) ==
    /\ op[o].status = "running" /\ TurnOf[o] = t
    /\ op' = [op EXCEPT ![o] = [NoOpRow EXCEPT !.status = "prepared"]]
    /\ UNCHANGED interaction

LoseTool(t, o, r) ==
    /\ op[o].status = "running" /\ TurnOf[o] = t
    /\ PendingOf(t, "tool_reconciliation") = {}
    /\ AskReconciliation(o, r)
    /\ SetStatus(o, "unknown")

(* The result of a call that is still open or was superseded is refused.    *)
CanClose(t) ==
    \A o \in Closable(t) :
        op[o].status \in {"absent", "prepared", "ready", "failed", "denied", "cancelled"}

(* With abort, the calls nobody started are closed and the Turn is paused.  *)
CloseUnstarted(t) ==
    /\ CanClose(t)
    /\ reported' = [o \in Ops |-> reported[o] \/ o \in Closable(t)]
    /\ op' = [o \in Ops |-> IF o \in Closable(t) THEN Closed(o)
                           ELSE IF o \in FirstMissing(t) THEN [op[o] EXCEPT !.status = "unknown"]
                           ELSE op[o]]
    /\ IF Missing(t) = {} THEN OwnsSlot(t) /\ UNCHANGED interaction
       ELSE \E o \in FirstMissing(t), r \in Requests :
                /\ PendingOf(t, "tool_reconciliation") = {}
                /\ AskReconciliation(o, r)
    /\ Paused(t)

RecoverOwner(t, abort) ==
    /\ turn[t] \in Open
    /\ LoseModels(t)
    /\ \/ \E o \in Ops, r \in Requests :
              /\ LoseTool(t, o, r)
              /\ \/ Paused(t)
                 \/ /\ AfterLostModels(t) # "running"  \* its lease had passed too
                    /\ SetTurn(t, AfterLostModels(t)) /\ UNCHANGED childWait
              /\ UNCHANGED reported
       \/ /\ InStatus(t, {"running"}) = {} \/ PendingOf(t, "tool_reconciliation") # {}
          /\ ~(abort /\ AfterLostModels(t) = "running" /\ Quiescent(t))
          /\ SetTurn(t, AfterLostModels(t))
          /\ UNCHANGED <<childWait, interaction, op, reported>>
       \/ /\ abort /\ AfterLostModels(t) = "running" /\ Quiescent(t)
          /\ CloseUnstarted(t)
    /\ UNCHANGED <<slotVars, cancelPending, callRevision>>

-----------------------------------------------------------------------------
Init == TurnInit /\ ToolInit /\ ModelInit

TurnStep(t) ==
    \/ StartTurn(t) \/ StartChild(t) \/ SettleChild(t) \/ ReceiveInput(t)
    \/ FailTurn(t) \/ PauseTurn(t) \/ InterruptOrphaned(t) \/ CancelTurn(t)
    \/ RequestCancellation(t) \/ ResumeChildWait(t) \/ ResumeCancelled(t)
    \/ \E revision \in 1..inputRevision[t] : CompleteTurn(t, revision) \/ PauseForChildren(t, revision)
    \/ \E r \in Requests : AskQuestion(t, r) \/ AnswerQuestion(t, r)
    \/ \E abort \in BOOLEAN : RecoverOwner(t, abort)

AnswerStep(t) ==
    /\ \/ \E r \in Requests : RefreshApproval(t, r)
       \/ InvalidateApproval(t) \/ InvalidateResolvedApproval(t)
       \/ \E decision \in {"approve", "deny"}, recheck \in BOOLEAN :
              ResolveApproval(t, decision, recheck)
       \/ \E status \in {"succeeded", "failed", "cancelled"} : ResolveReconciliation(t, status)
    /\ UNCHANGED modelVars

ToolStep(o) ==
    /\ \/ PrepareOperation(o) \/ ReadyOperation(o) \/ ClaimOperation(o)
       \/ RecordResult(o) \/ RecordRefusal(o)
       \/ \E superseded \in BOOLEAN : RejectReady(o, superseded)
       \/ \E status \in {"succeeded", "failed"} : CommitOutcome(o, status) \/ CommitResult(o, status)
       \/ \E r \in Requests : \/ RequestApproval(o, r) \/ ExpireClaim(o, r) \/ MarkResultMissing(o, r)
                              \/ CommitUnknown(o, r) \/ CommitUnknownResult(o, r)
    /\ UNCHANGED modelVars

ModelStep(m) ==
    \/ \E t \in Turns : \E revision \in 1..inputRevision[t] : PrepareModel(t, m, revision)
    \/ SupersedePrepared(m) \/ DispatchModel(m) \/ ExpireDispatch(m)
    \/ PrepareScheduledRetry(m) \/ CancelScheduledRetry(m) \/ FailUnstartedRetry(m) \/ RetryModel(m)
    \/ ResponseHandled(m)
    \/ \E g \in Generations :
           \/ MarkModelUnknown(m, g) \/ CancelModelAttempt(m, g)
           \/ FailureUnknown(m, g) \/ FailureScheduled(m, g) \/ FailureFinal(m, g)
           \/ \E outcome \in {"released", "unknown", "settled"} : RejectModel(m, g, outcome)
           \/ \E calls \in SUBSET Ops : CompleteModel(m, g, calls)

Next ==
    \/ \E t \in Turns : TurnStep(t) \/ AnswerStep(t)
    \/ \E o \in Ops : ToolStep(o)
    \/ \E m \in Models : ModelStep(m)

Spec == Init /\ [][Next]_vars

-----------------------------------------------------------------------------
(* What the ledger promises, whoever calls it *)

TypeOK == TurnTypeOK /\ ToolTypeOK /\ ModelTypeOK

(* An effect is started at most once: no sequence of approvals, rechecks,   *)
(* recoveries and reconciliations brings a claimed operation back to a      *)
(* state a claim accepts (claim_tool_operation, recover_owner_loss).        *)
ClaimedAtMostOnce == \A o \in Ops : op[o].claims <= 1

PendingReconciliations(o) ==
    {r \in Requests : /\ interaction[r].status = "pending"
                      /\ interaction[r].kind = "tool_reconciliation"
                      /\ interaction[r].op = o}

(* An uncertain outcome is never lost and never asked twice: an operation   *)
(* is unknown exactly while one pending reconciliation of its Turn asks     *)
(* for it (tool_ops.py, ownership.py, cancel_turn).                         *)
UnknownAsksOnce ==
    /\ \A o \in Ops : op[o].status = "unknown" <=> PendingReconciliations(o) # {}
    /\ \A o \in Ops : \A q, r \in PendingReconciliations(o) : q = r

(* A pending approval and the operation it blocks point at each other, so   *)
(* an answer always releases the call the user was shown.                   *)
ApprovalBlocksItsCall ==
    /\ \A r \in Requests :
           interaction[r].status = "pending" /\ interaction[r].kind = "tool_approval" =>
               LET o == interaction[r].op IN
               o \in Ops /\ op[o].status = "awaiting_approval" /\ op[o].approval = r
    /\ \A o \in Ops :
           op[o].status = "awaiting_approval" =>
               /\ op[o].approval \in Requests
               /\ interaction[op[o].approval].status = "pending"
               /\ interaction[op[o].approval].op = o

(* A call that was put up for approval starts only on an approval that the  *)
(* user gave and that nothing invalidated since.                            *)
StartedOnlyIfApproved ==
    \A o \in Ops :
        op[o].claims > 0 /\ op[o].approval # NoRequest =>
            /\ interaction[op[o].approval].decision = "approve"
            /\ interaction[op[o].approval].approval = "approved"

(* Money that may have been spent is never forgotten: an attempt whose      *)
(* outcome became unknown keeps its reservation as uncertain exposure,      *)
(* whatever a late worker, a retry or a cancellation reports.               *)
UncertainExposureKept ==
    [][\A m \in Models, g \in Generations :
          reservation[m][g] = "unknown" => reservation'[m][g] = "unknown"]_vars

(* Budget is spent in flight exactly while the operation awaits that very   *)
(* attempt: no outcome leaves a dispatched reservation behind, no retry     *)
(* runs under the reservation of another attempt.                           *)
DispatchedOnlyIfAwaited ==
    \A m \in Models, g \in Generations : reservation[m][g] = "dispatched" <=> Current(m, g)

(* "either the allocation blocks completion, or a terminal parent rejects   *)
(* allocation" (complete_turn): no child is left behind.                    *)
CompletedLeavesNoChild ==
    \A t, c \in Turns : Parent[c] = t /\ allocation[c] = "active" => turn[t] # "completed"

(* The slot of a Thread never names a Turn that ended or another Thread's.  *)
SlotNamesOpenTurn ==
    \A h \in Threads :
        activeTurn[h] # NoTurn => ThreadOf[activeTurn[h]] = h /\ turn[activeTurn[h]] \in Open
=============================================================================
