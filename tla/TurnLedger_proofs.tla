-------------------------- MODULE TurnLedger_proofs --------------------------
(***************************************************************************)
(* Theorems about the ledger, whoever calls it: its rows stay well formed; *)
(* the budget follows the attempts; a Thread's slot names an open Turn,    *)
(* and no Turn completes above a child that still holds a share of its     *)
(* budget.  TurnLedgerTools_proofs has those about tool calls.             *)
(***************************************************************************)
EXTENDS TurnLedgerInv, TLAPS

USE TurnConstants, ToolConstants, ModelConstants

(* The rows a command writes, whatever it asks, answers or clears.          *)
LEMMA RowType ==
    /\ FreeRow \in InteractionRow
    /\ NoOpRow \in OpRow
    /\ NoModelRow \in ModelRow
    /\ \A kind \in InteractionKind, t \in Turns, o \in Ops \cup {NoOp} :
           Asked(kind, t, o) \in InteractionRow
    /\ TypeOK => \A r \in Requests, d \in Decision, a \in ApprovalStatus :
                    Answered(r, d, a) \in InteractionRow
  <1>1. FreeRow \in InteractionRow
    BY DEF FreeRow, InteractionRow, InteractionKind, Decision, ApprovalStatus
  <1>2. NoOpRow \in OpRow
    BY DEF NoOpRow, OpRow, OpStatus, Unstarted, Uncertain, Settled, NoRequest
  <1>3. NoModelRow \in ModelRow
    BY DEF NoModelRow, ModelRow, ModelStatus, InFlight
  <1>4. ASSUME NEW kind \in InteractionKind, NEW t \in Turns, NEW o \in Ops \cup {NoOp}
        PROVE  Asked(kind, t, o) \in InteractionRow
    BY DEF Asked, FreeRow, InteractionRow, InteractionKind, Decision, ApprovalStatus
  <1>5. ASSUME TypeOK, NEW r \in Requests, NEW d \in Decision, NEW a \in ApprovalStatus
        PROVE  Answered(r, d, a) \in InteractionRow
    <2>1. interaction[r] \in InteractionRow
      BY <1>5 DEF TypeOK, TurnTypeOK
    <2> QED BY <2>1 DEF Answered, InteractionRow
  <1> QED BY <1>1, <1>2, <1>3, <1>4, <1>5

(* The ways in which a command changes an operation keep it well formed.    *)
LEMMA OpRowType ==
    \A row \in OpRow : \A s \in OpStatus :
        /\ [row EXCEPT !.status = s] \in OpRow
        /\ [row EXCEPT !.linked = TRUE] \in OpRow
        /\ [row EXCEPT !.status = s, !.linked = TRUE] \in OpRow
        /\ [row EXCEPT !.status = s, !.claims = row.claims + 1] \in OpRow
        /\ \A b \in BOOLEAN : [row EXCEPT !.status = s, !.superseded = b] \in OpRow
        /\ \A q \in Requests : [row EXCEPT !.status = s, !.approval = q] \in OpRow
  <1> SUFFICES ASSUME NEW row \in OpRow, NEW s \in OpStatus
               PROVE  OpRowType!(row)!(s)
    OBVIOUS
  <1>1. [row EXCEPT !.status = s] \in OpRow
    BY DEF OpRow
  <1>2. [row EXCEPT !.linked = TRUE] \in OpRow
    BY DEF OpRow
  <1>3. [row EXCEPT !.status = s, !.linked = TRUE] \in OpRow
    BY DEF OpRow
  <1>4. [row EXCEPT !.status = s, !.claims = row.claims + 1] \in OpRow
    <2>1. row.claims \in Nat
      BY DEF OpRow
    <2>2. row.claims + 1 \in Nat
      BY <2>1
    <2> QED BY <2>2 DEF OpRow
  <1>5. \A b \in BOOLEAN : [row EXCEPT !.status = s, !.superseded = b] \in OpRow
    BY DEF OpRow
  <1>6. \A q \in Requests : [row EXCEPT !.status = s, !.approval = q] \in OpRow
    BY DEF OpRow
  <1> QED BY <1>1, <1>2, <1>3, <1>4, <1>5, <1>6

LEMMA SetStatusType ==
    ASSUME TypeOK, NEW o, NEW s \in OpStatus, SetStatus(o, s)
    PROVE  op' \in [Ops -> OpRow]
  BY OpRowType DEF SetStatus, TypeOK, ToolTypeOK

LEMMA InitType == Init => TypeOK
  BY RowType DEF Init, TurnInit, ToolInit, ModelInit, TypeOK, TurnTypeOK, ToolTypeOK, ModelTypeOK,
                 TurnStatus, ReservationStatus

(* What every branch of recover_owner_loss does to models and statuses.     *)
LEMMA LoseModelsType ==
    ASSUME TypeOK, NEW t \in Turns, LoseModels(t)
    PROVE  ModelTypeOK'
  <1>1. model' \in [Models -> ModelRow]
    <2>1. \A m \in Models : [model[m] EXCEPT !.status = "unknown"] \in ModelRow
      <3>1. \A m \in Models : model[m] \in ModelRow
        BY DEF TypeOK, ModelTypeOK
      <3> QED BY <3>1 DEF ModelRow, ModelStatus, InFlight
    <2> QED BY <2>1 DEF LoseModels, TypeOK, ModelTypeOK
  <1>2. reservation' \in [Models -> [Generations -> ReservationStatus]]
    BY DEF LoseModels, TypeOK, ModelTypeOK, ReservationStatus
  <1> QED BY <1>1, <1>2 DEF ModelTypeOK

LEMMA AskReconciliationType ==
    ASSUME TypeOK, NEW o \in Ops, NEW r \in Requests, AskReconciliation(o, r)
    PROVE  interaction' \in [Requests -> InteractionRow]
  BY RowType DEF AskReconciliation, TypeOK, TurnTypeOK, InteractionKind

LEMMA RecoverOwnerType ==
    ASSUME TypeOK, NEW t \in Turns, NEW abort \in BOOLEAN, RecoverOwner(t, abort)
    PROVE  TypeOK'
  <1> DEFINE running == AfterLostModels(t) = "running"
  <1>1. ModelTypeOK'
    BY LoseModelsType DEF RecoverOwner
  <1>2. AfterLostModels(t) \in TurnStatus
    BY DEF AfterLostModels, TypeOK, TurnTypeOK, TurnStatus, Open
  <1>3. turn' \in [Turns -> TurnStatus] /\ childWait' \in [Turns -> Nat]
    BY <1>2 DEF RecoverOwner, CloseUnstarted, Paused, SetTurn, TypeOK, TurnTypeOK, TurnStatus, Open
  <1>4. interaction' \in [Requests -> InteractionRow]
    <2>1. ASSUME NEW o \in Ops, NEW r \in Requests, AskReconciliation(o, r)
          PROVE  interaction' \in [Requests -> InteractionRow]
      BY <2>1, AskReconciliationType
    <2> QED
      BY <2>1 DEF RecoverOwner, LoseTool, CloseUnstarted, FirstMissing, Missing, Unresolved, OpsOf,
                  TypeOK, TurnTypeOK
  <1>5. op' \in [Ops -> OpRow]
    <2>1. \A o \in Ops : op[o] \in OpRow /\ Closed(o) \in OpRow
                       /\ [op[o] EXCEPT !.status = "unknown"] \in OpRow
      BY OpRowType DEF Closed, TypeOK, ToolTypeOK, OpStatus, Settled, Uncertain
    <2> QED BY <2>1 DEF RecoverOwner, LoseTool, CloseUnstarted, SetStatus, TypeOK, ToolTypeOK
  <1>6. reported' \in [Ops -> BOOLEAN]
    BY DEF RecoverOwner, CloseUnstarted, TypeOK, ToolTypeOK
  <1> QED
    BY <1>1, <1>3, <1>4, <1>5, <1>6
    DEF RecoverOwner, TypeOK, TurnTypeOK, ToolTypeOK, slotVars

LEMMA TurnStepType ==
    ASSUME TypeOK, NEW t \in Turns, TurnStep(t)
    PROVE  TypeOK'
  <1> USE DEF TypeOK, TurnTypeOK, ToolTypeOK, ModelTypeOK, TurnStatus, Open, Terminal,
              turnVars, slotVars, toolVars, modelVars, untouchedByTurns, SetTurn, Ended, Paused, Resumed
  <1>1. CASE StartTurn(t) BY <1>1 DEF StartTurn
  <1>2. CASE StartChild(t) BY <1>2 DEF StartChild
  <1>3. CASE SettleChild(t) BY <1>3 DEF SettleChild
  <1>4. CASE ReceiveInput(t) BY <1>4 DEF ReceiveInput
  <1>5. CASE FailTurn(t) BY <1>5 DEF FailTurn
  <1>6. CASE PauseTurn(t) BY <1>6 DEF PauseTurn
  <1>7. CASE InterruptOrphaned(t) BY <1>7 DEF InterruptOrphaned
  <1>8. CASE CancelTurn(t)
    <2>1. interaction' \in [Requests -> InteractionRow]
      BY <1>8, RowType DEF CancelTurn, Decision, ApprovalStatus
    <2>2. op' \in [Ops -> OpRow]
      BY <1>8, OpRowType DEF CancelTurn, OpStatus, Settled
    <2> QED BY <1>8, <2>1, <2>2 DEF CancelTurn
  <1>9. CASE RequestCancellation(t) BY <1>9 DEF RequestCancellation
  <1>10. CASE ResumeChildWait(t) BY <1>10 DEF ResumeChildWait
  <1>11. CASE ResumeCancelled(t) BY <1>11 DEF ResumeCancelled
  <1>12. ASSUME NEW revision \in 1..inputRevision[t], CompleteTurn(t, revision) PROVE TypeOK'
    BY <1>12 DEF CompleteTurn
  <1>13. ASSUME NEW revision \in 1..inputRevision[t], PauseForChildren(t, revision) PROVE TypeOK'
    BY <1>13 DEF PauseForChildren
  <1>14. ASSUME NEW r \in Requests, AskQuestion(t, r) PROVE TypeOK'
    <2>1. interaction' \in [Requests -> InteractionRow]
      BY <1>14, RowType DEF AskQuestion, InteractionKind
    <2> QED BY <1>14, <2>1 DEF AskQuestion
  <1>15. ASSUME NEW r \in Requests, AnswerQuestion(t, r) PROVE TypeOK'
    <2>1. interaction' \in [Requests -> InteractionRow]
      BY <1>15, RowType DEF AnswerQuestion, Decision, ApprovalStatus
    <2> QED BY <1>15, <2>1 DEF AnswerQuestion
  <1>16. ASSUME NEW abort \in BOOLEAN, RecoverOwner(t, abort) PROVE TypeOK'
    BY <1>16, RecoverOwnerType
  <1> QED BY <1>1, <1>2, <1>3, <1>4, <1>5, <1>6, <1>7, <1>8, <1>9, <1>10, <1>11, <1>12, <1>13,
             <1>14, <1>15, <1>16 DEF TurnStep

LEMMA AnswerStepType ==
    ASSUME TypeOK, NEW t \in Turns, AnswerStep(t)
    PROVE  TypeOK'
  <1> USE DEF turnVars, slotVars, toolVars, modelVars, SetTurn, Paused, Resumed
  <1>a. /\ turn \in [Turns -> TurnStatus] /\ "paused" \in TurnStatus /\ "running" \in TurnStatus
        /\ interaction \in [Requests -> InteractionRow] /\ op \in [Ops -> OpRow]
        /\ {"awaiting_approval", "ready", "denied", "superseded", "succeeded", "failed", "cancelled"}
               \subseteq OpStatus
        /\ {"approve", "deny", "recheck", "reconciled"} \subseteq Decision
        /\ {"none", "approved", "denied", "invalidated"} \subseteq ApprovalStatus
    BY DEF TypeOK, TurnTypeOK, ToolTypeOK, TurnStatus, Open, OpStatus, Unstarted, Settled, Decision,
           ApprovalStatus
  <1>1. ASSUME NEW r \in Requests, RefreshApproval(t, r) PROVE TypeOK'
    <2>1. PICK o \in OpsOf(t) :
            /\ interaction' = [interaction EXCEPT
                   ![op[o].approval] =
                       IF @.status = "pending" THEN Answered(op[o].approval, "recheck", "invalidated")
                       ELSE [@ EXCEPT !.approval = "invalidated"],
                   ![r] = Asked("tool_approval", t, o)]
            /\ op' = [op EXCEPT ![o].status = "awaiting_approval", ![o].approval = r]
      BY <1>1 DEF RefreshApproval
    <2>2. o \in Ops
      BY DEF OpsOf
    <2>3. interaction' \in [Requests -> InteractionRow]
      <3>1. \A q \in Requests : /\ Answered(q, "recheck", "invalidated") \in InteractionRow
                                /\ [interaction[q] EXCEPT !.approval = "invalidated"] \in InteractionRow
        BY <1>a, RowType DEF InteractionRow
      <3>2. Asked("tool_approval", t, o) \in InteractionRow
        BY <2>2, RowType DEF InteractionKind
      <3> QED BY <1>a, <2>1, <3>1, <3>2
    <2>4. op' \in [Ops -> OpRow]
      BY <1>a, <2>1, <2>2, OpRowType
    <2>5. turn' \in [Turns -> TurnStatus] /\ childWait' \in [Turns -> Nat] /\ cancelPending' \in [Turns -> BOOLEAN]
      <3>1. Paused(t) \/ UNCHANGED <<turn, childWait>>
        BY <1>1 DEF RefreshApproval
      <3>2. cancelPending' = cancelPending
        BY <1>1 DEF RefreshApproval
      <3> QED BY <3>1, <3>2, <1>a DEF Paused, SetTurn, TypeOK, TurnTypeOK
    <2> QED BY <1>1, <1>a, <2>3, <2>4, <2>5
            DEF RefreshApproval, AnswerStep, TypeOK, TurnTypeOK, ToolTypeOK, ModelTypeOK
  <1>2. CASE InvalidateApproval(t)
    <2>1. PICK r \in Requests : /\ interaction' = [interaction EXCEPT ![r] = Answered(r, "approve", "invalidated")]
                                /\ SetStatus(interaction[r].op, "superseded")
      BY <1>2 DEF InvalidateApproval
    <2>2. interaction' \in [Requests -> InteractionRow]
      BY <1>a, <2>1, RowType
    <2>3. op' \in [Ops -> OpRow]
      BY <1>a, <2>1, SetStatusType
    <2> QED BY <1>2, <2>2, <2>3
            DEF InvalidateApproval, AnswerStep, TypeOK, TurnTypeOK, ToolTypeOK, ModelTypeOK
  <1>3. CASE InvalidateResolvedApproval(t)
    <2>1. PICK r \in Requests : /\ interaction' = [interaction EXCEPT ![r].approval = "invalidated"]
                                /\ SetStatus(interaction[r].op, "superseded")
      BY <1>3 DEF InvalidateResolvedApproval
    <2>2. interaction' \in [Requests -> InteractionRow]
      BY <1>a, <2>1 DEF InteractionRow
    <2>3. op' \in [Ops -> OpRow]
      BY <1>a, <2>1, SetStatusType
    <2> QED BY <1>3, <1>a, <2>2, <2>3
            DEF InvalidateResolvedApproval, AnswerStep, TypeOK, TurnTypeOK, ToolTypeOK, ModelTypeOK
  <1>4. ASSUME NEW decision \in {"approve", "deny"}, NEW recheck \in BOOLEAN,
               ResolveApproval(t, decision, recheck)
        PROVE  TypeOK'
    <2> DEFINE approval == IF decision = "approve" THEN "approved" ELSE "denied"
    <2>1. PICK r \in Requests :
            /\ interaction' = [interaction EXCEPT ![r] =
                   [Answered(r, decision, approval) EXCEPT !.recheck = recheck]]
            /\ SetStatus(interaction[r].op, IF decision = "approve" THEN "ready" ELSE "denied")
      BY <1>4 DEF ResolveApproval
    <2>2. interaction' \in [Requests -> InteractionRow]
      <3>1. Answered(r, decision, approval) \in InteractionRow
        BY <1>a, RowType
      <3>2. [Answered(r, decision, approval) EXCEPT !.recheck = recheck] \in InteractionRow
        BY <3>1 DEF InteractionRow
      <3> QED BY <1>a, <2>1, <3>2
    <2>3. op' \in [Ops -> OpRow]
      BY <1>a, <2>1, SetStatusType
    <2> QED BY <1>4, <1>a, <2>2, <2>3
            DEF ResolveApproval, AnswerStep, TypeOK, TurnTypeOK, ToolTypeOK, ModelTypeOK
  <1>5. ASSUME NEW status \in {"succeeded", "failed", "cancelled"}, ResolveReconciliation(t, status)
        PROVE  TypeOK'
    <2>1. PICK r \in Requests :
            /\ interaction' = [interaction EXCEPT ![r] = Answered(r, "reconciled", "none")]
            /\ op' = [op EXCEPT ![interaction[r].op].status = status, ![interaction[r].op].linked = TRUE]
      BY <1>5 DEF ResolveReconciliation
    <2>2. interaction' \in [Requests -> InteractionRow]
      BY <1>a, <2>1, RowType
    <2>3. op' \in [Ops -> OpRow]
      BY <1>a, <2>1, OpRowType
    <2> QED BY <1>5, <1>a, <2>2, <2>3
            DEF ResolveReconciliation, AnswerStep, TypeOK, TurnTypeOK, ToolTypeOK, ModelTypeOK
  <1> QED BY <1>1, <1>2, <1>3, <1>4, <1>5 DEF AnswerStep
LEMMA ToolStepType ==
    ASSUME TypeOK, NEW o \in Ops, ToolStep(o)
    PROVE  TypeOK'
  <1> USE DEF turnVars, slotVars, toolVars, modelVars, SetTurn, Paused
  <1>a. /\ turn \in [Turns -> TurnStatus] /\ "paused" \in TurnStatus
        /\ interaction \in [Requests -> InteractionRow] /\ op \in [Ops -> OpRow]
        /\ {"prepared", "ready", "running", "unknown", "failed", "succeeded", "awaiting_approval"}
               \subseteq OpStatus
        /\ TurnOf[o] \in Turns
    BY DEF TypeOK, TurnTypeOK, ToolTypeOK, TurnStatus, Open, OpStatus, Unstarted, Uncertain, Settled
  <1>b. ASSUME op' \in [Ops -> OpRow], reported' \in [Ops -> BOOLEAN],
               interaction' \in [Requests -> InteractionRow], turn' \in [Turns -> TurnStatus],
               childWait' \in [Turns -> Nat],
               UNCHANGED <<slotVars, cancelPending, callRevision, modelVars>>
        PROVE  TypeOK'
    BY <1>b DEF TypeOK, TurnTypeOK, ToolTypeOK, ModelTypeOK
  <1>c. reported \in [Ops -> BOOLEAN] /\ childWait \in [Turns -> Nat]
    BY DEF TypeOK, TurnTypeOK, ToolTypeOK
  <1>d. UNCHANGED modelVars
    BY DEF ToolStep
  <1>1. CASE PrepareOperation(o)
    BY <1>1, <1>a, <1>b, <1>c, <1>d, SetStatusType DEF PrepareOperation
  <1>2. CASE ReadyOperation(o)
    BY <1>2, <1>a, <1>b, <1>c, <1>d, SetStatusType DEF ReadyOperation
  <1>3. CASE ClaimOperation(o)
    BY <1>3, <1>a, <1>b, <1>c, <1>d, OpRowType DEF ClaimOperation
  <1>4. CASE RecordResult(o)
    BY <1>4, <1>a, <1>b, <1>c, <1>d, OpRowType DEF RecordResult
  <1>5. CASE RecordRefusal(o)
    BY <1>5, <1>a, <1>b, <1>c, <1>d DEF RecordRefusal
  <1>6. ASSUME NEW superseded \in BOOLEAN, RejectReady(o, superseded) PROVE TypeOK'
    BY <1>6, <1>a, <1>b, <1>c, <1>d, OpRowType DEF RejectReady
  <1>7. ASSUME NEW status \in {"succeeded", "failed"}, CommitOutcome(o, status) PROVE TypeOK'
    BY <1>7, <1>a, <1>b, <1>c, <1>d, SetStatusType DEF CommitOutcome
  <1>8. ASSUME NEW status \in {"succeeded", "failed"}, CommitResult(o, status) PROVE TypeOK'
    BY <1>8, <1>a, <1>b, <1>c, <1>d, OpRowType DEF CommitResult
  <1>9. ASSUME NEW r \in Requests, RequestApproval(o, r) PROVE TypeOK'
    <2>1. Asked("tool_approval", TurnOf[o], o) \in InteractionRow
      BY <1>a, RowType DEF InteractionKind
    <2> QED BY <1>9, <2>1, <1>a, <1>b, <1>c, <1>d, OpRowType DEF RequestApproval
  <1>10. ASSUME NEW r \in Requests, AskReconciliation(o, r)
         PROVE  interaction' \in [Requests -> InteractionRow]
    BY <1>10, AskReconciliationType
  <1>11. ASSUME NEW r \in Requests, ExpireClaim(o, r) PROVE TypeOK'
    BY <1>11, <1>10, <1>a, <1>b, <1>c, <1>d, SetStatusType DEF ExpireClaim
  <1>12. ASSUME NEW r \in Requests, MarkResultMissing(o, r) PROVE TypeOK'
    BY <1>12, <1>10, <1>a, <1>b, <1>c, <1>d, SetStatusType DEF MarkResultMissing
  <1>13. ASSUME NEW r \in Requests, CommitUnknown(o, r) PROVE TypeOK'
    BY <1>13, <1>10, <1>a, <1>b, <1>c, <1>d, SetStatusType DEF CommitUnknown
  <1>14. ASSUME NEW r \in Requests, CommitUnknownResult(o, r) PROVE TypeOK'
    BY <1>14, <1>10, <1>a, <1>b, <1>c, <1>d, OpRowType DEF CommitUnknownResult
  <1> QED
    BY <1>1, <1>2, <1>3, <1>4, <1>5, <1>6, <1>7, <1>8, <1>9, <1>11, <1>12, <1>13, <1>14 DEF ToolStep
(* The ways in which a command changes a model operation.                   *)
LEMMA ModelRowType ==
    \A row \in ModelRow : \A s \in ModelStatus :
        /\ [row EXCEPT !.status = s] \in ModelRow
        /\ [row EXCEPT !.status = s, !.replaceable = TRUE] \in ModelRow
        /\ [row EXCEPT !.status = s, !.generation = row.generation + 1] \in ModelRow
        /\ \A calls \in SUBSET Ops : [row EXCEPT !.status = s, !.calls = calls] \in ModelRow
        /\ [row EXCEPT !.handled = TRUE] \in ModelRow
        /\ \A g \in Nat : [row EXCEPT !.status = s, !.retries = row.retries + 1, !.scheduledAt = g] \in ModelRow
  <1> SUFFICES ASSUME NEW row \in ModelRow, NEW s \in ModelStatus
               PROVE  ModelRowType!(row)!(s)
    OBVIOUS
  <1>0. row.generation + 1 \in Nat /\ row.retries + 1 \in Nat
    BY DEF ModelRow
  <1>1. [row EXCEPT !.status = s] \in ModelRow
    BY DEF ModelRow
  <1>2. [row EXCEPT !.status = s, !.replaceable = TRUE] \in ModelRow
    BY DEF ModelRow
  <1>3. [row EXCEPT !.status = s, !.generation = row.generation + 1] \in ModelRow
    BY <1>0 DEF ModelRow
  <1>4. \A calls \in SUBSET Ops : [row EXCEPT !.status = s, !.calls = calls] \in ModelRow
    BY DEF ModelRow
  <1>5. [row EXCEPT !.handled = TRUE] \in ModelRow
    BY DEF ModelRow
  <1>6. \A g \in Nat : [row EXCEPT !.status = s, !.retries = row.retries + 1, !.scheduledAt = g] \in ModelRow
    BY <1>0 DEF ModelRow
  <1> QED BY <1>1, <1>2, <1>3, <1>4, <1>5, <1>6

LEMMA BudgetOutcomeType ==
    ASSUME TypeOK, NEW m \in Models, NEW g, NEW outcome \in ReservationStatus,
           BudgetOutcome(m, g, outcome)
    PROVE  reservation' \in [Models -> [Generations -> ReservationStatus]]
  BY DEF BudgetOutcome, TypeOK, ModelTypeOK

LEMMA ReleasedIfReservedType ==
    ASSUME TypeOK, NEW m \in Models, ReleasedIfReserved(m)
    PROVE  reservation' \in [Models -> [Generations -> ReservationStatus]]
  <1>1. "released" \in ReservationStatus
    BY DEF ReservationStatus
  <1> QED BY <1>1, BudgetOutcomeType DEF ReleasedIfReserved, TypeOK, ModelTypeOK

LEMMA ModelStepType ==
    ASSUME TypeOK, NEW m \in Models, ModelStep(m)
    PROVE  TypeOK'
  <1> USE DEF turnVars, slotVars, toolVars, SetTurn, Ended, Resumed, InterruptedIfRunning, SetModel,
              untouchedByModels
  <1>a. /\ turn \in [Turns -> TurnStatus] /\ cancelPending \in [Turns -> BOOLEAN]
        /\ {"running", "interrupted", "cancelled", "failed"} \subseteq TurnStatus
        /\ activeTurn \in [Threads -> Turns \cup {NoTurn}]
        /\ model \in [Models -> ModelRow] /\ model[m] \in ModelRow
        /\ {"prepared", "failed", "dispatched", "unknown", "cancelled", "completed", "retry_wait"}
               \subseteq ModelStatus
        /\ {"dispatched", "unknown", "released", "settled", "reserved"} \subseteq ReservationStatus
        /\ reservation \in [Models -> [Generations -> ReservationStatus]]
        /\ callRevision \in [Ops -> Nat] /\ model[m].revision \in Nat
        /\ Generations \subseteq Nat
    BY DEF TypeOK, TurnTypeOK, ToolTypeOK, ModelTypeOK, TurnStatus, Open, Terminal, ModelStatus, InFlight,
           ReservationStatus, ModelRow, Generations
  <1>b. ASSUME model' \in [Models -> ModelRow],
               reservation' \in [Models -> [Generations -> ReservationStatus]],
               turn' \in [Turns -> TurnStatus], cancelPending' \in [Turns -> BOOLEAN],
               activeTurn' \in [Threads -> Turns \cup {NoTurn}], callRevision' \in [Ops -> Nat],
               UNCHANGED <<inputRevision, allocation, interaction, childWait, op, reported>>
        PROVE  TypeOK'
    BY <1>b DEF TypeOK, TurnTypeOK, ToolTypeOK, ModelTypeOK
  <1>1. ASSUME NEW t \in Turns, NEW revision \in 1..inputRevision[t], PrepareModel(t, m, revision)
        PROVE  TypeOK'
    <2>1. revision \in Nat
      BY DEF TypeOK, TurnTypeOK
    <2>2. [NoModelRow EXCEPT !.status = "prepared", !.turn = t, !.revision = revision, !.generation = 1]
             \in ModelRow
      BY <2>1, <1>a DEF NoModelRow, ModelRow
    <2> QED BY <1>1, <2>2, <1>a, <1>b DEF PrepareModel
  <1>2. CASE SupersedePrepared(m)
    BY <1>2, <1>a, <1>b, ModelRowType DEF SupersedePrepared
  <1>3. CASE DispatchModel(m)
    BY <1>3, <1>a, <1>b, ModelRowType DEF DispatchModel
  <1>4. ASSUME NEW g, MarkModelUnknown(m, g) PROVE TypeOK'
    BY <1>4, <1>a, <1>b, ModelRowType, BudgetOutcomeType DEF MarkModelUnknown
  <1>5. CASE ExpireDispatch(m)
    BY <1>5, <1>4 DEF ExpireDispatch
  <1>6. CASE PrepareScheduledRetry(m)
    BY <1>6, <1>a, <1>b, ModelRowType DEF PrepareScheduledRetry
  <1>7. CASE CancelScheduledRetry(m)
    BY <1>7, <1>a, <1>b, ModelRowType, ReleasedIfReservedType DEF CancelScheduledRetry
  <1>8. CASE FailUnstartedRetry(m)
    BY <1>8, <1>a, <1>b, ModelRowType, ReleasedIfReservedType DEF FailUnstartedRetry
  <1>9. CASE RetryModel(m)
    BY <1>9, <1>a, <1>b, ModelRowType DEF RetryModel
  <1>10. CASE ResponseHandled(m)
    BY <1>10, <1>a, <1>b, ModelRowType DEF ResponseHandled
  <1>11. ASSUME NEW g \in Generations, CancelModelAttempt(m, g) PROVE TypeOK'
    BY <1>11, <1>a, <1>b, ModelRowType, BudgetOutcomeType DEF CancelModelAttempt
  <1>12. ASSUME NEW g \in Generations, FailureUnknown(m, g) PROVE TypeOK'
    BY <1>12, <1>a, <1>b, ModelRowType, BudgetOutcomeType DEF FailureUnknown
  <1>13. ASSUME NEW g \in Generations, FailureScheduled(m, g) PROVE TypeOK'
    BY <1>13, <1>a, <1>b, ModelRowType, BudgetOutcomeType DEF FailureScheduled
  <1>14. ASSUME NEW g \in Generations, FailureFinal(m, g) PROVE TypeOK'
    BY <1>14, <1>a, <1>b, ModelRowType, BudgetOutcomeType DEF FailureFinal
  <1>15. ASSUME NEW g \in Generations, NEW outcome \in {"released", "unknown", "settled"},
                RejectModel(m, g, outcome)
         PROVE  TypeOK'
    BY <1>15, <1>a, <1>b, ModelRowType, BudgetOutcomeType DEF RejectModel
  <1>16. ASSUME NEW g \in Generations, NEW calls \in SUBSET Ops, CompleteModel(m, g, calls) PROVE TypeOK'
    BY <1>16, <1>a, <1>b, ModelRowType, BudgetOutcomeType DEF CompleteModel
  <1> QED
    BY <1>1, <1>2, <1>3, <1>4, <1>5, <1>6, <1>7, <1>8, <1>9, <1>10, <1>11, <1>12, <1>13, <1>14, <1>15,
       <1>16
    DEF ModelStep

LEMMA StepType ==
    ASSUME TypeOK, [Next]_vars
    PROVE  TypeOK'
  <1>1. CASE UNCHANGED vars
    BY <1>1 DEF vars, turnVars, slotVars, toolVars, modelVars, TypeOK, TurnTypeOK, ToolTypeOK,
                ModelTypeOK
  <1> QED BY <1>1, TurnStepType, AnswerStepType, ToolStepType, ModelStepType DEF Next

(* The rows of the ledger stay well formed, whatever commands are called    *)
(* and in whatever order: every status, link and counter keeps to the       *)
(* values that the readers of these tables know.                            *)
THEOREM TypeCorrect == Spec => []TypeOK
  <1>1. TypeOK /\ [Next]_vars => TypeOK'
    BY StepType
  <1> QED BY InitType, <1>1, PTL DEF Spec

-----------------------------------------------------------------------------
(* The budget follows the attempts: a reservation is in flight exactly      *)
(* while its attempt is awaited, and exposure that became uncertain stays.  *)

(* ModelInv, one operation at a time.                                       *)
AttemptInv(m) ==
    /\ \A g \in Generations : reservation[m][g] = "dispatched" <=> Current(m, g)
    /\ model[m].status # "absent" => model[m].generation \in Generations /\ model[m].turn \in Turns
    /\ model[m].status = "absent" => model[m] = NoModelRow
    /\ \A g \in Generations : g > model[m].generation => reservation[m][g] = "none"
    /\ model[m].status = "prepared" => Attempt(m) \in {"none", "reserved"}

LEMMA InvByAttempt == ModelInv <=> \A m \in Models : AttemptInv(m)
  BY DEF ModelInv, AttemptInv, DispatchedOnlyIfAwaited

(* A step keeps what is uncertain of operation m.                           *)
KeepsExposure(m) ==
    \A g \in Generations : reservation[m][g] = "unknown" => reservation'[m][g] = "unknown"

LEMMA FrameAttempt ==
    ASSUME NEW m \in Models, AttemptInv(m), model'[m] = model[m], reservation'[m] = reservation[m]
    PROVE  AttemptInv(m)' /\ KeepsExposure(m)
  BY DEF AttemptInv, KeepsExposure, Current, Attempt

(* The awaited attempt ends with an outcome.                                *)
LEMMA OutcomeAttempt ==
    ASSUME TypeOK, NEW m \in Models, AttemptInv(m), NEW g, Current(m, g),
           NEW outcome \in {"unknown", "released", "settled"}, BudgetOutcome(m, g, outcome),
           model'[m].status \notin {"absent", "prepared", "dispatched"},
           model'[m].generation = g, model'[m].turn = model[m].turn
    PROVE  AttemptInv(m)' /\ KeepsExposure(m)
  <1>1. /\ reservation[m] \in [Generations -> ReservationStatus] /\ g \in Generations
        /\ reservation[m][g] = "dispatched" /\ model[m].generation = g
    BY DEF TypeOK, ModelTypeOK, AttemptInv, Current
  <1>2. reservation'[m] = [reservation[m] EXCEPT ![g] = outcome]
    BY DEF BudgetOutcome, TypeOK, ModelTypeOK
  <1>3. \A h \in Generations : reservation'[m][h] # "dispatched"
    BY <1>1, <1>2 DEF AttemptInv, Current
  <1>4. KeepsExposure(m)
    BY <1>1, <1>2 DEF KeepsExposure
  <1>5. \A h \in Generations : h > g => reservation'[m][h] = "none"
    BY <1>1, <1>2 DEF AttemptInv, Generations
  <1>6. model[m].turn \in Turns
    BY DEF AttemptInv, Current
  <1> QED BY <1>1, <1>3, <1>4, <1>5, <1>6 DEF AttemptInv, Current

(* An attempt that was only prepared is given up.                           *)
LEMMA ReleasedAttempt ==
    ASSUME TypeOK, NEW m \in Models, AttemptInv(m), model[m].status \in {"prepared", "retry_wait"},
           ReleasedIfReserved(m), model'[m].status = "failed",
           model'[m].generation = model[m].generation, model'[m].turn = model[m].turn
    PROVE  AttemptInv(m)' /\ KeepsExposure(m)
  <1> DEFINE g == model[m].generation
  <1>1. reservation[m] \in [Generations -> ReservationStatus] /\ g \in Generations
    BY DEF TypeOK, ModelTypeOK, AttemptInv
  <1>2. \A h \in Generations : reservation[m][h] # "dispatched"
    BY DEF AttemptInv, Current
  <1>3. \/ reservation'[m] = reservation[m]
        \/ /\ reservation'[m] = [reservation[m] EXCEPT ![g] = "released"]
           /\ reservation[m][g] # "unknown"
    BY DEF ReleasedIfReserved, BudgetOutcome, AttemptInv, Attempt, TypeOK, ModelTypeOK
  <1>4. \A h \in Generations : reservation'[m][h] # "dispatched"
    BY <1>1, <1>2, <1>3
  <1>5. KeepsExposure(m)
    BY <1>1, <1>3 DEF KeepsExposure
  <1>6. ASSUME NEW h \in Generations, h > g
        PROVE  reservation'[m][h] = "none"
    <2>1. h # g
      BY <1>1, <1>6 DEF Generations
    <2>2. reservation[m][h] = "none"
      BY <1>6 DEF AttemptInv
    <2> QED BY <2>1, <2>2, <1>1, <1>3
  <1> QED BY <1>1, <1>4, <1>5, <1>6 DEF AttemptInv, Current

(* The next attempt is prepared, with a reservation or without.             *)
LEMMA NextAttempt ==
    ASSUME TypeOK, NEW m \in Models, AttemptInv(m), model[m].status # "dispatched",
           model[m].generation < MaxGeneration,
           model'[m].status = "prepared", model'[m].generation = model[m].generation + 1,
           model'[m].turn \in Turns,
           \/ reservation'[m] = reservation[m]
           \/ reservation'[m] = [reservation[m] EXCEPT ![model[m].generation + 1] = "reserved"]
    PROVE  AttemptInv(m)' /\ KeepsExposure(m)
  <1>0. PICK g : g = model[m].generation
    OBVIOUS
  <1>1. /\ reservation[m] \in [Generations -> ReservationStatus]
        /\ g \in Nat /\ g + 1 \in Generations /\ g + 1 > g
    BY <1>0, ModelConstants DEF TypeOK, ModelTypeOK, ModelRow, Generations
  <1>2. reservation[m][g + 1] = "none"
    BY <1>0, <1>1 DEF AttemptInv
  <1>3. \A h \in Generations : reservation[m][h] # "dispatched"
    BY DEF AttemptInv, Current
  <1>4. \A h \in Generations : reservation'[m][h] # "dispatched"
    BY <1>0, <1>1, <1>3
  <1>5. KeepsExposure(m)
    BY <1>0, <1>1, <1>2 DEF KeepsExposure
  <1>6. \A h \in Generations : h > g + 1 => reservation'[m][h] = "none"
    <2> SUFFICES ASSUME NEW h \in Generations, h > g + 1 PROVE reservation'[m][h] = "none"
      OBVIOUS
    <2>1. h > g /\ h # g + 1
      BY <1>1 DEF Generations
    <2>2. reservation[m][h] = "none"
      BY <2>1, <1>0 DEF AttemptInv
    <2> QED BY <2>1, <2>2, <1>0, <1>1
  <1>7. reservation'[m][g + 1] \in {"none", "reserved"}
    BY <1>0, <1>1, <1>2
  <1> QED BY <1>0, <1>1, <1>4, <1>5, <1>6, <1>7 DEF AttemptInv, Current, Attempt

LEMMA ModelStepMoney ==
    ASSUME TypeOK, NEW m \in Models, AttemptInv(m), ModelStep(m)
    PROVE  /\ AttemptInv(m)' /\ KeepsExposure(m)
           /\ \A n \in Models \ {m} : model'[n] = model[n] /\ reservation'[n] = reservation[n]
  <1> DEFINE Goal == /\ AttemptInv(m)' /\ KeepsExposure(m)
                     /\ \A n \in Models \ {m} : model'[n] = model[n] /\ reservation'[n] = reservation[n]
  <1> USE DEF SetModel
  <1>a. /\ model \in [Models -> ModelRow] /\ model[m] \in ModelRow
        /\ reservation \in [Models -> [Generations -> ReservationStatus]]
        /\ reservation[m] \in [Generations -> ReservationStatus]
    BY DEF TypeOK, ModelTypeOK
  <1>b. ASSUME NEW n \in Models \ {m}, NEW g, NEW outcome, BudgetOutcome(m, g, outcome)
        PROVE  reservation'[n] = reservation[n]
    BY <1>b, <1>a DEF BudgetOutcome
  <1>c. ASSUME NEW n \in Models \ {m}, ReleasedIfReserved(m)
        PROVE  reservation'[n] = reservation[n]
    BY <1>b, <1>c DEF ReleasedIfReserved
  <1>1. ASSUME NEW t \in Turns, NEW revision \in 1..inputRevision[t], PrepareModel(t, m, revision)
        PROVE  Goal
    <2>1. model[m].generation = 0
      BY <1>1 DEF PrepareModel, AttemptInv, NoModelRow
    <2>2. model'[m].status = "prepared" /\ model'[m].generation = 1 /\ model'[m].turn = t
      BY <1>1, <1>a DEF PrepareModel, NoModelRow
    <2> QED BY <1>1, <2>1, <2>2, <1>a, NextAttempt, ModelConstants DEF PrepareModel
  <1>2. CASE SupersedePrepared(m)
    <2>1. /\ model[m].status = "prepared" /\ reservation' = reservation
          /\ model'[m].status = "failed" /\ model'[m].generation = model[m].generation
          /\ model'[m].turn = model[m].turn
      BY <1>2, <1>a DEF SupersedePrepared, ModelRow
    <2>2. AttemptInv(m)' /\ KeepsExposure(m)
      BY <2>1 DEF AttemptInv, KeepsExposure, Current
    <2> QED BY <2>1, <2>2, <1>2, <1>a DEF SupersedePrepared
  <1>3. CASE DispatchModel(m)
    <2>1. PICK g : g = model[m].generation
      OBVIOUS
    <2>2. /\ model[m].status = "prepared" /\ model'[m].status = "dispatched"
          /\ model'[m].generation = g /\ model'[m].turn = model[m].turn
          /\ reservation[m][g] \in {"none", "reserved"} /\ g \in Generations
          /\ reservation'[m] = [reservation[m] EXCEPT ![g] = "dispatched"]
      BY <1>3, <1>a, <2>1 DEF DispatchModel, ModelRow, Attempt, AttemptInv
    <2>3. \A h \in Generations : reservation'[m][h] = "dispatched" <=> h = g
      BY <2>2, <1>a DEF AttemptInv, Current
    <2>4. \A h \in Generations : h > g => reservation'[m][h] = "none"
      BY <2>1, <2>2, <1>a DEF AttemptInv, Generations
    <2>5. AttemptInv(m)' /\ KeepsExposure(m)
      BY <2>2, <2>3, <2>4, <1>a DEF AttemptInv, KeepsExposure, Current
    <2> QED BY <2>5, <1>3, <1>a DEF DispatchModel
  <1>4. ASSUME NEW g, MarkModelUnknown(m, g) PROVE Goal
    BY <1>4, <1>a, <1>b, OutcomeAttempt DEF MarkModelUnknown, ModelRow, Current
  <1>5. CASE ExpireDispatch(m)
    BY <1>5, <1>4 DEF ExpireDispatch
  <1>6. CASE PrepareScheduledRetry(m)
    <2>1. /\ model[m].status = "retry_wait" /\ model'[m].status = "prepared"
          /\ model[m].generation < MaxGeneration
          /\ model'[m].generation = model[m].generation + 1 /\ model'[m].turn = model[m].turn
          /\ reservation'[m] = [reservation[m] EXCEPT ![model[m].generation + 1] = "reserved"]
      BY <1>6, <1>a DEF PrepareScheduledRetry, ModelRow
    <2>2. model[m].turn \in Turns
      BY <2>1 DEF AttemptInv
    <2> QED BY <2>1, <2>2, <1>6, <1>a, NextAttempt DEF PrepareScheduledRetry
  <1>7. CASE CancelScheduledRetry(m)
    BY <1>7, <1>a, <1>c, ReleasedAttempt DEF CancelScheduledRetry, Scheduled, ModelRow
  <1>8. CASE FailUnstartedRetry(m)
    BY <1>8, <1>a, <1>c, ReleasedAttempt DEF FailUnstartedRetry, Scheduled, ModelRow
  <1>9. CASE RetryModel(m)
    <2>1. /\ model[m].status = "unknown" /\ model'[m].status = "prepared"
          /\ model[m].generation < MaxGeneration
          /\ model'[m].generation = model[m].generation + 1 /\ model'[m].turn = model[m].turn
          /\ reservation' = reservation
      BY <1>9, <1>a DEF RetryModel, ModelRow
    <2>2. model[m].turn \in Turns
      BY <2>1 DEF AttemptInv
    <2> QED BY <2>1, <2>2, <1>9, <1>a, NextAttempt DEF RetryModel
  <1>10. CASE ResponseHandled(m)
    <2>1. /\ model[m].status = "completed" /\ reservation' = reservation
          /\ model'[m].status = "completed" /\ model'[m].generation = model[m].generation
          /\ model'[m].turn = model[m].turn
      BY <1>10, <1>a DEF ResponseHandled, ModelRow
    <2>2. AttemptInv(m)' /\ KeepsExposure(m)
      BY <2>1 DEF AttemptInv, KeepsExposure, Current
    <2> QED BY <2>1, <2>2, <1>10, <1>a DEF ResponseHandled
  <1>11. ASSUME NEW g \in Generations, CancelModelAttempt(m, g) PROVE Goal
    BY <1>11, <1>a, <1>b, OutcomeAttempt DEF CancelModelAttempt, ModelRow, Current
  <1>12. ASSUME NEW g \in Generations, FailureUnknown(m, g) PROVE Goal
    BY <1>12, <1>a, <1>b, OutcomeAttempt DEF FailureUnknown, ModelRow, Current
  <1>13. ASSUME NEW g \in Generations, FailureScheduled(m, g) PROVE Goal
    BY <1>13, <1>a, <1>b, OutcomeAttempt DEF FailureScheduled, ModelRow, Current
  <1>14. ASSUME NEW g \in Generations, FailureFinal(m, g) PROVE Goal
    BY <1>14, <1>a, <1>b, OutcomeAttempt DEF FailureFinal, ModelRow, Current
  <1>15. ASSUME NEW g \in Generations, NEW outcome \in {"released", "unknown", "settled"},
                RejectModel(m, g, outcome)
         PROVE  Goal
    BY <1>15, <1>a, <1>b, OutcomeAttempt DEF RejectModel, ModelRow, Current
  <1>16. ASSUME NEW g \in Generations, NEW calls \in SUBSET Ops, CompleteModel(m, g, calls) PROVE Goal
    BY <1>16, <1>a, <1>b, OutcomeAttempt DEF CompleteModel, ModelRow, Current
  <1> QED
    BY <1>1, <1>2, <1>3, <1>4, <1>5, <1>6, <1>7, <1>8, <1>9, <1>10, <1>11, <1>12, <1>13, <1>14, <1>15,
       <1>16
    DEF ModelStep

(* A new owner declares every awaited attempt unknown, budget included.     *)
LEMMA LoseModelsMoney ==
    ASSUME TypeOK, NEW t \in Turns, LoseModels(t), NEW m \in Models, AttemptInv(m)
    PROVE  AttemptInv(m)' /\ KeepsExposure(m)
  <1>1. CASE m \in ModelsIn(t, {"dispatched"})
    <2>1. PICK g : g = model[m].generation
      OBVIOUS
    <2>2. /\ model[m] \in ModelRow /\ reservation[m] \in [Generations -> ReservationStatus]
          /\ model[m].status = "dispatched"
      BY <1>1 DEF TypeOK, ModelTypeOK, ModelsIn
    <2>3. /\ model'[m].status = "unknown" /\ model'[m].generation = g
          /\ model'[m].turn = model[m].turn
          /\ reservation'[m] = [reservation[m] EXCEPT ![g] = "unknown"]
      BY <1>1, <2>1, <2>2 DEF LoseModels, ModelRow
    <2>4. g \in Generations /\ model[m].turn \in Turns
      BY <2>1, <2>2 DEF AttemptInv
    <2>5. \A h \in Generations : reservation'[m][h] # "dispatched"
      BY <2>1, <2>2, <2>3 DEF AttemptInv, Current
    <2>6. \A h \in Generations : h > g => reservation'[m][h] = "none"
      BY <2>1, <2>2, <2>3 DEF AttemptInv, Generations
    <2>7. KeepsExposure(m)
      BY <2>2, <2>3 DEF KeepsExposure
    <2> QED BY <2>3, <2>4, <2>5, <2>6, <2>7 DEF AttemptInv, Current
  <1>2. CASE m \notin ModelsIn(t, {"dispatched"})
    <2>1. model'[m] = model[m] /\ reservation'[m] = reservation[m]
      BY <1>2 DEF LoseModels
    <2> QED BY <2>1, FrameAttempt
  <1> QED BY <1>1, <1>2

LEMMA StepMoney ==
    ASSUME TypeOK, ModelInv, [Next]_vars
    PROVE  ModelInv' /\ \A m \in Models : KeepsExposure(m)
  <1> SUFFICES ASSUME NEW m \in Models
               PROVE  AttemptInv(m)' /\ KeepsExposure(m)
    BY InvByAttempt DEF ModelInv, AttemptInv, DispatchedOnlyIfAwaited
  <1>0. AttemptInv(m)
    BY InvByAttempt
  <1>1. CASE UNCHANGED modelVars
    BY <1>0, <1>1, FrameAttempt DEF modelVars
  <1>2. ASSUME NEW n \in Models, ModelStep(n) PROVE AttemptInv(m)' /\ KeepsExposure(m)
    <2>1. AttemptInv(n)
      BY InvByAttempt
    <2>2. CASE m = n
      BY <1>2, <2>1, <2>2, ModelStepMoney
    <2>3. CASE m # n
      BY <1>0, <1>2, <2>1, <2>3, ModelStepMoney, FrameAttempt
    <2> QED BY <2>2, <2>3
  <1>3. ASSUME NEW t \in Turns, NEW abort \in BOOLEAN, RecoverOwner(t, abort)
        PROVE  AttemptInv(m)' /\ KeepsExposure(m)
    BY <1>0, <1>3, LoseModelsMoney DEF RecoverOwner
  <1>4. ASSUME NEW t \in Turns, TurnStep(t) PROVE AttemptInv(m)' /\ KeepsExposure(m)
    BY <1>1, <1>3, <1>4
    DEF TurnStep, StartTurn, StartChild, SettleChild, ReceiveInput, FailTurn, PauseTurn,
        InterruptOrphaned, RequestCancellation, ResumeChildWait, ResumeCancelled, CompleteTurn,
        PauseForChildren, CancelTurn, AskQuestion, AnswerQuestion, untouchedByTurns
  <1> QED BY <1>1, <1>2, <1>4 DEF Next, AnswerStep, ToolStep, vars

LEMMA MoneyInit == Init => ModelInv
  BY ModelConstants DEF Init, ModelInit, ModelInv, DispatchedOnlyIfAwaited, Current, NoModelRow

(* Every reservation belongs to the attempt that its operation is at.       *)
THEOREM MoneyFollowsAttempts == Spec => []ModelInv
  <1>1. Init => ModelInv
    BY MoneyInit
  <1>2. TypeOK /\ ModelInv /\ [Next]_vars => ModelInv'
    BY StepMoney
  <1> QED BY <1>1, <1>2, TypeCorrect, PTL DEF Spec

(* Budget is in flight exactly while its attempt is awaited, whatever the   *)
(* number of requests, attempts and retries.                                *)
THEOREM DispatchedIsAwaited == Spec => []DispatchedOnlyIfAwaited
  <1>1. ModelInv => DispatchedOnlyIfAwaited
    BY DEF ModelInv
  <1> QED BY <1>1, MoneyFollowsAttempts, PTL

(* No late report, retry, recovery or cancellation forgets money that may   *)
(* have been spent.                                                         *)
THEOREM ExposureIsKept == Spec => UncertainExposureKept
  <1>1. TypeOK /\ ModelInv /\ [Next]_vars =>
          [\A m \in Models, g \in Generations :
              reservation[m][g] = "unknown" => reservation'[m][g] = "unknown"]_vars
    BY StepMoney DEF KeepsExposure
  <1> QED BY <1>1, TypeCorrect, MoneyFollowsAttempts, PTL DEF Spec, UncertainExposureKept

-----------------------------------------------------------------------------
(* Turns, their slots and their children *)

(* What a command may do to the Turns and the slots: move open or ended     *)
(* Turns among the open states, end one and release its slot, or start one. *)
Reopens ==
    /\ activeTurn' = activeTurn
    /\ \A t \in Turns : turn'[t] = turn[t] \/ turn'[t] \in Open

Ends(t) ==
    \E status \in Terminal : Ended(t, status)

Starts(t) ==
    /\ turn' = [turn EXCEPT ![t] = "running"]
    /\ activeTurn' = [activeTurn EXCEPT ![ThreadOf[t]] = t]

LEMMA TurnMoves ==
    ASSUME TypeOK, ModelInv, [Next]_vars
    PROVE  \/ Reopens
           \/ \E t \in Turns : Ends(t) \/ Starts(t)
  <1> USE DEF slotVars, SetTurn, Paused, Resumed, InterruptedIfRunning
  <1>a. turn \in [Turns -> TurnStatus]
    BY DEF TypeOK, TurnTypeOK
  <1>b. ASSUME UNCHANGED <<turn, activeTurn>> PROVE Reopens
    BY <1>b DEF Reopens
  <1>c. ASSUME NEW t, NEW status \in Open, turn' = [turn EXCEPT ![t] = status], activeTurn' = activeTurn
        PROVE  Reopens
    BY <1>c, <1>a DEF Reopens
  <1>1. ASSUME NEW t \in Turns, AnswerStep(t) PROVE Reopens
    BY <1>1, <1>b, <1>c
    DEF AnswerStep, RefreshApproval, InvalidateApproval, InvalidateResolvedApproval, ResolveApproval,
        ResolveReconciliation, Open
  <1>2. ASSUME NEW o \in Ops, ToolStep(o) PROVE Reopens
    BY <1>2, <1>b, <1>c
    DEF ToolStep, PrepareOperation, ReadyOperation, ClaimOperation, RecordResult, RecordRefusal,
        RejectReady, CommitOutcome, CommitResult, RequestApproval, ExpireClaim, MarkResultMissing,
        CommitUnknown, CommitUnknownResult, turnVars, Open
  <1>d. ASSUME NEW t \in Turns, NEW status \in Terminal, Ended(t, status) PROVE Ends(t)
    BY <1>d DEF Ends
  <1>3. ASSUME NEW m \in Models, ModelStep(m)
        PROVE  Reopens \/ \E t \in Turns : Ends(t)
    <2>a. model[m].status # "absent" => model[m].turn \in Turns
      BY DEF ModelInv
    <2>1. ASSUME NEW g, MarkModelUnknown(m, g) PROVE Reopens
      BY <2>1, <1>b, <1>c DEF MarkModelUnknown, untouchedByModels, Open
    <2>2. CASE RetryModel(m)
      BY <2>2, <1>c DEF RetryModel, Open
    <2>3. ASSUME NEW g \in Generations, FailureUnknown(m, g) PROVE Reopens
      BY <2>3, <1>c DEF FailureUnknown, untouchedByModels, Open
    <2>4. ASSUME NEW g \in Generations, CancelModelAttempt(m, g) PROVE Ends(model[m].turn)
      BY <2>4, <2>a, <1>d DEF CancelModelAttempt, Current, Terminal
    <2>5. ASSUME NEW g \in Generations, FailureFinal(m, g) PROVE Ends(model[m].turn)
      BY <2>5, <2>a, <1>d DEF FailureFinal, Current, Terminal
    <2>6. ASSUME FailUnstartedRetry(m) PROVE Ends(model[m].turn)
      <3>1. model[m].turn \in Turns
        BY <2>6, <2>a DEF FailUnstartedRetry, Scheduled
      <3> QED BY <3>1, <2>6, <1>d DEF FailUnstartedRetry, Terminal
    <2>7. ASSUME \/ \E t \in Turns : \E revision \in 1..inputRevision[t] : PrepareModel(t, m, revision)
                 \/ SupersedePrepared(m) \/ DispatchModel(m) \/ PrepareScheduledRetry(m)
                 \/ CancelScheduledRetry(m) \/ ResponseHandled(m)
                 \/ \E g \in Generations :
                        \/ FailureScheduled(m, g)
                        \/ \E outcome \in {"released", "unknown", "settled"} : RejectModel(m, g, outcome)
          PROVE  Reopens
      <3>1. UNCHANGED turnVars
        BY <2>7 DEF PrepareModel, SupersedePrepared, DispatchModel, PrepareScheduledRetry,
                    CancelScheduledRetry, ResponseHandled, FailureScheduled, RejectModel
      <3> QED BY <3>1, <1>b DEF turnVars
    <2>8. ASSUME NEW g \in Generations, NEW calls, CompleteModel(m, g, calls) PROVE Reopens
      BY <2>8, <1>b DEF CompleteModel, turnVars
    <2>9. ASSUME NEW g \in Generations, CancelModelAttempt(m, g) \/ FailureFinal(m, g)
          PROVE  \E t \in Turns : Ends(t)
      <3>1. model[m].turn \in Turns
        BY <2>9, <2>a DEF CancelModelAttempt, FailureFinal, Current
      <3>2. Ends(model[m].turn)
        BY <2>9, <2>4, <2>5
      <3> QED BY <3>1, <3>2
    <2>10. ASSUME FailUnstartedRetry(m) PROVE \E t \in Turns : Ends(t)
      <3>1. model[m].turn \in Turns
        BY <2>10, <2>a DEF FailUnstartedRetry, Scheduled
      <3> QED BY <3>1, <2>10, <2>6
    <2> QED
      BY <1>3, <2>1, <2>2, <2>3, <2>7, <2>8, <2>9, <2>10 DEF ModelStep, ExpireDispatch
  <1>4. ASSUME NEW t \in Turns, TurnStep(t)
        PROVE  Reopens \/ \E u \in Turns : Ends(u) \/ Starts(u)
    <2>1. ASSUME StartTurn(t) \/ StartChild(t) PROVE Starts(t)
      BY <2>1 DEF StartTurn, StartChild, Starts
    <2>2. ASSUME NEW revision, CompleteTurn(t, revision) PROVE Ends(t)
      BY <2>2, <1>d DEF CompleteTurn, Terminal
    <2>3. ASSUME FailTurn(t) \/ CancelTurn(t) PROVE Ends(t)
      BY <2>3, <1>d DEF FailTurn, CancelTurn, Terminal
    <2>4. ASSUME \/ SettleChild(t) \/ ReceiveInput(t) \/ PauseTurn(t) \/ InterruptOrphaned(t)
                 \/ RequestCancellation(t) \/ ResumeChildWait(t) \/ ResumeCancelled(t)
                 \/ \E revision \in 1..inputRevision[t] : PauseForChildren(t, revision)
                 \/ \E r \in Requests : AskQuestion(t, r) \/ AnswerQuestion(t, r)
          PROVE  Reopens
      BY <2>4, <1>b, <1>c
      DEF SettleChild, ReceiveInput, PauseTurn, InterruptOrphaned, RequestCancellation, ResumeChildWait,
          ResumeCancelled, PauseForChildren, AskQuestion, AnswerQuestion, Open
    <2>5. ASSUME NEW abort \in BOOLEAN, RecoverOwner(t, abort) PROVE Reopens
      <3>1. turn[t] \in Open /\ AfterLostModels(t) \in Open
        BY <2>5 DEF RecoverOwner, AfterLostModels, Open
      <3>2. activeTurn' = activeTurn
        BY <2>5 DEF RecoverOwner
      <3>3. \/ turn' = [turn EXCEPT ![t] = "paused"]
            \/ turn' = [turn EXCEPT ![t] = AfterLostModels(t)]
        BY <2>5 DEF RecoverOwner, CloseUnstarted
      <3>4. "paused" \in Open
        BY DEF Open
      <3> QED BY <3>1, <3>2, <3>3, <3>4, <1>a DEF Reopens
    <2> QED BY <1>4, <2>1, <2>2, <2>3, <2>4, <2>5 DEF TurnStep
  <1> QED BY <1>b, <1>1, <1>2, <1>3, <1>4 DEF Next, vars, turnVars

LEMMA SlotStep ==
    ASSUME TypeOK, ModelInv, SlotNamesOpenTurn, [Next]_vars
    PROVE  SlotNamesOpenTurn'
  <1>a. /\ turn \in [Turns -> TurnStatus] /\ activeTurn \in [Threads -> Turns \cup {NoTurn}]
        /\ ThreadOf \in [Turns -> Threads] /\ NoTurn \notin Turns
    BY TurnConstants DEF TypeOK, TurnTypeOK
  <1>1. CASE Reopens
    BY <1>1, <1>a DEF Reopens, SlotNamesOpenTurn
  <1>2. ASSUME NEW t \in Turns, Ends(t) PROVE SlotNamesOpenTurn'
    BY <1>2, <1>a DEF Ends, Ended, SetTurn, SlotNamesOpenTurn
  <1>3. ASSUME NEW t \in Turns, Starts(t) PROVE SlotNamesOpenTurn'
    BY <1>3, <1>a DEF Starts, SlotNamesOpenTurn, Open
  <1> QED BY <1>1, <1>2, <1>3, TurnMoves

LEMMA SlotInit == Init => SlotNamesOpenTurn
  BY DEF Init, TurnInit, SlotNamesOpenTurn

(* The slot of a Thread names an open Turn of that Thread or none, however  *)
(* many sessions, hosts and channels write to the ledger: every terminal    *)
(* fact releases the slot in the transaction that ends the Turn.            *)
THEOREM SlotsNameOpenTurns == Spec => []SlotNamesOpenTurn
  <1>1. TypeOK /\ ModelInv /\ SlotNamesOpenTurn /\ [Next]_vars => SlotNamesOpenTurn'
    BY SlotStep
  <1> QED BY SlotInit, <1>1, TypeCorrect, MoneyFollowsAttempts, PTL DEF Spec
-----------------------------------------------------------------------------
(* Children *)

(* A command completes no Turn and gives no child a share of its budget.     *)
Neutral ==
    /\ \A c \in Turns : allocation'[c] = "active" => allocation[c] = "active"
    /\ \A t \in Turns : turn'[t] = "completed" => turn[t] = "completed"

LEMMA ChildMoves ==
    ASSUME TypeOK, [Next]_vars
    PROVE  \/ Neutral
           \/ \E t \in Turns : \/ \E revision \in 1..inputRevision[t] : CompleteTurn(t, revision)
                              \/ StartChild(t)
  <1> USE DEF slotVars, SetTurn, Ended, Paused, Resumed, InterruptedIfRunning
  <1>a. turn \in [Turns -> TurnStatus] /\ allocation \in [Turns -> {"none", "active", "settled"}]
    BY DEF TypeOK, TurnTypeOK
  <1>b. ASSUME UNCHANGED <<turn, allocation>> PROVE Neutral
    BY <1>b DEF Neutral
  <1>c. ASSUME NEW t, NEW status, status # "completed", turn' = [turn EXCEPT ![t] = status],
               allocation' = allocation
        PROVE  Neutral
    BY <1>c, <1>a DEF Neutral
  <1>1. ASSUME NEW t \in Turns, AnswerStep(t) PROVE Neutral
    BY <1>1, <1>b, <1>c
    DEF AnswerStep, RefreshApproval, InvalidateApproval, InvalidateResolvedApproval, ResolveApproval,
        ResolveReconciliation
  <1>2. ASSUME NEW o \in Ops, ToolStep(o) PROVE Neutral
    BY <1>2, <1>b, <1>c
    DEF ToolStep, PrepareOperation, ReadyOperation, ClaimOperation, RecordResult, RecordRefusal,
        RejectReady, CommitOutcome, CommitResult, RequestApproval, ExpireClaim, MarkResultMissing,
        CommitUnknown, CommitUnknownResult, turnVars
  <1>3. ASSUME NEW m \in Models, ModelStep(m) PROVE Neutral
    <2>1. ASSUME NEW g, MarkModelUnknown(m, g) PROVE Neutral
      BY <2>1, <1>b, <1>c DEF MarkModelUnknown, untouchedByModels
    <2>2. CASE RetryModel(m)
      BY <2>2, <1>c DEF RetryModel
    <2>3. ASSUME NEW g \in Generations,
                 FailureUnknown(m, g) \/ CancelModelAttempt(m, g) \/ FailureFinal(m, g)
          PROVE  Neutral
      BY <2>3, <1>c DEF FailureUnknown, CancelModelAttempt, FailureFinal, untouchedByModels
    <2>4. CASE FailUnstartedRetry(m)
      BY <2>4, <1>c DEF FailUnstartedRetry
    <2>5. CASE UNCHANGED turnVars
      BY <2>5, <1>b DEF turnVars
    <2>6. ASSUME NEW g \in Generations, NEW calls, CompleteModel(m, g, calls) PROVE Neutral
      BY <2>6, <2>5 DEF CompleteModel
    <2>7. ASSUME \/ \E t \in Turns : \E revision \in 1..inputRevision[t] : PrepareModel(t, m, revision)
                 \/ SupersedePrepared(m) \/ DispatchModel(m) \/ PrepareScheduledRetry(m)
                 \/ CancelScheduledRetry(m) \/ ResponseHandled(m)
                 \/ \E g \in Generations :
                        \/ FailureScheduled(m, g)
                        \/ \E outcome \in {"released", "unknown", "settled"} : RejectModel(m, g, outcome)
          PROVE  UNCHANGED turnVars
      BY <2>7 DEF PrepareModel, SupersedePrepared, DispatchModel, PrepareScheduledRetry,
                  CancelScheduledRetry, ResponseHandled, FailureScheduled, RejectModel
    <2> QED
      BY <1>3, <2>1, <2>2, <2>3, <2>4, <2>5, <2>6, <2>7 DEF ModelStep, ExpireDispatch
  <1>4. ASSUME NEW t \in Turns, TurnStep(t)
        PROVE  \/ Neutral \/ StartChild(t)
               \/ \E revision \in 1..inputRevision[t] : CompleteTurn(t, revision)
    <2>1. CASE SettleChild(t)
      BY <2>1, <1>a DEF SettleChild, Neutral
    <2>2. ASSUME \/ StartTurn(t) \/ FailTurn(t) \/ CancelTurn(t) \/ ReceiveInput(t) \/ PauseTurn(t)
                 \/ InterruptOrphaned(t) \/ RequestCancellation(t) \/ ResumeChildWait(t)
                 \/ ResumeCancelled(t)
                 \/ \E revision \in 1..inputRevision[t] : PauseForChildren(t, revision)
                 \/ \E r \in Requests : AskQuestion(t, r) \/ AnswerQuestion(t, r)
          PROVE  Neutral
      BY <2>2, <1>b, <1>c
      DEF StartTurn, FailTurn, CancelTurn, ReceiveInput, PauseTurn, InterruptOrphaned,
          RequestCancellation, ResumeChildWait, ResumeCancelled, PauseForChildren, AskQuestion,
          AnswerQuestion
    <2>3. ASSUME NEW abort \in BOOLEAN, RecoverOwner(t, abort) PROVE Neutral
      <3>1. allocation' = allocation /\ turn[t] \in Open /\ AfterLostModels(t) # "completed"
        BY <2>3 DEF RecoverOwner, AfterLostModels, Open
      <3>2. \/ turn' = [turn EXCEPT ![t] = "paused"]
            \/ turn' = [turn EXCEPT ![t] = AfterLostModels(t)]
        BY <2>3 DEF RecoverOwner, CloseUnstarted
      <3> QED BY <3>1, <3>2, <1>a DEF Neutral
    <2> QED BY <1>4, <2>1, <2>2, <2>3 DEF TurnStep
  <1> QED BY <1>b, <1>1, <1>2, <1>3, <1>4 DEF Next, vars, turnVars

LEMMA ChildStep ==
    ASSUME TypeOK, CompletedLeavesNoChild, [Next]_vars
    PROVE  CompletedLeavesNoChild'
  <1>a. /\ turn \in [Turns -> TurnStatus]
        /\ allocation \in [Turns -> {"none", "active", "settled"}]
    BY DEF TypeOK, TurnTypeOK
  <1>1. CASE Neutral
    BY <1>1 DEF Neutral, CompletedLeavesNoChild
  <1>2. ASSUME NEW t \in Turns, NEW revision \in 1..inputRevision[t], CompleteTurn(t, revision)
        PROVE  CompletedLeavesNoChild'
    BY <1>2, <1>a DEF CompleteTurn, Ended, SetTurn, ActiveChildren, CompletedLeavesNoChild
  <1>3. ASSUME NEW c \in Turns, StartChild(c) PROVE CompletedLeavesNoChild'
    BY <1>3, <1>a DEF StartChild, SetTurn, Running, CompletedLeavesNoChild
  <1> QED BY <1>1, <1>2, <1>3, ChildMoves

LEMMA ChildInit == Init => CompletedLeavesNoChild
  BY DEF Init, TurnInit, CompletedLeavesNoChild

(* No Turn completes above a child that still holds a share of its budget,  *)
(* and no completed Turn is given a child: the two commands exclude each    *)
(* other in either order.                                                   *)
THEOREM NoChildLeftBehind == Spec => []CompletedLeavesNoChild
  <1>1. TypeOK /\ CompletedLeavesNoChild /\ [Next]_vars => CompletedLeavesNoChild'
    BY ChildStep
  <1> QED BY ChildInit, <1>1, TypeCorrect, PTL DEF Spec
=============================================================================
