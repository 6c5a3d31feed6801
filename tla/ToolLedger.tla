----------------------------- MODULE ToolLedger -----------------------------
(***************************************************************************)
(* The durable tool operations of harness/tool_ops.py: one action per      *)
(* command, its guard the command's refusals and its effect the facts it   *)
(* appends.  Nothing here says when a command is called: the callers are   *)
(* in TurnRunner.                                                          *)
(*                                                                         *)
(* Every tool call has one operation, so an element of Ops stands for the  *)
(* call and for its operation.  Claim generation and attempt count move    *)
(* together in every command and are one field, claims.  Lease clocks are  *)
(* left out: whether a lease has passed is up to the caller.               *)
(***************************************************************************)
EXTENDS TurnState

CONSTANTS
    TurnOf,    \* the Turn a tool call belongs to
    Conflicts  \* pairs of calls whose declared resources conflict

NoRequest == 0

ASSUME ToolConstants ==
    /\ Ops \subseteq Nat \ {0}  \* calls are numbered as the responses list them
    /\ TurnOf \in [Ops -> Turns]
    /\ Conflicts \subseteq Ops \X Ops
    /\ \A o, p \in Ops : <<o, p>> \in Conflicts => <<p, o>> \in Conflicts

VARIABLES
    op,           \* the tool_operations table
    reported,     \* calls that have a completed tool_result item
    callRevision  \* input revision of the request whose response made the call, 0: not made

toolVars == <<op, reported, callRevision>>

Unstarted == {"prepared", "ready", "awaiting_approval"}
Uncertain == {"running", "unknown"}
Settled == {"succeeded", "failed", "denied", "cancelled", "superseded"}
OpStatus == {"absent"} \cup Unstarted \cup Uncertain \cup Settled

OpRow ==
    [status : OpStatus,
     claims : Nat,                        \* claim_generation and attempt_count
     approval : Requests \cup {NoRequest}, \* approval_request_id
     linked : BOOLEAN,                    \* result_item_id is set
     superseded : BOOLEAN]                \* error_code = input_superseded

NoOpRow ==
    [status |-> "absent", claims |-> 0, approval |-> NoRequest, linked |-> FALSE,
     superseded |-> FALSE]

ToolTypeOK ==
    /\ op \in [Ops -> OpRow]
    /\ reported \in [Ops -> BOOLEAN]
    /\ callRevision \in [Ops -> Nat]

ToolInit ==
    /\ op = [o \in Ops |-> NoOpRow]
    /\ reported = [o \in Ops |-> FALSE]
    /\ callRevision = [o \in Ops |-> 0]

OpsOf(t) == {o \in Ops : TurnOf[o] = t}
InStatus(t, S) == {o \in OpsOf(t) : op[o].status \in S}
Quiescent(t) == InStatus(t, Uncertain) = {}

(* New user input arrived after the request that made this call.           *)
InputSuperseded(o) == callRevision[o] # inputRevision[TurnOf[o]]

SetStatus(o, s) == op' = [op EXCEPT ![o].status = s]

-----------------------------------------------------------------------------
(* From a call to a claim *)

(* record_tool_execution_state *)
PrepareOperation(o) ==
    /\ Running(TurnOf[o])
    /\ callRevision[o] > 0
    /\ op[o].status = "absent"
    /\ SetStatus(o, "prepared")
    /\ UNCHANGED <<turnVars, reported, callRevision>>

ReadyOperation(o) ==
    /\ Running(TurnOf[o])
    /\ op[o].status = "prepared"
    /\ SetStatus(o, "ready")
    /\ UNCHANGED <<turnVars, reported, callRevision>>

(* Broken: a call that waits for its reconciliation blocks nobody.         *)
RunningBusy(o) ==
    \E p \in Ops \ {o} : op[p].status = "running" /\ <<o, p>> \in Conflicts

ResourceBusy(o) ==
    \E p \in Ops \ {o} : op[p].status \in Uncertain /\ <<o, p>> \in Conflicts

(* claim_tool_operation asks for admission, not for a running Turn.        *)
ClaimOperation(o) ==
    /\ ~AdmissionRevoked(TurnOf[o])
    /\ op[o].status = "ready"
    /\ ~ResourceBusy(o)
    /\ op' = [op EXCEPT ![o].status = "running", ![o].claims = @ + 1]
    /\ UNCHANGED <<turnVars, reported, callRevision>>

RejectReady(o, superseded) ==
    /\ op[o].status = "ready"
    /\ op' = [op EXCEPT ![o].status = "failed", ![o].superseded = superseded]
    /\ UNCHANGED <<turnVars, reported, callRevision>>

-----------------------------------------------------------------------------
(* Approval *)

(* A first scope prepares the operation; a second one reuses the approved, *)
(* unstarted operation.                                                    *)
RequestApproval(o, r) ==
    /\ Running(TurnOf[o])
    /\ Fresh(r)
    /\ \/ op[o].status = "absent" /\ callRevision[o] > 0
       \/ op[o].status = "ready" /\ op[o].approval # NoRequest
    /\ op' = [op EXCEPT ![o].status = "awaiting_approval", ![o].approval = r]
    /\ interaction' = [interaction EXCEPT ![r] = Asked("tool_approval", TurnOf[o], o)]
    /\ Paused(TurnOf[o])
    /\ UNCHANGED <<slotVars, cancelPending, reported, callRevision>>

(* Broken: a denied operation is released as well.                         *)
ResolveReady(t, decision, recheck) ==
    /\ turn[t] = "paused"
    /\ \E r \in Requests :
        /\ OnlyPending(t, "tool_approval", r)
        /\ interaction' = [interaction EXCEPT ![r] =
               Answered(r, decision, IF decision = "approve" THEN "approved" ELSE "denied")]
        /\ SetStatus(interaction[r].op, "ready")
    /\ Resumed(t)
    /\ UNCHANGED <<slotVars, childWait, reported, callRevision>>

(* resolve_tool_approval: the answer resumes the Turn. *)
ResolveApproval(t, decision, recheck) ==
    /\ turn[t] = "paused"
    /\ \E r \in Requests :
        /\ OnlyPending(t, "tool_approval", r)
        /\ op[interaction[r].op].status = "awaiting_approval"
        /\ interaction' = [interaction EXCEPT ![r] =
               [Answered(r, decision, IF decision = "approve" THEN "approved" ELSE "denied")
                    EXCEPT !.recheck = recheck]]
        /\ SetStatus(interaction[r].op, IF decision = "approve" THEN "ready" ELSE "denied")
    /\ Resumed(t)
    /\ UNCHANGED <<slotVars, childWait, reported, callRevision>>

(* Broken: an operation that already started may be put up again.          *)
ReapprovableWhileRunning(t) ==
    {o \in OpsOf(t) : /\ op[o].status \in {"awaiting_approval", "ready", "running"}
                      /\ op[o].approval # NoRequest}

(* Unexecuted operations whose approval a policy recheck may replace.      *)
Reapprovable(t) ==
    {o \in OpsOf(t) : op[o].status \in {"awaiting_approval", "ready"} /\ op[o].approval # NoRequest}

(* Broken: the request it replaces stays open.                             *)
RefreshKeepingOldRequest(t, r) ==
    /\ turn[t] \in {"paused", "running"}
    /\ Fresh(r)
    /\ \E o \in OpsOf(t) :
        /\ Reapprovable(t) = {o}
        /\ interaction' = [interaction EXCEPT ![r] = Asked("tool_approval", t, o)]
        /\ op' = [op EXCEPT ![o].status = "awaiting_approval", ![o].approval = r]
    /\ IF Running(t) THEN Paused(t) ELSE UNCHANGED <<turn, childWait>>
    /\ UNCHANGED <<slotVars, cancelPending, reported, callRevision>>

RefreshApproval(t, r) ==
    /\ turn[t] \in {"paused", "running"}
    /\ Fresh(r)
    /\ \E o \in OpsOf(t) :
        LET q == op[o].approval IN
        /\ Reapprovable(t) = {o}
        /\ interaction[q].status = "resolved" => interaction[q].recheck
        /\ interaction' = [interaction EXCEPT
               ![q] = IF @.status = "pending" THEN Answered(q, "recheck", "invalidated")
                      ELSE [@ EXCEPT !.approval = "invalidated"],
               ![r] = Asked("tool_approval", t, o)]
        /\ op' = [op EXCEPT ![o].status = "awaiting_approval", ![o].approval = r]
    /\ IF Running(t) THEN Paused(t) ELSE UNCHANGED <<turn, childWait>>
    /\ UNCHANGED <<slotVars, cancelPending, reported, callRevision>>

(* Broken: the approval is withdrawn as "superseded", no approval status.  *)
InvalidateAsSuperseded(t) ==
    /\ turn[t] = "paused"
    /\ \E r \in Requests :
        /\ OnlyPending(t, "tool_approval", r)
        /\ interaction' = [interaction EXCEPT ![r] = Answered(r, "approve", "superseded")]
        /\ SetStatus(interaction[r].op, "superseded")
    /\ UNCHANGED <<turn, slotVars, cancelPending, childWait, reported, callRevision>>

(* The scope changed before the answer was used: the Turn stays paused.    *)
InvalidateApproval(t) ==
    /\ turn[t] = "paused"
    /\ \E r \in Requests :
        /\ OnlyPending(t, "tool_approval", r)
        /\ op[interaction[r].op].status = "awaiting_approval"
        /\ interaction' = [interaction EXCEPT ![r] = Answered(r, "approve", "invalidated")]
        /\ SetStatus(interaction[r].op, "superseded")
    /\ UNCHANGED <<turn, slotVars, cancelPending, childWait, reported, callRevision>>

(* The newest answered approval of t.                                      *)
NewestAnswer(t, r) ==
    LET answers == {q \in Requests : /\ interaction[q].turn = t
                                     /\ interaction[q].kind = "tool_approval"
                                     /\ interaction[q].status = "resolved"}
    IN  r \in answers /\ \A q \in answers : q <= r

(* Broken: the approval is withdrawn but its operation stays ready.        *)
InvalidateLeavingReady(t) ==
    /\ turn[t] = "running"
    /\ \E r \in Requests :
        /\ NewestAnswer(t, r)
        /\ interaction[r].approval = "approved"
        /\ op[interaction[r].op].status = "ready"
        /\ interaction' = [interaction EXCEPT ![r].approval = "invalidated"]
    /\ Paused(t)
    /\ UNCHANGED <<slotVars, cancelPending, op, reported, callRevision>>

InvalidateResolvedApproval(t) ==
    /\ turn[t] = "running"
    /\ \E r \in Requests :
        /\ NewestAnswer(t, r)
        /\ interaction[r].decision = "approve"
        /\ interaction[r].approval = "approved"
        /\ op[interaction[r].op].status = "ready"
        /\ interaction' = [interaction EXCEPT ![r].approval = "invalidated"]
        /\ SetStatus(interaction[r].op, "superseded")
    /\ Paused(t)
    /\ UNCHANGED <<slotVars, cancelPending, reported, callRevision>>

-----------------------------------------------------------------------------
(* Outcomes *)

(* The operation's outcome is unknown and a reconciliation r asks for it.  *)
AskReconciliation(o, r) ==
    /\ Fresh(r)
    /\ interaction' = [interaction EXCEPT ![r] = Asked("tool_reconciliation", TurnOf[o], o)]

(* expire_tool_operation_claim: its lease has passed. *)
ExpireClaim(o, r) ==
    /\ op[o].status = "running"
    /\ AskReconciliation(o, r)
    /\ SetStatus(o, "unknown")
    /\ IF Running(TurnOf[o]) THEN Paused(TurnOf[o]) ELSE UNCHANGED <<turn, childWait>>
    /\ UNCHANGED <<slotVars, cancelPending, reported, callRevision>>

MarkResultMissing(o, r) ==
    /\ op[o].status \in {"succeeded", "failed"}
    /\ ~op[o].linked
    /\ Running(TurnOf[o])
    /\ PendingOf(TurnOf[o], "tool_reconciliation") = {}
    /\ AskReconciliation(o, r)
    /\ SetStatus(o, "unknown")
    /\ Paused(TurnOf[o])
    /\ UNCHANGED <<slotVars, cancelPending, reported, callRevision>>

(* commit_tool_operation_outcome alone, without the canonical result.       *)
CommitOutcome(o, status) ==
    /\ status \in {"succeeded", "failed"}
    /\ op[o].status = "running"
    /\ SetStatus(o, status)
    /\ UNCHANGED <<turnVars, reported, callRevision>>

(* Broken: a worker that reports again asks again.                          *)
CommitUnknownAgain(o, r) ==
    /\ op[o].status \in Uncertain
    /\ AskReconciliation(o, r)
    /\ SetStatus(o, "unknown")
    /\ Paused(TurnOf[o])
    /\ UNCHANGED <<slotVars, cancelPending, reported, callRevision>>

(* The same command for an unknown outcome pauses the Turn, whatever the    *)
(* Turn's state.                                                            *)
CommitUnknown(o, r) ==
    /\ op[o].status = "running"
    /\ AskReconciliation(o, r)
    /\ SetStatus(o, "unknown")
    /\ Paused(TurnOf[o])
    /\ UNCHANGED <<slotVars, cancelPending, reported, callRevision>>

(* commit_tool_operation_result: outcome and canonical result are one       *)
(* transaction; a known outcome is refused unless the Turn is running.      *)
CommitResult(o, status) ==
    /\ status \in {"succeeded", "failed"}
    /\ op[o].status = "running"
    /\ Running(TurnOf[o])
    /\ op' = [op EXCEPT ![o].status = status, ![o].linked = TRUE]
    /\ reported' = [reported EXCEPT ![o] = TRUE]
    /\ UNCHANGED <<turnVars, callRevision>>

(* Broken: the Turn is not paused for the question.                         *)
CommitUnknownUnpaused(o, r) ==
    /\ op[o].status = "running"
    /\ AskReconciliation(o, r)
    /\ op' = [op EXCEPT ![o].status = "unknown", ![o].linked = TRUE]
    /\ reported' = [reported EXCEPT ![o] = TRUE]
    /\ UNCHANGED <<turn, childWait, slotVars, cancelPending, callRevision>>

CommitUnknownResult(o, r) ==
    /\ op[o].status = "running"
    /\ AskReconciliation(o, r)
    /\ op' = [op EXCEPT ![o].status = "unknown", ![o].linked = TRUE]
    /\ reported' = [reported EXCEPT ![o] = TRUE]
    /\ Paused(TurnOf[o])
    /\ UNCHANGED <<slotVars, cancelPending, callRevision>>

(* record_tool_result, linked to its operation.                             *)
RecordResult(o) ==
    /\ op[o].status \in {"succeeded", "failed", "denied", "cancelled", "unknown"}
    /\ \/ Running(TurnOf[o])
       \/ /\ turn[TurnOf[o]] = "paused"
          /\ op[o].status = "unknown"
          /\ Cardinality({r \in PendingOf(TurnOf[o], "tool_reconciliation") :
                              interaction[r].op = o}) = 1
    /\ op' = [op EXCEPT ![o].linked = TRUE]
    /\ reported' = [reported EXCEPT ![o] = TRUE]
    /\ UNCHANGED <<turnVars, callRevision>>

(* record_tool_result of a call that was refused before it had a record.    *)
RecordRefusal(o) ==
    /\ Running(TurnOf[o])
    /\ callRevision[o] > 0
    /\ reported' = [reported EXCEPT ![o] = TRUE]
    /\ UNCHANGED <<turnVars, op, callRevision>>

(* resolve_tool_reconciliation resumes the Turn, whatever else is pending.  *)
ResolveReconciliation(t, status) ==
    /\ status \in {"succeeded", "failed", "cancelled"}
    /\ turn[t] = "paused"
    /\ \E r \in Requests :
        /\ OnlyPending(t, "tool_reconciliation", r)
        /\ op[interaction[r].op].status = "unknown"
        /\ interaction' = [interaction EXCEPT ![r] = Answered(r, "reconciled", "none")]
        /\ op' = [op EXCEPT ![interaction[r].op].status = status,
                            ![interaction[r].op].linked = TRUE]
    /\ Resumed(t)
    /\ UNCHANGED <<slotVars, childWait, reported, callRevision>>

=============================================================================
