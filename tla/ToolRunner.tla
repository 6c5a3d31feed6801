----------------------------- MODULE ToolRunner -----------------------------
(***************************************************************************)
(* How the driver of a Turn runs the tool calls of a committed response:   *)
(* harness/tool_orchestrator.py (execute_batch, execute, resume_approval,  *)
(* recover_resolved_approval) over tools/executor.py (execute_batch,       *)
(* _invoke).  Between two transactions the driver awaits, so every step    *)
(* here is one transaction, or one effect, of one call.                    *)
(*                                                                         *)
(* A driver holds the lock of its Thread (ownership.py execution_owner):   *)
(* one at a time, lost with its process.  What it knows in memory is       *)
(* phase, reply, seen and worker; everything else is the ledger.           *)
(***************************************************************************)
EXTENDS TurnLedger

CONSTANTS
    Parallel, \* calls of concurrency-safe local tools
    Policy    \* what the permission policy may answer for a call

Replies == {"none", "continue", "retry", "abort", "approve", "deny", "recheck"}

ASSUME RunnerConstants ==
    /\ Parallel \subseteq Ops
    /\ Policy \in [Ops -> SUBSET {"allow", "ask", "deny"}]

VARIABLES
    phase,   \* where the driver of a Turn awaits
    reply,   \* the action the driver was resumed with, until it is used
    seen,    \* the input revision its current request or answer is based on
    worker,  \* what the driver does about a call right now
    effects  \* how often the outside effect of a call was really started

driverVars == <<phase, reply, seen>>

Phases == {"off", "recover", "offer", "answer", "recheck", "single", "loop", "request", "dispatch",
           "await", "acked", "failing", "backoff", "consume", "batch", "after", "finish", "mark",
           "cancel", "withdraw", "closing", "drain", "stopping", "stopped"}

WorkerPhases == {"idle", "queued", "checked", "armed", "active", "claimed", "ran", "refused",
                 "revoked", "rejected", "discard", "denied"}

RunnerTypeOK ==
    /\ phase \in [Turns -> Phases]
    /\ reply \in [Turns -> Replies]
    /\ seen \in [Turns -> Nat]
    /\ worker \in [Ops -> WorkerPhases]
    /\ effects \in [Ops -> Nat]

At(t, S) == phase[t] \in S
Goto(t, p) == phase' = [phase EXCEPT ![t] = p]
Work(o, w) == worker' = [worker EXCEPT ![o] = w]
WorkersOf(t, S) == {o \in OpsOf(t) : worker[o] \in S}
Idle(t) == [o \in Ops |-> IF TurnOf[o] = t THEN "idle" ELSE worker[o]]
First(o, S) == o \in S /\ \A p \in S : o <= p

(* A step of one worker; the driver itself stays where it is.              *)
WorkerStep(o, w) ==
    /\ Work(o, w)
    /\ UNCHANGED <<driverVars, effects, modelVars>>

(* A tool phase in which calls are still started.                          *)
Working == {"batch", "single"}
Draining == {"drain", "stopping"}

-----------------------------------------------------------------------------
(* A batch: segments in the order of the calls *)

(* A parallel call takes the parallel calls that follow it.                *)
Segment(queue) ==
    {o \in queue : \/ First(o, queue)
                   \/ \A p \in queue : p <= o => p \in Parallel}

(* One read decides whether the segment still answers the newest input.    *)
NextSegment(t) ==
    LET queue == WorkersOf(t, {"queued"}) IN
    /\ At(t, {"batch"}) /\ Running(t)
    /\ WorkersOf(t, WorkerPhases \ {"idle", "queued"}) = {} /\ queue # {}
    /\ worker' = [o \in Ops |-> IF o \notin Segment(queue) THEN worker[o]
                               ELSE IF InputSuperseded(o) THEN "discard" ELSE "checked"]
    /\ UNCHANGED <<driverVars, effects, vars>>

(* The segment is over and the Turn stopped, or no call is left.           *)
EndBatch(t) ==
    /\ At(t, {"batch"})
    /\ WorkersOf(t, WorkerPhases \ {"idle", "queued"}) = {}
    /\ Running(t) => WorkersOf(t, {"queued"}) = {}
    /\ Goto(t, "after")
    /\ worker' = Idle(t)
    /\ UNCHANGED <<reply, seen, effects, vars>>

(* Calls of a segment are prepared in order, before any of them runs.      *)
Preparing(o) ==
    /\ At(TurnOf[o], {"batch"})
    /\ First(o, WorkersOf(TurnOf[o], {"checked", "discard"}))

PrepareAllowed(o) ==
    /\ Preparing(o) /\ worker[o] = "checked"
    /\ "allow" \in Policy[o]
    /\ \/ PrepareOperation(o) /\ WorkerStep(o, "checked")
       \/ ReadyOperation(o) /\ WorkerStep(o, "armed")
       \/ op[o].status = "ready" /\ UNCHANGED vars /\ Work(o, "armed") /\ UNCHANGED <<driverVars, effects>>

PrepareDenied(o) ==
    /\ Preparing(o) /\ worker[o] = "checked"
    /\ "deny" \in Policy[o]
    /\ RecordRefusal(o)
    /\ WorkerStep(o, "idle")

(* The approval ends the batch; calls already prepared stay ready.         *)
PrepareAsking(o, r) ==
    /\ Preparing(o) /\ worker[o] = "checked"
    /\ "ask" \in Policy[o]
    /\ op[o].status = "absent"
    /\ RequestApproval(o, r)
    /\ Goto(TurnOf[o], "off")
    /\ worker' = Idle(TurnOf[o])
    /\ UNCHANGED <<reply, seen, effects, modelVars>>

AskingTooLate(o) ==
    /\ Preparing(o) /\ worker[o] = "checked"
    /\ "ask" \in Policy[o] /\ InputSuperseded(o)
    /\ UNCHANGED vars
    /\ Work(o, "discard") /\ UNCHANGED <<driverVars, effects>>

(* _discard_superseded, one transaction at a time.                         *)
Discard(o) ==
    /\ worker[o] = "discard"
    /\ At(TurnOf[o], {"batch"}) => Preparing(o)
    /\ \/ ReadyOperation(o) /\ WorkerStep(o, "discard")
       \/ RejectReady(o, TRUE) /\ WorkerStep(o, "discard")
       \/ op[o].status = "absent" /\ RecordRefusal(o) /\ WorkerStep(o, "idle")
       \/ RecordResult(o) /\ WorkerStep(o, "idle")

(* Consecutive calls without a conflict run together, each group after the *)
(* one before it.                                                          *)
Group(S) == {o \in S : \A p, q \in S : p < q /\ q <= o => <<p, q>> \notin Conflicts}

StartGroup(t) ==
    LET armed == WorkersOf(t, {"armed"}) IN
    /\ At(t, {"batch"})
    /\ armed # {} /\ WorkersOf(t, WorkerPhases \ {"idle", "queued", "armed"}) = {}
    /\ worker' = [o \in Ops |-> IF o \in Group(armed) THEN "active" ELSE worker[o]]
    /\ UNCHANGED <<driverVars, effects, vars>>

-----------------------------------------------------------------------------
(* One call: claim, effect, result *)

(* The claim transaction also reads the input revision.                    *)
Claim(o) ==
    /\ worker[o] = "active"
    /\ ~InputSuperseded(o)
    /\ ClaimOperation(o)
    /\ WorkerStep(o, "claimed")

ClaimRefused(o) ==
    /\ worker[o] = "active"
    /\ \/ InputSuperseded(o) /\ RejectReady(o, TRUE) /\ WorkerStep(o, "rejected")
       \/ /\ ~InputSuperseded(o) /\ AdmissionRevoked(TurnOf[o])
          /\ RequestCancellation(TurnOf[o])
          /\ Work(o, "revoked") /\ UNCHANGED <<driverVars, effects>>
       \/ /\ ~InputSuperseded(o) /\ ~AdmissionRevoked(TurnOf[o]) /\ ResourceBusy(o)
          /\ RejectReady(o, FALSE) /\ WorkerStep(o, "rejected")
       \/ /\ At(TurnOf[o], Draining)  \* the task was cancelled in the hook before the claim
          /\ RejectReady(o, FALSE) /\ WorkerStep(o, "rejected")

RejectRevoked(o) ==
    /\ worker[o] = "revoked"
    /\ RejectReady(o, FALSE)
    /\ WorkerStep(o, "rejected")

(* The outside world changes here, and nothing durable does.               *)
RunEffect(o) ==
    /\ worker[o] = "claimed"
    /\ effects' = [effects EXCEPT ![o] = @ + 1]
    /\ Work(o, "ran")
    /\ UNCHANGED <<driverVars, vars>>

(* The live check after the claim refuses, or the call is cancelled first. *)
RefuseLive(o) ==
    /\ worker[o] = "claimed"
    /\ \/ InputSuperseded(o) \/ "deny" \in Policy[o]
       \/ At(TurnOf[o], Draining)
    /\ Work(o, "refused")
    /\ UNCHANGED <<driverVars, effects, vars>>

(* commit_tool_operation_result of a known or an unknown outcome.          *)
CommitKnown(o) ==
    /\ \/ worker[o] = "ran" /\ \E status \in {"succeeded", "failed"} : CommitResult(o, status)
       \/ worker[o] = "refused" /\ CommitResult(o, "failed")
    /\ WorkerStep(o, "idle")

CommitUncertain(o, r) ==
    /\ worker[o] = "ran"
    /\ CommitUnknownResult(o, r)
    /\ WorkerStep(o, "idle")

RecordRejection(o) ==
    /\ worker[o] = "rejected"
    /\ RecordResult(o)
    /\ WorkerStep(o, "idle")

(* A sibling paused the Turn: the result is refused and the batch fails.    *)
ResultRefused(o) ==
    /\ worker[o] \in {"ran", "refused", "rejected", "discard"}
    /\ ~Running(TurnOf[o])
    /\ worker' = [worker EXCEPT ![o] = "idle"]
    /\ phase' = [phase EXCEPT ![TurnOf[o]] = IF @ \in Working THEN "drain" ELSE @]
    /\ UNCHANGED <<reply, seen, effects, vars>>

(* Siblings of a failed or cancelled call are dropped before their claim.  *)
DropUnclaimed(t) ==
    /\ At(t, Draining)
    /\ WorkersOf(t, {"queued", "checked", "armed", "active", "discard", "denied"}) # {}
    /\ worker' = [o \in Ops |->
           IF o \in WorkersOf(t, {"queued", "checked", "armed", "active", "discard", "denied"})
           THEN "idle" ELSE worker[o]]
    /\ UNCHANGED <<driverVars, effects, vars>>

Drained(t) ==
    /\ At(t, {"drain"})
    /\ worker = Idle(t)
    /\ Goto(t, "off")
    /\ UNCHANGED <<reply, seen, worker, effects, vars>>

-----------------------------------------------------------------------------
(* A single approved call *)

(* The pending approval of t, and the call it holds back.                   *)
Awaited(t, o) == op[o].status = "awaiting_approval" /\ TurnOf[o] = t

(* resume_approval.  Several awaits separate its reads from the answer, so *)
(* newer input may go unnoticed here; the claim reads it again.            *)
AnswerApproval(t) ==
    /\ At(t, {"answer"})
    /\ \E o \in Ops :
        /\ Awaited(t, o)
        /\ \/ /\ InputSuperseded(o)
              /\ ResolveApproval(t, "deny", FALSE)
              /\ Work(o, "discard")
           \/ /\ reply[t] = "deny" \/ (reply[t] = "recheck" /\ "deny" \in Policy[o])
              /\ ResolveApproval(t, "deny", reply[t] = "recheck")
              /\ Work(o, "denied")
           \/ /\ reply[t] = "approve" \/ (reply[t] = "recheck" /\ "allow" \in Policy[o])
              /\ ResolveApproval(t, "approve", reply[t] = "recheck")
              /\ Work(o, "active")
    /\ Goto(t, "single")
    /\ UNCHANGED <<reply, seen, effects, modelVars>>

(* The scope or the policy changed: the user is asked again, or the        *)
(* approval is void.                                                       *)
AnswerOutdated(t) ==
    /\ At(t, {"answer"})
    /\ \/ reply[t] = "approve" /\ InvalidateApproval(t)
       \/ /\ reply[t] = "recheck"
          /\ \E o \in Ops : Awaited(t, o) /\ "ask" \in Policy[o]
          /\ \/ \E r \in Requests : RefreshApproval(t, r)
             \/ UNCHANGED <<turnVars, toolVars>>
    /\ Goto(t, "off")
    /\ UNCHANGED <<reply, seen, worker, effects, modelVars>>

(* The call that was approved but not started when its driver was lost.    *)
ApprovedReady(t) ==
    {o \in OpsOf(t) : /\ op[o].status = "ready" /\ op[o].approval # NoRequest
                      /\ interaction[op[o].approval].status = "resolved"
                      /\ interaction[op[o].approval].decision = "approve"}

RecoverApproved(t) ==
    /\ At(t, {"recheck"})
    /\ \E o \in ApprovedReady(t) : Work(o, IF InputSuperseded(o) THEN "discard" ELSE "active")
    /\ Goto(t, "single")
    /\ UNCHANGED <<reply, seen, effects, vars>>

RecoverOutdated(t) ==
    /\ At(t, {"recheck"})
    /\ \/ /\ \A o \in ApprovedReady(t) : ~interaction[op[o].approval].recheck
          /\ InvalidateResolvedApproval(t)
       \/ /\ \E o \in ApprovedReady(t) : interaction[op[o].approval].recheck /\ "ask" \in Policy[o]
          /\ \E r \in Requests : RefreshApproval(t, r)
    /\ Goto(t, "off")
    /\ UNCHANGED <<reply, seen, worker, effects, modelVars>>

(* A denied call is reported without its operation.                        *)
ReportDenied(o) ==
    /\ worker[o] = "denied"
    /\ RecordRefusal(o)
    /\ WorkerStep(o, "idle")

(* The approved call asks for a second scope, such as the network.         *)
AskAnotherScope(o, r) ==
    /\ At(TurnOf[o], {"single"}) /\ worker[o] = "active"
    /\ "ask" \in Policy[o] /\ op[o].approval # NoRequest /\ op[o].status = "ready"
    /\ RequestApproval(o, r)
    /\ Goto(TurnOf[o], "off")
    /\ worker' = Idle(TurnOf[o])
    /\ UNCHANGED <<reply, seen, effects, modelVars>>

EndSingle(t) ==
    /\ At(t, {"single"})
    /\ worker = Idle(t)
    /\ Goto(t, "loop")
    /\ UNCHANGED <<reply, seen, worker, effects, vars>>

BatchStep(t) ==
    \/ NextSegment(t) \/ EndBatch(t) \/ StartGroup(t) \/ DropUnclaimed(t) \/ Drained(t)
    \/ AnswerApproval(t) \/ AnswerOutdated(t) \/ RecoverApproved(t) \/ RecoverOutdated(t)
    \/ EndSingle(t)

CallStep(o) ==
    \/ PrepareAllowed(o) \/ PrepareDenied(o) \/ AskingTooLate(o) \/ Discard(o)
    \/ Claim(o) \/ ClaimRefused(o) \/ RejectRevoked(o) \/ RunEffect(o) \/ RefuseLive(o)
    \/ CommitKnown(o) \/ RecordRejection(o) \/ ResultRefused(o) \/ ReportDenied(o)
    \/ \E r \in Requests : PrepareAsking(o, r) \/ CommitUncertain(o, r) \/ AskAnotherScope(o, r)
=============================================================================
