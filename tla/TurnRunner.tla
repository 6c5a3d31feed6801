----------------------------- MODULE TurnRunner -----------------------------
(***************************************************************************)
(* The driver of a Turn: harness/execution.py drive, with the route it     *)
(* reads from harness/recovery.py, the model calls of model_runner.py, the *)
(* responses of responses.py and the completion of stop.py, composed with  *)
(* the tool batches of ToolRunner over the ledger.                         *)
(*                                                                         *)
(* The driver reads a consistent plan, awaits, and then commits: the       *)
(* ledger may have new input, a cancellation or a changed ancestor by      *)
(* then.  It may be lost at any await (Crash) or its task cancelled (Stop).*)
(***************************************************************************)
EXTENDS ToolRunner

CONSTANTS
    Responses, \* the sets of calls a response may make
    Crashes,   \* whether a driver may be lost
    Stops      \* whether its task may be cancelled

ASSUME RunnerInputs ==
    /\ Responses \subseteq SUBSET Ops
    /\ Crashes \in BOOLEAN /\ Stops \in BOOLEAN

runnerVars == <<vars, driverVars, worker, effects>>

RunnerInit ==
    /\ Init
    /\ phase = [t \in Turns |-> "off"]
    /\ reply = [t \in Turns |-> "none"]
    /\ seen = [t \in Turns |-> 0]
    /\ worker = [o \in Ops |-> "idle"]
    /\ effects = [o \in Ops |-> 0]

(* A step of the driver alone, between calls.                              *)
DriverStep(t, p) ==
    /\ Goto(t, p)
    /\ UNCHANGED <<reply, seen, worker, effects>>

-----------------------------------------------------------------------------
(* The recovery plan *)

Latest(t) == CHOOSE m \in ModelsOf(t) : IsLatest(t, m)
LatestIs(t, S) == ModelsOf(t) # {} /\ model[Latest(t)].status \in S
Handled(t) == LatestIs(t, {"completed"}) /\ model[Latest(t)].handled
AncestorRevoked(t) == AdmissionRevoked(t) /\ ~Revoked(t)
ChildWaiting(t) == turn[t] = "paused" /\ childWait[t] > 0

(* The rules of _recovery_decision, in its order; the last one always holds.*)
PlanRules(t) == <<
      <<turn[t] \notin Open, "terminal">>,
      <<PendingOf(t, "tool_reconciliation") # {} \/ InStatus(t, {"unknown"}) # {}, "reconcile">>,
      <<ModelsIn(t, {"dispatched"}) # {} \/ InStatus(t, {"running"}) # {}, "recover_owner">>,
      <<Running(t) /\ AdmissionRevoked(t), "cancel">>,
      <<AncestorRevoked(t) /\ ModelsIn(t, {"unknown"}) # {}, "unavailable">>,
      <<AncestorRevoked(t), "cancel">>,
      <<Pending(t) # {} /\ Revoked(t), "unavailable">>,
      <<ChildWaiting(t) /\ ~Revoked(t) /\ ActiveChildren(t) # {}
                        /\ inputRevision[t] = childWait[t], "unavailable">>,
      <<ChildWaiting(t) /\ ~Revoked(t), "child_wait">>,
      <<\E r \in Requests : Pending(t) = {r} /\ OnlyPending(t, "tool_approval", r), "approval">>,
      <<\E r \in Requests : Pending(t) = {r} /\ OnlyPending(t, "question", r), "input">>,
      <<Pending(t) # {}, "unavailable">>,
      <<turn[t] = "paused" /\ cancelPending[t], "resume_cancelled">>,
      <<Running(t) /\ Cardinality(ModelsIn(t, {"retry_wait"})) = 1, "wait_retry">>,
      <<Cardinality(ModelsIn(t, {"unknown"})) = 1, "retry_model">>,
      <<ApprovedReady(t) # {}, "approved_ready">>,
      <<Running(t) /\ LatestIs(t, {"completed"}) /\ ~Handled(t), "committed_response">>,
      <<Running(t) /\ LatestIs(t, {"prepared"}), "prepared_model">>,
      <<Running(t) /\ LatestIs(t, {"failed"}) /\ model[Latest(t)].replaceable, "input_superseded">>,
      <<Running(t) /\ ModelsOf(t) = {} /\ InStatus(t, OpStatus \ {"absent"}) = {}, "first_dispatch">>,
      <<Running(t) /\ Handled(t), "next_step">>,
      <<TRUE, "unavailable">> >>

(* Which of them decides: the first that holds.                             *)
Route(t) ==
    LET rules == PlanRules(t)
        first == CHOOSE i \in DOMAIN rules : rules[i][1] /\ \A j \in 1..(i - 1) : ~rules[j][1]
    IN  rules[first][2]

(* RecoveryDecision.accepts: continue and retry stand for each other.       *)
Accepts(t, action) ==
    LET route == Route(t) IN
    CASE action = "abort" -> turn[t] \in Open /\ Quiescent(t)
      [] action \in {"continue", "retry"} ->
             \/ route \in {"child_wait", "resume_cancelled", "input", "wait_retry", "approved_ready",
                          "committed_response", "prepared_model", "input_superseded",
                          "first_dispatch", "next_step", "recover_owner", "retry_model"}
             \/ /\ route = "approval" /\ ModelsOf(t) # {}
                /\ model[Latest(t)].revision # inputRevision[t]
      [] action = "approve" -> route \in {"approval", "approved_ready"}
      [] OTHER -> route = "approval"

-----------------------------------------------------------------------------
(* Starting and resuming *)

(* A child is started by a tool call of its parent.                        *)
Start(t) ==
    /\ phase[t] = "off"
    /\ \/ StartTurn(t)
       \/ StartChild(t) /\ WorkersOf(Parent[t], {"ran"}) # {}
    /\ DriverStep(t, "loop")

Resume(t, action) ==
    /\ At(t, {"off"}) /\ turn[t] \in Open
    /\ action # "abort" =>  \* bound
           \A m \in ModelsIn(t, InFlight) : model[m].generation < MaxGeneration
    /\ Goto(t, "recover")
    /\ reply' = [reply EXCEPT ![t] = action]
    /\ UNCHANGED <<seen, worker, effects, vars>>

(* The lock is held, so whatever is in flight belongs to a lost driver.    *)
Recover(t) ==
    /\ At(t, {"recover"})
    /\ RecoverOwner(t, reply[t] = "abort")
    /\ DriverStep(t, "offer")

(* The recovery is refused as a whole: nothing was written.                *)
RecoveryRefused(t) ==
    /\ At(t, {"recover", "withdraw"})
    /\ reply[t] = "abort" \/ At(t, {"withdraw"})
    /\ AfterLostModels(t) = "running" /\ Quiescent(t) /\ ~CanClose(t)
    /\ DriverStep(t, "off")
    /\ UNCHANGED vars

(* The reply is applied to the plan read after the recovery.               *)
OfferRefused(t) ==
    /\ At(t, {"offer"})
    /\ \/ ~Accepts(t, reply[t])
       \/ /\ Route(t) = "resume_cancelled" /\ reply[t] # "abort"  \* offered, and refused
          /\ ModelsIn(t, InFlight) # {}
    /\ Goto(t, "off")
    /\ reply' = [reply EXCEPT ![t] = "none"]
    /\ UNCHANGED <<seen, worker, effects, vars>>

AbortTurn(t) ==
    /\ At(t, {"offer"}) /\ reply[t] = "abort"
    /\ Accepts(t, "abort")
    /\ CancelTurn(t)
    /\ Goto(t, "off")
    /\ reply' = [reply EXCEPT ![t] = "none"]
    /\ UNCHANGED <<seen, worker, effects>>

(* Where an accepted reply leads, and what it still has to say there.      *)
Applied(t) ==
    LET route == Route(t) IN
    CASE route = "approval" -> [to |-> "answer", reply |-> IF reply[t] = "continue" THEN "approve" ELSE reply[t]]
      [] route = "approved_ready" -> [to |-> "recheck", reply |-> "none"]
      [] route = "retry_model" -> [to |-> "loop", reply |-> "retry"]
      [] OTHER -> [to |-> "loop", reply |-> "none"]

Offer(t) ==
    LET route == Route(t) IN
    /\ At(t, {"offer"}) /\ reply[t] # "abort"
    /\ Accepts(t, reply[t])
    /\ \/ route = "child_wait" /\ ResumeChildWait(t)
       \/ route = "resume_cancelled" /\ ResumeCancelled(t)
       \/ route = "input" /\ \E r \in Requests : AnswerQuestion(t, r)
       \/ route \notin {"child_wait", "resume_cancelled", "input"} /\ UNCHANGED vars
    /\ Goto(t, Applied(t).to)
    /\ reply' = [reply EXCEPT ![t] = Applied(t).reply]
    /\ UNCHANGED <<seen, worker, effects>>

(* The loop of drive: where each plan leads.                               *)
Arm(route, permitted) ==
    CASE route \in {"terminal", "reconcile", "approval", "input", "unavailable"} -> "off"
      [] route = "cancel" -> "cancel"
      [] route = "committed_response" -> "consume"
      [] route = "wait_retry" -> "backoff"
      [] route = "prepared_model" -> "dispatch"
      [] route = "retry_model" -> IF permitted THEN "dispatch" ELSE "off"
      [] OTHER -> "request"

(* Broken: the plan to cancel is only reported.                            *)
ReportCancel(t) == IF Route(t) = "cancel" THEN "off" ELSE Arm(Route(t), reply[t] = "retry")

(* Broken: a route that the loop has no arm for.                           *)
RouteAsPhase(t) == Route(t)

Destination(t) == Arm(Route(t), reply[t] = "retry")

(* A new request starts from the input revision of this moment.            *)
Decide(t) ==
    /\ At(t, {"loop"})
    /\ Goto(t, Destination(t))
    /\ seen' = [seen EXCEPT ![t] = inputRevision[t]]
    /\ UNCHANGED <<reply, worker, effects, vars>>

-----------------------------------------------------------------------------
(* One model request *)

PrepareRequest(t) ==
    /\ At(t, {"request"})
    /\ seen[t] = inputRevision[t]
    /\ \E m \in Models : PrepareModel(t, m, seen[t])
    /\ DriverStep(t, "dispatch")

RequestOutdated(t) ==
    /\ At(t, {"request"})
    /\ seen[t] # inputRevision[t] \/ ~Running(t)
    /\ DriverStep(t, IF Running(t) THEN "loop" ELSE "off")
    /\ UNCHANGED vars

(* Steps, tokens or context are spent, a failure repeats, a preflight      *)
(* refused the request.                                                    *)
GiveUp(t) ==
    /\ \/ At(t, {"request", "failing", "after", "consume"})
       \/ At(t, {"dispatch"}) /\ LatestIs(t, {"prepared"}) /\ Attempt(Latest(t)) = "none"
    /\ FailTurn(t)
    /\ DriverStep(t, "off")

(* The user asked for another attempt of the request with unknown outcome. *)
PermitRetry(t) ==
    /\ At(t, {"dispatch"}) /\ reply[t] = "retry"
    /\ \E m \in ModelsIn(t, {"unknown"}) : RetryModel(m)
    /\ reply' = [reply EXCEPT ![t] = "none"]
    /\ UNCHANGED <<phase, seen, worker, effects>>

Dispatch(t) ==
    /\ At(t, {"dispatch"}) /\ LatestIs(t, {"prepared"})
    /\ DispatchModel(Latest(t))
    /\ DriverStep(t, "await")

(* The claim is refused: admission revoked, or newer input.                *)
DispatchRefused(t) ==
    LET m == Latest(t) IN
    /\ At(t, {"dispatch"}) /\ LatestIs(t, {"prepared"})
    /\ \/ AdmissionRevoked(t) /\ RequestCancellation(t)
       \/ /\ ~AdmissionRevoked(t) /\ model[m].revision # inputRevision[t]
          /\ IF Scheduled(m) THEN CancelScheduledRetry(m) ELSE SupersedePrepared(m)
    /\ DriverStep(t, "loop")

(* The deadline of the schedule passed between the wait and the dispatch.   *)
DispatchExpired(t) ==
    /\ At(t, {"dispatch"}) /\ LatestIs(t, {"prepared"})
    /\ FailUnstartedRetry(Latest(t))
    /\ DriverStep(t, "off")

(* What the provider did with the attempt.                                 *)
Provider(t) ==
    LET m == Latest(t)
        g == model[m].generation
    IN
    /\ At(t, {"await"})
    /\ \/ /\ \E calls \in Responses : CompleteModel(m, g, calls)
          /\ Goto(t, "loop")
       \/ FailureUnknown(m, g) /\ Goto(t, "off")
       \/ FailureScheduled(m, g) /\ Goto(t, "loop")
       \/ FailureFinal(m, g) /\ Goto(t, "off")
       \/ RejectModel(m, g, "released") /\ Goto(t, "failing")
       \/ RequestCancellation(t) /\ Goto(t, "acked")
    /\ UNCHANGED <<reply, seen, worker, effects>>

(* The provider acknowledged a cancellation.                               *)
EndAcknowledged(t) ==
    /\ At(t, {"acked"})
    /\ CancelModelAttempt(Latest(t), model[Latest(t)].generation)
    /\ DriverStep(t, "off")

-----------------------------------------------------------------------------
(* Waiting for a scheduled retry *)

RetryDue(t) ==
    /\ At(t, {"backoff"}) /\ ~cancelPending[t]
    /\ \E m \in ModelsIn(t, {"retry_wait"}) : PrepareScheduledRetry(m)
    /\ DriverStep(t, "dispatch")

(* Broken: the outdated schedule is left as it is.                          *)
RetryIgnored(t) ==
    /\ At(t, {"backoff"})
    /\ \E m \in ModelsIn(t, {"retry_wait"}) : model[m].revision # inputRevision[t]
    /\ DriverStep(t, "loop")
    /\ UNCHANGED vars

RetryWithdrawn(t) ==
    /\ At(t, {"backoff"})
    /\ \E m \in ModelsIn(t, {"retry_wait"}) :
          \/ AdmissionRevoked(t) /\ UNCHANGED vars
          \/ model[m].revision # inputRevision[t] /\ CancelScheduledRetry(m)
          \/ FailUnstartedRetry(m)
    /\ DriverStep(t, "loop")

-----------------------------------------------------------------------------
(* The committed response *)

CallsOf(t) == {o \in model[Latest(t)].calls : ~reported[o] /\ ~op[o].linked}

(* Calls that nothing started yet, or whose refusal was not recorded yet.   *)
StillToDo(t) ==
    {o \in CallsOf(t) :
        \/ op[o].status = "absent"
        \/ op[o].status \in {"prepared", "ready"} /\ op[o].claims = 0
        \/ op[o].status = "failed" /\ op[o].superseded /\ op[o].claims = 0
        \/ op[o].status = "denied" /\ model[Latest(t)].revision # inputRevision[t]}

(* The first call that is neither done nor to do stops the consumption.     *)
Stuck(t, o) == First(o, CallsOf(t) \ StillToDo(t))

ConsumeAnswer(t) ==
    /\ At(t, {"consume"})
    /\ model[Latest(t)].calls = {}
    /\ Goto(t, "finish")
    /\ seen' = [seen EXCEPT ![t] = model[Latest(t)].revision]
    /\ UNCHANGED <<reply, worker, effects, vars>>

(* A call that ended without its result would be put up for reconciliation; *)
(* outcome and result are one transaction, so no driver leaves one. Any     *)
(* other status raises, and the driver ends with the Turn unchanged.        *)
ConsumeRaises(t) ==
    /\ At(t, {"consume"})
    /\ \E o \in Ops : Stuck(t, o) /\ op[o].status \notin {"succeeded", "failed"}
    /\ DriverStep(t, "off")
    /\ UNCHANGED vars

ConsumeCalls(t) ==
    /\ At(t, {"consume"})
    /\ model[Latest(t)].calls # {} /\ CallsOf(t) = StillToDo(t)
    /\ Goto(t, IF CallsOf(t) = {} THEN "after" ELSE "batch")
    /\ worker' = [o \in Ops |-> IF o \in CallsOf(t) THEN "queued" ELSE worker[o]]
    /\ UNCHANGED <<reply, seen, effects, vars>>

AfterBatch(t) ==
    /\ At(t, {"after"})
    /\ DriverStep(t, IF Running(t) THEN "mark" ELSE "off")
    /\ UNCHANGED vars

(* The response needs no further step, whatever became of the Turn.         *)
Mark(t) ==
    /\ At(t, {"mark"})
    /\ ResponseHandled(Latest(t))
    /\ DriverStep(t, IF Running(t) THEN "loop" ELSE "off")

-----------------------------------------------------------------------------
(* Completion of the Turn with the answer it proposes *)

(* Broken: the newest input is not compared with the answered one.          *)
FinishStale(t) ==
    /\ At(t, {"finish"})
    /\ CompleteTurn(t, inputRevision[t])
    /\ DriverStep(t, "mark")

(* The gate accepts, asks for more work, asks the user or rejects.          *)
Finish(t) ==
    /\ At(t, {"finish"}) /\ seen[t] = inputRevision[t]
    /\ \/ CompleteTurn(t, seen[t])
       \/ UNCHANGED vars
       \/ \E r \in Requests : AskQuestion(t, r)
       \/ FailTurn(t)
       \/ ActiveChildren(t) # {} /\ PauseForChildren(t, seen[t])
    /\ DriverStep(t, "mark")

FinishOutdated(t) ==
    /\ At(t, {"finish"}) /\ seen[t] # inputRevision[t]
    /\ DriverStep(t, "mark")
    /\ UNCHANGED vars

FinishRevoked(t) ==
    /\ At(t, {"finish"}) /\ AdmissionRevoked(t)
    /\ RequestCancellation(t)
    /\ DriverStep(t, "loop")

-----------------------------------------------------------------------------
(* Cancellation that the driver itself carries out *)

BeginCancel(t) ==
    /\ At(t, {"cancel"})
    /\ RequestCancellation(t)
    /\ DriverStep(t, "withdraw")

WithdrawRetry(t) ==
    /\ At(t, {"withdraw"})
    /\ \E m \in ModelsOf(t) : CancelScheduledRetry(m)
    /\ DriverStep(t, "withdraw")

Withdraw(t) ==
    /\ At(t, {"withdraw"})
    /\ \A m \in ModelsOf(t) : ~Scheduled(m)
    /\ RecoverOwner(t, TRUE)
    /\ DriverStep(t, "closing")

(* The recovery before it left no call uncertain, so neither is refused.     *)
Close(t) ==
    /\ At(t, {"closing"})
    /\ \/ PauseTurn(t) /\ DriverStep(t, "closing")
       \/ CancelTurn(t) /\ DriverStep(t, "off")

-----------------------------------------------------------------------------
(* The task of the driver is cancelled, or its process ends *)

(* Started calls are drained first; a model in flight becomes unknown in    *)
(* the transaction that records the cancellation.                           *)
Stop(t) ==
    /\ Stops /\ phase[t] \notin {"off", "drain", "stopping", "stopped"}
    /\ IF At(t, Working) THEN Goto(t, "stopping") ELSE Goto(t, "stopped")
    /\ IF At(t, {"await"})
       THEN /\ SetModel(Latest(t), "unknown")
            /\ BudgetOutcome(Latest(t), model[Latest(t)].generation, "unknown")
            /\ InterruptedIfRunning(t)
            /\ cancelPending' = [cancelPending EXCEPT ![t] = TRUE]
            /\ UNCHANGED <<slotVars, interaction, childWait, toolVars>>
       ELSE UNCHANGED vars
    /\ UNCHANGED <<reply, seen, worker, effects>>

(* The claim had committed, but the provider was not called yet.            *)
StopBeforeProvider(t) ==
    /\ Stops /\ At(t, {"await"})
    /\ model' = [model EXCEPT ![Latest(t)].status = "failed"]
    /\ BudgetOutcome(Latest(t), model[Latest(t)].generation, "released")
    /\ cancelPending' = [cancelPending EXCEPT ![t] = TRUE]
    /\ UNCHANGED <<turn, slotVars, interaction, childWait, toolVars>>
    /\ DriverStep(t, "stopped")

(* A batch records the cancellation by itself, an approved call does not.   *)
Stopping(t) ==
    /\ At(t, {"stopping"})
    /\ worker = Idle(t)
    /\ RequestCancellation(t) \/ UNCHANGED vars
    /\ DriverStep(t, "stopped")

(* The session: request_turn_cancellation and pause_turn in one transaction.*)
Stopped(t) ==
    /\ At(t, {"stopped"})
    /\ IF OwnsSlot(t) /\ turn[t] \in Open
       THEN /\ cancelPending' = [cancelPending EXCEPT ![t] = TRUE]
            /\ IF Running(t) THEN Paused(t) ELSE UNCHANGED <<turn, childWait>>
            /\ UNCHANGED <<slotVars, interaction, untouchedByTurns>>
       ELSE UNCHANGED vars
    /\ DriverStep(t, "off")

Crash(t) ==
    /\ Crashes /\ phase[t] # "off"
    /\ Goto(t, "off")
    /\ reply' = [reply EXCEPT ![t] = "none"]
    /\ worker' = Idle(t)
    /\ UNCHANGED <<seen, effects, vars>>

(* The user settles an uncertain outcome, under the lock of the Thread.     *)
Reconcile(t) ==
    /\ At(t, {"off"})
    /\ \E status \in {"succeeded", "failed", "cancelled"} : ResolveReconciliation(t, status)
    /\ UNCHANGED <<modelVars, driverVars, worker, effects>>

(* Commands of other processes.                                             *)
Outside(t) ==
    /\ ReceiveInput(t) \/ RequestCancellation(t) \/ SettleChild(t)
    /\ UNCHANGED <<driverVars, worker, effects>>

-----------------------------------------------------------------------------
DriverOwnStep(t) ==
    \/ Recover(t) \/ RecoveryRefused(t) \/ OfferRefused(t) \/ AbortTurn(t) \/ Offer(t)
    \/ Decide(t) \/ PrepareRequest(t) \/ RequestOutdated(t) \/ PermitRetry(t)
    \/ Dispatch(t) \/ DispatchRefused(t) \/ Provider(t) \/ EndAcknowledged(t)
    \/ RetryDue(t) \/ RetryWithdrawn(t)
    \/ ConsumeAnswer(t) \/ ConsumeRaises(t) \/ ConsumeCalls(t)
    \/ AfterBatch(t) \/ Mark(t) \/ Finish(t) \/ FinishOutdated(t) \/ FinishRevoked(t)
    \/ BeginCancel(t) \/ WithdrawRetry(t) \/ Withdraw(t) \/ Close(t)
    \/ GiveUp(t) \/ DispatchExpired(t) \/ Stopping(t) \/ Stopped(t)
    \/ BatchStep(t)

OutsideStep(t) ==
    \/ Start(t) \/ Stop(t) \/ StopBeforeProvider(t) \/ Crash(t) \/ Reconcile(t) \/ Outside(t)
    \/ \E action \in Replies \ {"none"} : Resume(t, action)

RunnerNext ==
    \/ \E t \in Turns : DriverOwnStep(t) \/ OutsideStep(t)
    \/ \E o \in Ops : CallStep(o)

RunnerSpec == RunnerInit /\ [][RunnerNext]_runnerVars

(* The driver and its workers keep going: the provider answers or its      *)
(* client times out, a tool ends or is timed out, SQLite commits.          *)
Fairness ==
    /\ \A t \in Turns : WF_runnerVars(DriverOwnStep(t))
    /\ \A o \in Ops : WF_runnerVars(CallStep(o))

FairSpec == RunnerSpec /\ Fairness

-----------------------------------------------------------------------------
(* What the driver promises *)

(* An outside effect happens at most once and never before the durable      *)
(* claim that lets a later owner know of it: no crash, replay of the        *)
(* committed response or reconciliation repeats it (tool_orchestrator.py,   *)
(* responses.py _consume_response, ownership.py).                           *)
EffectAtMostOnce == \A o \in Ops : effects[o] <= op[o].claims /\ op[o].claims <= 1

(* Two calls with conflicting resources are never uncertain together: the   *)
(* second one waits for the outcome of the first, or is refused, even while *)
(* a lost call waits for its reconciliation (claim_tool_operation).         *)
ConflictsExclude ==
    \A o, p \in Ops :
        <<o, p>> \in Conflicts /\ o # p => ~(op[o].status \in Uncertain /\ op[p].status \in Uncertain)

(* An open matter holds its Turn: when a Turn ends no call of it may still  *)
(* be running or uncertain and no question of it is left for the user, and  *)
(* a Turn with a question never runs, however its calls were cut off        *)
(* (recovery.py, responses.py, the resolve commands of tool_ops.py).        *)
OpenMattersHoldTurn ==
    \A t \in Turns :
        /\ turn[t] \in Terminal => Quiescent(t)
        /\ Pending(t) # {} => turn[t] \notin Terminal /\ ~Running(t)

(* A Turn without a driver can be moved: a lost call can be put up for       *)
(* reconciliation, the only reconciliation answered, or the Turn aborted    *)
(* (recovery.py _recovery_decision, ownership.py recover_owner_loss).  The   *)
(* abort is refused where an invalidated approval left its call superseded, *)
(* which is what AbortIsHonoured is about.                                  *)
Movable(t) ==
    \/ InStatus(t, {"running"}) # {} /\ PendingOf(t, "tool_reconciliation") = {}
    \/ turn[t] = "paused" /\ Cardinality(PendingOf(t, "tool_reconciliation")) = 1
    \/ Quiescent(t) /\ (Running(t) => CanClose(t) \/ InStatus(t, {"superseded"}) # {})

NeverStranded ==
    \A t \in Turns : phase[t] = "off" /\ turn[t] \in Open => Movable(t)

(* "Reconcile one uncertain effect at a time" (recover_owner_loss): a Turn  *)
(* never waits for two reconciliations, which no command could answer.      *)
OneReconciliationAtATime ==
    \A t \in Turns : Cardinality(PendingOf(t, "tool_reconciliation")) <= 1

(* A lost driver is replaced from the recorded facts at any boundary: where *)
(* the plan offers to continue with a committed response, the response can  *)
(* be consumed or its missing result asked for (runtime-recovery.md).       *)
ContinueIsHonoured ==
    \A t \in Turns :
        phase[t] = "off" /\ Route(t) = "committed_response" =>
            \A o \in Ops : Stuck(t, o) => op[o].status \in {"succeeded", "failed"}

(* "abort cancels the Turn" (runtime-recovery.md): where the plan offers an *)
(* abort of a running Turn, the owner recovery that precedes it succeeds.   *)
AbortIsHonoured ==
    \A t \in Turns :
        phase[t] = "off" /\ Running(t) /\ Accepts(t, "abort") => CanClose(t)

(* What the recovery plan offers for a Turn without driver can be carried   *)
(* out (runtime-recovery.md, recovery.py _recovery_decision).               *)
OffersAreHonoured == ContinueIsHonoured /\ AbortIsHonoured

(* The driver always comes to an end of its own, however much input,        *)
(* cancellation and failure it meets on the way.                            *)
DriverReturns == \A t \in Turns : phase[t] # "off" ~> phase[t] = "off"

(* A cancellation of a Turn that is being advanced, its own or an           *)
(* ancestor's, stops it: the driver does not leave it running.              *)
Advancing(t) == phase[t] \notin {"off", "recover", "offer"}
RevocationStops ==
    \A t \in Turns : Advancing(t) /\ AdmissionRevoked(t) ~> ~Running(t)

-----------------------------------------------------------------------------
(* The driver implements what the user may rely on *)

ConversationStatus(s) ==
    CASE s = "absent" -> "new"
      [] s \in Open -> "open"
      [] s = "completed" -> "completed"
      [] OTHER -> "stopped"

Covered(t) ==
    LET revisions == {model[m].revision : m \in ModelsIn(t, {"completed"})}
    IN  CHOOSE r \in revisions \cup {0} : \A q \in revisions : q <= r

Promise == INSTANCE Conversation WITH
    Actions <- Ops,
    By <- TurnOf,
    status <- [t \in Turns |-> ConversationStatus(turn[t])],
    heard <- inputRevision,
    answered <- [t \in Turns |-> Covered(t)],
    acted <- effects

(* Every step of ledger, driver and outside world is a step of Conversation *)
(* or changes nothing a user sees.                                          *)
KeepsPromise == Promise!Spec
=============================================================================
