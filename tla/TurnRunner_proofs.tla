------------------------- MODULE TurnRunner_proofs -------------------------
(***************************************************************************)
(* The driver of a Turn, for any sets of Turns, calls and requests: every  *)
(* step of it is a command of the ledger or ends its own work, so the      *)
(* promises of the ledger hold under it, and what it promises beyond them  *)
(* holds whatever input, answers, cancellations and crashes come between.  *)
(***************************************************************************)
EXTENDS TurnRunner, TurnLedgerTools_proofs, FiniteSetTheorems

-----------------------------------------------------------------------------
(* The recovery plan *)

(* In what order _recovery_decision decides.                                *)
LEMMA RuleNames ==
    ASSUME NEW t \in Turns
    PROVE  LET name(i) == PlanRules(t)[i][2] IN
           /\ DOMAIN PlanRules(t) = 1..22
           /\ name(1) = "terminal" /\ name(2) = "reconcile" /\ name(3) = "recover_owner"
           /\ name(4) = "cancel" /\ name(5) = "unavailable" /\ name(6) = "cancel"
           /\ name(7) = "unavailable" /\ name(8) = "unavailable" /\ name(9) = "child_wait"
           /\ name(10) = "approval" /\ name(11) = "input" /\ name(12) = "unavailable"
           /\ name(13) = "resume_cancelled" /\ name(14) = "wait_retry" /\ name(15) = "retry_model"
           /\ name(16) = "approved_ready" /\ name(17) = "committed_response"
           /\ name(18) = "prepared_model" /\ name(19) = "input_superseded"
           /\ name(20) = "first_dispatch" /\ name(21) = "next_step" /\ name(22) = "unavailable"
  <1>1. PlanRules(t)[1][2] = "terminal" /\ PlanRules(t)[2][2] = "reconcile"
        /\ PlanRules(t)[3][2] = "recover_owner" /\ PlanRules(t)[4][2] = "cancel"
        /\ PlanRules(t)[5][2] = "unavailable" /\ PlanRules(t)[6][2] = "cancel"
        /\ PlanRules(t)[7][2] = "unavailable" /\ PlanRules(t)[8][2] = "unavailable"
        /\ PlanRules(t)[9][2] = "child_wait" /\ PlanRules(t)[10][2] = "approval"
        /\ PlanRules(t)[11][2] = "input"
    BY DEF PlanRules
  <1>2. PlanRules(t)[12][2] = "unavailable"
        /\ PlanRules(t)[13][2] = "resume_cancelled" /\ PlanRules(t)[14][2] = "wait_retry"
        /\ PlanRules(t)[15][2] = "retry_model" /\ PlanRules(t)[16][2] = "approved_ready"
        /\ PlanRules(t)[17][2] = "committed_response" /\ PlanRules(t)[18][2] = "prepared_model"
        /\ PlanRules(t)[19][2] = "input_superseded" /\ PlanRules(t)[20][2] = "first_dispatch"
        /\ PlanRules(t)[21][2] = "next_step" /\ PlanRules(t)[22][2] = "unavailable"
    BY DEF PlanRules
  <1>3. DOMAIN PlanRules(t) = 1..22
    BY DEF PlanRules
  <1> QED BY <1>1, <1>2, <1>3

(* Of 22 rules whose last one holds some rule is the first that holds.      *)
LEMMA FirstOfRules ==
    ASSUME NEW P, P[22]
    PROVE  \E i \in 1..22 : P[i] /\ \A j \in 1..(i - 1) : ~P[j]
  <1> SUFFICES ASSUME \A i \in 1..22 : P[i] => \E j \in 1..(i - 1) : P[j]
               PROVE  FALSE
    OBVIOUS
  <1>1. \A i \in 1..5 : ~P[i]
    OBVIOUS
  <1>2. \A i \in 1..10 : ~P[i]
    BY <1>1
  <1>3. \A i \in 1..15 : ~P[i]
    BY <1>2
  <1>4. \A i \in 1..20 : ~P[i]
    BY <1>3
  <1> QED BY <1>4

LEMMA RouteIsRule ==
    ASSUME NEW t \in Turns
    PROVE  \E k \in 1..22 : /\ Route(t) = PlanRules(t)[k][2]
                            /\ PlanRules(t)[k][1]
                            /\ \A j \in 1..(k - 1) : ~PlanRules(t)[j][1]
  <1> DEFINE rules == PlanRules(t)
  <1>1. PICK i \in 1..22 : rules[i][1] /\ \A j \in 1..(i - 1) : ~rules[j][1]
    <2>1. rules[22][1]
      BY DEF PlanRules
    <2> DEFINE P == [i \in 1..22 |-> rules[i][1]]
    <2> HIDE DEF rules
    <2> QED BY <2>1, FirstOfRules
  <1> QED BY <1>1, RuleNames DEF Route

(* What the routes say of the ledger, where a later step relies on it.      *)
LEMMA RouteMeans ==
    ASSUME NEW t \in Turns
    PROVE  /\ PendingOf(t, "tool_reconciliation") # {} => Route(t) \in {"terminal", "reconcile"}
           /\ Route(t) = "committed_response" => LatestIs(t, {"completed"})
  <1>1. PICK k \in 1..22 : /\ Route(t) = PlanRules(t)[k][2]
                           /\ PlanRules(t)[k][1]
                           /\ \A j \in 1..(k - 1) : ~PlanRules(t)[j][1]
    BY RouteIsRule
  <1>2. PendingOf(t, "tool_reconciliation") # {} => PlanRules(t)[2][1]
    BY DEF PlanRules
  <1>3. PlanRules(t)[17][1] => LatestIs(t, {"completed"})
    BY DEF PlanRules
  <1>4. Route(t) = "committed_response" => k = 17
    <2>1. Route(t) = PlanRules(t)[k][2]
      BY <1>1
    <2>2. \A i \in 1..16 : PlanRules(t)[i][2] # "committed_response"
      <3>1. \A i \in 1..8 : PlanRules(t)[i][2] # "committed_response"
        BY RuleNames
      <3>2. \A i \in 9..16 : PlanRules(t)[i][2] # "committed_response"
        BY RuleNames
      <3> QED BY <3>1, <3>2
    <2>3. \A i \in 18..22 : PlanRules(t)[i][2] # "committed_response"
      BY RuleNames
    <2>4. k \in 1..16 \/ k = 17 \/ k \in 18..22
      BY <1>1
    <2>5. CASE k \in 1..16
      <3>1. PlanRules(t)[k][2] # "committed_response"
        BY <2>2, <2>5
      <3> QED BY <2>1, <3>1
    <2>6. CASE k \in 18..22
      <3>1. PlanRules(t)[k][2] # "committed_response"
        BY <2>3, <2>6
      <3> QED BY <2>1, <3>1
    <2> QED BY <2>4, <2>5, <2>6
  <1>5. PendingOf(t, "tool_reconciliation") # {} => k <= 2
    BY <1>1, <1>2
  <1> QED BY <1>1, <1>3, <1>4, <1>5, RuleNames

-----------------------------------------------------------------------------
(* The newest request of a Turn *)

NewestIs(t, S) == \E m \in Models : IsLatest(t, m) /\ model[m].status \in S

(* Requests are numbered in order, each Turn that made one has a newest,    *)
(* each was built from a message of the user, and a response only makes     *)
(* calls of its own Turn.                                                   *)
ModelsInOrder ==
    /\ \A m, n \in Models : n < m /\ model[m].status # "absent" => model[n].status # "absent"
    /\ \A t \in Turns : ModelsOf(t) # {} => \E m \in Models : IsLatest(t, m)
    /\ \A m \in Models : model[m].status # "absent" => model[m].revision > 0
    /\ \A m \in Models : \A o \in model[m].calls : TurnOf[o] = model[m].turn

LEMMA NewestModel ==
    ASSUME ModelsInOrder, NEW t \in Turns, ModelsOf(t) # {}
    PROVE  /\ Latest(t) \in ModelsOf(t) /\ Latest(t) \in Models /\ IsLatest(t, Latest(t))
           /\ \A m \in Models : IsLatest(t, m) => m = Latest(t)
  <1>1. \E m \in ModelsOf(t) : IsLatest(t, m)
    BY DEF ModelsInOrder, IsLatest
  <1>2. Latest(t) \in ModelsOf(t) /\ IsLatest(t, Latest(t))
    BY <1>1 DEF Latest
  <1>3. ASSUME NEW m \in Models, IsLatest(t, m) PROVE m = Latest(t)
    <2>1. m <= Latest(t) /\ Latest(t) <= m
      BY <1>2, <1>3 DEF IsLatest
    <2>2. Latest(t) \in Models
      BY <1>2 DEF ModelsOf
    <2>3. m \in Nat /\ Latest(t) \in Nat
      BY <2>2, ModelConstants
    <2> QED BY <2>1, <2>3
  <1> QED BY <1>2, <1>3 DEF ModelsOf

LEMMA LatestIsNewest ==
    ASSUME ModelsInOrder, NEW t \in Turns, NEW S
    PROVE  /\ LatestIs(t, S) <=> NewestIs(t, S)
           /\ NewestIs(t, S) => Latest(t) \in ModelsOf(t) /\ model[Latest(t)].status \in S
  <1>1. NewestIs(t, S) => ModelsOf(t) # {}
    BY DEF NewestIs, IsLatest
  <1>2. CASE ModelsOf(t) # {}
    BY <1>2, NewestModel DEF LatestIs, NewestIs
  <1> QED BY <1>1, <1>2 DEF LatestIs

(* Where the driver awaits, and the request it awaits or consumes there.    *)
Stage(t) ==
    /\ phase[t] \in {"await", "acked"} => NewestIs(t, {"dispatched"})
    /\ phase[t] \in {"consume", "batch", "after", "finish", "mark"} => NewestIs(t, {"completed"})
    /\ phase[t] = "finish" => seen[t] > 0

-----------------------------------------------------------------------------
(* Every step is a command of the ledger, or the last words of a driver that *)
(* was cancelled.                                                           *)

TurnCommand(t) ==
    \/ TurnStep(t) \/ AnswerStep(t)
    \/ \E m \in ModelsOf(t) : ModelStep(m)
    \/ \E m \in Models, revision \in 1..inputRevision[t] : PrepareModel(t, m, revision)
    \/ UNCHANGED vars

LastWords(t) == (Stop(t) /\ phase[t] = "await") \/ StopBeforeProvider(t) \/ Stopped(t)

CallCommand(o) ==
    /\ \/ PrepareOperation(o) \/ ReadyOperation(o) \/ ClaimOperation(o)
       \/ RecordResult(o) \/ RecordRefusal(o)
       \/ \E superseded \in BOOLEAN : RejectReady(o, superseded)
       \/ \E status \in {"succeeded", "failed"} : CommitResult(o, status)
       \/ \E r \in Requests : RequestApproval(o, r) \/ CommitUnknownResult(o, r)
    /\ UNCHANGED modelVars

LEMMA CallStepCommands ==
    ASSUME NEW o \in Ops, CallStep(o)
    PROVE  CallCommand(o) \/ RequestCancellation(TurnOf[o]) \/ UNCHANGED vars
  <1> USE DEF CallCommand, WorkerStep
  <1>1. CASE PrepareAllowed(o) BY <1>1 DEF PrepareAllowed
  <1>2. CASE PrepareDenied(o) BY <1>2 DEF PrepareDenied
  <1>3. CASE AskingTooLate(o) BY <1>3 DEF AskingTooLate
  <1>4. CASE Discard(o) BY <1>4 DEF Discard
  <1>5. CASE Claim(o) BY <1>5 DEF Claim
  <1>6. CASE ClaimRefused(o) BY <1>6 DEF ClaimRefused
  <1>7. CASE RejectRevoked(o) BY <1>7 DEF RejectRevoked
  <1>8. CASE RunEffect(o) BY <1>8 DEF RunEffect
  <1>9. CASE RefuseLive(o) BY <1>9 DEF RefuseLive
  <1>10. CASE CommitKnown(o) BY <1>10 DEF CommitKnown
  <1>11. CASE RecordRejection(o) BY <1>11 DEF RecordRejection
  <1>12. CASE ResultRefused(o) BY <1>12 DEF ResultRefused
  <1>13. CASE ReportDenied(o) BY <1>13 DEF ReportDenied
  <1>14. ASSUME NEW r \in Requests, PrepareAsking(o, r) PROVE CallCommand(o)
    BY <1>14 DEF PrepareAsking
  <1>15. ASSUME NEW r \in Requests, CommitUncertain(o, r) PROVE CallCommand(o)
    BY <1>15 DEF CommitUncertain
  <1>16. ASSUME NEW r \in Requests, AskAnotherScope(o, r) PROVE CallCommand(o)
    BY <1>16 DEF AskAnotherScope
  <1> HIDE DEF CallCommand
  <1> QED
    BY <1>1, <1>2, <1>3, <1>4, <1>5, <1>6, <1>7, <1>8, <1>9, <1>10, <1>11, <1>12, <1>13, <1>14, <1>15, <1>16
    DEF CallStep

LEMMA BatchCommands ==
    ASSUME NEW t \in Turns, BatchStep(t)
    PROVE  AnswerStep(t) \/ UNCHANGED vars
  <1>1. CASE AnswerApproval(t)
    <2>1. ASSUME NEW decision \in {"approve", "deny"}, NEW recheck \in BOOLEAN,
                 ResolveApproval(t, decision, recheck), UNCHANGED modelVars
          PROVE  AnswerStep(t)
      BY <2>1 DEF AnswerStep
    <2> QED BY <1>1, <2>1 DEF AnswerApproval
  <1>2. CASE AnswerOutdated(t)
    BY <1>2 DEF AnswerOutdated, AnswerStep, vars
  <1>3. CASE RecoverOutdated(t)
    BY <1>3 DEF RecoverOutdated, AnswerStep
  <1>4. CASE NextSegment(t) \/ EndBatch(t) \/ StartGroup(t) \/ DropUnclaimed(t) \/ Drained(t)
             \/ RecoverApproved(t) \/ EndSingle(t)
    BY <1>4 DEF NextSegment, EndBatch, StartGroup, DropUnclaimed, Drained, RecoverApproved, EndSingle
  <1> QED BY <1>1, <1>2, <1>3, <1>4 DEF BatchStep

LEMMA OutsideCommands ==
    ASSUME NEW t \in Turns, OutsideStep(t), ~LastWords(t)
    PROVE  TurnCommand(t)
  <1> USE DEF TurnCommand
  <1>1. CASE Start(t) BY <1>1 DEF Start, TurnStep
  <1>2. CASE Stop(t) BY <1>2 DEF Stop, LastWords, At
  <1>3. CASE Crash(t) BY <1>3 DEF Crash
  <1>4. CASE Reconcile(t) BY <1>4 DEF Reconcile, AnswerStep
  <1>5. CASE Outside(t) BY <1>5 DEF Outside, TurnStep
  <1>6. ASSUME NEW action, Resume(t, action) PROVE TurnCommand(t)
    BY <1>6 DEF Resume, vars
  <1> HIDE DEF TurnCommand
  <1> QED BY <1>1, <1>2, <1>3, <1>4, <1>5, <1>6 DEF OutsideStep, LastWords

(* The model commands of the driver are about the newest request, or a      *)
(* request in the state its guard names.                                    *)
LEMMA RequestCommands ==
    ASSUME TypeOK, ModelInv, ModelsInOrder, NEW t \in Turns, Stage(t),
           \/ PrepareRequest(t) \/ PermitRetry(t) \/ Dispatch(t) \/ DispatchRefused(t)
           \/ DispatchExpired(t) \/ Provider(t) \/ EndAcknowledged(t) \/ RetryDue(t)
           \/ RetryWithdrawn(t) \/ Mark(t) \/ WithdrawRetry(t)
    PROVE  TurnCommand(t)
  <1> DEFINE new == Latest(t)
  <1> USE DEF TurnCommand
  <1>a. \A S : NewestIs(t, S) \/ LatestIs(t, S) => new \in ModelsOf(t) /\ model[new].status \in S
    BY LatestIsNewest
  <1>b. \A S : ModelsIn(t, S) \subseteq ModelsOf(t)
    BY DEF ModelsIn
  <1>c. ASSUME NEW m \in ModelsOf(t), model[m].status = "dispatched"
        PROVE  model[m].generation \in Generations
    BY <1>c DEF ModelInv, ModelsOf
  <1> HIDE DEF new
  <1>1. CASE PrepareRequest(t)
    <2>1. PICK m \in Models : PrepareModel(t, m, seen[t])
      BY <1>1 DEF PrepareRequest
    <2> QED BY <2>1 DEF PrepareModel
  <1>2. CASE PermitRetry(t)
    BY <1>2, <1>b DEF PermitRetry, ModelStep
  <1>3. CASE Dispatch(t)
    BY <1>3, <1>a DEF Dispatch, new, ModelStep
  <1>4. CASE DispatchRefused(t)
    <2>1. new \in ModelsOf(t)
      BY <1>4, <1>a DEF DispatchRefused
    <2> QED BY <1>4, <2>1 DEF DispatchRefused, new, ModelStep, TurnStep
  <1>5. CASE DispatchExpired(t)
    BY <1>5, <1>a DEF DispatchExpired, new, ModelStep
  <1>6. CASE Provider(t)
    <2>1. new \in ModelsOf(t) /\ model[new].status = "dispatched"
      BY <1>6, <1>a DEF Provider, At, Stage
    <2>2. PICK g \in Generations : g = model[new].generation
      BY <2>1, <1>c
    <2>3. \/ \E calls \in Responses : CompleteModel(new, g, calls)
          \/ FailureUnknown(new, g) \/ FailureScheduled(new, g) \/ FailureFinal(new, g)
          \/ RejectModel(new, g, "released") \/ RequestCancellation(t)
      BY <1>6, <2>2 DEF Provider, new
    <2>4. ModelStep(new) \/ TurnStep(t)
      BY <2>3, RunnerInputs DEF ModelStep, TurnStep
    <2> QED BY <2>1, <2>4
  <1>7. CASE EndAcknowledged(t)
    <2>1. new \in ModelsOf(t) /\ model[new].status = "dispatched"
      BY <1>7, <1>a DEF EndAcknowledged, At, Stage
    <2>2. CancelModelAttempt(new, model[new].generation) /\ model[new].generation \in Generations
      BY <1>7, <2>1, <1>c DEF EndAcknowledged, new
    <2> QED BY <2>1, <2>2 DEF ModelStep
  <1>8. CASE RetryDue(t)
    BY <1>8, <1>b DEF RetryDue, ModelStep
  <1>9. CASE RetryWithdrawn(t)
    BY <1>9, <1>b DEF RetryWithdrawn, ModelStep
  <1>10. CASE Mark(t)
    BY <1>10, <1>a DEF Mark, new, ModelStep, At, Stage
  <1>11. CASE WithdrawRetry(t)
    BY <1>11 DEF WithdrawRetry, ModelStep
  <1> HIDE DEF TurnCommand
  <1> QED BY <1>1, <1>2, <1>3, <1>4, <1>5, <1>6, <1>7, <1>8, <1>9, <1>10, <1>11

LEMMA DriverCommands ==
    ASSUME TypeOK, ModelInv, ModelsInOrder, NEW t \in Turns, Stage(t), DriverOwnStep(t), ~LastWords(t)
    PROVE  TurnCommand(t)
  <1> USE DEF TurnCommand
  <1>1. CASE Recover(t) BY <1>1 DEF Recover, TurnStep
  <1>2. CASE RecoveryRefused(t) BY <1>2 DEF RecoveryRefused
  <1>3. CASE OfferRefused(t) BY <1>3 DEF OfferRefused, vars
  <1>4. CASE AbortTurn(t) BY <1>4 DEF AbortTurn, TurnStep
  <1>5. CASE Offer(t)
    <2>1. \/ ResumeChildWait(t) \/ ResumeCancelled(t) \/ UNCHANGED vars
          \/ \E r \in Requests : AnswerQuestion(t, r)
      BY <1>5 DEF Offer
    <2> QED BY <2>1 DEF TurnStep
  <1>6. CASE Decide(t) BY <1>6 DEF Decide, vars
  <1>7. CASE RequestOutdated(t) BY <1>7 DEF RequestOutdated
  <1>8. CASE ConsumeAnswer(t) \/ ConsumeRaises(t) \/ ConsumeCalls(t) \/ AfterBatch(t) \/ FinishOutdated(t)
    BY <1>8 DEF ConsumeAnswer, ConsumeRaises, ConsumeCalls, AfterBatch, FinishOutdated, vars
  <1>9. CASE Finish(t)
    <2>1. seen[t] = inputRevision[t] /\ seen[t] > 0 /\ inputRevision[t] \in Nat
      BY <1>9 DEF Finish, Stage, At, TypeOK, TurnTypeOK
    <2>2. seen[t] \in 1..inputRevision[t]
      BY <2>1
    <2>3. \/ CompleteTurn(t, seen[t]) \/ PauseForChildren(t, seen[t]) \/ FailTurn(t) \/ UNCHANGED vars
          \/ \E r \in Requests : AskQuestion(t, r)
      BY <1>9 DEF Finish
    <2> QED BY <2>2, <2>3 DEF TurnStep
  <1>10. CASE FinishRevoked(t) \/ BeginCancel(t) \/ Withdraw(t) \/ Close(t) \/ GiveUp(t) \/ Stopping(t)
    BY <1>10 DEF FinishRevoked, BeginCancel, Withdraw, Close, GiveUp, Stopping, TurnStep
  <1>11. CASE BatchStep(t) BY <1>11, BatchCommands
  <1> HIDE DEF TurnCommand
  <1> QED
    BY <1>1, <1>2, <1>3, <1>4, <1>5, <1>6, <1>7, <1>8, <1>9, <1>10, <1>11, RequestCommands
    DEF DriverOwnStep, LastWords

-----------------------------------------------------------------------------
(* The ledger under the driver *)

LedgerInv == TypeOK /\ ToolInv /\ ModelInv /\ SlotNamesOpenTurn /\ CompletedLeavesNoChild

LEMMA LedgerStep ==
    ASSUME LedgerInv, [Next]_vars
    PROVE  LedgerInv'
  BY StepType, StepInv, StepMoney, SlotStep, ChildStep DEF LedgerInv

LEMMA CommandsAreNext ==
    /\ \A t \in Turns : TurnCommand(t) => [Next]_vars
    /\ \A o \in Ops : CallCommand(o) => ToolStep(o) /\ [Next]_vars
  <1>1. ASSUME NEW t \in Turns, TurnCommand(t) PROVE [Next]_vars
    <2>1. ModelsOf(t) \subseteq Models
      BY DEF ModelsOf
    <2>2. ASSUME NEW m \in Models, NEW revision \in 1..inputRevision[t], PrepareModel(t, m, revision)
          PROVE  ModelStep(m)
      BY <2>2 DEF ModelStep
    <2> QED BY <1>1, <2>1, <2>2 DEF TurnCommand, Next
  <1>2. ASSUME NEW o \in Ops, CallCommand(o) PROVE ToolStep(o) /\ [Next]_vars
    <2>1. ToolStep(o)
      BY <1>2 DEF CallCommand, ToolStep
    <2> QED BY <2>1 DEF Next
  <1> QED BY <1>1, <1>2

(* The request that is awaited.                                             *)
LEMMA AwaitedModel ==
    ASSUME LedgerInv, ModelsInOrder, NEW t \in Turns, Stage(t), phase[t] \in {"await", "acked"}
    PROVE  /\ Latest(t) \in Models /\ model[Latest(t)].turn = t
           /\ model[Latest(t)].status = "dispatched"
           /\ model[Latest(t)].generation \in Generations
  BY LatestIsNewest DEF Stage, ModelsOf, LedgerInv, ModelInv

(* The awaited attempt ends as unknown or failed.                           *)
LEMMA AwaitedEnds ==
    ASSUME TypeOK, ModelInv, NEW m \in Models, NEW g, Current(m, g),
           NEW s \in {"unknown", "failed"}, NEW outcome \in {"unknown", "released"},
           model' = [model EXCEPT ![m].status = s], BudgetOutcome(m, g, outcome)
    PROVE  ModelTypeOK' /\ ModelInv'
  <1>a. /\ model \in [Models -> ModelRow] /\ model[m] \in ModelRow
        /\ reservation \in [Models -> [Generations -> ReservationStatus]]
        /\ s \in ModelStatus /\ outcome \in ReservationStatus
        /\ outcome \in {"unknown", "released", "settled"}
    BY DEF TypeOK, ModelTypeOK, ModelStatus, InFlight, ReservationStatus
  <1>1. reservation' \in [Models -> [Generations -> ReservationStatus]]
    BY <1>a, BudgetOutcomeType
  <1>2. /\ model' \in [Models -> ModelRow]
        /\ model'[m] = [model[m] EXCEPT !.status = s]
        /\ \A n \in Models \ {m} : model'[n] = model[n]
    BY <1>a, ModelRowType
  <1>3. \A n \in Models : AttemptInv(n)
    BY InvByAttempt
  <1>4. AttemptInv(m)'
    <2>1. /\ model'[m].status \notin {"absent", "prepared", "dispatched"}
          /\ model'[m].generation = g
          /\ model'[m].turn = model[m].turn
      BY <1>2, <1>a DEF ModelRow, Current
    <2> QED BY <2>1, <1>3, <1>a, OutcomeAttempt
  <1>5. ASSUME NEW n \in Models \ {m} PROVE AttemptInv(n)'
    <2>1. reservation'[n] = reservation[n]
      BY <1>a DEF BudgetOutcome
    <2> QED BY <2>1, <1>2, <1>3, FrameAttempt
  <1>6. ModelInv'
    BY <1>4, <1>5 DEF ModelInv, AttemptInv, DispatchedOnlyIfAwaited
  <1> QED BY <1>1, <1>2, <1>6 DEF ModelTypeOK

(* A cancelled driver leaves Turns, slots and budget as a failed one does.  *)
LEMMA LastWordsKeepLedger ==
    ASSUME LedgerInv, ModelsInOrder, NEW t \in Turns, Stage(t), LastWords(t)
    PROVE  LedgerInv'
  <1> DEFINE new == Latest(t)
  <1>a. /\ turn \in [Turns -> TurnStatus] /\ cancelPending \in [Turns -> BOOLEAN]
        /\ childWait \in [Turns -> Nat] /\ TypeOK /\ ModelInv /\ ToolInv
        /\ {"interrupted", "paused"} \subseteq TurnStatus
        /\ {"interrupted", "paused"} \subseteq Open
    BY DEF LedgerInv, TypeOK, TurnTypeOK, TurnStatus, Open
  <1> DEFINE Kept == /\ UNCHANGED <<slotVars, interaction, toolVars>>
                     /\ cancelPending' \in [Turns -> BOOLEAN]
                     /\ childWait' \in [Turns -> Nat]
                     /\ \/ turn' = turn
                        \/ turn' = [turn EXCEPT ![t] = "interrupted"]
                        \/ turn' = [turn EXCEPT ![t] = "paused"]
  <1>1. Kept
    <2>1. CASE Stop(t) /\ phase[t] = "await"
      BY <2>1, <1>a DEF Stop, At, InterruptedIfRunning
    <2>2. CASE StopBeforeProvider(t)
      BY <2>2, <1>a DEF StopBeforeProvider
    <2>3. CASE Stopped(t)
      <3>1. \/ UNCHANGED vars
            \/ /\ cancelPending' = [cancelPending EXCEPT ![t] = TRUE]
               /\ Paused(t) \/ UNCHANGED <<turn, childWait>>
               /\ UNCHANGED <<slotVars, interaction, untouchedByTurns>>
        BY <2>3 DEF Stopped
      <3>2. CASE UNCHANGED vars
        BY <3>2, <1>a DEF vars, turnVars
      <3>3. ASSUME cancelPending' = [cancelPending EXCEPT ![t] = TRUE],
                   Paused(t) \/ UNCHANGED <<turn, childWait>>,
                   UNCHANGED <<slotVars, interaction, untouchedByTurns>>
            PROVE  Kept
        <4>1. cancelPending' \in [Turns -> BOOLEAN]
          BY <3>3, <1>a
        <4>2. childWait' \in [Turns -> Nat]
          BY <3>3, <1>a DEF Paused
        <4> QED BY <3>3, <4>1, <4>2 DEF Paused, SetTurn, untouchedByTurns
      <3> QED BY <3>1, <3>2, <3>3
    <2> QED BY <2>1, <2>2, <2>3 DEF LastWords
  <1>2. ModelTypeOK' /\ ModelInv'
    <2>1. CASE UNCHANGED modelVars
      <3>1. ModelTypeOK'
        BY <2>1, <1>a DEF modelVars, TypeOK, ModelTypeOK
      <3>2. \A m \in Models : AttemptInv(m)'
        BY <2>1, <1>a, FrameAttempt, InvByAttempt DEF modelVars
      <3>3. InvByAttempt!1' <=> InvByAttempt!2'
        BY DEF ModelInv, AttemptInv, DispatchedOnlyIfAwaited
      <3> QED BY <3>1, <3>2, <3>3
    <2>2. ASSUME NEW s \in {"unknown", "failed"}, NEW outcome \in {"unknown", "released"},
                 phase[t] = "await",
                 model' = [model EXCEPT ![new].status = s],
                 BudgetOutcome(new, model[new].generation, outcome)
          PROVE  ModelTypeOK' /\ ModelInv'
      <3>1. new \in Models /\ Current(new, model[new].generation)
        BY <2>2, AwaitedModel DEF Current
      <3> QED BY <2>2, <3>1, <1>a, AwaitedEnds
    <2>3. CASE Stop(t) /\ phase[t] = "await"
      BY <2>2, <2>3 DEF Stop, At, SetModel, new
    <2>4. CASE StopBeforeProvider(t)
      BY <2>2, <2>4 DEF StopBeforeProvider, At, new
    <2>5. CASE Stopped(t)
      BY <2>1, <2>5 DEF Stopped, vars, untouchedByTurns
    <2> QED BY <2>3, <2>4, <2>5 DEF LastWords
  <1>3. TypeOK'
    BY <1>1, <1>2, <1>a DEF TypeOK, TurnTypeOK, ToolTypeOK, slotVars, toolVars
  <1>4. ToolInv'
    BY <1>1, <1>a, FrameKeepsInv DEF toolVars
  <1>5. Reopens /\ Neutral
    BY <1>1, <1>a DEF Reopens, Neutral, slotVars
  <1>6. SlotNamesOpenTurn' /\ CompletedLeavesNoChild'
    BY <1>5, <1>a, TurnConstants
    DEF LedgerInv, TypeOK, TurnTypeOK, Reopens, Neutral, SlotNamesOpenTurn, CompletedLeavesNoChild
  <1> QED BY <1>2, <1>3, <1>4, <1>6 DEF LedgerInv

-----------------------------------------------------------------------------
(* What a step leaves of the requests *)

SameRequests(t) ==
    \A m \in Models :
        /\ model'[m].turn = model[m].turn /\ model'[m].revision = model[m].revision
        /\ model'[m].status = "absent" <=> model[m].status = "absent"
        /\ model[m].turn # t => model'[m] = model[m]
        /\ model'[m].calls = model[m].calls \/ \A o \in model'[m].calls : TurnOf[o] = t

NewRequest(t) == \E m \in Models, revision \in 1..inputRevision[t] : PrepareModel(t, m, revision)

LEMMA ModelStepRequests ==
    ASSUME TypeOK, ModelInv, NEW t \in Turns, NEW m \in ModelsOf(t), ModelStep(m)
    PROVE  SameRequests(t)
  <1> USE DEF SetModel
  <1>a. /\ model \in [Models -> ModelRow] /\ m \in Models /\ model[m] \in ModelRow
        /\ model[m].turn = t /\ model[m].status # "absent"
    BY TurnConstants DEF TypeOK, ModelTypeOK, ModelsOf, ModelInv, NoModelRow
  <1> DEFINE Kept == /\ model'[m].turn = model[m].turn /\ model'[m].revision = model[m].revision
                     /\ model'[m].status # "absent"
                     /\ model'[m].calls = model[m].calls \/ \A o \in model'[m].calls : TurnOf[o] = t
                     /\ \A n \in Models \ {m} : model'[n] = model[n]
  <1> SUFFICES Kept
    BY <1>a DEF SameRequests
  <1> USE DEF ModelRow
  <1>1. ASSUME NEW u \in Turns, NEW revision \in 1..inputRevision[u], PrepareModel(u, m, revision)
        PROVE  Kept
    BY <1>1, <1>a DEF PrepareModel
  <1>2. CASE SupersedePrepared(m) BY <1>2, <1>a DEF SupersedePrepared
  <1>3. CASE DispatchModel(m) BY <1>3, <1>a DEF DispatchModel
  <1>4. ASSUME NEW g, MarkModelUnknown(m, g) PROVE Kept
    BY <1>4, <1>a DEF MarkModelUnknown
  <1>5. CASE ExpireDispatch(m) BY <1>5, <1>4 DEF ExpireDispatch
  <1>6. CASE PrepareScheduledRetry(m) BY <1>6, <1>a DEF PrepareScheduledRetry
  <1>7. CASE CancelScheduledRetry(m) BY <1>7, <1>a DEF CancelScheduledRetry
  <1>8. CASE FailUnstartedRetry(m) BY <1>8, <1>a DEF FailUnstartedRetry
  <1>9. CASE RetryModel(m) BY <1>9, <1>a DEF RetryModel
  <1>10. CASE ResponseHandled(m) BY <1>10, <1>a DEF ResponseHandled
  <1>11. ASSUME NEW g \in Generations, CancelModelAttempt(m, g) PROVE Kept
    BY <1>11, <1>a DEF CancelModelAttempt
  <1>12. ASSUME NEW g \in Generations, FailureUnknown(m, g) PROVE Kept
    BY <1>12, <1>a DEF FailureUnknown
  <1>13. ASSUME NEW g \in Generations, FailureScheduled(m, g) PROVE Kept
    BY <1>13, <1>a DEF FailureScheduled
  <1>14. ASSUME NEW g \in Generations, FailureFinal(m, g) PROVE Kept
    BY <1>14, <1>a DEF FailureFinal
  <1>15. ASSUME NEW g \in Generations, NEW outcome \in {"released", "unknown", "settled"},
                RejectModel(m, g, outcome)
         PROVE  Kept
    BY <1>15, <1>a DEF RejectModel
  <1>16. ASSUME NEW g \in Generations, NEW calls \in SUBSET Ops, CompleteModel(m, g, calls) PROVE Kept
    BY <1>16, <1>a DEF CompleteModel
  <1> HIDE DEF Kept
  <1> QED
    BY <1>1, <1>2, <1>3, <1>4, <1>5, <1>6, <1>7, <1>8, <1>9, <1>10, <1>11, <1>12, <1>13, <1>14,
       <1>15, <1>16
    DEF ModelStep

LEMMA CommandRequests ==
    ASSUME TypeOK, ModelInv, NEW t \in Turns, TurnCommand(t)
    PROVE  SameRequests(t) \/ NewRequest(t)
  <1>1. ASSUME model' = model PROVE SameRequests(t)
    BY <1>1 DEF SameRequests
  <1>2. ASSUME NEW abort \in BOOLEAN, RecoverOwner(t, abort) PROVE SameRequests(t)
    <2>1. model \in [Models -> ModelRow] /\ LoseModels(t)
      BY <1>2 DEF RecoverOwner, TypeOK, ModelTypeOK
    <2>2. ASSUME NEW m \in ModelsIn(t, {"dispatched"}) PROVE SameRequests(t)!(m)
      BY <2>1, <2>2 DEF LoseModels, ModelsIn, ModelsOf, ModelRow
    <2>3. ASSUME NEW m \in Models \ ModelsIn(t, {"dispatched"}) PROVE SameRequests(t)!(m)
      BY <2>1, <2>3 DEF LoseModels
    <2> QED BY <2>2, <2>3 DEF SameRequests
  <1>3. CASE TurnStep(t)
    BY <1>1, <1>2, <1>3
    DEF TurnStep, StartTurn, StartChild, SettleChild, ReceiveInput, FailTurn, PauseTurn,
        InterruptOrphaned, CancelTurn, RequestCancellation, ResumeChildWait, ResumeCancelled,
        CompleteTurn, PauseForChildren, AskQuestion, AnswerQuestion, untouchedByTurns, modelVars
  <1>4. CASE AnswerStep(t)
    BY <1>1, <1>4 DEF AnswerStep, modelVars
  <1>5. CASE UNCHANGED vars
    BY <1>1, <1>5 DEF vars, modelVars
  <1> QED BY <1>3, <1>4, <1>5, ModelStepRequests DEF TurnCommand, NewRequest

(* The newest request of a Turn stays the newest, and other Turns' requests *)
(* stay as they are.                                                        *)
LEMMA SameNewest ==
    ASSUME ModelsInOrder, NEW t \in Turns, SameRequests(t)
    PROVE  /\ ModelsInOrder'
           /\ \A u \in Turns, m \in Models : IsLatest(u, m)' <=> IsLatest(u, m)
           /\ \A u \in Turns \ {t} : \A S : NewestIs(u, S)' <=> NewestIs(u, S)
  <1>1. \A u \in Turns : ModelsOf(u)' = ModelsOf(u)
    BY DEF SameRequests, ModelsOf
  <1>2. \A u \in Turns, m \in Models : IsLatest(u, m)' <=> IsLatest(u, m)
    BY <1>1 DEF IsLatest
  <1>3. ModelsInOrder'
    BY <1>1, <1>2 DEF ModelsInOrder, SameRequests
  <1>4. ASSUME NEW u \in Turns \ {t}, NEW S PROVE NewestIs(u, S)' <=> NewestIs(u, S)
    <2>1. \A m \in Models : IsLatest(u, m) => model'[m] = model[m]
      BY DEF IsLatest, ModelsOf, SameRequests
    <2> QED BY <2>1, <1>2 DEF NewestIs
  <1> QED BY <1>2, <1>3, <1>4

LEMMA NewRequestIsNewest ==
    ASSUME TypeOK, ModelInv, ModelsInOrder, NEW t \in Turns, NewRequest(t)
    PROVE  /\ ModelsInOrder'
           /\ NewestIs(t, {"prepared"})'
           /\ \A u \in Turns \ {t} : \A S : NewestIs(u, S)' <=> NewestIs(u, S)
  <1>1. PICK m \in Models, revision \in 1..inputRevision[t] : PrepareModel(t, m, revision)
    BY DEF NewRequest
  <1>2. /\ model[m].status = "absent" /\ \A n \in Models : n < m => model[n].status # "absent"
        /\ model'[m].status = "prepared" /\ model'[m].turn = t /\ model'[m].revision = revision
        /\ model'[m].calls = {}
        /\ \A n \in Models \ {m} : model'[n] = model[n]
        /\ m \in Nat /\ revision > 0
    BY <1>1, ModelConstants DEF PrepareModel, TypeOK, ModelTypeOK, TurnTypeOK, NoModelRow
  <1>3. \A n \in Models : model[n].status # "absent" => n < m
    <2> SUFFICES ASSUME NEW n \in Models, model[n].status # "absent" PROVE n < m
      OBVIOUS
    <2>1. n \in Nat /\ n # m /\ ~(m < n)
      BY <1>2, ModelConstants DEF ModelsInOrder
    <2> QED BY <2>1, <1>2
  <1>4. \A u \in Turns : ModelsOf(u)' = IF u = t THEN ModelsOf(u) \cup {m} ELSE ModelsOf(u)
    <2>1. model[m].turn = NoTurn /\ NoTurn \notin Turns
      BY <1>2, TurnConstants DEF ModelInv, NoModelRow
    <2> QED BY <2>1, <1>2 DEF ModelsOf
  <1>5. \A u \in Turns : \A n \in ModelsOf(u) : model[n].status # "absent" /\ n \in Models /\ n # m
    BY <1>2, TurnConstants DEF ModelsOf, ModelInv, NoModelRow
  <1>6. IsLatest(t, m)'
    <2>1. \A n \in ModelsOf(t) : n < m /\ n \in Nat
      BY <1>3, <1>5, ModelConstants
    <2> QED BY <2>1, <1>2, <1>4 DEF IsLatest
  <1>7. \A u \in Turns \ {t}, n \in Models : IsLatest(u, n)' <=> IsLatest(u, n)
    BY <1>4 DEF IsLatest
  <1>8. ModelsInOrder'
    <2>1. \A u \in Turns : ModelsOf(u)' # {} => \E n \in Models : IsLatest(u, n)'
      BY <1>4, <1>6, <1>7 DEF ModelsInOrder
    <2>2. \A k, n \in Models : n < k /\ model'[k].status # "absent" => model'[n].status # "absent"
      BY <1>2, <1>3 DEF ModelsInOrder
    <2>3. \A n \in Models : model'[n].status # "absent" => model'[n].revision > 0
      BY <1>2 DEF ModelsInOrder
    <2>4. ASSUME NEW n \in Models PROVE \A o \in model'[n].calls : TurnOf[o] = model'[n].turn
      <3>1. n # m => \A o \in model[n].calls : TurnOf[o] = model[n].turn
        BY DEF ModelsInOrder
      <3> QED BY <3>1, <1>2
    <2> QED BY <2>1, <2>2, <2>3, <2>4 DEF ModelsInOrder
  <1>9. ASSUME NEW u \in Turns \ {t}, NEW S PROVE NewestIs(u, S)' <=> NewestIs(u, S)
    <2>1. \A n \in Models : IsLatest(u, n) => model'[n] = model[n]
      BY <1>2, <1>5 DEF IsLatest
    <2> QED BY <2>1, <1>7 DEF NewestIs
  <1> QED BY <1>2, <1>6, <1>8, <1>9 DEF NewestIs

LEMMA LastWordsRequests ==
    ASSUME LedgerInv, ModelsInOrder, NEW t \in Turns, Stage(t), LastWords(t)
    PROVE  SameRequests(t)
  <1>1. CASE model' = model
    BY <1>1 DEF SameRequests
  <1>2. ASSUME NEW s \in {"unknown", "failed"}, phase[t] = "await",
               model' = [model EXCEPT ![Latest(t)].status = s]
        PROVE  SameRequests(t)
    <2>1. Latest(t) \in Models /\ model[Latest(t)].turn = t /\ model[Latest(t)].status = "dispatched"
      BY <1>2, AwaitedModel
    <2>2. model \in [Models -> ModelRow]
      BY DEF LedgerInv, TypeOK, ModelTypeOK
    <2> QED BY <1>2, <2>1, <2>2 DEF SameRequests, ModelRow
  <1> QED
    BY <1>1, <1>2
    DEF LastWords, Stop, StopBeforeProvider, Stopped, At, SetModel, vars, untouchedByTurns, modelVars

-----------------------------------------------------------------------------
(* A step of one Turn leaves the drivers and workers of the others alone    *)

OthersLeft(t) ==
    /\ \A u \in Turns \ {t} : phase'[u] = phase[u] /\ reply'[u] = reply[u] /\ seen'[u] = seen[u]
    /\ \A o \in Ops : TurnOf[o] # t => worker'[o] = worker[o]

Moved(t) == RunnerTypeOK' /\ OthersLeft(t)

LEMMA MoveOne ==
    ASSUME RunnerTypeOK, NEW t \in Turns,
           phase' = phase \/ \E p \in Phases : Goto(t, p),
           reply' = reply \/ \E r \in Replies : reply' = [reply EXCEPT ![t] = r],
           seen' = seen \/ \E n \in Nat : seen' = [seen EXCEPT ![t] = n],
           effects' \in [Ops -> Nat],
           \/ worker' = worker
           \/ \E o \in OpsOf(t), w \in WorkerPhases : Work(o, w)
           \/ worker' = Idle(t)
           \/ \E S \in SUBSET OpsOf(t), w \in WorkerPhases :
                  worker' = [o \in Ops |-> IF o \in S THEN w ELSE worker[o]]
    PROVE  Moved(t)
  <1>1. phase' \in [Turns -> Phases] /\ \A u \in Turns \ {t} : phase'[u] = phase[u]
    BY DEF RunnerTypeOK, Goto
  <1>2. reply' \in [Turns -> Replies] /\ \A u \in Turns \ {t} : reply'[u] = reply[u]
    BY DEF RunnerTypeOK
  <1>3. seen' \in [Turns -> Nat] /\ \A u \in Turns \ {t} : seen'[u] = seen[u]
    BY DEF RunnerTypeOK
  <1> DEFINE WorkersMove == /\ worker' \in [Ops -> WorkerPhases]
                            /\ \A o \in Ops : TurnOf[o] # t => worker'[o] = worker[o]
  <1>4. WorkersMove
    <2>1. CASE worker' = worker
      BY <2>1 DEF RunnerTypeOK
    <2>2. ASSUME NEW o \in OpsOf(t), NEW w \in WorkerPhases, Work(o, w) PROVE WorkersMove
      BY <2>2 DEF RunnerTypeOK, Work, OpsOf
    <2>3. CASE worker' = Idle(t)
      BY <2>3 DEF RunnerTypeOK, Idle, WorkerPhases
    <2>4. ASSUME NEW S \in SUBSET OpsOf(t), NEW w \in WorkerPhases,
                 worker' = [o \in Ops |-> IF o \in S THEN w ELSE worker[o]]
          PROVE  WorkersMove
      BY <2>4 DEF RunnerTypeOK, OpsOf
    <2> QED BY <2>1, <2>2, <2>3, <2>4
  <1> QED BY <1>1, <1>2, <1>3, <1>4 DEF Moved, OthersLeft, RunnerTypeOK

LEMMA DriverMoves ==
    ASSUME RunnerTypeOK, TypeOK, ModelInv, ModelsInOrder, NEW t \in Turns, Stage(t), DriverOwnStep(t)
    PROVE  Moved(t) /\ effects' = effects
  <1> USE DEF Goto
  <1>a. effects \in [Ops -> Nat]
    BY DEF RunnerTypeOK
  <1>b. {"none", "approve", "retry"} \subseteq Replies /\ reply[t] \in Replies
    BY DEF RunnerTypeOK, Replies
  <1>d. ASSUME NEW p \in Phases, DriverStep(t, p) PROVE Moved(t) /\ effects' = effects
    BY <1>d, <1>a, MoveOne DEF DriverStep
  <1>1. CASE \/ Recover(t) \/ RecoveryRefused(t) \/ PrepareRequest(t) \/ RequestOutdated(t) \/ Dispatch(t)
             \/ DispatchRefused(t) \/ EndAcknowledged(t) \/ RetryDue(t) \/ RetryWithdrawn(t)
             \/ ConsumeRaises(t) \/ AfterBatch(t) \/ Mark(t) \/ Finish(t) \/ FinishOutdated(t)
             \/ FinishRevoked(t) \/ BeginCancel(t) \/ WithdrawRetry(t) \/ Withdraw(t) \/ Close(t)
             \/ GiveUp(t) \/ DispatchExpired(t) \/ Stopping(t) \/ Stopped(t)
    <2>1. \E p \in Phases : DriverStep(t, p)
      BY <1>1 DEF Recover, RecoveryRefused, PrepareRequest, RequestOutdated, Dispatch, DispatchRefused,
                  EndAcknowledged, RetryDue, RetryWithdrawn, ConsumeRaises, AfterBatch, Mark, Finish,
                  FinishOutdated, FinishRevoked, BeginCancel, WithdrawRetry, Withdraw, Close, GiveUp,
                  DispatchExpired, Stopping, Stopped, Phases
    <2> QED BY <2>1, <1>d
  <1>2. CASE OfferRefused(t) \/ AbortTurn(t)
    <2>1. Goto(t, "off") /\ reply' = [reply EXCEPT ![t] = "none"] /\ UNCHANGED <<seen, worker, effects>>
      BY <1>2 DEF OfferRefused, AbortTurn
    <2> QED BY <2>1, <1>a, <1>b, MoveOne DEF Phases
  <1>3. CASE Offer(t)
    <2>1. Applied(t).to \in Phases /\ Applied(t).reply \in Replies
      BY <1>b DEF Applied, Phases, Replies
    <2>2. /\ Goto(t, Applied(t).to) /\ reply' = [reply EXCEPT ![t] = Applied(t).reply]
          /\ UNCHANGED <<seen, worker, effects>>
      BY <1>3 DEF Offer
    <2> QED BY <2>1, <2>2, <1>a, MoveOne
  <1>4. CASE Decide(t)
    <2>1. Destination(t) \in Phases
      BY DEF Destination, Arm, Phases
    <2>2. /\ Goto(t, Destination(t)) /\ seen' = [seen EXCEPT ![t] = inputRevision[t]]
          /\ UNCHANGED <<reply, worker, effects>> /\ inputRevision[t] \in Nat
      BY <1>4 DEF Decide, TypeOK, TurnTypeOK
    <2> QED BY <2>1, <2>2, <1>a, MoveOne
  <1>5. CASE PermitRetry(t)
    <2>1. reply' = [reply EXCEPT ![t] = "none"] /\ UNCHANGED <<phase, seen, worker, effects>>
      BY <1>5 DEF PermitRetry
    <2> QED BY <2>1, <1>a, <1>b, MoveOne
  <1>6. CASE Provider(t)
    <2>1. /\ Goto(t, "loop") \/ Goto(t, "off") \/ Goto(t, "failing") \/ Goto(t, "acked")
          /\ UNCHANGED <<reply, seen, worker, effects>>
      BY <1>6 DEF Provider
    <2>2. {"loop", "off", "failing", "acked"} \subseteq Phases
      BY DEF Phases
    <2> QED BY <2>1, <2>2, <1>a, MoveOne
  <1>7. CASE ConsumeAnswer(t)
    <2>1. Latest(t) \in Models
      BY <1>7, LatestIsNewest DEF ConsumeAnswer, At, Stage, ModelsOf
    <2>2. model[Latest(t)].revision \in Nat
      BY <2>1 DEF TypeOK, ModelTypeOK, ModelRow
    <2>3. /\ Goto(t, "finish") /\ seen' = [seen EXCEPT ![t] = model[Latest(t)].revision]
          /\ UNCHANGED <<reply, worker, effects>>
      BY <1>7 DEF ConsumeAnswer
    <2> QED BY <2>2, <2>3, <1>a, MoveOne DEF Phases
  <1>8. CASE ConsumeCalls(t)
    <2>1. Latest(t) \in ModelsOf(t)
      BY <1>8, LatestIsNewest DEF ConsumeCalls, At, Stage
    <2>2. CallsOf(t) \in SUBSET OpsOf(t)
      <3>1. \A o \in model[Latest(t)].calls : TurnOf[o] = t /\ o \in Ops
        BY <2>1 DEF ModelsInOrder, ModelsOf, TypeOK, ModelTypeOK, ModelRow
      <3> QED BY <3>1 DEF CallsOf, OpsOf
    <2>3. /\ Goto(t, "after") \/ Goto(t, "batch")
          /\ worker' = [o \in Ops |-> IF o \in CallsOf(t) THEN "queued" ELSE worker[o]]
          /\ UNCHANGED <<reply, seen, effects>>
      BY <1>8 DEF ConsumeCalls
    <2>4. {"after", "batch"} \subseteq Phases /\ "queued" \in WorkerPhases
      BY DEF Phases, WorkerPhases
    <2> QED BY <2>2, <2>3, <2>4, <1>a, MoveOne
  <1>9. CASE BatchStep(t)
    <2> USE DEF WorkersOf, OpsOf, WorkerPhases, Phases
    <2>1. CASE NextSegment(t)
      <3> DEFINE queue == WorkersOf(t, {"queued"})
      <3>1. \A o \in Segment(queue) : o \in OpsOf(t)
        BY DEF Segment
      <3>2. /\ worker' = [o \in Ops |-> IF o \notin Segment(queue) THEN worker[o]
                                        ELSE IF InputSuperseded(o) THEN "discard" ELSE "checked"]
            /\ UNCHANGED <<driverVars, effects>>
        BY <2>1 DEF NextSegment
      <3>3. worker' \in [Ops -> WorkerPhases] /\ \A o \in Ops : TurnOf[o] # t => worker'[o] = worker[o]
        BY <3>1, <3>2 DEF RunnerTypeOK
      <3> QED BY <3>2, <3>3, <1>a DEF Moved, OthersLeft, RunnerTypeOK, driverVars
    <2>2. CASE EndBatch(t) BY <2>2, <1>a, MoveOne DEF EndBatch
    <2>3. CASE StartGroup(t)
      <3>1. Group(WorkersOf(t, {"armed"})) \in SUBSET OpsOf(t)
        BY DEF Group
      <3>2. /\ worker' = [o \in Ops |-> IF o \in Group(WorkersOf(t, {"armed"})) THEN "active" ELSE worker[o]]
            /\ UNCHANGED <<driverVars, effects>>
        BY <2>3 DEF StartGroup
      <3> QED BY <3>1, <3>2, <1>a, MoveOne DEF driverVars
    <2>4. CASE DropUnclaimed(t)
      <3> DEFINE S == WorkersOf(t, {"queued", "checked", "armed", "active", "discard", "denied"})
      <3>1. S \in SUBSET OpsOf(t)
        OBVIOUS
      <3>2. worker' = [o \in Ops |-> IF o \in S THEN "idle" ELSE worker[o]] /\ UNCHANGED <<driverVars, effects>>
        BY <2>4 DEF DropUnclaimed
      <3> HIDE DEF S
      <3> QED BY <3>1, <3>2, <1>a, MoveOne DEF driverVars
    <2>5. CASE Drained(t) BY <2>5, <1>a, MoveOne DEF Drained
    <2>6. CASE AnswerApproval(t)
      <3>1. PICK o \in OpsOf(t), w \in {"discard", "denied", "active"} : Work(o, w)
        BY <2>6 DEF AnswerApproval, Awaited
      <3>2. Goto(t, "single") /\ UNCHANGED <<reply, seen, effects>>
        BY <2>6 DEF AnswerApproval
      <3> QED BY <3>1, <3>2, <1>a, MoveOne
    <2>7. CASE AnswerOutdated(t) BY <2>7, <1>a, MoveOne DEF AnswerOutdated
    <2>8. CASE RecoverApproved(t)
      <3>1. PICK o \in OpsOf(t), w \in {"discard", "active"} : Work(o, w)
        BY <2>8 DEF RecoverApproved, ApprovedReady
      <3>2. Goto(t, "single") /\ UNCHANGED <<reply, seen, effects>>
        BY <2>8 DEF RecoverApproved
      <3> QED BY <3>1, <3>2, <1>a, MoveOne
    <2>9. CASE RecoverOutdated(t) BY <2>9, <1>a, MoveOne DEF RecoverOutdated
    <2>10. CASE EndSingle(t) BY <2>10, <1>a, MoveOne DEF EndSingle
    <2> QED BY <1>9, <2>1, <2>2, <2>3, <2>4, <2>5, <2>6, <2>7, <2>8, <2>9, <2>10 DEF BatchStep
  <1> HIDE DEF Goto
  <1> QED BY <1>1, <1>2, <1>3, <1>4, <1>5, <1>6, <1>7, <1>8, <1>9 DEF DriverOwnStep

LEMMA OutsideMoves ==
    ASSUME RunnerTypeOK, NEW t \in Turns, OutsideStep(t)
    PROVE  Moved(t) /\ effects' = effects
  <1> USE DEF Goto, Phases
  <1>a. effects \in [Ops -> Nat]
    BY DEF RunnerTypeOK
  <1>d. ASSUME NEW p \in Phases, DriverStep(t, p) PROVE Moved(t) /\ effects' = effects
    BY <1>d, <1>a, MoveOne DEF DriverStep
  <1>1. CASE Start(t) BY <1>1, <1>d DEF Start
  <1>2. CASE Stop(t)
    <2>1. Goto(t, "stopping") \/ Goto(t, "stopped")
      BY <1>2 DEF Stop
    <2>2. UNCHANGED <<reply, seen, worker, effects>>
      BY <1>2 DEF Stop
    <2> QED BY <2>1, <2>2, <1>a, MoveOne
  <1>3. CASE StopBeforeProvider(t) BY <1>3, <1>d DEF StopBeforeProvider
  <1>4. CASE Crash(t)
    <2>1. /\ Goto(t, "off") /\ reply' = [reply EXCEPT ![t] = "none"]
          /\ worker' = Idle(t) /\ UNCHANGED <<seen, effects>>
      BY <1>4 DEF Crash
    <2> QED BY <2>1, <1>a, MoveOne DEF Replies
  <1>5. CASE Reconcile(t) BY <1>5, <1>a, MoveOne DEF Reconcile, driverVars
  <1>6. CASE Outside(t) BY <1>6, <1>a, MoveOne DEF Outside, driverVars
  <1>7. ASSUME NEW action \in Replies, Resume(t, action) PROVE Moved(t) /\ effects' = effects
    BY <1>7, <1>a, MoveOne DEF Resume
  <1> HIDE DEF Goto, Phases
  <1> QED BY <1>1, <1>2, <1>3, <1>4, <1>5, <1>6, <1>7 DEF OutsideStep

LEMMA CallMoves ==
    ASSUME RunnerTypeOK, NEW o \in Ops, CallStep(o)
    PROVE  /\ Moved(TurnOf[o])
           /\ phase'[TurnOf[o]] \in {phase[TurnOf[o]], "off", "drain"} /\ seen' = seen
  <1> DEFINE t == TurnOf[o]
  <1> USE DEF WorkerPhases
  <1>a. effects \in [Ops -> Nat] /\ phase \in [Turns -> Phases] /\ t \in Turns /\ o \in OpsOf(t)
    BY ToolConstants DEF RunnerTypeOK, OpsOf
  <1>b. {"off", "drain"} \subseteq Phases
    BY DEF Phases
  <1> DEFINE Goal == Moved(t) /\ phase'[t] \in {phase[t], "off", "drain"} /\ seen' = seen
  <1> SUFFICES Goal
    OBVIOUS
  <1>c. ASSUME NEW w \in WorkerPhases, Work(o, w), UNCHANGED driverVars, effects' \in [Ops -> Nat]
        PROVE  Goal
    BY <1>c, <1>a, MoveOne DEF driverVars
  <1>d. ASSUME Goto(t, "off"), worker' = Idle(t), UNCHANGED <<reply, seen, effects>>
        PROVE  Goal
    <2>1. Moved(t)
      BY <1>d, <1>a, <1>b, MoveOne
    <2> QED BY <2>1, <1>d, <1>a DEF Goto
  <1> HIDE DEF Goal, t
  <1>e. ASSUME NEW w \in WorkerPhases, WorkerStep(o, w) PROVE Goal
    BY <1>e, <1>a, <1>c DEF WorkerStep
  <1>1. CASE PrepareAllowed(o) BY <1>1, <1>a, <1>c, <1>e DEF PrepareAllowed
  <1>2. CASE PrepareDenied(o) BY <1>2, <1>e DEF PrepareDenied
  <1>3. CASE AskingTooLate(o) BY <1>3, <1>a, <1>c DEF AskingTooLate
  <1>4. CASE Discard(o) BY <1>4, <1>e DEF Discard
  <1>5. CASE Claim(o) BY <1>5, <1>e DEF Claim
  <1>6. CASE ClaimRefused(o) BY <1>6, <1>a, <1>c, <1>e DEF ClaimRefused
  <1>7. CASE RejectRevoked(o) BY <1>7, <1>e DEF RejectRevoked
  <1>8. CASE RunEffect(o)
    <2>1. effects' \in [Ops -> Nat] /\ Work(o, "ran") /\ UNCHANGED driverVars
      BY <1>8, <1>a DEF RunEffect
    <2> QED BY <2>1, <1>c
  <1>9. CASE RefuseLive(o) BY <1>9, <1>a, <1>c DEF RefuseLive
  <1>10. CASE CommitKnown(o) BY <1>10, <1>e DEF CommitKnown
  <1>11. CASE RecordRejection(o) BY <1>11, <1>e DEF RecordRejection
  <1>12. CASE ResultRefused(o)
    <2>1. /\ worker' = [worker EXCEPT ![o] = "idle"] /\ UNCHANGED <<reply, seen, effects>>
          /\ phase' = [phase EXCEPT ![t] = IF phase[t] \in Working THEN "drain" ELSE phase[t]]
      BY <1>12 DEF ResultRefused, t
    <2>2. phase' = phase \/ Goto(t, "drain")
      BY <2>1, <1>a DEF Goto
    <2>3. Work(o, "idle")
      BY <2>1 DEF Work
    <2>4. Moved(t)
      BY <2>1, <2>2, <2>3, <1>a, <1>b, MoveOne
    <2> QED BY <2>1, <2>2, <2>4, <1>a DEF Goal, Goto
  <1>13. CASE ReportDenied(o) BY <1>13, <1>e DEF ReportDenied
  <1>14. ASSUME NEW r \in Requests, PrepareAsking(o, r) PROVE Goal
    BY <1>14, <1>d DEF PrepareAsking, t
  <1>15. ASSUME NEW r \in Requests, CommitUncertain(o, r) PROVE Goal
    BY <1>15, <1>e DEF CommitUncertain
  <1>16. ASSUME NEW r \in Requests, AskAnotherScope(o, r) PROVE Goal
    BY <1>16, <1>d DEF AskAnotherScope, t
  <1> QED
    BY <1>1, <1>2, <1>3, <1>4, <1>5, <1>6, <1>7, <1>8, <1>9, <1>10, <1>11, <1>12, <1>13, <1>14, <1>15, <1>16
    DEF CallStep

-----------------------------------------------------------------------------
(* The driver awaits and consumes the newest request of its Turn            *)

Staged == {"await", "acked", "consume", "batch", "after", "finish", "mark"}

LEMMA StageFrame ==
    ASSUME NEW t \in Turns, Stage(t), model' = model,
           \/ phase'[t] \notin Staged
           \/ phase'[t] = phase[t] /\ seen'[t] = seen[t]
           \/ phase'[t] = "acked" /\ phase[t] = "await"
           \/ phase'[t] \in {"batch", "after", "mark"}
              /\ phase[t] \in {"consume", "batch", "after", "finish", "mark"}
    PROVE  Stage(t)'
  <1>1. \A S : NewestIs(t, S)' <=> NewestIs(t, S)
    BY DEF NewestIs, IsLatest, ModelsOf
  <1> QED BY <1>1 DEF Stage, Staged

LEMMA StageOwnStep ==
    ASSUME RunnerTypeOK, TypeOK, ModelInv, ModelsInOrder, NEW t \in Turns, Stage(t), DriverOwnStep(t)
    PROVE  Stage(t)'
  <1> USE DEF Goto, Staged
  <1>a. phase \in [Turns -> Phases] /\ seen \in [Turns -> Nat]
    BY DEF RunnerTypeOK
  <1>b. phase'[t] \notin Staged => Stage(t)'
    BY DEF Stage
  <1>c. ASSUME NEW p, DriverStep(t, p) PROVE phase'[t] = p /\ seen' = seen
    BY <1>c, <1>a DEF DriverStep
  <1>d. \A S : model' = model /\ NewestIs(t, S) => NewestIs(t, S)'
    BY DEF NewestIs, IsLatest, ModelsOf
  <1>e. ASSUME NEW p \in {"off", "offer", "loop", "dispatch", "withdraw", "closing", "stopped"},
               DriverStep(t, p)
        PROVE  Stage(t)'
    BY <1>b, <1>c, <1>e
  <1>1. CASE \/ Recover(t) \/ RecoveryRefused(t) \/ PrepareRequest(t) \/ RequestOutdated(t)
             \/ DispatchRefused(t) \/ EndAcknowledged(t) \/ RetryDue(t) \/ RetryWithdrawn(t)
             \/ ConsumeRaises(t) \/ Mark(t)
    BY <1>1, <1>e DEF Recover, RecoveryRefused, PrepareRequest, RequestOutdated, DispatchRefused,
                      EndAcknowledged, RetryDue, RetryWithdrawn, ConsumeRaises, Mark
  <1>13. CASE \/ FinishRevoked(t) \/ BeginCancel(t) \/ WithdrawRetry(t) \/ Withdraw(t) \/ Close(t)
              \/ GiveUp(t) \/ DispatchExpired(t) \/ Stopping(t) \/ Stopped(t)
    BY <1>13, <1>e DEF FinishRevoked, BeginCancel, WithdrawRetry, Withdraw, Close, GiveUp,
                       DispatchExpired, Stopping, Stopped
  <1>2. CASE OfferRefused(t) \/ AbortTurn(t)
    BY <1>2, <1>a, <1>b DEF OfferRefused, AbortTurn
  <1>3. CASE Offer(t)
    <2>1. Applied(t).to \notin Staged
      BY DEF Applied
    <2> QED BY <1>3, <2>1, <1>a, <1>b DEF Offer
  <1>4. CASE Decide(t)
    <2>1. model' = model /\ phase'[t] = Destination(t)
      BY <1>4, <1>a DEF Decide, vars, modelVars
    <2>2. Destination(t) \in Staged => Destination(t) = "consume" /\ Route(t) = "committed_response"
      BY DEF Destination, Arm
    <2>3. Route(t) = "committed_response" => NewestIs(t, {"completed"})
      BY RouteMeans, LatestIsNewest
    <2> QED BY <2>1, <2>2, <2>3, <1>b, <1>d DEF Stage
  <1>5. CASE PermitRetry(t)
    BY <1>5, <1>b DEF PermitRetry, At
  <1>6. CASE Dispatch(t)
    <2>1. phase'[t] = "await"
      BY <1>6, <1>c DEF Dispatch
    <2>2. Latest(t) \in ModelsOf(t) /\ DispatchModel(Latest(t)) /\ LatestIs(t, {"prepared"})
      BY <1>6, LatestIsNewest DEF Dispatch
    <2>3. IsLatest(t, Latest(t)) /\ Latest(t) \in Models
      BY <2>2, NewestModel
    <2>4. SameRequests(t)
      BY <2>2, ModelStepRequests DEF ModelStep
    <2>5. PICK m \in Models : m = Latest(t)
      BY <2>3
    <2>6. IsLatest(t, m)'
      BY <2>3, <2>4, <2>5, SameNewest
    <2>7. model'[m].status = "dispatched"
      BY <2>2, <2>5 DEF DispatchModel, SetModel, TypeOK, ModelTypeOK, ModelRow
    <2> QED BY <2>1, <2>6, <2>7 DEF Stage, NewestIs
  <1>7. CASE Provider(t)
    <2>1. phase[t] = "await"
      BY <1>7 DEF Provider, At
    <2>2. \/ phase'[t] \in {"loop", "off", "failing"}
          \/ phase'[t] = "acked" /\ model' = model
      BY <1>7, <1>a DEF Provider, RequestCancellation, untouchedByTurns, modelVars
    <2> QED BY <2>1, <2>2, <1>b, StageFrame
  <1>8. CASE ConsumeAnswer(t)
    <2>1. phase[t] = "consume" /\ model' = model /\ phase'[t] = "finish"
          /\ seen'[t] = model[Latest(t)].revision
      BY <1>8, <1>a DEF ConsumeAnswer, At, vars, modelVars
    <2>2. NewestIs(t, {"completed"})
      BY <2>1 DEF Stage
    <2>3. Latest(t) \in Models /\ model[Latest(t)].status = "completed"
      BY <2>2, LatestIsNewest DEF ModelsOf
    <2>4. model[Latest(t)].revision > 0
      BY <2>3 DEF ModelsInOrder
    <2> QED BY <2>1, <2>2, <2>4, <1>d DEF Stage
  <1>9. CASE ConsumeCalls(t)
    BY <1>9, <1>a, StageFrame DEF ConsumeCalls, At, vars, modelVars
  <1>10. CASE AfterBatch(t) \/ FinishOutdated(t)
    <2>1. model' = model /\ phase[t] \in {"after", "finish"} /\ \E p \in {"mark", "off"} : DriverStep(t, p)
      BY <1>10 DEF AfterBatch, FinishOutdated, At, vars, modelVars
    <2> QED BY <2>1, <1>c, StageFrame
  <1>11. CASE Finish(t)
    <2>1. phase[t] = "finish" /\ DriverStep(t, "mark")
      BY <1>11 DEF Finish, At
    <2>2. model' = model
      BY <1>11 DEF Finish, CompleteTurn, AskQuestion, FailTurn, PauseForChildren, untouchedByTurns,
                   vars, modelVars
    <2> QED BY <2>1, <2>2, <1>c, StageFrame
  <1>12. CASE BatchStep(t)
    <2>1. model' = model
      BY <1>12, BatchCommands DEF AnswerStep, vars, modelVars
    <2>2. \/ phase'[t] \in {"off", "single", "loop"}
          \/ phase' = phase /\ seen' = seen
          \/ phase[t] = "batch" /\ phase'[t] = "after"
      BY <1>12, <1>a DEF BatchStep, NextSegment, EndBatch, StartGroup, DropUnclaimed, Drained,
                         AnswerApproval, AnswerOutdated, RecoverApproved, RecoverOutdated, EndSingle,
                         driverVars, At
    <2> QED BY <2>1, <2>2, StageFrame
  <1> HIDE DEF Goto
  <1> QED
    BY <1>1, <1>2, <1>3, <1>4, <1>5, <1>6, <1>7, <1>8, <1>9, <1>10, <1>11, <1>12, <1>13
    DEF DriverOwnStep

LEMMA StageOutsideStep ==
    ASSUME RunnerTypeOK, NEW t \in Turns, Stage(t), OutsideStep(t)
    PROVE  Stage(t)'
  <1> USE DEF Goto, Staged
  <1>a. phase \in [Turns -> Phases]
    BY DEF RunnerTypeOK
  <1>b. phase'[t] \notin Staged => Stage(t)'
    BY DEF Stage
  <1>1. CASE Start(t) \/ StopBeforeProvider(t)
    BY <1>1, <1>a, <1>b DEF Start, StopBeforeProvider, DriverStep
  <1>2. CASE Stop(t)
    BY <1>2, <1>a, <1>b DEF Stop
  <1>3. CASE Crash(t)
    BY <1>3, <1>a, <1>b DEF Crash
  <1>4. ASSUME NEW action, Resume(t, action) PROVE Stage(t)'
    BY <1>4, <1>a, <1>b DEF Resume
  <1>5. CASE Reconcile(t) \/ Outside(t)
    <2>1. phase' = phase /\ seen' = seen
      BY <1>5 DEF Reconcile, Outside, driverVars
    <2>2. model' = model
      BY <1>5 DEF Reconcile, Outside, ReceiveInput, RequestCancellation, SettleChild, untouchedByTurns,
                  modelVars
    <2> QED BY <2>1, <2>2, StageFrame
  <1> QED BY <1>1, <1>2, <1>3, <1>4, <1>5 DEF OutsideStep

-----------------------------------------------------------------------------
(* The invariant of ledger and driver together                              *)

RunnerInv ==
    /\ LedgerInv
    /\ RunnerTypeOK
    /\ ModelsInOrder
    /\ \A t \in Turns : Stage(t)

LEMMA RunnerInitInv == RunnerInit => RunnerInv
  <1> SUFFICES ASSUME RunnerInit PROVE RunnerInv
    OBVIOUS
  <1>1. LedgerInv
    BY InitType, InitInv, MoneyInit, SlotInit, ChildInit DEF RunnerInit, LedgerInv
  <1>2. RunnerTypeOK
    BY DEF RunnerInit, RunnerTypeOK, Phases, Replies, WorkerPhases
  <1>3. ModelsInOrder
    BY TurnConstants DEF RunnerInit, Init, ModelInit, NoModelRow, ModelsInOrder, ModelsOf
  <1>4. \A t \in Turns : Stage(t)
    BY DEF RunnerInit, Stage
  <1> QED BY <1>1, <1>2, <1>3, <1>4 DEF RunnerInv

(* What every step of the driver of t, or against it, has in common.        *)
LEMMA TurnStepInvariant ==
    ASSUME RunnerInv, NEW t \in Turns, DriverOwnStep(t) \/ OutsideStep(t)
    PROVE  /\ RunnerInv' /\ Moved(t) /\ effects' = effects
           /\ TurnCommand(t) \/ LastWords(t)
  <1> USE DEF RunnerInv
  <1>a. TypeOK /\ ModelInv
    BY DEF LedgerInv
  <1>1. TurnCommand(t) \/ LastWords(t)
    BY <1>a, DriverCommands, OutsideCommands
  <1>2. LedgerInv'
    BY <1>1, CommandsAreNext, LedgerStep, LastWordsKeepLedger
  <1>3. Moved(t) /\ effects' = effects
    BY <1>a, DriverMoves, OutsideMoves
  <1>4. Stage(t)'
    BY <1>a, StageOwnStep, StageOutsideStep
  <1>5. SameRequests(t) \/ NewRequest(t)
    BY <1>1, <1>a, CommandRequests, LastWordsRequests
  <1>6. ModelsInOrder' /\ \A u \in Turns \ {t} : \A S : NewestIs(u, S)' <=> NewestIs(u, S)
    BY <1>5, <1>a, SameNewest, NewRequestIsNewest
  <1>7. \A u \in Turns \ {t} : Stage(u)'
    BY <1>3, <1>6 DEF Moved, OthersLeft, Stage
  <1> QED BY <1>1, <1>2, <1>3, <1>4, <1>6, <1>7 DEF Moved

LEMMA CallStepInvariant ==
    ASSUME RunnerInv, NEW o \in Ops, CallStep(o)
    PROVE  /\ RunnerInv' /\ Moved(TurnOf[o]) /\ model' = model
           /\ CallCommand(o) \/ RequestCancellation(TurnOf[o]) \/ UNCHANGED vars
  <1> USE DEF RunnerInv
  <1>0. TurnOf[o] \in Turns
    BY ToolConstants
  <1>1. CallCommand(o) \/ RequestCancellation(TurnOf[o]) \/ UNCHANGED vars
    BY CallStepCommands
  <1>2. [Next]_vars
    BY <1>0, <1>1, CommandsAreNext DEF TurnCommand, TurnStep
  <1>3. LedgerInv'
    BY <1>2, LedgerStep
  <1>4. model' = model
    BY <1>1 DEF CallCommand, RequestCancellation, untouchedByTurns, vars, modelVars
  <1>5. ModelsInOrder'
    BY <1>4 DEF ModelsInOrder, ModelsOf, IsLatest
  <1>6. /\ Moved(TurnOf[o])
        /\ phase'[TurnOf[o]] \in {phase[TurnOf[o]], "off", "drain"} /\ seen' = seen
    BY CallMoves
  <1>7. ASSUME NEW t \in Turns PROVE Stage(t)'
    <2>1. Stage(t) /\ seen'[t] = seen[t]
      BY <1>6
    <2>2. phase'[t] \in {phase[t], "off", "drain"}
      BY <1>6 DEF Moved, OthersLeft
    <2> QED BY <2>1, <2>2, <1>4, StageFrame DEF Staged
  <1> QED BY <1>1, <1>3, <1>4, <1>5, <1>6, <1>7 DEF Moved

LEMMA RunnerStepInv ==
    ASSUME RunnerInv, [RunnerNext]_runnerVars
    PROVE  RunnerInv'
  <1>1. CASE UNCHANGED runnerVars
    <2>1. LedgerInv'
      BY <1>1, LedgerStep DEF runnerVars, RunnerInv
    <2>2. RunnerTypeOK'
      BY <1>1 DEF runnerVars, driverVars, RunnerInv, RunnerTypeOK
    <2>3. ModelsInOrder'
      BY <1>1 DEF runnerVars, vars, modelVars, RunnerInv, ModelsInOrder, ModelsOf, IsLatest
    <2>4. \A t \in Turns : Stage(t)'
      BY <1>1, StageFrame DEF runnerVars, vars, modelVars, driverVars, RunnerInv
    <2> QED BY <2>1, <2>2, <2>3, <2>4 DEF RunnerInv
  <1> QED BY <1>1, TurnStepInvariant, CallStepInvariant DEF RunnerNext

THEOREM DriverKeepsLedger == RunnerSpec => []RunnerInv
  BY RunnerInitInv, RunnerStepInv, PTL DEF RunnerSpec

-----------------------------------------------------------------------------
(* Effects and conflicting calls *)

(* Outcome and result of a call are one transaction: a claimed call whose   *)
(* outcome is known has its result.                                         *)
SettledIsLinked ==
    \A o \in Ops : op[o].claims > 0 /\ op[o].status \notin Uncertain => op[o].linked

(* The claim is durable before the effect.                                  *)
ClaimedBeforeEffect ==
    \A o \in Ops : /\ effects[o] <= op[o].claims
                   /\ worker[o] = "claimed" => effects[o] < op[o].claims

(* What any command but the claim may do to a call.                         *)
CallMove(o) ==
    /\ op'[o].claims = op[o].claims
    /\ op'[o].status \in Uncertain => op[o].status \in Uncertain
    /\ op'[o].status = "running" => op[o].status = "running"
    /\ op[o].claims > 0 /\ op'[o].status \notin Uncertain => op'[o].linked

LEMMA CallCommandMoves ==
    ASSUME TypeOK, ToolInv, SettledIsLinked, NEW o \in Ops, CallCommand(o)
    PROVE  /\ \A p \in Ops \ {o} : op'[p] = op[p]
           /\ CallMove(o) \/ ClaimOperation(o)
  <1> USE DEF SetStatus, OpRow
  <1>a. op \in [Ops -> OpRow] /\ (op[o].claims > 0 => op[o].status \notin {"absent"} \cup Unstarted)
        /\ (op[o].claims > 0 /\ op[o].status \notin Uncertain => op[o].linked)
    BY DEF TypeOK, ToolTypeOK, ToolInv, ClaimedStaysStarted, SettledIsLinked
  <1> USE <1>a DEF CallMove, Uncertain, Unstarted
  <1>1. CASE PrepareOperation(o) BY <1>1 DEF PrepareOperation
  <1>2. CASE ReadyOperation(o) BY <1>2 DEF ReadyOperation
  <1>3. CASE ClaimOperation(o) BY <1>3 DEF ClaimOperation
  <1>4. CASE RecordResult(o) BY <1>4 DEF RecordResult
  <1>5. CASE RecordRefusal(o) BY <1>5 DEF RecordRefusal
  <1>6. ASSUME NEW superseded \in BOOLEAN, RejectReady(o, superseded)
        PROVE  CallMove(o) /\ \A p \in Ops \ {o} : op'[p] = op[p]
    BY <1>6 DEF RejectReady
  <1>7. ASSUME NEW status \in {"succeeded", "failed"}, CommitResult(o, status)
        PROVE  CallMove(o) /\ \A p \in Ops \ {o} : op'[p] = op[p]
    BY <1>7 DEF CommitResult
  <1>8. ASSUME NEW r \in Requests, RequestApproval(o, r)
        PROVE  CallMove(o) /\ \A p \in Ops \ {o} : op'[p] = op[p]
    BY <1>8 DEF RequestApproval
  <1>9. ASSUME NEW r \in Requests, CommitUnknownResult(o, r)
        PROVE  CallMove(o) /\ \A p \in Ops \ {o} : op'[p] = op[p]
    BY <1>9 DEF CommitUnknownResult
  <1> QED BY <1>1, <1>2, <1>3, <1>4, <1>5, <1>6, <1>7, <1>8, <1>9 DEF CallCommand

LEMMA AnswerMoves ==
    ASSUME TypeOK, ToolInv, SettledIsLinked, NEW t \in Turns, AnswerStep(t)
    PROVE  \A p \in Ops : CallMove(p)
  <1> USE DEF SetStatus
  <1>a. /\ op \in [Ops -> OpRow]
        /\ \A o \in Ops : op[o].claims > 0 => op[o].status \notin {"absent"} \cup Unstarted
        /\ \A o \in Ops : op[o].claims > 0 /\ op[o].status \notin Uncertain => op[o].linked
    BY DEF TypeOK, ToolTypeOK, ToolInv, ClaimedStaysStarted, SettledIsLinked
  <1>b. ASSUME NEW o \in Ops, op[o].status \in {"awaiting_approval", "ready"},
               NEW s \in {"awaiting_approval", "ready", "denied", "superseded"},
               \/ op' = [op EXCEPT ![o].status = s]
               \/ \E r \in Requests : op' = [op EXCEPT ![o].status = s, ![o].approval = r]
        PROVE  \A p \in Ops : CallMove(p)
    <2>1. op'[o].status = s /\ op'[o].claims = op[o].claims /\ \A p \in Ops \ {o} : op'[p] = op[p]
      BY <1>a, <1>b DEF OpRow
    <2>2. op[o].claims = 0
      BY <1>a, <1>b DEF OpRow, Unstarted
    <2> QED BY <2>1, <2>2, <1>a, <1>b DEF CallMove, Uncertain
  <1> DEFINE Goal == \A p \in Ops : CallMove(p)
  <1>1. ASSUME NEW r \in Requests, RefreshApproval(t, r) PROVE Goal
    <2>1. PICK o \in OpsOf(t) :
            /\ Reapprovable(t) = {o}
            /\ op' = [op EXCEPT ![o].status = "awaiting_approval", ![o].approval = r]
      BY <1>1 DEF RefreshApproval
    <2>2. o \in Ops /\ op[o].status \in {"awaiting_approval", "ready"}
      BY <2>1 DEF Reapprovable, OpsOf
    <2> QED BY <2>1, <2>2, <1>b
  <1>c. ASSUME NEW r \in Requests, interaction[r].kind = "tool_approval" \/ OnlyPending(t, "tool_approval", r)
        PROVE  interaction[r].op \in Ops
    BY <1>c DEF OnlyPending, PendingOf, ToolInv, RowsNameTheirCall, ToolQuestion
  <1>2. ASSUME InvalidateApproval(t) PROVE Goal
    BY <1>2, <1>b, <1>c DEF InvalidateApproval
  <1>3. ASSUME InvalidateResolvedApproval(t) PROVE Goal
    BY <1>3, <1>b, <1>c DEF InvalidateResolvedApproval, NewestAnswer
  <1>4. ASSUME NEW decision \in {"approve", "deny"}, NEW recheck \in BOOLEAN,
               ResolveApproval(t, decision, recheck)
        PROVE  Goal
    <2>1. PICK r \in Requests :
            /\ OnlyPending(t, "tool_approval", r)
            /\ op[interaction[r].op].status = "awaiting_approval"
            /\ SetStatus(interaction[r].op, IF decision = "approve" THEN "ready" ELSE "denied")
      BY <1>4 DEF ResolveApproval
    <2> QED BY <2>1, <1>b, <1>c
  <1>5. ASSUME NEW status \in {"succeeded", "failed", "cancelled"}, ResolveReconciliation(t, status)
        PROVE  Goal
    <2>1. PICK r \in Requests :
            /\ OnlyPending(t, "tool_reconciliation", r)
            /\ op' = [op EXCEPT ![interaction[r].op].status = status, ![interaction[r].op].linked = TRUE]
      BY <1>5 DEF ResolveReconciliation
    <2>2. interaction[r].op \in Ops
      BY <2>1 DEF OnlyPending, PendingOf, ToolInv, RowsNameTheirCall, ToolQuestion
    <2>3. PICK o \in Ops : o = interaction[r].op
      BY <2>2
    <2>4. /\ op' = [op EXCEPT ![o].status = status, ![o].linked = TRUE]
          /\ op[o] \in OpRow
      BY <2>1, <2>3, <1>a
    <2>5. /\ op'[o].linked /\ op'[o].claims = op[o].claims
          /\ op'[o].status \notin Uncertain /\ op'[o].status # "running"
      BY <2>4, <1>a DEF OpRow, Uncertain
    <2>6. \A p \in Ops \ {o} : op'[p] = op[p]
      BY <2>4, <1>a
    <2> QED BY <2>5, <2>6, <1>a DEF CallMove
  <1> HIDE DEF Goal
  <1>6. Goal
    BY <1>1, <1>2, <1>3, <1>4, <1>5 DEF AnswerStep
  <1> QED BY <1>6 DEF Goal

LEMMA TurnMovesCalls ==
    ASSUME TypeOK, ToolInv, SettledIsLinked, NEW t \in Turns, TurnCommand(t) \/ LastWords(t)
    PROVE  \A p \in Ops : CallMove(p)
  <1>a. /\ op \in [Ops -> OpRow]
        /\ \A o \in Ops : op[o].claims > 0 => op[o].status \notin {"absent"} \cup Unstarted
        /\ \A o \in Ops : op[o].claims > 0 /\ op[o].status \notin Uncertain => op[o].linked
    BY DEF TypeOK, ToolTypeOK, ToolInv, ClaimedStaysStarted, SettledIsLinked
  <1>b. op' = op => \A p \in Ops : CallMove(p)
    BY <1>a DEF CallMove
  <1>1. CASE CancelTurn(t)
    <2> SUFFICES ASSUME NEW o \in Ops PROVE CallMove(o)
      OBVIOUS
    <2>1. CASE \E r \in Pending(t) : interaction[r].op = o
      <3>1. op[o].status = "awaiting_approval"
        BY <1>1, <2>1, TurnConstants DEF CancelTurn
      <3>2. op'[o] = [op[o] EXCEPT !.status = "cancelled"]
        BY <1>1, <2>1 DEF CancelTurn
      <3> QED BY <3>1, <3>2, <1>a DEF CallMove, OpRow, Unstarted, Uncertain
    <2>2. CASE ~\E r \in Pending(t) : interaction[r].op = o
      <3>1. op'[o] = op[o]
        BY <1>1, <2>2 DEF CancelTurn
      <3> QED BY <3>1, <1>a DEF CallMove
    <2> QED BY <2>1, <2>2
  <1>2. ASSUME NEW abort \in BOOLEAN, RecoverOwner(t, abort) PROVE \A p \in Ops : CallMove(p)
    <2>1. ASSUME NEW o \in Ops, NEW r \in Requests, LoseTool(t, o, r) PROVE \A p \in Ops : CallMove(p)
      BY <2>1, <1>a DEF LoseTool, SetStatus, CallMove, OpRow, Uncertain
    <2>2. ASSUME CloseUnstarted(t), Quiescent(t) PROVE \A p \in Ops : CallMove(p)
      <3>1. Missing(t) = {}
        BY <2>2, <1>a DEF Missing, Unresolved, OpsOf, Quiescent, InStatus
      <3>2. ASSUME NEW o \in Closable(t) PROVE o \in Ops /\ op[o].claims = 0 /\ ~op[o].linked
        <4>1. o \in OpsOf(t) /\ ~op[o].linked /\ ~(op[o].claims > 0) /\ o \in Ops
          BY <3>1, <3>2 DEF Closable, Missing, Unresolved, OpsOf
        <4>2. op[o].claims \in Nat
          BY <4>1, <1>a DEF OpRow
        <4> QED BY <4>1, <4>2
      <3>3. \A o \in Ops : op'[o] = IF o \in Closable(t) THEN Closed(o) ELSE op[o]
        BY <2>2, <3>1 DEF CloseUnstarted, FirstMissing
      <3>4. ASSUME NEW o \in Closable(t) PROVE CallMove(o)
        <4>1. op[o].status \notin Uncertain /\ op[o] \in OpRow
          BY <3>2, <3>4, <2>2, <1>a DEF Closable, Unresolved, OpsOf, Quiescent, InStatus
        <4>2. op'[o].claims = op[o].claims /\ op'[o].status \notin Uncertain /\ op'[o].status # "running"
          BY <3>2, <3>3, <3>4, <4>1 DEF Closed, OpRow, Uncertain
        <4> QED BY <3>2, <3>4, <4>2 DEF CallMove
      <3> QED BY <3>3, <3>4, <1>a DEF CallMove
    <2> QED BY <1>2, <1>b, <2>1, <2>2 DEF RecoverOwner
  <1>3. CASE TurnStep(t)
    BY <1>1, <1>2, <1>3, <1>b
    DEF TurnStep, StartTurn, StartChild, SettleChild, ReceiveInput, FailTurn, PauseTurn,
        InterruptOrphaned, RequestCancellation, ResumeChildWait, ResumeCancelled,
        CompleteTurn, PauseForChildren, AskQuestion, AnswerQuestion, untouchedByTurns, toolVars
  <1>4. CASE AnswerStep(t)
    BY <1>4, AnswerMoves
  <1>5. ASSUME NEW m, ModelStep(m) PROVE op' = op
    BY <1>5
    DEF ModelStep, PrepareModel, SupersedePrepared, DispatchModel, ExpireDispatch, MarkModelUnknown,
        PrepareScheduledRetry, CancelScheduledRetry, FailUnstartedRetry, RetryModel, ResponseHandled,
        CancelModelAttempt, FailureUnknown, FailureScheduled, FailureFinal, RejectModel, CompleteModel,
        toolVars
  <1>6. CASE LastWords(t)
    BY <1>6, <1>b DEF LastWords, Stop, StopBeforeProvider, Stopped, untouchedByTurns, toolVars, vars
  <1>7. ASSUME NEW m, NEW revision, PrepareModel(t, m, revision) PROVE op' = op
    BY <1>7 DEF PrepareModel, toolVars
  <1>8. UNCHANGED vars => op' = op
    BY DEF vars, toolVars
  <1> QED BY <1>3, <1>4, <1>5, <1>6, <1>7, <1>8, <1>b DEF TurnCommand

(* Only the claim of a call makes its worker a claimed one.                 *)
LEMMA ClaimedByClaim ==
    ASSUME RunnerTypeOK, NEW o \in Ops
    PROVE  /\ \A t \in Turns : DriverOwnStep(t) \/ OutsideStep(t) =>
                  (worker'[o] = "claimed" => worker[o] = "claimed")
           /\ \A p \in Ops : CallStep(p) /\ ~Claim(p) =>
                  (worker'[o] = "claimed" => worker[o] = "claimed")
  <1> USE DEF Work, WorkerStep
  <1>a. worker \in [Ops -> WorkerPhases]
    BY DEF RunnerTypeOK
  <1>1. ASSUME NEW t \in Turns, BatchStep(t), worker'[o] = "claimed" PROVE worker[o] = "claimed"
    BY <1>1, <1>a
    DEF BatchStep, NextSegment, EndBatch, StartGroup, DropUnclaimed, Drained, AnswerApproval, AnswerOutdated,
        RecoverApproved, RecoverOutdated, EndSingle, Idle
  <1>2. ASSUME NEW t \in Turns, DriverOwnStep(t), worker'[o] = "claimed" PROVE worker[o] = "claimed"
    <2>1. CASE ConsumeCalls(t)
      BY <1>2, <2>1 DEF ConsumeCalls
    <2>2. worker' = worker \/ ConsumeCalls(t) \/ BatchStep(t)
      BY <1>2
      DEF DriverOwnStep, DriverStep, Recover, RecoveryRefused, OfferRefused, AbortTurn, Offer, Decide,
          PrepareRequest, RequestOutdated, PermitRetry, Dispatch, DispatchRefused, Provider, EndAcknowledged,
          RetryDue, RetryWithdrawn, ConsumeAnswer, ConsumeRaises, AfterBatch, Mark, Finish, FinishOutdated,
          FinishRevoked, BeginCancel, WithdrawRetry, Withdraw, Close, GiveUp, DispatchExpired, Stopping,
          Stopped
    <2> QED BY <1>1, <1>2, <2>1, <2>2
  <1>3. ASSUME NEW t \in Turns, OutsideStep(t), worker'[o] = "claimed" PROVE worker[o] = "claimed"
    BY <1>3, <1>a
    DEF OutsideStep, DriverStep, Start, Stop, StopBeforeProvider, Crash, Reconcile, Outside, Resume, Idle
  <1>4. ASSUME NEW p \in Ops, CallStep(p), ~Claim(p), worker'[o] = "claimed" PROVE worker[o] = "claimed"
    BY <1>4, <1>a
    DEF CallStep, PrepareAllowed, PrepareDenied, AskingTooLate, Discard, ClaimRefused, RejectRevoked, RunEffect,
        RefuseLive, CommitKnown, RecordRejection, ResultRefused, ReportDenied, PrepareAsking, CommitUncertain,
        AskAnotherScope, Idle
  <1> QED BY <1>2, <1>3, <1>4

(* What keeps effects single and conflicting calls apart.                   *)
EffectInv == SettledIsLinked /\ ClaimedBeforeEffect /\ ConflictsExclude

LEMMA MovesKeepEffects ==
    ASSUME RunnerInv, EffectInv, \A o \in Ops : CallMove(o), effects' = effects,
           \A o \in Ops : worker'[o] = "claimed" => worker[o] = "claimed"
    PROVE  EffectInv'
  <1>1. \A o \in Ops : op[o].claims \in Nat /\ op'[o].claims = op[o].claims
    BY DEF RunnerInv, LedgerInv, TypeOK, ToolTypeOK, OpRow, CallMove
  <1>2. SettledIsLinked'
    BY <1>1 DEF SettledIsLinked, CallMove
  <1>3. ClaimedBeforeEffect'
    BY <1>1 DEF EffectInv, ClaimedBeforeEffect
  <1>4. ConflictsExclude'
    BY DEF EffectInv, ConflictsExclude, CallMove
  <1> QED BY <1>2, <1>3, <1>4 DEF EffectInv

LEMMA ClaimKeepsEffects ==
    ASSUME RunnerInv, EffectInv, NEW o \in Ops, Claim(o)
    PROVE  EffectInv'
  <1>1. /\ ~ResourceBusy(o)
        /\ op' = [op EXCEPT ![o].status = "running", ![o].claims = @ + 1]
        /\ worker' = [worker EXCEPT ![o] = "claimed"] /\ effects' = effects
    BY DEF Claim, ClaimOperation, WorkerStep, Work
  <1>2. /\ op \in [Ops -> OpRow] /\ worker \in [Ops -> WorkerPhases] /\ effects \in [Ops -> Nat]
        /\ op[o] \in OpRow /\ op[o].claims \in Nat /\ effects[o] \in Nat
    BY DEF RunnerInv, LedgerInv, TypeOK, ToolTypeOK, OpRow, RunnerTypeOK
  <1>3. /\ op'[o].status = "running" /\ op'[o].claims = op[o].claims + 1
        /\ \A p \in Ops \ {o} : op'[p] = op[p] /\ worker'[p] = worker[p]
    BY <1>1, <1>2 DEF OpRow
  <1>4. SettledIsLinked'
    BY <1>3 DEF EffectInv, SettledIsLinked, Uncertain
  <1>5. ClaimedBeforeEffect'
    <2>1. effects'[o] < op'[o].claims /\ effects'[o] <= op'[o].claims
      BY <1>1, <1>2, <1>3 DEF EffectInv, ClaimedBeforeEffect
    <2>2. \A p \in Ops \ {o} : /\ effects'[p] <= op'[p].claims
                               /\ worker'[p] = "claimed" => effects'[p] < op'[p].claims
      BY <1>1, <1>3 DEF EffectInv, ClaimedBeforeEffect
    <2> QED BY <2>1, <2>2 DEF ClaimedBeforeEffect
  <1>6. ConflictsExclude'
    <2> SUFFICES ASSUME NEW p \in Ops, NEW q \in Ops, <<p, q>> \in Conflicts, p # q,
                        op'[p].status \in Uncertain, op'[q].status \in Uncertain
                 PROVE  FALSE
      BY DEF ConflictsExclude
    <2>1. p # o /\ q # o
      BY <1>1, <1>3, ToolConstants DEF ResourceBusy
    <2> QED BY <2>1, <1>3 DEF EffectInv, ConflictsExclude
  <1> QED BY <1>4, <1>5, <1>6 DEF EffectInv

LEMMA RunKeepsEffects ==
    ASSUME RunnerInv, EffectInv, NEW o \in Ops, RunEffect(o)
    PROVE  EffectInv'
  <1>1. /\ op' = op /\ worker[o] = "claimed" /\ worker' = [worker EXCEPT ![o] = "ran"]
        /\ effects' = [effects EXCEPT ![o] = @ + 1]
    BY DEF RunEffect, Work, vars, toolVars
  <1>2. /\ worker \in [Ops -> WorkerPhases] /\ effects \in [Ops -> Nat]
        /\ \A p \in Ops : op[p].claims \in Nat /\ effects[p] \in Nat
    BY DEF RunnerInv, LedgerInv, TypeOK, ToolTypeOK, OpRow, RunnerTypeOK
  <1>3. ClaimedBeforeEffect'
    BY <1>1, <1>2 DEF EffectInv, ClaimedBeforeEffect
  <1>4. SettledIsLinked' /\ ConflictsExclude'
    BY <1>1 DEF EffectInv, SettledIsLinked, ConflictsExclude
  <1> QED BY <1>3, <1>4 DEF EffectInv

LEMMA EffectStep ==
    ASSUME RunnerInv, EffectInv, [RunnerNext]_runnerVars
    PROVE  EffectInv'
  <1>a. TypeOK /\ ToolInv /\ SettledIsLinked /\ RunnerTypeOK
    BY DEF RunnerInv, LedgerInv, EffectInv
  <1>1. CASE UNCHANGED runnerVars
    BY <1>1 DEF runnerVars, vars, toolVars, EffectInv, SettledIsLinked, ClaimedBeforeEffect, ConflictsExclude
  <1>2. ASSUME NEW t \in Turns, DriverOwnStep(t) \/ OutsideStep(t) PROVE EffectInv'
    BY <1>2, <1>a, TurnStepInvariant, TurnMovesCalls, ClaimedByClaim, MovesKeepEffects
  <1>3. ASSUME NEW o \in Ops, CallStep(o) PROVE EffectInv'
    <2>1. CASE Claim(o)
      BY <2>1, ClaimKeepsEffects
    <2>2. CASE RunEffect(o)
      BY <2>2, RunKeepsEffects
    <2>3. CASE ~Claim(o) /\ ~RunEffect(o)
      <3>1. effects' = effects
        BY <1>3, <2>3
        DEF CallStep, PrepareAllowed, PrepareDenied, AskingTooLate, Discard, ClaimRefused, RejectRevoked,
            RefuseLive, CommitKnown, RecordRejection, ResultRefused, ReportDenied, PrepareAsking,
            CommitUncertain, AskAnotherScope, WorkerStep
      <3>2. ~ClaimOperation(o)
        <4>1. ClaimOperation(o) => op[o].status = "ready" /\ op'[o].status = "running"
          BY <1>a DEF ClaimOperation, TypeOK, ToolTypeOK, OpRow
        <4>2. op'[o].status # "running" \/ op[o].status # "ready"
          BY <1>3, <2>3, <1>a
          DEF CallStep, PrepareAllowed, PrepareDenied, AskingTooLate, Discard, ClaimRefused, RejectRevoked,
              RefuseLive, CommitKnown, RecordRejection, ResultRefused, ReportDenied, PrepareAsking,
              CommitUncertain, AskAnotherScope, PrepareOperation, ReadyOperation, RecordRefusal, RequestApproval,
              RejectReady, RecordResult, RequestCancellation, CommitResult, CommitUnknownResult, SetStatus,
              TypeOK, ToolTypeOK, OpRow, vars, toolVars, untouchedByTurns
        <4> QED BY <4>1, <4>2
      <3>3. \A p \in Ops : CallMove(p)
        <4>1. CASE CallCommand(o)
          <5>1. CallMove(o) /\ \A p \in Ops \ {o} : op'[p] = op[p]
            BY <1>a, <3>2, <4>1, CallCommandMoves
          <5> QED BY <5>1, <1>a DEF CallMove, SettledIsLinked
        <4>2. CASE RequestCancellation(TurnOf[o]) \/ UNCHANGED vars
          BY <4>2, <1>a DEF RequestCancellation, untouchedByTurns, vars, toolVars, CallMove, SettledIsLinked
        <4> QED BY <1>3, <4>1, <4>2, CallStepCommands
      <3> QED BY <1>3, <1>a, <2>3, <3>1, <3>3, ClaimedByClaim, MovesKeepEffects
    <2> QED BY <2>1, <2>2, <2>3
  <1> QED BY <1>1, <1>2, <1>3 DEF RunnerNext

LEMMA EffectInit == RunnerInit => EffectInv
  BY DEF RunnerInit, Init, ToolInit, NoOpRow, EffectInv, SettledIsLinked, ClaimedBeforeEffect, ConflictsExclude,
         Uncertain

THEOREM EffectsFollowClaims == RunnerSpec => []EffectInv
  BY EffectInit, EffectStep, DriverKeepsLedger, PTL DEF RunnerSpec

(* No crash, replay, retry or reconciliation repeats an outside effect, and *)
(* none happens before its claim: for any number of Turns, calls, requests  *)
(* and attempts, and whatever the policy and the provider answer.           *)
THEOREM EffectsAreUnique == RunnerSpec => []EffectAtMostOnce
  <1>1. RunnerInv /\ EffectInv => EffectAtMostOnce
    BY DEF RunnerInv, LedgerInv, ToolInv, ClaimedStaysStarted, EffectInv, ClaimedBeforeEffect, EffectAtMostOnce
  <1> QED BY <1>1, DriverKeepsLedger, EffectsFollowClaims, PTL

(* Calls with conflicting resources are never uncertain together, in the    *)
(* batches of one Turn or of several.                                       *)
THEOREM ConflictsAreKeptApart == RunnerSpec => []ConflictsExclude
  <1>1. EffectInv => ConflictsExclude
    BY DEF EffectInv
  <1> QED BY <1>1, EffectsFollowClaims, PTL

(* The driver stays within its phases, and every route of the recovery plan *)
(* has an arm in its loop.                                                  *)
THEOREM DriverIsTyped == RunnerSpec => []RunnerTypeOK
  <1>1. RunnerInv => RunnerTypeOK
    BY DEF RunnerInv
  <1> QED BY <1>1, DriverKeepsLedger, PTL

-----------------------------------------------------------------------------
(* Open matters of a Turn *)

Live(t) == InStatus(t, {"running"})
Free(t) == Pending(t) = {} /\ ~ChildWaiting(t)
Calling == Working \cup Draining
Held == {"claimed", "ran", "refused"}

(* What waits for the user holds the Turn: nothing but a reconciliation may *)
(* wait beside a running call, and a Turn that ended left none behind.      *)
Matters(t) ==
    /\ Pending(t) # {} => turn[t] \in {"paused", "interrupted"}
    /\ \A r \in Pending(t) :
           interaction[r].kind # "tool_reconciliation" => Pending(t) = {r} /\ Live(t) = {}
    /\ turn[t] \notin Open => Live(t) = {}
    /\ ChildWaiting(t) => Pending(t) = {} /\ Live(t) = {}

(* What the driver relies on in the phases where it does not look again.    *)
Place(t) ==
    /\ turn[t] = "absent" => phase[t] = "off"
    /\ phase[t] \in {"dispatch", "await", "acked", "consume", "recheck"} => Free(t)
    /\ phase[t] = "answer" =>
           \E r \in Requests : Pending(t) = {r} /\ interaction[r].kind = "tool_approval"
    /\ phase[t] \in Calling =>
           /\ ~ChildWaiting(t)
           /\ \A r \in Pending(t) : interaction[r].kind = "tool_reconciliation"
    /\ Live(t) # {} => \/ phase[t] \in Calling \cup {"off", "recover", "stopped"}
                       \/ phase[t] = "offer" /\ PendingOf(t, "tool_reconciliation") # {}

(* A running call of a driver that is alive has a worker, which holds it;   *)
(* while calls are still being prepared no call of the batch runs, and an   *)
(* approved call is carried out alone.                                      *)
Workers(t) ==
    \A o \in OpsOf(t) :
        /\ worker[o] # "idle" => phase[t] \in Calling
        /\ worker[o] \in Held => op[o].status = "running"
        /\ phase[t] \in Working /\ op[o].status = "running" => worker[o] \in Held
        /\ \A p \in OpsOf(t) :
               /\ phase[t] = "batch" /\ worker[o] \in {"checked", "discard"} =>
                      worker[p] \notin {"active"} \cup Held
               /\ phase[t] = "single" /\ worker[o] # "idle" /\ worker[p] # "idle" => o = p

TurnInv(t) == Matters(t) /\ Place(t) /\ Workers(t)

-----------------------------------------------------------------------------
(* How a step changes what waits *)

(* The step concerns t alone.                                               *)
OnlyOf(t) ==
    /\ \A u \in Turns \ {t} : turn'[u] = turn[u] /\ childWait'[u] = childWait[u]
    /\ \A o \in Ops \ OpsOf(t) : op'[o] = op[o]
    /\ \A r \in Requests : interaction'[r] = interaction[r] \/ interaction'[r].turn = t
    /\ \A r \in Requests : \/ interaction'[r] = interaction[r]
                           \/ interaction[r].turn = t
                           \/ interaction[r].status = "free"

(* Nothing of this changes.                                                 *)
Still == UNCHANGED <<turn, childWait, interaction, op>>

LEMMA StillIsStill ==
    ASSUME Still, NEW t \in Turns
    PROVE  /\ Pending(t)' = Pending(t) /\ Live(t)' = Live(t)
           /\ \A kind : PendingOf(t, kind)' = PendingOf(t, kind)
           /\ Free(t)' = Free(t) /\ ChildWaiting(t)' = ChildWaiting(t)
           /\ Matters(t)' = Matters(t)
  <1>1. Pending(t)' = Pending(t) /\ Live(t)' = Live(t)
    BY DEF Still, Pending, Live, InStatus
  <1>2. \A kind : PendingOf(t, kind)' = PendingOf(t, kind)
    BY <1>1 DEF Still, PendingOf
  <1>3. Free(t)' = Free(t) /\ ChildWaiting(t)' = ChildWaiting(t)
    BY <1>1 DEF Still, Free, ChildWaiting
  <1>4. Matters(t)' = Matters(t)
    BY <1>1, <1>3 DEF Still, Matters
  <1> QED BY <1>1, <1>2, <1>3, <1>4

(* A Turn whose rows and whose driver did nothing keeps its invariant.      *)
LEMMA Bystander ==
    ASSUME NEW u \in Turns, TurnInv(u), turn'[u] = turn[u], childWait'[u] = childWait[u],
           Pending(u)' = Pending(u), \A r \in Pending(u) : interaction'[r].kind = interaction[r].kind,
           \A o \in OpsOf(u) : op'[o] = op[o] /\ worker'[o] = worker[o], phase'[u] = phase[u]
    PROVE  TurnInv(u)'
  <1>1. Live(u)' = Live(u)
    BY DEF Live, InStatus
  <1>2. Free(u)' = Free(u) /\ ChildWaiting(u)' = ChildWaiting(u)
    BY DEF Free, ChildWaiting
  <1>3. PendingOf(u, "tool_reconciliation")' = PendingOf(u, "tool_reconciliation")
    BY DEF PendingOf
  <1>4. Matters(u)'
    BY <1>1, <1>2 DEF TurnInv, Matters
  <1>5. Place(u)'
    BY <1>1, <1>2, <1>3 DEF TurnInv, Place
  <1>6. OpsOf(u)' = OpsOf(u)
    BY DEF OpsOf
  <1>7. Workers(u)'
    BY <1>6 DEF TurnInv, Workers
  <1> QED BY <1>4, <1>5, <1>7 DEF TurnInv

LEMMA OthersRest ==
    ASSUME NEW t \in Turns, OnlyOf(t), OthersLeft(t), NEW u \in Turns \ {t}, TurnInv(u)
    PROVE  TurnInv(u)'
  <1>1. Pending(u)' = Pending(u)
    BY TurnConstants DEF Pending, OnlyOf
  <1>2. \A r \in Pending(u) : interaction'[r].kind = interaction[r].kind
    BY TurnConstants DEF Pending, OnlyOf
  <1>3. \A o \in OpsOf(u) : op'[o] = op[o] /\ worker'[o] = worker[o]
    BY DEF OpsOf, OnlyOf, OthersLeft
  <1> QED BY <1>1, <1>2, <1>3, Bystander DEF OnlyOf, OthersLeft

LEMMA Clear ==
    ASSUME NEW t \in Turns, Pending(t)' = {}, Live(t)' = {} \/ (turn'[t] \in Open /\ ~ChildWaiting(t)')
    PROVE  Matters(t)'
  BY DEF Matters

(* A fresh row.                                                             *)
LEMMA AskedPending ==
    ASSUME TypeOK, NEW t \in Turns, NEW r \in Requests, Fresh(r), NEW kind, NEW o,
           interaction' = [interaction EXCEPT ![r] = Asked(kind, t, o)]
    PROVE  /\ Pending(t)' = Pending(t) \cup {r}
           /\ interaction'[r].kind = kind
           /\ \A q \in Pending(t) : q # r /\ interaction'[q] = interaction[q]
  <1>1. interaction[r].status = "free" /\ interaction \in [Requests -> InteractionRow]
    BY DEF Fresh, TypeOK, TurnTypeOK
  <1>2. interaction'[r].status = "pending" /\ interaction'[r].turn = t /\ interaction'[r].kind = kind
    BY <1>1 DEF Asked, FreeRow
  <1>3. \A q \in Requests \ {r} : interaction'[q] = interaction[q]
    BY <1>1
  <1>4. \A q \in Pending(t) : q # r
    BY <1>1 DEF Pending
  <1> QED BY <1>2, <1>3, <1>4 DEF Pending

(* The answered row.                                                        *)
LEMMA AnsweredPending ==
    ASSUME NEW t \in Turns, NEW r \in Requests, interaction'[r].status = "resolved",
           \A q \in Requests \ {r} : interaction'[q] = interaction[q]
    PROVE  Pending(t)' = Pending(t) \ {r}
  BY DEF Pending

(* A reconciliation more beside a call that runs.                           *)
LEMMA AskedToReconcile ==
    ASSUME TypeOK, NEW t \in Turns, Matters(t), NEW r \in Requests, NEW o, Fresh(r), Live(t) # {},
           interaction' = [interaction EXCEPT ![r] = Asked("tool_reconciliation", t, o)],
           turn'[t] \in {"paused", "interrupted"}, ~ChildWaiting(t)'
    PROVE  /\ Matters(t)' /\ PendingOf(t, "tool_reconciliation")' # {}
           /\ \A q \in Pending(t)' : interaction'[q].kind = "tool_reconciliation"
  <1>1. /\ Pending(t)' = Pending(t) \cup {r}
        /\ interaction'[r].kind = "tool_reconciliation"
        /\ \A q \in Pending(t) : interaction'[q] = interaction[q]
    BY AskedPending
  <1>2. \A q \in Pending(t) : interaction[q].kind = "tool_reconciliation"
    BY DEF Matters
  <1>3. \A q \in Pending(t)' : interaction'[q].kind = "tool_reconciliation"
    BY <1>1, <1>2
  <1>4. r \in PendingOf(t, "tool_reconciliation")'
    BY <1>1 DEF PendingOf
  <1>5. turn'[t] \in Open
    BY DEF Open
  <1> QED BY <1>3, <1>4, <1>5 DEF Matters

(* The only question.                                                       *)
LEMMA AskedAlone ==
    ASSUME NEW t \in Turns, NEW r, Pending(t)' = {r}, Live(t)' = {}, turn'[t] = "paused", ~ChildWaiting(t)'
    PROVE  Matters(t)'
  BY DEF Matters, ChildWaiting

-----------------------------------------------------------------------------
(* Each command concerns one Turn                                           *)

LEMMA AnswersAreLocal ==
    ASSUME TypeOK, ToolInv, NEW t \in Turns, AnswerStep(t)
    PROVE  OnlyOf(t)
  <1> USE DEF SetStatus, Answered
  <1>a. /\ op \in [Ops -> OpRow] /\ interaction \in [Requests -> InteractionRow]
        /\ turn \in [Turns -> TurnStatus] /\ childWait \in [Turns -> Nat]
    BY DEF TypeOK, TurnTypeOK, ToolTypeOK
  <1>b. \A r \in Requests : interaction[r].kind \in ToolQuestion =>
            interaction[r].op \in Ops /\ interaction[r].turn = TurnOf[interaction[r].op]
    BY DEF ToolInv, RowsNameTheirCall
  <1>c. ASSUME \A u \in Turns \ {t} : turn'[u] = turn[u] /\ childWait'[u] = childWait[u],
               NEW o \in OpsOf(t), \A p \in Ops \ {o} : op'[p] = op[p],
               \A r \in Requests : \/ interaction'[r] = interaction[r]
                                  \/ /\ interaction'[r].turn = t
                                     /\ interaction[r].turn = t \/ interaction[r].status = "free"
        PROVE  OnlyOf(t)
    BY <1>c DEF OnlyOf, OpsOf
  <1>d. (Resumed(t) /\ UNCHANGED childWait) \/ Paused(t) \/ UNCHANGED <<turn, childWait>> =>
            \A u \in Turns \ {t} : turn'[u] = turn[u] /\ childWait'[u] = childWait[u]
    BY <1>a DEF Resumed, Paused, SetTurn
  <1>e. ASSUME NEW r \in Requests, interaction[r].turn = t, interaction[r].kind \in ToolQuestion,
               interaction'[r].turn = t, \A q \in Requests \ {r} : interaction'[q] = interaction[q],
               \A p \in Ops \ {interaction[r].op} : op'[p] = op[p],
               (Resumed(t) /\ UNCHANGED childWait) \/ Paused(t) \/ UNCHANGED <<turn, childWait>>
        PROVE  OnlyOf(t)
    <2>1. PICK o \in OpsOf(t) : o = interaction[r].op
      BY <1>b, <1>e DEF OpsOf
    <2> QED BY <2>1, <1>a, <1>c, <1>d, <1>e
  <1>f. ASSUME NEW kind \in ToolQuestion, NEW r \in Requests, OnlyPending(t, kind, r)
        PROVE  interaction[r].turn = t /\ interaction[r].kind \in ToolQuestion
    BY <1>f DEF OnlyPending, PendingOf, Pending
  <1>1. ASSUME NEW r \in Requests, RefreshApproval(t, r) PROVE OnlyOf(t)
    <2>1. PICK o \in OpsOf(t) :
            /\ Reapprovable(t) = {o}
            /\ interaction' = [interaction EXCEPT
                   ![op[o].approval] = IF interaction[op[o].approval].status = "pending"
                                       THEN Answered(op[o].approval, "recheck", "invalidated")
                                       ELSE [interaction[op[o].approval] EXCEPT !.approval = "invalidated"],
                   ![r] = Asked("tool_approval", t, o)]
            /\ op' = [op EXCEPT ![o].status = "awaiting_approval", ![o].approval = r]
      BY <1>1 DEF RefreshApproval
    <2>2. o \in Ops /\ op[o].approval \in Requests /\ interaction[op[o].approval].turn = t
      BY <2>1, <1>a, <1>b
      DEF Reapprovable, OpsOf, ToolInv, ApprovalIsOfCall, ToolQuestion, OpRow
    <2>3. PICK q \in Requests : q = op[o].approval
      BY <2>2
    <2>4. interaction'[q].turn = t /\ interaction'[r].turn = t
      BY <2>1, <2>2, <2>3, <1>a DEF Asked, FreeRow, InteractionRow
    <2>5. \A p \in Requests \ {q, r} : interaction'[p] = interaction[p]
      BY <2>1, <2>3, <1>a
    <2>6. interaction[q].turn = t /\ interaction[r].status = "free"
      BY <1>1, <2>2, <2>3 DEF RefreshApproval, Fresh
    <2>7. Paused(t) \/ UNCHANGED <<turn, childWait>>
      BY <1>1 DEF RefreshApproval
    <2> QED BY <2>1, <2>4, <2>5, <2>6, <2>7, <1>a, <1>c, <1>d
  <1>2. ASSUME InvalidateApproval(t) PROVE OnlyOf(t)
    <2>1. PICK r \in Requests :
            /\ OnlyPending(t, "tool_approval", r)
            /\ interaction' = [interaction EXCEPT ![r] = Answered(r, "approve", "invalidated")]
            /\ SetStatus(interaction[r].op, "superseded")
      BY <1>2 DEF InvalidateApproval
    <2>2. interaction[r].turn = t /\ interaction[r].kind \in ToolQuestion
      BY <2>1, <1>f DEF ToolQuestion
    <2>3. interaction'[r].turn = t /\ \A q \in Requests \ {r} : interaction'[q] = interaction[q]
      BY <2>1, <2>2, <1>a DEF InteractionRow
    <2> QED BY <1>2, <2>1, <2>2, <2>3, <1>a, <1>e DEF InvalidateApproval
  <1>3. ASSUME InvalidateResolvedApproval(t) PROVE OnlyOf(t)
    <2>1. PICK r \in Requests :
            /\ NewestAnswer(t, r)
            /\ interaction' = [interaction EXCEPT ![r].approval = "invalidated"]
            /\ SetStatus(interaction[r].op, "superseded")
      BY <1>3 DEF InvalidateResolvedApproval
    <2>2. interaction[r].turn = t /\ interaction[r].kind \in ToolQuestion
      BY <2>1 DEF NewestAnswer, ToolQuestion
    <2>3. interaction'[r].turn = t /\ \A q \in Requests \ {r} : interaction'[q] = interaction[q]
      BY <2>1, <2>2, <1>a DEF InteractionRow
    <2> QED BY <1>3, <2>1, <2>2, <2>3, <1>a, <1>e DEF InvalidateResolvedApproval
  <1>4. ASSUME NEW decision \in {"approve", "deny"}, NEW recheck \in BOOLEAN,
               ResolveApproval(t, decision, recheck)
        PROVE  OnlyOf(t)
    <2>1. PICK r \in Requests :
            /\ OnlyPending(t, "tool_approval", r)
            /\ interaction' = [interaction EXCEPT ![r] =
                   [Answered(r, decision, IF decision = "approve" THEN "approved" ELSE "denied")
                        EXCEPT !.recheck = recheck]]
            /\ SetStatus(interaction[r].op, IF decision = "approve" THEN "ready" ELSE "denied")
      BY <1>4 DEF ResolveApproval
    <2>2. interaction[r].turn = t /\ interaction[r].kind \in ToolQuestion
      BY <2>1, <1>f DEF ToolQuestion
    <2>3. interaction'[r].turn = t /\ \A q \in Requests \ {r} : interaction'[q] = interaction[q]
      BY <2>1, <2>2, <1>a DEF InteractionRow
    <2> QED BY <1>4, <2>1, <2>2, <2>3, <1>a, <1>e DEF ResolveApproval
  <1>5. ASSUME NEW status \in {"succeeded", "failed", "cancelled"}, ResolveReconciliation(t, status)
        PROVE  OnlyOf(t)
    <2>1. PICK r \in Requests :
            /\ OnlyPending(t, "tool_reconciliation", r)
            /\ interaction' = [interaction EXCEPT ![r] = Answered(r, "reconciled", "none")]
            /\ op' = [op EXCEPT ![interaction[r].op].status = status, ![interaction[r].op].linked = TRUE]
      BY <1>5 DEF ResolveReconciliation
    <2>2. interaction[r].turn = t /\ interaction[r].kind \in ToolQuestion
      BY <2>1, <1>f DEF ToolQuestion
    <2>3. interaction'[r].turn = t /\ \A q \in Requests \ {r} : interaction'[q] = interaction[q]
      BY <2>1, <2>2, <1>a DEF InteractionRow
    <2> QED BY <1>5, <2>1, <2>2, <2>3, <1>a, <1>e DEF ResolveReconciliation
  <1> QED BY <1>1, <1>2, <1>3, <1>4, <1>5 DEF AnswerStep

LEMMA RecoveryIsLocal ==
    ASSUME TypeOK, NEW t \in Turns, NEW abort \in BOOLEAN, RecoverOwner(t, abort)
    PROVE  OnlyOf(t)
  <1>a. /\ op \in [Ops -> OpRow] /\ interaction \in [Requests -> InteractionRow]
        /\ turn \in [Turns -> TurnStatus] /\ childWait \in [Turns -> Nat]
    BY DEF TypeOK, TurnTypeOK, ToolTypeOK
  <1>b. ASSUME NEW o \in OpsOf(t), NEW r \in Requests, AskReconciliation(o, r)
        PROVE  \A q \in Requests : \/ interaction'[q] = interaction[q]
                                   \/ interaction'[q].turn = t /\ interaction[q].status = "free"
    <2>1. /\ interaction' = [interaction EXCEPT ![r] = Asked("tool_reconciliation", t, o)]
          /\ interaction[r].status = "free"
      BY <1>b DEF AskReconciliation, OpsOf, Fresh
    <2> QED BY <2>1, <1>a DEF Asked, FreeRow
  <1>1. \A u \in Turns \ {t} : turn'[u] = turn[u] /\ childWait'[u] = childWait[u]
    BY <1>a DEF RecoverOwner, CloseUnstarted, Paused, SetTurn
  <1>2. \/ \E o \in OpsOf(t), r \in Requests : AskReconciliation(o, r)
        \/ interaction' = interaction
    BY DEF RecoverOwner, CloseUnstarted, LoseTool, FirstMissing, Missing, Unresolved, OpsOf
  <1>3. \A o \in Ops \ OpsOf(t) : op'[o] = op[o]
    <2>1. ASSUME NEW o \in Ops, NEW r \in Requests, LoseTool(t, o, r)
          PROVE  \A p \in Ops \ OpsOf(t) : op'[p] = op[p]
      BY <2>1, <1>a DEF LoseTool, SetStatus, OpsOf
    <2>2. ASSUME CloseUnstarted(t) PROVE \A p \in Ops \ OpsOf(t) : op'[p] = op[p]
      BY <2>2 DEF CloseUnstarted, Closable, FirstMissing, Missing, Unresolved
    <2> QED BY <2>1, <2>2 DEF RecoverOwner
  <1> QED BY <1>1, <1>2, <1>3, <1>b DEF OnlyOf

LEMMA CommandsAreLocal ==
    ASSUME TypeOK, ToolInv, NEW t \in Turns, TurnCommand(t) \/ LastWords(t)
    PROVE  OnlyOf(t)
  <1>a. /\ op \in [Ops -> OpRow] /\ interaction \in [Requests -> InteractionRow]
        /\ turn \in [Turns -> TurnStatus] /\ childWait \in [Turns -> Nat]
    BY DEF TypeOK, TurnTypeOK, ToolTypeOK
  <1> DEFINE OwnTurn == /\ \A u \in Turns \ {t} : turn'[u] = turn[u] /\ childWait'[u] = childWait[u]
                        /\ op' = op /\ interaction' = interaction
  <1>b. OwnTurn => OnlyOf(t)
    BY DEF OnlyOf
  <1> HIDE DEF OwnTurn
  <1>1. CASE CancelTurn(t)
    <2>1. \A u \in Turns \ {t} : turn'[u] = turn[u] /\ childWait'[u] = childWait[u]
      BY <1>1, <1>a DEF CancelTurn, Ended, SetTurn
    <2>2. \A r \in Requests : \/ interaction'[r] = interaction[r]
                              \/ interaction'[r].turn = t /\ interaction[r].turn = t
      BY <1>1, <1>a DEF CancelTurn, Pending, Answered, InteractionRow
    <2>3. \A o \in Ops \ OpsOf(t) : op'[o] = op[o]
      <3>1. \A r \in Pending(t) : interaction[r].op \in Ops => interaction[r].op \in OpsOf(t)
        BY TurnConstants DEF Pending, OpsOf, ToolInv, RowsNameTheirCall
      <3> QED BY <1>1, <3>1 DEF CancelTurn
    <2> QED BY <2>1, <2>2, <2>3 DEF OnlyOf
  <1>2. ASSUME NEW r \in Requests, AskQuestion(t, r) PROVE OnlyOf(t)
    <2>1. \A u \in Turns \ {t} : turn'[u] = turn[u] /\ childWait'[u] = childWait[u]
      BY <1>2, <1>a DEF AskQuestion, Paused, SetTurn
    <2>2. op' = op
      BY <1>2 DEF AskQuestion, untouchedByTurns, toolVars
    <2>3. interaction' = [interaction EXCEPT ![r] = Asked("question", t, NoOp)] /\ interaction[r].status = "free"
      BY <1>2 DEF AskQuestion, Fresh
    <2>4. interaction'[r].turn = t /\ \A q \in Requests \ {r} : interaction'[q] = interaction[q]
      BY <2>3, <1>a DEF Asked, FreeRow
    <2> QED BY <2>1, <2>2, <2>3, <2>4 DEF OnlyOf
  <1>3. ASSUME NEW r \in Requests, AnswerQuestion(t, r) PROVE OnlyOf(t)
    <2>1. \A u \in Turns \ {t} : turn'[u] = turn[u] /\ childWait'[u] = childWait[u]
      BY <1>3, <1>a DEF AnswerQuestion, Resumed, SetTurn
    <2>2. op' = op
      BY <1>3 DEF AnswerQuestion, untouchedByTurns, toolVars
    <2>3. interaction[r].turn = t /\ interaction' = [interaction EXCEPT ![r] = Answered(r, "answered", "none")]
      BY <1>3 DEF AnswerQuestion, PendingOf, Pending
    <2>4. interaction'[r].turn = t /\ \A q \in Requests \ {r} : interaction'[q] = interaction[q]
      BY <2>3, <1>a DEF Answered, InteractionRow
    <2> QED BY <2>1, <2>2, <2>3, <2>4 DEF OnlyOf
  <1>4. CASE TurnStep(t)
    <2>1. CASE \/ StartTurn(t) \/ StartChild(t) \/ SettleChild(t) \/ ReceiveInput(t) \/ FailTurn(t)
               \/ PauseTurn(t) \/ InterruptOrphaned(t) \/ RequestCancellation(t) \/ ResumeChildWait(t)
               \/ ResumeCancelled(t)
               \/ \E revision : CompleteTurn(t, revision) \/ PauseForChildren(t, revision)
      <3>1. OwnTurn
        BY <2>1, <1>a
        DEF OwnTurn, StartTurn, StartChild, SettleChild, ReceiveInput, FailTurn, PauseTurn,
            InterruptOrphaned, RequestCancellation, ResumeChildWait, ResumeCancelled, CompleteTurn,
            PauseForChildren, Paused, Resumed, Ended, SetTurn, untouchedByTurns, toolVars
      <3> QED BY <3>1, <1>b
    <2> QED BY <1>1, <1>2, <1>3, <1>4, <2>1, RecoveryIsLocal DEF TurnStep
  <1>5. ASSUME NEW u \in Turns, NEW m, NEW revision, PrepareModel(u, m, revision) PROVE OwnTurn
    BY <1>5 DEF PrepareModel, toolVars, turnVars, OwnTurn
  <1>6. ASSUME NEW m \in ModelsOf(t), ModelStep(m) PROVE OwnTurn
    <2>a. model[m].turn = t
      BY DEF ModelsOf
    <2> QED
      BY <1>5, <1>6, <2>a, <1>a
      DEF OwnTurn, ModelStep, SupersedePrepared, DispatchModel, ExpireDispatch, MarkModelUnknown,
          PrepareScheduledRetry, CancelScheduledRetry, FailUnstartedRetry, RetryModel, ResponseHandled,
          CancelModelAttempt, FailureUnknown, FailureScheduled, FailureFinal, RejectModel, CompleteModel,
          InterruptedIfRunning, Resumed, Ended, SetTurn, untouchedByModels, toolVars, turnVars
  <1>7. LastWords(t) => OwnTurn
    BY <1>a
    DEF OwnTurn, LastWords, Stop, StopBeforeProvider, Stopped, InterruptedIfRunning, Paused, SetTurn, At,
        untouchedByTurns, toolVars, vars, turnVars
  <1>8. UNCHANGED vars => OwnTurn
    BY DEF OwnTurn, vars, toolVars, turnVars
  <1> QED BY <1>4, <1>5, <1>6, <1>7, <1>8, <1>b, AnswersAreLocal DEF TurnCommand

LEMMA CallsAreLocal ==
    ASSUME TypeOK, NEW o \in Ops, CallCommand(o)
    PROVE  OnlyOf(TurnOf[o])
  <1> DEFINE t == TurnOf[o]
  <1>a. /\ op \in [Ops -> OpRow] /\ interaction \in [Requests -> InteractionRow]
        /\ turn \in [Turns -> TurnStatus] /\ childWait \in [Turns -> Nat]
    BY DEF TypeOK, TurnTypeOK, ToolTypeOK
  <1>1. \A p \in Ops \ {o} : op'[p] = op[p]
    BY <1>a
    DEF CallCommand, PrepareOperation, ReadyOperation, ClaimOperation, RecordResult, RecordRefusal,
        RejectReady, CommitResult, RequestApproval, CommitUnknownResult, SetStatus
  <1>2. \A u \in Turns \ {t} : turn'[u] = turn[u] /\ childWait'[u] = childWait[u]
    BY <1>a
    DEF CallCommand, PrepareOperation, ReadyOperation, ClaimOperation, RecordResult, RecordRefusal,
        RejectReady, CommitResult, RequestApproval, CommitUnknownResult, turnVars, Paused, SetTurn
  <1>3. \/ interaction' = interaction
        \/ \E r \in Requests, kind \in ToolQuestion :
               Fresh(r) /\ interaction' = [interaction EXCEPT ![r] = Asked(kind, t, o)]
    BY DEF CallCommand, PrepareOperation, ReadyOperation, ClaimOperation, RecordResult, RecordRefusal,
        RejectReady, CommitResult, RequestApproval, CommitUnknownResult, AskReconciliation, turnVars,
        ToolQuestion
  <1>4. \A r \in Requests : \/ interaction'[r] = interaction[r]
                            \/ interaction'[r].turn = t /\ interaction[r].status = "free"
    BY <1>3, <1>a DEF Asked, FreeRow, Fresh
  <1> QED BY <1>1, <1>2, <1>4 DEF OnlyOf, OpsOf

-----------------------------------------------------------------------------
(* What the commands do to the open matters of their Turn                   *)

LEMMA LiveShrinks ==
    ASSUME NEW t \in Turns, \A o \in Ops : CallMove(o)
    PROVE  Live(t)' \subseteq Live(t)
  BY DEF Live, InStatus, OpsOf, CallMove

LEMMA RecoveryMatters ==
    ASSUME TypeOK, ToolInv, SettledIsLinked, NEW t \in Turns, Matters(t), NEW abort \in BOOLEAN,
           RecoverOwner(t, abort)
    PROVE  /\ Matters(t)' /\ turn'[t] \in Open /\ Live(t)' \subseteq Live(t)
           /\ Live(t)' = {} \/ PendingOf(t, "tool_reconciliation")' # {}
  <1>a. /\ turn[t] \in Open /\ turn[t] \in TurnStatus
        /\ turn \in [Turns -> TurnStatus] /\ childWait \in [Turns -> Nat]
    BY DEF TypeOK, TurnTypeOK, RecoverOwner
  <1>1. Live(t)' \subseteq Live(t)
    <2>1. TurnCommand(t)
      BY DEF TurnCommand, TurnStep
    <2> QED BY <2>1, TurnMovesCalls, LiveShrinks
  <1>2. CASE \E o \in Ops, r \in Requests :
                 /\ LoseTool(t, o, r)
                 /\ \/ Paused(t)
                    \/ AfterLostModels(t) # "running" /\ SetTurn(t, AfterLostModels(t)) /\ UNCHANGED childWait
    <2>1. PICK o \in Ops, r \in Requests :
                 /\ LoseTool(t, o, r)
                 /\ \/ Paused(t)
                    \/ AfterLostModels(t) # "running" /\ SetTurn(t, AfterLostModels(t)) /\ UNCHANGED childWait
      BY <1>2
    <2>2. o \in Live(t)
      BY <2>1 DEF LoseTool, Live, InStatus, OpsOf
    <2>3. ~ChildWaiting(t)
      BY <2>2 DEF Matters
    <2>4. turn'[t] \in {"paused", "interrupted"} /\ ~ChildWaiting(t)'
      BY <2>1, <2>3, <1>a DEF Paused, SetTurn, AfterLostModels, Running, ChildWaiting, Open
    <2>5. Fresh(r) /\ interaction' = [interaction EXCEPT ![r] = Asked("tool_reconciliation", t, o)]
      BY <2>1 DEF LoseTool, AskReconciliation
    <2> QED BY <2>2, <2>4, <2>5, <1>1, AskedToReconcile DEF Open
  <1>3. CASE /\ InStatus(t, {"running"}) = {} \/ PendingOf(t, "tool_reconciliation") # {}
             /\ SetTurn(t, AfterLostModels(t))
             /\ UNCHANGED <<childWait, interaction, op, reported>>
    <2>1. Live(t)' = Live(t) /\ Pending(t)' = Pending(t)
      BY <1>3 DEF Live, InStatus, Pending
    <2>2. PendingOf(t, "tool_reconciliation")' = PendingOf(t, "tool_reconciliation")
      BY <1>3, <2>1 DEF PendingOf
    <2>3. CASE turn'[t] = turn[t]
      <3>1. Still
        BY <1>3, <2>3, <1>a DEF Still, SetTurn
      <3>2. Matters(t)'
        BY <3>1, StillIsStill
      <3> QED BY <1>3, <2>1, <2>2, <2>3, <3>2, <1>a DEF Live
    <2>4. CASE turn'[t] # turn[t]
      <3>1. Running(t) /\ turn'[t] = "interrupted"
        BY <1>3, <2>4, <1>a DEF SetTurn, AfterLostModels
      <3>2. Pending(t)' = {} /\ ~ChildWaiting(t)' /\ turn'[t] \in Open
        BY <3>1, <2>1 DEF Matters, Running, ChildWaiting, Open
      <3> QED BY <1>3, <2>1, <2>2, <3>2, Clear DEF Live
    <2> QED BY <2>3, <2>4
  <1>4. CASE Running(t) /\ Quiescent(t) /\ CloseUnstarted(t)
    <2>1. Live(t) = {}
      BY <1>4 DEF Quiescent, Live, InStatus, Uncertain
    <2>2. Missing(t) = {}
      <3>1. \A o \in Ops : op[o].claims > 0 /\ op[o].status \notin Uncertain => op[o].linked
        BY DEF SettledIsLinked
      <3> QED BY <1>4, <3>1 DEF Missing, Unresolved, OpsOf, Quiescent, InStatus
    <2>3. interaction' = interaction /\ turn'[t] = "paused" /\ childWait'[t] = 0
      BY <1>4, <2>2, <1>a DEF CloseUnstarted, Paused, SetTurn
    <2>4. Pending(t)' = {}
      BY <1>4, <2>3 DEF Matters, Running, Pending
    <2> QED BY <2>1, <2>3, <2>4, <1>1, Clear DEF Open
  <1>5. AfterLostModels(t) = "running" => Running(t)
    BY <1>a DEF AfterLostModels, Running
  <1> QED BY <1>2, <1>3, <1>4, <1>5 DEF RecoverOwner

LEMMA CancelMatters ==
    ASSUME TypeOK, ToolInv, SettledIsLinked, NEW t \in Turns, CancelTurn(t)
    PROVE  Pending(t)' = {} /\ Live(t)' = {} /\ turn'[t] = "cancelled"
  <1>1. Live(t)' \subseteq Live(t)
    <2>1. TurnCommand(t)
      BY DEF TurnCommand, TurnStep
    <2> QED BY <2>1, TurnMovesCalls, LiveShrinks
  <1>2. Live(t) = {}
    BY DEF CancelTurn, Quiescent, Live, InStatus, Uncertain
  <1>3. Pending(t)' = {}
    <2>1. interaction \in [Requests -> InteractionRow]
      BY DEF TypeOK, TurnTypeOK
    <2>2. \A r \in Requests : interaction'[r] = IF r \in Pending(t) THEN Answered(r, "abort", "denied")
                                                ELSE interaction[r]
      BY DEF CancelTurn
    <2>3. \A r \in Pending(t) : interaction'[r].status # "pending"
      BY <2>1, <2>2 DEF Pending, Answered, InteractionRow
    <2>4. \A r \in Requests \ Pending(t) : interaction'[r] = interaction[r]
      BY <2>2
    <2> QED BY <2>3, <2>4 DEF Pending
  <1>4. turn'[t] = "cancelled"
    BY DEF CancelTurn, Ended, SetTurn, TypeOK, TurnTypeOK
  <1> QED BY <1>1, <1>2, <1>3, <1>4

(* A question that is asked.                                                *)
LEMMA QuestionMatters ==
    ASSUME TypeOK, NEW t \in Turns, Matters(t), Running(t), Live(t)' = {},
           NEW r \in Requests, Fresh(r), NEW kind, NEW o, Paused(t),
           interaction' = [interaction EXCEPT ![r] = Asked(kind, t, o)]
    PROVE  Matters(t)'
  <1>1. Pending(t)' = Pending(t) \cup {r}
    BY AskedPending
  <1>2. Pending(t) = {}
    BY DEF Matters, Running
  <1>3. turn'[t] = "paused" /\ childWait'[t] = 0
    BY DEF Paused, SetTurn, TypeOK, TurnTypeOK
  <1>4. ~ChildWaiting(t)'
    BY <1>3 DEF ChildWaiting
  <1>5. Pending(t)' = {r}
    BY <1>1, <1>2
  <1> QED BY <1>3, <1>4, <1>5, AskedAlone

(* Questions that are answered.                                             *)
LEMMA AnswerMatters ==
    ASSUME TypeOK, NEW t \in Turns, Matters(t), NEW kind, NEW r \in Requests,
           OnlyPending(t, kind, r) \/ (r \in PendingOf(t, kind) /\ kind # "tool_reconciliation"),
           interaction'[r].status = "resolved", \A q \in Requests \ {r} : interaction'[q] = interaction[q]
    PROVE  Pending(t)' = {}
  <1>1. r \in Pending(t) /\ interaction[r].kind = kind
    BY DEF OnlyPending, PendingOf
  <1>2. Pending(t) = {r}
    <2>1. CASE kind # "tool_reconciliation"
      BY <1>1, <2>1 DEF Matters
    <2>2. CASE kind = "tool_reconciliation"
      <3>1. \A q \in Pending(t) : interaction[q].kind = "tool_reconciliation"
        BY <1>1, <2>2 DEF Matters
      <3> QED BY <2>2, <3>1, <1>1 DEF OnlyPending, PendingOf
    <2> QED BY <2>1, <2>2
  <1> QED BY <1>2, AnsweredPending

(* Every answer but a fresh request leaves nothing waiting.                 *)
LEMMA ResolvedMatters ==
    ASSUME TypeOK, NEW t \in Turns, Matters(t),
           \/ \E decision \in {"approve", "deny"}, recheck \in BOOLEAN : ResolveApproval(t, decision, recheck)
           \/ \E status \in {"succeeded", "failed", "cancelled"} : ResolveReconciliation(t, status)
           \/ \E r \in Requests : AnswerQuestion(t, r)
    PROVE  Pending(t)' = {} /\ turn'[t] = "running"
  <1>a. /\ turn \in [Turns -> TurnStatus] /\ interaction \in [Requests -> InteractionRow]
    BY DEF TypeOK, TurnTypeOK
  <1>1. turn'[t] = "running"
    BY <1>a DEF ResolveApproval, ResolveReconciliation, AnswerQuestion, Resumed, SetTurn
  <1>2. ASSUME NEW decision, NEW recheck, ResolveApproval(t, decision, recheck) PROVE Pending(t)' = {}
    <2>1. PICK r \in Requests :
            /\ OnlyPending(t, "tool_approval", r)
            /\ interaction' = [interaction EXCEPT ![r] =
                   [Answered(r, decision, IF decision = "approve" THEN "approved" ELSE "denied")
                        EXCEPT !.recheck = recheck]]
      BY <1>2 DEF ResolveApproval
    <2>2. interaction'[r].status = "resolved" /\ \A q \in Requests \ {r} : interaction'[q] = interaction[q]
      BY <2>1, <1>a DEF Answered, InteractionRow
    <2> QED BY <2>1, <2>2, AnswerMatters
  <1>3. ASSUME NEW status, ResolveReconciliation(t, status) PROVE Pending(t)' = {}
    <2>1. PICK r \in Requests :
            /\ OnlyPending(t, "tool_reconciliation", r)
            /\ interaction' = [interaction EXCEPT ![r] = Answered(r, "reconciled", "none")]
      BY <1>3 DEF ResolveReconciliation
    <2>2. interaction'[r].status = "resolved" /\ \A q \in Requests \ {r} : interaction'[q] = interaction[q]
      BY <2>1, <1>a DEF Answered, InteractionRow
    <2> QED BY <2>1, <2>2, AnswerMatters
  <1>4. ASSUME NEW r \in Requests, AnswerQuestion(t, r) PROVE Pending(t)' = {}
    <2>1. /\ r \in PendingOf(t, "question")
          /\ interaction' = [interaction EXCEPT ![r] = Answered(r, "answered", "none")]
      BY <1>4 DEF AnswerQuestion
    <2>2. interaction'[r].status = "resolved" /\ \A q \in Requests \ {r} : interaction'[q] = interaction[q]
      BY <2>1, <1>a DEF Answered, InteractionRow
    <2> QED BY <2>1, <2>2, AnswerMatters
  <1> QED BY <1>1, <1>2, <1>3, <1>4

LEMMA InvalidatedMatters ==
    ASSUME TypeOK, NEW t \in Turns, Matters(t), InvalidateApproval(t)
    PROVE  Pending(t)' = {} /\ Live(t) = {} /\ turn'[t] = "paused"
  <1>1. PICK r \in Requests :
            /\ OnlyPending(t, "tool_approval", r)
            /\ interaction' = [interaction EXCEPT ![r] = Answered(r, "approve", "invalidated")]
    BY DEF InvalidateApproval
  <1>2. interaction'[r].status = "resolved" /\ \A q \in Requests \ {r} : interaction'[q] = interaction[q]
    BY <1>1 DEF Answered, InteractionRow, TypeOK, TurnTypeOK
  <1>3. Live(t) = {}
    BY <1>1 DEF Matters, OnlyPending, PendingOf
  <1>4. turn'[t] = "paused"
    BY DEF InvalidateApproval
  <1> QED BY <1>1, <1>2, <1>3, <1>4, AnswerMatters

(* The approval that is replaced was the only thing that waited.            *)
LEMMA RefreshMatters ==
    ASSUME TypeOK, ToolInv, SettledIsLinked, NEW t \in Turns, Matters(t), Live(t) = {},
           ~ChildWaiting(t),
           Pending(t) = {} \/ \E q \in Requests : Pending(t) = {q} /\ interaction[q].kind = "tool_approval",
           NEW r \in Requests, RefreshApproval(t, r), UNCHANGED modelVars
    PROVE  Matters(t)' /\ Live(t)' = {} /\ turn'[t] = "paused"
  <1>a. /\ turn \in [Turns -> TurnStatus] /\ childWait \in [Turns -> Nat]
        /\ interaction \in [Requests -> InteractionRow] /\ op \in [Ops -> OpRow]
    BY DEF TypeOK, TurnTypeOK, ToolTypeOK
  <1>1. PICK o \in OpsOf(t) :
            /\ Reapprovable(t) = {o}
            /\ interaction' = [interaction EXCEPT
                   ![op[o].approval] = IF interaction[op[o].approval].status = "pending"
                                       THEN Answered(op[o].approval, "recheck", "invalidated")
                                       ELSE [interaction[op[o].approval] EXCEPT !.approval = "invalidated"],
                   ![r] = Asked("tool_approval", t, o)]
    BY DEF RefreshApproval
  <1>2. o \in Ops /\ op[o].approval # NoRequest
    BY <1>1 DEF Reapprovable, OpsOf
  <1>3. /\ op[o].approval \in Requests /\ interaction[op[o].approval].kind = "tool_approval"
        /\ interaction[op[o].approval].op = o
    BY <1>2, <1>a DEF ToolInv, ApprovalIsOfCall, OpRow
  <1>4. PICK q \in Requests : q = op[o].approval
    BY <1>3
  <1>5. interaction[r].status = "free" /\ interaction[q].status # "free" /\ q # r
    BY <1>3, <1>4 DEF RefreshApproval, Fresh, ToolInv, RowsNameTheirCall
  <1>6. /\ interaction'[q].status # "pending"
        /\ interaction'[r].status = "pending" /\ interaction'[r].turn = t
        /\ \A p \in Requests \ {q, r} : interaction'[p] = interaction[p]
    BY <1>1, <1>4, <1>5, <1>a DEF Answered, Asked, FreeRow, InteractionRow
  <1>7. ASSUME NEW p \in Pending(t) PROVE p = q
    <2>1. p \in Requests /\ interaction[p].status = "pending" /\ interaction[p].kind = "tool_approval"
          /\ interaction[p].turn = t
      BY <1>7 DEF Pending
    <2>2. PICK c \in Ops : c = interaction[p].op /\ op[c].status = "awaiting_approval" /\ op[c].approval = p
      BY <2>1 DEF ToolInv, ApprovalBlocksItsCall
    <2>3. TurnOf[c] = t
      BY <2>1, <2>2 DEF ToolInv, RowsNameTheirCall, ToolQuestion
    <2>4. c \in Reapprovable(t)
      BY <2>1, <2>2, <2>3, ToolConstants, TurnConstants DEF Reapprovable, OpsOf, NoRequest
    <2> QED BY <2>2, <2>4, <1>1, <1>4
  <1>8. Pending(t)' = {r}
    <2>1. r \in Pending(t)'
      BY <1>6 DEF Pending
    <2>2. \A p \in Pending(t)' : p = r
      BY <1>6, <1>7 DEF Pending
    <2> QED BY <2>1, <2>2
  <1>9. turn'[t] = "paused" /\ ~ChildWaiting(t)'
    BY <1>a DEF RefreshApproval, Paused, SetTurn, Running, ChildWaiting
  <1>10. Live(t)' = {}
    <2>1. AnswerStep(t)
      BY DEF AnswerStep
    <2> QED BY <2>1, AnswerMoves, LiveShrinks
  <1> QED BY <1>8, <1>9, <1>10, AskedAlone

-----------------------------------------------------------------------------
(* What the recovery plan says of open matters                              *)

LEMMA RoutePlaces ==
    ASSUME TypeOK, NEW t \in Turns
    PROVE  /\ Route(t) = "approval" =>
                  \E r \in Requests : Pending(t) = {r} /\ interaction[r].kind = "tool_approval"
           /\ Route(t) \in {"committed_response", "prepared_model"} => Running(t)
           /\ Route(t) \in {"retry_model", "approved_ready"} => Free(t)
  <1> DEFINE name(i) == PlanRules(t)[i][2]
             holds(i) == PlanRules(t)[i][1]
             Sure == {"approval", "retry_model", "approved_ready", "committed_response", "prepared_model"}
  <1>1. PICK k \in 1..22 : Route(t) = name(k) /\ holds(k) /\ \A j \in 1..(k - 1) : ~holds(j)
    BY RouteIsRule
  <1>2. (holds(10) => \E r \in Requests : Pending(t) = {r} /\ OnlyPending(t, "tool_approval", r))
        /\ (holds(17) \/ holds(18) => Running(t))
    BY DEF PlanRules
  <1>3. ~holds(9) /\ ~holds(12) /\ ~holds(13) => Free(t)
    <2>1. /\ holds(9) <=> ChildWaiting(t) /\ ~Revoked(t)
          /\ holds(12) <=> Pending(t) # {}
          /\ holds(13) <=> turn[t] = "paused" /\ cancelPending[t]
      BY DEF PlanRules
    <2>2. ChildWaiting(t) /\ Revoked(t) => turn[t] = "paused" /\ cancelPending[t]
      BY DEF ChildWaiting, Revoked, Terminal
    <2> QED BY <2>1, <2>2 DEF Free
  <1>4. \A i \in 1..22 : /\ name(i) = "approval" => i = 10
                         /\ name(i) \in {"committed_response", "prepared_model"} => i \in {17, 18}
                         /\ name(i) \in {"retry_model", "approved_ready"} => i \in {15, 16}
    <2>1. \A i \in 1..9 : name(i) \notin Sure
      BY RuleNames
    <2>2. \A i \in 11..14 : name(i) \notin Sure
      BY RuleNames
    <2>3. \A i \in 19..22 : name(i) \notin Sure
      BY RuleNames
    <2>4. /\ name(10) = "approval" /\ name(15) = "retry_model" /\ name(16) = "approved_ready"
          /\ name(17) = "committed_response" /\ name(18) = "prepared_model"
      BY RuleNames
    <2> HIDE DEF name
    <2>5. ASSUME NEW i \in 1..22, name(i) \in Sure PROVE i = 10 \/ i \in 15..18
      BY <2>1, <2>2, <2>3, <2>5
    <2>6. \A i \in 15..18 : i = 15 \/ i = 16 \/ i = 17 \/ i = 18
      OBVIOUS
    <2> QED BY <2>4, <2>5, <2>6
  <1> HIDE DEF name, holds
  <1>5. CASE Route(t) = "approval"
    BY <1>1, <1>2, <1>4, <1>5 DEF OnlyPending, PendingOf
  <1>6. CASE Route(t) \in {"committed_response", "prepared_model"}
    <2>1. k = 17 \/ k = 18
      BY <1>1, <1>4, <1>6
    <2> QED BY <1>1, <1>2, <1>6, <2>1
  <1>7. CASE Route(t) \in {"retry_model", "approved_ready"}
    <2>1. k = 15 \/ k = 16
      BY <1>1, <1>4, <1>7
    <2> QED BY <1>1, <1>3, <1>7, <2>1
  <1> QED BY <1>5, <1>6, <1>7

-----------------------------------------------------------------------------
(* Steps of a driver that carries out no calls                              *)

Certain == {"dispatch", "await", "acked", "consume", "recheck"}
Unsure == {"off", "recover", "stopped"}

LEMMA RunningIsFree ==
    ASSUME NEW t \in Turns, Matters(t), Running(t)
    PROVE  Free(t)
  BY DEF Matters, Free, Running, ChildWaiting

LEMMA QuietStep ==
    ASSUME NEW t \in Turns, TurnInv(t), \A o \in OpsOf(t) : worker'[o] = worker[o],
           phase[t] \notin Calling, phase'[t] \notin Calling \cup {"answer"},
           turn'[t] # "absent" \/ phase'[t] = "off",
           Matters(t)', phase'[t] \in Certain => Free(t)',
           \/ Live(t)' = {} \/ phase'[t] \in Unsure
           \/ phase'[t] = "offer" /\ PendingOf(t, "tool_reconciliation")' # {}
    PROVE  TurnInv(t)'
  <1>1. Place(t)'
    BY DEF Place, Certain, Unsure
  <1>2. \A o \in OpsOf(t) : worker'[o] = "idle"
    BY DEF TurnInv, Workers
  <1>3. OpsOf(t)' = OpsOf(t)
    BY DEF OpsOf
  <1>4. Workers(t)'
    BY <1>2, <1>3 DEF Workers, Held, Calling, Working
  <1> QED BY <1>1, <1>4 DEF TurnInv

(* Nothing that waits or runs changes.                                      *)
LEMMA StillStep ==
    ASSUME NEW t \in Turns, TurnInv(t), Still, worker' = worker,
           phase[t] \notin Calling, phase'[t] \notin Calling \cup {"answer"},
           turn[t] # "absent" \/ phase'[t] = "off",
           phase'[t] \in Certain => Free(t),
           phase[t] \notin Unsure \cup {"offer"} \/ phase'[t] \in Unsure \/ Live(t) = {}
    PROVE  TurnInv(t)'
  <1>1. Live(t)' = Live(t) /\ Free(t)' = Free(t) /\ Matters(t)' = Matters(t) /\ turn' = turn
    BY StillIsStill DEF Still
  <1>2. Live(t) = {} \/ phase'[t] \in Unsure
    BY DEF TurnInv, Place, Unsure
  <1> QED BY <1>1, <1>2, QuietStep DEF TurnInv

(* The Turn changes its status with nothing open.                           *)
LEMMA ClearStep ==
    ASSUME NEW t \in Turns, TurnInv(t), Pending(t) = {}, Live(t) = {},
           interaction' = interaction, op' = op, worker' = worker,
           phase[t] \notin Calling, phase'[t] \notin Calling \cup {"answer"},
           turn'[t] # "absent" \/ phase'[t] = "off",
           phase'[t] \in Certain => ~ChildWaiting(t)'
    PROVE  TurnInv(t)'
  <1>1. Live(t)' = {} /\ Pending(t)' = {}
    BY DEF Live, InStatus, Pending
  <1>2. Matters(t)' /\ (phase'[t] \in Certain => Free(t)')
    BY <1>1, Clear DEF Free
  <1> QED BY <1>1, <1>2, QuietStep

(* The answer to the only thing that waited.                                *)
LEMMA SettledStep ==
    ASSUME NEW t \in Turns, TurnInv(t), Pending(t)' = {}, Live(t)' = {}, worker' = worker,
           phase[t] \notin Calling, phase'[t] \notin Calling \cup Certain \cup {"answer"},
           turn'[t] # "absent"
    PROVE  TurnInv(t)'
  BY Clear, QuietStep

LEMMA NoneRuns ==
    ASSUME NEW t \in Turns, TurnInv(t), phase[t] \notin Calling \cup Unsure \cup {"offer"}
    PROVE  Live(t) = {} /\ turn[t] # "absent"
  BY DEF TurnInv, Place, Unsure

(* Reads, requests and their outcomes that leave the Turn as it is.         *)
LEMMA PlanSteps ==
    ASSUME RunnerTypeOK, TypeOK, NEW t \in Turns, TurnInv(t),
           \/ RecoveryRefused(t) \/ OfferRefused(t) \/ Decide(t) \/ PrepareRequest(t) \/ RequestOutdated(t)
           \/ Dispatch(t) \/ DispatchRefused(t) \/ RetryDue(t) \/ ConsumeAnswer(t) \/ ConsumeRaises(t)
           \/ AfterBatch(t) \/ Mark(t) \/ FinishOutdated(t) \/ FinishRevoked(t) \/ BeginCancel(t)
           \/ WithdrawRetry(t)
    PROVE  TurnInv(t)'
  <1> USE DEF DriverStep, At, Goto
  <1>a. phase \in [Turns -> Phases] /\ Matters(t)
    BY DEF RunnerTypeOK, TurnInv
  <1>b. UNCHANGED vars => Still
    BY DEF Still, vars, turnVars, toolVars
  <1>c. RequestCancellation(t) => Still
    BY DEF Still, RequestCancellation, untouchedByTurns, toolVars
  <1>d. \A m : \/ \E revision : PrepareModel(t, m, revision)
               \/ DispatchModel(m) \/ CancelScheduledRetry(m) \/ SupersedePrepared(m)
               \/ PrepareScheduledRetry(m) \/ ResponseHandled(m)
               => Still
    BY DEF Still, PrepareModel, DispatchModel, CancelScheduledRetry, SupersedePrepared, PrepareScheduledRetry,
           ResponseHandled, turnVars, toolVars
  <1>e. phase[t] # "off" => turn[t] # "absent"
    BY DEF TurnInv, Place
  <1>f. phase[t] \in Certain => Free(t)
    BY DEF TurnInv, Place, Certain
  <1> USE DEF Calling, Working, Draining, Certain, Unsure
  <1>1. CASE RecoveryRefused(t) BY <1>1, <1>a, <1>b, StillStep DEF RecoveryRefused
  <1>2. CASE OfferRefused(t) BY <1>2, <1>a, <1>b, StillStep DEF OfferRefused
  <1>3. CASE Decide(t)
    <2>1. phase[t] = "loop" /\ phase'[t] = Destination(t) /\ Still /\ worker' = worker
      BY <1>3, <1>a, <1>b DEF Decide
    <2>2. Destination(t) \in {"off", "cancel", "consume", "backoff", "dispatch", "request"}
      BY DEF Destination, Arm
    <2>3. Destination(t) \in {"consume", "dispatch"} =>
              Route(t) \in {"committed_response", "prepared_model", "retry_model"}
      BY DEF Destination, Arm
    <2>4. Destination(t) \in {"consume", "dispatch"} => Free(t)
      BY <2>3, <1>a, RoutePlaces, RunningIsFree
    <2> QED BY <2>1, <2>2, <2>4, <1>e, StillStep
  <1>4. CASE PrepareRequest(t)
    <2>1. Running(t)
      BY <1>4 DEF PrepareRequest, PrepareModel
    <2> QED BY <1>4, <2>1, <1>a, <1>d, <1>e, RunningIsFree, StillStep DEF PrepareRequest
  <1>5. CASE RequestOutdated(t) BY <1>5, <1>a, <1>b, <1>e, StillStep DEF RequestOutdated
  <1>6. CASE Dispatch(t) BY <1>6, <1>a, <1>d, <1>e, <1>f, StillStep DEF Dispatch
  <1>7. CASE DispatchRefused(t)
    <2>1. Still
      BY <1>7, <1>c, <1>d DEF DispatchRefused
    <2> QED BY <1>7, <2>1, <1>a, <1>e, StillStep DEF DispatchRefused
  <1>8. CASE RetryDue(t)
    <2>1. PICK m \in ModelsIn(t, {"retry_wait"}) : PrepareScheduledRetry(m)
      BY <1>8 DEF RetryDue
    <2>2. Running(t)
      BY <2>1 DEF PrepareScheduledRetry, ScheduleAllows, ModelsIn, ModelsOf
    <2> QED BY <1>8, <2>1, <2>2, <1>a, <1>d, <1>e, RunningIsFree, StillStep DEF RetryDue
  <1>9. CASE ConsumeAnswer(t) BY <1>9, <1>a, <1>b, <1>e, StillStep DEF ConsumeAnswer
  <1>10. CASE ConsumeRaises(t) BY <1>10, <1>a, <1>b, <1>e, StillStep DEF ConsumeRaises
  <1>11. CASE AfterBatch(t) BY <1>11, <1>a, <1>b, <1>e, StillStep DEF AfterBatch
  <1>12. CASE Mark(t) BY <1>12, <1>a, <1>d, <1>e, StillStep DEF Mark
  <1>13. CASE FinishOutdated(t) BY <1>13, <1>a, <1>b, <1>e, StillStep DEF FinishOutdated
  <1>14. CASE FinishRevoked(t) BY <1>14, <1>a, <1>c, <1>e, StillStep DEF FinishRevoked
  <1>15. CASE BeginCancel(t) BY <1>15, <1>a, <1>c, <1>e, StillStep DEF BeginCancel
  <1>16. CASE WithdrawRetry(t) BY <1>16, <1>a, <1>d, <1>e, StillStep DEF WithdrawRetry
  <1> QED
    BY <1>1, <1>2, <1>3, <1>4, <1>5, <1>6, <1>7, <1>8, <1>9, <1>10, <1>11, <1>12, <1>13, <1>14, <1>15, <1>16

(* Outcomes of a request, and the end of a Turn.                            *)
LEMMA OutcomeSteps ==
    ASSUME RunnerTypeOK, TypeOK, NEW t \in Turns, TurnInv(t),
           \/ GiveUp(t) \/ DispatchExpired(t) \/ PermitRetry(t) \/ Provider(t) \/ EndAcknowledged(t)
           \/ RetryWithdrawn(t)
    PROVE  TurnInv(t)'
  <1> USE DEF DriverStep, At, Goto
  <1>a. phase \in [Turns -> Phases] /\ turn \in [Turns -> TurnStatus] /\ Matters(t)
    BY DEF RunnerTypeOK, TurnInv, TypeOK, TurnTypeOK
  <1>b. UNCHANGED vars => Still
    BY DEF Still, vars, turnVars, toolVars
  <1>c. RequestCancellation(t) => Still
    BY DEF Still, RequestCancellation, untouchedByTurns, toolVars
  <1>d. \A m, g : \/ \E calls : CompleteModel(m, g, calls)
                  \/ FailureScheduled(m, g) \/ RejectModel(m, g, "released") \/ CancelScheduledRetry(m)
                  => Still
    BY DEF Still, CompleteModel, FailureScheduled, RejectModel, CancelScheduledRetry, turnVars, toolVars
  <1>f. phase[t] \in Certain => Free(t)
    BY DEF TurnInv, Place, Certain
  <1>g. Running(t) => Pending(t) = {}
    BY <1>a, RunningIsFree DEF Free
  <1> USE DEF Calling, Working, Draining, Certain, Unsure
  <1>1. CASE GiveUp(t)
    <2>1. phase[t] \in {"request", "failing", "after", "consume", "dispatch"} /\ phase'[t] = "off"
      BY <1>1, <1>a DEF GiveUp
    <2>2. Running(t) /\ interaction' = interaction /\ op' = op /\ worker' = worker
      BY <1>1 DEF GiveUp, FailTurn, untouchedByTurns, toolVars
    <2> QED BY <2>1, <2>2, <1>g, NoneRuns, ClearStep
  <1>2. CASE DispatchExpired(t)
    <2>1. phase[t] = "dispatch" /\ phase'[t] = "off"
      BY <1>2, <1>a DEF DispatchExpired
    <2>2. interaction' = interaction /\ op' = op /\ worker' = worker
      BY <1>2 DEF DispatchExpired, FailUnstartedRetry, toolVars
    <2> QED BY <2>1, <2>2, <1>f, NoneRuns, ClearStep DEF Free
  <1>3. CASE PermitRetry(t)
    <2>1. PICK m \in ModelsIn(t, {"unknown"}) : RetryModel(m)
      BY <1>3 DEF PermitRetry
    <2>2. phase[t] = "dispatch" /\ phase'[t] = "dispatch" /\ worker' = worker
      BY <1>3, <1>a DEF PermitRetry
    <2>3. interaction' = interaction /\ op' = op /\ turn'[t] = "running"
      BY <2>1, <1>a DEF RetryModel, ModelsIn, ModelsOf, Resumed, SetTurn, toolVars
    <2> QED BY <2>2, <2>3, <1>f, NoneRuns, ClearStep DEF Free, ChildWaiting
  <1>4. CASE Provider(t)
    <2> DEFINE m == Latest(t)
               g == model[m].generation
    <2>1. phase[t] = "await" /\ worker' = worker
      BY <1>4 DEF Provider
    <2>2. CASE \/ (\E calls \in Responses : CompleteModel(m, g, calls)) /\ Goto(t, "loop")
               \/ FailureScheduled(m, g) /\ Goto(t, "loop")
               \/ RejectModel(m, g, "released") /\ Goto(t, "failing")
               \/ RequestCancellation(t) /\ Goto(t, "acked")
      <3>1. Still
        BY <2>2, <1>c, <1>d
      <3>2. phase'[t] \in {"loop", "failing", "acked"}
        BY <2>2, <1>a
      <3> QED BY <2>1, <3>1, <3>2, <1>f, NoneRuns, StillStep
    <2>3. CASE (FailureUnknown(m, g) \/ FailureFinal(m, g)) /\ Goto(t, "off")
      <3>1. interaction' = interaction /\ op' = op
        BY <2>3 DEF FailureUnknown, FailureFinal, untouchedByModels, toolVars
      <3>2. phase'[t] = "off"
        BY <2>3, <1>a
      <3> QED BY <2>1, <3>1, <3>2, <1>f, NoneRuns, ClearStep DEF Free
    <2> QED BY <1>4, <2>2, <2>3 DEF Provider
  <1>5. CASE EndAcknowledged(t)
    <2>1. phase[t] = "acked" /\ phase'[t] = "off"
      BY <1>5, <1>a DEF EndAcknowledged
    <2>2. interaction' = interaction /\ op' = op /\ worker' = worker
      BY <1>5 DEF EndAcknowledged, CancelModelAttempt, toolVars
    <2> QED BY <2>1, <2>2, <1>f, NoneRuns, ClearStep DEF Free
  <1>6. CASE RetryWithdrawn(t)
    <2>1. PICK m \in ModelsIn(t, {"retry_wait"}) : UNCHANGED vars \/ CancelScheduledRetry(m) \/ FailUnstartedRetry(m)
      BY <1>6 DEF RetryWithdrawn
    <2>2. phase[t] = "backoff" /\ phase'[t] = "loop" /\ worker' = worker
      BY <1>6, <1>a DEF RetryWithdrawn
    <2>3. CASE UNCHANGED vars \/ CancelScheduledRetry(m)
      <3>1. Still
        BY <2>3, <1>b, <1>d
      <3> QED BY <2>2, <3>1, NoneRuns, StillStep
    <2>4. CASE FailUnstartedRetry(m)
      <3>1. /\ Running(t) /\ interaction' = interaction /\ op' = op /\ turn'[t] = "failed"
        BY <2>4, <1>a DEF FailUnstartedRetry, ModelsIn, ModelsOf, Ended, SetTurn, toolVars
      <3> QED BY <2>2, <3>1, <1>g, NoneRuns, ClearStep
    <2> QED BY <2>1, <2>3, <2>4
  <1> QED BY <1>1, <1>2, <1>3, <1>4, <1>5, <1>6

LEMMA EndingSteps ==
    ASSUME RunnerTypeOK, TypeOK, ToolInv, SettledIsLinked, NEW t \in Turns, TurnInv(t),
           Finish(t) \/ Withdraw(t) \/ Close(t) \/ Recover(t) \/ AbortTurn(t) \/ Stopped(t)
    PROVE  TurnInv(t)'
  <1> USE DEF DriverStep, At, Goto
  <1>a. /\ phase \in [Turns -> Phases] /\ turn \in [Turns -> TurnStatus] /\ Matters(t)
        /\ childWait \in [Turns -> Nat]
    BY DEF RunnerTypeOK, TurnInv, TypeOK, TurnTypeOK
  <1>b. UNCHANGED vars => Still
    BY DEF Still, vars, turnVars, toolVars
  <1>g. Running(t) => Pending(t) = {}
    BY <1>a, RunningIsFree DEF Free
  <1> USE DEF Calling, Working, Draining, Certain, Unsure
  <1>1. CASE Finish(t)
    <2>1. phase[t] = "finish" /\ phase'[t] = "mark" /\ worker' = worker /\ Live(t) = {} /\ turn[t] # "absent"
      BY <1>1, <1>a, NoneRuns DEF Finish
    <2>2. CASE UNCHANGED vars
      BY <2>1, <2>2, <1>b, StillStep
    <2>3. CASE CompleteTurn(t, seen[t]) \/ FailTurn(t) \/ PauseForChildren(t, seen[t])
      <3>1. Running(t) /\ interaction' = interaction /\ op' = op /\ turn'[t] # "absent"
        BY <2>3, <1>a DEF CompleteTurn, FailTurn, PauseForChildren, Ended, SetTurn, untouchedByTurns, toolVars
      <3> QED BY <2>1, <3>1, <1>g, ClearStep
    <2>4. ASSUME NEW r \in Requests, AskQuestion(t, r) PROVE TurnInv(t)'
      <3>1. /\ Running(t) /\ Fresh(r) /\ Paused(t) /\ op' = op
            /\ interaction' = [interaction EXCEPT ![r] = Asked("question", t, NoOp)]
        BY <2>4 DEF AskQuestion, untouchedByTurns, toolVars
      <3>2. Live(t)' = {}
        BY <2>1, <3>1 DEF Live, InStatus
      <3>3. Matters(t)'
        BY <3>1, <3>2, <1>a, QuestionMatters
      <3>4. turn'[t] = "paused"
        BY <3>1, <1>a DEF Paused, SetTurn
      <3> QED BY <2>1, <3>2, <3>3, <3>4, QuietStep
    <2> QED BY <1>1, <2>2, <2>3, <2>4 DEF Finish
  <1>2. CASE Withdraw(t)
    <2>1. phase[t] = "withdraw" /\ phase'[t] = "closing" /\ worker' = worker /\ RecoverOwner(t, TRUE)
      BY <1>2, <1>a DEF Withdraw
    <2>2. Matters(t)' /\ turn'[t] \in Open /\ Live(t)' \subseteq Live(t)
      BY <2>1, <1>a, RecoveryMatters
    <2>3. Live(t)' = {}
      BY <2>1, <2>2, NoneRuns
    <2> QED BY <2>1, <2>2, <2>3, QuietStep DEF Open
  <1>3. CASE Close(t)
    <2>1. phase[t] = "closing" /\ worker' = worker
      BY <1>3 DEF Close
    <2>2. CASE PauseTurn(t) /\ Goto(t, "closing")
      <3>1. Running(t) /\ interaction' = interaction /\ op' = op /\ turn'[t] = "paused" /\ phase'[t] = "closing"
        BY <2>2, <1>a DEF PauseTurn, Paused, SetTurn, untouchedByTurns, toolVars
      <3> QED BY <2>1, <3>1, <1>g, NoneRuns, ClearStep
    <2>3. CASE CancelTurn(t) /\ Goto(t, "off")
      <3>1. Pending(t)' = {} /\ Live(t)' = {} /\ turn'[t] = "cancelled"
        BY <2>3, CancelMatters
      <3>2. phase'[t] = "off"
        BY <2>3, <1>a
      <3> QED BY <2>1, <3>1, <3>2, SettledStep
    <2> QED BY <1>3, <2>2, <2>3 DEF Close
  <1>4. CASE Recover(t)
    <2>1. phase[t] = "recover" /\ phase'[t] = "offer" /\ worker' = worker /\ RecoverOwner(t, reply[t] = "abort")
      BY <1>4, <1>a DEF Recover
    <2>2. PICK abort \in BOOLEAN : abort = (reply[t] = "abort")
      OBVIOUS
    <2>3. RecoverOwner(t, abort)
      BY <2>1, <2>2
    <2>4. /\ Matters(t)' /\ turn'[t] \in Open
          /\ Live(t)' = {} \/ PendingOf(t, "tool_reconciliation")' # {}
      BY <2>3, <1>a, RecoveryMatters
    <2> QED BY <2>1, <2>4, QuietStep DEF Open
  <1>5. CASE AbortTurn(t)
    <2>1. phase[t] = "offer" /\ phase'[t] = "off" /\ worker' = worker /\ CancelTurn(t)
      BY <1>5, <1>a DEF AbortTurn
    <2>2. Pending(t)' = {} /\ Live(t)' = {} /\ turn'[t] = "cancelled"
      BY <2>1, CancelMatters
    <2> QED BY <2>1, <2>2, SettledStep
  <1>6. CASE Stopped(t)
    <2>1. phase[t] = "stopped" /\ phase'[t] = "off" /\ worker' = worker
      BY <1>6, <1>a DEF Stopped
    <2>2. interaction' = interaction /\ op' = op
      BY <1>6 DEF Stopped, vars, turnVars, toolVars, untouchedByTurns
    <2>3. CASE UNCHANGED <<turn, childWait>>
      BY <2>1, <2>2, <2>3, StillStep DEF Still
    <2>4. CASE Running(t) /\ Paused(t)
      <3>1. Pending(t)' = {}
        BY <2>2, <2>4, <1>g DEF Pending
      <3>2. turn'[t] = "paused" /\ childWait'[t] = 0
        BY <2>4, <1>a DEF Paused, SetTurn
      <3>3. Matters(t)'
        BY <3>1, <3>2, Clear DEF ChildWaiting, Open
      <3> QED BY <2>1, <3>3, QuietStep
    <2>5. UNCHANGED <<turn, childWait>> \/ (Running(t) /\ Paused(t))
      BY <1>6 DEF Stopped, vars, turnVars
    <2> QED BY <2>3, <2>4, <2>5
  <1> QED BY <1>1, <1>2, <1>3, <1>4, <1>5, <1>6

(* The reply to the recovery plan.                                          *)
LEMMA OfferStep ==
    ASSUME RunnerTypeOK, TypeOK, NEW t \in Turns, TurnInv(t), Offer(t)
    PROVE  TurnInv(t)'
  <1>a. phase \in [Turns -> Phases] /\ turn \in [Turns -> TurnStatus] /\ Matters(t)
    BY DEF RunnerTypeOK, TurnInv, TypeOK, TurnTypeOK
  <1>b. phase[t] = "offer" /\ phase'[t] = Applied(t).to /\ worker' = worker
    BY <1>a DEF Offer, At, Goto
  <1>c. Route(t) \notin {"terminal", "reconcile"}
    BY DEF Offer, Accepts
  <1>d. Live(t) = {} /\ turn[t] # "absent"
    BY <1>b, <1>c, RouteMeans DEF TurnInv, Place, Calling, Working, Draining
  <1> USE DEF Calling, Working, Draining, Certain, Unsure
  <1>1. CASE Route(t) \in {"child_wait", "resume_cancelled", "input"}
    <2>1. phase'[t] = "loop"
      BY <1>b, <1>1 DEF Applied
    <2>2. CASE ResumeChildWait(t) \/ ResumeCancelled(t)
      <3>1. Pending(t) = {} /\ interaction' = interaction /\ op' = op /\ turn'[t] = "running"
        BY <2>2, <1>a
        DEF ResumeChildWait, ResumeCancelled, Matters, ChildWaiting, Resumed, SetTurn,
            untouchedByTurns, toolVars
      <3> QED BY <2>1, <3>1, <1>b, <1>d, ClearStep
    <2>3. ASSUME NEW r \in Requests, AnswerQuestion(t, r) PROVE TurnInv(t)'
      <3>1. Pending(t)' = {} /\ turn'[t] = "running" /\ op' = op
        BY <2>3, <1>a, ResolvedMatters DEF AnswerQuestion, untouchedByTurns, toolVars
      <3>2. Live(t)' = {}
        BY <3>1, <1>d DEF Live, InStatus
      <3> QED BY <2>1, <3>1, <3>2, <1>b, SettledStep
    <2> QED BY <1>1, <2>2, <2>3 DEF Offer
  <1>2. CASE Route(t) \notin {"child_wait", "resume_cancelled", "input"}
    <2>1. Still
      BY <1>2 DEF Offer, Still, vars, turnVars, toolVars
    <2>2. CASE Route(t) = "approval"
      <3>1. phase'[t] = "answer"
        BY <2>2, <1>b DEF Applied
      <3>2. PICK r \in Requests : Pending(t) = {r} /\ interaction[r].kind = "tool_approval"
        BY <2>2, RoutePlaces
      <3>3. /\ Live(t)' = {} /\ Matters(t)' /\ Pending(t)' = {r} /\ interaction'[r].kind = "tool_approval"
            /\ turn'[t] # "absent"
        BY <2>1, <3>2, <1>a, <1>d, StillIsStill DEF Still
      <3>4. Place(t)'
        BY <3>1, <3>3 DEF Place
      <3>5. \A o \in OpsOf(t) : worker'[o] = "idle"
        BY <1>b DEF TurnInv, Workers
      <3>6. OpsOf(t)' = OpsOf(t)
        BY DEF OpsOf
      <3>7. Workers(t)'
        BY <3>1, <3>5, <3>6 DEF Workers, Held
      <3> QED BY <3>3, <3>4, <3>7 DEF TurnInv
    <2>3. CASE Route(t) # "approval"
      <3>1. phase'[t] \in {"loop", "recheck"} /\ (phase'[t] = "recheck" => Route(t) = "approved_ready")
        BY <2>3, <1>b DEF Applied
      <3>2. phase'[t] = "recheck" => Free(t)
        BY <3>1, RoutePlaces
      <3> QED BY <2>1, <3>1, <3>2, <1>b, <1>d, StillStep
    <2> QED BY <2>2, <2>3
  <1> QED BY <1>1, <1>2

(* An approval that no longer fits.                                         *)
LEMMA OutdatedSteps ==
    ASSUME RunnerTypeOK, TypeOK, ToolInv, SettledIsLinked, NEW t \in Turns, TurnInv(t),
           AnswerOutdated(t) \/ RecoverOutdated(t)
    PROVE  TurnInv(t)'
  <1>a. phase \in [Turns -> Phases] /\ turn \in [Turns -> TurnStatus] /\ Matters(t)
    BY DEF RunnerTypeOK, TurnInv, TypeOK, TurnTypeOK
  <1>b. phase[t] \in {"answer", "recheck"} /\ phase'[t] = "off" /\ worker' = worker /\ UNCHANGED modelVars
    BY <1>a DEF AnswerOutdated, RecoverOutdated, At, Goto
  <1> USE DEF Calling, Working, Draining, Certain, Unsure
  <1>c. Live(t) = {} /\ turn[t] # "absent"
    BY <1>b, NoneRuns
  <1>d. AnswerStep(t) => Live(t)' = {}
    BY <1>c, AnswerMoves, LiveShrinks
  <1>e. Pending(t) = {} \/ \E q \in Requests : Pending(t) = {q} /\ interaction[q].kind = "tool_approval"
    BY <1>b DEF TurnInv, Place, Free
  <1>f. ~ChildWaiting(t)
    BY <1>b DEF TurnInv, Place, Free, Matters
  <1>1. ASSUME NEW r \in Requests, RefreshApproval(t, r) PROVE TurnInv(t)'
    <2>1. Matters(t)' /\ Live(t)' = {}
      BY <1>1, <1>a, <1>b, <1>c, <1>e, <1>f, RefreshMatters
    <2> QED BY <2>1, <1>b, QuietStep
  <1>2. CASE InvalidateApproval(t)
    <2>1. Pending(t)' = {} /\ turn'[t] = "paused"
      BY <1>2, <1>a, InvalidatedMatters
    <2>2. Live(t)' = {}
      BY <1>2, <1>b, <1>d DEF AnswerStep
    <2> QED BY <2>1, <2>2, <1>b, SettledStep
  <1>3. CASE InvalidateResolvedApproval(t)
    <2>1. Pending(t) = {} /\ turn'[t] = "paused"
      BY <1>3, <1>a, RunningIsFree DEF InvalidateResolvedApproval, Free, Running, Paused, SetTurn
    <2>2. Pending(t)' = {}
      <3>1. PICK r \in Requests : interaction' = [interaction EXCEPT ![r].approval = "invalidated"]
        BY <1>3 DEF InvalidateResolvedApproval
      <3>2. \A q \in Requests : /\ interaction'[q].status = interaction[q].status
                                /\ interaction'[q].turn = interaction[q].turn
        BY <3>1 DEF TypeOK, TurnTypeOK, InteractionRow
      <3> QED BY <2>1, <3>2 DEF Pending
    <2>3. Live(t)' = {}
      BY <1>3, <1>b, <1>d DEF AnswerStep
    <2> QED BY <2>1, <2>2, <2>3, <1>b, SettledStep
  <1>4. CASE UNCHANGED <<turnVars, toolVars>>
    <2>1. Still
      BY <1>4 DEF Still, turnVars, toolVars
    <2> QED BY <2>1, <1>b, <1>c, StillStep
  <1> QED BY <1>1, <1>2, <1>3, <1>4 DEF AnswerOutdated, RecoverOutdated

(* The calls are over: nobody works for them any more.                      *)
LEMMA RestStep ==
    ASSUME NEW t \in Turns, TurnInv(t), Still, \A o \in OpsOf(t) : worker'[o] = "idle",
           phase'[t] \notin Calling \cup Certain \cup {"answer"}, phase[t] # "off",
           Live(t) = {} \/ phase'[t] \in Unsure
    PROVE  TurnInv(t)'
  <1>1. Live(t)' = Live(t) /\ Matters(t)' = Matters(t) /\ turn' = turn
    BY StillIsStill DEF Still
  <1>2. Place(t)'
    BY <1>1 DEF TurnInv, Place, Certain, Unsure
  <1>3. OpsOf(t)' = OpsOf(t)
    BY DEF OpsOf
  <1>4. Workers(t)'
    BY <1>3 DEF Workers, Held, Calling, Working
  <1> QED BY <1>1, <1>2, <1>4 DEF TurnInv

(* Calls are begun with nothing open.                                       *)
LEMMA BeginCalls ==
    ASSUME NEW t \in Turns, phase'[t] \in Working, Pending(t)' = {}, Live(t)' = {},
           turn'[t] # "absent", ~ChildWaiting(t)',
           \A o \in OpsOf(t) : worker'[o] \notin Held,
           phase'[t] = "batch" => \A o \in OpsOf(t) : worker'[o] \in {"idle", "queued"},
           phase'[t] = "single" =>
               \A o, p \in OpsOf(t) : worker'[o] # "idle" /\ worker'[p] # "idle" => o = p
    PROVE  TurnInv(t)'
  <1>1. Matters(t)'
    BY Clear
  <1>2. Place(t)'
    BY DEF Place, Calling, Working
  <1>3. OpsOf(t)' = OpsOf(t) /\ \A o \in OpsOf(t) : op'[o].status # "running"
    BY DEF OpsOf, Live, InStatus
  <1>4. Workers(t)'
    BY <1>3 DEF Workers, Calling
  <1> QED BY <1>1, <1>2, <1>4 DEF TurnInv

(* The calls go on and the ledger is only read.                             *)
LEMMA GoOn ==
    ASSUME NEW t \in Turns, TurnInv(t), Still, phase[t] \in Calling, phase'[t] \in Calling, Workers(t)'
    PROVE  TurnInv(t)'
  <1>1. Pending(t)' = Pending(t) /\ Matters(t)' = Matters(t) /\ ChildWaiting(t)' = ChildWaiting(t)
    BY StillIsStill
  <1>2. \A r \in Requests : interaction'[r] = interaction[r]
    BY DEF Still
  <1>3. turn[t] # "absent" /\ turn' = turn
    BY DEF TurnInv, Place, Still, Calling, Working, Draining
  <1>4. \A r \in Pending(t)' : interaction'[r].kind = "tool_reconciliation"
    BY <1>1, <1>2 DEF TurnInv, Place, Pending
  <1>5. Place(t)'
    BY <1>1, <1>3, <1>4 DEF TurnInv, Place, Calling, Working, Draining
  <1> QED BY <1>1, <1>5 DEF TurnInv

LEMMA BatchSteps ==
    ASSUME RunnerTypeOK, TypeOK, ToolInv, SettledIsLinked, NEW t \in Turns, TurnInv(t),
           ConsumeCalls(t) \/ BatchStep(t) \/ Stopping(t)
    PROVE  TurnInv(t)'
  <1> USE DEF At, Goto
  <1>a. /\ phase \in [Turns -> Phases] /\ worker \in [Ops -> WorkerPhases] /\ Matters(t)
        /\ OpsOf(t) \subseteq Ops /\ OpsOf(t)' = OpsOf(t)
    BY DEF RunnerTypeOK, TurnInv, OpsOf
  <1>b. UNCHANGED vars => Still
    BY DEF Still, vars, turnVars, toolVars
  <1>c. worker = Idle(t) => \A o \in OpsOf(t) : worker[o] = "idle"
    <2> SUFFICES ASSUME worker = Idle(t), NEW o \in OpsOf(t) PROVE worker[o] = "idle"
      OBVIOUS
    <2>1. Idle(t)[o] = "idle"
      BY DEF Idle, OpsOf
    <2> QED BY <2>1
  <1>d. phase[t] \in {"consume", "recheck"} => Free(t) /\ Live(t) = {} /\ turn[t] # "absent"
    BY NoneRuns DEF TurnInv, Place, Calling, Working, Draining, Unsure
  <1>e. phase[t] \notin Calling => \A o \in OpsOf(t) : worker[o] = "idle"
    BY DEF TurnInv, Workers
  <1>f. phase[t] \in Working /\ (\A o \in OpsOf(t) : worker[o] \notin Held) => Live(t) = {}
    BY <1>a DEF TurnInv, Workers, Live, InStatus
  <1>g. Still => \A o \in Ops : op'[o] = op[o]
    BY DEF Still
  <1> USE DEF Calling, Working, Draining, Certain, Unsure
  <1>1. CASE ConsumeCalls(t)
    <2>1. /\ phase[t] = "consume" /\ phase'[t] = IF CallsOf(t) = {} THEN "after" ELSE "batch"
          /\ worker' = [o \in Ops |-> IF o \in CallsOf(t) THEN "queued" ELSE worker[o]] /\ Still
      BY <1>1, <1>a, <1>b DEF ConsumeCalls
    <2>2. \A o \in OpsOf(t) : worker'[o] = IF o \in CallsOf(t) THEN "queued" ELSE "idle"
      BY <2>1, <1>a, <1>e
    <2>3. /\ Pending(t)' = {} /\ ~ChildWaiting(t)' /\ Live(t)' = {} /\ turn'[t] # "absent"
      BY <2>1, <1>d, StillIsStill DEF Free, Still
    <2>4. CASE CallsOf(t) = {}
      BY <2>1, <2>2, <2>4, <1>d, RestStep
    <2>5. CASE CallsOf(t) # {}
      BY <2>1, <2>2, <2>3, <2>5, BeginCalls DEF Held
    <2> QED BY <2>4, <2>5
  <1>2. CASE NextSegment(t)
    <2> DEFINE queue == WorkersOf(t, {"queued"})
    <2>1. /\ phase[t] = "batch" /\ phase'[t] = "batch" /\ Still
          /\ WorkersOf(t, WorkerPhases \ {"idle", "queued"}) = {}
      BY <1>2, <1>b DEF NextSegment, driverVars
    <2>2. \A o \in OpsOf(t) : worker[o] \in {"idle", "queued"}
      BY <2>1, <1>a DEF WorkersOf
    <2>3. \A o \in OpsOf(t) : worker'[o] \in {"idle", "queued", "checked", "discard"}
      BY <1>2, <2>2, <1>a DEF NextSegment
    <2>4. \A o \in OpsOf(t) : op'[o].status # "running"
      BY <2>1, <2>2, <1>a, <1>f, <1>g DEF Held, Live, InStatus
    <2>5. Workers(t)'
      BY <2>1, <2>3, <2>4, <1>a DEF Workers, Held
    <2> QED BY <2>1, <2>5, GoOn
  <1>3. CASE EndBatch(t)
    <2>1. /\ phase[t] = "batch" /\ phase'[t] = "after" /\ Still /\ worker' = Idle(t)
          /\ WorkersOf(t, WorkerPhases \ {"idle", "queued"}) = {}
      BY <1>3, <1>a, <1>b DEF EndBatch
    <2>2. \A o \in OpsOf(t) : worker[o] \in {"idle", "queued"}
      BY <2>1, <1>a DEF WorkersOf
    <2>3. Live(t) = {}
      BY <2>1, <2>2, <1>f DEF Held
    <2>4. \A o \in OpsOf(t) : worker'[o] = "idle"
      BY <2>1 DEF Idle, OpsOf
    <2> QED BY <2>1, <2>3, <2>4, RestStep
  <1>4. CASE StartGroup(t)
    <2>1. /\ phase[t] = "batch" /\ phase'[t] = "batch" /\ Still
          /\ WorkersOf(t, WorkerPhases \ {"idle", "queued", "armed"}) = {}
      BY <1>4, <1>b DEF StartGroup, driverVars
    <2>2. \A o \in OpsOf(t) : worker[o] \in {"idle", "queued", "armed"}
      BY <2>1, <1>a DEF WorkersOf
    <2>3. \A o \in OpsOf(t) : worker'[o] \in {"idle", "queued", "armed", "active"}
      BY <1>4, <2>2, <1>a DEF StartGroup
    <2>4. \A o \in OpsOf(t) : op'[o].status # "running"
      BY <2>1, <2>2, <1>a, <1>f, <1>g DEF Held, Live, InStatus
    <2>5. Workers(t)'
      BY <2>1, <2>3, <2>4, <1>a DEF Workers, Held
    <2> QED BY <2>1, <2>5, GoOn
  <1>5. CASE DropUnclaimed(t)
    <2>1. phase[t] \in Draining /\ phase'[t] \in Draining /\ Still
      BY <1>5, <1>b DEF DropUnclaimed, driverVars
    <2>2. \A o \in OpsOf(t) : worker'[o] \in Held => worker[o] \in Held
      BY <1>5, <1>a DEF DropUnclaimed, Held
    <2>3. \A o \in OpsOf(t) : worker'[o] \in Held => op'[o].status = "running"
      BY <2>1, <2>2, <1>a, <1>g DEF TurnInv, Workers
    <2>4. Workers(t)'
      BY <2>1, <2>3, <1>a DEF Workers
    <2> QED BY <2>1, <2>4, GoOn
  <1>6. CASE Drained(t)
    <2>1. phase[t] = "drain" /\ phase'[t] = "off" /\ Still /\ worker' = worker /\ worker = Idle(t)
      BY <1>6, <1>a, <1>b DEF Drained
    <2> QED BY <2>1, <1>c, RestStep
  <1>7. CASE AnswerApproval(t)
    <2>1. PICK o \in OpsOf(t), w \in {"discard", "denied", "active"} : Work(o, w)
      BY <1>7 DEF AnswerApproval, Awaited, OpsOf
    <2>2. phase[t] = "answer" /\ phase'[t] = "single" /\ UNCHANGED modelVars
      BY <1>7, <1>a DEF AnswerApproval
    <2>3. \E decision \in {"approve", "deny"}, recheck \in BOOLEAN : ResolveApproval(t, decision, recheck)
      BY <1>7 DEF AnswerApproval
    <2>4. Pending(t)' = {} /\ turn'[t] = "running"
      BY <2>3, <1>a, ResolvedMatters
    <2>5. AnswerStep(t)
      BY <2>2, <2>3 DEF AnswerStep
    <2>6. Live(t)' = {}
      BY <2>2, <2>5, AnswerMoves, LiveShrinks, NoneRuns
    <2>7. worker'[o] = w /\ \A p \in OpsOf(t) \ {o} : worker'[p] = "idle"
      BY <2>1, <2>2, <1>a, <1>e DEF Work
    <2> QED BY <2>2, <2>4, <2>6, <2>7, BeginCalls DEF Held, ChildWaiting
  <1>8. CASE RecoverApproved(t)
    <2>1. PICK o \in OpsOf(t), w \in {"discard", "active"} : Work(o, w)
      BY <1>8 DEF RecoverApproved, ApprovedReady
    <2>2. phase[t] = "recheck" /\ phase'[t] = "single" /\ Still
      BY <1>8, <1>a, <1>b DEF RecoverApproved
    <2>3. /\ Pending(t)' = {} /\ ~ChildWaiting(t)' /\ Live(t)' = {} /\ turn'[t] # "absent"
      BY <2>2, <1>d, StillIsStill DEF Free, Still
    <2>4. worker'[o] = w /\ \A p \in OpsOf(t) \ {o} : worker'[p] = "idle"
      BY <2>1, <2>2, <1>a, <1>e DEF Work
    <2> QED BY <2>2, <2>3, <2>4, BeginCalls DEF Held
  <1>9. CASE EndSingle(t)
    <2>1. phase[t] = "single" /\ phase'[t] = "loop" /\ Still /\ worker' = worker /\ worker = Idle(t)
      BY <1>9, <1>a, <1>b DEF EndSingle
    <2>2. Live(t) = {}
      BY <2>1, <1>c, <1>f DEF Held
    <2> QED BY <2>1, <2>2, <1>c, RestStep
  <1>10. CASE Stopping(t)
    <2>1. phase[t] = "stopping" /\ phase'[t] = "stopped" /\ worker' = worker /\ worker = Idle(t)
      BY <1>10, <1>a DEF Stopping, DriverStep
    <2>2. Still
      BY <1>10, <1>b DEF Stopping, RequestCancellation, Still, untouchedByTurns, toolVars
    <2> QED BY <2>1, <2>2, <1>c, RestStep
  <1>11. CASE AnswerOutdated(t) \/ RecoverOutdated(t)
    BY <1>11, OutdatedSteps
  <1> QED
    BY <1>1, <1>2, <1>3, <1>4, <1>5, <1>6, <1>7, <1>8, <1>9, <1>10, <1>11 DEF BatchStep

LEMMA OutsideSteps ==
    ASSUME RunnerTypeOK, TypeOK, NEW t \in Turns, TurnInv(t), OutsideStep(t)
    PROVE  TurnInv(t)'
  <1> USE DEF At, Goto, DriverStep
  <1>a. /\ phase \in [Turns -> Phases] /\ turn \in [Turns -> TurnStatus] /\ Matters(t)
        /\ OpsOf(t) \subseteq Ops /\ OpsOf(t)' = OpsOf(t)
    BY DEF RunnerTypeOK, TurnInv, TypeOK, TurnTypeOK, OpsOf
  <1>b. UNCHANGED vars => Still
    BY DEF Still, vars, turnVars, toolVars
  <1> USE DEF Calling, Working, Draining, Certain, Unsure
  <1>1. CASE Start(t)
    <2>1. phase[t] = "off" /\ phase'[t] = "loop" /\ worker' = worker
      BY <1>1, <1>a DEF Start
    <2>2. turn[t] = "absent" /\ turn'[t] = "running" /\ interaction' = interaction /\ op' = op
      BY <1>1, <1>a DEF Start, StartTurn, StartChild, SetTurn, untouchedByTurns, toolVars
    <2>3. Pending(t) = {} /\ Live(t) = {}
      BY <2>2, <1>a DEF Matters, Open
    <2> QED BY <2>1, <2>2, <2>3, ClearStep
  <1>2. CASE Stop(t)
    <2>1. CASE phase[t] \in Working
      <3>1. phase'[t] = "stopping" /\ Still /\ worker' = worker
        BY <1>2, <2>1, <1>a, <1>b DEF Stop
      <3>2. Workers(t)'
        BY <2>1, <3>1, <1>a DEF TurnInv, Workers, Still
      <3> QED BY <2>1, <3>1, <3>2, GoOn
    <2>2. CASE phase[t] = "await"
      <3>1. phase'[t] = "stopped" /\ worker' = worker /\ interaction' = interaction /\ op' = op
        BY <1>2, <2>2, <1>a DEF Stop, toolVars
      <3>2. Pending(t) = {} /\ Live(t) = {} /\ turn[t] # "absent"
        BY <2>2, NoneRuns DEF TurnInv, Place, Free
      <3>3. turn'[t] # "absent"
        BY <1>2, <2>2, <3>2, <1>a DEF Stop, InterruptedIfRunning
      <3> QED BY <2>2, <3>1, <3>2, <3>3, ClearStep
    <2>3. CASE phase[t] \notin Working \cup {"await"}
      <3>1. phase'[t] = "stopped" /\ Still /\ worker' = worker /\ phase[t] \notin Calling \cup {"off"}
        BY <1>2, <2>3, <1>a, <1>b DEF Stop
      <3>2. turn[t] # "absent"
        BY <3>1 DEF TurnInv, Place
      <3> QED BY <3>1, <3>2, StillStep
    <2> QED BY <2>1, <2>2, <2>3
  <1>3. CASE StopBeforeProvider(t)
    <2>1. phase[t] = "await" /\ phase'[t] = "stopped" /\ worker' = worker /\ Still
      BY <1>3, <1>a DEF StopBeforeProvider, Still, toolVars
    <2> QED BY <2>1, NoneRuns, StillStep
  <1>4. CASE Crash(t)
    <2>1. phase[t] # "off" /\ phase'[t] = "off" /\ Still /\ worker' = Idle(t)
      BY <1>4, <1>a, <1>b DEF Crash
    <2>2. \A o \in OpsOf(t) : worker'[o] = "idle"
      BY <2>1 DEF Idle, OpsOf
    <2> QED BY <2>1, <2>2, RestStep
  <1>5. CASE Reconcile(t)
    <2>1. phase[t] = "off" /\ phase'[t] = "off" /\ worker' = worker
      BY <1>5 DEF Reconcile, driverVars
    <2>2. Pending(t)' = {} /\ turn'[t] = "running"
      BY <1>5, <1>a, ResolvedMatters DEF Reconcile
    <2>3. Matters(t)'
      BY <2>2, Clear DEF ChildWaiting, Open
    <2> QED BY <2>1, <2>2, <2>3, QuietStep
  <1>6. CASE Outside(t)
    <2>1. Still /\ phase' = phase /\ worker' = worker
      BY <1>6 DEF Outside, ReceiveInput, RequestCancellation, SettleChild, Still, untouchedByTurns, toolVars,
                  driverVars
    <2> QED BY <2>1, Bystander, StillIsStill DEF Still
  <1>7. ASSUME NEW action \in Replies, Resume(t, action) PROVE TurnInv(t)'
    <2>1. phase[t] = "off" /\ phase'[t] = "recover" /\ Still /\ worker' = worker /\ turn[t] \in Open
      BY <1>7, <1>a, <1>b DEF Resume
    <2> QED BY <2>1, StillStep DEF Open
  <1> QED BY <1>1, <1>2, <1>3, <1>4, <1>5, <1>6, <1>7 DEF OutsideStep

-----------------------------------------------------------------------------
(* Steps of a call                                                          *)

(* The call goes on to w: nothing else changes and it starts nothing.       *)
Tends(o, w) ==
    /\ UNCHANGED <<turn, childWait, interaction, phase>>
    /\ Work(o, w)
    /\ worker[o] # "idle" /\ w # "active"
    /\ w \in {"checked", "discard"} => worker[o] \in {"checked", "discard"}
    /\ w \in Held => worker[o] \in Held /\ op'[o].status = op[o].status
    /\ w \notin Held /\ worker[o] \in Held => op'[o].status # "running"
    /\ op'[o].status = "running" => op[o].status = "running"
    /\ \A p \in Ops \ {o} : op'[p] = op[p]

LEMMA TendedCall ==
    ASSUME RunnerTypeOK, NEW o \in Ops, TurnInv(TurnOf[o]), NEW w, Tends(o, w)
    PROVE  TurnInv(TurnOf[o])'
  <1> DEFINE t == TurnOf[o]
  <1>a. /\ t \in Turns /\ o \in OpsOf(t) /\ OpsOf(t) \subseteq Ops /\ OpsOf(t)' = OpsOf(t)
    BY ToolConstants DEF OpsOf
  <1>b. /\ worker'[o] = w /\ \A p \in Ops \ {o} : worker'[p] = worker[p] /\ op'[p] = op[p]
    BY DEF RunnerTypeOK, Tends, Work
  <1>c. worker[o] # "idle" /\ phase' = phase /\ turn' = turn /\ childWait' = childWait /\ interaction' = interaction
    BY DEF Tends
  <1> HIDE DEF t
  <1>d. TurnInv(t)
    BY DEF t
  <1>1. phase[t] \in Calling
    BY <1>a, <1>c, <1>d DEF TurnInv, Workers
  <1>2. Pending(t)' = Pending(t) /\ Live(t)' \subseteq Live(t) /\ ChildWaiting(t)' = ChildWaiting(t)
    <2>1. Live(t)' \subseteq Live(t)
      BY <1>a, <1>b DEF Live, InStatus, Tends
    <2> QED BY <2>1, <1>c DEF Pending, ChildWaiting
  <1>3. Matters(t)'
    BY <1>2, <1>c, <1>d DEF TurnInv, Matters
  <1>4. Place(t)'
    BY <1>1, <1>2, <1>c, <1>d DEF TurnInv, Place, Calling, Working, Draining
  <1>5. Workers(t)'
    <2>1. \A p \in OpsOf(t) : worker'[p] \in Held => worker[p] \in Held /\ op'[p].status = op[p].status
      BY <1>a, <1>b DEF Tends
    <2>2. \A p \in OpsOf(t) : /\ worker'[p] \in {"checked", "discard"} => worker[p] \in {"checked", "discard"}
                              /\ worker'[p] = "active" => worker[p] = "active"
                              /\ worker'[p] # "idle" => worker[p] # "idle"
      BY <1>a, <1>b, <1>c DEF Tends
    <2>3. ASSUME NEW p \in OpsOf(t), phase[t] \in Working, op'[p].status = "running" PROVE worker'[p] \in Held
      <3>1. op[p].status = "running"
        BY <1>a, <1>b, <2>3 DEF Tends
      <3>2. worker[p] \in Held
        BY <3>1, <1>d, <2>3 DEF TurnInv, Workers
      <3> QED BY <3>2, <2>3, <1>a, <1>b DEF Tends
    <2> QED BY <2>1, <2>2, <2>3, <1>a, <1>c, <1>d DEF TurnInv, Workers
  <1> QED BY <1>3, <1>4, <1>5 DEF TurnInv, t

LEMMA CallsAreTended ==
    ASSUME RunnerTypeOK, TypeOK, NEW o \in Ops,
           \/ PrepareAllowed(o) \/ PrepareDenied(o) \/ AskingTooLate(o) \/ Discard(o) \/ ClaimRefused(o)
           \/ RejectRevoked(o) \/ RunEffect(o) \/ RefuseLive(o) \/ CommitKnown(o) \/ RecordRejection(o)
           \/ ReportDenied(o)
    PROVE  \E w : Tends(o, w)
  <1> DEFINE Rest == UNCHANGED <<turn, childWait, interaction>> /\ \A p \in Ops \ {o} : op'[p] = op[p]
  <1>a. op \in [Ops -> OpRow]
    BY DEF TypeOK, ToolTypeOK
  <1>b. \/ PrepareOperation(o) \/ ReadyOperation(o) \/ RecordResult(o) \/ RecordRefusal(o)
        \/ \E superseded : RejectReady(o, superseded)
        => Rest /\ (op'[o].status # "running" \/ op'[o].status = op[o].status)
    BY <1>a
    DEF PrepareOperation, ReadyOperation, RejectReady, RecordResult, RecordRefusal, SetStatus,
        OpRow, turnVars
  <1>c. (\E status : CommitResult(o, status)) => Rest /\ op'[o].status # "running"
    BY <1>a DEF CommitResult, OpRow, turnVars
  <1>d. UNCHANGED vars \/ RequestCancellation(TurnOf[o]) => Rest /\ op'[o].status = op[o].status
    BY DEF vars, turnVars, toolVars, RequestCancellation, untouchedByTurns
  <1>e. ASSUME NEW w, Work(o, w), UNCHANGED driverVars, Rest,
               \/ op'[o].status # "running" /\ w \notin Held
               \/ op'[o].status = op[o].status /\ (w \in Held <=> worker[o] \in Held),
               worker[o] # "idle", w # "active",
               w \in {"checked", "discard"} => worker[o] \in {"checked", "discard"}
        PROVE  Tends(o, w)
    BY <1>e DEF Tends, driverVars
  <1> HIDE DEF Rest
  <1> USE DEF WorkerStep, Held
  <1>1. CASE PrepareAllowed(o) BY <1>1, <1>b, <1>d, <1>e DEF PrepareAllowed
  <1>2. CASE PrepareDenied(o) BY <1>2, <1>b, <1>e DEF PrepareDenied
  <1>3. CASE AskingTooLate(o) BY <1>3, <1>d, <1>e DEF AskingTooLate
  <1>4. CASE Discard(o) BY <1>4, <1>b, <1>e DEF Discard
  <1>5. CASE ClaimRefused(o) BY <1>5, <1>b, <1>d, <1>e DEF ClaimRefused
  <1>6. CASE RejectRevoked(o) BY <1>6, <1>b, <1>e DEF RejectRevoked
  <1>7. CASE RunEffect(o) BY <1>7, <1>d, <1>e DEF RunEffect
  <1>8. CASE RefuseLive(o) BY <1>8, <1>d, <1>e DEF RefuseLive
  <1>9. CASE CommitKnown(o) BY <1>9, <1>c, <1>e DEF CommitKnown
  <1>10. CASE RecordRejection(o) BY <1>10, <1>b, <1>e DEF RecordRejection
  <1>11. CASE ReportDenied(o) BY <1>11, <1>b, <1>e DEF ReportDenied
  <1> QED BY <1>1, <1>2, <1>3, <1>4, <1>5, <1>6, <1>7, <1>8, <1>9, <1>10, <1>11

LEMMA ClaimedCall ==
    ASSUME RunnerTypeOK, TypeOK, NEW o \in Ops, TurnInv(TurnOf[o]), Claim(o)
    PROVE  TurnInv(TurnOf[o])'
  <1> DEFINE t == TurnOf[o]
  <1>a. /\ t \in Turns /\ o \in OpsOf(t) /\ OpsOf(t) \subseteq Ops /\ OpsOf(t)' = OpsOf(t)
    BY ToolConstants DEF OpsOf
  <1>b. /\ worker[o] = "active" /\ phase' = phase
        /\ worker'[o] = "claimed" /\ \A p \in Ops \ {o} : worker'[p] = worker[p]
    BY DEF RunnerTypeOK, Claim, WorkerStep, Work, driverVars
  <1>c. /\ op'[o].status = "running" /\ \A p \in Ops \ {o} : op'[p] = op[p]
        /\ UNCHANGED <<turn, childWait, interaction>> /\ ~Revoked(t)
    BY DEF Claim, ClaimOperation, AdmissionRevoked, TypeOK, ToolTypeOK, OpRow, turnVars
  <1>d. turn[t] \in TurnStatus
    BY <1>a DEF TypeOK, TurnTypeOK
  <1> HIDE DEF t
  <1>e. TurnInv(t)
    BY DEF t
  <1>1. phase[t] \in Calling
    BY <1>a, <1>b, <1>e DEF TurnInv, Workers
  <1>2. Pending(t)' = Pending(t) /\ ChildWaiting(t)' = ChildWaiting(t)
    BY <1>c DEF Pending, ChildWaiting
  <1>3. turn[t] \in Open
    <2>1. turn[t] # "absent"
      BY <1>1, <1>e DEF TurnInv, Place, Calling, Working, Draining
    <2> QED BY <2>1, <1>c, <1>d DEF Revoked, TurnStatus
  <1>4. Place(t)'
    BY <1>1, <1>2, <1>b, <1>c, <1>e DEF TurnInv, Place, Calling, Working, Draining
  <1>5. Matters(t)'
    <2>1. ~ChildWaiting(t) /\ \A r \in Pending(t) : interaction[r].kind = "tool_reconciliation"
      BY <1>1, <1>e DEF TurnInv, Place
    <2> QED BY <2>1, <1>2, <1>3, <1>c, <1>e DEF TurnInv, Matters
  <1>6. Workers(t)'
    <2>1. \A p \in OpsOf(t) : worker'[p] \in Held => op'[p].status = "running"
      BY <1>a, <1>b, <1>c, <1>e DEF TurnInv, Workers
    <2>2. \A p \in OpsOf(t) : phase[t] \in Working /\ op'[p].status = "running" => worker'[p] \in Held
      BY <1>a, <1>b, <1>c, <1>e DEF TurnInv, Workers, Held
    <2>3. \A p \in OpsOf(t) : phase[t] = "batch" => worker[p] \notin {"checked", "discard"}
      BY <1>a, <1>b, <1>e DEF TurnInv, Workers
    <2>4. \A p \in OpsOf(t) : phase[t] = "batch" => worker'[p] \notin {"checked", "discard"}
      BY <2>3, <1>a, <1>b
    <2>5. \A p \in OpsOf(t) : worker'[p] # "idle" => worker[p] # "idle"
      BY <1>a, <1>b
    <2>6. \A p, q \in OpsOf(t) : phase[t] = "single" /\ worker'[p] # "idle" /\ worker'[q] # "idle" => p = q
      BY <2>5, <1>e DEF TurnInv, Workers
    <2> QED BY <2>1, <2>2, <2>4, <2>5, <2>6, <1>1, <1>a, <1>b DEF Workers
  <1> QED BY <1>4, <1>5, <1>6 DEF TurnInv, t

(* The result of a claimed call finds the Turn paused: the driver fails and *)
(* only drains what it started.                                             *)
LEMMA RefusedCall ==
    ASSUME RunnerTypeOK, NEW o \in Ops, TurnInv(TurnOf[o]), ResultRefused(o)
    PROVE  TurnInv(TurnOf[o])'
  <1> DEFINE t == TurnOf[o]
  <1>a. /\ t \in Turns /\ o \in OpsOf(t) /\ OpsOf(t) \subseteq Ops /\ OpsOf(t)' = OpsOf(t)
    BY ToolConstants DEF OpsOf
  <1>b. /\ worker[o] # "idle" /\ Still
        /\ worker'[o] = "idle" /\ \A p \in Ops \ {o} : worker'[p] = worker[p]
    BY DEF RunnerTypeOK, ResultRefused, Still, vars, turnVars, toolVars
  <1>c. phase'[t] = IF phase[t] \in Working THEN "drain" ELSE phase[t]
    BY <1>a DEF RunnerTypeOK, ResultRefused
  <1> HIDE DEF t
  <1>e. TurnInv(t)
    BY DEF t
  <1>1. phase[t] \in Calling
    BY <1>a, <1>b, <1>e DEF TurnInv, Workers
  <1>2. phase'[t] \in Draining
    BY <1>1, <1>c DEF Calling, Draining
  <1>3. \A p \in OpsOf(t) : worker'[p] \in Held => op'[p].status = "running"
    BY <1>a, <1>b, <1>e DEF TurnInv, Workers, Still, Held
  <1>4. Workers(t)'
    BY <1>2, <1>3, <1>a DEF Workers, Calling, Working, Draining
  <1>5. TurnInv(t)'
    BY <1>1, <1>2, <1>4, <1>a, <1>b, <1>e, GoOn DEF Calling
  <1> QED BY <1>5 DEF t

(* The outcome of the call is put up for reconciliation beside its siblings.*)
LEMMA UncertainCall ==
    ASSUME RunnerTypeOK, TypeOK, NEW o \in Ops, TurnInv(TurnOf[o]), NEW r \in Requests, CommitUncertain(o, r)
    PROVE  TurnInv(TurnOf[o])'
  <1> DEFINE t == TurnOf[o]
  <1>a. /\ t \in Turns /\ o \in OpsOf(t) /\ OpsOf(t) \subseteq Ops /\ OpsOf(t)' = OpsOf(t)
    BY ToolConstants DEF OpsOf
  <1>b. /\ worker[o] = "ran" /\ phase' = phase
        /\ worker'[o] = "idle" /\ \A p \in Ops \ {o} : worker'[p] = worker[p]
    BY DEF RunnerTypeOK, CommitUncertain, WorkerStep, Work, driverVars
  <1>c. /\ op'[o].status = "unknown" /\ \A p \in Ops \ {o} : op'[p] = op[p]
        /\ interaction' = [interaction EXCEPT ![r] = Asked("tool_reconciliation", t, o)]
        /\ Fresh(r) /\ turn'[t] = "paused" /\ childWait'[t] = 0
    BY <1>a DEF CommitUncertain, CommitUnknownResult, AskReconciliation, Paused, SetTurn, TypeOK, TurnTypeOK,
                ToolTypeOK, OpRow
  <1> HIDE DEF t
  <1>e. TurnInv(t)
    BY DEF t
  <1>1. phase[t] \in Calling /\ op[o].status = "running"
    BY <1>a, <1>b, <1>e DEF TurnInv, Workers, Held
  <1>2. Live(t) # {}
    BY <1>1, <1>a DEF Live, InStatus
  <1>3. ~ChildWaiting(t)'
    BY <1>c DEF ChildWaiting
  <1>4. Matters(t)' /\ \A q \in Pending(t)' : interaction'[q].kind = "tool_reconciliation"
    BY <1>2, <1>3, <1>a, <1>c, <1>e, AskedToReconcile DEF TurnInv
  <1>5. Place(t)'
    BY <1>1, <1>3, <1>4, <1>b, <1>c DEF Place, Calling, Working, Draining
  <1>6. Workers(t)'
    <2>1. \A p \in OpsOf(t) : worker'[p] = "idle" \/ (p # o /\ worker'[p] = worker[p])
      BY <1>a, <1>b
    <2>2. \A p \in OpsOf(t) : worker'[p] \in Held => op'[p].status = "running"
      BY <2>1, <1>a, <1>c, <1>e DEF TurnInv, Workers, Held
    <2>3. \A p \in OpsOf(t) : phase[t] \in Working /\ op'[p].status = "running" => worker'[p] \in Held
      BY <1>a, <1>b, <1>c, <1>e DEF TurnInv, Workers
    <2>4. ASSUME phase[t] = "batch", NEW p \in OpsOf(t), worker'[p] \in {"checked", "discard"},
                 NEW q \in OpsOf(t)
          PROVE  worker'[q] \notin {"active"} \cup Held
      <3>1. worker[q] \notin {"active"} \cup Held
        BY <2>1, <2>4, <1>e DEF TurnInv, Workers
      <3> QED BY <3>1, <2>1 DEF Held
    <2>5. ASSUME phase[t] = "single", NEW p \in OpsOf(t), NEW q \in OpsOf(t), worker'[p] # "idle",
                 worker'[q] # "idle"
          PROVE  p = q
      BY <2>1, <2>5, <1>e DEF TurnInv, Workers
    <2> QED BY <2>2, <2>3, <2>4, <2>5, <1>1, <1>a, <1>b DEF Workers
  <1> QED BY <1>4, <1>5, <1>6 DEF TurnInv, t

(* An approval ends the batch, or the call that asks for a second scope.    *)
LEMMA AskingCall ==
    ASSUME RunnerTypeOK, TypeOK, NEW o \in Ops, TurnInv(TurnOf[o]), NEW r \in Requests,
           PrepareAsking(o, r) \/ AskAnotherScope(o, r)
    PROVE  TurnInv(TurnOf[o])'
  <1> DEFINE t == TurnOf[o]
  <1>a. /\ t \in Turns /\ o \in OpsOf(t) /\ OpsOf(t) \subseteq Ops /\ OpsOf(t)' = OpsOf(t)
    BY ToolConstants DEF OpsOf
  <1>b. phase'[t] = "off" /\ \A p \in OpsOf(t) : worker'[p] = "idle"
    BY <1>a DEF RunnerTypeOK, PrepareAsking, AskAnotherScope, Goto, Idle, OpsOf
  <1>c. /\ Running(t) /\ Fresh(r) /\ Paused(t)
        /\ op'[o].status # "running" /\ \A p \in Ops \ {o} : op'[p] = op[p]
        /\ interaction' = [interaction EXCEPT ![r] = Asked("tool_approval", t, o)]
    BY <1>a DEF PrepareAsking, AskAnotherScope, RequestApproval, TypeOK, ToolTypeOK, OpRow
  <1>d. /\ phase[t] \in Working
        /\ \/ phase[t] = "batch" /\ worker[o] = "checked"
           \/ phase[t] = "single" /\ worker[o] = "active"
    BY DEF PrepareAsking, AskAnotherScope, Preparing, At, Working
  <1> HIDE DEF t
  <1>e. TurnInv(t)
    BY DEF t
  <1>1. \A p \in OpsOf(t) : worker[p] \notin Held
    BY <1>a, <1>d, <1>e DEF TurnInv, Workers, Held
  <1>2. Live(t)' = {}
    BY <1>1, <1>a, <1>c, <1>d, <1>e DEF TurnInv, Workers, Live, InStatus
  <1>3. Matters(t)'
    BY <1>2, <1>a, <1>c, <1>e, QuestionMatters DEF TurnInv
  <1>4. Place(t)'
    BY <1>2, <1>b DEF Place, Calling, Working, Draining
  <1>5. Workers(t)'
    BY <1>a, <1>b DEF Workers, Held, Working
  <1> QED BY <1>3, <1>4, <1>5 DEF TurnInv, t

LEMMA CallSteps ==
    ASSUME RunnerTypeOK, TypeOK, NEW o \in Ops, TurnInv(TurnOf[o]), CallStep(o)
    PROVE  TurnInv(TurnOf[o])'
  <1>1. CASE \/ PrepareAllowed(o) \/ PrepareDenied(o) \/ AskingTooLate(o) \/ Discard(o) \/ ClaimRefused(o)
             \/ RejectRevoked(o) \/ RunEffect(o) \/ RefuseLive(o) \/ CommitKnown(o) \/ RecordRejection(o)
             \/ ReportDenied(o)
    <2>1. PICK w : Tends(o, w)
      BY <1>1, CallsAreTended
    <2> QED BY <2>1, TendedCall
  <1> QED BY <1>1, ClaimedCall, RefusedCall, UncertainCall, AskingCall DEF CallStep

LEMMA OwnSteps ==
    ASSUME RunnerTypeOK, TypeOK, ToolInv, SettledIsLinked, NEW t \in Turns, TurnInv(t), DriverOwnStep(t)
    PROVE  TurnInv(t)'
  BY PlanSteps, OutcomeSteps, EndingSteps, OfferStep, BatchSteps DEF DriverOwnStep

MattersInv == \A t \in Turns : TurnInv(t)

LEMMA MattersInit == RunnerInit => MattersInv
  <1> SUFFICES ASSUME RunnerInit, NEW t \in Turns PROVE TurnInv(t)
    BY DEF MattersInv
  <1>1. /\ turn[t] = "absent" /\ childWait[t] = 0 /\ phase[t] = "off"
        /\ \A r \in Requests : interaction[r].status = "free"
        /\ \A o \in Ops : op[o].status = "absent" /\ worker[o] = "idle"
    BY DEF RunnerInit, Init, TurnInit, ToolInit, FreeRow, NoOpRow
  <1>2. Pending(t) = {} /\ Live(t) = {} /\ ~ChildWaiting(t)
    BY <1>1 DEF Pending, Live, InStatus, OpsOf, ChildWaiting
  <1>3. Matters(t)
    BY <1>2 DEF Matters
  <1>4. Place(t)
    BY <1>1, <1>2 DEF Place, Calling, Working, Draining
  <1>5. Workers(t)
    BY <1>1 DEF Workers, OpsOf, Held, Working
  <1> QED BY <1>3, <1>4, <1>5 DEF TurnInv

LEMMA MattersStep ==
    ASSUME RunnerInv, EffectInv, MattersInv, [RunnerNext]_runnerVars
    PROVE  MattersInv'
  <1>a. RunnerTypeOK /\ TypeOK /\ ToolInv /\ SettledIsLinked
    BY DEF RunnerInv, LedgerInv, EffectInv
  <1>1. CASE UNCHANGED runnerVars
    <2> SUFFICES ASSUME NEW t \in Turns PROVE TurnInv(t)'
      BY DEF MattersInv
    <2>1. TurnInv(t) /\ Pending(t)' = Pending(t)
      BY <1>1 DEF MattersInv, runnerVars, vars, turnVars, Pending
    <2> QED BY <1>1, <2>1, Bystander DEF runnerVars, vars, turnVars, toolVars, driverVars
  <1>2. ASSUME NEW t \in Turns, DriverOwnStep(t) \/ OutsideStep(t) PROVE MattersInv'
    <2>1. TurnInv(t)'
      BY <1>2, <1>a, OwnSteps, OutsideSteps DEF MattersInv
    <2>2. OthersLeft(t) /\ OnlyOf(t)
      BY <1>2, <1>a, TurnStepInvariant, CommandsAreLocal DEF Moved
    <2>3. \A u \in Turns \ {t} : TurnInv(u)'
      BY <2>2, OthersRest DEF MattersInv
    <2> QED BY <2>1, <2>3 DEF MattersInv
  <1>3. ASSUME NEW o \in Ops, CallStep(o) PROVE MattersInv'
    <2> DEFINE t == TurnOf[o]
    <2>0. t \in Turns
      BY ToolConstants
    <2>1. TurnInv(t)'
      BY <1>3, <1>a, <2>0, CallSteps DEF MattersInv
    <2>2. OthersLeft(t) /\ (CallCommand(o) \/ RequestCancellation(t) \/ UNCHANGED vars)
      BY <1>3, CallStepInvariant DEF Moved
    <2>3. OnlyOf(t)
      <3>1. RequestCancellation(t) \/ UNCHANGED vars => TurnCommand(t)
        BY DEF TurnCommand, TurnStep
      <3> QED BY <1>a, <2>0, <2>2, <3>1, CallsAreLocal, CommandsAreLocal
    <2> HIDE DEF t
    <2>4. \A u \in Turns \ {t} : TurnInv(u)'
      BY <2>0, <2>2, <2>3, OthersRest DEF MattersInv
    <2> QED BY <2>1, <2>4 DEF MattersInv
  <1> QED BY <1>1, <1>2, <1>3 DEF RunnerNext

(* What waits for the user, what runs and where the driver is agree, in    *)
(* every Turn and whatever was crashed, stopped, answered or cancelled.     *)
THEOREM MattersAreKept == RunnerSpec => []MattersInv
  BY MattersInit, MattersStep, DriverKeepsLedger, EffectsFollowClaims, PTL DEF RunnerSpec

(* No Turn ends with a call of it running or uncertain or with a question   *)
(* left open, and none runs while a question of it waits for the user, in   *)
(* any interleaving of its workers, its driver, crashes and answers.        *)
THEOREM OpenMattersAreHeld == RunnerSpec => []OpenMattersHoldTurn
  <1>1. ASSUME RunnerInv, MattersInv PROVE OpenMattersHoldTurn
    <2> SUFFICES ASSUME NEW t \in Turns
                 PROVE  /\ turn[t] \in Terminal => Quiescent(t)
                        /\ Pending(t) # {} => turn[t] \notin Terminal /\ ~Running(t)
      BY DEF OpenMattersHoldTurn
    <2>1. Matters(t)
      BY <1>1 DEF MattersInv, TurnInv
    <2>2. Pending(t) # {} => turn[t] \notin Terminal /\ ~Running(t)
      BY <2>1 DEF Matters, Terminal, Running
    <2>3. ASSUME turn[t] \in Terminal, NEW o \in OpsOf(t), op[o].status = "unknown" PROVE Pending(t) # {}
      <3>1. PICK r \in PendingReconciliations(o) : TRUE
        BY <1>1, <2>3 DEF RunnerInv, LedgerInv, ToolInv, UnknownAsksOnce, OpsOf
      <3>2. r \in Pending(t)
        BY <1>1, <2>3, <3>1
        DEF RunnerInv, LedgerInv, ToolInv, RowsNameTheirCall, PendingReconciliations, Pending,
            OpsOf, ToolQuestion
      <3> QED BY <3>2
    <2>4. turn[t] \in Terminal => Live(t) = {}
      BY <2>1 DEF Matters, Terminal, Open
    <2> QED BY <2>2, <2>3, <2>4 DEF Quiescent, InStatus, Live, Uncertain
  <1> QED BY <1>1, DriverKeepsLedger, MattersAreKept, PTL

-----------------------------------------------------------------------------
(* Requests whose outcome nobody knows yet *)

FlightOf(t) == ModelsIn(t, InFlight)

(* Phases in which no request can be in flight, and phases a request may be *)
(* on its way in.                                                           *)
Grounded == {"answer", "recheck", "single"} \cup Draining
Aloft == {"off", "await", "acked", "recover", "stopped"}

(* Only the newest request is in flight; nothing waits or runs beside it,   *)
(* and while its outcome is unknown the Turn does not run.  A Turn is       *)
(* interrupted for that reason only.                                        *)
FlightInv(t) ==
    /\ \A m \in FlightOf(t) : IsLatest(t, m)
    /\ FlightOf(t) # {} => /\ Free(t) /\ Live(t) = {} /\ turn[t] # "absent"
                           /\ phase[t] \notin Grounded
    /\ ModelsIn(t, {"dispatched"}) # {} => phase[t] \in Aloft
    /\ ModelsIn(t, {"unknown"}) # {} => ~Running(t)
    /\ turn[t] = "interrupted" => ModelsIn(t, {"unknown"}) # {}

(* The requests of t that are in flight stay so, and no other begins.       *)
SameFlight(t) ==
    \A m \in Models :
        /\ model'[m].turn = t <=> model[m].turn = t
        /\ \/ model[m].turn = t => model'[m].status = model[m].status
           \/ model[m].status \notin InFlight /\ model'[m].status \notin InFlight

LEMMA FlightKept ==
    ASSUME NEW t \in Turns, SameFlight(t)
    PROVE  /\ ModelsOf(t)' = ModelsOf(t) /\ FlightOf(t)' = FlightOf(t)
           /\ ModelsIn(t, {"dispatched"})' = ModelsIn(t, {"dispatched"})
           /\ ModelsIn(t, {"unknown"})' = ModelsIn(t, {"unknown"})
           /\ \A m \in Models : IsLatest(t, m)' <=> IsLatest(t, m)
  <1>1. ModelsOf(t)' = ModelsOf(t)
    BY DEF ModelsOf, SameFlight
  <1>2. \A m \in ModelsOf(t) : \/ model'[m].status = model[m].status
                               \/ model[m].status \notin InFlight /\ model'[m].status \notin InFlight
    BY DEF ModelsOf, SameFlight
  <1>3. /\ FlightOf(t)' = FlightOf(t)
        /\ ModelsIn(t, {"dispatched"})' = ModelsIn(t, {"dispatched"})
        /\ ModelsIn(t, {"unknown"})' = ModelsIn(t, {"unknown"})
    BY <1>1, <1>2 DEF FlightOf, ModelsIn, InFlight
  <1>4. \A m \in Models : IsLatest(t, m)' <=> IsLatest(t, m)
    BY <1>1 DEF IsLatest
  <1> QED BY <1>1, <1>3, <1>4

LEMMA FlightParts ==
    ASSUME NEW t \in Turns
    PROVE  /\ FlightOf(t) = ModelsIn(t, {"dispatched"}) \cup ModelsIn(t, {"unknown"})
           /\ FlightOf(t) \subseteq ModelsOf(t) /\ ModelsOf(t) \subseteq Models
  BY DEF FlightOf, ModelsIn, ModelsOf, InFlight

(* One request at most is in flight.                                        *)
LEMMA FlightIsNewest ==
    ASSUME ModelsInOrder, NEW t \in Turns, FlightInv(t)
    PROVE  /\ \A m \in FlightOf(t) : m = Latest(t)
           /\ \A S : NewestIs(t, S) /\ S \cap InFlight = {} => FlightOf(t) = {}
           /\ \A m \in FlightOf(t) : FlightOf(t) = {m}
  <1>1. \A m \in FlightOf(t) : m = Latest(t)
    BY NewestModel, FlightParts DEF FlightInv
  <1>2. ASSUME NEW S, NewestIs(t, S), S \cap InFlight = {}, NEW m \in FlightOf(t) PROVE FALSE
    <2>1. model[m].status \in S
      BY <1>1, <1>2, LatestIsNewest
    <2> QED BY <1>2, <2>1 DEF FlightOf, ModelsIn
  <1> QED BY <1>1, <1>2

(* Nothing is in flight after the step.                                     *)
LEMMA FlightLanded ==
    ASSUME NEW t \in Turns, FlightOf(t)' = {}, turn'[t] # "interrupted"
    PROVE  FlightInv(t)'
  <1>1. ModelsIn(t, {"dispatched"})' = {} /\ ModelsIn(t, {"unknown"})' = {}
    BY DEF FlightOf, ModelsIn, InFlight
  <1> QED BY <1>1 DEF FlightInv

(* What is in flight stays in flight.                                       *)
LEMMA FlightGoesOn ==
    ASSUME NEW t \in Turns, FlightInv(t), SameFlight(t),
           turn'[t] = "interrupted" => turn[t] = "interrupted",
           FlightOf(t) # {} =>
               /\ Free(t)' /\ Live(t)' = {} /\ turn'[t] # "absent" /\ phase'[t] \notin Grounded
               /\ turn'[t] = turn[t] \/ turn'[t] # "running"
               /\ ModelsIn(t, {"dispatched"}) # {} => phase'[t] \in Aloft
    PROVE  FlightInv(t)'
  <1>1. /\ FlightOf(t)' = FlightOf(t)
        /\ ModelsIn(t, {"dispatched"})' = ModelsIn(t, {"dispatched"})
        /\ ModelsIn(t, {"unknown"})' = ModelsIn(t, {"unknown"})
        /\ \A m \in Models : IsLatest(t, m)' <=> IsLatest(t, m)
        /\ FlightOf(t) = ModelsIn(t, {"dispatched"}) \cup ModelsIn(t, {"unknown"})
        /\ FlightOf(t) \subseteq Models
    BY FlightKept, FlightParts
  <1> QED BY <1>1 DEF FlightInv, Running

(* No row of the Turn but its requests change.                              *)
LEMMA FlightStill ==
    ASSUME NEW t \in Turns, FlightInv(t), Still, SameFlight(t),
           FlightOf(t) # {} => phase'[t] \notin Grounded,
           ModelsIn(t, {"dispatched"}) # {} => phase'[t] \in Aloft
    PROVE  FlightInv(t)'
  <1>1. Free(t)' = Free(t) /\ Live(t)' = Live(t) /\ turn' = turn
    BY StillIsStill DEF Still
  <1> QED BY <1>1, FlightGoesOn DEF FlightInv

(* The Turn ends.                                                           *)
LEMMA FlightEnds ==
    ASSUME NEW t \in Turns, FlightInv(t), SameFlight(t), Matters(t)', turn'[t] \in Terminal,
           phase'[t] \notin Grounded,
           ModelsIn(t, {"dispatched"}) # {} => phase'[t] \in Aloft
    PROVE  FlightInv(t)'
  <1>1. Free(t)' /\ Live(t)' = {}
    BY DEF Matters, Terminal, Open, Free, ChildWaiting
  <1> QED BY <1>1, FlightGoesOn DEF Terminal

(* Nothing is in flight, and no request is touched.                         *)
LEMMA FlightNone ==
    ASSUME NEW t \in Turns, FlightInv(t), FlightOf(t) = {}, model' = model,
           turn'[t] = "interrupted" => turn[t] = "interrupted"
    PROVE  FlightInv(t)'
  <1>1. SameFlight(t)
    BY DEF SameFlight
  <1> QED BY <1>1, FlightGoesOn

(* The awaited request lands.                                               *)
LEMMA FlightEnded ==
    ASSUME ModelsInOrder, NEW t \in Turns, FlightInv(t), NEW m \in FlightOf(t),
           \A n \in Models : n # m => model'[n] = model[n],
           model'[m].turn = t, model'[m].status \notin InFlight, turn'[t] # "interrupted"
    PROVE  FlightInv(t)'
  <1>1. FlightOf(t) = {m} /\ m \in Models
    BY FlightIsNewest, FlightParts
  <1>2. ASSUME NEW n \in FlightOf(t)' PROVE FALSE
    <2>1. n \in Models /\ model'[n].turn = t /\ model'[n].status \in InFlight
      BY <1>2 DEF FlightOf, ModelsIn, ModelsOf
    <2>2. n # m
      BY <2>1
    <2>3. n \in FlightOf(t)
      BY <2>1, <2>2 DEF FlightOf, ModelsIn, ModelsOf
    <2> QED BY <1>1, <2>2, <2>3
  <1> QED BY <1>2, FlightLanded

(* The outcome of the awaited request is unknown.                           *)
LEMMA FlightLost ==
    ASSUME ModelsInOrder, NEW t \in Turns, FlightInv(t), FlightOf(t) # {},
           \A m \in Models : model'[m].turn = model[m].turn,
           \A m \in ModelsOf(t) : model'[m].status =
               IF model[m].status = "dispatched" THEN "unknown" ELSE model[m].status,
           interaction' = interaction, op' = op, childWait' = childWait,
           turn'[t] = turn[t] \/ turn'[t] = "interrupted", turn'[t] # "running",
           phase'[t] \notin Grounded
    PROVE  FlightInv(t)'
  <1>1. ModelsOf(t)' = ModelsOf(t) /\ ModelsOf(t) \subseteq Models
    BY DEF ModelsOf
  <1>2. /\ FlightOf(t)' = FlightOf(t) /\ ModelsIn(t, {"dispatched"})' = {}
        /\ ModelsIn(t, {"unknown"})' = FlightOf(t)
    BY <1>1 DEF FlightOf, ModelsIn, InFlight
  <1>3. \A m \in Models : IsLatest(t, m)' <=> IsLatest(t, m)
    BY <1>1 DEF IsLatest
  <1>4. Free(t)' /\ Live(t)' = {} /\ turn'[t] # "absent"
    BY DEF FlightInv, Free, Live, Pending, InStatus, ChildWaiting
  <1> QED BY <1>1, <1>2, <1>3, <1>4, FlightParts DEF FlightInv, Running

(* Neither an approval nor an approved call waits beside a request.         *)
LEMMA RouteGrounds ==
    ASSUME TypeOK, ModelsInOrder, NEW t \in Turns, FlightInv(t), phase[t] \notin Aloft,
           Route(t) \in {"approval", "approved_ready"}
    PROVE  FlightOf(t) = {}
  <1>1. CASE Route(t) = "approval"
    <2>1. Pending(t) # {}
      BY <1>1, RoutePlaces
    <2> QED BY <2>1 DEF FlightInv, Free
  <1>2. CASE Route(t) = "approved_ready"
    <2> DEFINE name(i) == PlanRules(t)[i][2]
               holds(i) == PlanRules(t)[i][1]
    <2>1. PICK k \in 1..22 : Route(t) = name(k) /\ holds(k) /\ \A j \in 1..(k - 1) : ~holds(j)
      BY RouteIsRule
    <2>2. \A i \in 1..15 : name(i) # "approved_ready"
      <3>1. \A i \in 1..8 : name(i) # "approved_ready"
        BY RuleNames
      <3>2. \A i \in 9..15 : name(i) # "approved_ready"
        BY RuleNames
      <3> QED BY <3>1, <3>2
    <2>3. holds(15) <=> Cardinality(ModelsIn(t, {"unknown"})) = 1
      BY DEF PlanRules
    <2> HIDE DEF name, holds
    <2>4. k \notin 1..15
      BY <1>2, <2>1, <2>2
    <2>5. Cardinality(ModelsIn(t, {"unknown"})) # 1
      BY <2>1, <2>3, <2>4
    <2>6. FlightOf(t) = ModelsIn(t, {"unknown"})
      BY FlightParts DEF FlightInv
    <2>7. ASSUME NEW m \in FlightOf(t) PROVE FALSE
      <3>1. FlightOf(t) = {m}
        BY <2>7, FlightIsNewest
      <3> QED BY <2>5, <2>6, <3>1, FS_Singleton
    <2> QED BY <2>7
  <1> QED BY <1>1, <1>2

(* A step that only moves the driver.                                       *)
LEMMA FlightPasses ==
    ASSUME RunnerTypeOK, TypeOK, ModelInv, ModelsInOrder, NEW t \in Turns, TurnInv(t), Stage(t), FlightInv(t),
           \/ RecoveryRefused(t) \/ OfferRefused(t) \/ Decide(t) \/ RequestOutdated(t) \/ ConsumeAnswer(t)
           \/ ConsumeRaises(t) \/ ConsumeCalls(t) \/ AfterBatch(t) \/ FinishOutdated(t) \/ FinishRevoked(t)
           \/ BeginCancel(t) \/ Stopping(t)
    PROVE  FlightInv(t)'
  <1> USE DEF At, Goto, DriverStep, Grounded, Aloft, Draining
  <1>a. phase \in [Turns -> Phases]
    BY DEF RunnerTypeOK
  <1>b. UNCHANGED vars \/ RequestCancellation(t) => Still /\ model' = model
    BY DEF Still, vars, turnVars, toolVars, modelVars, RequestCancellation, untouchedByTurns
  <1>c. Still /\ model' = model
    BY <1>b
    DEF RecoveryRefused, OfferRefused, Decide, RequestOutdated, ConsumeAnswer, ConsumeRaises, ConsumeCalls,
        AfterBatch, FinishOutdated, FinishRevoked, BeginCancel, Stopping
  <1>d. SameFlight(t)
    BY <1>c DEF SameFlight
  <1>e. Destination(t) \in {"off", "cancel", "consume", "backoff", "dispatch", "request"}
    BY DEF Destination, Arm
  <1>f. phase'[t] \notin Grounded
    BY <1>a, <1>e
    DEF RecoveryRefused, OfferRefused, Decide, RequestOutdated, ConsumeAnswer, ConsumeRaises, ConsumeCalls,
        AfterBatch, FinishOutdated, FinishRevoked, BeginCancel, Stopping
  <1>g. phase[t] \in Aloft => phase'[t] \in Aloft
    BY <1>a
    DEF RecoveryRefused, OfferRefused, Decide, RequestOutdated, ConsumeAnswer, ConsumeRaises, ConsumeCalls,
        AfterBatch, FinishOutdated, FinishRevoked, BeginCancel, Stopping
  <1> QED BY <1>c, <1>d, <1>f, <1>g, FlightStill DEF FlightInv

(* Commands about a request that is not in flight, and the end of a Turn.   *)
LEMMA FlightCommands ==
    ASSUME RunnerTypeOK, TypeOK, ModelInv, ModelsInOrder, NEW t \in Turns, TurnInv(t), TurnInv(t)', Stage(t),
           FlightInv(t),
           \/ DispatchRefused(t) \/ DispatchExpired(t) \/ RetryDue(t) \/ RetryWithdrawn(t) \/ Mark(t)
           \/ WithdrawRetry(t) \/ GiveUp(t) \/ AbortTurn(t) \/ Close(t)
    PROVE  FlightInv(t)'
  <1> USE DEF At, Goto, DriverStep, Grounded, Aloft, Draining
  <1>a. /\ phase \in [Turns -> Phases] /\ turn \in [Turns -> TurnStatus] /\ Matters(t)' /\ Matters(t)
        /\ childWait \in [Turns -> Nat] /\ model \in [Models -> ModelRow]
    BY DEF RunnerTypeOK, TurnInv, TypeOK, TurnTypeOK, ModelTypeOK
  <1>b. UNCHANGED vars \/ RequestCancellation(t) => Still /\ model' = model
    BY DEF Still, vars, turnVars, toolVars, modelVars, RequestCancellation, untouchedByTurns
  <1>c. ASSUME NEW m \in ModelsOf(t),
               SupersedePrepared(m) \/ CancelScheduledRetry(m) \/ PrepareScheduledRetry(m) \/ ResponseHandled(m)
        PROVE  Still /\ SameFlight(t)
    <2>1. m \in Models /\ model[m] \in ModelRow
      BY <1>a DEF ModelsOf
    <2>2. Still
      BY <1>c DEF SupersedePrepared, CancelScheduledRetry, PrepareScheduledRetry, ResponseHandled, Still, turnVars,
                  toolVars
    <2>3. /\ \A n \in Models \ {m} : model'[n] = model[n]
          /\ model'[m].turn = model[m].turn
          /\ model[m].status \notin InFlight /\ model'[m].status \notin InFlight
      BY <1>c, <1>a, <2>1
      DEF SupersedePrepared, CancelScheduledRetry, PrepareScheduledRetry, ResponseHandled, Scheduled, InFlight,
          ModelRow
    <2> QED BY <2>2, <2>3 DEF SameFlight
  <1>d. ASSUME NEW m \in ModelsOf(t), FailUnstartedRetry(m)
        PROVE  SameFlight(t) /\ turn'[t] = "failed"
    <2>1. m \in Models /\ model[m] \in ModelRow /\ model[m].turn = t
      BY <1>a DEF ModelsOf
    <2>2. /\ \A n \in Models \ {m} : model'[n] = model[n]
          /\ model'[m].turn = model[m].turn
          /\ model[m].status \notin InFlight /\ model'[m].status \notin InFlight
      BY <1>d, <1>a, <2>1 DEF FailUnstartedRetry, SetModel, Scheduled, InFlight, ModelRow
    <2>3. turn'[t] = "failed"
      BY <1>d, <1>a, <2>1 DEF FailUnstartedRetry, Ended, SetTurn
    <2> QED BY <2>2, <2>3 DEF SameFlight
  <1>e. \A m \in ModelsIn(t, {"retry_wait"}) : m \in ModelsOf(t)
    BY DEF ModelsIn
  <1>f. LatestIs(t, {"prepared"}) => Latest(t) \in ModelsOf(t)
    BY LatestIsNewest
  <1>g. model' = model => SameFlight(t)
    BY DEF SameFlight
  <1>1. CASE DispatchRefused(t)
    <2>1. phase[t] = "dispatch" /\ phase'[t] = "loop"
      BY <1>1, <1>a DEF DispatchRefused
    <2>2. Still /\ SameFlight(t)
      BY <1>1, <1>b, <1>c, <1>f, <1>g DEF DispatchRefused
    <2> QED BY <2>1, <2>2, FlightStill DEF FlightInv
  <1>2. CASE DispatchExpired(t)
    <2>1. phase[t] = "dispatch" /\ phase'[t] = "off"
      BY <1>2, <1>a DEF DispatchExpired
    <2>2. SameFlight(t) /\ turn'[t] = "failed"
      BY <1>2, <1>d, <1>f DEF DispatchExpired
    <2> QED BY <1>a, <2>1, <2>2, FlightEnds DEF Terminal
  <1>3. CASE RetryDue(t) \/ WithdrawRetry(t) \/ Mark(t)
    <2>1. Still /\ SameFlight(t)
      <3>1. Mark(t) => Latest(t) \in ModelsOf(t)
        BY LatestIsNewest DEF Mark, Stage
      <3> QED BY <1>3, <3>1, <1>c, <1>e DEF RetryDue, WithdrawRetry, Mark
    <2>2. phase[t] \notin Aloft /\ phase'[t] \notin Grounded
      BY <1>3, <1>a DEF RetryDue, WithdrawRetry, Mark
    <2> QED BY <2>1, <2>2, FlightStill DEF FlightInv
  <1>4. CASE RetryWithdrawn(t)
    <2>1. phase[t] = "backoff" /\ phase'[t] = "loop"
      BY <1>4, <1>a DEF RetryWithdrawn
    <2>2. PICK m \in ModelsOf(t) : UNCHANGED vars \/ CancelScheduledRetry(m) \/ FailUnstartedRetry(m)
      BY <1>4, <1>e DEF RetryWithdrawn
    <2>3. CASE UNCHANGED vars \/ CancelScheduledRetry(m)
      <3>1. Still /\ SameFlight(t)
        BY <2>3, <1>b, <1>c, <1>g
      <3> QED BY <2>1, <3>1, FlightStill DEF FlightInv
    <2>4. CASE FailUnstartedRetry(m)
      <3>1. SameFlight(t) /\ turn'[t] = "failed"
        BY <2>4, <1>d
      <3> QED BY <1>a, <2>1, <3>1, FlightEnds DEF Terminal, FlightInv
    <2> QED BY <2>2, <2>3, <2>4
  <1>5. CASE GiveUp(t)
    <2>1. phase[t] \notin Aloft /\ phase'[t] = "off"
      BY <1>5, <1>a DEF GiveUp
    <2>2. model' = model /\ turn'[t] = "failed"
      BY <1>5, <1>a DEF GiveUp, FailTurn, Ended, SetTurn, untouchedByTurns, modelVars
    <2> QED BY <1>a, <1>g, <2>1, <2>2, FlightEnds DEF Terminal
  <1>6. ASSUME CancelTurn(t), phase[t] \notin Aloft, phase'[t] = "off" PROVE FlightInv(t)'
    <2>1. model' = model /\ turn'[t] = "cancelled"
      BY <1>6, <1>a DEF CancelTurn, Ended, SetTurn, modelVars
    <2> QED BY <1>a, <1>g, <1>6, <2>1, FlightEnds DEF Terminal
  <1>7. CASE AbortTurn(t)
    BY <1>7, <1>6, <1>a DEF AbortTurn
  <1>8. CASE Close(t)
    <2>1. CASE CancelTurn(t) /\ DriverStep(t, "off")
      BY <1>8, <2>1, <1>6, <1>a DEF Close
    <2>2. CASE PauseTurn(t) /\ DriverStep(t, "closing")
      <3>1. /\ phase[t] = "closing" /\ phase'[t] = "closing" /\ turn'[t] = "paused" /\ childWait'[t] = 0
            /\ interaction' = interaction /\ op' = op /\ model' = model
        BY <1>8, <2>2, <1>a DEF Close, PauseTurn, Paused, SetTurn, untouchedByTurns, toolVars, modelVars
      <3>2. FlightOf(t) # {} => Free(t)' /\ Live(t)' = {}
        BY <3>1 DEF FlightInv, Free, Pending, ChildWaiting, Live, InStatus
      <3> QED BY <1>g, <3>1, <3>2, FlightGoesOn DEF FlightInv
    <2> QED BY <1>8, <2>1, <2>2 DEF Close
  <1> QED BY <1>1, <1>2, <1>3, <1>4, <1>5, <1>7, <1>8

(* The recovery of the owner makes every lost request an unknown one.       *)
LEMMA FlightRecovers ==
    ASSUME TypeOK, ModelsInOrder, NEW t \in Turns, FlightInv(t), NEW abort \in BOOLEAN, RecoverOwner(t, abort),
           phase'[t] \notin Grounded
    PROVE  FlightInv(t)'
  <1>a. turn \in [Turns -> TurnStatus] /\ model \in [Models -> ModelRow]
    BY DEF TypeOK, TurnTypeOK, ModelTypeOK
  <1>b. FlightOf(t) = ModelsIn(t, {"dispatched"}) \cup ModelsIn(t, {"unknown"})
    BY FlightParts
  <1>c. model' = [m \in Models |->
            IF m \in ModelsIn(t, {"dispatched"}) THEN [model[m] EXCEPT !.status = "unknown"] ELSE model[m]]
    BY DEF RecoverOwner, LoseModels
  <1>1. CASE FlightOf(t) = {}
    <2>1. ModelsIn(t, {"dispatched"}) = {}
      BY <1>1, <1>b
    <2>2. model' = model
      BY <2>1, <1>a, <1>c
    <2>3. AfterLostModels(t) = turn[t]
      BY <2>1 DEF AfterLostModels
    <2>4. turn'[t] = turn[t] \/ turn'[t] = "paused"
      BY <2>3, <1>a DEF RecoverOwner, Paused, SetTurn, CloseUnstarted
    <2> QED BY <1>1, <2>2, <2>4, FlightNone
  <1>2. CASE FlightOf(t) # {}
    <2>1. Live(t) = {}
      BY <1>2 DEF FlightInv
    <2>2. ~\E o \in Ops, r \in Requests : LoseTool(t, o, r)
      BY <2>1 DEF LoseTool, Live, InStatus, OpsOf
    <2>3. AfterLostModels(t) # "running"
      BY <1>2, <1>b DEF AfterLostModels, FlightInv, Running
    <2>4. SetTurn(t, AfterLostModels(t)) /\ UNCHANGED <<childWait, interaction, op>>
      BY <2>2, <2>3 DEF RecoverOwner
    <2>5. turn'[t] = AfterLostModels(t)
      BY <2>4, <1>a DEF SetTurn
    <2>6. AfterLostModels(t) = turn[t] \/ AfterLostModels(t) = "interrupted"
      BY DEF AfterLostModels
    <2>7. \A m \in Models : model'[m].turn = model[m].turn
      BY <1>a, <1>c DEF ModelRow
    <2>8. \A m \in ModelsOf(t) : model'[m].status =
              IF model[m].status = "dispatched" THEN "unknown" ELSE model[m].status
      BY <1>a, <1>c DEF ModelRow, ModelsIn, ModelsOf
    <2> QED BY <1>2, <2>3, <2>4, <2>5, <2>6, <2>7, <2>8, FlightLost
  <1> QED BY <1>1, <1>2

LEMMA FlightOffer ==
    ASSUME RunnerTypeOK, TypeOK, ModelsInOrder, NEW t \in Turns, FlightInv(t), Offer(t)
    PROVE  FlightInv(t)'
  <1>a. turn \in [Turns -> TurnStatus]
    BY DEF TypeOK, TurnTypeOK
  <1>b. phase[t] = "offer" /\ phase'[t] = Applied(t).to
    BY DEF Offer, At, Goto, RunnerTypeOK
  <1>c. model' = model
    BY DEF Offer, ResumeChildWait, ResumeCancelled, AnswerQuestion, untouchedByTurns, modelVars, vars
  <1>1. CASE FlightOf(t) = {}
    <2>1. turn'[t] = "running" \/ turn' = turn
      BY <1>a DEF Offer, ResumeChildWait, ResumeCancelled, AnswerQuestion, Resumed, SetTurn, vars, turnVars
    <2> QED BY <1>1, <2>1, <1>c, FlightNone
  <1>2. CASE FlightOf(t) # {}
    <2>1. ~ChildWaiting(t) /\ Pending(t) = {} /\ phase[t] \notin Aloft
      BY <1>2, <1>b DEF FlightInv, Free, Aloft
    <2>2. UNCHANGED vars
      BY <1>2, <2>1
      DEF Offer, ResumeChildWait, ChildWaiting, ResumeCancelled, FlightOf, AnswerQuestion, PendingOf
    <2>3. Route(t) \notin {"approval", "approved_ready"}
      BY <1>2, <2>1, RouteGrounds
    <2>4. phase'[t] = "loop"
      BY <1>b, <2>3 DEF Applied
    <2>5. Still /\ SameFlight(t)
      BY <2>2 DEF Still, SameFlight, vars, turnVars, toolVars, modelVars
    <2>6. ModelsIn(t, {"dispatched"}) = {}
      BY <2>1 DEF FlightInv
    <2> QED BY <2>4, <2>5, <2>6, FlightStill DEF Grounded, Draining
  <1> QED BY <1>1, <1>2

(* A fresh or another request is put in order for its dispatch.             *)
LEMMA FlightPrepares ==
    ASSUME RunnerTypeOK, TypeOK, ModelsInOrder, NEW t \in Turns, FlightInv(t),
           PrepareRequest(t) \/ PermitRetry(t)
    PROVE  FlightInv(t)'
  <1>a. turn \in [Turns -> TurnStatus] /\ model \in [Models -> ModelRow]
    BY DEF TypeOK, TurnTypeOK, ModelTypeOK
  <1>1. CASE PrepareRequest(t)
    <2>1. PICK m \in Models : PrepareModel(t, m, seen[t])
      BY <1>1 DEF PrepareRequest
    <2>2. Running(t) /\ turn' = turn /\ phase[t] \notin Aloft
      BY <1>1, <2>1 DEF PrepareModel, turnVars, PrepareRequest, At, Aloft
    <2>3. FlightOf(t) = {}
      BY <2>2, FlightParts DEF FlightInv
    <2>4. model'[m].status = "prepared" /\ \A n \in Models \ {m} : model'[n] = model[n]
      BY <2>1, <1>a DEF PrepareModel, NoModelRow
    <2>5. FlightOf(t)' = {}
      BY <2>3, <2>4 DEF FlightOf, ModelsIn, ModelsOf, InFlight
    <2> QED BY <2>2, <2>5, FlightLanded DEF Running
  <1>2. CASE PermitRetry(t)
    <2>1. PICK m \in ModelsIn(t, {"unknown"}) : RetryModel(m)
      BY <1>2 DEF PermitRetry
    <2>2. m \in FlightOf(t) /\ m \in Models /\ model[m].turn = t
      BY <2>1, FlightParts DEF ModelsIn, ModelsOf
    <2>3. /\ model'[m].status = "prepared" /\ model'[m].turn = t
          /\ \A n \in Models : n # m => model'[n] = model[n]
      BY <2>1, <2>2, <1>a DEF RetryModel, ModelRow
    <2>4. turn'[t] = "running"
      BY <2>1, <2>2, <1>a DEF RetryModel, Resumed, SetTurn
    <2> QED BY <2>2, <2>3, <2>4, FlightEnded DEF InFlight
  <1> QED BY <1>1, <1>2

LEMMA FlightDispatches ==
    ASSUME RunnerTypeOK, TypeOK, ModelsInOrder, NEW t \in Turns, TurnInv(t), FlightInv(t), Dispatch(t)
    PROVE  FlightInv(t)'
  <1>a. model \in [Models -> ModelRow]
    BY DEF TypeOK, ModelTypeOK
  <1>b. phase[t] = "dispatch" /\ phase'[t] = "await"
    BY DEF Dispatch, At, DriverStep, Goto, RunnerTypeOK
  <1>c. NewestIs(t, {"prepared"})
    BY LatestIsNewest DEF Dispatch
  <1>d. PICK m \in Models : m = Latest(t) /\ model[m].status = "prepared" /\ m \in ModelsOf(t)
    BY <1>c, LatestIsNewest DEF ModelsOf
  <1>e. IsLatest(t, m)
    BY <1>d, NewestModel
  <1>1. FlightOf(t) = {}
    BY <1>c, FlightIsNewest DEF InFlight
  <1>2. model' = [model EXCEPT ![m].status = "dispatched"] /\ UNCHANGED <<turnVars, toolVars>>
    BY <1>d DEF Dispatch, DispatchModel, SetModel
  <1>3. /\ model'[m].status = "dispatched" /\ model'[m].turn = model[m].turn
        /\ \A n \in Models \ {m} : model'[n] = model[n]
    BY <1>2, <1>a DEF ModelRow
  <1>4. ModelsOf(t)' = ModelsOf(t)
    BY <1>3 DEF ModelsOf
  <1>5. /\ FlightOf(t)' = {m} /\ ModelsIn(t, {"unknown"})' = {} /\ IsLatest(t, m)'
    <2>1. IsLatest(t, m)'
      BY <1>4, <1>e DEF IsLatest
    <2>2. \A n \in ModelsOf(t) \ {m} : model'[n].status \notin InFlight
      BY <1>1, <1>3 DEF FlightOf, ModelsIn, ModelsOf
    <2>3. \A n \in ModelsOf(t)' : model'[n].status \in InFlight <=> n = m
      BY <2>2, <1>3, <1>4 DEF InFlight
    <2>4. \A n \in ModelsOf(t)' : model'[n].status # "unknown"
      BY <2>3, <1>3 DEF InFlight
    <2> QED BY <2>1, <2>3, <2>4, <1>4, <1>d DEF FlightOf, ModelsIn
  <1>6. Still
    BY <1>2 DEF Still, turnVars, toolVars
  <1>7. Free(t)' /\ Live(t)' = {} /\ turn'[t] # "absent"
    <2>1. Free(t)
      BY <1>b DEF TurnInv, Place
    <2>2. Live(t) = {} /\ turn[t] # "absent"
      BY <1>b, NoneRuns DEF Calling, Unsure, Working, Draining
    <2> QED BY <2>1, <2>2, <1>6, StillIsStill DEF Still
  <1>8. turn'[t] # "interrupted"
    BY <1>1, <1>6, FlightParts DEF FlightInv, Still
  <1> QED BY <1>5, <1>7, <1>8, <1>b DEF FlightInv, Grounded, Draining, Aloft

(* The provider answers, fails, or acknowledges a cancellation.             *)
LEMMA FlightAnswered ==
    ASSUME RunnerInv, NEW t \in Turns, FlightInv(t), Provider(t) \/ EndAcknowledged(t)
    PROVE  FlightInv(t)'
  <1>a. /\ turn \in [Turns -> TurnStatus] /\ model \in [Models -> ModelRow] /\ phase \in [Turns -> Phases]
        /\ ModelsInOrder /\ Stage(t) /\ LedgerInv
    BY DEF RunnerInv, LedgerInv, TypeOK, TurnTypeOK, ModelTypeOK, RunnerTypeOK
  <1>b. phase[t] \in {"await", "acked"}
    BY DEF Provider, EndAcknowledged, At
  <1>c. PICK m \in Models : m = Latest(t) /\ model[m].turn = t /\ model[m].status = "dispatched"
    BY <1>a, <1>b, AwaitedModel
  <1>d. m \in FlightOf(t) /\ m \in ModelsOf(t)
    BY <1>c DEF FlightOf, ModelsIn, ModelsOf, InFlight
  <1>e. FlightOf(t) = {m}
    BY <1>a, <1>d, FlightIsNewest
  <1>f. turn[t] # "interrupted"
    <2>1. ModelsIn(t, {"unknown"}) = {}
      BY <1>c, <1>e, FlightParts DEF ModelsIn
    <2> QED BY <2>1 DEF FlightInv
  <1>g. ASSUME NEW row \in ModelRow, model' = [model EXCEPT ![m] = row], row.turn = t,
               row.status \notin InFlight, turn'[t] # "interrupted"
        PROVE  FlightInv(t)'
    BY <1>g, <1>a, <1>d, FlightEnded
  <1>h. ASSUME NEW s \in ModelStatus \ InFlight, SetModel(m, s), turn'[t] # "interrupted"
        PROVE  FlightInv(t)'
    <2>1. model' = [model EXCEPT ![m] = [model[m] EXCEPT !.status = s]]
      BY <1>h DEF SetModel
    <2>2. [model[m] EXCEPT !.status = s] \in ModelRow
      BY <1>a DEF ModelRow
    <2>3. [model[m] EXCEPT !.status = s].turn = t /\ [model[m] EXCEPT !.status = s].status = s
      BY <1>a, <1>c DEF ModelRow
    <2> QED BY <1>h, <2>1, <2>2, <2>3, <1>g
  <1>i. UNCHANGED turnVars => turn'[t] # "interrupted"
    BY <1>f DEF turnVars
  <1>1. CASE EndAcknowledged(t)
    <2>1. SetModel(m, "cancelled") /\ turn'[t] = "cancelled"
      BY <1>1, <1>a, <1>c DEF EndAcknowledged, CancelModelAttempt, Ended, SetTurn
    <2> QED BY <2>1, <1>h DEF ModelStatus, InFlight
  <1>2. ASSUME NEW g, NEW calls, CompleteModel(m, g, calls) PROVE FlightInv(t)'
    <2>1. /\ model' = [model EXCEPT ![m].status = "completed", ![m].calls = calls]
          /\ UNCHANGED turnVars
      BY <1>2 DEF CompleteModel
    <2>2. /\ \A n \in Models : n # m => model'[n] = model[n]
          /\ model'[m].turn = t /\ model'[m].status = "completed"
      BY <2>1, <1>a, <1>c DEF ModelRow
    <2> QED BY <2>1, <2>2, <1>a, <1>d, <1>i, FlightEnded DEF InFlight
  <1>3. ASSUME NEW g, FailureScheduled(m, g) PROVE FlightInv(t)'
    <2>1. /\ model' = [model EXCEPT ![m].status = "retry_wait", ![m].retries = @ + 1, ![m].scheduledAt = g]
          /\ UNCHANGED turnVars
      BY <1>3 DEF FailureScheduled
    <2>2. /\ \A n \in Models : n # m => model'[n] = model[n]
          /\ model'[m].turn = t /\ model'[m].status = "retry_wait"
      BY <2>1, <1>a, <1>c DEF ModelRow
    <2> QED BY <2>1, <2>2, <1>a, <1>d, <1>i, FlightEnded DEF InFlight
  <1>4. ASSUME NEW g, FailureFinal(m, g) PROVE FlightInv(t)'
    <2>1. SetModel(m, "failed") /\ turn'[t] = "failed"
      BY <1>4, <1>a, <1>c DEF FailureFinal, Ended, SetTurn
    <2> QED BY <2>1, <1>h DEF ModelStatus, InFlight
  <1>5. ASSUME NEW g, NEW outcome, RejectModel(m, g, outcome) PROVE FlightInv(t)'
    <2>1. SetModel(m, "failed") /\ UNCHANGED turnVars
      BY <1>5 DEF RejectModel
    <2> QED BY <2>1, <1>h, <1>i DEF ModelStatus, InFlight
  <1>6. ASSUME NEW g, FailureUnknown(m, g), phase'[t] = "off" PROVE FlightInv(t)'
    <2>1. SetModel(m, "unknown") /\ turn'[t] = "interrupted" /\ UNCHANGED <<interaction, op, childWait>>
      BY <1>6, <1>a, <1>c DEF FailureUnknown, SetTurn, untouchedByModels, toolVars
    <2>2. /\ model'[m].status = "unknown" /\ model'[m].turn = t
          /\ \A n \in Models \ {m} : model'[n] = model[n]
      BY <2>1, <1>a, <1>c DEF SetModel, ModelRow
    <2>3. \A n \in ModelsOf(t) : model'[n].status =
              IF model[n].status = "dispatched" THEN "unknown" ELSE model[n].status
      BY <2>2, <1>c, <1>e DEF FlightOf, ModelsIn, ModelsOf, InFlight
    <2>4. \A n \in Models : model'[n].turn = model[n].turn
      BY <2>2, <1>c
    <2> QED BY <2>1, <2>3, <2>4, <1>6, <1>a, <1>e, FlightLost DEF Grounded, Draining
  <1>7. CASE Provider(t) /\ RequestCancellation(t) /\ Goto(t, "acked")
    <2>1. Still /\ SameFlight(t) /\ phase'[t] = "acked"
      BY <1>7, <1>a
      DEF Goto, RequestCancellation, Still, SameFlight, untouchedByTurns, toolVars, modelVars
    <2> QED BY <2>1, FlightStill DEF Grounded, Draining, Aloft
  <1>8. CASE Provider(t)
    <2>1. PICK g : g = model[m].generation
      OBVIOUS
    <2>2. FailureUnknown(m, g) /\ Goto(t, "off") => phase'[t] = "off"
      BY <1>a DEF Goto
    <2> QED BY <2>1, <2>2, <1>8, <1>c, <1>2, <1>3, <1>4, <1>5, <1>6, <1>7 DEF Provider
  <1> QED BY <1>1, <1>8

(* Nothing is in flight while an answer is completed or calls are carried   *)
(* out.                                                                     *)
LEMMA FlightCalls ==
    ASSUME RunnerInv, NEW t \in Turns, FlightInv(t), Finish(t) \/ BatchStep(t)
    PROVE  FlightInv(t)'
  <1>a. /\ turn \in [Turns -> TurnStatus] /\ ModelsInOrder /\ Stage(t)
    BY DEF RunnerInv, LedgerInv, TypeOK, TurnTypeOK
  <1>1. FlightOf(t) = {}
    <2>1. phase[t] \in {"finish", "batch"} \cup Grounded
      BY DEF Finish, BatchStep, NextSegment, EndBatch, StartGroup, DropUnclaimed, Drained, AnswerApproval,
             AnswerOutdated, RecoverApproved, RecoverOutdated, EndSingle, At, Grounded, Draining
    <2>2. CASE phase[t] \in {"finish", "batch"}
      BY <2>2, <1>a, FlightIsNewest DEF Stage, InFlight
    <2> QED BY <2>1, <2>2 DEF FlightInv
  <1>2. CASE Finish(t)
    <2>1. model' = model
      BY <1>2 DEF Finish, CompleteTurn, AskQuestion, FailTurn, PauseForChildren, untouchedByTurns, modelVars, vars
    <2>2. turn'[t] # "interrupted" \/ turn' = turn
      BY <1>2, <1>a
      DEF Finish, CompleteTurn, AskQuestion, FailTurn, PauseForChildren, Ended, Paused, SetTurn, vars, turnVars
    <2> QED BY <1>1, <2>1, <2>2, FlightNone
  <1>3. CASE BatchStep(t)
    <2>1. AnswerStep(t) \/ UNCHANGED vars
      BY <1>3, BatchCommands
    <2>2. model' = model
      BY <2>1 DEF AnswerStep, vars, modelVars
    <2>3. turn'[t] # "interrupted" \/ turn' = turn
      BY <2>1, <1>a
      DEF AnswerStep, RefreshApproval, InvalidateApproval, InvalidateResolvedApproval, ResolveApproval,
          ResolveReconciliation, Resumed, Paused, SetTurn, vars, turnVars
    <2> QED BY <1>1, <2>2, <2>3, FlightNone
  <1> QED BY <1>2, <1>3

LEMMA FlightStops ==
    ASSUME RunnerInv, NEW t \in Turns, FlightInv(t), Stopped(t)
    PROVE  FlightInv(t)'
  <1>a. /\ turn \in [Turns -> TurnStatus] /\ childWait \in [Turns -> Nat] /\ phase \in [Turns -> Phases]
    BY DEF RunnerInv, LedgerInv, TypeOK, TurnTypeOK, RunnerTypeOK
  <1>1. /\ phase'[t] = "off" /\ model' = model /\ interaction' = interaction /\ op' = op
        /\ \/ turn' = turn /\ childWait' = childWait
           \/ turn'[t] = "paused" /\ childWait'[t] = 0
    BY <1>a
    DEF Stopped, DriverStep, Goto, Paused, SetTurn, untouchedByTurns, modelVars, toolVars, vars, turnVars
  <1>2. SameFlight(t)
    BY <1>1 DEF SameFlight
  <1>3. Live(t)' = Live(t) /\ Pending(t)' = Pending(t)
    BY <1>1 DEF Live, InStatus, Pending
  <1>4. Free(t) => Free(t)'
    BY <1>1, <1>3 DEF Free, ChildWaiting
  <1> QED BY <1>1, <1>2, <1>3, <1>4, FlightGoesOn DEF FlightInv, Grounded, Draining, Aloft

LEMMA FlightOwnStep ==
    ASSUME RunnerInv, NEW t \in Turns, TurnInv(t), TurnInv(t)', FlightInv(t), DriverOwnStep(t)
    PROVE  FlightInv(t)'
  <1>a. RunnerTypeOK /\ TypeOK /\ ModelInv /\ ModelsInOrder /\ Stage(t)
    BY DEF RunnerInv, LedgerInv
  <1>1. CASE \/ RecoveryRefused(t) \/ OfferRefused(t) \/ Decide(t) \/ RequestOutdated(t) \/ ConsumeAnswer(t)
             \/ ConsumeRaises(t) \/ ConsumeCalls(t) \/ AfterBatch(t) \/ FinishOutdated(t) \/ FinishRevoked(t)
             \/ BeginCancel(t) \/ Stopping(t)
    BY <1>1, <1>a, FlightPasses
  <1>2. CASE \/ DispatchRefused(t) \/ DispatchExpired(t) \/ RetryDue(t) \/ RetryWithdrawn(t) \/ Mark(t)
             \/ WithdrawRetry(t) \/ GiveUp(t) \/ AbortTurn(t) \/ Close(t)
    BY <1>2, <1>a, FlightCommands
  <1>3. CASE Recover(t) \/ Withdraw(t)
    <2>1. phase'[t] \in {"offer", "closing"}
      BY <1>3, <1>a DEF Recover, Withdraw, DriverStep, Goto, RunnerTypeOK
    <2>2. \E abort \in BOOLEAN : RecoverOwner(t, abort)
      BY <1>3 DEF Recover, Withdraw
    <2> QED BY <2>1, <2>2, <1>a, FlightRecovers DEF Grounded, Draining
  <1>4. CASE Offer(t) \/ PrepareRequest(t) \/ PermitRetry(t) \/ Dispatch(t)
    BY <1>4, <1>a, FlightOffer, FlightPrepares, FlightDispatches
  <1>5. CASE Provider(t) \/ EndAcknowledged(t) \/ Finish(t) \/ BatchStep(t) \/ Stopped(t)
    BY <1>5, FlightAnswered, FlightCalls, FlightStops
  <1> QED BY <1>1, <1>2, <1>3, <1>4, <1>5 DEF DriverOwnStep

(* A driver that is stopped or lost, and the commands of others.            *)
LEMMA FlightStopped ==
    ASSUME RunnerInv, NEW t \in Turns, FlightInv(t), phase[t] = "await", Stop(t) \/ StopBeforeProvider(t)
    PROVE  FlightInv(t)'
  <1>a. /\ turn \in [Turns -> TurnStatus] /\ model \in [Models -> ModelRow] /\ phase \in [Turns -> Phases]
        /\ ModelsInOrder /\ Stage(t) /\ LedgerInv
    BY DEF RunnerInv, LedgerInv, TypeOK, TurnTypeOK, ModelTypeOK, RunnerTypeOK
  <1>b. PICK m \in Models : m = Latest(t) /\ model[m].turn = t /\ model[m].status = "dispatched"
    BY <1>a, AwaitedModel
  <1>c. m \in FlightOf(t) /\ m \in ModelsOf(t)
    BY <1>b DEF FlightOf, ModelsIn, ModelsOf, InFlight
  <1>d. FlightOf(t) = {m}
    BY <1>a, <1>c, FlightIsNewest
  <1>1. CASE Stop(t)
    <2>1. /\ SetModel(m, "unknown") /\ InterruptedIfRunning(t) /\ UNCHANGED <<interaction, childWait, op>>
          /\ phase'[t] = "stopped"
      BY <1>1, <1>a, <1>b DEF Stop, At, Working, Goto, toolVars
    <2>2. /\ model'[m].status = "unknown" /\ model'[m].turn = t
          /\ \A n \in Models \ {m} : model'[n] = model[n]
      BY <2>1, <1>a, <1>b DEF SetModel, ModelRow
    <2>3. \A n \in ModelsOf(t) : model'[n].status =
              IF model[n].status = "dispatched" THEN "unknown" ELSE model[n].status
      BY <2>2, <1>b, <1>d DEF FlightOf, ModelsIn, ModelsOf, InFlight
    <2>4. \A n \in Models : model'[n].turn = model[n].turn
      BY <2>2, <1>b
    <2>5. turn'[t] # "running" /\ (turn'[t] = turn[t] \/ turn'[t] = "interrupted")
      BY <2>1, <1>a DEF InterruptedIfRunning, Running
    <2> QED BY <2>1, <2>3, <2>4, <2>5, <1>a, <1>d, FlightLost DEF Grounded, Draining
  <1>2. CASE StopBeforeProvider(t)
    <2>1. model' = [model EXCEPT ![m].status = "failed"] /\ turn' = turn
      BY <1>2, <1>b DEF StopBeforeProvider
    <2>2. /\ model'[m].status = "failed" /\ model'[m].turn = t
          /\ \A n \in Models : n # m => model'[n] = model[n]
      BY <2>1, <1>a, <1>b DEF ModelRow
    <2>3. ModelsIn(t, {"unknown"}) = {}
      BY <1>b, <1>d, FlightParts DEF ModelsIn
    <2>4. turn'[t] # "interrupted"
      BY <2>1, <2>3 DEF FlightInv
    <2> QED BY <2>2, <2>4, <1>a, <1>c, FlightEnded DEF InFlight
  <1> QED BY <1>1, <1>2

LEMMA FlightOutsideStep ==
    ASSUME RunnerInv, NEW t \in Turns, FlightInv(t), OutsideStep(t)
    PROVE  FlightInv(t)'
  <1> USE DEF Grounded, Draining, Aloft
  <1>a. /\ turn \in [Turns -> TurnStatus] /\ phase \in [Turns -> Phases] /\ ModelsInOrder /\ Stage(t)
    BY DEF RunnerInv, LedgerInv, TypeOK, TurnTypeOK, RunnerTypeOK
  <1>b. UNCHANGED vars => Still /\ SameFlight(t) /\ model' = model /\ turn' = turn
    BY DEF Still, SameFlight, vars, turnVars, toolVars, modelVars
  <1>1. CASE Start(t)
    <2>1. turn[t] = "absent" /\ turn'[t] = "running" /\ model' = model
      BY <1>1, <1>a DEF Start, StartTurn, StartChild, SetTurn, untouchedByTurns, modelVars
    <2>2. FlightOf(t) = {}
      BY <2>1 DEF FlightInv
    <2> QED BY <2>1, <2>2, FlightNone
  <1>2. CASE Stop(t) \/ StopBeforeProvider(t)
    <2>1. CASE phase[t] = "await"
      BY <1>2, <2>1, FlightStopped
    <2>2. CASE phase[t] # "await"
      <3>1. /\ UNCHANGED vars
            /\ phase[t] \in Working \/ phase'[t] = "stopped"
        BY <1>2, <2>2, <1>a DEF Stop, StopBeforeProvider, At, Goto
      <3>2. CASE phase[t] \in Working
        <4>1. FlightOf(t) = {}
          BY <3>2, <1>a, FlightIsNewest DEF Working, Stage, InFlight, FlightInv
        <4> QED BY <4>1, <3>1, <1>b, FlightNone
      <3>3. CASE phase'[t] = "stopped"
        BY <3>1, <3>3, <1>b, FlightStill
      <3> QED BY <3>1, <3>2, <3>3
    <2> QED BY <2>1, <2>2
  <1>3. ASSUME Crash(t) \/ \E action \in Replies \ {"none"} : Resume(t, action) PROVE FlightInv(t)'
    <2>1. UNCHANGED vars /\ phase'[t] \in {"off", "recover"}
      BY <1>3, <1>a DEF Crash, Resume, Goto
    <2> QED BY <2>1, <1>b, FlightStill
  <1>4. CASE Reconcile(t)
    <2>1. PICK status \in {"succeeded", "failed", "cancelled"} : ResolveReconciliation(t, status)
      BY <1>4 DEF Reconcile
    <2>2. Pending(t) # {}
      BY <2>1 DEF ResolveReconciliation, OnlyPending, PendingOf
    <2>3. FlightOf(t) = {}
      BY <2>2 DEF FlightInv, Free
    <2>4. model' = model /\ turn'[t] = "running"
      BY <1>4, <2>1, <1>a DEF Reconcile, ResolveReconciliation, Resumed, SetTurn, modelVars
    <2> QED BY <2>3, <2>4, FlightNone
  <1>5. CASE Outside(t)
    <2>1. Still /\ SameFlight(t) /\ phase' = phase
      BY <1>5
      DEF Outside, ReceiveInput, RequestCancellation, SettleChild, untouchedByTurns, Still, SameFlight, toolVars,
          modelVars, driverVars
    <2> QED BY <2>1, FlightStill DEF FlightInv
  <1> QED BY <1>1, <1>2, <1>3, <1>4, <1>5 DEF OutsideStep

LEMMA FlightCallStep ==
    ASSUME RunnerInv, NEW o \in Ops, TurnInv(TurnOf[o]), FlightInv(TurnOf[o]), CallStep(o)
    PROVE  FlightInv(TurnOf[o])'
  <1> DEFINE t == TurnOf[o]
  <1>a. /\ turn \in [Turns -> TurnStatus] /\ t \in Turns /\ ModelsInOrder /\ Stage(t) /\ o \in OpsOf(t)
    BY ToolConstants DEF RunnerInv, LedgerInv, TypeOK, TurnTypeOK, OpsOf
  <1>b. model' = model /\ (CallCommand(o) \/ RequestCancellation(t) \/ UNCHANGED vars)
    BY CallStepInvariant
  <1>c. worker[o] # "idle"
    BY DEF CallStep, PrepareAllowed, PrepareDenied, AskingTooLate, Discard, Claim, ClaimRefused, RejectRevoked,
           RunEffect, RefuseLive, CommitKnown, RecordRejection, ResultRefused, ReportDenied, PrepareAsking,
           CommitUncertain, AskAnotherScope
  <1>1. turn'[t] # "interrupted" \/ turn'[t] = turn[t]
    BY <1>a, <1>b
    DEF CallCommand, PrepareOperation, ReadyOperation, ClaimOperation, RecordResult, RecordRefusal,
        RejectReady, CommitResult, RequestApproval, CommitUnknownResult, RequestCancellation, vars, turnVars,
        Paused, SetTurn
  <1> HIDE DEF t
  <1>d. TurnInv(t) /\ FlightInv(t)
    BY DEF t
  <1>2. FlightOf(t) = {}
    <2>1. phase[t] \in Calling
      BY <1>a, <1>c, <1>d DEF TurnInv, Workers
    <2>2. phase[t] = "batch" => FlightOf(t) = {}
      BY <1>a, <1>d, FlightIsNewest DEF Stage, InFlight
    <2> QED BY <2>1, <2>2, <1>d DEF Calling, Working, FlightInv, Grounded
  <1>3. FlightInv(t)'
    BY <1>a, <1>b, <1>d, <1>1, <1>2, FlightNone
  <1> QED BY <1>3 DEF t

LEMMA FlightOfOthers ==
    ASSUME TypeOK, ModelInv, NEW t \in Turns, OnlyOf(t), OthersLeft(t), NEW u \in Turns \ {t}, FlightInv(u),
           SameRequests(t) \/ NewRequest(t) \/ model' = model
    PROVE  FlightInv(u)'
  <1>1. SameFlight(u)
    <2>1. CASE SameRequests(t)
      BY <2>1 DEF SameRequests, SameFlight
    <2>2. CASE NewRequest(t)
      <3>1. PICK m \in Models, revision \in 1..inputRevision[t] : PrepareModel(t, m, revision)
        BY <2>2 DEF NewRequest
      <3>2. model[m] = NoModelRow /\ model \in [Models -> ModelRow]
        BY <3>1 DEF PrepareModel, ModelInv, TypeOK, ModelTypeOK
      <3>3. /\ model[m].turn = NoTurn /\ model'[m].turn = t
            /\ \A n \in Models \ {m} : model'[n] = model[n]
        BY <3>1, <3>2 DEF PrepareModel, NoModelRow
      <3>4. model[m].turn # u /\ model'[m].turn # u
        BY <3>3, TurnConstants
      <3> QED BY <3>3, <3>4 DEF SameFlight
    <2>3. CASE model' = model
      BY <2>3 DEF SameFlight
    <2> QED BY <2>1, <2>2, <2>3
  <1>2. Pending(u)' = Pending(u)
    BY TurnConstants DEF Pending, OnlyOf
  <1>3. Live(u)' = Live(u)
    BY DEF Live, InStatus, OpsOf, OnlyOf
  <1>4. turn'[u] = turn[u] /\ childWait'[u] = childWait[u] /\ phase'[u] = phase[u]
    BY DEF OnlyOf, OthersLeft
  <1>5. Free(u)' = Free(u)
    BY <1>2, <1>4 DEF Free, ChildWaiting
  <1> QED BY <1>1, <1>3, <1>4, <1>5, FlightGoesOn DEF FlightInv

AllFlight == \A t \in Turns : FlightInv(t)

LEMMA FlightInit == RunnerInit => AllFlight
  <1> SUFFICES ASSUME RunnerInit, NEW t \in Turns PROVE FlightInv(t)
    BY DEF AllFlight
  <1>1. \A m \in Models : model[m].turn = NoTurn
    BY DEF RunnerInit, Init, ModelInit, NoModelRow
  <1>2. ModelsOf(t) = {} /\ turn[t] = "absent"
    BY <1>1, TurnConstants DEF ModelsOf, RunnerInit, Init, TurnInit
  <1> QED BY <1>2 DEF FlightInv, FlightOf, ModelsIn

LEMMA FlightStep ==
    ASSUME RunnerInv, MattersInv, MattersInv', AllFlight, [RunnerNext]_runnerVars
    PROVE  AllFlight'
  <1>a. TypeOK /\ ToolInv /\ ModelInv /\ ModelsInOrder
    BY DEF RunnerInv, LedgerInv
  <1>1. CASE UNCHANGED runnerVars
    <2> SUFFICES ASSUME NEW t \in Turns PROVE FlightInv(t)'
      BY DEF AllFlight
    <2>1. Still /\ SameFlight(t) /\ phase' = phase
      BY <1>1 DEF Still, SameFlight, runnerVars, vars, turnVars, toolVars, modelVars, driverVars
    <2> QED BY <2>1, FlightStill DEF AllFlight, FlightInv
  <1>2. ASSUME NEW t \in Turns, DriverOwnStep(t) \/ OutsideStep(t) PROVE AllFlight'
    <2>1. FlightInv(t)'
      BY <1>2, FlightOwnStep, FlightOutsideStep DEF MattersInv, AllFlight
    <2>2. OthersLeft(t) /\ (TurnCommand(t) \/ LastWords(t))
      BY <1>2, TurnStepInvariant DEF Moved
    <2>3. OnlyOf(t)
      BY <2>2, <1>a, CommandsAreLocal
    <2>4. SameRequests(t) \/ NewRequest(t)
      BY <2>2, <1>a, CommandRequests, LastWordsRequests DEF RunnerInv
    <2>5. \A u \in Turns \ {t} : FlightInv(u)'
      BY <2>2, <2>3, <2>4, <1>a, FlightOfOthers DEF AllFlight
    <2> QED BY <2>1, <2>5 DEF AllFlight
  <1>3. ASSUME NEW o \in Ops, CallStep(o) PROVE AllFlight'
    <2> DEFINE t == TurnOf[o]
    <2>0. t \in Turns
      BY ToolConstants
    <2>1. FlightInv(t)'
      BY <1>3, <2>0, FlightCallStep DEF MattersInv, AllFlight
    <2>2. /\ OthersLeft(t) /\ model' = model
          /\ CallCommand(o) \/ RequestCancellation(t) \/ UNCHANGED vars
      BY <1>3, CallStepInvariant DEF Moved
    <2>3. OnlyOf(t)
      <3>1. RequestCancellation(t) \/ UNCHANGED vars => TurnCommand(t)
        BY DEF TurnCommand, TurnStep
      <3> QED BY <1>a, <2>0, <2>2, <3>1, CallsAreLocal, CommandsAreLocal
    <2> HIDE DEF t
    <2>4. \A u \in Turns \ {t} : FlightInv(u)'
      BY <2>0, <2>2, <2>3, <1>a, FlightOfOthers DEF AllFlight
    <2> QED BY <2>1, <2>4 DEF AllFlight
  <1> QED BY <1>1, <1>2, <1>3 DEF RunnerNext

(* At most one request of a Turn has no known outcome, it is the newest one, *)
(* and nothing else of the Turn is open beside it; a Turn is interrupted    *)
(* only by such a request.                                                  *)
THEOREM FlightsAreKnown == RunnerSpec => []AllFlight
  BY FlightInit, FlightStep, DriverKeepsLedger, MattersAreKept, PTL DEF RunnerSpec

-----------------------------------------------------------------------------
(* A Turn without a driver can be moved *)

(* A call that succeeded has its result.                                    *)
SuccessIsLinked == \A o \in Ops : op[o].status = "succeeded" => op[o].linked

LEMMA CallsLinkSuccess ==
    ASSUME TypeOK, SuccessIsLinked, NEW o \in Ops, CallCommand(o)
    PROVE  SuccessIsLinked'
  <1> USE DEF SetStatus, OpRow, SuccessIsLinked
  <1>a. op \in [Ops -> OpRow]
    BY DEF TypeOK, ToolTypeOK
  <1>1. CASE PrepareOperation(o) \/ ReadyOperation(o) \/ ClaimOperation(o)
    BY <1>1, <1>a DEF PrepareOperation, ReadyOperation, ClaimOperation
  <1>2. CASE RecordResult(o) \/ RecordRefusal(o)
    BY <1>2, <1>a DEF RecordResult, RecordRefusal
  <1>3. ASSUME NEW superseded, RejectReady(o, superseded) PROVE SuccessIsLinked'
    BY <1>3, <1>a DEF RejectReady
  <1>4. ASSUME NEW status, CommitResult(o, status) PROVE SuccessIsLinked'
    BY <1>4, <1>a DEF CommitResult
  <1>5. ASSUME NEW r, RequestApproval(o, r) \/ CommitUnknownResult(o, r) PROVE SuccessIsLinked'
    BY <1>5, <1>a DEF RequestApproval, CommitUnknownResult
  <1> QED BY <1>1, <1>2, <1>3, <1>4, <1>5 DEF CallCommand

LEMMA AnswersLinkSuccess ==
    ASSUME TypeOK, SuccessIsLinked, NEW t \in Turns, AnswerStep(t)
    PROVE  SuccessIsLinked'
  <1>a. op \in [Ops -> OpRow]
    BY DEF TypeOK, ToolTypeOK
  <1>b. ASSUME NEW x, NEW s, s # "succeeded",
               \/ op' = [op EXCEPT ![x].status = s]
               \/ \E r : op' = [op EXCEPT ![x].status = s, ![x].approval = r]
        PROVE  SuccessIsLinked'
    BY <1>a, <1>b DEF SuccessIsLinked, OpRow
  <1>1. ASSUME NEW r \in Requests, RefreshApproval(t, r) PROVE SuccessIsLinked'
    <2>1. PICK o \in OpsOf(t) : op' = [op EXCEPT ![o].status = "awaiting_approval", ![o].approval = r]
      BY <1>1 DEF RefreshApproval
    <2> QED BY <2>1, <1>b
  <1>2. CASE InvalidateApproval(t)
    <2>1. PICK r \in Requests : SetStatus(interaction[r].op, "superseded")
      BY <1>2 DEF InvalidateApproval
    <2>2. op' = [op EXCEPT ![interaction[r].op].status = "superseded"]
      BY <2>1 DEF SetStatus
    <2> HIDE <1>2
    <2> QED BY <2>2, <1>b
  <1>3. CASE InvalidateResolvedApproval(t)
    <2>1. PICK r \in Requests : SetStatus(interaction[r].op, "superseded")
      BY <1>3 DEF InvalidateResolvedApproval
    <2>2. op' = [op EXCEPT ![interaction[r].op].status = "superseded"]
      BY <2>1 DEF SetStatus
    <2> HIDE <1>3
    <2> QED BY <2>2, <1>b
  <1>4. ASSUME NEW decision, NEW recheck, ResolveApproval(t, decision, recheck) PROVE SuccessIsLinked'
    <2>1. PICK r \in Requests : SetStatus(interaction[r].op, IF decision = "approve" THEN "ready" ELSE "denied")
      BY <1>4 DEF ResolveApproval
    <2>2. PICK x, s : x = interaction[r].op /\ s = IF decision = "approve" THEN "ready" ELSE "denied"
      OBVIOUS
    <2>3. op' = [op EXCEPT ![x].status = s]
      BY <2>1, <2>2 DEF SetStatus
    <2>4. s # "succeeded"
      BY <2>2
    <2> HIDE <2>2
    <2> QED BY <2>3, <2>4, <1>b
  <1>5. ASSUME NEW status, ResolveReconciliation(t, status) PROVE SuccessIsLinked'
    <2>1. PICK r \in Requests :
              op' = [op EXCEPT ![interaction[r].op].status = status, ![interaction[r].op].linked = TRUE]
      BY <1>5 DEF ResolveReconciliation
    <2>2. PICK x : x = interaction[r].op
      OBVIOUS
    <2>3. op' = [op EXCEPT ![x].status = status, ![x].linked = TRUE]
      BY <2>1, <2>2
    <2> QED BY <2>3, <1>a DEF SuccessIsLinked, OpRow
  <1> QED BY <1>1, <1>2, <1>3, <1>4, <1>5 DEF AnswerStep

LEMMA TurnLinksSuccess ==
    ASSUME TypeOK, SuccessIsLinked, NEW t \in Turns, TurnCommand(t) \/ LastWords(t)
    PROVE  SuccessIsLinked'
  <1>a. op \in [Ops -> OpRow]
    BY DEF TypeOK, ToolTypeOK
  <1>b. op' = op => SuccessIsLinked'
    BY DEF SuccessIsLinked
  <1>1. CASE CancelTurn(t)
    BY <1>1, <1>a DEF CancelTurn, SuccessIsLinked, OpRow
  <1>2. ASSUME NEW abort, RecoverOwner(t, abort) PROVE SuccessIsLinked'
    <2>1. ASSUME NEW o, NEW r, LoseTool(t, o, r) PROVE SuccessIsLinked'
      BY <2>1, <1>a DEF LoseTool, SetStatus, SuccessIsLinked, OpRow
    <2>2. ASSUME CloseUnstarted(t) PROVE SuccessIsLinked'
      <3>1. \A o \in Ops : op'[o] \in {Closed(o), [op[o] EXCEPT !.status = "unknown"], op[o]}
        BY <2>2 DEF CloseUnstarted
      <3>2. ASSUME NEW o \in Ops, op'[o] = Closed(o), op'[o].status = "succeeded" PROVE op'[o].linked
        BY <3>2, <1>a DEF Closed, OpRow
      <3>3. ASSUME NEW o \in Ops, op'[o] = [op[o] EXCEPT !.status = "unknown"] PROVE op'[o].status # "succeeded"
        BY <3>3, <1>a DEF OpRow
      <3> QED BY <3>1, <3>2, <3>3 DEF SuccessIsLinked
    <2> QED BY <1>2, <1>b, <2>1, <2>2 DEF RecoverOwner
  <1>3. CASE TurnStep(t)
    BY <1>1, <1>2, <1>3, <1>b
    DEF TurnStep, StartTurn, StartChild, SettleChild, ReceiveInput, FailTurn, PauseTurn,
        InterruptOrphaned, RequestCancellation, ResumeChildWait, ResumeCancelled,
        CompleteTurn, PauseForChildren, AskQuestion, AnswerQuestion, untouchedByTurns, toolVars
  <1>4. CASE AnswerStep(t)
    BY <1>4, AnswersLinkSuccess
  <1>5. ASSUME NEW m, ModelStep(m) PROVE op' = op
    BY <1>5
    DEF ModelStep, PrepareModel, SupersedePrepared, DispatchModel, ExpireDispatch, MarkModelUnknown,
        PrepareScheduledRetry, CancelScheduledRetry, FailUnstartedRetry, RetryModel, ResponseHandled,
        CancelModelAttempt, FailureUnknown, FailureScheduled, FailureFinal, RejectModel, CompleteModel,
        toolVars
  <1>6. CASE LastWords(t)
    BY <1>6, <1>b DEF LastWords, Stop, StopBeforeProvider, Stopped, untouchedByTurns, toolVars, vars
  <1>7. ASSUME NEW m, NEW revision, PrepareModel(t, m, revision) PROVE op' = op
    BY <1>7 DEF PrepareModel, toolVars
  <1>8. UNCHANGED vars => op' = op
    BY DEF vars, toolVars
  <1> QED BY <1>3, <1>4, <1>5, <1>6, <1>7, <1>8, <1>b DEF TurnCommand

LEMMA SuccessStep ==
    ASSUME RunnerInv, SuccessIsLinked, [RunnerNext]_runnerVars
    PROVE  SuccessIsLinked'
  <1>a. TypeOK
    BY DEF RunnerInv, LedgerInv
  <1>1. CASE UNCHANGED runnerVars
    BY <1>1 DEF runnerVars, vars, toolVars, SuccessIsLinked
  <1>2. ASSUME NEW t \in Turns, DriverOwnStep(t) \/ OutsideStep(t) PROVE SuccessIsLinked'
    BY <1>2, <1>a, TurnStepInvariant, TurnLinksSuccess
  <1>3. ASSUME NEW o \in Ops, CallStep(o) PROVE SuccessIsLinked'
    <2>1. CallCommand(o) \/ RequestCancellation(TurnOf[o]) \/ UNCHANGED vars
      BY <1>3, CallStepInvariant
    <2>2. RequestCancellation(TurnOf[o]) \/ UNCHANGED vars => op' = op
      BY DEF RequestCancellation, untouchedByTurns, vars, toolVars
    <2> QED BY <2>1, <2>2, <1>a, CallsLinkSuccess DEF SuccessIsLinked
  <1> QED BY <1>1, <1>2, <1>3 DEF RunnerNext

LEMMA SuccessesAreLinked == RunnerSpec => []SuccessIsLinked
  <1>1. RunnerInit => SuccessIsLinked
    BY DEF RunnerInit, Init, ToolInit, NoOpRow, SuccessIsLinked
  <1> QED BY <1>1, SuccessStep, DriverKeepsLedger, PTL DEF RunnerSpec

(* A running Turn without uncertain calls: whatever the recovery would      *)
(* close can be closed, but for a call an invalidated approval superseded.  *)
LEMMA RunningIsClosable ==
    ASSUME TypeOK, ToolInv, SettledIsLinked, SuccessIsLinked, NEW t \in Turns, Matters(t), Running(t),
           Quiescent(t), InStatus(t, {"superseded"}) = {}
    PROVE  CanClose(t)
  <1> SUFFICES ASSUME NEW o \in Closable(t)
               PROVE  op[o].status \in {"absent", "prepared", "ready", "failed", "denied", "cancelled"}
    BY DEF CanClose
  <1>1. o \in Ops /\ o \in OpsOf(t) /\ TurnOf[o] = t /\ ~op[o].linked
    BY DEF Closable, Unresolved, OpsOf
  <1>2. op[o].status \in OpStatus
    BY <1>1 DEF TypeOK, ToolTypeOK, OpRow
  <1>3. op[o].status \notin {"running", "unknown", "superseded"}
    BY <1>1 DEF Quiescent, InStatus, Uncertain
  <1>4. op[o].status # "succeeded"
    BY <1>1 DEF SuccessIsLinked
  <1>5. op[o].status # "awaiting_approval"
    <2> SUFFICES ASSUME op[o].status = "awaiting_approval" PROVE FALSE
      OBVIOUS
    <2>1. PICK r \in Requests : interaction[r].status = "pending" /\ interaction[r].op = o
      BY <1>1 DEF ToolInv, ApprovalBlocksItsCall
    <2>2. interaction[r].turn = t
      BY <1>1, <2>1, TurnConstants DEF ToolInv, RowsNameTheirCall
    <2>3. r \in Pending(t)
      BY <2>1, <2>2 DEF Pending
    <2> QED BY <2>3 DEF Matters, Running
  <1> QED BY <1>2, <1>3, <1>4, <1>5 DEF OpStatus, Unstarted, Uncertain, Settled

AsksOnce(t) == \A q, r \in PendingOf(t, "tool_reconciliation") : q = r

LEMMA OpenIsMovable ==
    ASSUME RunnerInv, EffectInv, MattersInv, AllFlight, SuccessIsLinked,
           NEW t \in Turns, turn[t] \in Open, AsksOnce(t)
    PROVE  Movable(t)
  <1>a. TypeOK /\ ToolInv /\ SettledIsLinked /\ Matters(t) /\ FlightInv(t)
    BY DEF RunnerInv, LedgerInv, EffectInv, MattersInv, TurnInv, AllFlight
  <1>1. CASE PendingOf(t, "tool_reconciliation") # {}
    <2>1. PICK r : PendingOf(t, "tool_reconciliation") = {r}
      BY <1>1 DEF AsksOnce
    <2>2. Cardinality(PendingOf(t, "tool_reconciliation")) = 1
      BY <2>1, FS_Singleton
    <2>3. Pending(t) # {}
      BY <1>1 DEF PendingOf
    <2>4. turn[t] # "interrupted"
      BY <2>3, <1>a, FlightParts DEF FlightInv, Free
    <2>5. turn[t] = "paused"
      BY <2>3, <2>4, <1>a DEF Matters
    <2> QED BY <2>2, <2>5 DEF Movable
  <1>2. CASE PendingOf(t, "tool_reconciliation") = {} /\ Live(t) # {}
    BY <1>2 DEF Movable, Live
  <1>3. CASE PendingOf(t, "tool_reconciliation") = {} /\ Live(t) = {}
    <2>1. ASSUME NEW o \in OpsOf(t), op[o].status = "unknown" PROVE FALSE
      <3>1. PICK r \in PendingReconciliations(o) : TRUE
        BY <2>1, <1>a DEF ToolInv, UnknownAsksOnce, OpsOf
      <3>2. r \in PendingOf(t, "tool_reconciliation")
        BY <1>a, <3>1
        DEF ToolInv, RowsNameTheirCall, PendingReconciliations, PendingOf, Pending, OpsOf, ToolQuestion
      <3> QED BY <3>2, <1>3
    <2>2. Quiescent(t)
      BY <2>1, <1>3 DEF Quiescent, InStatus, Live, Uncertain
    <2>3. Running(t) => CanClose(t) \/ InStatus(t, {"superseded"}) # {}
      BY <2>2, <1>a, RunningIsClosable
    <2> QED BY <2>2, <2>3 DEF Movable
  <1> QED BY <1>1, <1>2, <1>3

(* Whatever a crash, a stop, an answer or a cancellation left behind, a     *)
(* Turn without a driver can be moved on, in every state in which no Turn   *)
(* waits for two reconciliations at once.                                   *)
THEOREM StrandedOnlyByTwo == RunnerSpec => []((\A t \in Turns : AsksOnce(t)) => NeverStranded)
  <1>1. RunnerInv /\ EffectInv /\ MattersInv /\ AllFlight /\ SuccessIsLinked
            => ((\A t \in Turns : AsksOnce(t)) => NeverStranded)
    BY OpenIsMovable DEF NeverStranded
  <1> QED
    BY <1>1, DriverKeepsLedger, EffectsFollowClaims, MattersAreKept, FlightsAreKnown, SuccessesAreLinked, PTL

(* Where the calls of a Turn conflict with one another, one of them at most *)
(* is uncertain, and no Turn is ever stranded.                              *)
THEOREM ConflictingNeverStranded ==
    ASSUME \A o, p \in Ops : o # p /\ TurnOf[o] = TurnOf[p] => <<o, p>> \in Conflicts
    PROVE  RunnerSpec => []NeverStranded
  <1>1. ASSUME RunnerInv, EffectInv, NEW t \in Turns PROVE AsksOnce(t)
    <2> SUFFICES ASSUME NEW q \in PendingOf(t, "tool_reconciliation"), NEW r \in PendingOf(t, "tool_reconciliation")
                 PROVE  q = r
      BY DEF AsksOnce
    <2>1. ToolInv /\ ConflictsExclude
      BY <1>1 DEF RunnerInv, LedgerInv, EffectInv
    <2>2. ASSUME NEW p \in PendingOf(t, "tool_reconciliation")
          PROVE  /\ interaction[p].op \in Ops /\ TurnOf[interaction[p].op] = t
                 /\ p \in PendingReconciliations(interaction[p].op)
      BY <2>1 DEF PendingOf, Pending, ToolInv, RowsNameTheirCall, PendingReconciliations, ToolQuestion
    <2>3. PICK o \in Ops : o = interaction[q].op /\ TurnOf[o] = t /\ q \in PendingReconciliations(o)
      BY <2>2
    <2>4. PICK p \in Ops : p = interaction[r].op /\ TurnOf[p] = t /\ r \in PendingReconciliations(p)
      BY <2>2
    <2>5. op[o].status \in Uncertain /\ op[p].status \in Uncertain
      BY <2>1, <2>3, <2>4 DEF ToolInv, UnknownAsksOnce, Uncertain
    <2>6. o = p
      BY <2>1, <2>3, <2>4, <2>5 DEF ConflictsExclude
    <2> QED BY <2>1, <2>3, <2>4, <2>6 DEF ToolInv, UnknownAsksOnce
  <1>2. RunnerInv /\ EffectInv => \A t \in Turns : AsksOnce(t)
    BY <1>1
  <1> QED BY <1>2, StrandedOnlyByTwo, DriverKeepsLedger, EffectsFollowClaims, PTL

-----------------------------------------------------------------------------
(* What the user was told and answered *)

(* The messages that committed responses of t answer.                       *)
Revisions(t) == {model[m].revision : m \in ModelsIn(t, {"completed"})}

(* A Turn that never started asked nothing; an awaited Turn is open; what a *)
(* response answers was heard; one of the answers is the newest; a proposed *)
(* completion rests on a committed response, and so does every call that    *)
(* has a record; an open child holds a share of its parent's budget.        *)
WordInv(t) ==
    /\ turn[t] = "absent" => ModelsOf(t) = {}
    /\ ModelsIn(t, {"dispatched"}) # {} => turn[t] \in Open
    /\ \A m \in ModelsOf(t) : model[m].revision <= inputRevision[t]
    /\ \E r \in Revisions(t) \cup {0} : \A q \in Revisions(t) : q <= r
    /\ phase[t] = "finish" => seen[t] \in Revisions(t)
    /\ \A o \in OpsOf(t) : /\ op[o].status # "absent" => callRevision[o] > 0
                           /\ callRevision[o] > 0 => callRevision[o] \in Revisions(t)
    /\ Parent[t] # NoTurn /\ turn[t] \in Open => allocation[t] = "active"

(* What the step lets the user hear or see of t.                            *)
Hears(t) ==
    /\ turn[t] \in Open /\ turn'[t] \in Open
    /\ inputRevision' = [inputRevision EXCEPT ![t] = @ + 1]
    /\ allocation' = allocation

Stays(t) ==
    /\ turn'[t] = turn[t] \/ (turn[t] \in Open /\ turn'[t] \in Open)
    /\ inputRevision' = inputRevision
    /\ allocation' = allocation \/ SettleChild(t)

Halts(t) ==
    /\ turn[t] \in Open /\ turn'[t] \in {"failed", "cancelled"}
    /\ inputRevision' = inputRevision /\ allocation' = allocation

Says(t) ==
    \/ StartTurn(t) \/ StartChild(t) \/ Hears(t) \/ Stays(t) \/ Halts(t)
    \/ \E revision : CompleteTurn(t, revision)

(* The responses that are committed stay as they are.                       *)
SameAnswers ==
    /\ \A m \in Models : model'[m].status = "completed" <=> model[m].status = "completed"
    /\ callRevision' = callRevision

NewAnswer(t) == \E m \in ModelsOf(t), g \in Generations, calls \in SUBSET Ops : CompleteModel(m, g, calls)

(* What a driver records as it stops for good commits no response.          *)
LEMMA LastWordsAnswers ==
    ASSUME LedgerInv, ModelsInOrder, NEW t \in Turns, Stage(t), LastWords(t)
    PROVE  SameAnswers
  <1>1. callRevision' = callRevision
    BY DEF LastWords, Stop, StopBeforeProvider, Stopped, untouchedByTurns, toolVars, vars
  <1>2. CASE model' = model
    BY <1>1, <1>2 DEF SameAnswers
  <1>3. ASSUME NEW s \in {"unknown", "failed"}, phase[t] = "await",
               model' = [model EXCEPT ![Latest(t)].status = s]
        PROVE  SameAnswers
    <2>1. Latest(t) \in Models /\ model[Latest(t)].status = "dispatched"
      BY <1>3, AwaitedModel
    <2>2. model \in [Models -> ModelRow]
      BY DEF LedgerInv, TypeOK, ModelTypeOK
    <2> QED BY <1>1, <1>3, <2>1, <2>2 DEF SameAnswers, ModelRow
  <1> QED
    BY <1>2, <1>3
    DEF LastWords, Stop, StopBeforeProvider, Stopped, At, SetModel, vars, untouchedByTurns, modelVars

(* Of a model command only the commit of a response answers anything.       *)
LEMMA ModelAnswers ==
    ASSUME TypeOK, NEW t \in Turns, NEW m \in ModelsOf(t), ModelStep(m), model[m].status # "absent"
    PROVE  SameAnswers \/ NewAnswer(t)
  <1> USE DEF SetModel
  <1>a. model \in [Models -> ModelRow] /\ m \in Models /\ model[m] \in ModelRow
    BY DEF TypeOK, ModelTypeOK, ModelsOf
  <1>b. ASSUME NEW s, s # "completed", model[m].status # "completed",
               model'[m].status = s, \A n \in Models \ {m} : model'[n] = model[n], callRevision' = callRevision
        PROVE  SameAnswers
    BY <1>b DEF SameAnswers
  <1> USE DEF ModelRow, toolVars
  <1>2. CASE SupersedePrepared(m) BY <1>2, <1>a, <1>b DEF SupersedePrepared
  <1>3. CASE DispatchModel(m) BY <1>3, <1>a, <1>b DEF DispatchModel
  <1>4. ASSUME NEW g, MarkModelUnknown(m, g) PROVE SameAnswers
    BY <1>4, <1>a, <1>b DEF MarkModelUnknown, Current
  <1>5. CASE ExpireDispatch(m) BY <1>5, <1>4 DEF ExpireDispatch
  <1>6. CASE PrepareScheduledRetry(m) BY <1>6, <1>a, <1>b DEF PrepareScheduledRetry
  <1>7. CASE CancelScheduledRetry(m) BY <1>7, <1>a, <1>b DEF CancelScheduledRetry, Scheduled
  <1>8. CASE FailUnstartedRetry(m) BY <1>8, <1>a, <1>b DEF FailUnstartedRetry, Scheduled
  <1>9. CASE RetryModel(m) BY <1>9, <1>a, <1>b DEF RetryModel
  <1>10. CASE ResponseHandled(m) BY <1>10, <1>a DEF ResponseHandled, SameAnswers
  <1>11. ASSUME NEW g \in Generations, CancelModelAttempt(m, g) PROVE SameAnswers
    BY <1>11, <1>a, <1>b DEF CancelModelAttempt, Current
  <1>12. ASSUME NEW g \in Generations, FailureUnknown(m, g) PROVE SameAnswers
    BY <1>12, <1>a, <1>b DEF FailureUnknown, Current
  <1>13. ASSUME NEW g \in Generations, FailureScheduled(m, g) PROVE SameAnswers
    BY <1>13, <1>a, <1>b DEF FailureScheduled, Current
  <1>14. ASSUME NEW g \in Generations, FailureFinal(m, g) PROVE SameAnswers
    BY <1>14, <1>a, <1>b DEF FailureFinal, Current
  <1>15. ASSUME NEW g \in Generations, NEW outcome \in {"released", "unknown", "settled"},
                RejectModel(m, g, outcome)
         PROVE  SameAnswers
    BY <1>15, <1>a, <1>b DEF RejectModel, Current
  <1>16. ASSUME NEW g \in Generations, NEW calls \in SUBSET Ops, CompleteModel(m, g, calls) PROVE NewAnswer(t)
    BY <1>16 DEF NewAnswer
  <1>17. ASSUME NEW u, NEW revision, PrepareModel(u, m, revision) PROVE FALSE
    BY <1>17 DEF PrepareModel
  <1> QED
    BY <1>2, <1>3, <1>4, <1>5, <1>6, <1>7, <1>8, <1>9, <1>10, <1>11, <1>12, <1>13, <1>14,
       <1>15, <1>16, <1>17
    DEF ModelStep

(* A command answers nothing but by the response it commits.                *)
LEMMA CommandAnswers ==
    ASSUME TypeOK, ModelInv, NEW t \in Turns, TurnCommand(t)
    PROVE  SameAnswers \/ NewAnswer(t)
  <1>a. model \in [Models -> ModelRow]
    BY DEF TypeOK, ModelTypeOK
  <1>1. ASSUME model' = model, callRevision' = callRevision PROVE SameAnswers
    BY <1>1 DEF SameAnswers
  <1>2. ASSUME NEW abort \in BOOLEAN, RecoverOwner(t, abort) PROVE SameAnswers
    <2>1. LoseModels(t) /\ callRevision' = callRevision
      BY <1>2 DEF RecoverOwner
    <2>2. ASSUME NEW m \in ModelsIn(t, {"dispatched"})
          PROVE  model[m].status = "dispatched" /\ model'[m].status = "unknown"
      BY <2>1, <2>2, <1>a DEF LoseModels, ModelsIn, ModelsOf, ModelRow
    <2>3. \A m \in Models \ ModelsIn(t, {"dispatched"}) : model'[m] = model[m]
      BY <2>1 DEF LoseModels
    <2> QED BY <2>1, <2>2, <2>3 DEF SameAnswers
  <1>3. CASE TurnStep(t)
    BY <1>1, <1>2, <1>3
    DEF TurnStep, StartTurn, StartChild, SettleChild, ReceiveInput, FailTurn, PauseTurn,
        InterruptOrphaned, CancelTurn, RequestCancellation, ResumeChildWait, ResumeCancelled,
        CompleteTurn, PauseForChildren, AskQuestion, AnswerQuestion, untouchedByTurns, modelVars, toolVars
  <1>4. CASE AnswerStep(t)
    <2>1. model' = model
      BY <1>4 DEF AnswerStep, modelVars
    <2>2. callRevision' = callRevision
      BY <1>4
      DEF AnswerStep, RefreshApproval, InvalidateApproval, InvalidateResolvedApproval, ResolveApproval,
          ResolveReconciliation
    <2> QED BY <2>1, <2>2, <1>1
  <1>5. CASE UNCHANGED vars
    BY <1>1, <1>5 DEF vars, modelVars, toolVars
  <1>6. ASSUME NEW m \in ModelsOf(t), ModelStep(m) PROVE SameAnswers \/ NewAnswer(t)
    <2>1. model[m].status # "absent"
      BY TurnConstants DEF ModelsOf, ModelInv, NoModelRow
    <2> QED BY <1>6, <2>1, ModelAnswers
  <1>7. ASSUME NEW m \in Models, NEW revision, PrepareModel(t, m, revision) PROVE SameAnswers
    <2>1. /\ model[m].status = "absent" /\ model'[m].status = "prepared" /\ callRevision' = callRevision
          /\ \A n \in Models \ {m} : model'[n] = model[n]
      BY <1>7, <1>a DEF PrepareModel, NoModelRow, toolVars
    <2> QED BY <2>1 DEF SameAnswers
  <1> QED BY <1>3, <1>4, <1>5, <1>6, <1>7 DEF TurnCommand

(* A step without a response leaves what is answered as it was.             *)
LEMMA SameRevisions ==
    ASSUME TypeOK, ModelInv, NEW t \in Turns, SameRequests(t) \/ NewRequest(t), SameAnswers
    PROVE  \A u \in Turns : Revisions(u)' = Revisions(u)
  <1> SUFFICES ASSUME NEW u \in Turns PROVE Revisions(u)' = Revisions(u)
    OBVIOUS
  <1>1. ASSUME NEW m \in Models, model[m].status = "completed"
        PROVE  model'[m].turn = model[m].turn /\ model'[m].revision = model[m].revision
    BY <1>1 DEF SameRequests, NewRequest, PrepareModel, TypeOK, ModelTypeOK
  <1>2. ModelsIn(u, {"completed"})' = ModelsIn(u, {"completed"})
    BY <1>1 DEF ModelsIn, ModelsOf, SameAnswers
  <1> QED BY <1>1, <1>2 DEF Revisions, ModelsIn, ModelsOf

(* A committed response answers what its request had heard, for its Turn.   *)
LEMMA NewRevision ==
    ASSUME TypeOK, NEW t \in Turns, NEW m \in ModelsOf(t), NEW g, NEW calls, CompleteModel(m, g, calls)
    PROVE  /\ Revisions(t)' = Revisions(t) \cup {model[m].revision}
           /\ \A u \in Turns \ {t} : Revisions(u)' = Revisions(u)
  <1>1. /\ model \in [Models -> ModelRow] /\ m \in Models /\ model[m].turn = t
        /\ model[m].status = "dispatched"
        /\ model' = [model EXCEPT ![m].status = "completed", ![m].calls = calls]
    BY DEF TypeOK, ModelTypeOK, ModelsOf, CompleteModel, Current
  <1>2. /\ model'[m].status = "completed" /\ model'[m].turn = t /\ model'[m].revision = model[m].revision
        /\ \A n \in Models \ {m} : model'[n] = model[n]
    BY <1>1 DEF ModelRow
  <1>3. ModelsIn(t, {"completed"})' = ModelsIn(t, {"completed"}) \cup {m}
    BY <1>1, <1>2 DEF ModelsIn, ModelsOf
  <1>4. m \notin ModelsIn(t, {"completed"})
    BY <1>1 DEF ModelsIn
  <1>5. Revisions(t)' = Revisions(t) \cup {model[m].revision}
    BY <1>2, <1>3, <1>4 DEF Revisions, ModelsIn, ModelsOf
  <1>6. ASSUME NEW u \in Turns \ {t} PROVE Revisions(u)' = Revisions(u)
    <2>1. ModelsIn(u, {"completed"})' = ModelsIn(u, {"completed"})
      BY <1>1, <1>2 DEF ModelsIn, ModelsOf
    <2>2. \A n \in ModelsIn(u, {"completed"}) : model'[n] = model[n]
      BY <1>1, <1>2 DEF ModelsIn, ModelsOf
    <2> QED BY <2>1, <2>2 DEF Revisions
  <1> QED BY <1>5, <1>6

(* What commands do to the Turn they are about.                             *)
LEMMA ModelSays ==
    ASSUME TypeOK, NEW t \in Turns, NEW m \in ModelsOf(t), ModelStep(m),
           model[m].status = "dispatched" => turn[t] \in Open
    PROVE  Says(t)
  <1> USE DEF slotVars, SetTurn, Ended, Resumed, InterruptedIfRunning, untouchedByModels, Running, Open
  <1>a. turn \in [Turns -> TurnStatus] /\ model[m].turn = t
    BY DEF TypeOK, TurnTypeOK, ModelsOf
  <1>b. UNCHANGED <<turn, slotVars>> => Stays(t)
    BY DEF Stays
  <1>c. ASSUME turn[t] \in Open, NEW s \in Open, turn' = [turn EXCEPT ![t] = s], UNCHANGED slotVars
        PROVE  Stays(t)
    BY <1>a, <1>c DEF Stays
  <1>d. ASSUME turn[t] \in Open, NEW s \in {"failed", "cancelled"}, turn' = [turn EXCEPT ![t] = s],
               UNCHANGED <<inputRevision, allocation>>
        PROVE  Halts(t)
    BY <1>a, <1>d DEF Halts
  <1>1. ASSUME NEW g, MarkModelUnknown(m, g) PROVE Stays(t)
    BY <1>1, <1>a, <1>b, <1>c DEF MarkModelUnknown
  <1>2. CASE RetryModel(m)
    BY <1>2, <1>a, <1>c DEF RetryModel, Says
  <1>3. ASSUME NEW g \in Generations, FailureUnknown(m, g) PROVE Stays(t)
    BY <1>3, <1>a, <1>c DEF FailureUnknown, Current
  <1>4. ASSUME NEW g \in Generations, CancelModelAttempt(m, g) \/ FailureFinal(m, g) PROVE Halts(t)
    BY <1>4, <1>a, <1>d DEF CancelModelAttempt, FailureFinal, Current
  <1>5. CASE FailUnstartedRetry(m)
    BY <1>5, <1>a, <1>d DEF FailUnstartedRetry, Says
  <1>6. CASE \/ \E u \in Turns : \E revision \in 1..inputRevision[u] : PrepareModel(u, m, revision)
             \/ SupersedePrepared(m) \/ DispatchModel(m) \/ PrepareScheduledRetry(m)
             \/ CancelScheduledRetry(m) \/ ResponseHandled(m)
             \/ \E g \in Generations :
                    \/ FailureScheduled(m, g)
                    \/ \E outcome \in {"released", "unknown", "settled"} : RejectModel(m, g, outcome)
    <2>1. UNCHANGED turnVars
      BY <1>6 DEF PrepareModel, SupersedePrepared, DispatchModel, PrepareScheduledRetry,
                  CancelScheduledRetry, ResponseHandled, FailureScheduled, RejectModel
    <2> QED BY <2>1, <1>b DEF turnVars, Says
  <1>7. ASSUME NEW g \in Generations, NEW calls, CompleteModel(m, g, calls) PROVE Stays(t)
    BY <1>7, <1>b DEF CompleteModel, turnVars
  <1> QED BY <1>1, <1>2, <1>3, <1>4, <1>5, <1>6, <1>7 DEF ModelStep, ExpireDispatch, Says

(* The ledger commands of a Turn change what a user sees as Says tells.     *)
LEMMA CommandSays ==
    ASSUME TypeOK, ModelInv, NEW t \in Turns, TurnCommand(t) \/ LastWords(t),
           ModelsIn(t, {"dispatched"}) # {} => turn[t] \in Open
    PROVE  Says(t)
  <1> USE DEF slotVars, SetTurn, Paused, Resumed, Open
  <1>a. turn \in [Turns -> TurnStatus]
    BY DEF TypeOK, TurnTypeOK
  <1>b. UNCHANGED <<turn, slotVars>> => Says(t)
    BY DEF Stays, Says
  <1>c. ASSUME turn[t] \in Open, NEW s \in Open, turn' = [turn EXCEPT ![t] = s], UNCHANGED slotVars
        PROVE  Says(t)
    BY <1>a, <1>c DEF Stays, Says
  <1>d. ASSUME turn[t] \in Open, NEW s \in {"failed", "cancelled"}, Ended(t, s),
               UNCHANGED <<inputRevision, allocation>>
        PROVE  Says(t)
    BY <1>a, <1>d DEF Ended, Halts, Says
  <1>1. CASE TurnStep(t)
    <2>1. CASE StartTurn(t) \/ StartChild(t) \/ \E revision : CompleteTurn(t, revision)
      BY <2>1 DEF Says
    <2>2. CASE SettleChild(t)
      BY <2>2 DEF SettleChild, Stays, Says
    <2>3. CASE ReceiveInput(t)
      BY <2>3 DEF ReceiveInput, Hears, Says
    <2>4. ASSUME NEW r \in Requests, AnswerQuestion(t, r) PROVE Says(t)
      <3>1. turn[t] \in Open /\ turn'[t] \in Open /\ allocation' = allocation
        BY <2>4, <1>a DEF AnswerQuestion
      <3> QED BY <2>4, <3>1 DEF AnswerQuestion, Hears, Says
    <2>5. CASE FailTurn(t) \/ CancelTurn(t)
      BY <2>5, <1>d DEF FailTurn, CancelTurn, Running
    <2>6. CASE RequestCancellation(t)
      BY <2>6, <1>b DEF RequestCancellation
    <2>7. CASE \/ PauseTurn(t) \/ InterruptOrphaned(t) \/ ResumeChildWait(t) \/ ResumeCancelled(t)
               \/ \E revision \in 1..inputRevision[t] : PauseForChildren(t, revision)
               \/ \E r \in Requests : AskQuestion(t, r)
      BY <2>7, <1>c
      DEF PauseTurn, InterruptOrphaned, ResumeChildWait, ResumeCancelled, PauseForChildren, AskQuestion, Running
    <2>8. ASSUME NEW abort \in BOOLEAN, RecoverOwner(t, abort) PROVE Says(t)
      <3>1. turn[t] \in Open /\ AfterLostModels(t) \in Open /\ UNCHANGED slotVars
        BY <2>8 DEF RecoverOwner, AfterLostModels
      <3>2. \/ turn' = [turn EXCEPT ![t] = "paused"]
            \/ turn' = [turn EXCEPT ![t] = AfterLostModels(t)]
        BY <2>8 DEF RecoverOwner, CloseUnstarted
      <3> QED BY <3>1, <3>2, <1>c
    <2> QED BY <1>1, <2>1, <2>2, <2>3, <2>4, <2>5, <2>6, <2>7, <2>8 DEF TurnStep
  <1>2. CASE AnswerStep(t)
    BY <1>2, <1>b, <1>c
    DEF AnswerStep, RefreshApproval, InvalidateApproval, InvalidateResolvedApproval, ResolveApproval,
        ResolveReconciliation
  <1>3. ASSUME NEW m \in ModelsOf(t), ModelStep(m) PROVE Says(t)
    <2>1. model[m].status = "dispatched" => turn[t] \in Open
      BY DEF ModelsIn
    <2> QED BY <1>3, <2>1, ModelSays
  <1>4. ASSUME NEW m, NEW revision, PrepareModel(t, m, revision) PROVE Says(t)
    BY <1>4, <1>b DEF PrepareModel, turnVars
  <1>5. CASE UNCHANGED vars
    BY <1>5, <1>b DEF vars, turnVars
  <1>6. CASE LastWords(t)
    BY <1>6, <1>a, <1>b, <1>c
    DEF LastWords, Stop, StopBeforeProvider, Stopped, InterruptedIfRunning, Running, untouchedByTurns, vars,
        turnVars
  <1> QED BY <1>1, <1>2, <1>3, <1>4, <1>5, <1>6 DEF TurnCommand

(* The work on a call says nothing to the user.                             *)
LEMMA CallSays ==
    ASSUME TypeOK, NEW o \in Ops, CallCommand(o), Matters(TurnOf[o])
    PROVE  Stays(TurnOf[o])
  <1> DEFINE t == TurnOf[o]
  <1>a. turn \in [Turns -> TurnStatus] /\ t \in Turns /\ o \in OpsOf(t)
    BY ToolConstants DEF TypeOK, TurnTypeOK, OpsOf
  <1>1. CASE UNCHANGED turnVars
    BY <1>1 DEF Stays, turnVars, slotVars
  <1>2. ASSUME NEW r, RequestApproval(o, r) PROVE Stays(t)
    BY <1>2, <1>a DEF RequestApproval, Paused, SetTurn, Running, Stays, slotVars, Open
  <1>3. ASSUME NEW r, CommitUnknownResult(o, r) PROVE Stays(t)
    <2>1. o \in Live(t)
      BY <1>3, <1>a DEF CommitUnknownResult, Live, InStatus
    <2>2. turn[t] \in Open
      BY <2>1 DEF Matters
    <2> QED BY <1>3, <2>2, <1>a DEF CommitUnknownResult, Paused, SetTurn, Stays, slotVars, Open
  <1> QED
    BY <1>1, <1>2, <1>3
    DEF CallCommand, PrepareOperation, ReadyOperation, ClaimOperation, RecordResult, RecordRefusal,
        RejectReady, CommitResult

-----------------------------------------------------------------------------
(* Which steps of the driver end its Turn, and propose its completion       *)

(* Nothing ends a Turn over a request in flight but a provider failure or   *)
(* an acknowledged cancellation; it completes on the newest message heard.  *)
LEMMA EndingStep ==
    ASSUME RunnerTypeOK, TypeOK, NEW t \in Turns, DriverOwnStep(t) \/ OutsideStep(t),
           turn[t] \in Open, turn'[t] \in Terminal
    PROVE  /\ Provider(t) \/ EndAcknowledged(t) \/ phase[t] \notin Aloft
           /\ turn'[t] = "completed" => phase[t] = "finish" /\ seen[t] = inputRevision[t]
  <1> USE DEF At, Aloft, SetTurn, Ended, Paused, Resumed
  <1>a. turn \in [Turns -> TurnStatus] /\ turn'[t] # turn[t] /\ turn'[t] \notin Open
    BY DEF TypeOK, TurnTypeOK, Open, Terminal
  <1>1. CASE Recover(t) \/ Withdraw(t)
    <2>1. PICK abort \in BOOLEAN : RecoverOwner(t, abort)
      BY <1>1 DEF Recover, Withdraw
    <2>2. AfterLostModels(t) \in Open
      BY DEF AfterLostModels, Open
    <2>3. \/ turn' = [turn EXCEPT ![t] = "paused"]
          \/ turn' = [turn EXCEPT ![t] = AfterLostModels(t)]
      BY <2>1 DEF RecoverOwner, CloseUnstarted
    <2> QED BY <2>2, <2>3, <1>a DEF Open
  <1>2. CASE AbortTurn(t) \/ Close(t) \/ GiveUp(t)
    <2>1. turn'[t] # "completed"
      BY <1>2, <1>a DEF AbortTurn, Close, GiveUp, CancelTurn, PauseTurn, FailTurn
    <2> QED BY <1>2, <2>1 DEF AbortTurn, Close, GiveUp
  <1>3. CASE Offer(t)
    <2>1. \/ ResumeChildWait(t) \/ ResumeCancelled(t) \/ UNCHANGED vars
          \/ \E r \in Requests : AnswerQuestion(t, r)
      BY <1>3 DEF Offer
    <2> QED
      BY <2>1, <1>a DEF ResumeChildWait, ResumeCancelled, AnswerQuestion, Open, vars, turnVars
  <1>4. CASE Dispatch(t) \/ DispatchRefused(t) \/ DispatchExpired(t) \/ PermitRetry(t)
    <2>1. phase[t] = "dispatch"
      BY <1>4 DEF Dispatch, DispatchRefused, DispatchExpired, PermitRetry
    <2>2. turn'[t] # "completed"
      BY <1>4, <1>a
      DEF Dispatch, DispatchModel, DispatchRefused, RequestCancellation, CancelScheduledRetry,
          SupersedePrepared, DispatchExpired, FailUnstartedRetry, PermitRetry, RetryModel, turnVars
    <2> QED BY <2>1, <2>2
  <1>5. CASE Provider(t) \/ EndAcknowledged(t)
    <2>2. turn'[t] # "completed"
      BY <1>5, <1>a
      DEF Provider, CompleteModel, FailureUnknown, FailureScheduled, FailureFinal, RejectModel,
          RequestCancellation, EndAcknowledged, CancelModelAttempt, turnVars
    <2> QED BY <1>5, <2>2
  <1>6. CASE RetryDue(t) \/ RetryWithdrawn(t)
    <2>1. phase[t] = "backoff"
      BY <1>6 DEF RetryDue, RetryWithdrawn
    <2>2. turn'[t] # "completed"
      BY <1>6, <1>a
      DEF RetryDue, RetryWithdrawn, PrepareScheduledRetry, CancelScheduledRetry, FailUnstartedRetry,
          turnVars, vars
    <2> QED BY <2>1, <2>2
  <1>7. CASE Finish(t)
    BY <1>7 DEF Finish
  <1>8. CASE \/ RecoveryRefused(t) \/ OfferRefused(t) \/ Decide(t) \/ PrepareRequest(t) \/ RequestOutdated(t)
             \/ ConsumeAnswer(t) \/ ConsumeRaises(t) \/ ConsumeCalls(t) \/ AfterBatch(t) \/ Mark(t)
             \/ FinishOutdated(t) \/ FinishRevoked(t) \/ BeginCancel(t) \/ WithdrawRetry(t) \/ Stopping(t)
    <2>1. turn' = turn
      BY <1>8
      DEF RecoveryRefused, OfferRefused, Decide, PrepareRequest, PrepareModel, RequestOutdated, ConsumeAnswer,
          ConsumeRaises, ConsumeCalls, AfterBatch, Mark, ResponseHandled, FinishOutdated, FinishRevoked,
          RequestCancellation, BeginCancel, WithdrawRetry, CancelScheduledRetry, Stopping, vars, turnVars
    <2> QED BY <2>1, <1>a
  <1>9. CASE BatchStep(t)
    <2>1. AnswerStep(t) \/ UNCHANGED vars
      BY <1>9, BatchCommands
    <2> QED
      BY <2>1, <1>a
      DEF AnswerStep, RefreshApproval, InvalidateApproval, InvalidateResolvedApproval, ResolveApproval,
          ResolveReconciliation, Open, vars, turnVars
  <1>10. CASE Stopped(t)
    BY <1>10, <1>a DEF Stopped, Open, vars, turnVars
  <1>11. CASE OutsideStep(t)
    <2>1. CASE Start(t)
      BY <2>1 DEF Start, StartTurn, StartChild, Open
    <2>2. CASE Stop(t) \/ StopBeforeProvider(t)
      BY <2>2, <1>a DEF Stop, StopBeforeProvider, InterruptedIfRunning, Open, vars, turnVars
    <2>3. CASE Crash(t) \/ Outside(t) \/ \E action : Resume(t, action)
      BY <2>3, <1>a
      DEF Crash, Outside, Resume, ReceiveInput, RequestCancellation, SettleChild, vars, turnVars
    <2>4. CASE Reconcile(t)
      BY <2>4, <1>a DEF Reconcile, ResolveReconciliation, Open
    <2> QED BY <1>11, <2>1, <2>2, <2>3, <2>4 DEF OutsideStep
  <1> QED
    BY <1>1, <1>2, <1>3, <1>4, <1>5, <1>6, <1>7, <1>8, <1>9, <1>10, <1>11 DEF DriverOwnStep

(* Only a response that was consumed proposes the completion of a Turn.     *)
LEMMA FinishingStep ==
    ASSUME RunnerTypeOK, NEW t \in Turns, DriverOwnStep(t) \/ OutsideStep(t), phase'[t] = "finish"
    PROVE  ConsumeAnswer(t) \/ (phase[t] = "finish" /\ seen'[t] = seen[t])
  <1> USE DEF At, Goto, DriverStep
  <1>a. phase \in [Turns -> Phases]
    BY DEF RunnerTypeOK
  <1>1. CASE BatchStep(t)
    <2>1. seen' = seen /\ (phase' = phase \/ phase'[t] # "finish")
      BY <1>1, <1>a
      DEF BatchStep, NextSegment, EndBatch, StartGroup, DropUnclaimed, Drained, AnswerApproval, AnswerOutdated,
          RecoverApproved, RecoverOutdated, EndSingle, driverVars
    <2> QED BY <2>1
  <1>2. CASE Offer(t) \/ Decide(t)
    <2>1. Applied(t).to # "finish"
      BY DEF Applied
    <2>2. Destination(t) # "finish"
      BY DEF Destination, Arm
    <2> QED BY <1>2, <2>1, <2>2, <1>a DEF Offer, Decide
  <1>3. CASE \/ Recover(t) \/ RecoveryRefused(t) \/ OfferRefused(t) \/ AbortTurn(t)
             \/ PrepareRequest(t) \/ RequestOutdated(t) \/ PermitRetry(t)
             \/ Dispatch(t) \/ DispatchRefused(t) \/ Provider(t) \/ EndAcknowledged(t)
             \/ RetryDue(t) \/ RetryWithdrawn(t) \/ ConsumeRaises(t) \/ ConsumeCalls(t)
             \/ AfterBatch(t) \/ Mark(t) \/ Finish(t) \/ FinishOutdated(t) \/ FinishRevoked(t)
    BY <1>3, <1>a
    DEF Recover, RecoveryRefused, OfferRefused, AbortTurn, PrepareRequest, RequestOutdated, PermitRetry,
        Dispatch, DispatchRefused, Provider, EndAcknowledged, RetryDue, RetryWithdrawn, ConsumeRaises,
        ConsumeCalls, AfterBatch, Mark, Finish, FinishOutdated, FinishRevoked
  <1>4. CASE \/ BeginCancel(t) \/ WithdrawRetry(t) \/ Withdraw(t) \/ Close(t) \/ GiveUp(t)
             \/ DispatchExpired(t) \/ Stopping(t) \/ Stopped(t)
    BY <1>4, <1>a DEF BeginCancel, WithdrawRetry, Withdraw, Close, GiveUp, DispatchExpired, Stopping, Stopped
  <1>5. CASE OutsideStep(t)
    BY <1>5, <1>a DEF OutsideStep, Start, Stop, StopBeforeProvider, Crash, Reconcile, Outside, Resume, driverVars
  <1> QED BY <1>1, <1>2, <1>3, <1>4, <1>5 DEF DriverOwnStep

(* Nothing is dispatched but by the command that looks at the Turn.         *)
NoneDispatched == \A n \in Models : model'[n].status = "dispatched" => model[n].status = "dispatched"

(* Of the steps of a model call only its dispatch makes it dispatched.      *)
LEMMA ModelDispatches ==
    ASSUME TypeOK, NEW m \in Models, ModelStep(m)
    PROVE  NoneDispatched \/ DispatchModel(m)
  <1> USE DEF SetModel, ModelRow
  <1>a. model \in [Models -> ModelRow] /\ model[m] \in ModelRow
    BY DEF TypeOK, ModelTypeOK
  <1>b. ASSUME model'[m].status # "dispatched", \A n \in Models \ {m} : model'[n] = model[n]
        PROVE  NoneDispatched
    BY <1>b DEF NoneDispatched
  <1>1. ASSUME NEW u, NEW revision, PrepareModel(u, m, revision) PROVE NoneDispatched
    BY <1>1, <1>a, <1>b DEF PrepareModel, NoModelRow
  <1>2. CASE SupersedePrepared(m) BY <1>2, <1>a, <1>b DEF SupersedePrepared
  <1>4. ASSUME NEW g, MarkModelUnknown(m, g) PROVE NoneDispatched
    BY <1>4, <1>a, <1>b DEF MarkModelUnknown
  <1>5. CASE ExpireDispatch(m) BY <1>5, <1>4 DEF ExpireDispatch
  <1>6. CASE PrepareScheduledRetry(m) BY <1>6, <1>a, <1>b DEF PrepareScheduledRetry
  <1>7. CASE CancelScheduledRetry(m) BY <1>7, <1>a, <1>b DEF CancelScheduledRetry
  <1>8. CASE FailUnstartedRetry(m) BY <1>8, <1>a, <1>b DEF FailUnstartedRetry
  <1>9. CASE RetryModel(m) BY <1>9, <1>a, <1>b DEF RetryModel
  <1>10. CASE ResponseHandled(m)
    <2>1. model'[m].status = "completed"
      BY <1>10, <1>a DEF ResponseHandled
    <2>2. \A n \in Models \ {m} : model'[n] = model[n]
      BY <1>10, <1>a DEF ResponseHandled
    <2> QED BY <2>1, <2>2, <1>b
  <1>11. ASSUME NEW g, CancelModelAttempt(m, g) PROVE NoneDispatched
    BY <1>11, <1>a, <1>b DEF CancelModelAttempt
  <1>12. ASSUME NEW g, FailureUnknown(m, g) PROVE NoneDispatched
    BY <1>12, <1>a, <1>b DEF FailureUnknown
  <1>13. ASSUME NEW g, FailureScheduled(m, g) PROVE NoneDispatched
    BY <1>13, <1>a, <1>b DEF FailureScheduled
  <1>14. ASSUME NEW g, FailureFinal(m, g) PROVE NoneDispatched
    BY <1>14, <1>a, <1>b DEF FailureFinal
  <1>15. ASSUME NEW g, NEW outcome, RejectModel(m, g, outcome) PROVE NoneDispatched
    BY <1>15, <1>a, <1>b DEF RejectModel
  <1>16. ASSUME NEW g, NEW calls, CompleteModel(m, g, calls) PROVE NoneDispatched
    BY <1>16, <1>a, <1>b DEF CompleteModel
  <1> QED
    BY <1>1, <1>2, <1>4, <1>5, <1>6, <1>7, <1>8, <1>9, <1>10, <1>11, <1>12, <1>13, <1>14, <1>15, <1>16
    DEF ModelStep

(* Of the commands of a Turn only the dispatch of its own model call does.  *)
LEMMA CommandDispatches ==
    ASSUME LedgerInv, ModelsInOrder, NEW t \in Turns, Stage(t), TurnCommand(t) \/ LastWords(t)
    PROVE  NoneDispatched \/ \E m \in ModelsOf(t) : DispatchModel(m)
  <1>a. TypeOK /\ model \in [Models -> ModelRow]
    BY DEF LedgerInv, TypeOK, ModelTypeOK
  <1>1. model' = model => NoneDispatched
    BY DEF NoneDispatched
  <1>2. ASSUME NEW m \in Models, NEW revision, PrepareModel(t, m, revision) PROVE NoneDispatched
    BY <1>2, <1>a DEF PrepareModel, NoModelRow, NoneDispatched, ModelRow
  <1>3. ASSUME NEW m \in ModelsOf(t), ModelStep(m) PROVE NoneDispatched \/ DispatchModel(m)
    BY <1>3, <1>a, ModelDispatches DEF ModelsOf
  <1>4. CASE TurnStep(t)
    <2>1. model' = model \/ LoseModels(t)
      BY <1>4
      DEF TurnStep, StartTurn, StartChild, SettleChild, ReceiveInput, FailTurn, PauseTurn, RecoverOwner,
          InterruptOrphaned, CancelTurn, RequestCancellation, ResumeChildWait, ResumeCancelled,
          CompleteTurn, PauseForChildren, AskQuestion, AnswerQuestion, untouchedByTurns, modelVars
    <2>2. LoseModels(t) => NoneDispatched
      BY <1>a DEF LoseModels, NoneDispatched, ModelRow
    <2> QED BY <1>1, <2>1, <2>2
  <1>5. CASE AnswerStep(t) \/ UNCHANGED vars
    BY <1>1, <1>5 DEF AnswerStep, vars, modelVars
  <1>6. CASE LastWords(t)
    <2>1. ASSUME NEW s \in {"unknown", "failed"}, phase[t] = "await",
                 model' = [model EXCEPT ![Latest(t)].status = s]
          PROVE  NoneDispatched
      <3>1. Latest(t) \in Models
        BY <2>1, AwaitedModel
      <3> QED BY <2>1, <3>1, <1>a DEF NoneDispatched, ModelRow
    <2> QED
      BY <1>1, <1>6, <2>1
      DEF LastWords, Stop, StopBeforeProvider, Stopped, At, SetModel, vars, untouchedByTurns, modelVars
  <1> QED BY <1>2, <1>3, <1>4, <1>5, <1>6 DEF TurnCommand

(* The response that ends the Turn has come back.                           *)
LEMMA LandedStep ==
    ASSUME LedgerInv, ModelsInOrder, NEW t \in Turns, Stage(t), Provider(t) \/ EndAcknowledged(t),
           turn[t] \in Open, turn'[t] \in Terminal
    PROVE  model'[Latest(t)].status # "dispatched"
  <1> DEFINE m == Latest(t)
  <1>a. /\ turn \in [Turns -> TurnStatus] /\ model \in [Models -> ModelRow] /\ turn'[t] \notin Open
        /\ m \in Models /\ model[m].turn = t
    BY AwaitedModel
    DEF LedgerInv, TypeOK, TurnTypeOK, ModelTypeOK, Open, Terminal, Provider, EndAcknowledged, At
  <1> HIDE DEF m
  <1>1. CASE Provider(t)
    <2>1. PICK g : g = model[m].generation
      OBVIOUS
    <2>2. FailureFinal(m, g)
      BY <1>1, <1>a, <2>1
      DEF Provider, CompleteModel, FailureUnknown, FailureScheduled, RejectModel, RequestCancellation,
          turnVars, SetTurn, m, Open
    <2> QED BY <2>2, <1>a DEF FailureFinal, SetModel, ModelRow, m
  <1>2. CASE EndAcknowledged(t)
    BY <1>2, <1>a DEF EndAcknowledged, CancelModelAttempt, SetModel, ModelRow, m
  <1> QED BY <1>1, <1>2

-----------------------------------------------------------------------------
(* A call has a record only once a response made it                         *)

NoneBegins == \A o \in Ops : op[o].status = "absent" => op'[o].status = "absent"

(* A call gets its record only once a committed response proposed it.       *)
LEMMA CallBegins ==
    ASSUME TypeOK, NEW o \in Ops, CallCommand(o)
    PROVE  /\ callRevision' = callRevision
           /\ \A p \in Ops : op[p].status = "absent" /\ op'[p].status # "absent" => callRevision[p] > 0
  <1> USE DEF SetStatus, OpRow
  <1>a. op \in [Ops -> OpRow]
    BY DEF TypeOK, ToolTypeOK
  <1> DEFINE Goal == \A p \in Ops : op[p].status = "absent" /\ op'[p].status # "absent" => callRevision[p] > 0
  <1>0. callRevision' = callRevision
    BY DEF CallCommand, PrepareOperation, ReadyOperation, ClaimOperation, RecordResult, RecordRefusal,
           RejectReady, CommitResult, RequestApproval, CommitUnknownResult
  <1>1. CASE PrepareOperation(o) \/ ReadyOperation(o) \/ ClaimOperation(o)
    BY <1>1, <1>a DEF PrepareOperation, ReadyOperation, ClaimOperation
  <1>2. CASE RecordResult(o) \/ RecordRefusal(o)
    BY <1>2, <1>a DEF RecordResult, RecordRefusal
  <1>3. ASSUME NEW superseded, RejectReady(o, superseded) PROVE Goal
    BY <1>3, <1>a DEF RejectReady
  <1>4. ASSUME NEW status, CommitResult(o, status) PROVE Goal
    BY <1>4, <1>a DEF CommitResult
  <1>5. ASSUME NEW r, RequestApproval(o, r) \/ CommitUnknownResult(o, r) PROVE Goal
    BY <1>5, <1>a DEF RequestApproval, CommitUnknownResult
  <1> QED BY <1>0, <1>1, <1>2, <1>3, <1>4, <1>5 DEF CallCommand

(* An answer to a question gives no call its first record.                  *)
LEMMA AnswersBegin ==
    ASSUME TypeOK, NEW t \in Turns, AnswerStep(t)
    PROVE  NoneBegins
  <1>a. op \in [Ops -> OpRow]
    BY DEF TypeOK, ToolTypeOK
  <1>b. ASSUME NEW x, op[x].status # "absent", NEW s,
               \/ op' = [op EXCEPT ![x].status = s]
               \/ op' = [op EXCEPT ![x].status = s, ![x].linked = TRUE]
               \/ \E r : op' = [op EXCEPT ![x].status = s, ![x].approval = r]
        PROVE  NoneBegins
    BY <1>a, <1>b DEF NoneBegins, OpRow
  <1>1. ASSUME NEW r \in Requests, RefreshApproval(t, r) PROVE NoneBegins
    <2>1. PICK o \in OpsOf(t) : /\ Reapprovable(t) = {o}
                                /\ op' = [op EXCEPT ![o].status = "awaiting_approval", ![o].approval = r]
      BY <1>1 DEF RefreshApproval
    <2>2. op[o].status # "absent"
      BY <2>1 DEF Reapprovable
    <2> QED BY <2>1, <2>2, <1>b
  <1>2. CASE InvalidateApproval(t)
    <2>1. PICK r \in Requests : /\ op[interaction[r].op].status = "awaiting_approval"
                                /\ SetStatus(interaction[r].op, "superseded")
      BY <1>2 DEF InvalidateApproval
    <2>2. PICK x : x = interaction[r].op
      OBVIOUS
    <2>3. op[x].status # "absent" /\ op' = [op EXCEPT ![x].status = "superseded"]
      BY <2>1, <2>2 DEF SetStatus
    <2> HIDE <1>2, <2>2
    <2> QED BY <2>3, <1>b
  <1>3. CASE InvalidateResolvedApproval(t)
    <2>1. PICK r \in Requests : /\ op[interaction[r].op].status = "ready"
                                /\ SetStatus(interaction[r].op, "superseded")
      BY <1>3 DEF InvalidateResolvedApproval
    <2>2. PICK x : x = interaction[r].op
      OBVIOUS
    <2>3. op[x].status # "absent" /\ op' = [op EXCEPT ![x].status = "superseded"]
      BY <2>1, <2>2 DEF SetStatus
    <2> HIDE <1>3, <2>2
    <2> QED BY <2>3, <1>b
  <1>4. ASSUME NEW decision, NEW recheck, ResolveApproval(t, decision, recheck) PROVE NoneBegins
    <2>1. PICK r \in Requests :
              /\ op[interaction[r].op].status = "awaiting_approval"
              /\ SetStatus(interaction[r].op, IF decision = "approve" THEN "ready" ELSE "denied")
      BY <1>4 DEF ResolveApproval
    <2>2. PICK x, s : x = interaction[r].op /\ s = IF decision = "approve" THEN "ready" ELSE "denied"
      OBVIOUS
    <2>3. op[x].status # "absent" /\ op' = [op EXCEPT ![x].status = s]
      BY <2>1, <2>2 DEF SetStatus
    <2> HIDE <2>2
    <2> QED BY <2>3, <1>b
  <1>5. ASSUME NEW status, ResolveReconciliation(t, status) PROVE NoneBegins
    <2>1. PICK r \in Requests :
              /\ op[interaction[r].op].status = "unknown"
              /\ op' = [op EXCEPT ![interaction[r].op].status = status, ![interaction[r].op].linked = TRUE]
      BY <1>5 DEF ResolveReconciliation
    <2>2. PICK x : x = interaction[r].op
      OBVIOUS
    <2>3. op[x].status # "absent" /\ op' = [op EXCEPT ![x].status = status, ![x].linked = TRUE]
      BY <2>1, <2>2
    <2> HIDE <2>2
    <2> QED BY <2>3, <1>b
  <1> QED BY <1>1, <1>2, <1>3, <1>4, <1>5 DEF AnswerStep

(* The commands of a Turn give no call its first record.                    *)
LEMMA TurnBegins ==
    ASSUME TypeOK, ToolInv, NEW t \in Turns, TurnCommand(t) \/ LastWords(t)
    PROVE  NoneBegins
  <1>a. op \in [Ops -> OpRow] /\ \A o \in Ops : op[o].claims > 0 => op[o].status # "absent"
    BY DEF TypeOK, ToolTypeOK, ToolInv, ClaimedStaysStarted
  <1>b. op' = op => NoneBegins
    BY DEF NoneBegins
  <1>1. CASE CancelTurn(t)
    <2> SUFFICES ASSUME NEW o \in Ops, op[o].status = "absent" PROVE op'[o].status = "absent"
      BY DEF NoneBegins
    <2>1. ~\E r \in Pending(t) : interaction[r].op = o
      BY <1>1, TurnConstants DEF CancelTurn
    <2> QED BY <1>1, <2>1 DEF CancelTurn
  <1>2. ASSUME NEW abort, RecoverOwner(t, abort) PROVE NoneBegins
    <2>1. ASSUME NEW o, NEW r, LoseTool(t, o, r) PROVE NoneBegins
      BY <2>1, <1>a DEF LoseTool, SetStatus, NoneBegins, OpRow
    <2>2. ASSUME CloseUnstarted(t) PROVE NoneBegins
      <3> SUFFICES ASSUME NEW o \in Ops, op[o].status = "absent" PROVE op'[o].status = "absent"
        BY DEF NoneBegins
      <3>1. o \notin FirstMissing(t)
        BY <1>a DEF FirstMissing, Missing
      <3>2. Closed(o) = op[o]
        BY DEF Closed
      <3> QED BY <2>2, <3>1, <3>2 DEF CloseUnstarted
    <2> QED BY <1>2, <1>b, <2>1, <2>2 DEF RecoverOwner
  <1>3. CASE TurnStep(t)
    BY <1>1, <1>2, <1>3, <1>b
    DEF TurnStep, StartTurn, StartChild, SettleChild, ReceiveInput, FailTurn, PauseTurn,
        InterruptOrphaned, RequestCancellation, ResumeChildWait, ResumeCancelled,
        CompleteTurn, PauseForChildren, AskQuestion, AnswerQuestion, untouchedByTurns, toolVars
  <1>4. CASE AnswerStep(t)
    BY <1>4, AnswersBegin
  <1>5. ASSUME NEW m, ModelStep(m) PROVE op' = op
    BY <1>5
    DEF ModelStep, PrepareModel, SupersedePrepared, DispatchModel, ExpireDispatch, MarkModelUnknown,
        PrepareScheduledRetry, CancelScheduledRetry, FailUnstartedRetry, RetryModel, ResponseHandled,
        CancelModelAttempt, FailureUnknown, FailureScheduled, FailureFinal, RejectModel, CompleteModel,
        toolVars
  <1>6. CASE LastWords(t)
    BY <1>6, <1>b DEF LastWords, Stop, StopBeforeProvider, Stopped, untouchedByTurns, toolVars, vars
  <1>7. ASSUME NEW m, NEW revision, PrepareModel(t, m, revision) PROVE op' = op
    BY <1>7 DEF PrepareModel, toolVars
  <1>8. UNCHANGED vars => op' = op
    BY DEF vars, toolVars
  <1> QED BY <1>3, <1>4, <1>5, <1>6, <1>7, <1>8, <1>b DEF TurnCommand

(* What a step leaves of a Turn alone keeps the words of that Turn.         *)
LEMMA WordsKept ==
    ASSUME NEW u \in Turns, WordInv(u), turn'[u] = turn[u], inputRevision'[u] = inputRevision[u],
           allocation'[u] = allocation[u], phase'[u] = phase[u], seen'[u] = seen[u],
           \A m \in Models : model'[m].turn = u <=> model[m].turn = u,
           \A m \in ModelsOf(u) : model'[m] = model[m],
           \A o \in OpsOf(u) : op'[o] = op[o] /\ callRevision'[o] = callRevision[o]
    PROVE  WordInv(u)'
  <1>1. ModelsOf(u)' = ModelsOf(u)
    BY DEF ModelsOf
  <1>2. \A S : ModelsIn(u, S)' = ModelsIn(u, S)
    BY <1>1 DEF ModelsIn
  <1>3. Revisions(u)' = Revisions(u)
    BY <1>2 DEF Revisions, ModelsIn
  <1>4. OpsOf(u)' = OpsOf(u)
    BY DEF OpsOf
  <1> QED BY <1>1, <1>2, <1>3, <1>4 DEF WordInv

(* What all ways to speak have in common.                                   *)
LEMMA SaysOfTurn ==
    ASSUME TypeOK, NEW t \in Turns, Says(t)
    PROVE  /\ \A u \in Turns \ {t} : inputRevision'[u] = inputRevision[u] /\ allocation'[u] = allocation[u]
           /\ turn'[t] = "absent" => turn[t] = "absent"
           /\ turn[t] # "absent" => inputRevision'[t] >= inputRevision[t]
           /\ turn[t] \in Open /\ turn'[t] \notin Open => turn'[t] \in Terminal
           /\ turn'[t] \in Open /\ turn[t] \notin Open => turn[t] = "absent"
           /\ Parent[t] # NoTurn /\ turn'[t] \in Open =>
                  allocation'[t] = "active" \/ (turn[t] \in Open /\ allocation'[t] = allocation[t])
  <1> USE DEF Open, Terminal
  <1>a. /\ turn \in [Turns -> TurnStatus] /\ inputRevision \in [Turns -> Nat]
        /\ allocation \in [Turns -> {"none", "active", "settled"}]
    BY DEF TypeOK, TurnTypeOK
  <1>1. CASE StartTurn(t) BY <1>1, <1>a DEF StartTurn, SetTurn
  <1>2. CASE StartChild(t) BY <1>2, <1>a DEF StartChild, SetTurn
  <1>3. CASE Hears(t) BY <1>3, <1>a DEF Hears
  <1>4. CASE Stays(t)
    <2>1. allocation' = allocation \/ (allocation' = [allocation EXCEPT ![t] = "settled"] /\ turn[t] \in Terminal)
      BY <1>4 DEF Stays, SettleChild
    <2> QED BY <1>4, <2>1, <1>a DEF Stays
  <1>5. CASE Halts(t) BY <1>5, <1>a DEF Halts
  <1>6. ASSUME NEW revision, CompleteTurn(t, revision)
        PROVE  /\ turn[t] = "running" /\ turn'[t] = "completed"
               /\ inputRevision' = inputRevision /\ allocation' = allocation
    BY <1>6, <1>a DEF CompleteTurn, Ended, SetTurn, Running
  <1> QED BY <1>1, <1>2, <1>3, <1>4, <1>5, <1>6, <1>a DEF Says

(* With one more answer there is still a newest one.                        *)
LEMMA GreatestRevision ==
    ASSUME NEW S \in SUBSET Nat, \E r \in S \cup {0} : \A q \in S : q <= r, NEW n \in Nat
    PROVE  \E r \in S \cup {n} \cup {0} : \A q \in S \cup {n} : q <= r
  <1>1. PICK r \in S \cup {0} : \A q \in S : q <= r
    OBVIOUS
  <1>2. CASE n <= r
    BY <1>1, <1>2
  <1>3. CASE ~(n <= r)
    <2>1. \A q \in S \cup {n} : q <= n
      BY <1>1, <1>3
    <2> QED BY <2>1
  <1> QED BY <1>2, <1>3

(* Revisions are numbers.                                                   *)
LEMMA RevisionsType ==
    ASSUME TypeOK, NEW t \in Turns
    PROVE  Revisions(t) \in SUBSET Nat
  BY DEF TypeOK, ModelTypeOK, ModelRow, Revisions, ModelsIn, ModelsOf

(* What is answered grows with the responses alone.                         *)
LEMMA AnswersGrow ==
    ASSUME LedgerInv, ModelsInOrder, NEW t \in Turns, Stage(t), TurnCommand(t) \/ LastWords(t)
    PROVE  \/ SameAnswers /\ \A u \in Turns : Revisions(u)' = Revisions(u)
           \/ \E m \in ModelsOf(t), g \in Generations, calls \in SUBSET Ops :
                  /\ CompleteModel(m, g, calls)
                  /\ Revisions(t)' = Revisions(t) \cup {model[m].revision}
                  /\ \A u \in Turns \ {t} : Revisions(u)' = Revisions(u)
  <1>a. TypeOK /\ ModelInv
    BY DEF LedgerInv
  <1>1. SameAnswers \/ NewAnswer(t)
    BY <1>a, LastWordsAnswers, CommandAnswers
  <1>2. SameRequests(t) \/ NewRequest(t)
    BY <1>a, CommandRequests, LastWordsRequests
  <1>3. CASE SameAnswers
    BY <1>a, <1>2, <1>3, SameRevisions
  <1>4. CASE NewAnswer(t)
    <2>1. PICK m \in ModelsOf(t), g \in Generations, calls \in SUBSET Ops : CompleteModel(m, g, calls)
      BY <1>4 DEF NewAnswer
    <2>2. /\ Revisions(t)' = Revisions(t) \cup {model[m].revision}
          /\ \A u \in Turns \ {t} : Revisions(u)' = Revisions(u)
      BY <1>a, <2>1, NewRevision
    <2> QED BY <2>1, <2>2
  <1> QED BY <1>1, <1>3, <1>4

(* A step of the driver or of an outsider keeps the words of every Turn.    *)
LEMMA TurnWords ==
    ASSUME RunnerInv, RunnerInv', AllFlight, NEW t \in Turns, WordInv(t),
           DriverOwnStep(t) \/ OutsideStep(t)
    PROVE  WordInv(t)'
  <1>a. /\ TypeOK /\ ToolInv /\ ModelInv /\ ModelsInOrder /\ Stage(t) /\ RunnerTypeOK /\ LedgerInv
        /\ turn \in [Turns -> TurnStatus] /\ model \in [Models -> ModelRow]
        /\ inputRevision \in [Turns -> Nat] /\ inputRevision' \in [Turns -> Nat]
        /\ callRevision \in [Ops -> Nat] /\ FlightInv(t)
    BY DEF RunnerInv, LedgerInv, TypeOK, TurnTypeOK, ModelTypeOK, ToolTypeOK, AllFlight
  <1>b. TurnCommand(t) \/ LastWords(t)
    BY TurnStepInvariant
  <1>c. Says(t)
    BY <1>a, <1>b, CommandSays DEF WordInv
  <1>d. SameRequests(t) \/ NewRequest(t)
    BY <1>a, <1>b, CommandRequests, LastWordsRequests
  <1>n. NewRequest(t) =>
            /\ turn' = turn /\ inputRevision' = inputRevision /\ Running(t)
            /\ \E x \in Models : /\ model'[x].status = "prepared" /\ model'[x].turn = t
                                 /\ model'[x].revision <= inputRevision[t] /\ model[x].turn # t
                                 /\ \A n \in Models \ {x} : model'[n] = model[n]
    <2> SUFFICES ASSUME NEW x \in Models, NEW revision \in 1..inputRevision[t], PrepareModel(t, x, revision)
                 PROVE  /\ turn' = turn /\ inputRevision' = inputRevision /\ Running(t)
                        /\ model'[x].status = "prepared" /\ model'[x].turn = t
                        /\ model'[x].revision <= inputRevision[t] /\ model[x].turn # t
                        /\ \A n \in Models \ {x} : model'[n] = model[n]
      BY DEF NewRequest
    <2>1. model[x] = NoModelRow
      BY <1>a DEF PrepareModel, ModelInv
    <2> QED BY <2>1, <1>a, TurnConstants DEF PrepareModel, NoModelRow, turnVars, slotVars
  <1>e. \/ SameAnswers /\ \A u \in Turns : Revisions(u)' = Revisions(u)
        \/ \E m \in ModelsOf(t), g \in Generations, calls \in SUBSET Ops :
               /\ CompleteModel(m, g, calls)
               /\ Revisions(t)' = Revisions(t) \cup {model[m].revision}
               /\ \A u \in Turns \ {t} : Revisions(u)' = Revisions(u)
    BY <1>a, <1>b, AnswersGrow
  <1>f. Revisions(t) \subseteq Revisions(t)' /\ Revisions(t) \in SUBSET Nat
    BY <1>a, <1>e, RevisionsType
  <1>1. turn'[t] = "absent" => ModelsOf(t)' = {}
    <2> SUFFICES ASSUME turn'[t] = "absent" PROVE ModelsOf(t)' = {}
      OBVIOUS
    <2>1. turn[t] = "absent" /\ ModelsOf(t) = {}
      BY <1>a, <1>c, SaysOfTurn DEF WordInv
    <2> QED BY <2>1, <1>d, <1>n DEF SameRequests, ModelsOf, Running
  <1>2. ModelsIn(t, {"dispatched"})' # {} => turn'[t] \in Open
    <2> SUFFICES ASSUME NEW m \in Models, model'[m].status = "dispatched", model'[m].turn = t
                 PROVE  turn'[t] \in Open
      BY DEF ModelsIn, ModelsOf
    <2>1. CASE NoneDispatched
      <3>1. model[m].status = "dispatched" /\ model[m].turn = t
        BY <2>1, <1>d, <1>n DEF NoneDispatched, SameRequests
      <3>2. m \in ModelsIn(t, {"dispatched"}) /\ m \in FlightOf(t)
        BY <3>1 DEF ModelsIn, ModelsOf, FlightOf, InFlight
      <3>3. turn[t] \in Open /\ phase[t] \in Aloft
        BY <1>a, <3>2 DEF WordInv, FlightInv
      <3>4. m = Latest(t)
        BY <1>a, <3>2, FlightIsNewest
      <3>5. turn'[t] \notin Terminal
        BY <1>a, <3>3, <3>4, EndingStep, LandedStep
      <3> QED BY <1>a, <1>c, <3>3, <3>5, SaysOfTurn
    <2>2. ASSUME NEW x \in ModelsOf(t), DispatchModel(x) PROVE turn'[t] \in Open
      <3>1. turn' = turn /\ ~AdmissionRevoked(t) /\ turn[t] # "absent"
        BY <2>2 DEF DispatchModel, ModelsOf, turnVars, WordInv
      <3> QED BY <3>1, <1>a DEF AdmissionRevoked, Revoked, TurnStatus
    <2> QED BY <1>a, <1>b, <2>1, <2>2, CommandDispatches
  <1>3. \A m \in ModelsOf(t)' : model'[m].revision <= inputRevision'[t]
    <2> SUFFICES ASSUME NEW m \in Models, model'[m].turn = t PROVE model'[m].revision <= inputRevision'[t]
      BY DEF ModelsOf
    <2>1. CASE SameRequests(t)
      <3>1. m \in ModelsOf(t) /\ model'[m].revision = model[m].revision
        BY <2>1 DEF SameRequests, ModelsOf
      <3>2. model[m].revision <= inputRevision[t] /\ model[m].revision \in Nat
        BY <3>1, <1>a DEF WordInv, ModelRow
      <3>3. inputRevision'[t] >= inputRevision[t]
        BY <3>1, <1>a, <1>c, SaysOfTurn DEF WordInv
      <3> QED BY <3>1, <3>2, <3>3, <1>a
    <2>2. CASE NewRequest(t)
      BY <2>2, <1>n DEF WordInv, ModelsOf
    <2> QED BY <1>d, <2>1, <2>2
  <1>4. \E r \in Revisions(t)' \cup {0} : \A q \in Revisions(t)' : q <= r
    <2>1. \E r \in Revisions(t) \cup {0} : \A q \in Revisions(t) : q <= r
      BY DEF WordInv
    <2>2. ASSUME NEW m \in ModelsOf(t), Revisions(t)' = Revisions(t) \cup {model[m].revision}
          PROVE  \E r \in Revisions(t)' \cup {0} : \A q \in Revisions(t)' : q <= r
      <3>1. model[m].revision \in Nat
        BY <1>a DEF ModelsOf, ModelRow
      <3> QED BY <1>f, <2>1, <2>2, <3>1, GreatestRevision
    <2> QED BY <1>e, <2>1, <2>2
  <1>5. phase'[t] = "finish" => seen'[t] \in Revisions(t)'
    <2> SUFFICES ASSUME phase'[t] = "finish" PROVE seen'[t] \in Revisions(t)
      BY <1>f
    <2>1. CASE ConsumeAnswer(t)
      <3>1. NewestIs(t, {"completed"}) /\ seen'[t] = model[Latest(t)].revision
        BY <2>1, <1>a DEF ConsumeAnswer, At, Stage, RunnerTypeOK
      <3>2. Latest(t) \in ModelsIn(t, {"completed"})
        BY <3>1, <1>a, LatestIsNewest DEF ModelsIn
      <3> QED BY <3>1, <3>2 DEF Revisions
    <2>2. CASE phase[t] = "finish" /\ seen'[t] = seen[t]
      BY <2>2 DEF WordInv
    <2> QED BY <1>a, <2>1, <2>2, FinishingStep
  <1>6. ASSUME NEW o \in OpsOf(t)
        PROVE  /\ op'[o].status # "absent" => callRevision'[o] > 0
               /\ callRevision'[o] > 0 => callRevision'[o] \in Revisions(t)'
    <2>1. op'[o].status # "absent" => callRevision[o] > 0
      BY <1>a, <1>b, TurnBegins DEF NoneBegins, OpsOf, WordInv
    <2>2. callRevision[o] > 0 => callRevision[o] \in Revisions(t)
      BY DEF WordInv
    <2>3. CASE SameAnswers
      BY <2>1, <2>2, <2>3, <1>f DEF SameAnswers
    <2>4. ASSUME NEW m \in ModelsOf(t), NEW g, NEW calls, CompleteModel(m, g, calls),
                 Revisions(t)' = Revisions(t) \cup {model[m].revision}
          PROVE  /\ op'[o].status # "absent" => callRevision'[o] > 0
                 /\ callRevision'[o] > 0 => callRevision'[o] \in Revisions(t)'
      <3>1. callRevision'[o] = IF o \in calls THEN model[m].revision ELSE callRevision[o]
        BY <2>4 DEF CompleteModel, OpsOf
      <3>2. model[m].revision > 0
        BY <2>4, <1>a DEF CompleteModel, Current, ModelsInOrder, ModelsOf
      <3> QED BY <2>1, <2>2, <2>4, <3>1, <3>2
    <2> QED BY <1>e, <2>3, <2>4
  <1>7. Parent[t] # NoTurn /\ turn'[t] \in Open => allocation'[t] = "active"
    BY <1>a, <1>c, SaysOfTurn DEF WordInv
  <1>8. OpsOf(t)' = OpsOf(t)
    BY DEF OpsOf
  <1> QED BY <1>1, <1>2, <1>3, <1>4, <1>5, <1>6, <1>7, <1>8 DEF WordInv

(* The work on a call keeps the words of every Turn.                        *)
LEMMA CallWords ==
    ASSUME RunnerInv, MattersInv, NEW o \in Ops, CallStep(o), WordInv(TurnOf[o])
    PROVE  WordInv(TurnOf[o])'
  <1> DEFINE t == TurnOf[o]
  <1>a. TypeOK /\ turn \in [Turns -> TurnStatus] /\ t \in Turns /\ Matters(t) /\ RunnerTypeOK
    BY ToolConstants DEF RunnerInv, LedgerInv, TypeOK, TurnTypeOK, MattersInv, TurnInv
  <1>b. model' = model /\ (CallCommand(o) \/ RequestCancellation(t) \/ UNCHANGED vars)
    BY CallStepInvariant
  <1>c. phase'[t] \in {phase[t], "off", "drain"} /\ seen' = seen
    BY <1>a, CallMoves
  <1>d. Stays(t)
    <2>1. RequestCancellation(t) \/ UNCHANGED vars => Stays(t)
      BY DEF RequestCancellation, Stays, slotVars, vars, turnVars
    <2> QED BY <1>a, <1>b, <2>1, CallSays
  <1>e. /\ callRevision' = callRevision
        /\ \A p \in Ops : op[p].status = "absent" /\ op'[p].status # "absent" => callRevision[p] > 0
    <2>1. RequestCancellation(t) \/ UNCHANGED vars => op' = op /\ callRevision' = callRevision
      BY DEF RequestCancellation, untouchedByTurns, vars, toolVars
    <2> QED BY <1>a, <1>b, <2>1, CallBegins
  <1>f. Says(t)
    BY <1>d DEF Says
  <1> HIDE DEF t
  <1>1. ModelsOf(t)' = ModelsOf(t) /\ (\A S : ModelsIn(t, S)' = ModelsIn(t, S)) /\ OpsOf(t)' = OpsOf(t)
    BY <1>b DEF ModelsOf, ModelsIn, OpsOf
  <1>2. Revisions(t)' = Revisions(t)
    BY <1>1, <1>b DEF Revisions
  <1>3. inputRevision' = inputRevision /\ (turn'[t] = turn[t] \/ (turn[t] \in Open /\ turn'[t] \in Open))
    BY <1>d DEF Stays
  <1>4. Parent[t] # NoTurn /\ turn'[t] \in Open => allocation'[t] = "active"
    BY <1>a, <1>f, SaysOfTurn DEF WordInv, t
  <1>5. WordInv(t)
    BY DEF t
  <1>6. turn'[t] = "absent" => turn[t] = "absent"
    BY <1>3 DEF Open
  <1>7. \A p \in OpsOf(t) : /\ op'[p].status # "absent" => callRevision[p] > 0
                            /\ callRevision[p] > 0 => callRevision[p] \in Revisions(t)
    BY <1>5, <1>e DEF WordInv, OpsOf
  <1>8. phase'[t] = "finish" => phase[t] = "finish"
    BY <1>c
  <1>9. WordInv(t)'
    BY <1>b, <1>c, <1>e, <1>1, <1>2, <1>3, <1>4, <1>5, <1>6, <1>7, <1>8 DEF WordInv
  <1> QED BY <1>9 DEF t

AllWords == \A t \in Turns : WordInv(t)

(* Before the first input nobody said anything.                             *)
LEMMA WordsInit == RunnerInit => AllWords
  <1> SUFFICES ASSUME RunnerInit, NEW t \in Turns PROVE WordInv(t)
    BY DEF AllWords
  <1>1. \A m \in Models : model[m].turn = NoTurn
    BY DEF RunnerInit, Init, ModelInit, NoModelRow
  <1>2. ModelsOf(t) = {} /\ Revisions(t) = {} /\ \A S : ModelsIn(t, S) = {}
    BY <1>1, TurnConstants DEF ModelsOf, ModelsIn, Revisions
  <1>3. turn[t] \notin Open /\ phase[t] = "off"
    BY DEF RunnerInit, Init, TurnInit, Open
  <1>4. \A o \in Ops : op[o].status = "absent" /\ callRevision[o] = 0
    BY DEF RunnerInit, Init, ToolInit, NoOpRow
  <1> QED BY <1>2, <1>3, <1>4 DEF WordInv, OpsOf

(* Every step keeps the words.                                              *)
LEMMA WordsStep ==
    ASSUME RunnerInv, RunnerInv', MattersInv, AllFlight, AllWords, [RunnerNext]_runnerVars
    PROVE  AllWords'
  <1>a. /\ TypeOK /\ ToolInv /\ ModelInv /\ ModelsInOrder /\ LedgerInv /\ callRevision \in [Ops -> Nat]
        /\ model \in [Models -> ModelRow]
    BY DEF RunnerInv, LedgerInv, TypeOK, ToolTypeOK, ModelTypeOK
  <1>1. CASE UNCHANGED runnerVars
    <2> SUFFICES ASSUME NEW t \in Turns PROVE WordInv(t)'
      BY DEF AllWords
    <2>1. UNCHANGED <<turn, inputRevision, allocation, model, op, callRevision, phase, seen>>
      BY <1>1 DEF runnerVars, vars, turnVars, slotVars, toolVars, modelVars, driverVars
    <2> QED BY <2>1, WordsKept DEF AllWords
  <1>2. ASSUME NEW t \in Turns, DriverOwnStep(t) \/ OutsideStep(t) PROVE AllWords'
    <2>1. WordInv(t)'
      BY <1>2, TurnWords DEF AllWords
    <2>2. OthersLeft(t) /\ (TurnCommand(t) \/ LastWords(t)) /\ Stage(t)
      BY <1>2, TurnStepInvariant DEF Moved, RunnerInv
    <2>3. OnlyOf(t) /\ Says(t)
      BY <2>2, <1>a, CommandsAreLocal, CommandSays DEF AllWords, WordInv
    <2>4. SameRequests(t) \/ NewRequest(t)
      BY <2>2, <1>a, CommandRequests, LastWordsRequests
    <2>5. ASSUME NEW u \in Turns \ {t} PROVE WordInv(u)'
      <3>1. turn'[u] = turn[u] /\ phase'[u] = phase[u] /\ seen'[u] = seen[u]
        BY <2>2, <2>3 DEF OnlyOf, OthersLeft
      <3>2. inputRevision'[u] = inputRevision[u] /\ allocation'[u] = allocation[u]
        BY <1>a, <2>3, SaysOfTurn
      <3>3. /\ \A m \in Models : model'[m].turn = u <=> model[m].turn = u
            /\ \A m \in ModelsOf(u) : model'[m] = model[m]
        <4>1. CASE SameRequests(t)
          BY <4>1 DEF SameRequests, ModelsOf
        <4>2. CASE NewRequest(t)
          <5>1. PICK m \in Models, revision \in 1..inputRevision[t] : PrepareModel(t, m, revision)
            BY <4>2 DEF NewRequest
          <5>2. model[m] = NoModelRow
            BY <5>1, <1>a DEF PrepareModel, ModelInv
          <5>3. /\ model[m].turn = NoTurn /\ model'[m].turn = t
                /\ \A n \in Models \ {m} : model'[n] = model[n]
            BY <5>1, <5>2, <1>a DEF PrepareModel, NoModelRow
          <5>4. model[m].turn # u /\ model'[m].turn # u
            BY <5>3, TurnConstants
          <5> QED BY <5>3, <5>4 DEF ModelsOf
        <4> QED BY <2>4, <4>1, <4>2
      <3>4. \A o \in OpsOf(u) : op'[o] = op[o]
        BY <2>3 DEF OnlyOf, OpsOf
      <3>5. \A o \in OpsOf(u) : callRevision'[o] = callRevision[o]
        <4>1. SameAnswers \/ NewAnswer(t)
          BY <2>2, <1>a, LastWordsAnswers, CommandAnswers
        <4>2. ASSUME NEW m \in ModelsOf(t), NEW g, NEW calls, CompleteModel(m, g, calls), NEW o \in OpsOf(u)
              PROVE  callRevision'[o] = callRevision[o]
          BY <4>2 DEF CompleteModel, OpsOf, ModelsOf
        <4> QED BY <4>1, <4>2 DEF SameAnswers, NewAnswer
      <3> QED BY <3>1, <3>2, <3>3, <3>4, <3>5, WordsKept DEF AllWords
    <2> QED BY <2>1, <2>5 DEF AllWords
  <1>3. ASSUME NEW o \in Ops, CallStep(o) PROVE AllWords'
    <2> DEFINE t == TurnOf[o]
    <2>0. t \in Turns
      BY ToolConstants
    <2>1. WordInv(t)'
      BY <1>3, <2>0, CallWords DEF AllWords
    <2>2. /\ OthersLeft(t) /\ model' = model
          /\ CallCommand(o) \/ RequestCancellation(t) \/ UNCHANGED vars
      BY <1>3, CallStepInvariant DEF Moved
    <2>a. RequestCancellation(t) \/ UNCHANGED vars => TurnCommand(t)
      BY DEF TurnCommand, TurnStep
    <2>3. OnlyOf(t)
      BY <1>a, <2>0, <2>2, <2>a, CallsAreLocal, CommandsAreLocal
    <2>4. Says(t)
      <3>1. CallCommand(o) => Stays(t)
        BY <1>a, CallSays, <2>0 DEF MattersInv, TurnInv
      <3> QED BY <1>a, <2>0, <2>2, <2>a, <3>1, CommandSays DEF Says, AllWords, WordInv
    <2>5. callRevision' = callRevision
      <3>1. RequestCancellation(t) \/ UNCHANGED vars => callRevision' = callRevision
        BY DEF RequestCancellation, untouchedByTurns, vars, toolVars
      <3> QED BY <1>a, <2>2, <3>1, CallBegins
    <2> HIDE DEF t
    <2>6. ASSUME NEW u \in Turns \ {t} PROVE WordInv(u)'
      <3>1. turn'[u] = turn[u] /\ phase'[u] = phase[u] /\ seen'[u] = seen[u]
        BY <2>2, <2>3 DEF OnlyOf, OthersLeft
      <3>2. inputRevision'[u] = inputRevision[u] /\ allocation'[u] = allocation[u]
        BY <1>a, <2>0, <2>4, SaysOfTurn
      <3>3. \A p \in OpsOf(u) : op'[p] = op[p]
        BY <2>3 DEF OnlyOf, OpsOf
      <3> QED BY <2>2, <2>5, <3>1, <3>2, <3>3, WordsKept DEF AllWords
    <2> QED BY <2>1, <2>6 DEF AllWords
  <1> QED BY <1>1, <1>2, <1>3 DEF RunnerNext

(* A committed response answers a message the user sent, calls exist only   *)
(* by such a response, and only an open Turn awaits one.                    *)
THEOREM WordsAreKept == RunnerSpec => []AllWords
  BY WordsInit, WordsStep, DriverKeepsLedger, MattersAreKept, FlightsAreKnown, PTL DEF RunnerSpec

-----------------------------------------------------------------------------
(* The driver implements Conversation *)

Statuses == [t \in Turns |-> ConversationStatus(turn[t])]
Answers == [t \in Turns |-> Covered(t)]

(* How the statuses of the code read to a user.                             *)
LEMMA StatusOf ==
    /\ ConversationStatus("absent") = "new" /\ ConversationStatus("completed") = "completed"
    /\ \A s \in Open : ConversationStatus(s) = "open"
    /\ \A s \in {"failed", "cancelled"} : ConversationStatus(s) = "stopped"
    /\ \A s \in TurnStatus : s \notin Open => ConversationStatus(s) # "open"
  BY DEF ConversationStatus, Open, TurnStatus, Terminal

(* Covered is the newest answer, and answers nothing that was not heard.    *)
LEMMA CoveredIs ==
    ASSUME TypeOK, NEW t \in Turns, WordInv(t)
    PROVE  /\ Covered(t) \in Revisions(t) \cup {0} /\ Covered(t) \in Nat
           /\ \A q \in Revisions(t) : q <= Covered(t)
           /\ Covered(t) <= inputRevision[t]
  <1>1. Covered(t) = CHOOSE r \in Revisions(t) \cup {0} : \A q \in Revisions(t) : q <= r
    BY DEF Covered, Revisions
  <1>2. \E r \in Revisions(t) \cup {0} : \A q \in Revisions(t) : q <= r
    BY DEF WordInv
  <1>3. Covered(t) \in Revisions(t) \cup {0} /\ \A q \in Revisions(t) : q <= Covered(t)
    BY <1>1, <1>2
  <1>4. \A q \in Revisions(t) : q \in Nat /\ q <= inputRevision[t]
    BY RevisionsType DEF Revisions, ModelsIn, ModelsOf, WordInv
  <1>5. inputRevision[t] \in Nat
    BY DEF TypeOK, TurnTypeOK
  <1> QED BY <1>3, <1>4, <1>5

(* The newest answer depends on the answers alone.                          *)
LEMMA SameCovered ==
    ASSUME NEW t \in Turns, Revisions(t)' = Revisions(t)
    PROVE  Covered(t)' = Covered(t)
  <1>1. Covered(t) = CHOOSE r \in Revisions(t) \cup {0} : \A q \in Revisions(t) : q <= r
    BY DEF Covered, Revisions
  <1>2. Covered(t)' = CHOOSE r \in Revisions(t)' \cup {0} : \A q \in Revisions(t)' : q <= r
    BY DEF Covered, Revisions
  <1> QED BY <1>1, <1>2

(* A new answer becomes the newest unless an older one covers it.           *)
LEMMA NewCovered ==
    ASSUME TypeOK, TypeOK', NEW t \in Turns, WordInv(t), WordInv(t)', NEW n \in Nat,
           Revisions(t)' = Revisions(t) \cup {n}
    PROVE  Covered(t)' = IF n <= Covered(t) THEN Covered(t) ELSE n
  <1>1. /\ Covered(t) \in Revisions(t) \cup {0} /\ Covered(t) \in Nat
        /\ \A q \in Revisions(t) : q <= Covered(t)
    BY CoveredIs
  <1>2. /\ Covered(t)' \in Revisions(t)' \cup {0} /\ Covered(t)' \in Nat
        /\ \A q \in Revisions(t)' : q <= Covered(t)'
    <2>1. Covered(t)' = CHOOSE r \in Revisions(t)' \cup {0} : \A q \in Revisions(t)' : q <= r
      BY DEF Covered, Revisions
    <2>2. \E r \in Revisions(t)' \cup {0} : \A q \in Revisions(t)' : q <= r
      BY DEF WordInv
    <2>3. Covered(t)' \in Revisions(t)' \cup {0} /\ \A q \in Revisions(t)' : q <= Covered(t)'
      BY <2>1, <2>2
    <2>4. \A q \in Revisions(t)' : q \in Nat
      BY RevisionsType
    <2> QED BY <2>3, <2>4
  <1>3. PICK old \in Nat, new \in Nat : old = Covered(t) /\ new = Covered(t)'
    BY <1>1, <1>2
  <1>4. n <= new /\ (old \in Revisions(t) => old <= new) /\ (old = 0 => old <= new)
    BY <1>2, <1>3
  <1>5. new = n \/ new = 0 \/ new \in Revisions(t)
    BY <1>2, <1>3
  <1>6. new \in Revisions(t) => new <= old
    BY <1>1, <1>3
  <1>7. old \in Revisions(t) \/ old = 0
    BY <1>1, <1>3
  <1>8. ASSUME n <= old
        PROVE  new = old
    BY <1>3, <1>4, <1>5, <1>6, <1>7, <1>8
  <1>9. ASSUME ~(n <= old)
         PROVE  new = n
    BY <1>3, <1>4, <1>5, <1>6, <1>7, <1>9
  <1>10. CASE n <= old
    BY <1>3, <1>8, <1>10, Zenon
  <1>11. CASE ~(n <= old)
    BY <1>3, <1>9, <1>11, Zenon
  <1> QED BY <1>10, <1>11

(* What a user sees of t is all that a step of t changes.                   *)
LEMMA OthersSee ==
    ASSUME TypeOK, NEW t \in Turns, OnlyOf(t), Says(t), NEW u \in Turns \ {t}
    PROVE  turn'[u] = turn[u] /\ inputRevision'[u] = inputRevision[u]
  BY SaysOfTurn DEF OnlyOf

(* A step of the driver or of an outsider is a step of Conversation.        *)
LEMMA TurnPromise ==
    ASSUME RunnerInv, RunnerInv', AllFlight, AllWords, AllWords', NEW t \in Turns,
           DriverOwnStep(t) \/ OutsideStep(t)
    PROVE  [Promise!Next]_<<Statuses, inputRevision, Answers, effects>>
  <1>a. /\ TypeOK /\ TypeOK' /\ ToolInv /\ ModelInv /\ ModelsInOrder /\ LedgerInv /\ Stage(t) /\ RunnerTypeOK
        /\ turn \in [Turns -> TurnStatus] /\ inputRevision \in [Turns -> Nat]
        /\ turn' \in [Turns -> TurnStatus] /\ inputRevision' \in [Turns -> Nat]
        /\ model \in [Models -> ModelRow]
    BY DEF RunnerInv, LedgerInv, TypeOK, TurnTypeOK, ModelTypeOK
  <1>b. effects' = effects /\ (TurnCommand(t) \/ LastWords(t))
    BY TurnStepInvariant
  <1>c. OnlyOf(t) /\ Says(t) /\ WordInv(t)
    BY <1>a, <1>b, CommandsAreLocal, CommandSays DEF AllWords, WordInv
  <1>d. \A u \in Turns \ {t} : turn'[u] = turn[u] /\ inputRevision'[u] = inputRevision[u]
    BY <1>a, <1>c, OthersSee
  <1> DEFINE Same == \A u \in Turns : Revisions(u)' = Revisions(u)
  <1>e. Same => Answers' = Answers
    BY SameCovered DEF Answers
  <1>f. turn'[t] = turn[t] \/ (turn[t] \in Open /\ turn'[t] \in Open) => Statuses' = Statuses
    <2> SUFFICES ASSUME turn'[t] = turn[t] \/ (turn[t] \in Open /\ turn'[t] \in Open)
                 PROVE  \A u \in Turns : ConversationStatus(turn'[u]) = ConversationStatus(turn[u])
      BY DEF Statuses
    <2> QED BY <1>d, StatusOf
  <1>g. ASSUME NEW s, ConversationStatus(turn'[t]) = s PROVE Statuses' = [Statuses EXCEPT ![t] = s]
    <2>1. \A u \in Turns \ {t} : ConversationStatus(turn'[u]) = ConversationStatus(turn[u])
      BY <1>d
    <2> QED BY <1>g, <2>1 DEF Statuses
  <1>h. \A u \in Turns : Statuses[u] = ConversationStatus(turn[u]) /\ Answers[u] = Covered(u)
    BY DEF Statuses, Answers
  <1> HIDE DEF Same
  <1>1. ASSUME NEW m \in ModelsOf(t), NEW g, NEW calls, CompleteModel(m, g, calls),
               Revisions(t)' = Revisions(t) \cup {model[m].revision},
               \A u \in Turns \ {t} : Revisions(u)' = Revisions(u)
        PROVE  [Promise!Next]_<<Statuses, inputRevision, Answers, effects>>
    <2>1. /\ turn' = turn /\ inputRevision' = inputRevision
          /\ model[m].revision \in Nat /\ model[m].revision <= inputRevision[t]
          /\ m \in ModelsIn(t, {"dispatched"})
      BY <1>1, <1>a, <1>c
      DEF CompleteModel, turnVars, slotVars, Current, ModelsIn, ModelsOf, ModelRow, WordInv
    <2>2. turn[t] \in Open
      BY <1>c, <2>1 DEF WordInv
    <2>3. PICK n \in Nat : n = model[m].revision
      BY <2>1
    <2>4. /\ Covered(t)' = IF n <= Covered(t) THEN Covered(t) ELSE n
          /\ Covered(t) \in Nat
          /\ \A u \in Turns \ {t} : Covered(u)' = Covered(u)
      BY <1>1, <1>a, <1>c, <2>3, NewCovered, CoveredIs, SameCovered DEF AllWords
    <2>5. Statuses' = Statuses
      BY <1>f, <2>1
    <2>6. CASE n <= Covered(t)
      <3>1. Answers' = Answers
        BY <2>4, <2>6 DEF Answers
      <3> QED BY <1>b, <2>1, <2>5, <3>1
    <2>7. CASE ~(n <= Covered(t))
      <3>1. Answers' = [Answers EXCEPT ![t] = n]
        BY <2>4, <2>7 DEF Answers
      <3>2. n \in (Answers[t] + 1)..inputRevision[t]
        BY <1>a, <1>h, <2>1, <2>3, <2>4, <2>7
      <3>3. Statuses[t] = "open"
        BY <1>h, <2>2, StatusOf
      <3>4. Promise!Answer(t)
        BY <1>b, <2>1, <2>5, <3>1, <3>2, <3>3 DEF Promise!Answer, Statuses, Answers
      <3> QED BY <3>4 DEF Promise!Next
    <2> QED BY <2>6, <2>7
  <1>2. CASE Same
    <2>1. Answers' = Answers
      BY <1>2, <1>e
    <2>2. CASE StartTurn(t) \/ StartChild(t)
      <3>1. turn[t] = "absent" /\ turn'[t] = "running" /\ inputRevision' = [inputRevision EXCEPT ![t] = 1]
        BY <2>2, <1>a DEF StartTurn, StartChild, SetTurn
      <3>2. Parent[t] # NoTurn => Parent[t] \in Turns /\ turn[Parent[t]] = "running"
        BY <2>2, TurnConstants DEF StartTurn, StartChild, Running
      <3>3. Statuses[t] = "new" /\ (Parent[t] # NoTurn => Statuses[Parent[t]] = "open")
        BY <1>h, <3>1, <3>2, StatusOf DEF Open
      <3>4. Statuses' = [Statuses EXCEPT ![t] = "open"]
        BY <1>g, <3>1, StatusOf DEF Open
      <3>5. Promise!Begin(t)
        BY <1>b, <2>1, <3>1, <3>3, <3>4 DEF Promise!Begin, Statuses, Answers
      <3> QED BY <3>5 DEF Promise!Next
    <2>3. CASE Hears(t)
      <3>1. Statuses' = Statuses /\ Statuses[t] = "open"
        BY <1>f, <1>h, <2>3, StatusOf DEF Hears
      <3>2. Promise!Hear(t)
        BY <1>b, <2>1, <2>3, <3>1 DEF Hears, Promise!Hear, Statuses, Answers
      <3> QED BY <3>2 DEF Promise!Next
    <2>4. CASE Stays(t)
      BY <1>b, <1>f, <2>1, <2>4 DEF Stays
    <2>5. CASE Halts(t)
      <3>1. Statuses' = [Statuses EXCEPT ![t] = "stopped"] /\ Statuses[t] = "open"
        BY <1>g, <1>h, <2>5, StatusOf DEF Halts
      <3>2. Promise!Stop(t)
        BY <1>b, <2>1, <2>5, <3>1 DEF Halts, Promise!Stop, Statuses, Answers
      <3> QED BY <3>2 DEF Promise!Next
    <2>6. ASSUME NEW revision, CompleteTurn(t, revision)
          PROVE  [Promise!Next]_<<Statuses, inputRevision, Answers, effects>>
      <3>1. /\ turn[t] = "running" /\ turn'[t] = "completed"
            /\ inputRevision' = inputRevision /\ ActiveChildren(t) = {}
        BY <2>6, <1>a DEF CompleteTurn, Ended, SetTurn, Running
      <3>2. phase[t] = "finish" /\ seen[t] = inputRevision[t]
        BY <3>1, <1>a, EndingStep DEF Open, Terminal
      <3>3. inputRevision[t] <= Covered(t) /\ Covered(t) <= inputRevision[t] /\ Covered(t) \in Nat
        BY <1>a, <1>c, <3>2, CoveredIs DEF WordInv
      <3>4. Answers[t] = inputRevision[t]
        BY <1>a, <1>h, <3>3
      <3>5. \A c \in Turns : Parent[c] = t => Statuses[c] # "open"
        <4> SUFFICES ASSUME NEW c \in Turns, Parent[c] = t PROVE turn[c] \notin Open
          BY <1>a, <1>h, StatusOf
        <4>1. allocation[c] # "active"
          BY <3>1 DEF ActiveChildren
        <4>2. Parent[c] # NoTurn
          BY TurnConstants
        <4> QED BY <4>1, <4>2 DEF AllWords, WordInv
      <3>6. Statuses' = [Statuses EXCEPT ![t] = "completed"] /\ Statuses[t] = "open"
        BY <1>g, <1>h, <3>1, StatusOf DEF Open
      <3>7. Promise!Complete(t)
        BY <1>b, <2>1, <3>1, <3>4, <3>5, <3>6 DEF Promise!Complete, Statuses, Answers
      <3> QED BY <3>7 DEF Promise!Next
    <2> QED BY <1>c, <2>2, <2>3, <2>4, <2>5, <2>6 DEF Says
  <1>3. \/ SameAnswers /\ \A u \in Turns : Revisions(u)' = Revisions(u)
        \/ \E m \in ModelsOf(t), g \in Generations, calls \in SUBSET Ops :
               /\ CompleteModel(m, g, calls)
               /\ Revisions(t)' = Revisions(t) \cup {model[m].revision}
               /\ \A u \in Turns \ {t} : Revisions(u)' = Revisions(u)
    BY <1>a, <1>b, AnswersGrow
  <1> QED BY <1>1, <1>2, <1>3 DEF Same

(* The effect of a call is the one act of an open Turn for a response.      *)
LEMMA CallPromise ==
    ASSUME RunnerInv, EffectInv, MattersInv, AllWords, NEW o \in Ops, CallStep(o)
    PROVE  [Promise!Next]_<<Statuses, inputRevision, Answers, effects>>
  <1> DEFINE t == TurnOf[o]
  <1>a. /\ TypeOK /\ t \in Turns /\ TurnInv(t) /\ WordInv(t) /\ turn \in [Turns -> TurnStatus]
        /\ effects \in [Ops -> Nat] /\ ClaimedStaysStarted /\ callRevision \in [Ops -> Nat] /\ o \in OpsOf(t)
    BY ToolConstants
    DEF RunnerInv, LedgerInv, ToolInv, TypeOK, TurnTypeOK, ToolTypeOK, RunnerTypeOK, MattersInv, AllWords, OpsOf
  <1>b. model' = model /\ (CallCommand(o) \/ RequestCancellation(t) \/ UNCHANGED vars)
    BY CallStepInvariant
  <1>c. Stays(t) /\ OnlyOf(t)
    <2>1. RequestCancellation(t) \/ UNCHANGED vars => Stays(t) /\ OnlyOf(t)
      BY DEF RequestCancellation, Stays, OnlyOf, slotVars, vars, turnVars, toolVars, untouchedByTurns
    <2> QED BY <1>a, <1>b, <2>1, CallSays, CallsAreLocal DEF TurnInv
  <1> HIDE DEF t
  <1>d. \A u \in Turns : Revisions(u)' = Revisions(u)
    BY <1>b DEF Revisions, ModelsIn, ModelsOf
  <1>1. Answers' = Answers
    BY <1>d, SameCovered DEF Answers
  <1>2. inputRevision' = inputRevision
    BY <1>c DEF Stays
  <1>3. \A u \in Turns : ConversationStatus(turn'[u]) = ConversationStatus(turn[u])
    BY <1>a, <1>c, StatusOf DEF Stays, OnlyOf
  <1>4. Statuses' = Statuses
    BY <1>3 DEF Statuses
  <1>5. CASE RunEffect(o)
    <2>1. worker[o] = "claimed" /\ effects' = [effects EXCEPT ![o] = @ + 1]
      BY <1>5 DEF RunEffect
    <2>2. effects[o] = 0
      <3>1. effects[o] < op[o].claims /\ op[o].claims <= 1 /\ op[o].claims \in Nat
        BY <1>a, <2>1 DEF EffectInv, ClaimedBeforeEffect, ClaimedStaysStarted, TypeOK, ToolTypeOK, OpRow
      <3> QED BY <1>a, <3>1
    <2>3. op[o].status = "running"
      BY <1>a, <2>1 DEF TurnInv, Workers, Held
    <2>4. turn[t] \in Open
      BY <1>a, <2>3 DEF TurnInv, Matters, Live, InStatus
    <2>5. callRevision[o] > 0 /\ callRevision[o] \in Revisions(t)
      BY <1>a, <2>3 DEF WordInv
    <2>6. Covered(t) > 0
      BY <1>a, <2>5, CoveredIs
    <2>7. Statuses[t] = "open" /\ Answers[t] > 0
      BY <1>a, <2>4, <2>6, StatusOf DEF Statuses, Answers
    <2>8. Promise!Act(o)
      BY <1>1, <1>2, <1>4, <2>1, <2>2, <2>7 DEF Promise!Act, Statuses, Answers, t
    <2> QED BY <2>8 DEF Promise!Next
  <1>6. CASE ~RunEffect(o)
    <2>1. effects' = effects
      BY <1>6
      DEF CallStep, PrepareAllowed, PrepareDenied, AskingTooLate, Discard, Claim, ClaimRefused, RejectRevoked,
          RefuseLive, CommitKnown, RecordRejection, ResultRefused, ReportDenied, PrepareAsking,
          CommitUncertain, AskAnotherScope, WorkerStep
    <2> QED BY <1>1, <1>2, <1>4, <2>1
  <1> QED BY <1>5, <1>6

(* The initial states are those of Conversation.                            *)
LEMMA PromiseInit == RunnerInit => Promise!Init
  <1> SUFFICES ASSUME RunnerInit PROVE Promise!Init
    OBVIOUS
  <1>1. \A m \in Models : model[m].turn = NoTurn
    BY DEF RunnerInit, Init, ModelInit, NoModelRow
  <1>2. ASSUME NEW t \in Turns PROVE Covered(t) = 0
    <2>1. Revisions(t) = {}
      BY <1>1, TurnConstants DEF ModelsOf, ModelsIn, Revisions
    <2>2. Covered(t) = CHOOSE r \in Revisions(t) \cup {0} : \A q \in Revisions(t) : q <= r
      BY DEF Covered, Revisions
    <2> QED BY <2>1, <2>2
  <1>3. /\ \A t \in Turns : turn[t] = "absent"
        /\ inputRevision = [t \in Turns |-> 0] /\ effects = [o \in Ops |-> 0]
    BY DEF RunnerInit, Init, TurnInit
  <1>4. Statuses = [t \in Turns |-> "new"] /\ Answers = [t \in Turns |-> 0]
    BY <1>2, <1>3, StatusOf DEF Statuses, Answers
  <1> QED BY <1>3, <1>4 DEF Promise!Init, Statuses, Answers

(* Every step is a step of Conversation, or none that a user sees.          *)
LEMMA PromiseStep ==
    ASSUME RunnerInv, RunnerInv', EffectInv, MattersInv, AllFlight, AllWords, AllWords', [RunnerNext]_runnerVars
    PROVE  [Promise!Next]_<<Statuses, inputRevision, Answers, effects>>
  <1>1. CASE UNCHANGED runnerVars
    <2>1. UNCHANGED <<turn, inputRevision, model, effects>>
      BY <1>1 DEF runnerVars, vars, turnVars, slotVars, modelVars
    <2>2. \A t \in Turns : Revisions(t)' = Revisions(t)
      BY <2>1 DEF Revisions, ModelsIn, ModelsOf
    <2>3. Answers' = Answers /\ Statuses' = Statuses
      BY <2>1, <2>2, SameCovered DEF Answers, Statuses
    <2> QED BY <2>1, <2>3
  <1> QED BY <1>1, TurnPromise, CallPromise DEF RunnerNext

(* The driver implements Conversation: a Turn that ended never opens again  *)
(* or acts again, every action is taken at most once and for a committed    *)
(* response, and a Turn completes only with a response to everything it     *)
(* heard and when its children have ended, whatever crashes and races.      *)
THEOREM DriverKeepsPromise == RunnerSpec => KeepsPromise
  <1>1. RunnerInv /\ RunnerInv' /\ EffectInv /\ MattersInv /\ AllFlight /\ AllWords /\ AllWords'
            /\ [RunnerNext]_runnerVars
        => [Promise!Next]_<<Statuses, inputRevision, Answers, effects>>
    BY PromiseStep
  <1>2. RunnerInit => Promise!Init
    BY PromiseInit
  <1> QED
    BY <1>1, <1>2, DriverKeepsLedger, EffectsFollowClaims, MattersAreKept, FlightsAreKnown, WordsAreKept, PTL
    DEF RunnerSpec, KeepsPromise, Promise!Spec, Statuses, Answers

=============================================================================
