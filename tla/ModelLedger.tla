---------------------------- MODULE ModelLedger ----------------------------
(***************************************************************************)
(* The durable model operations of harness/model_ops.py and                *)
(* harness/model_retry_ops.py, with the budget reservation each attempt    *)
(* holds (harness/budget_ops.py).  One action per command; TurnRunner says *)
(* when each is called.                                                    *)
(*                                                                         *)
(* An operation is one model request; its attempts are its generations.    *)
(* Requests for an agent step only: context summaries belong to the        *)
(* compaction jobs, which Compaction is about.  Retry clocks are left      *)
(* out: a scheduled retry may become due, or pass its deadline, any time.  *)
(***************************************************************************)
EXTENDS ToolLedger

CONSTANTS
    Models,        \* identities of model operations, allocated in order
    MaxGeneration, \* bound: attempts of one operation
    MaxRetries     \* RetryPolicy.max_auto_retries

ASSUME ModelConstants ==
    /\ Models \subseteq Nat \ {0}
    /\ MaxGeneration \in Nat \ {0}
    /\ MaxRetries \in Nat

VARIABLES
    model,       \* the model_operations table
    reservation  \* budget_reservations.status of each attempt

modelVars == <<model, reservation>>

Generations == 1..MaxGeneration
InFlight == {"dispatched", "unknown"}
ModelStatus == {"absent", "prepared", "retry_wait", "completed", "failed", "cancelled"} \cup InFlight

ModelRow ==
    [status : ModelStatus,
     turn : Turns \cup {NoTurn},
     revision : Nat,         \* request_ref.input_revision
     generation : Nat,
     retries : Nat,          \* model_retry_scheduled facts of the operation
     scheduledAt : Nat,      \* generation that scheduled the newest retry, 0: none
     replaceable : BOOLEAN,  \* failed for new input or a cancelled retry: ask anew
     calls : SUBSET Ops,     \* tool calls of the committed response
     handled : BOOLEAN]      \* the response was consumed

NoModelRow ==
    [status |-> "absent", turn |-> NoTurn, revision |-> 0, generation |-> 0, retries |-> 0,
     scheduledAt |-> 0, replaceable |-> FALSE, calls |-> {}, handled |-> FALSE]

ReservationStatus == {"none", "reserved", "dispatched", "settled", "released", "unknown"}

ModelTypeOK ==
    /\ model \in [Models -> ModelRow]
    /\ reservation \in [Models -> [Generations -> ReservationStatus]]

ModelInit ==
    /\ model = [m \in Models |-> NoModelRow]
    /\ reservation = [m \in Models |-> [g \in Generations |-> "none"]]

ModelsOf(t) == {m \in Models : model[m].turn = t}
ModelsIn(t, S) == {m \in ModelsOf(t) : model[m].status \in S}
IsLatest(t, m) == m \in ModelsOf(t) /\ \A n \in ModelsOf(t) : n <= m

(* read_schedule: the schedule that still governs the active attempt.       *)
Scheduled(m) ==
    /\ model[m].scheduledAt > 0
    /\ \/ model[m].status = "retry_wait" /\ model[m].generation = model[m].scheduledAt
       \/ model[m].status = "prepared" /\ model[m].generation = model[m].scheduledAt + 1

Attempt(m) == reservation[m][model[m].generation]

(* Broken: the report of an older attempt is taken for the newest one's.    *)
AnyDispatched(m, g) == model[m].status = "dispatched"

(* The attempt a worker reports on is the one the operation still awaits.   *)
Current(m, g) == model[m].status = "dispatched" /\ model[m].generation = g

(* _append_budget_outcome of attempt g.                                     *)
BudgetOutcome(m, g, outcome) ==
    /\ reservation[m][g] \in IF outcome = "unknown" THEN {"dispatched", "unknown"}
                             ELSE {"reserved", "dispatched", "unknown"}
    /\ reservation' = [reservation EXCEPT ![m][g] = outcome]

SetModel(m, s) == model' = [model EXCEPT ![m].status = s]

(* turn_interrupted, appended only to a running Turn.                       *)
InterruptedIfRunning(t) ==
    turn' = IF Running(t) THEN [turn EXCEPT ![t] = "interrupted"] ELSE turn

untouchedByModels == <<slotVars, cancelPending, interaction, childWait>>

-----------------------------------------------------------------------------
(* The first attempt *)

(* The request was built from an earlier read of the user's input.         *)
PrepareModel(t, m, revision) ==
    /\ Running(t)
    /\ model[m].status = "absent"
    /\ \A n \in Models : n < m => model[n].status # "absent"
    /\ revision \in 1..inputRevision[t]
    /\ model' = [model EXCEPT ![m] = [NoModelRow EXCEPT
           !.status = "prepared", !.turn = t, !.revision = revision, !.generation = 1]]
    /\ UNCHANGED <<turnVars, toolVars, reservation>>

SupersedePrepared(m) ==
    /\ model[m].status = "prepared"
    /\ model' = [model EXCEPT ![m].status = "failed", ![m].replaceable = TRUE]
    /\ UNCHANGED <<turnVars, toolVars, reservation>>

(* validate_scheduled_dispatch, for the retry attempt only.                *)
ScheduleAllows(m) ==
    Scheduled(m) =>
        /\ ~AdmissionRevoked(model[m].turn)
        /\ Running(model[m].turn)
        /\ model[m].revision = inputRevision[model[m].turn]
        /\ model[m].status = "prepared" => Attempt(m) = "reserved"

(* dispatch_model_attempt reserves when the attempt has no reservation yet. *)
DispatchModel(m) ==
    /\ model[m].status = "prepared"
    /\ ScheduleAllows(m)
    /\ ~AdmissionRevoked(model[m].turn)
    /\ model[m].revision = inputRevision[model[m].turn]
    /\ Attempt(m) \in {"none", "reserved"}
    /\ SetModel(m, "dispatched")
    /\ reservation' = [reservation EXCEPT ![m][model[m].generation] = "dispatched"]
    /\ UNCHANGED <<turnVars, toolVars>>

-----------------------------------------------------------------------------
(* Outcomes of a dispatched attempt *)

MarkModelUnknown(m, g) ==
    /\ Current(m, g)
    /\ SetModel(m, "unknown")
    /\ BudgetOutcome(m, g, "unknown")
    /\ InterruptedIfRunning(model[m].turn)
    /\ UNCHANGED <<untouchedByModels, toolVars>>

(* expire_model_attempt_dispatch: the same facts once the lease has passed. *)
ExpireDispatch(m) == MarkModelUnknown(m, model[m].generation)

RejectModel(m, g, outcome) ==
    /\ outcome \in {"released", "unknown", "settled"}
    /\ Current(m, g)
    /\ SetModel(m, "failed")
    /\ BudgetOutcome(m, g, outcome)
    /\ UNCHANGED <<turnVars, toolVars>>

(* The provider acknowledged a cancellation: the Turn ends with the        *)
(* attempt, whatever its status and its other work.                        *)
CancelModelAttempt(m, g) ==
    /\ Current(m, g)
    /\ SetModel(m, "cancelled")
    /\ BudgetOutcome(m, g, "unknown")
    /\ Ended(model[m].turn, "cancelled")
    /\ UNCHANGED <<inputRevision, allocation, cancelPending, interaction, childWait, toolVars>>

(* The response is committed with the calls it makes.                      *)
CompleteModel(m, g, calls) ==
    /\ Current(m, g)
    /\ \A o \in calls : TurnOf[o] = model[m].turn /\ callRevision[o] = 0
    /\ model' = [model EXCEPT ![m].status = "completed", ![m].calls = calls]
    /\ BudgetOutcome(m, g, "settled")
    /\ callRevision' = [o \in Ops |-> IF o \in calls THEN model[m].revision ELSE callRevision[o]]
    /\ UNCHANGED <<turnVars, op, reported>>

(* response_handled: the committed response needs no further step.          *)
ResponseHandled(m) ==
    /\ model[m].status = "completed"
    /\ ~model[m].handled
    /\ model' = [model EXCEPT ![m].handled = TRUE]
    /\ UNCHANGED <<turnVars, toolVars, reservation>>

-----------------------------------------------------------------------------
(* Failures, scheduled and manual retries *)

(* record_failure, by what the provider is known to have done.             *)
FailureUnknown(m, g) ==
    /\ Current(m, g)
    /\ SetModel(m, "unknown")
    /\ BudgetOutcome(m, g, "unknown")
    /\ SetTurn(model[m].turn, "interrupted")
    /\ UNCHANGED <<untouchedByModels, toolVars>>

FailureScheduled(m, g) ==
    /\ Current(m, g)
    /\ model[m].retries < MaxRetries
    /\ model' = [model EXCEPT ![m].status = "retry_wait", ![m].retries = @ + 1,
                              ![m].scheduledAt = g]
    /\ \E outcome \in {"settled", "unknown"} : BudgetOutcome(m, g, outcome)
    /\ UNCHANGED <<turnVars, toolVars>>

(* No retry is left or allowed: the command fails the Turn too.            *)
FailureFinal(m, g) ==
    LET t == model[m].turn IN
    /\ Current(m, g)
    /\ SetModel(m, "failed")
    /\ \E outcome \in {"settled", "unknown"} : BudgetOutcome(m, g, outcome)
    /\ Running(t) /\ OwnsSlot(t)
    /\ Ended(t, "failed")
    /\ UNCHANGED <<inputRevision, allocation, cancelPending, interaction, childWait, toolVars>>

(* prepare_scheduled_retry: due, still wanted, with a fresh reservation.   *)
PrepareScheduledRetry(m) ==
    /\ model[m].status = "retry_wait"
    /\ Scheduled(m)
    /\ ScheduleAllows(m)
    /\ model[m].generation < MaxGeneration
    /\ model' = [model EXCEPT ![m].status = "prepared", ![m].generation = @ + 1]
    /\ reservation' = [reservation EXCEPT ![m][model[m].generation + 1] = "reserved"]
    /\ UNCHANGED <<turnVars, toolVars>>

(* A prepared retry gives its reservation back.                            *)
ReleasedIfReserved(m) ==
    IF model[m].status = "prepared" THEN BudgetOutcome(m, model[m].generation, "released")
                                    ELSE UNCHANGED reservation

(* No caller asks it to cancel the Turn as well.                           *)
CancelScheduledRetry(m) ==
    /\ Scheduled(m)
    /\ ReleasedIfReserved(m)
    /\ model' = [model EXCEPT ![m].status = "failed", ![m].replaceable = TRUE]
    /\ UNCHANGED <<turnVars, toolVars>>

(* The deadline passed, the clock went back or the budget refused.         *)
FailUnstartedRetry(m) ==
    LET t == model[m].turn IN
    /\ Scheduled(m)
    /\ ReleasedIfReserved(m)
    /\ SetModel(m, "failed")
    /\ Running(t) /\ OwnsSlot(t)
    /\ Ended(t, "failed")
    /\ UNCHANGED <<inputRevision, allocation, cancelPending, interaction, childWait, toolVars>>

(* prepare_model_retry on the user's word: the outcome stays unknown in     *)
(* the old attempt's budget and the Turn resumes.                           *)
RetryModel(m) ==
    LET t == model[m].turn IN
    /\ model[m].status = "unknown"
    /\ model[m].generation < MaxGeneration
    /\ turn[t] \in {"paused", "interrupted"}
    /\ model' = [model EXCEPT ![m].status = "prepared", ![m].generation = @ + 1]
    /\ Resumed(t)
    /\ UNCHANGED <<slotVars, interaction, childWait, toolVars, reservation>>
=============================================================================
