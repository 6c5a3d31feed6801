----------------------------- MODULE Compaction -----------------------------
(***************************************************************************)
(* Compaction of one Turn's context: the durable jobs of                   *)
(* harness/compaction_jobs.py, the model requests they are carried out by  *)
(* and the driver (harness/context_engine.py, harness/execution.py) that   *)
(* works through them.  A job replaces old history by summaries, one       *)
(* request per node, and then continues the Turn with the replacement.     *)
(*                                                                         *)
(* A job is admitted with an allowance: holds for one call per node and    *)
(* for one continuation.  Each attempt of a request turns a part of the    *)
(* hold into its own reservation.  Amounts are counted in calls; tokens,   *)
(* costs and the text of summaries are left out, and so are legacy plans   *)
(* without a job, cheap elision of tool results and overflow recovery.     *)
(***************************************************************************)
EXTENDS Naturals, Sequences, FiniteSets, FiniteSetsExt

CONSTANTS
    Compactions,  \* identities of compaction jobs: positive numbers, allocated in order
    Nodes,        \* nodes of a summary tree: positive numbers, in the order they are made
    MaxRequests,  \* bound: model requests of the Turn
    MaxRepeats,   \* bound: attempts of requests after their first, all together
    MaxMessages,  \* bound: revisions of the user's input
    Losses        \* whether the driver's process may end at any moment

ASSUME CompactionConstants ==
    /\ Compactions \subseteq Nat \ {0}
    /\ Nodes \subseteq Nat \ {0} /\ IsFiniteSet(Nodes)
    /\ MaxRequests \in Nat /\ MaxRepeats \in Nat /\ MaxMessages \in Nat /\ Losses \in BOOLEAN

VARIABLES
    owner,      \* the Turn: status, pending cancellation, input revision, source of a summary
    compaction, \* newest compaction_job item of each job
    hold,       \* its unused allowance, in calls
    request,    \* the Turn's model operations, oldest first
    driver      \* the process that drives the Turn: where it stands and what it read

compactionVars == <<owner, compaction, hold, request, driver>>

Live == {"planned", "running", "candidate_ready", "waiting_unknown"}
JobStatus == Live \cup {"none", "installed", "cancelled", "failed", "superseded"}
Open == {"running", "interrupted"}
Funds == {"none", "reserved", "dispatched", "settled", "released", "unknown"}
Places == {"off", "plan", "cancel", "wait", "retry", "saved", "step", "find", "admit", "node",
           "send", "answer", "validate", "record", "candidate", "install", "finish", "consume"}

NoJob == [status |-> "none", source |-> 0, revision |-> 0, nodes |-> {}, replaced |-> FALSE,
          admitted |-> [summary |-> 0, continuation |-> 0]]
Empty == [summary |-> 0, continuation |-> 0]
AtRest(place) == [at |-> place, job |-> 0, source |-> 0, seen |-> 0, permit |-> FALSE, verdict |-> "none"]

OwnerRow ==
    [status : Open \cup {"completed", "failed", "cancelled"}, cancel : BOOLEAN, revision : Nat, source : Nat]
JobRow ==
    [status : JobStatus, source : Nat, revision : Nat, nodes : SUBSET Nodes, replaced : BOOLEAN,
     admitted : [summary : Nat, continuation : Nat]]

(* A request knows its purpose, the job that pays for it (0: none), the     *)
(* revision and source it was made for, and a reservation per attempt.      *)
RequestRow ==
    [purpose : Nodes \cup {0}, job : Compactions \cup {0}, revision : Nat, source : Nat,
     status : {"prepared", "dispatched", "retry_wait", "unknown", "completed", "consumed", "failed"},
     scheduled : BOOLEAN, usable : BOOLEAN, funds : Seq(Funds) \ {<<>>}]

DriverRow ==
    [at : Places, job : Compactions \cup {0}, source : Nat, seen : Nat, permit : BOOLEAN,
     verdict : {"none", "failed", "superseded", "waiting_unknown", "cancelled"}]

CompactionTypeOK ==
    /\ owner \in OwnerRow
    /\ compaction \in [Compactions -> JobRow]
    /\ hold \in [Compactions -> [summary : Nat, continuation : Nat]]
    /\ request \in Seq(RequestRow)
    /\ driver \in DriverRow

CompactionInit ==
    /\ owner = [status |-> "running", cancel |-> FALSE, revision |-> 1, source |-> 1]
    /\ compaction = [j \in Compactions |-> NoJob]
    /\ hold = [j \in Compactions |-> Empty]
    /\ request = <<>>
    /\ driver = AtRest("off")

-----------------------------------------------------------------------------
(* Reading the ledger *)

AgentStep == 0   \* purpose of a request that is not a summary of a node

Last == Len(request)
In(S) == {i \in DOMAIN request : request[i].status \in S}
IsSummary(i) == request[i].purpose \in Nodes
Bucket(i) == IF IsSummary(i) THEN "summary" ELSE "continuation"
Active(i) == request[i].funds[Len(request[i].funds)]
Repeats == MapThenSumSet(LAMBDA i : Len(request[i].funds) - 1, DOMAIN request)

(* read_schedule: an automatic retry governs the attempt to come.           *)
Scheduled(i) == request[i].scheduled

(* What a saved summary was made from is no longer what a summary would be  *)
(* made from.                                                               *)
StaleInput(i) == request[i].revision # owner.revision
StaleSummary(i) == IsSummary(i) /\ (StaleInput(i) \/ request[i].source # owner.source)

(* find_job: the newest live job for this source and the current input.     *)
Reusable ==
    {j \in Compactions : /\ compaction[j].status \in Live
                         /\ compaction[j].source = driver.source /\ compaction[j].revision = owner.revision}

-----------------------------------------------------------------------------
(* What the commands write *)

Go(place) == driver' = [driver EXCEPT !.at = place]
Leave(place) == driver' = AtRest(place)

Requests(i, status, funds) ==
    [request EXCEPT ![i].status = status, ![i].scheduled = FALSE,
                    ![i].funds = [@ EXCEPT ![Len(@)] = funds]]

Close(i, funds) == request' = Requests(i, "failed", funds)

(* budget_released for a reservation that was made and not used.            *)
Unspent(i) == IF Active(i) = "reserved" THEN "released" ELSE Active(i)

(* finish_job, for a set of jobs.                                           *)
Finished(S, status) ==
    /\ compaction' = [j \in Compactions |-> IF j \in S THEN [compaction[j] EXCEPT !.status = status] ELSE compaction[j]]
    /\ hold' = IF status = "waiting_unknown" THEN hold
               ELSE [j \in Compactions |-> IF j \in S THEN Empty ELSE hold[j]]

LiveJobs == {j \in Compactions : compaction[j].status \in Live}

(* fail_turn and cancel_turn finish the live jobs; complete_turn does not.  *)
EndTurn(status) ==
    /\ owner' = [owner EXCEPT !.status = status]
    /\ Finished(LiveJobs, status)

(* transfer_for_attempt: one call of the bucket becomes the attempt's own.  *)
CanTransfer(i) == LET j == request[i].job IN compaction[j].status \in Live /\ hold[j][Bucket(i)] > 0
Spending(i) == IF ~IsSummary(i) /\ compaction[request[i].job].replaced THEN "installed" ELSE "running"

NewRequest(purpose, j, revision, src, funds) ==
    [purpose |-> purpose, job |-> j, revision |-> revision, source |-> src, status |-> "prepared",
     scheduled |-> FALSE, usable |-> TRUE, funds |-> <<funds>>]

(* abandon_saved_summary: the request is given up with its job.  A prepared *)
(* attempt gives its reservation back, an uncertain one keeps it, and the   *)
(* interrupted Turn goes on.                                                *)
Abandon(i) ==
    /\ Close(i, Unspent(i))
    /\ Finished({request[i].job}, "superseded")
    /\ owner' = IF owner.status = "interrupted" THEN [owner EXCEPT !.status = "running", !.cancel = FALSE]
                ELSE owner

-----------------------------------------------------------------------------
(* The user, and the end of the driver's process *)

Message ==
    /\ owner.status \in Open /\ ~owner.cancel /\ owner.revision < MaxMessages
    /\ owner' = [owner EXCEPT !.revision = @ + 1, !.source = @ + 1]
    /\ UNCHANGED <<compaction, hold, request, driver>>

RequestCancellation ==
    /\ owner.status \in Open /\ ~owner.cancel
    /\ owner' = [owner EXCEPT !.cancel = TRUE]
    /\ UNCHANGED <<compaction, hold, request, driver>>

DriverCrash ==
    /\ Losses /\ driver.at # "off"
    /\ Leave("off")
    /\ UNCHANGED <<owner, compaction, hold, request>>

(* recover_owner_loss: what was sent and not answered is unknown.           *)
Recovered ==
    [i \in DOMAIN request |-> IF request[i].status = "dispatched"
                              THEN Requests(i, "unknown", "unknown")[i] ELSE request[i]]
RecoveredOwner == IF In({"dispatched"}) = {} THEN owner ELSE [owner EXCEPT !.status = "interrupted"]

(* continue and retry take the Turn up again; only retry may repeat a call. *)
Resume(permit) ==
    /\ driver.at = "off" /\ owner.status \in Open
    /\ request' = Recovered /\ owner' = RecoveredOwner
    /\ permit => In({"unknown", "dispatched"}) # {}
    /\ driver' = [AtRest("plan") EXCEPT !.permit = permit]
    /\ UNCHANGED <<compaction, hold>>

(* The abort of a Turn nobody drives: recovery, pause and cancel_turn.      *)
Abort ==
    /\ driver.at = "off" /\ owner.status \in Open
    /\ request' = Recovered
    /\ EndTurn("cancelled")
    /\ UNCHANGED driver

-----------------------------------------------------------------------------
(* The loop of drive: what the recovery plan makes of the ledger *)

Plan ==
    /\ driver.at = "plan"
    /\ UNCHANGED <<owner, compaction, hold, request>>
    /\ IF owner.status = "running" /\ owner.cancel THEN Go("cancel")
       ELSE IF owner.status = "running" /\ In({"retry_wait"}) # {} THEN Go("wait")
       ELSE IF Cardinality(In({"unknown"})) = 1 THEN IF driver.permit THEN Go("retry") ELSE Leave("off")
       ELSE IF owner.status # "running" THEN Leave("off")
       ELSE IF Last > 0 /\ request[Last].status = "completed" /\ ~IsSummary(Last) THEN Go("consume")
       ELSE IF Last > 0 /\ request[Last].status = "prepared" THEN Go("saved")
       ELSE \/ driver' = [driver EXCEPT !.at = "step", !.seen = owner.revision, !.permit = FALSE]
            \/ driver' = [driver EXCEPT !.at = "find", !.source = owner.source, !.permit = FALSE]

(* The commits of a cancellation, in one step: scheduled retries are        *)
(* withdrawn, the Turn is paused and cancelled.                             *)
CancelTurn ==
    /\ driver.at = "cancel"
    /\ EndTurn("cancelled")
    /\ request' = [i \in DOMAIN request |-> IF Scheduled(i) THEN Requests(i, "failed", Unspent(i))[i] ELSE request[i]]
    /\ Leave("off")

(* _consume_response: the answer completes the Turn, unless newer input     *)
(* came; or its calls are executed and change what there is to summarise.   *)
CompleteTurn ==
    /\ driver.at = "consume" /\ ~owner.cancel /\ ~StaleInput(Last)
    /\ owner' = [owner EXCEPT !.status = "completed"]
    /\ request' = [request EXCEPT ![Last].status = "consumed"]
    /\ Leave("off")
    /\ UNCHANGED <<compaction, hold>>

NextStep ==
    /\ driver.at = "consume"
    /\ IF owner.cancel THEN UNCHANGED <<owner, request>>
       ELSE /\ owner' = [owner EXCEPT !.source = @ + 1]
            /\ request' = [request EXCEPT ![Last].status = "consumed"]
    /\ Leave("plan")
    /\ UNCHANGED <<compaction, hold>>

(* A request for the context as it is.                                      *)
PrepareStep ==
    /\ driver.at = "step"
    /\ IF driver.seen # owner.revision THEN Leave("plan") /\ UNCHANGED request
       ELSE /\ Last < MaxRequests
            /\ request' = Append(request, NewRequest(AgentStep, 0, driver.seen, owner.source, "none"))
            /\ Leave("send")
    /\ UNCHANGED <<owner, compaction, hold>>

-----------------------------------------------------------------------------
(* _prepare_compacted_step: the job *)

(* find_job and the revision the job is admitted for.  A message between    *)
(* the two reads leads to the same look-up as one before both.              *)
FindJob ==
    /\ driver.at = "find"
    /\ driver' = [driver EXCEPT !.at = "admit", !.job = IF Reusable = {} THEN 0 ELSE Max(Reusable),
                               !.seen = owner.revision]
    /\ UNCHANGED <<owner, compaction, hold, request>>

(* Planning may show that no compaction fits: the Turn fails or goes on     *)
(* with the context as it is.                                               *)
NoPlan ==
    /\ driver.at = "admit" /\ driver.job = 0
    /\ driver' = [driver EXCEPT !.at = "finish", !.verdict = "failed"]
    /\ UNCHANGED <<owner, compaction, hold, request>>

Lookup(statuses) ==
    {j \in Compactions : /\ compaction[j].status \in statuses
                         /\ compaction[j].source = driver.source /\ compaction[j].revision = driver.seen}

(* Broken: a job that has begun to spend is not found again.                *)
ExistingUntouched == Lookup({"planned"})
Existing == Lookup(Live \cup {"installed"})

(* create_job: the job of this source and revision, or a new one with its   *)
(* whole allowance.                                                         *)
CreateJob ==
    /\ driver.at = "admit"
    /\ LET free == {j \in Compactions : compaction[j].status = "none"}
       IN IF Existing # {}
          THEN /\ driver' = [driver EXCEPT !.at = "node", !.job = Min(Existing), !.seen = 0]
               /\ UNCHANGED <<compaction, hold>>
          ELSE /\ free # {}
               /\ compaction' = [compaction EXCEPT ![Min(free)] = [NoJob EXCEPT
                      !.status = "planned", !.source = driver.source, !.revision = driver.seen]]
               /\ hold' = [hold EXCEPT ![Min(free)] = [summary |-> Cardinality(Nodes), continuation |-> 1]]
               /\ driver' = [driver EXCEPT !.at = "node", !.job = Min(free), !.seen = 0]
    /\ UNCHANGED <<owner, request>>

Missing == Nodes \ compaction[driver.job].nodes
Saved == {i \in In({"completed"}) : request[i].purpose = Min(Missing) /\ request[i].source = driver.source}

(* The next node: recorded, answered before, or to be asked for.            *)
NextNode ==
    /\ driver.at = "node"
    /\ IF Missing = {} THEN Go("candidate") /\ UNCHANGED request
       ELSE IF Saved # {} THEN Go("validate") /\ UNCHANGED request
       ELSE /\ Last < MaxRequests
            /\ request' = Append(request,
                   NewRequest(Min(Missing), driver.job, owner.revision, driver.source, "none"))
            /\ Go("send")
    /\ UNCHANGED <<owner, compaction, hold>>

(* An unusable summary ends the job, now and whenever it is met again.      *)
Validate ==
    LET i == IF Saved = {} THEN Last ELSE Min(Saved) IN
    /\ driver.at = "validate"
    /\ IF request[i].usable THEN Go("record")
       ELSE driver' = [driver EXCEPT !.at = "finish", !.verdict = "failed"]
    /\ UNCHANGED <<owner, compaction, hold, request>>

RecordNode ==
    /\ driver.at = "record"
    /\ compaction' = [compaction EXCEPT ![driver.job].nodes = @ \cup {Min(Missing)}, ![driver.job].status = "running"]
    /\ Go("node")
    /\ UNCHANGED <<owner, hold, request>>

(* semantic_candidate: the source is compared, the replacement measured.    *)
Candidate ==
    /\ driver.at = "candidate"
    /\ IF owner.source # driver.source THEN driver' = [driver EXCEPT !.at = "finish", !.verdict = "superseded"]
       ELSE \/ driver' = [driver EXCEPT !.at = "install", !.seen = owner.revision]
            \/ driver' = [driver EXCEPT !.at = "finish", !.verdict = "failed"]
    /\ UNCHANGED <<owner, compaction, hold, request>>

(* Broken: the replacement is installed whatever has arrived since.         *)
StillCurrentUnread(j) == TRUE
StillCurrent(j) == compaction[j].revision = owner.revision /\ driver.source = owner.source

(* install_candidate: replacement, continuation, its reservation and the    *)
(* end of the job in one commit.                                            *)
InstallCandidate ==
    LET j == driver.job IN
    /\ driver.at = "install"
    /\ IF ~StillCurrent(j)
       THEN /\ driver' = [driver EXCEPT !.at = "finish", !.verdict = "superseded"]
            /\ UNCHANGED <<owner, compaction, hold, request>>
       ELSE /\ Last < MaxRequests
            /\ owner' = [owner EXCEPT !.source = @ + 1]
            /\ request' = Append(request, NewRequest(AgentStep, j, driver.seen, owner.source, "reserved"))
            /\ compaction' = [compaction EXCEPT ![j].status = "installed", ![j].replaced = TRUE]
            /\ hold' = [hold EXCEPT ![j] = Empty]
            /\ Leave("send")

(* The handler of _prepare_compacted_step, and what the loop does next.     *)
FinishJob ==
    /\ driver.at = "finish"
    /\ Finished({driver.job}, driver.verdict)
    /\ driver' = CASE driver.verdict = "superseded" -> AtRest("plan")
                   [] driver.verdict = "failed" -> [AtRest("step") EXCEPT !.seen = owner.revision]
                   [] OTHER -> AtRest("off")
    /\ UNCHANGED <<owner, request>>

(* A compaction that had to succeed failed.                                 *)
FailTurn ==
    /\ driver.at = "finish" /\ driver.verdict = "failed"
    /\ EndTurn("failed")
    /\ Leave("off")
    /\ UNCHANGED request

-----------------------------------------------------------------------------
(* Dispatch, outcomes and retries of a request *)

(* _execute_saved_request: an obsolete summary is discarded first.          *)
SavedRequest ==
    /\ driver.at = "saved"
    /\ IF StaleSummary(Last) THEN Abandon(Last) /\ Leave("plan")
       ELSE Leave("send") /\ UNCHANGED <<owner, compaction, hold, request>>

(* Only steps and scheduled retries look at the input again.                *)
Refused == StaleInput(Last) /\ (~IsSummary(Last) \/ Scheduled(Last))

(* supersede_prepared_model leaves a reservation as it is;                  *)
(* cancel_scheduled_retry releases it and leaves the job.                   *)
Supersede ==
    /\ driver.at = "send" /\ ~owner.cancel /\ Refused
    /\ Close(Last, IF Scheduled(Last) THEN Unspent(Last) ELSE Active(Last))
    /\ Leave("plan")
    /\ UNCHANGED <<owner, compaction, hold>>

(* dispatch_model_attempt.                                                  *)
Dispatch ==
    /\ driver.at = "send"
    /\ IF owner.cancel THEN Leave("plan") /\ UNCHANGED <<compaction, hold, request>>
       ELSE /\ ~Refused
            /\ IF request[Last].job = 0 \/ Active(Last) = "reserved" THEN UNCHANGED <<compaction, hold>>
               ELSE /\ CanTransfer(Last)
                    /\ hold' = [hold EXCEPT ![request[Last].job][Bucket(Last)] = @ - 1]
                    /\ compaction' = [compaction EXCEPT ![request[Last].job].status = Spending(Last)]
            /\ request' = Requests(Last, "dispatched", "dispatched")
            /\ Go("answer")
    /\ UNCHANGED owner

(* The provider answers: a usable answer, a failure to repeat later, an     *)
(* outcome nobody knows, a failure for good.                                *)
Completed ==
    /\ driver.at = "answer"
    /\ \E usable \in (IF IsSummary(Last) THEN BOOLEAN ELSE {TRUE}) :
           request' = [Requests(Last, "completed", "settled") EXCEPT ![Last].usable = usable]
    /\ IF driver.job # 0 THEN Go("validate") ELSE Leave("plan")
    /\ UNCHANGED <<owner, compaction, hold>>

FailureScheduled ==
    /\ driver.at = "answer" /\ Repeats < MaxRepeats
    /\ request' = [Requests(Last, "retry_wait", "settled") EXCEPT ![Last].scheduled = TRUE]
    /\ Leave("plan")
    /\ UNCHANGED <<owner, compaction, hold>>

FailureUnknown ==
    /\ driver.at = "answer"
    /\ request' = Requests(Last, "unknown", "unknown")
    /\ owner' = [owner EXCEPT !.status = "interrupted"]
    /\ IF driver.job = 0 THEN Leave("off")
       ELSE driver' = [driver EXCEPT !.at = "finish", !.verdict = "waiting_unknown"]
    /\ UNCHANGED <<compaction, hold>>

FailureFinal ==
    /\ driver.at = "answer"
    /\ Close(Last, "settled")
    /\ EndTurn("failed")
    /\ Leave("off")

(* The provider acknowledged a cancellation, which ends the Turn at once:   *)
(* only a job whose driver waits for this answer is finished with it.       *)
ProviderCancelled ==
    /\ driver.at = "answer"
    /\ Close(Last, "unknown")
    /\ owner' = [owner EXCEPT !.status = "cancelled", !.cancel = TRUE]
    /\ IF driver.job = 0 THEN Leave("off")
       ELSE driver' = [driver EXCEPT !.at = "finish", !.verdict = "cancelled"]
    /\ UNCHANGED <<compaction, hold>>

(* admit_retry: a fresh call for the next attempt, whatever became of the   *)
(* last one.                                                                *)
Admitted(i) == [compaction EXCEPT ![request[i].job].admitted[Bucket(i)] = @ + 1]
NextAttempt(i, funds) ==
    [request EXCEPT ![i].status = "prepared", ![i].funds = Append(@, funds)]

(* _wait_model_retry until the retry is due: it is withdrawn for new input. *)
WaitEnds ==
    LET i == Max(In({"retry_wait"})) IN
    /\ driver.at = "wait"
    /\ owner.cancel \/ StaleInput(i)
    /\ IF owner.cancel THEN UNCHANGED <<owner, compaction, hold, request>>
       ELSE IF StaleSummary(i) THEN Abandon(i)
       ELSE Close(i, Active(i)) /\ UNCHANGED <<owner, compaction, hold>>
    /\ Leave("plan")

(* The deadline passed or the budget refused.                               *)
FailUnstartedRetry ==
    LET i == Max(In({"retry_wait"})) IN
    /\ driver.at = "wait"
    /\ Close(i, Active(i))
    /\ EndTurn("failed")
    /\ Leave("off")

(* prepare_scheduled_retry: admission, transfer and reservation at once.    *)
PrepareScheduledRetry ==
    LET i == Max(In({"retry_wait"})) IN
    /\ driver.at = "wait" /\ ~owner.cancel /\ ~StaleInput(i)
    /\ request' = NextAttempt(i, "reserved")
    /\ compaction' = IF request[i].job = 0 THEN compaction
                     ELSE [Admitted(i) EXCEPT ![request[i].job].status = Spending(i)]
    /\ Leave("send")
    /\ UNCHANGED <<owner, hold>>

(* The user's retry of an unknown request.                                  *)
RetryModel ==
    LET i == Max(In({"unknown"})) j == request[i].job IN
    /\ driver.at = "retry"
    /\ IF StaleSummary(i) THEN Abandon(i) /\ Leave("plan")
       ELSE IF j # 0 /\ compaction[j].revision # owner.revision
       THEN Leave("off") /\ UNCHANGED <<owner, compaction, hold, request>>
       ELSE /\ Repeats < MaxRepeats
            /\ request' = NextAttempt(i, "none")
            /\ owner' = [owner EXCEPT !.status = "running", !.cancel = FALSE]
            /\ IF j = 0 THEN UNCHANGED <<compaction, hold>>
               ELSE /\ compaction' = [Admitted(i) EXCEPT ![j].status = "running"]
                    /\ hold' = [hold EXCEPT ![j][Bucket(i)] = @ + 1]
            /\ Leave("send")

CompactionNext ==
    \/ Message \/ RequestCancellation \/ DriverCrash \/ Abort
    \/ \E permit \in BOOLEAN : Resume(permit)
    \/ Plan \/ CancelTurn \/ CompleteTurn \/ NextStep \/ PrepareStep
    \/ FindJob \/ NoPlan \/ CreateJob \/ NextNode \/ Validate \/ RecordNode
    \/ Candidate \/ InstallCandidate \/ FinishJob \/ FailTurn
    \/ SavedRequest \/ Supersede \/ Dispatch
    \/ Completed \/ FailureScheduled \/ FailureUnknown \/ FailureFinal \/ ProviderCancelled
    \/ WaitEnds \/ FailUnstartedRetry \/ PrepareScheduledRetry \/ RetryModel

CompactionSpec == CompactionInit /\ [][CompactionNext]_compactionVars

-----------------------------------------------------------------------------
(* What compaction promises *)

(* Attempts of a job's requests that took a reservation.                    *)
Attempts == UNION {{i} \X DOMAIN request[i].funds : i \in DOMAIN request}
PaidAttempts(j, bucket) ==
    {a \in Attempts : /\ request[a[1]].job = j /\ Bucket(a[1]) = bucket
                      /\ request[a[1]].funds[a[2]] # "none"}
Paid(j, bucket) == Cardinality(PaidAttempts(j, bucket))

Allowance(bucket) == IF bucket = "summary" THEN Cardinality(Nodes) ELSE 1

(* The allowance of a live job is neither lost nor held twice: what it      *)
(* still holds and what its attempts took add up to what was admitted,      *)
(* through crashes between any two commits, retries and reused nodes; a job *)
(* that is over holds nothing (create_job, transfer_for_attempt,            *)
(* admit_retry, finish_job).                                                *)
AllowanceIsConserved ==
    /\ \A j \in Compactions : compaction[j].status \notin Live => hold[j] = Empty
    /\ \A j \in LiveJobs, bucket \in {"summary", "continuation"} :
           IF bucket = "summary" /\ compaction[j].replaced THEN hold[j][bucket] = 0
           ELSE hold[j][bucket] + Paid(j, bucket) = Allowance(bucket) + compaction[j].admitted[bucket]

(* One source is compacted by one job at a time (find_job, create_job): the *)
(* same history is never paid for twice.                                    *)
OneJobPerSource ==
    \A j, k \in LiveJobs :
        compaction[j].source = compaction[k].source /\ compaction[j].revision = compaction[k].revision => j = k

(* A request that is about to be sent finds its job alive and its call held *)
(* (transfer_for_attempt), however often driver and process changed.        *)
NeverShort ==
    driver.at = "send" /\ ~Refused /\ request[Last].job # 0 /\ Active(Last) # "reserved" => CanTransfer(Last)

(* The allowance of compaction jobs is kept, whoever drives the Turn.       *)
CompactionInv == CompactionTypeOK /\ AllowanceIsConserved /\ OneJobPerSource /\ NeverShort

Done(n) == \E i \in In({"completed"}) : request[i].purpose = n /\ request[i].source = owner.source

(* History is replaced only by summaries of what it is at that moment, each *)
(* of them answered, with no message of the user unread and no outcome of   *)
(* an attempt still open (install_candidate).                               *)
ReplacementIsCurrent ==
    [][\A j \in Compactions : compaction'[j].replaced /\ ~compaction[j].replaced =>
           /\ compaction[j].nodes = Nodes /\ \A n \in Nodes : Done(n)
           /\ compaction[j].source = owner.source /\ compaction[j].revision = owner.revision
           /\ In({"prepared", "dispatched", "unknown", "retry_wait"}) = {}]_compactionVars

(* docs/runtime-context.md: "Unsent work releases known unused holds".  A   *)
(* completed Turn that nobody drives reserves nothing any more              *)
(* (tests/agent/harness/test_context_engine_jobs.py).                       *)
NothingHeldAtEnd ==
    owner.status = "completed" =>
        /\ \A j \in Compactions : hold[j] = Empty
        /\ \A i \in DOMAIN request : \A g \in DOMAIN request[i].funds : request[i].funds[g] # "reserved"
=============================================================================
