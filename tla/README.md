# A TLA+ model of the Praxis agent runtime

Praxis runs model-driven Turns on a user's machine. A Turn asks a model, runs
the tool calls of its answer, asks the user where the policy says so, and must
survive the loss of its process at any await, a cancellation at any moment, new
user input in the middle of a request, and calls whose outcome nobody knows.
This directory holds a model of the parts that have to get this right (the
durable ledger in `agent_runtime/harness`, the driver that advances a Turn over it,
the background host that drives Turns from a durable queue, the channels that tell the
outside world about them, the way of a child's work into its parent's workspace, the
compaction of a Turn's context, and the background commands that outlive their Session), the TLC
configurations that check it, and proofs for TLAPS.

Paths below are relative to `agent_runtime/` unless they start with `docs/`.

## 1. The system

| Component | State it keeps | Operations | Talks to |
|---|---|---|---|
| **Rollout log and storage** (`harness/rollout.py`, `reducer.py`, `runtime_tx.py`, `runtime_store.py`) | an append-only log of facts in SQLite, and the tables `apply_record` projects from them | append facts and project them in one `BEGIN IMMEDIATE` transaction; read a consistent snapshot; back up; verify | everything below writes through it |
| **Tool operations** (`tool_ops.py`) | per call: status, claim generation, approval, result item | record state, claim, request / resolve / refresh / invalidate an approval, commit an outcome or a result, reconcile an unknown outcome | Turns (pause and resume), interactions |
| **Model operations and retries** (`model_ops.py`, `model_retry_ops.py`, `budget_ops.py`) | per request: status, attempt generation, retry schedule, input revision; per attempt: a budget reservation | prepare, dispatch, complete, fail (unknown, scheduled, final), reject, cancel, retry by hand, settle | Turns, budgets of ancestors |
| **Turns and interactions** (`turn_ops.py`) | per Turn: status, newest input revision, cancellation request; per Thread: active slot; interactions; child allocations | start, steer, pause, resume, complete, fail, cancel, ask, answer, start and settle a child | all the others |
| **Owner lock and owner-loss recovery** (`ownership.py`) | one file lock per Thread; no durable state of its own | take the lock, `recover_owner_loss` with or without abort | tools, models, Turns |
| **Recovery plan** (`recovery.py`) | none: a function of one snapshot | the next safe step, and which replies it accepts | the driver, the user |
| **Turn driver** (`execution.py`, `model_runner.py`, `responses.py`, `stop.py`, `session.py`) | in memory: where it awaits, the plan it read, the input revision of its request | drive loop, retry wait, dispatch, consume a committed response, complete, cancel, stop | the plan, providers, tools |
| **Tool orchestration** (`tool_orchestrator.py`, `tools/executor.py`) | in memory: the batch | policy, segments and groups, claim / effect / result, `resume_approval`, `recover_resolved_approval` | tool operations, policy, the outside world |
| **Background host** (`host.py`, `host_worker.py`, `harness/host_ops.py`) | queued commands with claims; in memory: one task per claimed command | receive, claim, settle, reject a queued start, release the claims of a lost host, rebuild wakes, drive a Turn, shut down, serve channels | driver, recovery plan, channels |
| **Channels and CI** (`channels/*`, `channel_ops.py`, `ci_ops.py`) | outbox rows with leases and attempts, one CI subscription per repository and Thread, publications of a delivery, grants with their revision | enqueue, claim, begin/finish a send, expire, confirm or retry an uncertain send; deliver a webhook, poll, commit a poll, start a repair; claim, execute, reconcile a publication | host (its lane calls them each tick), providers |
| **Context and memory** (`context_engine.py`, `compaction_jobs.py`, `memory*.py`) | compaction jobs with their held allowance, the nodes of a summary, the replaced history | admit a job, hand one call over to a request, record a node, install a replacement, retry, abandon, finish | model operations (the held reservation), the driver |
| **Subagents and child workspaces** (`subagents.py`, `child_workspaces.py`, `child_workspace_ops.py`, `worktrees.py`) | child allocations; per child: status of its work, captured patch, receipt of a verification, checkout, locks | spawn, record, inspect, apply, reconcile, verify, discard, remove | Turns, the user's files |
| **Durable background commands** (`tools/builtins/command_sessions.py`, `tools/builtins/command_worker.py`, `harness/command_recovery.py`) | per job a directory of marker files and a result, under an owner lock and a run lock; in memory: the entries of the owner that controls it | launch, release, spawn a worker, restore, permit a publication, cancel, reap, report, detach; the worker's own steps | tool orchestration (the launch is a tool call), policy, worker processes that outlive their owner |
| **Delivery and evidence** (`delivery.py`, `execution_facts.py`, `completion_ops.py`, `checkpoints.py`) | evidence, completion proposals | gate the completion of a Turn | driver, Turns |
| **Tools, sandbox, MCP, models, streaming, terminal, `rag/`** | their own processes and connections | outside effects, provider protocols, presentation | orchestration, driver |

### How they interact

* **One writer discipline.** Every `@owner_operation` command reads, decides and
  appends inside one SQLite write transaction; a raised refusal writes nothing.
  A command is therefore one atomic action, and *between* two commands anything
  may happen: every `await` of the driver is an interleaving point.
* **One driver per Thread.** `execution_owner` takes a file lock that the
  operating system drops with the process. Input, cancellation, retries set by
  another session, settlements and ancestor cancellations arrive *without* the lock.
* **The log is the only memory.** A new owner recovers from facts alone
  (`recover_owner_loss`, then the plan). What a lost owner knew in memory, such as
  that a tool was never invoked, is gone.
* **One host per database.** The background host holds an OS lock as long as its process
  lives. Clients only append commands; the host applies controls (input, cancellation)
  between the steps of its drivers, and rebuilds from facts the wakes nobody queued.
* **Facts make other parts stop.** A pending question pauses a Turn; a pending
  cancellation or a terminal ancestor refuses new claims and dispatches; a newer
  input revision refuses a claim, a dispatch and a completion.

### What is hard here

The list is in `PROJECT.json` under `hazards`, each at its line. In short: the
plan, the policy and the input revision are read before an await and used after
it; an effect happens between two durable facts; the workers of one batch commit
independently while one of them may pause the Turn under the others; a late
report arrives for an attempt that was replaced; retry waits race input,
cancellation and other processes; a cancellation must close what was never
started and keep what may have happened; a parent and its child end in any order; the host
ends between the claim of a command, its effect on the Turn and its settlement, and must
neither repeat a reply nor lose a wake. A message, a push or a pull request may have reached the
provider although its sender died; a lease expires under a sender that is only slow; GitHub's
events come in any order, again or never, with a poll awaiting among them. A child's patch is
written file by file over a workspace that the user edits, and a verification speaks of a
tree that may change before the parent completes. A compaction spends several requests, each of
which may be lost, retried or overtaken, while the history it summarises moves on. A background
command has two processes, each of which may be killed between any two of the files they tell each other by.

### What makes each part correct

* Tools: a call is claimed once and its effect happens at most once; a call is
  unknown exactly while one question asks about it; a pending approval and the
  call it blocks belong together; a call that was put up starts only under a standing
  approval; conflicting calls are never uncertain together.
* Models: a reservation is in flight exactly while its attempt is awaited;
  uncertain spending is never forgotten.
* Turns: a slot names an open Turn; a terminal Turn leaves no live call and no
  open question; a completed parent leaves no child; a Turn without a driver can
  always be moved.
* Driver: it completes only on an answer to the newest input; it always returns; a
  revoked Turn is not left running; the plan's offers are honoured.
* Background host: a submission the user withdrew never becomes a Turn; a reply authorises one
  continuation; a Turn that can go on alone is woken; an applied cancellation ends its Turn.
* Channels: the status of a row is the truth about the provider; nothing is sent or published
  a second time; a watched commit passes only on results of its
  own, the newest of each check; a poll does not overwrite newer news; feedback is followed by one
  repair Turn or its allowance is spent.
* Child workspaces: nobody's file is lost; a child counts as integrated only with its whole
  patch; a parent completes only over children it gave up or whose integration was verified on the tree it
  completes with; a checkout stays as long as anybody may need it.
* Compaction: the allowance of a job is neither lost nor held twice; one live job per source;
  history is replaced only by summaries of what it is at that moment; a Turn that
  ended holds nothing back (this one the code does not keep, see section 5).
* Background commands: a command runs at most once and only after its launch was committed; it ends
  once; what any owner says of its end is so; nobody waits for ever for a worker that is gone.

## 2. Modules

```
TurnState          rows of Turns, slots, interactions; reading the ledger
  ToolLedger       the commands of tool_ops.py
  ModelLedger      the commands of model_ops.py, model_retry_ops.py, budget_ops.py
    TurnLedger     Turn commands, owner-loss recovery; Spec = any order of all commands
      TurnLedgerInv        the inductive invariants
        TurnLedger_proofs      theorems: types, model requests, Turns
        TurnLedgerTools_proofs theorems: tool calls
        MCTurnLedger           run ledger
      ToolRunner   batches, claims, effects, approvals across awaits
        TurnRunner the drive loop, plan, model calls, completion, stop, crash
          TurnRunner_proofs    theorems: the driver
          MCTurnRunner         runs driver, retries, family; findings parallel, offers
Conversation       what a user may rely on; TurnRunner implements it

BackgroundHost     the command queue, the host's tick, its drivers, shutdown and crash
  BackgroundHost_proofs    theorems
  MCBackgroundHost         run host; finding shutdown
DetachedJob        abstract: a job that runs at most once, and what is said of its end
  CommandSession   owners and workers of background commands; implements DetachedJob
    CommandSession_proofs  theorems
    MCOrphans              CommandSession beside MCBackgroundHost: run orphans
Notice             abstract: a durable remote effect that happens at most once
ChannelAuthority   grants, their revision, what they authorize
  Outbox           rows, claims, leases, sends, the operator; implements Notice
  CIWatch          one CI subscription: webhooks, polls, repairs
  Publication      publications and their executors; implements Notice
  MCChannels               the three under one authority and one host lane: run channels
    Channels_proofs        theorems: each of the three, and the three together

Patches            abstract: whose text each file of the workspace holds
ChildWorkspace     a child's checkout: spawn, session, record, removal, locks
  Integration      inspect, apply, reconcile, verify, discard, complete; implements Patches
    Integration_proofs     theorems
    MCWorkspace            small instances
Compaction         the jobs that replace a Turn's history by a summary, and their allowance
  Compaction_proofs        theorems
  MCCompaction             MCWorkspace and Compaction beside each other: run workspaces
                           (Compaction by itself: finding holds)
```

**TurnLedger** is the ledger *without assumptions about its callers*: any
command may be called at any time by anybody. What holds of it holds whatever
the driver, the host or another process does. **TurnRunner** adds the callers:
one driver per Turn with its memory, the workers of its batch, the provider, the
outside effects and the other processes. **BackgroundHost** is the layer above: a Turn is
only what `_recovery_decision` tells apart (`state`, `seq`, `cancel`, settled children), the
steps inside a Turn are any that lead from one such state to the next, and what is modelled in
full is who may take them: commands, claims, the phases of `_execute`, what a cancelled task
leaves at each of its awaits, and what a restarted host finds. **Outbox**, **CIWatch** and
**Publication** are the three things the host's channel lane serves; they share the revision of
`ChannelAuthority`, and every commit of theirs that follows an await checks it again. To them a
Turn is a fact that appears. **ChildWorkspace** and **Integration** are two halves of one
component: what happens to a checkout, and what happens to its patch. **Compaction** adds to the
driver the loop that `drive` enters when a context is too large; its Turn is a status and an input
revision, and its requests repeat the part of `ModelLedger` that moves a reservation.

### Correspondence with the code

| Model | Code |
|---|---|
| `op[o]`: `status`, `claims`, `approval`, `linked`, `superseded` | `tool_operations`: status, claim generation (which every command moves together with the attempt count), approval_request_id, result_item_id is set, error_code is `input_superseded` |
| `reported[o]` | a completed `tool_result` item of the call exists |
| `callRevision[o]` | the input revision of the request whose response made the call |
| `interaction[r]` | `interactions` joined with `approvals`; a request id is used once |
| `model[m]`, `reservation[m][g]` | `model_operations`; the budget reservation of attempt g |
| `turn`, `activeTurn`, `inputRevision`, `cancelPending` | Turn status, Thread slot, newest accepted input, `turn_cancel_requested` since the last resume |
| `allocation[c]`, `Parent` | `child_budget_allocations` |
| `childWait[t]` | the input revision stored by a pause with reason `attached_children` |
| `phase[t]`, `reply[t]`, `seen[t]` | where `drive` awaits, `resume`'s reply until it is used, the input revision the request or answer was built on |
| `worker[o]`, `effects[o]` | what the executor does about the call, how often the tool really ran |
| `queue` | `host_commands` in rowid order, settled rows included; `start`, `reply`, `wake` and `finish` are the commands `start` and `resume` of the code by origin |
| `due` | `available_at` has passed |
| `revision`, `plan` of a row | `authorization_revision` of a reply; plan kind and sequence in the identity of a wake |
| `grants` of a row | a history variable: how often the reply answered a question, permitted a retry or resumed a cancelled Turn |
| `task[i]`, `hand` | where the driver task of row i awaits; the control command the tick works on |
| `owner[t]` | the row whose Session, or whose Session's child task, holds the Thread's lock |
| `seq[t]` | `applied_thread_sequence`, counted in steps that change what the plan sees |
| `outbox[k]`, `sender[s]` | an outbox row (status, attempts, claim, lease); what one worker holds of it between claim, provider and finish |
| `posted` | external: the copies of each row the provider accepted |
| `watch`, `inbox`, `stale` | the CI subscription and its evidence; repairs accepted and not started; deliveries recorded as stale |
| `mail`, `poller`, `thread` | deliveries on their way; the poll between its request and its commit; the head Turn of the Thread |
| `publication[p]`, `executor[e]`, `published` | a publication row; an execution or reconciliation between its awaits; external: what the remote has |
| `env[c]`, `checkout[c]`, `lock[c]`, `remover` | the child's environment row, its checkout on disk, the shared or exclusive owner lock, a removal between its read and its delete |
| `job`, `receipt`, `newer` | an integration command between two writes, the verification it recorded, whether the tree changed since |
| `landed`, `disturbed` | history variables: whose text was written over whose; a tree that changed during a verification and was changed back |
| `compaction[j]`, `hold[j]` | the newest item of a compaction job; the calls it still holds, by bucket |
| `call[c]` | the tool operation that launches command c: claimed, its result committed, or closed without one |
| `files[c]`, `result[c]` | the marker files of the job directory (`release`, `started`, `cancel`, a publication's request and permit), `result.json` |
| `entry[c]` | the entry of the owner that holds `owner.lock`: who it is, where its task stands, the worker it spawned |
| `worker[c][w]` | a worker process: from `locked` to its exit it holds the run lock |
| `matching` | the policy in force equals that of the job's manifest |
| `ran`, `published`, `told` | external: executions, jobs whose changes reached the workspace; the outcomes owners gave |
| `request[i]`, `owner`, `driver` | a model operation of a job with its reservation; the Turn; where the driver of the Turn stands |

Each action is one transaction (its guard collects the command's refusals) or, in
the runner, one step between two awaits. The rows of `map` in `PROJECT.json` give
the lines of every definition. Definitions introduced by "Broken:" are not used by the
model: each is the form a plausible bug would give the definition after it, and every
property of every passing run is violated once one of them is put in place.

Data is abstracted to what the properties tell apart: arguments, digests, texts,
token counts and clocks are gone. A lease or a deadline passes whenever it likes;
whether a budget suffices is a choice of the request (`GiveUp`, `PrepareModel`). A
policy answers anything its set `Policy[o]` holds, afresh at each reading, since files,
rules and hooks change between reads.

## 3. Runs

| Run | Question | Properties |
|---|---|---|
| `ledger` | any order of tool, approval, Turn, model, retry, budget, child and recovery commands: two conflicting calls, or one request with three attempts in a parent and a child | `TypeOK`, `ClaimedAtMostOnce`, `UnknownAsksOnce`, `ApprovalBlocksItsCall`, `StartedOnlyIfApproved`, `SlotNamesOpenTurn`, `DispatchedOnlyIfAwaited`, `CompletedLeavesNoChild`, `UncertainExposureKept` |
| `driver` | the driver with two calls that must not overlap, or with one whose policy may allow, ask or deny and change between reads; input, cancellation, task stop and crash anywhere | `RunnerTypeOK`, `EffectAtMostOnce`, `ConflictsExclude`, `OpenMattersHoldTurn`, `NeverStranded`, `KeepsPromise` |
| `retries` | scheduled and manual model retries against input and cancellation, fair driver | `DriverReturns`, `RevocationStops` |
| `family` | a parent that starts a child in a tool call and may be cancelled above it, fair drivers | `KeepsPromise`, `RevocationStops` |
| `host` | one background Turn, which may spawn a child while little else is asked, with two replies, one control, and a crash, shutdown or failing driver at any phase | `TypeOK`, `RejectedNeverRuns`, `RepliesAuthoriseOnce` |
| `orphans` | what goes on without its owner. A parent and its child on two workspaces, a control and a crash, fair host; or a background command with two workers, two kinds of owner, crashes, lost workers and a changing policy, fair tasks and workers | `NothingSleeps`, `CancelStops`, `JobsKeepPromise`, `WaitsEnd` |
| `channels` | two senders, a CI subscription with webhooks in any order, again or never and a poll among them, the two beside each other, or two executors of a publication; crashes, suspended senders, withdrawn authority; fair host lane | `ChannelsTypeOK`, `StatusIsTruth`, `PassIsEarned`, `RowsKeepPromise`, `RowsSettle`, `PollKeepsNews`, `FeedbackIsFollowed`, `PublicationsKeepPromise` |
| `workspaces` | one or two children, two files, edits, a broken-off application, a crash and a removal between any two writes; or two compaction jobs of two nodes each, with input, a retry and a crash between any two commits | `WorkspaceTypeOK`, `CheckoutKeptWhileNeeded`, `ParentFinishesTested`, `PatchesKeepPromise`, `CompactionInv`, `ReplacementIsCurrent` |
| `parallel` | finding: two calls that may run in parallel | `OneReconciliationAtATime` is violated |
| `offers` | finding: a crash after a denial; an abort after an invalidated approval | `OffersAreHonoured` is violated |
| `shutdown` | finding: a graceful shutdown while the Session of a wake is opening | `WakeupsAreReconstructed` is violated |
| `holds` | finding: input between the installation of a summary and the dispatch of the request that uses it | `NothingHeldAtEnd` is violated |

`KeepsPromise` is refinement: `TurnRunner` implements `Conversation` under the mapping
at the end of `TurnRunner.tla`. `Conversation` says, without ledger or driver, that an
ended Turn stays ended and acts no more, that every action happens at most once
and only under an answered message, that a Turn completes only when every message it
accepted is covered by a committed response and no child of it is open.
`RowsKeepPromise` and `PublicationsKeepPromise` are the refinement of `Notice` by `Outbox` and
`Publication`: an intent is recorded before its effect is started, the effect happens at most once, it is
tried again only when it is certain that it did not happen, and the record says that it did only when it did.
`PatchesKeepPromise` is the refinement of `Patches` by `Integration`: a file of the parent's
workspace is overwritten only by a child that knew the text it replaced, and a child is merged
only when every file of its patch arrived. `JobsKeepPromise` is the refinement of `DetachedJob` by
`CommandSession`: at most one run, after the launch, one end, no effect after a final word, and no
false word about it. `ParentFinishesTested`, `PollKeepsNews`, `ReplacementIsCurrent` and
`UncertainExposureKept` are action properties.

### Bounds, and why they are enough

* **Two calls** (`Ops`): conflicts, groups, segments and "one sibling pauses, the
  other is running" need two. A policy that asks needs one call and two requests: an
  approval and the one that replaces it, or an approval and a reconciliation. `driver` explores the
  two cases apart (`PairOrAsked` in `MCTurnRunner`), and while the two calls exist either newer input or a
  cancellation arrives, not both (`OneBatch`).
* **`OneCrowdAtATime`** in `ledger`: tool calls and model commands write disjoint rows and meet in the Turn's
  row alone, so either calls are opened while the Turn has one plain request, or requests are lost,
  retried and inherited while no call is opened. The theorems need no such bound.
* **Two requests** (`Requests`): a request id is never reused, so a behaviour that has asked
  twice can ask no more; a command that needs a third id is disabled there. It bounds how
  long a history gets, and no property depends on an id being available.
* **`MaxInputs`** 2: "a message arrived after the request was built" needs a second one.
* **Models**: 2 requests in the runner (one that calls tools, one that answers), 1
  with three generations in `ledger` (replaced, awaited, scheduled).
* **`MaxRetries`** 1: a schedule that is spent and one that is not. The code's own limit
  is a small number as well (`retry_policy.py`).
* **`Resume`** is bounded by the generation left for a retry, so that an attempt the user
  permits can be made.
* **Crashes** are left out of `retries` and `family` (`Crashes = FALSE`): under them a
  driver that is lost for ever is not expected to return. They are in all safety runs.
* **The host**: one Turn suffices for claims, replies and withdrawn starts (`ChildAlone` cuts off the behaviours
  in which it has a child and more than two rows are queued; a redelivered reply
  needs two replies and one crash); wakes need a parent that waits for a child. `MaxSeq` stops new
  model calls, not the end of a Turn; `MaxMishaps` 1 allows one end of the host at any phase, and
  the host that follows runs undisturbed. `MaxRows` in `MCOrphans` only names the rows
  fairness speaks about; it is larger than any queue these bounds allow. Two Turns share a
  workspace only in `shutdown`, where the second driver is put off (`workspace_busy`).
* **Compaction**: two jobs of two nodes, because a job that is superseded needs a successor and a summary that is
  saved needs one still to come; three requests (two summaries and a continuation); one repeated attempt
  among all of them; one newer input; a crash anywhere. The same with four requests (13 million states) passes as well.
  `workspaces` explores either children's work or a compaction, never both moving: they share no variable.
* **Channels**: `Scenarios` of `MCChannels` gives the environment a few moves (a crash, a suspended sender, an
  operator's command, up to five events of GitHub, three reviews, one poll, one change of authority) and leaves the
  program's own steps unlimited. Two senders suffice for every race over one row; two commits, two checks and
  four check runs are the smallest choice with a rerun, an older run, and a result of an old commit.
  One scenario has news and a review together on a Thread with Turns of the user, so that the lane may be stopped
  (`LaneStops`) while a row is pending, and may go on again; everywhere else the outbox, the subscription and the
  publication, which share only the authority, move apart.
  In one scenario both checks have passed before the subscription exists, so that a poll finds a pass
  while reviews ask for changes, are dismissed and approve.
  `MaxAttempts` 2 is an attempt that may be retried and one that may not.
* **Workspaces**: `Scenarios` of `MCWorkspace`: one child whose application breaks off while the user edits (`Broken`),
  two children with a verification each (`Both`), a child given up and taken up again while its checkout is
  removed (`Removal`). Two files are the least patch that can be half applied, and four contents are the original,
  the user's, and one of each child.
* **Background commands**: one command, because commands share nothing but the rule that a Session works on one
  at a time and the crash of its owner; two workers, since every race for the run lock is between two.
  Workers that have not begun are alike, and the first round of a restored entry's task is one step with
  the restore, since nothing can reach the task before it. The commands run beside a host with nothing to
  do: the two share no row. The theorems have neither bound.
* **`CHECK_DEADLOCK FALSE`** everywhere: a Turn that ended, or whose bounded inputs are used
  up, has nothing left to do.

The runs between them fire every action. Symmetry is used in `workspaces` alone (children and
files are interchangeable there, and nothing is checked that lasts); calls are ordered by their position in a
response, rows and runs of a check by their age.

### Fairness

`FairSpec` assumes weak fairness of the driver's own step and of each worker's, nothing
else: a provider answers or its client times out, a tool ends or is timed out, and a
SQLite transaction commits (with `busy_timeout`). There is none for users, other processes, settlements
or crashes. `RevocationStops` therefore speaks of Turns that a driver is advancing
(`Advancing`): nobody is obliged to resume a Turn without a driver. `DriverReturns` says
that whatever arrives on the way, `drive` ends: in a pause, a terminal fact, or a
plan that it only reports.

For the host, `OrphansSpec` of `MCOrphans` assumes that it is started again after it ended
(`ensure_host` runs with every client command), that its tick goes on claiming and waking
(`serve` loops every 50 ms while anything is queued), that each driver task and each driven Turn
goes on, and that a retry delay passes. Nothing is asked of clients. `NothingSleeps` and
`CancelStops` hold although the host may be killed at any moment; shutdowns and what withdraws a
cancellation (observations, replies) are left out of `orphans`, because of the finding.
For the commands it assumes that the poll loop of an entry's task and the own steps of a live worker go on.
It does not assume that a command ends (`timeout_seconds` may be null), that an owner or a worker
survives, or that a policy comes back; `WaitsEnd` therefore excepts a command that goes on uncancelled.

For the channels, `FairSpec` of `MCChannels` assumes that a live sender goes on and finishes (`Sending`: each provider
call has a timeout), that leases and backoffs run out (`Lapsing`), that the host's lane resumes on every tick
(`Resuming`), that it then takes a row (`LaneTakes`), and that Turns end (`Driving`). A tick does one after the other
in one `try` (`_channels`, `host.py:363-375`), so it takes nothing while resuming raises (`LaneStops`, section 5), and the
fairness of `LaneTakes` is asked of the host's own sender (`Host`) in the other states only. A second sender is an embedding's, which
nothing obliges to take. No fairness is assumed of polls, which come after the outbox in the same `try`, nor of GitHub, the
operator, the user or a crashed sender. `RowsSettle` says that a row whose turn it is ends up sent, given up, or in front
of the operator, unless the lane stays stopped from some tick on; `FeedbackIsFollowed` that feedback which may be acted on
becomes a queued repair, or loses its place to other evidence, its grant or its allowance, with the same exception for
its Thread. Without the exception TLC violates `RowsSettle` in the scenario that has both.

## 4. Proofs

TLC checks small instances; the theorems below hold for every set of Threads, Turns, calls,
requests and models, every conflict relation and any number of retries, inputs and
generations. Those of the ledger are about `TurnLedger!Spec`, so about any callers, and every
property of the run `ledger` is proved. Those of the driver are about `TurnRunner!RunnerSpec`, for any number of drivers,
workers and requests, any input, answers and cancellations, and a task stop or a crash at any await. Those of the channels are about `MCChannels!FairSpec` where it says so, and else about `Outbox!OutboxSpec` and
`Publication!PublicationSpec`, for any messages, senders, executors and facts, any number of attempts, and an authority and
facts that change whenever they like, and about `CIWatch!WatchSpec`, for any commits, checks, runs and reviews, and events that
are delivered in any order or never. Those of the child workspaces are about `Integration!IntegrationSpec`, for any
children, files and contents, and a user who edits between any two steps. Those of the background commands are about
`CommandSession!CommandSpec`, for any commands, any number of workers, owners and workers that are lost anywhere, and a
policy that changes whenever it likes. Those of the background host are about `BackgroundHost!Spec`, for any Turns and
workspaces, clients that send any commands, drivers that raise anywhere, and a host that is killed or closed at any phase.
Those of compaction are about `Compaction!CompactionSpec`, for any jobs, summary trees of any finite size, any number of
requests, retries and messages, and a driver that is lost and replaced between any two commits.

| Module | Theorems |
|---|---|
| `TurnLedger_proofs` | `TypeCorrect`, `MoneyFollowsAttempts`, `DispatchedIsAwaited`, `ExposureIsKept`, `SlotsNameOpenTurns`, `NoChildLeftBehind` |
| `TurnLedgerTools_proofs` | `ToolsStayTied`, `ClaimsAreUnique`, `UncertainIsAskedOnce`, `ApprovalsBlock`, `NothingStartsUnapproved` |
| `TurnRunner_proofs` | `DriverKeepsLedger`, `DriverIsTyped`, `EffectsAreUnique`, `ConflictsAreKeptApart`, `MattersAreKept`, `OpenMattersAreHeld`, `FlightsAreKnown`, `StrandedOnlyByTwo`, `ConflictingNeverStranded`, `WordsAreKept`, `DriverKeepsPromise` |
| `Channels_proofs` | `OutboxInvariant`, `StatusIsAlwaysTruth`, `RowsImplementEffects`, `PublicationsTellTheTruth`, `PublicationsImplementEffects`, `CIInvariant`, `CIIsTyped`, `PassesAreEarned`, `PollsKeepNews`, `ChannelsCompose`, `ChannelsAreTyped` |
| `Integration_proofs` | `WorkspacesStand`, `WorkspacesAreTyped`, `CheckoutsAreKept`, `ParentsFinishTested`, `PatchesComeHome` |
| `CommandSession_proofs` | `CommandsAreTyped`, `CommandInvariant`, `JobsAreKept` |
| `BackgroundHost_proofs` | `HostInvariant`, `HostIsTyped`, `RejectedStaysOut`, `RepliesAreUsedOnce` |
| `Compaction_proofs` | `CompactionInvariant`, `CompactionTyped`, `CompactionCorrect`, `ReplacementCurrent`, `FailedHoldsNothing` |

**Assumptions.** `TurnConstants`, `ToolConstants` and `ModelConstants` (in the modules that declare the
constants, evaluated by TLC in every run): identities have their sorts, every
call has one Turn and every Turn one Thread, the conflict relation is symmetric. `RunnerConstants`
(in `ToolRunner`) and `RunnerInputs` (in `TurnRunner`) say only that policies, responses and parallel calls have their sorts.
`OutboxConstants` (some fact exists, the news among them, "no query" and "no sender" are neither, at
least one attempt), `SomethingToPublish` and `WatchConstants` (0 is no commit and no run, each run has a commit and a check,
reviews are numbered) are those of the channels, `LaneConstants` (in `MCChannels`: the host is a sender) that of their
composition; `ContentsAssumption` and
`NoneAssumption` (in `ChildWorkspace`) those of the workspaces. `HostInputs` says that a child has a parent that is no
child itself (the model's Turns are two levels deep), that each Turn has a workspace, and what the bounds are.
`CompactionConstants`: jobs and nodes are positive numbers, and a summary tree has finitely many nodes.
Nothing is assumed finite: that a tick of the host finds finitely many Turns to wake is part of its invariant.

**The invariants.** Types first: `TypeOK` is inductive by itself, and every later proof
uses it. The promises about tools are not inductive one by one. `StartedOnlyIfApproved`
says nothing about a call that is `ready`, yet a claim makes it start; `ClaimedAtMostOnce`
needs that a claimed call never becomes `ready` again; that in turn needs that the
interaction an answer resolves belongs to a call that is *waiting*, so not to one that
started. `ToolInv` (in `TurnLedgerInv`) closes the circle with six named parts:
`RowsNameTheirCall`, `ApprovalIsOfCall`, `ClaimedStaysStarted`, `ApprovalStands` and the
two promises `UnknownAsksOnce` and `ApprovalBlocksItsCall`.

**The argument.** Many commands change the same rows in the same way, so the proof does
not repeat itself per command: it names the few *shapes* a step has (a call moves among
statuses that no interaction speaks about; a call is put up with a fresh request; the one
pending request is answered and its call moves on; a question that is about no call is asked or
answered), proves that each shape keeps `ToolInv`, and then that each command has one of
them. Owner-loss recovery, the cancellation of a Turn and the replacement of an approval have
shapes of their own. For models the shapes are "the awaited attempt gets its outcome" and "a
next attempt is prepared"; `ModelInv` adds to `DispatchedOnlyIfAwaited` that attempts
are numbered up to the generation and that no reservation exists for a later one.
`ExposureIsKept` is an action property that follows from `ModelInv` because every
command that touches a reservation touches the one of the current attempt, which is
not `unknown` while it is awaited. The theorems about slots and children split Turn commands
by the slot they take, keep or release.

For the driver, the first question is whether it stays inside the ledger. `CommandsAreNext` and `DriverCommands` show
that each of its steps changes the ledger by one command; the exceptions (`LastWords`: a stop during a model call, a stop before the provider, the end of a stopped
batch) end an attempt and the Turn in *one* transaction of several commands, and
`LastWordsKeepLedger` shows directly that this keeps `LedgerInv`. So the invariants of the ledger hold under
`RunnerSpec` although its steps are not all steps of `TurnLedger!Next`. What a driver remembers between two awaits is
true only while nobody else changes the rows it read. `Stage` says, for each phase, which facts of the ledger the driver
may rely on although input, answers and cancellations arrive at any time (the attempt it dispatched is still
the awaited one, the response it consumes is the newest); `ModelsInOrder` says why "the latest
request" has one meaning. A step of *another* Turn leaves these facts alone (`OthersLeft`), which keeps the proof to one
Turn at a time. `EffectInv` then follows an effect through its call: a worker that is `claimed` has
one effect fewer than claims; only `Claim` makes a claimed worker and only it moves a call into an uncertain
status, so at that step the guard on conflicting calls speaks of *all* uncertain calls; and a call leaves
that status together with its result, so that it never comes back. That last part, `SettledIsLinked`, is why no replayed response can claim a finished call again.

`OpenMattersHoldTurn` looks like a fact about rows and is one about workers: a Turn may complete, pause or be asked
something only because nobody is still at work on a call of it, and that is nowhere recorded. `TurnInv(t)` has three
parts. `Matters` strengthens the promise (a question of the user's waits alone and beside no running call; only
reconciliations may wait beside one). `Place` says, for each phase, what the driver knows to be pending without looking again; it is
where a missing re-read after an await would show. `Workers` says which calls of a batch may be busy together:
a running call of a living driver has a worker that holds it, none runs while the batch is still being prepared, an
approved call is carried out alone. A command concerns one Turn (`OnlyOf`, from `RowsNameTheirCall`), and a Turn
that is not concerned keeps its invariant (`OthersRest`), so each step is proved for its own Turn only:
`OwnSteps` for the driver, `OutsideSteps` for users and crashes, `CallSteps` for workers. `MattersInv` was checked by TLC on all five
driver instances before it was proved.

`NeverStranded` needs in addition what became of the request to the model. `FlightInv(t)`: a request in flight is the
newest, nothing waits or runs beside it, and the driver is in a phase that can have one; while its outcome is
`unknown` the Turn does not run, and a Turn is `interrupted` for that reason only. `SuccessIsLinked`: a call that
succeeded has its result linked. An open Turn then waits for one reconciliation (which can be
answered), or has a running call without an owner (which can be put up), or is quiet; and if it runs while it is quiet, every call left
open is one that closing the Turn may write off. Its hypothesis, `AsksOnce`, is the code's own "Reconcile one uncertain
effect at a time" (`ownership.py:139`); the run `parallel` shows that it can fail and that the Turn is then stuck,
so the theorem says that this is the *only* way. `ConflictingNeverStranded` discharges the hypothesis where
the calls of a Turn conflict with one another, as in the run `driver`: `ConflictsExclude` then leaves at most one
call uncertain. `FlightInv` was checked by TLC on the five driver instances first.

`DriverKeepsPromise` is the refinement `KeepsPromise`: every step of driver, worker, user or crash is a step of `Conversation` or
changes nothing the user sees. It rests on one more invariant, `WordInv(t)`, about what a Turn said: a committed response answers
only messages that were heard and one response is the newest; a proposed completion (`phase[t] = "finish"`) rests on a committed
response to what the driver had *seen*; a call has a record only after a response proposed it; a request in flight belongs to an open
Turn; an open child holds its share of the budget (without it `CompleteTurn` would not see the child). Each step then falls into
one of six shapes (`Says`: a Turn starts, a child starts, the user is heard, nothing changes for the user, the Turn stops, the
Turn completes), and the shape is a disjunct of `Conversation!Next`. Three places carry the weight: `EndingStep` (no step
ends a Turn over a request in flight but a provider failure or an acknowledged cancellation, which end the request as well, and
a Turn completes only if the newest message it heard is the one it had seen); completion over children, where `OpenMattersHoldTurn` does
not help and the budget share does; and the effect of a call (`CallPromise`), where `EffectInv` shows that it is the first and
`Workers` that its Turn is open. `Answers` is a maximum (`CHOOSE`), so a new response needs `NewCovered`: it becomes
the newest or is covered already. TLC checked `WordInv` on the instance `family` completely, and on 8 million states of `driver`, before it was proved.

For the outbox, "a row that may still be sent was never accepted" is not inductive: a sender whose lease
expired may still be posting. `OutboxInv` adds what each sender knows of its row (before it posts, nothing was
accepted, and the row may be given up behind its back but is never offered again; an answer it holds is the
truth) and that a message has at most one sender on its way. Again a few shapes of steps (a row drifts
among statuses that are not yet sent, a row is given up, a send begins, happens, ends) carry every command, and
each shape is a step or a stutter of `Notice`. `PublicationInv` does the same for executors: one at a time acts on a publication,
although reconciliation may start while the first executor is still alive.

For the CI subscription, "a pass is earned" says nothing about a row that is pending, so `CIInv` says of every row what it may
claim: a success among its results is a run of that check on the watched commit that GitHub completed (`RowStands`, from
`MailStand`: what an event says was so when it was sent, and a success stands); a mark on a review has its reason, and a
request for changes that nobody answered is marked (`ReviewsStand`). A poll is three steps with events between them.
`PollStands` says that what it brings was so, for the commit it names; `NewsStand` that if the evidence still bears the identity it had when the poll
began, nothing was heard since that could have changed it, because an event that is taken on record gives the
evidence its own identity and no event is consumed twice. The row is then written by a few operators
(`Moved`, `ChecksNoted`, `Reviewed`, `Settled`), each with a lemma, and a step that hears nothing keeps the reviews (`QuietStep`).
The proof corrected the property: an earlier form held a subscription that was disabled, or had lost its grant, to reviews
that arrive afterwards. The code consumes those without judging them and the last status stays, so the promise is
one while the subscription listens. The run `channels` did not show it, because it never came to a pass with a review heard; a
scenario now does.

`ChannelsCompose` puts the three together: a step of `MCChannels!Next` is a step of one of them and leaves the other two
alone, except that a change of the authority is a step of all three. So the specification of the run implements
`OutboxSpec`, `WatchSpec` and `PublicationSpec`, and each theorem about one of them holds of the composition; `ChannelsAreTyped` is the one
that is stated. It needs nothing of `Scenarios`: what holds is independent of which moves the run gives the environment.

For the child workspaces, `IntegrationInv` relates each child to the operations that are under way beside it.
`GrownInOrder`: only a child that ended is archived, and only an archived one is applied, so the patch an
integration lands no longer changes. `RemovalStands`: what allowed a removal is still true when the checkout
goes, although other operations ran in between. `JobStands`: the operation under way finds its child as it left it,
and what was landed and what is left to land make up the whole patch; this is what a crash in the middle of an
application must not lose. `ReadStands` and `VerifiedAsRead`: a verification speaks of the tree it read unless somebody
wrote since. Most steps touch one child, and `Rests` (a child whose rows are untouched stands) covers the others. The
refinement of `Patches` then maps what happened to a child to the outcome the abstract specification gives it.

For background commands, "at most one run" cannot be shown by the counter alone: a worker decides to begin by the
marker files, and an owner decides what to say by the files and the lock. `CommandInv` has five facts.
`LaunchedFirst`: markers and workers exist only for launched jobs. `OneHolder`: the run lock has one holder.
`HolderLooked`: what the holder saw under the lock is still so, since nobody else writes these files; it gives for each
position of the worker how often the command ran. `RunsLeaveMarks`: a run left its marker, so no later worker begins.
`SaidIsTrue`: what a task returned, and what was told, is so; "unknown" means that a worker began and is gone, and
stays true because `started` is never removed. `JobsAreKept` then maps each of the 34 steps to a step of `DetachedJob` or a stutter.

For the background host, neither promise is about the step that would break it. `RepliesAuthoriseOnce`: a reply is offered
as the user's word only if its revision was that of the Turn when its driver took the lock, and a driver that is lost gives the
command back to be claimed again. `RowsStand` has the reason that this is enough: a reply that was used is *older* than its
Turn, for ever, since what it authorises changes the Turn (`OfferKeeps`: from each of the plans that need the user the
Turn moves to another state). But freshness is read in one step and used in a later one. `TasksStand` says what a driver may still rely on
between the two (its Turn exists; a reply that came fresh is unused), and it holds
because a command has one driver at a time, whoever holds the lock. `LocksStand` says who holds the lock of a Turn: the driver of
a command about it, in the phases between taking and returning the lock, or, for a child, the driver of its
parent until that driver has left its children. It is what makes a driven Turn one that exists, and what shows that no lock
outlives its driver (`HostIsTyped`). `RejectedNeverRuns` needs `FamiliesStand`: a child exists only beside its parent, so that
withdrawing a submission, which looks at the parent alone, never strands a child. Again a few shapes (rows rewritten or
appended, a driver goes to a phase, ends, or gives its own lock back) carry all actions. TLC checked these parts
on the instances `host` and `shutdown` before they were proved.

For compaction, conservation is about a sum over rows: what a job holds and the number of its attempts that took a
reservation make up what was admitted. The sum is the cardinality of a set of attempts (`PaidAttempts`), and a lemma each says what a step
makes of it: a request that is rewritten changes it only if its newest attempt gains a reservation (`PaidRewritten`), another attempt adds
one if it is reserved at once (`PaidRepeated`), a new request likewise (`PaidGrown`). The balance is kept by the shapes of a
step, and yet none of the promises is inductive, because each commit relies on what earlier ones left:

* `RowsInv`: only the newest request is open. This is what lets a driver, or its successor, act on "the" request.
* `LinksInv` and `OneRequestPerNode`: a request names a job that exists, of its source, and a node is asked for once, since an
  answer that is there is reused.
* `CarriedInv`: while the Turn goes on, the open request has a job that is alive (for a continuation: installed, or taken up again with
  exactly one call for a retry).
* `JobInv`: a job that is alive and not replaced holds its continuation and a call for every node that was not asked for, and one for a
  request that is prepared and has no reservation (`Claims`). This is `NeverShort` before it is needed: when the request comes to be
  sent the call is there, however many drivers have come and gone. It also has the balance, for installed jobs as well, since a retry of
  a continuation brings such a job back to life.
* `Twins`: no two jobs that can be found, installed ones included, are of one source and revision. `OneJobPerSource` speaks of live jobs
  alone and would not survive the retry that revives one.
* `DriverInv`: where the driver stands, what it may rely on (`PlaceInv`), what it read before it looked for a job (`ReadInv`),
  that its job is alive and has no failed summary while it works at it (`WorkInv`), and which verdict it brings to the end (`FinishInv`).

The delicate place is a summary that failed while its job stays alive: a driver that resumed would find the job and ask
for the node again, with no call left. `LinksInv` has the reason that it does not: a summary fails alone only when newer input came, and
a job is found by the current input (`find_job`, `create_job`), so that a job with a failed summary is never found again. Each of the
32 actions has a lemma of its own over a few shapes (the newest request is rewritten, gets another attempt, a request is
added; jobs are finished). `ReplacementCurrent` then follows from `WorkInv` at the one action that replaces
(`InstallCandidate`), and from the fact that no other does. `FailedHoldsNothing` adds that a failed Turn has no live job and no
driver that could take one up again, so that nothing stays held: the counterpart of the finding `holds`, which is about a completed Turn.
The parts were checked by TLC on the instance of `workspaces` before they were proved.

**Only model-checked.** Liveness everywhere (`DriverReturns`, `RevocationStops`, `RowsSettle`, `FeedbackIsFollowed`,
`NothingSleeps`, `CancelStops`, `WaitsEnd`; liveness under fairness, and `ENABLED`, are beyond the prover). Every
other property of a passing run is proved, `NeverStranded` under the hypothesis that `parallel` shows to be needed. What the
four findings state is violated (section 5).

## 5. Findings

Each is a run that TLC must find violated, quoted in `PROJECT.json`.

* **`parallel`**: two concurrency-safe calls of a batch that both end unknown each ask for
  a reconciliation, while the command that answers one requires exactly one, and an
  abort is refused while a call is uncertain. `ownership.py:139` says "Reconcile one
  uncertain effect at a time"; that is true of `recover_owner_loss` and not of
  `commit_tool_operation_outcome`. The Turn has no way on.
* **`offers`**: the plan offers a way on that raises. (a) `resolve_tool_approval(deny)` resumes the Turn in one transaction and
  the refused call's result is recorded in a later one. A process lost in between leaves a plan that
  offers `continue`, which `_consume_response` refuses every time. (b) After
  `invalidate_tool_approval` the call is `superseded` without a
  result. Once the Turn runs again (a cancellation request makes the plan offer
  `resume_cancelled`), `recover_owner_loss(abort=True)` tries to record a result for it and is
  refused, so that every abort of the running Turn fails. TLC stops at (a), which is shorter; with
  the conjunct `AbortIsHonoured` as the only invariant the same instance shows (b).
* **`shutdown`**: `_execute` answers the cancellation of its task with `_ack`, and `_ack` takes
  "the Turn is not running" for "the command was carried out". A wake cancelled while its
  Session opens is settled as applied although the Turn still waits for children that have
  ended. The wake's identity is a function of the unchanged Turn, so the next host finds
  it settled and queues nothing: the Turn sleeps until a client resumes it by hand.
  The cause, that a wake which did nothing uses up its name, has a second way in that needs no shutdown, and
  `orphans` is bounded away from it (`Observations = FALSE`, no replies): a child is woken to
  follow its parent's cancellation; before its driver reads the plan, a recovering driver of the
  parent observes a lost command session again, which resumes the parent and so withdraws the
  request; the wake ends as applied without effect, and when the parent is ended after all,
  the child's plan and sequence, and so the name of its wake, are what they were.

* **`holds`**: a completed Turn holds budget that nobody can spend or release. In the run,
  `install_candidate` reserves the continuation with its prepared request, the user writes before it is
  dispatched, and `supersede_prepared_model` closes the request without looking at the
  reservation (its docstring takes for granted that there is none). The same module has further ways to the same end when
  `Losses` and `MaxRepeats` allow them: a retried continuation, or a scheduled retry of a summary, that newer
  input overtakes; a job orphaned by a crash and newer input, because `complete_turn`
  (`turn_ops.py:303`), unlike `fail_turn` and `cancel_turn`, does not finish live jobs; a cancellation the
  provider acknowledges, which ends the Turn without finishing them. The
  exposure of a child that ended so keeps `settle_child_budget` refusing, and its parent cannot complete.

`driver` checks `NeverStranded` with conflicting calls, where the first finding cannot
happen; `Movable` counts an abort of a *paused* Turn as a way on, which the second leaves.

Met while modelling, and not stated by a run: after a continuation of a compaction whose outcome is unknown and
newer input, the plan offers `retry`, but `admit_retry` raises `ContextSourceChangedError` outside the handler of
`execution.py:295-308`, each time. And feedback that becomes eligible on a Thread whose head Turn was
started in the foreground makes `background_submission` (`host_ops.py:273-287`) raise `ValueError`,
which `consume` (`ci.py:149`), `resume_eligible` (`ci.py:179`) and the poll's commit do not catch: the host's lane (`host.py:363`)
stops at the same place on every tick, and with it everything behind that place: news are not collected, pending rows are
not sent, nothing is polled, until a Turn of the background becomes the Thread's head or nothing is left to repair. `CIWatch` has the
refusal (`Raises`), `MCChannels` the lane that it stops (`LaneStops`); `RowsSettle` and `FeedbackIsFollowed` except it by name.
And a launch may be abandoned: a cancellation that arrives between the commit of a launch and `after_commit`
(`tool_orchestrator.py:1080`) leaves a launched job that was never released, and its entry returns a cancelled
snapshot; a later owner, if only a host control that asks for `status`, restores the job, releases and runs it. The same
snapshot is given when a wait for a cancelled worker is itself cancelled. `docs/macos-command-sessions.md:20`
says "cancel 等待进程组清理". The model has both (`CancelPrepared`, `CancelAgain`); the abstract specification takes the
outcome `abandoned` for what it is, no word about the command.

## 6. Left out

* In the runner: context overflow and compaction inside `drive` (`Compaction` has that loop by itself); incomplete responses and their
  continuation; completion hooks and delivery evidence (the gate's verdict is a choice in
  `Finish`); the child-workspace condition of `complete_turn` (`Integration` has it).
* Turns of the older protocol without an owner lock: their leases and clocks,
  `adopt_execution_protocol`, `ConsumeMissing` of rows that predate the one-transaction
  result.
* In the runner: replay of an acknowledged reply, `authorization_revision` and automatic
  authorization (`BackgroundHost` has the last two); a hard guard that denies a call already approved.
* Reading the plan and committing the command that the accepted reply names is one step (`Offer`).
* A parent and its child are advanced by independent drivers, and each may be lost alone;
  in the code the child's usually runs in the parent's process.
* Token amounts: whether a limit is reached is a choice.
* In the host: lease clocks, heartbeats and claim generations (a second host cannot run beside the
  first, and within one process a claim is never taken over), `authorize_command` and channel authority, relocated
  databases and permission ceilings, `previous_turn_id`, `serve`'s idle exit, and the
  `request_id` of a reply (replies are those of `BackgroundHandle.resume`, which carry only the revision).
  A child's task holds its lock from the moment it is spawned, and does not fail by itself.
* In the channels: identity, pairing, inbound commands and the parsing of payloads; the recognition of the runtime's own
  comments; deadlines and token amounts of a repair (its allowance is a number of Turns). What a Turn reports is, for the
  outbox, a fact that changes whenever it likes. The code's own limits on reordering are in the model as they are: a
  `created` event of an older run that comes late selects that run again, and `changes_requested` on a commit the
  subscription already left is recorded as stale.
* In the workspaces: the commands of one integration are serial, because the store's executor has one thread; reading a
  file's state and replacing it is one step; the order of paths within a patch is arbitrary; a verification
  command is atomic and only its newest receipt is kept; the completion gate reads the tree in the
  step that completes; directories, permissions and paging are left out, and so is the pending-cancellation guard of
  `integrate`. A file that is edited and restored while a verification is recorded (`child_workspaces.py:261-268`) goes
  unnoticed by the code; `ParentFinishesTested` excuses that through `disturbed`. No code writes the status
  `read_only` that the removal accepts, and `record` requires a running parent, so some checkouts can never be
  removed; the model has the same gap.
* In compaction: token amounts and limits (an allowance is counted in calls), planning of the summary tree,
  elision of tool results, legacy plans, overflow recovery, and every text. Whether a
  summary passes validation is decided once per answer. One Turn is modelled; a cancellation is committed in one step. Reading a job
  that a cancelled schedule and a crash left behind (a `RuntimeError` on resume) is folded away.
* In background commands: the limit of 32 sessions and sessions without a job directory, progress and log reading, a
  preparation that fails, the nonces and identities of manifests. A worker that is reported `unavailable` may
  be one of two; what the other does is not concluded from it.
* The components that `PROJECT.json` marks `not_modelled`, with the reason. Some are
  planned (below); individual tools, sandboxing, provider protocols, the terminal and `rag/` are I/O,
  data or presentation and stay out.

## 7. Plan

Modelled, in the order of the plan: the ledger, the driver, the host, the channels, the child workspaces,
compaction, background commands; proved: every safety property and refinement that a passing run checks. What a next step
would take up:

1. **Locks**: Thread operation barriers and the legacy leases of Turns without an owner lock.
2. **Delivery gate**: evidence, completion proposals and checkpoints, as far as they are a protocol and not a
   reading of files.
