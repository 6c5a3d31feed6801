--------------------------- MODULE CommandSession ---------------------------
(***************************************************************************)
(* Durable background commands: the job directories that one controlling   *)
(* owner and its detached workers share (tools/builtins/command_sessions.py*)
(* and command_worker.py), and the launch in the ledger that releases a    *)
(* job (harness/tool_orchestrator.py, harness/command_recovery.py).        *)
(*                                                                         *)
(* An owner is the Session that launched a command, a later Session that   *)
(* restored it, or a host control that inspects it between Sessions.  Each *)
(* keeps an entry per job it controls, under the owner lock of the job's   *)
(* directory, and each may be killed at any point.  The workers are        *)
(* processes of their own: they survive their owner, take the run lock of  *)
(* the directory, and may be lost at any point too.                        *)
(***************************************************************************)
EXTENDS Naturals

CONSTANTS
    Commands,   \* the jobs of one Turn
    Workers     \* worker processes that may be spawned for a job, "none" not among them

VARIABLES
    call,       \* the launching call in the ledger
    files,      \* the marker files of each job directory
    result,     \* its result.json
    entry,      \* the entry of the owner that holds its owner.lock
    worker,     \* the worker processes of each job
    matching,   \* the policy in force is that of the manifest
    ran,        \* external: how often the command was executed
    published,  \* external: the jobs whose changes reached the workspace
    told        \* the terminal outcomes that an owner gave of a job

commandVars == <<call, files, result, entry, worker, matching, ran, published, told>>
jobDirectory == <<files, result>>
effects == <<ran, published>>

Owners == {"session", "host"}
Marker == {"release", "started", "cancel", "request", "permit"}

(* "abandoned" is a cancelled snapshot that no worker confirmed.            *)
Outcome == {"completed", "cancelled", "unknown", "unavailable", "revoked", "abandoned"}

(* The task of an entry is in its loop, or, cancelled, waits until the      *)
(* worker has reaped the command, or has returned an outcome.               *)
Live == {"running", "cancelling"}

Entry == [by : Owners, task : Live \cup Outcome, released : BOOLEAN,
          process : Workers \cup {"none"},    \* the worker it spawned itself
          revoked : BOOLEAN]                  \* it saw another policy

NoEntry == [by |-> "nobody"]

WorkerState == {"none", "starting", "locked", "started", "running", "asking", "publishing",
                "completing", "cancelling", "exited"}

(* The states of a worker that holds the run lock.                          *)
Holding == WorkerState \ {"none", "starting", "exited"}

CommandTypeOK ==
    /\ call \in [Commands -> {"none", "claimed", "launched", "ended"}]
    /\ files \in [Commands -> SUBSET Marker]
    /\ result \in [Commands -> {"none", "completed", "cancelled"}]
    /\ entry \in [Commands -> Entry \cup {NoEntry}]
    /\ worker \in [Commands -> [Workers -> WorkerState]]
    /\ matching \in BOOLEAN
    /\ ran \in [Commands -> Nat]
    /\ published \subseteq Commands
    /\ told \in [Commands -> SUBSET Outcome]

CommandInit ==
    /\ call = [c \in Commands |-> "none"]
    /\ files = [c \in Commands |-> {}]
    /\ result = [c \in Commands |-> "none"]
    /\ entry = [c \in Commands |-> NoEntry]
    /\ worker = [c \in Commands |-> [w \in Workers |-> "none"]]
    /\ matching = TRUE
    /\ ran = [c \in Commands |-> 0]
    /\ published = {}
    /\ told = [c \in Commands |-> {}]

-----------------------------------------------------------------------------
Owned(c) == entry[c] # NoEntry
AtTask(c, tasks) == Owned(c) /\ entry[c].task \in tasks
Marked(c, file) == file \in files[c]
Ended(c) == result[c] # "none"

Holders(c) == {w \in Workers : worker[c][w] \in Holding}
LockFree(c) == Holders(c) = {}

(* No worker can have begun, so that one may be spawned (_execute).         *)
Unstarted(c) == ~Marked(c, "started") /\ ~Ended(c)

(* Processes that have not begun are all alike: any of them is the next.    *)
NextWorker(c) == CHOOSE w \in Workers : worker[c][w] = "none"

(* The worker an entry spawned itself has exited.                           *)
ProcessEnded(c) == entry[c].process \in Workers /\ worker[c][entry[c].process] = "exited"

(* A worker began and is gone without a result: nothing can tell what it    *)
(* did, and nothing may run the command again.                              *)
Lost(c) == Marked(c, "started") /\ LockFree(c) /\ ~Ended(c)

Add(c, new) == files' = [files EXCEPT ![c] = @ \cup new]
Return(c, task) == entry' = [entry EXCEPT ![c].task = task, ![c].revoked = @ \/ ~matching]
Move(c, w, state) == worker' = [worker EXCEPT ![c][w] = state]

-----------------------------------------------------------------------------
(* The launch *)

(* run_command with a yield time: while one command of the Session is at    *)
(* work the next is refused (busy_output).  The first step of the task has  *)
(* locked and filled the directory before the tool returns.                 *)
Start(c) ==
    /\ call[c] = "none"
    /\ \A d \in Commands : AtTask(d, Live) => entry[d].by # "session"
    /\ call' = [call EXCEPT ![c] = "claimed"]
    /\ entry' = [entry EXCEPT ![c] = [by |-> "session", task |-> "running", released |-> FALSE,
                                      process |-> "none", revoked |-> FALSE]]
    /\ UNCHANGED <<jobDirectory, worker, matching, effects, told>>

(* The result of the launch, with the key of the job, enters the ledger.    *)
CommitLaunch(c) ==
    /\ call[c] = "claimed"
    /\ call' = [call EXCEPT ![c] = "launched"]
    /\ UNCHANGED <<jobDirectory, entry, worker, matching, effects, told>>

(* after_commit.  It is not reached when the Turn was cancelled, or the     *)
(* sink of its events raised, while the launch was being committed.         *)
Release(c) ==
    /\ call[c] = "launched" /\ AtTask(c, {"running"}) /\ ~entry[c].released
    /\ Add(c, {"release"})
    /\ entry' = [entry EXCEPT ![c].released = TRUE]
    /\ UNCHANGED <<call, result, worker, matching, effects, told>>

(* restore: a later owner takes the owner lock of a launched job, releases  *)
(* it, and its task goes through the loop once before anything else can     *)
(* reach it: it spawns a worker unless one has begun.  (A Session leaves    *)
(* out what it has recorded as ended; host controls and the reconciliation  *)
(* of a lost wait do not.)                                                  *)
Attached(o, c, process) ==
    /\ call[c] = "launched" /\ ~Owned(c)
    /\ entry' = [entry EXCEPT ![c] = [by |-> o, task |-> "running", released |-> TRUE,
                                      process |-> process, revoked |-> ~matching]]
    /\ Add(c, IF matching THEN {"release"} ELSE {"release", "cancel"})
    /\ UNCHANGED <<call, result, matching, effects, told>>

Attach(o, c) == ~Unstarted(c) /\ Attached(o, c, "none") /\ UNCHANGED worker

AttachAndSpawn(o, c, w) ==
    /\ Unstarted(c) /\ worker[c][w] = "none" /\ w = NextWorker(c)
    /\ Attached(o, c, w)
    /\ Move(c, w, "starting")

-----------------------------------------------------------------------------
(* The task of an entry: _execute *)

(* The policy is read at the head of each round; another policy that comes  *)
(* in the middle of one is as good as one that comes after it.              *)
InRound(c) == AtTask(c, {"running"}) /\ entry[c].released /\ (matching \/ entry[c].revoked)

(* Broken: the owner withholds what it shows and leaves the worker alone.   *)
WithholdOnly(c) ==
    /\ AtTask(c, {"running"}) /\ ~matching /\ ~entry[c].revoked
    /\ entry' = [entry EXCEPT ![c].revoked = TRUE]
    /\ UNCHANGED <<call, jobDirectory, worker, matching, effects, told>>

(* A job whose policy is no longer in force is cancelled, even before its   *)
(* release.                                                                 *)
Withhold(c) ==
    /\ AtTask(c, {"running"}) /\ ~matching /\ ~entry[c].revoked
    /\ Add(c, {"cancel"})
    /\ entry' = [entry EXCEPT ![c].revoked = TRUE]
    /\ UNCHANGED <<call, result, worker, matching, effects, told>>

Spawn(c, w) ==
    /\ InRound(c) /\ entry[c].process = "none" /\ Unstarted(c)
    /\ worker[c][w] = "none" /\ w = NextWorker(c)
    /\ entry' = [entry EXCEPT ![c].process = w]
    /\ Move(c, w, "starting")
    /\ UNCHANGED <<call, jobDirectory, matching, effects, told>>

(* Only fields of the entry change when its task returns.                   *)
OnlyEntry == UNCHANGED <<call, jobDirectory, worker, matching, effects, told>>

SeeResult(c) ==
    /\ InRound(c) /\ Ended(c)
    /\ Return(c, IF entry[c].revoked THEN "revoked" ELSE result[c])
    /\ OnlyEntry

SeeLost(c) == InRound(c) /\ Lost(c) /\ Return(c, "unknown") /\ OnlyEntry

SeeUnavailable(c) ==
    /\ InRound(c) /\ Unstarted(c) /\ ProcessEnded(c)
    /\ Return(c, "unavailable") /\ OnlyEntry

(* The worker asks for each publication under the authority in force now.   *)
Permit(c) ==
    /\ InRound(c) /\ ~entry[c].revoked
    /\ Marked(c, "request") /\ ~Marked(c, "permit")
    /\ Add(c, {"permit"})
    /\ UNCHANGED <<call, result, entry, worker, matching, effects, told>>

(* _cancel, by the tool, the end of the Turn, its cancellation or close, or *)
(* a change of policy.  A job that was never released has no worker: its    *)
(* task returns a cancelled snapshot and writes nothing.                    *)
CancelPrepared(c) ==
    /\ AtTask(c, {"running"}) /\ ~entry[c].released
    /\ Return(c, "abandoned")
    /\ call' = [call EXCEPT ![c] = IF @ = "claimed" THEN "ended" ELSE @]
    /\ UNCHANGED <<jobDirectory, worker, matching, effects, told>>

(* Under the run lock of a job that no worker was spawned for, the owner    *)
(* writes the result itself.                                                *)
Claimable(c) == entry[c].process = "none" /\ ~Marked(c, "started") /\ LockFree(c)

CancelUnstarted(c) ==
    /\ AtTask(c, {"running"}) /\ entry[c].released /\ Claimable(c)
    /\ Add(c, {"cancel"})
    /\ result' = [result EXCEPT ![c] = "cancelled"]
    /\ Return(c, "cancelled")
    /\ UNCHANGED <<call, worker, matching, effects, told>>

CancelStarted(c) ==
    /\ AtTask(c, {"running"}) /\ entry[c].released /\ ~Claimable(c)
    /\ Add(c, {"cancel"})
    /\ Return(c, "cancelling")
    /\ UNCHANGED <<call, result, worker, matching, effects, told>>

(* A cancellation of the Turn, or its end, meets a cancellation that the    *)
(* tool left waiting: cancelled again, the task gives up its wait.          *)
CancelAgain(c) ==
    /\ AtTask(c, {"cancelling"}) /\ entry[c].by = "session"
    /\ Return(c, "abandoned") /\ OnlyEntry

Reap(c) == AtTask(c, {"cancelling"}) /\ Ended(c) /\ Return(c, result[c]) /\ OnlyEntry
ReapLost(c) == AtTask(c, {"cancelling"}) /\ Lost(c) /\ Return(c, "unknown") /\ OnlyEntry

(* The process may exit between the read of the result and this poll.       *)
ReapUnavailable(c) ==
    AtTask(c, {"cancelling"}) /\ ProcessEnded(c) /\ Return(c, "unavailable") /\ OnlyEntry

-----------------------------------------------------------------------------
(* What an owner says, and how it goes *)

(* What may be said of a returned task: under another policy nothing but    *)
(* that (manage, _authorized_result).                                       *)
Sayable(c) ==
    {x \in {entry[c].task} : matching} \cup {x \in {"revoked"} : ~matching \/ entry[c].revoked}

(* An outcome is handed out or recorded (close_continuation).               *)
Report(c) ==
    /\ call[c] = "launched" /\ AtTask(c, Outcome)
    /\ \E x \in Sayable(c) : told' = [told EXCEPT ![c] = @ \cup {x}]
    /\ UNCHANGED <<call, jobDirectory, entry, worker, matching, effects>>

Forget(gone) == entry' = [c \in Commands |-> IF c \in gone THEN NoEntry ELSE entry[c]]
EntriesOf(o) == {c \in Commands : Owned(c) /\ entry[c].by = o}

(* A Session clears or evicts what has ended (cancel_results, start).       *)
Drop(c) ==
    /\ AtTask(c, Outcome) /\ entry[c].by = "session"
    /\ Forget({c})
    /\ UNCHANGED <<call, jobDirectory, worker, matching, effects, told>>

(* A host control leaves its jobs running (detach).                         *)
Detach ==
    /\ EntriesOf("host") # {}
    /\ Forget(EntriesOf("host"))
    /\ UNCHANGED <<call, jobDirectory, worker, matching, effects, told>>

(* The process of an owner ends: a launch it had not committed is lost with *)
(* its prepared directory, a worker is not.                                 *)
Crash(o) ==
    /\ EntriesOf(o) # {}
    /\ Forget(EntriesOf(o))
    /\ call' = [c \in Commands |-> IF c \in EntriesOf(o) /\ call[c] = "claimed" THEN "ended" ELSE call[c]]
    /\ UNCHANGED <<jobDirectory, worker, matching, effects, told>>

PolicyChanges ==
    /\ matching' = ~matching
    /\ UNCHANGED <<call, jobDirectory, entry, worker, effects, told>>

-----------------------------------------------------------------------------
(* A worker: main and execute of command_worker.py *)

At(c, w, states) == worker[c][w] \in states
OnlyWorker == UNCHANGED <<call, jobDirectory, entry, matching, effects, told>>

(* Broken: a job whose worker was lost is begun again.                      *)
StartableUnfinished(c) == ~Ended(c) /\ Marked(c, "release")

(* main takes the run lock first and looks then: a job that was begun, or   *)
(* has a result, is not begun again.                                        *)
Startable(c) == Unstarted(c) /\ Marked(c, "release")

TakeLock(c, w) ==
    /\ At(c, w, {"starting"}) /\ LockFree(c)
    /\ Move(c, w, IF Startable(c) THEN "locked" ELSE "exited")
    /\ OnlyWorker

(* Another worker holds the lock, or an owner that waits for a reaped       *)
(* command tries it at this moment.                                         *)
LockRefused(c, w) ==
    /\ At(c, w, {"starting"}) /\ (~LockFree(c) \/ AtTask(c, {"cancelling"}))
    /\ Move(c, w, "exited")
    /\ OnlyWorker

MarkStarted(c, w) ==
    /\ At(c, w, {"locked"})
    /\ Add(c, {"started"})
    /\ Move(c, w, "started")
    /\ UNCHANGED <<call, result, entry, matching, effects, told>>

Execute(c, w) ==
    /\ At(c, w, {"started"}) /\ ~Marked(c, "cancel")
    /\ ran' = [ran EXCEPT ![c] = @ + 1]
    /\ Move(c, w, "running")
    /\ UNCHANGED <<call, jobDirectory, entry, matching, published, told>>

(* The command ends by itself or at its deadline, if it has one; a sandboxed*)
(* one that may publish its changes asks for the permission of the owner.   *)
Finish(c, w) == At(c, w, {"running"}) /\ Move(c, w, "completing") /\ OnlyWorker

RequestPublication(c, w) ==
    /\ At(c, w, {"running"})
    /\ Add(c, {"request"})
    /\ Move(c, w, "asking")
    /\ UNCHANGED <<call, result, entry, matching, effects, told>>

Permitted(c, w) ==
    /\ At(c, w, {"asking"}) /\ Marked(c, "permit")
    /\ Move(c, w, "publishing")
    /\ OnlyWorker

(* The thread that publishes is waited for, and may fail.                   *)
MayPublish(c, w) ==
    \/ UNCHANGED published
    \/ At(c, w, {"publishing"}) /\ published' = published \cup {c}

Publish(c, w) ==
    /\ At(c, w, {"publishing"})
    /\ MayPublish(c, w)
    /\ Move(c, w, "completing")
    /\ UNCHANGED <<call, jobDirectory, entry, matching, ran, told>>

(* The marker of a cancellation is seen before the command begins or while  *)
(* it goes on; its process group is ended first.                            *)
Interrupt(c, w) ==
    /\ At(c, w, {"started", "running", "asking", "publishing"}) /\ Marked(c, "cancel")
    /\ MayPublish(c, w)
    /\ Move(c, w, "cancelling")
    /\ UNCHANGED <<call, jobDirectory, entry, matching, ran, told>>

(* The result is durable before the lock is given back.                     *)
WriteResult(c, w) ==
    /\ At(c, w, {"completing", "cancelling"})
    /\ result' = [result EXCEPT ![c] = IF At(c, w, {"completing"}) THEN "completed" ELSE "cancelled"]
    /\ Move(c, w, "exited")
    /\ UNCHANGED <<call, files, entry, matching, effects, told>>

(* It is killed, or raises.                                                 *)
WorkerLost(c, w) ==
    /\ ~At(c, w, {"none", "exited"})
    /\ MayPublish(c, w)
    /\ Move(c, w, "exited")
    /\ UNCHANGED <<call, jobDirectory, entry, matching, ran, told>>

-----------------------------------------------------------------------------
(* One round of an owner's task, the end of a command, and what a worker    *)
(* does besides.                                                            *)
TaskStep(c) ==
    \/ Withhold(c) \/ SeeResult(c) \/ SeeLost(c) \/ SeeUnavailable(c) \/ Permit(c)
    \/ Reap(c) \/ ReapLost(c) \/ ReapUnavailable(c)
    \/ \E w \in Workers : Spawn(c, w)

CommandEnds(c, w) == Finish(c, w) \/ RequestPublication(c, w)

WorkerStep(c, w) ==
    \/ TakeLock(c, w) \/ LockRefused(c, w) \/ MarkStarted(c, w) \/ Execute(c, w)
    \/ Permitted(c, w) \/ Publish(c, w) \/ Interrupt(c, w) \/ WriteResult(c, w)

OwnerStep(c) ==
    \/ Start(c) \/ CommitLaunch(c) \/ Release(c)
    \/ CancelPrepared(c) \/ CancelUnstarted(c) \/ CancelStarted(c) \/ CancelAgain(c)
    \/ Report(c) \/ Drop(c)
    \/ \E o \in Owners : Attach(o, c) \/ \E w \in Workers : AttachAndSpawn(o, c, w)

CommandNext ==
    \/ \E c \in Commands :
           \/ OwnerStep(c) \/ TaskStep(c)
           \/ \E w \in Workers : WorkerStep(c, w) \/ CommandEnds(c, w) \/ WorkerLost(c, w)
    \/ Detach \/ PolicyChanges
    \/ \E o \in Owners : Crash(o)

CommandSpec == CommandInit /\ [][CommandNext]_commandVars

(* The loop of an entry polls, and a worker goes on.  A command need not    *)
(* end (timeout_seconds may be null), and neither side owes anything to     *)
(* anybody once it is gone.                                                 *)
CommandFairness ==
    \A c \in Commands :
        /\ WF_commandVars(TaskStep(c))
        /\ \A w \in Workers : WF_commandVars(WorkerStep(c, w))

-----------------------------------------------------------------------------
(* What a background command promises *)

LaunchedJobs == {c \in Commands : call[c] = "launched"}

Job == INSTANCE DetachedJob WITH
    Jobs <- Commands,
    launched <- LaunchedJobs,
    runs <- ran, outcome <- result, reported <- told

(* A command runs at most once, and only after its launch was committed; it *)
(* ends once; and what any owner says of its end is so: a completed command *)
(* has completed, a cancelled or lost one does not act any more, whichever  *)
(* owners and workers were killed on the way (DurableCommandSessions: "A    *)
(* committed launch releases one detached worker; recovery never replays    *)
(* it").  A job given up unheard ("abandoned") is told nothing of.          *)
JobsKeepPromise == Job!Spec

(* Whoever waits for a released command gets an outcome, or is gone itself, *)
(* unless the command goes on uncancelled: neither a worker that died at    *)
(* some marker, nor one that asks for a permission withdrawn meanwhile,     *)
(* keeps the task of an owner, and with it the close of a Session, waiting  *)
(* for ever; and a command that never ends by itself ends when it is        *)
(* cancelled (_execute of both files).                                      *)
Waits(c) == AtTask(c, Live) /\ entry[c].released
GoesOn(c) == ~Marked(c, "cancel") /\ \E w \in Workers : worker[c][w] = "running"
WaitsEnd == \A c \in Commands : Waits(c) ~> (~Waits(c) \/ GoesOn(c))
=============================================================================
