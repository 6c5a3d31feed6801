--------------------------- MODULE BackgroundHost ---------------------------
(***************************************************************************)
(* The background host: agent_runtime/host.py over the durable commands of *)
(* harness/host_ops.py, with what it uses of harness/session.py,           *)
(* harness/subagents.py and of the recovery plan (harness/recovery.py).    *)
(*                                                                         *)
(* Clients append commands; one host per database claims them, places one  *)
(* driver task per command and settles the command when the driver ends.     *)
(* Each tick also rebuilds, from the facts alone, the wakes that Turns     *)
(* need to go on.  A Turn is what its plan tells apart: its ledger is in   *)
(* TurnLedger, its driver in TurnRunner.  Each Turn is on its own Thread,  *)
(* and a row of the queue stands for one command, in the order received.   *)
(***************************************************************************)
EXTENDS Naturals, FiniteSets, SequencesExt

CONSTANTS
    Turns, NoTurn,
    Parent,      \* Turn -> Turn or NoTurn; a child has no children of its own
    Workspace,   \* Turn -> the workspace of its Thread
    Concurrency, \* drivers at a time
    MaxSeq,      \* bound: a Turn past this sequence starts no model call
    MaxReplies, MaxControls,  \* bounds on the commands of clients
    MaxMishaps,  \* bound on the crashes, shutdowns and failures
    Crashes, Shutdowns, Failures,  \* whether the host is killed, closed, its drivers raise
    Observations \* whether a lost effect is a command session, observed again

ASSUME HostInputs ==
    /\ NoTurn \notin Turns
    /\ Parent \in [Turns -> Turns \cup {NoTurn}]
    /\ \A t \in Turns : Parent[t] \in Turns => Parent[Parent[t]] = NoTurn
    /\ Turns \subseteq DOMAIN Workspace
    /\ Concurrency \in 1..32
    /\ {MaxSeq, MaxReplies, MaxControls, MaxMishaps} \subseteq Nat
    /\ {Crashes, Shutdowns, Failures, Observations} \subseteq BOOLEAN

VARIABLES
    up,       \* "down", "up" or "closing": the process and its lock
    hand,     \* the control row the tick works on, or 0
    task,     \* row -> phase of its driver (_drivers)
    queue,    \* host_commands in rowid order
    state,    \* Turn -> what its facts say to the recovery plan
    seq,      \* Turn -> applied_thread_sequence
    cancel,   \* Turn -> its last such fact is a cancellation request
    exposed,  \* Turns with an attempt whose cost stays uncertain
    settled,  \* children whose allocation is settled
    owner,    \* Turn -> the row whose Sessions hold its execution lock, or 0
    mishaps   \* times the host ended or a driver raised

processVars == <<up, hand, task, owner, mishaps>>
turnVars == <<state, seq, cancel, exposed, settled>>
hostVars == <<processVars, queue, turnVars>>

DriverKinds == {"start", "reply", "wake", "finish"}
Kinds == DriverKinds \cup {"input", "cancel"}
Phases == {"placed", "submitting", "planning", "entering", "entering_cancel", "offering",
           "offering_auto", "driving", "cancelling", "closing", "stopping", "abandoning", "failing",
           "acking"}
Plans == {"terminal", "reconcile", "recover_owner", "cancel", "child_wait", "asked",
          "resume_cancelled", "retry_model", "next_step", "unavailable"}
RunningStates == {"ready", "model", "tool"}
States == RunningStates \cup {"absent", "asking", "unknown", "uncertain", "waiting", "guided",
                              "halted", "ended"}

Rows == DOMAIN queue
IsDriver(i) == queue[i].kind \in DriverKinds
TurnAt(i) == queue[i].turn
Root(t) == IF Parent[t] = NoTurn THEN t ELSE Parent[t]
Children(t) == {c \in Turns : Parent[c] = t}
CommandsOf(kind) == {i \in Rows : queue[i].kind = kind}

(* Of a reply: the sequence the client saw.  Of a wake: plan and sequence.  *)
NewRow(kind, t, verb, revision, plan) ==
    [kind |-> kind, turn |-> t, verb |-> verb, revision |-> revision, plan |-> plan,
     status |-> "pending", due |-> TRUE, grants |-> 0]

(* settle_command: only the current claim is settled.                       *)
Settled(i, status, due) ==
    IF queue[i].status = "claimed"
    THEN [queue EXCEPT ![i].status = status, ![i].due = due] ELSE queue

(* background_submission: the start of a Turn, or of its ancestor.          *)
Submission(t) == {i \in CommandsOf("start") : TurnAt(i) = Root(t)}
SubmissionIn(t, statuses) == \E i \in Submission(t) : queue[i].status \in statuses

-----------------------------------------------------------------------------
(* The recovery plan *)

ActiveChildren(t, done) == {c \in Children(t) \ done : state[c] # "absent"}
AncestorRevoked(t) == t # Root(t) /\ (cancel[Root(t)] \/ state[Root(t)] = "ended")
Revoked(t) == cancel[t] \/ AncestorRevoked(t)

(* _recovery_decision for facts s, with the children in done settled: the   *)
(* first that holds decides.                                                *)
PlanFor(t, s, done) ==
    IF s = "ended" THEN "terminal"
    ELSE IF s = "uncertain" THEN "reconcile"
    ELSE IF s \in {"model", "tool"} THEN "recover_owner"
    ELSE IF s = "ready" THEN (IF Revoked(t) THEN "cancel" ELSE "next_step")
    ELSE IF ~cancel[t] /\ AncestorRevoked(t) THEN (IF s = "unknown" THEN "unavailable" ELSE "cancel")
    ELSE IF s = "asking" THEN (IF cancel[t] THEN "unavailable" ELSE "asked")
    ELSE IF s = "waiting" /\ ~cancel[t] /\ ActiveChildren(t, done) # {} THEN "unavailable"
    ELSE IF s \in {"waiting", "guided"} /\ ~cancel[t] THEN "child_wait"
    ELSE IF s = "unknown" THEN "retry_model"      \* interrupted, not paused
    ELSE IF cancel[t] THEN "resume_cancelled" ELSE "unavailable"

Plan(t) == PlanFor(t, state[t], settled)

(* automatically_resumable                                                  *)
Automatic == {"terminal", "recover_owner", "cancel", "child_wait", "next_step"}

Accepts(plan, s, verb) ==
    IF verb = "abort" THEN s \notin {"absent", "ended", "uncertain", "tool"}
    ELSE plan \in {"recover_owner", "child_wait", "asked", "resume_cancelled", "retry_model", "next_step"}

(* recover_owner_loss under the lock: lost dispatches become unknown; with  *)
(* abort a running Turn is paused.                                          *)
Recovered(s, verb) ==
    CASE s = "model" -> "unknown"
      [] s = "tool" -> "uncertain"
      [] s = "ready" /\ verb = "abort" -> "halted"
      [] OTHER -> s

(* What a cancelled task leaves: its Turn paused, its effects unknown.      *)
Interrupted(s) == Recovered(s, "abort")

SetState(t, s) ==
    /\ state' = [state EXCEPT ![t] = s]
    /\ seq' = [seq EXCEPT ![t] = IF state[t] = s THEN @ ELSE @ + 1]
    /\ exposed' = IF s = "unknown" THEN exposed \cup {t} ELSE exposed

-----------------------------------------------------------------------------
(* Clients (background.py) *)

Admissible(t) == state[t] # "absent" \/ (Parent[t] = NoTurn /\ Submission(t) # {})

Send(row) == queue' = Append(queue, row) /\ UNCHANGED <<processVars, turnVars>>

Submit(t) ==
    /\ Parent[t] = NoTurn /\ Submission(t) = {}
    /\ Send(NewRow("start", t, "go", 0, "none"))

(* The command freezes the sequence the client sees.                        *)
Reply(t, verb) ==
    /\ Admissible(t) /\ state[t] # "ended"
    /\ Cardinality(CommandsOf("reply")) < MaxReplies
    /\ Send(NewRow("reply", t, verb, seq[t], "none"))

Control(t, kind) ==
    /\ Admissible(t)
    /\ Cardinality({i \in Rows : ~IsDriver(i)}) < MaxControls
    /\ Send(NewRow(kind, t, "go", 0, "none"))

Later(i) ==
    /\ queue[i].status = "pending" /\ ~queue[i].due
    /\ queue' = [queue EXCEPT ![i].due = TRUE]
    /\ UNCHANGED <<processVars, turnVars>>

-----------------------------------------------------------------------------
(* The life of the process *)

Mishap == mishaps < MaxMishaps /\ mishaps' = mishaps + 1

(* Broken: the claims of a lost host are left to it.                        *)
KeptClaim(row) == row

Released(row) ==
    IF row.status = "claimed" THEN [row EXCEPT !.status = "pending", !.due = TRUE] ELSE row

(* __aenter__: release_orphan_claims under the exclusive lock.              *)
StartHost ==
    /\ up = "down"
    /\ up' = "up"
    /\ queue' = [i \in Rows |-> Released(queue[i])]
    /\ UNCHANGED <<hand, task, owner, mishaps, turnVars>>

CrashHost ==
    /\ Crashes /\ Mishap
    /\ up # "down"
    /\ up' = "down" /\ hand' = 0 /\ task' = <<>>
    /\ owner' = [t \in Turns |-> 0]
    /\ UNCHANGED <<queue, turnVars>>

(* The children that the Session of a row drives.                           *)
ChildTasks(i) == {c \in Turns : owner[c] = i /\ c # TurnAt(i)}

(* Task.cancel: before its Session is open, only _execute's handler runs;   *)
(* after, the Session is left by an exception and gives up its children.    *)
Stopping(i) ==
    CASE task[i] \in {"offering", "offering_auto", "driving", "cancelling"} -> "stopping"
      [] task[i] \in {"entering", "entering_cancel"} -> "abandoning"
      [] task[i] = "closing" -> IF ChildTasks(i) # {} THEN "abandoning" ELSE "acking"
      [] task[i] \in {"placed", "submitting", "planning"} -> "acking"
      [] OTHER -> task[i]

(* __aexit__, once serve returned.  A task cancelled before its first step  *)
(* never runs: its claim stays.                                             *)
Shutdown ==
    /\ Shutdowns /\ Mishap
    /\ up = "up" /\ hand = 0
    /\ up' = "closing"
    /\ task' = [i \in {j \in DOMAIN task : task[j] # "placed"} |-> Stopping(i)]
    /\ UNCHANGED <<hand, owner, queue, turnVars>>

Closed ==
    /\ up = "closing" /\ DOMAIN task = {}
    /\ up' = "down"
    /\ UNCHANGED <<hand, task, owner, mishaps, queue, turnVars>>

-----------------------------------------------------------------------------
(* A tick of the host *)

Tick == up = "up"

(* claim_next, control: the oldest due command.                             *)
ClaimControl ==
    /\ Tick /\ hand = 0
    /\ \E i \in Rows :
           LET eligible(j) == ~IsDriver(j) /\ queue[j].status = "pending" /\ queue[j].due IN
           /\ eligible(i) /\ \A j \in 1..(i - 1) : ~eligible(j)
           /\ hand' = i
           /\ queue' = [queue EXCEPT ![i].status = "claimed"]
    /\ UNCHANGED <<up, task, owner, mishaps, turnVars>>

Held(kind) == Tick /\ hand # 0 /\ queue[hand].kind = kind /\ queue[hand].status = "claimed"

(* A start nobody ran yet is withdrawn, even from a driver that holds it.   *)
CancelAbsent(t) ==
    /\ state[t] = "absent"
    /\ queue' = [i \in Rows |->
           IF i \in Submission(t) /\ queue[i].status \in {"pending", "claimed"}
           THEN [queue[i] EXCEPT !.status = "rejected"] ELSE Settled(hand, "applied", TRUE)[i]]
    /\ UNCHANGED turnVars

(* Broken: a paused Turn keeps the request and nothing ends it.             *)
CancelUnfinished(t) ==
    /\ state[t] # "absent"
    /\ queue' = Settled(hand, "applied", TRUE)
    /\ cancel' = [cancel EXCEPT ![t] = @ \/ state[t] # "ended"]
    /\ UNCHANGED <<state, seq, exposed, settled>>

(* The request, the command that finishes it and the receipt together.      *)
CancelExisting(t) ==
    /\ state[t] # "absent"
    /\ IF state[t] = "ended"
       THEN queue' = Settled(hand, "applied", TRUE) /\ UNCHANGED turnVars
       ELSE /\ queue' = Append(Settled(hand, "applied", TRUE),
                               NewRow("finish", t, "abort", 0, "none"))
            /\ cancel' = [cancel EXCEPT ![t] = TRUE]
            /\ seq' = [seq EXCEPT ![t] = IF cancel[t] THEN @ ELSE @ + 1]
            /\ UNCHANGED <<state, exposed, settled>>

ApplyCancel ==
    /\ Held("cancel")
    /\ IF SubmissionIn(TurnAt(hand), {"rejected"})
       THEN /\ queue' = Settled(hand, "rejected", TRUE)
            /\ hand' = 0
            /\ UNCHANGED turnVars
       ELSE /\ CancelAbsent(TurnAt(hand)) \/ CancelExisting(TurnAt(hand))
            /\ UNCHANGED hand
    /\ UNCHANGED <<up, task, owner, mishaps>>

(* After the transaction: the drivers of the Turn, and its in-process task. *)
StopDrivers ==
    /\ Tick /\ hand # 0 /\ queue[hand].status = "applied"
    /\ LET t == TurnAt(hand) IN
       /\ task' = [i \in DOMAIN task |-> IF TurnAt(i) = t THEN Stopping(i) ELSE task[i]]
       /\ IF \E i \in DOMAIN task : t \in ChildTasks(i)
          THEN /\ SetState(t, Interrupted(state[t]))
               /\ cancel' = [cancel EXCEPT ![t] = @ \/ state[t] # "ended"]
               /\ owner' = [owner EXCEPT ![t] = 0]
               /\ UNCHANGED settled
          ELSE UNCHANGED <<owner, turnVars>>
    /\ hand' = 0
    /\ UNCHANGED <<up, mishaps, queue>>

(* receive_turn_input, or the wait for a Turn that does not exist yet.      *)
ApplyInput ==
    /\ Held("input")
    /\ LET t == TurnAt(hand)
           refused == \/ SubmissionIn(t, {"rejected"})
                      \/ state[t] = "absent" /\ SubmissionIn(t, {"blocked"})
                      \/ state[t] = "ended" \/ cancel[t]
       IN  /\ queue' = IF refused THEN Settled(hand, "rejected", TRUE)
                       ELSE IF state[t] = "absent" THEN Settled(hand, "pending", FALSE)
                       ELSE Settled(hand, "applied", TRUE)
           /\ IF refused \/ state[t] = "absent" THEN UNCHANGED <<state, seq>>
              ELSE /\ seq' = [seq EXCEPT ![t] = @ + 1]
                   /\ state' = [state EXCEPT ![t] = IF @ = "waiting" THEN "guided" ELSE @]
    /\ hand' = 0
    /\ UNCHANGED <<up, task, owner, mishaps, cancel, exposed, settled>>

(* A child that ended with no uncertain cost gives its allocation back.     *)
Settleable == {c \in Turns : Parent[c] # NoTurn /\ state[c] = "ended" /\ c \notin exposed}

Queued(t, statuses) == \E i \in Rows : IsDriver(i) /\ TurnAt(i) = t /\ queue[i].status \in statuses

(* A wake is named by its Turn, plan and sequence: it is received once.     *)
WakeOf(t, done) == NewRow("wake", t, "go", seq[t], PlanFor(t, state[t], done))
Received(wake) ==
    \E i \in CommandsOf("wake") :
        /\ TurnAt(i) = wake.turn
        /\ <<queue[i].plan, queue[i].revision>> = <<wake.plan, wake.revision>>

Sleeps(t, done) ==
    /\ state[t] \notin {"absent", "ended"}
    /\ ~Queued(t, {"pending", "claimed"}) /\ ~Queued(Root(t), {"claimed"})
    /\ PlanFor(t, state[t], done) \in Automatic

EnqueueWakeups ==
    LET done == settled \cup Settleable
        wakes == {WakeOf(t, done) : t \in {u \in Turns : Sleeps(u, done)}}
    IN  /\ Tick /\ hand = 0
        /\ settled' = done
        /\ queue' = queue \o SetToSeq({w \in wakes : ~Received(w)})
        /\ UNCHANGED <<processVars, state, seq, cancel, exposed>>

(* claim_next, drivers: one claim per Thread; then one driver per workspace.*)
ClaimDriver ==
    LET eligible(j) == /\ IsDriver(j) /\ j \notin DOMAIN task
                       /\ queue[j].status = "pending" /\ queue[j].due
                       /\ ~Queued(TurnAt(j), {"claimed"})
    IN  /\ Tick /\ hand = 0 /\ Cardinality(DOMAIN task) < Concurrency
        /\ \E i \in Rows :
               /\ eligible(i) /\ \A j \in 1..(i - 1) : ~eligible(j)
               /\ IF \E j \in DOMAIN task : Workspace[TurnAt(j)] = Workspace[TurnAt(i)]
                  THEN queue' = [queue EXCEPT ![i].due = FALSE] /\ UNCHANGED task
                  ELSE /\ queue' = [queue EXCEPT ![i].status = "claimed"]
                       /\ task' = [j \in DOMAIN task \cup {i} |-> IF j = i THEN "placed" ELSE task[j]]
        /\ UNCHANGED <<up, hand, owner, mishaps, turnVars>>

-----------------------------------------------------------------------------
(* A driver (_execute) *)

TaskIn(i, phases) == i \in DOMAIN task /\ task[i] \in phases
Goto(i, phase) == task' = [task EXCEPT ![i] = phase]
Done(i) == task' = [j \in DOMAIN task \ {i} |-> task[j]]

(* The driver settles its command and ends.                                 *)
FinishRow(i, status, due) == Done(i) /\ queue' = Settled(i, status, due)

(* Broken: the lock outlives the driver.                                    *)
StaysLocked(i) == UNCHANGED owner

Unlock(i) == owner' = [t \in Turns |-> IF t = TurnAt(i) /\ owner[t] = i THEN 0 ELSE owner[t]]

(* The Turn as read here decides what the Session will do after it opened.  *)
Open(i) ==
    /\ TaskIn(i, {"placed"})
    /\ LET t == TurnAt(i) IN
       IF state[t] # "ended" /\ SubmissionIn(t, {"rejected"}) THEN FinishRow(i, "rejected", TRUE)
       ELSE /\ Goto(i, IF state[t] = "ended" THEN "acking"
                       ELSE IF state[t] = "absent" THEN "submitting" ELSE "planning")
            /\ UNCHANGED queue
    /\ UNCHANGED <<up, hand, owner, mishaps, turnVars>>

(* The workspace is away, or the Session cannot be opened.                  *)
OpenFails(i) ==
    /\ TaskIn(i, {"submitting", "planning"})
    /\ Failures /\ Mishap
    /\ FinishRow(i, "pending", FALSE) \/ FinishRow(i, "blocked", TRUE)
    /\ UNCHANGED <<up, hand, owner, turnVars>>

(* Broken: admission trusts the claim the driver was given.                 *)
AdmittedUnchecked(i) == queue[i].verb = "go"

Admitted(i) ==
    /\ queue[i].verb = "go"
    /\ queue[i].status = "claimed" /\ ~SubmissionIn(TurnAt(i), {"rejected"})

(* Session.submit: admission checks the claim again, with the lock held.    *)
SubmitTurn(i) ==
    /\ TaskIn(i, {"submitting"})
    /\ LET t == TurnAt(i) IN
       IF Admitted(i)
       THEN /\ Goto(i, "driving")
            /\ owner' = [owner EXCEPT ![t] = i]
            /\ SetState(t, "ready")
            /\ UNCHANGED <<queue, cancel, settled>>
       ELSE FinishRow(i, "blocked", TRUE) /\ UNCHANGED <<owner, turnVars>>
    /\ UNCHANGED <<up, hand, mishaps>>

(* A start never supplies what the user has to decide.                      *)
ReadPlan(i) ==
    /\ TaskIn(i, {"planning"})
    /\ LET t == TurnAt(i)
           asks == queue[i].kind = "start"
                   /\ Plan(t) \in {"reconcile", "asked", "retry_model", "resume_cancelled"}
           offered == Accepts(Plan(t), state[t], queue[i].verb)
       IN  IF ~asks /\ ~offered /\ Plan(t) # "cancel"
           THEN FinishRow(i, "blocked", TRUE)
           ELSE /\ Goto(i, IF asks THEN "acking"
                           ELSE IF Plan(t) = "cancel" THEN "entering_cancel" ELSE "entering")
                /\ UNCHANGED queue
    /\ UNCHANGED <<up, hand, owner, mishaps, turnVars>>

(* Broken: a reply is good for whatever it finds.                           *)
NeverStale(i) == FALSE

(* The lock is taken or the command waits.  Then the freshness of a reply   *)
(* is read, before what the lost owner left is recovered.                   *)
Stale(i) == queue[i].kind = "reply" /\ queue[i].revision # seq[TurnAt(i)]

Enter(i) ==
    /\ TaskIn(i, {"entering", "entering_cancel"})
    /\ LET t == TurnAt(i)
           automatic == queue[i].kind \in {"start", "wake"} \/ Stale(i)
       IN  \/ /\ owner[t] # 0
              /\ FinishRow(i, "pending", FALSE)
              /\ UNCHANGED <<owner, turnVars>>
           \/ /\ owner[t] = 0
              /\ owner' = [owner EXCEPT ![t] = i]
              /\ IF TaskIn(i, {"entering_cancel"})
                 THEN Goto(i, "cancelling") /\ UNCHANGED turnVars
                 ELSE /\ Goto(i, IF automatic THEN "offering_auto" ELSE "offering")
                      /\ SetState(t, Recovered(state[t], queue[i].verb))
                      /\ UNCHANGED <<cancel, settled>>
              /\ UNCHANGED queue
    /\ UNCHANGED <<up, hand, mishaps>>

(* drive with an action reads the plan again.  A continuation nobody        *)
(* authorised ends at a plan that needs the user; one that does not fit     *)
(* the plan is an error.                                                    *)
NeedsUser == {"asked", "retry_model", "resume_cancelled"}

Declined(i, plan) ==
    \/ TaskIn(i, {"offering_auto"}) /\ plan \notin Automatic
    \/ plan = "reconcile" /\ queue[i].verb = "go"

Misfit(i, plan, s) == ~Accepts(plan, s, queue[i].verb)

(* reconcile_command_observation: the outcome of a command whose observer   *)
(* was lost is read again, and the Turn resumes.                            *)
Observe(i) ==
    /\ Observations /\ queue[i].verb = "go"
    /\ TaskIn(i, {"offering", "offering_auto"})
    /\ LET t == TurnAt(i) IN
       /\ Plan(t) = "reconcile"
       /\ SetState(t, "ready")
       /\ cancel' = [cancel EXCEPT ![t] = FALSE]
    /\ UNCHANGED <<processVars, queue, settled>>

Decline(i) ==
    /\ TaskIn(i, {"offering", "offering_auto"})
    /\ LET plan == Plan(TurnAt(i)) IN
       /\ Declined(i, plan) \/ Misfit(i, plan, state[TurnAt(i)])
       /\ Goto(i, IF Declined(i, plan) THEN "closing" ELSE "failing")
    /\ Unlock(i)
    /\ UNCHANGED <<up, hand, mishaps, queue, turnVars>>

(* What is accepted resumes the Turn and withdraws its cancellation: a      *)
(* retry too, whose attempt is prepared and then dispatched like any other. *)
Offer(i) ==
    /\ TaskIn(i, {"offering", "offering_auto"})
    /\ LET t == TurnAt(i)
           plan == Plan(t)
           abort == queue[i].verb = "abort"
       IN  /\ ~Declined(i, plan) /\ ~Misfit(i, plan, state[t])
           /\ SetState(t, IF abort THEN "ended" ELSE "ready")
           /\ cancel' = [cancel EXCEPT ![t] = @ /\ (abort \/ plan \notin {"resume_cancelled", "retry_model"})]
           /\ queue' = [queue EXCEPT ![i].grants = IF ~abort /\ plan \in NeedsUser THEN @ + 1 ELSE @]
    /\ Goto(i, "driving")
    /\ UNCHANGED <<up, hand, owner, mishaps, settled>>

(* Session.__aexit__ waits for the attached children; then _ack.            *)
Ack(i) ==
    /\ TaskIn(i, {"acking", "closing"})
    /\ TaskIn(i, {"closing"}) => ChildTasks(i) = {}
    /\ LET pending == state[TurnAt(i)] \in RunningStates \cup {"absent"} IN
       FinishRow(i, IF pending THEN "pending" ELSE "applied", TRUE)
    /\ UNCHANGED <<up, hand, owner, mishaps, turnVars>>

(* The Session of an interrupted driver records the cancellation.           *)
RecordCancellation(i) ==
    /\ TaskIn(i, {"stopping"})
    /\ LET t == TurnAt(i) IN
       /\ SetState(t, Interrupted(state[t]))
       /\ cancel' = [cancel EXCEPT ![t] = @ \/ state[t] # "ended"]
    /\ Goto(i, "abandoning") /\ Unlock(i)
    /\ UNCHANGED <<up, hand, mishaps, queue, settled>>

(* SubagentManager.cancel: a child is revoked, stopped if it runs here, and *)
(* ended unless an effect of it stays uncertain or another driver has it.   *)
Abandoned(i, c) ==
    LET s == IF owner[c] = i THEN Interrupted(state[c]) ELSE state[c] IN
    IF s \in RunningStates \cup {"uncertain"} THEN s ELSE "ended"

AbandonChildren(i) ==
    LET kids == {c \in Children(TurnAt(i)) : state[c] \notin {"absent", "ended"}} IN
    /\ TaskIn(i, {"abandoning", "failing"})
    /\ state' = [c \in Turns |-> IF c \in kids THEN Abandoned(i, c) ELSE state[c]]
    /\ seq' = [c \in Turns |-> IF c \in kids THEN seq[c] + 1 ELSE seq[c]]
    /\ cancel' = [c \in Turns |-> cancel[c] \/ c \in kids]
    /\ exposed' = exposed \cup {c \in kids : owner[c] = i /\ state[c] = "model"}
    /\ settled' = settled \cup {c \in kids : state'[c] = "ended" /\ c \notin exposed'}
    /\ owner' = [c \in Turns |-> IF owner[c] = i THEN 0 ELSE owner[c]]
    /\ IF task[i] = "failing" THEN FinishRow(i, "blocked", TRUE)
                              ELSE Goto(i, "acking") /\ UNCHANGED queue
    /\ UNCHANGED <<up, hand, mishaps>>

(* drive raises: the Turn stays as it is, the command is blocked.           *)
DriverRaises(i) ==
    /\ TaskIn(i, {"driving", "cancelling"})
    /\ Failures /\ Mishap
    /\ Goto(i, "failing") /\ Unlock(i)
    /\ UNCHANGED <<up, hand, queue, turnVars>>

-----------------------------------------------------------------------------
(* The Turns that drivers advance *)

Driven(t) == owner[t] # 0 /\ TaskIn(owner[t], {"driving", "cancelling", "closing"})

TurnStep(t, s) ==
    /\ Driven(t)
    /\ SetState(t, s)
    /\ UNCHANGED <<processVars, queue, cancel, settled>>

Dispatch(t) == state[t] = "ready" /\ ~Revoked(t) /\ seq[t] < MaxSeq /\ TurnStep(t, "model")
ReturnResponse(t) == state[t] = "model" /\ \E s \in {"ready", "tool"} : TurnStep(t, s)
ReportResult(t) == state[t] = "tool" /\ TurnStep(t, "ready")
Ask(t) == state[t] = "ready" /\ ~Revoked(t) /\ TurnStep(t, "asking")

(* An outcome nobody knows pauses the Turn.                                 *)
Lose(t) ==
    \/ state[t] = "model" /\ TurnStep(t, "unknown")
    \/ state[t] = "tool" /\ TurnStep(t, "uncertain")

(* A tool call reserves a child, whose task runs in the parent's Session.   *)
SpawnChild(t, c) ==
    /\ Parent[c] = t /\ state[c] = "absent"
    /\ Driven(t) /\ state[t] = "tool" /\ ~Revoked(t)
    /\ SetState(c, "ready")
    /\ owner' = [owner EXCEPT ![c] = owner[t]]
    /\ UNCHANGED <<up, hand, task, mishaps, queue, cancel, settled>>

(* The final answer waits for the tasks of the children, settles them, and  *)
(* is withheld while an allocation stays open.                              *)
Answer(t) ==
    LET done == settled \cup (Children(t) \cap Settleable) IN
    /\ Driven(t) /\ state[t] = "ready" /\ ~Revoked(t)
    /\ \A c \in Children(t) : owner[c] # owner[t]
    /\ SetState(t, IF ActiveChildren(t, done) = {} THEN "ended" ELSE "waiting")
    /\ settled' = done
    /\ UNCHANGED <<processVars, queue, cancel>>

(* The plan is cancel: the Turn is paused and ended.                        *)
Close(t) ==
    /\ state[t] = "ready" \/ TaskIn(owner[t], {"cancelling"})
    /\ Plan(t) = "cancel"
    /\ Driven(t)
    /\ SetState(t, "ended")
    /\ cancel' = [cancel EXCEPT ![t] = TRUE]
    /\ UNCHANGED <<processVars, queue, settled>>

(* drive returns and the lock is free.  A child's task settles it.          *)
Leave(t) ==
    /\ Driven(t)
    /\ state[t] \notin RunningStates
    /\ TaskIn(owner[t], {"cancelling"}) => Plan(t) # "cancel"
    /\ owner' = [owner EXCEPT ![t] = 0]
    /\ IF TurnAt(owner[t]) = t THEN Goto(owner[t], "closing") /\ UNCHANGED settled
       ELSE settled' = settled \cup ({t} \cap Settleable) /\ UNCHANGED task
    /\ UNCHANGED <<up, hand, mishaps, queue, state, seq, cancel, exposed>>

Advance(t) ==
    \/ Dispatch(t) \/ ReturnResponse(t) \/ ReportResult(t) \/ Ask(t) \/ Lose(t)
    \/ Answer(t) \/ Close(t) \/ Leave(t)
    \/ \E c \in Turns : SpawnChild(t, c)

Drive(i) ==
    \/ Open(i) \/ OpenFails(i) \/ SubmitTurn(i) \/ ReadPlan(i) \/ Enter(i)
    \/ Observe(i) \/ Decline(i) \/ Offer(i) \/ Ack(i)
    \/ RecordCancellation(i) \/ AbandonChildren(i) \/ DriverRaises(i)

Client(t) ==
    \/ Submit(t)
    \/ \E kind \in {"input", "cancel"} : Control(t, kind)
    \/ \E verb \in {"go", "abort"} : Reply(t, verb)

ApplyControl == ClaimControl \/ ApplyCancel \/ StopDrivers \/ ApplyInput

Init ==
    /\ up = "down" /\ hand = 0 /\ task = <<>> /\ queue = <<>> /\ mishaps = 0
    /\ state = [t \in Turns |-> "absent"]
    /\ seq = [t \in Turns |-> 0]
    /\ cancel = [t \in Turns |-> FALSE]
    /\ exposed = {} /\ settled = {}
    /\ owner = [t \in Turns |-> 0]

Next ==
    \/ \E t \in Turns : Client(t) \/ Advance(t)
    \/ \E i \in Rows : Later(i) \/ Drive(i)
    \/ StartHost \/ CrashHost \/ Shutdown \/ Closed
    \/ ApplyControl \/ EnqueueWakeups \/ ClaimDriver

Spec == Init /\ [][Next]_hostVars

(* The host is started again, its tick and its drivers go on, retry delays  *)
(* pass.  Nothing is asked of clients, and the host may end at any time.    *)
Fairness(MaxRows) ==
    /\ WF_hostVars(StartHost) /\ WF_hostVars(Closed)
    /\ WF_hostVars(ApplyControl) /\ WF_hostVars(EnqueueWakeups) /\ WF_hostVars(ClaimDriver)
    /\ \A i \in 1..MaxRows : WF_hostVars(i \in Rows /\ Later(i)) /\ WF_hostVars(i \in Rows /\ Drive(i))
    /\ \A t \in Turns : WF_hostVars(Advance(t))

-----------------------------------------------------------------------------
(* What the host promises *)

TypeOK ==
    /\ up \in {"down", "up", "closing"} /\ hand \in Rows \cup {0} /\ mishaps \in 0..MaxMishaps
    /\ DOMAIN task \subseteq Rows /\ \A i \in DOMAIN task : IsDriver(i) /\ task[i] \in Phases
    /\ \A i \in Rows :
           /\ queue[i].kind \in Kinds /\ TurnAt(i) \in Turns
           /\ queue[i].status \in {"pending", "claimed", "applied", "rejected", "blocked"}
           /\ queue[i].due \in BOOLEAN
           /\ queue[i].kind = "wake" => queue[i].plan \in Plans
    /\ state \in [Turns -> States] /\ seq \in [Turns -> Nat] /\ cancel \in [Turns -> BOOLEAN]
    /\ exposed \subseteq Turns /\ settled \subseteq Turns
    /\ \A t \in Turns : owner[t] \in DOMAIN task \cup {0}

(* A submission the user withdrew never becomes a Turn, not even when a     *)
(* driver held its claim and was about to admit it (reject_queued_start,    *)
(* BackgroundHost._guard).                                                  *)
RejectedNeverRuns == \A t \in Turns : SubmissionIn(t, {"rejected"}) => state[t] = "absent"

(* One reply of the user authorises at most one continuation: delivered     *)
(* again after a crash it may finish what was committed, and never answers  *)
(* a later question or retries another attempt (authorization_revision).    *)
RepliesAuthoriseOnce == \A i \in Rows : queue[i].grants <= 1

(* "Reconstruct safe wakeups" (enqueue_wakeups): a Turn that can go on      *)
(* without the user, and that no command drives, can be woken: its wake is  *)
(* not the name of a command that is settled already.                       *)
WakeupsAreReconstructed ==
    LET done == settled \cup Settleable IN
    \A t \in Turns : Sleeps(t, done) => ~Received(WakeOf(t, done))

(* A Turn that can go on without the user does not stay so for ever,        *)
(* whichever driver was lost (enqueue_wakeups, claim_next, _execute).       *)
GoesOnAlone(t) == state[t] \notin {"absent", "ended"} /\ Plan(t) \in Automatic
NothingSleeps == \A t \in Turns : GoesOnAlone(t) ~> ~GoesOnAlone(t)

(* A cancellation that was applied ends the Turn, or leaves it at an effect  *)
(* only the user can settle (_control, its finishing command).              *)
CancelApplied(t) == \E i \in CommandsOf("cancel") : TurnAt(i) = t /\ queue[i].status = "applied"
CancelStops ==
    \A t \in Turns : CancelApplied(t) ~> state[t] \in {"absent", "ended", "uncertain"}
=============================================================================
