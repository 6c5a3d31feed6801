------------------------- MODULE BackgroundHost_proofs -------------------------
(***************************************************************************)
(* What the background host promises of its commands and its locks, for    *)
(* any Turns and workspaces, any number of commands, drivers, crashes and  *)
(* shutdowns, and clients that ask whatever they like.                     *)
(***************************************************************************)
EXTENDS BackgroundHost, FiniteSetTheorems, SequenceTheorems, TLAPS

Statuses == {"pending", "claimed", "applied", "rejected", "blocked"}
Row == [kind : Kinds, turn : Turns, verb : {"go", "abort"}, revision : Nat,
        plan : Plans \cup {"none"}, status : Statuses, due : BOOLEAN, grants : Nat]

Known(t) == state[t] # "absent"

HostTyped ==
    /\ up \in {"down", "up", "closing"} /\ hand \in Rows \cup {0} /\ mishaps \in 0..MaxMishaps
    /\ queue \in Seq(Row)
    /\ state \in [Turns -> States] /\ seq \in [Turns -> Nat] /\ cancel \in [Turns -> BOOLEAN]
    /\ exposed \subseteq Turns /\ settled \subseteq Turns /\ owner \in [Turns -> Nat]

(* A command is about a Turn that exists, or about a submission; a reply    *)
(* that was used is older than its Turn.                                    *)
RowStands(row) ==
    /\ row.kind = "wake" => row.plan \in Plans
    /\ row.kind = "start" => Parent[row.turn] = NoTurn
    /\ row.kind = "finish" => row.verb = "abort"
    /\ Known(row.turn) \/ Parent[row.turn] = NoTurn
    /\ row.revision <= seq[row.turn]
    /\ \/ row.grants = 0
       \/ row.grants = 1 /\ row.kind = "reply" /\ row.revision < seq[row.turn]

RowsStand == \A i \in Rows : RowStands(queue[i])

(* A child exists only beside its parent; finitely many Turns exist.        *)
FamiliesStand ==
    /\ \A t \in Turns : Known(t) => Known(Root(t))
    /\ IsFiniteSet({t \in Turns : Known(t)})

(* What a driver found when it looked at its Turn is still so: it exists,   *)
(* and a reply that came fresh has not been used.                           *)
Opened == {"planning", "entering", "entering_cancel", "offering",
           "offering_auto", "driving", "cancelling", "stopping"}

Fits(i, p) ==
    /\ p \in Phases
    /\ p \in Opened => Known(TurnAt(i))
    /\ p = "offering" => queue[i].kind \in {"reply", "finish"} /\ queue[i].grants = 0

TaskStands(i) == i \in Rows /\ IsDriver(i) /\ Fits(i, task[i])

TasksStand == \A i \in DOMAIN task : TaskStands(i)

(* The lock of a Turn follows the driver of the command, or for a child the *)
(* driver of its parent, and is given back before that driver ends.         *)
OwnPhases == {"offering", "offering_auto", "driving", "cancelling", "stopping"}
ParentPhases == {"driving", "cancelling", "closing", "stopping", "abandoning", "failing"}

LockStands(t) ==
    owner[t] # 0 =>
        /\ Known(t) /\ TurnAt(owner[t]) \in {t, Parent[t]}
        /\ TaskIn(owner[t], IF TurnAt(owner[t]) = t THEN OwnPhases ELSE ParentPhases)

LocksStand == \A t \in Turns : LockStands(t)

(* The inductive invariant.                                                 *)
HostInv ==
    /\ HostTyped /\ RowsStand /\ FamiliesStand /\ TasksStand /\ LocksStand /\ RejectedNeverRuns

-----------------------------------------------------------------------------
(* The shapes of a step: what becomes of the queue *)

FreshRow(row) ==
    /\ row \in Row /\ row.status = "pending" /\ row.grants = 0
    /\ row.kind = "wake" => row.plan \in Plans
    /\ row.kind = "start" => Parent[row.turn] = NoTurn
    /\ row.kind = "finish" => row.verb = "abort"
    /\ Known(row.turn) \/ Parent[row.turn] = NoTurn
    /\ row.revision <= seq[row.turn]

SameCommand(i) ==
    /\ queue'[i].kind = queue[i].kind /\ queue'[i].turn = queue[i].turn
    /\ queue'[i].verb = queue[i].verb /\ queue'[i].plan = queue[i].plan
    /\ queue'[i].revision = queue[i].revision

(* A start is rejected only while its Turn does not exist.                  *)
JustRejected(i) ==
    queue'[i].status = "rejected" =>
        queue[i].status = "rejected" \/ queue[i].kind # "start" \/ ~Known(queue[i].turn)

(* Commands stay and are only settled; new ones are fresh.                  *)
CommandsKept ==
    /\ queue' \in Seq(Row) /\ Rows \subseteq DOMAIN queue'
    /\ \A i \in Rows : SameCommand(i) /\ JustRejected(i)
    /\ \A i \in (DOMAIN queue') \ Rows : FreshRow(queue'[i])

(* A reply is used when its Turn goes past what the user saw, and its       *)
(* driver goes on.                                                          *)
GrantKept(i) ==
    \/ queue'[i].grants = queue[i].grants
    \/ /\ queue'[i].grants = 1 /\ queue[i].kind = "reply"
       /\ queue[i].revision < seq'[queue[i].turn]
       /\ i \in DOMAIN task' => task'[i] # "offering"

GrantsKept == \A i \in Rows : GrantKept(i)

QueueMoves == CommandsKept /\ GrantsKept

LEMMA RowsAreNat ==
    ASSUME HostTyped
    PROVE  Rows \subseteq Nat \ {0} /\ Rows = 1..Len(queue) /\ Len(queue) \in Nat
  BY LenProperties DEF HostTyped, Rows

LEMMA RowTyped == ASSUME HostTyped, NEW i \in Rows PROVE queue[i] \in Row
  BY RowsAreNat, ElementOfSeq DEF HostTyped

LEMMA QueueStays == ASSUME HostTyped, queue' = queue PROVE QueueMoves
  BY DEF QueueMoves, CommandsKept, GrantsKept, GrantKept, HostTyped, Rows, SameCommand, JustRejected

LEMMA RowsRewritten ==
    ASSUME HostTyped, queue' = [i \in Rows |-> queue'[i]],
           \A i \in Rows : queue'[i] \in Row /\ SameCommand(i) /\ JustRejected(i)
    PROVE  CommandsKept
  <1>1. queue' \in [1..Len(queue) -> Row] /\ Len(queue) \in Nat
    BY RowsAreNat
  <1>2. queue' \in Seq(Row)
    BY <1>1, SeqDef
  <1>3. DOMAIN queue' = Rows
    OBVIOUS
  <1> QED BY <1>2, <1>3 DEF CommandsKept

LEMMA OneRowRewritten ==
    ASSUME HostTyped, NEW k \in Rows, NEW status \in Statuses, NEW due \in BOOLEAN,
           \/ queue' = [queue EXCEPT ![k].status = status]
           \/ queue' = [queue EXCEPT ![k].due = due]
           \/ queue' = [queue EXCEPT ![k].status = status, ![k].due = due],
           status = "rejected" => queue[k].kind # "start" \/ ~Known(queue[k].turn)
    PROVE  QueueMoves
  <1>1. queue \in [Rows -> Row]
    BY RowsAreNat, LenProperties DEF HostTyped
  <1>2. queue' = [i \in Rows |-> queue'[i]]
    BY <1>1
  <1>3. \A i \in Rows : queue'[i] = IF i = k THEN queue'[k] ELSE queue[i]
    BY <1>1
  <1>4. /\ queue[k] \in Row /\ queue'[k] \in Row
        /\ SameCommand(k) /\ queue'[k].grants = queue[k].grants
        /\ queue'[k].status \in {queue[k].status, status}
    BY <1>1, RowTyped DEF SameCommand, Row
  <1>5. \A i \in Rows : /\ queue'[i] \in Row /\ SameCommand(i) /\ JustRejected(i)
                        /\ queue'[i].grants = queue[i].grants
    BY <1>1, <1>3, <1>4 DEF SameCommand, JustRejected
  <1> QED BY <1>2, <1>5, RowsRewritten DEF QueueMoves, GrantsKept, GrantKept

LEMMA RowSettled ==
    ASSUME HostTyped, NEW k \in Rows, NEW status \in Statuses, NEW due \in BOOLEAN,
           queue' = Settled(k, status, due),
           status = "rejected" => queue[k].kind # "start" \/ ~Known(queue[k].turn)
    PROVE  QueueMoves
  BY OneRowRewritten, QueueStays DEF Settled

LEMMA RowAppended ==
    ASSUME HostTyped, NEW row, FreshRow(row), queue' = Append(queue, row)
    PROVE  QueueMoves
  <1>1. queue \in Seq(Row) /\ row \in Row /\ Rows = 1..Len(queue) /\ Len(queue) \in Nat
    BY RowsAreNat DEF HostTyped, FreshRow
  <1>2. queue' \in Seq(Row) /\ Len(queue') = Len(queue) + 1 /\ queue'[Len(queue) + 1] = row
    BY <1>1, AppendProperties
  <1>3. \A i \in Rows : queue'[i] = queue[i]
    BY <1>1, AppendProperties
  <1>4. DOMAIN queue' = 1..(Len(queue) + 1)
    BY <1>2, LenProperties
  <1>5. (DOMAIN queue') \ Rows = {Len(queue) + 1}
    BY <1>1, <1>4
  <1> QED BY <1>1, <1>2, <1>3, <1>4, <1>5
           DEF QueueMoves, CommandsKept, GrantsKept, GrantKept, SameCommand, JustRejected

-----------------------------------------------------------------------------
(* What becomes of the Turns *)

TurnsTyped ==
    /\ state' \in [Turns -> States] /\ seq' \in [Turns -> Nat] /\ cancel' \in [Turns -> BOOLEAN]
    /\ exposed' \subseteq Turns /\ settled' \subseteq Turns

TurnsGrow == \A t \in Turns : (Known(t) => Known(t)') /\ seq[t] <= seq'[t]
TurnsMove == TurnsTyped /\ TurnsGrow /\ \A t \in Turns : Known(t)' => Known(t)

LEMMA TurnsStay == ASSUME HostTyped, UNCHANGED turnVars PROVE TurnsMove
  BY DEF TurnsMove, TurnsTyped, TurnsGrow, turnVars, HostTyped, Known

LEMMA StateSet ==
    ASSUME HostTyped, NEW t \in Turns, Known(t), NEW s \in States \ {"absent"}, SetState(t, s),
           cancel' \in [Turns -> BOOLEAN], settled' \subseteq Turns
    PROVE  TurnsMove
  <1>1. state' \in [Turns -> States] /\ \A u \in Turns : state'[u] = IF u = t THEN s ELSE state[u]
    BY DEF SetState, HostTyped
  <1>2. seq' \in [Turns -> Nat] /\ \A u \in Turns : seq[u] <= seq'[u]
    BY DEF SetState, HostTyped
  <1>3. exposed' \subseteq Turns
    BY DEF SetState, HostTyped
  <1> QED BY <1>1, <1>2, <1>3 DEF TurnsMove, TurnsTyped, TurnsGrow, Known

LEMMA RootIsTurn == ASSUME NEW t \in Turns PROVE Root(t) \in Turns /\ Root(Root(t)) = Root(t)
  BY HostInputs DEF Root

LEMMA RowsStillStand ==
    ASSUME HostTyped, RowsStand, QueueMoves, TurnsTyped, TurnsGrow
    PROVE  RowsStand'
  <1> SUFFICES ASSUME NEW i \in DOMAIN queue' PROVE RowStands(queue[i])'
    BY DEF RowsStand, Rows
  <1>1. CASE i \in Rows
    <2>1. RowStands(queue[i]) /\ SameCommand(i) /\ GrantKept(i)
      BY <1>1 DEF RowsStand, QueueMoves, CommandsKept, GrantsKept
    <2>2. queue[i] \in Row
      BY <1>1, RowTyped
    <2>3. queue[i].turn \in Turns /\ queue[i].revision \in Nat
      BY <2>2 DEF Row
    <2> QED BY <2>1, <2>3 DEF RowStands, SameCommand, GrantKept, TurnsGrow, TurnsTyped, HostTyped, Known
  <1>2. CASE i \notin Rows
    <2>1. FreshRow(queue'[i])
      BY <1>2 DEF QueueMoves, CommandsKept
    <2>2. queue'[i].turn \in Turns /\ queue'[i].revision \in Nat
      BY <2>1 DEF FreshRow, Row
    <2> QED BY <2>1, <2>2 DEF FreshRow, RowStands, TurnsGrow, TurnsTyped, HostTyped, Known
  <1> QED BY <1>1, <1>2

LEMMA FamiliesStillStand == ASSUME FamiliesStand, TurnsMove PROVE FamiliesStand'
  <1>1. {t \in Turns : Known(t)}' = {t \in Turns : Known(t)}
    BY DEF TurnsMove, TurnsGrow
  <1>2. \A t \in Turns : Known(t)' => Known(Root(t))'
    BY RootIsTurn DEF FamiliesStand, TurnsMove, TurnsGrow, Known
  <1> QED BY <1>1, <1>2 DEF FamiliesStand, Root

LEMMA RejectedStillNeverRuns ==
    ASSUME HostTyped, FamiliesStand, RejectedNeverRuns, CommandsKept, TurnsMove
    PROVE  RejectedNeverRuns'
  <1> SUFFICES ASSUME NEW t \in Turns, NEW i \in DOMAIN queue', queue'[i].kind = "start",
                      queue'[i].turn = Root(t), queue'[i].status = "rejected"
               PROVE  ~Known(t)'
    BY DEF RejectedNeverRuns, SubmissionIn, Submission, CommandsOf, TurnAt, Rows, Root, Known
  <1>1. i \in Rows
    BY DEF CommandsKept, FreshRow
  <1>2. queue[i].kind = "start" /\ queue[i].turn = Root(t)
    BY <1>1 DEF CommandsKept, SameCommand
  <1>3. i \in Submission(t)
    BY <1>1, <1>2 DEF Submission, CommandsOf, TurnAt
  <1>4. ~Known(t)
    <2>1. CASE queue[i].status = "rejected"
      BY <2>1, <1>3 DEF RejectedNeverRuns, SubmissionIn, Known
    <2>2. CASE ~Known(queue[i].turn)
      BY <2>2, <1>2 DEF FamiliesStand
    <2> QED BY <2>1, <2>2, <1>1, <1>2 DEF CommandsKept, JustRejected
  <1> QED BY <1>4 DEF TurnsMove

-----------------------------------------------------------------------------
(* What becomes of drivers and locks *)

ProcessTyped ==
    /\ up' \in {"down", "up", "closing"} /\ mishaps' \in 0..MaxMishaps
    /\ hand' \in Rows \cup {0} /\ owner' \in [Turns -> Nat]

(* A driver goes on with a Turn that this very step may create.             *)
Admits(i) == task'[i] = "driving" /\ state'[TurnAt(i)] # "absent"

(* Drivers go on to a point that fits them, or end; others are placed.      *)
TaskMoves(i) ==
    \/ i \in DOMAIN task /\ task'[i] = task[i]
    \/ i \in Rows /\ IsDriver(i) /\ (Fits(i, task'[i]) \/ Admits(i))

TasksMove == \A i \in DOMAIN task' : TaskMoves(i)

(* A lock is given back, or stays with or goes to a driver that may hold it.*)
MayHold(i, t) == i \in DOMAIN task' /\ task'[i] \in IF TurnAt(i) = t THEN OwnPhases ELSE ParentPhases

LockMoves(t) ==
    \/ owner'[t] = 0
    \/ owner'[t] = owner[t] /\ MayHold(owner[t], t)
    \/ /\ owner'[t] \in Rows /\ Known(t)' /\ MayHold(owner'[t], t)
       /\ TurnAt(owner'[t]) \in {t, Parent[t]}

LocksMove == \A t \in Turns : LockMoves(t)

LEMMA TasksStillStand ==
    ASSUME HostTyped, TasksStand, QueueMoves, TurnsGrow, TasksMove
    PROVE  TasksStand'
  <1> SUFFICES ASSUME NEW i \in DOMAIN task' PROVE TaskStands(i)'
    BY DEF TasksStand
  <1>1. i \in Rows /\ IsDriver(i) /\ (Fits(i, task'[i]) \/ Admits(i))
    BY DEF TasksMove, TaskMoves, TasksStand, TaskStands
  <1>2. queue[i].turn \in Turns
    BY <1>1, RowTyped DEF Row
  <1>3. i \in Rows' /\ SameCommand(i) /\ GrantKept(i)
    BY <1>1 DEF QueueMoves, CommandsKept, GrantsKept, Rows
  <1>4. Known(TurnAt(i)) => Known(TurnAt(i))'
    BY <1>2, <1>3 DEF SameCommand, TurnsGrow, Known, TurnAt
  <1>5. IsDriver(i)'
    BY <1>1, <1>3 DEF IsDriver, SameCommand
  <1>6. task'[i] = "offering" => queue'[i].kind \in {"reply", "finish"} /\ queue'[i].grants = 0
    BY <1>1, <1>3 DEF Fits, Admits, SameCommand, GrantKept
  <1>7. Fits(i, task[i])'
    <2>1. CASE Fits(i, task'[i])
      BY <2>1, <1>4, <1>6 DEF Fits
    <2>2. CASE Admits(i)
      BY <2>2, <1>3 DEF Admits, Fits, Phases, SameCommand, Known, TurnAt
    <2> QED BY <2>1, <2>2, <1>1
  <1> QED BY <1>3, <1>5, <1>7 DEF TaskStands

LEMMA LocksStillStand ==
    ASSUME HostTyped, TasksStand, LocksStand, QueueMoves, TurnsGrow, LocksMove
    PROVE  LocksStand'
  <1> SUFFICES ASSUME NEW t \in Turns, owner'[t] # 0 PROVE LockStands(t)'
    BY DEF LocksStand, LockStands
  <1>1. /\ owner'[t] \in Rows /\ Known(t)' /\ MayHold(owner'[t], t)
        /\ TurnAt(owner'[t]) \in {t, Parent[t]}
    <2>1. CASE owner'[t] = owner[t] /\ MayHold(owner[t], t)
      <3>1. owner[t] \in DOMAIN task /\ Known(t) /\ TurnAt(owner[t]) \in {t, Parent[t]}
        BY <2>1 DEF LocksStand, LockStands, TaskIn
      <3> QED BY <2>1, <3>1 DEF TasksStand, TaskStands, TurnsGrow
    <2> QED BY <2>1 DEF LocksMove, LockMoves
  <1>2. queue'[owner'[t]].turn = queue[owner'[t]].turn
    BY <1>1 DEF QueueMoves, CommandsKept, SameCommand
  <1> QED BY <1>1, <1>2 DEF LockStands, MayHold, TaskIn, TurnAt

LEMMA Assembled ==
    ASSUME HostInv, QueueMoves, TurnsMove, ProcessTyped, TasksMove, LocksMove
    PROVE  HostInv'
  <1>1. HostTyped'
    BY DEF HostInv, HostTyped, QueueMoves, CommandsKept, TurnsMove, TurnsTyped, ProcessTyped, Rows
  <1>2. RowsStand' /\ FamiliesStand' /\ RejectedNeverRuns'
    BY RowsStillStand, FamiliesStillStand, RejectedStillNeverRuns DEF HostInv, QueueMoves, TurnsMove
  <1>3. TasksStand' /\ LocksStand'
    BY TasksStillStand, LocksStillStand DEF HostInv, TurnsMove
  <1> QED BY <1>1, <1>2, <1>3 DEF HostInv

LEMMA HolderMay == ASSUME HostInv, NEW t \in Turns, owner[t] # 0, task' = task PROVE MayHold(owner[t], t)
  BY DEF HostInv, LocksStand, LockStands, TaskIn, MayHold

(* Nothing becomes of the drivers.                                          *)
LEMMA DriversRest ==
    ASSUME HostInv, task' = task, owner' \in [Turns -> Nat],
           \A t \in Turns : owner'[t] \in {0, owner[t]}
    PROVE  TasksMove /\ LocksMove
  <1>1. TasksMove
    BY DEF TasksMove, TaskMoves
  <1>2. LocksMove
    BY HolderMay DEF LocksMove, LockMoves
  <1> QED BY <1>1, <1>2

(* One driver goes to phase p.                                              *)
LEMMA DriverGoes ==
    ASSUME HostInv, NEW i \in DOMAIN task, NEW p, Goto(i, p), Fits(i, p),
           \A t \in Turns :
              \/ owner'[t] = 0
              \/ /\ owner'[t] = owner[t]
                 /\ owner[t] = i => p \in IF TurnAt(i) = t THEN OwnPhases ELSE ParentPhases
              \/ owner'[t] = i /\ Known(t)' /\ TurnAt(i) = t /\ p \in OwnPhases
    PROVE  TasksMove /\ LocksMove
  <1>1. DOMAIN task' = DOMAIN task /\ \A j \in DOMAIN task : task'[j] = IF j = i THEN p ELSE task[j]
    BY DEF Goto
  <1>2. i \in Rows /\ IsDriver(i)
    BY DEF HostInv, TasksStand, TaskStands
  <1>3. TasksMove
    BY <1>1, <1>2 DEF TasksMove, TaskMoves
  <1>4. ASSUME NEW t \in Turns PROVE LockMoves(t)
    <2>1. CASE owner'[t] = 0
      BY <2>1 DEF LockMoves
    <2>2. CASE /\ owner'[t] = owner[t] /\ owner[t] # 0
               /\ owner[t] = i => p \in IF TurnAt(i) = t THEN OwnPhases ELSE ParentPhases
      <3>1. /\ owner[t] \in DOMAIN task
            /\ task[owner[t]] \in IF TurnAt(owner[t]) = t THEN OwnPhases ELSE ParentPhases
        BY <2>2 DEF HostInv, LocksStand, LockStands, TaskIn
      <3>2. CASE owner[t] = i
        BY <1>1, <2>2, <3>2 DEF LockMoves, MayHold
      <3>3. CASE owner[t] # i
        BY <1>1, <2>2, <3>1, <3>3 DEF LockMoves, MayHold
      <3> QED BY <3>2, <3>3
    <2>3. CASE owner'[t] = i /\ Known(t)' /\ TurnAt(i) = t /\ p \in OwnPhases
      BY <1>1, <1>2, <2>3 DEF LockMoves, MayHold
    <2> QED BY <2>1, <2>2, <2>3
  <1> QED BY <1>3, <1>4 DEF LocksMove

(* One driver ends and holds nothing.                                       *)
LEMMA DriverEnds ==
    ASSUME HostInv, NEW i \in DOMAIN task, Done(i),
           \A t \in Turns : owner'[t] = 0 \/ (owner'[t] = owner[t] /\ owner[t] # i)
    PROVE  TasksMove /\ LocksMove
  <1>1. DOMAIN task' = DOMAIN task \ {i} /\ \A j \in DOMAIN task \ {i} : task'[j] = task[j]
    BY DEF Done
  <1>2. TasksMove
    BY <1>1 DEF TasksMove, TaskMoves
  <1>3. LocksMove
    BY <1>1 DEF LocksMove, LockMoves, MayHold, HostInv, LocksStand, LockStands, TaskIn
  <1> QED BY <1>2, <1>3

-----------------------------------------------------------------------------
(* Clients, and the life of the process *)

LEMMA NewRowIsFresh ==
    ASSUME HostTyped, NEW t \in Turns, NEW kind \in Kinds, NEW verb \in {"go", "abort"},
           NEW revision \in 0..seq[t], NEW plan \in Plans \cup {"none"},
           Known(t) \/ Parent[t] = NoTurn,
           kind = "start" => Parent[t] = NoTurn,
           kind = "wake" => plan \in Plans,
           kind = "finish" => verb = "abort"
    PROVE  FreshRow(NewRow(kind, t, verb, revision, plan))
  <1>1. revision \in Nat /\ revision <= seq[t]
    BY DEF HostTyped
  <1> QED BY <1>1 DEF FreshRow, NewRow, Row, Statuses

LEMMA OnlyQueue ==
    ASSUME HostInv, QueueMoves, UNCHANGED <<up, hand, task, owner, mishaps>>, UNCHANGED turnVars
    PROVE  HostInv'
  <1>1. ProcessTyped /\ task' = task /\ owner' = owner
    BY DEF ProcessTyped, HostInv, HostTyped
  <1>2. TasksMove /\ LocksMove
    BY <1>1, DriversRest DEF ProcessTyped
  <1> QED BY <1>1, <1>2, TurnsStay, Assembled DEF HostInv

LEMMA SendKeeps ==
    ASSUME HostInv, NEW row, FreshRow(row), Send(row)
    PROVE  HostInv'
  <1>1. QueueMoves
    BY RowAppended DEF Send, HostInv
  <1> QED BY <1>1, OnlyQueue DEF Send, processVars

LEMMA ClientKeeps == ASSUME HostInv, NEW t \in Turns, Client(t) PROVE HostInv'
  <1>a. HostTyped /\ seq[t] \in Nat
    BY DEF HostInv, HostTyped
  <1>1. CASE Submit(t)
    <2>1. FreshRow(NewRow("start", t, "go", 0, "none"))
      BY <1>1, <1>a, NewRowIsFresh DEF Submit, Kinds, DriverKinds
    <2> QED BY <1>1, <2>1, SendKeeps DEF Submit
  <1>2. ASSUME NEW kind \in {"input", "cancel"}, Control(t, kind) PROVE HostInv'
    <2>1. FreshRow(NewRow(kind, t, "go", 0, "none"))
      BY <1>2, <1>a, NewRowIsFresh DEF Control, Admissible, Known, Kinds, DriverKinds
    <2> QED BY <1>2, <2>1, SendKeeps DEF Control
  <1>3. ASSUME NEW verb \in {"go", "abort"}, Reply(t, verb) PROVE HostInv'
    <2>1. FreshRow(NewRow("reply", t, verb, seq[t], "none"))
      BY <1>3, <1>a, NewRowIsFresh DEF Reply, Admissible, Known, Kinds, DriverKinds
    <2> QED BY <1>3, <2>1, SendKeeps DEF Reply
  <1> QED BY <1>1, <1>2, <1>3 DEF Client

LEMMA LaterKeeps == ASSUME HostInv, NEW i \in Rows, Later(i) PROVE HostInv'
  <1>1. QueueMoves
    BY OneRowRewritten DEF Later, HostInv, Statuses
  <1> QED BY <1>1, OnlyQueue DEF Later, processVars

LEMMA StartHostKeeps == ASSUME HostInv, StartHost PROVE HostInv'
  <1>1. \A i \in Rows : queue'[i] = Released(queue[i]) /\ queue[i] \in Row
    BY RowTyped DEF StartHost, HostInv
  <1>2. \A i \in Rows : /\ queue'[i] \in Row /\ SameCommand(i) /\ JustRejected(i)
                        /\ queue'[i].grants = queue[i].grants
    <2> SUFFICES ASSUME NEW i \in Rows
                 PROVE  /\ queue'[i] \in Row /\ SameCommand(i) /\ JustRejected(i)
                        /\ queue'[i].grants = queue[i].grants
      OBVIOUS
    <2>1. CASE queue'[i] = queue[i]
      BY <2>1, <1>1 DEF SameCommand, JustRejected
    <2>2. CASE queue'[i] = [queue[i] EXCEPT !.status = "pending", !.due = TRUE]
      BY <2>2, <1>1 DEF Row, Statuses, SameCommand, JustRejected
    <2> QED BY <2>1, <2>2, <1>1 DEF Released
  <1>3. queue' = [i \in Rows |-> queue'[i]]
    BY DEF StartHost
  <1>4. QueueMoves
    BY <1>2, <1>3, RowsRewritten DEF QueueMoves, GrantsKept, GrantKept, HostInv
  <1>5. ProcessTyped /\ task' = task /\ owner' = owner
    BY DEF StartHost, ProcessTyped, HostInv, HostTyped
  <1>6. TasksMove /\ LocksMove
    BY <1>5, DriversRest DEF ProcessTyped
  <1> QED BY <1>4, <1>5, <1>6, TurnsStay, Assembled DEF HostInv, StartHost

LEMMA MishapTyped == ASSUME HostTyped, Mishap PROVE mishaps' \in 0..MaxMishaps
  BY HostInputs DEF HostTyped, Mishap

LEMMA EndKeeps == ASSUME HostInv, CrashHost \/ Closed PROVE HostInv'
  <1>1. ProcessTyped
    BY MishapTyped DEF CrashHost, Closed, ProcessTyped, HostInv, HostTyped
  <1>2. TasksMove /\ LocksMove
    <2>1. CASE CrashHost
      BY <2>1 DEF CrashHost, TasksMove, LocksMove, LockMoves
    <2>2. CASE Closed
      BY <2>2, DriversRest, <1>1 DEF Closed, ProcessTyped
    <2> QED BY <2>1, <2>2
  <1>3. QueueMoves /\ TurnsMove
    BY QueueStays, TurnsStay DEF CrashHost, Closed, HostInv
  <1> QED BY <1>1, <1>2, <1>3, Assembled

(* A stopped driver keeps what it may hold.                                 *)
LEMMA StoppingStands ==
    ASSUME HostInv, NEW i \in DOMAIN task
    PROVE  /\ i \in Rows /\ IsDriver(i) /\ Fits(i, Stopping(i))
           /\ \A t \in Turns :
                owner[t] = i => Stopping(i) \in IF TurnAt(i) = t THEN OwnPhases ELSE ParentPhases
  <1>1. TaskStands(i) /\ i # 0
    BY RowsAreNat DEF HostInv, TasksStand, TaskStands
  <1>2. Stopping(i) = task[i] \/ Stopping(i) \in Phases \ {"offering"}
    BY DEF Stopping, Phases
  <1>3. Stopping(i) \in Opened => task[i] \in Opened
    BY DEF Stopping, Opened
  <1>4. ASSUME NEW t \in Turns, owner[t] = i
        PROVE  Stopping(i) \in IF TurnAt(i) = t THEN OwnPhases ELSE ParentPhases
    <2>1. LockStands(t)
      BY DEF HostInv, LocksStand
    <2>2. task[i] \in IF TurnAt(i) = t THEN OwnPhases ELSE ParentPhases
      BY <2>1, <1>1, <1>4 DEF LockStands, TaskIn
    <2>3. TurnAt(i) # t => ChildTasks(i) # {}
      BY <1>4 DEF ChildTasks
    <2>4. CASE task[i] \in {"offering", "offering_auto", "driving", "cancelling"}
      <3>1. Stopping(i) = "stopping"
        BY <2>4 DEF Stopping
      <3> QED BY <3>1 DEF OwnPhases, ParentPhases
    <2>5. CASE task[i] = "closing" /\ TurnAt(i) # t
      <3>1. Stopping(i) = "abandoning"
        BY <2>3, <2>5 DEF Stopping
      <3> QED BY <3>1, <2>5 DEF ParentPhases
    <2>6. CASE task[i] \in {"stopping", "abandoning", "failing"}
      <3>1. Stopping(i) = task[i]
        BY <2>6 DEF Stopping
      <3> QED BY <2>2, <3>1
    <2> QED BY <2>2, <2>4, <2>5, <2>6 DEF OwnPhases, ParentPhases
  <1>5. Fits(i, Stopping(i))
    BY <1>1, <1>2, <1>3 DEF TaskStands, Fits
  <1> QED BY <1>1, <1>4, <1>5 DEF TaskStands

LEMMA ShutdownKeeps == ASSUME HostInv, Shutdown PROVE HostInv'
  <1>1. ProcessTyped /\ QueueMoves /\ TurnsMove
    BY MishapTyped, QueueStays, TurnsStay DEF Shutdown, ProcessTyped, HostInv, HostTyped
  <1>2. \A i \in DOMAIN task' : i \in DOMAIN task /\ task[i] # "placed" /\ task'[i] = Stopping(i)
    BY DEF Shutdown
  <1>3. TasksMove
    BY <1>2, StoppingStands DEF TasksMove, TaskMoves
  <1>4. ASSUME NEW t \in Turns, owner[t] # 0 PROVE LockMoves(t)
    <2>1. owner[t] \in DOMAIN task /\ task[owner[t]] # "placed"
      BY <1>4 DEF HostInv, LocksStand, LockStands, TaskIn, OwnPhases, ParentPhases
    <2>2. owner[t] \in DOMAIN task' /\ task'[owner[t]] = Stopping(owner[t]) /\ owner' = owner
      BY <2>1 DEF Shutdown
    <2> QED BY <2>1, <2>2, StoppingStands DEF LockMoves, MayHold
  <1>5. LocksMove
    BY <1>4 DEF LocksMove, LockMoves, Shutdown
  <1> QED BY <1>1, <1>3, <1>5, Assembled

-----------------------------------------------------------------------------
(* A tick of the host *)

(* The queue q has the same commands as ours, with at most new outcomes.    *)
SameCommands(q) ==
    /\ q \in Seq(Row) /\ DOMAIN q = Rows /\ Len(q) = Len(queue)
    /\ \A i \in Rows : /\ q[i] \in Row
                       /\ q[i].kind = queue[i].kind /\ q[i].turn = queue[i].turn
                       /\ q[i].verb = queue[i].verb /\ q[i].plan = queue[i].plan
                       /\ q[i].revision = queue[i].revision /\ q[i].grants = queue[i].grants
                       /\ q[i].status = "rejected" => queue[i].status = "rejected"

LEMMA SettledRows ==
    ASSUME HostTyped, NEW k \in Rows, NEW status \in Statuses \ {"rejected"}, NEW due \in BOOLEAN
    PROVE  SameCommands(Settled(k, status, due))
  <1> DEFINE q == Settled(k, status, due)
  <1>1. queue \in Seq(Row) /\ queue \in [Rows -> Row] /\ Rows = 1..Len(queue) /\ Len(queue) \in Nat
    BY RowsAreNat, LenProperties DEF HostTyped
  <1>a. q = queue \/ q = [queue EXCEPT ![k].status = status, ![k].due = due]
    BY DEF Settled
  <1> SUFFICES SameCommands(q)
    OBVIOUS
  <1> HIDE DEF q
  <1>2. CASE q = queue
    <2>1. q \in Seq(Row) /\ DOMAIN q = Rows /\ Len(q) = Len(queue)
      BY <1>1, <1>2 DEF Rows
    <2> QED BY <1>1, <1>2, <2>1 DEF SameCommands
  <1>3. CASE q = [queue EXCEPT ![k].status = status, ![k].due = due]
    <2>1. \A i \in Rows : q[i] = IF i = k THEN [queue[k] EXCEPT !.status = status, !.due = due] ELSE queue[i]
      BY <1>1, <1>3
    <2>2. queue[k] \in Row /\ [queue[k] EXCEPT !.status = status, !.due = due] \in Row
      BY <1>1 DEF Row
    <2>3. q \in [1..Len(queue) -> Row]
      BY <1>1, <1>3, <2>1, <2>2
    <2>4. q \in Seq(Row) /\ DOMAIN q = Rows
      BY <1>1, <2>3, SeqDef
    <2>5. Len(q) = Len(queue)
      BY <1>1, <2>3, <2>4, LenProperties
    <2>6. \A i \in Rows : i # k => q[i] = queue[i] /\ q[i] \in Row
      BY <2>1, <1>1
    <2>7. q[k] = [queue[k] EXCEPT !.status = status, !.due = due]
      BY <2>1
    <2>8. /\ q[k].kind = queue[k].kind /\ q[k].turn = queue[k].turn
          /\ q[k].verb = queue[k].verb /\ q[k].plan = queue[k].plan
          /\ q[k].revision = queue[k].revision /\ q[k].grants = queue[k].grants
          /\ q[k].status = status
      BY <2>2, <2>7 DEF Row
    <2>9. \A i \in Rows : /\ q[i] \in Row
                          /\ q[i].kind = queue[i].kind /\ q[i].turn = queue[i].turn
                          /\ q[i].verb = queue[i].verb /\ q[i].plan = queue[i].plan
                          /\ q[i].revision = queue[i].revision /\ q[i].grants = queue[i].grants
                          /\ q[i].status = "rejected" => queue[i].status = "rejected"
      BY <2>2, <2>6, <2>7, <2>8
    <2> QED BY <2>4, <2>5, <2>9 DEF SameCommands
  <1> QED BY <1>a, <1>2, <1>3

AppendsTo(q, row) == queue' = Append(q, row)

LEMMA CommandAppended ==
    ASSUME HostTyped, NEW q, SameCommands(q), NEW row, FreshRow(row), AppendsTo(q, row)
    PROVE  QueueMoves
  <1>1. Rows = 1..Len(queue) /\ Len(queue) \in Nat
    BY RowsAreNat
  <1>2. q \in Seq(Row) /\ row \in Row /\ Len(q) = Len(queue)
    BY DEF FreshRow, SameCommands
  <1>3. /\ queue' \in Seq(Row) /\ Len(queue') = Len(queue) + 1 /\ queue'[Len(queue) + 1] = row
        /\ \A i \in 1..Len(queue) : queue'[i] = q[i]
    BY <1>2, AppendProperties DEF AppendsTo
  <1>4. DOMAIN queue' = 1..(Len(queue) + 1)
    BY <1>3, LenProperties
  <1>5. (DOMAIN queue') \ Rows = {Len(queue) + 1}
    BY <1>1, <1>4
  <1>6. \A i \in Rows : SameCommand(i) /\ JustRejected(i) /\ queue'[i].grants = queue[i].grants
    BY <1>1, <1>3 DEF SameCommand, JustRejected, SameCommands
  <1> QED BY <1>1, <1>3, <1>4, <1>5, <1>6 DEF QueueMoves, CommandsKept, GrantsKept, GrantKept

LEMMA SettledThenAppended ==
    ASSUME HostTyped, NEW k \in Rows, NEW row, FreshRow(row), AppendsTo(Settled(k, "applied", TRUE), row)
    PROVE  QueueMoves
  <1>1. SameCommands(Settled(k, "applied", TRUE))
    BY SettledRows DEF Statuses
  <1> QED BY <1>1, CommandAppended

LEMMA ClaimControlKeeps == ASSUME HostInv, ClaimControl PROVE HostInv'
  <1>1. PICK i \in Rows : hand' = i /\ queue' = [queue EXCEPT ![i].status = "claimed"]
    BY DEF ClaimControl
  <1>2. QueueMoves
    BY <1>1, OneRowRewritten DEF HostInv, Statuses
  <1>3. ProcessTyped /\ task' = task /\ owner' = owner
    BY <1>1 DEF ClaimControl, ProcessTyped, HostInv, HostTyped
  <1>4. TasksMove /\ LocksMove
    BY <1>3, DriversRest DEF ProcessTyped
  <1> QED BY <1>2, <1>3, <1>4, TurnsStay, Assembled DEF HostInv, ClaimControl

LEMMA WithdrawnRows ==
    ASSUME HostInv, hand \in Rows, queue[hand].kind = "cancel", CancelAbsent(TurnAt(hand))
    PROVE  QueueMoves
  <1> DEFINE t == TurnAt(hand)
  <1>1. HostTyped /\ queue[hand] \in Row /\ RowStands(queue[hand]) /\ ~Known(t)
    BY RowTyped DEF HostInv, RowsStand, CancelAbsent, Known
  <1>2. Root(t) = t
    BY <1>1 DEF RowStands, Root, TurnAt
  <1>3. PICK q : q = Settled(hand, "applied", TRUE) /\ SameCommands(q)
    BY <1>1, SettledRows DEF Statuses
  <1>4. queue' = [i \in Rows |-> queue'[i]]
    BY DEF CancelAbsent
  <1>5. \A i \in Rows :
           \/ queue'[i] = q[i]
           \/ i \in Submission(t) /\ queue'[i] = [queue[i] EXCEPT !.status = "rejected"]
    BY <1>3 DEF CancelAbsent
  <1>6. ASSUME NEW i \in Rows
        PROVE  queue'[i] \in Row /\ SameCommand(i) /\ JustRejected(i) /\ queue'[i].grants = queue[i].grants
    <2>1. CASE queue'[i] = q[i]
      <3>1. /\ q[i] \in Row
            /\ q[i].kind = queue[i].kind /\ q[i].turn = queue[i].turn
            /\ q[i].verb = queue[i].verb /\ q[i].plan = queue[i].plan
            /\ q[i].revision = queue[i].revision /\ q[i].grants = queue[i].grants
            /\ q[i].status = "rejected" => queue[i].status = "rejected"
        BY <1>3 DEF SameCommands
      <3>2. SameCommand(i) /\ queue'[i].grants = queue[i].grants
        BY <2>1, <3>1 DEF SameCommand
      <3>3. JustRejected(i)
        BY <2>1, <3>1 DEF JustRejected
      <3> QED BY <2>1, <3>1, <3>2, <3>3
    <2>2. CASE i \in Submission(t) /\ queue'[i] = [queue[i] EXCEPT !.status = "rejected"]
      <3>1. queue[i] \in Row /\ queue[i].turn = t
        BY <2>2, <1>1, <1>2, RowTyped DEF Submission, CommandsOf, TurnAt
      <3> QED BY <2>2, <3>1, <1>1 DEF SameCommand, JustRejected, Row, Statuses
    <2> QED BY <2>1, <2>2, <1>5
  <1> QED BY <1>1, <1>4, <1>6, RowsRewritten DEF QueueMoves, GrantsKept, GrantKept

LEMMA ApplyCancelKeeps == ASSUME HostInv, ApplyCancel PROVE HostInv'
  <1> DEFINE t == TurnAt(hand)
  <1>1. HostTyped /\ hand \in Rows /\ queue[hand].kind = "cancel" /\ queue[hand] \in Row /\ t \in Turns
    BY RowTyped DEF HostInv, HostTyped, ApplyCancel, Held, TurnAt, Row
  <1>2. ProcessTyped /\ task' = task /\ owner' = owner
    BY <1>1 DEF ApplyCancel, ProcessTyped, HostTyped
  <1>3. TasksMove /\ LocksMove
    BY <1>2, DriversRest DEF ProcessTyped
  <1>4. QueueMoves /\ TurnsMove
    <2>1. CASE queue' = Settled(hand, "rejected", TRUE) /\ UNCHANGED turnVars
      BY <2>1, <1>1, RowSettled, TurnsStay DEF Statuses
    <2>2. CASE CancelAbsent(t)
      BY <2>2, <1>1, WithdrawnRows, TurnsStay DEF CancelAbsent
    <2>3. CASE CancelExisting(t) /\ state[t] = "ended"
      BY <2>3, <1>1, RowSettled, TurnsStay DEF CancelExisting, Statuses
    <2>4. CASE CancelExisting(t) /\ state[t] # "ended"
      <3>1. Known(t) /\ 0 \in 0..seq[t]
        BY <2>4, <1>1 DEF CancelExisting, Known, HostTyped
      <3>2. FreshRow(NewRow("finish", t, "abort", 0, "none"))
        BY <3>1, <1>1, NewRowIsFresh DEF Kinds, DriverKinds
      <3>3. QueueMoves
        BY <2>4, <3>2, <1>1, SettledThenAppended DEF CancelExisting, AppendsTo
      <3>4. /\ cancel' = [cancel EXCEPT ![t] = TRUE]
            /\ seq' = [seq EXCEPT ![t] = IF cancel[t] THEN @ ELSE @ + 1]
            /\ UNCHANGED <<state, exposed, settled>>
        BY <2>4 DEF CancelExisting
      <3>5. TurnsMove
        BY <3>4, <1>1 DEF HostTyped, TurnsMove, TurnsTyped, TurnsGrow, Known
      <3> QED BY <3>3, <3>5
    <2> QED BY <2>1, <2>2, <2>3, <2>4 DEF ApplyCancel
  <1> QED BY <1>2, <1>3, <1>4, Assembled

LEMMA ApplyInputKeeps == ASSUME HostInv, ApplyInput PROVE HostInv'
  <1> DEFINE t == TurnAt(hand)
  <1>1. HostTyped /\ hand \in Rows /\ queue[hand].kind = "input" /\ queue[hand] \in Row /\ t \in Turns
    BY RowTyped DEF HostInv, HostTyped, ApplyInput, Held, TurnAt, Row
  <1>2. ProcessTyped /\ task' = task /\ owner' = owner
    BY <1>1 DEF ApplyInput, ProcessTyped, HostTyped
  <1>3. TasksMove /\ LocksMove
    BY <1>2, DriversRest DEF ProcessTyped
  <1>4. PICK status \in Statuses, due \in BOOLEAN : queue' = Settled(hand, status, due)
    BY DEF ApplyInput, Statuses
  <1>5. QueueMoves
    BY <1>1, <1>4, RowSettled
  <1>6. \/ UNCHANGED <<state, seq>>
        \/ /\ seq' = [seq EXCEPT ![t] = @ + 1]
           /\ state' = [state EXCEPT ![t] = IF @ = "waiting" THEN "guided" ELSE @]
    BY DEF ApplyInput
  <1>7. /\ state' \in [Turns -> States] /\ seq' \in [Turns -> Nat]
        /\ \A u \in Turns : (Known(u)' <=> Known(u)) /\ seq[u] <= seq'[u]
    <2>1. CASE UNCHANGED <<state, seq>>
      BY <2>1, <1>1 DEF HostTyped, Known
    <2>2. CASE /\ seq' = [seq EXCEPT ![t] = @ + 1]
               /\ state' = [state EXCEPT ![t] = IF @ = "waiting" THEN "guided" ELSE @]
      <3>1. seq' \in [Turns -> Nat] /\ \A u \in Turns : seq[u] <= seq'[u]
        BY <2>2, <1>1 DEF HostTyped
      <3>2. state' \in [Turns -> States] /\ \A u \in Turns : Known(u)' <=> Known(u)
        BY <2>2, <1>1 DEF HostTyped, States, Known
      <3> QED BY <3>1, <3>2
    <2> QED BY <2>1, <2>2, <1>6
  <1>8. TurnsMove
    BY <1>1, <1>7 DEF ApplyInput, HostTyped, TurnsMove, TurnsTyped, TurnsGrow
  <1> QED BY <1>2, <1>3, <1>5, <1>8, Assembled

LEMMA LeftBehind == ASSUME NEW s \in States \ {"absent"}, NEW verb
                    PROVE  Recovered(s, verb) \in States \ {"absent"} /\ Interrupted(s) \in States \ {"absent"}
  BY DEF Recovered, Interrupted, States, RunningStates

LEMMA StopDriversKeeps == ASSUME HostInv, StopDrivers PROVE HostInv'
  <1> DEFINE t == TurnAt(hand)
  <1>1. HostTyped /\ hand \in Rows /\ t \in Turns /\ queue' = queue
    BY RowTyped DEF HostInv, HostTyped, StopDrivers, TurnAt, Row
  <1>2. QueueMoves
    BY <1>1, QueueStays
  <1>3. DOMAIN task' = DOMAIN task /\ \A i \in DOMAIN task : task'[i] \in {task[i], Stopping(i)}
    BY DEF StopDrivers
  <1>4. owner' = owner \/ owner' = [owner EXCEPT ![t] = 0]
    BY DEF StopDrivers
  <1>5. ProcessTyped
    BY <1>1, <1>4 DEF ProcessTyped, HostTyped, StopDrivers
  <1>6. TurnsMove
    <2>1. CASE UNCHANGED <<owner, turnVars>>
      BY <2>1, <1>1, TurnsStay
    <2>2. CASE /\ \E i \in DOMAIN task : t \in ChildTasks(i)
               /\ SetState(t, Interrupted(state[t]))
               /\ cancel' = [cancel EXCEPT ![t] = @ \/ state[t] # "ended"]
               /\ UNCHANGED settled
      <3>1. owner[t] # 0
        BY <2>2, RowsAreNat DEF ChildTasks, HostInv, TasksStand, TaskStands
      <3>2. Known(t) /\ state[t] \in States
        BY <3>1, <1>1 DEF HostInv, LocksStand, LockStands, HostTyped
      <3>3. Interrupted(state[t]) \in States \ {"absent"}
        BY <3>2, LeftBehind DEF Known
      <3> QED BY <2>2, <3>2, <3>3, <1>1, StateSet DEF HostTyped
    <2> QED BY <2>1, <2>2 DEF StopDrivers
  <1>7. TasksMove
    BY <1>3, StoppingStands DEF TasksMove, TaskMoves
  <1>8. ASSUME NEW u \in Turns PROVE LockMoves(u)
    <2>1. CASE owner'[u] = 0
      BY <2>1 DEF LockMoves
    <2>2. CASE owner'[u] # 0
      <3>1. owner'[u] = owner[u] /\ owner[u] # 0
        BY <2>2, <1>1, <1>4 DEF HostTyped
      <3>2. /\ owner[u] \in DOMAIN task
            /\ task[owner[u]] \in IF TurnAt(owner[u]) = u THEN OwnPhases ELSE ParentPhases
        BY <3>1 DEF HostInv, LocksStand, LockStands, TaskIn
      <3> QED BY <3>1, <3>2, <1>3, StoppingStands DEF LockMoves, MayHold
    <2> QED BY <2>1, <2>2
  <1>9. LocksMove
    BY <1>8 DEF LocksMove
  <1> QED BY <1>2, <1>5, <1>6, <1>7, <1>9, Assembled

LEMMA ClaimDriverKeeps == ASSUME HostInv, ClaimDriver PROVE HostInv'
  <1>1. PICK i \in Rows :
           /\ IsDriver(i) /\ i \notin DOMAIN task
           /\ \/ queue' = [queue EXCEPT ![i].due = FALSE] /\ UNCHANGED task
              \/ /\ queue' = [queue EXCEPT ![i].status = "claimed"]
                 /\ task' = [j \in DOMAIN task \cup {i} |-> IF j = i THEN "placed" ELSE task[j]]
    BY DEF ClaimDriver
  <1>2. QueueMoves
    BY <1>1, OneRowRewritten DEF HostInv, Statuses
  <1>3. ProcessTyped /\ owner' = owner
    BY DEF ClaimDriver, ProcessTyped, HostInv, HostTyped
  <1>4. TasksMove /\ LocksMove
    <2>1. CASE UNCHANGED task
      BY <2>1, <1>3, DriversRest DEF ProcessTyped
    <2>2. CASE task' = [j \in DOMAIN task \cup {i} |-> IF j = i THEN "placed" ELSE task[j]]
      <3>1. DOMAIN task' = DOMAIN task \cup {i} /\ task'[i] = "placed"
        BY <2>2
      <3>2. \A j \in DOMAIN task : task'[j] = task[j]
        BY <2>2, <1>1
      <3>3. TasksMove
        BY <1>1, <3>1, <3>2 DEF TasksMove, TaskMoves, Fits, Phases, Opened
      <3>4. LocksMove
        BY <1>3, <3>1, <3>2 DEF LocksMove, LockMoves, MayHold, HostInv, LocksStand, LockStands, TaskIn
      <3> QED BY <3>3, <3>4
    <2> QED BY <1>1, <2>1, <2>2
  <1> QED BY <1>2, <1>3, <1>4, TurnsStay, Assembled DEF HostInv, ClaimDriver

LEMMA EachPlanIsKnown == ASSUME NEW t, NEW s, NEW done PROVE PlanFor(t, s, done) \in Plans
  BY DEF PlanFor, Plans

(* The wakes of one tick are finitely many, one for each Turn that sleeps.  *)
LEMMA WakesAreFresh ==
    ASSUME HostInv, NEW done, NEW S \in SUBSET {WakeOf(t, done) : t \in {u \in Turns : Sleeps(u, done)}}
    PROVE  IsFiniteSet(S) /\ \A row \in S : FreshRow(row)
  <1> DEFINE sleeping == {u \in Turns : Sleeps(u, done)}
             wakes == {WakeOf(t, done) : t \in sleeping}
             wake == [t \in sleeping |-> WakeOf(t, done)]
  <1>1. sleeping \subseteq {t \in Turns : Known(t)}
    BY DEF Sleeps, Known
  <1>2. IsFiniteSet(sleeping)
    BY <1>1, FS_Subset DEF HostInv, FamiliesStand
  <1>3. wake \in Surjection(sleeping, wakes)
    BY DEF Surjection
  <1>4. IsFiniteSet(wakes)
    BY <1>2, <1>3, FS_Surjection
  <1>5. IsFiniteSet(S)
    BY <1>4, FS_Subset
  <1>6. ASSUME NEW t \in Turns, Known(t) PROVE FreshRow(WakeOf(t, done))
    <2>1. HostTyped /\ seq[t] \in 0..seq[t] /\ PlanFor(t, state[t], done) \in Plans
      BY EachPlanIsKnown DEF HostInv, HostTyped
    <2> QED BY <1>6, <2>1, NewRowIsFresh DEF WakeOf, Kinds, DriverKinds
  <1> QED BY <1>1, <1>5, <1>6

LEMMA ListedSet ==
    ASSUME NEW S, IsFiniteSet(S)
    PROVE  SetToSeq(S) \in Seq(S)
  <1>1. Cardinality(S) \in Nat /\ ExistsBijection(1..Cardinality(S), S)
    BY FS_CardinalityType
  <1>2. PICK f \in [1..Cardinality(S) -> S] : IsInjective(f)
    BY <1>1 DEF ExistsBijection, Bijection, Injection
  <1>3. SetToSeq(S) \in [1..Cardinality(S) -> S]
    BY <1>2 DEF SetToSeq
  <1> QED BY <1>1, <1>3, SeqDef

LEMMA EnqueueWakeupsKeeps == ASSUME HostInv, EnqueueWakeups PROVE HostInv'
  <1>1. PICK done, S : /\ S \in SUBSET {WakeOf(t, done) : t \in {u \in Turns : Sleeps(u, done)}}
                       /\ queue' = queue \o SetToSeq(S)
                       /\ settled' = settled \cup Settleable
    BY DEF EnqueueWakeups
  <1>2. IsFiniteSet(S) /\ \A row \in S : FreshRow(row)
    BY <1>1, WakesAreFresh
  <1>3. PICK new : new = SetToSeq(S) /\ new \in Seq(S)
    BY <1>2, ListedSet
  <1>4. S \subseteq Row
    BY <1>2 DEF FreshRow
  <1>5. new \in Seq(Row) /\ Len(new) \in Nat /\ \A n \in 1..Len(new) : new[n] \in S
    BY <1>3, <1>4, SeqMonotonic, LenProperties, ElementOfSeq
  <1>6. queue \in Seq(Row) /\ Rows = 1..Len(queue) /\ Len(queue) \in Nat
    BY RowsAreNat DEF HostInv, HostTyped
  <1>7. /\ queue' \in Seq(Row) /\ DOMAIN queue' = 1..(Len(queue) + Len(new))
        /\ \A i \in 1..(Len(queue) + Len(new)) :
              queue'[i] = IF i <= Len(queue) THEN queue[i] ELSE new[i - Len(queue)]
    BY <1>1, <1>3, <1>5, <1>6, ConcatProperties, LenProperties
  <1>8. \A i \in Rows : queue'[i] = queue[i]
    BY <1>5, <1>6, <1>7
  <1>9. ASSUME NEW i \in (DOMAIN queue') \ Rows PROVE FreshRow(queue'[i])
    <2>1. i - Len(queue) \in 1..Len(new) /\ queue'[i] = new[i - Len(queue)]
      BY <1>5, <1>6, <1>7
    <2> QED BY <2>1, <1>2, <1>5
  <1>10. QueueMoves
    BY <1>5, <1>6, <1>7, <1>8, <1>9
    DEF QueueMoves, CommandsKept, GrantsKept, GrantKept, SameCommand, JustRejected
  <1>11. TurnsMove
    BY <1>1 DEF EnqueueWakeups, TurnsMove, TurnsTyped, TurnsGrow, HostInv, HostTyped, Known, Settleable
  <1>12. ProcessTyped /\ task' = task /\ owner' = owner
    BY DEF EnqueueWakeups, processVars, ProcessTyped, HostInv, HostTyped
  <1>13. TasksMove /\ LocksMove
    BY <1>12, DriversRest DEF ProcessTyped
  <1> QED BY <1>10, <1>11, <1>12, <1>13, Assembled

-----------------------------------------------------------------------------
(* A driver *)

(* What a driver is: the command it works on, and its Turn.                 *)
LEMMA DriverParts ==
    ASSUME HostInv, NEW i \in DOMAIN task
    PROVE  /\ HostTyped /\ i \in Rows /\ IsDriver(i) /\ Fits(i, task[i]) /\ i # 0
           /\ queue[i] \in Row /\ TurnAt(i) \in Turns /\ RowStands(queue[i])
  BY RowTyped, RowsAreNat DEF HostInv, TasksStand, TaskStands, RowsStand, TurnAt, Row

(* Before it took the lock, and at its end, it holds nothing; and with its  *)
(* own Turn given back it may hold children only.                           *)
LEMMA HoldsNothing ==
    ASSUME HostInv, NEW i \in DOMAIN task,
           task[i] \in {"placed", "submitting", "planning", "entering", "entering_cancel", "acking"}
    PROVE  \A t \in Turns : owner[t] # i
  BY DriverParts DEF HostInv, LocksStand, LockStands, TaskIn, OwnPhases, ParentPhases

LEMMA FinishKeeps ==
    ASSUME HostInv, NEW i \in DOMAIN task, NEW status \in Statuses, NEW due \in BOOLEAN,
           FinishRow(i, status, due),
           status = "rejected" => queue[i].kind # "start" \/ ~Known(TurnAt(i)),
           TurnsMove, up' = up, hand' = hand, mishaps' \in 0..MaxMishaps, owner' \in [Turns -> Nat],
           \A t \in Turns : owner'[t] = 0 \/ (owner'[t] = owner[t] /\ owner[t] # i)
    PROVE  HostInv'
  <1>1. Done(i) /\ queue' = Settled(i, status, due) /\ i \in Rows /\ HostTyped
    BY DriverParts DEF FinishRow
  <1>2. QueueMoves
    BY <1>1, RowSettled DEF TurnAt
  <1>3. TasksMove /\ LocksMove
    BY <1>1, DriverEnds
  <1>4. ProcessTyped
    BY <1>1 DEF ProcessTyped, HostTyped
  <1> QED BY <1>2, <1>3, <1>4, Assembled

(* A driver that holds nothing ends.                                        *)
LEMMA LeavesCommand ==
    ASSUME HostInv, NEW i \in DOMAIN task, NEW status \in Statuses, NEW due \in BOOLEAN,
           FinishRow(i, status, due),
           status = "rejected" => queue[i].kind # "start" \/ ~Known(TurnAt(i)),
           \A t \in Turns : owner[t] # i,
           UNCHANGED <<up, hand, owner, turnVars>>, mishaps' \in 0..MaxMishaps
    PROVE  HostInv'
  <1>1. HostTyped /\ TurnsMove /\ owner' = owner /\ owner' \in [Turns -> Nat]
    BY TurnsStay DEF HostInv, HostTyped
  <1> QED BY <1>1, FinishKeeps

(* A driver goes to phase p, the locks stay.                                *)
LEMMA GoKeeps ==
    ASSUME HostInv, NEW i \in DOMAIN task, NEW p, Goto(i, p), Fits(i, p), QueueMoves, TurnsMove,
           up' = up, hand' = hand, mishaps' \in 0..MaxMishaps, owner' \in [Turns -> Nat],
           \A t \in Turns :
              \/ owner'[t] = 0
              \/ /\ owner'[t] = owner[t]
                 /\ owner[t] = i => p \in IF TurnAt(i) = t THEN OwnPhases ELSE ParentPhases
              \/ owner'[t] = i /\ Known(t)' /\ TurnAt(i) = t /\ p \in OwnPhases
    PROVE  HostInv'
  <1>1. TasksMove /\ LocksMove
    BY DriverGoes
  <1>2. ProcessTyped
    BY DEF ProcessTyped, HostInv, HostTyped
  <1> QED BY <1>1, <1>2, Assembled

LEMMA OpenKeeps == ASSUME HostInv, NEW i, Open(i) PROVE HostInv'
  <1> DEFINE t == TurnAt(i)
  <1>1. i \in DOMAIN task /\ task[i] = "placed"
    BY DEF Open, TaskIn
  <1>2. HostTyped /\ t \in Turns /\ \A u \in Turns : owner[u] # i
    BY <1>1, DriverParts, HoldsNothing
  <1>3. CASE SubmissionIn(t, {"rejected"}) /\ FinishRow(i, "rejected", TRUE)
    <2>1. ~Known(t)
      BY <1>2, <1>3 DEF HostInv, RejectedNeverRuns, Known
    <2> QED BY <1>1, <1>2, <1>3, <2>1, LeavesCommand DEF Open, Statuses, HostTyped
  <1>4. ASSUME UNCHANGED queue,
               Goto(i, IF state[t] = "ended" THEN "acking"
                       ELSE IF state[t] = "absent" THEN "submitting" ELSE "planning")
        PROVE  HostInv'
    <2>1. PICK p : Goto(i, p) /\ p \in {"acking", "submitting", "planning"} /\ (p = "planning" => Known(t))
      BY <1>4 DEF Known
    <2>2. Fits(i, p)
      BY <2>1 DEF Fits, Phases, Opened
    <2>3. QueueMoves /\ TurnsMove
      BY <1>2, <1>4, QueueStays, TurnsStay DEF Open
    <2> QED BY <1>1, <1>2, <2>1, <2>2, <2>3, GoKeeps DEF Open, HostTyped
  <1> QED BY <1>3, <1>4 DEF Open

LEMMA OpenFailsKeeps == ASSUME HostInv, NEW i, OpenFails(i) PROVE HostInv'
  <1>1. i \in DOMAIN task /\ \A u \in Turns : owner[u] # i
    BY HoldsNothing DEF OpenFails, TaskIn
  <1>2. PICK status \in {"pending", "blocked"}, due \in BOOLEAN : FinishRow(i, status, due)
    BY DEF OpenFails
  <1>3. mishaps' \in 0..MaxMishaps
    BY MishapTyped DEF OpenFails, HostInv
  <1> QED BY <1>1, <1>2, <1>3, LeavesCommand DEF OpenFails, Statuses

LEMMA ReadPlanKeeps == ASSUME HostInv, NEW i, ReadPlan(i) PROVE HostInv'
  <1> DEFINE t == TurnAt(i)
  <1>1. i \in DOMAIN task /\ task[i] = "planning" /\ \A u \in Turns : owner[u] # i
    BY HoldsNothing DEF ReadPlan, TaskIn
  <1>2. HostTyped /\ t \in Turns /\ Known(t)
    BY <1>1, DriverParts DEF Fits, Opened
  <1>3. CASE FinishRow(i, "blocked", TRUE)
    BY <1>1, <1>2, <1>3, LeavesCommand DEF ReadPlan, Statuses, HostTyped
  <1>4. ASSUME NEW p \in {"acking", "entering", "entering_cancel"}, Goto(i, p), UNCHANGED queue
        PROVE  HostInv'
    <2>1. Fits(i, p)
      BY <1>2 DEF Fits, Phases
    <2>2. QueueMoves /\ TurnsMove
      BY <1>2, <1>4, QueueStays, TurnsStay DEF ReadPlan
    <2> QED BY <1>1, <1>2, <1>4, <2>1, <2>2, GoKeeps DEF ReadPlan, HostTyped
  <1> QED BY <1>3, <1>4 DEF ReadPlan

LEMMA StateSetGrows ==
    ASSUME HostTyped, NEW t \in Turns, NEW s \in States \ {"absent"}, SetState(t, s),
           cancel' \in [Turns -> BOOLEAN], settled' \subseteq Turns
    PROVE  TurnsTyped /\ TurnsGrow /\ Known(t)' /\ \A u \in Turns \ {t} : Known(u)' => Known(u)
  <1>1. state' \in [Turns -> States] /\ \A u \in Turns : state'[u] = IF u = t THEN s ELSE state[u]
    BY DEF SetState, HostTyped
  <1>2. seq' \in [Turns -> Nat] /\ \A u \in Turns : seq[u] <= seq'[u]
    BY DEF SetState, HostTyped
  <1>3. exposed' \subseteq Turns
    BY DEF SetState, HostTyped
  <1> QED BY <1>1, <1>2, <1>3 DEF TurnsTyped, TurnsGrow, Known

(* A Turn comes into being: its submission was not withdrawn, and a child   *)
(* comes beside its parent.                                                 *)
LEMMA TurnArrives ==
    ASSUME HostInv, queue' = queue, NEW t \in Turns, NEW s \in States \ {"absent"}, SetState(t, s),
           UNCHANGED <<cancel, settled>>, ~SubmissionIn(t, {"rejected"}),
           Parent[t] = NoTurn \/ Known(Root(t)), ProcessTyped, TasksMove, LocksMove
    PROVE  HostInv'
  <1>1. HostTyped /\ QueueMoves
    BY QueueStays DEF HostInv
  <1>2. TurnsTyped /\ TurnsGrow /\ Known(t)' /\ \A u \in Turns \ {t} : Known(u)' => Known(u)
    BY <1>1, StateSetGrows DEF HostTyped
  <1>3. HostTyped'
    BY <1>1, <1>2 DEF HostTyped, TurnsTyped, ProcessTyped, Rows
  <1>4. RowsStand'
    BY <1>1, <1>2, RowsStillStand DEF HostInv
  <1>5. TasksStand' /\ LocksStand'
    BY <1>1, <1>2, TasksStillStand, LocksStillStand DEF HostInv
  <1>6. FamiliesStand'
    <2>1. {u \in Turns : Known(u)}' \subseteq {u \in Turns : Known(u)} \cup {t}
      BY <1>2
    <2>2. IsFiniteSet({u \in Turns : Known(u)}')
      BY <2>1, FS_AddElement, FS_Subset DEF HostInv, FamiliesStand
    <2>3. Known(Root(t))'
      BY <1>2, RootIsTurn DEF Root, TurnsGrow
    <2>4. ASSUME NEW u \in Turns \ {t}, Known(u)' PROVE Known(Root(u))'
      <3>1. Known(Root(u)) /\ Root(u) \in Turns
        BY <1>2, <2>4, RootIsTurn DEF HostInv, FamiliesStand
      <3> QED BY <3>1, <1>2 DEF TurnsGrow
    <2>5. \A u \in Turns : Known(u)' => Known(Root(u))'
      BY <2>3, <2>4
    <2> QED BY <2>2, <2>5 DEF FamiliesStand, Root
  <1>7. RejectedNeverRuns'
    <2>1. \A u \in Turns : SubmissionIn(u, {"rejected"})' <=> SubmissionIn(u, {"rejected"})
      BY DEF SubmissionIn, Submission, CommandsOf, Rows, TurnAt, Root
    <2> QED BY <2>1, <1>2 DEF HostInv, RejectedNeverRuns, Known
  <1> QED BY <1>3, <1>4, <1>5, <1>6, <1>7 DEF HostInv

LEMMA SubmitTurnKeeps == ASSUME HostInv, NEW i, SubmitTurn(i) PROVE HostInv'
  <1>0. PICK t : t = TurnAt(i)
    OBVIOUS
  <1>1. i \in DOMAIN task /\ \A u \in Turns : owner[u] # i
    BY HoldsNothing DEF SubmitTurn, TaskIn
  <1>2. HostTyped /\ t \in Turns /\ i \in Nat /\ (Known(t) \/ Parent[t] = NoTurn)
    BY <1>1, <1>0, DriverParts, RowsAreNat DEF RowStands, TurnAt
  <1>3. CASE FinishRow(i, "blocked", TRUE) /\ UNCHANGED <<owner, turnVars>>
    BY <1>0, <1>1, <1>2, <1>3, LeavesCommand DEF SubmitTurn, Statuses, HostTyped
  <1>4. CASE /\ Admitted(i) /\ Goto(i, "driving") /\ owner' = [owner EXCEPT ![t] = i]
             /\ SetState(t, "ready") /\ UNCHANGED <<queue, cancel, settled>>
    <2>1. ~SubmissionIn(t, {"rejected"})
      BY <1>0, <1>4 DEF Admitted
    <2>2. Known(t)'
      BY <1>4, <1>2 DEF SetState, HostTyped, Known
    <2>3. ProcessTyped
      BY <1>2, <1>4 DEF ProcessTyped, SubmitTurn, HostTyped
    <2>4. TasksMove /\ LocksMove
      <3>1. /\ DOMAIN task' = DOMAIN task /\ task'[i] = "driving"
            /\ \A j \in DOMAIN task \ {i} : task'[j] = task[j]
        BY <1>1, <1>4 DEF Goto
      <3>2. \A u \in Turns : owner'[u] = IF u = t THEN i ELSE owner[u]
        BY <1>2, <1>4 DEF HostTyped
      <3>3. Admits(i) /\ i \in Rows /\ IsDriver(i)
        BY <1>0, <1>1, <2>2, <3>1, DriverParts DEF Admits, Known
      <3>4. TasksMove
        BY <3>1, <3>3 DEF TasksMove, TaskMoves
      <3>5. ASSUME NEW u \in Turns PROVE LockMoves(u)
        <4>1. CASE u = t
          BY <4>1, <1>0, <1>1, <2>2, <3>1, <3>2, <3>3 DEF LockMoves, MayHold, OwnPhases
        <4>2. CASE u # t
          BY <4>2, <1>1, <3>1, <3>2 DEF LockMoves, MayHold, HostInv, LocksStand, LockStands, TaskIn
        <4> QED BY <4>1, <4>2
      <3> QED BY <3>4, <3>5 DEF LocksMove
    <2>5. Parent[t] = NoTurn \/ Known(Root(t))
      BY <1>2 DEF HostInv, FamiliesStand
    <2> QED BY <1>2, <1>4, <2>1, <2>3, <2>4, <2>5, TurnArrives DEF States, RunningStates
  <1> QED BY <1>0, <1>3, <1>4 DEF SubmitTurn

(* The driver takes the lock of its Turn, or its command waits.             *)
LEMMA EnterKeeps == ASSUME HostInv, NEW i, Enter(i) PROVE HostInv'
  <1>0. PICK t : t = TurnAt(i)
    OBVIOUS
  <1>1. /\ i \in DOMAIN task /\ task[i] \in {"entering", "entering_cancel"}
        /\ \A u \in Turns : owner[u] # i
    BY HoldsNothing DEF Enter, TaskIn
  <1>2. /\ HostTyped /\ t \in Turns /\ i \in Nat /\ Known(t) /\ queue[i] \in Row
        /\ IsDriver(i) /\ RowStands(queue[i])
    BY <1>0, <1>1, DriverParts, RowsAreNat DEF Fits, Opened
  <1>3. CASE FinishRow(i, "pending", FALSE) /\ UNCHANGED <<owner, turnVars>>
    BY <1>0, <1>1, <1>2, <1>3, LeavesCommand DEF Enter, Statuses, HostTyped
  <1>4. ASSUME NEW p \in {"cancelling", "offering_auto", "offering"}, Goto(i, p), Fits(i, p), TurnsMove,
               owner' = [owner EXCEPT ![t] = i], UNCHANGED queue
        PROVE  HostInv'
    <2>1. owner' \in [Turns -> Nat] /\ \A u \in Turns : owner'[u] = IF u = t THEN i ELSE owner[u]
      BY <1>2, <1>4 DEF HostTyped
    <2>2. Known(t)'
      BY <1>2, <1>4 DEF TurnsMove, TurnsGrow
    <2>3. p \in OwnPhases
      BY <1>4 DEF OwnPhases
    <2>4. QueueMoves /\ up' = up /\ hand' = hand /\ mishaps' \in 0..MaxMishaps
      BY <1>2, <1>4, QueueStays DEF Enter, HostTyped
    <2>5. \A u \in Turns :
            \/ owner'[u] = owner[u] /\ owner[u] # i
            \/ owner'[u] = i /\ Known(u)' /\ TurnAt(i) = u /\ p \in OwnPhases
      BY <1>0, <1>1, <2>1, <2>2, <2>3
    <2> QED BY <1>1, <1>4, <2>1, <2>4, <2>5, GoKeeps
  <1>5. CASE task[i] = "entering_cancel" /\ Goto(i, "cancelling") /\ UNCHANGED <<queue, turnVars>>
             /\ owner' = [owner EXCEPT ![t] = i]
    <2>1. Fits(i, "cancelling") /\ TurnsMove
      BY <1>0, <1>2, <1>5, TurnsStay DEF Fits, Phases
    <2> QED BY <1>4, <1>5, <2>1
  <1>6. CASE /\ Goto(i, IF queue[i].kind \in {"start", "wake"} \/ Stale(i) THEN "offering_auto" ELSE "offering")
             /\ SetState(t, Recovered(state[t], queue[i].verb)) /\ UNCHANGED <<queue, cancel, settled>>
             /\ owner' = [owner EXCEPT ![t] = i]
    <2>1. Recovered(state[t], queue[i].verb) \in States \ {"absent"}
      BY <1>2, LeftBehind DEF HostTyped, Known
    <2>2. TurnsMove
      BY <1>2, <1>6, <2>1, StateSet DEF HostTyped
    <2>3. CASE queue[i].kind \in {"start", "wake"} \/ Stale(i)
      <3>1. Fits(i, "offering_auto")
        BY <1>0, <1>2 DEF Fits, Phases
      <3> QED BY <1>4, <1>6, <2>2, <2>3, <3>1
    <2>4. CASE ~(queue[i].kind \in {"start", "wake"} \/ Stale(i))
      <3>1. queue[i].kind \in {"reply", "finish"}
        BY <1>2, <2>4 DEF IsDriver, DriverKinds
      <3>2. queue[i].grants = 0
        BY <1>0, <1>2, <2>4 DEF Stale, RowStands, TurnAt, HostTyped, Row
      <3>3. Fits(i, "offering")
        BY <1>0, <1>2, <3>1, <3>2 DEF Fits, Phases
      <3> QED BY <1>4, <1>6, <2>2, <2>4, <3>3
    <2> QED BY <2>3, <2>4
  <1> QED BY <1>0, <1>1, <1>3, <1>5, <1>6 DEF Enter, TaskIn

LEMMA ObserveKeeps == ASSUME HostInv, NEW i, Observe(i) PROVE HostInv'
  <1>0. PICK t : t = TurnAt(i)
    OBVIOUS
  <1>1. i \in DOMAIN task /\ task[i] \in {"offering", "offering_auto"}
    BY DEF Observe, TaskIn
  <1>2. HostTyped /\ t \in Turns /\ Known(t)
    BY <1>0, <1>1, DriverParts DEF Fits, Opened
  <1>3. cancel' \in [Turns -> BOOLEAN] /\ settled' = settled /\ SetState(t, "ready")
    BY <1>0, <1>2 DEF Observe, HostTyped
  <1>4. TurnsMove
    BY <1>2, <1>3, StateSet DEF HostTyped, States, RunningStates
  <1>5. ProcessTyped /\ task' = task /\ owner' = owner /\ QueueMoves
    BY <1>2, QueueStays DEF Observe, processVars, ProcessTyped, HostTyped
  <1>6. TasksMove /\ LocksMove
    BY <1>5, DriversRest DEF ProcessTyped
  <1> QED BY <1>4, <1>5, <1>6, Assembled

(* The driver gives the lock of its own Turn back.                          *)
LEMMA Unlocked ==
    ASSUME HostInv, NEW i \in DOMAIN task, Unlock(i)
    PROVE  /\ owner' \in [Turns -> Nat]
           /\ \A t \in Turns : owner'[t] = 0 \/ (owner'[t] = owner[t] /\ (owner[t] = i => TurnAt(i) # t))
  BY DEF Unlock, HostInv, HostTyped

LEMMA UnlockKeeps ==
    ASSUME HostInv, NEW i \in DOMAIN task, NEW p \in {"closing", "failing", "abandoning"},
           Goto(i, p), Unlock(i), QueueMoves, TurnsMove,
           up' = up, hand' = hand, mishaps' \in 0..MaxMishaps
    PROVE  HostInv'
  <1>1. Fits(i, p)
    BY DEF Fits, Phases, Opened
  <1>2. p \in ParentPhases
    BY DEF ParentPhases
  <1> QED BY <1>1, <1>2, Unlocked, GoKeeps

LEMMA DeclineKeeps == ASSUME HostInv, NEW i, Decline(i) PROVE HostInv'
  <1>1. i \in DOMAIN task /\ HostTyped
    BY DEF Decline, TaskIn, HostInv
  <1>2. PICK p \in {"closing", "failing"} : Goto(i, p)
    BY DEF Decline
  <1>3. QueueMoves /\ TurnsMove
    BY <1>1, QueueStays, TurnsStay DEF Decline
  <1> QED BY <1>1, <1>2, <1>3, UnlockKeeps DEF Decline, HostTyped

LEMMA RecordCancellationKeeps == ASSUME HostInv, NEW i, RecordCancellation(i) PROVE HostInv'
  <1>0. PICK t : t = TurnAt(i)
    OBVIOUS
  <1>1. i \in DOMAIN task /\ task[i] = "stopping"
    BY DEF RecordCancellation, TaskIn
  <1>2. HostTyped /\ t \in Turns /\ Known(t)
    BY <1>0, <1>1, DriverParts DEF Fits, Opened
  <1>3. /\ cancel' \in [Turns -> BOOLEAN] /\ settled' = settled
        /\ SetState(t, Interrupted(state[t])) /\ Interrupted(state[t]) \in States \ {"absent"}
    BY <1>0, <1>2, LeftBehind DEF RecordCancellation, HostTyped, Known
  <1>4. TurnsMove /\ QueueMoves
    BY <1>2, <1>3, StateSet, QueueStays DEF HostTyped, RecordCancellation
  <1> QED BY <1>1, <1>2, <1>4, UnlockKeeps DEF RecordCancellation, HostTyped

LEMMA DriverRaisesKeeps == ASSUME HostInv, NEW i, DriverRaises(i) PROVE HostInv'
  <1>1. i \in DOMAIN task /\ HostTyped
    BY DEF DriverRaises, TaskIn, HostInv
  <1>2. QueueMoves /\ TurnsMove /\ mishaps' \in 0..MaxMishaps
    BY <1>1, QueueStays, TurnsStay, MishapTyped DEF DriverRaises
  <1> QED BY <1>1, <1>2, UnlockKeeps DEF DriverRaises

LEMMA GrantWritten ==
    ASSUME HostTyped, NEW k \in Rows, NEW g \in Nat, queue' = [queue EXCEPT ![k].grants = g]
    PROVE  CommandsKept /\ queue'[k].grants = g /\ \A i \in Rows \ {k} : queue'[i].grants = queue[i].grants
  <1>1. queue \in [Rows -> Row]
    BY RowsAreNat, LenProperties DEF HostTyped
  <1>2. queue' = [i \in Rows |-> queue'[i]]
    BY <1>1
  <1>3. queue'[k] = [queue[k] EXCEPT !.grants = g] /\ \A i \in Rows \ {k} : queue'[i] = queue[i]
    BY <1>1
  <1>4. queue[k] \in Row /\ queue'[k] \in Row /\ SameCommand(k) /\ JustRejected(k) /\ queue'[k].grants = g
    BY <1>1, <1>3 DEF SameCommand, JustRejected, Row
  <1>5. \A i \in Rows : queue'[i] \in Row /\ SameCommand(i) /\ JustRejected(i)
    BY <1>1, <1>3, <1>4 DEF SameCommand, JustRejected
  <1> QED BY <1>2, <1>3, <1>4, <1>5, RowsRewritten

(* What a reply authorises changes its Turn, and only a reply the user gave *)
(* to the very Turn that is here gets so far.                               *)
LEMMA OfferKeeps == ASSUME HostInv, NEW i, Offer(i) PROVE HostInv'
  <1>0. PICK t : t = TurnAt(i)
    OBVIOUS
  <1> DEFINE plan == Plan(t)
             abort == queue[i].verb = "abort"
             s == IF abort THEN "ended" ELSE "ready"
             used == ~abort /\ plan \in NeedsUser
  <1>1. i \in DOMAIN task /\ task[i] \in {"offering", "offering_auto"} /\ Goto(i, "driving")
    BY DEF Offer, TaskIn
  <1>2. /\ HostTyped /\ i \in Rows /\ t \in Turns /\ Known(t) /\ queue[i] \in Row
        /\ IsDriver(i) /\ RowStands(queue[i]) /\ Fits(i, task[i]) /\ queue[i].turn = t
    BY <1>0, <1>1, DriverParts DEF Fits, Opened, TurnAt
  <1>3. /\ ~Declined(i, plan) /\ SetState(t, s) /\ settled' = settled
        /\ queue' = [queue EXCEPT ![i].grants = IF used THEN @ + 1 ELSE @]
    BY <1>0 DEF Offer
  <1>4. cancel' \in [Turns -> BOOLEAN]
    BY <1>0, <1>2 DEF Offer, HostTyped
  <1>5. TurnsMove
    <2>1. s \in States \ {"absent"}
      BY DEF States, RunningStates
    <2> QED BY <1>2, <1>3, <1>4, <2>1, StateSet DEF HostTyped
  <1>6. PICK g \in Nat : g = (IF used THEN queue[i].grants + 1 ELSE queue[i].grants)
                         /\ queue' = [queue EXCEPT ![i].grants = g]
    <2>1. queue[i].grants \in Nat /\ queue[i].grants + 1 \in Nat
      BY <1>2 DEF Row
    <2>2. CASE used
      <3>1. queue' = [queue EXCEPT ![i].grants = queue[i].grants + 1]
        BY <1>2, <1>3, <2>2
      <3> QED BY <2>1, <2>2, <3>1
    <2>3. CASE ~used
      <3>1. queue' = [queue EXCEPT ![i].grants = queue[i].grants]
        BY <1>2, <1>3, <2>3
      <3> QED BY <2>1, <2>3, <3>1
    <2> QED BY <2>2, <2>3
  <1>7. CommandsKept /\ queue'[i].grants = g /\ \A j \in Rows \ {i} : queue'[j].grants = queue[j].grants
    BY <1>2, <1>6, GrantWritten
  <1>8. DOMAIN task' = DOMAIN task /\ task'[i] = "driving"
    BY <1>1 DEF Goto
  <1>9. GrantKept(i)
    <2>1. CASE ~used
      BY <2>1, <1>6, <1>7 DEF GrantKept
    <2>2. CASE used
      <3>1. plan \in NeedsUser /\ queue[i].verb = "go"
        BY <2>2, <1>2 DEF Row
      <3>2. task[i] = "offering"
        BY <1>1, <1>3, <3>1 DEF Declined, TaskIn, NeedsUser, Automatic
      <3>3. queue[i].kind = "reply" /\ queue[i].grants = 0
        BY <1>2, <3>1, <3>2 DEF Fits, RowStands
      <3>4. state[t] # s
        BY <3>1 DEF Plan, PlanFor, NeedsUser
      <3>5. seq'[t] = seq[t] + 1 /\ seq[t] \in Nat
        BY <1>2, <1>3, <3>4 DEF SetState, HostTyped
      <3>6. queue[i].revision < seq'[queue[i].turn]
        BY <1>2, <3>5 DEF RowStands, Row
      <3>7. g = 1
        BY <1>6, <2>2, <3>3
      <3> QED BY <1>7, <1>8, <3>3, <3>6, <3>7 DEF GrantKept
    <2> QED BY <2>1, <2>2
  <1>10. QueueMoves
    <2>1. \A j \in Rows : GrantKept(j)
      BY <1>7, <1>9 DEF GrantKept
    <2> QED BY <1>7, <2>1 DEF QueueMoves, GrantsKept
  <1>11. Fits(i, "driving")
    BY <1>0, <1>2 DEF Fits, Phases
  <1>12. "driving" \in OwnPhases /\ "driving" \in ParentPhases
    BY DEF OwnPhases, ParentPhases
  <1>13. up' = up /\ hand' = hand /\ mishaps' \in 0..MaxMishaps /\ owner' = owner /\ owner' \in [Turns -> Nat]
    BY <1>2 DEF Offer, HostTyped
  <1> QED BY <1>1, <1>5, <1>10, <1>11, <1>12, <1>13, GoKeeps

LEMMA AckKeeps == ASSUME HostInv, NEW i, Ack(i) PROVE HostInv'
  <1>1. i \in DOMAIN task /\ task[i] \in {"acking", "closing"} /\ (task[i] = "closing" => ChildTasks(i) = {})
    BY DEF Ack, TaskIn
  <1>2. HostTyped /\ i # 0
    BY <1>1, DriverParts
  <1>3. \A u \in Turns : owner[u] # i
    BY <1>1, <1>2 DEF HostInv, LocksStand, LockStands, TaskIn, OwnPhases, ParentPhases, ChildTasks
  <1>4. PICK status \in {"pending", "applied"} : FinishRow(i, status, TRUE)
    BY DEF Ack
  <1> QED BY <1>1, <1>2, <1>3, <1>4, LeavesCommand DEF Ack, Statuses, HostTyped

LEMMA AbandonChildrenKeeps == ASSUME HostInv, NEW i, AbandonChildren(i) PROVE HostInv'
  <1> DEFINE kids == {c \in Children(TurnAt(i)) : state[c] \notin {"absent", "ended"}}
  <1>1. i \in DOMAIN task /\ task[i] \in {"abandoning", "failing"}
    BY DEF AbandonChildren, TaskIn
  <1>2. HostTyped /\ i # 0
    BY <1>1, DriverParts
  <1>3. kids \subseteq {c \in Turns : Known(c)}
    BY DEF Children, Known
  <1>4. \A c \in kids : Abandoned(i, c) \in States \ {"absent"}
    <2> SUFFICES ASSUME NEW c \in kids PROVE Abandoned(i, c) \in States \ {"absent"}
      OBVIOUS
    <2>1. state[c] \in States \ {"absent"}
      BY <1>2, <1>3 DEF HostTyped, Known
    <2>2. Interrupted(state[c]) \in States \ {"absent"}
      BY <2>1, LeftBehind
    <2> QED BY <2>1, <2>2 DEF Abandoned, States
  <1>5. TurnsMove
    <2>1. state' \in [Turns -> States] /\ \A c \in Turns : Known(c)' <=> Known(c)
      BY <1>2, <1>3, <1>4 DEF AbandonChildren, HostTyped, Known
    <2>2. seq' \in [Turns -> Nat] /\ \A c \in Turns : seq[c] <= seq'[c]
      BY <1>2 DEF AbandonChildren, HostTyped
    <2>3. cancel' \in [Turns -> BOOLEAN] /\ exposed' \subseteq Turns /\ settled' \subseteq Turns
      BY <1>2, <1>3 DEF AbandonChildren, HostTyped
    <2> QED BY <2>1, <2>2, <2>3 DEF TurnsMove, TurnsTyped, TurnsGrow
  <1>6. /\ owner' \in [Turns -> Nat] /\ up' = up /\ hand' = hand /\ mishaps' \in 0..MaxMishaps
        /\ \A c \in Turns : owner'[c] = 0 \/ (owner'[c] = owner[c] /\ owner[c] # i)
    BY <1>2 DEF AbandonChildren, HostTyped
  <1>7. CASE FinishRow(i, "blocked", TRUE)
    BY <1>1, <1>5, <1>6, <1>7, FinishKeeps DEF Statuses
  <1>8. CASE Goto(i, "acking") /\ UNCHANGED queue
    <2>1. Fits(i, "acking") /\ QueueMoves
      BY <1>2, <1>8, QueueStays DEF Fits, Phases, Opened
    <2> QED BY <1>1, <1>5, <1>6, <1>8, <2>1, GoKeeps
  <1> QED BY <1>7, <1>8 DEF AbandonChildren

LEMMA DriveKeeps == ASSUME HostInv, NEW i, Drive(i) PROVE HostInv'
  BY OpenKeeps, OpenFailsKeeps, SubmitTurnKeeps, ReadPlanKeeps, EnterKeeps, ObserveKeeps, DeclineKeeps,
     OfferKeeps, AckKeeps, RecordCancellationKeeps, AbandonChildrenKeeps, DriverRaisesKeeps DEF Drive

-----------------------------------------------------------------------------
(* The Turns that drivers advance *)

LEMMA DrivenParts ==
    ASSUME HostInv, NEW t \in Turns, Driven(t)
    PROVE  /\ HostTyped /\ Known(t) /\ owner[t] \in DOMAIN task /\ owner[t] \in Rows
           /\ TaskIn(owner[t], IF TurnAt(owner[t]) = t THEN OwnPhases ELSE ParentPhases)
           /\ TurnAt(owner[t]) \in {t, Parent[t]}
  BY DEF Driven, TaskIn, HostInv, LocksStand, LockStands, TasksStand, TaskStands

LEMMA TurnSetKeeps ==
    ASSUME HostInv, NEW t \in Turns, Known(t), NEW s \in States \ {"absent"}, SetState(t, s),
           cancel' \in [Turns -> BOOLEAN], settled' \subseteq Turns, UNCHANGED <<processVars, queue>>
    PROVE  HostInv'
  <1>1. TurnsMove /\ QueueMoves
    BY StateSet, QueueStays DEF HostInv
  <1>2. ProcessTyped /\ task' = task /\ owner' = owner
    BY DEF processVars, ProcessTyped, HostInv, HostTyped
  <1>3. TasksMove /\ LocksMove
    BY <1>2, DriversRest DEF ProcessTyped
  <1> QED BY <1>1, <1>2, <1>3, Assembled

LEMMA TurnStepKeeps ==
    ASSUME HostInv, NEW t \in Turns, NEW s \in States \ {"absent"}, TurnStep(t, s) PROVE HostInv'
  <1>1. Known(t) /\ HostTyped
    BY DrivenParts DEF TurnStep
  <1> QED BY <1>1, TurnSetKeeps DEF TurnStep, HostTyped

LEMMA AnswerKeeps == ASSUME HostInv, NEW t \in Turns, Answer(t) PROVE HostInv'
  <1>1. Known(t) /\ HostTyped
    BY DrivenParts DEF Answer
  <1>2. PICK s \in {"ended", "waiting"} : SetState(t, s)
    BY DEF Answer
  <1>3. settled' \subseteq Turns
    BY <1>1 DEF Answer, HostTyped, Settleable
  <1> QED BY <1>1, <1>2, <1>3, TurnSetKeeps DEF Answer, HostTyped, States

LEMMA CloseKeeps == ASSUME HostInv, NEW t \in Turns, Close(t) PROVE HostInv'
  <1>1. Known(t) /\ HostTyped
    BY DrivenParts DEF Close
  <1>2. cancel' \in [Turns -> BOOLEAN] /\ settled' \subseteq Turns
    BY <1>1 DEF Close, HostTyped
  <1> QED BY <1>1, <1>2, TurnSetKeeps DEF Close, States

LEMMA LeaveKeeps == ASSUME HostInv, NEW t \in Turns, Leave(t) PROVE HostInv'
  <1>1. HostTyped /\ owner[t] \in DOMAIN task
    BY DrivenParts DEF Leave
  <1>2. owner' \in [Turns -> Nat] /\ \A u \in Turns : owner'[u] = IF u = t THEN 0 ELSE owner[u]
    BY <1>1 DEF Leave, HostTyped
  <1>3. TurnsMove
    BY <1>1 DEF Leave, HostTyped, TurnsMove, TurnsTyped, TurnsGrow, Known, Settleable
  <1>4. QueueMoves /\ up' = up /\ hand' = hand /\ mishaps' \in 0..MaxMishaps
    BY <1>1, QueueStays DEF Leave, HostTyped
  <1>5. CASE TurnAt(owner[t]) = t /\ Goto(owner[t], "closing")
    <2>1. PICK i \in DOMAIN task : i = owner[t]
      BY <1>1
    <2>2. Fits(i, "closing")
      BY DEF Fits, Phases, Opened
    <2>3. \A u \in Turns :
             \/ owner'[u] = 0
             \/ /\ owner'[u] = owner[u]
                /\ owner[u] = i => "closing" \in IF TurnAt(i) = u THEN OwnPhases ELSE ParentPhases
      BY <1>2, <1>5, <2>1 DEF ParentPhases
    <2> QED BY <1>2, <1>3, <1>4, <1>5, <2>1, <2>2, <2>3, GoKeeps
  <1>6. CASE UNCHANGED task
    <2>1. TasksMove /\ LocksMove
      BY <1>2, <1>6, DriversRest
    <2>2. ProcessTyped
      BY <1>1, <1>2, <1>4 DEF ProcessTyped, HostTyped
    <2> QED BY <1>3, <1>4, <2>1, <2>2, Assembled
  <1> QED BY <1>5, <1>6 DEF Leave

(* A child runs in the Session of the driver of its parent.                 *)
LEMMA SpawnChildKeeps ==
    ASSUME HostInv, NEW t \in Turns, NEW c \in Turns, SpawnChild(t, c) PROVE HostInv'
  <1>1. /\ HostTyped /\ Known(t) /\ ~Known(c) /\ owner[t] \in DOMAIN task /\ owner[t] \in Rows
        /\ TaskIn(owner[t], IF TurnAt(owner[t]) = t THEN OwnPhases ELSE ParentPhases)
        /\ TurnAt(owner[t]) \in {t, Parent[t]} /\ Parent[c] = t
    BY DrivenParts DEF SpawnChild, Known
  <1>2. Parent[t] = NoTurn /\ NoTurn \notin Turns /\ Root(c) = t /\ Root(t) = t
    BY <1>1, HostInputs DEF Root
  <1>3. TurnAt(owner[t]) = t /\ t # c
    BY <1>1, <1>2, DriverParts
  <1>4. ~SubmissionIn(c, {"rejected"})
    BY <1>1, <1>2 DEF HostInv, RejectedNeverRuns, SubmissionIn, Submission, Known
  <1>5. task[owner[t]] \in OwnPhases \cap ParentPhases
    BY <1>1, <1>3 DEF SpawnChild, Driven, TaskIn, OwnPhases, ParentPhases
  <1>6. owner' \in [Turns -> Nat] /\ \A u \in Turns : owner'[u] = IF u = c THEN owner[t] ELSE owner[u]
    BY <1>1 DEF SpawnChild, HostTyped
  <1>7. task' = task /\ Known(c)'
    BY <1>1 DEF SpawnChild, SetState, HostTyped, Known
  <1>8. TasksMove
    BY <1>7 DEF TasksMove, TaskMoves
  <1>9. ASSUME NEW u \in Turns PROVE LockMoves(u)
    <2>1. CASE u = c
      BY <2>1, <1>1, <1>3, <1>5, <1>6, <1>7 DEF LockMoves, MayHold
    <2>2. CASE u # c
      BY <2>2, <1>6, <1>7, HolderMay DEF LockMoves
    <2> QED BY <2>1, <2>2
  <1>10. ProcessTyped /\ LocksMove
    BY <1>1, <1>6, <1>9 DEF SpawnChild, ProcessTyped, LocksMove, HostTyped
  <1> QED BY <1>1, <1>2, <1>4, <1>8, <1>10, TurnArrives DEF SpawnChild, States, RunningStates

LEMMA AdvanceKeeps == ASSUME HostInv, NEW t \in Turns, Advance(t) PROVE HostInv'
  <1>1. CASE \E s \in States \ {"absent"} : TurnStep(t, s)
    BY <1>1, TurnStepKeeps
  <1>2. Dispatch(t) \/ ReturnResponse(t) \/ ReportResult(t) \/ Ask(t) \/ Lose(t)
           => \E s \in States \ {"absent"} : TurnStep(t, s)
    BY DEF Dispatch, ReturnResponse, ReportResult, Ask, Lose, States, RunningStates
  <1> QED BY <1>1, <1>2, AnswerKeeps, CloseKeeps, LeaveKeeps, SpawnChildKeeps DEF Advance

-----------------------------------------------------------------------------
(* The host *)

LEMMA InitStands == ASSUME Init PROVE HostInv
  <1>1. queue \in Seq(Row) /\ Rows = {}
    BY EmptySeq DEF Init, Rows
  <1>2. HostTyped
    BY <1>1, HostInputs DEF Init, HostTyped, States
  <1>3. {t \in Turns : Known(t)} = {}
    BY DEF Init, Known
  <1>4. FamiliesStand
    BY <1>3, FS_EmptySet DEF FamiliesStand
  <1>5. RowsStand /\ TasksStand /\ LocksStand
    BY <1>1 DEF Init, RowsStand, TasksStand, LocksStand, LockStands
  <1>6. RejectedNeverRuns
    BY <1>3 DEF RejectedNeverRuns, Known
  <1> QED BY <1>2, <1>4, <1>5, <1>6 DEF HostInv

LEMMA HostStays == ASSUME HostInv, UNCHANGED hostVars PROVE HostInv'
  BY OnlyQueue, QueueStays DEF hostVars, processVars, HostInv

LEMMA StepKeeps == ASSUME HostInv, [Next]_hostVars PROVE HostInv'
  <1>1. ASSUME NEW t \in Turns, Client(t) \/ Advance(t) PROVE HostInv'
    BY <1>1, ClientKeeps, AdvanceKeeps
  <1>2. ASSUME NEW i \in Rows, Later(i) \/ Drive(i) PROVE HostInv'
    BY <1>2, LaterKeeps, DriveKeeps
  <1>3. CASE StartHost \/ CrashHost \/ Shutdown \/ Closed
    BY <1>3, StartHostKeeps, EndKeeps, ShutdownKeeps
  <1>4. CASE ApplyControl \/ EnqueueWakeups \/ ClaimDriver
    BY <1>4, ClaimControlKeeps, ApplyCancelKeeps, StopDriversKeeps, ApplyInputKeeps,
       EnqueueWakeupsKeeps, ClaimDriverKeeps DEF ApplyControl
  <1>5. CASE UNCHANGED hostVars
    BY <1>5, HostStays
  <1> QED BY <1>1, <1>2, <1>3, <1>4, <1>5 DEF Next

(* The inductive invariant: what commands, drivers and locks may rely on    *)
(* of each other (host.py, harness/host_ops.py).                            *)
THEOREM HostInvariant == Spec => []HostInv
  <1>1. Init => HostInv
    BY InitStands
  <1>2. HostInv /\ [Next]_hostVars => HostInv'
    BY StepKeeps
  <1> QED BY <1>1, <1>2, PTL DEF Spec

(* The state of the host keeps its types: in particular a driver always     *)
(* works on a command that exists, and a lock is held by a live driver.     *)
THEOREM HostIsTyped == Spec => []TypeOK
  <1>1. HostInv => TypeOK
    <2> SUFFICES ASSUME HostInv PROVE TypeOK
      OBVIOUS
    <2>1. \A i \in DOMAIN task : i \in Rows /\ IsDriver(i) /\ task[i] \in Phases
      BY DriverParts DEF Fits
    <2>2. \A i \in Rows :
             /\ queue[i].kind \in Kinds /\ TurnAt(i) \in Turns
             /\ queue[i].status \in Statuses /\ queue[i].due \in BOOLEAN
             /\ queue[i].kind = "wake" => queue[i].plan \in Plans
      BY RowTyped DEF HostInv, RowsStand, RowStands, Row, TurnAt
    <2>3. \A t \in Turns : owner[t] \in DOMAIN task \cup {0}
      BY DEF HostInv, LocksStand, LockStands, TaskIn
    <2> QED BY <2>1, <2>2, <2>3 DEF HostInv, HostTyped, TypeOK, Statuses
  <1> QED BY <1>1, HostInvariant, PTL

(* A submission the user withdrew never becomes a Turn, nor do children of  *)
(* it, whoever held its claim (reject_queued_start, BackgroundHost._guard). *)
THEOREM RejectedStaysOut == Spec => []RejectedNeverRuns
  <1>1. HostInv => RejectedNeverRuns
    BY DEF HostInv
  <1> QED BY <1>1, HostInvariant, PTL

(* A reply of the user authorises at most one continuation, however often   *)
(* its command is delivered again (authorization_revision).                 *)
THEOREM RepliesAreUsedOnce == Spec => []RepliesAuthoriseOnce
  <1>1. HostInv => RepliesAuthoriseOnce
    BY DEF HostInv, RowsStand, RowStands, RepliesAuthoriseOnce
  <1> QED BY <1>1, HostInvariant, PTL
=============================================================================
