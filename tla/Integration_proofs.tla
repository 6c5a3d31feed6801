------------------------- MODULE Integration_proofs -------------------------
(***************************************************************************)
(* What integrating children promises, for any number of children and      *)
(* files: nobody's work is lost, a checkout is kept while it is needed,    *)
(* and a parent completes over what it verified.                           *)
(***************************************************************************)
EXTENDS Integration, TLAPS

(* A child that was not allocated is at the beginning; one whose result is  *)
(* archived has ended and writes no more; only such a one is applied.       *)
GrownInOrder(c) ==
    /\ env[c].status = "none" => c \notin spawning /\ turn[c] = "none"
    /\ c \in spawning => turn[c] = "none"
    /\ env[c].artifact => Terminal(c)
    /\ env[c].status \in {"applying", "integrated"} => env[c].artifact
    /\ landed[c] # {} => env[c].artifact

(* A verification speaks of the tree that was read for it.                  *)
VerifiedAsRead(c) ==
    env[c].verification = "recorded" => env[c].tested = env[c].tree \/ disturbed[c]

(* Who has begun a removal may finish it: what allowed it stays true.       *)
RemovalStands(c) ==
    /\ remover[c] # "idle" \/ checkout[c] = "removed" =>
         Terminal(c) /\ (env[c].artifact \/ env[c].status = "discarded")
    /\ remover[c] # "idle" => checkout[c] = "present"
    /\ remover[c] = "locked" => lock[c] = {"remover"}
    /\ checkout[c] = "removed" => lock[c] = {}

(* The operation under way finds its child as it left it.                   *)
JobStands(c) ==
    /\ Doing("prepare", c) => env[c].status = "preparing" /\ turn[c] = "none" /\ c \notin spawning
    /\ Doing("inspect", c) => Terminal(c)
    /\ Doing("inspect", c) => ~env[c].artifact
    /\ Doing("apply", c) => env[c].status = "applying"
    /\ Doing("apply", c) => landed[c] \cup job.todo = Changed(c)

ReadStands ==
    job # None /\ job.kind = "verify" /\ job.tree # None /\ ~job.disturbed => job.tree = file

(* The inductive invariant.                                                 *)
ChildStands(c) == GrownInOrder(c) /\ VerifiedAsRead(c) /\ RemovalStands(c) /\ JobStands(c)

IntegrationInv ==
    /\ WorkspaceTypeOK
    /\ ReadStands
    /\ \A c \in Children : ChildStands(c)

-----------------------------------------------------------------------------
(* Types *)

LEMMA NoEnvironmentTyped == NoEnvironment \in Environments
  BY DEF NoEnvironment, Environments

LEMMA JobTyped ==
    ASSUME WorkspaceTypeOK, job # None
    PROVE  job \in Jobs
  BY DEF WorkspaceTypeOK

LEMMA TypesInit == WorkspaceInit => WorkspaceTypeOK
  <1>1. Untouched \in Trees
    BY ContentsAssumption DEF Untouched, Trees
  <1>2. SUFFICES ASSUME WorkspaceInit PROVE WorkspaceTypeOK
    OBVIOUS
  <1>3. patch \in [Children -> [from : Trees, to : Trees]] /\ file \in Trees
    BY <1>1, <1>2 DEF WorkspaceInit
  <1>4. env \in [Children -> Environments] /\ turn \in [Children -> TurnStates]
    BY <1>2, NoEnvironmentTyped DEF WorkspaceInit, TurnStates
  <1> QED
    BY <1>2, <1>3, <1>4 DEF WorkspaceInit, WorkspaceTypeOK

LEMMA TypesOfSpawn ==
    ASSUME WorkspaceTypeOK, NEW c \in Children, SpawnStep(c)
    PROVE  WorkspaceTypeOK'
  <1> USE DEF WorkspaceTypeOK
  <1>e. env[c] \in Environments
    OBVIOUS
  <1>1. ASSUME NEW mode \in {"write", "read-only"}, Prepare(c, mode) PROVE WorkspaceTypeOK'
    <2>1. [NoEnvironment EXCEPT !.status = "preparing", !.mode = mode] \in Environments
      BY DEF NoEnvironment, Environments
    <2>2. env' \in [Children -> Environments]
      BY <1>1, <2>1 DEF Prepare, Recorded
    <2>3. job' \in Jobs
      BY <1>1 DEF Prepare, Starts, Jobs
    <2>4. patch' \in [Children -> [from : Trees, to : Trees]]
      BY <1>1 DEF Prepare
    <2> QED
      BY <1>1, <2>2, <2>3, <2>4 DEF Prepare, checkoutVars, parentVars
  <1>2. CASE MakeCheckout(c)
    BY <1>2 DEF MakeCheckout, childVars, parentVars
  <1>3. CASE Prepared(c)
    <2>1. [env[c] EXCEPT !.status = ReadyStatus(env[c].mode)] \in Environments
      BY <1>e DEF Environments, ReadyStatus
    <2>2. env' \in [Children -> Environments]
      BY <1>3, <2>1 DEF Prepared, Recorded
    <2> QED
      BY <1>3, <2>2 DEF Prepared, checkoutVars, parentVars
  <1>4. CASE Allocate(c)
    BY <1>4 DEF Allocate, TurnStates, checkoutVars, parentVars
  <1>5. CASE SpawnRefused(c)
    BY <1>5 DEF SpawnRefused, checkoutVars, parentVars
  <1> QED
    BY <1>1, <1>2, <1>3, <1>4, <1>5 DEF SpawnStep

LEMMA TypesOfChildTurn ==
    ASSUME WorkspaceTypeOK, NEW c \in Children, ChildTurnStep(c)
    PROVE  WorkspaceTypeOK'
  <1> USE DEF WorkspaceTypeOK
  <1>1. CASE OpenSession(c) \/ CloseSession(c)
    <2>1. lock' \in [Children -> SUBSET {"session", "inspector", "remover"}]
      BY <1>1 DEF OpenSession, CloseSession
    <2> QED
      BY <1>1, <2>1 DEF OpenSession, CloseSession, childVars, parentVars
  <1>2. CASE ChildEnds(c)
    <2>1. PICK written \in Written(c) :
            patch' = [patch EXCEPT ![c].to = [p \in Paths |-> IF p \in written THEN c ELSE @[p]]]
      BY <1>2 DEF ChildEnds
    <2>2. [p \in Paths |-> IF p \in written THEN c ELSE patch[c].to[p]] \in Trees
      BY ContentsAssumption DEF Trees
    <2>3. patch' \in [Children -> [from : Trees, to : Trees]]
      BY <2>1, <2>2
    <2>4. turn' \in [Children -> TurnStates]
      BY <1>2 DEF ChildEnds, TurnStates
    <2> QED
      BY <1>2, <2>3, <2>4 DEF ChildEnds, checkoutVars, parentVars
  <1>3. CASE Settle(c) \/ ExposureResolved(c)
    <2>1. turn' \in [Children -> TurnStates]
      BY <1>3 DEF Settle, ExposureResolved, TurnStates
    <2> QED
      BY <1>3, <2>1 DEF Settle, ExposureResolved, checkoutVars, parentVars
  <1> QED
    BY <1>1, <1>2, <1>3 DEF ChildTurnStep

LEMMA TypesOfIntegrate ==
    ASSUME WorkspaceTypeOK, NEW c \in Children, IntegrateStep(c)
    PROVE  WorkspaceTypeOK'
  <1> USE DEF WorkspaceTypeOK
  <1>e. env[c] \in Environments
    OBVIOUS
  <1>1. CASE InspectStarts(c)
    <2>1. job' \in Jobs
      BY <1>1 DEF InspectStarts, Starts, Jobs
    <2>2. lock' \in [Children -> SUBSET {"session", "inspector", "remover"}]
      BY <1>1 DEF InspectStarts
    <2> QED
      BY <1>1, <2>1, <2>2 DEF InspectStarts, childVars, parentVars
  <1>2. CASE InspectEnds(c)
    <2>1. PICK read \in BOOLEAN : env' = [env EXCEPT ![c] =
            [env[c] EXCEPT !.status = "reviewed", !.artifact = TRUE, !.read = read, !.verification = "required"]]
      BY <1>2 DEF InspectEnds, Recorded
    <2>2. env' \in [Children -> Environments]
      BY <1>e, <2>1 DEF Environments
    <2>3. lock' \in [Children -> SUBSET {"session", "inspector", "remover"}]
      BY <1>2 DEF InspectEnds
    <2> QED
      BY <1>2, <2>2, <2>3 DEF InspectEnds, childVars, parentVars
  <1>3. CASE ReadPages(c) \/ Reconcile(c) \/ Discard(c)
    <2>1. CASE ReadPages(c)
      BY <1>e, <2>1 DEF ReadPages, Recorded, Environments, childVars, checkoutVars, parentVars
    <2>2. CASE Reconcile(c)
      BY <1>e, <2>2 DEF Reconcile, Recorded, Environments, childVars, checkoutVars, parentVars
    <2>3. CASE Discard(c)
      BY <1>e, <2>3 DEF Discard, Recorded, Environments, childVars, checkoutVars, parentVars
    <2> QED
      BY <1>3, <2>1, <2>2, <2>3
  <1>4. CASE ApplyStarts(c)
    <2>1. job' \in Jobs
      BY <1>4 DEF ApplyStarts, Starts, Jobs, Changed
    <2>2. env' \in [Children -> Environments]
      BY <1>e, <1>4 DEF ApplyStarts, Recorded, Environments
    <2> QED
      BY <1>4, <2>1, <2>2 DEF ApplyStarts, childVars, checkoutVars, parentVars
  <1>5. CASE ApplyEnds(c) \/ Resolve(c)
    <2>1. PICK byHand \in BOOLEAN : Integrated(c, byHand)
      BY <1>5 DEF ApplyEnds, Resolve
    <2>2. [env[c] EXCEPT !.status = "integrated", !.byHand = byHand, !.verification = "required"] \in Environments
      BY <1>e DEF Environments
    <2>3. env' \in [Children -> Environments] /\ newer' \in [Children -> BOOLEAN]
      BY <2>1, <2>2 DEF Integrated, Recorded
    <2> QED
      BY <1>5, <2>3 DEF ApplyEnds, Resolve, childVars, checkoutVars
  <1>6. ASSUME NEW p \in Paths, SkipPath(c, p) \/ WritePath(c, p) PROVE WorkspaceTypeOK'
    <2>1. job \in Jobs /\ job' = [job EXCEPT !.todo = @ \ {p}]
      BY <1>6, JobTyped DEF SkipPath, WritePath, Handled, Doing
    <2>3. job' \in Jobs
      BY <2>1 DEF Jobs
    <2>2. file' \in Trees
      BY <1>6 DEF SkipPath, WritePath, Trees
    <2>4. landed' \in [Children -> SUBSET Paths]
      BY <1>6 DEF SkipPath, WritePath, Handled
    <2>5. UNCHANGED <<childVars, env, checkoutVars, parentVars>>
      BY <1>6 DEF SkipPath, WritePath, Handled
    <2> QED
      BY <2>2, <2>3, <2>4, <2>5 DEF childVars, checkoutVars, parentVars
  <1>7. CASE VerifyStarts(c)
    <2>1. job' \in Jobs
      BY <1>7 DEF VerifyStarts, Starts, Jobs
    <2> QED
      BY <1>7, <2>1 DEF VerifyStarts, childVars, checkoutVars, parentVars
  <1>8. CASE ReadTree(c)
    <2>1. job' \in Jobs
      BY <1>8, JobTyped DEF ReadTree, Doing, Jobs
    <2> QED
      BY <1>8, <2>1 DEF ReadTree, childVars, checkoutVars, parentVars
  <1>9. CASE VerifyEnds(c)
    <2>1. job.receipt \in Trees \cup {None} /\ job.tree \in Trees \cup {None} /\ job.disturbed \in BOOLEAN
      BY <1>9, JobTyped DEF VerifyEnds, Doing, Jobs
    <2>2. env' \in [Children -> Environments]
      BY <1>e, <1>9, <2>1 DEF VerifyEnds, Recorded, Environments
    <2> QED
      BY <1>9, <2>1, <2>2 DEF VerifyEnds, childVars, checkoutVars
  <1> QED
    BY <1>1, <1>2, <1>3, <1>4, <1>5, <1>6, <1>7, <1>8, <1>9 DEF IntegrateStep

LEMMA TypesOfRemove ==
    ASSUME WorkspaceTypeOK, NEW c \in Children, RemoveStep(c)
    PROVE  WorkspaceTypeOK'
  <1> USE DEF WorkspaceTypeOK
  <1>1. lock' \in [Children -> SUBSET {"session", "inspector", "remover"}]
    BY DEF RemoveStep, RemoveChecks, RemoveLocks, RemoveGivesUp, RemoveDeletes
  <1>2. remover' \in [Children -> {"idle", "checked", "locked"}]
    BY DEF RemoveStep, RemoveChecks, RemoveLocks, RemoveGivesUp, RemoveDeletes
  <1>3. checkout' \in [Children -> {"none", "present", "removed"}]
    BY DEF RemoveStep, RemoveChecks, RemoveLocks, RemoveGivesUp, RemoveDeletes
  <1> QED
    BY <1>1, <1>2, <1>3
    DEF RemoveStep, RemoveChecks, RemoveLocks, RemoveGivesUp, RemoveDeletes, childVars, parentVars

LEMMA TypesStep ==
    ASSUME WorkspaceTypeOK, [IntegrationNext]_vars
    PROVE  WorkspaceTypeOK'
  <1>1. CASE RunCommand
    BY <1>1 DEF WorkspaceTypeOK, RunCommand, childVars, checkoutVars
  <1>2. CASE Complete \/ Stop
    BY <1>2 DEF WorkspaceTypeOK, Complete, Stop, childVars, checkoutVars
  <1>3. CASE JobFails \/ Crash
    <2>1. lock' \in [Children -> SUBSET {"session", "inspector", "remover"}]
      BY <1>3 DEF WorkspaceTypeOK, JobFails, Crash, FreedBy
    <2> QED
      BY <1>3, <2>1 DEF WorkspaceTypeOK, JobFails, Crash, childVars, parentVars
  <1>4. ASSUME NEW p \in Paths, NEW v \in Contents, Edit(p, v) PROVE WorkspaceTypeOK'
    <2>1. file' \in Trees
      BY <1>4 DEF WorkspaceTypeOK, Edit, Trees
    <2>2. job' \in Jobs \cup {None}
      BY <1>4, JobTyped DEF Edit, Idle, Jobs
    <2> QED
      BY <1>4, <2>1, <2>2 DEF WorkspaceTypeOK, Edit, childVars, checkoutVars, parentVars
  <1>5. CASE UNCHANGED vars
    BY <1>5 DEF WorkspaceTypeOK, vars
  <1> QED
    BY <1>1, <1>2, <1>3, <1>4, <1>5, TypesOfSpawn, TypesOfChildTurn, TypesOfIntegrate, TypesOfRemove
    DEF IntegrationNext

-----------------------------------------------------------------------------
(* A child that a step does not touch, apart from locks its holders give up *)
(* and an operation that ends, stands as it stood.                          *)
Rests(d) ==
    /\ turn'[d] = turn[d] /\ env'[d] = env[d] /\ patch'[d] = patch[d]
    /\ landed'[d] = landed[d] /\ disturbed'[d] = disturbed[d]
    /\ checkout'[d] = checkout[d] /\ remover'[d] = remover[d]
    /\ d \in spawning' => d \in spawning
    /\ lock'[d] \subseteq lock[d] /\ ("remover" \in lock[d] => "remover" \in lock'[d])
    /\ \A kind \in {"prepare", "inspect", "apply", "verify"} :
         Doing(kind, d)' => Doing(kind, d) /\ job'.todo = job.todo

LEMMA RestingStands ==
    ASSUME NEW d \in Children, ChildStands(d), Rests(d)
    PROVE  ChildStands(d)'
  <1>1. GrownInOrder(d)' /\ VerifiedAsRead(d)'
    BY DEF ChildStands, GrownInOrder, VerifiedAsRead, Rests, Terminal
  <1>2. RemovalStands(d)'
    BY DEF ChildStands, RemovalStands, Rests, Terminal
  <1>3. JobStands(d)'
    BY DEF ChildStands, JobStands, Rests, Terminal, Changed
  <1> QED
    BY <1>1, <1>2, <1>3 DEF ChildStands

LEMMA SpawnStands ==
    ASSUME IntegrationInv, NEW c \in Children, SpawnStep(c)
    PROVE  ReadStands' /\ \A d \in Children : ChildStands(d)'
  <1>t. WorkspaceTypeOK /\ ChildStands(c) /\ ReadStands
    BY DEF IntegrationInv
  <1>1. ReadStands'
    BY <1>t DEF SpawnStep, Prepare, Starts, MakeCheckout, Prepared, Allocate, SpawnRefused, ReadStands
  <1>2. ASSUME NEW d \in Children, d # c PROVE Rests(d)
    BY <1>t, <1>2
    DEF WorkspaceTypeOK, SpawnStep, Prepare, Starts, MakeCheckout, Prepared, Allocate, SpawnRefused, Recorded,
        Rests, Doing, Idle, checkoutVars, childVars, parentVars
  <1>3. ASSUME NEW mode \in {"write", "read-only"}, Prepare(c, mode) PROVE ChildStands(c)'
    <2>1. /\ env'[c] = [NoEnvironment EXCEPT !.status = "preparing", !.mode = mode]
          /\ job'.kind = "prepare" /\ UNCHANGED <<turn, spawning, landed, checkout, lock, remover, disturbed>>
      BY <1>t, <1>3 DEF WorkspaceTypeOK, Prepare, Recorded, Starts, checkoutVars, parentVars
    <2>2. env'[c].status = "preparing" /\ ~env'[c].artifact /\ env'[c].verification = "none"
      BY <2>1 DEF NoEnvironment
    <2>3. turn[c] = "none" /\ c \notin spawning
      BY <1>t, <1>3 DEF Prepare, ChildStands, GrownInOrder
    <2> QED
      BY <1>t, <2>1, <2>2, <2>3
      DEF ChildStands, GrownInOrder, VerifiedAsRead, RemovalStands, JobStands, Doing, Terminal
  <1>4. ASSUME MakeCheckout(c) PROVE ChildStands(c)'
    <2>1. /\ checkout'[c] = "present" /\ UNCHANGED <<turn, spawning, env, patch, landed, lock, remover, job, disturbed>>
      BY <1>t, <1>4 DEF WorkspaceTypeOK, MakeCheckout, childVars, parentVars
    <2>2. turn[c] = "none"
      BY <1>t, <1>4 DEF MakeCheckout, ChildStands, JobStands
    <2>3. GrownInOrder(c)' /\ VerifiedAsRead(c)' /\ JobStands(c)'
      BY <1>t, <2>1 DEF ChildStands, GrownInOrder, VerifiedAsRead, JobStands, Doing, Terminal, Changed
    <2>4. RemovalStands(c)'
      BY <1>t, <2>1, <2>2 DEF ChildStands, RemovalStands, Terminal
    <2> QED
      BY <2>3, <2>4 DEF ChildStands
  <1>5. ASSUME Prepared(c) PROVE ChildStands(c)'
    <2>1. /\ env'[c] = [env[c] EXCEPT !.status = "ready"] /\ job' = None /\ spawning' = spawning \cup {c}
          /\ UNCHANGED <<turn, patch, landed, checkout, lock, remover, disturbed>>
      BY <1>t, <1>5 DEF WorkspaceTypeOK, Prepared, Recorded, ReadyStatus, checkoutVars, parentVars
    <2>2. env[c].status = "preparing" /\ turn[c] = "none"
      BY <1>t, <1>5 DEF Prepared, ChildStands, JobStands
    <2>3. env[c] \in Environments
      BY <1>t DEF WorkspaceTypeOK
    <2>4. /\ env'[c].status = "ready" /\ env'[c].artifact = env[c].artifact /\ env'[c].tree = env[c].tree
          /\ env'[c].verification = env[c].verification /\ env'[c].tested = env[c].tested
      BY <2>1, <2>3 DEF Environments
    <2>5. GrownInOrder(c)' /\ VerifiedAsRead(c)'
      BY <1>t, <2>1, <2>2, <2>4 DEF ChildStands, GrownInOrder, VerifiedAsRead, Terminal
    <2>6. RemovalStands(c)'
      BY <1>t, <2>1, <2>2 DEF ChildStands, RemovalStands, Terminal
    <2>7. JobStands(c)'
      BY <2>1 DEF JobStands, Doing
    <2> QED
      BY <2>5, <2>6, <2>7 DEF ChildStands
  <1>6. ASSUME Allocate(c) PROVE ChildStands(c)'
    <2>1. /\ turn'[c] = "running" /\ spawning' = spawning \ {c}
          /\ UNCHANGED <<env, patch, landed, checkout, lock, remover, job, disturbed>>
      BY <1>t, <1>6 DEF WorkspaceTypeOK, Allocate, checkoutVars, parentVars
    <2>2. c \in spawning /\ turn[c] = "none" /\ env[c].status # "none" /\ job = None
      BY <1>t, <1>6 DEF Allocate, Idle, ChildStands, GrownInOrder
    <2>3. GrownInOrder(c)' /\ VerifiedAsRead(c)'
      BY <1>t, <2>1, <2>2 DEF ChildStands, GrownInOrder, VerifiedAsRead, Terminal
    <2>4. RemovalStands(c)'
      BY <1>t, <2>1, <2>2 DEF ChildStands, RemovalStands, Terminal
    <2>5. JobStands(c)'
      BY <2>1, <2>2 DEF JobStands, Doing
    <2> QED
      BY <2>3, <2>4, <2>5 DEF ChildStands
  <1>7. ASSUME SpawnRefused(c) PROVE ChildStands(c)'
    <2>1. /\ spawning' = spawning \ {c}
          /\ UNCHANGED <<turn, env, patch, landed, checkout, lock, remover, job, disturbed>>
      BY <1>t, <1>7 DEF WorkspaceTypeOK, SpawnRefused, checkoutVars, parentVars
    <2>2. c \in spawning /\ turn[c] = "none" /\ env[c].status # "none" /\ job = None
      BY <1>t, <1>7 DEF SpawnRefused, Idle, ChildStands, GrownInOrder
    <2>3. GrownInOrder(c)' /\ VerifiedAsRead(c)'
      BY <1>t, <2>1, <2>2 DEF ChildStands, GrownInOrder, VerifiedAsRead, Terminal
    <2>4. RemovalStands(c)'
      BY <1>t, <2>1, <2>2 DEF ChildStands, RemovalStands, Terminal
    <2>5. JobStands(c)'
      BY <2>1, <2>2 DEF JobStands, Doing
    <2> QED
      BY <2>3, <2>4, <2>5 DEF ChildStands
  <1>8. ChildStands(c)'
    BY <1>3, <1>4, <1>5, <1>6, <1>7 DEF SpawnStep
  <1> QED
    BY <1>1, <1>2, <1>8, RestingStands DEF IntegrationInv

LEMMA ChildTurnStands ==
    ASSUME IntegrationInv, NEW c \in Children, ChildTurnStep(c)
    PROVE  ReadStands' /\ \A d \in Children : ChildStands(d)'
  <1>t. WorkspaceTypeOK /\ ChildStands(c) /\ ReadStands
    BY DEF IntegrationInv
  <1>1. ReadStands'
    BY <1>t DEF ChildTurnStep, OpenSession, CloseSession, ChildEnds, Settle, ExposureResolved, ReadStands
  <1>2. ASSUME NEW d \in Children, d # c PROVE Rests(d)
    BY <1>t, <1>2
    DEF WorkspaceTypeOK, ChildTurnStep, OpenSession, CloseSession, ChildEnds, Settle, ExposureResolved,
        Rests, Doing, checkoutVars, childVars, parentVars
  <1>3. ASSUME OpenSession(c) PROVE ChildStands(c)'
    <2>1. /\ turn[c] = "running" /\ lock[c] = {} /\ lock'[c] = {"session"}
          /\ UNCHANGED <<turn, spawning, env, patch, landed, checkout, remover, job, disturbed>>
      BY <1>t, <1>3 DEF WorkspaceTypeOK, OpenSession, childVars, parentVars
    <2>2. GrownInOrder(c)' /\ VerifiedAsRead(c)' /\ JobStands(c)'
      BY <1>t, <2>1 DEF ChildStands, GrownInOrder, VerifiedAsRead, JobStands, Doing, Terminal, Changed
    <2>3. RemovalStands(c)'
      BY <1>t, <2>1 DEF ChildStands, RemovalStands, Terminal
    <2> QED
      BY <2>2, <2>3 DEF ChildStands
  <1>4. ASSUME CloseSession(c) PROVE ChildStands(c)'
    <2>1. /\ "session" \in lock[c] /\ lock'[c] = lock[c] \ {"session"}
          /\ UNCHANGED <<turn, spawning, env, patch, landed, checkout, remover, job, disturbed>>
      BY <1>t, <1>4 DEF WorkspaceTypeOK, CloseSession, childVars, parentVars
    <2>2. GrownInOrder(c)' /\ VerifiedAsRead(c)' /\ JobStands(c)'
      BY <1>t, <2>1 DEF ChildStands, GrownInOrder, VerifiedAsRead, JobStands, Doing, Terminal, Changed
    <2>3. RemovalStands(c)'
      BY <1>t, <2>1 DEF ChildStands, RemovalStands, Terminal
    <2> QED
      BY <2>2, <2>3 DEF ChildStands
  <1>5. ASSUME ChildEnds(c) PROVE ChildStands(c)'
    <2>1. /\ turn[c] = "running" /\ turn'[c] \in {"ended", "uncertain"}
          /\ UNCHANGED <<spawning, env, landed, checkout, lock, remover, job, disturbed>>
      BY <1>t, <1>5 DEF WorkspaceTypeOK, ChildEnds, checkoutVars, parentVars
    <2>2. ~env[c].artifact /\ env[c].status \notin {"applying", "integrated"} /\ landed[c] = {} /\ c \notin spawning
      BY <1>t, <2>1 DEF ChildStands, GrownInOrder, Terminal
    <2>3. GrownInOrder(c)' /\ VerifiedAsRead(c)'
      BY <1>t, <2>1, <2>2 DEF ChildStands, GrownInOrder, VerifiedAsRead, Terminal
    <2>4. RemovalStands(c)'
      BY <1>t, <2>1 DEF ChildStands, RemovalStands, Terminal
    <2>5. JobStands(c)'
      BY <1>t, <2>1, <2>2 DEF ChildStands, JobStands, Doing, Terminal
    <2> QED
      BY <2>3, <2>4, <2>5 DEF ChildStands
  <1>6. ASSUME Settle(c) \/ ExposureResolved(c) PROVE ChildStands(c)'
    <2>1. /\ turn[c] \in {"ended", "uncertain"} /\ turn'[c] \in {"ended", "settled"}
          /\ UNCHANGED <<spawning, env, patch, landed, checkout, lock, remover, job, disturbed>>
      BY <1>t, <1>6 DEF WorkspaceTypeOK, Settle, ExposureResolved, checkoutVars, parentVars
    <2>2. GrownInOrder(c)' /\ VerifiedAsRead(c)'
      BY <1>t, <2>1 DEF ChildStands, GrownInOrder, VerifiedAsRead, Terminal
    <2>3. RemovalStands(c)'
      BY <1>t, <2>1 DEF ChildStands, RemovalStands, Terminal
    <2>4. JobStands(c)'
      BY <1>t, <2>1 DEF ChildStands, JobStands, Doing, Terminal, Changed
    <2> QED
      BY <2>2, <2>3, <2>4 DEF ChildStands
  <1>7. ChildStands(c)'
    BY <1>3, <1>4, <1>5, <1>6 DEF ChildTurnStep
  <1> QED
    BY <1>1, <1>2, <1>7, RestingStands DEF IntegrationInv

LEMMA IntegrateStands ==
    ASSUME IntegrationInv, NEW c \in Children, IntegrateStep(c)
    PROVE  ReadStands' /\ \A d \in Children : ChildStands(d)'
  <1>t. WorkspaceTypeOK /\ ChildStands(c) /\ ReadStands
    BY DEF IntegrationInv
  <1>e. env[c] \in Environments
    BY <1>t DEF WorkspaceTypeOK
  <1>1. ReadStands'
    <2>1. CASE InspectStarts(c) \/ ApplyStarts(c) \/ VerifyStarts(c)
      BY <2>1 DEF InspectStarts, ApplyStarts, VerifyStarts, Starts, ReadStands
    <2>2. CASE InspectEnds(c) \/ ApplyEnds(c) \/ VerifyEnds(c)
      BY <2>2 DEF InspectEnds, ApplyEnds, VerifyEnds, ReadStands
    <2>3. CASE ReadPages(c) \/ Reconcile(c) \/ Resolve(c) \/ Discard(c)
      BY <1>t, <2>3 DEF ReadPages, Reconcile, Resolve, Discard, ReadStands
    <2>4. ASSUME NEW p \in Paths, SkipPath(c, p) \/ WritePath(c, p) PROVE ReadStands'
      <3>1. job \in Jobs /\ job.kind = "apply" /\ job' = [job EXCEPT !.todo = @ \ {p}]
        BY <1>t, <2>4, JobTyped DEF SkipPath, WritePath, Handled, Doing
      <3>2. job'.kind = "apply"
        BY <3>1 DEF Jobs
      <3> QED
        BY <3>2 DEF ReadStands
    <2>5. CASE ReadTree(c)
      <3>1. job \in Jobs /\ job' = [job EXCEPT !.tree = file] /\ file' = file
        BY <1>t, <2>5, JobTyped DEF ReadTree, Doing
      <3>2. job'.tree = file
        BY <3>1 DEF Jobs
      <3> QED
        BY <3>1, <3>2 DEF ReadStands
    <2> QED
      BY <2>1, <2>2, <2>3, <2>4, <2>5 DEF IntegrateStep
  <1>2. ASSUME NEW d \in Children, d # c PROVE Rests(d)
    <2>1. CASE InspectStarts(c) \/ ApplyStarts(c) \/ VerifyStarts(c)
      BY <1>t, <1>2, <2>1
      DEF WorkspaceTypeOK, InspectStarts, ApplyStarts, VerifyStarts, Starts, Recorded, Rests, Doing,
          checkoutVars, childVars, parentVars
    <2>2. CASE InspectEnds(c) \/ ApplyEnds(c) \/ VerifyEnds(c)
      BY <1>t, <1>2, <2>2
      DEF WorkspaceTypeOK, InspectEnds, ApplyEnds, VerifyEnds, Integrated, Recorded, Rests, Doing,
          checkoutVars, childVars, parentVars
    <2>3. CASE ReadPages(c) \/ Reconcile(c) \/ Resolve(c) \/ Discard(c)
      BY <1>t, <1>2, <2>3
      DEF WorkspaceTypeOK, ReadPages, Reconcile, Resolve, Discard, Integrated, Recorded, Rests, Doing,
          checkoutVars, childVars, parentVars
    <2>4. ASSUME NEW p \in Paths, SkipPath(c, p) \/ WritePath(c, p) PROVE Rests(d)
      <3>1. job \in Jobs /\ job.child = c /\ job' = [job EXCEPT !.todo = @ \ {p}]
        BY <1>t, <2>4, JobTyped DEF SkipPath, WritePath, Handled, Doing
      <3>2. job'.child = c
        BY <3>1 DEF Jobs
      <3> QED
        BY <1>t, <1>2, <2>4, <3>2
        DEF WorkspaceTypeOK, SkipPath, WritePath, Handled, Rests, Doing, checkoutVars, childVars, parentVars
    <2>5. CASE ReadTree(c)
      <3>1. job \in Jobs /\ job.child = c /\ job' = [job EXCEPT !.tree = file]
        BY <1>t, <2>5, JobTyped DEF ReadTree, Doing
      <3>2. job'.child = c
        BY <3>1 DEF Jobs
      <3> QED
        BY <1>t, <1>2, <2>5, <3>2
        DEF WorkspaceTypeOK, ReadTree, Rests, Doing, checkoutVars, childVars, parentVars
    <2> QED
      BY <2>1, <2>2, <2>3, <2>4, <2>5 DEF IntegrateStep
  <1>3. ASSUME InspectStarts(c) PROVE ChildStands(c)'
    <2>1. /\ lock[c] = {} /\ lock'[c] = {"inspector"} /\ job'.kind = "inspect" /\ checkout[c] = "present"
          /\ UNCHANGED <<turn, spawning, env, patch, landed, checkout, remover, disturbed>>
      BY <1>t, <1>3 DEF WorkspaceTypeOK, InspectStarts, Exclusive, Starts, childVars, parentVars
    <2>2. Terminal(c) /\ ~env[c].artifact
      BY <1>3 DEF InspectStarts, Known, Terminal
    <2>3. GrownInOrder(c)' /\ VerifiedAsRead(c)'
      BY <1>t, <2>1 DEF ChildStands, GrownInOrder, VerifiedAsRead, Terminal
    <2>4. RemovalStands(c)'
      BY <1>t, <2>1 DEF ChildStands, RemovalStands, Terminal
    <2>5. JobStands(c)'
      BY <2>1, <2>2 DEF JobStands, Doing, Terminal
    <2> QED
      BY <2>3, <2>4, <2>5 DEF ChildStands
  <1>4. ASSUME InspectEnds(c) PROVE ChildStands(c)'
    <2>1. PICK read \in BOOLEAN : env'[c] =
            [env[c] EXCEPT !.status = "reviewed", !.artifact = TRUE, !.read = read, !.verification = "required"]
      BY <1>t, <1>4 DEF WorkspaceTypeOK, InspectEnds, Recorded
    <2>2. env'[c].status = "reviewed" /\ env'[c].artifact /\ env'[c].verification = "required"
      BY <1>e, <2>1 DEF Environments
    <2>3. /\ lock'[c] = lock[c] \ {"inspector"} /\ job' = None
          /\ UNCHANGED <<turn, spawning, patch, landed, checkout, remover, disturbed>>
      BY <1>t, <1>4 DEF WorkspaceTypeOK, InspectEnds, childVars, parentVars
    <2>4. Terminal(c)
      BY <1>t, <1>4 DEF InspectEnds, ChildStands, JobStands
    <2>5. GrownInOrder(c)' /\ VerifiedAsRead(c)'
      BY <1>t, <2>2, <2>3, <2>4 DEF ChildStands, GrownInOrder, VerifiedAsRead, Terminal
    <2>6. RemovalStands(c)'
      BY <1>t, <2>2, <2>3, <2>4 DEF ChildStands, RemovalStands, Terminal
    <2>7. JobStands(c)'
      BY <2>3 DEF JobStands, Doing
    <2> QED
      BY <2>5, <2>6, <2>7 DEF ChildStands
  <1>5. ASSUME ReadPages(c) PROVE ChildStands(c)'
    <2>1. /\ env'[c] = [env[c] EXCEPT !.read = TRUE] /\ job = None
          /\ UNCHANGED <<turn, spawning, patch, landed, checkout, lock, remover, job, disturbed>>
      BY <1>t, <1>5 DEF WorkspaceTypeOK, ReadPages, MayIntegrate, Idle, Recorded, childVars, checkoutVars, parentVars
    <2>2. /\ env'[c].status = env[c].status /\ env'[c].artifact = env[c].artifact /\ env'[c].tree = env[c].tree
          /\ env'[c].verification = env[c].verification /\ env'[c].tested = env[c].tested
      BY <1>e, <2>1 DEF Environments
    <2>3. GrownInOrder(c)' /\ VerifiedAsRead(c)'
      BY <1>t, <2>1, <2>2 DEF ChildStands, GrownInOrder, VerifiedAsRead, Terminal
    <2>4. RemovalStands(c)'
      BY <1>t, <2>1, <2>2 DEF ChildStands, RemovalStands, Terminal
    <2>5. JobStands(c)'
      BY <2>1 DEF JobStands, Doing
    <2> QED
      BY <2>3, <2>4, <2>5 DEF ChildStands
  <1>6. ASSUME Reconcile(c) PROVE ChildStands(c)'
    <2>1. /\ env'[c] = [env[c] EXCEPT !.status = "reviewed", !.reconciled = TRUE] /\ job = None /\ env[c].artifact
          /\ UNCHANGED <<turn, spawning, patch, landed, checkout, lock, remover, job, disturbed>>
      BY <1>t, <1>6
      DEF WorkspaceTypeOK, Reconcile, Applicable, MayIntegrate, Idle, Recorded, childVars, checkoutVars, parentVars
    <2>2. /\ env'[c].status = "reviewed" /\ env'[c].artifact /\ env'[c].tree = env[c].tree
          /\ env'[c].verification = env[c].verification /\ env'[c].tested = env[c].tested
      BY <1>e, <2>1 DEF Environments
    <2>3. GrownInOrder(c)' /\ VerifiedAsRead(c)'
      BY <1>t, <2>1, <2>2 DEF ChildStands, GrownInOrder, VerifiedAsRead, Terminal
    <2>4. RemovalStands(c)'
      BY <1>t, <2>1, <2>2 DEF ChildStands, RemovalStands, GrownInOrder, Terminal
    <2>5. JobStands(c)'
      BY <2>1 DEF JobStands, Doing
    <2> QED
      BY <2>3, <2>4, <2>5 DEF ChildStands
  <1>7. ASSUME ApplyStarts(c) PROVE ChildStands(c)'
    <2>1. /\ env'[c] = [env[c] EXCEPT !.status = "applying"] /\ env[c].artifact
          /\ job'.kind = "apply" /\ job'.todo = Changed(c) /\ landed'[c] = {}
          /\ UNCHANGED <<turn, spawning, patch, checkout, lock, remover, disturbed>>
      BY <1>t, <1>7
      DEF WorkspaceTypeOK, ApplyStarts, Applicable, Starts, Recorded, childVars, checkoutVars, parentVars
    <2>2. /\ env'[c].status = "applying" /\ env'[c].artifact /\ env'[c].tree = env[c].tree
          /\ env'[c].verification = env[c].verification /\ env'[c].tested = env[c].tested
      BY <1>e, <2>1 DEF Environments
    <2>3. GrownInOrder(c)' /\ VerifiedAsRead(c)'
      BY <1>t, <2>1, <2>2 DEF ChildStands, GrownInOrder, VerifiedAsRead, Terminal
    <2>4. RemovalStands(c)'
      BY <1>t, <2>1, <2>2 DEF ChildStands, RemovalStands, GrownInOrder, Terminal
    <2>5. JobStands(c)'
      <3>1. Changed(c)' = Changed(c)
        BY <2>1 DEF Changed
      <3> QED
        BY <2>1, <2>2, <3>1 DEF JobStands, Doing
    <2> QED
      BY <2>3, <2>4, <2>5 DEF ChildStands
  <1>8. ASSUME NEW byHand \in BOOLEAN, Integrated(c, byHand), ApplyEnds(c) \/ Resolve(c) PROVE ChildStands(c)'
    <2>1. /\ env'[c] = [env[c] EXCEPT !.status = "integrated", !.byHand = byHand, !.verification = "required"]
          /\ job' = None
          /\ UNCHANGED <<turn, spawning, patch, landed, checkout, lock, remover, disturbed>>
      BY <1>t, <1>8
      DEF WorkspaceTypeOK, ApplyEnds, Resolve, Integrated, Applicable, MayIntegrate, Idle, Recorded,
          childVars, checkoutVars
    <2>2. env[c].artifact
      BY <1>t, <1>8 DEF ApplyEnds, Resolve, Applicable, ChildStands, JobStands, GrownInOrder
    <2>3. env'[c].status = "integrated" /\ env'[c].artifact /\ env'[c].verification = "required"
      BY <1>e, <2>1, <2>2 DEF Environments
    <2>4. GrownInOrder(c)' /\ VerifiedAsRead(c)'
      BY <1>t, <2>1, <2>2, <2>3 DEF ChildStands, GrownInOrder, VerifiedAsRead, Terminal
    <2>5. RemovalStands(c)'
      BY <1>t, <2>1, <2>2, <2>3 DEF ChildStands, RemovalStands, GrownInOrder, Terminal
    <2>6. JobStands(c)'
      BY <2>1 DEF JobStands, Doing
    <2> QED
      BY <2>4, <2>5, <2>6 DEF ChildStands
  <1>9. ASSUME Discard(c) PROVE ChildStands(c)'
    <2>1. /\ env'[c] = [env[c] EXCEPT !.status = "discarded", !.verification = "none"] /\ job = None
          /\ env[c].status # "none"
          /\ UNCHANGED <<turn, spawning, patch, landed, checkout, lock, remover, job, disturbed>>
      BY <1>t, <1>9 DEF WorkspaceTypeOK, Discard, Idle, Recorded, childVars, checkoutVars, parentVars
    <2>2. /\ env'[c].status = "discarded" /\ env'[c].artifact = env[c].artifact /\ env'[c].verification = "none"
      BY <1>e, <2>1 DEF Environments
    <2>3. GrownInOrder(c)' /\ VerifiedAsRead(c)'
      BY <1>t, <2>1, <2>2 DEF ChildStands, GrownInOrder, VerifiedAsRead, Terminal
    <2>4. RemovalStands(c)'
      BY <1>t, <2>1, <2>2 DEF ChildStands, RemovalStands, Terminal
    <2>5. JobStands(c)'
      BY <2>1 DEF JobStands, Doing
    <2> QED
      BY <2>3, <2>4, <2>5 DEF ChildStands
  <1>10. ASSUME NEW p \in Paths, SkipPath(c, p) \/ WritePath(c, p) PROVE ChildStands(c)'
    <2>1. /\ Doing("apply", c) /\ p \in job.todo /\ job \in Jobs /\ job' = [job EXCEPT !.todo = @ \ {p}]
          /\ landed'[c] = landed[c] \cup {p}
          /\ UNCHANGED <<turn, spawning, env, patch, checkout, lock, remover, disturbed>>
      BY <1>t, <1>10, JobTyped
      DEF WorkspaceTypeOK, SkipPath, WritePath, Handled, Doing, childVars, checkoutVars, parentVars
    <2>2. job'.kind = "apply" /\ job'.todo = job.todo \ {p}
      BY <2>1 DEF Jobs, Doing
    <2>3. env[c].status = "applying" /\ env[c].artifact /\ landed[c] \cup job.todo = Changed(c)
      BY <1>t, <2>1 DEF ChildStands, JobStands, GrownInOrder
    <2>4. GrownInOrder(c)' /\ VerifiedAsRead(c)'
      BY <1>t, <2>1, <2>3 DEF ChildStands, GrownInOrder, VerifiedAsRead, Terminal
    <2>5. RemovalStands(c)'
      BY <1>t, <2>1 DEF ChildStands, RemovalStands, Terminal
    <2>6. JobStands(c)'
      <3>1. Changed(c)' = Changed(c)
        BY <2>1 DEF Changed
      <3>2. landed'[c] \cup job'.todo = Changed(c)
        BY <2>1, <2>2, <2>3
      <3> QED
        BY <2>1, <2>2, <2>3, <3>1, <3>2 DEF JobStands, Doing
    <2> QED
      BY <2>4, <2>5, <2>6 DEF ChildStands
  <1>11. ASSUME VerifyStarts(c) PROVE ChildStands(c)'
    <2>1. /\ job'.kind = "verify"
          /\ UNCHANGED <<turn, spawning, env, patch, landed, checkout, lock, remover, disturbed>>
      BY <1>11 DEF VerifyStarts, Starts, childVars, checkoutVars, parentVars
    <2>2. GrownInOrder(c)' /\ VerifiedAsRead(c)'
      BY <1>t, <2>1 DEF ChildStands, GrownInOrder, VerifiedAsRead, Terminal
    <2>3. RemovalStands(c)'
      BY <1>t, <2>1 DEF ChildStands, RemovalStands, Terminal
    <2>4. JobStands(c)'
      BY <2>1 DEF JobStands, Doing
    <2> QED
      BY <2>2, <2>3, <2>4 DEF ChildStands
  <1>12. ASSUME ReadTree(c) PROVE ChildStands(c)'
    <2>1. /\ job \in Jobs /\ job.kind = "verify" /\ job' = [job EXCEPT !.tree = file]
          /\ UNCHANGED <<turn, spawning, env, patch, landed, checkout, lock, remover, disturbed>>
      BY <1>t, <1>12, JobTyped DEF ReadTree, Doing, childVars, checkoutVars, parentVars
    <2>2. job'.kind = "verify"
      BY <2>1 DEF Jobs
    <2>3. GrownInOrder(c)' /\ VerifiedAsRead(c)'
      BY <1>t, <2>1 DEF ChildStands, GrownInOrder, VerifiedAsRead, Terminal
    <2>4. RemovalStands(c)'
      BY <1>t, <2>1 DEF ChildStands, RemovalStands, Terminal
    <2>5. JobStands(c)'
      BY <2>2 DEF JobStands, Doing
    <2> QED
      BY <2>3, <2>4, <2>5 DEF ChildStands
  <1>13. ASSUME VerifyEnds(c) PROVE ChildStands(c)'
    <2>1. /\ env'[c] = [env[c] EXCEPT !.verification = "recorded", !.tested = job.receipt, !.tree = job.tree]
          /\ job.receipt = file /\ job' = None /\ disturbed'[c] = job.disturbed
          /\ UNCHANGED <<turn, spawning, patch, landed, checkout, lock, remover>>
      BY <1>t, <1>13 DEF WorkspaceTypeOK, VerifyEnds, Recorded, childVars, checkoutVars
    <2>2. /\ env'[c].status = env[c].status /\ env'[c].artifact = env[c].artifact
          /\ env'[c].tested = file /\ env'[c].tree = job.tree
      BY <1>e, <2>1 DEF Environments
    <2>3. ~job.disturbed => job.tree = file
      BY <1>t, <1>13 DEF VerifyEnds, Doing, ReadStands
    <2>4. GrownInOrder(c)' /\ VerifiedAsRead(c)'
      BY <1>t, <2>1, <2>2, <2>3 DEF ChildStands, GrownInOrder, VerifiedAsRead, Terminal
    <2>5. RemovalStands(c)'
      BY <1>t, <2>1, <2>2 DEF ChildStands, RemovalStands, Terminal
    <2>6. JobStands(c)'
      BY <2>1 DEF JobStands, Doing
    <2> QED
      BY <2>4, <2>5, <2>6 DEF ChildStands
  <1>14. ApplyEnds(c) => Integrated(c, FALSE)
    BY DEF ApplyEnds
  <1>15. Resolve(c) => Integrated(c, TRUE)
    BY DEF Resolve
  <1>16. ChildStands(c)'
    BY <1>3, <1>4, <1>5, <1>6, <1>7, <1>8, <1>9, <1>10, <1>11, <1>12, <1>13, <1>14, <1>15 DEF IntegrateStep
  <1> QED
    BY <1>1, <1>2, <1>16, RestingStands DEF IntegrationInv

LEMMA RemoveStands ==
    ASSUME IntegrationInv, NEW c \in Children, RemoveStep(c)
    PROVE  ReadStands' /\ \A d \in Children : ChildStands(d)'
  <1>t. WorkspaceTypeOK /\ ChildStands(c) /\ ReadStands
    BY DEF IntegrationInv
  <1>0. /\ UNCHANGED <<turn, spawning, env, patch, landed, job, file, disturbed>>
        /\ \A d \in Children : d # c =>
             checkout'[d] = checkout[d] /\ lock'[d] = lock[d] /\ remover'[d] = remover[d]
    BY <1>t
    DEF WorkspaceTypeOK, RemoveStep, RemoveChecks, RemoveLocks, RemoveGivesUp, RemoveDeletes, childVars, parentVars
  <1>1. ReadStands'
    BY <1>t, <1>0 DEF ReadStands
  <1>2. ASSUME NEW d \in Children, d # c PROVE Rests(d)
    BY <1>0, <1>2 DEF Rests, Doing
  <1>3. GrownInOrder(c)' /\ VerifiedAsRead(c)' /\ JobStands(c)'
    BY <1>t, <1>0 DEF ChildStands, GrownInOrder, VerifiedAsRead, JobStands, Doing, Terminal, Changed
  <1>4. RemovalStands(c)'
    <2>1. CASE RemoveChecks(c)
      BY <1>t, <1>0, <2>1
      DEF WorkspaceTypeOK, RemoveChecks, Removable, Known, ChildStands, RemovalStands, GrownInOrder, Terminal
    <2>2. CASE RemoveLocks(c)
      BY <1>t, <1>0, <2>2 DEF WorkspaceTypeOK, RemoveLocks, Exclusive, ChildStands, RemovalStands, Terminal
    <2>3. CASE RemoveGivesUp(c)
      BY <1>t, <1>0, <2>3 DEF WorkspaceTypeOK, RemoveGivesUp, ChildStands, RemovalStands, Terminal
    <2>4. CASE RemoveDeletes(c)
      BY <1>t, <1>0, <2>4 DEF WorkspaceTypeOK, RemoveDeletes, ChildStands, RemovalStands, Terminal
    <2> QED
      BY <2>1, <2>2, <2>3, <2>4 DEF RemoveStep
  <1> QED
    BY <1>1, <1>2, <1>3, <1>4, RestingStands DEF IntegrationInv, ChildStands

LEMMA SurroundingsStand ==
    ASSUME IntegrationInv, RunCommand \/ Complete \/ Stop \/ JobFails \/ Crash \/ UNCHANGED vars
    PROVE  ReadStands' /\ \A d \in Children : ChildStands(d)'
  <1>t. WorkspaceTypeOK /\ ReadStands
    BY DEF IntegrationInv
  <1>1. CASE RunCommand \/ Complete \/ Stop \/ UNCHANGED vars
    <2>1. UNCHANGED <<childVars, env, checkoutVars, file, job, landed, disturbed>>
      BY <1>1 DEF RunCommand, Complete, Stop, vars, childVars, checkoutVars
    <2>2. \A d \in Children : Rests(d)
      BY <2>1 DEF Rests, Doing, childVars, checkoutVars
    <2> QED
      BY <1>t, <2>1, <2>2, RestingStands DEF IntegrationInv, ReadStands
  <1>2. CASE JobFails \/ Crash
    <2>1. ASSUME NEW d \in Children PROVE Rests(d)
      BY <1>t, <1>2 DEF WorkspaceTypeOK, JobFails, Crash, FreedBy, Rests, Doing, childVars, parentVars
    <2>2. ReadStands'
      BY <1>2 DEF JobFails, Crash, ReadStands
    <2> QED
      BY <2>1, <2>2, RestingStands DEF IntegrationInv
  <1> QED
    BY <1>1, <1>2

LEMMA EditStands ==
    ASSUME IntegrationInv, NEW p \in Paths, NEW v \in Contents, Edit(p, v)
    PROVE  ReadStands' /\ \A d \in Children : ChildStands(d)'
  <1>t. WorkspaceTypeOK
    BY DEF IntegrationInv
  <1>1. CASE job = None
    <2>1. job' = None /\ \A d \in Children : Rests(d)
      BY <1>1 DEF Edit, Idle, Rests, Doing, childVars, checkoutVars, parentVars
    <2> QED
      BY <2>1, RestingStands DEF IntegrationInv, ReadStands
  <1>2. CASE job # None
    <2>1. job \in Jobs /\ job' = [job EXCEPT !.disturbed = job.kind = "verify"]
      BY <1>t, <1>2, JobTyped DEF Edit, Idle
    <2>2. job'.kind = job.kind /\ job'.child = job.child /\ job'.todo = job.todo /\ job'.disturbed = (job.kind = "verify")
      BY <2>1 DEF Jobs
    <2>3. ReadStands'
      BY <2>2 DEF ReadStands
    <2>4. \A d \in Children : Rests(d)
      BY <1>2, <2>2 DEF Edit, Rests, Doing, childVars, checkoutVars, parentVars
    <2> QED
      BY <2>3, <2>4, RestingStands DEF IntegrationInv
  <1> QED
    BY <1>1, <1>2

LEMMA InvInit == WorkspaceInit => IntegrationInv
  <1> SUFFICES ASSUME WorkspaceInit PROVE IntegrationInv
    OBVIOUS
  <1>1. ReadStands
    BY DEF WorkspaceInit, ReadStands
  <1>2. ASSUME NEW c \in Children PROVE ChildStands(c)
    BY <1>2
    DEF WorkspaceInit, NoEnvironment, ChildStands, GrownInOrder, VerifiedAsRead, RemovalStands, JobStands, Doing
  <1> QED
    BY <1>1, <1>2, TypesInit DEF IntegrationInv

LEMMA InvStep == IntegrationInv /\ [IntegrationNext]_vars => IntegrationInv'
  <1> SUFFICES ASSUME IntegrationInv, [IntegrationNext]_vars PROVE IntegrationInv'
    OBVIOUS
  <1>1. WorkspaceTypeOK'
    BY TypesStep DEF IntegrationInv
  <1>2. ReadStands' /\ \A d \in Children : ChildStands(d)'
    BY SpawnStands, ChildTurnStands, IntegrateStands, RemoveStands, SurroundingsStand, EditStands
    DEF IntegrationNext
  <1> QED
    BY <1>1, <1>2 DEF IntegrationInv

(* Every reachable state of the children's checkouts and of their           *)
(* integration satisfies the inductive invariant (prepare and integrate of  *)
(* harness/child_workspaces.py, remove of worktrees.py).                    *)
THEOREM WorkspacesStand == IntegrationSpec => []IntegrationInv
  BY InvInit, InvStep, PTL DEF IntegrationSpec

(* Rows, checkouts, locks and operations are what prepare, integrate and    *)
(* remove can make of them.                                                 *)
THEOREM WorkspacesAreTyped == IntegrationSpec => []WorkspaceTypeOK
  <1>1. IntegrationInv => WorkspaceTypeOK
    BY DEF IntegrationInv
  <1> QED
    BY <1>1, WorkspacesStand, PTL

(* A checkout is removed only when its child has ended, nobody holds its    *)
(* lock, and its result is archived or was given up (remove of worktrees.py *)
(* against Sessions and inspections of child_workspaces.py).                *)
THEOREM CheckoutsAreKept == IntegrationSpec => []CheckoutKeptWhileNeeded
  <1>1. IntegrationInv => CheckoutKeptWhileNeeded
    BY DEF IntegrationInv, ChildStands, RemovalStands, CheckoutKeptWhileNeeded
  <1> QED
    BY <1>1, WorkspacesStand, PTL

(* A parent completes only over children it gave up, settled read-only      *)
(* ones, and integrations that were tested on the tree it completes with    *)
(* (complete_turn with unresolved of harness/child_workspace_ops.py).       *)
THEOREM ParentsFinishTested == IntegrationSpec => ParentFinishesTested
  <1> DEFINE Tested ==
        parent # "completed" /\ parent' = "completed" =>
          \A c \in Children :
            \/ env[c].status \in {"none", "discarded"}
            \/ env[c].mode = "read-only" /\ turn[c] = "settled"
            \/ env[c].status = "integrated" /\ (env[c].tested = file \/ disturbed[c])
  <1>1. ASSUME IntegrationInv, [IntegrationNext]_vars PROVE [Tested]_vars
    <2>1. CASE Complete
      BY <1>1, <2>1 DEF Complete, Closed, Unchanged, IntegrationInv, ChildStands, VerifiedAsRead
    <2>2. CASE ~Complete
      <3>1. ASSUME NEW c \in Children, SpawnStep(c) \/ ChildTurnStep(c) PROVE parent' = parent
        BY <3>1 DEF SpawnStep, Prepare, MakeCheckout, Prepared, Allocate, SpawnRefused, ChildTurnStep,
            OpenSession, CloseSession, ChildEnds, Settle, ExposureResolved, parentVars
      <3>2. ASSUME NEW c \in Children, IntegrateStep(c) PROVE parent' = parent
        BY <3>2 DEF IntegrateStep, InspectStarts, InspectEnds, ReadPages, Reconcile, ApplyStarts, ApplyEnds,
            Resolve, Discard, SkipPath, WritePath, Handled, VerifyStarts, ReadTree, VerifyEnds, parentVars
      <3>3. ASSUME NEW c \in Children, RemoveStep(c) PROVE parent' = parent
        BY <3>3 DEF RemoveStep, RemoveChecks, RemoveLocks, RemoveGivesUp, RemoveDeletes, parentVars
      <3>4. ASSUME RunCommand \/ JobFails \/ Crash PROVE parent' = parent
        BY <3>4 DEF RunCommand, JobFails, Crash, parentVars
      <3>5. ASSUME Stop PROVE parent' = "stopped"
        BY <3>5 DEF Stop
      <3>6. ASSUME NEW p \in Paths, NEW v \in Contents, Edit(p, v) PROVE parent' = parent
        BY <3>6 DEF Edit, parentVars
      <3>7. ASSUME UNCHANGED vars PROVE parent' = parent
        BY <3>7 DEF vars, parentVars
      <3>8. parent' = parent \/ parent' = "stopped"
        BY <1>1, <2>2, <3>1, <3>2, <3>3, <3>4, <3>5, <3>6, <3>7 DEF IntegrationNext
      <3> QED
        BY <3>8
    <2> QED
      BY <2>1, <2>2
  <1> QED
    BY <1>1, WorkspacesStand, PTL DEF IntegrationSpec, ParentFinishesTested

-----------------------------------------------------------------------------
(* Every step brings work home as Patches allows it.                        *)
How(e) ==
    CASE e.status = "discarded" -> "dropped"
      [] e.status = "integrated" -> IF e.byHand THEN "resolved" ELSE "merged"
      [] OTHER -> "open"

Outcome == [c \in Children |-> How(env[c])]

(* What a step records about one child moves that child's outcome alone.    *)
LEMMA RecordedOutcome ==
    ASSUME WorkspaceTypeOK, NEW c \in Children, NEW e, env' = [env EXCEPT ![c] = e]
    PROVE  /\ env'[c] = e
           /\ Outcome' = [Outcome EXCEPT ![c] = How(e)]
           /\ How(e) = How(env[c]) => Outcome' = Outcome
  <1>1. env \in [Children -> Environments]
    BY DEF WorkspaceTypeOK
  <1>2. env'[c] = e /\ \A d \in Children : d # c => env'[d] = env[d]
    BY <1>1
  <1> HIDE DEF How
  <1>3. Outcome' = [d \in Children |-> How(env'[d])]
    BY DEF Outcome, How
  <1>4. \A d \in Children : How(env'[d]) = IF d = c THEN How(e) ELSE How(env[d])
    BY <1>2
  <1>5. Outcome' = [d \in Children |-> IF d = c THEN How(e) ELSE How(env[d])]
    BY <1>3, <1>4
  <1>6. Outcome' = [Outcome EXCEPT ![c] = How(e)]
    BY <1>5 DEF Outcome
  <1>7. How(e) = How(env[c]) => Outcome' = Outcome
    BY <1>5 DEF Outcome
  <1> QED
    BY <1>2, <1>6, <1>7

LEMMA CloseIsOutcome ==
    ASSUME NEW c \in Children, NEW how, Outcome' = [Outcome EXCEPT ![c] = how], UNCHANGED <<file, patch, landed>>
    PROVE  Promise!Close(c, how)
  BY DEF Promise!Close, Outcome, How

LEMMA SpawnPromise ==
    ASSUME IntegrationInv, NEW c \in Children, SpawnStep(c)
    PROVE  [Promise!Next]_(Promise!vars)
  <1>t. WorkspaceTypeOK /\ ChildStands(c)
    BY DEF IntegrationInv
  <1>e. env[c] \in Environments
    BY <1>t DEF WorkspaceTypeOK
  <1>1. ASSUME NEW mode \in {"write", "read-only"}, Prepare(c, mode) PROVE [Promise!Next]_(Promise!vars)
    <2> DEFINE e == [NoEnvironment EXCEPT !.status = "preparing", !.mode = mode]
               offered == [from |-> file, to |-> file]
    <2>1. /\ env' = [env EXCEPT ![c] = e] /\ patch' = [patch EXCEPT ![c] = offered]
          /\ env[c].status = "none" /\ UNCHANGED <<file, landed>>
      BY <1>1 DEF Prepare, Recorded
    <2>2. How(e) = "open" /\ How(env[c]) = "open"
      BY <2>1 DEF How, NoEnvironment
    <2>3. Outcome' = Outcome /\ Outcome[c] = "open"
      BY <1>t, <2>1, <2>2, RecordedOutcome DEF Outcome
    <2>4. landed[c] = {}
      BY <1>t, <2>1 DEF ChildStands, GrownInOrder, Terminal
    <2>5. offered \in [from : Promise!Trees, to : Promise!Trees]
      BY <1>t DEF WorkspaceTypeOK, Trees, Promise!Trees
    <2>6. Promise!Offer(c)
      BY <2>1, <2>3, <2>4, <2>5 DEF Promise!Offer, Outcome, How
    <2> QED
      BY <2>6 DEF Promise!Next
  <1>2. CASE Prepared(c)
    <2> DEFINE e == [env[c] EXCEPT !.status = "ready"]
    <2>1. env' = [env EXCEPT ![c] = e] /\ UNCHANGED <<file, patch, landed>>
      BY <1>2 DEF Prepared, Recorded, ReadyStatus
    <2>2. env[c].status = "preparing"
      BY <1>t, <1>2 DEF Prepared, ChildStands, JobStands
    <2>3. How(e) = How(env[c])
      BY <1>e, <2>2 DEF How, Environments
    <2>4. Outcome' = Outcome
      BY <1>t, <2>1, <2>3, RecordedOutcome
    <2> QED
      BY <2>1, <2>4 DEF Promise!vars, Outcome, How
  <1>3. CASE MakeCheckout(c) \/ Allocate(c) \/ SpawnRefused(c)
    BY <1>3 DEF MakeCheckout, Allocate, SpawnRefused, childVars, Promise!vars
  <1> QED
    BY <1>1, <1>2, <1>3 DEF SpawnStep

LEMMA ChildTurnPromise ==
    ASSUME IntegrationInv, NEW c \in Children, ChildTurnStep(c)
    PROVE  [Promise!Next]_(Promise!vars)
  <1>t. WorkspaceTypeOK /\ WorkspaceTypeOK' /\ ChildStands(c)
    BY TypesOfChildTurn DEF IntegrationInv
  <1>1. CASE ChildEnds(c)
    <2>1. PICK written \in Written(c) :
            patch' = [patch EXCEPT ![c].to = [p \in Paths |-> IF p \in written THEN c ELSE @[p]]]
      BY <1>1 DEF ChildEnds
    <2> DEFINE offered == [patch[c] EXCEPT !.to = [p \in Paths |-> IF p \in written THEN c ELSE @[p]]]
    <2>2. patch' = [patch EXCEPT ![c] = offered] /\ offered = patch'[c]
      BY <1>t, <2>1 DEF WorkspaceTypeOK
    <2>3. offered \in [from : Promise!Trees, to : Promise!Trees]
      BY <1>t, <2>2 DEF WorkspaceTypeOK, Trees, Promise!Trees
    <2>4. landed[c] = {} /\ env[c].status # "integrated" /\ UNCHANGED <<file, landed, env>>
      BY <1>t, <1>1 DEF ChildEnds, ChildStands, GrownInOrder, Terminal
    <2>5. Outcome[c] \in {"open", "dropped"} /\ Outcome' = Outcome
      BY <2>4 DEF Outcome, How
    <2>6. Promise!Offer(c)
      <3> HIDE DEF offered
      <3> QED
        BY <2>2, <2>3, <2>4, <2>5 DEF Promise!Offer, Outcome, How
    <2> QED
      BY <2>6 DEF Promise!Next
  <1>2. CASE OpenSession(c) \/ CloseSession(c) \/ Settle(c) \/ ExposureResolved(c)
    BY <1>2 DEF OpenSession, CloseSession, Settle, ExposureResolved, childVars, Promise!vars
  <1> QED
    BY <1>1, <1>2 DEF ChildTurnStep

LEMMA IntegratePromise ==
    ASSUME IntegrationInv, NEW c \in Children, IntegrateStep(c)
    PROVE  [Promise!Next]_(Promise!vars)
  <1>t. WorkspaceTypeOK /\ ChildStands(c)
    BY DEF IntegrationInv
  <1>e. env[c] \in Environments
    BY <1>t DEF WorkspaceTypeOK
  <1>o. Outcome[c] = How(env[c])
    BY DEF Outcome
  <1>1. CASE InspectStarts(c) \/ VerifyStarts(c) \/ ReadTree(c)
    BY <1>1 DEF InspectStarts, VerifyStarts, ReadTree, childVars, Promise!vars
  <1>2. ASSUME NEW e, env' = [env EXCEPT ![c] = e], e.status = "reviewed", env[c].status # "integrated",
               UNCHANGED <<file, patch, landed>>
        PROVE  [Promise!Next]_(Promise!vars)
    <2>1. How(e) = "open" /\ How(env[c]) \in {"open", "dropped"}
      BY <1>2 DEF How
    <2>2. CASE How(env[c]) = "open"
      <3>1. Outcome' = Outcome
        BY <1>t, <1>2, <2>1, <2>2, RecordedOutcome
      <3> QED
        BY <1>2, <3>1 DEF Promise!vars, Outcome, How
    <2>3. CASE How(env[c]) = "dropped"
      <3>0. Outcome' = [Outcome EXCEPT ![c] = "open"]
        BY <1>t, <1>2, <2>1, RecordedOutcome
      <3>1. Promise!Close(c, "open")
        BY <1>2, <3>0, CloseIsOutcome
      <3>2. Promise!Reopen(c)
        BY <1>o, <2>3, <3>1 DEF Promise!Reopen, Outcome, How
      <3> QED
        BY <3>2 DEF Promise!Next
    <2> QED
      BY <2>1, <2>2, <2>3
  <1>3. CASE InspectEnds(c)
    <2>1. PICK read \in BOOLEAN : env' = [env EXCEPT ![c] =
            [env[c] EXCEPT !.status = "reviewed", !.artifact = TRUE, !.read = read, !.verification = "required"]]
      BY <1>3 DEF InspectEnds, Recorded
    <2> DEFINE e == [env[c] EXCEPT !.status = "reviewed", !.artifact = TRUE, !.read = read, !.verification = "required"]
    <2>2. e.status = "reviewed"
      BY <1>e DEF Environments
    <2>3. env[c].status # "integrated"
      BY <1>t, <1>3 DEF InspectEnds, ChildStands, JobStands, GrownInOrder
    <2>4. UNCHANGED <<file, patch, landed>>
      BY <1>3 DEF InspectEnds, childVars
    <2> QED
      BY <1>2, <2>1, <2>2, <2>3, <2>4
  <1>4. CASE Reconcile(c)
    <2> DEFINE e == [env[c] EXCEPT !.status = "reviewed", !.reconciled = TRUE]
    <2>1. env' = [env EXCEPT ![c] = e] /\ env[c].status # "integrated" /\ UNCHANGED <<file, patch, landed>>
      BY <1>4 DEF Reconcile, Applicable, Recorded, childVars
    <2>2. e.status = "reviewed"
      BY <1>e DEF Environments
    <2> QED
      BY <1>2, <2>1, <2>2
  <1>5. ASSUME NEW e, env' = [env EXCEPT ![c] = e], How(e) = How(env[c]), UNCHANGED <<file, patch, landed>>
        PROVE  [Promise!Next]_(Promise!vars)
    <2>1. Outcome' = Outcome
      BY <1>t, <1>5, RecordedOutcome
    <2> QED
      BY <1>5, <2>1 DEF Promise!vars, Outcome, How
  <1>6. CASE ReadPages(c) \/ VerifyEnds(c)
    <2>1. UNCHANGED <<file, patch, landed>>
      BY <1>6 DEF ReadPages, VerifyEnds, childVars
    <2>2. CASE ReadPages(c)
      <3> DEFINE e == [env[c] EXCEPT !.read = TRUE]
      <3>1. env' = [env EXCEPT ![c] = e]
        BY <2>2 DEF ReadPages, Recorded
      <3>2. How(e) = How(env[c])
        BY <1>e DEF How, Environments
      <3> QED
        BY <1>5, <2>1, <3>1, <3>2
    <2>3. CASE VerifyEnds(c)
      <3> DEFINE e == [env[c] EXCEPT !.verification = "recorded", !.tested = job.receipt, !.tree = job.tree]
      <3>1. env' = [env EXCEPT ![c] = e]
        BY <2>3 DEF VerifyEnds, Recorded
      <3>2. How(e) = How(env[c])
        BY <1>e DEF How, Environments
      <3> QED
        BY <1>5, <2>1, <3>1, <3>2
    <2> QED
      BY <1>6, <2>2, <2>3
  <1>7. CASE ApplyStarts(c)
    <2> DEFINE e == [env[c] EXCEPT !.status = "applying"]
    <2>1. /\ env' = [env EXCEPT ![c] = e] /\ env[c].status # "integrated"
          /\ landed' = [landed EXCEPT ![c] = {}] /\ UNCHANGED <<file, patch>>
      BY <1>7 DEF ApplyStarts, Applicable, Recorded, childVars
    <2>2. How(e) = "open" /\ Outcome[c] \in {"open", "dropped"}
      BY <1>e, <1>o, <2>1 DEF How, Environments
    <2>3. Outcome' = [Outcome EXCEPT ![c] = "open"]
      BY <1>t, <2>1, <2>2, RecordedOutcome
    <2>4. Promise!Begin(c)
      BY <2>1, <2>2, <2>3 DEF Promise!Begin, Outcome, How
    <2> QED
      BY <2>4 DEF Promise!Next
  <1>8. ASSUME NEW p \in Paths, SkipPath(c, p) \/ WritePath(c, p) PROVE Promise!Next
    <2>1. /\ Doing("apply", c) /\ p \in job.todo
          /\ landed' = [landed EXCEPT ![c] = @ \cup {p}] /\ UNCHANGED <<env, patch>>
      BY <1>8 DEF SkipPath, WritePath, Handled, childVars
    <2>2. p \in Changed(c) /\ Outcome[c] = "open" /\ Outcome' = Outcome
      BY <1>t, <2>1 DEF ChildStands, JobStands, Outcome, How
    <2>3. p \in Promise!Changed(c)
      BY <2>2 DEF Changed, Promise!Changed
    <2>4. CASE SkipPath(c, p)
      <3>1. file[p] = patch[c].to[p] /\ file' = file
        BY <2>4 DEF SkipPath, Brought, AsAfter
      <3>2. Promise!Found(c, p)
        BY <2>1, <2>2, <2>3, <3>1 DEF Promise!Found, Outcome, How
      <3> QED
        BY <3>2 DEF Promise!Next
    <2>5. CASE WritePath(c, p)
      <3>1. file[p] = patch[c].from[p] /\ file' = [file EXCEPT ![p] = patch[c].to[p]]
        BY <2>5 DEF WritePath, Replaceable, AsBefore
      <3>2. Promise!Land(c, p)
        BY <2>1, <2>2, <2>3, <3>1 DEF Promise!Land, Outcome, How
      <3> QED
        BY <3>2 DEF Promise!Next
    <2> QED
      BY <1>8, <2>4, <2>5
  <1>9. ASSUME NEW byHand \in BOOLEAN, Integrated(c, byHand), UNCHANGED <<file, patch, landed>>
        PROVE  Promise!Close(c, IF byHand THEN "resolved" ELSE "merged")
    <2> DEFINE e == [env[c] EXCEPT !.status = "integrated", !.byHand = byHand, !.verification = "required"]
    <2>1. env' = [env EXCEPT ![c] = e]
      BY <1>9 DEF Integrated, Recorded
    <2>2. How(e) = IF byHand THEN "resolved" ELSE "merged"
      BY <1>e DEF How, Environments
    <2> HIDE DEF e
    <2>3. Outcome' = [Outcome EXCEPT ![c] = IF byHand THEN "resolved" ELSE "merged"]
      BY <1>t, <2>1, <2>2, RecordedOutcome
    <2> QED
      BY <1>9, <2>3, CloseIsOutcome
  <1>10. CASE ApplyEnds(c)
    <2>1. Promise!Close(c, "merged")
      BY <1>9, <1>10 DEF ApplyEnds, childVars
    <2>2. env[c].status = "applying" /\ landed[c] = Changed(c)
      BY <1>t, <1>10 DEF ApplyEnds, ChildStands, JobStands
    <2>3. landed[c] = Promise!Changed(c) /\ Outcome[c] = "open"
      BY <1>o, <2>2 DEF Changed, Promise!Changed, How
    <2>4. Promise!Merge(c)
      BY <2>1, <2>3 DEF Promise!Merge, Outcome, How
    <2> QED
      BY <2>4 DEF Promise!Next
  <1>11. CASE Resolve(c)
    <2>1. Promise!Close(c, "resolved")
      BY <1>9, <1>11 DEF Resolve, childVars
    <2>2. Outcome[c] \in {"open", "dropped"}
      BY <1>o, <1>11 DEF Resolve, Applicable, How
    <2>3. Promise!Resolve(c)
      BY <2>1, <2>2 DEF Promise!Resolve, Outcome, How
    <2> QED
      BY <2>3 DEF Promise!Next
  <1>12. CASE Discard(c)
    <2> DEFINE e == [env[c] EXCEPT !.status = "discarded", !.verification = "none"]
    <2>1. env' = [env EXCEPT ![c] = e] /\ UNCHANGED <<file, patch, landed>>
      BY <1>12 DEF Discard, Recorded, childVars
    <2>2. How(e) = "dropped"
      BY <1>e DEF How, Environments
    <2>3. Promise!Close(c, "dropped")
      BY <1>t, <2>1, <2>2, RecordedOutcome, CloseIsOutcome
    <2> QED
      BY <2>3 DEF Promise!Drop, Promise!Next
  <1> QED
    BY <1>1, <1>3, <1>4, <1>6, <1>7, <1>8, <1>10, <1>11, <1>12 DEF IntegrateStep

LEMMA PromiseStep ==
    ASSUME IntegrationInv, [IntegrationNext]_vars
    PROVE  [Promise!Next]_(Promise!vars)
  <1>1. ASSUME NEW c \in Children, RemoveStep(c) PROVE UNCHANGED Promise!vars
    BY <1>1 DEF RemoveStep, RemoveChecks, RemoveLocks, RemoveGivesUp, RemoveDeletes, childVars, Promise!vars
  <1>2. CASE RunCommand \/ Complete \/ Stop \/ JobFails \/ Crash \/ UNCHANGED vars
    BY <1>2 DEF RunCommand, Complete, Stop, JobFails, Crash, vars, childVars, Promise!vars
  <1>3. ASSUME NEW p \in Paths, NEW v \in Contents, Edit(p, v) PROVE Promise!Edit(p)
    BY <1>3 DEF Edit, childVars, Promise!Edit
  <1> QED
    BY <1>1, <1>2, <1>3, SpawnPromise, ChildTurnPromise, IntegratePromise DEF IntegrationNext, Promise!Next

LEMMA PromiseInit == WorkspaceInit => Promise!Init
  <1> SUFFICES ASSUME WorkspaceInit PROVE Promise!Init
    OBVIOUS
  <1>1. file \in Promise!Trees /\ patch \in [Children -> [from : Promise!Trees, to : Promise!Trees]]
    BY TypesInit DEF WorkspaceTypeOK, Trees, Promise!Trees
  <1>2. \A c \in Children : env[c].status = "none"
    BY DEF WorkspaceInit, NoEnvironment
  <1> QED
    BY <1>1, <1>2 DEF WorkspaceInit, Promise!Init

(* Bringing children's work home implements Patches: no file of anybody     *)
(* else is replaced, and a child counts as merged only with its whole       *)
(* patch, whatever breaks off, is edited or is tried again (integrate of    *)
(* harness/child_workspaces.py).                                            *)
THEOREM PatchesComeHome == IntegrationSpec => PatchesKeepPromise
  BY PromiseInit, PromiseStep, WorkspacesStand, PTL DEF IntegrationSpec, PatchesKeepPromise, Promise!Spec
=============================================================================
