--------------------------- MODULE ChildWorkspace ---------------------------
(***************************************************************************)
(* The checkouts of child Turns and the way their work comes back          *)
(* (harness/child_workspaces.py, child_workspace_ops.py, worktrees.py).    *)
(* A child works in a checkout of the tree its parent had when it was      *)
(* prepared.  The parent inspects the finished checkout, applies the patch *)
(* file by file, verifies the result with a command of its own, or         *)
(* discards the child; it may complete only when no child is left open.    *)
(* Operations of one parent run one after the other on the store's thread; *)
(* users and tools edit the workspace at any time, a person removes        *)
(* checkouts from another process, and the parent's process may end        *)
(* between any two writes.                                                 *)
(***************************************************************************)
EXTENDS FiniteSets

CONSTANTS Children, Paths,
          Contents,   \* what a file holds, "not there" included
          Original,   \* ... before anybody works
          None

ASSUME ContentsAssumption == Children \subseteq Contents /\ Original \in Contents
ASSUME NoneAssumption == None \notin Children /\ None \notin [Paths -> Contents]

VARIABLES parent,     \* the parent Turn: "running", "completed", or "stopped" (failed, cancelled)
          turn,       \* each child Turn, see TurnStates
          spawning,   \* children a spawn of this process has prepared and not yet allocated
          env,        \* the latest child_workspace Item of each child
          patch,      \* the tree each child started from and the one its checkout holds
          checkout,   \* "none", "present", "removed"
          lock,       \* who holds the file lock of a checkout (Sessions share it)
          remover,    \* how far a removal has come
          file,       \* the parent's workspace
          job,        \* the operation under way on the store's thread
          receipt,    \* the tree on which the parent's latest command passed
          newer,      \* that command ended after the child's last integration
          landed,     \* history: the paths the present application has written or skipped
          disturbed   \* history: the workspace was edited while the recorded verification was made

vars == <<parent, turn, spawning, env, patch, checkout, lock, remover, file, job, receipt, newer, landed, disturbed>>
parentVars == <<parent, receipt, newer, disturbed>>
childVars == <<turn, spawning, patch>>
checkoutVars == <<checkout, lock, remover>>

Trees == [Paths -> Contents]

(* "uncertain" has ended with exposure nobody knows, "settled" with a known *)
(* one its parent's budget has been told.                                   *)
TurnStates == {"none", "running", "ended", "uncertain", "settled"}
Terminal(c) == turn[c] \in {"ended", "uncertain", "settled"}
Known(c) == turn[c] \in {"ended", "settled"}

Environments ==
    [status : {"none", "preparing", "ready", "reviewed", "applying", "integrated", "discarded"},
     mode : {"write", "read-only"},
     artifact : BOOLEAN,       \* the patch and the result are archived
     read : BOOLEAN,           \* all its pages were read
     reconciled : BOOLEAN,
     byHand : BOOLEAN,         \* the integration is a person's (resolution_note)
     verification : {"none", "required", "recorded"},
     tested : Trees \cup {None}, \* the input of the command the verification cites
     tree : Trees \cup {None}]   \* the workspace when the verification was recorded

NoEnvironment ==
    [status |-> "none", mode |-> "write", artifact |-> FALSE, read |-> FALSE, reconciled |-> FALSE,
     byHand |-> FALSE, verification |-> "none", tested |-> None, tree |-> None]

Jobs ==
    [kind : {"prepare", "inspect", "apply", "verify"}, child : Children,
     todo : SUBSET Paths, receipt : Trees \cup {None}, tree : Trees \cup {None},
     disturbed : BOOLEAN]

Idle == job = None
Starts(kind, c, todo) ==
    job' = [kind |-> kind, child |-> c, todo |-> todo, receipt |-> receipt, tree |-> None, disturbed |-> FALSE]
Doing(kind, c) == job # None /\ job.kind = kind /\ job.child = c

WorkspaceTypeOK ==
    /\ parent \in {"running", "completed", "stopped"}
    /\ turn \in [Children -> TurnStates]
    /\ spawning \subseteq Children
    /\ env \in [Children -> Environments]
    /\ patch \in [Children -> [from : Trees, to : Trees]]
    /\ checkout \in [Children -> {"none", "present", "removed"}]
    /\ lock \in [Children -> SUBSET {"session", "inspector", "remover"}]
    /\ remover \in [Children -> {"idle", "checked", "locked"}]
    /\ file \in Trees
    /\ job \in Jobs \cup {None}
    /\ receipt \in Trees \cup {None}
    /\ newer \in [Children -> BOOLEAN]
    /\ landed \in [Children -> SUBSET Paths]
    /\ disturbed \in [Children -> BOOLEAN]

Untouched == [p \in Paths |-> Original]

WorkspaceInit ==
    /\ parent = "running"
    /\ turn = [c \in Children |-> "none"]
    /\ spawning = {}
    /\ env = [c \in Children |-> NoEnvironment]
    /\ patch = [c \in Children |-> [from |-> Untouched, to |-> Untouched]]
    /\ checkout = [c \in Children |-> "none"]
    /\ lock = [c \in Children |-> {}]
    /\ remover = [c \in Children |-> "idle"]
    /\ file = Untouched
    /\ job = None
    /\ receipt = None
    /\ newer = [c \in Children |-> FALSE]
    /\ landed = [c \in Children |-> {}]
    /\ disturbed = [c \in Children |-> FALSE]

(* record(): one more child_workspace Item of a parent that still runs. *)
Recorded(c, e) == parent = "running" /\ env' = [env EXCEPT ![c] = e]

(***************************************************************************)
(* A spawn freezes the parent's tree, notes the environment, makes the     *)
(* checkout and only then allocates the child Turn.                        *)
(***************************************************************************)
Prepare(c, mode) ==
    /\ Idle /\ env[c].status = "none"
    /\ Recorded(c, [NoEnvironment EXCEPT !.status = "preparing", !.mode = mode])
    /\ patch' = [patch EXCEPT ![c] = [from |-> file, to |-> file]]
    /\ Starts("prepare", c, {})
    /\ UNCHANGED <<turn, spawning, checkoutVars, file, parentVars, landed>>

MakeCheckout(c) ==
    /\ Doing("prepare", c) /\ checkout[c] = "none"
    /\ checkout' = [checkout EXCEPT ![c] = "present"]
    /\ UNCHANGED <<childVars, env, lock, remover, file, job, parentVars, landed>>

(* A child that cannot write is marked as such once and for all.            *)
ReadyStatusByMode(mode) == IF mode = "read-only" THEN "read_only" ELSE "ready"

(* Both modes are ready alike: no code writes the status "read_only" that   *)
(* the completion gate and the removal also accept.                         *)
ReadyStatus(mode) == "ready"

Prepared(c) ==
    /\ Doing("prepare", c) /\ checkout[c] = "present"
    /\ Recorded(c, [env[c] EXCEPT !.status = ReadyStatus(env[c].mode)])
    /\ spawning' = spawning \cup {c}
    /\ job' = None
    /\ UNCHANGED <<turn, patch, checkoutVars, file, parentVars, landed>>

(* reserve_child reads the parent, not the environment. *)
Allocate(c) ==
    /\ Idle /\ c \in spawning /\ parent = "running"
    /\ turn' = [turn EXCEPT ![c] = "running"]
    /\ spawning' = spawning \ {c}
    /\ UNCHANGED <<patch, env, checkoutVars, file, job, parentVars, landed>>

SpawnRefused(c) ==
    /\ Idle /\ c \in spawning
    /\ spawning' = spawning \ {c}
    /\ UNCHANGED <<turn, patch, env, checkoutVars, file, job, parentVars, landed>>

(***************************************************************************)
(* The child's driver holds the checkout's lock while its Session is open; *)
(* the child's Turn ends with or without one, and leaves what it wrote.    *)
(***************************************************************************)
OpenSession(c) ==
    /\ turn[c] = "running" /\ lock[c] = {}
    /\ lock' = [lock EXCEPT ![c] = {"session"}]
    /\ UNCHANGED <<childVars, env, checkout, remover, file, job, parentVars, landed>>

CloseSession(c) ==
    /\ "session" \in lock[c]
    /\ lock' = [lock EXCEPT ![c] = @ \ {"session"}]
    /\ UNCHANGED <<childVars, env, checkout, remover, file, job, parentVars, landed>>

Written(c) == IF env[c].mode = "write" THEN SUBSET Paths ELSE {{}}

ChildEnds(c) ==
    /\ turn[c] = "running"
    /\ turn' \in {[turn EXCEPT ![c] = "ended"], [turn EXCEPT ![c] = "uncertain"]}
    /\ \E written \in Written(c) :
          patch' = [patch EXCEPT ![c].to = [p \in Paths |-> IF p \in written THEN c ELSE @[p]]]
    /\ UNCHANGED <<spawning, env, checkoutVars, file, job, parentVars, landed>>

Settle(c) ==
    /\ turn[c] = "ended" /\ turn' = [turn EXCEPT ![c] = "settled"]
    /\ UNCHANGED <<spawning, patch, env, checkoutVars, file, job, parentVars, landed>>

(* Somebody accounts for the exposure (the ledgers model how). *)
ExposureResolved(c) ==
    /\ turn[c] = "uncertain" /\ turn' = [turn EXCEPT ![c] = "ended"]
    /\ UNCHANGED <<spawning, patch, env, checkoutVars, file, job, parentVars, landed>>
=============================================================================
