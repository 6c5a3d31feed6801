---------------------------- MODULE Integration ----------------------------
(***************************************************************************)
(* integrate(): what a parent can do with a finished child, the gate of    *)
(* its own completion, the removal of a checkout, and what goes on around  *)
(* them.                                                                   *)
(***************************************************************************)
EXTENDS ChildWorkspace

Changed(c) == {p \in Paths : patch[c].from[p] # patch[c].to[p]}

(* Every action but discard is for a child the parent has allocated.        *)
MayIntegrate(c) == Idle /\ parent = "running" /\ turn[c] # "none"

(***************************************************************************)
(* inspect: archive the checkout once, under its lock and only while       *)
(* nobody works in it; then its pages are read from the archive.           *)
(***************************************************************************)
Exclusive(c) == lock[c] = {}

InspectStarts(c) ==
    /\ MayIntegrate(c) /\ Known(c) /\ ~env[c].artifact
    /\ checkout[c] = "present" /\ Exclusive(c)
    /\ lock' = [lock EXCEPT ![c] = @ \cup {"inspector"}]
    /\ Starts("inspect", c, {})
    /\ UNCHANGED <<childVars, env, checkout, remover, file, parentVars, landed>>

InspectEnds(c) ==
    /\ Doing("inspect", c)
    /\ \E read \in BOOLEAN :
          Recorded(c, [env[c] EXCEPT !.status = "reviewed", !.artifact = TRUE, !.read = read,
                                     !.verification = "required"])
    /\ lock' = [lock EXCEPT ![c] = @ \ {"inspector"}] /\ job' = None
    /\ UNCHANGED <<childVars, checkout, remover, file, parentVars, landed>>

ReadPages(c) ==
    /\ MayIntegrate(c) /\ Known(c) /\ env[c].artifact
    /\ Recorded(c, [env[c] EXCEPT !.read = TRUE])
    /\ UNCHANGED <<childVars, checkoutVars, file, job, parentVars, landed>>

(***************************************************************************)
(* reconcile and apply.  After an application that broke off, a path may   *)
(* hold what the child started from or what it left; anything else is      *)
(* somebody's work and a conflict.                                         *)
(***************************************************************************)
Applicable(c) ==
    /\ MayIntegrate(c) /\ Known(c)
    /\ env[c].artifact /\ env[c].read /\ env[c].mode = "write"
    /\ env[c].status # "integrated"

AsBefore(c, p) == file[p] = patch[c].from[p]
AsAfter(c, p) == file[p] = patch[c].to[p]

Conflicts(c, again) == {p \in Changed(c) : ~AsBefore(c, p) /\ ~(again /\ AsAfter(c, p))}

Reconcile(c) ==
    /\ Applicable(c) /\ Conflicts(c, TRUE) = {}
    /\ Recorded(c, [env[c] EXCEPT !.status = "reviewed", !.reconciled = TRUE])
    /\ UNCHANGED <<childVars, checkoutVars, file, job, parentVars, landed>>

(* The intent is durable before the first file is touched, and an           *)
(* application whose end nobody saw is not repeated.                        *)
ApplyStarts(c) ==
    /\ Applicable(c) /\ env[c].status # "applying"
    /\ Conflicts(c, env[c].reconciled) = {}
    /\ Recorded(c, [env[c] EXCEPT !.status = "applying"])
    /\ Starts("apply", c, Changed(c))
    /\ landed' = [landed EXCEPT ![c] = {}]
    /\ UNCHANGED <<childVars, checkoutVars, file, parentVars>>

(* The reconciliation has looked at the path already.                       *)
BroughtOnTrust(c, p) == env[c].reconciled

(* A path an earlier application has already brought is left alone ...      *)
Brought(c, p) == env[c].reconciled /\ AsAfter(c, p)

(* The comparison that found no conflict is good enough.                    *)
ReplaceableUnread(c, p) == TRUE

(* ... any other is compared once more at its write, which replaces the     *)
(* very version that was compared.                                          *)
Replaceable(c, p) == AsBefore(c, p)

Handled(c, p) ==
    /\ Doing("apply", c) /\ p \in job.todo
    /\ job' = [job EXCEPT !.todo = @ \ {p}]
    /\ landed' = [landed EXCEPT ![c] = @ \cup {p}]
    /\ UNCHANGED <<childVars, env, checkoutVars, parentVars>>

SkipPath(c, p) == Brought(c, p) /\ Handled(c, p) /\ UNCHANGED file

WritePath(c, p) ==
    /\ ~Brought(c, p) /\ Replaceable(c, p) /\ Handled(c, p)
    /\ file' = [file EXCEPT ![p] = patch[c].to[p]]

(* A new integration asks for a verification that is newer than it.         *)
Integrated(c, byHand) ==
    /\ Recorded(c, [env[c] EXCEPT !.status = "integrated", !.byHand = byHand, !.verification = "required"])
    /\ newer' = [newer EXCEPT ![c] = FALSE]

ApplyEnds(c) ==
    /\ Doing("apply", c) /\ job.todo = {}
    /\ Integrated(c, FALSE)
    /\ job' = None
    /\ UNCHANGED <<childVars, checkoutVars, file, parent, receipt, disturbed, landed>>

Resolve(c) ==
    /\ Applicable(c) /\ Integrated(c, TRUE)
    /\ UNCHANGED <<childVars, checkoutVars, file, job, parent, receipt, disturbed, landed>>

Discard(c) ==
    /\ Idle /\ env[c].status # "none" /\ (Terminal(c) \/ turn[c] = "none")
    /\ Recorded(c, [env[c] EXCEPT !.status = "discarded", !.verification = "none"])
    /\ UNCHANGED <<childVars, checkoutVars, file, job, parentVars, landed>>

(***************************************************************************)
(* verify: the parent ran a command that passed, after the integration, on *)
(* the tree the workspace still has.  The evidence is noted, the tree is   *)
(* read for the completion gate, and the tree is compared once more.       *)
(***************************************************************************)
RunCommand ==
    /\ parent = "running"
    /\ receipt' = file
    /\ newer' = [c \in Children |-> TRUE]
    /\ UNCHANGED <<parent, disturbed, childVars, env, checkoutVars, file, job, landed>>

VerifyStarts(c) ==
    /\ MayIntegrate(c) /\ env[c].status = "integrated"
    /\ newer[c] /\ receipt = file
    /\ Starts("verify", c, {})
    /\ UNCHANGED <<parentVars, childVars, env, checkoutVars, file, landed>>

ReadTree(c) ==
    /\ Doing("verify", c) /\ job.tree = None
    /\ job' = [job EXCEPT !.tree = file]
    /\ UNCHANGED <<parentVars, childVars, env, checkoutVars, file, landed>>

VerifyEnds(c) ==
    /\ Doing("verify", c) /\ job.tree # None
    /\ job.receipt = file
    /\ Recorded(c, [env[c] EXCEPT !.verification = "recorded", !.tested = job.receipt, !.tree = job.tree])
    /\ disturbed' = [disturbed EXCEPT ![c] = job.disturbed]
    /\ job' = None
    /\ UNCHANGED <<parent, receipt, newer, childVars, checkoutVars, file, landed>>

(***************************************************************************)
(* complete_turn: no allocation is active and no environment is open.      *)
(***************************************************************************)
(* A recorded verification stays valid.                                     *)
UnchangedUnread(c) == TRUE

Unchanged(c) == env[c].tree = file

Closed(c) ==
    \/ env[c].status \in {"none", "discarded"}
    \/ env[c].mode = "read-only" /\ turn[c] = "settled"
    \/ env[c].status = "integrated" /\ env[c].verification = "recorded" /\ Unchanged(c)

Complete ==
    /\ Idle /\ parent = "running"
    /\ \A c \in Children : turn[c] \in {"none", "settled"} /\ Closed(c)
    /\ parent' = "completed"
    /\ UNCHANGED <<receipt, newer, disturbed, childVars, env, checkoutVars, file, job, landed>>

(* The parent fails or is cancelled, whatever its children are at.          *)
Stop ==
    /\ Idle /\ parent = "running"
    /\ parent' = "stopped"
    /\ UNCHANGED <<receipt, newer, disturbed, childVars, env, checkoutVars, file, job, landed>>

(***************************************************************************)
(* Removing a checkout, which always takes --force: the runtime database   *)
(* is asked first, then the lock must be had, then the checkout goes.      *)
(***************************************************************************)
(* The child has ended: nobody needs its checkout.                          *)
RemovableOnceEnded(c) == Known(c)

Removable(c) == Known(c) /\ env[c].status \in {"integrated", "discarded"}

RemoveChecks(c) ==
    /\ remover[c] = "idle" /\ checkout[c] = "present" /\ Removable(c)
    /\ remover' = [remover EXCEPT ![c] = "checked"]
    /\ UNCHANGED <<childVars, env, checkout, lock, file, job, parentVars, landed>>

RemoveLocks(c) ==
    /\ remover[c] = "checked" /\ Exclusive(c)
    /\ remover' = [remover EXCEPT ![c] = "locked"]
    /\ lock' = [lock EXCEPT ![c] = @ \cup {"remover"}]
    /\ UNCHANGED <<childVars, env, checkout, file, job, parentVars, landed>>

RemoveGivesUp(c) ==
    /\ remover[c] # "idle"
    /\ remover' = [remover EXCEPT ![c] = "idle"]
    /\ lock' = [lock EXCEPT ![c] = @ \ {"remover"}]
    /\ UNCHANGED <<childVars, env, checkout, file, job, parentVars, landed>>

RemoveDeletes(c) ==
    /\ remover[c] = "locked"
    /\ checkout' = [checkout EXCEPT ![c] = "removed"]
    /\ remover' = [remover EXCEPT ![c] = "idle"]
    /\ lock' = [lock EXCEPT ![c] = @ \ {"remover"}]
    /\ UNCHANGED <<childVars, env, file, job, parentVars, landed>>

(***************************************************************************)
(* Around them: an operation raises and leaves what it has done; the       *)
(* process ends and takes its locks with it; users and tools edit.         *)
(***************************************************************************)
FreedBy(who) == [c \in Children |-> lock[c] \ who]

JobFails ==
    /\ ~Idle /\ job' = None
    /\ lock' = FreedBy({"inspector"})
    /\ UNCHANGED <<childVars, env, checkout, remover, file, parentVars, landed>>

Crash ==
    /\ parent = "running"
    /\ job' = None /\ spawning' = {}
    /\ lock' = FreedBy({"inspector", "session"})
    /\ UNCHANGED <<turn, patch, env, checkout, remover, file, parentVars, landed>>

Edit(p, v) ==
    /\ file[p] # v /\ file' = [file EXCEPT ![p] = v]
    /\ job' = IF Idle THEN None ELSE [job EXCEPT !.disturbed = job.kind = "verify"]
    /\ UNCHANGED <<parentVars, childVars, env, checkoutVars, landed>>

(***************************************************************************)
(* Any order of these steps, by whoever takes them.                        *)
(***************************************************************************)
SpawnStep(c) ==
    \/ \E mode \in {"write", "read-only"} : Prepare(c, mode)
    \/ MakeCheckout(c) \/ Prepared(c) \/ Allocate(c) \/ SpawnRefused(c)

ChildTurnStep(c) ==
    OpenSession(c) \/ CloseSession(c) \/ ChildEnds(c) \/ Settle(c) \/ ExposureResolved(c)

IntegrateStep(c) ==
    \/ InspectStarts(c) \/ InspectEnds(c) \/ ReadPages(c)
    \/ Reconcile(c) \/ ApplyStarts(c) \/ ApplyEnds(c) \/ Resolve(c) \/ Discard(c)
    \/ \E p \in Paths : SkipPath(c, p) \/ WritePath(c, p)
    \/ VerifyStarts(c) \/ ReadTree(c) \/ VerifyEnds(c)

RemoveStep(c) == RemoveChecks(c) \/ RemoveLocks(c) \/ RemoveGivesUp(c) \/ RemoveDeletes(c)

IntegrationNext ==
    \/ \E c \in Children : SpawnStep(c) \/ ChildTurnStep(c) \/ IntegrateStep(c) \/ RemoveStep(c)
    \/ RunCommand \/ Complete \/ Stop \/ JobFails \/ Crash
    \/ \E p \in Paths, v \in Contents : Edit(p, v)

IntegrationSpec == WorkspaceInit /\ [][IntegrationNext]_vars

(***************************************************************************)
(* Properties.                                                             *)
(***************************************************************************)
(* A checkout is gone only when its child's Turn has ended, nobody has a    *)
(* Session or an inspection open in it, and its result is archived or the   *)
(* parent gave it up: the removal's check of the database, its lock, and    *)
(* the parent's operations in another process.                              *)
CheckoutKeptWhileNeeded ==
    \A c \in Children : checkout[c] = "removed" =>
        /\ Terminal(c) /\ lock[c] = {}
        /\ env[c].artifact \/ env[c].status = "discarded"

(* A parent completes only over children it discarded, read-only children   *)
(* that are settled, and integrations that a command of its own passed on   *)
(* the very tree it completes with, edits of the workspace in the middle of *)
(* recording that verification excepted (complete_turn, unresolved).        *)
ParentFinishesTested ==
    [][parent # "completed" /\ parent' = "completed" =>
        \A c \in Children :
            \/ env[c].status \in {"none", "discarded"}
            \/ env[c].mode = "read-only" /\ turn[c] = "settled"
            \/ env[c].status = "integrated" /\ (env[c].tested = file \/ disturbed[c])]_vars

Promise == INSTANCE Patches WITH
    outcome <- [c \in Children |->
        CASE env[c].status = "discarded" -> "dropped"
          [] env[c].status = "integrated" -> IF env[c].byHand THEN "resolved" ELSE "merged"
          [] OTHER -> "open"]

(* Integration keeps what Patches promises: through conflicts, edits at any *)
(* moment, applications that break off and are reconciled, a child's file   *)
(* never replaces another's work and a child counts as merged only with     *)
(* its whole patch (integrate).                                             *)
PatchesKeepPromise == Promise!Spec
=============================================================================
