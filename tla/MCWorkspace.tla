---------------------------- MODULE MCWorkspace ----------------------------
(***************************************************************************)
(* Two children of one parent in a workspace of two paths.  The program's  *)
(* own steps are free; what comes from outside has a credit.               *)
(***************************************************************************)
EXTENDS Integration, Naturals, TLC

CONSTANTS Scenarios, c1, c2, p1, p2, orig, user, none

VARIABLE credit

TwoChildren == {c1, c2}
TwoPaths == {p1, p2}
FourContents == {c1, c2, orig, user}
Symmetry == Permutations({c1, c2}) \cup Permutations({p1, p2})

Spend(kind) == credit[kind] > 0 /\ credit' = [credit EXCEPT ![kind] = @ - 1]
Free == UNCHANGED credit

Init == WorkspaceInit /\ credit \in Scenarios

Spawning ==
    \E c \in Children :
        \/ \E mode \in {"write", "read-only"} : Prepare(c, mode) /\ Spend(IF mode = "write" THEN "write" ELSE "read_only")
        \/ (MakeCheckout(c) \/ Prepared(c) \/ Allocate(c)) /\ Free
        \/ SpawnRefused(c) /\ Spend("fault")

ChildTurns ==
    \E c \in Children :
        \/ OpenSession(c) /\ Spend("session")
        \/ (CloseSession(c) \/ Settle(c) \/ ExposureResolved(c)) /\ Free
        \/ ChildEnds(c) /\ Free

Integrating ==
    \E c \in Children :
        \/ (InspectStarts(c) \/ InspectEnds(c) \/ ReadPages(c)) /\ Free
        \/ Reconcile(c) /\ Spend("reconcile")
        \/ (ApplyStarts(c) \/ ApplyEnds(c)) /\ Free
        \/ (\E p \in Paths : SkipPath(c, p) \/ WritePath(c, p)) /\ Free
        \/ (Resolve(c) \/ Discard(c)) /\ Spend("decide")

Verifying ==
    \/ RunCommand /\ Spend("command")
    \/ \E c \in Children : (VerifyStarts(c) \/ ReadTree(c) \/ VerifyEnds(c)) /\ Free

Removing ==
    \E c \in Children :
        \/ RemoveChecks(c) /\ Spend("remove")
        \/ (RemoveLocks(c) \/ RemoveGivesUp(c) \/ RemoveDeletes(c)) /\ Free

Around ==
    \/ (JobFails \/ Crash) /\ Spend("fault")
    \/ \E p \in Paths, v \in Contents : Edit(p, v) /\ Spend("edit")
    \/ Stop /\ Spend("stop")
    \/ Complete /\ Free

Next == Spawning \/ ChildTurns \/ Integrating \/ Verifying \/ Removing \/ Around

allVars == <<vars, credit>>

Spec == Init /\ [][Next]_allVars

Nothing ==
    [write |-> 0, read_only |-> 0, session |-> 0, reconcile |-> 0, decide |-> 0, command |-> 0,
     remove |-> 0, edit |-> 0, fault |-> 0, stop |-> 0]

(* One child's patch through a broken application and edits in its way.     *)
Broken == [Nothing EXCEPT !.write = 1, !.reconcile = 1, !.edit = 2, !.fault = 1, !.command = 1, !.decide = 1]
(* Two children, one after the other or on the same file, and a verification *)
(* for each.                                                                *)
Both == [Nothing EXCEPT !.write = 2, !.command = 2, !.edit = 1, !.decide = 1]
(* A child given up and taken up again, its checkout removed meanwhile.     *)
Removal == [Nothing EXCEPT !.write = 1, !.read_only = 1, !.session = 1, !.decide = 2, !.remove = 1, !.fault = 1, !.stop = 1]
AllScenarios == {Broken, Both, Removal}
=============================================================================
