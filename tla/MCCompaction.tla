---------------------------- MODULE MCCompaction ----------------------------
(***************************************************************************)
(* Small instances of two things that go on while a Turn is driven: the    *)
(* work of its children on its way home, and the compaction of its         *)
(* context.  They share no row: the instance runs the one or the other,    *)
(* beside each other and never mixed.                                      *)
(***************************************************************************)
EXTENDS MCWorkspace, Compaction

WorkspaceMoves == CompactionInit /\ Next /\ UNCHANGED compactionVars
CompactionMoves == WorkspaceInit /\ CompactionNext /\ UNCHANGED allVars

(* A compaction goes with one of the scenarios, none of which has begun.    *)
BothInit == Init /\ CompactionInit
BothNext == WorkspaceMoves \/ (credit = Removal /\ CompactionMoves)
BothSpec == BothInit /\ [][BothNext]_<<allVars, compactionVars>>
=============================================================================
