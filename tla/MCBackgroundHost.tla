-------------------------- MODULE MCBackgroundHost --------------------------
(* Small instances of the background host for TLC.                         *)
EXTENDS BackgroundHost

CONSTANTS r1, c1, w1, w2

(* A submission and the child it may spawn, in its workspace or in a       *)
(* checkout of its own.                                                    *)
Family == r1 :> NoTurn @@ c1 :> r1
Alone == r1 :> NoTurn
OneWorkspace == r1 :> w1 @@ c1 :> w1
TwoWorkspaces == r1 :> w1 @@ c1 :> w2

(* While a submission has a child, little else is asked of the host.        *)
ChildAlone == \A t \in Turns : state[t] # "absent" /\ Parent[t] # NoTurn => Len(queue) <= 2
=============================================================================
