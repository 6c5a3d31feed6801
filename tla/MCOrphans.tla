------------------------------ MODULE MCOrphans ------------------------------
(***************************************************************************)
(* Small instances of what goes on when its owner is lost: detached        *)
(* commands, which a later owner attaches to, and Turns, which the host    *)
(* finds again and wakes.  They share no row: the commands run beside a    *)
(* host that has nothing to do.                                            *)
(***************************************************************************)
EXTENDS MCBackgroundHost, CommandSession

(* No behaviour of this instance queues more rows than these.               *)
MaxRows == 5

Idle == up = "up" /\ queue = <<>> /\ mishaps = 0

HostMoves == CommandInit /\ Next /\ UNCHANGED commandVars
CommandMoves == Idle /\ CommandNext /\ UNCHANGED hostVars

OrphansSpec ==
    /\ Init /\ CommandInit
    /\ [][HostMoves \/ CommandMoves]_<<hostVars, commandVars>>
    /\ Fairness(MaxRows) /\ CommandFairness
=============================================================================
