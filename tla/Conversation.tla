---------------------------- MODULE Conversation ----------------------------
(***************************************************************************)
(* What a user may rely on, whatever crashes, cancellations, retries and   *)
(* races happen below: a Turn that ended never opens again or acts again;  *)
(* every action is taken at most once; a Turn completes only with a        *)
(* response to everything it heard and when its children have ended.       *)
(* TurnRunner implements it.                                               *)
(***************************************************************************)
EXTENDS Naturals

CONSTANTS Turns, NoTurn, Parent, Actions, By

VARIABLES
    status,   \* of each Turn
    heard,    \* user messages the Turn accepted
    answered, \* the newest message that a committed response covers
    acted     \* how often the effect of each action was started

Init ==
    /\ status = [t \in Turns |-> "new"]
    /\ heard = [t \in Turns |-> 0]
    /\ answered = [t \in Turns |-> 0]
    /\ acted = [a \in Actions |-> 0]

Begin(t) ==
    /\ status[t] = "new"
    /\ Parent[t] # NoTurn => status[Parent[t]] = "open"
    /\ status' = [status EXCEPT ![t] = "open"]
    /\ heard' = [heard EXCEPT ![t] = 1]
    /\ UNCHANGED <<answered, acted>>

Hear(t) ==
    /\ status[t] = "open"
    /\ heard' = [heard EXCEPT ![t] = @ + 1]
    /\ UNCHANGED <<status, answered, acted>>

Answer(t) ==
    /\ status[t] = "open"
    /\ \E r \in (answered[t] + 1)..heard[t] : answered' = [answered EXCEPT ![t] = r]
    /\ UNCHANGED <<status, heard, acted>>

Act(a) ==
    /\ acted[a] = 0
    /\ status[By[a]] = "open" /\ answered[By[a]] > 0
    /\ acted' = [acted EXCEPT ![a] = 1]
    /\ UNCHANGED <<status, heard, answered>>

Complete(t) ==
    /\ status[t] = "open" /\ answered[t] = heard[t]
    /\ \A c \in Turns : Parent[c] = t => status[c] # "open"
    /\ status' = [status EXCEPT ![t] = "completed"]
    /\ UNCHANGED <<heard, answered, acted>>

Stop(t) ==
    /\ status[t] = "open"
    /\ status' = [status EXCEPT ![t] = "stopped"]
    /\ UNCHANGED <<heard, answered, acted>>

Next ==
    \/ \E t \in Turns : Begin(t) \/ Hear(t) \/ Answer(t) \/ Complete(t) \/ Stop(t)
    \/ \E a \in Actions : Act(a)

Spec == Init /\ [][Next]_<<status, heard, answered, acted>>
=============================================================================
