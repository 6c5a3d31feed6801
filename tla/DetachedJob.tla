----------------------------- MODULE DetachedJob -----------------------------
(***************************************************************************)
(* What a background command promises to those who read its outcome: it    *)
(* runs at most once and only after its launch was committed, it ends once *)
(* and for good, and what is said of its end is so.  Whoever controls it,  *)
(* and how often that one or the worker is lost, does not appear here.     *)
(***************************************************************************)
EXTENDS Naturals

CONSTANT Jobs

VARIABLES
    launched,   \* the jobs whose launch is committed
    runs,       \* how often each was executed
    published,  \* the jobs whose changes reached the workspace
    outcome,    \* how each ended
    reported    \* what was said of the end of each

jobVars == <<launched, runs, published, outcome, reported>>

(* An end that rules out any further effect.  A worker that is unavailable, *)
(* output that is withheld, or a command that was given up without hearing  *)
(* of its worker, says nothing about the command itself.                    *)
Final == {"completed", "cancelled", "unknown"}
Inconclusive == {"unavailable", "revoked", "abandoned"}
Settled(j) == reported[j] \cap Final # {}

Init ==
    /\ launched = {}
    /\ runs = [j \in Jobs |-> 0]
    /\ published = {}
    /\ outcome = [j \in Jobs |-> "none"]
    /\ reported = [j \in Jobs |-> {}]

Launch(j) ==
    /\ j \notin launched
    /\ launched' = launched \cup {j}
    /\ UNCHANGED <<runs, published, outcome, reported>>

Run(j) ==
    /\ j \in launched /\ runs[j] = 0
    /\ outcome[j] = "none" /\ ~Settled(j)
    /\ runs' = [runs EXCEPT ![j] = 1]
    /\ UNCHANGED <<launched, published, outcome, reported>>

Publish(j) ==
    /\ runs[j] = 1
    /\ outcome[j] = "none" /\ ~Settled(j)
    /\ published' = published \cup {j}
    /\ UNCHANGED <<launched, runs, outcome, reported>>

End(j, x) ==
    /\ j \in launched /\ outcome[j] = "none"
    /\ x = "completed" => runs[j] = 1
    /\ "unknown" \notin reported[j]
    /\ outcome' = [outcome EXCEPT ![j] = x]
    /\ UNCHANGED <<launched, runs, published, reported>>

Report(j, x) ==
    /\ j \in launched
    /\ x \in {"completed", "cancelled"} => outcome[j] = x
    /\ x = "unknown" => outcome[j] = "none"
    /\ reported' = [reported EXCEPT ![j] = @ \cup {x}]
    /\ UNCHANGED <<launched, runs, published, outcome>>

Next == \E j \in Jobs :
    \/ Launch(j) \/ Run(j) \/ Publish(j)
    \/ \E x \in {"completed", "cancelled"} : End(j, x)
    \/ \E x \in Final \cup Inconclusive : Report(j, x)

Spec == Init /\ [][Next]_jobVars
=============================================================================
