------------------------------- MODULE Notice -------------------------------
(***************************************************************************)
(* What durable remote effects promise: for each message, what its record  *)
(* believes and what became of it out there.  The effect happens at most   *)
(* once; it may be tried again only when it is certain that it did not     *)
(* happen; and only the effect itself makes the record say that it did.    *)
(* The outbox rows and the publications both implement it.                 *)
(***************************************************************************)
EXTENDS Naturals

CONSTANT Messages

VARIABLES
    belief, \* of each: "unsent", "sending", "unknown", "done" or "dropped"
    copies  \* of its effect, out there

Init ==
    /\ belief = [m \in Messages |-> "unsent"]
    /\ copies = [m \in Messages |-> 0]

Believed(m, before, after) == belief[m] \in before /\ belief'[m] = after
Unseen(m) == copies'[m] = copies[m]

(* The intent is recorded before the effect is started.                     *)
Intend(m) == Believed(m, {"unsent"}, "sending") /\ Unseen(m)

(* The one effect of that intent.  It may come after the record gave it up. *)
Happen(m) == belief[m] # "unsent" /\ belief'[m] = belief[m] /\ copies[m] = 0 /\ copies'[m] = 1

(* The outcome is known: nothing happened, or it did.                       *)
Refused(m) == Believed(m, {"sending"}, "unsent") /\ copies[m] = 0 /\ Unseen(m)
Confirmed(m) == Believed(m, {"sending", "unknown"}, "done") /\ copies[m] = 1 /\ Unseen(m)

Lost(m) == Believed(m, {"sending"}, "unknown") /\ Unseen(m)
Dropped(m) == Believed(m, {"unsent", "unknown"}, "dropped") /\ Unseen(m)
Rests(m) == belief'[m] = belief[m] /\ Unseen(m)

(* One transaction may move the records of several messages.                *)
Next ==
    \A m \in Messages :
        Intend(m) \/ Happen(m) \/ Refused(m) \/ Confirmed(m) \/ Lost(m) \/ Dropped(m) \/ Rests(m)

Spec == Init /\ [][Next]_<<belief, copies>>
=============================================================================
