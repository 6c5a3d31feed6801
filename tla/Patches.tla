------------------------------ MODULE Patches ------------------------------
(***************************************************************************)
(* What bringing the work of child Turns home promises.  A child offers a  *)
(* patch: the tree it started from and the tree it left.  A file of the    *)
(* workspace is replaced by a child's only while it still is what that     *)
(* child started from, so nobody else's work is lost; a child counts as    *)
(* merged only when one and the same application found or put every file   *)
(* of its patch in place.                                                  *)
(***************************************************************************)
CONSTANTS Children, Paths, Contents

VARIABLES file,     \* the workspace: what each path holds
          patch,    \* [from, to] of every child
          landed,   \* the paths of its patch the present application has put or found in place
          outcome   \* "open", "merged", "resolved" by hand, or "dropped"

vars == <<file, patch, landed, outcome>>

Trees == [Paths -> Contents]
Outcomes == {"open", "merged", "resolved", "dropped"}
Changed(c) == {p \in Paths : patch[c].from[p] # patch[c].to[p]}

Init ==
    /\ file \in Trees
    /\ patch \in [Children -> [from : Trees, to : Trees]]
    /\ landed = [c \in Children |-> {}]
    /\ outcome = [c \in Children |-> "open"]

(* A patch grows until its application begins. *)
Offer(c) ==
    /\ landed[c] = {} /\ outcome[c] \in {"open", "dropped"}
    /\ \E offered \in [from : Trees, to : Trees] : patch' = [patch EXCEPT ![c] = offered]
    /\ UNCHANGED <<file, landed, outcome>>

(* Users and tools write their own files. *)
Edit(p) ==
    /\ \E v \in Contents : file' = [file EXCEPT ![p] = v]
    /\ UNCHANGED <<patch, landed, outcome>>

Begin(c) ==
    /\ outcome[c] \in {"open", "dropped"}
    /\ landed' = [landed EXCEPT ![c] = {}]
    /\ outcome' = [outcome EXCEPT ![c] = "open"]
    /\ UNCHANGED <<file, patch>>

Land(c, p) ==
    /\ outcome[c] = "open" /\ p \in Changed(c)
    /\ file[p] = patch[c].from[p]
    /\ file' = [file EXCEPT ![p] = patch[c].to[p]]
    /\ landed' = [landed EXCEPT ![c] = @ \cup {p}]
    /\ UNCHANGED <<patch, outcome>>

Found(c, p) ==
    /\ outcome[c] = "open" /\ p \in Changed(c)
    /\ file[p] = patch[c].to[p]
    /\ landed' = [landed EXCEPT ![c] = @ \cup {p}]
    /\ UNCHANGED <<file, patch, outcome>>

Close(c, how) ==
    /\ outcome' = [outcome EXCEPT ![c] = how]
    /\ UNCHANGED <<file, patch, landed>>

Merge(c) == outcome[c] = "open" /\ landed[c] = Changed(c) /\ Close(c, "merged")
Resolve(c) == outcome[c] \in {"open", "dropped"} /\ Close(c, "resolved")
Drop(c) == Close(c, "dropped")

(* Clearing an outcome that was dropped puts the child on the table again. *)
Reopen(c) == outcome[c] = "dropped" /\ Close(c, "open")

Next ==
    \/ \E p \in Paths : Edit(p)
    \/ \E c \in Children :
          Offer(c) \/ Begin(c) \/ Merge(c) \/ Resolve(c) \/ Drop(c) \/ Reopen(c)
    \/ \E c \in Children, p \in Paths : Land(c, p) \/ Found(c, p)

Spec == Init /\ [][Next]_vars
=============================================================================
