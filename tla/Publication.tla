----------------------------- MODULE Publication -----------------------------
(***************************************************************************)
(* Publications of a Git delivery (channels/publication.py): a push, a     *)
(* pull request or a review reply, prepared from a preview, claimed before *)
(* its effect and settled by its result or by what the remote shows.       *)
(* Several processes may execute or reconcile one publication, and each    *)
(* may end at any await.                                                   *)
(***************************************************************************)
EXTENDS ChannelAuthority

CONSTANTS
    Publications,
    Executors

ASSUME SomethingToPublish == Publications # {}

VARIABLES
    publication, \* the publication rows
    executor,    \* the local state of each process in execute
    published    \* external: how often the remote took each effect

publicationVars == <<publication, executor, published>>

PublicationStatus == {"absent", "prepared", "sending", "unknown", "succeeded"}

ExecutorState ==
    [at : {"idle", "read", "acting", "looking", "ending"}, of : Publications, reconcile : BOOLEAN,
     saw : PublicationStatus, found : BOOLEAN]

Away == [at |-> "idle", of |-> CHOOSE p \in Publications : TRUE, reconcile |-> FALSE,
         saw |-> "absent", found |-> FALSE]

PublicationTypeOK ==
    /\ AuthorityTypeOK
    /\ publication \in [Publications -> [status : PublicationStatus, revision : Nat]]
    /\ executor \in [Executors -> ExecutorState]
    /\ published \in [Publications -> Nat]

PublicationInit ==
    /\ publication = [p \in Publications |-> [status |-> "absent", revision |-> 0]]
    /\ executor = [x \in Executors |-> Away]
    /\ published = [p \in Publications |-> 0]

-----------------------------------------------------------------------------
Permitted(p) == Allows(publication[p].revision)
SetStatus(p, status) == publication' = [publication EXCEPT ![p].status = status]
Step(x, at) == executor' = [executor EXCEPT ![x].at = at]
Quit(x) == executor' = [executor EXCEPT ![x] = Away]

(* prepare: the intent; a second one with its identity returns the first.   *)
Prepare(p) ==
    /\ authority.granted
    /\ publication[p].status = "absent"
    /\ publication' = [publication EXCEPT ![p] = [status |-> "prepared", revision |-> authority.revision]]
    /\ UNCHANGED <<executor, published>>

(* execute: what it reads first decides what it may do.                     *)
Executable(p, reconcile) ==
    IF reconcile THEN publication[p].status \in {"sending", "unknown"}
    ELSE publication[p].status = "prepared"

ReadIntent(x, p, reconcile) ==
    /\ executor[x].at = "idle"
    /\ Permitted(p) /\ Executable(p, reconcile)
    /\ executor' = [executor EXCEPT ![x] =
                      [at |-> "read", of |-> p, reconcile |-> reconcile,
                       saw |-> publication[p].status, found |-> FALSE]]
    /\ UNCHANGED <<publication, published>>

(* Broken: the row is not compared with what was read.                      *)
UnclaimedUnread(x) == TRUE

(* claim, after the preview was taken again: the row must be as it was.     *)
Unclaimed(x) == publication[executor[x].of].status = executor[x].saw

ClaimIntent(x) ==
    /\ executor[x].at = "read"
    /\ Permitted(executor[x].of) /\ Unclaimed(x)
    /\ IF executor[x].reconcile
       THEN Step(x, "looking") /\ UNCHANGED publication
       ELSE Step(x, "acting") /\ SetStatus(executor[x].of, "sending")
    /\ UNCHANGED published

(* The preview changed, the authority is gone, or another process claimed.  *)
ClaimRefused(x) ==
    /\ executor[x].at = "read"
    /\ Quit(x)
    /\ UNCHANGED <<publication, published>>

Ending(x, found) == executor' = [executor EXCEPT ![x].at = "ending", ![x].found = found]

(* remote_effect: the effect; its result may be lost, and then one look at  *)
(* the remote may still find it.                                            *)
Effect(x) ==
    /\ executor[x].at = "acting"
    /\ \/ /\ published' = [published EXCEPT ![executor[x].of] = @ + 1]
          /\ Ending(x, TRUE) \/ Step(x, "looking")
       \/ Step(x, "looking") /\ UNCHANGED published
    /\ UNCHANGED publication

(* Only what the remote shows counts; its absence, an error or a withdrawn  *)
(* authority prove nothing.                                                 *)
Look(x) ==
    /\ executor[x].at = "looking"
    /\ \E found \in BOOLEAN : (found => published[executor[x].of] > 0) /\ Ending(x, found)
    /\ UNCHANGED <<publication, published>>

(* finish: a late absence does not erase what was found.                    *)
Concluded(status, found) == IF status = "succeeded" \/ found THEN "succeeded" ELSE "unknown"

Finish(x) ==
    /\ executor[x].at = "ending"
    /\ LET p == executor[x].of
       IN  SetStatus(p, Concluded(publication[p].status, executor[x].found))
    /\ Quit(x)
    /\ UNCHANGED published

ExecutorCrash(x) ==
    /\ executor[x].at # "idle"
    /\ Quit(x)
    /\ UNCHANGED <<publication, published>>

-----------------------------------------------------------------------------
ExecutorStep(x) ==
    \/ \E p \in Publications, reconcile \in BOOLEAN : ReadIntent(x, p, reconcile)
    \/ ClaimIntent(x) \/ ClaimRefused(x) \/ Effect(x) \/ Look(x) \/ Finish(x)

PublicationStep ==
    \/ \E p \in Publications : Prepare(p)
    \/ \E x \in Executors : ExecutorStep(x) \/ ExecutorCrash(x)

PublicationNext ==
    \/ PublicationStep /\ UNCHANGED authority
    \/ (\E granted \in BOOLEAN : Reconfigured(granted)) /\ UNCHANGED publicationVars

PublicationSpec ==
    AuthorityInit /\ PublicationInit /\ [][PublicationNext]_<<authority, publicationVars>>

-----------------------------------------------------------------------------
(* A publication keeps the promise of a durable remote effect: it is done   *)
(* at most once, whoever executes, loses or reconciles it, and it is called *)
(* succeeded only if the remote took it ("a persistent sending cannot be    *)
(* claimed a second time", docs/channels.md).                               *)
PublicationBelief(p) ==
    CASE publication[p].status \in {"absent", "prepared"} -> "unsent"
      [] publication[p].status = "sending" -> "sending"
      [] publication[p].status = "unknown" -> "unknown"
      [] OTHER -> "done"

Effects == INSTANCE Notice WITH
    Messages <- Publications,
    belief <- [p \in Publications |-> PublicationBelief(p)],
    copies <- published

PublicationsKeepPromise == Effects!Spec
=============================================================================
