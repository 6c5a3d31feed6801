-------------------------- MODULE ChannelAuthority --------------------------
(***************************************************************************)
(* What the local operator has configured for one audience: the source,    *)
(* the binding and the grant of harness/channel_ops.py.  Each change       *)
(* raises a revision, and whatever was queued, watched or prepared under   *)
(* an earlier revision is no longer authorized.                            *)
(***************************************************************************)
EXTENDS Naturals

VARIABLE
    authority  \* the revisions as one number, and whether the grant stands

AuthorityTypeOK == authority \in [revision : Nat, granted : BOOLEAN]

AuthorityInit == authority = [revision |-> 0, granted |-> TRUE]

(* authorize, with the revision a fact was recorded under.                  *)
Allows(revision) == authority.granted /\ authority.revision = revision

(* configure_source, bind, set_grant.                                       *)
Reconfigured(granted) ==
    authority' = [revision |-> authority.revision + 1, granted |-> granted]
=============================================================================
