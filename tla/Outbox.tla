------------------------------- MODULE Outbox -------------------------------
(***************************************************************************)
(* The notification outbox: the rows of harness/channel_ops.py and the     *)
(* senders that work on them (channels/service.py deliver_one, run by the  *)
(* host's channel lane and by every embedding that calls deliver).  One    *)
(* source, one audience and its Thread.                                    *)
(*                                                                         *)
(* A row is identified by its summary, so the same news is queued once.    *)
(* What a sender knows is its claim: owner and generation of the row when  *)
(* it claimed it.  It posts outside of any transaction, and may crash, be  *)
(* suspended past its lease, or lose the provider's answer.                *)
(***************************************************************************)
EXTENDS ChannelAuthority, FiniteSets

CONSTANTS
    Facts,        \* what the canonical facts of the Thread may say
    AboutTurn,    \* the head Turn in each of them
    NewsWorthy,   \* those that collect_notifications reports by itself
    Queries,      \* native identities of status requests
    NoQuery,
    Senders, NoSender,
    MaxAttempts   \* max_attempts of a row

ASSUME OutboxConstants ==
    /\ Facts # {}
    /\ NewsWorthy \subseteq Facts
    /\ NoQuery \notin Queries
    /\ NoSender \notin Senders
    /\ MaxAttempts \in Nat \ {0}

VARIABLES
    facts,     \* the canonical facts as a reader sees them now
    outbox,    \* the outbox rows
    sender,    \* the local state of each sender
    posted     \* external: copies of each message the provider accepted

outboxVars == <<outbox, sender, posted>>
allOutboxVars == <<facts, authority, outbox, sender, posted>>

Summary == [facts : Facts, query : Queries \cup {NoQuery}]

RowStatus == {"absent", "pending", "claimed", "sending", "acknowledged",
              "uncertain", "blocked", "abandoned"}

Row == [status : RowStatus,
        place : Nat,                      \* rowid
        owner : Senders \cup {NoSender},
        generation : Nat,
        attempt : Nat,
        revision : Nat,                   \* authority the row was queued under
        leased : BOOLEAN,                 \* lease_expires_at is in the future
        due : BOOLEAN,                    \* available_at is past
        late : BOOLEAN]                   \* deadline is past

NoRow == [status |-> "absent", place |-> 0, owner |-> NoSender, generation |-> 0, attempt |-> 0,
          revision |-> 0, leased |-> FALSE, due |-> TRUE, late |-> FALSE]

Outcome == {"acknowledged", "unsent", "uncertain", "blocked"}

SenderState == [at : {"idle", "claimed", "preflight", "posting", "answered"},
                summary : Summary, generation : Nat, outcome : Outcome \cup {"none"}]

Idle == [at |-> "idle", summary |-> CHOOSE k \in Summary : TRUE, generation |-> 0, outcome |-> "none"]

OutboxTypeOK ==
    /\ facts \in Facts
    /\ AuthorityTypeOK
    /\ outbox \in [Summary -> Row]
    /\ sender \in [Senders -> SenderState]
    /\ posted \in [Summary -> Nat]

OutboxInit ==
    /\ AuthorityInit
    /\ outbox = [k \in Summary |-> NoRow]
    /\ sender = [s \in Senders |-> Idle]
    /\ posted = [k \in Summary |-> 0]

-----------------------------------------------------------------------------
(* Authority and facts, read again wherever a row moves towards its sending *)

Authorized(row) == Allows(row.revision)
StillTrue(k) == k.facts = facts
Exhausted(row) == row.late \/ row.attempt >= MaxAttempts

-----------------------------------------------------------------------------
(* Queueing *)

Present == {k \in Summary : outbox[k].status # "absent"}

(* Waiting rows about older facts of the same Turn are merged away.         *)
Superseded(k) ==
    {j \in Present : /\ k.query = NoQuery /\ j.query = NoQuery
                     /\ outbox[j].status = "pending"
                     /\ AboutTurn[j.facts] = AboutTurn[k.facts]}

(* A summary that was queued before is returned as it is, whatever became   *)
(* of it.                                                                   *)
Enqueue(k) ==
    /\ authority.granted
    /\ outbox' =
         IF k \in Present THEN outbox
         ELSE [j \in Summary |->
                 IF j = k THEN [NoRow EXCEPT !.status = "pending",
                                             !.place = Cardinality(Present) + 1,
                                             !.revision = authority.revision]
                 ELSE IF j \in Superseded(k) THEN [outbox[j] EXCEPT !.status = "abandoned"]
                 ELSE outbox[j]]
    /\ UNCHANGED <<sender, posted>>

Collect == facts \in NewsWorthy /\ Enqueue([facts |-> facts, query |-> NoQuery])

(* receive: a status request; its native identity is answered once.         *)
Ask(q) ==
    /\ \A k \in Present : k.query # q
    /\ Enqueue([facts |-> facts, query |-> q])

-----------------------------------------------------------------------------
(* Claiming *)

(* Broken: an expired send is taken for one that never happened.            *)
ReclaimedAsUnsent(row) ==
    IF row.leased \/ row.status \notin {"claimed", "sending"} THEN row
    ELSE [row EXCEPT !.owner = NoSender, !.status = "pending"]

(* Broken: only a send that was begun is looked at.                         *)
ReclaimedIfSent(row) ==
    IF row.leased \/ row.status # "sending" THEN row
    ELSE [row EXCEPT !.owner = NoSender, !.status = "uncertain"]

(* A row whose lease ran out: nobody posted it, or nobody knows.            *)
Reclaimed(row) ==
    IF row.leased \/ row.status \notin {"claimed", "sending"} THEN row
    ELSE [row EXCEPT !.owner = NoSender,
                     !.status = IF row.status = "sending" THEN "uncertain" ELSE "pending"]

(* What the scan makes of a row it passes.                                  *)
Examined(k) ==
    LET row == Reclaimed(outbox[k]) IN
    IF row.status = "pending" /\ (~Authorized(row) \/ ~StillTrue(k) \/ Exhausted(row))
    THEN [row EXCEPT !.status = "blocked"]
    ELSE row

Claimable(k) == Examined(k).status = "pending" /\ outbox[k].due
Before(j, k) == outbox[j].place < outbox[k].place

(* claim_notification: the first claimable row, all before it examined.     *)
Claim(s) ==
    /\ sender[s].at = "idle"
    /\ \E k \in Summary :
        /\ Claimable(k) /\ \A j \in Summary : Before(j, k) => ~Claimable(j)
        /\ outbox' = [j \in Summary |->
                         IF j = k THEN [Examined(k) EXCEPT !.status = "claimed", !.owner = s,
                                                           !.generation = @ + 1, !.leased = TRUE]
                         ELSE IF Before(j, k) THEN Examined(j) ELSE outbox[j]]
        /\ sender' = [sender EXCEPT ![s] = [at |-> "claimed", summary |-> k,
                                            generation |-> outbox[k].generation + 1,
                                            outcome |-> "none"]]
    /\ UNCHANGED posted

(* Nothing to claim: every row is examined all the same.                    *)
ScanIdle(s) ==
    /\ sender[s].at = "idle"
    /\ \A k \in Summary : ~Claimable(k)
    /\ outbox' = [k \in Summary |-> Examined(k)]
    /\ UNCHANGED <<sender, posted>>

-----------------------------------------------------------------------------
(* Sending *)

At(s, p) == sender[s].at = p
RowOf(s) == outbox[sender[s].summary]
Move(s, p, outcome) == sender' = [sender EXCEPT ![s].at = p, ![s].outcome = outcome]
Leave(s) == sender' = [sender EXCEPT ![s] = Idle]
Write(s, row) == outbox' = [outbox EXCEPT ![sender[s].summary] = row]

(* _current_notification: the row is still held under this claim.           *)
Holds(s) ==
    /\ RowOf(s).status \in {"claimed", "sending"}
    /\ RowOf(s).owner = s /\ RowOf(s).generation = sender[s].generation

(* begin_send; a sender that runs out of time while it commits never learns *)
(* that the row is now sending.                                             *)
BeginSend(s) ==
    /\ At(s, "claimed")
    /\ Holds(s) /\ RowOf(s).status = "claimed" /\ RowOf(s).leased /\ ~RowOf(s).late
    /\ Authorized(RowOf(s)) /\ StillTrue(sender[s].summary)
    /\ Write(s, [RowOf(s) EXCEPT !.status = "sending", !.attempt = @ + 1])
    /\ Move(s, "posting", "none") \/ Leave(s)
    /\ UNCHANGED posted

(* The claim is gone, expired or too late: the lane reports and goes on.    *)
DispatchExpired(s) ==
    /\ At(s, "claimed")
    /\ ~Holds(s) \/ RowOf(s).status # "claimed" \/ ~RowOf(s).leased \/ RowOf(s).late
    /\ Leave(s)
    /\ UNCHANGED <<outbox, posted>>

(* The provider refused a token, could not be reached, or the last check of *)
(* authority and facts failed: nothing was sent.                            *)
PreflightFails(s) ==
    /\ At(s, "claimed")
    /\ \E outcome \in {"unsent", "blocked"} : Move(s, "preflight", outcome)
    /\ UNCHANGED <<outbox, posted>>

(* finish_send for a row that is sending.  An unsent message waits for its  *)
(* backoff, which may reach past the deadline.                              *)
Finished(row, outcome) ==
    IF outcome # "unsent" THEN {[row EXCEPT !.status = outcome, !.owner = NoSender]}
    ELSE {[row EXCEPT !.status = "blocked", !.owner = NoSender, !.due = FALSE]} \cup
         (IF Exhausted(row) THEN {}
          ELSE {[row EXCEPT !.status = "pending", !.owner = NoSender, !.due = FALSE]})

FinishPreflight(s) ==
    /\ At(s, "preflight")
    /\ IF Holds(s) /\ RowOf(s).status = "claimed"
       THEN \E row \in Finished([RowOf(s) EXCEPT !.attempt = @ + 1], sender[s].outcome) : Write(s, row)
       ELSE UNCHANGED outbox
    /\ Leave(s)
    /\ UNCHANGED posted

(* The final write.  Its answer may be lost, whether or not it was accepted.*)
Post(s) ==
    /\ At(s, "posting")
    /\ \/ /\ posted' = [posted EXCEPT ![sender[s].summary] = @ + 1]
          /\ \E outcome \in {"acknowledged", "uncertain"} : Move(s, "answered", outcome)
       \/ /\ UNCHANGED posted
          /\ \E outcome \in {"unsent", "blocked", "uncertain"} : Move(s, "answered", outcome)
    /\ UNCHANGED outbox

FinishSend(s) ==
    /\ At(s, "answered")
    /\ IF Holds(s) /\ RowOf(s).status = "sending"
       THEN \E row \in Finished(RowOf(s), sender[s].outcome) : Write(s, row)
       ELSE UNCHANGED outbox
    /\ Leave(s)
    /\ UNCHANGED posted

(* The process ends; what it held stays in the row.                         *)
SenderCrash(s) ==
    /\ ~At(s, "idle")
    /\ Leave(s)
    /\ UNCHANGED <<outbox, posted>>

-----------------------------------------------------------------------------
(* Time *)

SetRow(k, row) == outbox' = [outbox EXCEPT ![k] = row] /\ UNCHANGED <<sender, posted>>

(* A sender finishes well within its lease (90 s against at most 60 s for a *)
(* send), unless it died or its process was suspended.                      *)
Working(k) ==
    \E s \in Senders : /\ sender[s].at # "idle" /\ sender[s].summary = k
                       /\ sender[s].generation = outbox[k].generation

LeaseEnds(k) ==
    /\ outbox[k].status \in {"claimed", "sending"} /\ outbox[k].leased
    /\ SetRow(k, [outbox[k] EXCEPT !.leased = FALSE])

BackoffEnds(k) == ~outbox[k].due /\ SetRow(k, [outbox[k] EXCEPT !.due = TRUE])

DeadlinePasses(k) ==
    /\ k \in Present /\ ~outbox[k].late
    /\ SetRow(k, [outbox[k] EXCEPT !.late = TRUE])

-----------------------------------------------------------------------------
(* What the operator may do (channel outbox ID ...) *)

(* Broken: an uncertain row can be sent again.                              *)
RetriableUncertain(k) == outbox[k].status \in {"blocked", "pending", "uncertain"}

Retriable(k) == outbox[k].status \in {"blocked", "pending"}

RetryNotification(k) ==
    /\ Retriable(k)
    /\ Authorized(outbox[k]) /\ StillTrue(k) /\ ~Exhausted(outbox[k])
    /\ SetRow(k, [outbox[k] EXCEPT !.status = "pending", !.due = TRUE])

(* The row moves under the current revisions and is retried with them.      *)
Reauthorize(k) ==
    /\ Retriable(k)
    /\ authority.granted /\ StillTrue(k) /\ ~Exhausted(outbox[k])
    /\ SetRow(k, [outbox[k] EXCEPT !.status = "pending", !.due = TRUE,
                                   !.revision = authority.revision])

Abandon(k) ==
    /\ outbox[k].status \in {"pending", "uncertain", "blocked", "abandoned"}
    /\ SetRow(k, [outbox[k] EXCEPT !.status = "abandoned"])

(* Only the provider's own record of the message settles an unknown send.   *)
Reconcile(k) ==
    /\ outbox[k].status = "uncertain" /\ Authorized(outbox[k])
    /\ posted[k] > 0
    /\ SetRow(k, [outbox[k] EXCEPT !.status = "acknowledged"])

-----------------------------------------------------------------------------
TakeStep(s) == Claim(s) \/ ScanIdle(s)

SendStep(s) ==
    \/ BeginSend(s) \/ DispatchExpired(s) \/ PreflightFails(s) \/ FinishPreflight(s)
    \/ Post(s) \/ FinishSend(s)

TimeStep(k) == LeaseEnds(k) \/ BackoffEnds(k) \/ DeadlinePasses(k)

OperatorStep(k) == RetryNotification(k) \/ Reauthorize(k) \/ Abandon(k) \/ Reconcile(k)

OutboxStep ==
    \/ Collect \/ \E q \in Queries : Ask(q)
    \/ \E s \in Senders : TakeStep(s) \/ SendStep(s) \/ SenderCrash(s)
    \/ \E k \in Summary : TimeStep(k) \/ OperatorStep(k)

(* Facts and authority change by themselves.                                *)
FactsChange == facts' \in Facts /\ UNCHANGED authority
AuthorityChanges == (\E granted \in BOOLEAN : Reconfigured(granted)) /\ UNCHANGED facts

OutboxNext ==
    \/ OutboxStep /\ UNCHANGED <<facts, authority>>
    \/ (FactsChange \/ AuthorityChanges) /\ UNCHANGED outboxVars

OutboxSpec == facts \in Facts /\ OutboxInit /\ [][OutboxNext]_allOutboxVars

-----------------------------------------------------------------------------
(* What the outbox promises *)

(* The status of a row is the truth about its message, however many senders *)
(* claim, lose or retry the row: what may still be sent was never accepted, *)
(* what is acknowledged was, and nothing was accepted twice (claim, finish, *)
(* retry and reconcile of channel_ops.py).                                  *)
Unsent == {"absent", "pending", "claimed", "blocked"}
StatusIsTruth ==
    \A k \in Summary :
        /\ posted[k] <= 1
        /\ outbox[k].status \in Unsent => posted[k] = 0
        /\ outbox[k].status = "acknowledged" => posted[k] = 1

(* Every row keeps the promise of a durable remote effect (Notice).         *)
RowBelief(k) ==
    CASE outbox[k].status \in Unsent -> "unsent"
      [] outbox[k].status = "sending" -> "sending"
      [] outbox[k].status = "uncertain" -> "unknown"
      [] outbox[k].status = "acknowledged" -> "done"
      [] OTHER -> "dropped"

Rows == INSTANCE Notice WITH
    Messages <- Summary, belief <- [k \in Summary |-> RowBelief(k)], copies <- posted

RowsKeepPromise == Rows!Spec

(* A row that somebody is still to do something about.                      *)
Waiting(k) == outbox[k].status \in {"pending", "claimed", "sending"}
=============================================================================
