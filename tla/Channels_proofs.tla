---------------------------- MODULE Channels_proofs ----------------------------
(***************************************************************************)
(* What the channels of a Thread promise, for any numbers of facts,        *)
(* queries, senders, publications, executors, checks, runs, reviews and    *)
(* commits.  The outbox tells the truth about its messages and keeps the   *)
(* promise of a durable remote effect; so does a publication; a CI         *)
(* subscription reports a pass only when it was earned and loses no news   *)
(* to a poll.  Together, under one authority, they are still these three.  *)
(***************************************************************************)
EXTENDS MCChannels, FiniteSetTheorems, TLAPS

OnItsWay(s, k) == sender[s].at \in {"posting", "answered"} /\ sender[s].summary = k

(* What a sender knows of its row.  Before it posts, nothing was accepted;  *)
(* the row may be given up behind its back but never offered again; an      *)
(* answer is the truth.                                                     *)
KnowsItsMessage(s) ==
    LET e == sender[s]
        status == outbox[e.summary].status
        copies == posted[e.summary]
    IN  /\ e.at = "preflight" => e.outcome \in {"unsent", "blocked"}
        /\ e.at = "posting" => status \in {"sending", "uncertain", "abandoned"} /\ copies = 0
        /\ e.at = "answered" =>
             /\ status \in {"sending", "uncertain", "abandoned", "acknowledged"}
             /\ e.outcome \in Outcome
             /\ e.outcome \in {"unsent", "blocked"} => copies = 0
             /\ e.outcome = "acknowledged" => copies = 1

(* The inductive invariant: with what senders know, a message has at most   *)
(* one sender on its way, whatever leases have run out.                     *)
OutboxInv ==
    /\ OutboxTypeOK
    /\ IsFiniteSet(Present)
    /\ StatusIsTruth
    /\ \A s \in Senders : KnowsItsMessage(s)
    /\ \A s, t \in Senders, k \in Summary : OnItsWay(s, k) /\ OnItsWay(t, k) => s = t

-----------------------------------------------------------------------------
(* Types *)

LEMMA IdleIsTyped == Idle \in SenderState /\ Idle.at = "idle"
  <1>1. PICK f \in Facts : TRUE
    BY OutboxConstants
  <1>2. [facts |-> f, query |-> NoQuery] \in Summary
    BY DEF Summary
  <1>3. (CHOOSE k \in Summary : TRUE) \in Summary
    BY <1>2
  <1> QED
    BY <1>3 DEF Idle, SenderState

LEMMA NoRowIsTyped == NoRow \in Row /\ NoRow.status = "absent"
  BY DEF NoRow, Row, RowStatus

LEMMA SummaryParts == ASSUME NEW k \in Summary PROVE k.facts \in Facts /\ k.query \in Queries \cup {NoQuery}
  BY DEF Summary

(* What may become of a row without its sender: it stays on its side of the *)
(* sending, or the sending is given up as unknown.                          *)
Drifted(before, after) ==
    \/ after = before
    \/ before \in Unsent /\ after \in Unsent \cup {"abandoned"}
    \/ before = "sending" /\ after = "uncertain"

LEMMA ReclaimedDrifts ==
    ASSUME NEW row \in Row
    PROVE  /\ Reclaimed(row) \in Row
           /\ Drifted(row.status, Reclaimed(row).status)
           /\ Reclaimed(row).status = "absent" <=> row.status = "absent"
  BY DEF Reclaimed, Drifted, Row, RowStatus, Unsent

LEMMA ExaminedDrifts ==
    ASSUME NEW k \in Summary, outbox[k] \in Row
    PROVE  /\ Examined(k) \in Row
           /\ Drifted(outbox[k].status, Examined(k).status)
           /\ outbox[k].status = "absent" => Examined(k).status = "absent"
           /\ Examined(k).status = "pending" => outbox[k].status \in Unsent \ {"absent"}
  <1>1. /\ Reclaimed(outbox[k]) \in Row
        /\ Drifted(outbox[k].status, Reclaimed(outbox[k]).status)
        /\ Reclaimed(outbox[k]).status = "absent" <=> outbox[k].status = "absent"
    BY ReclaimedDrifts
  <1>2. Examined(k) \in {Reclaimed(outbox[k])} \cup {[Reclaimed(outbox[k]) EXCEPT !.status = "blocked"]}
    BY DEF Examined
  <1>3. Reclaimed(outbox[k]).status # "pending" => Examined(k) = Reclaimed(outbox[k])
    BY DEF Examined
  <1>4. [Reclaimed(outbox[k]) EXCEPT !.status = "blocked"] \in Row
    BY <1>1 DEF Row, RowStatus
  <1>5. [Reclaimed(outbox[k]) EXCEPT !.status = "blocked"].status = "blocked"
    BY <1>1 DEF Row
  <1> QED
    BY <1>1, <1>2, <1>3, <1>4, <1>5 DEF Drifted, Unsent

LEMMA FinishedIsTyped ==
    ASSUME NEW row \in Row, NEW outcome \in Outcome, NEW after \in Finished(row, outcome)
    PROVE  /\ after \in Row
           /\ after.status \in (IF outcome = "unsent" THEN {"pending", "blocked"} ELSE {outcome})
  <1> DEFINE ended(status) == [row EXCEPT !.status = status, !.owner = NoSender]
             later(status) == [row EXCEPT !.status = status, !.owner = NoSender, !.due = FALSE]
  <1>1. \A status \in RowStatus :
          /\ ended(status) \in Row /\ ended(status).status = status
          /\ later(status) \in Row /\ later(status).status = status
    <2> SUFFICES ASSUME NEW status \in RowStatus
                 PROVE  /\ ended(status) \in Row /\ ended(status).status = status
                        /\ later(status) \in Row /\ later(status).status = status
      OBVIOUS
    <2>1. ended(status) \in Row /\ ended(status).status = status
      BY DEF Row
    <2>2. later(status) \in Row /\ later(status).status = status
      BY DEF Row
    <2> QED
      BY <2>1, <2>2
  <1>2. CASE outcome # "unsent"
    <2>1. after = ended(outcome)
      BY <1>2 DEF Finished
    <2> QED
      BY <1>1, <1>2, <2>1 DEF RowStatus, Outcome
  <1>3. CASE outcome = "unsent"
    <2>1. after \in {later("blocked"), later("pending")}
      BY <1>3 DEF Finished
    <2>2. "blocked" \in RowStatus /\ "pending" \in RowStatus
      BY DEF RowStatus
    <2> HIDE DEF later
    <2> QED
      BY <1>1, <1>3, <2>1, <2>2
  <1> QED
    BY <1>2, <1>3

-----------------------------------------------------------------------------
(* Drifting keeps the invariant, whatever senders do short of sending.      *)
RowDrifts(k) ==
    \/ Drifted(outbox[k].status, outbox'[k].status)
    \/ outbox[k].status = "uncertain" /\ outbox'[k].status = "abandoned"
    \/ outbox[k].status = "uncertain" /\ outbox'[k].status = "acknowledged" /\ posted[k] = 1

Unsending(s) ==
    \/ sender'[s] = sender[s]
    \/ sender'[s].at \in {"idle", "claimed"}
    \/ sender'[s].at = "preflight" /\ sender'[s].outcome \in {"unsent", "blocked"}

LEMMA DriftingKeepsInv ==
    ASSUME OutboxInv, OutboxTypeOK', posted' = posted,
           \A k \in Summary : RowDrifts(k),
           \A s \in Senders : Unsending(s),
           NEW new \in Summary, \A k \in Summary \ {new} : outbox[k].status = "absent" => outbox'[k].status = "absent"
    PROVE  OutboxInv'
  <1>1. IsFiniteSet(Present')
    <2>1. Present' \subseteq Present \cup {new}
      BY DEF Present
    <2>2. IsFiniteSet(Present \cup {new})
      BY FS_AddElement DEF OutboxInv
    <2> QED
      BY <2>1, <2>2, FS_Subset
  <1>2. StatusIsTruth'
    BY DEF OutboxInv, StatusIsTruth, RowDrifts, Drifted, Unsent
  <1>3. \A s \in Senders : KnowsItsMessage(s)'
    <2> SUFFICES ASSUME NEW s \in Senders PROVE KnowsItsMessage(s)'
      OBVIOUS
    <2>1. CASE sender'[s].at \in {"idle", "claimed", "preflight"} /\ sender'[s] # sender[s]
      BY <2>1 DEF Unsending, KnowsItsMessage
    <2>2. CASE sender'[s] = sender[s]
      <3>1. sender[s].summary \in Summary
        BY DEF OutboxInv, OutboxTypeOK, SenderState
      <3>2. RowDrifts(sender[s].summary)
        BY <3>1
      <3>3. KnowsItsMessage(s)
        BY DEF OutboxInv
      <3> QED
        BY <2>2, <3>2, <3>3 DEF KnowsItsMessage, RowDrifts, Drifted, Unsent
    <2> QED
      BY <2>1, <2>2 DEF Unsending
  <1>4. \A s, t \in Senders, k \in Summary : (OnItsWay(s, k) /\ OnItsWay(t, k))' => s = t
    <2>1. \A s \in Senders, k \in Summary : OnItsWay(s, k)' => OnItsWay(s, k)
      BY DEF OnItsWay, Unsending
    <2> QED
      BY <2>1 DEF OutboxInv
  <1> QED
    BY <1>1, <1>2, <1>3, <1>4 DEF OutboxInv

-----------------------------------------------------------------------------
(* The steps *)

(* One row drifts; the senders stay where they are.                         *)
LEMMA SetRowKeepsInv ==
    ASSUME OutboxInv, UNCHANGED <<facts, authority>>, NEW k \in Summary, NEW row \in Row, SetRow(k, row),
           \/ Drifted(outbox[k].status, row.status)
           \/ outbox[k].status = "uncertain" /\ row.status = "abandoned"
           \/ outbox[k].status = "uncertain" /\ row.status = "acknowledged" /\ posted[k] = 1
    PROVE  OutboxInv' /\ posted' = posted /\ \A j \in Summary : RowDrifts(j)
  <1>t. outbox \in [Summary -> Row]
    BY DEF OutboxInv, OutboxTypeOK
  <1>1. /\ outbox' = [outbox EXCEPT ![k] = row]
        /\ UNCHANGED <<sender, posted>>
    BY DEF SetRow
  <1>2. OutboxTypeOK'
    BY <1>1, <1>t DEF OutboxInv, OutboxTypeOK, AuthorityTypeOK
  <1>3. \A j \in Summary : RowDrifts(j)
    BY <1>1, <1>t DEF RowDrifts, Drifted
  <1>4. \A s \in Senders : Unsending(s)
    BY <1>1 DEF Unsending
  <1>5. \A j \in Summary \ {k} : outbox[j].status = "absent" => outbox'[j].status = "absent"
    BY <1>1, <1>t
  <1> QED
    BY <1>1, <1>2, <1>3, <1>4, <1>5, DriftingKeepsInv

LEMMA TimeAndOperatorKeepInv ==
    ASSUME OutboxInv, UNCHANGED <<facts, authority>>, NEW k \in Summary, TimeStep(k) \/ OperatorStep(k)
    PROVE  OutboxInv' /\ posted' = posted /\ \A j \in Summary : RowDrifts(j)
  <1> DEFINE row == outbox[k]
  <1>t. row \in Row /\ authority.revision \in Nat /\ posted[k] \in Nat /\ posted[k] <= 1
    BY DEF OutboxInv, OutboxTypeOK, AuthorityTypeOK, StatusIsTruth
  <1>1. CASE LeaseEnds(k)
    <2>1. [row EXCEPT !.leased = FALSE] \in Row /\ [row EXCEPT !.leased = FALSE].status = row.status
      BY <1>t DEF Row
    <2> QED
      BY <1>1, <2>1, SetRowKeepsInv DEF LeaseEnds, Drifted
  <1>2. CASE BackoffEnds(k)
    <2>1. [row EXCEPT !.due = TRUE] \in Row /\ [row EXCEPT !.due = TRUE].status = row.status
      BY <1>t DEF Row
    <2> QED
      BY <1>2, <2>1, SetRowKeepsInv DEF BackoffEnds, Drifted
  <1>3. CASE DeadlinePasses(k)
    <2>1. [row EXCEPT !.late = TRUE] \in Row /\ [row EXCEPT !.late = TRUE].status = row.status
      BY <1>t DEF Row
    <2> QED
      BY <1>3, <2>1, SetRowKeepsInv DEF DeadlinePasses, Drifted
  <1>4. CASE RetryNotification(k)
    <2> DEFINE after == [row EXCEPT !.status = "pending", !.due = TRUE]
    <2>1. after \in Row /\ after.status = "pending"
      BY <1>t DEF Row, RowStatus
    <2>2. SetRow(k, after) /\ Drifted(row.status, after.status)
      BY <1>4, <2>1 DEF RetryNotification, Retriable, Drifted, Unsent
    <2> QED
      BY <2>1, <2>2, SetRowKeepsInv
  <1>5. CASE Reauthorize(k)
    <2> DEFINE after == [row EXCEPT !.status = "pending", !.due = TRUE, !.revision = authority.revision]
    <2>1. after \in Row /\ after.status = "pending"
      BY <1>t DEF Row, RowStatus
    <2>2. SetRow(k, after) /\ Drifted(row.status, after.status)
      BY <1>5, <2>1 DEF Reauthorize, Retriable, Drifted, Unsent
    <2> QED
      BY <2>1, <2>2, SetRowKeepsInv
  <1>6. CASE Abandon(k)
    <2> DEFINE after == [row EXCEPT !.status = "abandoned"]
    <2>1. after \in Row /\ after.status = "abandoned"
      BY <1>t DEF Row, RowStatus
    <2>2. SetRow(k, after) /\ row.status \in {"pending", "uncertain", "blocked", "abandoned"}
      BY <1>6 DEF Abandon
    <2> QED
      BY <2>1, <2>2, SetRowKeepsInv DEF Drifted, Unsent
  <1>7. CASE Reconcile(k)
    <2> DEFINE after == [row EXCEPT !.status = "acknowledged"]
    <2>1. after \in Row /\ after.status = "acknowledged"
      BY <1>t DEF Row, RowStatus
    <2>2. SetRow(k, after) /\ row.status = "uncertain" /\ posted[k] = 1
      BY <1>7, <1>t DEF Reconcile
    <2> QED
      BY <2>1, <2>2, SetRowKeepsInv
  <1> QED
    BY <1>1, <1>2, <1>3, <1>4, <1>5, <1>6, <1>7 DEF TimeStep, OperatorStep

LEMMA EnqueueKeepsInv ==
    ASSUME OutboxInv, UNCHANGED <<facts, authority>>, NEW k \in Summary, Enqueue(k)
    PROVE  OutboxInv' /\ posted' = posted /\ \A j \in Summary : RowDrifts(j)
  <1> DEFINE new == [NoRow EXCEPT !.status = "pending", !.place = Cardinality(Present) + 1,
                                  !.revision = authority.revision]
             merged(j) == [outbox[j] EXCEPT !.status = "abandoned"]
  <1>t. outbox \in [Summary -> Row] /\ authority.revision \in Nat /\ Cardinality(Present) \in Nat
    BY FS_CardinalityType DEF OutboxInv, OutboxTypeOK, AuthorityTypeOK
  <1>1. new \in Row /\ new.status = "pending"
    <2>1. ASSUME NEW place \in Nat, NEW revision \in Nat
          PROVE  LET row == [NoRow EXCEPT !.status = "pending", !.place = place, !.revision = revision]
                 IN  row \in Row /\ row.status = "pending"
      BY NoRowIsTyped DEF Row, RowStatus
    <2>2. Cardinality(Present) + 1 \in Nat
      BY <1>t
    <2> QED
      BY <1>t, <2>1, <2>2
  <1>2. \A j \in Summary : merged(j) \in Row /\ merged(j).status = "abandoned"
    BY <1>t DEF Row, RowStatus
  <1>3. UNCHANGED <<sender, posted>>
    BY DEF Enqueue
  <1>4. \A j \in Summary :
          \/ outbox'[j] = outbox[j]
          \/ j = k /\ outbox[j].status = "absent" /\ outbox'[j] = new
          \/ outbox[j].status = "pending" /\ outbox'[j] = merged(j)
    <2> SUFFICES ASSUME NEW j \in Summary
                 PROVE  \/ outbox'[j] = outbox[j]
                        \/ j = k /\ outbox[j].status = "absent" /\ outbox'[j] = new
                        \/ outbox[j].status = "pending" /\ outbox'[j] = merged(j)
      OBVIOUS
    <2>1. CASE k \in Present
      BY <2>1 DEF Enqueue
    <2>2. CASE k \notin Present
      <3>1. outbox'[j] = IF j = k THEN new ELSE IF j \in Superseded(k) THEN merged(j) ELSE outbox[j]
        BY <2>2 DEF Enqueue
      <3>2. j \in Superseded(k) => outbox[j].status = "pending"
        BY DEF Superseded
      <3> QED
        BY <2>2, <3>1, <3>2 DEF Present
    <2> QED
      BY <2>1, <2>2
  <1>5. outbox' \in [Summary -> Row]
    <2>1. outbox' = [j \in Summary |-> outbox'[j]]
      BY <1>t DEF Enqueue
    <2> QED
      BY <1>1, <1>2, <1>4, <1>t, <2>1
  <1>6. OutboxTypeOK'
    BY <1>3, <1>5 DEF OutboxInv, OutboxTypeOK, AuthorityTypeOK
  <1>7. \A j \in Summary : RowDrifts(j)
    BY <1>1, <1>2, <1>4 DEF RowDrifts, Drifted, Unsent
  <1>8. \A s \in Senders : Unsending(s)
    BY <1>3 DEF Unsending
  <1>9. \A j \in Summary \ {k} : outbox[j].status = "absent" => outbox'[j].status = "absent"
    BY <1>4
  <1> QED
    BY <1>3, <1>6, <1>7, <1>8, <1>9, DriftingKeepsInv

(* What the scan writes: rows as examined, but for the one it claims.       *)
LEMMA TakeKeepsInv ==
    ASSUME OutboxInv, UNCHANGED <<facts, authority>>, NEW s \in Senders, TakeStep(s)
    PROVE  OutboxInv' /\ posted' = posted /\ \A j \in Summary : RowDrifts(j)
  <1>t. outbox \in [Summary -> Row] /\ sender \in [Senders -> SenderState]
    BY DEF OutboxInv, OutboxTypeOK
  <1>e. \A j \in Summary :
          /\ Examined(j) \in Row
          /\ Drifted(outbox[j].status, Examined(j).status)
          /\ outbox[j].status = "absent" => Examined(j).status = "absent"
    BY <1>t, ExaminedDrifts
  <1>1. CASE ScanIdle(s)
    <2>1. outbox' \in [Summary -> Row] /\ UNCHANGED <<sender, posted>>
      BY <1>1, <1>e DEF ScanIdle
    <2>2. OutboxTypeOK'
      BY <2>1 DEF OutboxInv, OutboxTypeOK, AuthorityTypeOK
    <2>3. \A j \in Summary : outbox'[j] = Examined(j)
      BY <1>1 DEF ScanIdle
    <2>4. \A j \in Summary : RowDrifts(j)
      BY <1>e, <2>3 DEF RowDrifts
    <2>5. \A t \in Senders : Unsending(t)
      BY <2>1 DEF Unsending
    <2>6. PICK k \in Summary : TRUE
      BY <1>t, IdleIsTyped DEF SenderState
    <2>7. \A j \in Summary \ {k} : outbox[j].status = "absent" => outbox'[j].status = "absent"
      BY <1>e, <2>3
    <2> QED
      BY <2>1, <2>2, <2>4, <2>5, <2>7, DriftingKeepsInv
  <1>2. CASE Claim(s)
    <2>1. PICK k \in Summary :
            /\ Claimable(k)
            /\ outbox' =
                 [j \in Summary |->
                    IF j = k THEN [Examined(k) EXCEPT !.status = "claimed", !.owner = s,
                                                      !.generation = @ + 1, !.leased = TRUE]
                    ELSE IF Before(j, k) THEN Examined(j) ELSE outbox[j]]
            /\ sender' = [sender EXCEPT ![s] = [at |-> "claimed", summary |-> k,
                                                generation |-> outbox[k].generation + 1,
                                                outcome |-> "none"]]
      BY <1>2 DEF Claim
    <2> DEFINE held == [Examined(k) EXCEPT !.status = "claimed", !.owner = s,
                                           !.generation = @ + 1, !.leased = TRUE]
    <2>2. held \in Row /\ held.status = "claimed"
      <3>1. Examined(k).generation + 1 \in Nat
        BY <1>e DEF Row
      <3>2. ASSUME NEW row \in Row, NEW generation \in Nat
            PROVE  LET after == [row EXCEPT !.status = "claimed", !.owner = s,
                                            !.generation = generation, !.leased = TRUE]
                   IN  after \in Row /\ after.status = "claimed"
        BY DEF Row, RowStatus
      <3> QED
        BY <1>e, <3>1, <3>2
    <2>3. \A j \in Summary : outbox'[j] = IF j = k THEN held ELSE IF Before(j, k) THEN Examined(j) ELSE outbox[j]
      BY <2>1
    <2>4. outbox' \in [Summary -> Row]
      BY <1>t, <1>e, <2>1, <2>2
    <2>5. outbox[k].status \in Unsent
      BY <1>t, <2>1, ExaminedDrifts DEF Claimable
    <2>6. \A j \in Summary : RowDrifts(j)
      BY <1>e, <2>2, <2>3, <2>5 DEF RowDrifts, Drifted, Unsent
    <2>7. posted' = posted
      BY <1>2 DEF Claim
    <2>8. OutboxTypeOK'
      <3>1. outbox[k].generation + 1 \in Nat
        BY <1>t DEF Row
      <3>2. sender' \in [Senders -> SenderState]
        BY <1>t, <2>1, <3>1 DEF SenderState
      <3> QED
        BY <2>4, <2>7, <3>2 DEF OutboxInv, OutboxTypeOK, AuthorityTypeOK
    <2>9. \A t \in Senders : Unsending(t)
      BY <1>t, <2>1 DEF Unsending
    <2>10. \A j \in Summary \ {k} : outbox[j].status = "absent" => outbox'[j].status = "absent"
      BY <1>e, <2>3
    <2> QED
      BY <2>6, <2>7, <2>8, <2>9, <2>10, DriftingKeepsInv
  <1> QED
    BY <1>1, <1>2 DEF TakeStep

(* A sender gives up, or hears before it posts that it may not.             *)
LEMMA LeavingKeepsInv ==
    ASSUME OutboxInv, UNCHANGED <<facts, authority>>, NEW s \in Senders,
           DispatchExpired(s) \/ SenderCrash(s) \/ PreflightFails(s)
    PROVE  OutboxInv' /\ posted' = posted /\ \A j \in Summary : RowDrifts(j)
  <1>t. outbox \in [Summary -> Row] /\ sender \in [Senders -> SenderState]
    BY DEF OutboxInv, OutboxTypeOK
  <1>1. UNCHANGED <<outbox, posted>>
    BY DEF DispatchExpired, SenderCrash, PreflightFails
  <1>2. PICK e \in SenderState :
          /\ sender' = [sender EXCEPT ![s] = e]
          /\ \/ e.at = "idle"
             \/ e.at = "preflight" /\ e.outcome \in {"unsent", "blocked"}
    <2>1. CASE PreflightFails(s)
      <3>1. PICK outcome \in {"unsent", "blocked"} :
              sender' = [sender EXCEPT ![s] = [sender[s] EXCEPT !.at = "preflight", !.outcome = outcome]]
        BY <2>1, <1>t DEF PreflightFails, Move, SenderState
      <3> DEFINE e == [sender[s] EXCEPT !.at = "preflight", !.outcome = outcome]
      <3>2. e \in SenderState /\ e.at = "preflight" /\ e.outcome = outcome
        BY <1>t DEF SenderState, Outcome
      <3> QED
        BY <3>1, <3>2
    <2>2. CASE Leave(s)
      BY <2>2, IdleIsTyped DEF Leave
    <2> QED
      BY <2>1, <2>2 DEF DispatchExpired, SenderCrash
  <1>3. OutboxTypeOK'
    BY <1>t, <1>1, <1>2 DEF OutboxInv, OutboxTypeOK, AuthorityTypeOK
  <1>4. \A j \in Summary : RowDrifts(j)
    BY <1>1 DEF RowDrifts, Drifted
  <1>5. \A t \in Senders : Unsending(t)
    BY <1>t, <1>2 DEF Unsending
  <1>6. sender[s].summary \in Summary
    BY <1>t DEF SenderState
  <1> QED
    BY <1>1, <1>3, <1>4, <1>5, <1>6, DriftingKeepsInv

-----------------------------------------------------------------------------
(* OnItsWay.  What one message does in the step: its intent is recorded, it  *)
(* goes out, or its outcome is written; no other row changes.               *)
OthersRest(k) ==
    \A j \in Summary \ {k} : outbox'[j].status = outbox[j].status /\ posted'[j] = posted[j]

Begins(k) ==
    /\ outbox[k].status = "claimed" /\ outbox'[k].status = "sending"
    /\ posted' = posted /\ OthersRest(k)

GoesOut(k) ==
    /\ outbox[k].status \in {"sending", "uncertain", "abandoned"} /\ posted[k] = 0
    /\ outbox' = outbox /\ posted' = [posted EXCEPT ![k] = 1]

Ends(k) ==
    /\ outbox[k].status = "sending" /\ posted' = posted /\ OthersRest(k)
    /\ \/ outbox'[k].status \in {"pending", "blocked"} /\ posted[k] = 0
       \/ outbox'[k].status = "acknowledged" /\ posted[k] = 1
       \/ outbox'[k].status = "uncertain"

LEMMA BeginKeepsInv ==
    ASSUME OutboxInv, UNCHANGED <<facts, authority>>, NEW s \in Senders, BeginSend(s)
    PROVE  OutboxInv' /\ Begins(sender[s].summary)
  <1> DEFINE k == sender[s].summary
             after == [outbox[k] EXCEPT !.status = "sending", !.attempt = @ + 1]
  <1>t. outbox \in [Summary -> Row] /\ sender \in [Senders -> SenderState] /\ k \in Summary
    BY DEF OutboxInv, OutboxTypeOK, SenderState
  <1>1. outbox[k].status = "claimed" /\ posted[k] = 0
    BY <1>t DEF BeginSend, RowOf, OutboxInv, StatusIsTruth, Unsent
  <1>2. after \in Row /\ after.status = "sending"
    <2>1. outbox[k].attempt + 1 \in Nat
      BY <1>t DEF Row
    <2>2. ASSUME NEW row \in Row, NEW attempt \in Nat
          PROVE  LET r == [row EXCEPT !.status = "sending", !.attempt = attempt]
                 IN  r \in Row /\ r.status = "sending"
      BY DEF Row, RowStatus
    <2> QED
      BY <1>t, <2>1, <2>2
  <1>3. outbox' = [outbox EXCEPT ![k] = after] /\ posted' = posted
    BY DEF BeginSend, Write, RowOf
  <1>4. PICK e \in SenderState :
          /\ sender' = [sender EXCEPT ![s] = e]
          /\ \/ e.at = "idle"
             \/ e.at = "posting" /\ e.summary = k
    <2>1. CASE Move(s, "posting", "none")
      <3> DEFINE e == [sender[s] EXCEPT !.at = "posting", !.outcome = "none"]
      <3>1. e \in SenderState /\ e.at = "posting" /\ e.summary = k
        BY <1>t DEF SenderState
      <3>2. sender' = [sender EXCEPT ![s] = e]
        BY <2>1, <1>t DEF Move, SenderState
      <3> QED
        BY <3>1, <3>2
    <2>2. CASE Leave(s)
      BY <2>2, IdleIsTyped DEF Leave
    <2> QED
      BY <2>1, <2>2 DEF BeginSend
  <1>5. Begins(k)
    BY <1>t, <1>1, <1>2, <1>3 DEF Begins, OthersRest
  <1>6. OutboxTypeOK'
    BY <1>t, <1>2, <1>3, <1>4 DEF OutboxInv, OutboxTypeOK, AuthorityTypeOK
  <1>7. IsFiniteSet(Present')
    <2>1. Present' = Present
      BY <1>t, <1>1, <1>2, <1>3 DEF Present
    <2> QED
      BY <2>1 DEF OutboxInv
  <1>8. StatusIsTruth'
    BY <1>t, <1>1, <1>2, <1>3 DEF OutboxInv, StatusIsTruth, Unsent
  <1>9. \A t \in Senders : ~OnItsWay(t, k)
    BY <1>1 DEF OutboxInv, KnowsItsMessage, OnItsWay
  <1>10. \A t \in Senders : KnowsItsMessage(t)'
    <2> SUFFICES ASSUME NEW t \in Senders PROVE KnowsItsMessage(t)'
      OBVIOUS
    <2>1. CASE t = s
      <3>1. sender'[s].at = "idle" \/ (sender'[s].at = "posting" /\ sender'[s].summary = k)
        BY <1>t, <1>4
      <3>2. outbox'[k].status = "sending" /\ posted'[k] = 0
        BY <1>t, <1>1, <1>2, <1>3
      <3> QED
        BY <2>1, <3>1, <3>2 DEF KnowsItsMessage
    <2>2. CASE t # s
      <3>1. sender'[t] = sender[t] /\ KnowsItsMessage(t) /\ sender[t].summary \in Summary
        BY <1>t, <1>4, <2>2 DEF OutboxInv, SenderState
      <3>2. CASE sender[t].summary = k
        BY <3>1, <3>2, <1>9 DEF KnowsItsMessage, OnItsWay
      <3>3. CASE sender[t].summary # k
        <4>1. /\ outbox'[sender[t].summary] = outbox[sender[t].summary]
              /\ posted'[sender[t].summary] = posted[sender[t].summary]
          BY <1>t, <1>3, <3>1, <3>3
        <4> QED
          BY <3>1, <4>1 DEF KnowsItsMessage
      <3> QED
        BY <3>2, <3>3
    <2> QED
      BY <2>1, <2>2
  <1>11. \A t, u \in Senders, j \in Summary : (OnItsWay(t, j) /\ OnItsWay(u, j))' => t = u
    <2>1. \A t \in Senders, j \in Summary : OnItsWay(t, j)' => OnItsWay(t, j) \/ (t = s /\ j = k)
      BY <1>t, <1>4 DEF OnItsWay
    <2> QED
      BY <2>1, <1>9 DEF OutboxInv
  <1> QED
    BY <1>5, <1>6, <1>7, <1>8, <1>10, <1>11 DEF OutboxInv

LEMMA PostKeepsInv ==
    ASSUME OutboxInv, UNCHANGED <<facts, authority>>, NEW s \in Senders, Post(s)
    PROVE  /\ OutboxInv'
           /\ outbox' = outbox
           /\ posted' = posted \/ GoesOut(sender[s].summary)
  <1> DEFINE k == sender[s].summary
  <1>t. /\ outbox \in [Summary -> Row] /\ sender \in [Senders -> SenderState] /\ k \in Summary
        /\ posted \in [Summary -> Nat]
    BY DEF OutboxInv, OutboxTypeOK, SenderState
  <1>1. /\ sender[s].at = "posting" /\ posted[k] = 0
        /\ outbox[k].status \in {"sending", "uncertain", "abandoned"}
    BY DEF Post, At, OutboxInv, KnowsItsMessage
  <1>2. outbox' = outbox
    BY DEF Post
  <1>3. PICK copies \in {0, 1}, outcome \in Outcome :
          /\ posted' = [posted EXCEPT ![k] = copies]
          /\ sender' = [sender EXCEPT ![s] = [sender[s] EXCEPT !.at = "answered", !.outcome = outcome]]
          /\ outcome \in {"unsent", "blocked"} => copies = 0
          /\ outcome = "acknowledged" => copies = 1
    <2>1. ASSUME NEW outcome \in Outcome, Move(s, "answered", outcome)
          PROVE  sender' = [sender EXCEPT ![s] = [sender[s] EXCEPT !.at = "answered", !.outcome = outcome]]
      BY <2>1, <1>t DEF Move, SenderState
    <2>2. CASE /\ posted' = [posted EXCEPT ![k] = @ + 1]
               /\ \E outcome \in {"acknowledged", "uncertain"} : Move(s, "answered", outcome)
      <3>1. posted' = [posted EXCEPT ![k] = 1]
        BY <2>2, <1>1
      <3>2. PICK outcome \in {"acknowledged", "uncertain"} : Move(s, "answered", outcome)
        BY <2>2
      <3>3. outcome \in Outcome
        BY DEF Outcome
      <3> QED
        BY <3>1, <3>2, <3>3, <2>1
    <2>3. CASE /\ UNCHANGED posted
               /\ \E outcome \in {"unsent", "blocked", "uncertain"} : Move(s, "answered", outcome)
      <3>1. posted' = [posted EXCEPT ![k] = 0]
        BY <2>3, <1>1, <1>t
      <3>2. PICK outcome \in {"unsent", "blocked", "uncertain"} : Move(s, "answered", outcome)
        BY <2>3
      <3>3. outcome \in Outcome
        BY DEF Outcome
      <3> QED
        BY <3>1, <3>2, <3>3, <2>1
    <2> QED
      BY <2>2, <2>3 DEF Post
  <1> DEFINE e == [sender[s] EXCEPT !.at = "answered", !.outcome = outcome]
  <1>4. e \in SenderState /\ e.at = "answered" /\ e.outcome = outcome /\ e.summary = k
    BY <1>t DEF SenderState
  <1>5. posted' = posted \/ GoesOut(k)
    BY <1>t, <1>1, <1>2, <1>3 DEF GoesOut
  <1>6. OutboxTypeOK'
    BY <1>t, <1>2, <1>3, <1>4 DEF OutboxInv, OutboxTypeOK, AuthorityTypeOK
  <1>7. IsFiniteSet(Present')
    BY <1>2 DEF OutboxInv, Present
  <1>8. StatusIsTruth'
    BY <1>t, <1>1, <1>2, <1>3 DEF OutboxInv, StatusIsTruth, Unsent
  <1>9. \A t \in Senders : KnowsItsMessage(t)'
    <2> SUFFICES ASSUME NEW t \in Senders PROVE KnowsItsMessage(t)'
      OBVIOUS
    <2>1. CASE t = s
      <3>1. sender'[s] = e /\ posted'[k] = copies
        BY <1>t, <1>3
      <3> QED
        BY <2>1, <3>1, <1>1, <1>2, <1>3, <1>4 DEF KnowsItsMessage
    <2>2. CASE t # s
      <3>1. sender'[t] = sender[t] /\ KnowsItsMessage(t) /\ sender[t].summary \in Summary
        BY <1>t, <1>3, <2>2 DEF OutboxInv, SenderState
      <3>2. OnItsWay(t, k) => t = s
        BY <1>1, <1>t DEF OutboxInv, OnItsWay
      <3>3. sender[t].summary # k => posted'[sender[t].summary] = posted[sender[t].summary]
        BY <1>t, <1>3, <3>1
      <3> QED
        BY <2>2, <1>2, <3>1, <3>2, <3>3 DEF KnowsItsMessage, OnItsWay
    <2> QED
      BY <2>1, <2>2
  <1>10. \A t, u \in Senders, j \in Summary : (OnItsWay(t, j) /\ OnItsWay(u, j))' => t = u
    <2>1. \A t \in Senders, j \in Summary : OnItsWay(t, j)' => OnItsWay(t, j)
      BY <1>t, <1>1, <1>3, <1>4 DEF OnItsWay
    <2> QED
      BY <2>1 DEF OutboxInv
  <1> QED
    BY <1>2, <1>5, <1>6, <1>7, <1>8, <1>9, <1>10 DEF OutboxInv

(* A sender that leaves while its row drifts, or stays.                     *)
LEMMA ClosingKeepsInv ==
    ASSUME OutboxInv, UNCHANGED <<facts, authority, posted>>, NEW s \in Senders, Leave(s),
           \/ outbox' = outbox
           \/ \E row \in Row :
                /\ outbox' = [outbox EXCEPT ![sender[s].summary] = row]
                /\ Drifted(RowOf(s).status, row.status)
                /\ RowOf(s).status # "absent"
    PROVE  OutboxInv' /\ \A j \in Summary : RowDrifts(j)
  <1> DEFINE k == sender[s].summary
  <1>t. outbox \in [Summary -> Row] /\ sender \in [Senders -> SenderState] /\ k \in Summary
    BY DEF OutboxInv, OutboxTypeOK, SenderState
  <1>1. outbox' \in [Summary -> Row]
    BY <1>t
  <1>2. OutboxTypeOK'
    BY <1>t, <1>1, IdleIsTyped DEF Leave, OutboxInv, OutboxTypeOK, AuthorityTypeOK
  <1>3. \A j \in Summary : RowDrifts(j)
    BY <1>t DEF RowOf, RowDrifts, Drifted
  <1>4. \A t \in Senders : Unsending(t)
    BY <1>t, IdleIsTyped DEF Leave, Unsending
  <1>5. \A j \in Summary \ {k} : outbox[j].status = "absent" => outbox'[j].status = "absent"
    BY <1>t
  <1> QED
    BY <1>t, <1>2, <1>3, <1>4, <1>5, DriftingKeepsInv

LEMMA FinishPreflightKeepsInv ==
    ASSUME OutboxInv, UNCHANGED <<facts, authority>>, NEW s \in Senders, FinishPreflight(s)
    PROVE  OutboxInv' /\ posted' = posted /\ \A j \in Summary : RowDrifts(j)
  <1> DEFINE tried == [RowOf(s) EXCEPT !.attempt = @ + 1]
  <1>t. outbox \in [Summary -> Row] /\ sender \in [Senders -> SenderState] /\ sender[s].summary \in Summary
    BY DEF OutboxInv, OutboxTypeOK, SenderState
  <1>1. posted' = posted /\ Leave(s)
    BY DEF FinishPreflight
  <1>2. CASE ~(Holds(s) /\ RowOf(s).status = "claimed")
    BY <1>1, <1>2, ClosingKeepsInv DEF FinishPreflight
  <1>3. CASE Holds(s) /\ RowOf(s).status = "claimed"
    <2>1. tried \in Row
      <3>1. RowOf(s).attempt + 1 \in Nat /\ RowOf(s) \in Row
        BY <1>t DEF Row, RowOf
      <3>2. ASSUME NEW row \in Row, NEW attempt \in Nat PROVE [row EXCEPT !.attempt = attempt] \in Row
        BY DEF Row
      <3> QED
        BY <3>1, <3>2
    <2>2. PICK row \in Finished(tried, sender[s].outcome) : Write(s, row)
      BY <1>3 DEF FinishPreflight
    <2>3. sender[s].outcome \in {"unsent", "blocked"}
      BY DEF FinishPreflight, At, OutboxInv, KnowsItsMessage
    <2>4. row \in Row /\ row.status \in {"pending", "blocked"}
      <3>1. sender[s].outcome \in Outcome
        BY <2>3 DEF Outcome
      <3> HIDE DEF tried
      <3>2. row \in Row /\ row.status \in (IF sender[s].outcome = "unsent" THEN {"pending", "blocked"}
                                           ELSE {sender[s].outcome})
        BY <2>1, <2>2, <3>1, FinishedIsTyped
      <3> QED
        BY <2>3, <3>2
    <2>5. Drifted(RowOf(s).status, row.status) /\ RowOf(s).status # "absent"
      BY <1>3, <2>4 DEF Drifted, Unsent
    <2>6. outbox' = [outbox EXCEPT ![sender[s].summary] = row]
      BY <2>2 DEF Write
    <2> QED
      BY <1>1, <2>4, <2>5, <2>6, ClosingKeepsInv
  <1> QED
    BY <1>2, <1>3

LEMMA FinishSendKeepsInv ==
    ASSUME OutboxInv, UNCHANGED <<facts, authority>>, NEW s \in Senders, FinishSend(s)
    PROVE  /\ OutboxInv'
           /\ posted' = posted
           /\ Ends(sender[s].summary) \/ \A j \in Summary : RowDrifts(j)
  <1> DEFINE k == sender[s].summary
  <1>t. outbox \in [Summary -> Row] /\ sender \in [Senders -> SenderState] /\ k \in Summary
    BY DEF OutboxInv, OutboxTypeOK, SenderState
  <1>1. posted' = posted /\ Leave(s)
    BY DEF FinishSend
  <1>2. CASE ~(Holds(s) /\ RowOf(s).status = "sending")
    BY <1>1, <1>2, ClosingKeepsInv DEF FinishSend
  <1>3. CASE Holds(s) /\ RowOf(s).status = "sending"
    <2>1. PICK row \in Finished(outbox[k], sender[s].outcome) : outbox' = [outbox EXCEPT ![k] = row]
      BY <1>3 DEF FinishSend, Write, RowOf
    <2>2. /\ sender[s].at = "answered" /\ outbox[k].status = "sending" /\ sender[s].outcome \in Outcome
          /\ sender[s].outcome \in {"unsent", "blocked"} => posted[k] = 0
          /\ sender[s].outcome = "acknowledged" => posted[k] = 1
      BY <1>3 DEF FinishSend, At, RowOf, OutboxInv, KnowsItsMessage
    <2>3. row \in Row /\ row.status \in (IF sender[s].outcome = "unsent" THEN {"pending", "blocked"}
                                         ELSE {sender[s].outcome})
      BY <1>t, <2>1, <2>2, FinishedIsTyped
    <2>4. /\ row.status \in {"pending", "blocked", "acknowledged", "uncertain"}
          /\ row.status \in {"pending", "blocked"} => posted[k] = 0
          /\ row.status = "acknowledged" => posted[k] = 1
      BY <2>2, <2>3 DEF Outcome
    <2>5. Ends(k)
      BY <1>t, <1>1, <2>1, <2>2, <2>4 DEF Ends, OthersRest
    <2>6. OutboxTypeOK'
      BY <1>t, <1>1, <2>1, <2>3, IdleIsTyped DEF Leave, OutboxInv, OutboxTypeOK, AuthorityTypeOK
    <2>7. IsFiniteSet(Present')
      <3>1. Present' = Present
        BY <1>t, <2>1, <2>2, <2>4 DEF Present
      <3> QED
        BY <3>1 DEF OutboxInv
    <2>8. StatusIsTruth'
      BY <1>t, <1>1, <2>1, <2>4 DEF OutboxInv, StatusIsTruth, Unsent
    <2>9. \A t \in Senders : t # s => ~OnItsWay(t, k)
      BY <1>t, <2>2 DEF OutboxInv, OnItsWay
    <2>10. \A t \in Senders : KnowsItsMessage(t)'
      <3> SUFFICES ASSUME NEW t \in Senders PROVE KnowsItsMessage(t)'
        OBVIOUS
      <3>1. CASE t = s
        BY <3>1, <1>t, <1>1, IdleIsTyped DEF Leave, KnowsItsMessage
      <3>2. CASE t # s
        <4>1. sender'[t] = sender[t] /\ KnowsItsMessage(t) /\ sender[t].summary \in Summary
          BY <1>t, <1>1, <3>2 DEF Leave, OutboxInv, SenderState
        <4>2. sender[t].summary # k => outbox'[sender[t].summary] = outbox[sender[t].summary]
          BY <1>t, <2>1, <4>1
        <4> QED
          BY <1>1, <2>9, <3>2, <4>1, <4>2 DEF KnowsItsMessage, OnItsWay
      <3> QED
        BY <3>1, <3>2
    <2>11. \A t, u \in Senders, j \in Summary : (OnItsWay(t, j) /\ OnItsWay(u, j))' => t = u
      <3>1. \A t \in Senders, j \in Summary : OnItsWay(t, j)' => OnItsWay(t, j)
        BY <1>t, <1>1, IdleIsTyped DEF Leave, OnItsWay
      <3> QED
        BY <3>1 DEF OutboxInv
    <2> QED
      BY <1>1, <2>5, <2>6, <2>7, <2>8, <2>10, <2>11 DEF OutboxInv
  <1> QED
    BY <1>2, <1>3

-----------------------------------------------------------------------------
(* Every step keeps the invariant, and what it does to one row is a step of *)
(* that row's durable effect.                                               *)
Moves ==
    \/ posted' = posted /\ \A k \in Summary : RowDrifts(k)
    \/ \E k \in Summary : Begins(k) \/ GoesOut(k) \/ Ends(k)

LEMMA OutboxSteps ==
    ASSUME OutboxInv, [OutboxNext]_allOutboxVars
    PROVE  OutboxInv' /\ Moves
  <1>1. ASSUME OutboxStep, UNCHANGED <<facts, authority>> PROVE OutboxInv' /\ Moves
    <2>1. ASSUME Collect PROVE OutboxInv' /\ Moves
      <3>1. [facts |-> facts, query |-> NoQuery] \in Summary
        BY DEF OutboxInv, OutboxTypeOK, Summary
      <3> QED
        BY <1>1, <2>1, <3>1, EnqueueKeepsInv DEF Collect, Moves
    <2>2. ASSUME NEW q \in Queries, Ask(q) PROVE OutboxInv' /\ Moves
      <3>1. [facts |-> facts, query |-> q] \in Summary
        BY DEF OutboxInv, OutboxTypeOK, Summary
      <3> QED
        BY <1>1, <2>2, <3>1, EnqueueKeepsInv DEF Ask, Moves
    <2>3. ASSUME NEW s \in Senders, TakeStep(s) \/ SendStep(s) \/ SenderCrash(s)
          PROVE  OutboxInv' /\ Moves
      <3>1. sender[s].summary \in Summary
        BY DEF OutboxInv, OutboxTypeOK, SenderState
      <3>2. CASE TakeStep(s)
        BY <1>1, <3>2, TakeKeepsInv DEF Moves
      <3>3. CASE BeginSend(s)
        BY <1>1, <3>1, <3>3, BeginKeepsInv DEF Moves
      <3>4. CASE DispatchExpired(s) \/ SenderCrash(s) \/ PreflightFails(s)
        BY <1>1, <3>4, LeavingKeepsInv DEF Moves
      <3>5. CASE FinishPreflight(s)
        BY <1>1, <3>5, FinishPreflightKeepsInv DEF Moves
      <3>6. CASE Post(s)
        <4>1. OutboxInv' /\ outbox' = outbox /\ (posted' = posted \/ GoesOut(sender[s].summary))
          BY <1>1, <3>6, PostKeepsInv
        <4>2. outbox' = outbox => \A k \in Summary : RowDrifts(k)
          BY DEF RowDrifts, Drifted
        <4> QED
          BY <3>1, <4>1, <4>2 DEF Moves
      <3>7. CASE FinishSend(s)
        BY <1>1, <3>1, <3>7, FinishSendKeepsInv DEF Moves
      <3> QED
        BY <2>3, <3>2, <3>3, <3>4, <3>5, <3>6, <3>7 DEF SendStep
    <2>4. ASSUME NEW k \in Summary, TimeStep(k) \/ OperatorStep(k) PROVE OutboxInv' /\ Moves
      BY <1>1, <2>4, TimeAndOperatorKeepInv DEF Moves
    <2> QED
      BY <1>1, <2>1, <2>2, <2>3, <2>4 DEF OutboxStep
  <1>2. ASSUME UNCHANGED outboxVars, OutboxTypeOK' PROVE OutboxInv' /\ Moves
    BY <1>2
    DEF outboxVars, OutboxInv, Present, StatusIsTruth, KnowsItsMessage, OnItsWay, Moves, RowDrifts, Drifted
  <1>3. CASE (FactsChange \/ AuthorityChanges) /\ UNCHANGED outboxVars
    <2>1. OutboxTypeOK'
      BY <1>3
      DEF OutboxInv, OutboxTypeOK, AuthorityTypeOK, outboxVars, FactsChange, AuthorityChanges, Reconfigured
    <2> QED
      BY <1>2, <1>3, <2>1
  <1>4. CASE UNCHANGED allOutboxVars
    <2>1. OutboxTypeOK' /\ UNCHANGED outboxVars
      BY <1>4 DEF OutboxInv, OutboxTypeOK, AuthorityTypeOK, allOutboxVars, outboxVars
    <2> QED
      BY <1>2, <2>1
  <1> QED
    BY <1>1, <1>3, <1>4 DEF OutboxNext

LEMMA OutboxInvInit == facts \in Facts /\ OutboxInit => OutboxInv
  <1> SUFFICES ASSUME facts \in Facts, OutboxInit PROVE OutboxInv
    OBVIOUS
  <1>1. OutboxTypeOK
    BY IdleIsTyped, NoRowIsTyped DEF OutboxInit, OutboxTypeOK, AuthorityInit, AuthorityTypeOK
  <1>2. IsFiniteSet(Present)
    <2>1. Present = {}
      BY NoRowIsTyped DEF OutboxInit, Present
    <2> QED
      BY <2>1, FS_EmptySet
  <1>3. StatusIsTruth
    BY NoRowIsTyped DEF OutboxInit, StatusIsTruth
  <1>4. \A s \in Senders : KnowsItsMessage(s) /\ \A k \in Summary : ~OnItsWay(s, k)
    BY IdleIsTyped DEF OutboxInit, KnowsItsMessage, OnItsWay
  <1> QED
    BY <1>1, <1>2, <1>3, <1>4 DEF OutboxInv

(* Every reachable state of the outbox satisfies the inductive invariant     *)
(* (claim_notification, begin_send and finish_send of channel_ops.py).       *)
THEOREM OutboxInvariant == OutboxSpec => []OutboxInv
  <1>1. OutboxInv /\ [OutboxNext]_allOutboxVars => OutboxInv'
    BY OutboxSteps
  <1> QED
    BY <1>1, OutboxInvInit, PTL DEF OutboxSpec

(* What may still be sent was never accepted, what is acknowledged was, and *)
(* nothing was accepted twice (begin_send, finish_send, retry and reconcile *)
(* of harness/channel_ops.py).                                              *)
THEOREM StatusIsAlwaysTruth == OutboxSpec => []StatusIsTruth
  <1>1. OutboxInv => StatusIsTruth
    BY DEF OutboxInv
  <1> QED
    BY <1>1, OutboxInvariant, PTL

LEMMA RowsStep ==
    ASSUME OutboxInv, [OutboxNext]_allOutboxVars
    PROVE  [Rows!Next]_<<[k \in Summary |-> RowBelief(k)], posted>>
  <1> DEFINE RowMoves(k) ==
        \/ RowBelief(k)' = RowBelief(k) /\ posted'[k] = posted[k]
        \/ RowBelief(k) = "unsent" /\ RowBelief(k)' = "sending" /\ posted'[k] = posted[k]
        \/ RowBelief(k) # "unsent" /\ RowBelief(k)' = RowBelief(k) /\ posted[k] = 0 /\ posted'[k] = 1
        \/ RowBelief(k) = "sending" /\ RowBelief(k)' = "unsent" /\ posted[k] = 0 /\ posted'[k] = posted[k]
        \/ /\ RowBelief(k) \in {"sending", "unknown"} /\ RowBelief(k)' = "done"
           /\ posted[k] = 1 /\ posted'[k] = posted[k]
        \/ RowBelief(k) = "sending" /\ RowBelief(k)' = "unknown" /\ posted'[k] = posted[k]
        \/ RowBelief(k) \in {"unsent", "unknown"} /\ RowBelief(k)' = "dropped" /\ posted'[k] = posted[k]
  <1>t. posted \in [Summary -> Nat]
    BY DEF OutboxInv, OutboxTypeOK
  <1>1. ASSUME NEW k \in Summary, posted'[k] = posted[k], RowDrifts(k) PROVE RowMoves(k)
    BY <1>1 DEF RowDrifts, Drifted, RowBelief, Unsent
  <1>2. ASSUME NEW k \in Summary, posted'[k] = posted[k], outbox'[k].status = outbox[k].status
        PROVE  RowMoves(k)
    BY <1>2 DEF RowBelief
  <1>3. ASSUME NEW k \in Summary, Begins(k) PROVE RowMoves(k)
    BY <1>3 DEF Begins, RowBelief, Unsent
  <1>4. ASSUME NEW k \in Summary, GoesOut(k) PROVE RowMoves(k)
    BY <1>4, <1>t DEF GoesOut, RowBelief, Unsent
  <1>5. ASSUME NEW k \in Summary, Ends(k) PROVE RowMoves(k)
    BY <1>5 DEF Ends, RowBelief, Unsent
  <1>6. \A k \in Summary : RowMoves(k)
    <2> SUFFICES ASSUME NEW j \in Summary PROVE RowMoves(j)
      OBVIOUS
    <2> HIDE DEF RowMoves
    <2>1. CASE posted' = posted /\ \A k \in Summary : RowDrifts(k)
      BY <1>1, <2>1
    <2>2. ASSUME NEW k \in Summary, Begins(k) \/ GoesOut(k) \/ Ends(k) PROVE RowMoves(j)
      <3>1. CASE j = k
        BY <2>2, <3>1, <1>3, <1>4, <1>5
      <3>2. CASE j # k
        <4>1. posted'[j] = posted[j] /\ outbox'[j].status = outbox[j].status
          BY <1>t, <2>2, <3>2 DEF Begins, GoesOut, Ends, OthersRest
        <4> QED
          BY <4>1, <1>2
      <3> QED
        BY <3>1, <3>2
    <2> QED
      BY <2>1, <2>2, OutboxSteps DEF Moves
  <1> QED
    BY <1>6
    DEF Rows!Next, Rows!Intend, Rows!Happen, Rows!Refused, Rows!Confirmed, Rows!Lost, Rows!Dropped,
        Rows!Rests, Rows!Believed, Rows!Unseen

(* A row of the outbox implements the at-most-once remote effect, whatever  *)
(* crashes, expired leases, lost answers and operator commands it meets.    *)
THEOREM RowsImplementEffects == OutboxSpec => RowsKeepPromise
  <1>1. facts \in Facts /\ OutboxInit => Rows!Init
    BY NoRowIsTyped DEF OutboxInit, Rows!Init, RowBelief, Unsent
  <1>2. OutboxInv /\ [OutboxNext]_allOutboxVars => [Rows!Next]_<<[k \in Summary |-> RowBelief(k)], posted>>
    BY RowsStep
  <1> QED
    BY <1>1, <1>2, OutboxInvariant, PTL DEF OutboxSpec, RowsKeepPromise, Rows!Spec

-----------------------------------------------------------------------------
(* The publications *)

(* What a process on its way through execute knows of its row: the effect   *)
(* is still to come while it acts, and it alone acts; a row it has claimed  *)
(* or looks at was claimed; what it found is there.                         *)
Claimed == {"sending", "unknown", "succeeded"}

Acting(x, p) == executor[x].at = "acting" /\ executor[x].of = p

KnowsItsRow(x) ==
    LET e == executor[x] IN
    /\ e.at = "read" => e.saw \in (IF e.reconcile THEN {"sending", "unknown"} ELSE {"prepared"})
    /\ e.at = "acting" => published[e.of] = 0 /\ publication[e.of].status \in {"sending", "unknown"}
    /\ e.at \in {"looking", "ending"} => publication[e.of].status \in Claimed
    /\ e.at = "ending" /\ e.found => published[e.of] = 1

RowIsTruth(p) ==
    /\ published[p] \in {0, 1}
    /\ publication[p].status \in {"absent", "prepared"} => published[p] = 0
    /\ publication[p].status = "succeeded" => published[p] = 1

(* The inductive invariant: each process knows its row, each row tells the  *)
(* truth, and a publication has at most one process that acts on it.        *)
PublicationInv ==
    /\ PublicationTypeOK
    /\ \A x \in Executors : KnowsItsRow(x)
    /\ \A p \in Publications : RowIsTruth(p)
    /\ \A x, y \in Executors, p \in Publications : Acting(x, p) /\ Acting(y, p) => x = y

publicationSpecVars == <<authority, publicationVars>>

LEMMA AwayIsTyped == Away \in ExecutorState /\ Away.at = "idle"
  <1>1. (CHOOSE p \in Publications : TRUE) \in Publications
    BY SomethingToPublish
  <1> QED
    BY <1>1 DEF Away, ExecutorState, PublicationStatus

LEMMA PublicationInvInit == AuthorityInit /\ PublicationInit => PublicationInv
  BY AwayIsTyped
  DEF AuthorityInit, PublicationInit, PublicationInv, PublicationTypeOK, AuthorityTypeOK, KnowsItsRow,
      RowIsTruth, Acting, PublicationStatus, ExecutorState

(* A step of one process that leaves it elsewhere and touches no row.       *)
LEMMA ExecutorMoves ==
    ASSUME PublicationInv, NEW x \in Executors, NEW e \in ExecutorState,
           executor' = [executor EXCEPT ![x] = e],
           UNCHANGED <<publication, published, authority>>,
           e.at # "acting",
           KnowsItsRow(x)'
    PROVE  PublicationInv'
  <1> USE DEF PublicationInv
  <1>1. PublicationTypeOK'
    BY DEF PublicationTypeOK, AuthorityTypeOK
  <1>2. \A y \in Executors : KnowsItsRow(y)'
    BY DEF KnowsItsRow, PublicationTypeOK
  <1>3. \A p \in Publications : RowIsTruth(p)'
    BY DEF RowIsTruth
  <1>4. \A y, z \in Executors, p \in Publications : (Acting(y, p) /\ Acting(z, p))' => y = z
    BY DEF Acting, PublicationTypeOK
  <1> QED
    BY <1>1, <1>2, <1>3, <1>4

LEMMA PublicationInvStep ==
    ASSUME PublicationInv, [PublicationNext]_publicationSpecVars
    PROVE  PublicationInv'
  <1> USE DEF PublicationInv
  <1>t. /\ publication \in [Publications -> [status : PublicationStatus, revision : Nat]]
        /\ executor \in [Executors -> ExecutorState]
        /\ published \in [Publications -> Nat]
        /\ authority \in [revision : Nat, granted : BOOLEAN]
    BY DEF PublicationTypeOK, AuthorityTypeOK
  <1>1. ASSUME NEW p \in Publications, Prepare(p), UNCHANGED authority PROVE PublicationInv'
    <2>1. PublicationTypeOK'
      BY <1>1, <1>t DEF Prepare, PublicationTypeOK, AuthorityTypeOK, PublicationStatus
    <2>2. \A y \in Executors : KnowsItsRow(y)'
      BY <1>1, <1>t DEF Prepare, KnowsItsRow, ExecutorState, Claimed
    <2>3. \A q \in Publications : RowIsTruth(q)'
      BY <1>1, <1>t DEF Prepare, RowIsTruth
    <2> QED
      BY <1>1, <2>1, <2>2, <2>3 DEF Prepare, Acting
  <1>2. ASSUME NEW x \in Executors, NEW p \in Publications, NEW reconcile \in BOOLEAN,
               ReadIntent(x, p, reconcile), UNCHANGED authority
        PROVE  PublicationInv'
    <2> DEFINE e == [at |-> "read", of |-> p, reconcile |-> reconcile,
                     saw |-> publication[p].status, found |-> FALSE]
    <2>1. e \in ExecutorState /\ e.at = "read"
      BY <1>2, <1>t DEF ExecutorState
    <2>2. executor' = [executor EXCEPT ![x] = e] /\ UNCHANGED <<publication, published, authority>>
      BY <1>2 DEF ReadIntent
    <2>3. KnowsItsRow(x)'
      BY <1>2, <1>t DEF ReadIntent, KnowsItsRow, Executable
    <2> QED
      BY <2>1, <2>2, <2>3, ExecutorMoves
  <1>3. ASSUME NEW x \in Executors, ClaimIntent(x), UNCHANGED authority PROVE PublicationInv'
    <2> DEFINE p == executor[x].of
    <2>1. p \in Publications /\ publication[p].status = executor[x].saw /\ executor[x].at = "read"
      BY <1>3, <1>t DEF ClaimIntent, Unclaimed, ExecutorState
    <2>2. CASE executor[x].reconcile
      <3>1. [executor[x] EXCEPT !.at = "looking"] \in ExecutorState
        BY <1>t DEF ExecutorState
      <3>2. KnowsItsRow(x)'
        BY <1>3, <1>t, <2>1, <2>2 DEF ClaimIntent, Step, KnowsItsRow, ExecutorState, Claimed
      <3>3. /\ executor' = [executor EXCEPT ![x] = [executor[x] EXCEPT !.at = "looking"]]
            /\ UNCHANGED <<publication, published, authority>>
        BY <1>3, <2>2 DEF ClaimIntent, Step
      <3>4. [executor[x] EXCEPT !.at = "looking"].at # "acting"
        BY <1>t DEF ExecutorState
      <3> QED
        BY <3>1, <3>2, <3>3, <3>4, ExecutorMoves
    <2>3. CASE ~executor[x].reconcile
      <3>1. publication[p].status = "prepared" /\ published[p] = 0
        BY <2>1, <2>3 DEF KnowsItsRow, RowIsTruth
      <3>2. executor' = [executor EXCEPT ![x].at = "acting"] /\ published' = published
            /\ publication' = [publication EXCEPT ![p].status = "sending"]
        BY <1>3, <2>3 DEF ClaimIntent, Step, SetStatus
      <3>3. \A y \in Executors : executor[y].at \in {"acting", "looking", "ending"} => executor[y].of # p
        BY <3>1 DEF KnowsItsRow, Claimed
      <3>4. PublicationTypeOK'
        BY <1>3, <1>t, <2>1, <3>2 DEF PublicationTypeOK, AuthorityTypeOK, PublicationStatus, ExecutorState
      <3>5. KnowsItsRow(x)'
        BY <1>t, <2>1, <3>1, <3>2 DEF KnowsItsRow, ExecutorState
      <3>6. \A y \in Executors : y # x => KnowsItsRow(y)'
        BY <1>t, <2>1, <3>2, <3>3 DEF KnowsItsRow, ExecutorState, Claimed
      <3>7. \A q \in Publications : RowIsTruth(q)'
        BY <1>t, <2>1, <3>1, <3>2 DEF RowIsTruth
      <3>8. \A y, z \in Executors, q \in Publications : (Acting(y, q) /\ Acting(z, q))' => y = z
        BY <1>t, <2>1, <3>2, <3>3 DEF Acting, ExecutorState
      <3> QED
        BY <3>4, <3>5, <3>6, <3>7, <3>8
    <2> QED
      BY <2>2, <2>3
  <1>4. ASSUME NEW x \in Executors, ClaimRefused(x) \/ ExecutorCrash(x), UNCHANGED authority
        PROVE  PublicationInv'
    <2>1. executor' = [executor EXCEPT ![x] = Away] /\ UNCHANGED <<publication, published, authority>>
      BY <1>4 DEF ClaimRefused, ExecutorCrash, Quit
    <2>2. KnowsItsRow(x)'
      BY <2>1, <1>t, AwayIsTyped DEF KnowsItsRow
    <2> QED
      BY <2>1, <2>2, AwayIsTyped, ExecutorMoves
  <1>5. ASSUME NEW x \in Executors, Effect(x), UNCHANGED authority PROVE PublicationInv'
    <2> DEFINE p == executor[x].of
    <2>1. /\ p \in Publications /\ executor[x].at = "acting" /\ published[p] = 0
          /\ publication[p].status \in {"sending", "unknown"}
      BY <1>5, <1>t DEF Effect, KnowsItsRow, ExecutorState
    <2>2. publication' = publication
      BY <1>5 DEF Effect
    <2>3. \A y \in Executors : executor[y].at = "acting" /\ executor[y].of = p => y = x
      BY <2>1 DEF Acting
    <2>4. /\ executor' \in [Executors -> ExecutorState]
          /\ \A y \in Executors : y # x => executor'[y] = executor[y]
          /\ executor'[x].of = p /\ executor'[x].at \in {"looking", "ending"}
          /\ executor'[x].at = "ending" => published'[p] = 1
          /\ published' \in [Publications -> Nat] /\ published'[p] \in {0, 1}
          /\ \A q \in Publications : q # p => published'[q] = published[q]
      <3>1. CASE published' = [published EXCEPT ![p] = @ + 1] /\ Ending(x, TRUE)
        <4>1. executor' = [executor EXCEPT ![x] = [executor[x] EXCEPT !.at = "ending", !.found = TRUE]]
          BY <3>1, <1>t DEF Ending, ExecutorState
        <4>2. [executor[x] EXCEPT !.at = "ending", !.found = TRUE] \in ExecutorState
          BY <1>t DEF ExecutorState
        <4>3. published'[p] = 1 /\ published' \in [Publications -> Nat]
          BY <3>1, <1>t, <2>1
        <4> QED
          BY <3>1, <4>1, <4>2, <4>3, <1>t, <2>1 DEF ExecutorState
      <3>2. CASE Step(x, "looking") /\ published' \in {published, [published EXCEPT ![p] = @ + 1]}
        <4>1. executor' = [executor EXCEPT ![x] = [executor[x] EXCEPT !.at = "looking"]]
          BY <3>2 DEF Step
        <4>2. [executor[x] EXCEPT !.at = "looking"] \in ExecutorState
          BY <1>t DEF ExecutorState
        <4>3. published'[p] \in {0, 1} /\ published' \in [Publications -> Nat]
          BY <3>2, <1>t, <2>1
        <4>4. \A q \in Publications : q # p => published'[q] = published[q]
          BY <3>2, <1>t, <2>1
        <4>5. /\ executor' \in [Executors -> ExecutorState]
              /\ \A y \in Executors : y # x => executor'[y] = executor[y]
          BY <4>1, <4>2, <1>t
        <4>6. executor'[x].of = p /\ executor'[x].at = "looking"
          BY <4>1, <1>t, <2>1 DEF ExecutorState
        <4> QED
          BY <4>3, <4>4, <4>5, <4>6
      <3> QED
        BY <1>5, <3>1, <3>2 DEF Effect
    <2>5. PublicationTypeOK'
      BY <1>5, <1>t, <2>2, <2>4 DEF PublicationTypeOK, AuthorityTypeOK
    <2>6. KnowsItsRow(x)'
      BY <1>t, <2>1, <2>2, <2>4 DEF KnowsItsRow, ExecutorState, Claimed
    <2>7. \A y \in Executors : y # x => KnowsItsRow(y)'
      <3> SUFFICES ASSUME NEW y \in Executors, y # x PROVE KnowsItsRow(y)'
        OBVIOUS
      <3>1. executor'[y] = executor[y] /\ executor[y].of \in Publications
        BY <1>t, <2>4 DEF ExecutorState
      <3>2. executor[y].at = "acting" => executor[y].of # p
        BY <2>3
      <3>3. published[executor[y].of] = 1 => published'[executor[y].of] = 1
        BY <1>t, <2>1, <2>4, <3>1
      <3>4. executor[y].of # p => published'[executor[y].of] = published[executor[y].of]
        BY <1>t, <2>1, <2>4, <3>1
      <3> QED
        BY <2>2, <3>1, <3>2, <3>3, <3>4 DEF KnowsItsRow
    <2>8. \A q \in Publications : RowIsTruth(q)'
      BY <1>t, <2>1, <2>2, <2>4 DEF RowIsTruth
    <2>9. \A y, z \in Executors, q \in Publications : (Acting(y, q) /\ Acting(z, q))' => y = z
      <3> SUFFICES ASSUME NEW y \in Executors, NEW z \in Executors, NEW q \in Publications,
                          Acting(y, q)', Acting(z, q)'
                   PROVE  y = z
        OBVIOUS
      <3>1. y # x /\ z # x
        BY <2>4 DEF Acting
      <3>2. Acting(y, q) /\ Acting(z, q)
        BY <2>4, <3>1 DEF Acting
      <3> QED
        BY <3>2
    <2> QED
      BY <2>5, <2>6, <2>7, <2>8, <2>9
  <1>6. ASSUME NEW x \in Executors, Look(x), UNCHANGED authority PROVE PublicationInv'
    <2>1. PICK found \in BOOLEAN :
            /\ found => published[executor[x].of] > 0
            /\ executor' = [executor EXCEPT ![x] = [executor[x] EXCEPT !.at = "ending", !.found = found]]
      BY <1>6, <1>t DEF Look, Ending, ExecutorState
    <2>2. executor[x].at = "looking" /\ UNCHANGED <<publication, published, authority>>
      BY <1>6 DEF Look
    <2> DEFINE e == [executor[x] EXCEPT !.at = "ending", !.found = found]
    <2>3. e \in ExecutorState /\ e.at # "acting"
      BY <1>t, <2>2 DEF ExecutorState
    <2>t. executor[x].of \in Publications
      BY <1>t DEF ExecutorState
    <2>4. KnowsItsRow(x)'
      <3>1. published[executor[x].of] \in {0, 1} /\ publication[executor[x].of].status \in Claimed
        BY <2>2, <2>t DEF KnowsItsRow, RowIsTruth
      <3> QED
        BY <1>t, <2>1, <2>2, <2>t, <3>1 DEF KnowsItsRow, ExecutorState
    <2> QED
      BY <2>1, <2>2, <2>3, <2>4, ExecutorMoves
  <1>7. ASSUME NEW x \in Executors, Finish(x), UNCHANGED authority PROVE PublicationInv'
    <2> DEFINE p == executor[x].of
    <2>1. /\ p \in Publications /\ executor[x].at = "ending"
          /\ publication[p].status \in Claimed /\ (executor[x].found => published[p] = 1)
      BY <1>7, <1>t DEF Finish, KnowsItsRow, ExecutorState
    <2>2. PICK status \in {"unknown", "succeeded"} :
            /\ publication' = [publication EXCEPT ![p].status = status]
            /\ status = "succeeded" => published[p] = 1
            /\ publication[p].status = "succeeded" => status = "succeeded"
      BY <1>7, <2>1 DEF Finish, Concluded, SetStatus, RowIsTruth
    <2>3. executor' = [executor EXCEPT ![x] = Away] /\ UNCHANGED <<published, authority>>
      BY <1>7 DEF Finish, Quit
    <2>4. PublicationTypeOK'
      BY <1>t, <2>1, <2>2, <2>3, AwayIsTyped
      DEF PublicationTypeOK, AuthorityTypeOK, PublicationStatus
    <2>5. \A y \in Executors : KnowsItsRow(y)'
      <3> SUFFICES ASSUME NEW y \in Executors PROVE KnowsItsRow(y)'
        OBVIOUS
      <3>1. CASE y = x
        BY <3>1, <1>t, <2>3, AwayIsTyped DEF KnowsItsRow
      <3>2. CASE y # x
        <4>1. executor'[y] = executor[y] /\ executor[y].of \in Publications
          BY <3>2, <1>t, <2>3 DEF ExecutorState
        <4> QED
          BY <4>1, <1>t, <2>1, <2>2, <2>3 DEF KnowsItsRow, Claimed
      <3> QED
        BY <3>1, <3>2
    <2>6. \A q \in Publications : RowIsTruth(q)'
      BY <1>t, <2>1, <2>2, <2>3 DEF RowIsTruth
    <2>7. \A y, z \in Executors, q \in Publications : (Acting(y, q) /\ Acting(z, q))' => y = z
      BY <1>t, <2>3, AwayIsTyped DEF Acting
    <2> QED
      BY <2>4, <2>5, <2>6, <2>7
  <1>8. ASSUME NEW granted \in BOOLEAN, Reconfigured(granted), UNCHANGED publicationVars
        PROVE  PublicationInv'
    BY <1>8, <1>t
    DEF Reconfigured, publicationVars, PublicationTypeOK, AuthorityTypeOK, KnowsItsRow, RowIsTruth, Acting
  <1>9. CASE UNCHANGED publicationSpecVars
    BY <1>9, <1>t
    DEF publicationSpecVars, publicationVars, PublicationTypeOK, AuthorityTypeOK, KnowsItsRow, RowIsTruth,
        Acting
  <1> QED
    BY <1>1, <1>2, <1>3, <1>4, <1>5, <1>6, <1>7, <1>8, <1>9
    DEF PublicationNext, PublicationStep, ExecutorStep

(* Every reachable state of the publications satisfies the invariant        *)
(* (claim, finish and reconcile of channels/publication.py).                *)
THEOREM PublicationsTellTheTruth == PublicationSpec => []PublicationInv
  <1>1. AuthorityInit /\ PublicationInit => PublicationInv
    BY PublicationInvInit
  <1>2. PublicationInv /\ [PublicationNext]_<<authority, publicationVars>> => PublicationInv'
    BY PublicationInvStep DEF publicationSpecVars
  <1> QED
    BY <1>1, <1>2, PTL DEF PublicationSpec

-----------------------------------------------------------------------------
(* The refinement.  One publication makes a step of its abstract effect, or *)
(* rests; the others rest.                                                  *)
EffectStep(p) ==
    LET belief == PublicationBelief(p)
        after == PublicationBelief(p)'
        unseen == published'[p] = published[p]
    IN  \/ belief = "unsent" /\ after = "sending" /\ unseen
        \/ belief # "unsent" /\ after = belief /\ published[p] = 0 /\ published'[p] = 1
        \/ belief \in {"sending", "unknown"} /\ after = "done" /\ published[p] = 1 /\ unseen
        \/ belief = "sending" /\ after = "unknown" /\ unseen
        \/ after = belief /\ unseen

LEMMA UntouchedRests ==
    ASSUME NEW p \in Publications, publication'[p].status = publication[p].status, published'[p] = published[p]
    PROVE  EffectStep(p)
  BY DEF EffectStep, PublicationBelief

LEMMA EffectSteps ==
    ASSUME PublicationInv, PublicationStep, NEW q \in Publications
    PROVE  EffectStep(q)
  <1>t. /\ publication \in [Publications -> [status : PublicationStatus, revision : Nat]]
        /\ executor \in [Executors -> ExecutorState]
        /\ published \in [Publications -> Nat]
    BY DEF PublicationInv, PublicationTypeOK
  <1>1. ASSUME NEW p \in Publications, Prepare(p) PROVE EffectStep(q)
    BY <1>1, <1>t DEF Prepare, EffectStep, PublicationBelief
  <1>2. ASSUME NEW x \in Executors, UNCHANGED <<publication, published>> PROVE EffectStep(q)
    BY <1>2, UntouchedRests
  <1>3. ASSUME NEW x \in Executors, ClaimIntent(x) PROVE EffectStep(q)
    <2> DEFINE p == executor[x].of
    <2>1. p \in Publications /\ executor[x].at = "read" /\ publication[p].status = executor[x].saw
      BY <1>3, <1>t DEF ClaimIntent, Unclaimed, ExecutorState
    <2>2. CASE executor[x].reconcile
      BY <1>3, <2>2, UntouchedRests DEF ClaimIntent
    <2>3. CASE ~executor[x].reconcile
      <3>1. publication[p].status = "prepared"
        BY <2>1, <2>3 DEF PublicationInv, KnowsItsRow
      <3>2. publication' = [publication EXCEPT ![p].status = "sending"] /\ published' = published
        BY <1>3, <2>3 DEF ClaimIntent, SetStatus
      <3> QED
        BY <1>t, <2>1, <3>1, <3>2 DEF EffectStep, PublicationBelief
    <2> QED
      BY <2>2, <2>3
  <1>4. ASSUME NEW x \in Executors, Effect(x) PROVE EffectStep(q)
    <2> DEFINE p == executor[x].of
    <2>1. /\ p \in Publications /\ published[p] = 0 /\ publication' = publication
          /\ publication[p].status \in {"sending", "unknown"}
      BY <1>4, <1>t DEF PublicationInv, Effect, KnowsItsRow, ExecutorState
    <2>2. published' \in {published, [published EXCEPT ![p] = @ + 1]}
      BY <1>4 DEF Effect
    <2> QED
      BY <1>t, <2>1, <2>2 DEF EffectStep, PublicationBelief
  <1>5. ASSUME NEW x \in Executors, Finish(x) PROVE EffectStep(q)
    <2> DEFINE p == executor[x].of
    <2>1. /\ p \in Publications /\ publication[p].status \in Claimed
          /\ executor[x].found => published[p] = 1
      BY <1>5, <1>t DEF PublicationInv, Finish, KnowsItsRow, ExecutorState
    <2>2. /\ published' = published
          /\ publication' = [publication EXCEPT ![p].status =
                               Concluded(publication[p].status, executor[x].found)]
      BY <1>5 DEF Finish, SetStatus
    <2>3. CASE q = p
      <3>1. publication'[p].status = Concluded(publication[p].status, executor[x].found)
        BY <1>t, <2>1, <2>2
      <3> QED
        BY <2>1, <2>2, <2>3, <3>1 DEF EffectStep, PublicationBelief, Concluded, Claimed
    <2>4. CASE q # p
      BY <1>t, <2>1, <2>2, <2>4, UntouchedRests
    <2> QED
      BY <2>3, <2>4
  <1> QED
    BY <1>1, <1>2, <1>3, <1>4, <1>5
    DEF PublicationStep, ExecutorStep, ReadIntent, ClaimRefused, Look, ExecutorCrash

LEMMA EffectsStep ==
    ASSUME PublicationInv, [PublicationNext]_publicationSpecVars
    PROVE  [Effects!Next]_<<[p \in Publications |-> PublicationBelief(p)], published>>
  <1>1. ASSUME \A q \in Publications : EffectStep(q) PROVE Effects!Next
    BY <1>1
    DEF EffectStep, Effects!Next, Effects!Intend, Effects!Happen, Effects!Confirmed, Effects!Lost,
        Effects!Rests, Effects!Believed, Effects!Unseen
  <1>2. CASE PublicationStep
    BY <1>1, <1>2, EffectSteps
  <1>3. CASE UNCHANGED publicationVars
    BY <1>1, <1>3, UntouchedRests DEF publicationVars
  <1> QED
    BY <1>2, <1>3 DEF PublicationNext, publicationSpecVars

(* A publication implements the at-most-once remote effect: whoever claims, *)
(* loses, finds or reconciles it (remote_effect and finish of               *)
(* channels/publication.py).                                                *)
THEOREM PublicationsImplementEffects == PublicationSpec => PublicationsKeepPromise
  <1>1. AuthorityInit /\ PublicationInit => Effects!Init
    BY DEF PublicationInit, Effects!Init, PublicationBelief
  <1>2. PublicationInv /\ [PublicationNext]_<<authority, publicationVars>>
        => [Effects!Next]_<<[p \in Publications |-> PublicationBelief(p)], published>>
    BY EffectsStep DEF publicationSpecVars
  <1> QED
    BY <1>1, <1>2, PublicationsTellTheTruth, PTL DEF PublicationSpec, PublicationsKeepPromise, Effects!Spec

-----------------------------------------------------------------------------
(* The CI subscription *)

RunStates == {"none", "pending"} \cup Conclusions
Result == [run : Runs \cup {NoRun}, state : RunStates, invalidated : BOOLEAN]
Results == [Checks -> Result]

EvidenceId == {<<>>} \cup {<<e>> : e \in Event} \cup {<<"poll", n>> : n \in Nat}
Evidence == [id : EvidenceId, feedback : BOOLEAN, queued : BOOLEAN]

ReviewMarks == {"none", "superseded"} \cup ReviewStates

Subscription ==
    [enabled : BOOLEAN, head : Heads, revision : Nat, remote : CheckStatus \cup {"head_mismatch"},
     checks : CheckStatus, review : ReviewMarks, reviews : [Reviews -> ReviewMarks],
     results : Results, evidence : Evidence, turns : 0..MaxTurns, polls : 0..MaxPolls]

PullRequests == [head : Heads, run : [Runs -> RunStates], review : [Reviews -> {"none"} \cup ReviewStates]]

Answered == [head : Heads, results : Results, failed : BOOLEAN]
Pollers == [at : {"idle", "asking", "answered"}, token : Heads \cup {NoHead}, seen : Evidence,
            results : Results, heard : SUBSET Event, snapshot : Answered \cup {<<>>}]
Threads == [at : {"free", "queued", "running"}, repairs : Heads \cup {NoHead}, hosted : BOOLEAN]

WatchTyped ==
    /\ authority \in [revision : Nat, granted : BOOLEAN]
    /\ github \in PullRequests
    /\ mail \subseteq Event /\ inbox \subseteq mail /\ stale \subseteq inbox
    /\ watch \in Subscription
    /\ poller \in Pollers /\ thread \in Threads

(* What a mail says was so when it was sent: a success stands, and a review *)
(* is submitted in one state.                                               *)
MailStands(e) ==
    /\ e.kind = "check" => /\ e.subject \in Runs /\ e.head = RunHead[e.subject]
                           /\ e.what \in {"pending", "rerequested"} \cup Conclusions
                           /\ e.what = "pass" => github.run[e.subject] = "pass"
    /\ e.kind = "review" => /\ e.subject \in Reviews /\ e.what \in ReviewStates
                            /\ github.review[e.subject] # "none"

SubmittedOnce ==
    \A e, f \in mail :
        /\ e.kind = "review" /\ f.kind = "review" /\ e.subject = f.subject
        /\ e.what # "dismissed" /\ f.what # "dismissed"
        => e.what = f.what

MailStand == SubmittedOnce /\ \A e \in mail : MailStands(e)

(* Each success among the results is one of a run of that check on commit h.*)
Proven(run, results, h) ==
    \A c \in Checks : results[c].state = "pass" =>
        /\ results[c].run \in Runs /\ RunCheck[results[c].run] = c
        /\ RunHead[results[c].run] = h /\ run[results[c].run] = "pass"

(* The row says no more than its results and its reviews.                   *)
RowStands(run, w) ==
    /\ w \in Subscription /\ Proven(run, w.results, w.head)
    /\ w.checks = "pass" => \A c \in Checks : w.results[c].state = "pass"
    /\ w.remote = "pass" => w.checks = "pass" /\ w.review # "changes_requested"
    /\ (\E u \in Reviews : w.reviews[u] = "changes_requested") => w.review = "changes_requested"
    /\ w.evidence.id = <<>> => w.evidence = NoFeedback

(* A mark on a review has its reason, and while the subscription listens a  *)
(* request for changes that nobody answered is marked.                      *)
ReviewStands(v) ==
    /\ watch.reviews[v] = "dismissed" => Heard(v, "dismissed")
    /\ watch.reviews[v] = "superseded" =>
          \E u \in Reviews : u > v /\ Reviewer[u] = Reviewer[v] /\ Heard(u, "approved")
    /\ Listening /\ Unanswered(v) => watch.reviews[v] = "changes_requested"

ReviewsStand == \A v \in Reviews : ReviewStands(v)

(* A poll under way: what it had heard when it began, and what it brings.   *)
PollStands ==
    poller.at # "idle" =>
        /\ poller.token \in Heads /\ poller.heard \subseteq inbox
        /\ \A e \in Event : poller.seen.id = <<e>> => e \in poller.heard
        /\ poller.at = "answered" =>
              /\ poller.snapshot \in Answered
              /\ Proven(github.run, poller.snapshot.results, poller.snapshot.head)

EvidenceWasHeard == \A e \in Event : watch.evidence.id = <<e>> => e \in inbox

(* If the evidence is what it was when the poll began, nothing was heard    *)
(* since that would have changed it.                                        *)
NewsStand ==
    poller.at # "idle" /\ Listening /\ watch.evidence.id = poller.seen.id /\ watch.evidence.id # <<>> =>
        \A e \in inbox \ poller.heard : e.kind # "head" /\ e.what # "pending" => e \in stale

(* The inductive invariant.                                                 *)
CIInv ==
    /\ WatchTyped /\ MailStand /\ RowStands(github.run, watch) /\ ReviewsStand
    /\ PollStands /\ EvidenceWasHeard /\ NewsStand
    /\ watch.revision <= authority.revision

-----------------------------------------------------------------------------
(* What evidence makes of a row *)

(* Row v is enabled as w is, and was granted when w was.                    *)
SameGrant(w, v) == v.enabled = w.enabled /\ v.revision = w.revision

LEMMA ResultTyped == NoResult \in Result /\ NoResults \in Results /\ NoFeedback \in Evidence
  BY DEF NoResult, NoResults, NoFeedback, Result, Results, Evidence, EvidenceId, RunStates

LEMMA MovedStands ==
    ASSUME NEW run, NEW w, RowStands(run, w), NEW h \in Heads
    PROVE  /\ RowStands(run, Moved(w, h)) /\ SameGrant(w, Moved(w, h))
           /\ Moved(w, h).reviews = w.reviews /\ Moved(w, h).evidence = NoFeedback
  <1> DEFINE m == Moved(w, h)
  <1>1. w \in Subscription
    BY DEF RowStands
  <1>2. /\ m \in Subscription /\ m.head = h /\ m.remote = "pending" /\ m.checks = "pending"
        /\ m.evidence = NoFeedback /\ m.results = NoResults
        /\ m.enabled = w.enabled /\ m.revision = w.revision
        /\ m.reviews = w.reviews /\ m.review = w.review
    BY <1>1, ResultTyped DEF Moved, Subscription, CheckStatus
  <1>3. Proven(run, NoResults, h)
    BY DEF Proven, NoResults, NoResult
  <1> HIDE DEF m
  <1>4. RowStands(run, m)
    BY <1>2, <1>3 DEF RowStands
  <1> QED BY <1>2, <1>4 DEF SameGrant, m

LEMMA JudgedWell ==
    ASSUME NEW results
    PROVE  Judged(results) \in CheckStatus /\ (Judged(results) = "pass" => \A c \in Checks : results[c].state = "pass")
  BY DEF Judged, CheckStatus

(* Row n is what some evidence made of row w, remembered as id.             *)
Becomes(run, w, n, id) ==
    /\ RowStands(run, n) /\ SameGrant(w, n) /\ n.head = w.head
    /\ n.evidence.id = id

LEMMA ChecksNotedStands ==
    ASSUME NEW run, NEW w, RowStands(run, w), NEW id \in EvidenceId \ {<<>>},
           NEW results \in Results, Proven(run, results, w.head)
    PROVE  LET n == ChecksNoted(w, id, results) IN
           Becomes(run, w, n, id) /\ n.reviews = w.reviews
  <1> DEFINE n == ChecksNoted(w, id, results)
  <1>1. w \in Subscription
    BY DEF RowStands
  <1>2. PICK feedback \in BOOLEAN : feedback = \E c \in Checks : results[c].state = "fail"
    OBVIOUS
  <1>3. PICK judged \in CheckStatus : judged = Judged(results)
    BY JudgedWell
  <1> DEFINE a == [w EXCEPT !.results = results, !.checks = judged]
             b == [a EXCEPT !.evidence = [id |-> id, feedback |-> feedback, queued |-> FALSE]]
  <1>4. n = [b EXCEPT !.remote = Remote(b)]
    BY <1>2, <1>3 DEF ChecksNoted, Settled, Noted
  <1>5. /\ b \in Subscription /\ b.results = results /\ b.checks = judged /\ b.evidence.id = id
        /\ b.enabled = w.enabled /\ b.revision = w.revision /\ b.head = w.head
        /\ b.reviews = w.reviews /\ b.review = w.review
    BY <1>1 DEF Subscription, Evidence
  <1> HIDE DEF b
  <1>6. Remote(b) \in CheckStatus /\ (Remote(b) = "pass" => b.checks = "pass" /\ b.review # "changes_requested")
    BY <1>5 DEF Remote, CheckStatus
  <1>7. /\ n \in Subscription /\ n.results = results /\ n.checks = judged /\ n.evidence.id = id
        /\ n.enabled = w.enabled /\ n.revision = w.revision /\ n.head = w.head
        /\ n.reviews = w.reviews /\ n.review = w.review /\ n.remote = Remote(b)
    BY <1>4, <1>5, <1>6 DEF Subscription
  <1> HIDE DEF n
  <1>8. RowStands(run, n)
    BY <1>3, <1>5, <1>6, <1>7, JudgedWell DEF RowStands
  <1> QED BY <1>7, <1>8 DEF Becomes, SameGrant, n

(* Settling makes the status follow checks and reviews again.               *)
LEMMA SettledStands ==
    ASSUME NEW run, NEW w \in Subscription, Proven(run, w.results, w.head),
           w.checks = "pass" => \A c \in Checks : w.results[c].state = "pass",
           (\E u \in Reviews : w.reviews[u] = "changes_requested") => w.review = "changes_requested",
           w.evidence.id = <<>> => w.evidence = NoFeedback
    PROVE  LET n == Settled(w) IN
           Becomes(run, w, n, w.evidence.id) /\ n.reviews = w.reviews
  <1> DEFINE n == Settled(w)
  <1>1. Remote(w) \in CheckStatus /\ (Remote(w) = "pass" => w.checks = "pass" /\ w.review # "changes_requested")
    BY DEF Remote, CheckStatus, Subscription
  <1>2. /\ n \in Subscription /\ n.results = w.results /\ n.checks = w.checks /\ n.evidence = w.evidence
        /\ n.enabled = w.enabled /\ n.revision = w.revision /\ n.head = w.head
        /\ n.reviews = w.reviews /\ n.review = w.review /\ n.remote = Remote(w)
    BY <1>1 DEF Settled, Subscription
  <1> HIDE DEF n
  <1>3. RowStands(run, n)
    BY <1>1, <1>2 DEF RowStands
  <1> QED BY <1>2, <1>3 DEF Becomes, SameGrant, n

LEMMA NotedRow ==
    ASSUME NEW w \in Subscription, NEW id \in EvidenceId, NEW feedback \in BOOLEAN
    PROVE  LET n == Noted(w, id, feedback) IN
           /\ n \in Subscription /\ n.results = w.results /\ n.checks = w.checks /\ n.evidence.id = id
           /\ n.enabled = w.enabled /\ n.revision = w.revision /\ n.head = w.head
           /\ n.reviews = w.reviews /\ n.review = w.review
  BY DEF Noted, Subscription, Evidence

LEMMA QueryFailedStands ==
    ASSUME NEW run, NEW w, RowStands(run, w), NEW id \in EvidenceId \ {<<>>}
    PROVE  LET n == Settled(Noted([w EXCEPT !.checks = "query_error"], id, FALSE)) IN
           Becomes(run, w, n, id) /\ n.reviews = w.reviews
  <1> DEFINE a == [w EXCEPT !.checks = "query_error"]
             b == Noted(a, id, FALSE)
  <1>1. /\ a \in Subscription /\ a.results = w.results /\ a.checks = "query_error"
        /\ a.enabled = w.enabled /\ a.revision = w.revision /\ a.head = w.head
        /\ a.reviews = w.reviews /\ a.review = w.review
    BY DEF RowStands, Subscription, CheckStatus
  <1> HIDE DEF a
  <1>2. /\ b \in Subscription /\ b.results = a.results /\ b.checks = a.checks /\ b.evidence.id = id
        /\ b.enabled = a.enabled /\ b.revision = a.revision /\ b.head = a.head
        /\ b.reviews = a.reviews /\ b.review = a.review
    BY <1>1, NotedRow
  <1> HIDE DEF b
  <1>3. Becomes(run, b, Settled(b), id) /\ Settled(b).reviews = b.reviews
    BY <1>1, <1>2, SettledStands DEF RowStands
  <1>4. Becomes(run, w, Settled(b), id) /\ Settled(b).reviews = w.reviews
    BY <1>1, <1>2, <1>3 DEF Becomes, SameGrant
  <1> QED BY <1>4 DEF a, b

(* What a review, or its dismissal, makes of the marks.                     *)
Marks(w, r, v, what) ==
    /\ \A u \in Reviews :
          \/ r.reviews[u] = w.reviews[u]
          \/ u = v /\ r.reviews[u] = what
          \/ /\ r.reviews[u] = "superseded" /\ what = "approved"
             /\ v > u /\ Reviewer[v] = Reviewer[u]
    /\ what = "changes_requested" /\ w.reviews[v] # "dismissed" => r.reviews[v] = "changes_requested"

LEMMA ReviewedRow ==
    ASSUME NEW run, NEW w, RowStands(run, w), NEW v \in Reviews, NEW what \in ReviewStates
    PROVE  LET r == Reviewed(w, v, what) IN
           /\ r \in Subscription /\ r.results = w.results /\ r.checks = w.checks /\ r.evidence = w.evidence
           /\ r.enabled = w.enabled /\ r.revision = w.revision /\ r.head = w.head
           /\ (\E u \in Reviews : r.reviews[u] = "changes_requested") => r.review = "changes_requested"
           /\ Marks(w, r, v, what)
  <1> DEFINE r == Reviewed(w, v, what)
             placed == [w.reviews EXCEPT ![v] = what]
  <1>1. w \in Subscription /\ w.reviews \in [Reviews -> ReviewMarks]
    BY DEF RowStands, Subscription
  <1>2. CASE r = w
    <2>1. what = "changes_requested" => w.reviews[v] = "dismissed" \/ w.reviews[v] = "changes_requested"
      <3>1. CASE what = "comment" \/ (w.reviews[v] = "dismissed" /\ what # "dismissed")
        BY <3>1
      <3>2. CASE ~(what = "comment" \/ (w.reviews[v] = "dismissed" /\ what # "dismissed"))
                 /\ what = "changes_requested"
        <4>1. r = [w EXCEPT !.reviews = placed, !.review = "changes_requested"]
              \/ r = [w EXCEPT !.reviews = placed, !.review = what]
          BY <3>2 DEF Reviewed
        <4>2. r.reviews = placed
          BY <4>1, <1>1 DEF Subscription
        <4> QED BY <4>2, <1>1, <1>2, <3>2
      <3> QED BY <3>1, <3>2
    <2> QED BY <1>1, <1>2, <2>1 DEF RowStands, Marks
  <1>3. ASSUME NEW reviews \in [Reviews -> ReviewMarks], NEW review \in ReviewMarks,
               r = [w EXCEPT !.reviews = reviews, !.review = review],
               (\E u \in Reviews : reviews[u] = "changes_requested") => review = "changes_requested",
               Marks(w, [reviews |-> reviews], v, what)
        PROVE  /\ r \in Subscription /\ r.results = w.results /\ r.checks = w.checks /\ r.evidence = w.evidence
               /\ r.enabled = w.enabled /\ r.revision = w.revision /\ r.head = w.head
               /\ (\E u \in Reviews : r.reviews[u] = "changes_requested") => r.review = "changes_requested"
               /\ Marks(w, r, v, what)
    <2>1. /\ r \in Subscription /\ r.results = w.results /\ r.checks = w.checks /\ r.evidence = w.evidence
          /\ r.enabled = w.enabled /\ r.revision = w.revision /\ r.head = w.head
          /\ r.reviews = reviews /\ r.review = review
      BY <1>1, <1>3 DEF Subscription
    <2> HIDE DEF r
    <2>2. Marks(w, r, v, what)
      BY <1>3, <2>1 DEF Marks
    <2> QED BY <1>3, <2>1, <2>2
  <1>4. CASE ~(what = "comment" \/ (w.reviews[v] = "dismissed" /\ what # "dismissed"))
    <2> DEFINE reviews == IF what = "approved" THEN Superseding(placed, v) ELSE placed
               review == IF \E u \in Reviews : reviews[u] = "changes_requested"
                         THEN "changes_requested" ELSE what
    <2>1. r = [w EXCEPT !.reviews = reviews, !.review = review]
      BY <1>4 DEF Reviewed
    <2>2. placed \in [Reviews -> ReviewMarks] /\ \A u \in Reviews : placed[u] = IF u = v THEN what ELSE w.reviews[u]
      BY <1>1 DEF ReviewMarks
    <2>3. review \in ReviewMarks
      BY DEF ReviewMarks, ReviewStates
    <2>4. reviews \in [Reviews -> ReviewMarks]
      BY <2>2 DEF Superseding, ReviewMarks
    <2>5. \A u \in Reviews :
             \/ reviews[u] = placed[u]
             \/ reviews[u] = "superseded" /\ what = "approved" /\ v > u /\ Reviewer[v] = Reviewer[u]
      BY WatchConstants DEF Superseding
    <2>6. what = "changes_requested" => reviews[v] = what
      BY <2>2
    <2>7. Marks(w, [reviews |-> reviews], v, what)
      BY <2>2, <2>5, <2>6 DEF Marks
    <2> HIDE DEF reviews
    <2> QED BY <1>3, <2>1, <2>3, <2>4, <2>7
  <1>5. CASE what = "comment" \/ (w.reviews[v] = "dismissed" /\ what # "dismissed")
    BY <1>2, <1>5 DEF Reviewed
  <1> QED BY <1>4, <1>5

-----------------------------------------------------------------------------
(* The shapes of a step *)

LEMMA CIAssembled ==
    ASSUME CIInv, UNCHANGED <<authority, github, mail>>, inbox' \subseteq mail, stale' \subseteq inbox',
           RowStands(github.run, watch'), watch'.revision = watch.revision,
           poller' \in Pollers, thread' \in Threads,
           ReviewsStand', PollStands', EvidenceWasHeard', NewsStand'
    PROVE  CIInv'
  <1>1. WatchTyped'
    BY DEF CIInv, WatchTyped, RowStands, Pollers, Threads
  <1>2. MailStand'
    BY DEF CIInv, MailStand, SubmittedOnce, MailStands
  <1> QED BY <1>1, <1>2 DEF CIInv

LEMMA ListensOn ==
    ASSUME UNCHANGED authority, watch'.revision = watch.revision, watch'.enabled => watch.enabled
    PROVE  Listening' => Listening
  BY DEF Listening, InForce, Allows

LEMMA HeardStays ==
    ASSUME inbox \subseteq inbox', NEW v, NEW what, Heard(v, what)
    PROVE  Heard(v, what)'
  BY DEF Heard

(* What arrives is no request for changes that counts.                      *)
LEMMA ReviewsRest ==
    ASSUME CIInv, watch'.reviews = watch.reviews, Listening' => Listening, inbox \subseteq inbox',
           Listening' => \A e \in (inbox' \ stale') \ (inbox \ stale) :
                             ~(e.kind = "review" /\ e.what = "changes_requested")
    PROVE  ReviewsStand'
  <1> SUFFICES ASSUME NEW v \in Reviews PROVE ReviewStands(v)'
    BY DEF ReviewsStand
  <1>1. ReviewStands(v)
    BY DEF CIInv, ReviewsStand
  <1>2. watch'.reviews[v] = "dismissed" => Heard(v, "dismissed")'
    BY <1>1, HeardStays DEF ReviewStands
  <1>3. watch'.reviews[v] = "superseded" =>
          \E u \in Reviews : u > v /\ Reviewer[u] = Reviewer[v] /\ Heard(u, "approved")'
    BY <1>1, HeardStays DEF ReviewStands
  <1>4. Listening' /\ Unanswered(v)' => Unanswered(v)
    BY HeardStays DEF Unanswered
  <1>5. Listening' /\ Unanswered(v)' => watch'.reviews[v] = "changes_requested"
    BY <1>1, <1>4 DEF ReviewStands
  <1> QED BY <1>2, <1>3, <1>5 DEF ReviewStands

LEMMA PollRests ==
    ASSUME CIInv, UNCHANGED <<github, poller>>, inbox \subseteq inbox' PROVE PollStands'
  BY DEF CIInv, PollStands

LEMMA ActedOn ==
    ASSUME NEW run, NEW w, RowStands(run, w), ActOn(w), thread \in Threads
    PROVE  /\ RowStands(run, watch') /\ SameGrant(w, watch') /\ watch'.reviews = w.reviews
           /\ watch'.evidence.id = w.evidence.id /\ thread' \in Threads
  <1>1. CASE watch' = w /\ thread' = thread
    BY <1>1 DEF SameGrant
  <1>2. CASE Repairable(w, thread) /\ watch' = Queued(w) /\ thread' = [thread EXCEPT !.at = "queued", !.repairs = w.head]
    <2>1. w \in Subscription /\ w.turns < MaxTurns /\ w.evidence.feedback
      BY <1>2 DEF Repairable, RowStands
    <2>2. w.turns + 1 \in 0..MaxTurns /\ w.evidence \in Evidence /\ w.head \in Heads
      BY <2>1, WatchConstants DEF Subscription
    <2>3. w.evidence # NoFeedback
      BY <2>1 DEF NoFeedback
    <2>4. [w.evidence EXCEPT !.queued = TRUE] \in Evidence /\ [w.evidence EXCEPT !.queued = TRUE].id = w.evidence.id
      BY <2>2 DEF Evidence
    <2>5. watch' = [w EXCEPT !.turns = w.turns + 1, !.evidence = [w.evidence EXCEPT !.queued = TRUE]]
      BY <1>2, <2>1 DEF Queued, Subscription
    <2>6. /\ watch' \in Subscription /\ watch'.results = w.results /\ watch'.checks = w.checks
          /\ watch'.enabled = w.enabled /\ watch'.revision = w.revision /\ watch'.head = w.head
          /\ watch'.reviews = w.reviews /\ watch'.review = w.review /\ watch'.remote = w.remote
          /\ watch'.evidence.id = w.evidence.id
      BY <2>1, <2>2, <2>4, <2>5 DEF Subscription
    <2>7. RowStands(run, watch')
      BY <2>3, <2>6 DEF RowStands
    <2>8. thread' \in Threads
      BY <1>2, <2>2 DEF Threads
    <2> QED BY <2>6, <2>7, <2>8 DEF SameGrant
  <1> QED BY <1>1, <1>2 DEF ActOn

-----------------------------------------------------------------------------
(* The steps that read no event *)

CIParts == WatchTyped /\ watch \in Subscription /\ poller \in Pollers /\ thread \in Threads

LEMMA CIPartsHold == ASSUME CIInv PROVE CIParts
  BY DEF CIInv, CIParts, WatchTyped, Pollers, Threads

(* Nothing is heard, and the reviews keep their marks.                      *)
LEMMA QuietStep ==
    ASSUME CIInv, UNCHANGED <<authority, github, mail, inbox, stale>>,
           RowStands(github.run, watch'), watch'.revision = watch.revision,
           watch'.enabled => watch.enabled, watch'.reviews = watch.reviews,
           poller' \in Pollers, thread' \in Threads,
           PollStands', EvidenceWasHeard', NewsStand'
    PROVE  CIInv'
  <1>1. Listening' => Listening
    BY ListensOn
  <1>2. ReviewsStand'
    BY <1>1, ReviewsRest
  <1>3. inbox' \subseteq mail /\ stale' \subseteq inbox'
    BY DEF CIInv, WatchTyped
  <1> QED BY <1>2, <1>3, CIAssembled

LEMMA ResumeEligibleKeeps == ASSUME CIInv, ResumeEligible, UNCHANGED authority PROVE CIInv'
  <1>1. RowStands(github.run, watch) /\ ActOn(watch) /\ CIParts
    BY CIPartsHold DEF CIInv, ResumeEligible
  <1>2. /\ RowStands(github.run, watch') /\ SameGrant(watch, watch') /\ watch'.reviews = watch.reviews
        /\ watch'.evidence.id = watch.evidence.id /\ thread' \in Threads
    BY <1>1, ActedOn DEF CIParts
  <1>3. UNCHANGED <<github, mail, inbox, stale, poller>>
    BY DEF ResumeEligible
  <1>4. PollStands' /\ EvidenceWasHeard'
    BY <1>2, <1>3, PollRests DEF CIInv, EvidenceWasHeard
  <1>5. NewsStand'
    BY <1>2, <1>3, ListensOn DEF CIInv, NewsStand, SameGrant
  <1> QED BY <1>1, <1>2, <1>3, <1>4, <1>5, QuietStep DEF SameGrant, CIParts

LEMMA ReserveKeeps == ASSUME CIInv, Reserve, UNCHANGED authority PROVE CIInv'
  <1>1. CIParts /\ RowStands(github.run, watch) /\ EvidenceWasHeard
    BY CIPartsHold DEF CIInv
  <1>2. UNCHANGED <<github, mail, inbox, stale, thread>> /\ watch' = [watch EXCEPT !.polls = watch.polls + 1]
        /\ watch.polls < MaxPolls
    BY DEF Reserve
  <1>3. /\ watch' \in Subscription /\ watch'.results = watch.results /\ watch'.checks = watch.checks
        /\ watch'.enabled = watch.enabled /\ watch'.revision = watch.revision /\ watch'.head = watch.head
        /\ watch'.reviews = watch.reviews /\ watch'.review = watch.review /\ watch'.remote = watch.remote
        /\ watch'.evidence = watch.evidence
    BY <1>1, <1>2, WatchConstants DEF CIParts, Subscription
  <1>4. RowStands(github.run, watch')
    BY <1>1, <1>3 DEF RowStands
  <1>5. poller' = [at |-> "asking", token |-> watch.head, seen |-> watch.evidence,
                   results |-> watch.results, heard |-> inbox, snapshot |-> <<>>]
    BY DEF Reserve
  <1>6. watch.head \in Heads /\ watch.evidence \in Evidence /\ watch.results \in Results /\ inbox \subseteq Event
    BY <1>1 DEF CIParts, Subscription, WatchTyped
  <1>7. poller' \in Pollers
    BY <1>5, <1>6 DEF Pollers
  <1>8. PollStands'
    BY <1>1, <1>2, <1>5, <1>6 DEF PollStands, EvidenceWasHeard
  <1>9. EvidenceWasHeard' /\ NewsStand'
    BY <1>1, <1>2, <1>3, <1>5 DEF EvidenceWasHeard, NewsStand
  <1> QED BY <1>1, <1>2, <1>3, <1>4, <1>7, <1>8, <1>9, QuietStep DEF CIParts

(* What GitHub answers is so, and stays so while the answer travels.        *)
LEMMA SnapshotStands ==
    ASSUME CIInv PROVE Snapshot \in Answered /\ Proven(github.run, Snapshot.results, Snapshot.head)
  <1>1. github.head \in Heads /\ github.run \in [Runs -> RunStates]
    BY DEF CIInv, WatchTyped, PullRequests
  <1>2. ASSUME NEW c \in Checks
        PROVE  /\ Newest(c) \in Result
               /\ Newest(c).state = "pass" => /\ Newest(c).run \in Runs /\ RunCheck[Newest(c).run] = c
                                              /\ RunHead[Newest(c).run] = github.head
                                              /\ github.run[Newest(c).run] = "pass"
    <2> DEFINE runs == {r \in Runs : RunCheck[r] = c /\ RunHead[r] = github.head /\ github.run[r] # "none"}
               newest == {r \in runs : \A q \in runs : q <= r}
               best == CHOOSE r \in newest : TRUE
    <2>1. Newest(c) = IF newest = {} THEN NoResult
                      ELSE [run |-> best, state |-> github.run[best], invalidated |-> FALSE]
      BY Zenon DEF Newest
    <2>2. newest # {} => best \in newest
      OBVIOUS
    <2>3. newest \subseteq runs
      OBVIOUS
    <2> HIDE DEF newest, best
    <2>4. CASE newest = {}
      BY <2>1, <2>4, ResultTyped DEF NoResult
    <2>5. CASE newest # {}
      <3>1. best \in runs
        BY <2>2, <2>3, <2>5
      <3> QED BY <1>1, <2>1, <2>5, <3>1 DEF Result
    <2> QED BY <2>4, <2>5
  <1>3. Snapshot.results = [c \in Checks |-> Newest(c)] /\ Snapshot.head = github.head
    BY DEF Snapshot
  <1>4. Snapshot.results \in Results
    BY <1>2, <1>3 DEF Results
  <1> QED BY <1>1, <1>2, <1>3, <1>4 DEF Snapshot, Answered, Proven

LEMMA PollAnsweredKeeps == ASSUME CIInv, PollAnswered, UNCHANGED authority PROVE CIInv'
  <1>1. CIParts /\ poller.at = "asking" /\ poller.token \in Heads
    BY CIPartsHold DEF CIInv, PollStands, PollAnswered
  <1>2. PICK snapshot \in {Snapshot, Failure} :
           poller' = [poller EXCEPT !.at = "answered", !.snapshot = snapshot]
    BY DEF PollAnswered
  <1>3. snapshot \in Answered /\ Proven(github.run, snapshot.results, snapshot.head)
    <2>1. CASE snapshot = Snapshot
      BY <2>1, SnapshotStands
    <2>2. CASE snapshot = Failure
      <3>1. snapshot.results = NoResults
        BY <2>2 DEF Failure
      <3>2. Proven(github.run, NoResults, snapshot.head)
        BY DEF Proven, NoResults, NoResult
      <3>3. snapshot \in Answered
        BY <1>1, <2>2, ResultTyped DEF Failure, Answered
      <3> QED BY <3>1, <3>2, <3>3
    <2> QED BY <1>2, <2>1, <2>2
  <1>4. /\ poller' \in Pollers /\ poller'.token = poller.token /\ poller'.seen = poller.seen
        /\ poller'.heard = poller.heard /\ poller'.snapshot = snapshot
    BY <1>1, <1>2, <1>3 DEF CIParts, Pollers
  <1>5. UNCHANGED <<github, mail, inbox, stale, watch, thread>>
    BY DEF PollAnswered
  <1>6. PollStands' /\ EvidenceWasHeard' /\ NewsStand'
    BY <1>1, <1>3, <1>4, <1>5 DEF CIInv, PollStands, EvidenceWasHeard, NewsStand, Listening, InForce, Allows
  <1>7. RowStands(github.run, watch')
    BY <1>5 DEF CIInv
  <1> QED BY <1>1, <1>4, <1>5, <1>6, <1>7, QuietStep DEF CIParts

LEMMA AtRest == Resting \in Pollers /\ Resting.at = "idle"
  BY ResultTyped DEF Resting, Pollers

LEMMA PollEnds ==
    ASSUME CIInv, poller' = Resting, UNCHANGED <<authority, github, mail, inbox, stale>>,
           RowStands(github.run, watch'), watch'.revision = watch.revision,
           watch'.enabled => watch.enabled, watch'.reviews = watch.reviews, thread' \in Threads,
           EvidenceWasHeard'
    PROVE  CIInv'
  <1>1. poller' \in Pollers /\ PollStands' /\ NewsStand'
    BY AtRest DEF PollStands, NewsStand
  <1> QED BY <1>1, QuietStep

LEMMA PolledStands ==
    ASSUME CIInv, NEW snapshot \in Answered, Proven(github.run, snapshot.results, snapshot.head)
    PROVE  LET w == Polled(snapshot) IN
           /\ RowStands(github.run, w) /\ SameGrant(watch, w) /\ w.reviews = watch.reviews
           /\ w.evidence.id \in {watch.evidence.id, PollId}
  <1> DEFINE w == Polled(snapshot)
  <1>1. watch \in Subscription /\ RowStands(github.run, watch) /\ snapshot.results \in Results
    BY DEF CIInv, RowStands, Answered
  <1>2. PollId \in EvidenceId \ {<<>>}
    BY <1>1, WatchConstants DEF Subscription, PollId, EvidenceId
  <1>3. CASE snapshot.head # watch.head
    <2>1. w = [watch EXCEPT !.remote = "head_mismatch"]
      BY <1>3 DEF Polled
    <2>2. /\ w \in Subscription /\ w.results = watch.results /\ w.checks = watch.checks
          /\ w.enabled = watch.enabled /\ w.revision = watch.revision /\ w.head = watch.head
          /\ w.reviews = watch.reviews /\ w.review = watch.review /\ w.remote = "head_mismatch"
          /\ w.evidence = watch.evidence
      BY <1>1, <2>1 DEF Subscription
    <2> HIDE DEF w
    <2>3. RowStands(github.run, w) /\ SameGrant(watch, w)
      BY <1>1, <2>2 DEF RowStands, SameGrant
    <2> QED BY <2>2, <2>3 DEF w
  <1>4. CASE snapshot.head = watch.head /\ snapshot.failed
    <2>1. w = Settled(Noted([watch EXCEPT !.checks = "query_error"], PollId, FALSE))
      BY <1>4 DEF Polled
    <2>2. Becomes(github.run, watch, w, PollId) /\ w.reviews = watch.reviews
      BY <1>1, <1>2, <2>1, QueryFailedStands
    <2> QED BY <2>2 DEF Becomes
  <1>5. CASE snapshot.head = watch.head /\ ~snapshot.failed
    <2>1. w = ChecksNoted(watch, PollId, snapshot.results)
      BY <1>5 DEF Polled
    <2>2. Becomes(github.run, watch, w, PollId) /\ w.reviews = watch.reviews
      BY <1>1, <1>2, <1>5, <2>1, ChecksNotedStands
    <2> QED BY <2>2 DEF Becomes
  <1> QED BY <1>3, <1>4, <1>5

LEMMA PollCommittedKeeps == ASSUME CIInv, PollCommitted, UNCHANGED authority PROVE CIInv'
  <1>1. /\ CIParts /\ RowStands(github.run, watch) /\ EvidenceWasHeard
        /\ poller.snapshot \in Answered
        /\ Proven(github.run, poller.snapshot.results, poller.snapshot.head)
    BY CIPartsHold DEF CIInv, PollStands, PollCommitted
  <1>2. poller' = Resting /\ UNCHANGED <<github, mail, inbox, stale>>
    BY DEF PollCommitted
  <1>3. CASE UNCHANGED <<watch, thread>>
    BY <1>1, <1>2, <1>3, PollEnds DEF EvidenceWasHeard, CIParts
  <1>4. CASE ActOn(Polled(poller.snapshot))
    <2>1. PICK w : /\ w = Polled(poller.snapshot) /\ RowStands(github.run, w) /\ SameGrant(watch, w)
                   /\ w.reviews = watch.reviews /\ w.evidence.id \in {watch.evidence.id, PollId}
      BY <1>1, PolledStands
    <2>2. /\ RowStands(github.run, watch') /\ SameGrant(w, watch') /\ watch'.reviews = w.reviews
          /\ watch'.evidence.id = w.evidence.id /\ thread' \in Threads
      BY <1>1, <1>4, <2>1, ActedOn DEF CIParts
    <2>3. \A e \in Event : PollId # <<e>>
      BY DEF PollId
    <2>4. EvidenceWasHeard'
      BY <1>1, <1>2, <2>1, <2>2, <2>3 DEF EvidenceWasHeard
    <2> QED BY <1>2, <2>1, <2>2, <2>4, PollEnds DEF SameGrant
  <1> QED BY <1>3, <1>4 DEF PollCommitted

LEMMA PollDroppedKeeps == ASSUME CIInv, PollDropped, UNCHANGED authority PROVE CIInv'
  <1>1. CIParts /\ RowStands(github.run, watch) /\ EvidenceWasHeard
    BY CIPartsHold DEF CIInv
  <1> QED BY <1>1, PollEnds DEF PollDropped, EvidenceWasHeard, CIParts

-----------------------------------------------------------------------------
(* GitHub *)

(* GitHub mails m: no success is taken back, and a review is sent once.     *)
LEMMA GitHubMoves ==
    ASSUME CIInv, UNCHANGED authority, UNCHANGED unmoved,
           github' \in PullRequests,
           \A r \in Runs : github.run[r] = "pass" => github'.run[r] = "pass",
           \A v \in Reviews : github.review[v] # "none" => github'.review[v] # "none",
           NEW m \in Event, mail' = mail \cup {m}, MailStands(m)',
           m.kind = "review" /\ m.what # "dismissed" => github.review[m.subject] = "none"
    PROVE  CIInv'
  <1>1. WatchTyped'
    BY DEF CIInv, WatchTyped, unmoved
  <1>2. \A e \in mail : MailStands(e)'
    BY DEF CIInv, MailStand, MailStands
  <1>3. SubmittedOnce'
    <2> SUFFICES ASSUME NEW e \in mail', NEW f \in mail', e.kind = "review", f.kind = "review",
                        e.subject = f.subject, e.what # "dismissed", f.what # "dismissed"
                 PROVE  e.what = f.what
      BY DEF SubmittedOnce
    <2>1. \A g \in mail : g.kind = "review" => github.review[g.subject] # "none"
      BY DEF CIInv, MailStand, MailStands
    <2>2. CASE e \in mail /\ f \in mail
      BY <2>2 DEF CIInv, MailStand, SubmittedOnce
    <2>3. CASE e = m /\ f = m
      BY <2>3
    <2>4. CASE e \in mail /\ f = m
      BY <2>1, <2>4
    <2>5. CASE e = m /\ f \in mail
      BY <2>1, <2>5
    <2> QED BY <2>2, <2>3, <2>4, <2>5
  <1>4. MailStand'
    BY <1>2, <1>3 DEF MailStand
  <1>5. ASSUME NEW results, NEW h, Proven(github.run, results, h) PROVE Proven(github'.run, results, h)
    BY <1>5 DEF Proven
  <1>6. RowStands(github.run, watch)'
    BY <1>5 DEF CIInv, RowStands, unmoved
  <1>7. PollStands'
    BY <1>5 DEF CIInv, PollStands, unmoved
  <1>8. (ReviewsStand /\ EvidenceWasHeard /\ NewsStand /\ watch.revision <= authority.revision)'
    BY DEF CIInv, ReviewsStand, ReviewStands, Unanswered, Heard, EvidenceWasHeard, NewsStand,
           Listening, InForce, Allows, unmoved
  <1> QED BY <1>1, <1>4, <1>6, <1>7, <1>8 DEF CIInv

LEMMA PushKeeps == ASSUME CIInv, UNCHANGED authority, NEW h \in Heads, Push(h) PROVE CIInv'
  <1>1. github \in PullRequests
    BY DEF CIInv, WatchTyped
  <1>2. /\ github' \in PullRequests
        /\ github'.run = github.run /\ github'.review = github.review
    BY <1>1 DEF Push, PullRequests
  <1>3. PICK m \in Event : m.kind = "head" /\ mail' = mail \cup {m}
    BY <1>1 DEF Push, Mailed, Event, PullRequests
  <1>4. MailStands(m)'
    BY <1>3 DEF MailStands
  <1> QED BY <1>2, <1>3, <1>4, GitHubMoves DEF Push

LEMMA RunMovesKeeps ==
    ASSUME CIInv, UNCHANGED authority, NEW r \in Runs, NEW from, NEW to, NEW what, RunMoves(r, from, to, what),
           to \in RunStates, what \in {"pending", "rerequested"} \cup Conclusions, what = "pass" => to = "pass",
           github.run[r] = "pass" => to = "pass"
    PROVE  CIInv'
  <1>1. github \in PullRequests
    BY DEF CIInv, WatchTyped
  <1>2. github' = [github EXCEPT !.run = [github.run EXCEPT ![r] = to]]
    BY <1>1 DEF RunMoves
  <1>3. /\ github' \in PullRequests
        /\ github'.run = [github.run EXCEPT ![r] = to] /\ github'.review = github.review
    BY <1>1, <1>2 DEF PullRequests
  <1>4. \A q \in Runs : github.run[q] = "pass" => github'.run[q] = "pass"
    BY <1>1, <1>3
  <1>5. PICK m \in Event : /\ m.kind = "check" /\ m.subject = r /\ m.what = what /\ m.head = RunHead[r]
                          /\ mail' = mail \cup {m}
    BY WatchConstants DEF RunMoves, Mailed, Event
  <1>6. github'.run[r] = to
    BY <1>1, <1>3 DEF PullRequests
  <1>7. MailStands(m)'
    BY <1>5, <1>6 DEF MailStands
  <1> QED BY <1>3, <1>4, <1>5, <1>7, GitHubMoves DEF RunMoves

LEMMA CheckStepKeeps == ASSUME CIInv, UNCHANGED authority, CheckStep PROVE CIInv'
  <1>1. ASSUME NEW r \in Runs, StartRun(r) PROVE CIInv'
    <2>1. RunMoves(r, {"none"}, "pending", "pending") /\ github.run[r] = "none"
      BY <1>1 DEF StartRun, RunMoves
    <2> QED BY <2>1, RunMovesKeeps DEF RunStates
  <1>2. ASSUME NEW r \in Runs, EndRun(r) PROVE CIInv'
    <2>1. PICK state \in Conclusions : RunMoves(r, {"pending"}, state, state)
      BY <1>2 DEF EndRun
    <2>2. github.run[r] = "pending"
      BY <2>1 DEF RunMoves
    <2> QED BY <2>1, <2>2, RunMovesKeeps DEF RunStates
  <1>3. ASSUME NEW r \in Runs, Rerequest(r) PROVE CIInv'
    <2>1. RunMoves(r, Conclusions, github.run[r], "rerequested") /\ github.run[r] \in Conclusions
      BY <1>3 DEF Rerequest, RunMoves
    <2> QED BY <2>1, RunMovesKeeps DEF RunStates
  <1> QED BY <1>1, <1>2, <1>3, PushKeeps DEF CheckStep

LEMMA ReviewKeeps ==
    ASSUME CIInv, UNCHANGED authority, NEW v \in Reviews, NEW state \in ReviewStates, Review(v, state)
    PROVE  CIInv'
  <1>1. github \in PullRequests
    BY DEF CIInv, WatchTyped
  <1>2. github' = [github EXCEPT !.review = [github.review EXCEPT ![v] = state]]
    BY <1>1 DEF Review
  <1>3. /\ github' \in PullRequests
        /\ github'.run = github.run /\ github'.review = [github.review EXCEPT ![v] = state]
    BY <1>1, <1>2 DEF PullRequests
  <1>4. PICK h \in Heads : Mailed("review", v, state, h, NoHead)
    BY DEF Review
  <1>5. PICK m \in Event : /\ m.kind = "review" /\ m.subject = v /\ m.what = state
                          /\ mail' = mail \cup {m}
    BY <1>4 DEF Mailed, Event
  <1>6. github'.review[v] # "none" /\ \A u \in Reviews : github.review[u] # "none" => github'.review[u] # "none"
    BY <1>1, <1>3 DEF ReviewStates, PullRequests
  <1>7. MailStands(m)'
    BY <1>5, <1>6 DEF MailStands
  <1>8. m.kind = "review" /\ m.what # "dismissed" => github.review[m.subject] = "none"
    BY <1>5 DEF Review
  <1> QED BY <1>3, <1>5, <1>6, <1>7, <1>8, GitHubMoves DEF Review

-----------------------------------------------------------------------------
(* What arrives *)

LEMMA ReceiveAssembled ==
    ASSUME CIInv, UNCHANGED authority, NEW e \in mail, Receive(e), stale' \in {stale, stale \cup {e}},
           RowStands(github.run, watch'), SameGrant(watch, watch'), thread' \in Threads,
           watch'.evidence.id \in {watch.evidence.id, <<>>, <<e>>},
           Listening /\ watch'.evidence.id = watch.evidence.id
               => e \in stale' \/ e.kind = "head" \/ e.what = "pending",
           ReviewsStand'
    PROVE  CIInv'
  <1>1. /\ e \in Event /\ e \notin inbox /\ inbox' = inbox \cup {e} /\ UNCHANGED <<github, mail, poller>>
        /\ inbox' \subseteq mail /\ stale' \subseteq inbox' /\ poller' \in Pollers
    BY CIPartsHold DEF CIInv, WatchTyped, Receive, Fresh, CIParts
  <1>2. PollStands'
    BY <1>1, PollRests
  <1>3. \A f \in Event : <<e>> = <<f>> => e = f
    OBVIOUS
  <1>4. \A f \in Event : watch'.evidence.id = <<f>> => watch.evidence.id = <<f>> \/ f = e
    OBVIOUS
  <1>5. EvidenceWasHeard'
    BY <1>1, <1>4 DEF CIInv, EvidenceWasHeard
  <1>6. NewsStand'
    <2> SUFFICES ASSUME poller.at # "idle", Listening', watch'.evidence.id = poller.seen.id,
                        watch'.evidence.id # <<>>, NEW f \in inbox' \ poller.heard, f.kind # "head", f.what # "pending"
                 PROVE  f \in stale'
      BY <1>1 DEF NewsStand
    <2>1. Listening
      BY ListensOn DEF SameGrant
    <2>2. poller.seen.id # <<e>>
      BY <1>1 DEF CIInv, PollStands
    <2>3. watch'.evidence.id = watch.evidence.id
      BY <2>2
    <2>4. CASE f = e
      BY <2>1, <2>3, <2>4
    <2>5. CASE f \in inbox
      BY <2>1, <2>3, <2>5 DEF CIInv, NewsStand
    <2> QED BY <1>1, <2>4, <2>5
  <1> QED BY <1>1, <1>2, <1>5, <1>6, CIAssembled DEF SameGrant

(* It is not for the watched head, tells nothing new, or comes too late.    *)
LEMMA ReceiveRests ==
    ASSUME CIInv, UNCHANGED authority, NEW e \in mail, Receive(e), stale' \in {stale, stale \cup {e}},
           UNCHANGED <<watch, thread>>,
           Listening => \/ e \in stale' \/ e.kind = "head"
                        \/ e.kind = "check" /\ e.what = "pending"
    PROVE  CIInv'
  <1>1. CIParts /\ inbox' = inbox \cup {e}
    BY CIPartsHold DEF Receive
  <1>2. Listening' => Listening
    BY ListensOn
  <1>3. ReviewsStand'
    BY <1>1, <1>2, ReviewsRest
  <1>4. RowStands(github.run, watch') /\ SameGrant(watch, watch') /\ thread' \in Threads
    BY <1>1 DEF CIInv, SameGrant, CIParts
  <1> QED BY <1>3, <1>4, ReceiveAssembled

LEMMA ReceiveHeadKeeps == ASSUME CIInv, UNCHANGED authority, NEW e \in mail, ReceiveHead(e) PROVE CIInv'
  <1>1. e.kind = "head" /\ Receive(e) /\ CIParts /\ RowStands(github.run, watch) /\ e \in Event
    BY CIPartsHold DEF ReceiveHead, CIInv, WatchTyped
  <1>2. CASE Ignored
    BY <1>1, <1>2, ReceiveRests DEF Ignored
  <1>3. CASE watch' = Moved(watch, e.head) /\ UNCHANGED <<stale, thread>>
    <2>1. e.head \in Heads
      BY <1>1 DEF Event
    <2>2. /\ RowStands(github.run, watch') /\ SameGrant(watch, watch')
          /\ watch'.reviews = watch.reviews /\ watch'.evidence.id = <<>>
      BY <1>1, <1>3, <2>1, MovedStands DEF NoFeedback
    <2>3. inbox' = inbox \cup {e} /\ (Listening' => Listening)
      BY <1>1, <2>2, ListensOn DEF Receive, SameGrant
    <2>4. ReviewsStand'
      BY <1>1, <1>3, <2>2, <2>3, ReviewsRest
    <2> QED BY <1>1, <1>3, <2>2, <2>4, ReceiveAssembled DEF CIParts
  <1> QED BY <1>2, <1>3 DEF ReceiveHead

(* The result that an event leaves is typed, and a success GitHub's own.    *)
LEMMA SelectedStands ==
    ASSUME CIInv, NEW e \in mail, e.kind = "check", e.head = watch.head, ~OldNews(watch.results[RunCheck[e.subject]], e)
    PROVE  LET c == RunCheck[e.subject]
               results == [watch.results EXCEPT ![c] = Selected(watch.results[c], e.subject, e.what)]
           IN  c \in Checks /\ results \in Results /\ Proven(github.run, results, watch.head)
  <1> DEFINE c == RunCheck[e.subject]
             old == watch.results[c]
             new == Selected(old, e.subject, e.what)
             results == [watch.results EXCEPT ![c] = new]
  <1>1. /\ e.subject \in Runs /\ e.head = RunHead[e.subject]
        /\ e.what \in {"pending", "rerequested"} \cup Conclusions
        /\ e.what = "pass" => github.run[e.subject] = "pass"
    BY DEF CIInv, MailStand, MailStands
  <1>2. c \in Checks
    BY <1>1, WatchConstants
  <1>3. watch.results \in [Checks -> Result] /\ Proven(github.run, watch.results, watch.head) /\ old \in Result
    BY <1>2 DEF CIInv, RowStands, Subscription, Results
  <1> HIDE DEF old
  <1>4. /\ new \in Result
        /\ \/ new = old \/ new.state # "pass"
           \/ new = [run |-> e.subject, state |-> e.what, invalidated |-> FALSE]
    <2>1. CASE e.what = "rerequested"
      <3>1. new = [run |-> e.subject, state |-> "pending", invalidated |-> TRUE]
        BY <2>1 DEF Selected
      <3> QED BY <1>1, <3>1 DEF Result, RunStates
    <2>2. CASE e.what # "rerequested" /\ old.run \notin {NoRun, e.subject} /\ e.what # "pending"
      <3>1. new = [old EXCEPT !.state = "pending"]
        BY <2>2 DEF Selected
      <3> QED BY <1>3, <3>1 DEF Result, RunStates
    <2>3. CASE e.what # "rerequested" /\ ~(old.run \notin {NoRun, e.subject} /\ e.what # "pending")
      <3>1. \/ new = old \/ new = [run |-> e.subject, state |-> e.what, invalidated |-> FALSE]
        BY <2>3 DEF Selected
      <3>2. e.what \in RunStates
        BY <1>1, <2>3 DEF RunStates
      <3>3. [run |-> e.subject, state |-> e.what, invalidated |-> FALSE] \in Result
        BY <1>1, <3>2 DEF Result
      <3> HIDE DEF new
      <3> QED BY <1>3, <3>1, <3>3
    <2> QED BY <2>1, <2>2, <2>3
  <1> HIDE DEF new
  <1>5. results \in Results
    BY <1>3, <1>4 DEF Results
  <1>6. ASSUME NEW d \in Checks, results[d].state = "pass"
        PROVE  /\ results[d].run \in Runs /\ RunCheck[results[d].run] = d
               /\ RunHead[results[d].run] = watch.head /\ github.run[results[d].run] = "pass"
    <2>1. CASE results[d] = watch.results[d]
      BY <1>3, <1>6, <2>1 DEF Proven
    <2>2. CASE d = c /\ results[d] = [run |-> e.subject, state |-> e.what, invalidated |-> FALSE]
      BY <1>1, <1>6, <2>2
    <2>3. results[d] = IF d = c THEN new ELSE watch.results[d]
      BY <1>3
    <2> HIDE DEF results
    <2>4. d = c /\ new = old => results[d] = watch.results[d]
      BY <2>3 DEF old
    <2>5. d = c => new.state = "pass"
      BY <1>6, <2>3
    <2> QED BY <1>4, <2>1, <2>2, <2>3, <2>4, <2>5
  <1> HIDE DEF results
  <1>7. Proven(github.run, results, watch.head)
    BY <1>6 DEF Proven
  <1> QED BY <1>2, <1>5, <1>7 DEF results, new, old

LEMMA ReceiveCheckKeeps == ASSUME CIInv, UNCHANGED authority, NEW e \in mail, ReceiveCheck(e) PROVE CIInv'
  <1> DEFINE c == RunCheck[e.subject]
             results == [watch.results EXCEPT ![c] = Selected(watch.results[c], e.subject, e.what)]
  <1>1. e.kind = "check" /\ Receive(e) /\ CIParts /\ RowStands(github.run, watch) /\ e \in Event
    BY CIPartsHold DEF ReceiveCheck, CIInv, WatchTyped
  <1>2. CASE (~Listening \/ (e.head = watch.head /\ OldNews(watch.results[c], e))) /\ Ignored
    <2>1. Listening => e.what = "pending"
      BY <1>2 DEF OldNews
    <2> QED BY <1>1, <1>2, <2>1, ReceiveRests DEF Ignored
  <1>3. CASE stale' = stale \cup {e} /\ UNCHANGED <<watch, thread>>
    BY <1>1, <1>3, ReceiveRests
  <1>4. CASE /\ e.head = watch.head /\ ~OldNews(watch.results[c], e)
             /\ ActOn(ChecksNoted(watch, <<e>>, results)) /\ UNCHANGED stale
    <2>1. results \in Results /\ Proven(github.run, results, watch.head)
      BY <1>1, <1>4, SelectedStands
    <2>2. <<e>> \in EvidenceId \ {<<>>}
      BY <1>1 DEF EvidenceId
    <2>3. PICK w : /\ w = ChecksNoted(watch, <<e>>, results)
                   /\ Becomes(github.run, watch, w, <<e>>) /\ w.reviews = watch.reviews
      BY <1>1, <2>1, <2>2, ChecksNotedStands
    <2>4. /\ RowStands(github.run, watch') /\ SameGrant(w, watch') /\ watch'.reviews = w.reviews
          /\ watch'.evidence.id = w.evidence.id /\ thread' \in Threads
      BY <1>1, <1>4, <2>3, ActedOn DEF CIParts, Becomes
    <2>5. SameGrant(watch, watch') /\ watch'.evidence.id = <<e>> /\ watch'.reviews = watch.reviews
      BY <2>3, <2>4 DEF Becomes, SameGrant
    <2>6. inbox' = inbox \cup {e} /\ e \notin inbox /\ (Listening' => Listening)
      BY <1>1, <2>5, ListensOn DEF Receive, Fresh, SameGrant
    <2>7. ReviewsStand'
      BY <1>1, <1>4, <2>5, <2>6, ReviewsRest
    <2>8. watch.evidence.id # <<e>>
      BY <1>1, <2>6 DEF CIInv, EvidenceWasHeard
    <2> QED BY <1>1, <1>4, <2>4, <2>5, <2>7, <2>8, ReceiveAssembled
  <1>5. \/ (~Listening \/ (e.head = watch.head /\ OldNews(watch.results[c], e))) /\ Ignored
        \/ stale' = stale \cup {e} /\ UNCHANGED <<watch, thread>>
        \/ /\ e.head = watch.head /\ ~OldNews(watch.results[c], e)
           /\ ActOn(ChecksNoted(watch, <<e>>, results)) /\ UNCHANGED stale
    BY DEF ReceiveCheck
  <1> QED BY <1>2, <1>3, <1>4, <1>5

(* A review, or its dismissal, taken on record.                             *)
LEMMA ReviewTaken ==
    ASSUME CIInv, NEW e \in mail, e.kind = "review", Receive(e), Listening,
           Marks(watch, watch', e.subject, e.what),
           stale' = stale \/ (stale' = stale \cup {e} /\ e.what = "dismissed")
    PROVE  ReviewsStand'
  <1> SUFFICES ASSUME NEW v \in Reviews PROVE ReviewStands(v)'
    BY DEF ReviewsStand
  <1>1. /\ inbox' = inbox \cup {e} /\ e.subject \in Reviews /\ e.what \in ReviewStates
        /\ inbox' \subseteq mail
    BY DEF Receive, CIInv, WatchTyped, MailStand, MailStands
  <1>2. Heard(e.subject, e.what)'
    BY <1>1 DEF Heard
  <1>3. ReviewStands(v)
    BY DEF CIInv, ReviewsStand
  <1>4. \/ watch'.reviews[v] = watch.reviews[v]
        \/ v = e.subject /\ watch'.reviews[v] = e.what
        \/ /\ watch'.reviews[v] = "superseded" /\ e.what = "approved"
           /\ e.subject > v /\ Reviewer[e.subject] = Reviewer[v]
    BY DEF Marks
  <1>5. watch'.reviews[v] = "dismissed" => Heard(v, "dismissed")'
    BY <1>1, <1>2, <1>3, <1>4, HeardStays DEF ReviewStands
  <1>6. watch'.reviews[v] = "superseded" =>
          \E u \in Reviews : u > v /\ Reviewer[u] = Reviewer[v] /\ Heard(u, "approved")'
    <2>1. CASE watch.reviews[v] = "superseded"
      BY <1>1, <1>3, <2>1, HeardStays DEF ReviewStands
    <2>2. CASE watch'.reviews[v] = "superseded" /\ watch.reviews[v] # "superseded"
      <3>1. e.what # "superseded"
        BY <1>1 DEF ReviewStates
      <3> QED BY <1>1, <1>2, <1>4, <2>2, <3>1
    <2> QED BY <2>1, <2>2
  <1>7. ASSUME Unanswered(v)' PROVE watch'.reviews[v] = "changes_requested"
    <2>1. PICK f \in inbox' \ stale' : f.kind = "review" /\ f.subject = v /\ f.what = "changes_requested"
      BY <1>7 DEF Unanswered
    <2>2. ~Heard(v, "dismissed") /\ \A u \in Reviews : u > v /\ Reviewer[u] = Reviewer[v] => ~Heard(u, "approved")
      BY <1>1, <1>7, HeardStays DEF Unanswered
    <2>3. ~Heard(v, "dismissed")' /\ \A u \in Reviews : u > v /\ Reviewer[u] = Reviewer[v] => ~Heard(u, "approved")'
      BY <1>7 DEF Unanswered
    <2>4. watch.reviews[v] # "dismissed"
      BY <1>3, <2>2 DEF ReviewStands
    <2>5. CASE e.subject = v
      <3>1. e.what # "dismissed"
        BY <1>2, <2>3, <2>5
      <3>2. e.what = f.what
        BY <1>1, <2>1, <2>5, <3>1 DEF CIInv, MailStand, SubmittedOnce
      <3> QED BY <2>1, <2>4, <2>5, <3>2 DEF Marks
    <2>6. CASE e.subject # v
      <3>1. f \in inbox \ stale
        BY <1>1, <2>1, <2>6
      <3>2. watch.reviews[v] = "changes_requested"
        BY <1>3, <2>1, <2>2, <3>1 DEF ReviewStands, Unanswered
      <3>3. ~(e.what = "approved" /\ e.subject > v /\ Reviewer[e.subject] = Reviewer[v])
        BY <1>1, <1>2, <2>3
      <3> QED BY <1>4, <2>6, <3>2, <3>3
    <2> QED BY <2>5, <2>6
  <1> QED BY <1>5, <1>6, <1>7 DEF ReviewStands

LEMMA ReceiveReviewKeeps == ASSUME CIInv, UNCHANGED authority, NEW e \in mail, ReceiveReview(e) PROVE CIInv'
  <1> DEFINE r == Reviewed(watch, e.subject, e.what)
             feedback == e.what \in {"changes_requested", "commented", "comment"}
             n == Noted(r, <<e>>, feedback)
  <1>1. /\ e.kind = "review" /\ Receive(e) /\ CIParts /\ RowStands(github.run, watch) /\ e \in Event
        /\ e.subject \in Reviews /\ e.what \in ReviewStates
    BY CIPartsHold DEF ReceiveReview, CIInv, WatchTyped, MailStand, MailStands
  <1>2. /\ r \in Subscription /\ r.results = watch.results /\ r.checks = watch.checks /\ r.evidence = watch.evidence
        /\ r.enabled = watch.enabled /\ r.revision = watch.revision /\ r.head = watch.head
        /\ (\E u \in Reviews : r.reviews[u] = "changes_requested") => r.review = "changes_requested"
        /\ Marks(watch, r, e.subject, e.what)
    BY <1>1, ReviewedRow
  <1>0. feedback \in BOOLEAN
    OBVIOUS
  <1> HIDE DEF r, feedback
  <1>3. Proven(github.run, r.results, r.head) /\ (r.checks = "pass" => \A c \in Checks : r.results[c].state = "pass")
    BY <1>1, <1>2 DEF RowStands
  <1>4. <<e>> \in EvidenceId \ {<<>>} /\ watch.evidence.id # <<e>>
    BY <1>1 DEF EvidenceId, CIInv, EvidenceWasHeard, Receive, Fresh
  <1>5. CASE ~Listening /\ Ignored
    BY <1>1, <1>5, ReceiveRests DEF Ignored
  <1>6. CASE stale' = stale \cup {e} /\ UNCHANGED <<watch, thread>>
    BY <1>1, <1>6, ReceiveRests
  <1>7. CASE Listening /\ ActOn(Settled(n)) /\ UNCHANGED stale
    <2>1. /\ n \in Subscription /\ n.results = r.results /\ n.checks = r.checks /\ n.evidence.id = <<e>>
          /\ n.enabled = r.enabled /\ n.revision = r.revision /\ n.head = r.head
          /\ n.reviews = r.reviews /\ n.review = r.review
      BY <1>0, <1>2, <1>4, NotedRow
    <2> HIDE DEF n
    <2>2. PICK w : w = Settled(n) /\ Becomes(github.run, n, w, <<e>>) /\ w.reviews = n.reviews
      BY <1>2, <1>3, <1>4, <2>1, SettledStands
    <2>3. /\ RowStands(github.run, watch') /\ SameGrant(w, watch') /\ watch'.reviews = w.reviews
          /\ watch'.evidence.id = w.evidence.id /\ thread' \in Threads
      BY <1>1, <1>7, <2>2, ActedOn DEF CIParts, Becomes
    <2>4. SameGrant(watch, watch') /\ watch'.evidence.id = <<e>> /\ watch'.reviews = r.reviews
      BY <1>2, <2>1, <2>2, <2>3 DEF Becomes, SameGrant
    <2>5. Marks(watch, watch', e.subject, e.what)
      BY <1>2, <2>4 DEF Marks
    <2>6. ReviewsStand'
      BY <1>1, <1>7, <2>5, ReviewTaken
    <2> QED BY <1>1, <1>4, <1>7, <2>3, <2>4, <2>6, ReceiveAssembled
  <1>8. CASE /\ Listening /\ stale' = stale \cup {e} /\ e.what = "dismissed"
             /\ watch' = Settled(r) /\ UNCHANGED thread
    <2>1. /\ Becomes(github.run, r, watch', r.evidence.id) /\ watch'.reviews = r.reviews
      <3>1. r.evidence.id = <<>> => r.evidence = NoFeedback
        BY <1>1, <1>2 DEF RowStands
      <3> QED BY <1>2, <1>3, <1>8, <3>1, SettledStands
    <2>2. RowStands(github.run, watch') /\ SameGrant(watch, watch') /\ watch'.evidence.id = watch.evidence.id
      BY <1>2, <2>1 DEF Becomes, SameGrant
    <2>3. Marks(watch, watch', e.subject, e.what)
      BY <1>2, <2>1 DEF Marks
    <2>4. ReviewsStand'
      BY <1>1, <1>8, <2>3, ReviewTaken
    <2> QED BY <1>1, <1>8, <2>2, <2>4, ReceiveAssembled DEF CIParts
  <1>9. \/ ~Listening /\ Ignored
        \/ Listening /\ ActOn(Settled(n)) /\ UNCHANGED stale
        \/ stale' = stale \cup {e} /\ UNCHANGED <<watch, thread>>
        \/ /\ Listening /\ stale' = stale \cup {e} /\ e.what = "dismissed"
           /\ watch' = Settled(r) /\ UNCHANGED thread
    BY DEF ReceiveReview, r, feedback
  <1> QED BY <1>5, <1>6, <1>7, <1>8, <1>9

-----------------------------------------------------------------------------
(* The operator, and the Thread *)

LEMMA SelectHeadKeeps == ASSUME CIInv, UNCHANGED authority, NEW h \in Heads, SelectHead(h) PROVE CIInv'
  <1>1. CIParts /\ RowStands(github.run, watch)
    BY CIPartsHold DEF CIInv
  <1>2. watch' = Moved(watch, h) /\ UNCHANGED <<github, mail, inbox, stale, poller, thread>>
    BY DEF SelectHead
  <1>3. /\ RowStands(github.run, watch') /\ SameGrant(watch, watch')
        /\ watch'.reviews = watch.reviews /\ watch'.evidence.id = <<>>
    BY <1>1, <1>2, MovedStands DEF NoFeedback
  <1>4. \A e \in Event : <<e>> # <<>>
    OBVIOUS
  <1>5. PollStands' /\ EvidenceWasHeard' /\ NewsStand'
    BY <1>2, <1>3, <1>4, PollRests DEF EvidenceWasHeard, NewsStand
  <1> QED BY <1>1, <1>2, <1>3, <1>5, QuietStep DEF SameGrant, CIParts

LEMMA DisableKeeps == ASSUME CIInv, UNCHANGED authority, Disable PROVE CIInv'
  <1>1. CIParts /\ RowStands(github.run, watch) /\ EvidenceWasHeard
    BY CIPartsHold DEF CIInv
  <1>2. watch' = [watch EXCEPT !.enabled = FALSE] /\ UNCHANGED <<github, mail, inbox, stale, poller, thread>>
    BY DEF Disable
  <1>3. /\ watch' \in Subscription /\ watch'.results = watch.results /\ watch'.checks = watch.checks
        /\ watch'.enabled = FALSE /\ watch'.revision = watch.revision /\ watch'.head = watch.head
        /\ watch'.reviews = watch.reviews /\ watch'.review = watch.review /\ watch'.remote = watch.remote
        /\ watch'.evidence = watch.evidence
    BY <1>1, <1>2 DEF CIParts, Subscription
  <1>4. RowStands(github.run, watch')
    BY <1>1, <1>3 DEF RowStands
  <1>5. PollStands' /\ EvidenceWasHeard' /\ NewsStand'
    BY <1>1, <1>2, <1>3, PollRests DEF EvidenceWasHeard, NewsStand, Listening
  <1> QED BY <1>1, <1>2, <1>3, <1>4, <1>5, QuietStep DEF CIParts

LEMMA ThreadKeeps ==
    ASSUME CIInv, UNCHANGED authority, UNCHANGED <<github, mail, inbox, stale, watch, poller>>, thread' \in Threads
    PROVE  CIInv'
  <1>1. CIParts /\ RowStands(github.run, watch')
    BY CIPartsHold DEF CIInv
  <1>2. PollStands' /\ EvidenceWasHeard' /\ NewsStand'
    BY PollRests, ListensOn DEF CIInv, EvidenceWasHeard, NewsStand
  <1> QED BY <1>1, <1>2, QuietStep DEF CIParts

LEMMA ThreadStepKeeps == ASSUME CIInv, UNCHANGED authority, UserTurn \/ Admit \/ TurnEnds PROVE CIInv'
  <1>1. thread \in Threads
    BY CIPartsHold DEF CIParts
  <1>2. ASSUME NEW from, NEW to \in Threads, ThreadMoves(from, to) PROVE CIInv'
    BY <1>2, ThreadKeeps DEF ThreadMoves
  <1>3. /\ Freed \in Threads /\ [thread EXCEPT !.at = "queued"] \in Threads
        /\ [thread EXCEPT !.at = "running", !.hosted = TRUE] \in Threads
        /\ [thread EXCEPT !.at = "running", !.hosted = FALSE] \in Threads
    BY <1>1 DEF Threads, Freed
  <1>4. CASE UserTurn
    BY <1>2, <1>3, <1>4 DEF UserTurn
  <1>5. CASE Admit
    BY <1>2, <1>3, <1>5 DEF Admit
  <1>6. CASE TurnEnds
    BY <1>2, <1>3, <1>6 DEF TurnEnds
  <1> QED BY <1>4, <1>5, <1>6

LEMMA ReconfiguredKeeps ==
    ASSUME CIInv, NEW granted \in BOOLEAN, Reconfigured(granted), UNCHANGED watchVars PROVE CIInv'
  <1>1. /\ authority.revision \in Nat /\ authority' = [revision |-> authority.revision + 1, granted |-> granted]
        /\ watch.revision \in Nat /\ watch.revision <= authority.revision
    BY DEF CIInv, WatchTyped, Reconfigured, RowStands, Subscription
  <1>2. ~Listening'
    BY <1>1 DEF Listening, InForce, Allows, watchVars
  <1>3. WatchTyped' /\ MailStand' /\ RowStands(github.run, watch)' /\ PollStands' /\ EvidenceWasHeard'
    BY <1>1 DEF CIInv, WatchTyped, MailStand, SubmittedOnce, MailStands, PollStands, EvidenceWasHeard, watchVars
  <1>4. ReviewsStand'
    BY <1>2 DEF CIInv, ReviewsStand, ReviewStands, Heard, watchVars
  <1>5. NewsStand' /\ (watch.revision <= authority.revision)'
    BY <1>1, <1>2 DEF NewsStand, watchVars
  <1> QED BY <1>3, <1>4, <1>5 DEF CIInv

-----------------------------------------------------------------------------
(* The theorems *)

LEMMA CIStarts == ASSUME AuthorityInit, WatchInit PROVE CIInv
  <1>1. /\ authority.revision = 0 /\ authority \in [revision : Nat, granted : BOOLEAN]
    BY DEF AuthorityInit
  <1>2. PICK h \in Heads, run \in [Runs -> {"none", "pending"} \cup Conclusions] :
          /\ github = [head |-> h, run |-> run, review |-> [v \in Reviews |-> "none"]]
          /\ watch = [enabled |-> TRUE, head |-> h, revision |-> authority.revision,
                      remote |-> "pending", checks |-> "pending", review |-> "none",
                      reviews |-> [v \in Reviews |-> "none"], results |-> NoResults,
                      evidence |-> NoFeedback, turns |-> 0, polls |-> 0]
    BY DEF WatchInit
  <1>3. /\ mail = {} /\ inbox = {} /\ stale = {} /\ poller = Resting
        /\ thread = [at |-> "free", repairs |-> NoHead, hosted |-> TRUE]
    BY DEF WatchInit
  <1>4. 0 \in 0..MaxTurns /\ 0 \in 0..MaxPolls
    BY WatchConstants
  <1>5. watch \in Subscription
    BY <1>1, <1>2, <1>4, ResultTyped DEF Subscription, CheckStatus, ReviewMarks
  <1>6. WatchTyped
    BY <1>1, <1>2, <1>3, <1>5, AtRest DEF WatchTyped, RunStates, Pollers, PullRequests, Threads
  <1>7. MailStand
    BY <1>3 DEF MailStand, SubmittedOnce
  <1>8. RowStands(github.run, watch)
    BY <1>2, <1>5 DEF RowStands, Proven, NoResults, NoResult
  <1>9. ReviewsStand /\ EvidenceWasHeard
    BY <1>2, <1>3 DEF ReviewsStand, ReviewStands, Unanswered, EvidenceWasHeard, NoFeedback
  <1>10. PollStands /\ NewsStand
    BY <1>3, AtRest DEF PollStands, NewsStand
  <1> QED BY <1>1, <1>2, <1>6, <1>7, <1>8, <1>9, <1>10 DEF CIInv

LEMMA CIKept == ASSUME CIInv, [WatchNext]_<<authority, watchVars>> PROVE CIInv'
  <1>1. CASE UNCHANGED <<authority, watchVars>>
    <2>1. thread' \in Threads
      BY <1>1, CIPartsHold DEF CIParts, watchVars
    <2> QED BY <1>1, <2>1, ThreadKeeps DEF watchVars
  <1>2. CASE WatchStep /\ UNCHANGED authority
    <2>1. CASE CheckStep
      BY <1>2, <2>1, CheckStepKeeps
    <2>2. CASE ReviewStep
      BY <1>2, <2>2, ReviewKeeps DEF ReviewStep
    <2>3. CASE Webhook
      BY <1>2, <2>3, ReceiveHeadKeeps, ReceiveCheckKeeps, ReceiveReviewKeeps DEF Webhook
    <2>4. CASE ResumeEligible
      BY <1>2, <2>4, ResumeEligibleKeeps
    <2>5. CASE PollStep
      BY <1>2, <2>5, ReserveKeeps, PollAnsweredKeeps, PollCommittedKeeps DEF PollStep
    <2>6. CASE PollDropped
      BY <1>2, <2>6, PollDroppedKeeps
    <2>7. CASE \E h \in Heads : SelectHead(h)
      BY <1>2, <2>7, SelectHeadKeeps
    <2>8. CASE Disable
      BY <1>2, <2>8, DisableKeeps
    <2>9. CASE UserTurn \/ Admit \/ TurnEnds
      BY <1>2, <2>9, ThreadStepKeeps
    <2> QED BY <1>2, <2>1, <2>2, <2>3, <2>4, <2>5, <2>6, <2>7, <2>8, <2>9 DEF WatchStep
  <1>3. CASE (\E granted \in BOOLEAN : Reconfigured(granted)) /\ UNCHANGED watchVars
    BY <1>3, ReconfiguredKeeps
  <1> QED BY <1>1, <1>2, <1>3 DEF WatchNext

(* The inductive invariant of a CI subscription: what GitHub mailed was so, *)
(* the row says no more than its results and its reviews, and evidence that *)
(* is what it was when a poll began means that nothing was heard since.     *)
THEOREM CIInvariant == WatchSpec => []CIInv
  <1>1. AuthorityInit /\ WatchInit => CIInv
    BY CIStarts
  <1>2. CIInv /\ [WatchNext]_<<authority, watchVars>> => CIInv'
    BY CIKept
  <1> QED BY <1>1, <1>2, PTL DEF WatchSpec

(* A subscription, its events and its Thread keep their types: the counters *)
(* of polls and of repair Turns stay within what was granted (ci_ops.py).   *)
THEOREM CIIsTyped == WatchSpec => []WatchTypeOK
  <1>1. CIInv => WatchTypeOK
    BY DEF CIInv, WatchTyped, WatchTypeOK, AuthorityTypeOK, Subscription, RowStands, Threads
  <1> QED BY <1>1, CIInvariant, PTL

(* A pass is earned: every check has a run on the watched head that GitHub  *)
(* completed with success, and while the subscription listens no request    *)
(* for changes that it took on record is left unanswered (record_evidence,  *)
(* update_head and _update_reviews of ci_ops.py).                           *)
THEOREM PassesAreEarned == WatchSpec => []PassIsEarned
  <1>1. ASSUME CIInv PROVE PassIsEarned
    <2> SUFFICES ASSUME watch.remote = "pass"
                 PROVE  /\ \A c \in Checks : \E r \in Runs :
                              RunCheck[r] = c /\ RunHead[r] = watch.head /\ github.run[r] = "pass"
                        /\ Listening => \A v \in Reviews : ~Unanswered(v)
      BY DEF PassIsEarned
    <2>1. RowStands(github.run, watch) /\ ReviewsStand
      BY <1>1 DEF CIInv
    <2>2. /\ \A c \in Checks : watch.results[c].state = "pass"
          /\ Proven(github.run, watch.results, watch.head)
      BY <2>1 DEF RowStands
    <2>3. \A c \in Checks : \E r \in Runs :
             RunCheck[r] = c /\ RunHead[r] = watch.head /\ github.run[r] = "pass"
      BY <2>2 DEF Proven
    <2>4. \A v \in Reviews : watch.reviews[v] # "changes_requested"
      BY <2>1 DEF RowStands
    <2>5. Listening => \A v \in Reviews : ~Unanswered(v)
      BY <2>1, <2>4 DEF ReviewsStand, ReviewStands
    <2> QED BY <2>3, <2>5
  <1> QED BY <1>1, CIInvariant, PTL

(* Evidence heard on the watched head while a query was under way is not    *)
(* overwritten by its answer (poll_one of ci.py: reserve, await, commit).   *)
THEOREM PollsKeepNews == WatchSpec => PollKeepsNews
  <1>1. ASSUME CIInv, [WatchNext]_<<authority, watchVars>>,
               poller.at = "answered", poller'.at = "idle",
               watch.evidence # NoFeedback, watch'.evidence # watch.evidence,
               NEW e \in inbox \ poller.heard
        PROVE  ~Telling(e)
    <2>1. PollCommitted
      <3>1. poller' # poller /\ watch' # watch
        BY <1>1
      <3>2. WatchStep
        BY <1>1, <3>1 DEF WatchNext, watchVars
      <3>3. ~CheckStep
        BY <3>1 DEF CheckStep, Push, StartRun, EndRun, Rerequest, RunMoves, unmoved
      <3>4. ~ReviewStep
        BY <3>1 DEF ReviewStep, Review, unmoved
      <3>5. ~Webhook
        BY <3>1 DEF Webhook, ReceiveHead, ReceiveCheck, ReceiveReview, Receive
      <3>6. ~ResumeEligible /\ ~Reserve /\ ~PollAnswered /\ ~PollDropped /\ ~Disable
        BY <3>1, <1>1 DEF ResumeEligible, Reserve, PollAnswered, PollDropped, Disable
      <3>7. ~\E h \in Heads : SelectHead(h)
        BY <3>1 DEF SelectHead
      <3>8. ~UserTurn /\ ~Admit /\ ~TurnEnds
        BY <3>1 DEF UserTurn, Admit, TurnEnds, ThreadMoves
      <3> QED BY <3>2, <3>3, <3>4, <3>5, <3>6, <3>7, <3>8 DEF WatchStep, PollStep
    <2>2. Listening /\ watch.evidence.id = poller.seen.id
      BY <1>1, <2>1 DEF PollCommitted, Undisturbed
    <2>3. watch.evidence.id # <<>>
      BY <1>1 DEF CIInv, RowStands
    <2>4. e.kind # "head" /\ e.what # "pending" => e \in stale
      BY <1>1, <2>2, <2>3 DEF CIInv, NewsStand
    <2> QED BY <2>4 DEF Telling
  <1>2. CIInv /\ [WatchNext]_<<authority, watchVars>> =>
          [poller.at = "answered" /\ poller'.at = "idle"
             /\ watch.evidence # NoFeedback /\ watch'.evidence # watch.evidence
             => \A e \in inbox \ poller.heard : ~Telling(e)]_watchVars
    BY <1>1
  <1> QED BY <1>2, CIInvariant, PTL DEF WatchSpec, PollKeepsNews

-----------------------------------------------------------------------------
(* The channels together *)

(* A step of the channels is a step of each of the three, or leaves it      *)
(* alone: they share the authority and nothing else.                        *)
LEMMA ChannelsStep ==
    ASSUME [Next]_allVars
    PROVE  /\ [OutboxNext]_allOutboxVars
           /\ [WatchNext]_<<authority, watchVars>>
           /\ [PublicationNext]_<<authority, publicationVars>>
  <1>1. CASE (\E s \in Senders : Taking(s)) \/ Sending \/ Lapsing \/ (OutboxMoves /\ OnOutbox)
    <2>1. OnOutbox
      BY <1>1 DEF Taking, Sending, Lapsing
    <2>2. OutboxStep
      BY <1>1 DEF Taking, Sending, Lapsing, OutboxMoves, OutboxStep, TimeStep
    <2> QED BY <2>1, <2>2 DEF OnOutbox, OutboxNext
  <1>2. CASE Resuming \/ Driving \/ (WatchMoves /\ OnWatch)
    <2>1. OnWatch
      BY <1>2 DEF Resuming, Driving
    <2>2. WatchStep
      BY <1>2 DEF Resuming, Driving, WatchMoves, WatchStep
    <2> QED BY <2>1, <2>2 DEF OnWatch, WatchNext, allOutboxVars
  <1>3. CASE PublicationMoves /\ OnPublication
    <2>1. PublicationStep
      BY <1>3 DEF PublicationMoves, PublicationStep
    <2> QED BY <1>3, <2>1 DEF OnPublication, PublicationNext, allOutboxVars
  <1>4. CASE (FactsChange \/ AuthorityChanges) /\ UNCHANGED <<outboxVars, watchVars, publicationVars>>
    BY <1>4 DEF OutboxNext, WatchNext, PublicationNext, FactsChange, AuthorityChanges
  <1>5. CASE UNCHANGED allVars
    BY <1>5 DEF allVars, allOutboxVars
  <1> QED BY <1>1, <1>2, <1>3, <1>4, <1>5 DEF Next

(* The composition implements its components: whatever the other two do,    *)
(* the outbox, the watch and the publications of a Thread behave as they do *)
(* alone under an authority that changes (harness/channel_ops.py, ci_ops.py *)
(* and channels/publication.py share the tables of sources and grants).     *)
THEOREM ChannelsCompose == FairSpec => OutboxSpec /\ WatchSpec /\ PublicationSpec
  <1>1. Init => /\ facts \in Facts /\ OutboxInit
                /\ AuthorityInit /\ WatchInit /\ PublicationInit
    BY DEF Init, OutboxInit
  <1>2. [Next]_allVars => /\ [OutboxNext]_allOutboxVars
                          /\ [WatchNext]_<<authority, watchVars>>
                          /\ [PublicationNext]_<<authority, publicationVars>>
    BY ChannelsStep
  <1> QED BY <1>1, <1>2, PTL DEF FairSpec, OutboxSpec, WatchSpec, PublicationSpec

(* The rows and the local states of all three keep their types, and the     *)
(* polls and follow-up Turns of a subscription stay within its bounds,      *)
(* whatever scenario the environment is given.                              *)
THEOREM ChannelsAreTyped == FairSpec => []ChannelsTypeOK
  <1>1. OutboxInv => OutboxTypeOK
    BY DEF OutboxInv
  <1>2. PublicationInv => PublicationTypeOK
    BY DEF PublicationInv
  <1> QED
    BY <1>1, <1>2, ChannelsCompose, OutboxInvariant, CIIsTyped, PublicationsTellTheTruth, PTL DEF ChannelsTypeOK
=============================================================================
