----------------------- MODULE TurnLedgerTools_proofs -----------------------
(***************************************************************************)
(* No order of the commands starts a call twice, starts it without a        *)
(* standing approval, or loses or repeats the question about an uncertain  *)
(* outcome.                                                                *)
(***************************************************************************)
EXTENDS TurnLedger_proofs

ToolParts == RowsNameTheirCall /\ ApprovalIsOfCall /\ ClaimedStaysStarted /\ ApprovalStands

(* Most commands move operations without touching what is asked about them. *)
Moves(o) ==
    LET old == op[o]
        new == op'[o]
    IN
    /\ new.approval = old.approval
    /\ \/ new.status = old.status /\ new.claims = old.claims
       \/ /\ old.status \notin {"unknown", "awaiting_approval"}
          /\ new.status \notin {"unknown", "awaiting_approval", "absent"}
          /\ new.status = "prepared" => old.status = "absent"
          /\ \/ /\ new.claims = old.claims
                /\ new.status \in Unstarted => old.status \in {"absent", "prepared"}
             \/ old.status = "ready" /\ new.status = "running" /\ new.claims = old.claims + 1

(* A call is put up for reconciliation.                                     *)
PutUp(o) ==
    /\ op[o].status \notin {"unknown"} \cup Unstarted \cup {"absent"}
    /\ op'[o].status = "unknown"
    /\ op'[o].claims = op[o].claims
    /\ op'[o].approval = op[o].approval

LEMMA MovesKeepInv ==
    ASSUME TypeOK, ToolInv, interaction' = interaction, \A o \in Ops : Moves(o)
    PROVE  ToolInv'
  <1> USE DEF ToolInv
  <1>1. RowsNameTheirCall'
    BY DEF RowsNameTheirCall
  <1>2. ApprovalIsOfCall'
    BY DEF ApprovalIsOfCall, Moves
  <1>3. ClaimedStaysStarted'
    <2> SUFFICES ASSUME NEW o \in Ops
                 PROVE  /\ op'[o].claims <= 1
                        /\ op'[o].claims > 0 => op'[o].status \notin {"absent"} \cup Unstarted
      BY DEF ClaimedStaysStarted
    <2>1. Moves(o) /\ op[o].claims \in Nat
      BY DEF TypeOK, ToolTypeOK, OpRow
    <2>2. /\ op[o].claims <= 1
          /\ op[o].claims > 0 => op[o].status \notin {"absent"} \cup Unstarted
      BY DEF ClaimedStaysStarted
    <2> QED BY <2>1, <2>2 DEF Moves, Unstarted
  <1>4. ApprovalStands'
    <2> SUFFICES ASSUME NEW o \in Ops,
                        op'[o].status = "ready" \/ op'[o].claims > 0,
                        op'[o].approval # NoRequest
                 PROVE  /\ interaction[op[o].approval].status = "resolved"
                        /\ interaction[op[o].approval].decision = "approve"
                        /\ interaction[op[o].approval].approval = "approved"
                        /\ op'[o].approval = op[o].approval
      BY DEF ApprovalStands
    <2>1. Moves(o) /\ op[o].claims \in Nat
      BY DEF TypeOK, ToolTypeOK, OpRow
    <2>2. op[o].status \notin {"absent", "prepared"}
      BY <2>1 DEF ApprovalIsOfCall, Moves
    <2>3. op[o].status = "ready" \/ op[o].claims > 0
      BY <2>1, <2>2 DEF Moves, Unstarted
    <2> QED BY <2>1, <2>3 DEF ApprovalStands, Moves
  <1>5. UnknownAsksOnce'
    BY DEF UnknownAsksOnce, PendingReconciliations, Moves
  <1>6. ApprovalBlocksItsCall'
    BY DEF ApprovalBlocksItsCall, Moves
  <1> QED BY <1>1, <1>2, <1>3, <1>4, <1>5, <1>6

LEMMA PutUpKeepsInv ==
    ASSUME TypeOK, ToolInv, NEW p \in Ops, NEW r \in Requests,
           AskReconciliation(p, r), PutUp(p), \A o \in Ops \ {p} : Moves(o)
    PROVE  ToolInv'
  <1> USE DEF ToolInv
  <1>a. /\ interaction[r].status = "free" /\ interaction[r].kind = "none"
        /\ interaction' = [interaction EXCEPT ![r] = Asked("tool_reconciliation", TurnOf[p], p)]
        /\ interaction \in [Requests -> InteractionRow]
    BY DEF AskReconciliation, Fresh, RowsNameTheirCall, TypeOK, TurnTypeOK
  <1>b. /\ interaction'[r] = Asked("tool_reconciliation", TurnOf[p], p)
        /\ \A q \in Requests \ {r} : interaction'[q] = interaction[q]
    BY <1>a
  <1>c. LET row == Asked("tool_reconciliation", TurnOf[p], p) IN
        /\ row.status = "pending" /\ row.kind = "tool_reconciliation"
        /\ row.turn = TurnOf[p] /\ row.op = p
    BY DEF Asked, FreeRow
  <1>1. RowsNameTheirCall'
    BY <1>b, <1>c DEF RowsNameTheirCall, ToolQuestion
  <1>2. ApprovalIsOfCall'
    <2> SUFFICES ASSUME NEW o \in Ops PROVE ApprovalIsOfCall!(o)'
      BY DEF ApprovalIsOfCall
    <2>1. op'[o].approval = op[o].approval
      BY DEF Moves, PutUp
    <2>2. op'[o].status \in {"absent", "prepared"} => op[o].status \in {"absent", "prepared"}
      BY DEF Moves, PutUp
    <2>3. ApprovalIsOfCall!(o)
      BY DEF ApprovalIsOfCall
    <2> QED BY <2>1, <2>2, <2>3, <1>a, <1>b
  <1>3. ClaimedStaysStarted'
    <2> SUFFICES ASSUME NEW o \in Ops
                 PROVE  /\ op'[o].claims <= 1
                        /\ op'[o].claims > 0 => op'[o].status \notin {"absent"} \cup Unstarted
      BY DEF ClaimedStaysStarted
    <2>1. op[o].claims \in Nat
      BY DEF TypeOK, ToolTypeOK, OpRow
    <2>2. /\ op[o].claims <= 1
          /\ op[o].claims > 0 => op[o].status \notin {"absent"} \cup Unstarted
      BY DEF ClaimedStaysStarted
    <2> QED BY <2>1, <2>2 DEF Moves, PutUp, Unstarted
  <1>4. ApprovalStands'
    <2> SUFFICES ASSUME NEW o \in Ops PROVE ApprovalStands!(o)'
      BY DEF ApprovalStands
    <2>1. op[o].claims \in Nat /\ op'[o].approval = op[o].approval
      BY DEF TypeOK, ToolTypeOK, OpRow, Moves, PutUp
    <2>2. (op'[o].status = "ready" \/ op'[o].claims > 0) /\ op'[o].approval # NoRequest
          => op[o].status = "ready" \/ op[o].claims > 0
      BY <2>1 DEF Moves, PutUp, Unstarted, ApprovalIsOfCall
    <2>3. ApprovalStands!(o)
      BY DEF ApprovalStands
    <2> QED BY <2>1, <2>2, <2>3, <1>a, <1>b
  <1>5. UnknownAsksOnce'
    <2>1. PendingReconciliations(p) = {}
      BY DEF UnknownAsksOnce, PutUp
    <2>2. PendingReconciliations(p)' = {r}
      BY <2>1, <1>b, <1>c DEF PendingReconciliations
    <2>3. \A o \in Ops \ {p} : PendingReconciliations(o)' = PendingReconciliations(o)
      BY <1>a, <1>b, <1>c DEF PendingReconciliations
    <2>4. \A o \in Ops \ {p} : op'[o].status = "unknown" <=> op[o].status = "unknown"
      BY DEF Moves
    <2> QED BY <2>2, <2>3, <2>4 DEF UnknownAsksOnce, PutUp
  <1>6. ApprovalBlocksItsCall'
    BY <1>a, <1>b, <1>c DEF ApprovalBlocksItsCall, Moves, PutUp, Unstarted
  <1> QED BY <1>1, <1>2, <1>3, <1>4, <1>5, <1>6
-----------------------------------------------------------------------------
(* Answers *)

SameSubject(r) ==
    /\ interaction'[r].kind = interaction[r].kind
    /\ interaction'[r].turn = interaction[r].turn
    /\ interaction'[r].op = interaction[r].op

(* A pending row is answered; if it is about a call, the call waited for it. *)
AnsweredRow(r) ==
    /\ interaction[r].status = "pending" /\ interaction'[r].status = "resolved"
    /\ SameSubject(r)
    /\ interaction[r].op \in Ops =>
           /\ op[interaction[r].op].status = "awaiting_approval"
           /\ op'[interaction[r].op].status # "awaiting_approval"

ReleasedCall(o) ==
    /\ op[o].status = "awaiting_approval"
    /\ op'[o].status \in {"ready", "denied", "superseded", "cancelled"}
    /\ op'[o].approval = op[o].approval /\ op'[o].claims = op[o].claims
    /\ LET row == interaction'[op[o].approval] IN
       /\ row.status = "resolved"
       /\ op'[o].status = "ready" => row.decision = "approve" /\ row.approval = "approved"

LEMMA AnswersKeepInv ==
    ASSUME TypeOK, ToolInv,
           \A r \in Requests : interaction'[r] = interaction[r] \/ AnsweredRow(r),
           \A o \in Ops : op'[o] = op[o] \/ ReleasedCall(o)
    PROVE  ToolInv'
  <1> USE DEF ToolInv
  <1>1. RowsNameTheirCall'
    BY DEF RowsNameTheirCall, AnsweredRow, SameSubject
  <1>2. ApprovalIsOfCall'
    <2> SUFFICES ASSUME NEW o \in Ops PROVE ApprovalIsOfCall!(o)'
      BY DEF ApprovalIsOfCall
    <2>1. op'[o].approval = op[o].approval
      BY DEF ReleasedCall
    <2>2. op'[o].status \in {"absent", "prepared"} => op[o].status \in {"absent", "prepared"}
      BY DEF ReleasedCall
    <2>3. ApprovalIsOfCall!(o)
      BY DEF ApprovalIsOfCall
    <2> QED BY <2>1, <2>2, <2>3 DEF AnsweredRow, SameSubject
  <1>3. ClaimedStaysStarted'
    <2> SUFFICES ASSUME NEW o \in Ops
                 PROVE  /\ op'[o].claims <= 1
                        /\ op'[o].claims > 0 => op'[o].status \notin {"absent"} \cup Unstarted
      BY DEF ClaimedStaysStarted
    <2>1. /\ op[o].claims <= 1
          /\ op[o].claims > 0 => op[o].status \notin {"absent"} \cup Unstarted
      BY DEF ClaimedStaysStarted
    <2> QED BY <2>1 DEF ReleasedCall, Unstarted
  <1>4. ApprovalStands'
    <2> SUFFICES ASSUME NEW o \in Ops PROVE ApprovalStands!(o)'
      BY DEF ApprovalStands
    <2>1. ApprovalStands!(o)
      BY DEF ApprovalStands
    <2>2. op[o].approval # NoRequest => op[o].approval \in Requests
      BY DEF ApprovalIsOfCall
    <2>3. op[o].claims > 0 => op[o].status # "awaiting_approval"
      BY DEF ClaimedStaysStarted, Unstarted
    <2> QED BY <2>1, <2>2, <2>3 DEF AnsweredRow, ReleasedCall
  <1>5. UnknownAsksOnce'
    <2>1. \A o \in Ops : PendingReconciliations(o)' = PendingReconciliations(o)
      <3> SUFFICES ASSUME NEW o \in Ops, NEW r \in Requests
                   PROVE  r \in PendingReconciliations(o)' <=> r \in PendingReconciliations(o)
        BY DEF PendingReconciliations
      <3>1. CASE interaction'[r] = interaction[r]
        BY <3>1 DEF PendingReconciliations
      <3>2. CASE AnsweredRow(r)
        <4>1. r \notin PendingReconciliations(o)'
          BY <3>2 DEF AnsweredRow, PendingReconciliations
        <4>2. r \notin PendingReconciliations(o)
          BY <3>2 DEF AnsweredRow, PendingReconciliations, UnknownAsksOnce
        <4> QED BY <4>1, <4>2
      <3> QED BY <3>1, <3>2
    <2> QED BY <2>1 DEF UnknownAsksOnce, ReleasedCall
  <1>6. ApprovalBlocksItsCall'
    <2>1. ASSUME NEW r \in Requests, interaction'[r].status = "pending",
                 interaction'[r].kind = "tool_approval"
          PROVE  /\ interaction'[r].op \in Ops
                 /\ op'[interaction'[r].op].status = "awaiting_approval"
                 /\ op'[interaction'[r].op].approval = r
      <3>1. interaction'[r] = interaction[r]
        BY <2>1 DEF AnsweredRow
      <3>2. /\ interaction[r].op \in Ops
            /\ op[interaction[r].op].status = "awaiting_approval"
            /\ op[interaction[r].op].approval = r
        BY <2>1, <3>1 DEF ApprovalBlocksItsCall
      <3>3. op'[interaction[r].op] = op[interaction[r].op]
        BY <3>1, <3>2, <2>1 DEF ReleasedCall
      <3> QED BY <3>1, <3>2, <3>3
    <2>2. ASSUME NEW o \in Ops, op'[o].status = "awaiting_approval"
          PROVE  /\ op'[o].approval \in Requests
                 /\ interaction'[op'[o].approval].status = "pending"
                 /\ interaction'[op'[o].approval].op = o
      BY <2>2 DEF ApprovalBlocksItsCall, AnsweredRow, ReleasedCall
    <2> QED BY <2>1, <2>2 DEF ApprovalBlocksItsCall
  <1> QED BY <1>1, <1>2, <1>3, <1>4, <1>5, <1>6
-----------------------------------------------------------------------------
(* Questions about a call that nothing started *)

(* Call o is put up, again or for the first time, in the fresh row r; the   *)
(* row it was put up in before is not pending any more.                     *)
AsksFor(o, r) ==
    /\ op[o].status \in {"absent", "ready", "awaiting_approval"}
    /\ op' = [op EXCEPT ![o].status = "awaiting_approval", ![o].approval = r]
    /\ interaction[r].status = "free"
    /\ interaction'[r] = Asked("tool_approval", TurnOf[o], o)
    /\ \A q \in Requests \ {r} :
           IF q = op[o].approval
           THEN interaction'[q].status = "resolved" /\ SameSubject(q)
           ELSE interaction'[q] = interaction[q]

LEMMA AskingKeepsInv ==
    ASSUME TypeOK, ToolInv, NEW o \in Ops, NEW r \in Requests, AsksFor(o, r)
    PROVE  ToolInv'
  <1> USE DEF ToolInv
  <1>a. LET row == Asked("tool_approval", TurnOf[o], o) IN
        row.status = "pending" /\ row.kind = "tool_approval" /\ row.turn = TurnOf[o] /\ row.op = o
    BY DEF Asked, FreeRow
  <1>b. /\ op'[o].status = "awaiting_approval" /\ op'[o].approval = r
        /\ op'[o].claims = op[o].claims
        /\ \A p \in Ops \ {o} : op'[p] = op[p]
    BY DEF AsksFor, TypeOK, ToolTypeOK, OpRow
  <1>c. NoRequest \notin Requests
    BY TurnConstants DEF NoRequest
  <1>d. \A p \in Ops : op[p].approval # r
    BY <1>c DEF AsksFor, ApprovalIsOfCall, RowsNameTheirCall
  <1>e. \A p \in Ops \ {o} : op[p].approval # NoRequest =>
            op[p].approval # op[o].approval /\ interaction'[op[p].approval] = interaction[op[p].approval]
    BY <1>d DEF AsksFor, ApprovalIsOfCall
  <1>f. op[o].approval # NoRequest => /\ op[o].approval \in Requests
                                      /\ interaction[op[o].approval].kind = "tool_approval"
                                      /\ interaction[op[o].approval].op = o
    BY DEF ApprovalIsOfCall
  <1>1. RowsNameTheirCall'
    <2> SUFFICES ASSUME NEW q \in Requests PROVE RowsNameTheirCall!(q)'
      BY DEF RowsNameTheirCall
    <2>1. RowsNameTheirCall!(q)
      BY DEF RowsNameTheirCall
    <2>2. CASE q = r
      BY <2>2, <1>a DEF AsksFor, ToolQuestion
    <2>3. CASE q # r /\ q = op[o].approval
      BY <2>1, <2>3, <1>c, <1>f DEF AsksFor, SameSubject, ToolQuestion
    <2>4. CASE q # r /\ q # op[o].approval
      BY <2>1, <2>4 DEF AsksFor
    <2> QED BY <2>2, <2>3, <2>4
  <1>2. ApprovalIsOfCall'
    <2> SUFFICES ASSUME NEW p \in Ops PROVE ApprovalIsOfCall!(p)'
      BY DEF ApprovalIsOfCall
    <2>1. ApprovalIsOfCall!(p)
      BY DEF ApprovalIsOfCall
    <2>2. CASE p = o
      BY <2>2, <1>a, <1>b DEF AsksFor
    <2>3. CASE p # o
      BY <2>1, <2>3, <1>b, <1>e
    <2> QED BY <2>2, <2>3
  <1>3. ClaimedStaysStarted'
    BY <1>b DEF AsksFor, ClaimedStaysStarted, Unstarted
  <1>4. ApprovalStands'
    <2> SUFFICES ASSUME NEW p \in Ops PROVE ApprovalStands!(p)'
      BY DEF ApprovalStands
    <2>1. ApprovalStands!(p) /\ ~(op[o].claims > 0)
      BY DEF ApprovalStands, ClaimedStaysStarted, AsksFor, Unstarted
    <2>2. CASE p = o
      BY <2>1, <2>2, <1>b
    <2>3. CASE p # o
      BY <2>1, <2>3, <1>b, <1>e
    <2> QED BY <2>2, <2>3
  <1>5. UnknownAsksOnce'
    <2>1. \A p \in Ops : PendingReconciliations(p)' = PendingReconciliations(p)
      <3> SUFFICES ASSUME NEW p \in Ops, NEW q \in Requests
                   PROVE  q \in PendingReconciliations(p)' <=> q \in PendingReconciliations(p)
        BY DEF PendingReconciliations
      <3>1. CASE q = r
        BY <3>1, <1>a DEF AsksFor, PendingReconciliations
      <3>2. CASE q # r /\ q = op[o].approval
        BY <3>2, <1>c, <1>f DEF AsksFor, SameSubject, PendingReconciliations
      <3>3. CASE q # r /\ q # op[o].approval
        BY <3>3 DEF AsksFor, PendingReconciliations
      <3> QED BY <3>1, <3>2, <3>3
    <2>2. \A p \in Ops : op'[p].status = "unknown" <=> op[p].status = "unknown"
      BY <1>b DEF AsksFor
    <2> QED BY <2>1, <2>2 DEF UnknownAsksOnce
  <1>6. ApprovalBlocksItsCall'
    <2>1. ASSUME NEW q \in Requests, interaction'[q].status = "pending",
                 interaction'[q].kind = "tool_approval"
          PROVE  /\ interaction'[q].op \in Ops
                 /\ op'[interaction'[q].op].status = "awaiting_approval"
                 /\ op'[interaction'[q].op].approval = q
      <3>1. CASE q = r
        BY <3>1, <1>a, <1>b DEF AsksFor
      <3>2. CASE q # r
        <4>1. interaction'[q] = interaction[q] /\ q # op[o].approval
          BY <2>1, <3>2 DEF AsksFor
        <4>2. /\ interaction[q].op \in Ops
              /\ op[interaction[q].op].status = "awaiting_approval"
              /\ op[interaction[q].op].approval = q
          BY <2>1, <4>1 DEF ApprovalBlocksItsCall
        <4> QED BY <4>1, <4>2, <1>b
      <3> QED BY <3>1, <3>2
    <2>2. ASSUME NEW p \in Ops, op'[p].status = "awaiting_approval"
          PROVE  /\ op'[p].approval \in Requests
                 /\ interaction'[op'[p].approval].status = "pending"
                 /\ interaction'[op'[p].approval].op = p
      <3>1. CASE p = o
        BY <3>1, <1>a, <1>b DEF AsksFor
      <3>2. CASE p # o
        <4>1. /\ op'[p] = op[p] /\ op[p].approval \in Requests
              /\ interaction[op[p].approval].status = "pending"
              /\ interaction[op[p].approval].op = p
          BY <2>2, <3>2, <1>b DEF ApprovalBlocksItsCall
        <4> QED BY <4>1, <3>2, <1>c, <1>e
      <3> QED BY <3>1, <3>2
    <2> QED BY <2>1, <2>2 DEF ApprovalBlocksItsCall
  <1> QED BY <1>1, <1>2, <1>3, <1>4, <1>5, <1>6
-----------------------------------------------------------------------------
(* The commands *)

LEMMA FrameKeepsInv ==
    ASSUME TypeOK, ToolInv, UNCHANGED <<op, interaction>>
    PROVE  ToolInv'
  BY MovesKeepInv DEF Moves

LEMMA ToolStepInv ==
    ASSUME TypeOK, ToolInv, NEW o \in Ops, ToolStep(o)
    PROVE  ToolInv'
  <1> USE DEF turnVars, slotVars, SetStatus
  <1>a. op \in [Ops -> OpRow] /\ \A p \in Ops : op[p] \in OpRow
    BY DEF TypeOK, ToolTypeOK
  <1>b. ASSUME interaction' = interaction, \A p \in Ops \ {o} : op'[p] = op[p], Moves(o)
        PROVE  ToolInv'
    <2>1. \A p \in Ops : Moves(p)
      BY <1>b DEF Moves
    <2> QED BY <1>b, <2>1, MovesKeepInv
  <1>c. ASSUME NEW r \in Requests, AskReconciliation(o, r),
               \A p \in Ops \ {o} : op'[p] = op[p], PutUp(o)
        PROVE  ToolInv'
    <2>1. \A p \in Ops \ {o} : Moves(p)
      BY <1>c DEF Moves
    <2> QED BY <1>c, <2>1, PutUpKeepsInv
  <1>1. CASE PrepareOperation(o)
    BY <1>1, <1>a, <1>b DEF PrepareOperation, Moves, OpRow, Unstarted
  <1>2. CASE ReadyOperation(o)
    BY <1>2, <1>a, <1>b DEF ReadyOperation, Moves, OpRow, Unstarted
  <1>3. CASE ClaimOperation(o)
    BY <1>3, <1>a, <1>b DEF ClaimOperation, Moves, OpRow, Unstarted
  <1>4. CASE RecordResult(o)
    BY <1>4, <1>a, <1>b DEF RecordResult, Moves, OpRow
  <1>5. CASE RecordRefusal(o)
    BY <1>5, FrameKeepsInv DEF RecordRefusal
  <1>6. ASSUME NEW superseded \in BOOLEAN, RejectReady(o, superseded) PROVE ToolInv'
    BY <1>6, <1>a, <1>b DEF RejectReady, Moves, OpRow, Unstarted
  <1>7. ASSUME NEW status \in {"succeeded", "failed"}, CommitOutcome(o, status) PROVE ToolInv'
    BY <1>7, <1>a, <1>b DEF CommitOutcome, Moves, OpRow, Unstarted
  <1>8. ASSUME NEW status \in {"succeeded", "failed"}, CommitResult(o, status) PROVE ToolInv'
    BY <1>8, <1>a, <1>b DEF CommitResult, Moves, OpRow, Unstarted
  <1>9. ASSUME NEW r \in Requests, RequestApproval(o, r) PROVE ToolInv'
    <2>1. op[o].approval # NoRequest => /\ op[o].approval \in Requests
                                       /\ interaction[op[o].approval].status = "resolved"
      BY <1>9 DEF RequestApproval, ToolInv, ApprovalIsOfCall, ApprovalStands
    <2>2. interaction \in [Requests -> InteractionRow] /\ NoRequest \notin Requests
      BY TurnConstants DEF TypeOK, TurnTypeOK, NoRequest
    <2>3. AsksFor(o, r)
      BY <1>9, <2>1, <2>2 DEF RequestApproval, AsksFor, Fresh, SameSubject
    <2> QED BY <2>3, AskingKeepsInv
  <1>10. ASSUME NEW r \in Requests, ExpireClaim(o, r) PROVE ToolInv'
    BY <1>10, <1>a, <1>c DEF ExpireClaim, PutUp, Unstarted, OpRow
  <1>11. ASSUME NEW r \in Requests, MarkResultMissing(o, r) PROVE ToolInv'
    BY <1>11, <1>a, <1>c DEF MarkResultMissing, PutUp, Unstarted, OpRow
  <1>12. ASSUME NEW r \in Requests, CommitUnknown(o, r) PROVE ToolInv'
    BY <1>12, <1>a, <1>c DEF CommitUnknown, PutUp, Unstarted, OpRow
  <1>13. ASSUME NEW r \in Requests, CommitUnknownResult(o, r) PROVE ToolInv'
    BY <1>13, <1>a, <1>c DEF CommitUnknownResult, PutUp, Unstarted, OpRow
  <1> QED
    BY <1>1, <1>2, <1>3, <1>4, <1>5, <1>6, <1>7, <1>8, <1>9, <1>10, <1>11, <1>12, <1>13 DEF ToolStep

(* The user settles an uncertain outcome: the only question about it goes.  *)
LEMMA ReconciliationInv ==
    ASSUME TypeOK, ToolInv, NEW t \in Turns, NEW status \in {"succeeded", "failed", "cancelled"},
           ResolveReconciliation(t, status)
    PROVE  ToolInv'
  <1> USE DEF ToolInv
  <1>1. PICK r \in Requests :
          /\ OnlyPending(t, "tool_reconciliation", r)
          /\ op[interaction[r].op].status = "unknown"
          /\ interaction' = [interaction EXCEPT ![r] = Answered(r, "reconciled", "none")]
          /\ op' = [op EXCEPT ![interaction[r].op].status = status, ![interaction[r].op].linked = TRUE]
    BY DEF ResolveReconciliation
  <1>a. /\ interaction \in [Requests -> InteractionRow] /\ op \in [Ops -> OpRow]
        /\ interaction[r].status = "pending" /\ interaction[r].kind = "tool_reconciliation"
    BY <1>1 DEF OnlyPending, PendingOf, Pending, TypeOK, TurnTypeOK, ToolTypeOK
  <1>b. PICK p \in Ops : p = interaction[r].op /\ op[p].status = "unknown"
    BY <1>1, <1>a DEF RowsNameTheirCall, ToolQuestion
  <1>c. /\ SameSubject(r) /\ interaction'[r].status = "resolved"
        /\ \A q \in Requests \ {r} : interaction'[q] = interaction[q]
    BY <1>1, <1>a DEF Answered, SameSubject, InteractionRow
  <1>d. /\ op'[p].status = status /\ op'[p].approval = op[p].approval /\ op'[p].claims = op[p].claims
        /\ \A o \in Ops \ {p} : op'[o] = op[o]
    BY <1>1, <1>a, <1>b DEF OpRow
  <1>e. \A o \in Ops : op[o].approval # r
    BY <1>a, TurnConstants DEF ApprovalIsOfCall, NoRequest
  <1>2. RowsNameTheirCall'
    BY <1>a, <1>c DEF RowsNameTheirCall, SameSubject
  <1>3. ApprovalIsOfCall'
    BY <1>c, <1>d, <1>e DEF ApprovalIsOfCall
  <1>4. ClaimedStaysStarted'
    BY <1>b, <1>d DEF ClaimedStaysStarted, Unstarted
  <1>5. ApprovalStands'
    <2> SUFFICES ASSUME NEW o \in Ops PROVE ApprovalStands!(o)'
      BY DEF ApprovalStands
    <2>1. /\ ApprovalStands!(o)
          /\ op[o].approval # NoRequest => op[o].approval \in Requests
      BY DEF ApprovalStands, ApprovalIsOfCall
    <2> QED BY <2>1, <1>c, <1>d, <1>e
  <1>6. UnknownAsksOnce'
    <2>1. PendingReconciliations(p) = {r}
      BY <1>a, <1>b DEF UnknownAsksOnce, PendingReconciliations
    <2>2. PendingReconciliations(p)' = {}
      BY <2>1, <1>c DEF PendingReconciliations
    <2>3. \A o \in Ops \ {p} : PendingReconciliations(o)' = PendingReconciliations(o)
      BY <1>b, <1>c DEF PendingReconciliations, SameSubject
    <2> QED BY <2>2, <2>3, <1>b, <1>d DEF UnknownAsksOnce
  <1>7. ApprovalBlocksItsCall'
    <2>1. \A q \in Requests : interaction'[q].status = "pending" => q # r /\ interaction'[q] = interaction[q]
      BY <1>c
    <2> QED BY <2>1, <1>a, <1>b, <1>c, <1>d, <1>e DEF ApprovalBlocksItsCall
  <1> QED BY <1>2, <1>3, <1>4, <1>5, <1>6, <1>7

(* An approval that was given is withdrawn before its call started.         *)
LEMMA WithdrawnApprovalInv ==
    ASSUME TypeOK, ToolInv, NEW t \in Turns, InvalidateResolvedApproval(t)
    PROVE  ToolInv'
  <1> USE DEF ToolInv
  <1>1. PICK r \in Requests :
          /\ NewestAnswer(t, r)
          /\ op[interaction[r].op].status = "ready"
          /\ interaction' = [interaction EXCEPT ![r].approval = "invalidated"]
          /\ SetStatus(interaction[r].op, "superseded")
    BY DEF InvalidateResolvedApproval
  <1> DEFINE p == interaction[r].op
  <1>a. /\ interaction \in [Requests -> InteractionRow] /\ op \in [Ops -> OpRow]
        /\ interaction[r].status = "resolved" /\ interaction[r].kind = "tool_approval"
    BY <1>1 DEF NewestAnswer, TypeOK, TurnTypeOK, ToolTypeOK
  <1>b. p \in Ops
    BY <1>1, <1>a DEF RowsNameTheirCall, ToolQuestion
  <1>c. /\ SameSubject(r) /\ interaction'[r].status = interaction[r].status
        /\ \A q \in Requests \ {r} : interaction'[q] = interaction[q]
    BY <1>1, <1>a DEF SameSubject, InteractionRow
  <1>d. /\ op'[p].status = "superseded" /\ op'[p].approval = op[p].approval
        /\ op'[p].claims = op[p].claims
        /\ \A o \in Ops \ {p} : op'[o] = op[o]
    BY <1>1, <1>a, <1>b DEF SetStatus, OpRow
  <1>e. \A o \in Ops \ {p} : op[o].approval # r
    BY <1>a, TurnConstants DEF ApprovalIsOfCall, NoRequest
  <1>2. RowsNameTheirCall'
    BY <1>c DEF RowsNameTheirCall, SameSubject
  <1>3. ApprovalIsOfCall'
    BY <1>1, <1>c, <1>d DEF ApprovalIsOfCall, SameSubject
  <1>4. ClaimedStaysStarted'
    BY <1>1, <1>b, <1>d DEF ClaimedStaysStarted, Unstarted
  <1>5. ApprovalStands'
    <2> SUFFICES ASSUME NEW o \in Ops PROVE ApprovalStands!(o)'
      BY DEF ApprovalStands
    <2>1. /\ ApprovalStands!(o)
          /\ op[o].approval # NoRequest => op[o].approval \in Requests
          /\ ~(op[p].claims > 0)
      BY <1>1, <1>b DEF ApprovalStands, ApprovalIsOfCall, ClaimedStaysStarted, Unstarted
    <2> QED BY <2>1, <1>c, <1>d, <1>e
  <1>6. UnknownAsksOnce'
    <2>1. \A o \in Ops : PendingReconciliations(o)' = PendingReconciliations(o)
      BY <1>c DEF PendingReconciliations, SameSubject
    <2>2. \A o \in Ops : op'[o].status = "unknown" <=> op[o].status = "unknown"
      BY <1>1, <1>d
    <2> QED BY <2>1, <2>2 DEF UnknownAsksOnce
  <1>7. ApprovalBlocksItsCall'
    <2>1. \A q \in Requests : interaction'[q].status = "pending" => q # r /\ interaction'[q] = interaction[q]
      BY <1>a, <1>c
    <2>2. \A o \in Ops : op'[o].status = "awaiting_approval" => o # p /\ op'[o] = op[o]
      BY <1>d
    <2> QED BY <2>1, <2>2, <1>1, <1>a, <1>b, <1>c, <1>d, <1>e DEF ApprovalBlocksItsCall
  <1> QED BY <1>2, <1>3, <1>4, <1>5, <1>6, <1>7
LEMMA AnswerStepInv ==
    ASSUME TypeOK, ToolInv, NEW t \in Turns, AnswerStep(t)
    PROVE  ToolInv'
  <1> USE DEF SetStatus
  <1>a. /\ interaction \in [Requests -> InteractionRow] /\ op \in [Ops -> OpRow]
        /\ NoRequest \notin Requests
    BY TurnConstants DEF TypeOK, TurnTypeOK, ToolTypeOK, NoRequest
  <1>b. ASSUME NEW r \in Requests, OnlyPending(t, "tool_approval", r)
        PROVE  /\ interaction[r].status = "pending" /\ interaction[r].kind = "tool_approval"
               /\ interaction[r].op \in Ops /\ op[interaction[r].op].approval = r
               /\ op[interaction[r].op].status = "awaiting_approval"
    <2>1. interaction[r].status = "pending" /\ interaction[r].kind = "tool_approval"
      BY <1>b DEF OnlyPending, PendingOf, Pending
    <2> QED BY <2>1 DEF ToolInv, ApprovalBlocksItsCall
  (* The answer s to the only pending approval r.                          *)
  <1>c. ASSUME NEW r \in Requests, OnlyPending(t, "tool_approval", r),
               NEW s \in {"ready", "denied", "superseded"},
               SetStatus(interaction[r].op, s),
               \A q \in Requests \ {r} : interaction'[q] = interaction[q],
               SameSubject(r), interaction'[r].status = "resolved",
               s = "ready" => interaction'[r].decision = "approve" /\ interaction'[r].approval = "approved"
        PROVE  ToolInv'
    <2>1. PICK p \in Ops : p = interaction[r].op /\ op[p].approval = r /\ op[p].status = "awaiting_approval"
      BY <1>b, <1>c
    <2>2. /\ op'[p].status = s /\ op'[p].approval = r /\ op'[p].claims = op[p].claims
          /\ \A o \in Ops \ {p} : op'[o] = op[o]
      BY <2>1, <1>a, <1>c DEF OpRow
    <2>3. AnsweredRow(r)
      BY <2>1, <2>2, <1>b, <1>c DEF AnsweredRow
    <2>4. ReleasedCall(p)
      BY <2>1, <2>2, <1>c DEF ReleasedCall
    <2> QED BY <2>2, <2>3, <2>4, <1>c, AnswersKeepInv
  <1>1. ASSUME NEW r \in Requests, RefreshApproval(t, r) PROVE ToolInv'
    <2>1. PICK o \in OpsOf(t) :
            /\ Reapprovable(t) = {o}
            /\ interaction' = [interaction EXCEPT
                   ![op[o].approval] =
                       IF @.status = "pending" THEN Answered(op[o].approval, "recheck", "invalidated")
                       ELSE [@ EXCEPT !.approval = "invalidated"],
                   ![r] = Asked("tool_approval", t, o)]
            /\ op' = [op EXCEPT ![o].status = "awaiting_approval", ![o].approval = r]
      BY <1>1 DEF RefreshApproval
    <2>2. o \in Ops /\ TurnOf[o] = t
      BY DEF OpsOf
    <2>3. op[o].status \in {"awaiting_approval", "ready"} /\ op[o].approval # NoRequest
      BY <2>1 DEF Reapprovable
    <2>4. PICK q \in Requests : q = op[o].approval /\ interaction[q].status # "free"
      BY <2>2, <2>3 DEF ToolInv, ApprovalIsOfCall, RowsNameTheirCall
    <2>5. interaction[r].status = "free"
      BY <1>1 DEF RefreshApproval, Fresh
    <2>6. SameSubject(q) /\ interaction'[q].status = "resolved"
      <3>1. interaction'[q] = IF interaction[q].status = "pending" THEN Answered(q, "recheck", "invalidated")
                              ELSE [interaction[q] EXCEPT !.approval = "invalidated"]
        BY <2>1, <2>4, <2>5, <1>a
      <3>2. interaction[q] \in InteractionRow
        BY <1>a
      <3> QED BY <3>1, <3>2, <2>4 DEF Answered, SameSubject, InteractionRow
    <2>7. AsksFor(o, r)
      BY <2>1, <2>2, <2>3, <2>4, <2>5, <2>6, <1>a DEF AsksFor
    <2> QED BY <2>2, <2>7, AskingKeepsInv
  <1>2. CASE InvalidateApproval(t)
    <2>1. PICK r \in Requests :
            /\ OnlyPending(t, "tool_approval", r)
            /\ interaction' = [interaction EXCEPT ![r] = Answered(r, "approve", "invalidated")]
            /\ SetStatus(interaction[r].op, "superseded")
      BY <1>2 DEF InvalidateApproval
    <2>2. SameSubject(r) /\ interaction'[r].status = "resolved"
      BY <2>1, <1>a DEF Answered, SameSubject, InteractionRow
    <2> QED BY <2>1, <2>2, <1>a, <1>c
  <1>3. CASE InvalidateResolvedApproval(t)
    BY <1>3, WithdrawnApprovalInv
  <1>4. ASSUME NEW decision \in {"approve", "deny"}, NEW recheck \in BOOLEAN,
               ResolveApproval(t, decision, recheck)
        PROVE  ToolInv'
    <2>1. PICK r \in Requests :
            /\ OnlyPending(t, "tool_approval", r)
            /\ interaction' = [interaction EXCEPT ![r] =
                   [Answered(r, decision, IF decision = "approve" THEN "approved" ELSE "denied")
                       EXCEPT !.recheck = recheck]]
            /\ SetStatus(interaction[r].op, IF decision = "approve" THEN "ready" ELSE "denied")
      BY <1>4 DEF ResolveApproval
    <2>2. /\ SameSubject(r) /\ interaction'[r].status = "resolved"
          /\ interaction'[r].decision = decision
          /\ decision = "approve" => interaction'[r].approval = "approved"
      BY <2>1, <1>a DEF Answered, SameSubject, InteractionRow
    <2> QED BY <2>1, <2>2, <1>a, <1>c
  <1>5. ASSUME NEW status \in {"succeeded", "failed", "cancelled"}, ResolveReconciliation(t, status)
        PROVE  ToolInv'
    BY <1>5, ReconciliationInv
  <1> QED BY <1>1, <1>2, <1>3, <1>4, <1>5 DEF AnswerStep
LEMMA AskQuestionInv ==
    ASSUME TypeOK, ToolInv, NEW t \in Turns, NEW r \in Requests, AskQuestion(t, r)
    PROVE  ToolInv'
  <1> USE DEF ToolInv
  <1>a. /\ interaction' = [interaction EXCEPT ![r] = Asked("question", t, NoOp)] /\ op' = op
        /\ interaction \in [Requests -> InteractionRow]
        /\ interaction[r].status = "free" /\ interaction[r].kind = "none"
    BY DEF AskQuestion, Fresh, RowsNameTheirCall, TypeOK, TurnTypeOK, untouchedByTurns, toolVars
  <1>b. /\ interaction'[r].status = "pending" /\ interaction'[r].kind = "question"
        /\ interaction'[r].op = NoOp
        /\ \A q \in Requests \ {r} : interaction'[q] = interaction[q]
    BY <1>a DEF Asked, FreeRow
  <1>1. RowsNameTheirCall'
    BY <1>b DEF RowsNameTheirCall, ToolQuestion
  <1>2. ApprovalIsOfCall'
    BY <1>a, <1>b DEF ApprovalIsOfCall
  <1>3. ClaimedStaysStarted'
    BY <1>a DEF ClaimedStaysStarted
  <1>4. ApprovalStands'
    BY <1>a, <1>b DEF ApprovalStands
  <1>5. UnknownAsksOnce'
    <2>1. \A o \in Ops : PendingReconciliations(o)' = PendingReconciliations(o)
      BY <1>a, <1>b DEF PendingReconciliations
    <2> QED BY <2>1, <1>a DEF UnknownAsksOnce
  <1>6. ApprovalBlocksItsCall'
    BY <1>a, <1>b DEF ApprovalBlocksItsCall
  <1> QED BY <1>1, <1>2, <1>3, <1>4, <1>5, <1>6

LEMMA AnswerQuestionInv ==
    ASSUME TypeOK, ToolInv, NEW t \in Turns, NEW r \in Requests, AnswerQuestion(t, r)
    PROVE  ToolInv'
  <1>1. /\ interaction[r].status = "pending" /\ interaction[r].kind = "question"
        /\ interaction' = [interaction EXCEPT ![r] = Answered(r, "answered", "none")] /\ op' = op
        /\ interaction \in [Requests -> InteractionRow]
    BY DEF AnswerQuestion, PendingOf, Pending, TypeOK, TurnTypeOK, untouchedByTurns, toolVars
  <1>2. interaction[r].op = NoOp /\ NoOp \notin Ops
    BY <1>1, TurnConstants DEF ToolInv, RowsNameTheirCall, ToolQuestion
  <1>3. AnsweredRow(r)
    BY <1>1, <1>2 DEF AnsweredRow, SameSubject, Answered, InteractionRow
  <1>4. \A q \in Requests : interaction'[q] = interaction[q] \/ AnsweredRow(q)
    BY <1>1, <1>3
  <1> QED BY <1>1, <1>4, AnswersKeepInv

(* A cancelled Turn withdraws what waits; calls that may have acted, and    *)
(* so every open reconciliation, stand in its way.                          *)
LEMMA CancelTurnInv ==
    ASSUME TypeOK, ToolInv, NEW t \in Turns, CancelTurn(t)
    PROVE  ToolInv'
  <1> USE DEF ToolInv
  <1>a. interaction \in [Requests -> InteractionRow] /\ op \in [Ops -> OpRow]
    BY DEF TypeOK, TurnTypeOK, ToolTypeOK
  <1>1. ASSUME NEW r \in Pending(t)
        PROVE  /\ interaction[r].status = "pending" /\ interaction'[r].status = "resolved"
               /\ SameSubject(r)
               /\ interaction[r].op \in Ops =>
                      /\ op[interaction[r].op].status = "awaiting_approval"
                      /\ op'[interaction[r].op].status = "cancelled"
    <2>1. r \in Requests /\ interaction[r].status = "pending"
      BY <1>1 DEF Pending
    <2>2. interaction'[r] = Answered(r, "abort", "denied")
      BY <1>1, <2>1 DEF CancelTurn
    <2>3. interaction'[r].status = "resolved" /\ SameSubject(r)
      BY <2>1, <2>2, <1>a DEF Answered, SameSubject, InteractionRow
    <2>4. ASSUME interaction[r].op \in Ops
          PROVE  /\ op[interaction[r].op].status = "awaiting_approval"
                 /\ op'[interaction[r].op].status = "cancelled"
      BY <1>1, <2>4, <1>a, TurnConstants DEF CancelTurn, OpRow
    <2> QED BY <2>1, <2>3, <2>4
  <1>2. ASSUME NEW r \in Requests
        PROVE  interaction'[r] = interaction[r] \/ AnsweredRow(r)
    <2>1. CASE r \in Pending(t)
      BY <2>1, <1>1 DEF AnsweredRow
    <2>2. CASE r \notin Pending(t)
      BY <2>2 DEF CancelTurn
    <2> QED BY <2>1, <2>2
  <1>3. ASSUME NEW o \in Ops
        PROVE  op'[o] = op[o] \/ ReleasedCall(o)
    <2>1. CASE \E r \in Pending(t) : interaction[r].op = o
      <3>1. PICK r \in Pending(t) : interaction[r].op = o
        BY <2>1
      <3>2. op[o].status = "awaiting_approval"
        BY <3>1, <1>1
      <3>3. /\ op[o].approval \in Requests /\ interaction[op[o].approval].status = "pending"
            /\ interaction[op[o].approval].kind = "tool_approval"
            /\ interaction[op[o].approval].op = o
        BY <3>2, TurnConstants DEF ApprovalBlocksItsCall, ApprovalIsOfCall, NoRequest
      <3>4. interaction[r].turn = t /\ interaction[r].kind \in ToolQuestion /\ r \in Requests
        BY <3>1, TurnConstants DEF Pending, RowsNameTheirCall
      <3>5. TurnOf[o] = t
        BY <3>1, <3>4 DEF RowsNameTheirCall
      <3>6. op[o].approval \in Pending(t)
        BY <3>3, <3>5 DEF RowsNameTheirCall, ToolQuestion, Pending
      <3>7. interaction'[op[o].approval].status = "resolved"
        BY <3>6, <1>1
      <3>8. op'[o] = [op[o] EXCEPT !.status = "cancelled"]
        BY <2>1 DEF CancelTurn
      <3> QED BY <3>2, <3>7, <3>8, <1>a DEF ReleasedCall, OpRow
    <2>2. CASE ~\E r \in Pending(t) : interaction[r].op = o
      BY <2>2 DEF CancelTurn
    <2> QED BY <2>1, <2>2
  <1> QED BY <1>2, <1>3, AnswersKeepInv

(* A new owner puts up at most one call, and never one it puts up for the   *)
(* second time.                                                             *)
LEMMA RecoverOwnerInv ==
    ASSUME TypeOK, ToolInv, NEW t \in Turns, NEW abort \in BOOLEAN, RecoverOwner(t, abort)
    PROVE  ToolInv'
  <1> USE DEF ToolInv
  <1>a. op \in [Ops -> OpRow]
    BY DEF TypeOK, ToolTypeOK
  <1>1. ASSUME NEW o \in Ops, NEW r \in Requests, LoseTool(t, o, r)
        PROVE  ToolInv'
    <2>1. PutUp(o) /\ \A p \in Ops \ {o} : Moves(p)
      BY <1>1, <1>a DEF LoseTool, SetStatus, PutUp, Moves, OpRow, Unstarted
    <2> QED BY <1>1, <2>1, PutUpKeepsInv DEF LoseTool
  <1>2. CASE UNCHANGED <<interaction, op>>
    BY <1>2, FrameKeepsInv
  <1>3. ASSUME CloseUnstarted(t), Quiescent(t) PROVE ToolInv'
    <2>1. \A o \in Closable(t) \cup Missing(t) : o \in Ops /\ op[o].status \notin {"running", "unknown"}
      BY <1>3 DEF Closable, Missing, Unresolved, OpsOf, Quiescent, InStatus, Uncertain
    <2>3. ASSUME NEW o \in Closable(t) PROVE Moves(o)
      <3>1. op'[o] = Closed(o) /\ op[o] \in OpRow
        BY <2>1, <2>3, <1>3, <1>a DEF CloseUnstarted
      <3>2. op[o].status \in {"absent", "prepared", "ready", "failed", "denied", "cancelled"}
        BY <2>3, <1>3 DEF CloseUnstarted, CanClose
      <3>3. CASE op[o].status = "absent"
        BY <3>1, <3>3 DEF Closed, Moves
      <3>4. CASE op[o].status \in {"prepared", "ready"}
        <4>1. op'[o] = [op[o] EXCEPT !.status = "failed", !.linked = TRUE]
          BY <3>1, <3>4 DEF Closed
        <4> QED BY <3>1, <3>4, <4>1 DEF Moves, OpRow, Unstarted
      <3>5. CASE op[o].status \in {"failed", "denied", "cancelled"}
        <4>1. op'[o] = [op[o] EXCEPT !.linked = TRUE]
          BY <3>1, <3>5 DEF Closed
        <4> QED BY <3>1, <4>1 DEF Moves, OpRow
      <3> QED BY <3>2, <3>3, <3>4, <3>5
    <2>4. \A o \in Ops \ (Closable(t) \cup FirstMissing(t)) : Moves(o)
      BY <1>3 DEF CloseUnstarted, Moves
    <2>5. CASE Missing(t) = {}
      <3>1. FirstMissing(t) = {} /\ interaction' = interaction
        BY <2>5, <1>3 DEF FirstMissing, CloseUnstarted
      <3> QED BY <3>1, <2>3, <2>4, MovesKeepInv
    <2>6. CASE Missing(t) # {}
      <3>1. PICK o \in FirstMissing(t), r \in Requests : AskReconciliation(o, r)
        BY <2>6, <1>3 DEF CloseUnstarted
      <3>2. o \in Missing(t) /\ o \in Ops /\ op[o].claims > 0
        BY <3>1 DEF FirstMissing, Missing, Unresolved, OpsOf
      <3>3. o \notin Closable(t)
        BY <3>2, ToolConstants DEF Closable
      <3>4. FirstMissing(t) = {o}
        <4>1. \A p \in FirstMissing(t) : p \in Nat /\ o \in Nat /\ p <= o /\ o <= p
          BY <3>1, <2>1, ToolConstants DEF FirstMissing
        <4> QED BY <3>1, <4>1
      <3>5. PutUp(o)
        BY <3>1, <3>2, <3>3, <2>1, <1>3, <1>a DEF CloseUnstarted, PutUp, OpRow, ClaimedStaysStarted
      <3> QED BY <3>1, <3>2, <3>4, <3>5, <2>3, <2>4, PutUpKeepsInv
    <2> QED BY <2>5, <2>6
  <1> QED BY <1>1, <1>2, <1>3 DEF RecoverOwner

LEMMA TurnStepInv ==
    ASSUME TypeOK, ToolInv, NEW t \in Turns, TurnStep(t)
    PROVE  ToolInv'
  <1>1. ASSUME NEW r \in Requests, AskQuestion(t, r) PROVE ToolInv'
    BY <1>1, AskQuestionInv
  <1>2. ASSUME NEW r \in Requests, AnswerQuestion(t, r) PROVE ToolInv'
    BY <1>2, AnswerQuestionInv
  <1>3. CASE CancelTurn(t)
    BY <1>3, CancelTurnInv
  <1>4. ASSUME NEW abort \in BOOLEAN, RecoverOwner(t, abort) PROVE ToolInv'
    BY <1>4, RecoverOwnerInv
  <1>5. CASE UNCHANGED <<op, interaction>>
    BY <1>5, FrameKeepsInv
  <1> QED
    BY <1>1, <1>2, <1>3, <1>4, <1>5
    DEF TurnStep, StartTurn, StartChild, SettleChild, ReceiveInput, FailTurn, PauseTurn,
        InterruptOrphaned, RequestCancellation, ResumeChildWait, ResumeCancelled, CompleteTurn,
        PauseForChildren, untouchedByTurns, toolVars

LEMMA ModelStepInv ==
    ASSUME TypeOK, ToolInv, NEW m \in Models, ModelStep(m)
    PROVE  ToolInv'
  <1>1. UNCHANGED <<op, interaction>>
    BY DEF ModelStep, PrepareModel, SupersedePrepared, DispatchModel, ExpireDispatch, MarkModelUnknown,
           PrepareScheduledRetry, CancelScheduledRetry, FailUnstartedRetry, RetryModel, ResponseHandled,
           CancelModelAttempt, FailureUnknown, FailureScheduled, FailureFinal, RejectModel, CompleteModel,
           turnVars, toolVars, untouchedByModels
  <1> QED BY <1>1, FrameKeepsInv

LEMMA InitInv == Init => ToolInv
  BY TurnConstants
  DEF Init, TurnInit, ToolInit, ToolInv, RowsNameTheirCall, ApprovalIsOfCall, ClaimedStaysStarted,
      ApprovalStands, UnknownAsksOnce, ApprovalBlocksItsCall, PendingReconciliations, ToolQuestion,
      FreeRow, NoOpRow, NoRequest

LEMMA StepInv ==
    ASSUME TypeOK, ToolInv, [Next]_vars
    PROVE  ToolInv'
  <1>1. CASE UNCHANGED vars
    BY <1>1, FrameKeepsInv DEF vars, turnVars, toolVars
  <1> QED BY <1>1, TurnStepInv, AnswerStepInv, ToolStepInv, ModelStepInv DEF Next

(* Whoever calls the commands of the ledger, and in whatever order, the     *)
(* operations and the interactions about them stay tied together.           *)
THEOREM ToolsStayTied == Spec => []ToolInv
  <1>1. TypeOK /\ ToolInv /\ [Next]_vars => ToolInv'
    BY StepInv
  <1> QED BY InitInv, TypeCorrect, <1>1, PTL DEF Spec

(* An effect is started at most once, for any number of Turns, calls and    *)
(* interactions.                                                            *)
THEOREM ClaimsAreUnique == Spec => []ClaimedAtMostOnce
  <1>1. ToolInv => ClaimedAtMostOnce
    BY DEF ToolInv, ClaimedStaysStarted, ClaimedAtMostOnce
  <1> QED BY <1>1, ToolsStayTied, PTL

(* An uncertain outcome is asked for exactly once.                          *)
THEOREM UncertainIsAskedOnce == Spec => []UnknownAsksOnce
  <1>1. ToolInv => UnknownAsksOnce
    BY DEF ToolInv
  <1> QED BY <1>1, ToolsStayTied, PTL

(* An answer always releases the call that the user was shown.              *)
THEOREM ApprovalsBlock == Spec => []ApprovalBlocksItsCall
  <1>1. ToolInv => ApprovalBlocksItsCall
    BY DEF ToolInv
  <1> QED BY <1>1, ToolsStayTied, PTL

(* No call that was put up for approval starts without a standing one.      *)
THEOREM NothingStartsUnapproved == Spec => []StartedOnlyIfApproved
  <1>1. ToolInv => StartedOnlyIfApproved
    BY DEF ToolInv, ApprovalStands, StartedOnlyIfApproved
  <1> QED BY <1>1, ToolsStayTied, PTL
=============================================================================
