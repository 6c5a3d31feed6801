---------------------------- MODULE TurnLedgerInv ----------------------------
(***************************************************************************)
(* The inductive invariants behind the promises of TurnLedger: what links  *)
(* the operations to the interactions about them, the reservations to the  *)
(* attempts they pay for, and the slots to the Turns that hold them.       *)
(***************************************************************************)
EXTENDS TurnLedger

ToolQuestion == {"tool_approval", "tool_reconciliation"}

(* An interaction about a tool names the operation and its Turn for ever.   *)
RowsNameTheirCall ==
    \A r \in Requests :
        /\ interaction[r].status = "free" <=> interaction[r].kind = "none"
        /\ interaction[r].kind \in ToolQuestion =>
               /\ interaction[r].op \in Ops
               /\ interaction[r].turn = TurnOf[interaction[r].op]
        /\ interaction[r].kind \notin ToolQuestion => interaction[r].op = NoOp

(* An operation points at an approval row of its own, once it was put up.   *)
ApprovalIsOfCall ==
    \A o \in Ops :
        LET r == op[o].approval IN
        /\ op[o].status \in {"absent", "prepared"} => r = NoRequest
        /\ r # NoRequest => /\ r \in Requests
                            /\ interaction[r].kind = "tool_approval"
                            /\ interaction[r].op = o

(* What was claimed once never becomes claimable again.                     *)
ClaimedStaysStarted ==
    \A o \in Ops : /\ op[o].claims <= 1
                   /\ op[o].claims > 0 => op[o].status \notin {"absent"} \cup Unstarted

(* From the answer to the end an approved call keeps a standing approval.   *)
ApprovalStands ==
    \A o \in Ops :
        /\ op[o].status = "ready" \/ op[o].claims > 0
        /\ op[o].approval # NoRequest
        => LET row == interaction[op[o].approval] IN
           row.status = "resolved" /\ row.decision = "approve" /\ row.approval = "approved"

(* No sequence of claims, answers, rechecks, recoveries and cancellations   *)
(* parts an operation from the interactions about it: the invariant of      *)
(* tool_ops.py that the promises about effects and approvals rest on.       *)
ToolInv ==
    /\ RowsNameTheirCall
    /\ ApprovalIsOfCall
    /\ ClaimedStaysStarted
    /\ ApprovalStands
    /\ UnknownAsksOnce
    /\ ApprovalBlocksItsCall

(* The attempts of an operation are numbered by its generation; nothing is  *)
(* reserved for an attempt that does not exist yet, and an attempt that is  *)
(* prepared has spent nothing (prepare_model_retry, dispatch_model_attempt, *)
(* budget_ops.py).                                                          *)
ModelInv ==
    /\ DispatchedOnlyIfAwaited
    /\ \A m \in Models :
           /\ model[m].status # "absent" =>
                  model[m].generation \in Generations /\ model[m].turn \in Turns
           /\ model[m].status = "absent" => model[m] = NoModelRow
           /\ \A g \in Generations : g > model[m].generation => reservation[m][g] = "none"
           /\ model[m].status = "prepared" => Attempt(m) \in {"none", "reserved"}
=============================================================================
