-------------------------- MODULE Compaction_proofs --------------------------
(***************************************************************************)
(* What compaction promises of a Turn's history and of the calls it        *)
(* admits, for any number of jobs, nodes, requests, retries and messages,  *)
(* and a driver whose process may end between any two commits.             *)
(*                                                                         *)
(* The ledger is an invariant of its own: only the newest request is open, *)
(* every request is linked to its job, and a job that is alive holds a     *)
(* call for everything its summaries may still ask for.  What the driver   *)
(* read before its last commit is a second one.                            *)
(***************************************************************************)
EXTENDS Compaction, FiniteSetTheorems, SequenceTheorems, WellFoundedInduction, TLAPS

-----------------------------------------------------------------------------
(* Numbers and sequences *)

(* A set of numbers that has a member has a least one.                      *)
LEMMA LeastNumber ==
    ASSUME NEW S \in SUBSET Nat, S # {}
    PROVE  Min(S) \in S /\ \A x \in S : Min(S) <= x
  <1> DEFINE Upto(x) == {y \in S : y <= x}
             Family == {Upto(x) : x \in S}
  <1>1. \A x \in S : IsFiniteSet(Upto(x)) /\ Upto(x) \in SUBSET Nat
    BY FS_BoundedSetOfNaturals
  <1>2. Family \subseteq FiniteSubsetsOf(Nat) /\ Family # {}
    BY <1>1 DEF FiniteSubsetsOf
  <1>3. IsWellFoundedOn(StrictSubsetOrdering(Nat), FiniteSubsetsOf(Nat))
    BY FS_StrictSubsetOrderingWellFounded
  <1>4. PICK T \in Family : \A U \in Family : ~ (<<U, T>> \in StrictSubsetOrdering(Nat))
    <2> HIDE DEF Family
    <2> QED BY <1>2, <1>3, WFMin
  <1>5. PICK x \in S : T = Upto(x)
    BY <1>4
  <1>6. \A y \in S : x <= y
    <2> SUFFICES ASSUME NEW y \in S, ~(x <= y) PROVE FALSE
      OBVIOUS
    <2>0. y < x /\ x \in Nat /\ y \in Nat
      OBVIOUS
    <2>a. x \in Upto(x) /\ x \notin Upto(y)
      BY <2>0
    <2>b. \A z \in Upto(y) : z \in Upto(x)
      BY <2>0
    <2>1. Upto(y) \subseteq Upto(x) /\ Upto(y) # Upto(x) /\ Upto(y) \in Family
      <3> HIDE DEF Upto
      <3> QED BY <2>a, <2>b
    <2>2. Upto(x) \in SUBSET Nat /\ Upto(y) \in SUBSET Nat
      BY <1>1
    <2>3. <<Upto(y), Upto(x)>> \in StrictSubsetOrdering(Nat)
      <3> HIDE DEF Upto
      <3> QED BY <2>1, <2>2 DEF StrictSubsetOrdering
    <2> QED BY <2>1, <2>3, <1>4, <1>5
  <1> QED BY <1>6 DEF Min

-----------------------------------------------------------------------------
(* What a step makes of the requests *)

(* The newest request gets another status, and its reservation another      *)
(* fate; nothing else about the requests changes.                           *)
Rewritten(status, scheduled, fund) ==
    /\ request' \in Seq(RequestRow) /\ Last > 0 /\ Last' = Last
    /\ \A i \in 1..Last : i # Last => request'[i] = request[i]
    /\ request'[Last].purpose = request[Last].purpose /\ request'[Last].job = request[Last].job
    /\ request'[Last].revision = request[Last].revision /\ request'[Last].source = request[Last].source
    /\ request'[Last].status = status /\ request'[Last].scheduled = scheduled
    /\ Len(request'[Last].funds) = Len(request[Last].funds)
    /\ \A g \in 1..Len(request[Last].funds) :
           request'[Last].funds[g] = IF g = Len(request[Last].funds) THEN fund ELSE request[Last].funds[g]

(* The newest request gets another attempt.                                 *)
Repeated(fund) ==
    /\ request' \in Seq(RequestRow) /\ Last > 0 /\ Last' = Last
    /\ \A i \in 1..Last : i # Last => request'[i] = request[i]
    /\ request'[Last].purpose = request[Last].purpose /\ request'[Last].job = request[Last].job
    /\ request'[Last].revision = request[Last].revision /\ request'[Last].source = request[Last].source
    /\ request'[Last].status = "prepared" /\ request'[Last].scheduled = request[Last].scheduled
    /\ Len(request'[Last].funds) = Len(request[Last].funds) + 1
    /\ \A g \in 1..Len(request[Last].funds) : request'[Last].funds[g] = request[Last].funds[g]
    /\ request'[Last].funds[Len(request[Last].funds) + 1] = fund

(* There is one more request.                                               *)
Grown(row) ==
    /\ request' \in Seq(RequestRow) /\ Last' = Last + 1 /\ row \in RequestRow
    /\ \A i \in 1..Last : request'[i] = request[i]
    /\ request'[Last + 1] = row

(* The newest request and its newest attempt can be read whenever there is  *)
(* a request.                                                               *)
LEMMA Rows ==
    ASSUME CompactionTypeOK
    PROVE  /\ Last \in Nat /\ DOMAIN request = 1..Last
           /\ \A i \in 1..Last : /\ request[i] \in RequestRow
                                 /\ Len(request[i].funds) \in Nat \ {0}
                                 /\ DOMAIN request[i].funds = 1..Len(request[i].funds)
                                 /\ request[i].funds \in Seq(Funds)
                                 /\ Active(i) \in Funds
  <1>1. Last \in Nat /\ DOMAIN request = 1..Last /\ \A i \in 1..Last : request[i] \in RequestRow
    BY LenProperties, ElementOfSeq DEF CompactionTypeOK, Last
  <1>2. ASSUME NEW i \in 1..Last
        PROVE  /\ Len(request[i].funds) \in Nat \ {0} /\ DOMAIN request[i].funds = 1..Len(request[i].funds)
               /\ request[i].funds \in Seq(Funds)
               /\ Active(i) \in Funds
    <2>1. request[i].funds \in Seq(Funds) /\ request[i].funds # <<>>
      BY <1>1 DEF RequestRow
    <2>2. Len(request[i].funds) \in Nat \ {0} /\ DOMAIN request[i].funds = 1..Len(request[i].funds)
      BY <2>1, LenProperties, EmptySeq
    <2>3. Active(i) \in Funds
      BY <2>1, <2>2, ElementOfSeq DEF Active
    <2> QED BY <2>1, <2>2, <2>3
  <1> QED BY <1>1, <1>2

(* Statuses of a request, and those in which nothing is open any more.      *)
RequestStatus == {"prepared", "dispatched", "retry_wait", "unknown", "completed", "consumed", "failed"}

(* What Requests makes of the newest request.                               *)
LEMMA RequestsIs ==
    ASSUME CompactionTypeOK, Last > 0, NEW status \in RequestStatus, NEW fund \in Funds
    PROVE  /\ Requests(Last, status, fund) \in Seq(RequestRow) /\ Len(Requests(Last, status, fund)) = Last
           /\ \A i \in 1..Last : i # Last => Requests(Last, status, fund)[i] = request[i]
           /\ \E new \in RequestRow :
                  /\ Requests(Last, status, fund)[Last] = new
                  /\ new.purpose = request[Last].purpose /\ new.job = request[Last].job
                  /\ new.revision = request[Last].revision /\ new.source = request[Last].source
                  /\ new.status = status /\ new.scheduled = FALSE
                  /\ Len(new.funds) = Len(request[Last].funds)
                  /\ \A g \in 1..Len(request[Last].funds) :
                         new.funds[g] = IF g = Len(request[Last].funds) THEN fund ELSE request[Last].funds[g]
  <1> DEFINE row == request[Last]
             funds == [row.funds EXCEPT ![Len(row.funds)] = fund]
             new == [row EXCEPT !.status = status, !.scheduled = FALSE, !.funds = funds]
             s == Requests(Last, status, fund)
  <1>1. /\ Last \in 1..Last /\ DOMAIN request = 1..Last /\ row \in RequestRow
        /\ row.funds \in Seq(Funds) /\ Len(row.funds) \in Nat \ {0}
    BY Rows
  <1>2. /\ funds \in Seq(Funds) /\ Len(funds) = Len(row.funds)
        /\ \A g \in 1..Len(row.funds) : funds[g] = IF g = Len(row.funds) THEN fund ELSE row.funds[g]
    <2> HIDE DEF row
    <2>1. Len(row.funds) \in 1..Len(row.funds)
      BY <1>1
    <2> QED BY <1>1, <2>1, ExceptSeq
  <1>3. funds # <<>>
    BY <1>1, <1>2, EmptySeq
  <1>4. /\ new \in RequestRow /\ new.purpose = row.purpose /\ new.job = row.job /\ new.revision = row.revision
        /\ new.source = row.source /\ new.status = status /\ new.scheduled = FALSE /\ new.funds = funds
    <2> HIDE DEF funds, row
    <2> QED BY <1>1, <1>2, <1>3 DEF RequestRow, RequestStatus
  <1>5. s = [request EXCEPT ![Last] = new]
    BY <1>1 DEF Requests
  <1>6. /\ s \in Seq(RequestRow) /\ Len(s) = Last
        /\ \A i \in 1..Last : s[i] = IF i = Last THEN new ELSE request[i]
    <2> HIDE DEF new, s
    <2> QED BY <1>1, <1>4, <1>5, ExceptSeq DEF CompactionTypeOK, Last
  <1>7. s[Last] = new
    BY <1>1, <1>6
  <1>8. /\ Len(new.funds) = Len(row.funds)
        /\ \A g \in 1..Len(row.funds) : new.funds[g] = IF g = Len(row.funds) THEN fund ELSE row.funds[g]
    <2> HIDE DEF new, funds
    <2> QED BY <1>2, <1>4
  <1> HIDE DEF new, funds
  <1>9. /\ s \in Seq(RequestRow) /\ Len(s) = Last
        /\ \A i \in 1..Last : i # Last => s[i] = request[i]
    BY <1>6
  <1>10. \E x \in RequestRow :
             /\ s[Last] = x
             /\ x.purpose = row.purpose /\ x.job = row.job
             /\ x.revision = row.revision /\ x.source = row.source
             /\ x.status = status /\ x.scheduled = FALSE
             /\ Len(x.funds) = Len(row.funds)
             /\ \A g \in 1..Len(row.funds) : x.funds[g] = IF g = Len(row.funds) THEN fund ELSE row.funds[g]
    <2> HIDE DEF s, row
    <2> USE <1>4
    <2> WITNESS new \in RequestRow
    <2> QED BY <1>4, <1>5, <1>7, <1>8
  <1> QED BY <1>9, <1>10

(* The helper that the commands use is a rewrite of the newest request.     *)
LEMMA RequestsRewrite ==
    ASSUME CompactionTypeOK, Last > 0, NEW status \in RequestStatus, NEW fund \in Funds,
           request' = Requests(Last, status, fund)
    PROVE  Rewritten(status, FALSE, fund)
  <1> DEFINE s == Requests(Last, status, fund)
  <1>1. PICK new \in RequestRow :
             /\ s[Last] = new
             /\ new.purpose = request[Last].purpose /\ new.job = request[Last].job
             /\ new.revision = request[Last].revision /\ new.source = request[Last].source
             /\ new.status = status /\ new.scheduled = FALSE
             /\ Len(new.funds) = Len(request[Last].funds)
             /\ \A g \in 1..Len(request[Last].funds) :
                    new.funds[g] = IF g = Len(request[Last].funds) THEN fund ELSE request[Last].funds[g]
    BY RequestsIs
  <1>2. /\ s \in Seq(RequestRow) /\ Len(s) = Last
        /\ \A i \in 1..Last : i # Last => s[i] = request[i]
    BY RequestsIs
  <1>3. request' = s
    OBVIOUS
  <1> HIDE DEF s
  <1>4. Last' = Last
    BY <1>2, <1>3 DEF Last
  <1> QED BY <1>1, <1>2, <1>3, <1>4 DEF Rewritten

-----------------------------------------------------------------------------
(* Requests, attempts and the sum of what was paid *)

(* Nothing is open any more in a request of these statuses.                 *)
Settled == {"completed", "consumed", "failed"}

(* Only the newest request is open.  A scheduled retry waits or is          *)
(* prepared; an attempt that was sent has a reservation; a summary is never *)
(* consumed and always has a job.                                           *)
RowsInv ==
    \A i \in DOMAIN request :
        /\ i # Last => request[i].status \in Settled
        /\ request[i].scheduled => request[i].status \in {"prepared", "retry_wait"}
        /\ request[i].status = "prepared" => Active(i) \in {"none", "reserved"}
        /\ request[i].status \in {"dispatched", "retry_wait", "unknown"} => Active(i) # "none"
        /\ IsSummary(i) => request[i].status # "consumed" /\ request[i].job # 0

(* A field of the newest request that no promise is about.                  *)
LEMMA RewriteMore ==
    ASSUME CompactionTypeOK, Last > 0, NEW status \in RequestStatus, NEW fund \in Funds, NEW value \in BOOLEAN
    PROVE  /\ request' = [Requests(Last, status, fund) EXCEPT ![Last].usable = value]
                  => Rewritten(status, FALSE, fund)
           /\ request' = [Requests(Last, status, fund) EXCEPT ![Last].scheduled = value]
                  => Rewritten(status, value, fund)
  <1> DEFINE s == Requests(Last, status, fund)
             row == s[Last]
             u == [row EXCEPT !.usable = value]
             v == [row EXCEPT !.scheduled = value]
  <1>1. PICK new \in RequestRow :
             /\ s[Last] = new
             /\ new.purpose = request[Last].purpose /\ new.job = request[Last].job
             /\ new.revision = request[Last].revision /\ new.source = request[Last].source
             /\ new.status = status /\ new.scheduled = FALSE
             /\ Len(new.funds) = Len(request[Last].funds)
             /\ \A g \in 1..Len(request[Last].funds) :
                    new.funds[g] = IF g = Len(request[Last].funds) THEN fund ELSE request[Last].funds[g]
    BY RequestsIs
  <1>2. /\ s \in Seq(RequestRow) /\ Len(s) = Last
        /\ \A i \in 1..Last : i # Last => s[i] = request[i]
    BY RequestsIs
  <1>3. Last \in 1..Last /\ Last \in Nat
    BY Rows
  <1> HIDE DEF s
  <1>4. /\ u \in RequestRow /\ u.purpose = row.purpose /\ u.job = row.job /\ u.revision = row.revision
        /\ u.source = row.source /\ u.status = row.status /\ u.scheduled = row.scheduled /\ u.funds = row.funds
        /\ v \in RequestRow /\ v.purpose = row.purpose /\ v.job = row.job /\ v.revision = row.revision
        /\ v.source = row.source /\ v.status = row.status /\ v.scheduled = value /\ v.funds = row.funds
    BY <1>1 DEF RequestRow
  <1>5. /\ [s EXCEPT ![Last].usable = value] = [s EXCEPT ![Last] = u]
        /\ [s EXCEPT ![Last].scheduled = value] = [s EXCEPT ![Last] = v]
    BY <1>2, <1>3, LenProperties
  <1>6. \A x \in RequestRow :
            /\ [s EXCEPT ![Last] = x] \in Seq(RequestRow) /\ Len([s EXCEPT ![Last] = x]) = Last
            /\ \A i \in 1..Last : [s EXCEPT ![Last] = x][i] = IF i = Last THEN x ELSE s[i]
    BY <1>2, <1>3, ExceptSeq
  <1> HIDE DEF u, v
  <1>7. ASSUME request' = [s EXCEPT ![Last] = u]
        PROVE  Rewritten(status, FALSE, fund)
    <2>1. request' \in Seq(RequestRow) /\ Len(request') = Last /\ request'[Last] = u
          /\ \A i \in 1..Last : i # Last => request'[i] = s[i]
      BY <1>3, <1>4, <1>6, <1>7
    <2>2. Last' = Last
      BY <2>1 DEF Last
    <2> QED BY <1>1, <1>2, <1>4, <2>1, <2>2 DEF Rewritten
  <1>8. ASSUME request' = [s EXCEPT ![Last] = v]
        PROVE  Rewritten(status, value, fund)
    <2>1. request' \in Seq(RequestRow) /\ Len(request') = Last /\ request'[Last] = v
          /\ \A i \in 1..Last : i # Last => request'[i] = s[i]
      BY <1>3, <1>4, <1>6, <1>8
    <2>2. Last' = Last
      BY <2>1 DEF Last
    <2> QED BY <1>1, <1>2, <1>4, <2>1, <2>2 DEF Rewritten
  <1> QED BY <1>5, <1>7, <1>8 DEF s

(* An answer is consumed.                                                   *)
LEMMA ConsumedIs ==
    ASSUME CompactionTypeOK, Last > 0, request' = [request EXCEPT ![Last].status = "consumed"]
    PROVE  Rewritten("consumed", request[Last].scheduled, Active(Last))
  <1> DEFINE row == request[Last]
             new == [row EXCEPT !.status = "consumed"]
  <1>1. /\ Last \in 1..Last /\ Last \in Nat /\ DOMAIN request = 1..Last /\ row \in RequestRow
        /\ Len(row.funds) \in Nat
    BY Rows
  <1>2. /\ new \in RequestRow /\ new.purpose = row.purpose /\ new.job = row.job /\ new.revision = row.revision
        /\ new.source = row.source /\ new.status = "consumed" /\ new.scheduled = row.scheduled
        /\ new.funds = row.funds
    BY <1>1 DEF RequestRow
  <1>3. request' = [request EXCEPT ![Last] = new]
    BY <1>1
  <1> HIDE DEF new
  <1>4. /\ request' \in Seq(RequestRow) /\ Len(request') = Last
        /\ \A i \in 1..Last : request'[i] = IF i = Last THEN new ELSE request[i]
    <2> HIDE DEF row
    <2>1. request \in Seq(RequestRow) /\ Len(request) = Last
      BY DEF CompactionTypeOK, Last
    <2> QED BY <1>1, <1>2, <1>3, <2>1, ExceptSeq
  <1>5. Last' = Last /\ request'[Last] = new
    BY <1>1, <1>4 DEF Last
  <1> QED BY <1>1, <1>2, <1>4, <1>5 DEF Rewritten, Active

(* What NextAttempt makes of the newest request.                            *)
LEMMA NextAttemptIs ==
    ASSUME CompactionTypeOK, Last > 0, NEW fund \in Funds, request' = NextAttempt(Last, fund)
    PROVE  Repeated(fund)
  <1> DEFINE row == request[Last]
             funds == Append(row.funds, fund)
             new == [row EXCEPT !.status = "prepared", !.funds = funds]
  <1>1. /\ Last \in 1..Last /\ Last \in Nat /\ DOMAIN request = 1..Last /\ row \in RequestRow
        /\ row.funds \in Seq(Funds) /\ Len(row.funds) \in Nat
    BY Rows
  <1>2. /\ funds \in Seq(Funds) /\ funds # <<>> /\ Len(funds) = Len(row.funds) + 1
        /\ \A g \in 1..Len(row.funds) : funds[g] = row.funds[g]
        /\ funds[Len(row.funds) + 1] = fund
    <2> HIDE DEF row
    <2> QED BY <1>1, AppendProperties
  <1>3. /\ new \in RequestRow /\ new.purpose = row.purpose /\ new.job = row.job /\ new.revision = row.revision
        /\ new.source = row.source /\ new.status = "prepared" /\ new.scheduled = row.scheduled
        /\ new.funds = funds
    <2> HIDE DEF funds, row
    <2> QED BY <1>1, <1>2 DEF RequestRow
  <1>4. request' = [request EXCEPT ![Last] = new]
    BY <1>1 DEF NextAttempt
  <1> HIDE DEF new, funds
  <1>5. /\ request' \in Seq(RequestRow) /\ Len(request') = Last
        /\ \A i \in 1..Last : request'[i] = IF i = Last THEN new ELSE request[i]
    BY <1>1, <1>3, <1>4, ExceptSeq DEF CompactionTypeOK, Last
  <1>6. Last' = Last /\ request'[Last] = new
    BY <1>1, <1>5 DEF Last
  <1> QED BY <1>1, <1>2, <1>3, <1>5, <1>6 DEF Repeated

(* A new request.                                                           *)
LEMMA NewRequestIs ==
    ASSUME CompactionTypeOK, NEW purpose \in Nodes \cup {0}, NEW j \in Compactions \cup {0}, NEW revision \in Nat,
           NEW src \in Nat, NEW fund \in Funds,
           request' = Append(request, NewRequest(purpose, j, revision, src, fund))
    PROVE  Grown(NewRequest(purpose, j, revision, src, fund))
  <1> DEFINE row == NewRequest(purpose, j, revision, src, fund)
  <1>1. <<fund>> \in Seq(Funds) /\ <<fund>> # <<>>
    OBVIOUS
  <1>2. row \in RequestRow
    BY <1>1 DEF NewRequest, RequestRow
  <1> HIDE DEF row
  <1>3. /\ request' \in Seq(RequestRow) /\ Len(request') = Last + 1
        /\ \A i \in 1..Last : request'[i] = request[i]
        /\ request'[Last + 1] = row
    BY <1>2, AppendProperties DEF CompactionTypeOK, Last, row
  <1> QED BY <1>2, <1>3 DEF Grown, Last, row

(* recover_owner_loss: only the newest request can have been in flight.     *)
LEMMA RecoveredIs ==
    ASSUME CompactionTypeOK, RowsInv, request' = Recovered
    PROVE  IF In({"dispatched"}) = {} THEN request' = request
           ELSE request[Last].status = "dispatched" /\ Rewritten("unknown", FALSE, "unknown")
  <1>1. /\ Last \in Nat /\ DOMAIN request = 1..Last /\ request \in [1..Last -> RequestRow]
    BY Rows, LenProperties DEF CompactionTypeOK, Last
  <1>2. \A i \in 1..Last : request[i].status = "dispatched" => i = Last
    BY <1>1 DEF RowsInv, Settled
  <1>3. CASE In({"dispatched"}) = {}
    BY <1>1, <1>3 DEF Recovered, In
  <1>4. CASE In({"dispatched"}) # {}
    <2> DEFINE s == Requests(Last, "unknown", "unknown")
    <2>1. request[Last].status = "dispatched" /\ Last \in 1..Last /\ Last > 0
      BY <1>1, <1>2, <1>4 DEF In
    <2>2. /\ s \in Seq(RequestRow) /\ Len(s) = Last
          /\ \A i \in 1..Last : i # Last => s[i] = request[i]
      BY <2>1, RequestsIs DEF RequestStatus, Funds
    <2>3. s \in [1..Last -> RequestRow]
      <3> HIDE DEF s
      <3> QED BY <2>2, LenProperties
    <2>4. Recovered = [i \in 1..Last |-> IF i = Last THEN s[i] ELSE request[i]]
      BY <1>1, <1>2, <2>1 DEF Recovered
    <2>5. Recovered = s
      <3> HIDE DEF s
      <3> QED BY <2>2, <2>3, <2>4
    <2> QED BY <1>4, <2>1, <2>5, RequestsRewrite DEF RequestStatus, Funds
  <1> QED BY <1>3, <1>4

(* Only the newest request can be scheduled.                                *)
LEMMA WithdrawnIs ==
    ASSUME CompactionTypeOK, RowsInv,
           request' = [i \in DOMAIN request |->
                          IF Scheduled(i) THEN Requests(i, "failed", Unspent(i))[i] ELSE request[i]]
    PROVE  \/ request' = request
           \/ Last > 0 /\ request[Last].scheduled /\ Rewritten("failed", FALSE, Unspent(Last))
  <1>1. /\ Last \in Nat /\ DOMAIN request = 1..Last /\ request \in [1..Last -> RequestRow]
    BY Rows, LenProperties DEF CompactionTypeOK, Last
  <1>2. \A i \in 1..Last : request[i].scheduled => i = Last
    BY <1>1 DEF RowsInv, Settled
  <1>3. CASE \A i \in 1..Last : ~request[i].scheduled
    BY <1>1, <1>3 DEF Scheduled
  <1>4. CASE \E i \in 1..Last : request[i].scheduled
    <2> DEFINE s == Requests(Last, "failed", Unspent(Last))
    <2>1. request[Last].scheduled /\ Last \in 1..Last /\ Last > 0
      BY <1>1, <1>2, <1>4
    <2>2. Unspent(Last) \in Funds
      BY <2>1, Rows DEF Unspent, Funds
    <2>3. /\ s \in Seq(RequestRow) /\ Len(s) = Last
          /\ \A i \in 1..Last : i # Last => s[i] = request[i]
      BY <2>1, <2>2, RequestsIs DEF RequestStatus
    <2>4. s \in [1..Last -> RequestRow]
      <3> HIDE DEF s
      <3> QED BY <2>3, LenProperties
    <2>5. request' = [i \in 1..Last |-> IF i = Last THEN s[i] ELSE request[i]]
      BY <1>1, <1>2, <2>1 DEF Scheduled
    <2>6. request' = s
      <3> HIDE DEF s
      <3> QED BY <2>3, <2>4, <2>5
    <2> QED BY <2>1, <2>2, <2>6, RequestsRewrite DEF RequestStatus
  <1> QED BY <1>3, <1>4

(* What PaidAttempts is of a sequence of requests.                          *)
BucketOf(row) == IF row.purpose \in Nodes THEN "summary" ELSE "continuation"

(* The attempts of a sequence of requests, and those of a job and bucket    *)
(* that took a reservation: the model's Paid, for any sequence.             *)
AttemptsOf(s) == UNION {{i} \X DOMAIN s[i].funds : i \in DOMAIN s}
PaidOf(s, j, bucket) ==
    {a \in AttemptsOf(s) : s[a[1]].job = j /\ BucketOf(s[a[1]]) = bucket /\ s[a[1]].funds[a[2]] # "none"}

(* The rows of any sequence of requests.                                    *)
LEMMA RowsOf ==
    ASSUME NEW s \in Seq(RequestRow)
    PROVE  /\ Len(s) \in Nat /\ DOMAIN s = 1..Len(s)
           /\ \A i \in 1..Len(s) : /\ s[i] \in RequestRow
                                   /\ Len(s[i].funds) \in Nat \ {0} /\ DOMAIN s[i].funds = 1..Len(s[i].funds)
                                   /\ s[i].funds \in Seq(Funds)
  <1>1. Len(s) \in Nat /\ DOMAIN s = 1..Len(s) /\ \A i \in 1..Len(s) : s[i] \in RequestRow
    BY LenProperties, ElementOfSeq
  <1>2. ASSUME NEW i \in 1..Len(s)
        PROVE  /\ Len(s[i].funds) \in Nat \ {0} /\ DOMAIN s[i].funds = 1..Len(s[i].funds)
               /\ s[i].funds \in Seq(Funds)
    <2>1. s[i].funds \in Seq(Funds) /\ s[i].funds # <<>>
      BY <1>1 DEF RequestRow
    <2> QED BY <2>1, LenProperties, EmptySeq
  <1> QED BY <1>1, <1>2

(* An attempt that took a reservation for this job and bucket.              *)
Counts(s, i, g, j, bucket) ==
    /\ i \in 1..Len(s) /\ g \in 1..Len(s[i].funds)
    /\ s[i].job = j /\ BucketOf(s[i]) = bucket /\ s[i].funds[g] # "none"

(* The numbers up to n are finitely many.                                   *)
LEMMA FiniteUpto ==
    ASSUME NEW n \in Nat
    PROVE  IsFiniteSet(1..n)
  BY FS_Interval

(* An attempt is a request and a number of its reservations.                *)
LEMMA PaidMembers ==
    ASSUME NEW s \in Seq(RequestRow), NEW j, NEW bucket
    PROVE  /\ PaidOf(s, j, bucket) \in SUBSET (Nat \X Nat)
           /\ IsFiniteSet(PaidOf(s, j, bucket))
           /\ \A i \in Nat, g \in Nat : <<i, g>> \in PaidOf(s, j, bucket) <=> Counts(s, i, g, j, bucket)
  <1> DEFINE Of(i) == {i} \X (1..Len(s[i].funds))
             family == {Of(i) : i \in 1..Len(s)}
             n == Len(s)
  <1>1. /\ n \in Nat /\ DOMAIN s = 1..n
        /\ \A i \in 1..n : Len(s[i].funds) \in Nat \ {0} /\ DOMAIN s[i].funds = 1..Len(s[i].funds)
    BY RowsOf
  <1>2. AttemptsOf(s) = UNION family
    BY <1>1 DEF AttemptsOf
  <1>3. ASSUME NEW i \in 1..n PROVE IsFiniteSet(Of(i))
    <2> DEFINE m == Len(s[i].funds)
    <2>1. m \in Nat
      BY <1>1
    <2> HIDE DEF m
    <2>2. IsFiniteSet({i}) /\ IsFiniteSet(1..m)
      BY <2>1, FS_Singleton, FiniteUpto
    <2>3. IsFiniteSet({i} \X (1..m))
      BY <2>2, FS_Product
    <2> QED BY <2>3 DEF m
  <1>4. IsFiniteSet(family)
    <2> DEFINE f == [i \in 1..n |-> Of(i)]
    <2>1. IsFiniteSet(1..n)
      <3> HIDE DEF n
      <3> QED BY <1>1, FiniteUpto
    <2>2. f \in Surjection(1..n, family)
      <3> HIDE DEF Of
      <3> QED BY DEF Surjection
    <2> HIDE DEF f, family, n
    <2> QED BY <2>1, <2>2, FS_Surjection
  <1>5. IsFiniteSet(UNION family)
    <2> HIDE DEF Of
    <2>1. \A T \in family : IsFiniteSet(T)
      BY <1>3
    <2> HIDE DEF family
    <2> QED BY <1>4, <2>1, FS_UNION
  <1>6. IsFiniteSet(PaidOf(s, j, bucket))
    <2> HIDE DEF family
    <2>1. PaidOf(s, j, bucket) \in SUBSET (UNION family)
      BY <1>2 DEF PaidOf
    <2> QED BY <1>5, <2>1, FS_Subset
  <1>7. \A a : a \in AttemptsOf(s) <=> \E i \in 1..n : \E g \in 1..Len(s[i].funds) : a = <<i, g>>
    BY <1>2
  <1>8. PaidOf(s, j, bucket) \subseteq Nat \X Nat
    BY <1>1, <1>7 DEF PaidOf
  <1>9. \A i \in Nat, g \in Nat : <<i, g>> \in PaidOf(s, j, bucket) <=> Counts(s, i, g, j, bucket)
    BY <1>7 DEF PaidOf, Counts
  <1> QED BY <1>6, <1>8, <1>9

(* Sets of pairs are equal, or differ in one pair, if they do member by     *)
(* member.                                                                  *)
LEMMA SetsOfPairs ==
    ASSUME NEW P \in SUBSET (Nat \X Nat), NEW Q \in SUBSET (Nat \X Nat)
    PROVE  /\ (\A i \in Nat, g \in Nat : <<i, g>> \in P <=> <<i, g>> \in Q) => P = Q
           /\ \A k \in Nat, h \in Nat :
                  <<k, h>> \in Q /\ (\A i \in Nat, g \in Nat : i # k \/ g # h => (<<i, g>> \in P <=> <<i, g>> \in Q))
                  => Q = P \cup {<<k, h>>}
  <1>1. ASSUME \A i \in Nat, g \in Nat : <<i, g>> \in P <=> <<i, g>> \in Q
        PROVE  P = Q
    BY <1>1
  <1>2. ASSUME NEW k \in Nat, NEW h \in Nat, <<k, h>> \in Q,
               \A i \in Nat, g \in Nat : i # k \/ g # h => (<<i, g>> \in P <=> <<i, g>> \in Q)
        PROVE  Q = P \cup {<<k, h>>}
    <2>1. ASSUME NEW a \in Nat \X Nat
          PROVE  a \in Q <=> a \in P \cup {<<k, h>>}
      <3>1. PICK i \in Nat, g \in Nat : a = <<i, g>>
        OBVIOUS
      <3>2. CASE i = k /\ g = h
        BY <1>2, <3>1, <3>2
      <3>3. CASE i # k \/ g # h
        BY <1>2, <3>1, <3>3
      <3> QED BY <3>2, <3>3
    <2>2. P \cup {<<k, h>>} \subseteq Nat \X Nat
      OBVIOUS
    <2> QED BY <2>1, <2>2
  <1> QED BY <1>1, <1>2

(* The same attempts took a reservation, or one more.                       *)
LEMMA PaidChange ==
    ASSUME NEW s \in Seq(RequestRow), NEW t \in Seq(RequestRow), NEW j, NEW bucket, NEW k \in Nat, NEW h \in Nat,
           \A i \in Nat, g \in Nat : i # k \/ g # h
               => (Counts(s, i, g, j, bucket) <=> Counts(t, i, g, j, bucket)),
           Counts(s, k, h, j, bucket) => Counts(t, k, h, j, bucket)
    PROVE  Cardinality(PaidOf(t, j, bucket)) =
               IF Counts(t, k, h, j, bucket) /\ ~Counts(s, k, h, j, bucket)
               THEN Cardinality(PaidOf(s, j, bucket)) + 1 ELSE Cardinality(PaidOf(s, j, bucket))
  <1> DEFINE P == PaidOf(s, j, bucket)
             Q == PaidOf(t, j, bucket)
  <1>1. /\ P \in SUBSET (Nat \X Nat) /\ IsFiniteSet(P)
        /\ \A i \in Nat, g \in Nat : <<i, g>> \in P <=> Counts(s, i, g, j, bucket)
    BY PaidMembers
  <1>2. /\ Q \in SUBSET (Nat \X Nat)
        /\ \A i \in Nat, g \in Nat : <<i, g>> \in Q <=> Counts(t, i, g, j, bucket)
    BY PaidMembers
  <1> HIDE DEF P, Q
  <1>3. CASE Counts(t, k, h, j, bucket) /\ ~Counts(s, k, h, j, bucket)
    <2>1. Q = P \cup {<<k, h>>}
      BY <1>1, <1>2, <1>3, SetsOfPairs
    <2>2. <<k, h>> \notin P
      BY <1>1, <1>3
    <2>3. Cardinality(P \cup {<<k, h>>}) = Cardinality(P) + 1
      BY <1>1, <2>2, FS_AddElement
    <2>4. Cardinality(Q) = Cardinality(P) + 1
      BY <2>1, <2>3
    <2> QED BY <1>3, <2>4 DEF P, Q
  <1>4. CASE ~(Counts(t, k, h, j, bucket) /\ ~Counts(s, k, h, j, bucket))
    <2>1. \A i \in Nat, g \in Nat : <<i, g>> \in P <=> <<i, g>> \in Q
      BY <1>1, <1>2, <1>4
    <2>2. (\A i \in Nat, g \in Nat : <<i, g>> \in P <=> <<i, g>> \in Q) => P = Q
      <3>1. P \in SUBSET (Nat \X Nat) /\ Q \in SUBSET (Nat \X Nat)
        BY <1>1, <1>2
      <3> QED BY <3>1, SetsOfPairs
    <2> QED BY <1>4, <2>1, <2>2 DEF P, Q
  <1> QED BY <1>3, <1>4

(* Paid counts those attempts, now and after a step.                        *)
LEMMA PaidIsOf ==
    ASSUME NEW j, NEW bucket
    PROVE  /\ Paid(j, bucket) = Cardinality(PaidOf(request, j, bucket))
           /\ Paid(j, bucket)' = Cardinality(PaidOf(request', j, bucket))
  BY DEF Paid, PaidAttempts, PaidOf, AttemptsOf, Attempts, BucketOf, Bucket, IsSummary

(* There are finitely many paid attempts.                                   *)
LEMMA PaidIsNumber ==
    ASSUME CompactionTypeOK, NEW j, NEW bucket
    PROVE  Paid(j, bucket) \in Nat
  <1>1. request \in Seq(RequestRow)
    BY DEF CompactionTypeOK
  <1>2. IsFiniteSet(PaidOf(request, j, bucket))
    BY <1>1, PaidMembers
  <1> QED BY <1>2, PaidIsOf, FS_CardinalityType

(* What an attempt took is counted once, for the job and the bucket of its  *)
(* request.                                                                 *)
LEMMA PaidRewritten ==
    ASSUME CompactionTypeOK, NEW status, NEW scheduled, NEW fund, Rewritten(status, scheduled, fund),
           NEW j, NEW bucket, Active(Last) # "none" => fund # "none"
    PROVE  Paid(j, bucket)' = IF Active(Last) = "none" /\ fund # "none" /\ request[Last].job = j
               /\ Bucket(Last) = bucket
                              THEN Paid(j, bucket) + 1 ELSE Paid(j, bucket)
  <1>1. PICK t : t = request'
    OBVIOUS
  <1>2. PICK n : n = Len(request[Last].funds)
    OBVIOUS
  <1>3. /\ request \in Seq(RequestRow) /\ t \in Seq(RequestRow) /\ Len(request) = Last /\ Len(t) = Last
        /\ Last \in Nat /\ Last > 0 /\ n \in Nat \ {0}
    BY <1>1, <1>2, Rows DEF Rewritten, CompactionTypeOK, Last
  <1>4. /\ \A i \in 1..Last : i # Last => t[i] = request[i]
        /\ t[Last].job = request[Last].job /\ BucketOf(t[Last]) = BucketOf(request[Last])
        /\ Len(t[Last].funds) = n
        /\ \A g \in 1..n : t[Last].funds[g] = IF g = n THEN fund ELSE request[Last].funds[g]
        /\ Active(Last) = request[Last].funds[n] /\ Bucket(Last) = BucketOf(request[Last])
    BY <1>1, <1>2 DEF Rewritten, BucketOf, Bucket, Active, IsSummary
  <1>5. \A i \in Nat, g \in Nat : i # Last \/ g # n
            => (Counts(request, i, g, j, bucket) <=> Counts(t, i, g, j, bucket))
    <2> TAKE i \in Nat, g \in Nat
    <2>1. CASE i # Last
      BY <1>3, <1>4, <2>1 DEF Counts
    <2>2. CASE i = Last /\ g # n
      BY <1>2, <1>3, <1>4, <2>2 DEF Counts
    <2> QED BY <2>1, <2>2
  <1>6. /\ Counts(request, Last, n, j, bucket) <=>
               request[Last].job = j /\ Bucket(Last) = bucket /\ Active(Last) # "none"
        /\ Counts(t, Last, n, j, bucket) <=> request[Last].job = j /\ Bucket(Last) = bucket /\ fund # "none"
    BY <1>2, <1>3, <1>4 DEF Counts
  <1>7. Cardinality(PaidOf(t, j, bucket)) =
            IF Counts(t, Last, n, j, bucket) /\ ~Counts(request, Last, n, j, bucket)
            THEN Cardinality(PaidOf(request, j, bucket)) + 1 ELSE Cardinality(PaidOf(request, j, bucket))
    BY <1>3, <1>5, <1>6, PaidChange
  <1> QED BY <1>1, <1>6, <1>7, PaidIsOf

(* A further attempt of the newest request (prepare_scheduled_retry,        *)
(* RetryModel) is paid if it is reserved at once.                           *)
LEMMA PaidRepeated ==
    ASSUME CompactionTypeOK, NEW fund, Repeated(fund), NEW j, NEW bucket
    PROVE  Paid(j, bucket)' = IF fund # "none" /\ request[Last].job = j /\ Bucket(Last) = bucket
                              THEN Paid(j, bucket) + 1 ELSE Paid(j, bucket)
  <1>1. PICK t : t = request'
    OBVIOUS
  <1>2. PICK n : n = Len(request[Last].funds)
    OBVIOUS
  <1>3. /\ request \in Seq(RequestRow) /\ t \in Seq(RequestRow) /\ Len(request) = Last /\ Len(t) = Last
        /\ Last \in Nat /\ Last > 0 /\ n \in Nat \ {0} /\ n + 1 \in Nat
    BY <1>1, <1>2, Rows DEF Repeated, CompactionTypeOK, Last
  <1>4. /\ \A i \in 1..Last : i # Last => t[i] = request[i]
        /\ t[Last].job = request[Last].job /\ BucketOf(t[Last]) = BucketOf(request[Last])
        /\ Len(t[Last].funds) = n + 1
        /\ \A g \in 1..n : t[Last].funds[g] = request[Last].funds[g]
        /\ t[Last].funds[n + 1] = fund
        /\ Bucket(Last) = BucketOf(request[Last])
    BY <1>1, <1>2 DEF Repeated, BucketOf, Bucket, IsSummary
  <1>5. \A i \in Nat, g \in Nat :
            i # Last \/ g # n + 1 => (Counts(request, i, g, j, bucket) <=> Counts(t, i, g, j, bucket))
    <2> TAKE i \in Nat, g \in Nat
    <2>1. CASE i # Last
      BY <1>3, <1>4, <2>1 DEF Counts
    <2>2. CASE i = Last /\ g # n + 1
      BY <1>2, <1>3, <1>4, <2>2 DEF Counts
    <2> QED BY <2>1, <2>2
  <1>6. /\ ~Counts(request, Last, n + 1, j, bucket)
        /\ Counts(t, Last, n + 1, j, bucket) <=> request[Last].job = j /\ Bucket(Last) = bucket /\ fund # "none"
    BY <1>2, <1>3, <1>4 DEF Counts
  <1>7. Cardinality(PaidOf(t, j, bucket)) =
            IF Counts(t, Last, n + 1, j, bucket) /\ ~Counts(request, Last, n + 1, j, bucket)
            THEN Cardinality(PaidOf(request, j, bucket)) + 1 ELSE Cardinality(PaidOf(request, j, bucket))
    BY <1>3, <1>5, <1>6, PaidChange
  <1> QED BY <1>1, <1>6, <1>7, PaidIsOf

(* So is the first attempt of a new request (install_candidate).            *)
LEMMA PaidGrown ==
    ASSUME CompactionTypeOK, NEW row, Grown(row), NEW fund, row.funds = <<fund>>, NEW j, NEW bucket
    PROVE  Paid(j, bucket)' = IF fund # "none" /\ row.job = j /\ BucketOf(row) = bucket
                              THEN Paid(j, bucket) + 1 ELSE Paid(j, bucket)
  <1>1. PICK t : t = request'
    OBVIOUS
  <1>2. PICK n : n = Last + 1
    OBVIOUS
  <1>3. /\ request \in Seq(RequestRow) /\ t \in Seq(RequestRow) /\ Len(request) = Last /\ Len(t) = n
        /\ Last \in Nat /\ n \in Nat /\ 1 \in Nat
    BY <1>1, <1>2, Rows DEF Grown, CompactionTypeOK, Last
  <1>4. /\ \A i \in 1..Last : t[i] = request[i]
        /\ t[n] = row /\ Len(row.funds) = 1 /\ row.funds[1] = fund
    <2>1. Len(<<fund>>) = 1 /\ <<fund>>[1] = fund
      OBVIOUS
    <2>2. /\ \A i \in 1..Last : t[i] = request[i]
          /\ t[n] = row
      BY <1>1, <1>2 DEF Grown
    <2>3. Len(row.funds) = 1 /\ row.funds[1] = fund
      BY <2>1
    <2> QED BY <2>2, <2>3
  <1>5. \A i \in Nat, g \in Nat :
            i # n \/ g # 1 => (Counts(request, i, g, j, bucket) <=> Counts(t, i, g, j, bucket))
    <2> TAKE i \in Nat, g \in Nat
    <2>1. CASE i # n
      BY <1>2, <1>3, <1>4, <2>1 DEF Counts
    <2>2. CASE i = n /\ g # 1
      BY <1>2, <1>3, <1>4, <2>2 DEF Counts
    <2> QED BY <2>1, <2>2
  <1>6. /\ ~Counts(request, n, 1, j, bucket)
        /\ Counts(t, n, 1, j, bucket) <=> row.job = j /\ BucketOf(row) = bucket /\ fund # "none"
    <2>1. n \in 1..n /\ n \notin 1..Last /\ 1 \in 1..1
      BY <1>2, <1>3
    <2> QED BY <1>3, <1>4, <2>1 DEF Counts
  <1>7. Cardinality(PaidOf(t, j, bucket)) =
            IF Counts(t, n, 1, j, bucket) /\ ~Counts(request, n, 1, j, bucket)
            THEN Cardinality(PaidOf(request, j, bucket)) + 1 ELSE Cardinality(PaidOf(request, j, bucket))
    BY <1>3, <1>5, <1>6, PaidChange
  <1> QED BY <1>1, <1>6, <1>7, PaidIsOf

-----------------------------------------------------------------------------
(* The ledger: jobs, holds and requests *)

(* A job that can still be found; nothing open in the ledger; a request     *)
(* that has not yet taken its call out of a hold.                           *)
Known == Live \cup {"installed"}
Quiet == \A i \in DOMAIN request : request[i].status \in Settled
Unpaid(i) == request[i].status = "prepared" /\ Active(i) = "none"

(* A job exists before a request names it.  A continuation belongs to a job *)
(* whose history is replaced, a summary is of the job's source and not      *)
(* older than the job; and while the Turn goes on a summary fails with its  *)
(* job alive only when newer input came (SavedRequest, WaitEnds,            *)
(* Supersede).                                                              *)
Linked(i, j) ==
    /\ compaction[j].status # "none"
    /\ ~IsSummary(i) => compaction[j].replaced
    /\ IsSummary(i) => /\ request[i].source = compaction[j].source
                       /\ compaction[j].revision <= request[i].revision
                       /\ request[i].revision <= owner.revision
    /\ IsSummary(i) /\ request[i].status = "failed" /\ compaction[j].status \in Known /\ owner.status \in Open
           => compaction[j].revision < owner.revision
LinksInv == \A i \in DOMAIN request, j \in Compactions : request[i].job = j => Linked(i, j)

(* A job asks for each node once (NextNode reuses the answer it finds).     *)
OneRequestPerNode ==
    \A i, k \in DOMAIN request :
        IsSummary(i) /\ request[i].job = request[k].job /\ request[i].purpose = request[k].purpose => i = k

(* The job of the open request: alive and not replaced for a summary; for a *)
(* continuation, installed, or taken up again with one call for a retry.    *)
Carried(j) ==
    IF IsSummary(Last) THEN compaction[j].status \in Live /\ ~compaction[j].replaced
    ELSE IF Unpaid(Last) THEN compaction[j].status = "running" /\ hold[j] = [summary |-> 0, continuation |-> 1]
    ELSE compaction[j].status = "installed"

(* While the Turn goes on, an open request has such a job.                  *)
CarriedInv ==
    Last > 0 /\ request[Last].status \notin Settled /\ owner.status \in Open /\ request[Last].job # 0 =>
        Carried(request[Last].job)

(* Calls that the summaries of a job may still take: one for each node that *)
(* was not asked for, and one for a request that is prepared without a      *)
(* reservation.                                                             *)
Unasked(j) == {n \in Nodes : \A i \in DOMAIN request : request[i].job = j => request[i].purpose # n}
Promised(j) == IF Last > 0 /\ Unpaid(Last) /\ IsSummary(Last) /\ request[Last].job = j THEN 1 ELSE 0
Claims(j) == Cardinality(Unasked(j)) + Promised(j)

(* A recorded node was answered, for the source of the job.                 *)
Answered(j, n) == \E i \in In({"completed"}) : request[i].purpose = n /\ request[i].source = compaction[j].source

(* What is held and what was paid add up to what was admitted.              *)
Balanced(j) ==
    \A bucket \in {"summary", "continuation"} :
        IF bucket = "summary" /\ compaction[j].replaced THEN hold[j][bucket] = 0
        ELSE hold[j][bucket] + Paid(j, bucket) = Allowance(bucket) + compaction[j].admitted[bucket]

(* A job is of a source and a revision that were current; a job that is     *)
(* over holds nothing; one that is alive and not replaced holds its         *)
(* continuation and a call for each claim.                                  *)
JobInv(j) ==
    /\ compaction[j].source <= owner.source /\ compaction[j].revision <= owner.revision
    /\ compaction[j].replaced => compaction[j].source < owner.source
    /\ compaction[j].status = "installed" => compaction[j].replaced
    /\ compaction[j].status \notin Live => hold[j] = Empty
    /\ compaction[j].status \in Live /\ ~compaction[j].replaced =>
           hold[j].continuation = 1 /\ hold[j].summary >= Claims(j)
    /\ \A n \in compaction[j].nodes : Answered(j, n)
    /\ compaction[j].status \in Known => Balanced(j)
JobsInv == \A j \in Compactions : JobInv(j)

(* No two jobs that can be found are of one source and revision, installed  *)
(* ones included: the answer of create_job.                                 *)
Twins ==
    \A j, k \in Compactions : compaction[j].status \in Known /\ compaction[k].status \in Known
        /\ compaction[j].source = compaction[k].source /\ compaction[j].revision = compaction[k].revision => j = k

(* What holds of the ledger, whoever drives the Turn.                       *)
LedgerInv == RowsInv /\ LinksInv /\ OneRequestPerNode /\ CarriedInv /\ JobsInv /\ Twins

-----------------------------------------------------------------------------
(* What goes on in every step *)

(* A Turn that has ended stays ended; its revision and source only grow.    *)
OwnerGoesOn ==
    /\ owner.revision <= owner'.revision /\ owner.source <= owner'.source
    /\ owner'.status \in Open => owner.status \in Open

(* A job keeps its source and revision, stays replaced, and is not taken up *)
(* again when it is over.                                                   *)
JobsGoOn ==
    \A j \in Compactions :
        /\ compaction[j].status # "none" =>
               /\ compaction'[j].status # "none"
               /\ compaction'[j].source = compaction[j].source /\ compaction'[j].revision = compaction[j].revision
               /\ compaction[j].replaced => compaction'[j].replaced
               /\ compaction'[j].status \in Known => compaction[j].status \in Known

(* Requests keep what they were made for; answers stay.                     *)
Kept ==
    /\ Last \in Nat /\ Last' \in Nat /\ Last <= Last' /\ DOMAIN request = 1..Last /\ DOMAIN request' = 1..Last'
    /\ \A i \in 1..Last : /\ request'[i].purpose = request[i].purpose /\ request'[i].job = request[i].job
                          /\ request'[i].revision = request[i].revision /\ request'[i].source = request[i].source

AnswersStay ==
    \A i \in 1..Last : IsSummary(i) /\ request[i].status = "completed" => request'[i].status = "completed"

(* A step that leaves the requests alone keeps them.                        *)
LEMMA KeptUnchanged ==
    ASSUME CompactionTypeOK, request' = request
    PROVE  Kept /\ AnswersStay /\ Last' = Last
  BY Rows DEF Kept, AnswersStay, Last

(* So does one that rewrites the newest request,                            *)
LEMMA KeptRewritten ==
    ASSUME CompactionTypeOK, NEW status, NEW scheduled, NEW fund, Rewritten(status, scheduled, fund)
    PROVE  /\ Kept /\ Last' = Last
           /\ (IsSummary(Last) /\ request[Last].status = "completed" => status = "completed") => AnswersStay
  <1>1. Last \in Nat /\ DOMAIN request = 1..Last /\ request' \in Seq(RequestRow)
    BY Rows DEF Rewritten
  <1>2. DOMAIN request' = 1..Last'
    BY <1>1, LenProperties DEF Last
  <1> QED BY <1>1, <1>2 DEF Kept, AnswersStay, Rewritten

(* one that adds an attempt to it,                                          *)
LEMMA KeptRepeated ==
    ASSUME CompactionTypeOK, NEW fund, Repeated(fund), request[Last].status # "completed"
    PROVE  Kept /\ AnswersStay /\ Last' = Last
  <1>1. Last \in Nat /\ DOMAIN request = 1..Last /\ request' \in Seq(RequestRow)
    BY Rows DEF Repeated
  <1>2. DOMAIN request' = 1..Last'
    BY <1>1, LenProperties DEF Last
  <1> QED BY <1>1, <1>2 DEF Kept, AnswersStay, Repeated

(* and one that adds a request.                                             *)
LEMMA KeptGrown ==
    ASSUME CompactionTypeOK, NEW row, Grown(row)
    PROVE  Kept /\ AnswersStay /\ Last' = Last + 1
  <1>1. Last \in Nat /\ DOMAIN request = 1..Last /\ request' \in Seq(RequestRow)
    BY Rows DEF Grown
  <1>2. DOMAIN request' = 1..Last'
    BY <1>1, LenProperties DEF Last
  <1>3. Last' = Last + 1
    BY DEF Grown
  <1>4. \A i \in 1..Last : request'[i] = request[i]
    BY DEF Grown
  <1> QED BY <1>1, <1>2, <1>3, <1>4 DEF Kept, AnswersStay

-----------------------------------------------------------------------------
(* Each part of the ledger's invariant, shape by shape *)

(* The rows stay right if no request changes,                               *)
LEMMA RowsUnchanged ==
    ASSUME RowsInv, request' = request
    PROVE  RowsInv'
  BY DEF RowsInv, Last, Active, IsSummary

(* if the newest one is rewritten as a status allows,                       *)
LEMMA RowsRewritten ==
    ASSUME CompactionTypeOK, RowsInv, NEW status, NEW scheduled, NEW fund, Rewritten(status, scheduled, fund),
           scheduled => status \in {"prepared", "retry_wait"},
           status # "prepared",
           status \in {"dispatched", "retry_wait", "unknown"} => fund # "none",
           IsSummary(Last) => status # "consumed"
    PROVE  RowsInv'
  <1>1. Kept /\ Last' = Last
    BY KeptRewritten
  <1>2. Len(request[Last].funds) \in Nat \ {0} /\ Last \in Nat /\ Last > 0
    BY Rows DEF Rewritten
  <1>3. request'[Last].funds[Len(request'[Last].funds)] = fund
    BY <1>2 DEF Rewritten
  <1>4. \A i \in 1..Last : i # Last => request'[i] = request[i]
    BY DEF Rewritten
  <1>5. /\ request'[Last].status = status /\ request'[Last].scheduled = scheduled
        /\ request'[Last].job = request[Last].job /\ request'[Last].purpose = request[Last].purpose
    BY DEF Rewritten
  <1> QED BY <1>1, <1>2, <1>3, <1>4, <1>5 DEF RowsInv, Kept, Active, IsSummary

(* if it gets another attempt,                                              *)
LEMMA RowsRepeated ==
    ASSUME CompactionTypeOK, RowsInv, NEW fund \in {"none", "reserved"}, Repeated(fund)
    PROVE  RowsInv'
  <1>1. Last' = Last /\ Last \in Nat /\ DOMAIN request = 1..Last /\ Last > 0
    BY Rows DEF Repeated
  <1>2. DOMAIN request' = 1..Last
    BY <1>1, LenProperties DEF Last, Repeated
  <1>3. request'[Last].funds[Len(request'[Last].funds)] = fund
    BY DEF Repeated
  <1>4. \A i \in 1..Last : i # Last => request'[i] = request[i]
    BY DEF Repeated
  <1>5. /\ request'[Last].status = "prepared" /\ request'[Last].scheduled = request[Last].scheduled
        /\ request'[Last].job = request[Last].job /\ request'[Last].purpose = request[Last].purpose
    BY DEF Repeated
  <1> QED BY <1>1, <1>2, <1>3, <1>4, <1>5 DEF RowsInv, Active, IsSummary

(* and if a request is added while nothing is open.                         *)
LEMMA RowsGrown ==
    ASSUME CompactionTypeOK, RowsInv, Quiet, NEW row, Grown(row), NEW fund \in {"none", "reserved"},
           row.funds = <<fund>>, row.status = "prepared", row.scheduled = FALSE,
           row.purpose \in Nodes => row.job # 0
    PROVE  RowsInv'
  <1>1. Kept /\ Last' = Last + 1
    BY KeptGrown
  <1>2. \A i \in 1..Last : request'[i] = request[i]
    BY DEF Grown
  <1>3. request'[Last + 1] = row
    BY DEF Grown
  <1>4. Len(<<fund>>) = 1 /\ <<fund>>[1] = fund
    OBVIOUS
  <1>5. row.funds[Len(row.funds)] = fund
    BY <1>4
  <1>6. ASSUME NEW i \in 1..Last
        PROVE  /\ request'[i].status \in Settled
               /\ request'[i].scheduled => request'[i].status \in {"prepared", "retry_wait"}
               /\ request'[i].purpose \in Nodes => request'[i].status # "consumed" /\ request'[i].job # 0
    BY <1>1, <1>2, <1>6 DEF RowsInv, Quiet, Kept, IsSummary
  <1>7. ASSUME NEW i \in DOMAIN request'
        PROVE  i \in 1..Last \/ i = Last + 1
    BY <1>1 DEF Kept
  <1> QED BY <1>1, <1>3, <1>5, <1>6, <1>7 DEF RowsInv, Active, IsSummary, Settled

(* The requests stay linked to their jobs, if none fails under a job that   *)
(* stays current.                                                           *)
LEMMA LinksKept ==
    ASSUME LinksInv, Kept, OwnerGoesOn, JobsGoOn, CompactionTypeOK, owner' \in OwnerRow,
           \A i \in 1..Last : IsSummary(i) /\ request'[i].status = "failed" /\ request[i].status # "failed"
               => owner'.status \notin Open \/ (\A j \in Compactions : request[i].job = j =>
                      compaction'[j].status \notin Known \/ compaction[j].revision < owner'.revision)
    PROVE  \A i \in 1..Last, j \in Compactions : request'[i].job = j => Linked(i, j)'
  <1> SUFFICES ASSUME NEW i \in 1..Last, NEW j \in Compactions, request'[i].job = j PROVE Linked(i, j)'
    OBVIOUS
  <1>1. /\ request[i].job = j /\ request'[i].purpose = request[i].purpose
        /\ request'[i].revision = request[i].revision /\ request'[i].source = request[i].source
    BY DEF Kept
  <1>2. Linked(i, j)
    BY <1>1 DEF LinksInv, Kept
  <1>3. /\ compaction'[j].status # "none"
        /\ compaction'[j].source = compaction[j].source /\ compaction'[j].revision = compaction[j].revision
        /\ compaction[j].replaced => compaction'[j].replaced
        /\ compaction'[j].status \in Known => compaction[j].status \in Known
    BY <1>2 DEF JobsGoOn, Linked
  <1>4. /\ owner.revision \in Nat /\ owner'.revision \in Nat /\ owner.revision <= owner'.revision
        /\ owner'.status \in Open => owner.status \in Open
    BY DEF OwnerGoesOn, CompactionTypeOK, OwnerRow
  <1>5. /\ request[i].revision \in Nat /\ compaction[j].revision \in Nat
    BY Rows DEF CompactionTypeOK, RequestRow, JobRow
  <1>6. /\ ~(request'[i].purpose \in Nodes) => compaction'[j].replaced
        /\ request'[i].purpose \in Nodes => /\ request'[i].source = compaction'[j].source
                                           /\ compaction'[j].revision <= request'[i].revision
                                           /\ request'[i].revision <= owner'.revision
    BY <1>1, <1>2, <1>3, <1>4, <1>5 DEF Linked, IsSummary
  <1>7. request'[i].purpose \in Nodes /\ request'[i].status = "failed"
            /\ compaction'[j].status \in Known /\ owner'.status \in Open
           => compaction'[j].revision < owner'.revision
    <2>1. CASE request[i].status = "failed"
      BY <1>1, <1>2, <1>3, <1>4, <1>5, <2>1 DEF Linked, IsSummary
    <2>2. CASE request[i].status # "failed"
      BY <1>1, <1>3, <2>2 DEF IsSummary
    <2> QED BY <2>1, <2>2
  <1> QED BY <1>3, <1>6, <1>7 DEF Linked, IsSummary

(* No node is asked for twice if no request is added,                       *)
LEMMA NodesKept ==
    ASSUME OneRequestPerNode, Kept, Last' = Last
    PROVE  OneRequestPerNode'
  BY DEF OneRequestPerNode, Kept, IsSummary

(* or if the added one is for a node the job has not asked for.             *)
LEMMA NodesGrown ==
    ASSUME CompactionTypeOK, OneRequestPerNode, NEW row, Grown(row),
           row.purpose \in Nodes => \A i \in 1..Last : request[i].job = row.job
               => request[i].purpose # row.purpose
    PROVE  OneRequestPerNode'
  <1>1. Kept /\ Last' = Last + 1
    BY KeptGrown
  <1>2. /\ DOMAIN request' = 1..(Last + 1) /\ Last \in Nat /\ DOMAIN request = 1..Last
        /\ request'[Last + 1] = row /\ \A i \in 1..Last : request'[i] = request[i]
    BY <1>1 DEF Grown, Kept
  <1> SUFFICES ASSUME NEW i \in 1..(Last + 1), NEW k \in 1..(Last + 1), request'[i].purpose \in Nodes,
                      request'[i].job = request'[k].job, request'[i].purpose = request'[k].purpose
               PROVE  i = k
    BY <1>2 DEF OneRequestPerNode, IsSummary
  <1>3. CASE i \in 1..Last /\ k \in 1..Last
    BY <1>2, <1>3 DEF OneRequestPerNode, IsSummary
  <1>4. CASE i = Last + 1 /\ k \in 1..Last
    BY <1>2, <1>4
  <1>5. CASE i \in 1..Last /\ k = Last + 1
    BY <1>2, <1>5
  <1> QED BY <1>2, <1>3, <1>4, <1>5

(* A Turn that has ended, or whose newest request is settled, carries none. *)
LEMMA CarriedQuiet ==
    ASSUME Last' \in Nat, Last' > 0
               => (owner'.status \notin Open \/ request'[Last'].status \in Settled \/ request'[Last'].job = 0)
    PROVE  CarriedInv'
  BY DEF CarriedInv

(* The claims of a job are a number.                                        *)
LEMMA ClaimsNumber ==
    ASSUME NEW j
    PROVE  /\ Claims(j) \in Nat /\ Claims(j)' \in Nat
           /\ IsFiniteSet(Unasked(j)) /\ IsFiniteSet(Unasked(j)')
           /\ Cardinality(Unasked(j)) \in Nat /\ Cardinality(Unasked(j)') \in Nat
  <1>1. IsFiniteSet(Nodes)
    BY CompactionConstants
  <1>2. Unasked(j) \in SUBSET Nodes
    BY DEF Unasked
  <1>3. Unasked(j)' \in SUBSET Nodes
    BY DEF Unasked
  <1>4. IsFiniteSet(Unasked(j)) /\ Cardinality(Unasked(j)) \in Nat
    BY <1>1, <1>2, FS_Subset, FS_CardinalityType
  <1>5. IsFiniteSet(Unasked(j)') /\ Cardinality(Unasked(j)') \in Nat
    <2>1. PICK u : u = Unasked(j)'
      OBVIOUS
    <2>2. IsFiniteSet(u) /\ Cardinality(u) \in Nat
      BY <1>1, <1>3, <2>1, FS_Subset, FS_CardinalityType
    <2> QED BY <2>1, <2>2
  <1>6. Promised(j) \in {0, 1} /\ Promised(j)' \in {0, 1}
    BY DEF Promised
  <1> QED BY <1>4, <1>5, <1>6 DEF Claims

(* No node becomes unasked.                                                 *)
LEMMA UnaskedKept ==
    ASSUME NEW j, Kept, Last' = Last
    PROVE  Unasked(j)' = Unasked(j)
  <1>1. \A i \in DOMAIN request : request'[i].purpose = request[i].purpose /\ request'[i].job = request[i].job
    BY DEF Kept
  <1>2. DOMAIN request' = DOMAIN request
    BY DEF Kept
  <1> QED BY <1>1, <1>2 DEF Unasked

(* A request that leaves the status prepared takes its promise with it;     *)
LEMMA ClaimsRewritten ==
    ASSUME CompactionTypeOK, NEW status, NEW scheduled, NEW fund, Rewritten(status, scheduled, fund),
           status # "prepared", NEW j
    PROVE  Claims(j)' = Cardinality(Unasked(j)) /\ Claims(j)' <= Claims(j)
  <1>1. Kept /\ Last' = Last
    BY KeptRewritten
  <1>2. Unasked(j)' = Unasked(j)
    BY <1>1, UnaskedKept
  <1>3. request'[Last'].status # "prepared"
    BY <1>1 DEF Rewritten
  <1>4. Promised(j)' = 0
    BY <1>3 DEF Promised, Unpaid
  <1>5. Promised(j) \in {0, 1} /\ Cardinality(Unasked(j)) \in Nat
    BY ClaimsNumber DEF Promised
  <1> QED BY <1>2, <1>4, <1>5 DEF Claims

(* a retry without a reservation promises one call more;                    *)
LEMMA ClaimsRepeated ==
    ASSUME CompactionTypeOK, NEW fund, Repeated(fund), NEW j
    PROVE  Claims(j)' = Cardinality(Unasked(j))
               + (IF fund = "none" /\ IsSummary(Last) /\ request[Last].job = j THEN 1 ELSE 0)
  <1>1. Last' = Last /\ Last \in Nat /\ DOMAIN request = 1..Last /\ Last > 0
    BY Rows DEF Repeated
  <1>2. DOMAIN request' = 1..Last
    BY <1>1, LenProperties DEF Last, Repeated
  <1>3. /\ request'[Last'].status = "prepared" /\ request'[Last'].job = request[Last].job
        /\ request'[Last'].purpose = request[Last].purpose
        /\ request'[Last'].funds[Len(request'[Last'].funds)] = fund
    BY <1>1 DEF Repeated
  <1>4. Unasked(j)' = Unasked(j)
    <2>1. \A i \in DOMAIN request : request'[i].purpose = request[i].purpose /\ request'[i].job = request[i].job
      BY <1>1 DEF Repeated
    <2> QED BY <1>1, <1>2, <2>1 DEF Unasked
  <1>5. Promised(j)' = IF fund = "none" /\ IsSummary(Last) /\ request[Last].job = j THEN 1 ELSE 0
    BY <1>1, <1>3 DEF Promised, Unpaid, Active, IsSummary
  <1> QED BY <1>4, <1>5 DEF Claims

(* a new summary turns the claim of its node into a promise;                *)
LEMMA ClaimsGrown ==
    ASSUME CompactionTypeOK, Quiet, NEW row, Grown(row), NEW fund, row.funds = <<fund>>,
           row.status = "prepared", NEW j,
           row.purpose \in Nodes => \A i \in 1..Last : request[i].job = row.job
               => request[i].purpose # row.purpose,
           row.purpose \in Nodes => fund = "none"
    PROVE  Claims(j)' <= Claims(j)
  <1>1. Kept /\ Last' = Last + 1
    BY KeptGrown
  <1>2. /\ DOMAIN request' = 1..(Last + 1) /\ Last \in Nat /\ DOMAIN request = 1..Last
        /\ request'[Last + 1] = row /\ \A i \in 1..Last : request'[i] = request[i]
    BY <1>1 DEF Grown, Kept
  <1>3. Promised(j) = 0
    BY <1>2 DEF Promised, Unpaid, Quiet, Settled
  <1>4. Len(<<fund>>) = 1 /\ <<fund>>[1] = fund
    OBVIOUS
  <1>4a. row.funds[Len(row.funds)] = fund
    BY <1>4
  <1>5. Promised(j)' = IF fund = "none" /\ row.purpose \in Nodes /\ row.job = j THEN 1 ELSE 0
    BY <1>1, <1>2, <1>4a DEF Promised, Unpaid, Active, IsSummary
  <1>6. Cardinality(Unasked(j)) \in Nat /\ Cardinality(Unasked(j)') \in Nat /\ IsFiniteSet(Unasked(j))
    BY ClaimsNumber
  <1>7. CASE row.purpose \in Nodes /\ row.job = j
    <2>1. Unasked(j)' = Unasked(j) \ {row.purpose}
      BY <1>2, <1>7 DEF Unasked
    <2>2. row.purpose \in Unasked(j)
      BY <1>2, <1>7 DEF Unasked
    <2>3. Cardinality(Unasked(j) \ {row.purpose}) = Cardinality(Unasked(j)) - 1
      BY <1>6, <2>2, FS_RemoveElement
    <2>4. Cardinality(Unasked(j)') = Cardinality(Unasked(j)) - 1
      BY <2>1, <2>3
    <2>5. Promised(j)' = 1
      BY <1>5, <1>7
    <2> QED BY <1>3, <1>6, <2>4, <2>5 DEF Claims
  <1>8. CASE ~(row.purpose \in Nodes /\ row.job = j)
    <2>1. Unasked(j)' = Unasked(j)
      BY <1>2, <1>8 DEF Unasked
    <2>2. Promised(j)' = 0
      BY <1>5, <1>8
    <2> QED BY <1>3, <1>6, <2>1, <2>2 DEF Claims
  <1> QED BY <1>7, <1>8

(* and no other step changes claims or payments.                            *)
LEMMA ClaimsUnchanged ==
    ASSUME request' = request, NEW j
    PROVE  Claims(j)' = Claims(j)
               /\ \A bucket \in {"summary", "continuation"} : Paid(j, bucket)' = Paid(j, bucket)
  BY DEF Claims, Unasked, Promised, Unpaid, Active, IsSummary, Last, Paid, PaidAttempts, Attempts, Bucket

(* A recorded node stays answered.                                          *)
LEMMA AnsweredStays ==
    ASSUME Kept, AnswersStay, NEW j, NEW n \in Nodes, Answered(j, n), compaction'[j].source = compaction[j].source
    PROVE  Answered(j, n)'
  <1>1. PICK i \in In({"completed"}) : request[i].purpose = n /\ request[i].source = compaction[j].source
    BY DEF Answered
  <1>2. /\ i \in 1..Last /\ request[i].status = "completed" /\ IsSummary(i)
        /\ request'[i].purpose = n /\ request'[i].source = compaction'[j].source
    BY <1>1 DEF In, IsSummary, Kept
  <1>3. request'[i].status = "completed"
    BY <1>2 DEF AnswersStay
  <1>4. i \in 1..Last'
    BY <1>2 DEF Kept
  <1>5. i \in In({"completed"})'
    BY <1>2, <1>3, <1>4 DEF In, Kept
  <1> QED BY <1>2, <1>5 DEF Answered

-----------------------------------------------------------------------------
(* A job in a step, and the ledger in a step of each shape *)

(* A job that a step leaves alone.                                          *)
LEMMA JobKept ==
    ASSUME CompactionTypeOK, owner' \in OwnerRow, OwnerGoesOn,
           Kept, AnswersStay, NEW j \in Compactions, JobInv(j),
           compaction'[j] = compaction[j], hold'[j] = hold[j], Claims(j)' <= Claims(j),
           \A bucket \in {"summary", "continuation"} : Paid(j, bucket)' = Paid(j, bucket)
    PROVE  JobInv(j)'
  <1>1. /\ compaction[j] \in JobRow /\ hold[j] \in [summary : Nat, continuation : Nat]
        /\ owner.source \in Nat /\ owner.revision \in Nat /\ owner'.source \in Nat /\ owner'.revision \in Nat
    BY DEF CompactionTypeOK, OwnerRow
  <1>2. Claims(j) \in Nat /\ Claims(j)' \in Nat
    BY ClaimsNumber
  <1>3. \A n \in compaction[j].nodes : Answered(j, n)'
    BY <1>1, AnsweredStays DEF JobInv, JobRow
  <1>4. Balanced(j) => Balanced(j)'
    BY DEF Balanced, Allowance
  <1>5. /\ compaction'[j].source <= owner'.source /\ compaction'[j].revision <= owner'.revision
        /\ compaction'[j].replaced => compaction'[j].source < owner'.source
    BY <1>1 DEF JobInv, OwnerGoesOn, JobRow
  <1>6. /\ compaction'[j].status = "installed" => compaction'[j].replaced
        /\ compaction'[j].status \notin Live => hold'[j] = Empty
        /\ compaction'[j].status \in Live /\ ~compaction'[j].replaced =>
               hold'[j].continuation = 1 /\ hold'[j].summary >= Claims(j)'
    BY <1>1, <1>2 DEF JobInv
  <1>7. /\ \A n \in compaction'[j].nodes : Answered(j, n)'
        /\ compaction'[j].status \in Known => Balanced(j)'
    BY <1>3, <1>4 DEF JobInv
  <1> QED BY <1>5, <1>6, <1>7 DEF JobInv

(* The statuses a job ends with before it replaced anything.                *)
Dead == {"cancelled", "failed", "superseded"}

(* A job that is over.                                                      *)
LEMMA JobEnds ==
    ASSUME CompactionTypeOK, owner' \in OwnerRow, OwnerGoesOn,
           Kept, AnswersStay, NEW j \in Compactions, JobInv(j), NEW status \in Dead,
           compaction'[j] = [compaction[j] EXCEPT !.status = status], hold'[j] = Empty
    PROVE  JobInv(j)'
  <1>1. /\ compaction[j] \in JobRow
        /\ owner.source \in Nat /\ owner.revision \in Nat /\ owner'.source \in Nat /\ owner'.revision \in Nat
    BY DEF CompactionTypeOK, OwnerRow
  <1>2. /\ compaction'[j].status = status /\ compaction'[j].source = compaction[j].source
        /\ compaction'[j].revision = compaction[j].revision /\ compaction'[j].nodes = compaction[j].nodes
        /\ compaction'[j].replaced = compaction[j].replaced
    BY <1>1 DEF JobRow
  <1>3. \A n \in compaction[j].nodes : Answered(j, n)'
    BY <1>1, <1>2, AnsweredStays DEF JobInv, JobRow
  <1>5. /\ compaction'[j].source <= owner'.source /\ compaction'[j].revision <= owner'.revision
        /\ compaction'[j].replaced => compaction'[j].source < owner'.source
    BY <1>1, <1>2 DEF JobInv, OwnerGoesOn, JobRow
  <1>6. status \notin Known /\ status # "installed"
    BY DEF Dead, Known, Live
  <1> QED BY <1>2, <1>3, <1>5, <1>6 DEF JobInv, Known, Live

(* No twins appear when no job becomes known or changes.                    *)
LEMMA TwinsKept ==
    ASSUME Twins, \A j \in Compactions : compaction'[j].status \in Known =>
               /\ compaction[j].status \in Known
               /\ compaction'[j].source = compaction[j].source /\ compaction'[j].revision = compaction[j].revision
    PROVE  Twins'
  BY DEF Twins

(* Types without the driver's, for the steps that differ in the driver      *)
(* alone.                                                                   *)
LedgerTypeOK ==
    /\ owner \in OwnerRow
    /\ compaction \in [Compactions -> JobRow]
    /\ hold \in [Compactions -> [summary : Nat, continuation : Nat]]
    /\ request \in Seq(RequestRow)
LedgerOK == LedgerTypeOK /\ LedgerInv

(* A rewrite that neither makes nor drops a reservation pays nothing.       *)
LEMMA PaidSame ==
    ASSUME CompactionTypeOK, NEW status, NEW scheduled, NEW fund, Rewritten(status, scheduled, fund),
           NEW j, NEW bucket, Active(Last) = "none" <=> fund = "none"
    PROVE  Paid(j, bucket)' = Paid(j, bucket)
  BY PaidRewritten

(* Nothing about the jobs and requests changes.                             *)
LEMMA LedgerUnchanged ==
    ASSUME CompactionTypeOK, LedgerInv, compaction' = compaction, hold' = hold, request' = request,
           owner' \in OwnerRow, OwnerGoesOn
    PROVE  LedgerOK'
  <1>1. Kept /\ AnswersStay /\ Last' = Last
    BY KeptUnchanged
  <1>2. RowsInv'
    BY RowsUnchanged DEF LedgerInv
  <1>3. JobsGoOn
    BY DEF JobsGoOn
  <1>4. LinksInv'
    <2>1. \A i \in 1..Last, j \in Compactions : request'[i].job = j => Linked(i, j)'
      BY <1>1, <1>3, LinksKept DEF LedgerInv
    <2> QED BY <1>1, <2>1 DEF LinksInv, Kept
  <1>5. OneRequestPerNode'
    BY <1>1, NodesKept DEF LedgerInv
  <1>6. CarriedInv'
    BY <1>1 DEF LedgerInv, CarriedInv, Carried, OwnerGoesOn, IsSummary, Unpaid, Active, Last
  <1>7. JobsInv'
    <2> SUFFICES ASSUME NEW j \in Compactions PROVE JobInv(j)'
      BY DEF JobsInv
    <2>1. JobInv(j)
      BY DEF LedgerInv, JobsInv
    <2>2. Claims(j)' = Claims(j) /\ Claims(j) \in Nat
      BY ClaimsUnchanged, ClaimsNumber
    <2>3. \A bucket \in {"summary", "continuation"} : Paid(j, bucket)' = Paid(j, bucket)
      BY ClaimsUnchanged
    <2>4. Claims(j)' <= Claims(j)
      BY <2>2
    <2> QED BY <1>1, <2>1, <2>3, <2>4, JobKept
  <1>8. Twins'
    BY DEF Twins, LedgerInv
  <1>9. LedgerTypeOK'
    BY DEF LedgerTypeOK, CompactionTypeOK
  <1> QED BY <1>2, <1>4, <1>5, <1>6, <1>7, <1>8, <1>9 DEF LedgerOK, LedgerInv

(* An outcome of the newest request that no job is told of.                 *)
LEMMA LedgerRewritten ==
    ASSUME CompactionTypeOK, LedgerInv, compaction' = compaction, hold' = hold, owner' \in OwnerRow, OwnerGoesOn,
           NEW status, NEW scheduled, NEW fund, Rewritten(status, scheduled, fund),
           status # "prepared",
           scheduled => status = "retry_wait",
           Active(Last) = "none" <=> fund = "none",
           status \notin Settled => request[Last].status \notin Settled /\ Active(Last) # "none",
           status \in {"dispatched", "retry_wait", "unknown"} => Active(Last) # "none",
           IsSummary(Last) => status # "consumed" /\ request[Last].status # "completed",
           IsSummary(Last) /\ status = "failed" /\ owner'.status \in Open =>
               \A j \in Compactions : request[Last].job = j => compaction[j].revision < owner'.revision
    PROVE  LedgerOK'
  <1>1. Kept /\ AnswersStay /\ Last' = Last
    BY KeptRewritten
  <1>2. RowsInv'
    BY RowsRewritten DEF LedgerInv
  <1>3. JobsGoOn
    BY DEF JobsGoOn
  <1>4. LinksInv'
    <2>0. \A i \in 1..Last : IsSummary(i) /\ request'[i].status = "failed" /\ request[i].status # "failed"
               => owner'.status \notin Open \/ (\A j \in Compactions : request[i].job = j =>
                      compaction'[j].status \notin Known \/ compaction[j].revision < owner'.revision)
      BY DEF Rewritten
    <2>1. \A i \in 1..Last, j \in Compactions : request'[i].job = j => Linked(i, j)'
      BY <1>1, <1>3, <2>0, LinksKept DEF LedgerInv
    <2> QED BY <1>1, <2>1 DEF LinksInv, Kept
  <1>5. OneRequestPerNode'
    BY <1>1, NodesKept DEF LedgerInv
  <1>6. CarriedInv'
    <2>1. /\ request'[Last'].status = status /\ request'[Last'].job = request[Last].job
          /\ request'[Last'].purpose = request[Last].purpose
      BY <1>1 DEF Rewritten
    <2>2. ASSUME status \notin Settled, owner'.status \in Open, request[Last].job # 0
          PROVE  Carried(request[Last].job)
      BY <1>1, <2>2 DEF LedgerInv, CarriedInv, OwnerGoesOn, Rewritten
    <2>3. status \notin Settled => ~Unpaid(Last)
      BY DEF Unpaid
    <2>4. request'[Last'].status # "prepared"
      BY <2>1
    <2> QED BY <1>1, <2>1, <2>2, <2>3, <2>4 DEF CarriedInv, Carried, IsSummary, Unpaid
  <1>7. JobsInv'
    <2> SUFFICES ASSUME NEW j \in Compactions PROVE JobInv(j)'
      BY DEF JobsInv
    <2>1. JobInv(j)
      BY DEF LedgerInv, JobsInv
    <2>2. Claims(j)' <= Claims(j)
      BY ClaimsRewritten
    <2>3. \A bucket \in {"summary", "continuation"} : Paid(j, bucket)' = Paid(j, bucket)
      BY PaidRewritten
    <2> QED BY <1>1, <2>1, <2>2, <2>3, JobKept
  <1>8. Twins'
    BY DEF Twins, LedgerInv
  <1>9. LedgerTypeOK'
    BY DEF LedgerTypeOK, CompactionTypeOK, Rewritten
  <1> QED BY <1>2, <1>4, <1>5, <1>6, <1>7, <1>8, <1>9 DEF LedgerOK, LedgerInv

(* finish_job of jobs that are over.                                        *)
LEMMA FinishedIs ==
    ASSUME CompactionTypeOK, NEW S \in SUBSET Compactions, NEW status \in Dead, Finished(S, status)
    PROVE  /\ compaction' \in [Compactions -> JobRow]
           /\ hold' \in [Compactions -> [summary : Nat, continuation : Nat]]
           /\ \A j \in S : compaction'[j] = [compaction[j] EXCEPT !.status = status] /\ hold'[j] = Empty
           /\ \A j \in Compactions \ S : compaction'[j] = compaction[j] /\ hold'[j] = hold[j]
           /\ JobsGoOn
           /\ \A j \in Compactions : compaction'[j].status \in Known =>
                  j \notin S /\ compaction[j].status \in Known
                  /\ compaction'[j].source = compaction[j].source
                  /\ compaction'[j].revision = compaction[j].revision
  <1>1. status # "waiting_unknown" /\ status \in JobStatus /\ status \notin Known /\ status # "none"
    BY DEF Dead, Live, Known, JobStatus
  <1>2. hold' = [j \in Compactions |-> IF j \in S THEN Empty ELSE hold[j]]
    BY <1>1 DEF Finished
  <1>3. compaction' = [j \in Compactions |-> IF j \in S THEN [compaction[j] EXCEPT !.status = status] ELSE compaction[j]]
    BY DEF Finished
  <1>4. \A j \in Compactions : compaction[j] \in JobRow /\ hold[j] \in [summary : Nat, continuation : Nat]
    BY DEF CompactionTypeOK
  <1>5. \A j \in Compactions : /\ [compaction[j] EXCEPT !.status = status] \in JobRow
                               /\ [compaction[j] EXCEPT !.status = status].status = status
                               /\ [compaction[j] EXCEPT !.status = status].source = compaction[j].source
                               /\ [compaction[j] EXCEPT !.status = status].revision = compaction[j].revision
                               /\ [compaction[j] EXCEPT !.status = status].replaced = compaction[j].replaced
    BY <1>1, <1>4 DEF JobRow
  <1>6. Empty \in [summary : Nat, continuation : Nat]
    BY DEF Empty
  <1>7. compaction' \in [Compactions -> JobRow] /\ hold' \in [Compactions -> [summary : Nat, continuation : Nat]]
    BY <1>2, <1>3, <1>4, <1>5, <1>6
  <1>8. /\ \A j \in S : compaction'[j] = [compaction[j] EXCEPT !.status = status] /\ hold'[j] = Empty
        /\ \A j \in Compactions \ S : compaction'[j] = compaction[j] /\ hold'[j] = hold[j]
    BY <1>2, <1>3
  <1>9. JobsGoOn
    BY <1>1, <1>5, <1>8 DEF JobsGoOn
  <1>10. \A j \in Compactions : compaction'[j].status \in Known =>
                  j \notin S /\ compaction[j].status \in Known
                  /\ compaction'[j].source = compaction[j].source
                  /\ compaction'[j].revision = compaction[j].revision
    BY <1>1, <1>5, <1>8
  <1> QED BY <1>7, <1>8, <1>9, <1>10

(* Jobs end, with or without the newest request.                            *)
LEMMA LedgerFinished ==
    ASSUME CompactionTypeOK, LedgerInv, NEW S \in SUBSET Compactions, NEW ending \in Dead, Finished(S, ending),
           owner' \in OwnerRow, OwnerGoesOn,
           \/ request' = request
           \/ /\ request[Last].status \notin Settled
              /\ \E status \in {"failed", "unknown"}, fund \in Funds :
                     /\ Rewritten(status, FALSE, fund)
                     /\ Active(Last) = "none" <=> fund = "none"
                     /\ status = "unknown" => fund # "none",
           Last' > 0 /\ request'[Last'].status \notin Settled /\ request'[Last'].job # 0
               => owner'.status \notin Open \/ S = {},
           S = {} => request' = request,
           owner'.status \in Open => request' = request \/ ~IsSummary(Last) \/ request[Last].job \in S
    PROVE  LedgerOK'
  <1>1. /\ compaction' \in [Compactions -> JobRow]
        /\ hold' \in [Compactions -> [summary : Nat, continuation : Nat]]
        /\ \A j \in S : compaction'[j] = [compaction[j] EXCEPT !.status = ending] /\ hold'[j] = Empty
        /\ \A j \in Compactions \ S : compaction'[j] = compaction[j] /\ hold'[j] = hold[j]
        /\ JobsGoOn
        /\ \A j \in Compactions : compaction'[j].status \in Known =>
                  j \notin S /\ compaction[j].status \in Known
                  /\ compaction'[j].source = compaction[j].source
                  /\ compaction'[j].revision = compaction[j].revision
    BY FinishedIs
  <1>2. /\ Kept /\ AnswersStay /\ Last' = Last /\ RowsInv' /\ request' \in Seq(RequestRow)
        /\ \A j \in Compactions : /\ Claims(j)' <= Claims(j)
                                  /\ \A bucket \in {"summary", "continuation"} : Paid(j, bucket)' = Paid(j, bucket)
        /\ \A i \in 1..Last : request'[i].status = "failed" /\ request[i].status # "failed"
               => request' # request /\ i = Last
    <2>1. CASE request' = request
      <3>1. Kept /\ AnswersStay /\ Last' = Last
        BY <2>1, KeptUnchanged
      <3>2. RowsInv'
        BY <2>1, RowsUnchanged DEF LedgerInv
      <3>3. \A j \in Compactions : /\ Claims(j)' <= Claims(j)
                                  /\ \A bucket \in {"summary", "continuation"} : Paid(j, bucket)' = Paid(j, bucket)
        <4> TAKE j \in Compactions
        <4>1. Claims(j)' = Claims(j) /\ Claims(j) \in Nat
          BY <2>1, ClaimsUnchanged, ClaimsNumber
        <4>2. \A bucket \in {"summary", "continuation"} : Paid(j, bucket)' = Paid(j, bucket)
          BY <2>1, ClaimsUnchanged
        <4> QED BY <4>1, <4>2
      <3> QED BY <2>1, <3>1, <3>2, <3>3 DEF CompactionTypeOK
    <2>2. CASE /\ request[Last].status \notin Settled
               /\ \E status \in {"failed", "unknown"}, fund \in Funds :
                      /\ Rewritten(status, FALSE, fund)
                      /\ Active(Last) = "none" <=> fund = "none"
                      /\ status = "unknown" => fund # "none"
      <3>1. PICK status \in {"failed", "unknown"}, fund \in Funds :
                      /\ Rewritten(status, FALSE, fund)
                      /\ Active(Last) = "none" <=> fund = "none"
                      /\ status = "unknown" => fund # "none"
        BY <2>2
      <3>2. request[Last].status # "completed" /\ request[Last].status # "failed"
        BY <2>2 DEF Settled
      <3>3. Kept /\ AnswersStay /\ Last' = Last
        BY <3>1, <3>2, KeptRewritten
      <3>4. RowsInv'
        BY <3>1, RowsRewritten DEF LedgerInv
      <3>5. \A j \in Compactions : Claims(j)' <= Claims(j)
        BY <3>1, ClaimsRewritten
      <3>6. \A j \in Compactions, bucket \in {"summary", "continuation"} : Paid(j, bucket)' = Paid(j, bucket)
        <4> TAKE j \in Compactions, bucket \in {"summary", "continuation"}
        <4>1. PICK scheduled : scheduled = FALSE
          OBVIOUS
        <4>2. Rewritten(status, scheduled, fund) /\ (Active(Last) = "none" <=> fund = "none")
          BY <3>1, <4>1
        <4> QED BY <4>2, PaidSame
      <3>7. \A i \in 1..Last : request'[i].status = "failed" /\ request[i].status # "failed"
                => request' # request /\ i = Last
        BY <3>1 DEF Rewritten
      <3>8. request' \in Seq(RequestRow)
        BY <3>1 DEF Rewritten
      <3> QED BY <3>3, <3>4, <3>5, <3>6, <3>7, <3>8
    <2> QED BY <2>1, <2>2
  <1>4. LinksInv'
    <2>0. \A i \in 1..Last : IsSummary(i) /\ request'[i].status = "failed" /\ request[i].status # "failed"
               => owner'.status \notin Open \/ (\A j \in Compactions : request[i].job = j =>
                      compaction'[j].status \notin Known \/ compaction[j].revision < owner'.revision)
      BY <1>1, <1>2
    <2>1. \A i \in 1..Last, j \in Compactions : request'[i].job = j => Linked(i, j)'
      BY <1>1, <1>2, <2>0, LinksKept DEF LedgerInv
    <2> QED BY <1>2, <2>1 DEF LinksInv, Kept
  <1>5. OneRequestPerNode'
    BY <1>2, NodesKept DEF LedgerInv
  <1>6. CarriedInv'
    <2>1. CASE Last' > 0 => (owner'.status \notin Open \/ request'[Last'].status \in Settled \/ request'[Last'].job = 0)
      BY <1>2, <2>1, CarriedQuiet DEF Kept
    <2>2. CASE S = {}
      <3>1. request' = request /\ compaction' = compaction /\ hold' = hold
        BY <1>1, <2>2 DEF CompactionTypeOK
      <3> QED BY <3>1 DEF LedgerInv, CarriedInv, Carried, OwnerGoesOn, IsSummary, Unpaid, Active, Last
    <2> QED BY <2>1, <2>2
  <1>7. JobsInv'
    <2> SUFFICES ASSUME NEW j \in Compactions PROVE JobInv(j)'
      BY DEF JobsInv
    <2>1. JobInv(j)
      BY DEF LedgerInv, JobsInv
    <2>2. CASE j \in S
      BY <1>1, <1>2, <2>1, <2>2, JobEnds
    <2>3. CASE j \notin S
      BY <1>1, <1>2, <2>1, <2>3, JobKept
    <2> QED BY <2>2, <2>3
  <1>8. Twins'
    BY <1>1, TwinsKept DEF LedgerInv
  <1>9. LedgerTypeOK'
    BY <1>1, <1>2 DEF LedgerTypeOK
  <1> QED BY <1>2, <1>4, <1>5, <1>6, <1>7, <1>8, <1>9 DEF LedgerOK, LedgerInv

-----------------------------------------------------------------------------
(* The driver, and the inductive invariant *)

(* The driver works at a job here, or waits for a summary it asked for.     *)
AtJob == {"node", "validate", "record", "candidate", "install"}
Asking == driver.at \in {"send", "answer"} /\ driver.job # 0

(* No summary of the job has failed.                                        *)
NoFailure(j) == \A i \in DOMAIN request : request[i].job = j /\ IsSummary(i) => request[i].status # "failed"

(* The driver's job: alive, of the source the driver read, with no failure. *)
OwnJob ==
    /\ driver.job # 0
    /\ compaction[driver.job].status \in Live /\ ~compaction[driver.job].replaced
    /\ compaction[driver.job].source = driver.source
    /\ NoFailure(driver.job)

(* The newest request is in this status.                                    *)
Handled(status) == Last > 0 /\ request[Last].status = status

(* What the place of the driver says about the ledger: a driver between two *)
(* commits relies on what it read, and nobody else changes requests.        *)
PlaceInv ==
    /\ driver.at \notin {"off", "finish"} => owner.status \in Open
    /\ driver.at \notin {"off", "answer"} => In({"dispatched"}) = {}
    /\ driver.at = "answer" => Handled("dispatched")
    /\ driver.at \in {"saved", "send"} => Handled("prepared")
    /\ driver.at = "wait" => Handled("retry_wait")
    /\ driver.at = "retry" => Handled("unknown")
    /\ driver.at = "consume" => Handled("completed") /\ ~IsSummary(Last)
    /\ driver.at \in {"step", "find", "admit"} \cup AtJob => Quiet

(* What the driver read before it looks for a job is not newer than the     *)
(* Turn, and any job that replaced history did so before; a live job of     *)
(* that source whose summary failed is of an older revision than the one    *)
(* read.                                                                    *)
ReadInv ==
    /\ driver.at \in {"find", "admit"} =>
           /\ driver.source <= owner.source
           /\ \A j \in Compactions : compaction[j].replaced => compaction[j].source < driver.source
    /\ driver.at = "admit" =>
           /\ driver.seen <= owner.revision
           /\ \A j \in Compactions : compaction[j].status \in Live /\ ~NoFailure(j)
                  => compaction[j].revision < driver.seen

(* While it works at a job, the request it sent is the one for the first    *)
(* missing node, and what it validates and records was answered.            *)
WorkInv ==
    /\ driver.at \in AtJob \/ Asking => OwnJob
    /\ Asking => /\ Missing # {} /\ request[Last].purpose = Min(Missing) /\ request[Last].job = driver.job
                 /\ request[Last].source = driver.source /\ ~request[Last].scheduled
    /\ driver.at \in {"validate", "record"} => Missing # {} /\ Saved # {}
    /\ driver.at \in {"candidate", "install"} => Missing = {}

(* With which verdict a job is finished, and what is open then.             *)
FinishInv ==
    driver.at = "finish" =>
        \/ driver.verdict \in {"failed", "superseded"} /\ Quiet /\ owner.status \in Open
        \/ /\ driver.verdict = "waiting_unknown" /\ driver.job # 0
           /\ owner.status \in Open /\ Handled("unknown") /\ request[Last].job = driver.job
           /\ compaction[driver.job].status \in Live /\ ~compaction[driver.job].replaced
        \/ driver.verdict = "cancelled" /\ owner.status = "cancelled"

DriverInv == PlaceInv /\ ReadInv /\ WorkInv /\ FinishInv

(* The inductive invariant.                                                 *)
IInv == CompactionTypeOK /\ LedgerInv /\ DriverInv

-----------------------------------------------------------------------------
(* Where a step leaves the driver *)

(* A driver at rest.                                                        *)
LEMMA DriverIs ==
    ASSUME NEW place, driver' = AtRest(place)
    PROVE  driver'.at = place /\ driver'.job = 0 /\ (place \in Places => driver' \in DriverRow)
  BY DEF AtRest, DriverRow

(* Nothing is claimed of a driver that is gone,                             *)
LEMMA DriverOff ==
    ASSUME driver'.at = "off"
    PROVE  DriverInv'
  BY DEF DriverInv, PlaceInv, ReadInv, WorkInv, FinishInv, AtJob, Asking

(* of one that plans, only that nothing is in flight,                       *)
LEMMA DriverPlans ==
    ASSUME driver'.at \in {"plan", "cancel"}, owner'.status \in Open, In({"dispatched"})' = {}
    PROVE  DriverInv'
  BY DEF DriverInv, PlaceInv, ReadInv, WorkInv, FinishInv, AtJob, Asking

(* and of one that sends, that the newest request is prepared.              *)
LEMMA DriverSends ==
    ASSUME driver'.at = "send", driver'.job = 0, owner'.status \in Open, Handled("prepared")',
           In({"dispatched"})' = {}
    PROVE  DriverInv'
  BY DEF DriverInv, PlaceInv, ReadInv, WorkInv, FinishInv, AtJob, Asking

(* Nothing but the newest request waits for anything.                       *)
LEMMA OnlyLast ==
    ASSUME CompactionTypeOK, RowsInv, NEW status \in {"prepared", "dispatched", "retry_wait", "unknown"}
    PROVE  /\ In({status}) # {} => In({status}) = {Last} /\ Handled(status)
           /\ In({status}) = {} => ~Handled(status)
  BY Rows DEF RowsInv, In, Settled, Handled

(* Only the newest request can be in flight,                                *)
LEMMA NoneInFlight ==
    ASSUME LedgerOK', Last' > 0 => request'[Last'].status # "dispatched"
    PROVE  In({"dispatched"})' = {}
  <1>1. DOMAIN request' = 1..Last'
    BY LenProperties DEF LedgerOK, LedgerTypeOK, Last
  <1> QED BY <1>1 DEF LedgerOK, LedgerInv, RowsInv, In, Settled

(* and nothing is open when it is settled.                                  *)
LEMMA AllSettled ==
    ASSUME CompactionTypeOK, RowsInv, Last > 0 => request[Last].status \in Settled
    PROVE  Quiet
  BY Rows DEF RowsInv, Quiet

(* The greatest member of a set of one number.                              *)
LEMMA MaxOfOne ==
    ASSUME NEW n \in Nat
    PROVE  Max({n}) = n
  BY DEF Max

(* The current input is that of the Turn and only grows.                    *)
LEMMA DriverSame ==
    ASSUME DriverInv, CompactionTypeOK, driver' = driver, compaction' = compaction, request' = request,
           owner' \in OwnerRow,
           owner'.status = owner.status, owner.revision <= owner'.revision, owner.source <= owner'.source
    PROVE  DriverInv'
  <1>1. owner.revision \in Nat /\ owner.source \in Nat /\ owner'.revision \in Nat /\ owner'.source \in Nat
        /\ driver.source \in Nat /\ driver.seen \in Nat
    BY DEF CompactionTypeOK, OwnerRow, DriverRow
  <1>2. PlaceInv'
    BY DEF DriverInv, PlaceInv, Handled, Quiet, In, IsSummary, Last
  <1>3. ReadInv'
    BY <1>1 DEF DriverInv, ReadInv, NoFailure, IsSummary
  <1>4. WorkInv'
    BY DEF DriverInv, WorkInv, Asking, OwnJob, NoFailure, IsSummary, Missing, Saved, In, Last
  <1>5. FinishInv'
    BY DEF DriverInv, FinishInv, Handled, Quiet, Last
  <1> QED BY <1>2, <1>3, <1>4, <1>5 DEF DriverInv

(* The types and the ledger, from the parts the steps show.                 *)
LEMMA TypeFrom ==
    ASSUME LedgerOK', driver' \in DriverRow
    PROVE  CompactionTypeOK' /\ LedgerInv'
  BY DEF LedgerOK, LedgerTypeOK, CompactionTypeOK

-----------------------------------------------------------------------------
(* The beginning, the user and the end of a process *)

(* The invariant holds of a Turn that has just begun.                       *)
THEOREM CompactionInitially == CompactionInit => IInv
  <1> SUFFICES ASSUME CompactionInit PROVE IInv
    OBVIOUS
  <1>1. /\ owner = [status |-> "running", cancel |-> FALSE, revision |-> 1, source |-> 1]
        /\ compaction = [j \in Compactions |-> NoJob] /\ hold = [j \in Compactions |-> Empty]
        /\ request = <<>> /\ driver = AtRest("off")
    BY DEF CompactionInit
  <1>2. Last = 0 /\ DOMAIN request = {}
    BY <1>1 DEF Last
  <1>3. CompactionTypeOK
    <2>1. owner \in OwnerRow
      BY <1>1 DEF OwnerRow, Open
    <2>2. compaction \in [Compactions -> JobRow]
      BY <1>1 DEF JobRow, NoJob, JobStatus
    <2>3. hold \in [Compactions -> [summary : Nat, continuation : Nat]]
      BY <1>1 DEF Empty
    <2>4. driver \in DriverRow
      BY <1>1 DEF DriverRow, AtRest, Places
    <2> QED BY <1>1, <2>1, <2>2, <2>3, <2>4 DEF CompactionTypeOK
  <1>4. RowsInv /\ LinksInv /\ OneRequestPerNode /\ CarriedInv
    BY <1>2 DEF RowsInv, LinksInv, OneRequestPerNode, CarriedInv
  <1>5. JobsInv
    <2> SUFFICES ASSUME NEW j \in Compactions PROVE JobInv(j)
      BY DEF JobsInv
    <2>1. /\ compaction[j].status = "none" /\ compaction[j].source = 0 /\ compaction[j].revision = 0
          /\ compaction[j].nodes = {} /\ compaction[j].replaced = FALSE /\ hold[j] = Empty
      BY <1>1 DEF NoJob
    <2>2. owner.source = 1 /\ owner.revision = 1
      BY <1>1
    <2> QED BY <2>1, <2>2 DEF JobInv, Known, Live
  <1>6. Twins
    BY <1>1 DEF Twins, NoJob, Known, Live
  <1>7. DriverInv
    BY <1>1 DEF DriverInv, PlaceInv, ReadInv, WorkInv, FinishInv, AtJob, Asking, AtRest
  <1> QED BY <1>3, <1>4, <1>5, <1>6, <1>7 DEF IInv, LedgerInv

(* A message makes the live jobs obsolete and nothing else.                 *)
LEMMA MessageStep ==
    ASSUME IInv, Message
    PROVE  IInv'
  <1>1. /\ owner.revision \in Nat /\ owner.source \in Nat /\ owner \in OwnerRow
        /\ owner' = [owner EXCEPT !.revision = @ + 1, !.source = @ + 1]
        /\ compaction' = compaction /\ hold' = hold /\ request' = request /\ driver' = driver
    BY DEF Message, IInv, CompactionTypeOK, OwnerRow
  <1>2. /\ owner' \in OwnerRow /\ owner'.status = owner.status /\ owner'.revision = owner.revision + 1
        /\ owner'.source = owner.source + 1
    <2> DEFINE revision == owner.revision + 1
               src == owner.source + 1
    <2>1. owner' = [owner EXCEPT !.revision = revision, !.source = src] /\ revision \in Nat /\ src \in Nat
      BY <1>1
    <2> HIDE DEF revision, src
    <2>2. /\ owner' \in OwnerRow /\ owner'.status = owner.status /\ owner'.revision = revision
          /\ owner'.source = src
      BY <1>1, <2>1 DEF OwnerRow
    <2> QED BY <2>2 DEF revision, src
  <1>3. OwnerGoesOn
    BY <1>1, <1>2 DEF OwnerGoesOn
  <1>4. LedgerOK'
    BY <1>1, <1>2, <1>3, LedgerUnchanged DEF IInv
  <1>5. DriverInv'
    BY <1>1, <1>2, DriverSame DEF IInv
  <1>6. driver' \in DriverRow
    BY <1>1 DEF IInv, CompactionTypeOK
  <1> QED BY <1>4, <1>5, <1>6, TypeFrom DEF IInv

(* A wish to cancel is only recorded.                                       *)
LEMMA RequestCancellationStep ==
    ASSUME IInv, RequestCancellation
    PROVE  IInv'
  <1>1. /\ owner.revision \in Nat /\ owner.source \in Nat /\ owner \in OwnerRow
        /\ owner' = [owner EXCEPT !.cancel = TRUE]
        /\ compaction' = compaction /\ hold' = hold /\ request' = request /\ driver' = driver
    BY DEF RequestCancellation, IInv, CompactionTypeOK, OwnerRow
  <1>2. /\ owner' \in OwnerRow /\ owner'.status = owner.status /\ owner'.revision = owner.revision
        /\ owner'.source = owner.source
    BY <1>1 DEF OwnerRow
  <1>3. OwnerGoesOn
    BY <1>1, <1>2 DEF OwnerGoesOn
  <1>4. LedgerOK'
    BY <1>1, <1>2, <1>3, LedgerUnchanged DEF IInv
  <1>5. DriverInv'
    BY <1>1, <1>2, DriverSame DEF IInv
  <1>6. driver' \in DriverRow
    BY <1>1 DEF IInv, CompactionTypeOK
  <1> QED BY <1>4, <1>5, <1>6, TypeFrom DEF IInv

(* A step that changes nothing but the driver.                              *)
LEMMA OnlyDriver ==
    ASSUME IInv, UNCHANGED <<owner, compaction, hold, request>>
    PROVE  LedgerOK'
  <1>1. owner' = owner /\ owner \in OwnerRow /\ owner.revision \in Nat /\ owner.source \in Nat
    BY DEF IInv, CompactionTypeOK, OwnerRow
  <1>2. OwnerGoesOn
    BY <1>1 DEF OwnerGoesOn
  <1> QED BY <1>1, <1>2, LedgerUnchanged DEF IInv

(* The process ends anywhere: nothing durable changes.                      *)
LEMMA DriverCrashStep ==
    ASSUME IInv, DriverCrash
    PROVE  IInv'
  <1>1. driver'.at = "off" /\ driver' \in DriverRow
    BY DriverIs DEF DriverCrash, Leave, Places
  <1>2. LedgerOK'
    BY OnlyDriver DEF DriverCrash
  <1> QED BY <1>1, <1>2, DriverOff, TypeFrom DEF IInv

(* Nothing changes.                                                         *)
LEMMA StutterStep ==
    ASSUME IInv, UNCHANGED compactionVars
    PROVE  IInv'
  <1>1. LedgerOK'
    BY OnlyDriver DEF compactionVars
  <1>2. DriverInv'
    <2>1. /\ driver' = driver /\ compaction' = compaction /\ request' = request /\ owner' = owner
          /\ owner \in OwnerRow /\ owner.revision \in Nat /\ owner.source \in Nat
      BY DEF compactionVars, IInv, CompactionTypeOK, OwnerRow
    <2> QED BY <2>1, DriverSame DEF IInv
  <1>3. driver' \in DriverRow
    BY DEF compactionVars, IInv, CompactionTypeOK
  <1> QED BY <1>1, <1>2, <1>3, TypeFrom DEF IInv

-----------------------------------------------------------------------------
(* Recovery and the end of a Turn *)

(* Recovery keeps the revision and the source of the Turn.                  *)
LEMMA RecoveredOwnerIs ==
    ASSUME CompactionTypeOK, owner.status \in Open
    PROVE  /\ RecoveredOwner \in OwnerRow /\ RecoveredOwner.status \in Open
           /\ RecoveredOwner.revision = owner.revision /\ RecoveredOwner.source = owner.source
           /\ owner.revision \in Nat /\ owner.source \in Nat
  BY DEF CompactionTypeOK, RecoveredOwner, OwnerRow, Open

(* recover_owner_loss makes an unknown outcome of the attempt in flight;    *)
(* the hold of its job is not touched.                                      *)
LEMMA ResumeStep ==
    ASSUME IInv, NEW permit \in BOOLEAN, Resume(permit)
    PROVE  IInv'
  <1>1. /\ driver.at = "off" /\ owner.status \in Open
        /\ request' = Recovered /\ owner' = RecoveredOwner
        /\ driver' = [AtRest("plan") EXCEPT !.permit = permit] /\ compaction' = compaction /\ hold' = hold
    BY DEF Resume
  <1>2. /\ owner' \in OwnerRow /\ owner'.status \in Open /\ OwnerGoesOn
    BY <1>1, RecoveredOwnerIs DEF IInv, OwnerGoesOn
  <1>3. driver'.at = "plan" /\ driver' \in DriverRow
    BY <1>1 DEF AtRest, DriverRow, Places
  <1>4. IF In({"dispatched"}) = {} THEN request' = request
        ELSE request[Last].status = "dispatched" /\ Rewritten("unknown", FALSE, "unknown")
    BY <1>1, RecoveredIs DEF IInv, LedgerInv
  <1>5. LedgerOK' /\ In({"dispatched"})' = {}
    <2>1. CASE In({"dispatched"}) = {}
      <3>1. request' = request
        BY <1>4, <2>1
      <3>2. In({"dispatched"})' = {}
        BY <2>1, <3>1 DEF In
      <3> QED BY <1>1, <1>2, <3>1, <3>2, LedgerUnchanged DEF IInv
    <2>2. CASE In({"dispatched"}) # {}
      <3>1. request[Last].status = "dispatched" /\ Rewritten("unknown", FALSE, "unknown") /\ Last \in 1..Last
        BY <1>4, <2>2, Rows DEF IInv, Rewritten
      <3>2. Active(Last) # "none" /\ "unknown" \notin Settled
        BY <3>1, Rows DEF IInv, LedgerInv, RowsInv, Settled
      <3>3. PICK scheduled : scheduled = FALSE
        OBVIOUS
      <3>4. Rewritten("unknown", scheduled, "unknown")
        BY <3>1, <3>3
      <3>5. request[Last].status \notin Settled
        BY <3>1 DEF Settled
      <3>6. LedgerOK'
        BY <1>1, <1>2, <3>1, <3>2, <3>3, <3>4, <3>5, LedgerRewritten DEF IInv
      <3>7. Last' > 0 => request'[Last'].status # "dispatched"
        BY <3>1 DEF Rewritten
      <3> QED BY <3>6, <3>7, NoneInFlight
    <2> QED BY <2>1, <2>2
  <1>6. DriverInv'
    BY <1>2, <1>3, <1>5, DriverPlans
  <1> QED BY <1>3, <1>5, <1>6, TypeFrom DEF IInv

(* The end of the Turn, with or without the newest request.                 *)
LEMMA EndedIs ==
    ASSUME CompactionTypeOK, owner.status \in Open, NEW status \in {"cancelled", "failed"},
           owner' = [owner EXCEPT !.status = status]
    PROVE  owner' \in OwnerRow /\ owner'.status \notin Open /\ OwnerGoesOn
  <1>1. owner \in OwnerRow /\ owner.revision \in Nat /\ owner.source \in Nat
    BY DEF CompactionTypeOK, OwnerRow
  <1>2. owner' \in OwnerRow /\ owner'.status = status /\ owner'.revision = owner.revision
            /\ owner'.source = owner.source
    BY <1>1 DEF OwnerRow
  <1> QED BY <1>1, <1>2 DEF OwnerGoesOn, Open

(* The Turn ends (fail_turn, cancel_turn): the live jobs are finished and   *)
(* hold nothing, whatever becomes of the newest request.                    *)
LEMMA LedgerEnds ==
    ASSUME IInv, owner.status \in Open, NEW status \in {"cancelled", "failed"}, EndTurn(status),
           \/ request' = request
           \/ /\ request[Last].status \notin Settled
              /\ \E new \in {"failed", "unknown"}, fund \in Funds :
                     /\ Rewritten(new, FALSE, fund)
                     /\ Active(Last) = "none" <=> fund = "none"
                     /\ new = "unknown" => fund # "none"
    PROVE  LedgerOK'
  <1>1. owner' = [owner EXCEPT !.status = status] /\ Finished(LiveJobs, status)
    BY DEF EndTurn
  <1>2. owner' \in OwnerRow /\ owner'.status \notin Open /\ OwnerGoesOn
    BY <1>1, EndedIs DEF IInv
  <1>3. CASE request' = request
    BY <1>1, <1>2, <1>3, LedgerFinished DEF IInv, Dead, LiveJobs
  <1>4. CASE request' # request /\ LiveJobs # {}
    BY <1>1, <1>2, <1>4, LedgerFinished DEF IInv, Dead, LiveJobs
  <1>5. CASE request' # request /\ LiveJobs = {}
    <2>1. compaction' = compaction /\ hold' = hold
      <3>1. status # "waiting_unknown" /\ compaction \in [Compactions -> JobRow]
                /\ hold \in [Compactions -> [summary : Nat, continuation : Nat]]
        BY DEF IInv, CompactionTypeOK
      <3>2. compaction' = [j \in Compactions |-> compaction[j]] /\ hold' = [j \in Compactions |-> hold[j]]
        BY <1>1, <1>5, <3>1 DEF Finished
      <3> QED BY <3>1, <3>2
    <2>2. PICK new \in {"failed", "unknown"}, fund \in Funds :
                     /\ request[Last].status \notin Settled
                     /\ Rewritten(new, FALSE, fund)
                     /\ Active(Last) = "none" <=> fund = "none"
                     /\ new = "unknown" => fund # "none"
      BY <1>5
    <2>3. PICK scheduled : scheduled = FALSE
      OBVIOUS
    <2>4. Rewritten(new, scheduled, fund)
      BY <2>2, <2>3
    <2>5. request[Last].status # "completed" /\ (new \notin Settled => new = "unknown")
      BY <2>2 DEF Settled
    <2> QED BY <1>2, <2>1, <2>2, <2>3, <2>4, <2>5, LedgerRewritten DEF IInv
  <1> QED BY <1>3, <1>4, <1>5

(* The abort of a Turn nobody drives,                                       *)
LEMMA AbortStep ==
    ASSUME IInv, Abort
    PROVE  IInv'
  <1>1. driver.at = "off" /\ owner.status \in Open /\ request' = Recovered /\ EndTurn("cancelled")
            /\ driver' = driver
    BY DEF Abort
  <1>2. IF In({"dispatched"}) = {} THEN request' = request
        ELSE request[Last].status = "dispatched" /\ Rewritten("unknown", FALSE, "unknown")
    BY <1>1, RecoveredIs DEF IInv, LedgerInv
  <1>3. request[Last].status = "dispatched" /\ Rewritten("unknown", FALSE, "unknown") =>
            request[Last].status \notin Settled /\ Active(Last) # "none"
    BY Rows DEF Rewritten, IInv, LedgerInv, RowsInv, Settled
  <1>4. "unknown" \in Funds
    BY DEF Funds
  <1>5. LedgerOK'
    BY <1>1, <1>2, <1>3, <1>4, LedgerEnds
  <1>6. driver' \in DriverRow /\ driver'.at = "off"
    BY <1>1 DEF IInv, CompactionTypeOK
  <1> QED BY <1>5, <1>6, DriverOff, TypeFrom DEF IInv

(* Unspent keeps the difference between a reservation and none.             *)
LEMMA UnspentIs ==
    ASSUME CompactionTypeOK, Last > 0
    PROVE  /\ Unspent(Last) \in Funds /\ Active(Last) \in Funds
           /\ Active(Last) = "none" <=> Unspent(Last) = "none"
  BY Rows DEF Unspent, Funds

(* a cancellation with a scheduled retry withdrawn,                         *)
LEMMA CancelTurnStep ==
    ASSUME IInv, CancelTurn
    PROVE  IInv'
  <1>1. /\ driver.at = "cancel" /\ EndTurn("cancelled") /\ driver' = AtRest("off")
        /\ request' = [i \in DOMAIN request |-> IF Scheduled(i) THEN Requests(i, "failed", Unspent(i))[i] ELSE request[i]]
    BY DEF CancelTurn, Leave
  <1>2. owner.status \in Open
    BY <1>1 DEF IInv, DriverInv, PlaceInv
  <1>3. \/ request' = request
        \/ Last > 0 /\ request[Last].scheduled /\ Rewritten("failed", FALSE, Unspent(Last))
    BY <1>1, WithdrawnIs DEF IInv, LedgerInv
  <1>4. Last > 0 /\ request[Last].scheduled => request[Last].status \notin Settled
    BY Rows DEF IInv, LedgerInv, RowsInv, Settled
  <1>5. Last > 0 => Unspent(Last) \in Funds /\ (Active(Last) = "none" <=> Unspent(Last) = "none")
    BY UnspentIs DEF IInv
  <1>6. LedgerOK'
    BY <1>1, <1>2, <1>3, <1>4, <1>5, LedgerEnds
  <1>7. driver' \in DriverRow /\ driver'.at = "off"
    BY <1>1, DriverIs DEF Places
  <1> QED BY <1>6, <1>7, DriverOff, TypeFrom DEF IInv

(* a compaction that had to succeed,                                        *)
LEMMA FailTurnStep ==
    ASSUME IInv, FailTurn
    PROVE  IInv'
  <1>1. driver.at = "finish" /\ driver.verdict = "failed" /\ EndTurn("failed")
            /\ driver' = AtRest("off") /\ request' = request
    BY DEF FailTurn, Leave
  <1>2. owner.status \in Open
    BY <1>1 DEF IInv, DriverInv, FinishInv
  <1>3. LedgerOK'
    BY <1>1, <1>2, LedgerEnds
  <1>4. driver' \in DriverRow /\ driver'.at = "off"
    BY <1>1, DriverIs DEF Places
  <1> QED BY <1>3, <1>4, DriverOff, TypeFrom DEF IInv

(* a failure for good,                                                      *)
LEMMA FailureFinalStep ==
    ASSUME IInv, FailureFinal
    PROVE  IInv'
  <1>1. /\ driver.at = "answer" /\ EndTurn("failed") /\ driver' = AtRest("off")
        /\ request' = Requests(Last, "failed", "settled")
    BY DEF FailureFinal, Leave, Close
  <1>2. owner.status \in Open /\ Last > 0 /\ request[Last].status = "dispatched"
    BY <1>1 DEF IInv, DriverInv, PlaceInv, Handled
  <1>3. Rewritten("failed", FALSE, "settled") /\ "settled" \in Funds
    BY <1>1, <1>2, RequestsRewrite DEF IInv, RequestStatus, Funds
  <1>4. request[Last].status \notin Settled /\ Active(Last) # "none"
    BY <1>2, Rows DEF IInv, LedgerInv, RowsInv, Settled
  <1>5. LedgerOK'
    BY <1>1, <1>2, <1>3, <1>4, LedgerEnds
  <1>6. driver' \in DriverRow /\ driver'.at = "off"
    BY <1>1, DriverIs DEF Places
  <1> QED BY <1>5, <1>6, DriverOff, TypeFrom DEF IInv

(* and a retry that was not admitted.                                       *)
LEMMA FailUnstartedRetryStep ==
    ASSUME IInv, FailUnstartedRetry
    PROVE  IInv'
  <1> DEFINE n == Max(In({"retry_wait"}))
  <1>1. driver.at = "wait" /\ EndTurn("failed") /\ driver' = AtRest("off") /\ Close(n, Active(n))
    BY DEF FailUnstartedRetry, Leave
  <1>2. owner.status \in Open /\ Last > 0 /\ request[Last].status = "retry_wait"
    BY <1>1 DEF IInv, DriverInv, PlaceInv, Handled
  <1>3. n = Last
    <2>1. Last \in In({"retry_wait"}) /\ Last \in Nat
      BY <1>2, Rows DEF IInv, In
    <2>2. In({"retry_wait"}) = {Last}
      BY <2>1, OnlyLast DEF IInv, LedgerInv
    <2> QED BY <2>1, <2>2, MaxOfOne
  <1> HIDE DEF n
  <1>4. request' = Requests(Last, "failed", Active(Last)) /\ Active(Last) \in Funds
    BY <1>1, <1>2, <1>3, UnspentIs DEF Close, IInv
  <1>5. Rewritten("failed", FALSE, Active(Last))
    BY <1>2, <1>4, RequestsRewrite DEF IInv, RequestStatus
  <1>6. request[Last].status \notin Settled
    BY <1>2 DEF Settled
  <1>7. LedgerOK'
    BY <1>1, <1>2, <1>4, <1>5, <1>6, LedgerEnds
  <1>8. driver' \in DriverRow /\ driver'.at = "off"
    BY <1>1, DriverIs DEF Places
  <1> QED BY <1>7, <1>8, DriverOff, TypeFrom DEF IInv

-----------------------------------------------------------------------------
(* Outcomes of an attempt *)

(* Nothing is open after a step that settles the newest request.            *)
LEMMA QuietNext ==
    ASSUME LedgerOK', Last' > 0 => request'[Last'].status \in Settled
    PROVE  Quiet'
  <1>1. DOMAIN request' = 1..Last'
    BY LenProperties DEF LedgerOK, LedgerTypeOK, Last
  <1> QED BY <1>1 DEF LedgerOK, LedgerInv, RowsInv, Quiet

(* The row of the newest request.                                           *)
LEMMA LastRow ==
    ASSUME IInv, Last > 0
    PROVE  /\ Last \in Nat /\ Last \in DOMAIN request /\ request[Last] \in RequestRow
           /\ Active(Last) \in Funds
           /\ request[Last].scheduled => request[Last].status \in {"prepared", "retry_wait"}
           /\ request[Last].status = "prepared" => Active(Last) \in {"none", "reserved"}
           /\ request[Last].status \in {"dispatched", "retry_wait", "unknown"} => Active(Last) # "none"
           /\ IsSummary(Last) => request[Last].status # "consumed" /\ request[Last].job \in Compactions
           /\ \A j \in Compactions : request[Last].job = j => Linked(Last, j)
  BY Rows DEF IInv, LedgerInv, RowsInv, RequestRow, LinksInv

(* The rewrites of LedgerRewritten that leave the request unscheduled.      *)
LEMMA LedgerAnswered ==
    ASSUME IInv, compaction' = compaction, hold' = hold, owner' \in OwnerRow, OwnerGoesOn,
           NEW status \in RequestStatus, NEW fund \in Funds, Last > 0, request' = Requests(Last, status, fund),
           request[Last].status = "dispatched", fund # "none", status \notin {"prepared", "consumed"},
           IsSummary(Last) /\ status = "failed" => owner'.status \notin Open
    PROVE  /\ LedgerOK' /\ Rewritten(status, FALSE, fund)
  <1>1. Rewritten(status, FALSE, fund)
    BY RequestsRewrite DEF IInv
  <1>2. PICK scheduled : scheduled = FALSE
    OBVIOUS
  <1>3. Rewritten(status, scheduled, fund)
    BY <1>1, <1>2
  <1>4. Active(Last) # "none" /\ request[Last].status \notin Settled
    BY LastRow DEF Settled
  <1>5. LedgerOK'
    BY <1>2, <1>3, <1>4, LedgerRewritten DEF IInv
  <1> QED BY <1>1, <1>5

(* An acknowledged cancellation leaves the live jobs to their driver: the   *)
(* Turn is over, and the claims of its jobs with it.                        *)
LEMMA ProviderCancelledStep ==
    ASSUME IInv, ProviderCancelled
    PROVE  IInv'
  <1>1. /\ driver.at = "answer" /\ request' = Requests(Last, "failed", "unknown")
        /\ owner' = [owner EXCEPT !.status = "cancelled", !.cancel = TRUE]
        /\ IF driver.job = 0 THEN driver' = AtRest("off")
           ELSE driver' = [driver EXCEPT !.at = "finish", !.verdict = "cancelled"]
        /\ compaction' = compaction /\ hold' = hold
    BY DEF ProviderCancelled, Close, Leave
  <1>2. owner.status \in Open /\ Last > 0 /\ request[Last].status = "dispatched"
    BY <1>1 DEF IInv, DriverInv, PlaceInv, Handled
  <1>3. owner' \in OwnerRow /\ owner'.status = "cancelled" /\ OwnerGoesOn
    <2>1. owner \in OwnerRow /\ owner.revision \in Nat /\ owner.source \in Nat
      BY DEF IInv, CompactionTypeOK, OwnerRow
    <2>2. owner' \in OwnerRow /\ owner'.status = "cancelled" /\ owner'.revision = owner.revision
              /\ owner'.source = owner.source
      BY <1>1, <2>1 DEF OwnerRow
    <2> QED BY <2>1, <2>2 DEF OwnerGoesOn, Open
  <1>4. "cancelled" \notin Open /\ "failed" \in RequestStatus /\ "unknown" \in Funds
    BY DEF Open, RequestStatus, Funds
  <1>5. LedgerOK'
    BY <1>1, <1>2, <1>3, <1>4, LedgerAnswered
  <1>6. CASE driver.job = 0
    <2>1. driver' \in DriverRow /\ driver'.at = "off"
      BY <1>1, <1>6, DriverIs DEF Places
    <2> QED BY <1>5, <2>1, DriverOff, TypeFrom DEF IInv
  <1>7. CASE driver.job # 0
    <2>1. driver' \in DriverRow /\ driver'.at = "finish" /\ driver'.verdict = "cancelled"
      BY <1>1, <1>7 DEF IInv, CompactionTypeOK, DriverRow, Places
    <2>2. In({"dispatched"})' = {}
      <3>1. Last' > 0 => request'[Last'].status # "dispatched"
        <4>1. Rewritten("failed", FALSE, "unknown")
          BY <1>1, <1>2, <1>4, RequestsRewrite DEF IInv
        <4> QED BY <4>1 DEF Rewritten
      <3> QED BY <1>5, <3>1, NoneInFlight
    <2>3. DriverInv'
      BY <1>3, <2>1, <2>2 DEF DriverInv, PlaceInv, ReadInv, WorkInv, FinishInv, AtJob, Asking
    <2> QED BY <1>5, <2>1, <2>3, TypeFrom DEF IInv
  <1> QED BY <1>6, <1>7

(* A failure to repeat later keeps the reservation of the attempt.          *)
LEMMA FailureScheduledStep ==
    ASSUME IInv, FailureScheduled
    PROVE  IInv'
  <1>1. /\ driver.at = "answer"
        /\ request' = [Requests(Last, "retry_wait", "settled") EXCEPT ![Last].scheduled = TRUE]
        /\ driver' = AtRest("plan") /\ owner' = owner /\ compaction' = compaction /\ hold' = hold
    BY DEF FailureScheduled, Leave
  <1>2. owner.status \in Open /\ Last > 0 /\ request[Last].status = "dispatched"
    BY <1>1 DEF IInv, DriverInv, PlaceInv, Handled
  <1>3. Active(Last) # "none" /\ request[Last].status \notin Settled
    BY <1>2, LastRow DEF Settled
  <1>4. PICK scheduled : scheduled = TRUE
    OBVIOUS
  <1>5. Rewritten("retry_wait", scheduled, "settled")
    <2>1. "retry_wait" \in RequestStatus /\ "settled" \in Funds /\ TRUE \in BOOLEAN
      BY DEF RequestStatus, Funds
    <2>2. Rewritten("retry_wait", TRUE, "settled")
      BY <1>1, <1>2, <2>1, RewriteMore DEF IInv
    <2> QED BY <1>4, <2>2
  <1>6. owner' \in OwnerRow /\ OwnerGoesOn
    BY <1>1 DEF IInv, CompactionTypeOK, OwnerGoesOn, OwnerRow
  <1>7. LedgerOK'
    BY <1>1, <1>2, <1>3, <1>5, <1>6, LedgerRewritten DEF IInv, Settled
  <1>8. In({"dispatched"})' = {}
    <2>1. Last' > 0 => request'[Last'].status # "dispatched"
      BY <1>5 DEF Rewritten
    <2> QED BY <1>7, <2>1, NoneInFlight
  <1>9. driver' \in DriverRow /\ driver'.at = "plan"
    BY <1>1, DriverIs DEF Places
  <1> QED BY <1>1, <1>2, <1>7, <1>8, <1>9, DriverPlans, TypeFrom DEF IInv

(* An unknown outcome interrupts the Turn and keeps the job alive.          *)
LEMMA FailureUnknownStep ==
    ASSUME IInv, FailureUnknown
    PROVE  IInv'
  <1>1. /\ driver.at = "answer" /\ request' = Requests(Last, "unknown", "unknown")
        /\ owner' = [owner EXCEPT !.status = "interrupted"]
        /\ IF driver.job = 0 THEN driver' = AtRest("off")
           ELSE driver' = [driver EXCEPT !.at = "finish", !.verdict = "waiting_unknown"]
        /\ compaction' = compaction /\ hold' = hold
    BY DEF FailureUnknown, Leave
  <1>2. owner.status \in Open /\ Last > 0 /\ request[Last].status = "dispatched"
    BY <1>1 DEF IInv, DriverInv, PlaceInv, Handled
  <1>3. owner' \in OwnerRow /\ owner'.status \in Open /\ OwnerGoesOn
    <2>1. owner \in OwnerRow /\ owner.revision \in Nat /\ owner.source \in Nat
      BY DEF IInv, CompactionTypeOK, OwnerRow
    <2>2. /\ owner' \in OwnerRow /\ owner'.status = "interrupted" /\ owner'.revision = owner.revision
          /\ owner'.source = owner.source
      BY <1>1, <2>1 DEF OwnerRow, Open
    <2> QED BY <1>2, <2>1, <2>2 DEF OwnerGoesOn, Open
  <1>4. "unknown" \in RequestStatus /\ "unknown" \in Funds
    BY DEF RequestStatus, Funds
  <1>5. LedgerOK' /\ Rewritten("unknown", FALSE, "unknown")
    BY <1>1, <1>2, <1>3, <1>4, LedgerAnswered
  <1>6. CASE driver.job = 0
    <2>1. driver' \in DriverRow /\ driver'.at = "off"
      BY <1>1, <1>6, DriverIs DEF Places
    <2> QED BY <1>5, <2>1, DriverOff, TypeFrom DEF IInv
  <1>7. CASE driver.job # 0
    <2>1. driver' \in DriverRow /\ driver'.at = "finish" /\ driver'.verdict = "waiting_unknown"
              /\ driver'.job = driver.job
      BY <1>1, <1>7 DEF IInv, CompactionTypeOK, DriverRow, Places
    <2>2. OwnJob /\ request[Last].job = driver.job
      BY <1>1, <1>7 DEF IInv, DriverInv, WorkInv, Asking
    <2>3. Handled("unknown")' /\ request'[Last'].job = driver'.job
      BY <1>5, <2>1, <2>2 DEF Handled, Rewritten
    <2>4. In({"dispatched"})' = {}
      BY <1>5, <2>3, NoneInFlight DEF Handled
    <2>5. FinishInv'
      BY <1>1, <1>3, <1>7, <2>1, <2>2, <2>3 DEF FinishInv, OwnJob
    <2>6. DriverInv'
      BY <1>3, <2>1, <2>4, <2>5 DEF DriverInv, PlaceInv, ReadInv, WorkInv, AtJob, Asking
    <2> QED BY <1>5, <2>1, <2>6, TypeFrom DEF IInv
  <1> QED BY <1>6, <1>7

(* An answer: usable or not, the node has its request.                      *)
LEMMA CompletedStep ==
    ASSUME IInv, Completed
    PROVE  IInv'
  <1>1. /\ driver.at = "answer"
        /\ \E usable \in (IF IsSummary(Last) THEN BOOLEAN ELSE {TRUE}) :
               request' = [Requests(Last, "completed", "settled") EXCEPT ![Last].usable = usable]
        /\ IF driver.job # 0 THEN driver' = [driver EXCEPT !.at = "validate"] ELSE driver' = AtRest("plan")
        /\ owner' = owner /\ compaction' = compaction /\ hold' = hold
    BY DEF Completed, Leave, Go
  <1>2. owner.status \in Open /\ Last > 0 /\ request[Last].status = "dispatched"
    BY <1>1 DEF IInv, DriverInv, PlaceInv, Handled
  <1>3. Active(Last) # "none" /\ request[Last].status \notin Settled
    BY <1>2, LastRow DEF Settled
  <1>4. PICK scheduled : scheduled = FALSE
    OBVIOUS
  <1>5. Rewritten("completed", scheduled, "settled")
    <2>1. "completed" \in RequestStatus /\ "settled" \in Funds
      BY DEF RequestStatus, Funds
    <2>2. PICK usable \in BOOLEAN : request' = [Requests(Last, "completed", "settled") EXCEPT ![Last].usable = usable]
      BY <1>1
    <2>3. Rewritten("completed", FALSE, "settled")
      BY <1>2, <2>1, <2>2, RewriteMore DEF IInv
    <2> QED BY <1>4, <2>3
  <1>6. owner' \in OwnerRow /\ OwnerGoesOn
    BY <1>1 DEF IInv, CompactionTypeOK, OwnerGoesOn, OwnerRow
  <1>7. LedgerOK'
    BY <1>1, <1>2, <1>3, <1>4, <1>5, <1>6, LedgerRewritten DEF IInv, Settled
  <1>8. Handled("completed")' /\ Last' = Last
    BY <1>5 DEF Rewritten, Handled
  <1>9. In({"dispatched"})' = {} /\ Quiet'
    BY <1>7, <1>8, NoneInFlight, QuietNext DEF Handled, Settled
  <1>10. CASE driver.job = 0
    <2>1. driver' \in DriverRow /\ driver'.at = "plan"
      BY <1>1, <1>10, DriverIs DEF Places
    <2> QED BY <1>1, <1>2, <1>7, <1>9, <2>1, DriverPlans, TypeFrom DEF IInv
  <1>11. CASE driver.job # 0
    <2>1. driver' \in DriverRow /\ driver'.at = "validate" /\ driver'.job = driver.job
              /\ driver'.source = driver.source
      BY <1>1, <1>11 DEF IInv, CompactionTypeOK, DriverRow, Places
    <2>2. /\ OwnJob /\ Missing # {} /\ request[Last].purpose = Min(Missing)
          /\ request[Last].source = driver.source
      BY <1>1, <1>11 DEF IInv, DriverInv, WorkInv, Asking
    <2>3. Missing' = Missing
      BY <1>1, <2>1 DEF Missing
    <2>4. DOMAIN request' = 1..Last /\ DOMAIN request = 1..Last /\ Last \in 1..Last
      BY <1>2, <1>5, KeptRewritten DEF Kept, IInv
    <2>5. Last \in Saved'
      <3>1. /\ request'[Last].purpose = Min(Missing) /\ request'[Last].source = driver.source
            /\ request'[Last].status = "completed"
        BY <1>5, <2>2 DEF Rewritten
      <3> QED BY <2>1, <2>3, <2>4, <3>1 DEF Saved, In
    <2>6. OwnJob'
      <3>1. NoFailure(driver.job)'
        BY <1>5, <2>1, <2>2, <2>4 DEF OwnJob, NoFailure, IsSummary, Rewritten
      <3> QED BY <1>1, <2>1, <2>2, <3>1 DEF OwnJob, NoFailure, IsSummary
    <2>7. WorkInv'
      BY <2>1, <2>2, <2>3, <2>5, <2>6 DEF WorkInv, AtJob, Asking
    <2>8. PlaceInv' /\ ReadInv' /\ FinishInv'
      BY <1>1, <1>2, <1>9, <2>1 DEF PlaceInv, ReadInv, FinishInv, AtJob
    <2> QED BY <1>7, <2>1, <2>7, <2>8, TypeFrom DEF IInv, DriverInv
  <1> QED BY <1>10, <1>11

-----------------------------------------------------------------------------
(* Obsolete requests, and the end of a step *)

(* abandon_saved_summary.                                                   *)
LEMMA AbandonIs ==
    ASSUME IInv, Abandon(Last), StaleSummary(Last), Last > 0, owner.status \in Open,
           request[Last].status \in {"prepared", "retry_wait", "unknown"}
    PROVE  LedgerOK' /\ owner'.status \in Open /\ In({"dispatched"})' = {}
  <1> DEFINE j == request[Last].job
  <1>1. /\ request' = Requests(Last, "failed", Unspent(Last)) /\ Finished({j}, "superseded")
        /\ owner' = IF owner.status = "interrupted" THEN [owner EXCEPT !.status = "running", !.cancel = FALSE]
                    ELSE owner
    BY DEF Abandon, Close
  <1>2. IsSummary(Last) /\ j \in Compactions
    BY LastRow DEF StaleSummary
  <1>3. Unspent(Last) \in Funds /\ (Active(Last) = "none" <=> Unspent(Last) = "none")
    BY UnspentIs DEF IInv
  <1>4. Rewritten("failed", FALSE, Unspent(Last))
    BY <1>1, <1>3, RequestsRewrite DEF IInv, RequestStatus
  <1>5. request[Last].status \notin Settled
    BY DEF Settled
  <1>6. owner' \in OwnerRow /\ owner'.status \in Open /\ OwnerGoesOn
    <2>1. owner \in OwnerRow /\ owner.revision \in Nat /\ owner.source \in Nat
      BY DEF IInv, CompactionTypeOK, OwnerRow
    <2>2. owner' \in OwnerRow /\ owner'.status \in Open /\ owner'.revision = owner.revision
              /\ owner'.source = owner.source
      BY <1>1, <2>1 DEF OwnerRow, Open
    <2> QED BY <2>1, <2>2 DEF OwnerGoesOn
  <1>7. request'[Last'].status = "failed"
    BY <1>4 DEF Rewritten
  <1>8. {j} \in SUBSET Compactions /\ {j} # {} /\ "superseded" \in Dead /\ j \in {j}
            /\ request'[Last'].status \in Settled
    BY <1>2, <1>7 DEF Dead, Settled
  <1> HIDE DEF j
  <1>9. \E status \in {"failed", "unknown"}, fund \in Funds :
            /\ Rewritten(status, FALSE, fund)
            /\ Active(Last) = "none" <=> fund = "none"
            /\ status = "unknown" => fund # "none"
    BY <1>3, <1>4
  <1>10. LedgerOK'
    <2>1. j = request[Last].job
      BY DEF j
    <2> QED BY <1>1, <1>5, <1>6, <1>8, <1>9, <2>1, LedgerFinished DEF IInv
  <1> QED BY <1>6, <1>7, <1>10, NoneInFlight

(* An obsolete summary is given up with its job, before it is sent.         *)
LEMMA SavedRequestStep ==
    ASSUME IInv, SavedRequest
    PROVE  IInv'
  <1>1. driver.at = "saved" /\ owner.status \in Open /\ Handled("prepared") /\ In({"dispatched"}) = {}
    BY DEF SavedRequest, IInv, DriverInv, PlaceInv
  <1>2. CASE StaleSummary(Last)
    <2>1. Abandon(Last) /\ driver' = AtRest("plan")
      BY <1>2 DEF SavedRequest, Leave
    <2>2. LedgerOK' /\ owner'.status \in Open /\ In({"dispatched"})' = {}
      BY <1>1, <1>2, <2>1, AbandonIs DEF Handled
    <2>3. driver'.at = "plan" /\ driver' \in DriverRow
      BY <2>1, DriverIs DEF Places
    <2> QED BY <2>2, <2>3, DriverPlans, TypeFrom DEF IInv
  <1>3. CASE ~StaleSummary(Last)
    <2>1. UNCHANGED <<owner, compaction, hold, request>> /\ driver' = AtRest("send")
      BY <1>3 DEF SavedRequest, Leave
    <2>2. LedgerOK' /\ owner'.status \in Open /\ In({"dispatched"})' = {} /\ Handled("prepared")'
      BY <1>1, <2>1, OnlyDriver DEF In, Handled, Last
    <2>3. driver'.at = "send" /\ driver'.job = 0 /\ driver' \in DriverRow
      BY <2>1, DriverIs DEF Places
    <2> QED BY <2>2, <2>3, DriverSends, TypeFrom DEF IInv
  <1> QED BY <1>2, <1>3

(* A completed Turn finishes no job.                                        *)
LEMMA CompleteTurnStep ==
    ASSUME IInv, CompleteTurn
    PROVE  IInv'
  <1>1. /\ driver.at = "consume" /\ owner' = [owner EXCEPT !.status = "completed"]
        /\ request' = [request EXCEPT ![Last].status = "consumed"]
        /\ driver' = AtRest("off") /\ compaction' = compaction /\ hold' = hold
    BY DEF CompleteTurn, Leave
  <1>2. owner.status \in Open /\ Last > 0 /\ request[Last].status = "completed" /\ ~IsSummary(Last)
    BY <1>1 DEF IInv, DriverInv, PlaceInv, Handled
  <1>3. Rewritten("consumed", request[Last].scheduled, Active(Last)) /\ ~request[Last].scheduled
    BY <1>1, <1>2, ConsumedIs, LastRow DEF IInv
  <1>4. owner' \in OwnerRow /\ OwnerGoesOn
    <2>1. owner \in OwnerRow /\ owner.revision \in Nat /\ owner.source \in Nat
      BY DEF IInv, CompactionTypeOK, OwnerRow
    <2>2. /\ owner' \in OwnerRow /\ owner'.status = "completed" /\ owner'.revision = owner.revision
          /\ owner'.source = owner.source
      BY <1>1, <2>1 DEF OwnerRow
    <2> QED BY <2>1, <2>2 DEF OwnerGoesOn, Open
  <1>5. LedgerOK'
    BY <1>1, <1>2, <1>3, <1>4, LedgerRewritten DEF IInv, Settled
  <1>6. driver' \in DriverRow /\ driver'.at = "off"
    BY <1>1, DriverIs DEF Places
  <1> QED BY <1>5, <1>6, DriverOff, TypeFrom DEF IInv

(* Executed calls change what there is to summarise.                        *)
LEMMA NextStepStep ==
    ASSUME IInv, NextStep
    PROVE  IInv'
  <1>1. driver.at = "consume" /\ driver' = AtRest("plan") /\ compaction' = compaction /\ hold' = hold
    BY DEF NextStep, Leave
  <1>2. /\ owner.status \in Open /\ Last > 0 /\ request[Last].status = "completed" /\ ~IsSummary(Last)
        /\ In({"dispatched"}) = {}
    BY <1>1 DEF IInv, DriverInv, PlaceInv, Handled
  <1>3. driver' \in DriverRow /\ driver'.at = "plan"
    BY <1>1, DriverIs DEF Places
  <1>4. CASE owner.cancel
    <2>1. UNCHANGED <<owner, compaction, hold, request>>
      BY <1>1, <1>4 DEF NextStep
    <2>2. LedgerOK' /\ owner'.status \in Open /\ In({"dispatched"})' = {}
      BY <1>2, <2>1, OnlyDriver DEF In
    <2> QED BY <1>3, <2>2, DriverPlans, TypeFrom DEF IInv
  <1>5. CASE ~owner.cancel
    <2>1. owner' = [owner EXCEPT !.source = @ + 1] /\ request' = [request EXCEPT ![Last].status = "consumed"]
      BY <1>5 DEF NextStep
    <2>2. Rewritten("consumed", request[Last].scheduled, Active(Last)) /\ ~request[Last].scheduled
      BY <1>2, <2>1, ConsumedIs, LastRow DEF IInv
    <2>3. owner' \in OwnerRow /\ OwnerGoesOn /\ owner'.status = owner.status
      <3>1. owner \in OwnerRow /\ owner.revision \in Nat /\ owner.source \in Nat
        BY DEF IInv, CompactionTypeOK, OwnerRow
      <3>2. /\ owner' \in OwnerRow /\ owner'.status = owner.status /\ owner'.revision = owner.revision
            /\ owner'.source = owner.source + 1
        BY <2>1, <3>1 DEF OwnerRow
      <3> QED BY <3>1, <3>2 DEF OwnerGoesOn
    <2>4. LedgerOK'
      BY <1>1, <1>2, <2>2, <2>3, LedgerRewritten DEF IInv, Settled
    <2>5. In({"dispatched"})' = {}
      <3>1. Last' > 0 => request'[Last'].status # "dispatched"
        BY <2>2 DEF Rewritten
      <3> QED BY <2>4, <3>1, NoneInFlight
    <2> QED BY <1>2, <1>3, <2>3, <2>4, <2>5, DriverPlans, TypeFrom DEF IInv
  <1> QED BY <1>4, <1>5

(* A request that is closed with its reservation as it is.                  *)
LEMMA ClosedIs ==
    ASSUME IInv, owner' = owner, compaction' = compaction, hold' = hold, NEW fund \in Funds, Close(Last, fund),
           Last > 0, owner.status \in Open, request[Last].status \in {"prepared", "retry_wait"},
           Active(Last) = "none" <=> fund = "none", StaleInput(Last)
    PROVE  LedgerOK' /\ owner'.status \in Open /\ In({"dispatched"})' = {}
  <1>1. Rewritten("failed", FALSE, fund)
    BY RequestsRewrite DEF IInv, RequestStatus, Close
  <1>2. PICK scheduled : scheduled = FALSE
    OBVIOUS
  <1>3. Rewritten("failed", scheduled, fund)
    BY <1>1, <1>2
  <1>4. owner' \in OwnerRow /\ OwnerGoesOn
    BY DEF IInv, CompactionTypeOK, OwnerGoesOn, OwnerRow
  <1>5. ASSUME IsSummary(Last)
        PROVE  \A j \in Compactions : request[Last].job = j => compaction[j].revision < owner'.revision
    <2> TAKE j \in Compactions
    <2>1. request[Last].job = j => compaction[j].revision <= request[Last].revision
              /\ request[Last].revision <= owner.revision
      BY <1>5, LastRow DEF Linked
    <2>2. compaction[j].revision \in Nat /\ request[Last].revision \in Nat /\ owner.revision \in Nat
      BY LastRow DEF IInv, CompactionTypeOK, OwnerRow, JobRow, RequestRow
    <2> QED BY <2>1, <2>2 DEF StaleInput
  <1>6. request[Last].status # "completed" /\ "failed" \in Settled
    BY DEF Settled
  <1>7. LedgerOK'
    BY <1>2, <1>3, <1>4, <1>5, <1>6, LedgerRewritten DEF IInv
  <1>8. Last' > 0 => request'[Last'].status # "dispatched"
    BY <1>1 DEF Rewritten
  <1> QED BY <1>7, <1>8, NoneInFlight

(* A step or a scheduled retry for old input is withdrawn; the job it       *)
(* leaves behind is of that old input.                                      *)
LEMMA SupersedeStep ==
    ASSUME IInv, Supersede
    PROVE  IInv'
  <1> DEFINE fund == IF Scheduled(Last) THEN Unspent(Last) ELSE Active(Last)
  <1>1. /\ driver.at = "send" /\ Refused /\ Close(Last, fund) /\ driver' = AtRest("plan")
        /\ owner' = owner /\ compaction' = compaction /\ hold' = hold
    BY DEF Supersede, Leave
  <1>2. owner.status \in Open /\ Last > 0 /\ request[Last].status = "prepared"
    BY <1>1 DEF IInv, DriverInv, PlaceInv, Handled
  <1>3. fund \in Funds /\ (Active(Last) = "none" <=> fund = "none")
    BY <1>2, UnspentIs DEF IInv
  <1>4. StaleInput(Last)
    BY <1>1 DEF Refused
  <1> HIDE DEF fund
  <1>5. LedgerOK' /\ owner'.status \in Open /\ In({"dispatched"})' = {}
    BY <1>1, <1>2, <1>3, <1>4, ClosedIs
  <1>6. driver' \in DriverRow /\ driver'.at = "plan"
    BY <1>1, DriverIs DEF Places
  <1> QED BY <1>5, <1>6, DriverPlans, TypeFrom DEF IInv

(* The request that waits for its retry, or whose outcome is not known, is  *)
(* the newest.                                                              *)
LEMMA MaxIsLast ==
    ASSUME IInv, NEW status \in {"retry_wait", "unknown"}, Handled(status)
    PROVE  Max(In({status})) = Last
  <1>1. Last \in In({status}) /\ Last \in Nat
    BY LastRow DEF In, Handled
  <1>2. In({status}) = {Last}
    BY <1>1, OnlyLast DEF IInv, LedgerInv
  <1> QED BY <1>1, <1>2, MaxOfOne

(* So is a retry that waits.                                                *)
LEMMA WaitEndsStep ==
    ASSUME IInv, WaitEnds
    PROVE  IInv'
  <1>1. driver.at = "wait" /\ driver' = AtRest("plan")
    BY DEF WaitEnds, Leave
  <1>2. owner.status \in Open /\ Last > 0 /\ request[Last].status = "retry_wait"
            /\ Handled("retry_wait") /\ In({"dispatched"}) = {}
    BY <1>1 DEF IInv, DriverInv, PlaceInv, Handled
  <1>3. Max(In({"retry_wait"})) = Last
    BY <1>2, MaxIsLast
  <1>4. /\ owner.cancel \/ StaleInput(Last)
        /\ IF owner.cancel THEN UNCHANGED <<owner, compaction, hold, request>>
           ELSE IF StaleSummary(Last) THEN Abandon(Last)
           ELSE Close(Last, Active(Last)) /\ UNCHANGED <<owner, compaction, hold>>
    BY <1>3 DEF WaitEnds
  <1>5. LedgerOK' /\ owner'.status \in Open /\ In({"dispatched"})' = {}
    <2>1. CASE owner.cancel
      <3>1. UNCHANGED <<owner, compaction, hold, request>>
        BY <1>4, <2>1
      <3> QED BY <1>2, <3>1, OnlyDriver DEF In
    <2>2. CASE ~owner.cancel /\ StaleSummary(Last)
      BY <1>2, <1>4, <2>2, AbandonIs
    <2>3. CASE ~owner.cancel /\ ~StaleSummary(Last)
      <3>1. Active(Last) \in Funds
        BY <1>2, LastRow
      <3>2. /\ Close(Last, Active(Last)) /\ owner' = owner /\ compaction' = compaction /\ hold' = hold
            /\ StaleInput(Last)
        BY <1>4, <2>3
      <3> QED BY <1>2, <3>1, <3>2, ClosedIs
    <2> QED BY <2>1, <2>2, <2>3
  <1>6. driver' \in DriverRow /\ driver'.at = "plan"
    BY <1>1, DriverIs DEF Places
  <1> QED BY <1>5, <1>6, DriverPlans, TypeFrom DEF IInv

-----------------------------------------------------------------------------
(* New requests, and a driver that works at a job *)

(* A new request that no reservation is made for.                           *)
LEMMA LedgerGrown ==
    ASSUME IInv, owner' = owner, compaction' = compaction, hold' = hold, Quiet,
           NEW row, Grown(row), row.funds = <<"none">>, row.status = "prepared", row.scheduled = FALSE,
           \/ row.purpose = 0 /\ row.job = 0
           \/ /\ row.purpose \in Nodes /\ row.job \in Compactions
              /\ compaction[row.job].status \in Live /\ ~compaction[row.job].replaced
              /\ row.source = compaction[row.job].source /\ row.revision = owner.revision
              /\ \A i \in 1..Last : request[i].job = row.job => request[i].purpose # row.purpose
    PROVE  LedgerOK' /\ Handled("prepared")' /\ In({"dispatched"})' = {}
  <1>0. 0 \notin Nodes /\ 0 \notin Compactions
    BY CompactionConstants
  <1>1. Kept /\ AnswersStay /\ Last' = Last + 1 /\ request'[Last + 1] = row
    BY KeptGrown DEF Grown, IInv
  <1>2. RowsInv'
    <2>1. PICK fund \in {"none", "reserved"} : fund = "none"
      OBVIOUS
    <2>2. row.funds = <<fund>>
      BY <2>1
    <2> QED BY <1>0, <2>2, RowsGrown DEF IInv, LedgerInv
  <1>3. JobsGoOn /\ OwnerGoesOn /\ owner' \in OwnerRow
    BY DEF JobsGoOn, OwnerGoesOn, IInv, CompactionTypeOK, OwnerRow
  <1>4. LinksInv'
    <2>1. \A i \in 1..Last, j \in Compactions : request'[i].job = j => Linked(i, j)'
      <3>1. \A i \in 1..Last : request'[i] = request[i]
        BY DEF Grown
      <3> QED BY <1>1, <1>3, <3>1, LinksKept DEF IInv, LedgerInv
    <2>0. PICK n : n = Last + 1
      OBVIOUS
    <2>2. ASSUME NEW j \in Compactions, row.job = j
          PROVE  Linked(n, j)'
      <3>1. row.purpose \in Nodes /\ compaction[j].status \in Live /\ row.source = compaction[j].source
                /\ row.revision = owner.revision
        BY <1>0, <2>2
      <3>2. compaction[j].revision <= owner.revision
        BY DEF IInv, LedgerInv, JobsInv, JobInv
      <3>3. owner.revision \in Nat /\ owner.revision <= owner.revision /\ "none" \notin Live
        BY DEF IInv, CompactionTypeOK, OwnerRow, Live
      <3>4. request'[n] = row /\ row.status # "failed"
        BY <1>1, <2>0
      <3> QED BY <3>1, <3>2, <3>3, <3>4 DEF Linked, IsSummary
    <2>3. DOMAIN request' = 1..(Last + 1) /\ Last \in Nat
      BY <1>1 DEF Kept
    <2>4. \A i \in DOMAIN request' : i \in 1..Last \/ i = n
      BY <2>0, <2>3
    <2>5. request'[n] = row
      BY <1>1, <2>0
    <2> QED BY <2>1, <2>2, <2>4, <2>5 DEF LinksInv
  <1>5. OneRequestPerNode'
    BY <1>0, NodesGrown DEF IInv, LedgerInv
  <1>6. CarriedInv'
    BY <1>0, <1>1 DEF CarriedInv, Carried, IsSummary
  <1>7. JobsInv'
    <2> SUFFICES ASSUME NEW j \in Compactions PROVE JobInv(j)'
      BY DEF JobsInv
    <2>1. JobInv(j)
      BY DEF IInv, LedgerInv, JobsInv
    <2>2. Claims(j)' <= Claims(j)
      BY <1>0, ClaimsGrown DEF IInv
    <2>3. \A bucket \in {"summary", "continuation"} : Paid(j, bucket)' = Paid(j, bucket)
      BY PaidGrown DEF IInv
    <2> QED BY <1>1, <1>3, <2>1, <2>2, <2>3, JobKept DEF IInv
  <1>8. Twins'
    BY DEF Twins, IInv, LedgerInv
  <1>9. LedgerTypeOK'
    BY <1>3 DEF LedgerTypeOK, CompactionTypeOK, Grown, IInv
  <1>10. LedgerOK'
    BY <1>2, <1>4, <1>5, <1>6, <1>7, <1>8, <1>9 DEF LedgerOK, LedgerInv
  <1>11. Handled("prepared")'
    BY <1>1 DEF Handled, Kept
  <1> QED BY <1>10, <1>11, NoneInFlight DEF Handled

(* A request for the context as it is takes nothing from a job.             *)
LEMMA PrepareStepStep ==
    ASSUME IInv, PrepareStep
    PROVE  IInv'
  <1>1. driver.at = "step" /\ UNCHANGED <<owner, compaction, hold>>
    BY DEF PrepareStep
  <1>2. owner.status \in Open /\ Quiet /\ In({"dispatched"}) = {}
    BY <1>1 DEF IInv, DriverInv, PlaceInv
  <1>3. CASE driver.seen # owner.revision
    <2>1. UNCHANGED <<owner, compaction, hold, request>> /\ driver' = AtRest("plan")
      BY <1>1, <1>3 DEF PrepareStep, Leave
    <2>2. LedgerOK' /\ owner'.status \in Open /\ In({"dispatched"})' = {}
      BY <1>2, <2>1, OnlyDriver DEF In
    <2>3. driver' \in DriverRow /\ driver'.at = "plan"
      BY <2>1, DriverIs DEF Places
    <2> QED BY <2>2, <2>3, DriverPlans, TypeFrom DEF IInv
  <1>4. CASE driver.seen = owner.revision
    <2> DEFINE row == NewRequest(AgentStep, 0, driver.seen, owner.source, "none")
    <2>1. request' = Append(request, row) /\ driver' = AtRest("send")
      BY <1>4 DEF PrepareStep, Leave
    <2>2. driver.seen \in Nat /\ owner.source \in Nat /\ AgentStep = 0 /\ "none" \in Funds
      BY DEF IInv, CompactionTypeOK, DriverRow, OwnerRow, AgentStep, Funds
    <2>3. Grown(row)
      BY <2>1, <2>2, NewRequestIs DEF IInv
    <2>4. row.funds = <<"none">> /\ row.status = "prepared" /\ row.scheduled = FALSE /\ row.purpose = 0
              /\ row.job = 0
      BY <2>2 DEF NewRequest
    <2> HIDE DEF row
    <2>5. LedgerOK' /\ Handled("prepared")' /\ In({"dispatched"})' = {}
      BY <1>1, <1>2, <2>3, <2>4, LedgerGrown
    <2>6. driver' \in DriverRow /\ driver'.at = "send" /\ driver'.job = 0
      BY <2>1, DriverIs DEF Places
    <2> QED BY <1>1, <1>2, <2>5, <2>6, DriverSends, TypeFrom DEF IInv
  <1> QED BY <1>3, <1>4

(* The driver goes on with its job and changes nothing.                     *)
LEMMA GoesOn ==
    ASSUME IInv, UNCHANGED <<owner, compaction, hold, request>>, driver.at \in AtJob, NEW place \in AtJob,
           driver' = [driver EXCEPT !.at = place],
           place \in {"validate", "record"} => Missing # {} /\ Saved # {},
           place \in {"candidate", "install"} => Missing = {}
    PROVE  IInv'
  <1>1. LedgerOK'
    BY OnlyDriver
  <1>2. /\ driver' \in DriverRow /\ driver'.at = place /\ driver'.job = driver.job
        /\ driver'.source = driver.source
    BY DEF IInv, CompactionTypeOK, DriverRow, AtJob, Places
  <1>3. place \notin {"off", "finish", "answer", "saved", "send", "wait", "retry", "consume", "find", "admit"}
    BY DEF AtJob
  <1>4. Quiet /\ OwnJob /\ owner.status \in Open /\ In({"dispatched"}) = {}
    BY DEF IInv, DriverInv, PlaceInv, WorkInv, AtJob
  <1>5. PlaceInv'
    BY <1>2, <1>3, <1>4 DEF PlaceInv, Quiet, In
  <1>6. WorkInv'
    BY <1>2, <1>3, <1>4 DEF WorkInv, Asking, OwnJob, NoFailure, IsSummary, Missing, Saved, In
  <1>7. ReadInv' /\ FinishInv'
    BY <1>2, <1>3 DEF ReadInv, FinishInv
  <1> QED BY <1>1, <1>2, <1>5, <1>6, <1>7, TypeFrom DEF IInv, DriverInv

(* The driver gives the job up and has changed nothing.                     *)
LEMMA GivesUp ==
    ASSUME IInv, UNCHANGED <<owner, compaction, hold, request>>, driver.at \in AtJob \cup {"admit"},
           NEW verdict \in {"failed", "superseded"},
           driver' = [driver EXCEPT !.at = "finish", !.verdict = verdict]
    PROVE  IInv'
  <1>1. LedgerOK'
    BY OnlyDriver
  <1>2. /\ driver' \in DriverRow /\ driver'.at = "finish" /\ driver'.verdict = verdict
    BY DEF IInv, CompactionTypeOK, DriverRow, Places
  <1>3. Quiet /\ owner.status \in Open /\ In({"dispatched"}) = {}
    BY DEF IInv, DriverInv, PlaceInv, AtJob
  <1>4. DriverInv'
    BY <1>2, <1>3 DEF DriverInv, PlaceInv, ReadInv, WorkInv, FinishInv, AtJob, Asking, Quiet, In
  <1> QED BY <1>1, <1>2, <1>4, TypeFrom DEF IInv

(* No compaction fits.                                                      *)
LEMMA NoPlanStep ==
    ASSUME IInv, NoPlan
    PROVE  IInv'
  BY GivesUp DEF NoPlan

(* The node that is summarised next.                                        *)
LEMMA MissingIs ==
    ASSUME Missing # {}
    PROVE  Min(Missing) \in Missing /\ Min(Missing) \in Nodes
  <1>1. Missing \in SUBSET Nat /\ Missing \subseteq Nodes
    BY CompactionConstants DEF Missing
  <1> QED BY <1>1, LeastNumber

(* The first of the answers that can be reused is one of them.              *)
LEMMA SavedIs ==
    ASSUME IInv, Saved # {}
    PROVE  Min(Saved) \in Saved
  <1>1. Saved \in SUBSET Nat
    BY Rows DEF Saved, In, IInv
  <1> QED BY <1>1, LeastNumber

(* An unusable summary ends the job; a usable one is an answer.             *)
LEMMA ValidateStep ==
    ASSUME IInv, Validate
    PROVE  IInv'
  <1>1. driver.at = "validate" /\ UNCHANGED <<owner, compaction, hold, request>>
    BY DEF Validate
  <1>2. Missing # {} /\ Saved # {} /\ driver.at \in AtJob
    BY <1>1 DEF IInv, DriverInv, WorkInv, AtJob
  <1>3. \/ driver' = [driver EXCEPT !.at = "record"]
        \/ driver' = [driver EXCEPT !.at = "finish", !.verdict = "failed"]
    BY DEF Validate, Go
  <1>4. CASE driver' = [driver EXCEPT !.at = "record"]
    BY <1>1, <1>2, <1>4, GoesOn DEF AtJob
  <1>5. CASE driver' = [driver EXCEPT !.at = "finish", !.verdict = "failed"]
    BY <1>1, <1>2, <1>5, GivesUp DEF AtJob
  <1> QED BY <1>3, <1>4, <1>5

(* The source is compared, the replacement measured.                        *)
LEMMA CandidateStep ==
    ASSUME IInv, Candidate
    PROVE  IInv'
  <1>1. driver.at = "candidate" /\ UNCHANGED <<owner, compaction, hold, request>>
    BY DEF Candidate
  <1>2. Missing = {} /\ driver.at \in AtJob
    BY <1>1 DEF IInv, DriverInv, WorkInv, AtJob
  <1>3. \/ driver' = [driver EXCEPT !.at = "install", !.seen = owner.revision]
        \/ driver' = [driver EXCEPT !.at = "finish", !.verdict = "failed"]
        \/ driver' = [driver EXCEPT !.at = "finish", !.verdict = "superseded"]
    BY DEF Candidate
  <1>4. CASE driver' = [driver EXCEPT !.at = "install", !.seen = owner.revision]
    <2>1. LedgerOK'
      BY <1>1, OnlyDriver
    <2>2. owner.revision \in Nat
      BY DEF IInv, CompactionTypeOK, OwnerRow
    <2>3. /\ driver' \in DriverRow /\ driver'.at = "install" /\ driver'.job = driver.job
          /\ driver'.source = driver.source
      BY <1>4, <2>2 DEF IInv, CompactionTypeOK, DriverRow, Places
    <2>4. Quiet /\ OwnJob /\ owner.status \in Open /\ In({"dispatched"}) = {}
      BY <1>2, <1>1 DEF IInv, DriverInv, PlaceInv, WorkInv, AtJob
    <2>5. PlaceInv'
      BY <1>1, <2>3, <2>4 DEF PlaceInv, Quiet, In, AtJob
    <2>6. WorkInv'
      BY <1>1, <1>2, <2>3, <2>4 DEF WorkInv, Asking, OwnJob, NoFailure, IsSummary, Missing, AtJob
    <2>7. ReadInv' /\ FinishInv'
      BY <2>3 DEF ReadInv, FinishInv
    <2> QED BY <2>1, <2>3, <2>5, <2>6, <2>7, TypeFrom DEF IInv, DriverInv
  <1>5. CASE driver' = [driver EXCEPT !.at = "finish", !.verdict = "failed"]
    BY <1>1, <1>2, <1>5, GivesUp
  <1>6. CASE driver' = [driver EXCEPT !.at = "finish", !.verdict = "superseded"]
    BY <1>1, <1>2, <1>6, GivesUp
  <1> QED BY <1>3, <1>4, <1>5, <1>6

(* The first missing node was never asked for, if no answer is found: its   *)
(* request takes over the claim of the node.                                *)
LEMMA NextNodeStep ==
    ASSUME IInv, NextNode
    PROVE  IInv'
  <1>1. driver.at = "node" /\ UNCHANGED <<owner, compaction, hold>>
    BY DEF NextNode
  <1>2. /\ Quiet /\ OwnJob /\ owner.status \in Open /\ In({"dispatched"}) = {} /\ driver.at \in AtJob
    BY <1>1 DEF IInv, DriverInv, PlaceInv, WorkInv, AtJob
  <1>3. CASE Missing = {}
    <2>1. UNCHANGED <<owner, compaction, hold, request>> /\ driver' = [driver EXCEPT !.at = "candidate"]
      BY <1>1, <1>3 DEF NextNode, Go
    <2> QED BY <1>2, <1>3, <2>1, GoesOn DEF AtJob
  <1>4. CASE Missing # {} /\ Saved # {}
    <2>1. UNCHANGED <<owner, compaction, hold, request>> /\ driver' = [driver EXCEPT !.at = "validate"]
      BY <1>1, <1>4 DEF NextNode, Go
    <2> QED BY <1>2, <1>4, <2>1, GoesOn DEF AtJob
  <1>5. CASE Missing # {} /\ Saved = {}
    <2> DEFINE n == Min(Missing)
               j == driver.job
               row == NewRequest(n, j, owner.revision, driver.source, "none")
    <2>1. request' = Append(request, row) /\ driver' = [driver EXCEPT !.at = "send"]
      BY <1>5 DEF NextNode, Go
    <2>2. n \in Missing /\ n \in Nodes
      BY <1>5, MissingIs
    <2>3. j \in Compactions /\ driver.source \in Nat /\ owner.revision \in Nat /\ "none" \in Funds
      BY <1>2 DEF IInv, CompactionTypeOK, DriverRow, OwnerRow, Funds, OwnJob
    <2>4. Grown(row)
      <3> HIDE DEF n, j
      <3> QED BY <2>1, <2>2, <2>3, NewRequestIs DEF IInv
    <2>5. /\ row.funds = <<"none">> /\ row.status = "prepared" /\ row.scheduled = FALSE
          /\ row.purpose = n /\ row.job = j
          /\ row.source = driver.source /\ row.revision = owner.revision
      BY DEF NewRequest
    <2>6. \A i \in 1..Last : request[i].job = j => request[i].purpose # n
      <3> SUFFICES ASSUME NEW i \in 1..Last, request[i].job = j, request[i].purpose = n PROVE FALSE
        OBVIOUS
      <3>1. i \in DOMAIN request /\ IsSummary(i)
        BY <2>2, Rows DEF IInv, IsSummary
      <3>2. request[i].status \in Settled /\ request[i].status # "consumed" /\ request[i].status # "failed"
        BY <1>2, <3>1 DEF Quiet, OwnJob, NoFailure, IInv, LedgerInv, RowsInv
      <3>3. request[i].source = driver.source
        BY <1>2, <2>3, <3>1 DEF IInv, LedgerInv, LinksInv, Linked, OwnJob
      <3>4. i \in Saved
        BY <3>1, <3>2, <3>3 DEF Saved, In, Settled
      <3> QED BY <1>5, <3>4
    <2>7. compaction[j].status \in Live /\ ~compaction[j].replaced /\ compaction[j].source = driver.source
      BY <1>2 DEF OwnJob
    <2> HIDE DEF n, j, row
    <2>8. LedgerOK' /\ Handled("prepared")' /\ In({"dispatched"})' = {}
      BY <1>1, <1>2, <2>2, <2>3, <2>4, <2>5, <2>6, <2>7, LedgerGrown
    <2>9. /\ driver' \in DriverRow /\ driver'.at = "send" /\ driver'.job = driver.job
          /\ driver'.source = driver.source
      BY <2>1 DEF IInv, CompactionTypeOK, DriverRow, Places
    <2>10. /\ Last' = Last + 1 /\ request'[Last + 1] = row /\ Last \in Nat
           /\ \A i \in 1..Last : request'[i] = request[i]
      BY <2>4, Rows DEF Grown, IInv
    <2>11. DOMAIN request' = 1..(Last + 1) /\ DOMAIN request = 1..Last
      BY <2>4, <2>10, KeptGrown DEF IInv, Kept
    <2>12. Missing' = Missing
      BY <1>1, <2>9 DEF Missing
    <2>13. OwnJob'
      <3>1. NoFailure(driver.job)'
        <4>1. \A i \in 1..(Last + 1) : i \in 1..Last \/ i = Last + 1
          BY <2>10
        <4>2. row.status # "failed"
          BY <2>5
        <4> QED BY <1>2, <2>9, <2>10, <2>11, <4>1, <4>2 DEF OwnJob, NoFailure, IsSummary
      <3> QED BY <1>1, <1>2, <2>9, <3>1 DEF OwnJob, NoFailure, IsSummary
    <2>14. request'[Last'] = row /\ row.purpose = Min(Missing) /\ row.job = driver.job
      BY <2>5, <2>10 DEF n, j
    <2>15. WorkInv'
      BY <1>5, <2>5, <2>9, <2>12, <2>13, <2>14 DEF WorkInv, AtJob, Asking
    <2>16. PlaceInv' /\ ReadInv' /\ FinishInv'
      BY <1>1, <1>2, <2>8, <2>9 DEF PlaceInv, ReadInv, FinishInv, AtJob
    <2> QED BY <2>8, <2>9, <2>15, <2>16, TypeFrom DEF IInv, DriverInv
  <1> QED BY <1>3, <1>4, <1>5

(* The driver finds an open request and goes to where it is handled.        *)
LEMMA DriverHandles ==
    ASSUME IInv, UNCHANGED <<owner, compaction, hold, request>>, owner.status \in Open, In({"dispatched"}) = {},
           NEW place \in {"wait", "retry", "saved", "consume"}, driver' = [driver EXCEPT !.at = place],
           place = "wait" => Handled("retry_wait"), place = "retry" => Handled("unknown"),
           place = "saved" => Handled("prepared"), place = "consume" => Handled("completed") /\ ~IsSummary(Last)
    PROVE  IInv'
  <1>1. LedgerOK'
    BY OnlyDriver
  <1>2. driver' \in DriverRow /\ driver'.at = place
    BY DEF IInv, CompactionTypeOK, DriverRow, Places
  <1>3. PlaceInv'
    BY <1>2 DEF PlaceInv, Handled, In, IsSummary, Last, AtJob
  <1>4. ReadInv' /\ WorkInv' /\ FinishInv'
    BY <1>2 DEF ReadInv, WorkInv, FinishInv, AtJob, Asking
  <1> QED BY <1>1, <1>2, <1>3, <1>4, TypeFrom DEF IInv, DriverInv

(* The recovery plan leads to a place that fits the ledger.                 *)
LEMMA PlanStep ==
    ASSUME IInv, Plan
    PROVE  IInv'
  <1>1. driver.at = "plan" /\ UNCHANGED <<owner, compaction, hold, request>>
    BY DEF Plan
  <1>2. owner.status \in Open /\ In({"dispatched"}) = {}
    BY <1>1 DEF IInv, DriverInv, PlaceInv
  <1>3. LedgerOK'
    BY <1>1, OnlyDriver
  <1>4. /\ In({"retry_wait"}) # {} => Handled("retry_wait")
        /\ In({"retry_wait"}) = {} => ~Handled("retry_wait")
        /\ In({"unknown"}) # {} => Handled("unknown") /\ In({"unknown"}) = {Last}
        /\ In({"unknown"}) = {} => ~Handled("unknown")
        /\ ~Handled("dispatched")
    BY <1>2, OnlyLast DEF IInv, LedgerInv
  <1>5. Cardinality(In({"unknown"})) = 1 <=> In({"unknown"}) # {}
    BY <1>4, FS_Singleton, FS_EmptySet
  <1>6. \/ driver' = [driver EXCEPT !.at = "cancel"]
        \/ In({"retry_wait"}) # {} /\ driver' = [driver EXCEPT !.at = "wait"]
        \/ In({"unknown"}) # {} /\ driver' = [driver EXCEPT !.at = "retry"]
        \/ driver' = AtRest("off")
        \/ Handled("completed") /\ ~IsSummary(Last) /\ driver' = [driver EXCEPT !.at = "consume"]
        \/ Handled("prepared") /\ driver' = [driver EXCEPT !.at = "saved"]
        \/ /\ In({"retry_wait"}) = {} /\ In({"unknown"}) = {} /\ ~Handled("prepared")
           /\ \/ driver' = [driver EXCEPT !.at = "step", !.seen = owner.revision, !.permit = FALSE]
              \/ driver' = [driver EXCEPT !.at = "find", !.source = owner.source, !.permit = FALSE]
    BY <1>5 DEF Plan, Go, Leave, Handled
  <1>7. CASE driver' = [driver EXCEPT !.at = "cancel"]
    <2>1. driver' \in DriverRow /\ driver'.at = "cancel"
      BY <1>7 DEF IInv, CompactionTypeOK, DriverRow, Places
    <2>2. owner'.status \in Open /\ In({"dispatched"})' = {}
      BY <1>1, <1>2 DEF In
    <2> QED BY <1>3, <2>1, <2>2, DriverPlans, TypeFrom DEF IInv
  <1>8. CASE In({"retry_wait"}) # {} /\ driver' = [driver EXCEPT !.at = "wait"]
    BY <1>1, <1>2, <1>4, <1>8, DriverHandles
  <1>9. CASE In({"unknown"}) # {} /\ driver' = [driver EXCEPT !.at = "retry"]
    BY <1>1, <1>2, <1>4, <1>9, DriverHandles
  <1>10. CASE driver' = AtRest("off")
    <2>1. driver' \in DriverRow /\ driver'.at = "off"
      BY <1>10, DriverIs DEF Places
    <2> QED BY <1>3, <2>1, DriverOff, TypeFrom DEF IInv
  <1>11. CASE Handled("completed") /\ ~IsSummary(Last) /\ driver' = [driver EXCEPT !.at = "consume"]
    BY <1>1, <1>2, <1>11, DriverHandles
  <1>12. CASE Handled("prepared") /\ driver' = [driver EXCEPT !.at = "saved"]
    BY <1>1, <1>2, <1>12, DriverHandles
  <1>13. ASSUME In({"retry_wait"}) = {}, In({"unknown"}) = {}, ~Handled("prepared")
         PROVE  Quiet /\ Quiet'
    <2>1. Last > 0 => request[Last].status \in Settled
      BY <1>4, <1>13, LastRow DEF Handled, RequestRow, Settled
    <2>2. Quiet
      BY <2>1, AllSettled DEF IInv, LedgerInv
    <2> QED BY <1>1, <2>2 DEF Quiet
  <1>14. CASE /\ In({"retry_wait"}) = {} /\ In({"unknown"}) = {} /\ ~Handled("prepared")
              /\ driver' = [driver EXCEPT !.at = "step", !.seen = owner.revision, !.permit = FALSE]
    <2>1. driver' \in DriverRow /\ driver'.at = "step"
      BY <1>14 DEF IInv, CompactionTypeOK, DriverRow, OwnerRow, Places
    <2>2. PlaceInv'
      BY <1>1, <1>2, <1>13, <1>14, <2>1 DEF PlaceInv, In
    <2>3. ReadInv' /\ WorkInv' /\ FinishInv'
      BY <2>1 DEF ReadInv, WorkInv, FinishInv, AtJob, Asking
    <2> QED BY <1>3, <2>1, <2>2, <2>3, TypeFrom DEF IInv, DriverInv
  <1>15. CASE /\ In({"retry_wait"}) = {} /\ In({"unknown"}) = {} /\ ~Handled("prepared")
              /\ driver' = [driver EXCEPT !.at = "find", !.source = owner.source, !.permit = FALSE]
    <2>1. driver' \in DriverRow /\ driver'.at = "find" /\ driver'.source = owner.source /\ owner.source \in Nat
      BY <1>15 DEF IInv, CompactionTypeOK, DriverRow, OwnerRow, Places
    <2>2. PlaceInv'
      BY <1>1, <1>2, <1>13, <1>15, <2>1 DEF PlaceInv, In
    <2>3. WorkInv' /\ FinishInv'
      BY <2>1 DEF WorkInv, FinishInv, AtJob, Asking
    <2>4. \A j \in Compactions : compaction[j].replaced => compaction[j].source < owner.source
      BY DEF IInv, LedgerInv, JobsInv, JobInv
    <2>5. ReadInv'
      BY <1>1, <2>1, <2>4 DEF ReadInv
    <2> QED BY <1>3, <2>1, <2>2, <2>3, <2>5, TypeFrom DEF IInv, DriverInv
  <1> QED BY <1>6, <1>7, <1>8, <1>9, <1>10, <1>11, <1>12, <1>14, <1>15

(* A reusable job has no failed summary: it is of the current input.        *)
LEMMA FindJobStep ==
    ASSUME IInv, FindJob
    PROVE  IInv'
  <1> DEFINE found == IF Reusable = {} THEN 0 ELSE Max(Reusable)
  <1>1. /\ driver.at = "find" /\ UNCHANGED <<owner, compaction, hold, request>>
        /\ driver' = [driver EXCEPT !.at = "admit", !.job = found, !.seen = owner.revision]
    BY DEF FindJob
  <1>2. LedgerOK'
    BY <1>1, OnlyDriver
  <1>3. found \in Compactions \cup {0}
    <2>1. CASE Reusable # {}
      <3>1. PICK j \in Reusable : TRUE
        BY <2>1
      <3>2. \A k \in Reusable : k = j
        BY <3>1 DEF Reusable, IInv, LedgerInv, Twins, Known
      <3>3. Reusable = {j} /\ j \in Nat /\ j \in Compactions
        BY <3>1, <3>2, CompactionConstants DEF Reusable
      <3>4. Max(Reusable) = j
        BY <3>3, MaxOfOne
      <3> QED BY <2>1, <3>3, <3>4
    <2> QED BY <2>1
  <1> HIDE DEF found
  <1>4. /\ owner.status \in Open /\ In({"dispatched"}) = {} /\ Quiet /\ driver.source <= owner.source
        /\ \A j \in Compactions : compaction[j].replaced => compaction[j].source < driver.source
    BY <1>1 DEF IInv, DriverInv, PlaceInv, ReadInv
  <1>5. /\ driver' \in DriverRow /\ driver'.at = "admit" /\ driver'.source = driver.source
        /\ driver'.seen = owner.revision
        /\ owner.revision \in Nat
    BY <1>1, <1>3 DEF IInv, CompactionTypeOK, DriverRow, OwnerRow, Places
  <1>6. \A j \in Compactions : compaction[j].status \in Live /\ ~NoFailure(j)
            => compaction[j].revision < owner.revision
    BY <1>4 DEF IInv, LedgerInv, LinksInv, Linked, NoFailure, Known
  <1>7. PlaceInv'
    BY <1>1, <1>4, <1>5 DEF PlaceInv, In, Quiet
  <1>8. ReadInv'
    BY <1>1, <1>4, <1>5, <1>6 DEF ReadInv, NoFailure, IsSummary
  <1>9. WorkInv' /\ FinishInv'
    BY <1>5 DEF WorkInv, FinishInv, AtJob, Asking
  <1> QED BY <1>2, <1>5, <1>7, <1>8, <1>9, TypeFrom DEF IInv, DriverInv

-----------------------------------------------------------------------------
(* Jobs are recorded, created and finished *)

(* A step that leaves the requests alone while nothing is open.             *)
LEMMA LedgerJobs ==
    ASSUME IInv, Quiet, owner' = owner, request' = request,
           compaction' \in [Compactions -> JobRow],
           hold' \in [Compactions -> [summary : Nat, continuation : Nat]],
           JobsGoOn, JobsInv', Twins'
    PROVE  LedgerOK'
  <1>1. Kept /\ AnswersStay /\ Last' = Last
    BY KeptUnchanged DEF IInv
  <1>2. RowsInv'
    BY RowsUnchanged DEF IInv, LedgerInv
  <1>3. OwnerGoesOn /\ owner' \in OwnerRow
    BY DEF OwnerGoesOn, IInv, CompactionTypeOK, OwnerRow
  <1>4. LinksInv'
    <2>1. \A i \in 1..Last, j \in Compactions : request'[i].job = j => Linked(i, j)'
      BY <1>1, <1>3, LinksKept DEF IInv, LedgerInv
    <2> QED BY <1>1, <2>1 DEF LinksInv, Kept
  <1>5. OneRequestPerNode'
    BY <1>1, NodesKept DEF IInv, LedgerInv
  <1>6. CarriedInv'
    <2>1. Last' \in Nat /\ (Last' > 0 => request'[Last'].status \in Settled)
      BY <1>1 DEF Quiet, Kept
    <2> QED BY <2>1, CarriedQuiet
  <1>7. LedgerTypeOK'
    BY <1>3 DEF LedgerTypeOK, IInv, CompactionTypeOK
  <1> QED BY <1>2, <1>4, <1>5, <1>6, <1>7 DEF LedgerOK, LedgerInv

(* The driver takes a job up.                                               *)
LEMMA AtNode ==
    ASSUME IInv, LedgerOK', Quiet, owner.status \in Open, owner' = owner, request' = request,
           In({"dispatched"}) = {},
           driver' \in DriverRow, driver'.at = "node", driver'.job # 0,
           compaction'[driver'.job].status \in Live, ~compaction'[driver'.job].replaced,
           compaction'[driver'.job].source = driver'.source, NoFailure(driver'.job)
    PROVE  IInv'
  <1>1. PlaceInv'
    BY DEF PlaceInv, Quiet, In
  <1>2. OwnJob'
    BY DEF OwnJob, NoFailure, IsSummary
  <1>3. WorkInv' /\ ReadInv' /\ FinishInv'
    BY <1>2 DEF WorkInv, ReadInv, FinishInv, Asking, AtJob
  <1> QED BY <1>1, <1>3, TypeFrom DEF IInv, DriverInv

(* A recorded node was answered.                                            *)
LEMMA RecordNodeStep ==
    ASSUME IInv, RecordNode
    PROVE  IInv'
  <1>0. PICK n : n = Min(Missing)
    OBVIOUS
  <1> DEFINE j == driver.job
             new == [compaction[j] EXCEPT !.nodes = @ \cup {n}, !.status = "running"]
  <1>1. /\ driver.at = "record" /\ UNCHANGED <<owner, hold, request>>
        /\ compaction' = [compaction EXCEPT ![j].nodes = @ \cup {n}, ![j].status = "running"]
        /\ driver' = [driver EXCEPT !.at = "node"]
    BY <1>0 DEF RecordNode, Go
  <1>2. Quiet /\ OwnJob /\ owner.status \in Open /\ In({"dispatched"}) = {} /\ Missing # {} /\ Saved # {}
    BY <1>1 DEF IInv, DriverInv, PlaceInv, WorkInv, AtJob
  <1>3. j \in Compactions /\ n \in Nodes /\ compaction[j] \in JobRow
    BY <1>0, <1>2, MissingIs DEF IInv, CompactionTypeOK, DriverRow, OwnJob
  <1>4. /\ new \in JobRow /\ new.status = "running" /\ new.nodes = compaction[j].nodes \cup {n}
        /\ new.source = compaction[j].source /\ new.revision = compaction[j].revision
        /\ new.replaced = compaction[j].replaced /\ new.admitted = compaction[j].admitted
    <2> HIDE DEF j
    <2>1. compaction[j].nodes \cup {n} \in SUBSET Nodes /\ "running" \in JobStatus
      BY <1>3 DEF JobRow, JobStatus, Live
    <2> QED BY <1>3, <2>1 DEF JobRow
  <1>5. compaction' = [compaction EXCEPT ![j] = new]
    BY <1>1, <1>3 DEF IInv, CompactionTypeOK
  <1>6. /\ compaction' \in [Compactions -> JobRow] /\ compaction'[j] = new
        /\ \A k \in Compactions : k # j => compaction'[k] = compaction[k]
    <2> HIDE DEF new
    <2> QED BY <1>3, <1>4, <1>5 DEF IInv, CompactionTypeOK
  <1> HIDE DEF new
  <1>7. /\ compaction[j].status \in Live /\ ~compaction[j].replaced /\ compaction[j].source = driver.source
        /\ "running" \in Live /\ "running" # "none" /\ "running" # "installed"
    BY <1>2 DEF OwnJob, Live
  <1>8. JobsGoOn
    BY <1>4, <1>6, <1>7 DEF JobsGoOn, Known
  <1>9. Twins'
    <2>1. \A k \in Compactions : compaction'[k].status \in Known =>
               /\ compaction[k].status \in Known
               /\ compaction'[k].source = compaction[k].source /\ compaction'[k].revision = compaction[k].revision
      BY <1>4, <1>6, <1>7 DEF Known
    <2> QED BY <2>1, TwinsKept DEF IInv, LedgerInv
  <1>10. Kept /\ AnswersStay /\ OwnerGoesOn /\ owner' \in OwnerRow
    BY <1>1, KeptUnchanged DEF IInv, OwnerGoesOn, CompactionTypeOK, OwnerRow
  <1>11. \A k \in Compactions : /\ Claims(k)' <= Claims(k) /\ Claims(k)' = Claims(k)
                                /\ \A bucket \in {"summary", "continuation"} : Paid(k, bucket)' = Paid(k, bucket)
    <2> TAKE k \in Compactions
    <2>1. Claims(k)' = Claims(k) /\ Claims(k) \in Nat
      BY <1>1, ClaimsUnchanged, ClaimsNumber
    <2>2. \A bucket \in {"summary", "continuation"} : Paid(k, bucket)' = Paid(k, bucket)
      BY <1>1, ClaimsUnchanged
    <2> QED BY <2>1, <2>2
  <1>12. JobsInv'
    <2> SUFFICES ASSUME NEW k \in Compactions PROVE JobInv(k)'
      BY DEF JobsInv
    <2>1. JobInv(k)
      BY DEF IInv, LedgerInv, JobsInv
    <2>2. CASE k # j
      BY <1>1, <1>6, <1>10, <1>11, <2>1, <2>2, JobKept DEF IInv
    <2>3. CASE k = j
      <3>1. \A m \in compaction[k].nodes : Answered(k, m)'
        <4>1. compaction'[k].source = compaction[k].source /\ compaction[k].nodes \subseteq Nodes
          BY <1>3, <1>4, <1>6, <2>3 DEF JobRow
        <4> QED BY <1>10, <2>1, <4>1, AnsweredStays DEF JobInv
      <3>2. Answered(k, n)'
        <4>1. PICK i \in In({"completed"}) : request[i].purpose = n /\ request[i].source = driver.source
          BY <1>0, <1>2 DEF Saved
        <4>2. i \in In({"completed"})' /\ request'[i].purpose = n /\ request'[i].source = compaction'[k].source
          BY <1>1, <1>4, <1>6, <1>7, <2>3, <4>1 DEF In
        <4> QED BY <4>2 DEF Answered
      <3>3. Balanced(k)'
        <4>1. Balanced(k)
          BY <1>7, <2>1, <2>3 DEF JobInv, Known
        <4>2. \A bucket \in {"summary", "continuation"} : Paid(k, bucket)' = Paid(k, bucket)
          BY <1>11
        <4> QED BY <1>1, <1>4, <1>6, <2>3, <4>1, <4>2 DEF Balanced, Allowance
      <3>4. Claims(k)' = Claims(k)
        BY <1>11
      <3> QED BY <1>1, <1>4, <1>6, <1>7, <2>1, <2>3, <3>1, <3>2, <3>3, <3>4 DEF JobInv
    <2> QED BY <2>2, <2>3
  <1>13. hold' \in [Compactions -> [summary : Nat, continuation : Nat]]
    BY <1>1 DEF IInv, CompactionTypeOK
  <1>14. LedgerOK'
    BY <1>1, <1>2, <1>6, <1>8, <1>9, <1>12, <1>13, LedgerJobs
  <1>15. driver' \in DriverRow /\ driver'.at = "node" /\ driver'.job = j /\ driver'.source = driver.source
    BY <1>1 DEF IInv, CompactionTypeOK, DriverRow, Places
  <1>16. NoFailure(driver'.job)
    BY <1>2, <1>15 DEF OwnJob
  <1> QED BY <1>1, <1>2, <1>4, <1>6, <1>7, <1>14, <1>15, <1>16, AtNode DEF OwnJob

(* A job without requests has paid nothing.                                 *)
LEMMA PaidNone ==
    ASSUME CompactionTypeOK, NEW j, NEW bucket, \A i \in 1..Last : request[i].job # j
    PROVE  Paid(j, bucket) = 0
  <1>1. request \in Seq(RequestRow) /\ Len(request) = Last
    BY DEF CompactionTypeOK, Last
  <1>2. \A i \in Nat, g \in Nat : ~Counts(request, i, g, j, bucket)
    BY <1>1 DEF Counts
  <1>3. /\ PaidOf(request, j, bucket) \in SUBSET (Nat \X Nat)
        /\ \A i \in Nat, g \in Nat : <<i, g>> \in PaidOf(request, j, bucket) <=> Counts(request, i, g, j, bucket)
    BY <1>1, PaidMembers
  <1>4. {} \in SUBSET (Nat \X Nat)
            /\ \A i \in Nat, g \in Nat : <<i, g>> \in PaidOf(request, j, bucket) <=> <<i, g>> \in {}
    BY <1>2, <1>3
  <1>5. PaidOf(request, j, bucket) = {}
    BY <1>3, <1>4, SetsOfPairs
  <1> QED BY <1>5, PaidIsOf, FS_EmptySet

(* A job that has just been made.                                           *)
LEMMA JobMade ==
    ASSUME IInv, Quiet, owner' = owner, request' = request, driver.source <= owner.source,
           driver.seen <= owner.revision,
           NEW j \in Compactions, compaction[j].status = "none",
           compaction'[j] = [NoJob EXCEPT !.status = "planned", !.source = driver.source, !.revision = driver.seen],
           hold'[j] = [summary |-> Cardinality(Nodes), continuation |-> 1]
    PROVE  JobInv(j)'
  <1>1. \A i \in 1..Last : request[i].job # j
    BY Rows DEF IInv, LedgerInv, LinksInv, Linked
  <1>2. \A bucket \in {"summary", "continuation"} : Paid(j, bucket)' = 0
    BY <1>1, PaidNone, ClaimsUnchanged DEF IInv
  <1>3. Claims(j)' <= Cardinality(Nodes) /\ Cardinality(Nodes) \in Nat
    <2>1. Unasked(j) \in SUBSET Nodes /\ IsFiniteSet(Nodes)
      BY CompactionConstants DEF Unasked
    <2>2. Cardinality(Unasked(j)) <= Cardinality(Nodes) /\ Cardinality(Nodes) \in Nat
      BY <2>1, FS_Subset, FS_CardinalityType
    <2>3. Promised(j) = 0
      BY <1>1, Rows DEF Promised, IInv
    <2>4. Cardinality(Unasked(j)) \in Nat /\ Claims(j)' = Claims(j)
      BY ClaimsNumber, ClaimsUnchanged
    <2> QED BY <2>2, <2>3, <2>4 DEF Claims
  <1>4. /\ compaction'[j].status = "planned" /\ compaction'[j].source = driver.source
        /\ compaction'[j].revision = driver.seen
        /\ compaction'[j].nodes = {} /\ compaction'[j].replaced = FALSE
        /\ compaction'[j].admitted = [summary |-> 0, continuation |-> 0]
    BY DEF NoJob
  <1>5. Balanced(j)'
    <2>1. ASSUME NEW bucket \in {"summary", "continuation"}
          PROVE  hold'[j][bucket] + 0 = Allowance(bucket) + compaction'[j].admitted[bucket]
      <3>1. CASE bucket = "summary"
        BY <1>3, <1>4, <3>1 DEF Allowance
      <3>2. CASE bucket = "continuation"
        BY <1>4, <3>2 DEF Allowance
      <3> QED BY <3>1, <3>2
    <2> QED BY <1>2, <1>4, <2>1 DEF Balanced, Allowance
  <1>6. hold'[j].continuation = 1 /\ hold'[j].summary >= Claims(j)'
    <2>1. Claims(j)' \in Nat
      BY ClaimsNumber
    <2> QED BY <1>3, <2>1
  <1>7. "planned" \in Live
    BY DEF Live
  <1> QED BY <1>4, <1>5, <1>6, <1>7 DEF JobInv

(* A new job is admitted with its whole allowance and has no request; one   *)
(* that exists is alive, since an installed one would be of an older        *)
(* source.                                                                  *)
LEMMA CreateJobStep ==
    ASSUME IInv, CreateJob
    PROVE  IInv'
  <1> DEFINE free == {j \in Compactions : compaction[j].status = "none"}
  <1>1. driver.at = "admit" /\ owner' = owner /\ request' = request
    BY DEF CreateJob
  <1>2. /\ owner.status \in Open /\ In({"dispatched"}) = {} /\ Quiet /\ driver.source <= owner.source
        /\ \A j \in Compactions : compaction[j].replaced => compaction[j].source < driver.source
        /\ driver.seen <= owner.revision
        /\ \A j \in Compactions : compaction[j].status \in Live /\ ~NoFailure(j)
               => compaction[j].revision < driver.seen
    BY <1>1 DEF IInv, DriverInv, PlaceInv, ReadInv
  <1>3. driver.source \in Nat /\ driver.seen \in Nat /\ Compactions \subseteq Nat \ {0}
    BY CompactionConstants DEF IInv, CompactionTypeOK, DriverRow
  <1>4. CASE Existing # {}
    <2> DEFINE j == Min(Existing)
    <2>1. driver' = [driver EXCEPT !.at = "node", !.job = j, !.seen = 0] /\ UNCHANGED <<compaction, hold>>
      BY <1>4 DEF CreateJob
    <2>2. j \in Existing
      <3>1. Existing \in SUBSET Nat
        BY <1>3 DEF Existing, Lookup
      <3> QED BY <1>4, <3>1, LeastNumber
    <2> HIDE DEF j
    <2>3. /\ j \in Compactions /\ compaction[j].status \in Live \cup {"installed"}
          /\ compaction[j].source = driver.source
          /\ compaction[j].revision = driver.seen /\ j # 0
      BY <1>3, <2>2 DEF Existing, Lookup
    <2>4. ~compaction[j].replaced
      <3>1. compaction[j].replaced => compaction[j].source < driver.source
        BY <1>2, <2>3
      <3>2. ~(driver.source < driver.source)
        BY <1>3
      <3> QED BY <2>3, <3>1, <3>2
    <2>5. compaction[j].status \in Live
      BY <2>3, <2>4 DEF IInv, LedgerInv, JobsInv, JobInv
    <2>6. NoFailure(j)
      BY <1>2, <1>3, <2>3, <2>5
    <2>7. driver' \in DriverRow /\ driver'.at = "node" /\ driver'.job = j /\ driver'.source = driver.source
      BY <2>1, <2>3 DEF IInv, CompactionTypeOK, DriverRow, Places
    <2>8. LedgerOK'
      BY <1>1, <2>1, OnlyDriver
    <2>9. NoFailure(driver'.job)
      BY <2>6, <2>7
    <2> QED BY <1>1, <1>2, <2>1, <2>3, <2>4, <2>5, <2>7, <2>8, <2>9, AtNode
  <1>5. CASE Existing = {}
    <2> DEFINE j == Min(free)
               new == [NoJob EXCEPT !.status = "planned", !.source = driver.source, !.revision = driver.seen]
               amount == [summary |-> Cardinality(Nodes), continuation |-> 1]
    <2>1. /\ free # {} /\ compaction' = [compaction EXCEPT ![j] = new] /\ hold' = [hold EXCEPT ![j] = amount]
          /\ driver' = [driver EXCEPT !.at = "node", !.job = j, !.seen = 0]
      BY <1>5 DEF CreateJob
    <2>2. j \in free
      <3>1. free \in SUBSET Nat
        BY <1>3
      <3> HIDE DEF free
      <3> QED BY <2>1, <3>1, LeastNumber
    <2>3. j \in Compactions /\ compaction[j].status = "none" /\ j # 0
      BY <1>3, <2>2
    <2>4. /\ new \in JobRow /\ new.status = "planned" /\ new.source = driver.source /\ new.revision = driver.seen
          /\ new.replaced = FALSE
      BY <1>3 DEF NoJob, JobRow, JobStatus, Live
    <2>5. amount \in [summary : Nat, continuation : Nat]
      <3>1. Cardinality(Nodes) \in Nat
        BY CompactionConstants, FS_CardinalityType
      <3> QED BY <3>1
    <2> HIDE DEF j, amount, new
    <2>6. /\ compaction' \in [Compactions -> JobRow] /\ compaction'[j] = new
          /\ hold' \in [Compactions -> [summary : Nat, continuation : Nat]] /\ hold'[j] = amount
          /\ \A k \in Compactions : k # j => compaction'[k] = compaction[k] /\ hold'[k] = hold[k]
      BY <2>1, <2>3, <2>4, <2>5 DEF IInv, CompactionTypeOK
    <2>7. JobsGoOn
      BY <2>3, <2>6 DEF JobsGoOn
    <2>8. JobsInv'
      <3> SUFFICES ASSUME NEW k \in Compactions PROVE JobInv(k)'
        BY DEF JobsInv
      <3>1. CASE k = j
        <4>1. compaction'[k] = [NoJob EXCEPT !.status = "planned", !.source = driver.source, !.revision = driver.seen]
          BY <2>6, <3>1 DEF new
        <4>2. hold'[k] = [summary |-> Cardinality(Nodes), continuation |-> 1]
          BY <2>6, <3>1 DEF amount
        <4> QED BY <1>1, <1>2, <2>3, <3>1, <4>1, <4>2, JobMade
      <3>2. CASE k # j
        <4>1. JobInv(k) /\ Kept /\ AnswersStay /\ OwnerGoesOn /\ owner' \in OwnerRow
          BY <1>1, KeptUnchanged DEF IInv, LedgerInv, JobsInv, OwnerGoesOn, CompactionTypeOK, OwnerRow
        <4>2. Claims(k)' <= Claims(k)
          <5>1. Claims(k)' = Claims(k) /\ Claims(k) \in Nat
            BY <1>1, ClaimsUnchanged, ClaimsNumber
          <5> QED BY <5>1
        <4>3. \A bucket \in {"summary", "continuation"} : Paid(k, bucket)' = Paid(k, bucket)
          BY <1>1, ClaimsUnchanged
        <4> QED BY <2>6, <3>2, <4>1, <4>2, <4>3, JobKept DEF IInv
      <3> QED BY <3>1, <3>2
    <2>9. Twins'
      <3>1. \A k \in Compactions : compaction[k].status \in Known =>
                compaction[k].source # driver.source \/ compaction[k].revision # driver.seen
        BY <1>5 DEF Existing, Lookup, Known
      <3> QED BY <2>4, <2>6, <3>1 DEF Twins, IInv, LedgerInv
    <2>10. LedgerOK'
      BY <1>1, <1>2, <2>6, <2>7, <2>8, <2>9, LedgerJobs
    <2>11. driver' \in DriverRow /\ driver'.at = "node" /\ driver'.job = j /\ driver'.source = driver.source
      BY <2>1, <2>3 DEF IInv, CompactionTypeOK, DriverRow, Places
    <2>12. NoFailure(driver'.job)
      <3>1. \A i \in DOMAIN request : request[i].job # j
        BY <2>3 DEF IInv, LedgerInv, LinksInv, Linked
      <3> QED BY <2>11, <3>1 DEF NoFailure
    <2>13. compaction'[driver'.job].status \in Live /\ ~compaction'[driver'.job].replaced
           /\ compaction'[driver'.job].source = driver'.source
      BY <2>4, <2>6, <2>11 DEF Live
    <2> QED BY <1>1, <1>2, <2>3, <2>10, <2>11, <2>12, <2>13, AtNode
  <1> QED BY <1>4, <1>5

(* A job whose outcome is not known waits, and keeps what it holds.         *)
LEMMA FinishWaiting ==
    ASSUME IInv, FinishJob, driver.verdict = "waiting_unknown"
    PROVE  IInv'
  <1> DEFINE j == driver.job
             new == [compaction[j] EXCEPT !.status = "waiting_unknown"]
  <1>1. /\ driver.at = "finish" /\ owner' = owner /\ request' = request /\ driver' = AtRest("off")
        /\ compaction' = [k \in Compactions |->
                IF k \in {j} THEN [compaction[k] EXCEPT !.status = "waiting_unknown"] ELSE compaction[k]]
        /\ hold' = hold
    BY DEF FinishJob, Finished
  <1>2. /\ j # 0 /\ owner.status \in Open /\ Handled("unknown") /\ request[Last].job = j
        /\ compaction[j].status \in Live /\ ~compaction[j].replaced
    BY <1>1 DEF IInv, DriverInv, FinishInv
  <1>3. j \in Compactions /\ compaction[j] \in JobRow
    BY <1>2 DEF IInv, CompactionTypeOK, DriverRow
  <1>4. /\ new \in JobRow /\ new.status = "waiting_unknown" /\ new.nodes = compaction[j].nodes
        /\ new.source = compaction[j].source /\ new.revision = compaction[j].revision
        /\ new.replaced = compaction[j].replaced /\ new.admitted = compaction[j].admitted
    BY <1>3 DEF JobRow, JobStatus, Live
  <1>5. compaction'[j] = new /\ \A k \in Compactions : k # j => compaction'[k] = compaction[k]
    BY <1>1, <1>3
  <1>6. compaction' \in [Compactions -> JobRow]
    <2>1. \A k \in Compactions :
              (IF k \in {j} THEN [compaction[k] EXCEPT !.status = "waiting_unknown"] ELSE compaction[k]) \in JobRow
      BY <1>4 DEF IInv, CompactionTypeOK
    <2> QED BY <1>1, <2>1
  <1> HIDE DEF new
  <1>7. "waiting_unknown" \in Live /\ "waiting_unknown" # "none" /\ "waiting_unknown" # "installed"
    BY DEF Live
  <1>8. JobsGoOn
    BY <1>2, <1>4, <1>5, <1>7 DEF JobsGoOn, Known
  <1>9. Twins'
    <2>1. \A k \in Compactions : compaction'[k].status \in Known =>
               /\ compaction[k].status \in Known
               /\ compaction'[k].source = compaction[k].source /\ compaction'[k].revision = compaction[k].revision
      BY <1>2, <1>4, <1>5 DEF Known
    <2> QED BY <2>1, TwinsKept DEF IInv, LedgerInv
  <1>10. Kept /\ AnswersStay /\ Last' = Last /\ OwnerGoesOn /\ owner' \in OwnerRow
    BY <1>1, KeptUnchanged DEF IInv, OwnerGoesOn, CompactionTypeOK, OwnerRow
  <1>11. \A k \in Compactions : /\ Claims(k)' <= Claims(k) /\ Claims(k)' = Claims(k)
                                /\ \A bucket \in {"summary", "continuation"} : Paid(k, bucket)' = Paid(k, bucket)
    <2> TAKE k \in Compactions
    <2>1. Claims(k)' = Claims(k) /\ Claims(k) \in Nat
      BY <1>1, ClaimsUnchanged, ClaimsNumber
    <2>2. \A bucket \in {"summary", "continuation"} : Paid(k, bucket)' = Paid(k, bucket)
      BY <1>1, ClaimsUnchanged
    <2> QED BY <2>1, <2>2
  <1>12. JobsInv'
    <2> SUFFICES ASSUME NEW k \in Compactions PROVE JobInv(k)'
      BY DEF JobsInv
    <2>1. JobInv(k)
      BY DEF IInv, LedgerInv, JobsInv
    <2>2. CASE k # j
      BY <1>1, <1>5, <1>10, <1>11, <2>1, <2>2, JobKept DEF IInv
    <2>3. CASE k = j
      <3>1. \A m \in compaction[k].nodes : Answered(k, m)'
        <4>1. compaction'[k].source = compaction[k].source /\ compaction[k].nodes \subseteq Nodes
          BY <1>3, <1>4, <1>5, <2>3 DEF JobRow
        <4> QED BY <1>10, <2>1, <4>1, AnsweredStays DEF JobInv
      <3>3. Balanced(k)'
        <4>1. Balanced(k)
          BY <1>2, <2>1, <2>3 DEF JobInv, Known
        <4>2. \A bucket \in {"summary", "continuation"} : Paid(k, bucket)' = Paid(k, bucket)
          BY <1>11
        <4> QED BY <1>1, <1>4, <1>5, <2>3, <4>1, <4>2 DEF Balanced, Allowance
      <3>4. Claims(k)' = Claims(k)
        BY <1>11
      <3> QED BY <1>1, <1>2, <1>4, <1>5, <1>7, <2>1, <2>3, <3>1, <3>3, <3>4 DEF JobInv
    <2> QED BY <2>2, <2>3
  <1>13. RowsInv'
    BY <1>1, RowsUnchanged DEF IInv, LedgerInv
  <1>14. LinksInv'
    <2>1. \A i \in 1..Last, k \in Compactions : request'[i].job = k => Linked(i, k)'
      BY <1>1, <1>8, <1>10, LinksKept DEF IInv, LedgerInv
    <2> QED BY <1>10, <2>1 DEF LinksInv, Kept
  <1>15. OneRequestPerNode'
    BY <1>10, NodesKept DEF IInv, LedgerInv
  <1>16. CarriedInv'
    <2>1. IsSummary(Last)
      BY <1>2, <1>3, LastRow DEF Linked, Handled
    <2>2. IsSummary(Last)' /\ request'[Last'].job = j
      BY <1>1, <1>2, <2>1 DEF IsSummary, Last
    <2>3. compaction'[j].status \in Live /\ ~compaction'[j].replaced
      BY <1>2, <1>4, <1>5, <1>7
    <2> QED BY <2>2, <2>3 DEF CarriedInv, Carried
  <1>17. LedgerOK'
    <2>1. LedgerTypeOK'
      BY <1>1, <1>6, <1>10 DEF LedgerTypeOK, IInv, CompactionTypeOK
    <2> QED BY <1>9, <1>12, <1>13, <1>14, <1>15, <1>16, <2>1 DEF LedgerOK, LedgerInv
  <1>18. driver' \in DriverRow /\ driver'.at = "off"
    BY <1>1, DriverIs DEF Places
  <1> QED BY <1>17, <1>18, DriverOff, TypeFrom DEF IInv

(* The handler finishes the driver's job.                                   *)
LEMMA FinishJobStep ==
    ASSUME IInv, FinishJob
    PROVE  IInv'
  <1> DEFINE S == {driver.job} \cap Compactions
  <1>1. /\ driver.at = "finish" /\ owner' = owner /\ request' = request /\ Finished({driver.job}, driver.verdict)
    BY DEF FinishJob
  <1>2. In({"dispatched"}) = {} /\ owner' \in OwnerRow /\ OwnerGoesOn
    BY <1>1 DEF IInv, DriverInv, PlaceInv, CompactionTypeOK, OwnerRow, OwnerGoesOn
  <1>3. Finished(S, driver.verdict)
    <2>1. \A j \in Compactions : j \in {driver.job} <=> j \in S
      OBVIOUS
    <2> HIDE DEF S
    <2> QED BY <1>1, <2>1 DEF Finished
  <1>4. Last' = Last
    BY <1>1 DEF Last
  <1>5. CASE driver.verdict \in {"failed", "superseded"} /\ Quiet /\ owner.status \in Open
    <2>1. driver.verdict \in Dead /\ S \in SUBSET Compactions
      BY <1>5 DEF Dead
    <2>2. Last > 0 => request[Last].status \in Settled
      BY <1>5, Rows DEF Quiet, IInv
    <2> HIDE DEF S
    <2>3. LedgerOK'
      BY <1>1, <1>2, <1>3, <1>4, <2>1, <2>2, LedgerFinished DEF IInv
    <2>4. CASE driver.verdict = "superseded"
      <3>1. driver' = AtRest("plan")
        BY <2>4 DEF FinishJob
      <3>2. driver' \in DriverRow /\ driver'.at = "plan"
        BY <3>1, DriverIs DEF Places
      <3>3. owner'.status \in Open /\ In({"dispatched"})' = {}
        BY <1>1, <1>2, <1>5 DEF In
      <3> QED BY <2>3, <3>2, <3>3, DriverPlans, TypeFrom DEF IInv
    <2>5. CASE driver.verdict = "failed"
      <3>1. driver' = [AtRest("step") EXCEPT !.seen = owner.revision]
        BY <2>5 DEF FinishJob
      <3>2. driver' \in DriverRow /\ driver'.at = "step"
        BY <3>1 DEF AtRest, DriverRow, Places, IInv, CompactionTypeOK, OwnerRow
      <3>3. PlaceInv'
        BY <1>1, <1>2, <1>5, <3>2 DEF PlaceInv, In, Quiet
      <3>4. ReadInv' /\ WorkInv' /\ FinishInv'
        BY <3>2 DEF ReadInv, WorkInv, FinishInv, AtJob, Asking
      <3> QED BY <2>3, <3>2, <3>3, <3>4, TypeFrom DEF IInv, DriverInv
    <2> QED BY <1>5, <2>4, <2>5
  <1>6. CASE driver.verdict = "waiting_unknown"
    BY <1>6, FinishWaiting
  <1>7. CASE driver.verdict = "cancelled" /\ owner.status = "cancelled"
    <2>1. driver.verdict \in Dead /\ S \in SUBSET Compactions
      BY <1>7 DEF Dead
    <2>2. owner'.status \notin Open
      BY <1>1, <1>7 DEF Open
    <2> HIDE DEF S
    <2>3. LedgerOK'
      BY <1>1, <1>2, <1>3, <1>4, <2>1, <2>2, LedgerFinished DEF IInv
    <2>4. driver' = AtRest("off")
      BY <1>7 DEF FinishJob
    <2>5. driver' \in DriverRow /\ driver'.at = "off"
      BY <2>4, DriverIs DEF Places
    <2> QED BY <2>3, <2>5, DriverOff, TypeFrom DEF IInv
  <1> QED BY <1>1, <1>5, <1>6, <1>7 DEF IInv, DriverInv, FinishInv

-----------------------------------------------------------------------------
(* Dispatch, retries and installation: calls change hands *)

(* The two parts of an allowance, and the writes of a dispatch and a retry  *)
(* as predicates of their own.                                              *)
Buckets == {"summary", "continuation"}

(* What a command makes of one job, and of its hold.                        *)
JobBecomes(j, new) == compaction' = [compaction EXCEPT ![j] = new]
HoldBecomes(j, amount) == hold' = [hold EXCEPT ![j] = amount]
Readmitted(i, j, status) == compaction' = [Admitted(i) EXCEPT ![j].status = status]
HoldCounts(j, bucket, n) == hold' = [hold EXCEPT ![j][bucket] = n]

(* Jobs and requests stay together when only the newest request changes.    *)
LEMMA LedgerKept ==
    ASSUME IInv, Last > 0, Kept, AnswersStay, Last' = Last, RowsInv', request' \in Seq(RequestRow),
           owner' \in OwnerRow, OwnerGoesOn,
           compaction' \in [Compactions -> JobRow],
           hold' \in [Compactions -> [summary : Nat, continuation : Nat]],
           JobsGoOn, Twins', JobsInv', CarriedInv', request'[Last].status # "failed",
           \A i \in 1..Last : i # Last => request'[i] = request[i]
    PROVE  LedgerOK'
  <1>1. LinksInv'
    <2>1. \A i \in 1..Last : request'[i].status = "failed" => request[i].status = "failed"
      OBVIOUS
    <2>2. \A i \in 1..Last, j \in Compactions : request'[i].job = j => Linked(i, j)'
      BY <2>1, LinksKept DEF IInv, LedgerInv
    <2> QED BY <2>2 DEF LinksInv, Kept
  <1>2. OneRequestPerNode'
    BY NodesKept DEF IInv, LedgerInv
  <1>3. LedgerTypeOK'
    BY DEF LedgerTypeOK
  <1> QED BY <1>1, <1>2, <1>3 DEF LedgerOK, LedgerInv

(* One job changes and stays in use.                                        *)
LEMMA OneJob ==
    ASSUME IInv, Kept, AnswersStay, owner' \in OwnerRow, OwnerGoesOn,
           NEW j \in Compactions, NEW new \in JobRow, NEW amount \in [summary : Nat, continuation : Nat],
           JobBecomes(j, new), HoldBecomes(j, amount),
           new.source = compaction[j].source, new.revision = compaction[j].revision,
           new.nodes = compaction[j].nodes,
           compaction[j].replaced => new.replaced, new.replaced => new.source < owner'.source,
           compaction[j].status \in Known, new.status \in Known,
           new.status = "installed" => new.replaced, new.status \notin Live => amount = Empty,
           new.status \in Live /\ ~new.replaced => amount.continuation = 1 /\ amount.summary >= Claims(j)',
           Balanced(j)',
           \A k \in Compactions : k # j => /\ Claims(k)' <= Claims(k)
                                           /\ \A bucket \in Buckets : Paid(k, bucket)' = Paid(k, bucket)
    PROVE  /\ compaction' \in [Compactions -> JobRow]
           /\ hold' \in [Compactions -> [summary : Nat, continuation : Nat]]
           /\ compaction'[j] = new /\ hold'[j] = amount /\ JobsGoOn /\ Twins' /\ JobsInv'
  <1>1. /\ compaction' \in [Compactions -> JobRow] /\ compaction'[j] = new
        /\ hold' \in [Compactions -> [summary : Nat, continuation : Nat]] /\ hold'[j] = amount
        /\ \A k \in Compactions : k # j => compaction'[k] = compaction[k] /\ hold'[k] = hold[k]
    BY DEF IInv, CompactionTypeOK, JobBecomes, HoldBecomes
  <1>2. "none" \notin Known
    BY DEF Known, Live
  <1>3. JobsGoOn
    BY <1>1, <1>2 DEF JobsGoOn
  <1>4. Twins'
    <2>1. \A k \in Compactions : compaction'[k].status \in Known =>
               /\ compaction[k].status \in Known
               /\ compaction'[k].source = compaction[k].source /\ compaction'[k].revision = compaction[k].revision
      BY <1>1
    <2> QED BY <2>1, TwinsKept DEF IInv, LedgerInv
  <1>5. JobsInv'
    <2> SUFFICES ASSUME NEW k \in Compactions PROVE JobInv(k)'
      BY DEF JobsInv
    <2>1. JobInv(k)
      BY DEF IInv, LedgerInv, JobsInv
    <2>2. CASE k # j
      BY <1>1, <2>1, <2>2, JobKept DEF IInv, Buckets
    <2>3. CASE k = j
      <3>1. \A m \in compaction[k].nodes : Answered(k, m)'
        <4>1. compaction'[k].source = compaction[k].source /\ compaction[k].nodes \subseteq Nodes
          BY <1>1, <2>3 DEF JobRow, IInv, CompactionTypeOK
        <4> QED BY <2>1, <4>1, AnsweredStays DEF JobInv
      <3>2. /\ owner.source \in Nat /\ owner.revision \in Nat /\ owner'.source \in Nat /\ owner'.revision \in Nat
            /\ owner.source <= owner'.source /\ owner.revision <= owner'.revision
            /\ new.source \in Nat /\ new.revision \in Nat
        BY DEF OwnerGoesOn, OwnerRow, JobRow, IInv, CompactionTypeOK
      <3>3. new.source <= owner'.source /\ new.revision <= owner'.revision
        BY <2>1, <2>3, <3>2 DEF JobInv
      <3> QED BY <1>1, <2>3, <3>1, <3>3 DEF JobInv
    <2> QED BY <2>2, <2>3
  <1> QED BY <1>1, <1>3, <1>4, <1>5

(* admit_retry writes one more call of the bucket.                          *)
LEMMA AdmittedIs ==
    ASSUME CompactionTypeOK, NEW i, NEW j \in Compactions, request[i].job = j, NEW status \in JobStatus,
           Readmitted(i, j, status)
    PROVE  \E new \in JobRow :
               /\ JobBecomes(j, new)
               /\ new.status = status /\ new.source = compaction[j].source
               /\ new.revision = compaction[j].revision
               /\ new.nodes = compaction[j].nodes /\ new.replaced = compaction[j].replaced
               /\ \A bucket \in Buckets : new.admitted[bucket] =
                      IF bucket = Bucket(i) THEN compaction[j].admitted[bucket] + 1 ELSE compaction[j].admitted[bucket]
  <1>1. PICK b \in Buckets : b = Bucket(i)
    BY DEF Bucket, Buckets
  <1> DEFINE row == compaction[j]
  <1>2. row \in JobRow /\ row.admitted \in [summary : Nat, continuation : Nat]
    BY DEF CompactionTypeOK, JobRow
  <1>3. row.admitted[b] \in Nat
    BY <1>1, <1>2 DEF Buckets
  <1>4. PICK n \in Nat : n = row.admitted[b] + 1
    BY <1>3
  <1> DEFINE admitted == [row.admitted EXCEPT ![b] = n]
             new == [row EXCEPT !.admitted = admitted, !.status = status]
  <1>5. admitted \in [summary : Nat, continuation : Nat]
    BY <1>1, <1>2, <1>4 DEF Buckets
  <1>6. \A bucket \in Buckets : admitted[bucket] = IF bucket = b THEN row.admitted[bucket] + 1 ELSE row.admitted[bucket]
    BY <1>1, <1>2, <1>4 DEF Buckets
  <1>7. JobBecomes(j, new)
    <2>1. Admitted(i) = [compaction EXCEPT ![j].admitted[b] = n]
      BY <1>1, <1>4 DEF Admitted, CompactionTypeOK
    <2>2. Admitted(i) = [compaction EXCEPT ![j] = [row EXCEPT !.admitted = admitted]]
      BY <2>1
    <2>3. Admitted(i)[j] = [row EXCEPT !.admitted = admitted] /\ DOMAIN Admitted(i) = Compactions
      BY <2>2 DEF CompactionTypeOK
    <2>4. [Admitted(i) EXCEPT ![j].status = status] = [Admitted(i) EXCEPT ![j] = new]
      BY <2>3
    <2>5. [Admitted(i) EXCEPT ![j] = new] = [compaction EXCEPT ![j] = new]
      <3> HIDE DEF new, admitted
      <3>1. PICK middle : middle = [row EXCEPT !.admitted = admitted]
        OBVIOUS
      <3>2. Admitted(i) = [compaction EXCEPT ![j] = middle]
        BY <2>2, <3>1
      <3> QED BY <3>2 DEF CompactionTypeOK
    <2> QED BY <2>4, <2>5 DEF Readmitted, JobBecomes
  <1> HIDE DEF admitted
  <1>8. /\ new \in JobRow /\ new.status = status /\ new.source = row.source /\ new.revision = row.revision
        /\ new.nodes = row.nodes /\ new.replaced = row.replaced /\ new.admitted = admitted
    BY <1>2, <1>5 DEF JobRow
  <1> HIDE DEF new
  <1> QED BY <1>1, <1>6, <1>7, <1>8

(* A part of a job's hold is counted up or down.                            *)
LEMMA HoldIs ==
    ASSUME CompactionTypeOK, NEW j \in Compactions, NEW b \in Buckets, NEW n \in Nat, HoldCounts(j, b, n)
    PROVE  \E amount \in [summary : Nat, continuation : Nat] :
               /\ HoldBecomes(j, amount)
               /\ \A bucket \in Buckets : amount[bucket] = IF bucket = b THEN n ELSE hold[j][bucket]
  <1> DEFINE amount == [hold[j] EXCEPT ![b] = n]
  <1>1. hold[j] \in [summary : Nat, continuation : Nat]
    BY DEF CompactionTypeOK
  <1>2. amount \in [summary : Nat, continuation : Nat]
    BY <1>1 DEF Buckets
  <1>3. \A bucket \in Buckets : amount[bucket] = IF bucket = b THEN n ELSE hold[j][bucket]
    BY <1>1 DEF Buckets
  <1>4. HoldBecomes(j, amount)
    BY DEF HoldCounts, HoldBecomes
  <1> HIDE DEF amount
  <1> QED BY <1>2, <1>3, <1>4

(* What a driver that starts over from a prepared request needs to know.    *)
LEMMA SendsPrepared ==
    ASSUME IInv, LedgerOK', driver' = AtRest("send"), owner'.status \in Open, Handled("prepared")'
    PROVE  IInv'
  <1>1. In({"dispatched"})' = {}
    BY NoneInFlight DEF Handled
  <1>2. driver' \in DriverRow /\ driver'.at = "send" /\ driver'.job = 0
    BY DriverIs DEF Places
  <1> QED BY <1>1, <1>2, DriverSends, TypeFrom DEF IInv

(* The newest request changes and no job with it.                           *)
LEMMA LedgerNoJob ==
    ASSUME IInv, Last > 0, request[Last].job = 0, Kept, AnswersStay, Last' = Last, RowsInv',
           request' \in Seq(RequestRow),
           request'[Last].job = 0,
           owner' \in OwnerRow, OwnerGoesOn, compaction' = compaction, hold' = hold,
           request'[Last].status # "failed",
           \A i \in 1..Last : i # Last => request'[i] = request[i],
           \A k \in Compactions : /\ Claims(k)' <= Claims(k)
                                  /\ \A bucket \in Buckets : Paid(k, bucket)' = Paid(k, bucket)
    PROVE  LedgerOK'
  <1>1. JobsGoOn /\ Twins'
    BY DEF JobsGoOn, Twins, IInv, LedgerInv
  <1>2. JobsInv'
    <2> SUFFICES ASSUME NEW k \in Compactions PROVE JobInv(k)'
      BY DEF JobsInv
    <2>1. JobInv(k)
      BY DEF IInv, LedgerInv, JobsInv
    <2> QED BY <2>1, JobKept DEF IInv, Buckets
  <1>3. CarriedInv'
    <2>1. Last' \in Nat /\ request'[Last'].job = 0
      BY Rows DEF IInv
    <2> QED BY <2>1, CarriedQuiet
  <1>4. /\ compaction' \in [Compactions -> JobRow]
        /\ hold' \in [Compactions -> [summary : Nat, continuation : Nat]]
    BY DEF IInv, CompactionTypeOK
  <1> QED BY <1>1, <1>2, <1>3, <1>4, LedgerKept

(* The request is on its way and the driver waits for its answer.           *)
LEMMA DriverAwaits ==
    ASSUME IInv, driver.at = "send", driver' = [driver EXCEPT !.at = "answer"], owner' = owner,
           NEW scheduled, scheduled = FALSE, NEW fund, Rewritten("dispatched", scheduled, fund),
           NEW d, d = driver.job, d # 0 =>
               /\ compaction'[d].status \in Live /\ compaction'[d].nodes = compaction[d].nodes
               /\ compaction'[d].replaced = compaction[d].replaced /\ compaction'[d].source = compaction[d].source
    PROVE  DriverInv' /\ driver' \in DriverRow
  <1>1. /\ driver' \in DriverRow /\ driver'.at = "answer" /\ driver'.job = d /\ driver'.source = driver.source
    BY DEF IInv, CompactionTypeOK, DriverRow, Places
  <1>2. owner'.status \in Open /\ Handled("dispatched")'
    BY DEF IInv, DriverInv, PlaceInv, Handled, Rewritten
  <1>3. PlaceInv'
    BY <1>1, <1>2 DEF PlaceInv, AtJob
  <1>4. ReadInv' /\ FinishInv'
    BY <1>1 DEF ReadInv, FinishInv
  <1>5. CASE d = 0
    <2>1. WorkInv'
      BY <1>1, <1>5 DEF WorkInv, Asking, AtJob
    <2> QED BY <1>1, <1>3, <1>4, <2>1 DEF DriverInv
  <1>6. CASE d # 0
    <2>1. Asking /\ OwnJob
      BY <1>6 DEF Asking, IInv, DriverInv, WorkInv
    <2>2. /\ Missing # {} /\ request[Last].purpose = Min(Missing) /\ request[Last].job = driver.job
          /\ request[Last].source = driver.source
      BY <2>1 DEF IInv, DriverInv, WorkInv
    <2>3. Missing' = Missing
      BY <1>1, <1>6 DEF Missing
    <2>4. /\ request'[Last'].purpose = request[Last].purpose /\ request'[Last'].job = request[Last].job
          /\ request'[Last'].source = request[Last].source /\ ~request'[Last'].scheduled
          /\ request'[Last'].status = "dispatched"
      BY DEF Rewritten
    <2>5. NoFailure(driver.job)'
      <3>1. Kept
        BY KeptRewritten DEF IInv
      <3>2. \A i \in 1..Last : request[i].job = d /\ request[i].purpose \in Nodes => request[i].status # "failed"
        BY <2>1, <3>1 DEF OwnJob, NoFailure, Kept, IsSummary
      <3>3. \A i \in 1..Last : request'[i].job = d /\ request'[i].purpose \in Nodes
                => request'[i].status # "failed"
        BY <3>1, <3>2 DEF Kept, Rewritten
      <3>4. DOMAIN request' = 1..Last
        BY <3>1 DEF Kept, Rewritten
      <3> QED BY <1>1, <3>3, <3>4 DEF NoFailure, IsSummary
    <2>6. OwnJob'
      BY <1>1, <1>6, <2>1, <2>5 DEF OwnJob
    <2>7. Min(Missing)' = Min(Missing)
      BY <2>3
    <2>8. WorkInv'
      BY <1>1, <2>2, <2>3, <2>4, <2>6, <2>7 DEF WorkInv, AtJob
    <2> QED BY <1>1, <1>3, <1>4, <2>8 DEF DriverInv
  <1> QED BY <1>1, <1>3, <1>4, <1>5, <1>6 DEF DriverInv

(* A dispatch turns one held call into the attempt's reservation.           *)
LEMMA TransferStep ==
    ASSUME IInv, driver.at = "send", owner' = owner, NEW scheduled, scheduled = FALSE, NEW fund,
           fund = "dispatched",
           Rewritten("dispatched", scheduled, fund), CanTransfer(Last), Active(Last) = "none",
           request[Last].job # 0,
           hold' = [hold EXCEPT ![request[Last].job][Bucket(Last)] = @ - 1],
           compaction' = [compaction EXCEPT ![request[Last].job].status = Spending(Last)],
           driver' = [driver EXCEPT !.at = "answer"]
    PROVE  IInv'
  <1>1. /\ owner.status \in Open /\ Handled("prepared") /\ Last > 0 /\ request[Last].status = "prepared"
    BY DEF IInv, DriverInv, PlaceInv, Handled
  <1>2. PICK j \in Compactions : j = request[Last].job
    BY <1>1, LastRow DEF RequestRow
  <1>3. PICK b \in Buckets : b = Bucket(Last)
    BY DEF Bucket, Buckets
  <1>4. compaction[j].status \in Live /\ hold[j][b] > 0 /\ Carried(j) /\ JobInv(j) /\ Linked(Last, j)
    <2>1. request[Last].status \notin Settled
      BY <1>1 DEF Settled
    <2> QED BY <1>1, <1>2, <1>3, <2>1, LastRow DEF CanTransfer, IInv, LedgerInv, CarriedInv, JobsInv
  <1>5. /\ compaction[j] \in JobRow /\ hold[j] \in [summary : Nat, continuation : Nat] /\ hold[j][b] \in Nat
        /\ Unpaid(Last)
    BY <1>1 DEF IInv, CompactionTypeOK, Unpaid, Buckets
  <1>6. PICK n \in Nat : n = hold[j][b] - 1
    BY <1>4, <1>5
  <1>7. PICK status \in {"running", "installed"} : status = Spending(Last)
    BY DEF Spending
  <1> DEFINE new == [compaction[j] EXCEPT !.status = status]
  <1>8. /\ new \in JobRow /\ new.status = status /\ new.source = compaction[j].source
        /\ new.revision = compaction[j].revision /\ new.nodes = compaction[j].nodes
        /\ new.replaced = compaction[j].replaced /\ new.admitted = compaction[j].admitted
    BY <1>5 DEF JobRow, JobStatus, Live
  <1>9. JobBecomes(j, new)
    BY <1>2, <1>7 DEF JobBecomes
  <1> HIDE DEF new
  <1>10. PICK amount \in [summary : Nat, continuation : Nat] :
             /\ HoldBecomes(j, amount)
             /\ \A bucket \in Buckets : amount[bucket] = IF bucket = b THEN n ELSE hold[j][bucket]
    <2>1. HoldCounts(j, b, n)
      BY <1>2, <1>3, <1>6 DEF HoldCounts
    <2> QED BY <2>1, HoldIs DEF IInv
  <1>11. Kept /\ AnswersStay /\ Last' = Last /\ RowsInv' /\ owner' \in OwnerRow /\ OwnerGoesOn
             /\ request' \in Seq(RequestRow)
    <2>1. Kept /\ AnswersStay /\ Last' = Last
      BY <1>1, KeptRewritten DEF IInv
    <2>2. RowsInv'
      BY RowsRewritten DEF IInv, LedgerInv
    <2>3. owner' \in OwnerRow /\ OwnerGoesOn
      BY DEF IInv, CompactionTypeOK, OwnerRow, OwnerGoesOn
    <2> QED BY <2>1, <2>2, <2>3 DEF Rewritten
  <1>12. \A k \in Compactions : k # j => /\ Claims(k)' <= Claims(k)
                                         /\ \A bucket \in Buckets : Paid(k, bucket)' = Paid(k, bucket)
    BY <1>2, ClaimsRewritten, PaidRewritten DEF IInv
  <1>13. /\ Claims(j)' = Cardinality(Unasked(j)) /\ Cardinality(Unasked(j)) \in Nat
         /\ \A bucket \in Buckets : Paid(j, bucket)' = IF bucket = b THEN Paid(j, bucket) + 1 ELSE Paid(j, bucket)
         /\ \A bucket \in Buckets : Paid(j, bucket) \in Nat
    <2>1. \A bucket \in Buckets : Paid(j, bucket)' = IF bucket = b THEN Paid(j, bucket) + 1 ELSE Paid(j, bucket)
      BY <1>2, <1>3, PaidRewritten DEF IInv
    <2>2. \A bucket \in Buckets : Paid(j, bucket) \in Nat
      BY PaidIsNumber DEF IInv
    <2> QED BY <2>1, <2>2, ClaimsRewritten, ClaimsNumber DEF IInv
  <1>14. \A bucket \in Buckets : /\ Allowance(bucket) \in Nat /\ compaction[j].admitted[bucket] \in Nat
             /\ hold[j][bucket] \in Nat
    <2>1. Cardinality(Nodes) \in Nat
      BY CompactionConstants, FS_CardinalityType
    <2> QED BY <1>5, <2>1 DEF Allowance, JobRow, Buckets
  <1>15. Balanced(j)'
    <2>1. Balanced(j)
      BY <1>4 DEF JobInv, Known
    <2>2. hold'[j] = amount /\ compaction'[j] = new
      BY <1>9, <1>10 DEF IInv, CompactionTypeOK, JobBecomes, HoldBecomes
    <2>3. compaction[j].replaced => b # "summary"
      BY <1>3, <1>4 DEF Carried, Bucket
    <2> SUFFICES ASSUME NEW bucket \in Buckets
                 PROVE  IF bucket = "summary" /\ compaction'[j].replaced THEN hold'[j][bucket] = 0
                        ELSE hold'[j][bucket] + Paid(j, bucket)' = Allowance(bucket) + compaction'[j].admitted[bucket]
      BY DEF Balanced, Buckets, Allowance
    <2>4. CASE bucket = "summary" /\ compaction[j].replaced
      BY <1>8, <1>10, <2>1, <2>2, <2>3, <2>4 DEF Balanced
    <2>5. CASE ~(bucket = "summary" /\ compaction[j].replaced)
      <3>1. hold[j][bucket] + Paid(j, bucket) = Allowance(bucket) + compaction[j].admitted[bucket]
        BY <2>1, <2>5 DEF Balanced, Buckets
      <3>2. hold'[j][bucket] + Paid(j, bucket)' = hold[j][bucket] + Paid(j, bucket)
        <4>1. hold[j][bucket] \in Nat /\ Paid(j, bucket) \in Nat /\ hold'[j][bucket] = amount[bucket]
          BY <1>13, <1>14, <2>2
        <4>2. CASE bucket = b
          <5>1. amount[bucket] = hold[j][bucket] - 1 /\ Paid(j, bucket)' = Paid(j, bucket) + 1
            BY <1>6, <1>10, <1>13, <4>2
          <5> QED BY <4>1, <5>1
        <4>3. CASE bucket # b
          BY <1>10, <1>13, <4>1, <4>3
        <4> QED BY <4>2, <4>3
      <3> QED BY <1>8, <2>2, <2>5, <3>1, <3>2
    <2> QED BY <2>4, <2>5
  <1>16. CASE IsSummary(Last)
    <2>1. /\ ~compaction[j].replaced /\ b = "summary" /\ status = "running"
      BY <1>3, <1>4, <1>7, <1>16 DEF Carried, Bucket, Spending
    <2>2. hold[j].continuation = 1 /\ hold[j].summary >= Claims(j)
      BY <1>4, <2>1 DEF JobInv
    <2>3. Claims(j) = Cardinality(Unasked(j)) + 1
      BY <1>1, <1>2, <1>5, <1>16 DEF Claims, Promised
    <2>4. amount.continuation = 1 /\ amount.summary >= Claims(j)'
      <3>1. amount["summary"] = n /\ amount["continuation"] = hold[j]["continuation"]
        BY <1>10, <2>1 DEF Buckets
      <3> QED BY <1>5, <1>6, <1>13, <2>1, <2>2, <2>3, <3>1
    <2>5. /\ compaction[j].status \in Known /\ new.status \in Known /\ new.status # "installed"
          /\ new.status \in Live /\ ~new.replaced
      BY <1>4, <1>8, <2>1 DEF Known, Live
    <2>6. /\ compaction' \in [Compactions -> JobRow]
          /\ hold' \in [Compactions -> [summary : Nat, continuation : Nat]]
          /\ compaction'[j] = new /\ hold'[j] = amount /\ JobsGoOn /\ Twins' /\ JobsInv'
      BY <1>8, <1>9, <1>10, <1>11, <1>12, <1>15, <2>1, <2>4, <2>5, OneJob
    <2>7. CarriedInv'
      <3>1. IsSummary(Last)' /\ request'[Last'].job = j
        BY <1>2, <1>11, <1>16 DEF Rewritten, IsSummary
      <3> QED BY <1>11, <2>5, <2>6, <3>1 DEF CarriedInv, Carried, IsSummary
    <2>8. LedgerOK'
      BY <1>1, <1>11, <2>6, <2>7, LedgerKept DEF Rewritten
    <2>9. PICK d : d = driver.job
      OBVIOUS
    <2>10. d # 0 => d = j
      BY <1>2, <2>9 DEF IInv, DriverInv, WorkInv, Asking
    <2>11. DriverInv' /\ driver' \in DriverRow
      BY <1>8, <2>5, <2>6, <2>9, <2>10, DriverAwaits
    <2> QED BY <2>8, <2>11, TypeFrom DEF IInv
  <1>17. CASE ~IsSummary(Last)
    <2>1. /\ compaction[j].replaced /\ b = "continuation" /\ status = "installed"
          /\ hold[j] = [summary |-> 0, continuation |-> 1]
      BY <1>2, <1>3, <1>4, <1>5, <1>7, <1>17 DEF Carried, Bucket, Spending, Linked
    <2>2. amount = Empty
      <3>1. amount["summary"] = 0 /\ amount["continuation"] = 0
        BY <1>6, <1>10, <2>1 DEF Buckets
      <3> QED BY <3>1 DEF Empty
    <2>3. new.source < owner'.source
      BY <1>4, <1>8, <2>1 DEF JobInv
    <2>4. /\ compaction[j].status \in Known /\ new.status \in Known /\ new.status = "installed"
          /\ new.status \notin Live /\ new.replaced
      BY <1>4, <1>8, <2>1 DEF Known, Live
    <2>5. /\ compaction' \in [Compactions -> JobRow]
          /\ hold' \in [Compactions -> [summary : Nat, continuation : Nat]]
          /\ compaction'[j] = new /\ hold'[j] = amount /\ JobsGoOn /\ Twins' /\ JobsInv'
      BY <1>8, <1>9, <1>10, <1>11, <1>12, <1>15, <2>2, <2>3, <2>4, OneJob
    <2>6. CarriedInv'
      <3>1. ~IsSummary(Last)' /\ request'[Last'].job = j /\ request'[Last'].status # "prepared"
        BY <1>2, <1>11, <1>17 DEF Rewritten, IsSummary
      <3>2. ~Unpaid(Last)'
        BY <1>11, <3>1 DEF Unpaid
      <3> QED BY <1>11, <2>4, <2>5, <3>1, <3>2 DEF CarriedInv, Carried, IsSummary, Unpaid
    <2>7. LedgerOK'
      BY <1>1, <1>11, <2>5, <2>6, LedgerKept DEF Rewritten
    <2>8. PICK d : d = driver.job
      OBVIOUS
    <2>9. d = 0
      <3>1. Asking => request[Last].purpose = Min(Missing) /\ Missing # {}
        BY DEF IInv, DriverInv, WorkInv
      <3>2. Asking => IsSummary(Last)
        BY <3>1, MissingIs DEF IsSummary
      <3> QED BY <1>17, <2>8, <3>2 DEF Asking
    <2>10. DriverInv' /\ driver' \in DriverRow
      BY <2>8, <2>9, DriverAwaits
    <2> QED BY <2>7, <2>10, TypeFrom DEF IInv
  <1> QED BY <1>16, <1>17

(* An attempt is sent: reserved already, or with a call of its job.         *)
LEMMA DispatchStep ==
    ASSUME IInv, Dispatch
    PROVE  IInv'
  <1>1. /\ driver.at = "send" /\ owner' = owner /\ owner.status \in Open /\ Handled("prepared") /\ Last > 0
        /\ request[Last].status = "prepared" /\ In({"dispatched"}) = {}
    BY DEF Dispatch, IInv, DriverInv, PlaceInv, Handled
  <1>2. CASE owner.cancel
    <2>1. UNCHANGED <<owner, compaction, hold, request>> /\ driver' = AtRest("plan")
      BY <1>2 DEF Dispatch, Leave
    <2>2. LedgerOK' /\ owner'.status \in Open /\ In({"dispatched"})' = {}
      BY <1>1, <2>1, OnlyDriver DEF In
    <2>3. driver' \in DriverRow /\ driver'.at = "plan"
      BY <2>1, DriverIs DEF Places
    <2> QED BY <2>2, <2>3, DriverPlans, TypeFrom DEF IInv
  <1>3. CASE ~owner.cancel
    <2>0. PICK scheduled : scheduled = FALSE
      OBVIOUS
    <2>1. PICK fund \in Funds : fund = "dispatched"
      BY DEF Funds
    <2>2. /\ request' = Requests(Last, "dispatched", fund) /\ driver' = [driver EXCEPT !.at = "answer"]
      BY <1>3, <2>1 DEF Dispatch, Go
    <2>3. Rewritten("dispatched", FALSE, fund)
      BY <1>1, <2>2, RequestsRewrite DEF IInv, RequestStatus
    <2>4. Rewritten("dispatched", scheduled, fund)
      BY <2>0, <2>3
    <2>5. owner' \in OwnerRow /\ OwnerGoesOn
      BY <1>1 DEF IInv, CompactionTypeOK, OwnerRow, OwnerGoesOn
    <2>6. Active(Last) \in {"none", "reserved"} /\ request[Last].status \notin Settled
      BY <1>1, LastRow DEF Settled, IInv, LedgerInv, RowsInv
    <2>7. PICK d : d = driver.job
      OBVIOUS
    <2>8. d # 0 => compaction[d].status \in Live
      BY <1>1, <2>7 DEF IInv, DriverInv, WorkInv, Asking, OwnJob
    <2>9. CASE request[Last].job = 0 \/ Active(Last) = "reserved"
      <3>1. compaction' = compaction /\ hold' = hold
        BY <1>3, <2>9 DEF Dispatch
      <3>2. LedgerOK'
        <4>1. CASE Active(Last) = "reserved"
          <5>1. Active(Last) = "none" <=> fund = "none"
            BY <2>1, <4>1
          <5> QED BY <2>0, <2>4, <2>5, <2>6, <3>1, <4>1, <5>1, <1>1, LedgerRewritten DEF IInv
        <4>2. CASE request[Last].job = 0
          <5>1. Kept /\ AnswersStay /\ Last' = Last
            BY <1>1, <2>4, KeptRewritten DEF IInv
          <5>2. RowsInv'
            BY <2>0, <2>1, <2>4, RowsRewritten DEF IInv, LedgerInv
          <5>3. 0 \notin Compactions
            BY CompactionConstants
          <5>4. \A k \in Compactions : /\ Claims(k)' <= Claims(k)
                                       /\ \A bucket \in Buckets : Paid(k, bucket)' = Paid(k, bucket)
            <6> TAKE k \in Compactions
            <6>1. Claims(k)' <= Claims(k)
              BY <2>4, ClaimsRewritten DEF IInv
            <6>2. \A bucket \in Buckets : Paid(k, bucket)' = Paid(k, bucket)
              BY <2>1, <2>4, <4>2, <5>3, PaidRewritten DEF IInv
            <6> QED BY <6>1, <6>2
          <5>5. /\ request' \in Seq(RequestRow) /\ request'[Last].job = 0 /\ request'[Last].status # "failed"
                /\ \A i \in 1..Last : i # Last => request'[i] = request[i]
            BY <2>4, <4>2 DEF Rewritten
          <5> QED BY <1>1, <2>5, <3>1, <4>2, <5>1, <5>2, <5>4, <5>5, LedgerNoJob
        <4> QED BY <2>9, <4>1, <4>2
      <3>3. DriverInv' /\ driver' \in DriverRow
        BY <1>1, <2>0, <2>2, <2>4, <2>7, <2>8, <3>1, DriverAwaits
      <3> QED BY <3>2, <3>3, TypeFrom DEF IInv
    <2>10. CASE request[Last].job # 0 /\ Active(Last) = "none"
      <3>1. /\ CanTransfer(Last) /\ hold' = [hold EXCEPT ![request[Last].job][Bucket(Last)] = @ - 1]
            /\ compaction' = [compaction EXCEPT ![request[Last].job].status = Spending(Last)]
        BY <1>3, <2>10 DEF Dispatch
      <3> QED BY <1>1, <2>0, <2>1, <2>2, <2>4, <2>10, <3>1, TransferStep
    <2> QED BY <2>6, <2>9, <2>10
  <1> QED BY <1>2, <1>3

(* The next attempt of a request no job pays for.                           *)
LEMMA RepeatedAlone ==
    ASSUME IInv, Last > 0, request[Last].job = 0, request[Last].status # "completed",
           NEW fund \in {"none", "reserved"}, Repeated(fund),
           owner' \in OwnerRow, OwnerGoesOn, compaction' = compaction, hold' = hold
    PROVE  LedgerOK' /\ Handled("prepared")'
  <1>1. Kept /\ AnswersStay /\ Last' = Last
    BY KeptRepeated DEF IInv
  <1>2. RowsInv'
    BY RowsRepeated DEF IInv, LedgerInv
  <1>3. 0 \notin Compactions
    BY CompactionConstants
  <1>4. \A k \in Compactions : /\ Claims(k)' <= Claims(k)
                               /\ \A bucket \in Buckets : Paid(k, bucket)' = Paid(k, bucket)
    <2> TAKE k \in Compactions
    <2>1. Claims(k)' = Cardinality(Unasked(k))
      <3>1. Claims(k)' = Cardinality(Unasked(k)) + 0
        BY <1>3, ClaimsRepeated DEF IInv
      <3> QED BY <3>1, ClaimsNumber
    <2>2. Cardinality(Unasked(k)) \in Nat /\ Claims(k) = Cardinality(Unasked(k)) + Promised(k)
              /\ Promised(k) \in {0, 1}
      BY ClaimsNumber DEF Claims, Promised
    <2>3. Claims(k)' <= Claims(k)
      BY <2>1, <2>2
    <2>4. \A bucket \in Buckets : Paid(k, bucket)' = Paid(k, bucket)
      BY <1>3, PaidRepeated DEF IInv
    <2> QED BY <2>3, <2>4
  <1>5. /\ request' \in Seq(RequestRow) /\ request'[Last].job = 0 /\ request'[Last].status = "prepared"
        /\ \A i \in 1..Last : i # Last => request'[i] = request[i]
    BY DEF Repeated
  <1>6. LedgerOK'
    BY <1>1, <1>2, <1>4, <1>5, LedgerNoJob
  <1> QED BY <1>1, <1>5, <1>6 DEF Handled

(* The next attempt of a request a job pays for, with the call admitted for *)
(* it: held by the job, or the attempt's own at once.                       *)
LEMMA RepeatedForJob ==
    ASSUME IInv, Last > 0, request[Last].status \in {"retry_wait", "unknown"}, owner.status \in Open,
           NEW fund \in {"none", "reserved"}, Repeated(fund), owner' \in OwnerRow, OwnerGoesOn,
           NEW j \in Compactions, j = request[Last].job, NEW b \in Buckets, b = Bucket(Last),
           NEW status \in {"running", "installed"},
           status = IF fund = "none" \/ IsSummary(Last) THEN "running" ELSE "installed",
           Readmitted(Last, j, status),
           NEW amount \in [summary : Nat, continuation : Nat], HoldBecomes(j, amount),
           \A bucket \in Buckets : amount[bucket] =
               IF bucket = b /\ fund = "none" THEN hold[j][bucket] + 1 ELSE hold[j][bucket]
    PROVE  LedgerOK' /\ Handled("prepared")'
  <1>1. Kept /\ AnswersStay /\ Last' = Last /\ RowsInv' /\ request' \in Seq(RequestRow)
    BY KeptRepeated, RowsRepeated DEF IInv, LedgerInv, Repeated
  <1>2. /\ request'[Last].job = j /\ request'[Last].status = "prepared"
        /\ request'[Last].purpose = request[Last].purpose
        /\ \A i \in 1..Last : i # Last => request'[i] = request[i]
    BY DEF Repeated
  <1>3. Carried(j) /\ JobInv(j) /\ Linked(Last, j) /\ ~Unpaid(Last)
    <2>1. request[Last].status \notin Settled /\ j # 0
      BY CompactionConstants DEF Settled
    <2>2. JobInv(j) /\ Linked(Last, j)
      BY LastRow DEF IInv, LedgerInv, JobsInv
    <2> QED BY <2>1, <2>2 DEF IInv, LedgerInv, CarriedInv, Unpaid
  <1>4. PICK new \in JobRow :
               /\ JobBecomes(j, new)
               /\ new.status = status /\ new.source = compaction[j].source
               /\ new.revision = compaction[j].revision
               /\ new.nodes = compaction[j].nodes /\ new.replaced = compaction[j].replaced
               /\ \A bucket \in Buckets : new.admitted[bucket] =
                      IF bucket = b THEN compaction[j].admitted[bucket] + 1 ELSE compaction[j].admitted[bucket]
    <2>1. status \in JobStatus
      BY DEF JobStatus, Live
    <2>2. \A i : i = Last => request[i].job = j
      OBVIOUS
    <2> QED BY <2>1, <2>2, AdmittedIs DEF IInv
  <1>5. \A k \in Compactions : k # j => /\ Claims(k)' <= Claims(k)
                                        /\ \A bucket \in Buckets : Paid(k, bucket)' = Paid(k, bucket)
    <2> TAKE k \in Compactions
    <2> HAVE k # j
    <2>1. Claims(k)' = Cardinality(Unasked(k))
      <3>1. Claims(k)' = Cardinality(Unasked(k)) + 0
        BY ClaimsRepeated DEF IInv
      <3> QED BY <3>1, ClaimsNumber
    <2>2. Cardinality(Unasked(k)) \in Nat /\ Claims(k) = Cardinality(Unasked(k)) + Promised(k)
              /\ Promised(k) \in {0, 1}
      BY ClaimsNumber DEF Claims, Promised
    <2>3. Claims(k)' <= Claims(k)
      BY <2>1, <2>2
    <2>4. \A bucket \in Buckets : Paid(k, bucket)' = Paid(k, bucket)
      BY PaidRepeated DEF IInv
    <2> QED BY <2>3, <2>4
  <1>6. /\ Cardinality(Unasked(j)) \in Nat /\ Claims(j) = Cardinality(Unasked(j))
        /\ Claims(j)' = Cardinality(Unasked(j)) + (IF fund = "none" /\ IsSummary(Last) THEN 1 ELSE 0)
    <2>1. Promised(j) = 0 /\ Cardinality(Unasked(j)) \in Nat
      BY <1>3, ClaimsNumber DEF Promised
    <2>2. Claims(j)' = Cardinality(Unasked(j))
              + (IF fund = "none" /\ IsSummary(Last) /\ request[Last].job = j THEN 1 ELSE 0)
      BY ClaimsRepeated DEF IInv
    <2> QED BY <2>1, <2>2 DEF Claims
  <1>7. /\ compaction[j] \in JobRow
        /\ \A bucket \in Buckets : /\ Allowance(bucket) \in Nat /\ compaction[j].admitted[bucket] \in Nat
                                   /\ hold[j][bucket] \in Nat /\ Paid(j, bucket) \in Nat
    <2>1. Cardinality(Nodes) \in Nat
      BY CompactionConstants, FS_CardinalityType
    <2>2. compaction[j] \in JobRow /\ hold[j] \in [summary : Nat, continuation : Nat]
      BY DEF IInv, CompactionTypeOK
    <2>3. \A bucket \in Buckets : Paid(j, bucket) \in Nat
      BY PaidIsNumber DEF IInv
    <2> QED BY <2>1, <2>2, <2>3 DEF Allowance, JobRow, Buckets
  <1>8. hold'[j] = amount /\ compaction'[j] = new
    BY <1>4 DEF IInv, CompactionTypeOK, JobBecomes, HoldBecomes
  <1>9. compaction[j].status \in Known
    BY <1>3 DEF Carried, Known, Live
  <1>10. Balanced(j)'
    <2>1. Balanced(j)
      BY <1>3, <1>9 DEF JobInv
    <2>2. compaction[j].replaced => b # "summary"
      BY <1>3 DEF Carried, Bucket
    <2> SUFFICES ASSUME NEW bucket \in Buckets
                 PROVE  IF bucket = "summary" /\ compaction'[j].replaced THEN hold'[j][bucket] = 0
                        ELSE hold'[j][bucket] + Paid(j, bucket)' = Allowance(bucket) + compaction'[j].admitted[bucket]
      BY DEF Balanced, Buckets, Allowance
    <2>3. CASE bucket = "summary" /\ compaction[j].replaced
      BY <1>4, <1>8, <2>1, <2>2, <2>3 DEF Balanced
    <2>4. CASE ~(bucket = "summary" /\ compaction[j].replaced)
      <3>1. hold[j][bucket] + Paid(j, bucket) = Allowance(bucket) + compaction[j].admitted[bucket]
        BY <2>1, <2>4 DEF Balanced, Buckets
      <3>2. Paid(j, bucket)' = IF fund # "none" /\ b = bucket THEN Paid(j, bucket) + 1 ELSE Paid(j, bucket)
        BY PaidRepeated DEF IInv
      <3>3. amount[bucket] + Paid(j, bucket)' = Allowance(bucket) + new.admitted[bucket]
        <4>1. CASE bucket = b /\ fund = "none"
          <5>1. amount[bucket] = hold[j][bucket] + 1 /\ new.admitted[bucket] = compaction[j].admitted[bucket] + 1
            BY <1>4, <4>1
          <5> QED BY <1>7, <3>1, <3>2, <4>1, <5>1
        <4>2. CASE bucket = b /\ fund # "none"
          <5>1. amount[bucket] = hold[j][bucket] /\ new.admitted[bucket] = compaction[j].admitted[bucket] + 1
            BY <1>4, <4>2
          <5> QED BY <1>7, <3>1, <3>2, <4>2, <5>1
        <4>3. CASE bucket # b
          <5>1. amount[bucket] = hold[j][bucket] /\ new.admitted[bucket] = compaction[j].admitted[bucket]
            BY <1>4, <4>3
          <5> QED BY <1>7, <3>1, <3>2, <4>3, <5>1
        <4> QED BY <4>1, <4>2, <4>3
      <3> QED BY <1>4, <1>8, <2>4, <3>3
    <2> QED BY <2>3, <2>4
  <1>11. /\ new.status \in Known
         /\ new.replaced => new.source < owner'.source
    <2>1. compaction[j].replaced => compaction[j].source < owner.source
      BY <1>3 DEF JobInv
    <2>2. owner.source \in Nat /\ owner'.source \in Nat /\ compaction[j].source \in Nat
              /\ owner.source <= owner'.source
      BY <1>7 DEF IInv, CompactionTypeOK, OwnerRow, JobRow, OwnerGoesOn
    <2> QED BY <1>4, <2>1, <2>2 DEF Known, Live
  <1>12. CASE IsSummary(Last)
    <2>1. ~compaction[j].replaced /\ compaction[j].status \in Live /\ b = "summary" /\ status = "running"
      BY <1>3, <1>12 DEF Carried, Bucket
    <2>2. hold[j].continuation = 1 /\ hold[j].summary >= Claims(j)
      BY <1>3, <2>1 DEF JobInv
    <2>3. amount.continuation = 1 /\ amount.summary >= Claims(j)'
      <3>1. /\ amount["continuation"] = hold[j]["continuation"]
            /\ amount["summary"] = IF fund = "none" THEN hold[j]["summary"] + 1 ELSE hold[j]["summary"]
        BY <2>1 DEF Buckets
      <3>2. hold[j].summary \in Nat
        BY <1>7 DEF Buckets
      <3> QED BY <1>6, <1>12, <2>2, <3>1, <3>2
    <2>4. new.status # "installed" /\ new.status \in Live /\ ~new.replaced
      BY <1>4, <2>1 DEF Live
    <2>5. /\ compaction' \in [Compactions -> JobRow]
          /\ hold' \in [Compactions -> [summary : Nat, continuation : Nat]]
          /\ JobsGoOn /\ Twins' /\ JobsInv'
      BY <1>1, <1>4, <1>5, <1>9, <1>10, <1>11, <2>3, <2>4, OneJob
    <2>6. CarriedInv'
      <3>1. IsSummary(Last)' /\ request'[Last'].job = j
        BY <1>1, <1>2, <1>12 DEF IsSummary
      <3> QED BY <1>1, <1>8, <2>4, <3>1 DEF CarriedInv, Carried, IsSummary
    <2>7. LedgerOK'
      BY <1>1, <1>2, <2>5, <2>6, LedgerKept
    <2> QED BY <1>1, <1>2, <2>7 DEF Handled
  <1>13. CASE ~IsSummary(Last)
    <2>1. /\ compaction[j].replaced /\ compaction[j].status = "installed" /\ b = "continuation" /\ hold[j] = Empty
      BY <1>3, <1>13 DEF Carried, Bucket, Linked, JobInv, Live
    <2>2. /\ amount["summary"] = 0 /\ amount["continuation"] = IF fund = "none" THEN 1 ELSE 0
      BY <2>1 DEF Buckets, Empty
    <2>3. new.status \notin Live => amount = Empty
      <3>1. new.status \notin Live => fund # "none"
        BY <1>4 DEF Live
      <3>2. fund # "none" => amount = Empty
        BY <2>2 DEF Empty
      <3> QED BY <3>1, <3>2
    <2>4. new.replaced
      BY <1>4, <2>1
    <2>5. /\ compaction' \in [Compactions -> JobRow]
          /\ hold' \in [Compactions -> [summary : Nat, continuation : Nat]]
          /\ JobsGoOn /\ Twins' /\ JobsInv'
      BY <1>1, <1>4, <1>5, <1>9, <1>10, <1>11, <2>3, <2>4, OneJob
    <2>6. CarriedInv'
      <3>1. ~IsSummary(Last)' /\ request'[Last'].job = j
        BY <1>1, <1>2, <1>13 DEF IsSummary
      <3>2. request'[Last'].funds[Len(request'[Last'].funds)] = fund /\ request'[Last'].status = "prepared"
        BY <1>1, <1>2 DEF Repeated
      <3>3. fund = "none" => compaction'[j].status = "running" /\ hold'[j] = [summary |-> 0, continuation |-> 1]
        BY <1>4, <1>8, <2>2
      <3>4. fund # "none" => compaction'[j].status = "installed"
        BY <1>4, <1>8, <1>13
      <3> QED BY <3>1, <3>2, <3>3, <3>4 DEF CarriedInv, Carried, IsSummary, Unpaid, Active
    <2>7. LedgerOK'
      BY <1>1, <1>2, <2>5, <2>6, LedgerKept
    <2> QED BY <1>1, <1>2, <2>7 DEF Handled
  <1> QED BY <1>12, <1>13

(* A scheduled retry is admitted and reserved in one commit: one call more  *)
(* on both sides of the balance, the hold is not touched.                   *)
LEMMA PrepareScheduledRetryStep ==
    ASSUME IInv, PrepareScheduledRetry
    PROVE  IInv'
  <1>1. driver.at = "wait" /\ owner' = owner /\ hold' = hold /\ driver' = AtRest("send")
    BY DEF PrepareScheduledRetry, Leave
  <1>2. owner.status \in Open /\ Last > 0 /\ request[Last].status = "retry_wait" /\ Handled("retry_wait")
    BY <1>1 DEF IInv, DriverInv, PlaceInv, Handled
  <1>3. Max(In({"retry_wait"})) = Last
    BY <1>2, MaxIsLast
  <1>4. PICK fund \in {"none", "reserved"} : fund = "reserved"
    OBVIOUS
  <1>5. Repeated(fund)
    <2>1. request' = NextAttempt(Last, fund) /\ fund \in Funds
      BY <1>3, <1>4 DEF PrepareScheduledRetry, Funds
    <2> QED BY <1>2, <2>1, NextAttemptIs DEF IInv
  <1>6. owner' \in OwnerRow /\ OwnerGoesOn
    BY <1>1 DEF IInv, CompactionTypeOK, OwnerRow, OwnerGoesOn
  <1>7. LedgerOK' /\ Handled("prepared")'
    <2>1. CASE request[Last].job = 0
      <3>1. compaction' = compaction
        BY <1>3, <2>1 DEF PrepareScheduledRetry
      <3> QED BY <1>1, <1>2, <1>5, <1>6, <2>1, <3>1, RepeatedAlone
    <2>2. CASE request[Last].job # 0
      <3>1. PICK j \in Compactions : j = request[Last].job
        BY <1>2, <2>2, LastRow DEF RequestRow
      <3>2. PICK b \in Buckets : b = Bucket(Last)
        BY DEF Bucket, Buckets
      <3>3. PICK status \in {"running", "installed"} : status = Spending(Last)
        BY DEF Spending
      <3>4. Readmitted(Last, j, status)
        BY <1>3, <2>2, <3>1, <3>3 DEF PrepareScheduledRetry, Readmitted
      <3>5. status = IF fund = "none" \/ IsSummary(Last) THEN "running" ELSE "installed"
        <4>1. ~IsSummary(Last) => compaction[j].replaced
          BY <1>2, <3>1, LastRow DEF Linked
        <4> QED BY <1>4, <3>1, <3>3, <4>1 DEF Spending
      <3>6. PICK amount \in [summary : Nat, continuation : Nat] : amount = hold[j]
        BY DEF IInv, CompactionTypeOK
      <3>7. HoldBecomes(j, amount)
        BY <1>1, <3>6 DEF HoldBecomes, IInv, CompactionTypeOK
      <3>8. \A bucket \in Buckets : amount[bucket] =
               IF bucket = b /\ fund = "none" THEN hold[j][bucket] + 1 ELSE hold[j][bucket]
        BY <1>4, <3>6
      <3> QED BY <1>2, <1>5, <1>6, <3>1, <3>2, <3>4, <3>5, <3>7, <3>8, RepeatedForJob
    <2> QED BY <2>1, <2>2
  <1> QED BY <1>1, <1>2, <1>7, SendsPrepared

(* The user's retry is admitted and held, and is reserved when it is sent.  *)
LEMMA RetryModelStep ==
    ASSUME IInv, RetryModel
    PROVE  IInv'
  <1>1. driver.at = "retry"
    BY DEF RetryModel
  <1>2. /\ owner.status \in Open /\ Last > 0 /\ request[Last].status = "unknown" /\ Handled("unknown")
        /\ In({"dispatched"}) = {}
    BY <1>1 DEF IInv, DriverInv, PlaceInv, Handled
  <1>3. Max(In({"unknown"})) = Last
    BY <1>2, MaxIsLast
  <1>4. CASE StaleSummary(Last)
    <2>1. Abandon(Last) /\ driver' = AtRest("plan")
      BY <1>3, <1>4 DEF RetryModel, Leave
    <2>2. LedgerOK' /\ owner'.status \in Open /\ In({"dispatched"})' = {}
      BY <1>2, <1>4, <2>1, AbandonIs
    <2>3. driver'.at = "plan" /\ driver' \in DriverRow
      BY <2>1, DriverIs DEF Places
    <2> QED BY <2>2, <2>3, DriverPlans, TypeFrom DEF IInv
  <1>5. CASE /\ ~StaleSummary(Last) /\ request[Last].job # 0
             /\ compaction[request[Last].job].revision # owner.revision
    <2>1. UNCHANGED <<owner, compaction, hold, request>> /\ driver' = AtRest("off")
      BY <1>3, <1>5 DEF RetryModel, Leave
    <2>2. driver'.at = "off" /\ driver' \in DriverRow
      BY <2>1, DriverIs DEF Places
    <2> QED BY <2>1, <2>2, OnlyDriver, DriverOff, TypeFrom DEF IInv
  <1>6. CASE /\ ~StaleSummary(Last)
             /\ request[Last].job = 0 \/ compaction[request[Last].job].revision = owner.revision
    <2>1. /\ request' = NextAttempt(Last, "none")
          /\ owner' = [owner EXCEPT !.status = "running", !.cancel = FALSE]
          /\ IF request[Last].job = 0 THEN UNCHANGED <<compaction, hold>>
             ELSE /\ compaction' = [Admitted(Last) EXCEPT ![request[Last].job].status = "running"]
                  /\ hold' = [hold EXCEPT ![request[Last].job][Bucket(Last)] = @ + 1]
          /\ driver' = AtRest("send")
      BY <1>3, <1>6 DEF RetryModel, Leave
    <2>2. owner' \in OwnerRow /\ owner'.status \in Open /\ OwnerGoesOn
      <3>1. owner \in OwnerRow /\ owner.revision \in Nat /\ owner.source \in Nat
        BY DEF IInv, CompactionTypeOK, OwnerRow
      <3>2. /\ owner' \in OwnerRow /\ owner'.status = "running" /\ owner'.revision = owner.revision
            /\ owner'.source = owner.source
        BY <2>1, <3>1 DEF OwnerRow, Open
      <3> QED BY <1>2, <3>1, <3>2 DEF OwnerGoesOn, Open
    <2>3. PICK fund \in {"none", "reserved"} : fund = "none"
      OBVIOUS
    <2>4. Repeated(fund)
      <3>1. fund \in Funds
        BY <2>3 DEF Funds
      <3> QED BY <1>2, <2>1, <2>3, <3>1, NextAttemptIs DEF IInv
    <2>5. LedgerOK' /\ Handled("prepared")'
      <3>1. CASE request[Last].job = 0
        BY <1>2, <2>1, <2>2, <2>4, <3>1, RepeatedAlone
      <3>2. CASE request[Last].job # 0
        <4>1. PICK j \in Compactions : j = request[Last].job
          BY <1>2, <3>2, LastRow DEF RequestRow
        <4>2. PICK b \in Buckets : b = Bucket(Last)
          BY DEF Bucket, Buckets
        <4>3. PICK status \in {"running", "installed"} : status = "running"
          OBVIOUS
        <4>4. Readmitted(Last, j, status)
          BY <2>1, <3>2, <4>1, <4>3 DEF Readmitted
        <4>5. PICK n \in Nat : n = hold[j][b] + 1
          <5>1. hold[j][b] \in Nat
            BY DEF IInv, CompactionTypeOK, Buckets
          <5> QED BY <5>1
        <4>6. HoldCounts(j, b, n)
          BY <2>1, <3>2, <4>1, <4>2, <4>5 DEF HoldCounts
        <4>7. PICK amount \in [summary : Nat, continuation : Nat] :
                 /\ HoldBecomes(j, amount)
                 /\ \A bucket \in Buckets : amount[bucket] = IF bucket = b THEN n ELSE hold[j][bucket]
          BY <4>6, HoldIs DEF IInv
        <4>8. \A bucket \in Buckets : amount[bucket] =
                 IF bucket = b /\ fund = "none" THEN hold[j][bucket] + 1 ELSE hold[j][bucket]
          BY <2>3, <4>5, <4>7
        <4> QED BY <1>2, <2>2, <2>3, <2>4, <4>1, <4>2, <4>3, <4>4, <4>7, <4>8, RepeatedForJob
      <3> QED BY <3>1, <3>2
    <2> QED BY <2>1, <2>2, <2>5, SendsPrepared
  <1> QED BY <1>4, <1>5, <1>6

(* The replacement is installed, and the continuation takes over the call   *)
(* that was held for it.                                                    *)
LEMMA InstallCandidateStep ==
    ASSUME IInv, InstallCandidate
    PROVE  IInv'
  <1>1. driver.at = "install"
    BY DEF InstallCandidate
  <1>2. Quiet /\ OwnJob /\ owner.status \in Open /\ Missing = {} /\ driver.at \in AtJob
    BY <1>1 DEF IInv, DriverInv, PlaceInv, WorkInv, AtJob
  <1>3. PICK j \in Compactions : j = driver.job
    BY <1>2 DEF OwnJob, IInv, CompactionTypeOK, DriverRow
  <1>4. CASE ~StillCurrent(j)
    <2>1. UNCHANGED <<owner, compaction, hold, request>>
              /\ driver' = [driver EXCEPT !.at = "finish", !.verdict = "superseded"]
      BY <1>3, <1>4 DEF InstallCandidate
    <2> QED BY <1>2, <2>1, GivesUp
  <1>5. CASE StillCurrent(j)
    <2> DEFINE row == NewRequest(AgentStep, j, driver.seen, owner.source, "reserved")
               new == [compaction[j] EXCEPT !.status = "installed", !.replaced = TRUE]
    <2>1. /\ owner' = [owner EXCEPT !.source = @ + 1] /\ request' = Append(request, row)
          /\ compaction' = [compaction EXCEPT ![j].status = "installed", ![j].replaced = TRUE]
          /\ hold' = [hold EXCEPT ![j] = Empty] /\ driver' = AtRest("send")
      BY <1>3, <1>5 DEF InstallCandidate, Leave
    <2>2. /\ driver.seen \in Nat /\ owner.source \in Nat /\ owner.revision \in Nat /\ owner \in OwnerRow
          /\ AgentStep = 0 /\ "reserved" \in Funds /\ compaction[j] \in JobRow
          /\ hold[j] \in [summary : Nat, continuation : Nat] /\ 0 \notin Nodes /\ j # 0
      BY CompactionConstants DEF IInv, CompactionTypeOK, DriverRow, OwnerRow, AgentStep, Funds
    <2>3. Grown(row)
      BY <2>1, <2>2, NewRequestIs DEF IInv
    <2>4. PICK fund \in {"none", "reserved"} : fund = "reserved"
      OBVIOUS
    <2>5. /\ row.funds = <<fund>> /\ row.status = "prepared" /\ row.scheduled = FALSE /\ row.purpose = 0
          /\ row.job = j
          /\ row.source = owner.source
      BY <2>2, <2>4 DEF NewRequest
    <2>6. /\ new \in JobRow /\ new.status = "installed" /\ new.replaced = TRUE
          /\ new.source = compaction[j].source
          /\ new.revision = compaction[j].revision /\ new.nodes = compaction[j].nodes
          /\ new.admitted = compaction[j].admitted
      BY <2>2 DEF JobRow, JobStatus
    <2>7. JobBecomes(j, new)
      BY <2>1, <2>2 DEF JobBecomes, JobRow
    <2> HIDE DEF row, new
    <2>8. PICK amount \in [summary : Nat, continuation : Nat] : amount = Empty
      BY DEF Empty
    <2>9. HoldBecomes(j, amount)
      BY <2>1, <2>8 DEF HoldBecomes
    <2>10. /\ owner' \in OwnerRow /\ OwnerGoesOn /\ owner'.status = owner.status /\ owner.source < owner'.source
      <3>1. PICK n \in Nat : n = owner.source + 1
        BY <2>2
      <3>2. owner' = [owner EXCEPT !.source = n] /\ owner.source <= n /\ owner.source < n
        BY <2>1, <2>2, <3>1
      <3>3. /\ owner' \in OwnerRow /\ owner'.status = owner.status /\ owner'.revision = owner.revision
            /\ owner'.source = n
        BY <2>2, <3>2 DEF OwnerRow
      <3> QED BY <2>2, <3>2, <3>3 DEF OwnerGoesOn
    <2>11. Kept /\ AnswersStay /\ Last' = Last + 1 /\ request'[Last + 1] = row
      BY <2>3, KeptGrown DEF Grown, IInv
    <2>12. RowsInv'
      BY <1>2, <2>2, <2>3, <2>5, RowsGrown DEF IInv, LedgerInv
    <2>13. OneRequestPerNode'
      BY <2>2, <2>3, <2>5, NodesGrown DEF IInv, LedgerInv
    <2>14. \A k \in Compactions : k # j => /\ Claims(k)' <= Claims(k)
                                           /\ \A bucket \in Buckets : Paid(k, bucket)' = Paid(k, bucket)
      <3> TAKE k \in Compactions
      <3> HAVE k # j
      <3>1. Claims(k)' <= Claims(k)
        BY <1>2, <2>2, <2>3, <2>5, ClaimsGrown DEF IInv
      <3>2. \A bucket \in Buckets : Paid(k, bucket)' = Paid(k, bucket)
        BY <2>3, <2>5, PaidGrown DEF IInv
      <3> QED BY <3>1, <3>2
    <2>15. /\ compaction[j].status \in Live /\ ~compaction[j].replaced /\ compaction[j].source = owner.source
           /\ JobInv(j)
      BY <1>2, <1>3, <1>5 DEF OwnJob, StillCurrent, IInv, LedgerInv, JobsInv
    <2>16. Balanced(j)'
      <3>1. hold[j].continuation + Paid(j, "continuation") = 1 + compaction[j].admitted["continuation"]
            /\ hold[j].continuation = 1
        BY <2>15 DEF JobInv, Balanced, Known, Allowance
      <3>2. Paid(j, "continuation")' = Paid(j, "continuation") + 1
        <4>1. BucketOf(row) = "continuation" /\ fund # "none"
          BY <2>2, <2>4, <2>5 DEF BucketOf
        <4> QED BY <2>3, <2>5, <4>1, PaidGrown DEF IInv
      <3>3. hold'[j] = amount /\ compaction'[j] = new
        BY <2>7, <2>9 DEF IInv, CompactionTypeOK, JobBecomes, HoldBecomes
      <3>4. Paid(j, "continuation") \in Nat
        BY PaidIsNumber DEF IInv
      <3>5. hold'[j].continuation + Paid(j, "continuation")' = 1 + compaction'[j].admitted["continuation"]
        <4>1. amount.continuation = 0
          BY <2>8 DEF Empty
        <4>2. 0 + (Paid(j, "continuation") + 1) = 1 + compaction[j].admitted["continuation"]
          BY <3>1, <3>4
        <4> QED BY <2>6, <3>2, <3>3, <4>1, <4>2
      <3>6. hold'[j].summary = 0 /\ compaction'[j].replaced
        BY <2>6, <2>8, <3>3 DEF Empty
      <3> QED BY <3>5, <3>6 DEF Balanced, Allowance
    <2>17. /\ compaction' \in [Compactions -> JobRow]
           /\ hold' \in [Compactions -> [summary : Nat, continuation : Nat]]
           /\ compaction'[j] = new /\ hold'[j] = amount /\ JobsGoOn /\ Twins' /\ JobsInv'
      <3>1. /\ compaction[j].status \in Known /\ new.status \in Known /\ new.status \notin Live
            /\ new.source < owner'.source
        BY <2>6, <2>10, <2>15 DEF Known, Live
      <3> QED BY <2>6, <2>7, <2>8, <2>9, <2>10, <2>11, <2>14, <2>16, <3>1, OneJob
    <2>18. PICK n : n = Last + 1
      OBVIOUS
    <2>19. LinksInv'
      <3>1. \A i \in 1..Last : request'[i] = request[i]
        BY <2>3 DEF Grown
      <3>2. \A i \in 1..Last, k \in Compactions : request'[i].job = k => Linked(i, k)'
        BY <2>10, <2>11, <2>17, <3>1, LinksKept DEF IInv, LedgerInv
      <3>3. Linked(n, j)'
        BY <2>2, <2>5, <2>6, <2>11, <2>17, <2>18 DEF Linked, IsSummary
      <3>4. \A i \in DOMAIN request' : i \in 1..Last \/ i = n
        BY <2>11, <2>18 DEF Kept
      <3>5. request'[n].job = j
        BY <2>5, <2>11, <2>18
      <3>6. \A i \in DOMAIN request', k \in Compactions : request'[i].job = k => Linked(i, k)'
        <4> SUFFICES ASSUME NEW i \in DOMAIN request', NEW k \in Compactions,
                     request'[i].job = k PROVE Linked(i, k)'
          OBVIOUS
        <4>1. CASE i \in 1..Last
          BY <3>2, <4>1
        <4>2. CASE i = n
          BY <3>3, <3>5, <4>2
        <4> QED BY <3>4, <4>1, <4>2
      <3> QED BY <3>6 DEF LinksInv
    <2>20. CarriedInv'
      <3>1. request'[Last'] = row /\ Last' \in Nat
        BY <2>11 DEF Kept
      <3>2. row.funds[Len(row.funds)] # "none"
        <4>1. Len(<<fund>>) = 1 /\ <<fund>>[1] = fund
          OBVIOUS
        <4> QED BY <2>4, <2>5, <4>1
      <3>3. ~IsSummary(Last)' /\ ~Unpaid(Last)'
        BY <2>2, <2>5, <3>1, <3>2 DEF IsSummary, Unpaid, Active
      <3>4. compaction'[j].status = "installed" /\ request'[Last'].job = j
        BY <2>5, <2>6, <2>17, <3>1
      <3> QED BY <3>3, <3>4 DEF CarriedInv, Carried
    <2>21. LedgerOK'
      <3>1. LedgerTypeOK'
        BY <2>3, <2>10, <2>17 DEF LedgerTypeOK, Grown
      <3> QED BY <2>12, <2>13, <2>17, <2>19, <2>20, <3>1 DEF LedgerOK, LedgerInv
    <2>22. Handled("prepared")'
      BY <2>5, <2>11 DEF Handled, Kept
    <2> QED BY <1>2, <2>1, <2>10, <2>21, <2>22, SendsPrepared
  <1> QED BY <1>4, <1>5

-----------------------------------------------------------------------------
(* The theorems *)

(* Every step keeps the invariant.                                          *)
LEMMA CompactionStep == IInv /\ [CompactionNext]_compactionVars => IInv'
  <1> SUFFICES ASSUME IInv, [CompactionNext]_compactionVars PROVE IInv'
    OBVIOUS
  <1>1. CASE UNCHANGED compactionVars
    BY <1>1, StutterStep
  <1>2. ASSUME NEW permit \in BOOLEAN, Resume(permit) PROVE IInv'
    BY <1>2, ResumeStep
  <1>3. CASE Message \/ RequestCancellation \/ DriverCrash \/ Abort \/ Plan \/ CancelTurn \/ CompleteTurn
             \/ NextStep \/ PrepareStep
    BY <1>3, MessageStep, RequestCancellationStep, DriverCrashStep, AbortStep, PlanStep, CancelTurnStep,
       CompleteTurnStep, NextStepStep, PrepareStepStep
  <1>4. CASE FindJob \/ NoPlan \/ CreateJob \/ NextNode \/ Validate \/ RecordNode \/ Candidate
             \/ InstallCandidate \/ FinishJob \/ FailTurn
    BY <1>4, FindJobStep, NoPlanStep, CreateJobStep, NextNodeStep, ValidateStep, RecordNodeStep, CandidateStep,
       InstallCandidateStep, FinishJobStep, FailTurnStep
  <1>5. CASE SavedRequest \/ Supersede \/ Dispatch \/ Completed \/ FailureScheduled \/ FailureUnknown
             \/ FailureFinal \/ ProviderCancelled
    BY <1>5, SavedRequestStep, SupersedeStep, DispatchStep, CompletedStep, FailureScheduledStep,
       FailureUnknownStep, FailureFinalStep, ProviderCancelledStep
  <1>6. CASE WaitEnds \/ FailUnstartedRetry \/ PrepareScheduledRetry \/ RetryModel
    BY <1>6, WaitEndsStep, FailUnstartedRetryStep, PrepareScheduledRetryStep, RetryModelStep
  <1> QED BY <1>1, <1>2, <1>3, <1>4, <1>5, <1>6 DEF CompactionNext

(* The inductive invariant holds throughout, for any number of jobs, nodes, *)
(* requests, retries and messages, with crashes between any two commits.    *)
THEOREM CompactionInvariant == CompactionSpec => []IInv
  BY CompactionInitially, CompactionStep, PTL DEF CompactionSpec

(* Every record of the ledger and of the driver keeps its form              *)
(* (compaction_jobs.py, model_ops.py).                                      *)
THEOREM CompactionTyped == CompactionSpec => []CompactionTypeOK
  <1>1. IInv => CompactionTypeOK
    BY DEF IInv
  <1> QED BY <1>1, CompactionInvariant, PTL

(* What a live job holds and what its attempts took make up what was        *)
(* admitted.                                                                *)
LEMMA AllowanceKept == IInv => AllowanceIsConserved
  BY DEF IInv, LedgerInv, JobsInv, JobInv, Balanced, AllowanceIsConserved, LiveJobs, Known

(* One source and revision has one live job.                                *)
LEMMA OneForEach == IInv => OneJobPerSource
  BY DEF IInv, LedgerInv, Twins, OneJobPerSource, LiveJobs, Known

(* A request about to be sent finds its job alive and its call held: a      *)
(* claim of the job covers it.                                              *)
LEMMA CallIsHeld == IInv => NeverShort
  <1> SUFFICES ASSUME IInv, driver.at = "send", request[Last].job # 0, Active(Last) # "reserved"
               PROVE  CanTransfer(Last)
    BY DEF NeverShort
  <1>1. owner.status \in Open /\ Last > 0 /\ request[Last].status = "prepared"
    BY DEF IInv, DriverInv, PlaceInv, Handled
  <1>2. PICK j \in Compactions : j = request[Last].job
    BY <1>1, LastRow DEF RequestRow
  <1>3. Unpaid(Last)
    BY <1>1, LastRow DEF Unpaid
  <1>4. Carried(j) /\ JobInv(j)
    BY <1>1, <1>2 DEF IInv, LedgerInv, CarriedInv, JobsInv, Settled
  <1>5. CASE IsSummary(Last)
    <2>1. compaction[j].status \in Live /\ hold[j].summary >= Claims(j)
      BY <1>4, <1>5 DEF Carried, JobInv
    <2>2. Claims(j) = Cardinality(Unasked(j)) + 1 /\ Cardinality(Unasked(j)) \in Nat
      BY <1>1, <1>2, <1>3, <1>5, ClaimsNumber DEF Claims, Promised
    <2>3. hold[j].summary \in Nat /\ hold[j].summary > 0
      BY <2>1, <2>2 DEF IInv, CompactionTypeOK
    <2> QED BY <1>2, <1>5, <2>1, <2>3 DEF CanTransfer, Bucket
  <1>6. CASE ~IsSummary(Last)
    <2>1. compaction[j].status = "running" /\ hold[j].continuation = 1
      BY <1>3, <1>4, <1>6 DEF Carried
    <2> QED BY <1>2, <1>6, <2>1 DEF CanTransfer, Bucket, Live
  <1> QED BY <1>5, <1>6

(* The allowance of compaction jobs is neither lost nor held twice, no      *)
(* history is paid for by two jobs, and no attempt is sent without its      *)
(* call, whoever drives the Turn and wherever the driver ends (create_job,  *)
(* transfer_for_attempt, admit_retry, finish_job).                          *)
THEOREM CompactionCorrect == CompactionSpec => []CompactionInv
  <1>1. IInv => CompactionInv
    BY AllowanceKept, OneForEach, CallIsHeld DEF IInv, CompactionInv
  <1> QED BY <1>1, CompactionInvariant, PTL

-----------------------------------------------------------------------------
(* Replacement of history *)

(* No job is replaced by this step.                                         *)
NoneReplaced == \A j \in Compactions : compaction'[j].replaced => compaction[j].replaced

(* Finishing jobs replaces no history,                                      *)
LEMMA FinishedReplacesNone ==
    ASSUME CompactionTypeOK, NEW S, NEW status, Finished(S, status)
    PROVE  NoneReplaced
  BY DEF Finished, NoneReplaced, CompactionTypeOK, JobRow

(* and neither does any action but install_candidate.                       *)
LEMMA ReplacedByInstallation ==
    ASSUME IInv, CompactionNext, ~InstallCandidate
    PROVE  NoneReplaced
  <1>1. CompactionTypeOK
    BY DEF IInv
  <1>2. ASSUME compaction' = compaction PROVE NoneReplaced
    BY <1>2 DEF NoneReplaced
  <1>3. ASSUME NEW i, Abandon(i) PROVE NoneReplaced
    BY <1>1, <1>3, FinishedReplacesNone DEF Abandon
  <1>4. ASSUME NEW status, EndTurn(status) PROVE NoneReplaced
    BY <1>1, <1>4, FinishedReplacesNone DEF EndTurn
  <1>5. CASE Abort \/ CancelTurn \/ FailTurn \/ FailureFinal \/ FailUnstartedRetry
    BY <1>4, <1>5 DEF Abort, CancelTurn, FailTurn, FailureFinal, FailUnstartedRetry
  <1>6. CASE SavedRequest \/ WaitEnds
    BY <1>2, <1>3, <1>6 DEF SavedRequest, WaitEnds
  <1>7. CASE FinishJob
    BY <1>1, <1>7, FinishedReplacesNone DEF FinishJob
  <1>8. CASE CreateJob
    <2> DEFINE k == Min({j \in Compactions : compaction[j].status = "none"})
               new == [NoJob EXCEPT !.status = "planned", !.source = driver.source, !.revision = driver.seen]
    <2>1. \/ compaction' = compaction
          \/ compaction' = [compaction EXCEPT ![k] = new]
      BY <1>8 DEF CreateJob
    <2>2. new.replaced = FALSE
      BY DEF NoJob
    <2> HIDE DEF k, new
    <2> QED BY <1>1, <1>2, <2>1, <2>2 DEF NoneReplaced, CompactionTypeOK
  <1>9. CASE RecordNode
    BY <1>1, <1>9 DEF RecordNode, NoneReplaced, CompactionTypeOK, JobRow
  <1>10. CASE Dispatch
    <2>1. \/ compaction' = compaction
          \/ compaction' = [compaction EXCEPT ![request[Last].job].status = Spending(Last)]
      BY <1>10 DEF Dispatch
    <2>2. ASSUME NEW k, NEW status, compaction' = [compaction EXCEPT ![k].status = status] PROVE NoneReplaced
      BY <1>1, <2>2 DEF NoneReplaced, CompactionTypeOK, JobRow
    <2> QED BY <1>2, <2>1, <2>2
  <1>11. ASSUME NEW i, NEW status, compaction' = [Admitted(i) EXCEPT ![request[i].job].status = status] PROVE NoneReplaced
    BY <1>1, <1>11 DEF Admitted, NoneReplaced, CompactionTypeOK, JobRow
  <1>12. CASE PrepareScheduledRetry
    BY <1>2, <1>11, <1>12 DEF PrepareScheduledRetry
  <1>13. CASE RetryModel
    BY <1>2, <1>3, <1>11, <1>13 DEF RetryModel
  <1>14. CASE Message \/ RequestCancellation \/ DriverCrash \/ Plan \/ CompleteTurn \/ NextStep \/ PrepareStep
              \/ FindJob \/ NoPlan \/ NextNode \/ Validate \/ Candidate \/ Supersede
    BY <1>2, <1>14 DEF Message, RequestCancellation, DriverCrash, Plan, CompleteTurn, NextStep, PrepareStep,
       FindJob, NoPlan, NextNode, Validate, Candidate, Supersede
  <1>15. CASE Completed \/ FailureScheduled \/ FailureUnknown \/ ProviderCancelled
                  \/ \E permit \in BOOLEAN : Resume(permit)
    BY <1>2, <1>15 DEF Completed, FailureScheduled, FailureUnknown, ProviderCancelled, Resume
  <1> QED BY <1>5, <1>6, <1>7, <1>8, <1>9, <1>10, <1>12, <1>13, <1>14, <1>15 DEF CompactionNext

(* What is true when a replacement is installed.                            *)
LEMMA InstalledIsCurrent ==
    ASSUME IInv, InstallCandidate, NEW j \in Compactions, compaction'[j].replaced, ~compaction[j].replaced
    PROVE  /\ compaction[j].nodes = Nodes /\ \A n \in Nodes : Done(n)
           /\ compaction[j].source = owner.source /\ compaction[j].revision = owner.revision
           /\ In({"prepared", "dispatched", "unknown", "retry_wait"}) = {}
  <1>1. driver.at = "install"
    BY DEF InstallCandidate
  <1>2. Quiet /\ OwnJob /\ Missing = {}
    BY <1>1 DEF IInv, DriverInv, PlaceInv, WorkInv, AtJob
  <1>3. StillCurrent(driver.job)
    BY DEF InstallCandidate
  <1>4. j = driver.job
    BY <1>3 DEF InstallCandidate, IInv, CompactionTypeOK, JobRow
  <1>5. compaction[j].source = owner.source /\ compaction[j].revision = owner.revision
    BY <1>2, <1>3, <1>4 DEF StillCurrent, OwnJob
  <1>6. compaction[j].nodes = Nodes
    BY <1>2, <1>4 DEF Missing, IInv, CompactionTypeOK, JobRow
  <1>7. \A n \in Nodes : Done(n)
    BY <1>5, <1>6 DEF Done, IInv, LedgerInv, JobsInv, JobInv, Answered
  <1>8. In({"prepared", "dispatched", "unknown", "retry_wait"}) = {}
    BY <1>2 DEF Quiet, In, Settled
  <1> QED BY <1>5, <1>6, <1>7, <1>8

(* History is replaced only by answered summaries of what it is at that     *)
(* moment, with no message unread and no outcome open (install_candidate).  *)
THEOREM ReplacementCurrent == CompactionSpec => ReplacementIsCurrent
  <1> DEFINE Current == \A j \in Compactions : compaction'[j].replaced /\ ~compaction[j].replaced =>
           /\ compaction[j].nodes = Nodes /\ \A n \in Nodes : Done(n)
           /\ compaction[j].source = owner.source /\ compaction[j].revision = owner.revision
           /\ In({"prepared", "dispatched", "unknown", "retry_wait"}) = {}
  <1>1. IInv /\ [CompactionNext]_compactionVars => [Current]_compactionVars
    <2> SUFFICES ASSUME IInv, CompactionNext PROVE Current
      OBVIOUS
    <2>1. CASE InstallCandidate
      BY <2>1, InstalledIsCurrent
    <2>2. CASE ~InstallCandidate
      BY <2>2, ReplacedByInstallation DEF NoneReplaced
    <2> QED BY <2>1, <2>2
  <1> QED BY <1>1, CompactionInvariant, PTL DEF CompactionSpec, ReplacementIsCurrent
-----------------------------------------------------------------------------
(* What a failed Turn leaves *)

(* A Turn that has failed has no driver and no live job.                    *)
FailedInv == owner.status = "failed" => driver.at = "off" /\ LiveJobs = {}

(* Nothing happens to it any more,                                          *)
LEMMA FailedRests ==
    ASSUME FailedInv, owner.status = "failed", CompactionNext
    PROVE  FALSE
  <1>1. driver.at = "off" /\ owner.status \notin Open
    BY DEF FailedInv, Open
  <1>2. ~Message /\ ~RequestCancellation /\ ~DriverCrash /\ ~Abort /\ \A permit \in BOOLEAN : ~Resume(permit)
    BY <1>1 DEF Message, RequestCancellation, DriverCrash, Abort, Resume
  <1>3. /\ ~Plan /\ ~CancelTurn /\ ~CompleteTurn /\ ~NextStep /\ ~PrepareStep /\ ~FindJob /\ ~NoPlan /\ ~CreateJob
        /\ ~NextNode /\ ~Validate /\ ~RecordNode /\ ~Candidate /\ ~InstallCandidate /\ ~FinishJob /\ ~FailTurn
    BY <1>1 DEF Plan, CancelTurn, CompleteTurn, NextStep, PrepareStep, FindJob, NoPlan, CreateJob, NextNode,
       Validate, RecordNode, Candidate, InstallCandidate, FinishJob, FailTurn
  <1>4. /\ ~SavedRequest /\ ~Supersede /\ ~Dispatch /\ ~Completed /\ ~FailureScheduled /\ ~FailureUnknown
        /\ ~FailureFinal /\ ~ProviderCancelled
        /\ ~WaitEnds /\ ~FailUnstartedRetry /\ ~PrepareScheduledRetry /\ ~RetryModel
    BY <1>1 DEF SavedRequest, Supersede, Dispatch, Completed, FailureScheduled, FailureUnknown, FailureFinal,
       ProviderCancelled, WaitEnds, FailUnstartedRetry, PrepareScheduledRetry, RetryModel
  <1> QED BY <1>2, <1>3, <1>4 DEF CompactionNext

(* and it came to that by one of three actions.                             *)
LEMMA FailsBy ==
    ASSUME CompactionTypeOK, CompactionNext, owner.status # "failed", owner'.status = "failed"
    PROVE  FailTurn \/ FailureFinal \/ FailUnstartedRetry
  <1>1. ASSUME NEW i, Abandon(i) PROVE owner'.status # "failed"
    BY <1>1 DEF Abandon, CompactionTypeOK, OwnerRow
  <1>2. ASSUME EndTurn("cancelled") PROVE owner'.status # "failed"
    BY <1>2 DEF EndTurn, CompactionTypeOK, OwnerRow
  <1>3. ~Message /\ ~RequestCancellation /\ ~DriverCrash /\ ~Abort
    BY <1>2 DEF Message, RequestCancellation, DriverCrash, Abort, CompactionTypeOK, OwnerRow
  <1>4. \A permit \in BOOLEAN : ~Resume(permit)
    BY DEF Resume, RecoveredOwner, CompactionTypeOK, OwnerRow
  <1>5. ~Plan /\ ~CancelTurn /\ ~CompleteTurn /\ ~NextStep /\ ~PrepareStep
    BY <1>2 DEF Plan, CancelTurn, CompleteTurn, NextStep, PrepareStep, CompactionTypeOK, OwnerRow
  <1>6. /\ ~FindJob /\ ~NoPlan /\ ~CreateJob /\ ~NextNode /\ ~Validate /\ ~RecordNode /\ ~Candidate
        /\ ~InstallCandidate /\ ~FinishJob
    BY DEF FindJob, NoPlan, CreateJob, NextNode, Validate, RecordNode, Candidate, InstallCandidate, FinishJob,
       CompactionTypeOK, OwnerRow
  <1>7. ~SavedRequest /\ ~Supersede /\ ~Dispatch /\ ~WaitEnds
    BY <1>1 DEF SavedRequest, Supersede, Dispatch, WaitEnds
  <1>8. ~Completed /\ ~FailureScheduled /\ ~FailureUnknown /\ ~ProviderCancelled /\ ~PrepareScheduledRetry
    BY DEF Completed, FailureScheduled, FailureUnknown, ProviderCancelled, PrepareScheduledRetry,
       CompactionTypeOK, OwnerRow
  <1>9. ~RetryModel
    BY <1>1 DEF RetryModel, CompactionTypeOK, OwnerRow
  <1> QED BY <1>3, <1>4, <1>5, <1>6, <1>7, <1>8, <1>9 DEF CompactionNext

(* Each of them finishes the live jobs in the commit that fails the Turn.   *)
LEMMA FailedKept ==
    ASSUME IInv, FailedInv, [CompactionNext]_compactionVars
    PROVE  FailedInv'
  <1> SUFFICES ASSUME owner'.status = "failed" PROVE driver'.at = "off" /\ LiveJobs' = {}
    BY DEF FailedInv
  <1>1. CompactionTypeOK
    BY DEF IInv
  <1>2. CASE UNCHANGED compactionVars
    BY <1>2 DEF FailedInv, compactionVars, LiveJobs
  <1>3. CASE CompactionNext
    <2>1. FailTurn \/ FailureFinal \/ FailUnstartedRetry
      BY <1>1, <1>3, FailedRests, FailsBy
    <2>2. EndTurn("failed") /\ driver' = AtRest("off")
      BY <2>1 DEF FailTurn, FailureFinal, FailUnstartedRetry, Leave
    <2>3. \A j \in Compactions : compaction'[j].status \notin Live
      BY <1>1, <2>2 DEF EndTurn, Finished, LiveJobs, Live, CompactionTypeOK, JobRow
    <2> QED BY <2>2, <2>3 DEF AtRest, LiveJobs
  <1> QED BY <1>2, <1>3

(* A failed Turn returns the whole allowance of its jobs: fail_turn         *)
(* finishes them, and no driver is left that could take one up again.  (A   *)
(* completed Turn does not, as NothingHeldAtEnd shows.)                     *)
FailureReturnsAll == owner.status = "failed" => \A j \in Compactions : hold[j] = Empty

(* Failure leaves no call held, whatever crashed, was retried or was        *)
(* overtaken before (fail_turn of turn_ops.py, finish_active_jobs).         *)
THEOREM FailedHoldsNothing == CompactionSpec => []FailureReturnsAll
  <1>1. CompactionInit => FailedInv
    BY DEF CompactionInit, FailedInv
  <1>2. IInv /\ FailedInv /\ [CompactionNext]_compactionVars => FailedInv'
    BY FailedKept
  <1>3. IInv /\ FailedInv => FailureReturnsAll
    BY DEF IInv, LedgerInv, JobsInv, JobInv, FailedInv, FailureReturnsAll, LiveJobs
  <1> QED BY <1>1, <1>2, <1>3, CompactionInvariant, PTL DEF CompactionSpec
=============================================================================
