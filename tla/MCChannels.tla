----------------------------- MODULE MCChannels -----------------------------
(***************************************************************************)
(* The channels of one Thread: outbox, CI watch and publications under one *)
(* authority.  Each scenario gives the environment a few moves (crashes,   *)
(* suspended senders, operator commands, GitHub events, ...) and leaves    *)
(* the program's own steps free.                                           *)
(***************************************************************************)
EXTENDS Outbox, CIWatch, Publication

CONSTANTS
    Host,      \* the sender that is the host's lane (deliver_one in _channels)
    Scenarios

ASSUME LaneConstants == Host \in Senders

VARIABLE credit

allVars == <<allOutboxVars, watchVars, publicationVars, credit>>

(* The rows and the local states are what the code can make of them; the    *)
(* polls and follow-up Turns of a subscription stay within its bounds.      *)
ChannelsTypeOK == OutboxTypeOK /\ WatchTypeOK /\ PublicationTypeOK

Spend(kind) == credit[kind] > 0 /\ credit' = [credit EXCEPT ![kind] = @ - 1]
Free(kind) == credit[kind] > 0 /\ UNCHANGED credit

(* How many runs passed before the subscription was created.                *)
Passed(done) == [r \in Runs |-> IF r <= done THEN "pass" ELSE "none"]

Init ==
    /\ facts \in Facts /\ OutboxInit /\ WatchInit /\ PublicationInit
    /\ credit \in Scenarios
    /\ github.head = 1 /\ github.run = Passed(credit.done)

OnOutbox == UNCHANGED <<facts, authority, watchVars, publicationVars>>
OnWatch == UNCHANGED <<allOutboxVars, publicationVars>>
OnPublication == UNCHANGED <<allOutboxVars, watchVars>>

(* What goes on by itself: a sender that is alive finishes within its       *)
(* timeout, the host's lane resumes and takes on every tick, a lease or a   *)
(* backoff runs out, and a Turn ends.                                       *)
Taking(s) == OnOutbox /\ UNCHANGED credit /\ TakeStep(s)
Sending == OnOutbox /\ UNCHANGED credit /\ \E s \in Senders : SendStep(s)
Lapsing ==
    OnOutbox /\ UNCHANGED credit /\ \E k \in Summary : (~Working(k) /\ LeaseEnds(k)) \/ BackoffEnds(k)
Resuming == OnWatch /\ UNCHANGED credit /\ ResumeEligible
Driving == OnWatch /\ UNCHANGED credit /\ (Admit \/ TurnEnds)

(* A tick of the lane resumes what is eligible before it takes a row, in    *)
(* one try: when that raises, nothing behind it is reached, on this tick or *)
(* the next.  (A tick that got past it may still take while it would raise, *)
(* and so may an embedding's own sender, which nothing obliges to.)         *)
LaneStops == Raises(watch)
LaneTakes == ~LaneStops /\ Taking(Host)

OutboxMoves ==
    \/ Collect /\ Free("news")
    \/ \E q \in Queries : Ask(q) /\ Spend("ask")
    \/ \E s \in Senders : SenderCrash(s) /\ Spend("crash")
    \/ \E k \in Summary : LeaseEnds(k) /\ Working(k) /\ Spend("stall")
    \/ \E k \in Summary : DeadlinePasses(k) /\ Spend("late")
    \/ \E k \in Summary : OperatorStep(k) /\ Spend("operator")

WatchMoves ==
    \/ CheckStep /\ Spend("github")
    \/ ReviewStep /\ Spend("review")
    \/ Webhook /\ Free("watch")
    \/ PollStep /\ Free("poll")
    \/ PollDropped /\ Spend("crash")
    \/ ((\E h \in Heads : SelectHead(h)) \/ Disable) /\ Spend("select")
    \/ UserTurn /\ Spend("user")

PublicationMoves ==
    \/ \E p \in Publications : Prepare(p) /\ Free("publish")
    \/ \E x \in Executors : ExecutorStep(x) /\ Free("publish")
    \/ \E x \in Executors : ExecutorCrash(x) /\ Spend("crash")

Next ==
    \/ (\E s \in Senders : Taking(s)) \/ Sending \/ Lapsing \/ Resuming \/ Driving
    \/ OutboxMoves /\ OnOutbox
    \/ WatchMoves /\ OnWatch
    \/ PublicationMoves /\ OnPublication
    \/ FactsChange /\ UNCHANGED <<outboxVars, watchVars, publicationVars>> /\ Spend("facts")
    \/ AuthorityChanges /\ UNCHANGED <<outboxVars, watchVars, publicationVars>> /\ Spend("authority")

FairSpec ==
    /\ Init /\ [][Next]_allVars
    /\ WF_allVars(LaneTakes) /\ WF_allVars(Sending) /\ WF_allVars(Lapsing)
    /\ WF_allVars(Resuming) /\ WF_allVars(Driving)

(* No row waits for ever: after the last news, command and crash, every one *)
(* is acknowledged, given up, or put before the user (claims lapse,         *)
(* backoffs end, attempts are bounded; deliver_one of channels/service.py)  *)
(* - unless the Thread stays one from which no repair can start, where the  *)
(* lane never gets as far as the outbox (_channels of host.py).             *)
RowsSettle == <>[](\A k \in Summary : ~Waiting(k)) \/ <>[]LaneStops

None == [news |-> 0, ask |-> 0, crash |-> 0, stall |-> 0, late |-> 0, operator |-> 0, github |-> 0, review |-> 0,
         watch |-> 0, poll |-> 0, select |-> 0, user |-> 0, publish |-> 0, facts |-> 0, authority |-> 0, done |-> 0]

OneTurn == [f \in Facts |-> 1]

(* Three runs on the first commit, two of them of one check; one on the    *)
(* second.                                                                  *)
RunsOn == [r \in Runs |-> IF r <= 3 THEN 1 ELSE 2]
RunsOf == [r \in Runs |-> IF r = 2 THEN 2 ELSE 1]
OneReviewer == [v \in Reviews |-> 1]

Delivering == {
    (* two senders, one of them suspended past its lease; the facts change  *)
    [None EXCEPT !.news = 1, !.stall = 1, !.facts = 1],
    (* a sender ends anywhere, the operator answers                         *)
    [None EXCEPT !.news = 1, !.crash = 1, !.operator = 1, !.authority = 1],
    (* a status request beside the news, and the deadline                   *)
    [None EXCEPT !.news = 1, !.ask = 1, !.late = 1, !.crash = 1],
    (* news beside a review, on a Thread that the user works on: the lane    *)
    (* may be stopped before it takes the row                               *)
    [None EXCEPT !.news = 1, !.watch = 1, !.review = 1, !.user = 2] }

Watching == {
    (* checks and pushes, mailed in any order                               *)
    [None EXCEPT !.watch = 1, !.github = 5],
    (* a poll among them, on a Thread that the user works on                *)
    [None EXCEPT !.watch = 1, !.github = 2, !.poll = 1, !.user = 1],
    [None EXCEPT !.watch = 1, !.github = 1, !.review = 3],
    (* a poll finds that both checks passed, while reviews ask for changes, *)
    (* are dismissed and approve, and the watch may end or move             *)
    [None EXCEPT !.watch = 1, !.poll = 1, !.review = 3, !.select = 1, !.done = 2],
    (* the operator selects a head, or withdraws the grant                  *)
    [None EXCEPT !.watch = 1, !.github = 2, !.poll = 1, !.crash = 1, !.select = 1],
    [None EXCEPT !.watch = 1, !.github = 2, !.select = 1, !.authority = 1] }

Publishing == { [None EXCEPT !.publish = 1, !.crash = 1, !.authority = 1] }

Lane == Delivering \cup Watching \cup Publishing
=============================================================================
