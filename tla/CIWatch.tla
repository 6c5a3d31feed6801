------------------------------- MODULE CIWatch -------------------------------
(***************************************************************************)
(* One CI subscription (harness/ci_ops.py, channels/ci.py): what it makes  *)
(* of GitHub's webhooks and of its own polls, and the follow-up Turns it   *)
(* queues on its Thread.  GitHub is external: it moves the pull request,   *)
(* runs checks and takes reviews, and mails each event, to be delivered in *)
(* any order, again, or never.                                             *)
(***************************************************************************)
EXTENDS ChannelAuthority, FiniteSets

CONSTANTS
    Heads,        \* commits of the pull request
    Checks,       \* subscribed check identities (check_ids)
    Runs,         \* check runs, by their numeric ids
    RunHead, RunCheck,   \* the commit and the check of each
    Reviews,      \* reviews, numbered in the order of their submission
    Reviewer,     \* who wrote each
    MaxPolls,     \* poll_policy.max_attempts
    MaxTurns      \* repair_allowance.max_new_turns

ASSUME WatchConstants ==
    /\ 0 \notin Heads \cup Runs
    /\ RunHead \in [Runs -> Heads] /\ RunCheck \in [Runs -> Checks]
    /\ Reviews \subseteq Nat /\ Reviews \subseteq DOMAIN Reviewer
    /\ {MaxPolls, MaxTurns} \subseteq Nat

VARIABLES
    github, \* external: the head, its check runs and its reviews
    mail,   \* external: the events GitHub sent
    inbox,  \* those that were consumed (native_inbox, ci_processed)
    stale,  \* those recorded for a head that was not watched
    watch,  \* the ci_subscription row
    poller, \* the local state of poll_one
    thread  \* the Thread: free, or with a queued or running Turn, and whether
            \* the head Turn was submitted to the background host

watchVars == <<github, mail, inbox, stale, watch, poller, thread>>

NoHead == 0
NoRun == 0

Conclusions == {"pass", "fail", "skipping"}
ReviewStates == {"approved", "changes_requested", "commented", "comment", "dismissed"}

Event == [kind : {"head", "check", "review"}, subject : Runs \cup Reviews \cup Heads,
          what : {"synchronize", "pending", "rerequested"} \cup Conclusions \cup ReviewStates,
          head : Heads, before : Heads \cup {NoHead}]

NoResult == [run |-> NoRun, state |-> "none", invalidated |-> FALSE]
NoResults == [c \in Checks |-> NoResult]

NoFeedback == [id |-> <<>>, feedback |-> FALSE, queued |-> FALSE]
Resting == [at |-> "idle", token |-> NoHead, seen |-> NoFeedback, results |-> NoResults,
            heard |-> {}, snapshot |-> <<>>]

CheckStatus == {"pending", "pass", "fail", "none", "query_error"}

WatchTypeOK ==
    /\ AuthorityTypeOK
    /\ inbox \subseteq mail /\ stale \subseteq inbox /\ mail \subseteq Event
    /\ watch.enabled \in BOOLEAN /\ watch.head \in Heads
    /\ watch.remote \in CheckStatus \cup {"head_mismatch"} /\ watch.checks \in CheckStatus
    /\ watch.turns \in 0..MaxTurns /\ watch.polls \in 0..MaxPolls
    /\ thread \in [at : {"free", "queued", "running"}, repairs : Heads \cup {NoHead}, hosted : BOOLEAN]

(* create_subscription, under the current revision.  Checks may be under    *)
(* way or done: nothing is known of them before an event or a poll.         *)
WatchInit ==
    /\ \E h \in Heads, run \in [Runs -> {"none", "pending"} \cup Conclusions] :
        /\ github = [head |-> h, run |-> run, review |-> [v \in Reviews |-> "none"]]
        /\ watch = [enabled |-> TRUE, head |-> h, revision |-> authority.revision,
                    remote |-> "pending", checks |-> "pending", review |-> "none",
                    reviews |-> [v \in Reviews |-> "none"], results |-> NoResults,
                    evidence |-> NoFeedback, turns |-> 0, polls |-> 0]
    /\ mail = {} /\ inbox = {} /\ stale = {}
    /\ poller = Resting
    /\ thread = [at |-> "free", repairs |-> NoHead, hosted |-> TRUE]

-----------------------------------------------------------------------------
(* GitHub *)

Mailed(kind, subject, what, head, before) ==
    mail' = mail \cup {[kind |-> kind, subject |-> subject, what |-> what, head |-> head, before |-> before]}

unmoved == <<inbox, stale, watch, poller, thread>>

Push(h) ==
    /\ h # github.head
    /\ github' = [github EXCEPT !.head = h]
    /\ Mailed("head", h, "synchronize", h, github.head)
    /\ UNCHANGED unmoved

RunMoves(r, from, to, what) ==
    /\ github.run[r] \in from
    /\ github' = [github EXCEPT !.run[r] = to]
    /\ Mailed("check", r, what, RunHead[r], NoHead)
    /\ UNCHANGED unmoved

StartRun(r) == RunMoves(r, {"none"}, "pending", "pending")
EndRun(r) == \E state \in Conclusions : RunMoves(r, {"pending"}, state, state)
Rerequest(r) == RunMoves(r, Conclusions, github.run[r], "rerequested")

(* A review is submitted on the current head, and may be dismissed later.   *)
Review(v, state) ==
    /\ IF state = "dismissed" THEN github.review[v] = "changes_requested"
       ELSE github.review[v] = "none" /\ \A w \in Reviews : w > v => github.review[w] = "none"
    /\ github' = [github EXCEPT !.review[v] = state]
    /\ \E h \in Heads :
        /\ IF state # "dismissed" THEN h = github.head
           ELSE \E e \in mail : e.kind = "review" /\ e.subject = v /\ e.head = h
        /\ Mailed("review", v, state, h, NoHead)
    /\ UNCHANGED unmoved

CheckStep ==
    \/ \E h \in Heads : Push(h)
    \/ \E r \in Runs : StartRun(r) \/ EndRun(r) \/ Rerequest(r)

ReviewStep == \E v \in Reviews, state \in ReviewStates : Review(v, state)

-----------------------------------------------------------------------------
(* What evidence makes of the row *)

InForce == Allows(watch.revision)

Known(results) == {c \in Checks : results[c].run # NoRun}

Judged(results) ==
    IF Known(results) = {} THEN "none"
    ELSE IF \E c \in Checks : results[c].state = "fail" THEN "fail"
    ELSE IF \A c \in Checks : results[c].state = "pass" THEN "pass"
    ELSE "pending"

Remote(w) == IF w.review = "changes_requested" THEN "fail" ELSE w.checks

Noted(w, id, feedback) == [w EXCEPT !.evidence = [id |-> id, feedback |-> feedback, queued |-> FALSE]]
Settled(w) == [w EXCEPT !.remote = Remote(w)]

(* record_evidence of a checks snapshot for the watched head.               *)
ChecksNoted(w, id, results) ==
    Settled(Noted([w EXCEPT !.results = results, !.checks = Judged(results)],
                  id, \E c \in Checks : results[c].state = "fail"))

(* The result that an event about run r leaves for its check.               *)
Selected(old, r, state) ==
    IF state = "rerequested" THEN [run |-> r, state |-> "pending", invalidated |-> TRUE]
    ELSE IF old.run \notin {NoRun, r} /\ state # "pending" THEN [old EXCEPT !.state = "pending"]
    ELSE IF old.run = r /\ old.invalidated THEN old
    ELSE [run |-> r, state |-> state, invalidated |-> FALSE]

(* A late report that a run is under way, of a run that is known to be done.*)
OldNews(old, e) ==
    /\ e.what = "pending" /\ old.run = e.subject
    /\ ~old.invalidated /\ old.state # "pending"

(* _update_reviews                                                          *)
Superseding(reviews, v) ==
    [u \in Reviews |-> IF u < v /\ Reviewer[u] = Reviewer[v] /\ reviews[u] = "changes_requested"
                       THEN "superseded" ELSE reviews[u]]

Reviewed(w, v, state) ==
    IF state = "comment" \/ (w.reviews[v] = "dismissed" /\ state # "dismissed") THEN w
    ELSE LET placed == [w.reviews EXCEPT ![v] = state]
             reviews == IF state = "approved" THEN Superseding(placed, v) ELSE placed
         IN  [w EXCEPT !.reviews = reviews,
                       !.review = IF \E u \in Reviews : reviews[u] = "changes_requested"
                                  THEN "changes_requested" ELSE state]

(* Broken: the results of the old head stay.                                *)
MovedKeepingResults(w, h) ==
    [w EXCEPT !.head = h, !.remote = "pending", !.checks = "pending", !.evidence = NoFeedback]

(* update_head: results and evidence of the old head go, reviews stay.      *)
Moved(w, h) ==
    [w EXCEPT !.head = h, !.remote = "pending", !.checks = "pending",
              !.evidence = NoFeedback, !.results = NoResults]


-----------------------------------------------------------------------------
(* Repairs *)

(* Broken: the allowance is not looked at; or one Turn of it is kept back.  *)
RepairableAlways(w, t) ==
    /\ w.enabled /\ Allows(w.revision)
    /\ w.evidence.feedback /\ ~w.evidence.queued
    /\ t.at = "free"

RepairableBelow(w, t) ==
    /\ w.enabled /\ Allows(w.revision)
    /\ w.evidence.feedback /\ ~w.evidence.queued
    /\ w.turns + 1 < MaxTurns
    /\ t.at = "free"

(* enqueue_repair, which every record of feedback tries at once and the     *)
(* host's lane tries again: one follow-up Turn per evidence.                *)
Repairable(w, t) ==
    /\ w.enabled /\ Allows(w.revision)
    /\ w.evidence.feedback /\ ~w.evidence.queued
    /\ w.turns < MaxTurns
    /\ t.at = "free"

Queued(w) == [w EXCEPT !.turns = @ + 1, !.evidence.queued = TRUE]

(* A follow-up takes its configuration from the head Turn's submission.  If *)
(* there is none (the Turn was started in the foreground) the transaction   *)
(* raises: nothing of it is recorded, the evidence included.                *)
Raises(w) == Repairable(w, thread) /\ ~thread.hosted

(* The row becomes w, and its evidence is acted on if it may be.            *)
ActOn(w) ==
    /\ ~Raises(w)
    /\ IF Repairable(w, thread)
       THEN watch' = Queued(w) /\ thread' = [thread EXCEPT !.at = "queued", !.repairs = w.head]
       ELSE watch' = w /\ UNCHANGED thread

(* resume_eligible                                                          *)
ResumeEligible ==
    /\ Repairable(watch, thread)
    /\ ActOn(watch)
    /\ UNCHANGED <<github, mail, inbox, stale, poller>>

-----------------------------------------------------------------------------
(* Webhooks *)

(* An event is consumed once, however often it is delivered.                *)
Fresh(e) == e \in mail \ inbox

Receive(e) ==
    /\ Fresh(e)
    /\ inbox' = inbox \cup {e}
    /\ UNCHANGED <<github, mail, poller>>

Ignored == UNCHANGED <<stale, watch, thread>>
Listening == watch.enabled /\ InForce

(* consume: a signed step of the head, contiguous with the watched one.     *)
ReceiveHead(e) ==
    /\ e.kind = "head" /\ Receive(e)
    /\ IF Listening /\ e.before = watch.head
       THEN watch' = Moved(watch, e.head) /\ UNCHANGED <<stale, thread>>
       ELSE Ignored

ReceiveCheck(e) ==
    /\ e.kind = "check" /\ Receive(e)
    /\ LET c == RunCheck[e.subject]
           old == watch.results[c]
           results == [watch.results EXCEPT ![c] = Selected(old, e.subject, e.what)]
       IN  IF ~Listening \/ (e.head = watch.head /\ OldNews(old, e)) THEN Ignored
           ELSE IF e.head # watch.head
           THEN stale' = stale \cup {e} /\ UNCHANGED <<watch, thread>>
           ELSE ActOn(ChecksNoted(watch, <<e>>, results)) /\ UNCHANGED stale

(* A dismissal of a review on record counts on any head.                    *)
ReceiveReview(e) ==
    /\ e.kind = "review" /\ Receive(e)
    /\ LET reviewed == Reviewed(watch, e.subject, e.what)
           feedback == e.what \in {"changes_requested", "commented", "comment"}
       IN  IF ~Listening THEN Ignored
           ELSE IF e.head = watch.head
           THEN ActOn(Settled(Noted(reviewed, <<e>>, feedback))) /\ UNCHANGED stale
           ELSE /\ stale' = stale \cup {e}
                /\ watch' = IF e.what = "dismissed" /\ watch.reviews[e.subject] # "none"
                            THEN Settled(reviewed) ELSE watch
                /\ UNCHANGED thread

Webhook == \E e \in mail : ReceiveHead(e) \/ ReceiveCheck(e) \/ ReceiveReview(e)

-----------------------------------------------------------------------------
(* Polls *)

(* reserve_poll: the attempt is spent before the query.                     *)
Reserve ==
    /\ poller.at = "idle" /\ Listening
    /\ watch.polls < MaxPolls
    /\ watch' = [watch EXCEPT !.polls = @ + 1]
    /\ poller' = [at |-> "asking", token |-> watch.head, seen |-> watch.evidence,
                  results |-> watch.results, heard |-> inbox, snapshot |-> <<>>]
    /\ UNCHANGED <<github, mail, inbox, stale, thread>>

(* poll_ci: the head and, for each check, the newest run on it.             *)
Newest(c) ==
    LET runs == {r \in Runs : RunCheck[r] = c /\ RunHead[r] = github.head /\ github.run[r] # "none"}
        newest == {r \in runs : \A q \in runs : q <= r}
    IN  IF newest = {} THEN NoResult
        ELSE LET r == CHOOSE r \in newest : TRUE
             IN  [run |-> r, state |-> github.run[r], invalidated |-> FALSE]

Snapshot == [head |-> github.head, results |-> [c \in Checks |-> Newest(c)], failed |-> FALSE]
Failure == [head |-> poller.token, results |-> NoResults, failed |-> TRUE]

PollAnswered ==
    /\ poller.at = "asking"
    /\ \E snapshot \in {Snapshot, Failure} :
           poller' = [poller EXCEPT !.at = "answered", !.snapshot = snapshot]
    /\ UNCHANGED <<github, mail, inbox, stale, watch, thread>>

(* The query ran into its own check of head and authority, or the process   *)
(* ended.                                                                   *)
PollDropped ==
    /\ poller.at # "idle"
    /\ poller' = Resting
    /\ UNCHANGED <<github, mail, inbox, stale, watch, thread>>

(* Broken: nothing is compared.                                             *)
UndisturbedAlways == TRUE

(* Nothing was recorded between reservation and commit.                     *)
Undisturbed ==
    /\ watch.evidence.id = poller.seen.id /\ watch.results = poller.results

PollId == <<"poll", watch.polls>>

Polled(snapshot) ==
    IF snapshot.head # watch.head THEN [watch EXCEPT !.remote = "head_mismatch"]
    ELSE IF snapshot.failed
    THEN Settled(Noted([watch EXCEPT !.checks = "query_error"], PollId, FALSE))
    ELSE ChecksNoted(watch, PollId, snapshot.results)

PollCommitted ==
    /\ poller.at = "answered"
    /\ poller' = Resting
    /\ IF Listening /\ watch.head = poller.token /\ Undisturbed /\ ~Raises(Polled(poller.snapshot))
       THEN ActOn(Polled(poller.snapshot))
       ELSE UNCHANGED <<watch, thread>>
    /\ UNCHANGED <<github, mail, inbox, stale>>

PollStep == Reserve \/ PollAnswered \/ PollCommitted

-----------------------------------------------------------------------------
(* The operator, and the Thread *)

SelectHead(h) ==   (* ci_head *)
    /\ Listening /\ h # watch.head
    /\ watch' = Moved(watch, h)
    /\ UNCHANGED <<github, mail, inbox, stale, poller, thread>>

Disable ==         (* disable_ci *)
    /\ watch.enabled
    /\ watch' = [watch EXCEPT !.enabled = FALSE]
    /\ UNCHANGED <<github, mail, inbox, stale, poller, thread>>

ThreadMoves(from, to) ==
    /\ thread.at = from /\ thread' = to
    /\ UNCHANGED <<github, mail, inbox, stale, watch, poller>>

(* authorize_command: a repair starts only for the head it was queued for.  *)
Current(head) == head # NoHead => Listening /\ watch.head = head

(* The user's Turn is queued for the host, or run in the foreground.        *)
UserTurn ==
    \/ ThreadMoves("free", [thread EXCEPT !.at = "queued"])
    \/ ThreadMoves("free", [thread EXCEPT !.at = "running", !.hosted = FALSE])

Freed == [thread EXCEPT !.at = "free", !.repairs = NoHead]

Admit ==
    ThreadMoves("queued", IF Current(thread.repairs) THEN [thread EXCEPT !.at = "running", !.hosted = TRUE]
                          ELSE Freed)

TurnEnds == ThreadMoves("running", Freed)

WatchStep ==
    \/ CheckStep \/ ReviewStep \/ Webhook \/ ResumeEligible \/ PollStep \/ PollDropped
    \/ (\E h \in Heads : SelectHead(h)) \/ Disable
    \/ UserTurn \/ Admit \/ TurnEnds

WatchNext ==
    \/ WatchStep /\ UNCHANGED authority
    \/ (\E granted \in BOOLEAN : Reconfigured(granted)) /\ UNCHANGED watchVars

WatchSpec == AuthorityInit /\ WatchInit /\ [][WatchNext]_<<authority, watchVars>>

-----------------------------------------------------------------------------
(* What the watch promises *)

(* A pass is earned: every subscribed check has a run on the watched head   *)
(* that GitHub completed with success, and every review that asked for      *)
(* changes and was taken on record was dismissed, or its author approved    *)
(* later; a subscription that ended takes nothing more on record.  No stale *)
(* event, skipped check, failed query or old head makes a pass              *)
(* (record_evidence, update_head and _update_reviews of ci_ops.py).         *)
Heard(v, state) == \E e \in inbox : e.kind = "review" /\ e.subject = v /\ e.what = state

Unanswered(v) ==
    /\ \E e \in inbox \ stale : e.kind = "review" /\ e.subject = v /\ e.what = "changes_requested"
    /\ ~Heard(v, "dismissed")
    /\ \A u \in Reviews : u > v /\ Reviewer[u] = Reviewer[v] => ~Heard(u, "approved")

PassIsEarned ==
    watch.remote = "pass" =>
        /\ \A c \in Checks : \E r \in Runs :
              RunCheck[r] = c /\ RunHead[r] = watch.head /\ github.run[r] = "pass"
        /\ Listening => \A v \in Reviews : ~Unanswered(v)

(* Evidence that was heard on the watched head while a query was under way  *)
(* is not overwritten by its answer (poll_one of ci.py: reserve, await,     *)
(* commit).  A head that moved away and back has no evidence left.          *)
Telling(e) == e.kind # "head" /\ e.what # "pending" /\ e \notin stale /\ e.head = watch.head

PollKeepsNews ==
    [][poller.at = "answered" /\ poller'.at = "idle"
         /\ watch.evidence # NoFeedback /\ watch'.evidence # watch.evidence
         => \A e \in inbox \ poller.heard : ~Telling(e)]_watchVars

(* Feedback that may be acted on is: it is queued, or other evidence takes  *)
(* its place, or it may no longer be acted on, or the Thread rests on a     *)
(* foreground Turn, from which no follow-up can start (resume_eligible).    *)
FeedbackIsFollowed ==
    (watch.evidence.feedback /\ ~watch.evidence.queued /\ watch.turns < MaxTurns)
        ~> (\/ watch.evidence.queued \/ ~watch.evidence.feedback
            \/ ~Listening \/ watch.turns = MaxTurns
            \/ thread.at = "free" /\ ~thread.hosted)
=============================================================================
