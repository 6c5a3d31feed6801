------------------------ MODULE CommandSession_proofs ------------------------
(***************************************************************************)
(* Type correctness of CommandSession, its inductive invariant, and that   *)
(* it implements DetachedJob, for any commands and workers.                *)
(***************************************************************************)
EXTENDS CommandSession, TLAPS

(* Whatever happens to a job happens after its launch was committed.        *)
LaunchedFirst ==
    \A c \in Commands :
        /\ Marked(c, "release") => call[c] = "launched"
        /\ Owned(c) /\ entry[c].released => Marked(c, "release")
        /\ \A w \in Workers : worker[c][w] # "none" => Marked(c, "release")

(* The run lock has one holder.  It has looked at the markers under the     *)
(* lock, so what it saw there is so until it changes it itself.             *)
OneHolder ==
    \A c \in Commands : \A v, w \in Workers :
        worker[c][v] \in Holding /\ worker[c][w] \in Holding => v = w

HolderLooked ==
    \A c \in Commands : \A w \in Workers :
        /\ worker[c][w] = "locked" => Unstarted(c)
        /\ worker[c][w] \in Holding \ {"locked"} => Marked(c, "started") /\ ~Ended(c)
        /\ worker[c][w] \in {"locked", "started"} => ran[c] = 0
        /\ worker[c][w] \in {"running", "asking", "publishing", "completing"} => ran[c] = 1

RunsLeaveMarks ==
    \A c \in Commands :
        /\ ran[c] \in {0, 1}
        /\ ran[c] = 1 => Marked(c, "started")
        /\ result[c] = "completed" => ran[c] = 1

(* What the task of an entry returned, and what was said of it, is so.      *)
True(c, x) ==
    /\ x \in {"completed", "cancelled"} => result[c] = x
    /\ x = "unknown" => Lost(c)

SaidIsTrue ==
    \A c \in Commands :
        /\ Owned(c) => True(c, entry[c].task)
        /\ \A x \in told[c] : True(c, x)

CommandFacts == LaunchedFirst /\ OneHolder /\ HolderLooked /\ RunsLeaveMarks /\ SaidIsTrue
CommandInv == CommandTypeOK /\ CommandFacts

(* The notation of the module, expanded wherever it occurs.                 *)
USE DEF Owned, AtTask, Marked, Ended, Add, Move, At, Holders, LockFree, Unstarted, Lost, ProcessEnded,
        OnlyEntry, OnlyWorker, jobDirectory, effects

-----------------------------------------------------------------------------
LEMMA CommandTypeInit == CommandInit => CommandTypeOK
  BY DEF CommandInit, CommandTypeOK, NoEntry, WorkerState

LEMMA EntryIsTyped == CommandTypeOK => \A c \in Commands : Owned(c) <=> entry[c] \in Entry
  BY DEF CommandTypeOK, Owned, Entry, NoEntry, Owners

(* Types *)
LEMMA ReturnIsTyped ==
    ASSUME CommandTypeOK, NEW c \in Commands, NEW task \in Live \cup Outcome, Owned(c), Return(c, task)
    PROVE  entry' \in [Commands -> Entry \cup {NoEntry}]
  <1>1. entry[c] \in Entry
    BY EntryIsTyped
  <1>2. [entry[c] EXCEPT !.task = task, !.revoked = @ \/ ~matching] \in Entry
    BY <1>1 DEF Entry
  <1> QED
    BY <1>2 DEF Return, CommandTypeOK

LEMMA MoveIsTyped ==
    ASSUME CommandTypeOK, NEW c \in Commands, NEW w \in Workers, NEW state \in WorkerState, Move(c, w,
           state)
    PROVE  worker' \in [Commands -> [Workers -> WorkerState]]
  BY DEF Move, CommandTypeOK

LEMMA ForgetIsTyped ==
    ASSUME CommandTypeOK, NEW gone, Forget(gone)
    PROVE  entry' \in [Commands -> Entry \cup {NoEntry}]
  BY DEF Forget, CommandTypeOK

LEMMA FieldsAreTyped ==
    ASSUME CommandTypeOK, NEW c \in Commands, Owned(c)
    PROVE  /\ [entry EXCEPT ![c].released = TRUE] \in [Commands -> Entry \cup {NoEntry}]
           /\ [entry EXCEPT ![c].revoked = TRUE] \in [Commands -> Entry \cup {NoEntry}]
           /\ \A w \in Workers : [entry EXCEPT ![c].process = w] \in [Commands -> Entry \cup {NoEntry}]
  <1>1. entry[c] \in Entry
    BY EntryIsTyped
  <1>2. /\ [entry[c] EXCEPT !.released = TRUE] \in Entry
        /\ [entry[c] EXCEPT !.revoked = TRUE] \in Entry
        /\ \A w \in Workers : [entry[c] EXCEPT !.process = w] \in Entry
    BY <1>1 DEF Entry
  <1> QED
    BY <1>2 DEF CommandTypeOK

LEMMA TypeStep ==
    ASSUME CommandTypeOK, CommandNext
    PROVE  CommandTypeOK'
  <1>1. ASSUME NEW c \in Commands, Start(c) PROVE CommandTypeOK'
    BY <1>1 DEF Start, CommandTypeOK, Entry, Owners, Live
  <1>2. ASSUME NEW c \in Commands, CommitLaunch(c) PROVE CommandTypeOK'
    BY <1>2 DEF CommitLaunch, CommandTypeOK
  <1>3. ASSUME NEW c \in Commands, Release(c) PROVE CommandTypeOK'
    BY <1>3, FieldsAreTyped DEF Release, CommandTypeOK, Marker
  <1>4. ASSUME NEW c \in Commands, CancelPrepared(c) PROVE CommandTypeOK'
    BY <1>4, ReturnIsTyped DEF CancelPrepared, CommandTypeOK, Live, Outcome
  <1>5. ASSUME NEW c \in Commands, CancelUnstarted(c) PROVE CommandTypeOK'
    BY <1>5, ReturnIsTyped DEF CancelUnstarted, CommandTypeOK, Live, Outcome, Marker
  <1>6. ASSUME NEW c \in Commands, CancelStarted(c) PROVE CommandTypeOK'
    BY <1>6, ReturnIsTyped DEF CancelStarted, CommandTypeOK, Live, Outcome, Marker
  <1>7. ASSUME NEW c \in Commands, CancelAgain(c) PROVE CommandTypeOK'
    BY <1>7, ReturnIsTyped DEF CancelAgain, CommandTypeOK, Live, Outcome
  <1>8. ASSUME NEW c \in Commands, Report(c) PROVE CommandTypeOK'
    BY <1>8 DEF Report, CommandTypeOK, Sayable, Outcome
  <1>9. ASSUME NEW c \in Commands, Drop(c) PROVE CommandTypeOK'
    BY <1>9, ForgetIsTyped DEF Drop, CommandTypeOK
  <1>10. ASSUME NEW c \in Commands, NEW o \in Owners, Attach(o, c) PROVE CommandTypeOK'
    BY <1>10 DEF Attach, CommandTypeOK, Attached, Entry, Live, Marker
  <1>11. ASSUME NEW c \in Commands, NEW o \in Owners, NEW w \in Workers, AttachAndSpawn(o, c, w)
         PROVE  CommandTypeOK'
    BY <1>11, MoveIsTyped DEF AttachAndSpawn, CommandTypeOK, Attached, Entry, Live, Marker, WorkerState
  <1>12. ASSUME NEW c \in Commands, Withhold(c) PROVE CommandTypeOK'
    BY <1>12, FieldsAreTyped DEF Withhold, CommandTypeOK, Marker
  <1>13. ASSUME NEW c \in Commands, SeeResult(c) PROVE CommandTypeOK'
    BY <1>13, ReturnIsTyped DEF SeeResult, CommandTypeOK, Live, Outcome, InRound
  <1>14. ASSUME NEW c \in Commands, SeeLost(c) PROVE CommandTypeOK'
    BY <1>14, ReturnIsTyped DEF SeeLost, CommandTypeOK, Live, Outcome, InRound
  <1>15. ASSUME NEW c \in Commands, SeeUnavailable(c) PROVE CommandTypeOK'
    BY <1>15, ReturnIsTyped DEF SeeUnavailable, CommandTypeOK, Live, Outcome, InRound
  <1>16. ASSUME NEW c \in Commands, Permit(c) PROVE CommandTypeOK'
    BY <1>16 DEF Permit, CommandTypeOK, Marker
  <1>17. ASSUME NEW c \in Commands, Reap(c) PROVE CommandTypeOK'
    BY <1>17, ReturnIsTyped DEF Reap, CommandTypeOK, Live, Outcome
  <1>18. ASSUME NEW c \in Commands, ReapLost(c) PROVE CommandTypeOK'
    BY <1>18, ReturnIsTyped DEF ReapLost, CommandTypeOK, Live, Outcome
  <1>19. ASSUME NEW c \in Commands, ReapUnavailable(c) PROVE CommandTypeOK'
    BY <1>19, ReturnIsTyped DEF ReapUnavailable, CommandTypeOK, Live, Outcome
  <1>20. ASSUME NEW c \in Commands, NEW w \in Workers, Spawn(c, w) PROVE CommandTypeOK'
    BY <1>20, FieldsAreTyped, MoveIsTyped DEF Spawn, CommandTypeOK, InRound, WorkerState
  <1>21. ASSUME NEW c \in Commands, NEW w \in Workers, TakeLock(c, w) PROVE CommandTypeOK'
    BY <1>21, MoveIsTyped DEF TakeLock, CommandTypeOK, WorkerState
  <1>22. ASSUME NEW c \in Commands, NEW w \in Workers, LockRefused(c, w) PROVE CommandTypeOK'
    BY <1>22, MoveIsTyped DEF LockRefused, CommandTypeOK, WorkerState
  <1>23. ASSUME NEW c \in Commands, NEW w \in Workers, MarkStarted(c, w) PROVE CommandTypeOK'
    BY <1>23, MoveIsTyped DEF MarkStarted, CommandTypeOK, Marker, WorkerState
  <1>24. ASSUME NEW c \in Commands, NEW w \in Workers, Execute(c, w) PROVE CommandTypeOK'
    <2>1. ran' \in [Commands -> Nat]
      BY <1>24 DEF Execute, CommandTypeOK
    <2> QED
      BY <1>24, <2>1, MoveIsTyped DEF Execute, CommandTypeOK, WorkerState
  <1>25. ASSUME NEW c \in Commands, NEW w \in Workers, Finish(c, w) PROVE CommandTypeOK'
    BY <1>25, MoveIsTyped DEF Finish, CommandTypeOK, WorkerState
  <1>26. ASSUME NEW c \in Commands, NEW w \in Workers, RequestPublication(c, w) PROVE CommandTypeOK'
    BY <1>26, MoveIsTyped DEF RequestPublication, CommandTypeOK, Marker, WorkerState
  <1>27. ASSUME NEW c \in Commands, NEW w \in Workers, Permitted(c, w) PROVE CommandTypeOK'
    BY <1>27, MoveIsTyped DEF Permitted, CommandTypeOK, WorkerState
  <1>28. ASSUME NEW c \in Commands, NEW w \in Workers, Publish(c, w) PROVE CommandTypeOK'
    BY <1>28, MoveIsTyped DEF Publish, CommandTypeOK, MayPublish, WorkerState
  <1>29. ASSUME NEW c \in Commands, NEW w \in Workers, Interrupt(c, w) PROVE CommandTypeOK'
    BY <1>29, MoveIsTyped DEF Interrupt, CommandTypeOK, MayPublish, WorkerState
  <1>30. ASSUME NEW c \in Commands, NEW w \in Workers, WriteResult(c, w) PROVE CommandTypeOK'
    BY <1>30, MoveIsTyped DEF WriteResult, CommandTypeOK, WorkerState
  <1>31. ASSUME NEW c \in Commands, NEW w \in Workers, WorkerLost(c, w) PROVE CommandTypeOK'
    BY <1>31, MoveIsTyped DEF WorkerLost, CommandTypeOK, MayPublish, WorkerState
  <1>32. ASSUME Detach PROVE CommandTypeOK'
    BY <1>32, ForgetIsTyped DEF Detach, CommandTypeOK
  <1>33. ASSUME PolicyChanges PROVE CommandTypeOK'
    BY <1>33 DEF PolicyChanges, CommandTypeOK
  <1>34. ASSUME NEW o \in Owners, Crash(o) PROVE CommandTypeOK'
    BY <1>34, ForgetIsTyped DEF Crash, CommandTypeOK
  <1> QED
    BY <1>1, <1>2, <1>3, <1>4, <1>5, <1>6, <1>7, <1>8, <1>9, <1>10, <1>11, <1>12, <1>13, <1>14, <1>15,
       <1>16, <1>17, <1>18, <1>19, <1>20, <1>21, <1>22, <1>23, <1>24, <1>25, <1>26, <1>27, <1>28, <1>29,
       <1>30, <1>31, <1>32, <1>33, <1>34
    DEF CommandNext, OwnerStep, TaskStep, WorkerStep, CommandEnds

LEMMA FactsStep ==
    ASSUME CommandInv, CommandTypeOK', CommandNext
    PROVE  CommandFacts'
  <1> USE DEF CommandInv
  <1>1. ASSUME NEW c \in Commands, Start(c) PROVE CommandFacts'
    <2>1. LaunchedFirst'
      BY <1>1 DEF Start, Live, WorkerState, NoEntry, CommandFacts, LaunchedFirst
    <2>2. SaidIsTrue'
      BY <1>1
      DEF Start, Live, WorkerState, NoEntry, CommandFacts, LaunchedFirst, RunsLeaveMarks, SaidIsTrue, True
    <2> QED
      BY <1>1, <2>1, <2>2
      DEF Start, Live, WorkerState, CommandFacts, OneHolder, RunsLeaveMarks, HolderLooked
  <1>2. ASSUME NEW c \in Commands, CommitLaunch(c) PROVE CommandFacts'
    <2>1. LaunchedFirst'
      BY <1>2 DEF CommitLaunch, WorkerState, NoEntry, CommandFacts, LaunchedFirst
    <2> QED
      BY <1>2, <2>1
      DEF CommitLaunch, WorkerState, CommandFacts, OneHolder, RunsLeaveMarks, SaidIsTrue, True,
          HolderLooked
  <1>3. ASSUME NEW c \in Commands, Release(c) PROVE CommandFacts'
    <2>1. LaunchedFirst'
      BY <1>3 DEF Release, CommandTypeOK, WorkerState, NoEntry, CommandFacts, LaunchedFirst
    <2> QED
      BY <1>3, <2>1
      DEF Release, WorkerState, CommandFacts, OneHolder, RunsLeaveMarks, SaidIsTrue, True, HolderLooked
  <1>4. ASSUME NEW c \in Commands, CancelPrepared(c) PROVE CommandFacts'
    <2>1. LaunchedFirst'
      BY <1>4 DEF CancelPrepared, Return, CommandTypeOK, WorkerState, NoEntry, CommandFacts, LaunchedFirst
    <2>2. SaidIsTrue'
      BY <1>4
      DEF CancelPrepared, Return, CommandTypeOK, WorkerState, Entry, NoEntry, CommandFacts, LaunchedFirst,
          RunsLeaveMarks, SaidIsTrue, True
    <2> QED
      BY <1>4, <2>1, <2>2
      DEF CancelPrepared, Return, WorkerState, CommandFacts, OneHolder, RunsLeaveMarks, HolderLooked
  <1>5. ASSUME NEW c \in Commands, CancelUnstarted(c) PROVE CommandFacts'
    <2>1. HolderLooked'
      BY <1>5
      DEF CancelUnstarted, Claimable, Return, WorkerState, NoEntry, CommandFacts, OneHolder,
          RunsLeaveMarks, HolderLooked, Holding
    <2>2. RunsLeaveMarks'
      BY <1>5 DEF CancelUnstarted, Return, WorkerState, NoEntry, CommandFacts, RunsLeaveMarks
    <2>3. SaidIsTrue'
      BY <1>5
      DEF CancelUnstarted, Claimable, Return, CommandTypeOK, WorkerState, NoEntry, CommandFacts,
          LaunchedFirst, RunsLeaveMarks, SaidIsTrue, True
    <2> QED
      BY <1>5, <2>1, <2>2, <2>3
      DEF CancelUnstarted, Return, CommandTypeOK, WorkerState, CommandFacts, LaunchedFirst, OneHolder
  <1>6. ASSUME NEW c \in Commands, CancelStarted(c) PROVE CommandFacts'
    <2>1. LaunchedFirst'
      BY <1>6 DEF CancelStarted, Return, CommandTypeOK, WorkerState, NoEntry, CommandFacts, LaunchedFirst
    <2>2. SaidIsTrue'
      BY <1>6
      DEF CancelStarted, Return, CommandTypeOK, WorkerState, NoEntry, CommandFacts, LaunchedFirst,
          RunsLeaveMarks, SaidIsTrue, True
    <2> QED
      BY <1>6, <2>1, <2>2
      DEF CancelStarted, Return, WorkerState, CommandFacts, OneHolder, RunsLeaveMarks, HolderLooked
  <1>7. ASSUME NEW c \in Commands, CancelAgain(c) PROVE CommandFacts'
    <2>1. LaunchedFirst'
      BY <1>7 DEF CancelAgain, Return, CommandTypeOK, WorkerState, NoEntry, CommandFacts, LaunchedFirst
    <2>2. SaidIsTrue'
      BY <1>7
      DEF CancelAgain, Return, CommandTypeOK, WorkerState, NoEntry, CommandFacts, LaunchedFirst,
          RunsLeaveMarks, SaidIsTrue, True
    <2> QED
      BY <1>7, <2>1, <2>2
      DEF CancelAgain, Return, WorkerState, CommandFacts, OneHolder, RunsLeaveMarks, HolderLooked
  <1>8. ASSUME NEW c \in Commands, Report(c) PROVE CommandFacts'
    <2>1. SaidIsTrue'
      BY <1>8
      DEF Report, Sayable, WorkerState, NoEntry, CommandFacts, LaunchedFirst, RunsLeaveMarks, SaidIsTrue,
          True
    <2> QED
      BY <1>8, <2>1
      DEF Report, Sayable, WorkerState, CommandFacts, LaunchedFirst, OneHolder, RunsLeaveMarks,
          HolderLooked
  <1>9. ASSUME NEW c \in Commands, Drop(c) PROVE CommandFacts'
    <2>1. LaunchedFirst'
      BY <1>9 DEF Drop, Forget, WorkerState, NoEntry, CommandFacts, LaunchedFirst
    <2>2. SaidIsTrue'
      BY <1>9
      DEF Drop, Forget, WorkerState, NoEntry, CommandFacts, LaunchedFirst, RunsLeaveMarks, SaidIsTrue,
          True
    <2> QED
      BY <1>9, <2>1, <2>2 DEF Drop, WorkerState, CommandFacts, OneHolder, RunsLeaveMarks, HolderLooked
  <1>10. ASSUME NEW c \in Commands, NEW o \in Owners, Attach(o, c) PROVE CommandFacts'
    <2>1. LaunchedFirst'
      BY <1>10 DEF Attach, Attached, CommandTypeOK, WorkerState, NoEntry, CommandFacts, LaunchedFirst
    <2>2. SaidIsTrue'
      BY <1>10
      DEF Attach, Attached, WorkerState, NoEntry, CommandFacts, LaunchedFirst, RunsLeaveMarks, SaidIsTrue,
          True
    <2> QED
      BY <1>10, <2>1, <2>2
      DEF Attach, Attached, WorkerState, CommandFacts, OneHolder, RunsLeaveMarks, HolderLooked
  <1>11. ASSUME NEW c \in Commands, NEW o \in Owners, NEW w \in Workers, AttachAndSpawn(o, c, w)
         PROVE  CommandFacts'
    <2>1. LaunchedFirst'
      BY <1>11
      DEF AttachAndSpawn, Attached, CommandTypeOK, WorkerState, NoEntry, CommandFacts, LaunchedFirst
    <2>2. OneHolder'
      BY <1>11 DEF AttachAndSpawn, WorkerState, NoEntry, CommandFacts, OneHolder, Holding
    <2>3. HolderLooked'
      BY <1>11
      DEF AttachAndSpawn, Attached, WorkerState, NoEntry, CommandFacts, OneHolder, RunsLeaveMarks,
          HolderLooked, Holding
    <2>4. SaidIsTrue'
      BY <1>11
      DEF AttachAndSpawn, Attached, WorkerState, NoEntry, CommandFacts, LaunchedFirst, RunsLeaveMarks,
          SaidIsTrue, True
    <2> QED
      BY <1>11, <2>1, <2>2, <2>3, <2>4
      DEF AttachAndSpawn, Attached, WorkerState, CommandFacts, RunsLeaveMarks
  <1>12. ASSUME NEW c \in Commands, Withhold(c) PROVE CommandFacts'
    <2>1. LaunchedFirst'
      BY <1>12 DEF Withhold, WorkerState, NoEntry, CommandFacts, LaunchedFirst
    <2> QED
      BY <1>12, <2>1
      DEF Withhold, WorkerState, CommandFacts, OneHolder, RunsLeaveMarks, SaidIsTrue, True, HolderLooked
  <1>13. ASSUME NEW c \in Commands, SeeResult(c) PROVE CommandFacts'
    <2>1. LaunchedFirst'
      BY <1>13
      DEF SeeResult, InRound, Return, CommandTypeOK, WorkerState, NoEntry, CommandFacts, LaunchedFirst
    <2>2. SaidIsTrue'
      BY <1>13
      DEF SeeResult, InRound, Return, CommandTypeOK, WorkerState, NoEntry, CommandFacts, LaunchedFirst,
          RunsLeaveMarks, SaidIsTrue, True
    <2> QED
      BY <1>13, <2>1, <2>2
      DEF SeeResult, InRound, Return, WorkerState, CommandFacts, OneHolder, RunsLeaveMarks, HolderLooked
  <1>14. ASSUME NEW c \in Commands, SeeLost(c) PROVE CommandFacts'
    <2>1. LaunchedFirst'
      BY <1>14
      DEF SeeLost, InRound, Return, CommandTypeOK, WorkerState, NoEntry, CommandFacts, LaunchedFirst
    <2>2. SaidIsTrue'
      BY <1>14
      DEF SeeLost, InRound, Return, CommandTypeOK, WorkerState, NoEntry, CommandFacts, LaunchedFirst,
          RunsLeaveMarks, SaidIsTrue, True
    <2> QED
      BY <1>14, <2>1, <2>2
      DEF SeeLost, InRound, Return, WorkerState, CommandFacts, OneHolder, RunsLeaveMarks, HolderLooked
  <1>15. ASSUME NEW c \in Commands, SeeUnavailable(c) PROVE CommandFacts'
    <2>1. LaunchedFirst'
      BY <1>15
      DEF SeeUnavailable, InRound, Return, CommandTypeOK, WorkerState, NoEntry, CommandFacts,
          LaunchedFirst
    <2>2. SaidIsTrue'
      BY <1>15
      DEF SeeUnavailable, InRound, Return, CommandTypeOK, WorkerState, NoEntry, CommandFacts,
          LaunchedFirst, RunsLeaveMarks, SaidIsTrue, True
    <2> QED
      BY <1>15, <2>1, <2>2
      DEF SeeUnavailable, InRound, Return, WorkerState, CommandFacts, OneHolder, RunsLeaveMarks,
          HolderLooked
  <1>16. ASSUME NEW c \in Commands, Permit(c) PROVE CommandFacts'
    <2>1. LaunchedFirst'
      BY <1>16 DEF Permit, InRound, WorkerState, NoEntry, CommandFacts, LaunchedFirst
    <2> QED
      BY <1>16, <2>1
      DEF Permit, InRound, WorkerState, CommandFacts, OneHolder, RunsLeaveMarks, SaidIsTrue, True,
          HolderLooked
  <1>17. ASSUME NEW c \in Commands, Reap(c) PROVE CommandFacts'
    <2>1. LaunchedFirst'
      BY <1>17 DEF Reap, Return, CommandTypeOK, WorkerState, NoEntry, CommandFacts, LaunchedFirst
    <2>2. SaidIsTrue'
      BY <1>17
      DEF Reap, Return, CommandTypeOK, WorkerState, NoEntry, CommandFacts, LaunchedFirst, RunsLeaveMarks,
          SaidIsTrue, True
    <2> QED
      BY <1>17, <2>1, <2>2
      DEF Reap, Return, WorkerState, CommandFacts, OneHolder, RunsLeaveMarks, HolderLooked
  <1>18. ASSUME NEW c \in Commands, ReapLost(c) PROVE CommandFacts'
    <2>1. LaunchedFirst'
      BY <1>18 DEF ReapLost, Return, CommandTypeOK, WorkerState, NoEntry, CommandFacts, LaunchedFirst
    <2>2. SaidIsTrue'
      BY <1>18
      DEF ReapLost, Return, CommandTypeOK, WorkerState, NoEntry, CommandFacts, LaunchedFirst,
          RunsLeaveMarks, SaidIsTrue, True
    <2> QED
      BY <1>18, <2>1, <2>2
      DEF ReapLost, Return, WorkerState, CommandFacts, OneHolder, RunsLeaveMarks, HolderLooked
  <1>19. ASSUME NEW c \in Commands, ReapUnavailable(c) PROVE CommandFacts'
    <2>1. LaunchedFirst'
      BY <1>19 DEF ReapUnavailable, Return, CommandTypeOK, WorkerState, NoEntry, CommandFacts, LaunchedFirst
    <2>2. SaidIsTrue'
      BY <1>19
      DEF ReapUnavailable, Return, CommandTypeOK, WorkerState, NoEntry, CommandFacts, LaunchedFirst,
          RunsLeaveMarks, SaidIsTrue, True
    <2> QED
      BY <1>19, <2>1, <2>2
      DEF ReapUnavailable, Return, WorkerState, CommandFacts, OneHolder, RunsLeaveMarks, HolderLooked
  <1>20. ASSUME NEW c \in Commands, NEW w \in Workers, Spawn(c, w) PROVE CommandFacts'
    <2>1. LaunchedFirst'
      BY <1>20 DEF Spawn, InRound, WorkerState, NoEntry, CommandFacts, LaunchedFirst
    <2>2. OneHolder'
      BY <1>20 DEF Spawn, InRound, WorkerState, NoEntry, CommandFacts, OneHolder, Holding
    <2>3. HolderLooked'
      BY <1>20
      DEF Spawn, InRound, WorkerState, NoEntry, CommandFacts, OneHolder, RunsLeaveMarks, HolderLooked,
          Holding
    <2>4. SaidIsTrue'
      BY <1>20
      DEF Spawn, InRound, WorkerState, NoEntry, CommandFacts, LaunchedFirst, RunsLeaveMarks, SaidIsTrue,
          True
    <2> QED
      BY <1>20, <2>1, <2>2, <2>3, <2>4 DEF Spawn, InRound, WorkerState, CommandFacts, RunsLeaveMarks
  <1>21. ASSUME NEW c \in Commands, NEW w \in Workers, TakeLock(c, w) PROVE CommandFacts'
    <2>1. OneHolder'
      BY <1>21 DEF TakeLock, Startable, WorkerState, NoEntry, CommandFacts, OneHolder
    <2>2. HolderLooked'
      BY <1>21
      DEF TakeLock, Startable, WorkerState, NoEntry, CommandFacts, OneHolder, RunsLeaveMarks,
          HolderLooked, Holding
    <2>3. SaidIsTrue'
      BY <1>21
      DEF TakeLock, Startable, WorkerState, NoEntry, CommandFacts, LaunchedFirst, RunsLeaveMarks,
          SaidIsTrue, True, Holding
    <2> QED
      BY <1>21, <2>1, <2>2, <2>3
      DEF TakeLock, Startable, WorkerState, CommandFacts, LaunchedFirst, RunsLeaveMarks
  <1>22. ASSUME NEW c \in Commands, NEW w \in Workers, LockRefused(c, w) PROVE CommandFacts'
    <2>1. HolderLooked'
      BY <1>22
      DEF LockRefused, WorkerState, NoEntry, CommandFacts, OneHolder, RunsLeaveMarks, HolderLooked,
          Holding
    <2>2. SaidIsTrue'
      BY <1>22
      DEF LockRefused, WorkerState, NoEntry, CommandFacts, LaunchedFirst, RunsLeaveMarks, SaidIsTrue,
          True, Holding
    <2> QED
      BY <1>22, <2>1, <2>2
      DEF LockRefused, WorkerState, CommandFacts, LaunchedFirst, OneHolder, RunsLeaveMarks, Holding
  <1>23. ASSUME NEW c \in Commands, NEW w \in Workers, MarkStarted(c, w) PROVE CommandFacts'
    <2>1. HolderLooked'
      BY <1>23
      DEF MarkStarted, CommandTypeOK, WorkerState, Entry, NoEntry, CommandFacts, OneHolder,
          RunsLeaveMarks, HolderLooked, Holding
    <2>2. SaidIsTrue'
      BY <1>23
      DEF MarkStarted, WorkerState, NoEntry, CommandFacts, LaunchedFirst, RunsLeaveMarks, SaidIsTrue,
          True, Holding
    <2> QED
      BY <1>23, <2>1, <2>2
      DEF MarkStarted, WorkerState, CommandFacts, LaunchedFirst, OneHolder, RunsLeaveMarks, Holding
  <1>24. ASSUME NEW c \in Commands, NEW w \in Workers, Execute(c, w) PROVE CommandFacts'
    <2>1. HolderLooked'
      BY <1>24
      DEF Execute, CommandTypeOK, WorkerState, NoEntry, CommandFacts, OneHolder, RunsLeaveMarks,
          HolderLooked, Holding
    <2>2. RunsLeaveMarks'
      BY <1>24 DEF Execute, WorkerState, NoEntry, CommandFacts, RunsLeaveMarks, HolderLooked, Holding
    <2> QED
      BY <1>24, <2>1, <2>2
      DEF Execute, WorkerState, CommandFacts, LaunchedFirst, OneHolder, SaidIsTrue, True, Holding
  <1>25. ASSUME NEW c \in Commands, NEW w \in Workers, Finish(c, w) PROVE CommandFacts'
    <2>1. HolderLooked'
      BY <1>25
      DEF Finish, WorkerState, NoEntry, CommandFacts, OneHolder, RunsLeaveMarks, HolderLooked, Holding
    <2>2. SaidIsTrue'
      BY <1>25
      DEF Finish, WorkerState, NoEntry, CommandFacts, LaunchedFirst, RunsLeaveMarks, SaidIsTrue, True,
          Holding
    <2> QED
      BY <1>25, <2>1, <2>2
      DEF Finish, WorkerState, CommandFacts, LaunchedFirst, OneHolder, RunsLeaveMarks, Holding
  <1>26. ASSUME NEW c \in Commands, NEW w \in Workers, RequestPublication(c, w) PROVE CommandFacts'
    <2>1. HolderLooked'
      BY <1>26
      DEF RequestPublication, WorkerState, NoEntry, CommandFacts, OneHolder, RunsLeaveMarks, HolderLooked,
          Holding
    <2>2. SaidIsTrue'
      BY <1>26
      DEF RequestPublication, WorkerState, NoEntry, CommandFacts, LaunchedFirst, RunsLeaveMarks,
          SaidIsTrue, True, Holding
    <2> QED
      BY <1>26, <2>1, <2>2
      DEF RequestPublication, WorkerState, CommandFacts, LaunchedFirst, OneHolder, RunsLeaveMarks, Holding
  <1>27. ASSUME NEW c \in Commands, NEW w \in Workers, Permitted(c, w) PROVE CommandFacts'
    <2>1. HolderLooked'
      BY <1>27
      DEF Permitted, WorkerState, NoEntry, CommandFacts, OneHolder, RunsLeaveMarks, HolderLooked, Holding
    <2>2. SaidIsTrue'
      BY <1>27
      DEF Permitted, WorkerState, NoEntry, CommandFacts, LaunchedFirst, RunsLeaveMarks, SaidIsTrue, True,
          Holding
    <2> QED
      BY <1>27, <2>1, <2>2
      DEF Permitted, WorkerState, CommandFacts, LaunchedFirst, OneHolder, RunsLeaveMarks, Holding
  <1>28. ASSUME NEW c \in Commands, NEW w \in Workers, Publish(c, w) PROVE CommandFacts'
    <2>1. HolderLooked'
      BY <1>28
      DEF Publish, MayPublish, WorkerState, NoEntry, CommandFacts, OneHolder, RunsLeaveMarks,
          HolderLooked, Holding
    <2>2. SaidIsTrue'
      BY <1>28
      DEF Publish, MayPublish, WorkerState, NoEntry, CommandFacts, LaunchedFirst, RunsLeaveMarks,
          SaidIsTrue, True, Holding
    <2> QED
      BY <1>28, <2>1, <2>2
      DEF Publish, MayPublish, WorkerState, CommandFacts, LaunchedFirst, OneHolder, RunsLeaveMarks,
          Holding
  <1>29. ASSUME NEW c \in Commands, NEW w \in Workers, Interrupt(c, w) PROVE CommandFacts'
    <2>1. HolderLooked'
      BY <1>29
      DEF Interrupt, MayPublish, WorkerState, NoEntry, CommandFacts, OneHolder, RunsLeaveMarks,
          HolderLooked, Holding
    <2>2. SaidIsTrue'
      BY <1>29
      DEF Interrupt, MayPublish, WorkerState, NoEntry, CommandFacts, LaunchedFirst, RunsLeaveMarks,
          SaidIsTrue, True, Holding
    <2> QED
      BY <1>29, <2>1, <2>2
      DEF Interrupt, MayPublish, WorkerState, CommandFacts, LaunchedFirst, OneHolder, RunsLeaveMarks,
          Holding
  <1>30. ASSUME NEW c \in Commands, NEW w \in Workers, WriteResult(c, w) PROVE CommandFacts'
    <2>1. HolderLooked'
      BY <1>30
      DEF WriteResult, CommandTypeOK, WorkerState, NoEntry, CommandFacts, OneHolder, RunsLeaveMarks,
          HolderLooked, Holding
    <2>2. RunsLeaveMarks'
      BY <1>30 DEF WriteResult, WorkerState, NoEntry, CommandFacts, RunsLeaveMarks, HolderLooked
    <2>3. SaidIsTrue'
      BY <1>30
      DEF WriteResult, WorkerState, NoEntry, CommandFacts, LaunchedFirst, RunsLeaveMarks, SaidIsTrue,
          True, HolderLooked, Holding
    <2> QED
      BY <1>30, <2>1, <2>2, <2>3
      DEF WriteResult, WorkerState, CommandFacts, LaunchedFirst, OneHolder, Holding
  <1>31. ASSUME NEW c \in Commands, NEW w \in Workers, WorkerLost(c, w) PROVE CommandFacts'
    <2>1. HolderLooked'
      BY <1>31
      DEF WorkerLost, MayPublish, WorkerState, NoEntry, CommandFacts, OneHolder, RunsLeaveMarks,
          HolderLooked, Holding
    <2>2. SaidIsTrue'
      BY <1>31
      DEF WorkerLost, MayPublish, WorkerState, NoEntry, CommandFacts, LaunchedFirst, RunsLeaveMarks,
          SaidIsTrue, True, Holding
    <2> QED
      BY <1>31, <2>1, <2>2
      DEF WorkerLost, MayPublish, WorkerState, CommandFacts, LaunchedFirst, OneHolder, RunsLeaveMarks,
          Holding
  <1>32. ASSUME Detach PROVE CommandFacts'
    <2>1. LaunchedFirst'
      BY <1>32 DEF Detach, Forget, WorkerState, NoEntry, CommandFacts, LaunchedFirst
    <2>2. SaidIsTrue'
      BY <1>32
      DEF Detach, Forget, WorkerState, NoEntry, CommandFacts, LaunchedFirst, RunsLeaveMarks, SaidIsTrue,
          True
    <2> QED
      BY <1>32, <2>1, <2>2 DEF Detach, WorkerState, CommandFacts, OneHolder, RunsLeaveMarks, HolderLooked
  <1>33. ASSUME PolicyChanges PROVE CommandFacts'
    <2> QED
      BY <1>33
      DEF PolicyChanges, WorkerState, CommandFacts, LaunchedFirst, OneHolder, RunsLeaveMarks, SaidIsTrue,
          True, HolderLooked
  <1>34. ASSUME NEW o \in Owners, Crash(o) PROVE CommandFacts'
    <2>1. LaunchedFirst'
      BY <1>34 DEF Crash, Forget, WorkerState, NoEntry, CommandFacts, LaunchedFirst
    <2>2. SaidIsTrue'
      BY <1>34
      DEF Crash, Forget, WorkerState, NoEntry, CommandFacts, LaunchedFirst, RunsLeaveMarks, SaidIsTrue,
          True
    <2> QED
      BY <1>34, <2>1, <2>2 DEF Crash, WorkerState, CommandFacts, OneHolder, RunsLeaveMarks, HolderLooked
  <1> QED
    BY <1>1, <1>2, <1>3, <1>4, <1>5, <1>6, <1>7, <1>8, <1>9, <1>10, <1>11, <1>12, <1>13, <1>14, <1>15,
       <1>16, <1>17, <1>18, <1>19, <1>20, <1>21, <1>22, <1>23, <1>24, <1>25, <1>26, <1>27, <1>28, <1>29,
       <1>30, <1>31, <1>32, <1>33, <1>34
    DEF CommandNext, OwnerStep, TaskStep, WorkerStep, CommandEnds

LEMMA CommandFactsInit == CommandInit => CommandFacts
  BY DEF CommandInit, CommandFacts, LaunchedFirst, OneHolder, HolderLooked, RunsLeaveMarks, SaidIsTrue,
         NoEntry, Holding

(* Calls, job directories, entries and workers keep their types, whatever   *)
(* owners and workers do to them and whichever of them is lost.             *)
THEOREM CommandsAreTyped == CommandSpec => []CommandTypeOK
  <1>1. CommandTypeOK /\ UNCHANGED commandVars => CommandTypeOK'
    BY DEF CommandTypeOK, commandVars
  <1> QED
    BY CommandTypeInit, TypeStep, <1>1, PTL DEF CommandSpec

(* The inductive invariant holds: a worker starts only on a committed and    *)
(* released launch, one worker holds the run lock of a command, a command   *)
(* runs at most once and leaves its marks, and every outcome that was said  *)
(* of it is so (command_supervisor.py, command_worker.py).                  *)
THEOREM CommandInvariant == CommandSpec => []CommandInv
  <1>1. CommandInit => CommandInv
    BY CommandTypeInit, CommandFactsInit DEF CommandInv
  <1>2. CommandInv /\ CommandNext => CommandInv'
    BY TypeStep, FactsStep DEF CommandInv
  <1>3. CommandInv /\ UNCHANGED commandVars => CommandInv'
    BY DEF CommandInv, CommandTypeOK, CommandFacts, LaunchedFirst, OneHolder, HolderLooked, RunsLeaveMarks,
           SaidIsTrue, True, commandVars
  <1> QED
    BY <1>1, <1>2, <1>3, PTL DEF CommandSpec

-----------------------------------------------------------------------------
(* The promise *)

JobStep == Job!Next \/ UNCHANGED Job!jobVars

LEMMA UnseenStep ==
    ASSUME LaunchedJobs' = LaunchedJobs, UNCHANGED <<ran, published, result, told>>
    PROVE  JobStep
  BY DEF JobStep, Job!jobVars

(* The holder of the run lock, past the markers, may act on its job:        *)
(* nothing was said yet that rules it out.                                  *)
LEMMA HolderMayAct ==
    ASSUME CommandInv, NEW c \in Commands, NEW w \in Workers, worker[c][w] \in Holding \ {"locked"}
    PROVE  call[c] = "launched" /\ result[c] = "none" /\ ~Job!Settled(c)
  <1>1. call[c] = "launched" /\ result[c] = "none" /\ ~LockFree(c)
    BY DEF CommandInv, CommandFacts, LaunchedFirst, HolderLooked, Holding
  <1>2. \A x \in Job!Final : x \notin told[c]
    BY <1>1 DEF CommandInv, CommandFacts, SaidIsTrue, True, Job!Final
  <1> QED
    BY <1>1, <1>2 DEF Job!Settled

LEMMA PublishingStep ==
    ASSUME CommandInv, NEW c \in Commands, NEW w \in Workers, worker[c][w] = "publishing",
           published' = published \cup {c}, UNCHANGED <<call, result, ran, told>>
    PROVE  JobStep
  <1>1. ran[c] = 1 /\ result[c] = "none" /\ ~Job!Settled(c)
    BY HolderMayAct DEF CommandInv, CommandFacts, WorkerState, HolderLooked, Holding
  <1>2. Job!Publish(c)
    BY <1>1 DEF Job!Publish, LaunchedJobs
  <1> QED
    BY <1>2 DEF JobStep, Job!Next

LEMMA JobStepHolds ==
    ASSUME CommandInv, CommandNext
    PROVE  JobStep
  <1> USE DEF CommandInv
  <1>1. ASSUME NEW c \in Commands, Start(c) PROVE JobStep
    <2>1. LaunchedJobs' = LaunchedJobs
      BY <1>1 DEF Start, Live, LaunchedJobs
    <2> QED
      BY <1>1, <2>1, UnseenStep DEF Start
  <1>2. ASSUME NEW c \in Commands, CommitLaunch(c) PROVE JobStep
    BY <1>2 DEF CommitLaunch, JobStep, Job!Next, Job!Launch, LaunchedJobs, CommandTypeOK
  <1>3. ASSUME NEW c \in Commands, Release(c) PROVE JobStep
    BY <1>3, UnseenStep DEF Release, LaunchedJobs
  <1>4. ASSUME NEW c \in Commands, CancelPrepared(c) PROVE JobStep
    <2>1. LaunchedJobs' = LaunchedJobs
      BY <1>4 DEF CancelPrepared, Return, LaunchedJobs
    <2> QED
      BY <1>4, <2>1, UnseenStep DEF CancelPrepared
  <1>5. ASSUME NEW c \in Commands, CancelUnstarted(c) PROVE JobStep
    <2>1. call[c] = "launched" /\ "unknown" \notin told[c]
      BY <1>5 DEF CancelUnstarted, Claimable, CommandFacts, LaunchedFirst, SaidIsTrue, True
    <2>2. result[c] \in {"none", "cancelled"}
      BY <1>5 DEF CancelUnstarted, Claimable, CommandTypeOK, CommandFacts, RunsLeaveMarks
    <2>3. CASE result[c] = "none"
      <3>1. Job!End(c, "cancelled")
        BY <1>5, <2>1, <2>3 DEF CancelUnstarted, Job!End, LaunchedJobs
      <3> QED
        BY <3>1 DEF JobStep, Job!Next
    <2>4. CASE result[c] = "cancelled"
      <3>1. result' = result
        BY <1>5, <2>4 DEF CancelUnstarted, CommandTypeOK
      <3> QED
        BY <1>5, <3>1, UnseenStep DEF CancelUnstarted, LaunchedJobs
    <2> QED
      BY <2>2, <2>3, <2>4
  <1>6. ASSUME NEW c \in Commands, CancelStarted(c) PROVE JobStep
    BY <1>6, UnseenStep DEF CancelStarted, Return, LaunchedJobs
  <1>7. ASSUME NEW c \in Commands, CancelAgain(c) PROVE JobStep
    BY <1>7, UnseenStep DEF CancelAgain, Return, LaunchedJobs
  <1>8. ASSUME NEW c \in Commands, Report(c) PROVE JobStep
    <2>1. PICK x \in Sayable(c) : told' = [told EXCEPT ![c] = @ \cup {x}]
      BY <1>8 DEF Report
    <2>2. x \in Outcome /\ True(c, x)
      BY <1>8, <2>1 DEF Report, Sayable, Outcome, CommandFacts, SaidIsTrue, True
    <2>3. x \in Job!Final \cup Job!Inconclusive
      BY <2>2 DEF Outcome, Job!Final, Job!Inconclusive
    <2>4. Job!Report(c, x)
      BY <1>8, <2>1, <2>2 DEF Report, Job!Report, LaunchedJobs, True
    <2> QED
      BY <2>3, <2>4 DEF JobStep, Job!Next
  <1>9. ASSUME NEW c \in Commands, Drop(c) PROVE JobStep
    BY <1>9, UnseenStep DEF Drop, LaunchedJobs
  <1>10. ASSUME NEW c \in Commands, NEW o \in Owners, Attach(o, c) PROVE JobStep
    BY <1>10, UnseenStep DEF Attach, Attached, LaunchedJobs
  <1>11. ASSUME NEW c \in Commands, NEW o \in Owners, NEW w \in Workers, AttachAndSpawn(o, c, w)
         PROVE  JobStep
    BY <1>11, UnseenStep DEF AttachAndSpawn, Attached, LaunchedJobs
  <1>12. ASSUME NEW c \in Commands, Withhold(c) PROVE JobStep
    BY <1>12, UnseenStep DEF Withhold, LaunchedJobs
  <1>13. ASSUME NEW c \in Commands, SeeResult(c) PROVE JobStep
    BY <1>13, UnseenStep DEF SeeResult, InRound, Return, LaunchedJobs
  <1>14. ASSUME NEW c \in Commands, SeeLost(c) PROVE JobStep
    BY <1>14, UnseenStep DEF SeeLost, InRound, Return, LaunchedJobs
  <1>15. ASSUME NEW c \in Commands, SeeUnavailable(c) PROVE JobStep
    BY <1>15, UnseenStep DEF SeeUnavailable, InRound, Return, LaunchedJobs
  <1>16. ASSUME NEW c \in Commands, Permit(c) PROVE JobStep
    BY <1>16, UnseenStep DEF Permit, InRound, LaunchedJobs
  <1>17. ASSUME NEW c \in Commands, Reap(c) PROVE JobStep
    BY <1>17, UnseenStep DEF Reap, Return, LaunchedJobs
  <1>18. ASSUME NEW c \in Commands, ReapLost(c) PROVE JobStep
    BY <1>18, UnseenStep DEF ReapLost, Return, LaunchedJobs
  <1>19. ASSUME NEW c \in Commands, ReapUnavailable(c) PROVE JobStep
    BY <1>19, UnseenStep DEF ReapUnavailable, Return, LaunchedJobs
  <1>20. ASSUME NEW c \in Commands, NEW w \in Workers, Spawn(c, w) PROVE JobStep
    BY <1>20, UnseenStep DEF Spawn, InRound, LaunchedJobs
  <1>21. ASSUME NEW c \in Commands, NEW w \in Workers, TakeLock(c, w) PROVE JobStep
    BY <1>21, UnseenStep DEF TakeLock, Startable, LaunchedJobs
  <1>22. ASSUME NEW c \in Commands, NEW w \in Workers, LockRefused(c, w) PROVE JobStep
    BY <1>22, UnseenStep DEF LockRefused, LaunchedJobs
  <1>23. ASSUME NEW c \in Commands, NEW w \in Workers, MarkStarted(c, w) PROVE JobStep
    BY <1>23, UnseenStep DEF MarkStarted, LaunchedJobs
  <1>24. ASSUME NEW c \in Commands, NEW w \in Workers, Execute(c, w) PROVE JobStep
    <2>1. ran[c] = 0 /\ call[c] = "launched" /\ result[c] = "none" /\ ~Job!Settled(c)
      BY <1>24, HolderMayAct DEF Execute, WorkerState, CommandFacts, HolderLooked, Holding
    <2>2. ran' = [ran EXCEPT ![c] = 1]
      BY <1>24, <2>1 DEF Execute
    <2>3. Job!Run(c)
      BY <1>24, <2>1, <2>2 DEF Execute, Job!Run, LaunchedJobs
    <2> QED
      BY <2>3 DEF JobStep, Job!Next
  <1>25. ASSUME NEW c \in Commands, NEW w \in Workers, Finish(c, w) PROVE JobStep
    BY <1>25, UnseenStep DEF Finish, LaunchedJobs
  <1>26. ASSUME NEW c \in Commands, NEW w \in Workers, RequestPublication(c, w) PROVE JobStep
    BY <1>26, UnseenStep DEF RequestPublication, LaunchedJobs
  <1>27. ASSUME NEW c \in Commands, NEW w \in Workers, Permitted(c, w) PROVE JobStep
    BY <1>27, UnseenStep DEF Permitted, LaunchedJobs
  <1>28. ASSUME NEW c \in Commands, NEW w \in Workers, Publish(c, w) PROVE JobStep
    <2>1. CASE UNCHANGED published
      BY <1>28, <2>1, UnseenStep DEF Publish, LaunchedJobs
    <2>2. CASE worker[c][w] = "publishing" /\ published' = published \cup {c}
      BY <1>28, <2>2, PublishingStep DEF Publish
    <2> QED
      BY <1>28, <2>1, <2>2 DEF Publish, MayPublish
  <1>29. ASSUME NEW c \in Commands, NEW w \in Workers, Interrupt(c, w) PROVE JobStep
    <2>1. CASE UNCHANGED published
      BY <1>29, <2>1, UnseenStep DEF Interrupt, LaunchedJobs
    <2>2. CASE worker[c][w] = "publishing" /\ published' = published \cup {c}
      BY <1>29, <2>2, PublishingStep DEF Interrupt
    <2> QED
      BY <1>29, <2>1, <2>2 DEF Interrupt, MayPublish
  <1>30. ASSUME NEW c \in Commands, NEW w \in Workers, WriteResult(c, w) PROVE JobStep
    <2>1. call[c] = "launched" /\ result[c] = "none" /\ ~Job!Settled(c)
      BY <1>30, HolderMayAct DEF WriteResult, WorkerState, Holding
    <2>2. PICK x \in {"completed", "cancelled"} :
            /\ result' = [result EXCEPT ![c] = x]
            /\ x = "completed" => ran[c] = 1
      BY <1>30 DEF WriteResult, CommandFacts, HolderLooked
    <2>3. Job!End(c, x)
      BY <1>30, <2>1, <2>2 DEF WriteResult, Job!End, Job!Settled, Job!Final, LaunchedJobs
    <2> QED
      BY <2>3 DEF JobStep, Job!Next
  <1>31. ASSUME NEW c \in Commands, NEW w \in Workers, WorkerLost(c, w) PROVE JobStep
    <2>1. CASE UNCHANGED published
      BY <1>31, <2>1, UnseenStep DEF WorkerLost, LaunchedJobs
    <2>2. CASE worker[c][w] = "publishing" /\ published' = published \cup {c}
      BY <1>31, <2>2, PublishingStep DEF WorkerLost
    <2> QED
      BY <1>31, <2>1, <2>2 DEF WorkerLost, MayPublish
  <1>32. ASSUME Detach PROVE JobStep
    BY <1>32, UnseenStep DEF Detach, LaunchedJobs
  <1>33. ASSUME PolicyChanges PROVE JobStep
    BY <1>33, UnseenStep DEF PolicyChanges, LaunchedJobs
  <1>34. ASSUME NEW o \in Owners, Crash(o) PROVE JobStep
    <2>1. LaunchedJobs' = LaunchedJobs
      BY <1>34 DEF Crash, LaunchedJobs
    <2> QED
      BY <1>34, <2>1, UnseenStep DEF Crash
  <1> QED
    BY <1>1, <1>2, <1>3, <1>4, <1>5, <1>6, <1>7, <1>8, <1>9, <1>10, <1>11, <1>12, <1>13, <1>14, <1>15,
       <1>16, <1>17, <1>18, <1>19, <1>20, <1>21, <1>22, <1>23, <1>24, <1>25, <1>26, <1>27, <1>28, <1>29,
       <1>30, <1>31, <1>32, <1>33, <1>34
    DEF CommandNext, OwnerStep, TaskStep, WorkerStep, CommandEnds

(* Background commands implement DetachedJob: a job runs at most once and    *)
(* only after its launch was committed, it ends once, and what an owner     *)
(* says of its end is so, whichever owners and workers are lost.            *)
THEOREM JobsAreKept == CommandSpec => JobsKeepPromise
  <1>1. CommandInit => Job!Init
    BY DEF CommandInit, Job!Init, LaunchedJobs
  <1>2. CommandInv /\ [CommandNext]_commandVars => [Job!Next]_(Job!jobVars)
    BY JobStepHolds, UnseenStep DEF JobStep, commandVars, LaunchedJobs
  <1> QED
    BY <1>1, <1>2, CommandInvariant, PTL DEF CommandSpec, JobsKeepPromise, Job!Spec
==============================================================================
