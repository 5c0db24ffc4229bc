-------------------- MODULE QryptominerSolutionProofs --------------------
(***************************************************************************)
(* SolvedInv is inductive beside MinerInv: the thread counter, the worth   *)
(* of a recorded solution, and that each notification is sent once.  With  *)
(* JobInv it shows that the miner implements MiningSession.                *)
(***************************************************************************)
EXTENDS QryptominerInvProofs, FiniteSetTheorems

\* There are finitely many workers.
LEMMA CountedFinite ==
  IsFiniteSet(Counted)
<1>1. IsFiniteSet(Slots)
  BY MinerAssumption, FS_Interval DEF Slots
<1> QED
  BY <1>1, FS_Subset DEF Counted

\* What is left in a queue after pop_front().
LEMMA TailInv ==
  ASSUME NEW S, NEW q \in Seq(S), q # <<>>
  PROVE  \A k \in 1 .. Len(Tail(q)) :
           k + 1 \in 1 .. Len(q) /\ k + 1 # 1 /\ Tail(q)[k] = q[k + 1]
  OBVIOUS

\* Sending what the current work has not sent keeps notifications distinct.
LEMMA UniqueAppend ==
  ASSUME TypeOK, UniqueInv, NEW t, ~Sent(t), NEW e, Key(e) = <<t, seq>>,
         queue' = Append(queue, e), InHand' = InHand, event' = event, handled' = handled
  PROVE  UniqueInv'
<1>1. /\ Key(e) \notin handled
      /\ \A k \in 1 .. Len(queue) : Key(queue[k]) # Key(e)
      /\ InHand => Key(event) # Key(e)
  BY DEF Sent
<1>2. \A k \in 1 .. Len(queue') :
        \/ k \in 1 .. Len(queue) /\ queue'[k] = queue[k]
        \/ k = Len(queue) + 1 /\ queue'[k] = e
  BY AppendInv DEF TypeOK, EventsType
<1>3. (\A k, l \in 1 .. Len(queue) : Key(queue[k]) = Key(queue[l]) => k = l)'
  BY <1>1, <1>2 DEF UniqueInv, Key
<1>4. (\A k \in 1 .. Len(queue) : Key(queue[k]) \notin handled)'
  BY <1>1, <1>2 DEF UniqueInv, Key
<1>5. (InHand => /\ Key(event) \notin handled
                 /\ \A k \in 1 .. Len(queue) : Key(queue[k]) # Key(event))'
  BY <1>1, <1>2 DEF UniqueInv, Key
<1> QED
  BY <1>3, <1>4, <1>5 DEF UniqueInv

\* A worker moves its own nonce only.
LEMMA OtherNonces ==
  ASSUME TypeOK, NEW i \in Slots, NextNonce(i) \/ UNCHANGED nonce
  PROVE  \A j \in Slots \ {i} : nonce'[j] = nonce[j]
  BY DEF NextNonce, TypeOK, ThreadsType

\* The counter follows the workers.
LEMMA CountStep ==
  TypeOK /\ MinerInv /\ SolvedInv /\ [Next]_vars => CountInv'
<1> SUFFICES ASSUME TypeOK, MinerInv, SolvedInv, [Next]_vars PROVE CountInv'
  OBVIOUS
<1>1. ASSUME NEW c \in Callers, CancelFinish(c) PROVE CountInv'
  <2>1. Counted' = Counted
    BY <1>1 DEF CancelFinish, AllJoined, Counted
  <2> QED
    BY <1>1, <2>1 DEF CancelFinish, SolvedInv, CountInv
<1>2. ASSUME NEW c \in Callers, StartSpawn(c) PROVE CountInv'
  <2>1. wpc[running] = "none" /\ running \in Slots
    BY <1>2, MinerAssumption DEF StartSpawn, MinerInv, WorkInv, TypeOK, ThreadsType,
       CallsType, Calls, Slots
  <2>2. Counted' = Counted
    BY <1>2, <2>1 DEF StartSpawn, Counted, TypeOK, ThreadsType
  <2> QED
    BY <1>2, <2>2 DEF StartSpawn, SolvedInv, CountInv
<1>3. ASSUME NEW i \in Slots, WorkerEnter(i) PROVE CountInv'
  <2>1. Counted' = Counted \union {i} /\ i \notin Counted
    BY <1>3 DEF WorkerEnter, GotoW, Counted, TypeOK, ThreadsType
  <2>2. Cardinality(Counted \union {i}) = Cardinality(Counted) + 1
    BY <2>1, CountedFinite, FS_AddElement
  <2> QED
    BY <1>3, <2>1, <2>2 DEF WorkerEnter, SolvedInv, CountInv
<1>4. ASSUME NEW i \in Slots, WorkerCopyInput(i) PROVE CountInv'
  <2>1. Counted' = Counted
    BY <1>4 DEF WorkerCopyInput, GotoW, Counted, TypeOK, ThreadsType
  <2> QED
    BY <1>4, <2>1 DEF WorkerCopyInput, SolvedInv, CountInv
<1>5. ASSUME NEW i \in Slots, WorkerLoop(i) PROVE CountInv'
  <2>1. Counted' = Counted
    BY <1>5 DEF WorkerLoop, GotoW, Counted, TypeOK, ThreadsType
  <2> QED
    BY <1>5, <2>1 DEF WorkerLoop, SolvedInv, CountInv
<1>6. ASSUME NEW i \in Slots, WorkerReadTimer(i) PROVE CountInv'
  <2>1. Counted' = Counted
    BY <1>6 DEF WorkerReadTimer, GotoW, Counted, TypeOK, ThreadsType
  <2> QED
    BY <1>6, <2>1 DEF WorkerReadTimer, SolvedInv, CountInv
<1>7. ASSUME NEW i \in Slots, WorkerReadRemaining(i) PROVE CountInv'
  <2>1. Counted' = Counted
    BY <1>7 DEF WorkerReadRemaining, GotoW, Counted, TypeOK, ThreadsType
  <2> QED
    BY <1>7, <2>1 DEF WorkerReadRemaining, SolvedInv, CountInv
<1>8. ASSUME NEW i \in Slots, WorkerQueueTimeout(i) PROVE CountInv'
  <2>1. Counted' = Counted
    BY <1>8 DEF WorkerQueueTimeout, GotoW, Counted, TypeOK, ThreadsType
  <2> QED
    BY <1>8, <2>1 DEF WorkerQueueTimeout, SolvedInv, CountInv
<1>9. ASSUME NEW i \in Slots, WorkerStop(i) PROVE CountInv'
  <2>1. Counted' = Counted
    BY <1>9 DEF WorkerStop, GotoW, Counted, TypeOK, ThreadsType
  <2> QED
    BY <1>9, <2>1 DEF WorkerStop, SolvedInv, CountInv
<1>10. ASSUME NEW i \in Slots, WorkerCheckTarget(i) PROVE CountInv'
  <2>1. Counted' = Counted
    BY <1>10 DEF WorkerCheckTarget, GotoW, Counted, TypeOK, ThreadsType
  <2> QED
    BY <1>10, <2>1 DEF WorkerCheckTarget, SolvedInv, CountInv
<1>11. ASSUME NEW i \in Slots, WorkerClaim(i) PROVE CountInv'
  <2>1. Counted' = Counted
    BY <1>11 DEF WorkerClaim, GotoW, Counted, TypeOK, ThreadsType
  <2> QED
    BY <1>11, <2>1 DEF WorkerClaim, SolvedInv, CountInv
<1>12. ASSUME NEW i \in Slots, WorkerRecord(i) PROVE CountInv'
  <2>1. Counted' = Counted
    BY <1>12 DEF WorkerRecord, GotoW, Counted, TypeOK, ThreadsType
  <2> QED
    BY <1>12, <2>1 DEF WorkerRecord, SolvedInv, CountInv
<1>13. ASSUME NEW i \in Slots, WorkerAnnounce(i) PROVE CountInv'
  <2>1. Counted' = Counted
    BY <1>13 DEF WorkerAnnounce, GotoW, Counted, TypeOK, ThreadsType
  <2> QED
    BY <1>13, <2>1 DEF WorkerAnnounce, SolvedInv, CountInv
<1>14. ASSUME NEW i \in Slots, WorkerExit(i) PROVE CountInv'
  <2>1. Counted' = Counted \ {i} /\ i \in Counted
    BY <1>14 DEF WorkerExit, GotoW, Counted, TypeOK, ThreadsType
  <2>2. Cardinality(Counted \ {i}) = Cardinality(Counted) - 1
    BY <2>1, CountedFinite, FS_RemoveElement
  <2> QED
    BY <1>14, <2>1, <2>2 DEF WorkerExit, SolvedInv, CountInv
<1>15. ASSUME UNCHANGED <<wpc, count>> PROVE CountInv'
  BY <1>15 DEF SolvedInv, CountInv, Counted
<1> QED
  BY <1>1, <1>2, <1>3, <1>4, <1>5, <1>6, <1>7, <1>8, <1>9, <1>10, <1>11,
     <1>12, <1>13, <1>14, <1>15 DEF Next, NewCall, CallStep, NewClientCall,
     ClientCallStep, WorkerStep, EventStep, HandlerReturn, Terminated,
     CallStart, CallCancel, CallDestroy, CancelLockEvent, CancelLockRunning,
     StartSetWork, StartResetStop, StartResetFound, StartLoadSeq,
     StartLockRunning, StartReturn, DestroyStop, DestroyJoin, CallSetTimer,
     ArmTimer, CallDisableTimer, DeadlinePasses, CallWait, WaitReturn,
     EventCheckStop, EventLockQueue, EventMustWait, EventBlock,
     EventSpuriousWakeup, EventPop, EventPrecheck, EventSend, HandlerAccept,
     HandlerReject, EventRequeue, Supersede, vars, work, clock, threads,
     locks, events, calls

\* The recorded solution passes the current target.
LEMMA SolutionStep ==
  TypeOK /\ MinerInv /\ SolvedInv /\ [Next]_vars => SolutionInv'
<1> SUFFICES ASSUME TypeOK, MinerInv, SolvedInv, [Next]_vars PROVE SolutionInv'
  OBVIOUS
<1>1. ASSUME NEW c \in Callers, CallStart(c) PROVE SolutionInv'
  BY <1>1, MinerAssumption DEF CallStart, Supersede, NoCall, MayCall, Goto,
     MinerInv, LockInv, CallerInv, WorkInv, SolvedInv, SolutionInv,
     SolutionSolvesCurrentWork, MidStart, Slots, Callers, NoWorker, TypeOK,
     WorkType, ThreadsType, CallsType, work, threads, locks, calls
<1>2. ASSUME NEW c \in Callers, CallCancel(c) PROVE SolutionInv'
  BY <1>2, MinerAssumption DEF CallCancel, Supersede, NoCall, MayCall, Goto,
     MinerInv, LockInv, CallerInv, WorkInv, SolvedInv, SolutionInv,
     SolutionSolvesCurrentWork, MidStart, Slots, Callers, NoWorker, TypeOK,
     WorkType, ThreadsType, CallsType, work, threads, locks, calls
<1>3. CASE CallDestroy
  BY <1>3, MinerAssumption DEF CallDestroy, Supersede, NoCall, MayCall,
     Destroying, Goto, MinerInv, LockInv, CallerInv, WorkInv, SolvedInv,
     SolutionInv, SolutionSolvesCurrentWork, MidStart, Slots, Callers,
     NoWorker, TypeOK, WorkType, ThreadsType, CallsType, work, threads, locks,
     calls
<1>4. ASSUME NEW c \in Callers, CancelLockEvent(c) PROVE SolutionInv'
  BY <1>4, MinerAssumption DEF CancelLockEvent, MayLockEvent, Goto, MinerInv,
     LockInv, CallerInv, WorkInv, SolvedInv, SolutionInv,
     SolutionSolvesCurrentWork, MidStart, Slots, Callers, NoWorker, TypeOK,
     WorkType, ThreadsType, CallsType, work, threads, locks, calls
<1>5. ASSUME NEW c \in Callers, CancelLockRunning(c) PROVE SolutionInv'
  BY <1>5, MinerAssumption DEF CancelLockRunning, MayLockRunning, Goto,
     MinerInv, LockInv, CallerInv, WorkInv, SolvedInv, SolutionInv,
     SolutionSolvesCurrentWork, MidStart, Slots, Callers, NoWorker, TypeOK,
     WorkType, ThreadsType, CallsType, work, threads, locks, calls
<1>6. ASSUME NEW c \in Callers, CancelFinish(c) PROVE SolutionInv'
  BY <1>6, MinerAssumption DEF CancelFinish, AllJoined, AfterCancel, Goto,
     MinerInv, LockInv, CallerInv, WorkInv, SolvedInv, SolutionInv,
     SolutionSolvesCurrentWork, MidStart, Slots, Callers, NoWorker, TypeOK,
     WorkType, ThreadsType, CallsType, work, threads, locks, calls
<1>7. ASSUME NEW c \in Callers, StartSetWork(c) PROVE SolutionInv'
  BY <1>7, MinerAssumption DEF StartSetWork, Goto, MinerInv, LockInv,
     CallerInv, WorkInv, SolvedInv, SolutionInv, SolutionSolvesCurrentWork,
     MidStart, Slots, Callers, NoWorker, TypeOK, WorkType, ThreadsType,
     CallsType, work, threads, locks, calls
<1>8. ASSUME NEW c \in Callers, StartResetStop(c) PROVE SolutionInv'
  BY <1>8, MinerAssumption DEF StartResetStop, Goto, MinerInv, LockInv,
     CallerInv, WorkInv, SolvedInv, SolutionInv, SolutionSolvesCurrentWork,
     MidStart, Slots, Callers, NoWorker, TypeOK, WorkType, ThreadsType,
     CallsType, work, threads, locks, calls
<1>9. ASSUME NEW c \in Callers, StartResetFound(c) PROVE SolutionInv'
  BY <1>9, MinerAssumption DEF StartResetFound, Goto, MinerInv, LockInv,
     CallerInv, WorkInv, SolvedInv, SolutionInv, SolutionSolvesCurrentWork,
     MidStart, Slots, Callers, NoWorker, TypeOK, WorkType, ThreadsType,
     CallsType, work, threads, locks, calls
<1>10. ASSUME NEW c \in Callers, StartLoadSeq(c) PROVE SolutionInv'
  BY <1>10, MinerAssumption DEF StartLoadSeq, LoadedSeq, Goto, MinerInv,
     LockInv, CallerInv, WorkInv, SolvedInv, SolutionInv,
     SolutionSolvesCurrentWork, MidStart, Slots, Callers, NoWorker, TypeOK,
     WorkType, ThreadsType, CallsType, work, threads, locks, calls
<1>11. ASSUME NEW c \in Callers, StartLockRunning(c) PROVE SolutionInv'
  BY <1>11, MinerAssumption DEF StartLockRunning, Goto, MinerInv, LockInv,
     CallerInv, WorkInv, SolvedInv, SolutionInv, SolutionSolvesCurrentWork,
     MidStart, Slots, Callers, NoWorker, TypeOK, WorkType, ThreadsType,
     CallsType, work, threads, locks, calls
<1>12. ASSUME NEW c \in Callers, StartSpawn(c) PROVE SolutionInv'
  BY <1>12, MinerAssumption DEF StartSpawn, Goto, MinerInv, LockInv,
     CallerInv, WorkInv, SolvedInv, SolutionInv, SolutionSolvesCurrentWork,
     MidStart, Slots, Callers, NoWorker, TypeOK, WorkType, ThreadsType,
     CallsType, work, threads, locks, calls
<1>13. ASSUME NEW c \in Callers, StartReturn(c) PROVE SolutionInv'
  BY <1>13, MinerAssumption DEF StartReturn, NoCall, Goto, MinerInv, LockInv,
     CallerInv, WorkInv, SolvedInv, SolutionInv, SolutionSolvesCurrentWork,
     MidStart, Slots, Callers, NoWorker, TypeOK, WorkType, ThreadsType,
     CallsType, work, threads, locks, calls
<1>14. CASE DestroyStop
  BY <1>14, MinerAssumption DEF DestroyStop, Notify, Goto, MinerInv, LockInv,
     CallerInv, WorkInv, SolvedInv, SolutionInv, SolutionSolvesCurrentWork,
     MidStart, Slots, Callers, NoWorker, TypeOK, WorkType, ThreadsType,
     CallsType, work, threads, locks, calls
<1>15. CASE DestroyJoin
  BY <1>15, MinerAssumption DEF DestroyJoin, Goto, MinerInv, LockInv,
     CallerInv, WorkInv, SolvedInv, SolutionInv, SolutionSolvesCurrentWork,
     MidStart, Slots, Callers, NoWorker, TypeOK, WorkType, ThreadsType,
     CallsType, work, threads, locks, calls
<1>16. ASSUME NEW c \in Callers, CallSetTimer(c) PROVE SolutionInv'
  BY <1>16, MinerAssumption DEF CallSetTimer, MayCall, Goto, MinerInv,
     LockInv, CallerInv, WorkInv, SolvedInv, SolutionInv,
     SolutionSolvesCurrentWork, MidStart, Slots, Callers, NoWorker, TypeOK,
     WorkType, ThreadsType, CallsType, work, threads, locks, calls
<1>17. ASSUME NEW c \in Callers, ArmTimer(c) PROVE SolutionInv'
  BY <1>17, MinerAssumption DEF ArmTimer, Goto, MinerInv, LockInv, CallerInv,
     WorkInv, SolvedInv, SolutionInv, SolutionSolvesCurrentWork, MidStart,
     Slots, Callers, NoWorker, TypeOK, WorkType, ThreadsType, CallsType, work,
     threads, locks, calls
<1>18. CASE CallWait
  BY <1>18, MinerAssumption DEF CallWait, MayCall, Goto, MinerInv, LockInv,
     CallerInv, WorkInv, SolvedInv, SolutionInv, SolutionSolvesCurrentWork,
     MidStart, Slots, Callers, NoWorker, TypeOK, WorkType, ThreadsType,
     CallsType, work, threads, locks, calls
<1>19. CASE WaitReturn
  BY <1>19, MinerAssumption DEF WaitReturn, Goto, MinerInv, LockInv,
     CallerInv, WorkInv, SolvedInv, SolutionInv, SolutionSolvesCurrentWork,
     MidStart, Slots, Callers, NoWorker, TypeOK, WorkType, ThreadsType,
     CallsType, work, threads, locks, calls
<1>20. ASSUME NEW i \in Slots, WorkerEnter(i) PROVE SolutionInv'
  BY <1>20, MinerAssumption DEF WorkerEnter, GotoW, MinerInv, LockInv,
     CallerInv, WorkInv, SolvedInv, SolutionInv, SolutionSolvesCurrentWork,
     MidStart, Slots, Callers, NoWorker, TypeOK, WorkType, ThreadsType,
     CallsType, work, threads, locks, calls
<1>21. ASSUME NEW i \in Slots, WorkerCopyInput(i) PROVE SolutionInv'
  BY <1>21, MinerAssumption DEF WorkerCopyInput, GotoW, MinerInv, LockInv,
     CallerInv, WorkInv, SolvedInv, SolutionInv, SolutionSolvesCurrentWork,
     MidStart, Slots, Callers, NoWorker, TypeOK, WorkType, ThreadsType,
     CallsType, work, threads, locks, calls
<1>22. ASSUME NEW i \in Slots, WorkerLoop(i) PROVE SolutionInv'
  BY <1>22, MinerAssumption DEF WorkerLoop, MayGoOn, GotoW, MinerInv, LockInv,
     CallerInv, WorkInv, SolvedInv, SolutionInv, SolutionSolvesCurrentWork,
     MidStart, Slots, Callers, NoWorker, TypeOK, WorkType, ThreadsType,
     CallsType, work, threads, locks, calls
<1>23. ASSUME NEW i \in Slots, WorkerReadTimer(i) PROVE SolutionInv'
  BY <1>23, MinerAssumption DEF WorkerReadTimer, GotoW, MinerInv, LockInv,
     CallerInv, WorkInv, SolvedInv, SolutionInv, SolutionSolvesCurrentWork,
     MidStart, Slots, Callers, NoWorker, TypeOK, WorkType, ThreadsType,
     CallsType, work, threads, locks, calls
<1>24. ASSUME NEW i \in Slots, WorkerReadRemaining(i) PROVE SolutionInv'
  BY <1>24, MinerAssumption DEF WorkerReadRemaining, GotoW, MinerInv, LockInv,
     CallerInv, WorkInv, SolvedInv, SolutionInv, SolutionSolvesCurrentWork,
     MidStart, Slots, Callers, NoWorker, TypeOK, WorkType, ThreadsType,
     CallsType, work, threads, locks, calls
<1>25. ASSUME NEW i \in Slots, WorkerQueueTimeout(i) PROVE SolutionInv'
  BY <1>25, MinerAssumption DEF WorkerQueueTimeout, QueueEvent, Notify, GotoW,
     MinerInv, LockInv, CallerInv, WorkInv, SolvedInv, SolutionInv,
     SolutionSolvesCurrentWork, MidStart, Slots, Callers, NoWorker, TypeOK,
     WorkType, ThreadsType, CallsType, work, threads, locks, calls
<1>26. ASSUME NEW i \in Slots, WorkerStop(i) PROVE SolutionInv'
  BY <1>26, MinerAssumption DEF WorkerStop, GotoW, MinerInv, LockInv,
     CallerInv, WorkInv, SolvedInv, SolutionInv, SolutionSolvesCurrentWork,
     MidStart, Slots, Callers, NoWorker, TypeOK, WorkType, ThreadsType,
     CallsType, work, threads, locks, calls
<1>27. ASSUME NEW i \in Slots, WorkerCheckTarget(i) PROVE SolutionInv'
  <2>1. \A j \in Slots \ {i} : wpc'[j] = wpc[j] /\ nonce'[j] = nonce[j]
    BY <1>27, OtherNonces DEF WorkerCheckTarget, GotoW, TypeOK, ThreadsType
  <2>2. CASE Passes(i)
    BY <1>27, <2>2 DEF WorkerCheckTarget, Passes, GotoW, SolvedInv, SolutionInv,
       SolutionSolvesCurrentWork, work, locks, calls, TypeOK, ThreadsType
  <2>3. CASE ~Passes(i)
    <3>1. wpc'[i] = "loop"
      BY <1>27, <2>3 DEF WorkerCheckTarget, GotoW, TypeOK, ThreadsType
    <3> QED
      BY <1>27, <2>1, <3>1 DEF WorkerCheckTarget, SolvedInv, SolutionInv,
         SolutionSolvesCurrentWork, work, locks, calls
  <2> QED
    BY <2>2, <2>3
<1>28. ASSUME NEW i \in Slots, WorkerClaim(i) PROVE SolutionInv'
  <2>1. \A j \in Slots \ {i} : wpc'[j] = wpc[j] /\ nonce'[j] = nonce[j]
    BY <1>28, OtherNonces DEF WorkerClaim, GotoW, TypeOK, ThreadsType
  <2>2. CASE FirstClaim
    <3>1. wpc'[i] = "record" /\ found' /\ solutionMutex' # NoWorker /\ nonce' = nonce
      BY <1>28, <2>2, MinerAssumption DEF WorkerClaim, FirstClaim, GotoW, NoWorker, Slots, TypeOK,
         ThreadsType
    <3> QED
      BY <1>28, <2>1, <3>1 DEF WorkerClaim, SolvedInv, SolutionInv, SolutionSolvesCurrentWork
  <2>3. CASE ~FirstClaim
    <3>1. wpc'[i] = "loop" /\ found' = found /\ solutionMutex' = solutionMutex
      BY <1>28, <2>3 DEF WorkerClaim, FirstClaim, GotoW, TypeOK, ThreadsType
    <3> QED
      BY <1>28, <2>1, <3>1 DEF WorkerClaim, SolvedInv, SolutionInv,
         SolutionSolvesCurrentWork, calls
  <2> QED
    BY <2>2, <2>3
<1>29. ASSUME NEW i \in Slots, WorkerRecord(i) PROVE SolutionInv'
  BY <1>29, MinerAssumption DEF WorkerRecord, GotoW, MinerInv, LockInv,
     CallerInv, WorkInv, SolvedInv, SolutionInv, SolutionSolvesCurrentWork,
     MidStart, Slots, Callers, NoWorker, TypeOK, WorkType, ThreadsType,
     CallsType, work, threads, locks, calls
<1>30. ASSUME NEW i \in Slots, WorkerAnnounce(i) PROVE SolutionInv'
  <2>1. \A j \in Slots \ {i} : wpc'[j] = wpc[j] /\ nonce'[j] = nonce[j]
    BY <1>30, OtherNonces DEF WorkerAnnounce, GotoW, TypeOK, ThreadsType
  <2>2. wpc'[i] = "loop"
    BY <1>30 DEF WorkerAnnounce, GotoW, TypeOK, ThreadsType
  <2>3. /\ solution = [input |-> tmpInput[i], nonce |-> nonce[i]]
        /\ nonce[i] \in Winning[<<tmpInput[i], target>>]
        /\ tmpInput[i] = input
    BY <1>30 DEF WorkerAnnounce, SolvedInv, SolutionInv, MinerInv, WorkInv
  <2>4. SolutionSolvesCurrentWork'
    BY <1>30, <2>3 DEF WorkerAnnounce, SolutionSolvesCurrentWork, work
  <2> QED
    BY <1>30, <2>1, <2>2, <2>4 DEF WorkerAnnounce, SolvedInv, SolutionInv, work
<1>31. ASSUME NEW i \in Slots, WorkerExit(i) PROVE SolutionInv'
  BY <1>31, MinerAssumption DEF WorkerExit, GotoW, MinerInv, LockInv,
     CallerInv, WorkInv, SolvedInv, SolutionInv, SolutionSolvesCurrentWork,
     MidStart, Slots, Callers, NoWorker, TypeOK, WorkType, ThreadsType,
     CallsType, work, threads, locks, calls
<1>32. ASSUME UNCHANGED <<wpc, nonce, tmpInput, target, found, solution, input, solutionMutex, cpc>> PROVE SolutionInv'
  BY <1>32 DEF MinerInv, LockInv, CallerInv, WorkInv, SolvedInv, SolutionInv,
     SolutionSolvesCurrentWork, MidStart, Slots, Callers, NoWorker, TypeOK,
     WorkType, ThreadsType, CallsType
<1> QED
  BY <1>1, <1>2, <1>3, <1>4, <1>5, <1>6, <1>7, <1>8, <1>9, <1>10, <1>11,
     <1>12, <1>13, <1>14, <1>15, <1>16, <1>17, <1>18, <1>19, <1>20, <1>21,
     <1>22, <1>23, <1>24, <1>25, <1>26, <1>27, <1>28, <1>29, <1>30, <1>31,
     <1>32 DEF Next, NewCall, CallStep, NewClientCall, ClientCallStep,
     WorkerStep, EventStep, HandlerReturn, Terminated, CallDisableTimer,
     DeadlinePasses, EventCheckStop, EventLockQueue, EventMustWait,
     EventBlock, EventSpuriousWakeup, EventPop, EventPrecheck, EventSend,
     HandlerAccept, HandlerReject, EventRequeue, vars, work, clock, threads,
     locks, events, calls

\* What the current work has sent, its state bears out.
LEMMA SentStep ==
  TypeOK /\ MinerInv /\ SolvedInv /\ [Next]_vars => SentInv'
<1> SUFFICES ASSUME TypeOK, MinerInv, SolvedInv, [Next]_vars PROVE SentInv'
  OBVIOUS
<1>1. ASSUME NEW c \in Callers, CancelFinish(c) PROVE SentInv'
  <2>1. seq \in Nat /\ seq' = seq + 1
    BY <1>1 DEF CancelFinish, TypeOK, WorkType
  <2>2. \A h \in handled : h[2] \in Nat /\ h[2] <= seq
    BY DEF SolvedInv, SentInv, TypeOK, EventsType
  <2>3. \A k \in 1 .. Len(queue) : queue[k] \in Events /\ queue[k].seq <= seq
    BY DEF MinerInv, EventInv, MayBeCurrent, TypeOK, EventsType
  <2>4. InHand => event \in Events /\ event.seq <= seq
    BY DEF MinerInv, EventInv, MayBeCurrent, InHand, TypeOK, EventsType
  <2>5. \A t : ~Sent(t)'
    BY <1>1, <2>1, <2>2, <2>3, <2>4 DEF CancelFinish, Sent, InHand, Key, Events, events
  <2>6. (\A h \in handled : h[2] <= seq /\ (h[2] = seq => running > 0))'
    BY <1>1, <2>1, <2>2 DEF CancelFinish, events
  <2> QED
    BY <2>5, <2>6 DEF SentInv, Sent
<1>2. ASSUME NEW c \in Callers, StartResetFound(c) PROVE SentInv'
  <2>1. running = 0
    BY <1>2 DEF StartResetFound, MinerInv, CallerInv, MidStart
  <2>2. \A t : ~Sent(t)
    <3>1. \A t : <<t, seq>> \notin handled
      BY <2>1 DEF SolvedInv, SentInv
    <3>2. \A k \in 1 .. Len(queue) : queue[k].seq # seq
      BY <2>1 DEF MinerInv, EventInv, MayBeCurrent
    <3>3. InHand => event.seq # seq
      BY <2>1 DEF MinerInv, EventInv, MayBeCurrent, InHand
    <3> QED
      BY <3>1, <3>2, <3>3 DEF Sent, Key
  <2>3. \A t : ~Sent(t)'
    BY <1>2, <2>2 DEF StartResetFound, Sent, InHand, events
  <2>4. (\A h \in handled : h[2] <= seq /\ (h[2] = seq => running > 0))'
    BY <1>2 DEF StartResetFound, SolvedInv, SentInv, events, threads
  <2> QED
    BY <2>3, <2>4 DEF SentInv, Sent
<1>3. ASSUME NEW c \in Callers, StartSpawn(c) PROVE SentInv'
  BY <1>3, MinerAssumption DEF StartSpawn, Goto, MinerInv, LockInv, CallerInv,
     EventInv, MayBeCurrent, WorkInv, SolvedInv, SentInv, Sent, InHand, Key,
     MidStart, Slots, Callers, NoWorker, TypeOK, WorkType, ThreadsType,
     EventsType, work, threads, locks, events
<1>4. CASE DestroyStop
  BY <1>4, MinerAssumption DEF DestroyStop, Notify, Goto, MinerInv, LockInv,
     CallerInv, EventInv, MayBeCurrent, WorkInv, SolvedInv, SentInv, Sent,
     InHand, Key, MidStart, Slots, Callers, NoWorker, TypeOK, WorkType,
     ThreadsType, EventsType, work, threads, locks, events
<1>5. ASSUME NEW i \in Slots, WorkerEnter(i) PROVE SentInv'
  BY <1>5, MinerAssumption DEF WorkerEnter, GotoW, MinerInv, LockInv,
     CallerInv, EventInv, MayBeCurrent, WorkInv, SolvedInv, SentInv, Sent,
     InHand, Key, MidStart, Slots, Callers, NoWorker, TypeOK, WorkType,
     ThreadsType, EventsType, work, threads, locks, events
<1>6. ASSUME NEW i \in Slots, WorkerCopyInput(i) PROVE SentInv'
  BY <1>6, MinerAssumption DEF WorkerCopyInput, GotoW, MinerInv, LockInv,
     CallerInv, EventInv, MayBeCurrent, WorkInv, SolvedInv, SentInv, Sent,
     InHand, Key, MidStart, Slots, Callers, NoWorker, TypeOK, WorkType,
     ThreadsType, EventsType, work, threads, locks, events
<1>7. ASSUME NEW i \in Slots, WorkerLoop(i) PROVE SentInv'
  BY <1>7, MinerAssumption DEF WorkerLoop, MayGoOn, GotoW, MinerInv, LockInv,
     CallerInv, EventInv, MayBeCurrent, WorkInv, SolvedInv, SentInv, Sent,
     InHand, Key, MidStart, Slots, Callers, NoWorker, TypeOK, WorkType,
     ThreadsType, EventsType, work, threads, locks, events
<1>8. ASSUME NEW i \in Slots, WorkerReadTimer(i) PROVE SentInv'
  BY <1>8, MinerAssumption DEF WorkerReadTimer, GotoW, MinerInv, LockInv,
     CallerInv, EventInv, MayBeCurrent, WorkInv, SolvedInv, SentInv, Sent,
     InHand, Key, MidStart, Slots, Callers, NoWorker, TypeOK, WorkType,
     ThreadsType, EventsType, work, threads, locks, events
<1>9. ASSUME NEW i \in Slots, WorkerReadRemaining(i) PROVE SentInv'
  BY <1>9, MinerAssumption DEF WorkerReadRemaining, GotoW, MinerInv, LockInv,
     CallerInv, EventInv, MayBeCurrent, WorkInv, SolvedInv, SentInv, Sent,
     InHand, Key, MidStart, Slots, Callers, NoWorker, TypeOK, WorkType,
     ThreadsType, EventsType, work, threads, locks, events
<1>10. ASSUME NEW i \in Slots, WorkerQueueTimeout(i) PROVE SentInv'
  <2> DEFINE e == MinerEvent("TIMEOUT", wseq[i], 0)
  <2>1. i = 0 /\ wpc'[0] = "stopping"
    BY <1>10 DEF WorkerQueueTimeout, GotoW, MinerInv, StopInv, TypeOK, ThreadsType
  <2>2. queue' = Append(queue, e) /\ InHand' = InHand
    BY <1>10 DEF WorkerQueueTimeout, QueueEvent, Notify, InHand
  <2>3. Key(e) # <<"SOLUTION", seq>>
    BY DEF Key, MinerEvent
  <2> HIDE DEF e
  <2>4. \A k \in 1 .. Len(queue') : Key(queue'[k]) = <<"SOLUTION", seq>> =>
          k \in 1 .. Len(queue) /\ queue'[k] = queue[k]
    BY <2>2, <2>3, AppendInv DEF TypeOK, EventsType
  <2>5. Sent("SOLUTION")' => Sent("SOLUTION")
    BY <1>10, <2>2, <2>4 DEF WorkerQueueTimeout, Sent, Key, work
  <2> QED
    BY <1>10, <2>1, <2>2, <2>4, <2>5 DEF WorkerQueueTimeout, SolvedInv, SentInv, Key,
       work, locks
<1>11. ASSUME NEW i \in Slots, WorkerStop(i) PROVE SentInv'
  BY <1>11, MinerAssumption DEF WorkerStop, GotoW, MinerInv, LockInv,
     CallerInv, EventInv, MayBeCurrent, WorkInv, SolvedInv, SentInv, Sent,
     InHand, Key, MidStart, Slots, Callers, NoWorker, TypeOK, WorkType,
     ThreadsType, EventsType, work, threads, locks, events
<1>12. ASSUME NEW i \in Slots, WorkerCheckTarget(i) PROVE SentInv'
  <2>1. \A t : Sent(t)' <=> Sent(t)
    BY <1>12 DEF WorkerCheckTarget, Sent, InHand, work, events
  <2>2. wpc'[0] = wpc[0] \/ wpc[0] = "check"
    BY <1>12, MinerAssumption DEF WorkerCheckTarget, GotoW, Slots, TypeOK, ThreadsType
  <2> QED
    BY <1>12, <2>1, <2>2 DEF WorkerCheckTarget, SolvedInv, SentInv, InHand, work, locks,
       events
<1>13. ASSUME NEW i \in Slots, WorkerClaim(i) PROVE SentInv'
  BY <1>13, MinerAssumption DEF WorkerClaim, FirstClaim, GotoW, MinerInv,
     LockInv, CallerInv, EventInv, MayBeCurrent, WorkInv, SolvedInv, SentInv,
     Sent, InHand, Key, MidStart, Slots, Callers, NoWorker, TypeOK, WorkType,
     ThreadsType, EventsType, work, threads, locks, events
<1>14. ASSUME NEW i \in Slots, WorkerRecord(i) PROVE SentInv'
  <2>1. solutionMutex # NoWorker
    BY <1>14 DEF WorkerRecord, MinerInv, LockInv, NoWorker, Slots
  <2>2. ~Sent("SOLUTION")
    BY <2>1 DEF SolvedInv, SentInv
  <2>3. \A t : Sent(t)' <=> Sent(t)
    BY <1>14 DEF WorkerRecord, Sent, InHand, events
  <2>4. wpc'[0] = wpc[0] \/ wpc[0] = "record"
    BY <1>14, MinerAssumption DEF WorkerRecord, GotoW, Slots, TypeOK, ThreadsType
  <2>5. /\ \A k \in 1 .. Len(queue) : Key(queue[k]) # <<"SOLUTION", seq>>
        /\ InHand => Key(event) # <<"SOLUTION", seq>>
    BY <2>2 DEF Sent
  <2> QED
    BY <1>14, <2>2, <2>3, <2>4, <2>5 DEF WorkerRecord, SolvedInv, SentInv, InHand, Key,
       events, locks
<1>15. ASSUME NEW i \in Slots, WorkerAnnounce(i) PROVE SentInv'
  <2> DEFINE e == MinerEvent("SOLUTION", wseq[i], nonce[i])
  <2>1. /\ found /\ solution.nonce = nonce[i]
        /\ wpc'[0] = wpc[0] \/ wpc[0] = "announce"
    BY <1>15, MinerAssumption DEF WorkerAnnounce, GotoW, SolvedInv, SolutionInv, Slots,
       TypeOK, ThreadsType
  <2>2. queue' = Append(queue, e) /\ InHand' = InHand
    BY <1>15 DEF WorkerAnnounce, QueueEvent, Notify, InHand
  <2>3. Key(e) # <<"TIMEOUT", seq>> /\ e.nonce = nonce[i]
    BY DEF Key, MinerEvent
  <2> HIDE DEF e
  <2>4. \A k \in 1 .. Len(queue') :
          (k \in 1 .. Len(queue) /\ queue'[k] = queue[k]) \/ queue'[k] = e
    BY <2>2, AppendInv DEF TypeOK, EventsType
  <2>5. Sent("TIMEOUT")' => Sent("TIMEOUT")
    BY <1>15, <2>2, <2>3, <2>4 DEF WorkerAnnounce, Sent, Key, work
  <2>6. (\A k \in 1 .. Len(queue) :
           Key(queue[k]) = <<"SOLUTION", seq>> => queue[k].nonce = solution.nonce)'
    BY <1>15, <2>1, <2>3, <2>4 DEF WorkerAnnounce, SolvedInv, SentInv, Key, work
  <2> QED
    BY <1>15, <2>1, <2>2, <2>5, <2>6 DEF WorkerAnnounce, SolvedInv, SentInv, Key, work
<1>16. ASSUME NEW i \in Slots, WorkerExit(i) PROVE SentInv'
  BY <1>16, MinerAssumption DEF WorkerExit, GotoW, MinerInv, LockInv,
     CallerInv, EventInv, MayBeCurrent, WorkInv, SolvedInv, SentInv, Sent,
     InHand, Key, MidStart, Slots, Callers, NoWorker, TypeOK, WorkType,
     ThreadsType, EventsType, work, threads, locks, events
<1>17. CASE EventCheckStop
  BY <1>17, MinerAssumption DEF EventCheckStop, MinerInv, LockInv, CallerInv,
     EventInv, MayBeCurrent, WorkInv, SolvedInv, SentInv, Sent, InHand, Key,
     MidStart, Slots, Callers, NoWorker, TypeOK, WorkType, ThreadsType,
     EventsType, work, threads, locks, events
<1>18. CASE EventLockQueue
  BY <1>18, MinerAssumption DEF EventLockQueue, MinerInv, LockInv, CallerInv,
     EventInv, MayBeCurrent, WorkInv, SolvedInv, SentInv, Sent, InHand, Key,
     MidStart, Slots, Callers, NoWorker, TypeOK, WorkType, ThreadsType,
     EventsType, work, threads, locks, events
<1>19. CASE EventMustWait
  BY <1>19, MinerAssumption DEF EventMustWait, MinerInv, LockInv, CallerInv,
     EventInv, MayBeCurrent, WorkInv, SolvedInv, SentInv, Sent, InHand, Key,
     MidStart, Slots, Callers, NoWorker, TypeOK, WorkType, ThreadsType,
     EventsType, work, threads, locks, events
<1>20. CASE EventBlock
  BY <1>20, MinerAssumption DEF EventBlock, MinerInv, LockInv, CallerInv,
     EventInv, MayBeCurrent, WorkInv, SolvedInv, SentInv, Sent, InHand, Key,
     MidStart, Slots, Callers, NoWorker, TypeOK, WorkType, ThreadsType,
     EventsType, work, threads, locks, events
<1>21. CASE EventSpuriousWakeup
  BY <1>21, MinerAssumption DEF EventSpuriousWakeup, MinerInv, LockInv,
     CallerInv, EventInv, MayBeCurrent, WorkInv, SolvedInv, SentInv, Sent,
     InHand, Key, MidStart, Slots, Callers, NoWorker, TypeOK, WorkType,
     ThreadsType, EventsType, work, threads, locks, events
<1>22. CASE EventPop
  <2>1. ~InHand /\ (InHand' => queue # <<>> /\ event' = queue[1] /\ 1 \in 1 .. Len(queue))
    BY <1>22 DEF EventPop, InHand, TypeOK, EventsType
  <2>2. \A k \in 1 .. Len(queue') :
          \E l \in 1 .. Len(queue) : queue'[k] = queue[l]
    BY <1>22, TailInv DEF EventPop, TypeOK, EventsType
  <2>3. \A t : Sent(t)' => Sent(t)
    BY <1>22, <2>1, <2>2 DEF EventPop, Sent, Key, work
  <2> QED
    BY <1>22, <2>1, <2>2, <2>3 DEF EventPop, SolvedInv, SentInv, Key, work, threads
<1>23. CASE EventPrecheck
  BY <1>23, MinerAssumption DEF EventPrecheck, EventDone, MinerInv, LockInv,
     CallerInv, EventInv, MayBeCurrent, WorkInv, SolvedInv, SentInv, Sent,
     InHand, Key, MidStart, Slots, Callers, NoWorker, TypeOK, WorkType,
     ThreadsType, EventsType, work, threads, locks, events
<1>24. CASE EventSend
  BY <1>24, MinerAssumption DEF EventSend, StillCurrent, EventDone,
     Destroying, Handle, MinerInv, LockInv, CallerInv, EventInv, MayBeCurrent,
     WorkInv, SolvedInv, SentInv, Sent, InHand, Key, MidStart, Slots, Callers,
     NoWorker, TypeOK, WorkType, ThreadsType, EventsType, work, threads,
     locks, events
<1>25. CASE HandlerAccept
  BY <1>25, MinerAssumption DEF HandlerAccept, EventDone, Handle, MinerInv,
     LockInv, CallerInv, EventInv, MayBeCurrent, WorkInv, SolvedInv, SentInv,
     Sent, InHand, Key, MidStart, Slots, Callers, NoWorker, TypeOK, WorkType,
     ThreadsType, EventsType, work, threads, locks, events
<1>26. CASE HandlerReject
  BY <1>26, MinerAssumption DEF HandlerReject, MinerInv, LockInv, CallerInv,
     EventInv, MayBeCurrent, WorkInv, SolvedInv, SentInv, Sent, InHand, Key,
     MidStart, Slots, Callers, NoWorker, TypeOK, WorkType, ThreadsType,
     EventsType, work, threads, locks, events
<1>27. CASE EventRequeue
  BY <1>27, MinerAssumption DEF EventRequeue, EventDone, MinerInv, LockInv,
     CallerInv, EventInv, MayBeCurrent, WorkInv, SolvedInv, SentInv, Sent,
     InHand, Key, MidStart, Slots, Callers, NoWorker, TypeOK, WorkType,
     ThreadsType, EventsType, work, threads, locks, events
<1>28. ASSUME UNCHANGED <<handled, queue, epc, event, seq, running, found, solution, solutionMutex, wpc>> PROVE SentInv'
  BY <1>28 DEF MinerInv, LockInv, CallerInv, EventInv, MayBeCurrent, WorkInv,
     SolvedInv, SentInv, Sent, InHand, Key, MidStart, Slots, Callers,
     NoWorker, TypeOK, WorkType, ThreadsType, EventsType
<1> QED
  BY <1>1, <1>2, <1>3, <1>4, <1>5, <1>6, <1>7, <1>8, <1>9, <1>10, <1>11,
     <1>12, <1>13, <1>14, <1>15, <1>16, <1>17, <1>18, <1>19, <1>20, <1>21,
     <1>22, <1>23, <1>24, <1>25, <1>26, <1>27, <1>28 DEF Next, NewCall,
     CallStep, NewClientCall, ClientCallStep, WorkerStep, EventStep,
     HandlerReturn, Terminated, CallStart, CallCancel, CallDestroy,
     CancelLockEvent, CancelLockRunning, StartSetWork, StartResetStop,
     StartLoadSeq, StartLockRunning, StartReturn, DestroyJoin, CallSetTimer,
     ArmTimer, CallDisableTimer, DeadlinePasses, CallWait, WaitReturn,
     Supersede, vars, work, clock, threads, locks, events, calls

\* No two notifications are alike.
LEMMA UniqueStep ==
  TypeOK /\ MinerInv /\ SolvedInv /\ [Next]_vars => UniqueInv'
<1> SUFFICES ASSUME TypeOK, MinerInv, SolvedInv, [Next]_vars PROVE UniqueInv'
  OBVIOUS
<1>1. CASE DestroyStop
  BY <1>1, MinerAssumption DEF DestroyStop, Notify, Goto, MinerInv, SolvedInv,
     UniqueInv, SentInv, Sent, InHand, Key, TypeOK, EventsType, events
<1>2. ASSUME NEW i \in Slots, WorkerQueueTimeout(i) PROVE UniqueInv'
  <2> DEFINE e == MinerEvent("TIMEOUT", wseq[i], 0)
  <2>1. Key(e) = <<"TIMEOUT", seq>> /\ ~Sent("TIMEOUT")
    <3>1. i = 0 /\ wpc[0] = "timeout" /\ wseq[i] = seq
      BY <1>2 DEF WorkerQueueTimeout, MinerInv, StopInv, WorkInv
    <3> QED
      BY <3>1 DEF Key, MinerEvent, SolvedInv, SentInv
  <2>2. queue' = Append(queue, e) /\ InHand' = InHand
    BY <1>2 DEF WorkerQueueTimeout, QueueEvent, Notify, InHand
  <2> HIDE DEF e
  <2> QED
    BY <1>2, <2>1, <2>2, UniqueAppend DEF WorkerQueueTimeout, SolvedInv
<1>3. ASSUME NEW i \in Slots, WorkerAnnounce(i) PROVE UniqueInv'
  <2> DEFINE e == MinerEvent("SOLUTION", wseq[i], nonce[i])
  <2>1. Key(e) = <<"SOLUTION", seq>> /\ ~Sent("SOLUTION")
    <3>1. solutionMutex # NoWorker /\ wseq[i] = seq
      BY <1>3 DEF WorkerAnnounce, MinerInv, LockInv, WorkInv, NoWorker, Slots
    <3> QED
      BY <3>1 DEF Key, MinerEvent, SolvedInv, SentInv
  <2>2. queue' = Append(queue, e) /\ InHand' = InHand
    BY <1>3 DEF WorkerAnnounce, QueueEvent, Notify, InHand
  <2> HIDE DEF e
  <2> QED
    BY <1>3, <2>1, <2>2, UniqueAppend DEF WorkerAnnounce, SolvedInv
<1>4. CASE EventCheckStop
  BY <1>4, MinerAssumption DEF EventCheckStop, MinerInv, SolvedInv, UniqueInv,
     SentInv, Sent, InHand, Key, TypeOK, EventsType, events
<1>5. CASE EventLockQueue
  BY <1>5, MinerAssumption DEF EventLockQueue, MinerInv, SolvedInv, UniqueInv,
     SentInv, Sent, InHand, Key, TypeOK, EventsType, events
<1>6. CASE EventMustWait
  BY <1>6, MinerAssumption DEF EventMustWait, MinerInv, SolvedInv, UniqueInv,
     SentInv, Sent, InHand, Key, TypeOK, EventsType, events
<1>7. CASE EventBlock
  BY <1>7, MinerAssumption DEF EventBlock, MinerInv, SolvedInv, UniqueInv,
     SentInv, Sent, InHand, Key, TypeOK, EventsType, events
<1>8. CASE EventSpuriousWakeup
  BY <1>8, MinerAssumption DEF EventSpuriousWakeup, MinerInv, SolvedInv,
     UniqueInv, SentInv, Sent, InHand, Key, TypeOK, EventsType, events
<1>9. CASE EventPop
  <2>1. ~InHand /\ (InHand' => queue # <<>> /\ event' = queue[1] /\ 1 \in 1 .. Len(queue))
    BY <1>9 DEF EventPop, InHand, TypeOK, EventsType
  <2>2. CASE queue # <<>>
    <3>1. \A k \in 1 .. Len(queue') :
            k + 1 \in 1 .. Len(queue) /\ k + 1 # 1 /\ queue'[k] = queue[k + 1]
      BY <1>9, <2>2, TailInv DEF EventPop, TypeOK, EventsType
    <3>2. ASSUME NEW k \in 1 .. Len(queue'), NEW l \in 1 .. Len(queue'),
                 Key(queue'[k]) = Key(queue'[l])
          PROVE  k = l
      <4>1. k + 1 = l + 1
        BY <3>1, <3>2 DEF SolvedInv, UniqueInv
      <4> QED
        BY <4>1
    <3>3. \A k \in 1 .. Len(queue') : Key(queue'[k]) \notin handled'
      BY <1>9, <3>1 DEF EventPop, SolvedInv, UniqueInv
    <3>4. Key(event') \notin handled'
      BY <1>9, <2>1, <2>2 DEF EventPop, SolvedInv, UniqueInv
    <3>5. \A k \in 1 .. Len(queue') : Key(queue'[k]) # Key(event')
      BY <1>9, <2>1, <2>2, <3>1 DEF EventPop, SolvedInv, UniqueInv
    <3> QED
      BY <3>2, <3>3, <3>4, <3>5 DEF UniqueInv, Key
  <2>3. CASE queue = <<>>
    BY <1>9, <2>1, <2>3 DEF EventPop, SolvedInv, UniqueInv, Key
  <2> QED
    BY <2>2, <2>3
<1>10. CASE EventPrecheck
  BY <1>10, MinerAssumption DEF EventPrecheck, EventDone, MinerInv, SolvedInv,
     UniqueInv, SentInv, Sent, InHand, Key, TypeOK, EventsType, events
<1>11. CASE EventSend
  BY <1>11, MinerAssumption DEF EventSend, StillCurrent, EventDone,
     Destroying, Handle, MinerInv, SolvedInv, UniqueInv, SentInv, Sent,
     InHand, Key, TypeOK, EventsType, events
<1>12. CASE HandlerAccept
  BY <1>12, MinerAssumption DEF HandlerAccept, EventDone, Handle, MinerInv,
     SolvedInv, UniqueInv, SentInv, Sent, InHand, Key, TypeOK, EventsType,
     events
<1>13. CASE HandlerReject
  BY <1>13, MinerAssumption DEF HandlerReject, MinerInv, SolvedInv, UniqueInv,
     SentInv, Sent, InHand, Key, TypeOK, EventsType, events
<1>14. CASE EventRequeue
  BY <1>14, MinerAssumption DEF EventRequeue, EventDone, MinerInv, SolvedInv,
     UniqueInv, SentInv, Sent, InHand, Key, TypeOK, EventsType, events
<1>15. ASSUME UNCHANGED <<handled, queue, epc, event>> PROVE UniqueInv'
  BY <1>15 DEF MinerInv, SolvedInv, UniqueInv, SentInv, Sent, InHand, Key,
     TypeOK, EventsType
<1> QED
  BY <1>1, <1>2, <1>3, <1>4, <1>5, <1>6, <1>7, <1>8, <1>9, <1>10, <1>11,
     <1>12, <1>13, <1>14, <1>15 DEF Next, NewCall, CallStep, NewClientCall,
     ClientCallStep, WorkerStep, EventStep, HandlerReturn, Terminated,
     CallStart, CallCancel, CallDestroy, CancelLockEvent, CancelLockRunning,
     CancelFinish, StartSetWork, StartResetStop, StartResetFound,
     StartLoadSeq, StartLockRunning, StartSpawn, StartReturn, DestroyJoin,
     CallSetTimer, ArmTimer, CallDisableTimer, DeadlinePasses, CallWait,
     WaitReturn, WorkerEnter, WorkerCopyInput, WorkerLoop, WorkerReadTimer,
     WorkerReadRemaining, WorkerStop, WorkerCheckTarget, WorkerClaim,
     WorkerRecord, WorkerExit, Supersede, vars, work, clock, threads, locks,
     events, calls

\* Init has no thread, no solution and no event.
LEMMA InitSolved ==
  Init => SolvedInv
<1> SUFFICES ASSUME Init PROVE SolvedInv
  OBVIOUS
<1>1. CountInv
  <2>1. Counted = {}
    BY DEF Init, Counted
  <2> QED
    BY <2>1, FS_EmptySet DEF Init, CountInv
<1>2. SolutionInv
  BY DEF Init, SolutionInv, SolutionSolvesCurrentWork
<1>3. SentInv
  BY DEF Init, SentInv, Sent, InHand
<1>4. UniqueInv
  BY DEF Init, UniqueInv, InHand
<1> QED
  BY <1>1, <1>2, <1>3, <1>4 DEF SolvedInv

\* The whole inductive invariant holds in every reachable state.
THEOREM SolvedInvariant ==
  Spec => [](TypeOK /\ MinerInv /\ SolvedInv)
<1>1. Init => SolvedInv
  BY InitSolved
<1>2. TypeOK /\ MinerInv /\ SolvedInv /\ [Next]_vars => SolvedInv'
  BY CountStep, SolutionStep, SentStep, UniqueStep DEF SolvedInv
<1> QED
  BY <1>1, <1>2, MinerInvariant, PTL DEF Spec

\* solutionAvailable() never announces a solution of other work, a half written
\* one or one that a second thread overwrites.
THEOREM SolutionSolvesWork ==
  Spec => []SolutionSolvesCurrentWork
<1>1. SolvedInv => SolutionSolvesCurrentWork
  BY DEF SolvedInv, SolutionInv
<1> QED
  BY <1>1, SolvedInvariant, PTL

\* The handler of a solution reads the solution it is told of.
THEOREM HandlerReadsItsSolution ==
  Spec => []SolutionEventMatchesSolution
<1>1. SolvedInv => SolutionEventMatchesSolution
  BY DEF SolvedInv, SentInv, Sent, InHand, Key, SolutionEventMatchesSolution
<1> QED
  BY <1>1, SolvedInvariant, PTL

\* No handler is told twice of the same solution or timeout.
THEOREM NoSecondNotification ==
  Spec => []NotifiedOnce
<1>1. SolvedInv => NotifiedOnce
  BY DEF SolvedInv, UniqueInv, InHand, Key, NotifiedOnce
<1> QED
  BY <1>1, SolvedInvariant, PTL

\* No thread of the vector is left and none is counted after a cancel().
LEMMA NoThreadNoCount ==
  ASSUME TypeOK, MinerInv, SolvedInv, running = 0
  PROVE  count = 0
<1>1. Counted = {}
  BY DEF Counted, MinerInv, WorkInv, Slots
<1> QED
  BY <1>1, FS_EmptySet DEF SolvedInv, CountInv

\* isRunning() is false once cancel() has returned.
THEOREM StoppedIsNotRunning ==
  Spec => []StoppedMeansNotRunning
<1>1. TypeOK /\ MinerInv /\ SolvedInv => StoppedMeansNotRunning
  BY NoThreadNoCount DEF StoppedMeansNotRunning
<1> QED
  BY <1>1, SolvedInvariant, PTL

\* Nothing that the destructor destroys is still in use.
THEOREM DestroyedQuiet ==
  Spec => []DestroyedIsQuiet
<1>1. TypeOK /\ MinerInv /\ SolvedInv => DestroyedIsQuiet
  BY NoThreadNoCount DEF DestroyedIsQuiet, MinerInv, CallerInv, ClientQuiet
<1> QED
  BY <1>1, SolvedInvariant, PTL

-----------------------------------------------------------------------------
(* The miner implements MiningSession. *)

\* Jobs are set by StartSetWork only, from the argument of a CallStart.
LEMMA JobStep ==
  TypeOK /\ MinerInv /\ JobInv /\ [Next]_vars => JobInv'
<1> SUFFICES ASSUME TypeOK, MinerInv, JobInv, [Next]_vars PROVE JobInv'
  OBVIOUS
<1> USE DEF JobInv, TypeOK, CallsType, Callers, Goto
<1>1. ASSUME NEW c \in Callers, CallStart(c) PROVE JobInv'
  BY <1>1 DEF CallStart, Supersede, MayCall, work, threads
<1>2. ASSUME NEW c \in Callers, NEW op \in {"cancel", "destroy", "tidyDestroy"},
             Supersede(c, NoCall(op))
      PROVE  JobInv'
  BY <1>2 DEF Supersede, MayCall, NoCall, work, threads
<1>3. ASSUME NEW c \in Callers, CancelLockEvent(c) PROVE JobInv'
  BY <1>3 DEF CancelLockEvent, work, threads
<1>4. ASSUME NEW c \in Callers, CancelLockRunning(c) PROVE JobInv'
  BY <1>4 DEF CancelLockRunning, threads
<1>5. ASSUME NEW c \in Callers, CancelFinish(c) PROVE JobInv'
  BY <1>5 DEF CancelFinish, AfterCancel, work
<1>6. ASSUME NEW c \in Callers, StartSetWork(c) PROVE JobInv'
  BY <1>6 DEF StartSetWork, threads, MinerInv, CallerInv, MidStart
<1>7. ASSUME NEW c \in Callers, StartResetStop(c) \/ StartResetFound(c) PROVE JobInv'
  BY <1>7 DEF StartResetStop, StartResetFound, threads
<1>8. ASSUME NEW c \in Callers, StartLoadSeq(c) PROVE JobInv'
  BY <1>8 DEF StartLoadSeq, work, threads
<1>9. ASSUME NEW c \in Callers, StartLockRunning(c) PROVE JobInv'
  BY <1>9 DEF StartLockRunning, work, threads
<1>10. ASSUME NEW c \in Callers, StartSpawn(c) PROVE JobInv'
  BY <1>10 DEF StartSpawn, work, calls
<1>11. ASSUME NEW c \in Callers, StartReturn(c) PROVE JobInv'
  BY <1>11 DEF StartReturn, NoCall, work, threads
<1>12. ASSUME UNCHANGED <<input, target, running, call>>,
              NEW c \in Callers, NEW pc \in {"idle", "armTimer", "polling",
                                             "joinEvent", "destroyed"},
              Goto(c, pc) \/ UNCHANGED cpc
       PROVE  JobInv'
  BY <1>12
<1>13. CASE \E c \in Callers : CallSetTimer(c) \/ ArmTimer(c) \/ CallDisableTimer(c)
  BY <1>13, <1>12 DEF CallSetTimer, ArmTimer, CallDisableTimer, work, threads, calls
<1>14. CASE CallWait \/ WaitReturn \/ DestroyStop \/ DestroyJoin
  BY <1>14, <1>12 DEF CallWait, WaitReturn, DestroyStop, DestroyJoin, work, threads
<1>15. CASE CallDestroy
  BY <1>15, <1>2 DEF CallDestroy
<1>16. ASSUME UNCHANGED <<input, target, running, calls>> PROVE JobInv'
  BY <1>16 DEF calls
<1>17. CASE \E i \in Slots : WorkerStep(i)
  BY <1>17, <1>16 DEF WorkerStep, WorkerEnter, WorkerCopyInput, WorkerLoop,
     WorkerReadTimer, WorkerReadRemaining, WorkerQueueTimeout, WorkerStop,
     WorkerCheckTarget, WorkerClaim, WorkerRecord, WorkerAnnounce, WorkerExit, work
<1>18. CASE EventStep \/ EventSpuriousWakeup \/ HandlerReturn
  BY <1>18, <1>16 DEF EventStep, EventCheckStop, EventLockQueue, EventMustWait,
     EventBlock, EventPop, EventPrecheck, EventSend, EventRequeue,
     EventSpuriousWakeup, HandlerReturn, HandlerAccept, HandlerReject, work, threads
<1>19. CASE DeadlinePasses \/ Terminated \/ UNCHANGED vars
  BY <1>19, <1>16 DEF DeadlinePasses, Terminated, vars, work, threads
<1> QED
  BY <1>1, <1>2, <1>3, <1>4, <1>5, <1>6, <1>7, <1>8, <1>9, <1>10, <1>11, <1>13,
     <1>14, <1>15, <1>17, <1>18, <1>19
     DEF Next, NewCall, CallStep, NewClientCall, ClientCallStep, CallCancel

\* A caller that is to create threads, or has, knows the job.
THEOREM JobInvariant ==
  Spec => []JobInv
<1>1. Init => JobInv
  BY DEF Init, JobInv, Callers, NoCall
<1> QED
  BY <1>1, JobStep, MinerInvariant, PTL DEF Spec

\* The event in hand is of the session in progress and news, if it is current.
LEMMA InHandMayBeTold ==
  ASSUME TypeOK, MinerInv, SolvedInv, JobInv, epc = "send", StillCurrent
  PROVE  Session!MayBeTold(event)
<1>1. running > 0 /\ input \in Jobs /\ target = input /\ event.seq = seq
  BY DEF MinerInv, EventInv, MayBeCurrent, JobInv, StillCurrent
<1>2. event \in Session!Notifications
  BY <1>1 DEF TypeOK, EventsType, Events, EventTypes, Session!Notifications
<1>3. Session!Of(event) \notin handled
  BY DEF SolvedInv, UniqueInv, InHand, Key, Session!Of
<1>4. ASSUME event.type = "SOLUTION" PROVE event.nonce \in Winning[<<input, input>>]
  <2>1. found /\ solutionMutex = NoWorker /\ event.nonce = solution.nonce
    BY <1>1, <1>4 DEF SolvedInv, SentInv, Sent, InHand, Key
  <2>2. \A c \in Callers : cpc[c] \notin {"resetStop", "resetFound"}
    BY <1>1 DEF MinerInv, CallerInv, MidStart
  <2> QED
    BY <1>1, <2>1, <2>2 DEF SolvedInv, SolutionInv, SolutionSolvesCurrentWork
<1>5. input # NoJob
  BY <1>1, MinerAssumption
<1> QED
  BY <1>1, <1>2, <1>3, <1>4, <1>5 DEF Session!MayBeTold

\* What leaves session, job and notification alone is nothing to a session.
LEMMA Unnoticed ==
  ASSUME UNCHANGED <<seq, running, handled>>,
         running > 0 => input' = input,
         epc = "handler" <=> epc' = "handler",
         epc = "handler" => event' = event
  PROVE  UNCHANGED Session!vars
  BY DEF Session!vars

\* A step of a caller ends a session, begins one or is not noticed.
LEMMA CallerSimulates ==
  ASSUME TypeOK, MinerInv, JobInv, NEW c \in Callers, CallStep(c)
  PROVE  Session!Next \/ UNCHANGED Session!vars
<1>1. CASE CancelFinish(c)
  <2>1. Session!End
    BY <1>1 DEF CancelFinish, events, Session!End, TypeOK, ThreadsType
  <2> QED
    BY <2>1 DEF Session!Next
<1>2. CASE StartSpawn(c) /\ running = 0
  <2>1. input \in Jobs
    BY <1>2 DEF StartSpawn, JobInv
  <2>2. Session!Begin(input)
    BY <1>2 DEF StartSpawn, work, events, Session!Begin
  <2> QED
    BY <2>1, <2>2 DEF Session!Next
<1>3. CASE StartSpawn(c) /\ running # 0
  <2>1. running' > 0 /\ running > 0
    BY <1>3 DEF StartSpawn, TypeOK, ThreadsType
  <2> QED
    BY <1>3, <2>1 DEF StartSpawn, work, events, Session!vars
<1>4. CASE StartSetWork(c)
  <2>1. running = 0
    BY <1>4 DEF StartSetWork, MinerInv, CallerInv, MidStart
  <2> QED
    BY <1>4, <2>1, Unnoticed DEF StartSetWork, threads, events
<1>5. CASE ~CancelFinish(c) /\ ~StartSpawn(c) /\ ~StartSetWork(c)
  BY <1>5, Unnoticed DEF CallStep, CancelLockEvent, CancelLockRunning,
     StartResetStop, StartResetFound, StartLoadSeq, StartLockRunning, StartReturn,
     ArmTimer, work, threads, events
<1> QED
  BY <1>1, <1>2, <1>3, <1>4, <1>5

\* A step of the event thread tells, wastes, accepts, rejects or is not noticed.
LEMMA EventSimulates ==
  ASSUME TypeOK, MinerInv, SolvedInv, JobInv,
         EventStep \/ EventSpuriousWakeup \/ HandlerReturn
  PROVE  Session!Next \/ UNCHANGED Session!vars
<1>1. CASE EventSend /\ StillCurrent
  <2>1. Session!MayBeTold(event) /\ event \in Session!Notifications
    BY <1>1, InHandMayBeTold DEF EventSend, Session!MayBeTold
  <2>2. CASE ~Destroying
    <3>1. Session!Tell(event)
      BY <1>1, <2>1, <2>2 DEF EventSend, EventDone, work, threads, Session!Tell
    <3> QED
      BY <2>1, <3>1 DEF Session!Next
  <2>3. CASE Destroying
    <3>1. Session!Waste(event)
      BY <1>1, <2>1, <2>3 DEF EventSend, EventDone, Handle, work, threads,
         Session!Waste, Session!Of
    <3> QED
      BY <2>1, <3>1 DEF Session!Next
  <2> QED
    BY <2>2, <2>3
<1>2. CASE EventSend /\ ~StillCurrent
  BY <1>2, Unnoticed DEF EventSend, EventDone, work, threads
<1>3. ASSUME HandlerReturn PROVE Session!Accept \/ Session!Reject
  <2>1. epc = "handler" /\ event # NoEvent
    BY <1>3 DEF HandlerReturn, HandlerAccept, HandlerReject, TypeOK, EventsType,
       Events, EventTypes, NoEvent
  <2>2. CASE HandlerAccept
    BY <2>1, <2>2 DEF HandlerAccept, EventDone, Handle, work, threads,
       Session!Accept, Session!Of
  <2>3. CASE HandlerReject
    BY <2>1, <2>3 DEF HandlerReject, work, threads, Session!Reject
  <2> QED
    BY <1>3, <2>2, <2>3 DEF HandlerReturn
<1>4. CASE EventSpuriousWakeup \/ (EventStep /\ ~EventSend)
  BY <1>4, Unnoticed DEF EventSpuriousWakeup, EventStep, EventCheckStop,
     EventLockQueue, EventMustWait, EventBlock, EventPop, EventPrecheck,
     EventRequeue, EventDone, work, threads
<1> QED
  BY <1>1, <1>2, <1>3, <1>4 DEF Session!Next

\* No step of a worker is noticed: a notify_one() wakes the event thread only.
LEMMA WorkerSimulates ==
  ASSUME NEW i \in Slots, WorkerStep(i)
  PROVE  UNCHANGED Session!vars
<1>1. CASE WorkerQueueTimeout(i)
  BY <1>1, Unnoticed DEF WorkerQueueTimeout, QueueEvent, Notify, work
<1>2. CASE WorkerAnnounce(i)
  BY <1>2, Unnoticed DEF WorkerAnnounce, QueueEvent, Notify, work
<1> QED
  BY <1>1, <1>2, Unnoticed DEF WorkerStep, WorkerEnter, WorkerCopyInput, WorkerLoop,
     WorkerReadTimer, WorkerReadRemaining, WorkerStop, WorkerCheckTarget, WorkerClaim,
     WorkerRecord, WorkerExit, work, events

\* Every step of the miner is one of a session, or none.
LEMMA StepSimulates ==
  TypeOK /\ MinerInv /\ SolvedInv /\ JobInv /\ [Next]_vars
    => [Session!Next]_(Session!vars)
<1> SUFFICES ASSUME TypeOK, MinerInv, SolvedInv, JobInv, [Next]_vars
             PROVE  Session!Next \/ UNCHANGED Session!vars
  OBVIOUS
<1>1. CASE \E c \in Callers : CallStep(c)
  BY <1>1, CallerSimulates
<1>2. CASE EventStep \/ EventSpuriousWakeup \/ HandlerReturn
  BY <1>2, EventSimulates
<1>3. CASE \E i \in Slots : WorkerStep(i)
  BY <1>3, WorkerSimulates
<1>4. CASE \E c \in Callers : NewCall(c)
  BY <1>4, Unnoticed DEF NewCall, CallStart, CallCancel, CallSetTimer,
     CallDisableTimer, Supersede, work, threads, events
<1>5. CASE NewClientCall \/ ClientCallStep
  BY <1>5, Unnoticed DEF NewClientCall, CallDestroy, CallWait, ClientCallStep,
     DestroyStop, DestroyJoin, WaitReturn, Supersede, Notify, work, threads, events
<1>6. CASE DeadlinePasses \/ Terminated \/ UNCHANGED vars
  BY <1>6, Unnoticed DEF DeadlinePasses, Terminated, vars, work, threads, events
<1> QED
  BY <1>1, <1>2, <1>3, <1>4, <1>5, <1>6 DEF Next

\* The miner implements the sessions its users think in, for every number of
\* threads, jobs and nonces.
THEOREM MinerKeepsSessions ==
  Spec => SessionKept
<1>1. Init => Session!Init
  BY DEF Init, Session!Init
<1> QED
  BY <1>1, StepSimulates, SolvedInvariant, JobInvariant, PTL
  DEF Spec, SessionKept, Session!Spec
=============================================================================
