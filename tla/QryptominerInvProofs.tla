----------------------- MODULE QryptominerInvProofs -----------------------
(***************************************************************************)
(* Qryptominer is typed, MinerInv is inductive, and the safety properties  *)
(* that follow from it, for any number of threads, nonces, jobs and calls. *)
(***************************************************************************)
EXTENDS QryptominerInv, TLAPS

\* A worker's counter wraps and stays a nonce.
LEMMA NextNonceType ==
  ASSUME TypeOK, NEW i \in Slots, NextNonce(i)
  PROVE  nonce' \in [Slots -> Nonces]
<1>1. (nonce[i] + stride[i]) % NonceMod \in Nonces
  BY MinerAssumption DEF TypeOK, ThreadsType, Nonces
<1> QED
  BY <1>1 DEF NextNonce, TypeOK, ThreadsType

\* Init assigns values of the types.
LEMMA InitType ==
  Init => TypeOK
<1> SUFFICES ASSUME Init PROVE TypeOK
  OBVIOUS
<1>0. 0 \in Nonces
  BY MinerAssumption DEF Nonces
<1>1. WorkType
  BY <1>0 DEF Init, WorkType, AnyJob
<1>2. ClockType
  BY DEF Init, ClockType
<1>3. ThreadsType
  BY <1>0, MinerAssumption DEF Init, ThreadsType, WorkerPlaces, AnyJob
<1>4. LocksType
  BY DEF Init, LocksType
<1>5. EventsType
  <2>1. queue \in Seq(Events) /\ handled \in SUBSET (EventTypes \X Nat)
    BY DEF Init
  <2> QED
    BY <2>1 DEF Init, EventsType, EventPlaces
<1>6. CallsType
  <2>1. 0 \in 0 .. MaxThreads
    BY MinerAssumption
  <2>2. NoCall("none") \in Calls
    BY <2>1 DEF NoCall, Calls, AnyJob
  <2> QED
    BY <2>2 DEF Init, CallsType, CallPlaces
<1> QED
  BY <1>1, <1>2, <1>3, <1>4, <1>5, <1>6 DEF TypeOK

\* Every step keeps the types, the groups of variables it leaves alone first.
LEMMA NextType ==
  TypeOK /\ [Next]_vars => TypeOK'
<1> SUFFICES ASSUME TypeOK, [Next]_vars PROVE TypeOK'
  OBVIOUS
<1>1. ASSUME NEW c \in Callers, CallStart(c) PROVE TypeOK'
  <2>1. CallsType'
    BY MinerAssumption, <1>1 DEF CallStart, Supersede, EffectiveCount, Calls, AnyJob, Goto, Callers, Client, Event, CallPlaces, TypeOK, CallsType
  <2> QED
    BY <1>1, <2>1 DEF CallStart, Supersede, TypeOK, WorkType, ClockType, ThreadsType, LocksType, EventsType, work, clock, threads, locks, events
<1>2. ASSUME NEW c \in Callers, CallCancel(c) PROVE TypeOK'
  <2>1. CallsType'
    BY MinerAssumption, <1>2 DEF CallCancel, Supersede, NoCall, Calls, AnyJob, Goto, Callers, Client, Event, CallPlaces, TypeOK, CallsType
  <2> QED
    BY <1>2, <2>1 DEF CallCancel, Supersede, TypeOK, WorkType, ClockType, ThreadsType, LocksType, EventsType, work, clock, threads, locks, events
<1>3. CASE CallDestroy
  <2>1. CallsType'
    BY MinerAssumption, <1>3 DEF CallDestroy, Supersede, NoCall, Calls, AnyJob, Goto, Callers, Client, Event, CallPlaces, TypeOK, CallsType
  <2> QED
    BY <1>3, <2>1 DEF CallDestroy, Supersede, TypeOK, WorkType, ClockType, ThreadsType, LocksType, EventsType, work, clock, threads, locks, events
<1>4. ASSUME NEW c \in Callers, CancelLockEvent(c) PROVE TypeOK'
  <2>1. LocksType'
    BY <1>4 DEF CancelLockEvent, TypeOK, LocksType
  <2>2. CallsType'
    BY <1>4 DEF CancelLockEvent, Goto, Callers, Client, Event, CallPlaces, TypeOK, CallsType
  <2> QED
    BY <1>4, <2>1, <2>2 DEF CancelLockEvent, TypeOK, WorkType, ClockType, ThreadsType, EventsType, work, clock, threads, events
<1>5. ASSUME NEW c \in Callers, CancelLockRunning(c) PROVE TypeOK'
  <2>1. WorkType'
    BY <1>5 DEF CancelLockRunning, TypeOK, WorkType
  <2>2. LocksType'
    BY <1>5 DEF CancelLockRunning, TypeOK, LocksType
  <2>3. CallsType'
    BY <1>5 DEF CancelLockRunning, Goto, Callers, Client, Event, CallPlaces, TypeOK, CallsType
  <2> QED
    BY <1>5, <2>1, <2>2, <2>3 DEF CancelLockRunning, TypeOK, ClockType, ThreadsType, EventsType, clock, threads, events
<1>6. ASSUME NEW c \in Callers, CancelFinish(c) PROVE TypeOK'
  <2>1. WorkType'
    BY MinerAssumption, <1>6 DEF CancelFinish, TypeOK, WorkType
  <2>2. ThreadsType'
    BY MinerAssumption, <1>6 DEF CancelFinish, Nonces, WorkerPlaces, AnyJob, TypeOK, ThreadsType
  <2>3. LocksType'
    BY MinerAssumption, <1>6 DEF CancelFinish, Callers, Event, TypeOK, LocksType
  <2>4. CallsType'
    BY MinerAssumption, <1>6 DEF CancelFinish, AfterCancel, Goto, Callers, Client, Event, CallPlaces, TypeOK, CallsType
  <2> QED
    BY <1>6, <2>1, <2>2, <2>3, <2>4 DEF CancelFinish, TypeOK, ClockType, EventsType, clock, events
<1>7. ASSUME NEW c \in Callers, StartSetWork(c) PROVE TypeOK'
  <2>1. WorkType'
    BY <1>7 DEF StartSetWork, CallsType, Calls, TypeOK, WorkType
  <2>2. CallsType'
    BY <1>7 DEF StartSetWork, Goto, Callers, Client, Event, CallPlaces, TypeOK, CallsType
  <2> QED
    BY <1>7, <2>1, <2>2 DEF StartSetWork, TypeOK, ClockType, ThreadsType, LocksType, EventsType, clock, threads, locks, events
<1>8. ASSUME NEW c \in Callers, StartResetStop(c) PROVE TypeOK'
  <2>1. WorkType'
    BY <1>8 DEF StartResetStop, TypeOK, WorkType
  <2>2. CallsType'
    BY <1>8 DEF StartResetStop, Goto, Callers, Client, Event, CallPlaces, TypeOK, CallsType
  <2> QED
    BY <1>8, <2>1, <2>2 DEF StartResetStop, TypeOK, ClockType, ThreadsType, LocksType, EventsType, clock, threads, locks, events
<1>9. ASSUME NEW c \in Callers, StartResetFound(c) PROVE TypeOK'
  <2>1. WorkType'
    BY <1>9 DEF StartResetFound, TypeOK, WorkType
  <2>2. CallsType'
    BY <1>9 DEF StartResetFound, Goto, Callers, Client, Event, CallPlaces, TypeOK, CallsType
  <2> QED
    BY <1>9, <2>1, <2>2 DEF StartResetFound, TypeOK, ClockType, ThreadsType, LocksType, EventsType, clock, threads, locks, events
<1>10. ASSUME NEW c \in Callers, StartLoadSeq(c) PROVE TypeOK'
  <2>1. CallsType'
    BY <1>10 DEF StartLoadSeq, WorkType, LoadedSeq, Calls, Goto, Callers, Client, Event, CallPlaces, TypeOK, CallsType
  <2> QED
    BY <1>10, <2>1 DEF StartLoadSeq, TypeOK, WorkType, ClockType, ThreadsType, LocksType, EventsType, work, clock, threads, locks, events
<1>11. ASSUME NEW c \in Callers, StartLockRunning(c) PROVE TypeOK'
  <2>1. LocksType'
    BY <1>11 DEF StartLockRunning, TypeOK, LocksType
  <2>2. CallsType'
    BY <1>11 DEF StartLockRunning, Goto, Callers, Client, Event, CallPlaces, TypeOK, CallsType
  <2> QED
    BY <1>11, <2>1, <2>2 DEF StartLockRunning, TypeOK, WorkType, ClockType, ThreadsType, EventsType, work, clock, threads, events
<1>12. ASSUME NEW c \in Callers, StartSpawn(c) PROVE TypeOK'
  <2>1. ThreadsType'
    <3>1. running \in Slots /\ running + 1 \in 0 .. MaxThreads
    BY <1>12, MinerAssumption DEF StartSpawn, TypeOK, ThreadsType, CallsType, Calls, Slots
    <3>2. call[c].seq \in Nat /\ call[c].n % 256 \in Nat
    BY <1>12 DEF TypeOK, CallsType, Calls
    <3> QED
    BY <1>12, <3>1, <3>2 DEF StartSpawn, TypeOK, ThreadsType, WorkerPlaces
  <2> QED
    BY <1>12, <2>1 DEF StartSpawn, TypeOK, WorkType, ClockType, LocksType, EventsType, CallsType, work, clock, locks, events, calls
<1>13. ASSUME NEW c \in Callers, StartReturn(c) PROVE TypeOK'
  <2>1. LocksType'
    BY MinerAssumption, <1>13 DEF StartReturn, TypeOK, LocksType
  <2>2. CallsType'
    BY MinerAssumption, <1>13 DEF StartReturn, NoCall, Calls, AnyJob, Goto, Callers, Client, Event, CallPlaces, TypeOK, CallsType
  <2> QED
    BY <1>13, <2>1, <2>2 DEF StartReturn, TypeOK, WorkType, ClockType, ThreadsType, EventsType, work, clock, threads, events
<1>14. CASE DestroyStop
  <2>1. EventsType'
    BY <1>14 DEF DestroyStop, Notify, EventPlaces, TypeOK, EventsType
  <2>2. CallsType'
    BY <1>14 DEF DestroyStop, Goto, Callers, Client, Event, CallPlaces, TypeOK, CallsType
  <2> QED
    BY <1>14, <2>1, <2>2 DEF DestroyStop, TypeOK, WorkType, ClockType, ThreadsType, LocksType, work, clock, threads, locks
<1>15. CASE DestroyJoin
  <2>1. CallsType'
    BY <1>15 DEF DestroyJoin, Goto, Callers, Client, Event, CallPlaces, TypeOK, CallsType
  <2> QED
    BY <1>15, <2>1 DEF DestroyJoin, TypeOK, WorkType, ClockType, ThreadsType, LocksType, EventsType, work, clock, threads, locks, events
<1>16. ASSUME NEW c \in Callers, CallSetTimer(c) PROVE TypeOK'
  <2>1. ClockType'
    BY <1>16 DEF CallSetTimer, TypeOK, ClockType
  <2>2. CallsType'
    BY <1>16 DEF CallSetTimer, Goto, Callers, Client, Event, CallPlaces, TypeOK, CallsType
  <2> QED
    BY <1>16, <2>1, <2>2 DEF CallSetTimer, TypeOK, WorkType, ThreadsType, LocksType, EventsType, work, threads, locks, events
<1>17. ASSUME NEW c \in Callers, ArmTimer(c) PROVE TypeOK'
  <2>1. ClockType'
    BY <1>17 DEF ArmTimer, TypeOK, ClockType
  <2>2. CallsType'
    BY <1>17 DEF ArmTimer, Goto, Callers, Client, Event, CallPlaces, TypeOK, CallsType
  <2> QED
    BY <1>17, <2>1, <2>2 DEF ArmTimer, TypeOK, WorkType, ThreadsType, LocksType, EventsType, work, threads, locks, events
<1>18. ASSUME NEW c \in Callers, CallDisableTimer(c) PROVE TypeOK'
  <2>1. ClockType'
    BY <1>18 DEF CallDisableTimer, TypeOK, ClockType
  <2> QED
    BY <1>18, <2>1 DEF CallDisableTimer, TypeOK, WorkType, ThreadsType, LocksType, EventsType, CallsType, work, threads, locks, events, calls
<1>19. CASE DeadlinePasses
  <2>1. ClockType'
    BY <1>19 DEF DeadlinePasses, TypeOK, ClockType
  <2> QED
    BY <1>19, <2>1 DEF DeadlinePasses, TypeOK, WorkType, ThreadsType, LocksType, EventsType, CallsType, work, threads, locks, events, calls
<1>20. CASE CallWait
  <2>1. CallsType'
    BY <1>20 DEF CallWait, Goto, Callers, Client, Event, CallPlaces, TypeOK, CallsType
  <2> QED
    BY <1>20, <2>1 DEF CallWait, TypeOK, WorkType, ClockType, ThreadsType, LocksType, EventsType, work, clock, threads, locks, events
<1>21. CASE WaitReturn
  <2>1. CallsType'
    BY <1>21 DEF WaitReturn, Goto, Callers, Client, Event, CallPlaces, TypeOK, CallsType
  <2> QED
    BY <1>21, <2>1 DEF WaitReturn, TypeOK, WorkType, ClockType, ThreadsType, LocksType, EventsType, work, clock, threads, locks, events
<1>22. ASSUME NEW i \in Slots, WorkerEnter(i) PROVE TypeOK'
  <2>1. ThreadsType'
    BY <1>22 DEF WorkerEnter, GotoW, WorkerPlaces, TypeOK, ThreadsType
  <2> QED
    BY <1>22, <2>1 DEF WorkerEnter, TypeOK, WorkType, ClockType, LocksType, EventsType, CallsType, work, clock, locks, events, calls
<1>23. ASSUME NEW i \in Slots, WorkerCopyInput(i) PROVE TypeOK'
  <2>1. ThreadsType'
    <3>1. FirstNonce(i) \in Nonces
    BY MinerAssumption DEF FirstNonce, Slots, Nonces
    <3> QED
    BY <1>23, <3>1 DEF WorkerCopyInput, GotoW, WorkerPlaces, TypeOK, ThreadsType, WorkType
  <2> QED
    BY <1>23, <2>1 DEF WorkerCopyInput, TypeOK, WorkType, ClockType, LocksType, EventsType, CallsType, work, clock, locks, events, calls
<1>24. ASSUME NEW i \in Slots, WorkerLoop(i) PROVE TypeOK'
  <2>1. ThreadsType'
    BY <1>24 DEF WorkerLoop, GotoW, WorkerPlaces, TypeOK, ThreadsType
  <2> QED
    BY <1>24, <2>1 DEF WorkerLoop, TypeOK, WorkType, ClockType, LocksType, EventsType, CallsType, work, clock, locks, events, calls
<1>25. ASSUME NEW i \in Slots, WorkerReadTimer(i) PROVE TypeOK'
  <2>1. ThreadsType'
    BY <1>25 DEF WorkerReadTimer, GotoW, WorkerPlaces, TypeOK, ThreadsType
  <2> QED
    BY <1>25, <2>1 DEF WorkerReadTimer, TypeOK, WorkType, ClockType, LocksType, EventsType, CallsType, work, clock, locks, events, calls
<1>26. ASSUME NEW i \in Slots, WorkerReadRemaining(i) PROVE TypeOK'
  <2>1. ThreadsType'
    BY <1>26 DEF WorkerReadRemaining, GotoW, WorkerPlaces, TypeOK, ThreadsType
  <2> QED
    BY <1>26, <2>1 DEF WorkerReadRemaining, TypeOK, WorkType, ClockType, LocksType, EventsType, CallsType, work, clock, locks, events, calls
<1>27. ASSUME NEW i \in Slots, WorkerQueueTimeout(i) PROVE TypeOK'
  <2>1. ThreadsType'
    BY <1>27 DEF WorkerQueueTimeout, GotoW, WorkerPlaces, TypeOK, ThreadsType
  <2>2. EventsType'
    <3>1. MinerEvent("TIMEOUT", wseq[i], 0) \in Events
    BY MinerAssumption DEF TypeOK, ThreadsType, MinerEvent, Events, EventTypes, Nonces
    <3> QED
    BY <1>27, <3>1 DEF WorkerQueueTimeout, QueueEvent, Notify, EventPlaces, TypeOK, EventsType
  <2> QED
    BY <1>27, <2>1, <2>2 DEF WorkerQueueTimeout, TypeOK, WorkType, ClockType, LocksType, CallsType, work, clock, locks, calls
<1>28. ASSUME NEW i \in Slots, WorkerStop(i) PROVE TypeOK'
  <2>1. WorkType'
    BY <1>28 DEF WorkerStop, TypeOK, WorkType
  <2>2. ThreadsType'
    BY <1>28 DEF WorkerStop, GotoW, WorkerPlaces, TypeOK, ThreadsType
  <2> QED
    BY <1>28, <2>1, <2>2 DEF WorkerStop, TypeOK, ClockType, LocksType, EventsType, CallsType, clock, locks, events, calls
<1>29. ASSUME NEW i \in Slots, WorkerCheckTarget(i) PROVE TypeOK'
  <2>1. ThreadsType'
    BY <1>29, NextNonceType DEF WorkerCheckTarget, GotoW, WorkerPlaces, TypeOK, ThreadsType
  <2> QED
    BY <1>29, <2>1 DEF WorkerCheckTarget, TypeOK, WorkType, ClockType, LocksType, EventsType, CallsType, work, clock, locks, events, calls
<1>30. ASSUME NEW i \in Slots, WorkerClaim(i) PROVE TypeOK'
  <2>1. WorkType'
    BY <1>30 DEF WorkerClaim, TypeOK, WorkType
  <2>2. ThreadsType'
    BY <1>30, NextNonceType DEF WorkerClaim, GotoW, WorkerPlaces, TypeOK, ThreadsType
  <2>3. LocksType'
    BY <1>30 DEF WorkerClaim, TypeOK, LocksType
  <2> QED
    BY <1>30, <2>1, <2>2, <2>3 DEF WorkerClaim, TypeOK, ClockType, EventsType, CallsType, clock, events, calls
<1>31. ASSUME NEW i \in Slots, WorkerRecord(i) PROVE TypeOK'
  <2>1. WorkType'
    BY <1>31 DEF WorkerRecord, ThreadsType, TypeOK, WorkType
  <2>2. ThreadsType'
    BY <1>31 DEF WorkerRecord, GotoW, WorkerPlaces, TypeOK, ThreadsType
  <2> QED
    BY <1>31, <2>1, <2>2 DEF WorkerRecord, TypeOK, ClockType, LocksType, EventsType, CallsType, clock, locks, events, calls
<1>32. ASSUME NEW i \in Slots, WorkerAnnounce(i) PROVE TypeOK'
  <2>1. ThreadsType'
    BY <1>32, NextNonceType DEF WorkerAnnounce, GotoW, WorkerPlaces, TypeOK, ThreadsType
  <2>2. LocksType'
    BY <1>32 DEF WorkerAnnounce, TypeOK, LocksType
  <2>3. EventsType'
    <3>1. MinerEvent("SOLUTION", wseq[i], nonce[i]) \in Events
    BY DEF TypeOK, ThreadsType, MinerEvent, Events, EventTypes
    <3> QED
    BY <1>32, <3>1 DEF WorkerAnnounce, QueueEvent, Notify, EventPlaces, TypeOK, EventsType
  <2> QED
    BY <1>32, <2>1, <2>2, <2>3 DEF WorkerAnnounce, TypeOK, WorkType, ClockType, CallsType, work, clock, calls
<1>33. ASSUME NEW i \in Slots, WorkerExit(i) PROVE TypeOK'
  <2>1. ThreadsType'
    BY <1>33 DEF WorkerExit, GotoW, WorkerPlaces, TypeOK, ThreadsType
  <2> QED
    BY <1>33, <2>1 DEF WorkerExit, TypeOK, WorkType, ClockType, LocksType, EventsType, CallsType, work, clock, locks, events, calls
<1>34. CASE EventCheckStop
  <2>1. EventsType'
    BY <1>34 DEF EventCheckStop, EventPlaces, TypeOK, EventsType
  <2> QED
    BY <1>34, <2>1 DEF EventCheckStop, TypeOK, WorkType, ClockType, ThreadsType, LocksType, CallsType, work, clock, threads, locks, calls
<1>35. CASE EventLockQueue
  <2>1. LocksType'
    BY <1>35 DEF EventLockQueue, TypeOK, LocksType
  <2>2. EventsType'
    BY <1>35 DEF EventLockQueue, EventPlaces, TypeOK, EventsType
  <2> QED
    BY <1>35, <2>1, <2>2 DEF EventLockQueue, TypeOK, WorkType, ClockType, ThreadsType, CallsType, work, clock, threads, calls
<1>36. CASE EventMustWait
  <2>1. EventsType'
    BY <1>36 DEF EventMustWait, EventPlaces, TypeOK, EventsType
  <2> QED
    BY <1>36, <2>1 DEF EventMustWait, TypeOK, WorkType, ClockType, ThreadsType, LocksType, CallsType, work, clock, threads, locks, calls
<1>37. CASE EventBlock
  <2>1. LocksType'
    BY <1>37 DEF EventBlock, TypeOK, LocksType
  <2>2. EventsType'
    BY <1>37 DEF EventBlock, EventPlaces, TypeOK, EventsType
  <2> QED
    BY <1>37, <2>1, <2>2 DEF EventBlock, TypeOK, WorkType, ClockType, ThreadsType, CallsType, work, clock, threads, calls
<1>38. CASE EventSpuriousWakeup
  <2>1. EventsType'
    BY <1>38 DEF EventSpuriousWakeup, EventPlaces, TypeOK, EventsType
  <2> QED
    BY <1>38, <2>1 DEF EventSpuriousWakeup, TypeOK, WorkType, ClockType, ThreadsType, LocksType, CallsType, work, clock, threads, locks, calls
<1>39. CASE EventPop
  <2>1. LocksType'
    BY <1>39 DEF EventPop, TypeOK, LocksType
  <2>2. EventsType'
    <3>1. queue # <<>> => Head(queue) \in Events /\ Tail(queue) \in Seq(Events)
    BY DEF TypeOK, EventsType
    <3> QED
    BY <1>39, <3>1 DEF EventPop, EventPlaces, TypeOK, EventsType
  <2> QED
    BY <1>39, <2>1, <2>2 DEF EventPop, TypeOK, WorkType, ClockType, ThreadsType, CallsType, work, clock, threads, calls
<1>40. CASE EventPrecheck
  <2>1. EventsType'
    BY <1>40 DEF EventPrecheck, EventDone, EventPlaces, TypeOK, EventsType
  <2> QED
    BY <1>40, <2>1 DEF EventPrecheck, TypeOK, WorkType, ClockType, ThreadsType, LocksType, CallsType, work, clock, threads, locks, calls
<1>41. CASE EventSend
  <2>1. LocksType'
    BY <1>41 DEF EventSend, Callers, TypeOK, LocksType
  <2>2. EventsType'
    <3>1. Handle => handled' \in SUBSET (EventTypes \X Nat)
      <4>1. epc = "send" /\ event \in Events
        BY <1>41 DEF EventSend, TypeOK, EventsType
      <4> QED
        BY <4>1 DEF Handle, Events, TypeOK, EventsType
    <3> QED
      BY <1>41, <3>1 DEF EventSend, EventDone, EventPlaces, TypeOK, EventsType
  <2> QED
    BY <1>41, <2>1, <2>2 DEF EventSend, TypeOK, WorkType, ClockType, ThreadsType, CallsType, work, clock, threads, calls
<1>42. CASE HandlerAccept
  <2>1. LocksType'
    BY <1>42 DEF HandlerAccept, TypeOK, LocksType
  <2>2. EventsType'
    BY <1>42 DEF HandlerAccept, EventDone, Handle, Events, EventPlaces, TypeOK, EventsType
  <2> QED
    BY <1>42, <2>1, <2>2 DEF HandlerAccept, TypeOK, WorkType, ClockType, ThreadsType, CallsType, work, clock, threads, calls
<1>43. CASE HandlerReject
  <2>1. LocksType'
    BY <1>43 DEF HandlerReject, TypeOK, LocksType
  <2>2. EventsType'
    BY <1>43 DEF HandlerReject, EventPlaces, TypeOK, EventsType
  <2> QED
    BY <1>43, <2>1, <2>2 DEF HandlerReject, TypeOK, WorkType, ClockType, ThreadsType, CallsType, work, clock, threads, calls
<1>44. CASE EventRequeue
  <2>1. EventsType'
    BY <1>44 DEF EventRequeue, EventDone, EventPlaces, TypeOK, EventsType
  <2> QED
    BY <1>44, <2>1 DEF EventRequeue, TypeOK, WorkType, ClockType, ThreadsType, LocksType, CallsType, work, clock, threads, locks, calls
<1>45. CASE UNCHANGED vars
  BY <1>45 DEF TypeOK, WorkType, ClockType, ThreadsType, LocksType, EventsType, CallsType, vars, work, clock, threads, locks, events, calls
<1> QED
  BY <1>1, <1>2, <1>3, <1>4, <1>5, <1>6, <1>7, <1>8, <1>9, <1>10, <1>11, <1>12, <1>13, <1>14, <1>15, <1>16, <1>17, <1>18, <1>19, <1>20, <1>21, <1>22, <1>23, <1>24, <1>25, <1>26, <1>27, <1>28, <1>29, <1>30, <1>31, <1>32, <1>33, <1>34, <1>35, <1>36, <1>37, <1>38, <1>39, <1>40, <1>41, <1>42, <1>43, <1>44, <1>45
     DEF Next, NewCall, CallStep, NewClientCall, ClientCallStep, WorkerStep,
         EventStep, HandlerReturn, Terminated

\* The type invariant holds for every number of workers, callers and nonces.
THEOREM TypeCorrect ==
  Spec => []TypeOK
  BY InitType, NextType, PTL DEF Spec

-----------------------------------------------------------------------------
\* What is in a queue after push_back(): the old events and the new one.
LEMMA AppendInv ==
  ASSUME NEW S, NEW q \in Seq(S), NEW e
  PROVE  /\ Len(Append(q, e)) = Len(q) + 1
         /\ \A k \in 1 .. Len(Append(q, e)) :
              \/ k \in 1 .. Len(q) /\ Append(q, e)[k] = q[k]
              \/ k = Len(q) + 1 /\ Append(q, e)[k] = e
  OBVIOUS

\* Every lock is taken and released by its owner.
LEMMA LockStep ==
  TypeOK /\ MinerInv /\ [Next]_vars => LockInv'
<1> SUFFICES ASSUME TypeOK, MinerInv, [Next]_vars PROVE LockInv'
  OBVIOUS
<1>1. ASSUME NEW c \in Callers, CallStart(c) PROVE LockInv'
  BY <1>1, MinerAssumption DEF CallStart, Supersede, NoCall, MayCall, Goto,
     MinerInv, LockInv, Slots, Callers, Client, Event, Free, NoWorker, TypeOK,
     ThreadsType, LocksType, CallsType, threads, locks, events, calls
<1>2. ASSUME NEW c \in Callers, CallCancel(c) PROVE LockInv'
  BY <1>2, MinerAssumption DEF CallCancel, Supersede, NoCall, MayCall, Goto,
     MinerInv, LockInv, Slots, Callers, Client, Event, Free, NoWorker, TypeOK,
     ThreadsType, LocksType, CallsType, threads, locks, events, calls
<1>3. CASE CallDestroy
  BY <1>3, MinerAssumption DEF CallDestroy, Supersede, NoCall, MayCall,
     Destroying, Goto, MinerInv, LockInv, Slots, Callers, Client, Event, Free,
     NoWorker, TypeOK, ThreadsType, LocksType, CallsType, threads, locks,
     events, calls
<1>4. ASSUME NEW c \in Callers, CancelLockEvent(c) PROVE LockInv'
  BY <1>4, MinerAssumption DEF CancelLockEvent, MayLockEvent, Goto, MinerInv,
     LockInv, Slots, Callers, Client, Event, Free, NoWorker, TypeOK,
     ThreadsType, LocksType, CallsType, threads, locks, events, calls
<1>5. ASSUME NEW c \in Callers, CancelLockRunning(c) PROVE LockInv'
  BY <1>5, MinerAssumption DEF CancelLockRunning, MayLockRunning, Goto,
     MinerInv, LockInv, Slots, Callers, Client, Event, Free, NoWorker, TypeOK,
     ThreadsType, LocksType, CallsType, threads, locks, events, calls
<1>6. ASSUME NEW c \in Callers, CancelFinish(c) PROVE LockInv'
  BY <1>6, MinerAssumption DEF CancelFinish, AllJoined, AfterCancel, Goto,
     MinerInv, LockInv, Slots, Callers, Client, Event, Free, NoWorker, TypeOK,
     ThreadsType, LocksType, CallsType, threads, locks, events, calls
<1>7. ASSUME NEW c \in Callers, StartSetWork(c) PROVE LockInv'
  BY <1>7, MinerAssumption DEF StartSetWork, Goto, MinerInv, LockInv, Slots,
     Callers, Client, Event, Free, NoWorker, TypeOK, ThreadsType, LocksType,
     CallsType, threads, locks, events, calls
<1>8. ASSUME NEW c \in Callers, StartResetStop(c) PROVE LockInv'
  BY <1>8, MinerAssumption DEF StartResetStop, Goto, MinerInv, LockInv, Slots,
     Callers, Client, Event, Free, NoWorker, TypeOK, ThreadsType, LocksType,
     CallsType, threads, locks, events, calls
<1>9. ASSUME NEW c \in Callers, StartResetFound(c) PROVE LockInv'
  BY <1>9, MinerAssumption DEF StartResetFound, Goto, MinerInv, LockInv,
     Slots, Callers, Client, Event, Free, NoWorker, TypeOK, ThreadsType,
     LocksType, CallsType, threads, locks, events, calls
<1>10. ASSUME NEW c \in Callers, StartLoadSeq(c) PROVE LockInv'
  BY <1>10, MinerAssumption DEF StartLoadSeq, LoadedSeq, Goto, MinerInv,
     LockInv, Slots, Callers, Client, Event, Free, NoWorker, TypeOK,
     ThreadsType, LocksType, CallsType, threads, locks, events, calls
<1>11. ASSUME NEW c \in Callers, StartLockRunning(c) PROVE LockInv'
  BY <1>11, MinerAssumption DEF StartLockRunning, Goto, MinerInv, LockInv,
     Slots, Callers, Client, Event, Free, NoWorker, TypeOK, ThreadsType,
     LocksType, CallsType, threads, locks, events, calls
<1>12. ASSUME NEW c \in Callers, StartSpawn(c) PROVE LockInv'
  <2>1. running \in Slots /\ wpc[running] = "none"
    BY <1>12, MinerAssumption DEF StartSpawn, MinerInv, WorkInv, TypeOK, ThreadsType,
       CallsType, Calls, Slots
  <2> QED
    BY <1>12, <2>1 DEF StartSpawn, MinerInv, LockInv, Callers, Client, Event, calls,
       locks, events, TypeOK, ThreadsType
<1>13. ASSUME NEW c \in Callers, StartReturn(c) PROVE LockInv'
  BY <1>13, MinerAssumption DEF StartReturn, NoCall, Goto, MinerInv, LockInv,
     Slots, Callers, Client, Event, Free, NoWorker, TypeOK, ThreadsType,
     LocksType, CallsType, threads, locks, events, calls
<1>14. CASE DestroyStop
  BY <1>14, MinerAssumption DEF DestroyStop, Notify, Goto, MinerInv, LockInv,
     Slots, Callers, Client, Event, Free, NoWorker, TypeOK, ThreadsType,
     LocksType, CallsType, threads, locks, events, calls
<1>15. CASE DestroyJoin
  BY <1>15, MinerAssumption DEF DestroyJoin, Goto, MinerInv, LockInv, Slots,
     Callers, Client, Event, Free, NoWorker, TypeOK, ThreadsType, LocksType,
     CallsType, threads, locks, events, calls
<1>16. ASSUME NEW c \in Callers, CallSetTimer(c) PROVE LockInv'
  BY <1>16, MinerAssumption DEF CallSetTimer, MayCall, Goto, MinerInv,
     LockInv, Slots, Callers, Client, Event, Free, NoWorker, TypeOK,
     ThreadsType, LocksType, CallsType, threads, locks, events, calls
<1>17. ASSUME NEW c \in Callers, ArmTimer(c) PROVE LockInv'
  BY <1>17, MinerAssumption DEF ArmTimer, Goto, MinerInv, LockInv, Slots,
     Callers, Client, Event, Free, NoWorker, TypeOK, ThreadsType, LocksType,
     CallsType, threads, locks, events, calls
<1>18. CASE CallWait
  BY <1>18, MinerAssumption DEF CallWait, MayCall, Goto, MinerInv, LockInv,
     Slots, Callers, Client, Event, Free, NoWorker, TypeOK, ThreadsType,
     LocksType, CallsType, threads, locks, events, calls
<1>19. CASE WaitReturn
  BY <1>19, MinerAssumption DEF WaitReturn, Goto, MinerInv, LockInv, Slots,
     Callers, Client, Event, Free, NoWorker, TypeOK, ThreadsType, LocksType,
     CallsType, threads, locks, events, calls
<1>20. ASSUME NEW i \in Slots, WorkerEnter(i) PROVE LockInv'
  BY <1>20, MinerAssumption DEF WorkerEnter, GotoW, MinerInv, LockInv, Slots,
     Callers, Client, Event, Free, NoWorker, TypeOK, ThreadsType, LocksType,
     CallsType, threads, locks, events, calls
<1>21. ASSUME NEW i \in Slots, WorkerCopyInput(i) PROVE LockInv'
  BY <1>21, MinerAssumption DEF WorkerCopyInput, GotoW, MinerInv, LockInv,
     Slots, Callers, Client, Event, Free, NoWorker, TypeOK, ThreadsType,
     LocksType, CallsType, threads, locks, events, calls
<1>22. ASSUME NEW i \in Slots, WorkerLoop(i) PROVE LockInv'
  BY <1>22, MinerAssumption DEF WorkerLoop, MayGoOn, GotoW, MinerInv, LockInv,
     Slots, Callers, Client, Event, Free, NoWorker, TypeOK, ThreadsType,
     LocksType, CallsType, threads, locks, events, calls
<1>23. ASSUME NEW i \in Slots, WorkerReadTimer(i) PROVE LockInv'
  BY <1>23, MinerAssumption DEF WorkerReadTimer, GotoW, MinerInv, LockInv,
     Slots, Callers, Client, Event, Free, NoWorker, TypeOK, ThreadsType,
     LocksType, CallsType, threads, locks, events, calls
<1>24. ASSUME NEW i \in Slots, WorkerReadRemaining(i) PROVE LockInv'
  BY <1>24, MinerAssumption DEF WorkerReadRemaining, GotoW, MinerInv, LockInv,
     Slots, Callers, Client, Event, Free, NoWorker, TypeOK, ThreadsType,
     LocksType, CallsType, threads, locks, events, calls
<1>25. ASSUME NEW i \in Slots, WorkerQueueTimeout(i) PROVE LockInv'
  BY <1>25, MinerAssumption DEF WorkerQueueTimeout, QueueEvent, Notify, GotoW,
     MinerInv, LockInv, Slots, Callers, Client, Event, Free, NoWorker, TypeOK,
     ThreadsType, LocksType, CallsType, threads, locks, events, calls
<1>26. ASSUME NEW i \in Slots, WorkerStop(i) PROVE LockInv'
  BY <1>26, MinerAssumption DEF WorkerStop, GotoW, MinerInv, LockInv, Slots,
     Callers, Client, Event, Free, NoWorker, TypeOK, ThreadsType, LocksType,
     CallsType, threads, locks, events, calls
<1>27. ASSUME NEW i \in Slots, WorkerCheckTarget(i) PROVE LockInv'
  BY <1>27, MinerAssumption DEF WorkerCheckTarget, GotoW, MinerInv, LockInv,
     Slots, Callers, Client, Event, Free, NoWorker, TypeOK, ThreadsType,
     LocksType, CallsType, threads, locks, events, calls
<1>28. ASSUME NEW i \in Slots, WorkerClaim(i) PROVE LockInv'
  BY <1>28, MinerAssumption DEF WorkerClaim, FirstClaim, GotoW, MinerInv,
     LockInv, Slots, Callers, Client, Event, Free, NoWorker, TypeOK,
     ThreadsType, LocksType, CallsType, threads, locks, events, calls
<1>29. ASSUME NEW i \in Slots, WorkerRecord(i) PROVE LockInv'
  BY <1>29, MinerAssumption DEF WorkerRecord, GotoW, MinerInv, LockInv, Slots,
     Callers, Client, Event, Free, NoWorker, TypeOK, ThreadsType, LocksType,
     CallsType, threads, locks, events, calls
<1>30. ASSUME NEW i \in Slots, WorkerAnnounce(i) PROVE LockInv'
  BY <1>30, MinerAssumption DEF WorkerAnnounce, QueueEvent, Notify, GotoW,
     MinerInv, LockInv, Slots, Callers, Client, Event, Free, NoWorker, TypeOK,
     ThreadsType, LocksType, CallsType, threads, locks, events, calls
<1>31. ASSUME NEW i \in Slots, WorkerExit(i) PROVE LockInv'
  BY <1>31, MinerAssumption DEF WorkerExit, GotoW, MinerInv, LockInv, Slots,
     Callers, Client, Event, Free, NoWorker, TypeOK, ThreadsType, LocksType,
     CallsType, threads, locks, events, calls
<1>32. CASE EventCheckStop
  BY <1>32, MinerAssumption DEF EventCheckStop, MinerInv, LockInv, Slots,
     Callers, Client, Event, Free, NoWorker, TypeOK, ThreadsType, LocksType,
     CallsType, threads, locks, events, calls
<1>33. CASE EventLockQueue
  BY <1>33, MinerAssumption DEF EventLockQueue, MinerInv, LockInv, Slots,
     Callers, Client, Event, Free, NoWorker, TypeOK, ThreadsType, LocksType,
     CallsType, threads, locks, events, calls
<1>34. CASE EventMustWait
  BY <1>34, MinerAssumption DEF EventMustWait, MinerInv, LockInv, Slots,
     Callers, Client, Event, Free, NoWorker, TypeOK, ThreadsType, LocksType,
     CallsType, threads, locks, events, calls
<1>35. CASE EventBlock
  BY <1>35, MinerAssumption DEF EventBlock, MinerInv, LockInv, Slots, Callers,
     Client, Event, Free, NoWorker, TypeOK, ThreadsType, LocksType, CallsType,
     threads, locks, events, calls
<1>36. CASE EventSpuriousWakeup
  BY <1>36, MinerAssumption DEF EventSpuriousWakeup, MinerInv, LockInv, Slots,
     Callers, Client, Event, Free, NoWorker, TypeOK, ThreadsType, LocksType,
     CallsType, threads, locks, events, calls
<1>37. CASE EventPop
  BY <1>37, MinerAssumption DEF EventPop, MinerInv, LockInv, Slots, Callers,
     Client, Event, Free, NoWorker, TypeOK, ThreadsType, LocksType, CallsType,
     threads, locks, events, calls
<1>38. CASE EventPrecheck
  BY <1>38, MinerAssumption DEF EventPrecheck, EventDone, MinerInv, LockInv,
     Slots, Callers, Client, Event, Free, NoWorker, TypeOK, ThreadsType,
     LocksType, CallsType, threads, locks, events, calls
<1>39. CASE EventSend
  BY <1>39, MinerAssumption DEF EventSend, StillCurrent, EventDone,
     Destroying, Handle, MinerInv, LockInv, Slots, Callers, Client, Event,
     Free, NoWorker, TypeOK, ThreadsType, LocksType, CallsType, threads,
     locks, events, calls
<1>40. CASE HandlerAccept
  BY <1>40, MinerAssumption DEF HandlerAccept, EventDone, Handle, MinerInv,
     LockInv, Slots, Callers, Client, Event, Free, NoWorker, TypeOK,
     ThreadsType, LocksType, CallsType, threads, locks, events, calls
<1>41. CASE HandlerReject
  BY <1>41, MinerAssumption DEF HandlerReject, MinerInv, LockInv, Slots,
     Callers, Client, Event, Free, NoWorker, TypeOK, ThreadsType, LocksType,
     CallsType, threads, locks, events, calls
<1>42. CASE EventRequeue
  BY <1>42, MinerAssumption DEF EventRequeue, EventDone, MinerInv, LockInv,
     Slots, Callers, Client, Event, Free, NoWorker, TypeOK, ThreadsType,
     LocksType, CallsType, threads, locks, events, calls
<1>43. ASSUME UNCHANGED <<eventMutex, runningMutex, solutionMutex, cpc, epc, wpc>> PROVE LockInv'
  BY <1>43 DEF MinerInv, LockInv, Slots, Callers, Client, Event, Free,
     NoWorker, TypeOK, ThreadsType, LocksType, CallsType
<1> QED
  BY <1>1, <1>2, <1>3, <1>4, <1>5, <1>6, <1>7, <1>8, <1>9, <1>10, <1>11,
     <1>12, <1>13, <1>14, <1>15, <1>16, <1>17, <1>18, <1>19, <1>20, <1>21,
     <1>22, <1>23, <1>24, <1>25, <1>26, <1>27, <1>28, <1>29, <1>30, <1>31,
     <1>32, <1>33, <1>34, <1>35, <1>36, <1>37, <1>38, <1>39, <1>40, <1>41,
     <1>42, <1>43 DEF Next, NewCall, CallStep, NewClientCall, ClientCallStep,
     WorkerStep, EventStep, HandlerReturn, Terminated, CallDisableTimer,
     DeadlinePasses, vars, work, clock, threads, locks, events, calls

\* A caller past its cancel() stays alone.
LEMMA CallerStep ==
  TypeOK /\ MinerInv /\ [Next]_vars => CallerInv'
<1> SUFFICES ASSUME TypeOK, MinerInv, [Next]_vars PROVE CallerInv'
  OBVIOUS
<1>1. ASSUME NEW c \in Callers, CallStart(c) PROVE CallerInv'
  BY <1>1, MinerAssumption DEF CallStart, Supersede, NoCall, MayCall, Goto,
     MinerInv, LockInv, CallerInv, EventInv, WorkInv, MayBeCurrent,
     ClientQuiet, MidStart, Slots, Callers, Client, Event, Free, TypeOK,
     ThreadsType, CallsType, threads, events, calls
<1>2. ASSUME NEW c \in Callers, CallCancel(c) PROVE CallerInv'
  BY <1>2, MinerAssumption DEF CallCancel, Supersede, NoCall, MayCall, Goto,
     MinerInv, LockInv, CallerInv, EventInv, WorkInv, MayBeCurrent,
     ClientQuiet, MidStart, Slots, Callers, Client, Event, Free, TypeOK,
     ThreadsType, CallsType, threads, events, calls
<1>3. CASE CallDestroy
  BY <1>3, MinerAssumption DEF CallDestroy, Supersede, NoCall, MayCall,
     Destroying, Goto, MinerInv, LockInv, CallerInv, EventInv, WorkInv,
     MayBeCurrent, ClientQuiet, MidStart, Slots, Callers, Client, Event, Free,
     TypeOK, ThreadsType, CallsType, threads, events, calls
<1>4. ASSUME NEW c \in Callers, CancelLockEvent(c) PROVE CallerInv'
  BY <1>4, MinerAssumption DEF CancelLockEvent, MayLockEvent, Goto, MinerInv,
     LockInv, CallerInv, EventInv, WorkInv, MayBeCurrent, ClientQuiet,
     MidStart, Slots, Callers, Client, Event, Free, TypeOK, ThreadsType,
     CallsType, threads, events, calls
<1>5. ASSUME NEW c \in Callers, CancelLockRunning(c) PROVE CallerInv'
  BY <1>5, MinerAssumption DEF CancelLockRunning, MayLockRunning, Goto,
     MinerInv, LockInv, CallerInv, EventInv, WorkInv, MayBeCurrent,
     ClientQuiet, MidStart, Slots, Callers, Client, Event, Free, TypeOK,
     ThreadsType, CallsType, threads, events, calls
<1>6. ASSUME NEW c \in Callers, CancelFinish(c) PROVE CallerInv'
  BY <1>6, MinerAssumption DEF CancelFinish, AllJoined, AfterCancel, Goto,
     MinerInv, LockInv, CallerInv, EventInv, WorkInv, MayBeCurrent,
     ClientQuiet, MidStart, Slots, Callers, Client, Event, Free, TypeOK,
     ThreadsType, CallsType, threads, events, calls
<1>7. ASSUME NEW c \in Callers, StartSetWork(c) PROVE CallerInv'
  BY <1>7, MinerAssumption DEF StartSetWork, Goto, MinerInv, LockInv,
     CallerInv, EventInv, WorkInv, MayBeCurrent, ClientQuiet, MidStart, Slots,
     Callers, Client, Event, Free, TypeOK, ThreadsType, CallsType, threads,
     events, calls
<1>8. ASSUME NEW c \in Callers, StartResetStop(c) PROVE CallerInv'
  BY <1>8, MinerAssumption DEF StartResetStop, Goto, MinerInv, LockInv,
     CallerInv, EventInv, WorkInv, MayBeCurrent, ClientQuiet, MidStart, Slots,
     Callers, Client, Event, Free, TypeOK, ThreadsType, CallsType, threads,
     events, calls
<1>9. ASSUME NEW c \in Callers, StartResetFound(c) PROVE CallerInv'
  BY <1>9, MinerAssumption DEF StartResetFound, Goto, MinerInv, LockInv,
     CallerInv, EventInv, WorkInv, MayBeCurrent, ClientQuiet, MidStart, Slots,
     Callers, Client, Event, Free, TypeOK, ThreadsType, CallsType, threads,
     events, calls
<1>10. ASSUME NEW c \in Callers, StartLoadSeq(c) PROVE CallerInv'
  BY <1>10, MinerAssumption DEF StartLoadSeq, LoadedSeq, Goto, MinerInv,
     LockInv, CallerInv, EventInv, WorkInv, MayBeCurrent, ClientQuiet,
     MidStart, Slots, Callers, Client, Event, Free, TypeOK, ThreadsType,
     CallsType, threads, events, calls
<1>11. ASSUME NEW c \in Callers, StartLockRunning(c) PROVE CallerInv'
  BY <1>11, MinerAssumption DEF StartLockRunning, Goto, MinerInv, LockInv,
     CallerInv, EventInv, WorkInv, MayBeCurrent, ClientQuiet, MidStart, Slots,
     Callers, Client, Event, Free, TypeOK, ThreadsType, CallsType, threads,
     events, calls
<1>12. ASSUME NEW c \in Callers, StartSpawn(c) PROVE CallerInv'
  BY <1>12, MinerAssumption DEF StartSpawn, Goto, MinerInv, LockInv,
     CallerInv, EventInv, WorkInv, MayBeCurrent, ClientQuiet, MidStart, Slots,
     Callers, Client, Event, Free, TypeOK, ThreadsType, CallsType, threads,
     events, calls
<1>13. ASSUME NEW c \in Callers, StartReturn(c) PROVE CallerInv'
  BY <1>13, MinerAssumption DEF StartReturn, NoCall, Goto, MinerInv, LockInv,
     CallerInv, EventInv, WorkInv, MayBeCurrent, ClientQuiet, MidStart, Slots,
     Callers, Client, Event, Free, TypeOK, ThreadsType, CallsType, threads,
     events, calls
<1>14. CASE DestroyStop
  BY <1>14, MinerAssumption DEF DestroyStop, Notify, Goto, MinerInv, LockInv,
     CallerInv, EventInv, WorkInv, MayBeCurrent, ClientQuiet, MidStart, Slots,
     Callers, Client, Event, Free, TypeOK, ThreadsType, CallsType, threads,
     events, calls
<1>15. CASE DestroyJoin
  BY <1>15, MinerAssumption DEF DestroyJoin, Goto, MinerInv, LockInv,
     CallerInv, EventInv, WorkInv, MayBeCurrent, ClientQuiet, MidStart, Slots,
     Callers, Client, Event, Free, TypeOK, ThreadsType, CallsType, threads,
     events, calls
<1>16. ASSUME NEW c \in Callers, CallSetTimer(c) PROVE CallerInv'
  BY <1>16, MinerAssumption DEF CallSetTimer, MayCall, Goto, MinerInv,
     LockInv, CallerInv, EventInv, WorkInv, MayBeCurrent, ClientQuiet,
     MidStart, Slots, Callers, Client, Event, Free, TypeOK, ThreadsType,
     CallsType, threads, events, calls
<1>17. ASSUME NEW c \in Callers, ArmTimer(c) PROVE CallerInv'
  BY <1>17, MinerAssumption DEF ArmTimer, Goto, MinerInv, LockInv, CallerInv,
     EventInv, WorkInv, MayBeCurrent, ClientQuiet, MidStart, Slots, Callers,
     Client, Event, Free, TypeOK, ThreadsType, CallsType, threads, events,
     calls
<1>18. CASE CallWait
  BY <1>18, MinerAssumption DEF CallWait, MayCall, Goto, MinerInv, LockInv,
     CallerInv, EventInv, WorkInv, MayBeCurrent, ClientQuiet, MidStart, Slots,
     Callers, Client, Event, Free, TypeOK, ThreadsType, CallsType, threads,
     events, calls
<1>19. CASE WaitReturn
  BY <1>19, MinerAssumption DEF WaitReturn, Goto, MinerInv, LockInv,
     CallerInv, EventInv, WorkInv, MayBeCurrent, ClientQuiet, MidStart, Slots,
     Callers, Client, Event, Free, TypeOK, ThreadsType, CallsType, threads,
     events, calls
<1>20. ASSUME NEW i \in Slots, WorkerQueueTimeout(i) PROVE CallerInv'
  BY <1>20, MinerAssumption DEF WorkerQueueTimeout, QueueEvent, Notify, GotoW,
     MinerInv, LockInv, CallerInv, EventInv, WorkInv, MayBeCurrent,
     ClientQuiet, MidStart, Slots, Callers, Client, Event, Free, TypeOK,
     ThreadsType, CallsType, threads, events, calls
<1>21. ASSUME NEW i \in Slots, WorkerAnnounce(i) PROVE CallerInv'
  BY <1>21, MinerAssumption DEF WorkerAnnounce, QueueEvent, Notify, GotoW,
     MinerInv, LockInv, CallerInv, EventInv, WorkInv, MayBeCurrent,
     ClientQuiet, MidStart, Slots, Callers, Client, Event, Free, TypeOK,
     ThreadsType, CallsType, threads, events, calls
<1>22. CASE EventCheckStop
  BY <1>22, MinerAssumption DEF EventCheckStop, MinerInv, LockInv, CallerInv,
     EventInv, WorkInv, MayBeCurrent, ClientQuiet, MidStart, Slots, Callers,
     Client, Event, Free, TypeOK, ThreadsType, CallsType, threads, events,
     calls
<1>23. CASE EventLockQueue
  BY <1>23, MinerAssumption DEF EventLockQueue, MinerInv, LockInv, CallerInv,
     EventInv, WorkInv, MayBeCurrent, ClientQuiet, MidStart, Slots, Callers,
     Client, Event, Free, TypeOK, ThreadsType, CallsType, threads, events,
     calls
<1>24. CASE EventMustWait
  BY <1>24, MinerAssumption DEF EventMustWait, MinerInv, LockInv, CallerInv,
     EventInv, WorkInv, MayBeCurrent, ClientQuiet, MidStart, Slots, Callers,
     Client, Event, Free, TypeOK, ThreadsType, CallsType, threads, events,
     calls
<1>25. CASE EventBlock
  BY <1>25, MinerAssumption DEF EventBlock, MinerInv, LockInv, CallerInv,
     EventInv, WorkInv, MayBeCurrent, ClientQuiet, MidStart, Slots, Callers,
     Client, Event, Free, TypeOK, ThreadsType, CallsType, threads, events,
     calls
<1>26. CASE EventSpuriousWakeup
  BY <1>26, MinerAssumption DEF EventSpuriousWakeup, MinerInv, LockInv,
     CallerInv, EventInv, WorkInv, MayBeCurrent, ClientQuiet, MidStart, Slots,
     Callers, Client, Event, Free, TypeOK, ThreadsType, CallsType, threads,
     events, calls
<1>27. CASE EventPop
  BY <1>27, MinerAssumption DEF EventPop, MinerInv, LockInv, CallerInv,
     EventInv, WorkInv, MayBeCurrent, ClientQuiet, MidStart, Slots, Callers,
     Client, Event, Free, TypeOK, ThreadsType, CallsType, threads, events,
     calls
<1>28. CASE EventPrecheck
  BY <1>28, MinerAssumption DEF EventPrecheck, EventDone, MinerInv, LockInv,
     CallerInv, EventInv, WorkInv, MayBeCurrent, ClientQuiet, MidStart, Slots,
     Callers, Client, Event, Free, TypeOK, ThreadsType, CallsType, threads,
     events, calls
<1>29. CASE EventSend
  BY <1>29, MinerAssumption DEF EventSend, StillCurrent, EventDone,
     Destroying, Handle, MinerInv, LockInv, CallerInv, EventInv, WorkInv,
     MayBeCurrent, ClientQuiet, MidStart, Slots, Callers, Client, Event, Free,
     TypeOK, ThreadsType, CallsType, threads, events, calls
<1>30. CASE HandlerAccept
  BY <1>30, MinerAssumption DEF HandlerAccept, EventDone, Handle, MinerInv,
     LockInv, CallerInv, EventInv, WorkInv, MayBeCurrent, ClientQuiet,
     MidStart, Slots, Callers, Client, Event, Free, TypeOK, ThreadsType,
     CallsType, threads, events, calls
<1>31. CASE HandlerReject
  BY <1>31, MinerAssumption DEF HandlerReject, MinerInv, LockInv, CallerInv,
     EventInv, WorkInv, MayBeCurrent, ClientQuiet, MidStart, Slots, Callers,
     Client, Event, Free, TypeOK, ThreadsType, CallsType, threads, events,
     calls
<1>32. CASE EventRequeue
  BY <1>32, MinerAssumption DEF EventRequeue, EventDone, MinerInv, LockInv,
     CallerInv, EventInv, WorkInv, MayBeCurrent, ClientQuiet, MidStart, Slots,
     Callers, Client, Event, Free, TypeOK, ThreadsType, CallsType, threads,
     events, calls
<1>33. ASSUME UNCHANGED <<cpc, call, running, epc>> PROVE CallerInv'
  BY <1>33 DEF MinerInv, LockInv, CallerInv, EventInv, WorkInv, MayBeCurrent,
     ClientQuiet, MidStart, Slots, Callers, Client, Event, Free, TypeOK,
     ThreadsType, CallsType
<1> QED
  BY <1>1, <1>2, <1>3, <1>4, <1>5, <1>6, <1>7, <1>8, <1>9, <1>10, <1>11,
     <1>12, <1>13, <1>14, <1>15, <1>16, <1>17, <1>18, <1>19, <1>20, <1>21,
     <1>22, <1>23, <1>24, <1>25, <1>26, <1>27, <1>28, <1>29, <1>30, <1>31,
     <1>32, <1>33 DEF Next, NewCall, CallStep, NewClientCall, ClientCallStep,
     WorkerStep, EventStep, HandlerReturn, Terminated, CallDisableTimer,
     DeadlinePasses, WorkerEnter, WorkerCopyInput, WorkerLoop,
     WorkerReadTimer, WorkerReadRemaining, WorkerStop, WorkerCheckTarget,
     WorkerClaim, WorkerRecord, WorkerExit, vars, work, clock, threads, locks,
     events, calls

\* Threads keep to the work they were created for.
LEMMA WorkInvStep ==
  TypeOK /\ MinerInv /\ [Next]_vars => WorkInv'
<1> SUFFICES ASSUME TypeOK, MinerInv, [Next]_vars PROVE WorkInv'
  OBVIOUS
<1>1. ASSUME NEW c \in Callers, CallStart(c) PROVE WorkInv'
  BY <1>1, MinerAssumption DEF CallStart, Supersede, NoCall, MayCall, Goto,
     MinerInv, LockInv, CallerInv, WorkInv, ClientQuiet, MidStart, Slots,
     Callers, Client, Event, Free, TypeOK, WorkType, ThreadsType, CallsType,
     work, threads, calls
<1>2. ASSUME NEW c \in Callers, CallCancel(c) PROVE WorkInv'
  BY <1>2, MinerAssumption DEF CallCancel, Supersede, NoCall, MayCall, Goto,
     MinerInv, LockInv, CallerInv, WorkInv, ClientQuiet, MidStart, Slots,
     Callers, Client, Event, Free, TypeOK, WorkType, ThreadsType, CallsType,
     work, threads, calls
<1>3. CASE CallDestroy
  BY <1>3, MinerAssumption DEF CallDestroy, Supersede, NoCall, MayCall,
     Destroying, Goto, MinerInv, LockInv, CallerInv, WorkInv, ClientQuiet,
     MidStart, Slots, Callers, Client, Event, Free, TypeOK, WorkType,
     ThreadsType, CallsType, work, threads, calls
<1>4. ASSUME NEW c \in Callers, CancelLockEvent(c) PROVE WorkInv'
  BY <1>4, MinerAssumption DEF CancelLockEvent, MayLockEvent, Goto, MinerInv,
     LockInv, CallerInv, WorkInv, ClientQuiet, MidStart, Slots, Callers,
     Client, Event, Free, TypeOK, WorkType, ThreadsType, CallsType, work,
     threads, calls
<1>5. ASSUME NEW c \in Callers, CancelLockRunning(c) PROVE WorkInv'
  BY <1>5, MinerAssumption DEF CancelLockRunning, MayLockRunning, Goto,
     MinerInv, LockInv, CallerInv, WorkInv, ClientQuiet, MidStart, Slots,
     Callers, Client, Event, Free, TypeOK, WorkType, ThreadsType, CallsType,
     work, threads, calls
<1>6. ASSUME NEW c \in Callers, CancelFinish(c) PROVE WorkInv'
  BY <1>6, MinerAssumption DEF CancelFinish, AllJoined, AfterCancel, Goto,
     MinerInv, LockInv, CallerInv, WorkInv, ClientQuiet, MidStart, Slots,
     Callers, Client, Event, Free, TypeOK, WorkType, ThreadsType, CallsType,
     work, threads, calls
<1>7. ASSUME NEW c \in Callers, StartSetWork(c) PROVE WorkInv'
  BY <1>7, MinerAssumption DEF StartSetWork, Goto, MinerInv, LockInv,
     CallerInv, WorkInv, ClientQuiet, MidStart, Slots, Callers, Client, Event,
     Free, TypeOK, WorkType, ThreadsType, CallsType, work, threads, calls
<1>8. ASSUME NEW c \in Callers, StartResetStop(c) PROVE WorkInv'
  BY <1>8, MinerAssumption DEF StartResetStop, Goto, MinerInv, LockInv,
     CallerInv, WorkInv, ClientQuiet, MidStart, Slots, Callers, Client, Event,
     Free, TypeOK, WorkType, ThreadsType, CallsType, work, threads, calls
<1>9. ASSUME NEW c \in Callers, StartResetFound(c) PROVE WorkInv'
  BY <1>9, MinerAssumption DEF StartResetFound, Goto, MinerInv, LockInv,
     CallerInv, WorkInv, ClientQuiet, MidStart, Slots, Callers, Client, Event,
     Free, TypeOK, WorkType, ThreadsType, CallsType, work, threads, calls
<1>10. ASSUME NEW c \in Callers, StartLoadSeq(c) PROVE WorkInv'
  BY <1>10, MinerAssumption DEF StartLoadSeq, LoadedSeq, Goto, MinerInv,
     LockInv, CallerInv, WorkInv, ClientQuiet, MidStart, Slots, Callers,
     Client, Event, Free, TypeOK, WorkType, ThreadsType, CallsType, work,
     threads, calls
<1>11. ASSUME NEW c \in Callers, StartLockRunning(c) PROVE WorkInv'
  BY <1>11, MinerAssumption DEF StartLockRunning, Goto, MinerInv, LockInv,
     CallerInv, WorkInv, ClientQuiet, MidStart, Slots, Callers, Client, Event,
     Free, TypeOK, WorkType, ThreadsType, CallsType, work, threads, calls
<1>12. ASSUME NEW c \in Callers, StartSpawn(c) PROVE WorkInv'
  BY <1>12, MinerAssumption DEF StartSpawn, Goto, MinerInv, LockInv,
     CallerInv, WorkInv, ClientQuiet, MidStart, Slots, Callers, Client, Event,
     Free, TypeOK, WorkType, ThreadsType, CallsType, work, threads, calls
<1>13. ASSUME NEW c \in Callers, StartReturn(c) PROVE WorkInv'
  BY <1>13, MinerAssumption DEF StartReturn, NoCall, Goto, MinerInv, LockInv,
     CallerInv, WorkInv, ClientQuiet, MidStart, Slots, Callers, Client, Event,
     Free, TypeOK, WorkType, ThreadsType, CallsType, work, threads, calls
<1>14. CASE DestroyStop
  BY <1>14, MinerAssumption DEF DestroyStop, Notify, Goto, MinerInv, LockInv,
     CallerInv, WorkInv, ClientQuiet, MidStart, Slots, Callers, Client, Event,
     Free, TypeOK, WorkType, ThreadsType, CallsType, work, threads, calls
<1>15. CASE DestroyJoin
  BY <1>15, MinerAssumption DEF DestroyJoin, Goto, MinerInv, LockInv,
     CallerInv, WorkInv, ClientQuiet, MidStart, Slots, Callers, Client, Event,
     Free, TypeOK, WorkType, ThreadsType, CallsType, work, threads, calls
<1>16. ASSUME NEW c \in Callers, CallSetTimer(c) PROVE WorkInv'
  BY <1>16, MinerAssumption DEF CallSetTimer, MayCall, Goto, MinerInv,
     LockInv, CallerInv, WorkInv, ClientQuiet, MidStart, Slots, Callers,
     Client, Event, Free, TypeOK, WorkType, ThreadsType, CallsType, work,
     threads, calls
<1>17. ASSUME NEW c \in Callers, ArmTimer(c) PROVE WorkInv'
  BY <1>17, MinerAssumption DEF ArmTimer, Goto, MinerInv, LockInv, CallerInv,
     WorkInv, ClientQuiet, MidStart, Slots, Callers, Client, Event, Free,
     TypeOK, WorkType, ThreadsType, CallsType, work, threads, calls
<1>18. CASE CallWait
  BY <1>18, MinerAssumption DEF CallWait, MayCall, Goto, MinerInv, LockInv,
     CallerInv, WorkInv, ClientQuiet, MidStart, Slots, Callers, Client, Event,
     Free, TypeOK, WorkType, ThreadsType, CallsType, work, threads, calls
<1>19. CASE WaitReturn
  BY <1>19, MinerAssumption DEF WaitReturn, Goto, MinerInv, LockInv,
     CallerInv, WorkInv, ClientQuiet, MidStart, Slots, Callers, Client, Event,
     Free, TypeOK, WorkType, ThreadsType, CallsType, work, threads, calls
<1>20. ASSUME NEW i \in Slots, WorkerEnter(i) PROVE WorkInv'
  BY <1>20, MinerAssumption DEF WorkerEnter, GotoW, MinerInv, LockInv,
     CallerInv, WorkInv, ClientQuiet, MidStart, Slots, Callers, Client, Event,
     Free, TypeOK, WorkType, ThreadsType, CallsType, work, threads, calls
<1>21. ASSUME NEW i \in Slots, WorkerCopyInput(i) PROVE WorkInv'
  BY <1>21, MinerAssumption DEF WorkerCopyInput, GotoW, MinerInv, LockInv,
     CallerInv, WorkInv, ClientQuiet, MidStart, Slots, Callers, Client, Event,
     Free, TypeOK, WorkType, ThreadsType, CallsType, work, threads, calls
<1>22. ASSUME NEW i \in Slots, WorkerLoop(i) PROVE WorkInv'
  BY <1>22, MinerAssumption DEF WorkerLoop, MayGoOn, GotoW, MinerInv, LockInv,
     CallerInv, WorkInv, ClientQuiet, MidStart, Slots, Callers, Client, Event,
     Free, TypeOK, WorkType, ThreadsType, CallsType, work, threads, calls
<1>23. ASSUME NEW i \in Slots, WorkerReadTimer(i) PROVE WorkInv'
  BY <1>23, MinerAssumption DEF WorkerReadTimer, GotoW, MinerInv, LockInv,
     CallerInv, WorkInv, ClientQuiet, MidStart, Slots, Callers, Client, Event,
     Free, TypeOK, WorkType, ThreadsType, CallsType, work, threads, calls
<1>24. ASSUME NEW i \in Slots, WorkerReadRemaining(i) PROVE WorkInv'
  BY <1>24, MinerAssumption DEF WorkerReadRemaining, GotoW, MinerInv, LockInv,
     CallerInv, WorkInv, ClientQuiet, MidStart, Slots, Callers, Client, Event,
     Free, TypeOK, WorkType, ThreadsType, CallsType, work, threads, calls
<1>25. ASSUME NEW i \in Slots, WorkerQueueTimeout(i) PROVE WorkInv'
  BY <1>25, MinerAssumption DEF WorkerQueueTimeout, QueueEvent, Notify, GotoW,
     MinerInv, LockInv, CallerInv, WorkInv, ClientQuiet, MidStart, Slots,
     Callers, Client, Event, Free, TypeOK, WorkType, ThreadsType, CallsType,
     work, threads, calls
<1>26. ASSUME NEW i \in Slots, WorkerStop(i) PROVE WorkInv'
  BY <1>26, MinerAssumption DEF WorkerStop, GotoW, MinerInv, LockInv,
     CallerInv, WorkInv, ClientQuiet, MidStart, Slots, Callers, Client, Event,
     Free, TypeOK, WorkType, ThreadsType, CallsType, work, threads, calls
<1>27. ASSUME NEW i \in Slots, WorkerCheckTarget(i) PROVE WorkInv'
  BY <1>27, MinerAssumption DEF WorkerCheckTarget, GotoW, MinerInv, LockInv,
     CallerInv, WorkInv, ClientQuiet, MidStart, Slots, Callers, Client, Event,
     Free, TypeOK, WorkType, ThreadsType, CallsType, work, threads, calls
<1>28. ASSUME NEW i \in Slots, WorkerClaim(i) PROVE WorkInv'
  BY <1>28, MinerAssumption DEF WorkerClaim, FirstClaim, GotoW, MinerInv,
     LockInv, CallerInv, WorkInv, ClientQuiet, MidStart, Slots, Callers,
     Client, Event, Free, TypeOK, WorkType, ThreadsType, CallsType, work,
     threads, calls
<1>29. ASSUME NEW i \in Slots, WorkerRecord(i) PROVE WorkInv'
  BY <1>29, MinerAssumption DEF WorkerRecord, GotoW, MinerInv, LockInv,
     CallerInv, WorkInv, ClientQuiet, MidStart, Slots, Callers, Client, Event,
     Free, TypeOK, WorkType, ThreadsType, CallsType, work, threads, calls
<1>30. ASSUME NEW i \in Slots, WorkerAnnounce(i) PROVE WorkInv'
  BY <1>30, MinerAssumption DEF WorkerAnnounce, QueueEvent, Notify, GotoW,
     MinerInv, LockInv, CallerInv, WorkInv, ClientQuiet, MidStart, Slots,
     Callers, Client, Event, Free, TypeOK, WorkType, ThreadsType, CallsType,
     work, threads, calls
<1>31. ASSUME NEW i \in Slots, WorkerExit(i) PROVE WorkInv'
  BY <1>31, MinerAssumption DEF WorkerExit, GotoW, MinerInv, LockInv,
     CallerInv, WorkInv, ClientQuiet, MidStart, Slots, Callers, Client, Event,
     Free, TypeOK, WorkType, ThreadsType, CallsType, work, threads, calls
<1>32. ASSUME UNCHANGED <<wpc, running, wseq, seq, cpc, call, tmpInput, input>> PROVE WorkInv'
  BY <1>32 DEF MinerInv, LockInv, CallerInv, WorkInv, ClientQuiet, MidStart,
     Slots, Callers, Client, Event, Free, TypeOK, WorkType, ThreadsType,
     CallsType
<1> QED
  BY <1>1, <1>2, <1>3, <1>4, <1>5, <1>6, <1>7, <1>8, <1>9, <1>10, <1>11,
     <1>12, <1>13, <1>14, <1>15, <1>16, <1>17, <1>18, <1>19, <1>20, <1>21,
     <1>22, <1>23, <1>24, <1>25, <1>26, <1>27, <1>28, <1>29, <1>30, <1>31,
     <1>32 DEF Next, NewCall, CallStep, NewClientCall, ClientCallStep,
     WorkerStep, EventStep, HandlerReturn, Terminated, CallDisableTimer,
     DeadlinePasses, EventCheckStop, EventLockQueue, EventMustWait,
     EventBlock, EventSpuriousWakeup, EventPop, EventPrecheck, EventSend,
     HandlerAccept, HandlerReject, EventRequeue, vars, work, clock, threads,
     locks, events, calls

\* New work is not stopped by what stopped the old.
LEMMA StopStep ==
  TypeOK /\ MinerInv /\ [Next]_vars => StopInv'
<1> SUFFICES ASSUME TypeOK, MinerInv, [Next]_vars PROVE StopInv'
  OBVIOUS
<1>1. ASSUME NEW c \in Callers, CallStart(c) PROVE StopInv'
  BY <1>1, MinerAssumption DEF CallStart, Supersede, NoCall, MayCall, Goto,
     MinerInv, LockInv, CallerInv, WorkInv, StopInv, ClientQuiet, MidStart,
     Slots, Callers, Client, Event, Free, TypeOK, WorkType, ThreadsType,
     CallsType, work, threads, calls
<1>2. ASSUME NEW c \in Callers, CallCancel(c) PROVE StopInv'
  BY <1>2, MinerAssumption DEF CallCancel, Supersede, NoCall, MayCall, Goto,
     MinerInv, LockInv, CallerInv, WorkInv, StopInv, ClientQuiet, MidStart,
     Slots, Callers, Client, Event, Free, TypeOK, WorkType, ThreadsType,
     CallsType, work, threads, calls
<1>3. CASE CallDestroy
  BY <1>3, MinerAssumption DEF CallDestroy, Supersede, NoCall, MayCall,
     Destroying, Goto, MinerInv, LockInv, CallerInv, WorkInv, StopInv,
     ClientQuiet, MidStart, Slots, Callers, Client, Event, Free, TypeOK,
     WorkType, ThreadsType, CallsType, work, threads, calls
<1>4. ASSUME NEW c \in Callers, CancelLockEvent(c) PROVE StopInv'
  BY <1>4, MinerAssumption DEF CancelLockEvent, MayLockEvent, Goto, MinerInv,
     LockInv, CallerInv, WorkInv, StopInv, ClientQuiet, MidStart, Slots,
     Callers, Client, Event, Free, TypeOK, WorkType, ThreadsType, CallsType,
     work, threads, calls
<1>5. ASSUME NEW c \in Callers, CancelLockRunning(c) PROVE StopInv'
  BY <1>5, MinerAssumption DEF CancelLockRunning, MayLockRunning, Goto,
     MinerInv, LockInv, CallerInv, WorkInv, StopInv, ClientQuiet, MidStart,
     Slots, Callers, Client, Event, Free, TypeOK, WorkType, ThreadsType,
     CallsType, work, threads, calls
<1>6. ASSUME NEW c \in Callers, CancelFinish(c) PROVE StopInv'
  BY <1>6, MinerAssumption DEF CancelFinish, AllJoined, AfterCancel, Goto,
     MinerInv, LockInv, CallerInv, WorkInv, StopInv, ClientQuiet, MidStart,
     Slots, Callers, Client, Event, Free, TypeOK, WorkType, ThreadsType,
     CallsType, work, threads, calls
<1>7. ASSUME NEW c \in Callers, StartSetWork(c) PROVE StopInv'
  BY <1>7, MinerAssumption DEF StartSetWork, Goto, MinerInv, LockInv,
     CallerInv, WorkInv, StopInv, ClientQuiet, MidStart, Slots, Callers,
     Client, Event, Free, TypeOK, WorkType, ThreadsType, CallsType, work,
     threads, calls
<1>8. ASSUME NEW c \in Callers, StartResetStop(c) PROVE StopInv'
  BY <1>8, MinerAssumption DEF StartResetStop, Goto, MinerInv, LockInv,
     CallerInv, WorkInv, StopInv, ClientQuiet, MidStart, Slots, Callers,
     Client, Event, Free, TypeOK, WorkType, ThreadsType, CallsType, work,
     threads, calls
<1>9. ASSUME NEW c \in Callers, StartResetFound(c) PROVE StopInv'
  BY <1>9, MinerAssumption DEF StartResetFound, Goto, MinerInv, LockInv,
     CallerInv, WorkInv, StopInv, ClientQuiet, MidStart, Slots, Callers,
     Client, Event, Free, TypeOK, WorkType, ThreadsType, CallsType, work,
     threads, calls
<1>10. ASSUME NEW c \in Callers, StartLoadSeq(c) PROVE StopInv'
  BY <1>10, MinerAssumption DEF StartLoadSeq, LoadedSeq, Goto, MinerInv,
     LockInv, CallerInv, WorkInv, StopInv, ClientQuiet, MidStart, Slots,
     Callers, Client, Event, Free, TypeOK, WorkType, ThreadsType, CallsType,
     work, threads, calls
<1>11. ASSUME NEW c \in Callers, StartLockRunning(c) PROVE StopInv'
  BY <1>11, MinerAssumption DEF StartLockRunning, Goto, MinerInv, LockInv,
     CallerInv, WorkInv, StopInv, ClientQuiet, MidStart, Slots, Callers,
     Client, Event, Free, TypeOK, WorkType, ThreadsType, CallsType, work,
     threads, calls
<1>12. ASSUME NEW c \in Callers, StartSpawn(c) PROVE StopInv'
  BY <1>12, MinerAssumption DEF StartSpawn, Goto, MinerInv, LockInv,
     CallerInv, WorkInv, StopInv, ClientQuiet, MidStart, Slots, Callers,
     Client, Event, Free, TypeOK, WorkType, ThreadsType, CallsType, work,
     threads, calls
<1>13. ASSUME NEW c \in Callers, StartReturn(c) PROVE StopInv'
  BY <1>13, MinerAssumption DEF StartReturn, NoCall, Goto, MinerInv, LockInv,
     CallerInv, WorkInv, StopInv, ClientQuiet, MidStart, Slots, Callers,
     Client, Event, Free, TypeOK, WorkType, ThreadsType, CallsType, work,
     threads, calls
<1>14. CASE DestroyStop
  BY <1>14, MinerAssumption DEF DestroyStop, Notify, Goto, MinerInv, LockInv,
     CallerInv, WorkInv, StopInv, ClientQuiet, MidStart, Slots, Callers,
     Client, Event, Free, TypeOK, WorkType, ThreadsType, CallsType, work,
     threads, calls
<1>15. CASE DestroyJoin
  BY <1>15, MinerAssumption DEF DestroyJoin, Goto, MinerInv, LockInv,
     CallerInv, WorkInv, StopInv, ClientQuiet, MidStart, Slots, Callers,
     Client, Event, Free, TypeOK, WorkType, ThreadsType, CallsType, work,
     threads, calls
<1>16. ASSUME NEW c \in Callers, CallSetTimer(c) PROVE StopInv'
  BY <1>16, MinerAssumption DEF CallSetTimer, MayCall, Goto, MinerInv,
     LockInv, CallerInv, WorkInv, StopInv, ClientQuiet, MidStart, Slots,
     Callers, Client, Event, Free, TypeOK, WorkType, ThreadsType, CallsType,
     work, threads, calls
<1>17. ASSUME NEW c \in Callers, ArmTimer(c) PROVE StopInv'
  BY <1>17, MinerAssumption DEF ArmTimer, Goto, MinerInv, LockInv, CallerInv,
     WorkInv, StopInv, ClientQuiet, MidStart, Slots, Callers, Client, Event,
     Free, TypeOK, WorkType, ThreadsType, CallsType, work, threads, calls
<1>18. CASE CallWait
  BY <1>18, MinerAssumption DEF CallWait, MayCall, Goto, MinerInv, LockInv,
     CallerInv, WorkInv, StopInv, ClientQuiet, MidStart, Slots, Callers,
     Client, Event, Free, TypeOK, WorkType, ThreadsType, CallsType, work,
     threads, calls
<1>19. CASE WaitReturn
  BY <1>19, MinerAssumption DEF WaitReturn, Goto, MinerInv, LockInv,
     CallerInv, WorkInv, StopInv, ClientQuiet, MidStart, Slots, Callers,
     Client, Event, Free, TypeOK, WorkType, ThreadsType, CallsType, work,
     threads, calls
<1>20. ASSUME NEW i \in Slots, WorkerEnter(i) PROVE StopInv'
  BY <1>20, MinerAssumption DEF WorkerEnter, GotoW, MinerInv, LockInv,
     CallerInv, WorkInv, StopInv, ClientQuiet, MidStart, Slots, Callers,
     Client, Event, Free, TypeOK, WorkType, ThreadsType, CallsType, work,
     threads, calls
<1>21. ASSUME NEW i \in Slots, WorkerCopyInput(i) PROVE StopInv'
  BY <1>21, MinerAssumption DEF WorkerCopyInput, GotoW, MinerInv, LockInv,
     CallerInv, WorkInv, StopInv, ClientQuiet, MidStart, Slots, Callers,
     Client, Event, Free, TypeOK, WorkType, ThreadsType, CallsType, work,
     threads, calls
<1>22. ASSUME NEW i \in Slots, WorkerLoop(i) PROVE StopInv'
  BY <1>22, MinerAssumption DEF WorkerLoop, MayGoOn, GotoW, MinerInv, LockInv,
     CallerInv, WorkInv, StopInv, ClientQuiet, MidStart, Slots, Callers,
     Client, Event, Free, TypeOK, WorkType, ThreadsType, CallsType, work,
     threads, calls
<1>23. ASSUME NEW i \in Slots, WorkerReadTimer(i) PROVE StopInv'
  BY <1>23, MinerAssumption DEF WorkerReadTimer, GotoW, MinerInv, LockInv,
     CallerInv, WorkInv, StopInv, ClientQuiet, MidStart, Slots, Callers,
     Client, Event, Free, TypeOK, WorkType, ThreadsType, CallsType, work,
     threads, calls
<1>24. ASSUME NEW i \in Slots, WorkerReadRemaining(i) PROVE StopInv'
  BY <1>24, MinerAssumption DEF WorkerReadRemaining, GotoW, MinerInv, LockInv,
     CallerInv, WorkInv, StopInv, ClientQuiet, MidStart, Slots, Callers,
     Client, Event, Free, TypeOK, WorkType, ThreadsType, CallsType, work,
     threads, calls
<1>25. ASSUME NEW i \in Slots, WorkerQueueTimeout(i) PROVE StopInv'
  BY <1>25, MinerAssumption DEF WorkerQueueTimeout, QueueEvent, Notify, GotoW,
     MinerInv, LockInv, CallerInv, WorkInv, StopInv, ClientQuiet, MidStart,
     Slots, Callers, Client, Event, Free, TypeOK, WorkType, ThreadsType,
     CallsType, work, threads, calls
<1>26. ASSUME NEW i \in Slots, WorkerStop(i) PROVE StopInv'
  BY <1>26, MinerAssumption DEF WorkerStop, GotoW, MinerInv, LockInv,
     CallerInv, WorkInv, StopInv, ClientQuiet, MidStart, Slots, Callers,
     Client, Event, Free, TypeOK, WorkType, ThreadsType, CallsType, work,
     threads, calls
<1>27. ASSUME NEW i \in Slots, WorkerCheckTarget(i) PROVE StopInv'
  BY <1>27, MinerAssumption DEF WorkerCheckTarget, GotoW, MinerInv, LockInv,
     CallerInv, WorkInv, StopInv, ClientQuiet, MidStart, Slots, Callers,
     Client, Event, Free, TypeOK, WorkType, ThreadsType, CallsType, work,
     threads, calls
<1>28. ASSUME NEW i \in Slots, WorkerClaim(i) PROVE StopInv'
  BY <1>28, MinerAssumption DEF WorkerClaim, FirstClaim, GotoW, MinerInv,
     LockInv, CallerInv, WorkInv, StopInv, ClientQuiet, MidStart, Slots,
     Callers, Client, Event, Free, TypeOK, WorkType, ThreadsType, CallsType,
     work, threads, calls
<1>29. ASSUME NEW i \in Slots, WorkerRecord(i) PROVE StopInv'
  BY <1>29, MinerAssumption DEF WorkerRecord, GotoW, MinerInv, LockInv,
     CallerInv, WorkInv, StopInv, ClientQuiet, MidStart, Slots, Callers,
     Client, Event, Free, TypeOK, WorkType, ThreadsType, CallsType, work,
     threads, calls
<1>30. ASSUME NEW i \in Slots, WorkerAnnounce(i) PROVE StopInv'
  BY <1>30, MinerAssumption DEF WorkerAnnounce, QueueEvent, Notify, GotoW,
     MinerInv, LockInv, CallerInv, WorkInv, StopInv, ClientQuiet, MidStart,
     Slots, Callers, Client, Event, Free, TypeOK, WorkType, ThreadsType,
     CallsType, work, threads, calls
<1>31. ASSUME NEW i \in Slots, WorkerExit(i) PROVE StopInv'
  BY <1>31, MinerAssumption DEF WorkerExit, GotoW, MinerInv, LockInv,
     CallerInv, WorkInv, StopInv, ClientQuiet, MidStart, Slots, Callers,
     Client, Event, Free, TypeOK, WorkType, ThreadsType, CallsType, work,
     threads, calls
<1>32. ASSUME UNCHANGED <<cpc, stop, wpc>> PROVE StopInv'
  BY <1>32 DEF MinerInv, LockInv, CallerInv, WorkInv, StopInv, ClientQuiet,
     MidStart, Slots, Callers, Client, Event, Free, TypeOK, WorkType,
     ThreadsType, CallsType
<1> QED
  BY <1>1, <1>2, <1>3, <1>4, <1>5, <1>6, <1>7, <1>8, <1>9, <1>10, <1>11,
     <1>12, <1>13, <1>14, <1>15, <1>16, <1>17, <1>18, <1>19, <1>20, <1>21,
     <1>22, <1>23, <1>24, <1>25, <1>26, <1>27, <1>28, <1>29, <1>30, <1>31,
     <1>32 DEF Next, NewCall, CallStep, NewClientCall, ClientCallStep,
     WorkerStep, EventStep, HandlerReturn, Terminated, CallDisableTimer,
     DeadlinePasses, EventCheckStop, EventLockQueue, EventMustWait,
     EventBlock, EventSpuriousWakeup, EventPop, EventPrecheck, EventSend,
     HandlerAccept, HandlerReject, EventRequeue, vars, work, clock, threads,
     locks, events, calls

\* Events of superseded work never become current again.
LEMMA EventInvStep ==
  TypeOK /\ MinerInv /\ [Next]_vars => EventInv'
<1> SUFFICES ASSUME TypeOK, MinerInv, [Next]_vars PROVE EventInv'
  OBVIOUS
<1>1. ASSUME NEW c \in Callers, CancelFinish(c) PROVE EventInv'
  <2>1. \A e : MayBeCurrent(e) /\ e.seq \in Nat => MayBeCurrent(e)'
    BY <1>1 DEF CancelFinish, MayBeCurrent, TypeOK, WorkType
  <2>2. \A k \in 1 .. Len(queue) : queue[k].seq \in Nat
    <3>1. \A k \in 1 .. Len(queue) : queue[k] \in Events
      BY DEF TypeOK, EventsType
    <3> QED
      BY <3>1 DEF Events
  <2>3. epc \in {"precheck", "send", "handler", "requeue"} => event.seq \in Nat
    BY DEF TypeOK, EventsType, Events
  <2> QED
    BY <1>1, <2>1, <2>2, <2>3 DEF CancelFinish, MinerInv, EventInv, events
<1>2. ASSUME NEW c \in Callers, StartSpawn(c) PROVE EventInv'
  BY <1>2, MinerAssumption DEF StartSpawn, Goto, MinerInv, LockInv, CallerInv,
     EventInv, WorkInv, MayBeCurrent, Slots, Callers, Client, Event, Free,
     TypeOK, WorkType, ThreadsType, EventsType, work, threads, events
<1>3. CASE DestroyStop
  BY <1>3, MinerAssumption DEF DestroyStop, Notify, Goto, MinerInv, LockInv,
     CallerInv, EventInv, WorkInv, MayBeCurrent, Slots, Callers, Client,
     Event, Free, TypeOK, WorkType, ThreadsType, EventsType, work, threads,
     events
<1>4. ASSUME NEW i \in Slots, WorkerQueueTimeout(i) PROVE EventInv'
  <2>1. \A n : MayBeCurrent(MinerEvent("TIMEOUT", wseq[i], n))'
    BY <1>4, MinerAssumption DEF WorkerQueueTimeout, GotoW, MinerInv, WorkInv, MayBeCurrent,
       MinerEvent, Slots, TypeOK, ThreadsType, work
  <2>2. \A e : MayBeCurrent(e) => MayBeCurrent(e)'
    BY <1>4 DEF WorkerQueueTimeout, MayBeCurrent, work
  <2> QED
    BY <1>4, <2>1, <2>2, AppendInv DEF WorkerQueueTimeout, QueueEvent, Notify, MinerInv, EventInv,
       TypeOK, EventsType
<1>5. ASSUME NEW i \in Slots, WorkerAnnounce(i) PROVE EventInv'
  <2>1. \A n : MayBeCurrent(MinerEvent("SOLUTION", wseq[i], n))'
    BY <1>5, MinerAssumption DEF WorkerAnnounce, GotoW, MinerInv, WorkInv, MayBeCurrent,
       MinerEvent, Slots, TypeOK, ThreadsType, work
  <2>2. \A e : MayBeCurrent(e) => MayBeCurrent(e)'
    BY <1>5 DEF WorkerAnnounce, MayBeCurrent, work
  <2> QED
    BY <1>5, <2>1, <2>2, AppendInv DEF WorkerAnnounce, QueueEvent, Notify, MinerInv, EventInv,
       TypeOK, EventsType
<1>6. CASE EventCheckStop
  BY <1>6, MinerAssumption DEF EventCheckStop, MinerInv, LockInv, CallerInv,
     EventInv, WorkInv, MayBeCurrent, Slots, Callers, Client, Event, Free,
     TypeOK, WorkType, ThreadsType, EventsType, work, threads, events
<1>7. CASE EventLockQueue
  BY <1>7, MinerAssumption DEF EventLockQueue, MinerInv, LockInv, CallerInv,
     EventInv, WorkInv, MayBeCurrent, Slots, Callers, Client, Event, Free,
     TypeOK, WorkType, ThreadsType, EventsType, work, threads, events
<1>8. CASE EventMustWait
  BY <1>8, MinerAssumption DEF EventMustWait, MinerInv, LockInv, CallerInv,
     EventInv, WorkInv, MayBeCurrent, Slots, Callers, Client, Event, Free,
     TypeOK, WorkType, ThreadsType, EventsType, work, threads, events
<1>9. CASE EventBlock
  BY <1>9, MinerAssumption DEF EventBlock, MinerInv, LockInv, CallerInv,
     EventInv, WorkInv, MayBeCurrent, Slots, Callers, Client, Event, Free,
     TypeOK, WorkType, ThreadsType, EventsType, work, threads, events
<1>10. CASE EventSpuriousWakeup
  BY <1>10, MinerAssumption DEF EventSpuriousWakeup, MinerInv, LockInv,
     CallerInv, EventInv, WorkInv, MayBeCurrent, Slots, Callers, Client,
     Event, Free, TypeOK, WorkType, ThreadsType, EventsType, work, threads,
     events
<1>11. CASE EventPop
  <2>1. \A e : MayBeCurrent(e) => MayBeCurrent(e)'
    BY <1>11 DEF EventPop, MayBeCurrent, work, threads
  <2>2. CASE queue # <<>>
    <3>1. MayBeCurrent(Head(queue))
      BY <2>2 DEF MinerInv, EventInv, TypeOK, EventsType
    <3>2. \A k \in 1 .. Len(Tail(queue)) :
            k + 1 \in 1 .. Len(queue) /\ Tail(queue)[k] = queue[k + 1]
      BY <2>2 DEF TypeOK, EventsType
    <3> QED
      BY <1>11, <2>1, <2>2, <3>1, <3>2 DEF EventPop, MinerInv, EventInv
  <2>3. CASE queue = <<>>
    BY <1>11, <2>1, <2>3 DEF EventPop, MinerInv, EventInv
  <2> QED
    BY <2>2, <2>3
<1>12. CASE EventPrecheck
  BY <1>12, MinerAssumption DEF EventPrecheck, EventDone, MinerInv, LockInv,
     CallerInv, EventInv, WorkInv, MayBeCurrent, Slots, Callers, Client,
     Event, Free, TypeOK, WorkType, ThreadsType, EventsType, work, threads,
     events
<1>13. CASE EventSend
  BY <1>13, MinerAssumption DEF EventSend, StillCurrent, EventDone,
     Destroying, Handle, MinerInv, LockInv, CallerInv, EventInv, WorkInv,
     MayBeCurrent, Slots, Callers, Client, Event, Free, TypeOK, WorkType,
     ThreadsType, EventsType, work, threads, events
<1>14. CASE HandlerAccept
  BY <1>14, MinerAssumption DEF HandlerAccept, EventDone, Handle, MinerInv,
     LockInv, CallerInv, EventInv, WorkInv, MayBeCurrent, Slots, Callers,
     Client, Event, Free, TypeOK, WorkType, ThreadsType, EventsType, work,
     threads, events
<1>15. CASE HandlerReject
  BY <1>15, MinerAssumption DEF HandlerReject, MinerInv, LockInv, CallerInv,
     EventInv, WorkInv, MayBeCurrent, Slots, Callers, Client, Event, Free,
     TypeOK, WorkType, ThreadsType, EventsType, work, threads, events
<1>16. CASE EventRequeue
  <2>1. \A e : MayBeCurrent(e) => MayBeCurrent(e)'
    BY <1>16 DEF EventRequeue, MayBeCurrent, work, threads
  <2> QED
    BY <1>16, <2>1, AppendInv DEF EventRequeue, EventDone, MinerInv, EventInv, TypeOK,
       EventsType
<1>17. ASSUME UNCHANGED <<queue, epc, event, seq, running>> PROVE EventInv'
  BY <1>17 DEF MinerInv, LockInv, CallerInv, EventInv, WorkInv, MayBeCurrent,
     Slots, Callers, Client, Event, Free, TypeOK, WorkType, ThreadsType,
     EventsType
<1> QED
  BY <1>1, <1>2, <1>3, <1>4, <1>5, <1>6, <1>7, <1>8, <1>9, <1>10, <1>11,
     <1>12, <1>13, <1>14, <1>15, <1>16, <1>17 DEF Next, NewCall, CallStep,
     NewClientCall, ClientCallStep, WorkerStep, EventStep, HandlerReturn,
     Terminated, CallStart, CallCancel, CallDestroy, CancelLockEvent,
     CancelLockRunning, StartSetWork, StartResetStop, StartResetFound,
     StartLoadSeq, StartLockRunning, StartReturn, DestroyJoin, CallSetTimer,
     ArmTimer, CallDisableTimer, DeadlinePasses, CallWait, WaitReturn,
     WorkerEnter, WorkerCopyInput, WorkerLoop, WorkerReadTimer,
     WorkerReadRemaining, WorkerStop, WorkerCheckTarget, WorkerClaim,
     WorkerRecord, WorkerExit, Supersede, vars, work, clock, threads, locks,
     events, calls

\* Setting the timer stores the deadline first.
LEMMA ClockStep ==
  TypeOK /\ MinerInv /\ [Next]_vars => ClockInv'
<1> SUFFICES ASSUME TypeOK, MinerInv, [Next]_vars PROVE ClockInv'
  OBVIOUS
<1>1. ASSUME NEW c \in Callers, CallStart(c) PROVE ClockInv'
  BY <1>1, MinerAssumption DEF CallStart, Supersede, NoCall, MayCall, Goto,
     MinerInv, ClockInv, Slots, TypeOK, ThreadsType, CallsType, clock,
     threads, calls
<1>2. ASSUME NEW c \in Callers, CallCancel(c) PROVE ClockInv'
  BY <1>2, MinerAssumption DEF CallCancel, Supersede, NoCall, MayCall, Goto,
     MinerInv, ClockInv, Slots, TypeOK, ThreadsType, CallsType, clock,
     threads, calls
<1>3. CASE CallDestroy
  BY <1>3, MinerAssumption DEF CallDestroy, Supersede, NoCall, MayCall,
     Destroying, Goto, MinerInv, ClockInv, Slots, TypeOK, ThreadsType,
     CallsType, clock, threads, calls
<1>4. ASSUME NEW c \in Callers, CancelLockEvent(c) PROVE ClockInv'
  BY <1>4, MinerAssumption DEF CancelLockEvent, MayLockEvent, Goto, MinerInv,
     ClockInv, Slots, TypeOK, ThreadsType, CallsType, clock, threads, calls
<1>5. ASSUME NEW c \in Callers, CancelLockRunning(c) PROVE ClockInv'
  BY <1>5, MinerAssumption DEF CancelLockRunning, MayLockRunning, Goto,
     MinerInv, ClockInv, Slots, TypeOK, ThreadsType, CallsType, clock,
     threads, calls
<1>6. ASSUME NEW c \in Callers, CancelFinish(c) PROVE ClockInv'
  BY <1>6, MinerAssumption DEF CancelFinish, AllJoined, AfterCancel, Goto,
     MinerInv, ClockInv, Slots, TypeOK, ThreadsType, CallsType, clock,
     threads, calls
<1>7. ASSUME NEW c \in Callers, StartSetWork(c) PROVE ClockInv'
  BY <1>7, MinerAssumption DEF StartSetWork, Goto, MinerInv, ClockInv, Slots,
     TypeOK, ThreadsType, CallsType, clock, threads, calls
<1>8. ASSUME NEW c \in Callers, StartResetStop(c) PROVE ClockInv'
  BY <1>8, MinerAssumption DEF StartResetStop, Goto, MinerInv, ClockInv,
     Slots, TypeOK, ThreadsType, CallsType, clock, threads, calls
<1>9. ASSUME NEW c \in Callers, StartResetFound(c) PROVE ClockInv'
  BY <1>9, MinerAssumption DEF StartResetFound, Goto, MinerInv, ClockInv,
     Slots, TypeOK, ThreadsType, CallsType, clock, threads, calls
<1>10. ASSUME NEW c \in Callers, StartLoadSeq(c) PROVE ClockInv'
  BY <1>10, MinerAssumption DEF StartLoadSeq, LoadedSeq, Goto, MinerInv,
     ClockInv, Slots, TypeOK, ThreadsType, CallsType, clock, threads, calls
<1>11. ASSUME NEW c \in Callers, StartLockRunning(c) PROVE ClockInv'
  BY <1>11, MinerAssumption DEF StartLockRunning, Goto, MinerInv, ClockInv,
     Slots, TypeOK, ThreadsType, CallsType, clock, threads, calls
<1>12. ASSUME NEW c \in Callers, StartSpawn(c) PROVE ClockInv'
  BY <1>12, MinerAssumption DEF StartSpawn, Goto, MinerInv, ClockInv, Slots,
     TypeOK, ThreadsType, CallsType, clock, threads, calls
<1>13. ASSUME NEW c \in Callers, StartReturn(c) PROVE ClockInv'
  BY <1>13, MinerAssumption DEF StartReturn, NoCall, Goto, MinerInv, ClockInv,
     Slots, TypeOK, ThreadsType, CallsType, clock, threads, calls
<1>14. CASE DestroyStop
  BY <1>14, MinerAssumption DEF DestroyStop, Notify, Goto, MinerInv, ClockInv,
     Slots, TypeOK, ThreadsType, CallsType, clock, threads, calls
<1>15. CASE DestroyJoin
  BY <1>15, MinerAssumption DEF DestroyJoin, Goto, MinerInv, ClockInv, Slots,
     TypeOK, ThreadsType, CallsType, clock, threads, calls
<1>16. ASSUME NEW c \in Callers, CallSetTimer(c) PROVE ClockInv'
  BY <1>16, MinerAssumption DEF CallSetTimer, MayCall, Goto, MinerInv,
     ClockInv, Slots, TypeOK, ThreadsType, CallsType, clock, threads, calls
<1>17. ASSUME NEW c \in Callers, ArmTimer(c) PROVE ClockInv'
  BY <1>17, MinerAssumption DEF ArmTimer, Goto, MinerInv, ClockInv, Slots,
     TypeOK, ThreadsType, CallsType, clock, threads, calls
<1>18. ASSUME NEW c \in Callers, CallDisableTimer(c) PROVE ClockInv'
  BY <1>18, MinerAssumption DEF CallDisableTimer, MayCall, Goto, MinerInv,
     ClockInv, Slots, TypeOK, ThreadsType, CallsType, clock, threads, calls
<1>19. CASE DeadlinePasses
  BY <1>19, MinerAssumption DEF DeadlinePasses, MinerInv, ClockInv, Slots,
     TypeOK, ThreadsType, CallsType, clock, threads, calls
<1>20. CASE CallWait
  BY <1>20, MinerAssumption DEF CallWait, MayCall, Goto, MinerInv, ClockInv,
     Slots, TypeOK, ThreadsType, CallsType, clock, threads, calls
<1>21. CASE WaitReturn
  BY <1>21, MinerAssumption DEF WaitReturn, Goto, MinerInv, ClockInv, Slots,
     TypeOK, ThreadsType, CallsType, clock, threads, calls
<1>22. ASSUME NEW i \in Slots, WorkerEnter(i) PROVE ClockInv'
  BY <1>22, MinerAssumption DEF WorkerEnter, GotoW, MinerInv, ClockInv, Slots,
     TypeOK, ThreadsType, CallsType, clock, threads, calls
<1>23. ASSUME NEW i \in Slots, WorkerCopyInput(i) PROVE ClockInv'
  BY <1>23, MinerAssumption DEF WorkerCopyInput, GotoW, MinerInv, ClockInv,
     Slots, TypeOK, ThreadsType, CallsType, clock, threads, calls
<1>24. ASSUME NEW i \in Slots, WorkerLoop(i) PROVE ClockInv'
  BY <1>24, MinerAssumption DEF WorkerLoop, MayGoOn, GotoW, MinerInv,
     ClockInv, Slots, TypeOK, ThreadsType, CallsType, clock, threads, calls
<1>25. ASSUME NEW i \in Slots, WorkerReadTimer(i) PROVE ClockInv'
  BY <1>25, MinerAssumption DEF WorkerReadTimer, GotoW, MinerInv, ClockInv,
     Slots, TypeOK, ThreadsType, CallsType, clock, threads, calls
<1>26. ASSUME NEW i \in Slots, WorkerReadRemaining(i) PROVE ClockInv'
  BY <1>26, MinerAssumption DEF WorkerReadRemaining, GotoW, MinerInv,
     ClockInv, Slots, TypeOK, ThreadsType, CallsType, clock, threads, calls
<1>27. ASSUME NEW i \in Slots, WorkerQueueTimeout(i) PROVE ClockInv'
  BY <1>27, MinerAssumption DEF WorkerQueueTimeout, QueueEvent, Notify, GotoW,
     MinerInv, ClockInv, Slots, TypeOK, ThreadsType, CallsType, clock,
     threads, calls
<1>28. ASSUME NEW i \in Slots, WorkerStop(i) PROVE ClockInv'
  BY <1>28, MinerAssumption DEF WorkerStop, GotoW, MinerInv, ClockInv, Slots,
     TypeOK, ThreadsType, CallsType, clock, threads, calls
<1>29. ASSUME NEW i \in Slots, WorkerCheckTarget(i) PROVE ClockInv'
  BY <1>29, MinerAssumption DEF WorkerCheckTarget, GotoW, MinerInv, ClockInv,
     Slots, TypeOK, ThreadsType, CallsType, clock, threads, calls
<1>30. ASSUME NEW i \in Slots, WorkerClaim(i) PROVE ClockInv'
  BY <1>30, MinerAssumption DEF WorkerClaim, FirstClaim, GotoW, MinerInv,
     ClockInv, Slots, TypeOK, ThreadsType, CallsType, clock, threads, calls
<1>31. ASSUME NEW i \in Slots, WorkerRecord(i) PROVE ClockInv'
  BY <1>31, MinerAssumption DEF WorkerRecord, GotoW, MinerInv, ClockInv,
     Slots, TypeOK, ThreadsType, CallsType, clock, threads, calls
<1>32. ASSUME NEW i \in Slots, WorkerAnnounce(i) PROVE ClockInv'
  BY <1>32, MinerAssumption DEF WorkerAnnounce, QueueEvent, Notify, GotoW,
     MinerInv, ClockInv, Slots, TypeOK, ThreadsType, CallsType, clock,
     threads, calls
<1>33. ASSUME NEW i \in Slots, WorkerExit(i) PROVE ClockInv'
  BY <1>33, MinerAssumption DEF WorkerExit, GotoW, MinerInv, ClockInv, Slots,
     TypeOK, ThreadsType, CallsType, clock, threads, calls
<1>34. ASSUME UNCHANGED <<deadline, timer, cpc, wpc>> PROVE ClockInv'
  BY <1>34 DEF MinerInv, ClockInv, Slots, TypeOK, ThreadsType, CallsType
<1> QED
  BY <1>1, <1>2, <1>3, <1>4, <1>5, <1>6, <1>7, <1>8, <1>9, <1>10, <1>11,
     <1>12, <1>13, <1>14, <1>15, <1>16, <1>17, <1>18, <1>19, <1>20, <1>21,
     <1>22, <1>23, <1>24, <1>25, <1>26, <1>27, <1>28, <1>29, <1>30, <1>31,
     <1>32, <1>33, <1>34 DEF Next, NewCall, CallStep, NewClientCall,
     ClientCallStep, WorkerStep, EventStep, HandlerReturn, Terminated,
     EventCheckStop, EventLockQueue, EventMustWait, EventBlock,
     EventSpuriousWakeup, EventPop, EventPrecheck, EventSend, HandlerAccept,
     HandlerReject, EventRequeue, vars, work, clock, threads, locks, events,
     calls

\* Init has no thread, no event, no lock and no caller inside a call.
LEMMA InitInv ==
  Init => MinerInv
<1> SUFFICES ASSUME Init PROVE MinerInv
  OBVIOUS
<1>1. LockInv /\ CallerInv
  BY MinerAssumption DEF Init, LockInv, CallerInv, ClientQuiet, MidStart, Callers, Client,
     Event, Free, NoWorker, Slots, NoCall
<1>2. EventInv
  BY DEF Init, EventInv
<1>3. WorkInv /\ StopInv /\ ClockInv
  BY MinerAssumption DEF Init, WorkInv, StopInv, ClockInv, Callers, Slots
<1> QED
  BY <1>1, <1>2, <1>3 DEF MinerInv

\* The inductive invariant holds in every reachable state.
THEOREM MinerInvariant ==
  Spec => [](TypeOK /\ MinerInv)
<1>1. Init => TypeOK /\ MinerInv
  BY InitType, InitInv
<1>2. TypeOK /\ MinerInv /\ [Next]_vars => (TypeOK /\ MinerInv)'
  BY NextType, LockStep, CallerStep, WorkInvStep, StopStep, EventInvStep, ClockStep
     DEF MinerInv
<1> QED
  BY <1>1, <1>2, PTL DEF Spec

\* No thread mines for superseded work, and start() returns the id of its own
\* threads, for any number of threads and calls.
THEOREM WorkersMineCurrent ==
  Spec => []WorkersMineCurrentWork
<1>1. TypeOK /\ MinerInv => WorkersMineCurrentWork
  BY DEF MinerInv, WorkInv, WorkersMineCurrentWork, Live
<1> QED
  BY <1>1, MinerInvariant, PTL

\* New work is stopped by its own deadline only.
THEOREM NewWorkNotStopped ==
  Spec => []NewWorkIsNotStopped
<1>1. TypeOK /\ MinerInv => NewWorkIsNotStopped
  BY DEF MinerInv, StopInv, NewWorkIsNotStopped
<1> QED
  BY <1>1, MinerInvariant, PTL

\* The deadline is compared only after setTimer() has stored one.
THEOREM DeadlineArmed ==
  Spec => []DeadlineReadIsArmed
<1>1. TypeOK /\ MinerInv => DeadlineReadIsArmed
  BY DEF MinerInv, ClockInv, DeadlineReadIsArmed
<1> QED
  BY <1>1, MinerInvariant, PTL

\* Only a cancel() moves the id on, at its end.
LEMMA SeqStep ==
  [Next]_vars => seq' = seq \/ \E c \in Callers : CancelFinish(c)
<1> SUFFICES ASSUME [Next]_vars, ~\E c \in Callers : CancelFinish(c)
             PROVE  seq' = seq
  OBVIOUS
<1>1. CASE \E c \in Callers : NewCall(c)
  BY <1>1 DEF NewCall, CallStart, CallCancel, CallSetTimer, CallDisableTimer, Supersede, work
<1>2. CASE \E c \in Callers : CallStep(c)
  BY <1>2 DEF CallStep, CancelLockEvent, CancelLockRunning, StartSetWork,
     StartResetStop, StartResetFound, StartLoadSeq, StartLockRunning, StartSpawn,
     StartReturn, ArmTimer, work
<1>3. CASE NewClientCall \/ ClientCallStep
  BY <1>3 DEF NewClientCall, CallDestroy, CallWait, Supersede, ClientCallStep,
     DestroyStop, DestroyJoin, WaitReturn, work
<1>4. CASE \E i \in Slots : WorkerStep(i)
  BY <1>4 DEF WorkerStep, WorkerEnter, WorkerCopyInput, WorkerLoop, WorkerReadTimer,
     WorkerReadRemaining, WorkerQueueTimeout, WorkerStop, WorkerCheckTarget,
     WorkerClaim, WorkerRecord, WorkerAnnounce, WorkerExit, work
<1>5. CASE EventStep \/ EventSpuriousWakeup \/ HandlerReturn
  BY <1>5 DEF EventStep, EventCheckStop, EventLockQueue, EventMustWait, EventBlock,
     EventPop, EventPrecheck, EventSend, EventRequeue, EventSpuriousWakeup,
     HandlerReturn, HandlerAccept, HandlerReject, work
<1>6. CASE DeadlinePasses \/ Terminated \/ UNCHANGED vars
  BY <1>6 DEF DeadlinePasses, Terminated, vars, work
<1> QED
  BY <1>1, <1>2, <1>3, <1>4, <1>5, <1>6 DEF Next

\* While a handler runs nobody but itself supersedes the work.
THEOREM HandlerKeepsItsWork ==
  Spec => HandlerNotSuperseded
<1> DEFINE Kept ==
      epc = "handler" /\ epc' = "handler" /\ seq' # seq => cpc[Event] = "join"
<1>1. TypeOK /\ MinerInv /\ [Next]_vars => [Kept]_vars
  <2> SUFFICES ASSUME MinerInv, [Next]_vars, epc = "handler", seq' # seq
               PROVE  cpc[Event] = "join"
    OBVIOUS
  <2>1. PICK c \in Callers : CancelFinish(c)
    BY SeqStep
  <2>2. cpc[c] = "join"
    BY <2>1 DEF CancelFinish
  <2>3. cpc[Client] # "join"
    BY DEF MinerInv, LockInv, Client, Event
  <2> QED
    BY <2>2, <2>3 DEF Callers
<1> QED
  BY <1>1, MinerInvariant, PTL DEF Spec, HandlerNotSuperseded

-----------------------------------------------------------------------------
(* Waiting *)

\* Who holds _eventQueue_mutex is about to let it go; a sleeper is woken up.
LEMMA WaitStep ==
  TypeOK /\ MinerInv /\ WaitInv /\ [Next]_vars => WaitInv'
<1> SUFFICES ASSUME TypeOK, MinerInv, WaitInv, [Next]_vars PROVE WaitInv'
  OBVIOUS
<1> USE DEF WaitInv, TypeOK, CallsType, LocksType, Callers, Client, Event, Free, Goto
<1>1. ASSUME NEW c \in Callers, NEW pc, pc # "joinEvent",
             Goto(c, pc) \/ UNCHANGED cpc,
             UNCHANGED <<queueMutex, epc, queue, stopEvent>>
      PROVE  WaitInv'
  BY <1>1
<1>2. CASE \E c \in Callers : NewCall(c)
  BY <1>2, <1>1 DEF NewCall, CallStart, CallCancel, CallSetTimer, CallDisableTimer,
     Supersede, locks, events, calls
<1>3. ASSUME NEW c \in Callers, CancelFinish(c) PROVE WaitInv'
  <2>1. AfterCancel(call[c].op) # "joinEvent"
    BY DEF AfterCancel
  <2> QED
    BY <1>3, <2>1, <1>1 DEF CancelFinish, events
<1>4. CASE \E c \in Callers : CallStep(c) /\ ~CancelFinish(c)
  BY <1>4, <1>1 DEF CallStep, CancelLockEvent, CancelLockRunning, StartSetWork,
     StartResetStop, StartResetFound, StartLoadSeq, StartLockRunning, StartSpawn,
     StartReturn, ArmTimer, locks, events, calls
<1>5. CASE DestroyStop
  BY <1>5 DEF DestroyStop, Notify, locks
<1>6. CASE NewClientCall \/ DestroyJoin \/ WaitReturn
  BY <1>6, <1>1 DEF NewClientCall, CallDestroy, CallWait, DestroyJoin, WaitReturn,
     Supersede, locks, events
<1>7. ASSUME NEW i \in Slots, WorkerQueueTimeout(i) \/ WorkerAnnounce(i) PROVE WaitInv'
  BY <1>7 DEF WorkerQueueTimeout, WorkerAnnounce, QueueEvent, Notify, locks, calls
<1>8. CASE \E i \in Slots : WorkerStep(i) /\ ~(WorkerQueueTimeout(i) \/ WorkerAnnounce(i))
  BY <1>8 DEF WorkerStep, WorkerEnter, WorkerCopyInput, WorkerLoop, WorkerReadTimer,
     WorkerReadRemaining, WorkerStop, WorkerCheckTarget, WorkerClaim, WorkerRecord,
     WorkerExit, locks, events, calls
<1>9. CASE EventCheckStop \/ EventLockQueue \/ EventSpuriousWakeup \/ EventPrecheck
  BY <1>9 DEF EventCheckStop, EventLockQueue, EventSpuriousWakeup, EventPrecheck,
     EventDone, locks, calls
<1>10. CASE EventMustWait \/ EventBlock \/ EventPop
  BY <1>10 DEF EventMustWait, EventBlock, EventPop, locks, calls
<1>11. CASE EventSend \/ EventRequeue \/ HandlerReturn
  BY <1>11 DEF EventSend, EventRequeue, HandlerReturn, HandlerAccept, HandlerReject,
     EventDone, locks, calls
<1>12. CASE DeadlinePasses \/ Terminated \/ UNCHANGED vars
  BY <1>12 DEF DeadlinePasses, Terminated, vars, locks, events, calls
<1> QED
  BY <1>2, <1>3, <1>4, <1>5, <1>6, <1>7, <1>8, <1>9, <1>10, <1>11, <1>12
  DEF Next, ClientCallStep, EventStep

\* The event thread sleeps only while there is nothing to do.
THEOREM WaitInvariant ==
  Spec => []WaitInv
<1>1. Init => WaitInv
  BY DEF Init, WaitInv, Callers, Client, Event, Free
<1> QED
  BY <1>1, WaitStep, MinerInvariant, PTL DEF Spec

\* Whoever waits for _eventQueue_mutex waits for the event thread, which goes on.
LEMMA QueueIsReleased ==
  ASSUME TypeOK, WaitInv, queueMutex # Free
  PROVE  ~EventWaits
  BY DEF TypeOK, LocksType, WaitInv, EventWaits, Free, Event

\* Among the workers that live one can go on, or the event thread.
LEMMA SomeWorkerGoesOn ==
  ASSUME TypeOK, MinerInv, WaitInv, NEW i \in Slots, Live(i)
  PROVE  ~EventWaits \/ \E k \in Slots : Live(k) /\ ~WorkerWaits(k)
<1>1. CASE queueMutex # Free
  BY <1>1, QueueIsReleased
<1>2. CASE queueMutex = Free /\ solutionMutex = NoWorker
  BY <1>2 DEF WorkerWaits
<1>3. CASE queueMutex = Free /\ solutionMutex # NoWorker
  <2>1. PICK k \in Slots : solutionMutex = k
    BY <1>3 DEF TypeOK, LocksType
  <2>2. wpc[k] \in {"record", "announce"}
    BY <2>1 DEF MinerInv, LockInv
  <2> QED
    BY <1>3, <2>2 DEF Live, WorkerWaits
<1> QED
  BY <1>1, <1>2, <1>3

\* Go down the chain of who waits for whom: it ends at a thread that goes on.
LEMMA WaiterIsHelped ==
  ASSUME TypeOK, MinerInv, WaitInv, NEW c \in Callers, CallerWaits(c)
  PROVE  \/ \E i \in Slots : Live(i) /\ ~WorkerWaits(i)
         \/ ~EventWaits
         \/ cpc[Client] \notin {"idle", "polling", "destroyed"}
            /\ ~CallerWaits(Client)
<1> USE DEF Callers, Client, Event, Free
<1> DEFINE GoesOn == \/ \E i \in Slots : Live(i) /\ ~WorkerWaits(i)
                     \/ ~EventWaits
                     \/ cpc[Client] \notin {"idle", "polling", "destroyed"}
                        /\ ~CallerWaits(Client)
<1>1. ASSUME NEW d \in Callers, cpc[d] = "join", CallerWaits(d) PROVE GoesOn
  <2>1. PICK i \in Slots : Live(i)
    BY <1>1 DEF CallerWaits, AllJoined, Live
  <2> QED
    BY <2>1, SomeWorkerGoesOn
<1>2. ASSUME NEW d \in Callers, cpc[d] = "destroyStop", CallerWaits(d) PROVE GoesOn
  BY <1>2, QueueIsReleased DEF CallerWaits
<1>3. ASSUME NEW d \in Callers, cpc[d] \in {"lockRunning", "lockSpawn"}, CallerWaits(d)
      PROVE  GoesOn
  <2>1. runningMutex # Free /\ runningMutex # d
    BY <1>3 DEF CallerWaits, MinerInv, LockInv
  <2>2. CASE d = Client
    <3>1. cpc[Event] \in {"join", "spawn"} /\ epc = "handler"
      BY <2>1, <2>2 DEF TypeOK, LocksType, MinerInv, LockInv
    <3>2. eventMutex = Client \/ ClientQuiet
      BY <1>3, <2>2 DEF MinerInv, LockInv, ClientQuiet, MidStart
    <3> QED
      BY <3>1, <3>2 DEF MinerInv, LockInv, CallerInv
  <2>3. CASE d = Event
    <3>1. cpc[Client] \in {"join", "spawn"} /\ epc = "handler"
      BY <1>3, <2>1, <2>3 DEF TypeOK, LocksType, MinerInv, LockInv
    <3>2. cpc[Client] = "spawn"
      BY <3>1 DEF MinerInv, LockInv
    <3> QED
      BY <3>2 DEF CallerWaits
  <2> QED
    BY <2>2, <2>3
<1>4. CASE cpc[c] = "lockEvent"
  <2>1. c = Client /\ eventMutex = Event /\ epc = "handler"
    BY <1>4 DEF CallerWaits, MayLockEvent, TypeOK, LocksType, MinerInv, LockInv
  <2>2. CASE ~CallerWaits(Event)
    BY <2>1, <2>2 DEF EventWaits
  <2>3. CASE CallerWaits(Event)
    <3>1. cpc[Event] \in {"lockRunning", "lockSpawn", "join", "destroyStop"}
      BY <2>1, <2>3 DEF CallerWaits, MayLockEvent, WaitInv
    <3> QED
      BY <3>1, <2>3, <1>1, <1>2, <1>3
  <2> QED
    BY <2>2, <2>3
<1>5. CASE cpc[c] = "joinEvent"
  <2>1. c = Client /\ epc # "exited" /\ stopEvent
    BY <1>5 DEF CallerWaits, WaitInv
  <2>2. epc \notin {"handler", "asleep"} /\ eventMutex = Free
    BY <1>5, <2>1 DEF MinerInv, CallerInv, ClientQuiet, WaitInv, LockInv, TypeOK,
       LocksType
  <2> QED
    BY <2>1, <2>2, QueueIsReleased DEF EventWaits
<1> QED
  BY <1>1, <1>2, <1>3, <1>4, <1>5 DEF CallerWaits

\* Nobody waits in vain, for any number of workers: no lost notification, and
\* no circle of locks and joins.
THEOREM NoCircularWait ==
  Spec => []NobodyWaitsInVain
<1>1. TypeOK /\ MinerInv /\ WaitInv => NobodyWaitsInVain
  BY WaiterIsHelped DEF NobodyWaitsInVain, WaitInv
<1> QED
  BY <1>1, MinerInvariant, WaitInvariant, PTL
=============================================================================
