---------------------------- MODULE Qryptominer ----------------------------
(***************************************************************************)
(* class Qryptominer (src/src/qryptonight/qryptominer.{h,cpp}): a client   *)
(* thread calling the API, the event thread that calls the user's          *)
(* handleEvent(), and the mining workers of the current work.              *)
(*                                                                         *)
(* A step is one access to shared state, or a critical section's accesses  *)
(* that no other lock or wait separates.  The client and the event thread  *)
(* are the two callers of start()/cancel(): a handler may call both, while *)
(* _sendEvent() holds _event_mutex (a recursive mutex) for it.             *)
(***************************************************************************)
EXTENDS Integers, Sequences

CONSTANTS
  Jobs,                 \* the inputs and targets start() may be given
  NoJob,                \* the empty vectors _input and _target start as
  NonceMod,             \* number of nonces: 2^32 in the code
  Winning,              \* Winning[<<i, t>>]: nonces whose hash of i passes t
  MaxThreads,           \* bound on the worker threads one start() creates
  ThreadCounts,         \* the thread_count arguments given to start()
  HardwareConcurrency,  \* std::thread::hardware_concurrency(), 0 if unknown
  SpawnCanFail,         \* may the std::thread constructor throw?
  UsesTimer, UsesWait,  \* do the callers use setTimer(), waitForAnswer()?
  MaxSeq                \* bound: no new start()/cancel() from this id on

Slots == 0 .. MaxThreads - 1
Nonces == 0 .. NonceMod - 1
EffectiveCount(n) == IF n = 0 THEN HardwareConcurrency ELSE n

ASSUME MinerAssumption ==
  /\ NoJob \notin Jobs
  /\ NonceMod \in Nat \ {0}
  /\ Winning \in [Jobs \X Jobs -> SUBSET Nonces]
  /\ MaxThreads \in 1 .. NonceMod
  /\ HardwareConcurrency \in Nat
  /\ ThreadCounts \subseteq Nat
  /\ \A n \in ThreadCounts : EffectiveCount(n) \in 0 .. MaxThreads
  /\ SpawnCanFail \in BOOLEAN
  /\ UsesTimer \in BOOLEAN /\ UsesWait \in BOOLEAN
  /\ MaxSeq \in Nat

Client == "client"
Event == "event"
Callers == {Client, Event}
Free == "free"    \* a mutex nobody owns ...
NoWorker == -1    \* ... and _solution_mutex, which only workers hold on to

VARIABLES
  input, target,   \* _input, _target
  seq,             \* _work_sequence_id
  stop,            \* _stop_request
  found,           \* _solution_found
  solution,        \* _solution_input and _solution_hash: input and nonce
  deadline,        \* _deadline_milliseconds relative to now; "garbage" if unset
  timer,           \* _deadline_enabled
  running,         \* size of _runningThreads: workers 0 .. running - 1
  count,           \* _runningThreads_count
  eventMutex, runningMutex, solutionMutex, queueMutex,  \* the owners
  queue, stopEvent,               \* _eventQueue, _stop_eventThread
  wpc, nonce, tmpInput, wseq, stride,  \* workers: place, nonce, input copy
  cpc, call,       \* callers: place in start()/cancel()/..., its arguments
  epc, event,      \* event thread: place, event in hand
  answered,        \* client: its last waitForAnswer() returned true
  handled          \* history: <<type, seq>> of the events handleEvent took

work == <<input, target, seq, stop, found, solution>>
clock == <<deadline, timer>>
threads == <<running, count, wpc, nonce, tmpInput, wseq, stride>>
locks == <<eventMutex, runningMutex, solutionMutex, queueMutex>>
events == <<queue, stopEvent, epc, event, handled>>
calls == <<cpc, call, answered>>
vars == <<work, clock, threads, locks, events, calls>>

EventTypes == {"SOLUTION", "TIMEOUT"}
NoEvent == [type |-> "NONE", seq |-> 0, nonce |-> 0]
MinerEvent(type, s, n) == [type |-> type, seq |-> s, nonce |-> n]
NoCall(o) == [op |-> o, job |-> NoJob, n |-> 0, seq |-> 0]

Init ==
  /\ input = NoJob /\ target = NoJob
  /\ seq = 0 /\ stop = FALSE /\ found = FALSE
  /\ solution = [input |-> NoJob, nonce |-> 0]
  /\ deadline = "garbage" /\ timer = FALSE
  /\ running = 0 /\ count = 0
  /\ eventMutex = Free /\ runningMutex = Free
  /\ solutionMutex = NoWorker /\ queueMutex = Free
  /\ queue = <<>> /\ stopEvent = FALSE
  /\ wpc = [i \in Slots |-> "none"]
  /\ nonce = [i \in Slots |-> 0]
  /\ tmpInput = [i \in Slots |-> NoJob]
  /\ wseq = [i \in Slots |-> 0]
  /\ stride = [i \in Slots |-> 0]
  /\ cpc = [c \in Callers |-> "idle"]
  /\ call = [c \in Callers |-> NoCall("none")]
  /\ epc = "check" /\ event = NoEvent
  /\ answered = FALSE
  /\ handled = {}

-----------------------------------------------------------------------------
(* The event queue *)

\* Mutant of Notify: nobody is woken up.
NoNotify(pc) == pc

\* _eventReleased.notify_one(): only the event thread ever waits on it.
Notify(pc) == IF pc = "asleep" THEN "lock" ELSE pc

\* _queueEvent(e): lock, push_back, notify.
QueueEvent(e) ==
  /\ queueMutex = Free
  /\ queue' = Append(queue, e)
  /\ epc' = Notify(epc)

-----------------------------------------------------------------------------
(* The API, as called by the client or from a handler *)

\* ~Qryptominer() has begun: the derived object and its handler are gone.
Destroying == call[Client].op \in {"destroy", "tidyDestroy"}

MayCall(c) ==
  /\ cpc[c] = "idle"
  /\ c = Event => epc = "handler"

Goto(c, pc) == cpc' = [cpc EXCEPT ![c] = pc]

\* A call that supersedes the current work begins with cancel().
Supersede(c, frame) ==
  /\ MayCall(c)
  /\ seq < MaxSeq \/ frame.op \in {"destroy", "tidyDestroy"}
  /\ call' = [call EXCEPT ![c] = frame]
  /\ Goto(c, "lockEvent")
  /\ answered' = (answered /\ c # Client)
  /\ UNCHANGED <<work, clock, threads, locks, events>>

CallStart(c) ==
  \E j \in Jobs, n \in ThreadCounts :
    Supersede(c, [op |-> "start", job |-> j, n |-> EffectiveCount(n), seq |-> 0])

CallCancel(c) == Supersede(c, NoCall("cancel"))

\* ~Qryptominer() begins with cancel() too; tidy is a client that has just
\* made a cancel() of its own.
CallDestroy ==
  /\ ~Destroying
  /\ Supersede(Client, NoCall(IF call[Client].op = "cancel" THEN "tidyDestroy"
                                                          ELSE "destroy"))

\* Mutant of MayLockEvent: cancel() without _event_mutex.
LockEventAnyway(c) == TRUE

\* Mutant of MayLockEvent: a mutex that is not recursive.
LockEventOnce(c) == eventMutex = Free

MayLockEvent(c) == eventMutex \in {Free, c}

CancelLockEvent(c) ==
  /\ cpc[c] = "lockEvent"
  /\ MayLockEvent(c)
  /\ eventMutex' = c
  /\ Goto(c, "lockRunning")
  /\ UNCHANGED <<work, clock, threads, runningMutex, solutionMutex, queueMutex,
                 events, call, answered>>

\* Mutant of MayLockRunning: cancel() without _runningThreads_mutex.
LockRunningAnyway == TRUE

MayLockRunning == runningMutex = Free

CancelLockRunning(c) ==
  /\ cpc[c] = "lockRunning"
  /\ MayLockRunning
  /\ runningMutex' = c
  /\ stop' = TRUE
  /\ Goto(c, "join")
  /\ UNCHANGED <<input, target, seq, found, solution, clock, threads, eventMutex,
                 solutionMutex, queueMutex, events, call, answered>>

\* Where the operation goes on once its cancel() has returned.
AfterCancel(op) ==
  CASE op = "start" -> "setWork"
    [] op \in {"destroy", "tidyDestroy"} -> "destroyStop"
    [] OTHER -> "idle"

\* Mutant of AllJoined: the threads are cleared without a join().
NobodyJoined == TRUE

AllJoined == \A i \in Slots : wpc[i] \in {"none", "done"}

\* Every thread of _runningThreads is joined, the vector cleared and the id
\* moved on; a handler's caller still holds _event_mutex through _sendEvent().
CancelFinish(c) ==
  /\ cpc[c] = "join"
  /\ AllJoined
  /\ running' = 0
  /\ wpc' = [i \in Slots |-> "none"]
  /\ nonce' = [i \in Slots |-> 0]
  /\ tmpInput' = [i \in Slots |-> NoJob]
  /\ wseq' = [i \in Slots |-> 0]
  /\ stride' = [i \in Slots |-> 0]
  /\ seq' = seq + 1
  /\ runningMutex' = Free
  /\ eventMutex' = IF c = Event THEN Event ELSE Free
  /\ Goto(c, AfterCancel(call[c].op))
  /\ UNCHANGED <<input, target, stop, found, solution, clock, count,
                 solutionMutex, queueMutex, events, call, answered>>

StartSetWork(c) ==
  /\ cpc[c] = "setWork"
  /\ input' = call[c].job /\ target' = call[c].job
  /\ Goto(c, "resetStop")
  /\ UNCHANGED <<seq, stop, found, solution, clock, threads, locks, events, call,
                 answered>>

StartResetStop(c) ==
  /\ cpc[c] = "resetStop"
  /\ stop' = FALSE
  /\ Goto(c, "resetFound")
  /\ UNCHANGED <<input, target, seq, found, solution, clock, threads, locks,
                 events, call, answered>>

\* Mutant of StartResetFound: the flag of the last work stays.
StartKeepFound(c) ==
  /\ cpc[c] = "resetFound"
  /\ Goto(c, "loadSeq")
  /\ UNCHANGED <<work, clock, threads, locks, events, call, answered>>

StartResetFound(c) ==
  /\ cpc[c] = "resetFound"
  /\ found' = FALSE
  /\ Goto(c, "loadSeq")
  /\ UNCHANGED <<input, target, seq, stop, solution, clock, threads, locks,
                 events, call, answered>>

\* Mutant of LoadedSeq: the id as it was before the cancel().
SeqBeforeCancel == seq - 1

LoadedSeq == seq

StartLoadSeq(c) ==
  /\ cpc[c] = "loadSeq"
  /\ call' = [call EXCEPT ![c].seq = LoadedSeq]
  /\ Goto(c, "lockSpawn")
  /\ UNCHANGED <<work, clock, threads, locks, events, answered>>

StartLockRunning(c) ==
  /\ cpc[c] = "lockSpawn"
  /\ runningMutex = Free
  /\ runningMutex' = c
  /\ Goto(c, "spawn")
  /\ UNCHANGED <<work, clock, threads, eventMutex, solutionMutex, queueMutex,
                 events, call, answered>>

\* The next thread of the loop; thread_count reaches it as a uint8_t.
StartSpawn(c) ==
  /\ cpc[c] = "spawn"
  /\ running < call[c].n
  /\ running' = running + 1
  /\ wpc' = [wpc EXCEPT ![running] = "created"]
  /\ wseq' = [wseq EXCEPT ![running] = call[c].seq]
  /\ stride' = [stride EXCEPT ![running] = call[c].n % 256]
  /\ UNCHANGED <<work, clock, count, nonce, tmpInput, locks, events, calls>>

\* start() ends: all threads exist, or a std::thread constructor threw and the
\* exception leaves start() with the threads created so far still mining.
StartReturn(c) ==
  /\ cpc[c] = "spawn"
  /\ running = call[c].n \/ SpawnCanFail
  /\ runningMutex' = Free
  /\ Goto(c, "idle")
  /\ call' = [call EXCEPT ![c] = NoCall("start")]
  /\ UNCHANGED <<work, clock, threads, eventMutex, solutionMutex, queueMutex,
                 events, answered>>

\* Mutant of DestroyStop: without _eventQueue_mutex.
DestroyStopUnlocked ==
  /\ cpc[Client] = "destroyStop"
  /\ stopEvent' = TRUE
  /\ epc' = Notify(epc)
  /\ Goto(Client, "joinEvent")
  /\ UNCHANGED <<work, clock, threads, locks, queue, event, handled, call, answered>>

\* ~Qryptominer() after its cancel(): stop the event thread, then join it.
DestroyStop ==
  /\ cpc[Client] = "destroyStop"
  /\ queueMutex = Free
  /\ stopEvent' = TRUE
  /\ epc' = Notify(epc)
  /\ Goto(Client, "joinEvent")
  /\ UNCHANGED <<work, clock, threads, locks, queue, event, handled, call, answered>>

DestroyJoin ==
  /\ cpc[Client] = "joinEvent"
  /\ epc = "exited"
  /\ Goto(Client, "destroyed")
  /\ UNCHANGED <<work, clock, threads, locks, events, call, answered>>

\* Mutant of CallSetTimer: the flag goes up before a deadline is stored.
CallSetTimerFlagFirst(c) ==
  /\ UsesTimer /\ MayCall(c)
  /\ timer' = TRUE
  /\ Goto(c, "armTimer")
  /\ UNCHANGED <<work, deadline, threads, locks, events, call, answered>>

\* setTimer(): the deadline first (already past for 0 ms), then the flag.
CallSetTimer(c) ==
  /\ UsesTimer /\ MayCall(c)
  /\ deadline' \in {"future", "past"}
  /\ Goto(c, "armTimer")
  /\ UNCHANGED <<work, timer, threads, locks, events, call, answered>>

ArmTimer(c) ==
  /\ cpc[c] = "armTimer"
  /\ timer' = TRUE
  /\ Goto(c, "idle")
  /\ UNCHANGED <<work, deadline, threads, locks, events, call, answered>>

CallDisableTimer(c) ==
  /\ UsesTimer /\ MayCall(c)
  /\ timer' = FALSE
  /\ UNCHANGED <<work, deadline, threads, locks, events, calls>>

\* Time passes the deadline.
DeadlinePasses ==
  /\ deadline = "future"
  /\ deadline' = "past"
  /\ UNCHANGED <<work, timer, threads, locks, events, calls>>

\* waitForAnswer(): solutionAvailable() once a second, or give up.
CallWait ==
  /\ UsesWait /\ MayCall(Client)
  /\ answered' = FALSE
  /\ Goto(Client, "polling")
  /\ UNCHANGED <<work, clock, threads, locks, events, call>>

WaitReturn ==
  /\ cpc[Client] = "polling"
  /\ \/ solutionMutex = NoWorker /\ found /\ answered' = TRUE
     \/ UNCHANGED answered
  /\ Goto(Client, "idle")
  /\ UNCHANGED <<work, clock, threads, locks, events, call>>

-----------------------------------------------------------------------------
(* The mining worker of slot i *)

GotoW(i, pc) == wpc' = [wpc EXCEPT ![i] = pc]

WorkerEnter(i) ==
  /\ wpc[i] = "created"
  /\ count' = count + 1
  /\ GotoW(i, "entered")
  /\ UNCHANGED <<work, clock, running, nonce, tmpInput, wseq, stride, locks,
                 events, calls>>

FirstNonce(i) == i

\* The copy of _input (182), read without a lock.  Before it the thread takes a hash
\* object: a wait for the pool's mutex (181) is a delay of this step, and ends
\* (QryptonightPool, AcquireReturns); an exception of the factory ends the program.
WorkerCopyInput(i) ==
  /\ wpc[i] = "entered"
  /\ tmpInput' = [tmpInput EXCEPT ![i] = input]
  /\ nonce' = [nonce EXCEPT ![i] = FirstNonce(i)]
  /\ GotoW(i, "loop")
  /\ UNCHANGED <<work, clock, running, count, wseq, stride, locks, events, calls>>

\* Mutant of MayGoOn: a loop that does not look at _stop_request.
GoOnIfStopped == ~found

MayGoOn == ~stop /\ ~found

\* The while condition, and the hash if it holds.  Both flags only rise while
\* a worker lives, so reading the pair at once loses no outcome.
WorkerLoop(i) ==
  /\ wpc[i] = "loop"
  /\ GotoW(i, IF ~MayGoOn THEN "exit"
                               ELSE IF i = 0 THEN "timer" ELSE "check")
  /\ UNCHANGED <<work, clock, running, count, nonce, tmpInput, wseq, stride,
                 locks, events, calls>>

\* Worker 0 reads _deadline_enabled, then _deadline_milliseconds.
WorkerReadTimer(i) ==
  /\ wpc[i] = "timer"
  /\ GotoW(i, IF timer THEN "remaining" ELSE "check")
  /\ UNCHANGED <<work, clock, running, count, nonce, tmpInput, wseq, stride,
                 locks, events, calls>>

WorkerReadRemaining(i) ==
  /\ wpc[i] = "remaining"
  /\ \/ deadline \in {"future", "garbage"} /\ GotoW(i, "check")
     \/ deadline \in {"past", "garbage"} /\ GotoW(i, "timeout")
  /\ UNCHANGED <<work, clock, running, count, nonce, tmpInput, wseq, stride,
                 locks, events, calls>>

WorkerQueueTimeout(i) ==
  /\ wpc[i] = "timeout"
  /\ QueueEvent(MinerEvent("TIMEOUT", wseq[i], 0))
  /\ GotoW(i, "stopping")
  /\ UNCHANGED <<work, clock, running, count, nonce, tmpInput, wseq, stride,
                 locks, stopEvent, event, handled, calls>>

\* Mutant of WorkerStop: only worker 0 leaves its loop.
WorkerStopAlone(i) ==
  /\ wpc[i] = "stopping"
  /\ GotoW(i, "exit")
  /\ UNCHANGED <<work, clock, running, count, nonce, tmpInput, wseq, stride,
                 locks, events, calls>>

\* Mutant of WorkerStop: nobody does.
WorkerStopNobody(i) ==
  /\ wpc[i] = "stopping"
  /\ GotoW(i, "loop")
  /\ UNCHANGED <<work, clock, running, count, nonce, tmpInput, wseq, stride,
                 locks, events, calls>>

WorkerStop(i) ==
  /\ wpc[i] = "stopping"
  /\ stop' = TRUE
  /\ GotoW(i, "exit")
  /\ UNCHANGED <<input, target, seq, found, solution, clock, running, count,
                 nonce, tmpInput, wseq, stride, locks, events, calls>>

Passes(i) == nonce[i] \in Winning[<<tmpInput[i], target>>]

\* Mutant of NextNonce: the counter does not wrap.
NextNonceUnbounded(i) == nonce' = [nonce EXCEPT ![i] = @ + stride[i]]

\* Mutant of NextNonce: a stride of 0.
NextNonceStays(i) == nonce' = nonce

NextNonce(i) == nonce' = [nonce EXCEPT ![i] = (@ + stride[i]) % NonceMod]

WorkerCheckTarget(i) ==
  /\ wpc[i] = "check"
  /\ \/ Passes(i) /\ GotoW(i, "claim") /\ UNCHANGED nonce
     \/ ~Passes(i) /\ GotoW(i, "loop") /\ NextNonce(i)
  /\ UNCHANGED <<work, clock, running, count, tmpInput, wseq, stride, locks,
                 events, calls>>

\* Mutant of FirstClaim: every passing nonce is taken.
EveryClaim == TRUE

FirstClaim == ~found

\* Under _solution_mutex the first claim wins; a later one changes nothing.
WorkerClaim(i) ==
  /\ wpc[i] = "claim"
  /\ solutionMutex = NoWorker
  /\ \/ /\ FirstClaim
        /\ found' = TRUE /\ solutionMutex' = i
        /\ GotoW(i, "record") /\ UNCHANGED nonce
     \/ /\ ~FirstClaim
        /\ GotoW(i, "loop") /\ NextNonce(i)
        /\ UNCHANGED <<found, solutionMutex>>
  /\ UNCHANGED <<input, target, seq, stop, solution, clock, running, count,
                 tmpInput, wseq, stride, eventMutex, runningMutex, queueMutex,
                 events, calls>>

WorkerRecord(i) ==
  /\ wpc[i] = "record"
  /\ solution' = [input |-> tmpInput[i], nonce |-> nonce[i]]
  /\ GotoW(i, "announce")
  /\ UNCHANGED <<input, target, seq, stop, found, clock, running, count, nonce,
                 tmpInput, wseq, stride, locks, events, calls>>

WorkerAnnounce(i) ==
  /\ wpc[i] = "announce"
  /\ QueueEvent(MinerEvent("SOLUTION", wseq[i], nonce[i]))
  /\ solutionMutex' = NoWorker
  /\ GotoW(i, "loop") /\ NextNonce(i)
  /\ UNCHANGED <<work, clock, running, count, tmpInput, wseq, stride, eventMutex,
                 runningMutex, queueMutex, stopEvent, event, handled, calls>>

WorkerExit(i) ==
  /\ wpc[i] = "exit"
  /\ count' = count - 1
  /\ GotoW(i, "done")
  /\ UNCHANGED <<work, clock, running, nonce, tmpInput, wseq, stride, locks,
                 events, calls>>

-----------------------------------------------------------------------------
(* The event thread: _eventThreadWorker() and _sendEvent() *)

EventCheckStop ==
  /\ epc = "check"
  /\ epc' = IF stopEvent THEN "exited" ELSE "lock"
  /\ UNCHANGED <<work, clock, threads, locks, queue, stopEvent, event, handled, calls>>

\* Lock the queue, on entry or when the condition variable wakes up.
EventLockQueue ==
  /\ epc = "lock"
  /\ queueMutex = Free
  /\ queueMutex' = Event
  /\ epc' = "test"
  /\ UNCHANGED <<work, clock, threads, eventMutex, runningMutex, solutionMutex,
                 queue, stopEvent, event, handled, calls>>

\* The predicate of wait(): nothing to do, so block; ...
EventMustWait ==
  /\ epc = "test"
  /\ queue = <<>> /\ ~stopEvent
  /\ epc' = "block"
  /\ UNCHANGED <<work, clock, threads, locks, queue, stopEvent, event, handled, calls>>

\* ... blocking releases the mutex, ...
EventBlock ==
  /\ epc = "block"
  /\ queueMutex' = Free
  /\ epc' = "asleep"
  /\ UNCHANGED <<work, clock, threads, eventMutex, runningMutex, solutionMutex,
                 queue, stopEvent, event, handled, calls>>

\* ... and may end without a notification.
EventSpuriousWakeup ==
  /\ epc = "asleep"
  /\ epc' = "lock"
  /\ UNCHANGED <<work, clock, threads, locks, queue, stopEvent, event, handled, calls>>

EventPop ==
  /\ epc = "test"
  /\ queue # <<>> \/ stopEvent
  /\ IF queue # <<>>
     THEN epc' = "precheck" /\ event' = Head(queue) /\ queue' = Tail(queue)
     ELSE epc' = "check" /\ UNCHANGED <<event, queue>>
  /\ queueMutex' = Free
  /\ UNCHANGED <<work, clock, threads, eventMutex, runningMutex, solutionMutex,
                 stopEvent, handled, calls>>

\* Back to the while loop, the event in hand gone.
EventDone == epc' = "check" /\ event' = NoEvent

Handle == handled' = handled \union {<<event.type, event.seq>>}

\* The unlocked look at the id before _sendEvent().
EventPrecheck ==
  /\ epc = "precheck"
  /\ IF event.seq = seq THEN epc' = "send" /\ UNCHANGED event ELSE EventDone
  /\ UNCHANGED <<work, clock, threads, locks, queue, stopEvent, handled, calls>>

\* Mutant of StillCurrent: no second look at the id under _event_mutex.
CurrentAnyway == TRUE

StillCurrent == event.seq = seq

\* _sendEvent() up to the call of handleEvent(); one of the base class, which
\* is what the destructor leaves, takes the event at once.
EventSend ==
  /\ epc = "send"
  /\ eventMutex = Free
  /\ \/ /\ StillCurrent /\ ~Destroying
        /\ epc' = "handler" /\ eventMutex' = Event
        /\ UNCHANGED <<event, handled>>
     \/ /\ StillCurrent /\ Destroying
        /\ EventDone /\ Handle
        /\ UNCHANGED eventMutex
     \/ /\ ~StillCurrent
        /\ EventDone
        /\ UNCHANGED <<eventMutex, handled>>
  /\ UNCHANGED <<work, clock, threads, runningMutex, solutionMutex, queueMutex,
                 queue, stopEvent, calls>>

\* handleEvent() returns non-zero or throws: the event counts as processed.
HandlerAccept ==
  /\ epc = "handler"
  /\ cpc[Event] = "idle"
  /\ eventMutex' = Free
  /\ Handle
  /\ EventDone
  /\ UNCHANGED <<work, clock, threads, runningMutex, solutionMutex, queueMutex,
                 queue, stopEvent, calls>>

\* handleEvent() returns 0 (the base class never does): put the event back.
HandlerReject ==
  /\ epc = "handler"
  /\ cpc[Event] = "idle"
  /\ eventMutex' = Free
  /\ epc' = "requeue"
  /\ UNCHANGED <<work, clock, threads, runningMutex, solutionMutex, queueMutex,
                 queue, stopEvent, event, handled, calls>>

EventRequeue ==
  /\ epc = "requeue"
  /\ queueMutex = Free
  /\ queue' = Append(queue, event)
  /\ EventDone
  /\ UNCHANGED <<work, clock, threads, locks, stopEvent, handled, calls>>

-----------------------------------------------------------------------------

\* A caller inside an API call.
CallStep(c) ==
  \/ CancelLockEvent(c) \/ CancelLockRunning(c) \/ CancelFinish(c)
  \/ StartSetWork(c) \/ StartResetStop(c) \/ StartResetFound(c)
  \/ StartLoadSeq(c) \/ StartLockRunning(c) \/ StartSpawn(c) \/ StartReturn(c)
  \/ ArmTimer(c)

\* What a caller may choose to do next.
NewCall(c) ==
  CallStart(c) \/ CallCancel(c) \/ CallSetTimer(c) \/ CallDisableTimer(c)

\* The calls only the client makes, and their later steps.
NewClientCall == CallDestroy \/ CallWait
ClientCallStep == DestroyStop \/ DestroyJoin \/ WaitReturn

WorkerStep(i) ==
  \/ WorkerEnter(i) \/ WorkerCopyInput(i) \/ WorkerLoop(i)
  \/ WorkerReadTimer(i) \/ WorkerReadRemaining(i)
  \/ WorkerQueueTimeout(i) \/ WorkerStop(i)
  \/ WorkerCheckTarget(i) \/ WorkerClaim(i) \/ WorkerRecord(i)
  \/ WorkerAnnounce(i) \/ WorkerExit(i)

EventStep ==
  \/ EventCheckStop \/ EventLockQueue \/ EventMustWait \/ EventBlock \/ EventPop
  \/ EventPrecheck \/ EventSend \/ EventRequeue

HandlerReturn == HandlerAccept \/ HandlerReject

\* The miner is gone: nothing is left to run.
Terminated == cpc[Client] = "destroyed" /\ UNCHANGED vars

Next ==
  \/ \E c \in Callers : NewCall(c) \/ CallStep(c)
  \/ NewClientCall \/ ClientCallStep
  \/ \E i \in Slots : WorkerStep(i)
  \/ EventStep \/ EventSpuriousWakeup \/ HandlerReturn
  \/ DeadlinePasses
  \/ Terminated

Spec == Init /\ [][Next]_vars

\* Every thread runs.  A lock that is free again and again is taken in the end:
\* the event thread idles 100 ms with no lock after a rejected event, and holds
\* _eventQueue_mutex for instructions only.  The user's handler returns, and
\* does not reject for ever.  Nobody has to call, and no time has to pass.
Fairness ==
  /\ \A i \in Slots : /\ WF_vars(WorkerStep(i))
                      /\ SF_vars(WorkerQueueTimeout(i) \/ WorkerAnnounce(i))
  /\ WF_vars(EventStep)
  /\ SF_vars(HandlerAccept)
  /\ WF_vars(CallStep(Event))
  /\ WF_vars(CallStep(Client) \/ ClientCallStep)
  /\ SF_vars(CancelLockEvent(Client) \/ DestroyStop)

FairSpec == Spec /\ Fairness

-----------------------------------------------------------------------------
(* Types *)

CallPlaces == {"idle", "lockEvent", "lockRunning", "join", "setWork", "resetStop",
               "resetFound", "loadSeq", "lockSpawn", "spawn", "armTimer",
               "polling", "destroyStop", "joinEvent", "destroyed"}
WorkerPlaces == {"none", "created", "entered", "loop", "timer", "remaining",
                 "timeout", "stopping", "check", "claim", "record", "announce",
                 "exit", "done"}
EventPlaces == {"check", "lock", "test", "block", "asleep", "precheck", "send",
                "handler", "requeue", "exited"}
AnyJob == Jobs \union {NoJob}
Events == [type : EventTypes, seq : Nat, nonce : Nonces]
Calls == [op : {"none", "start", "cancel", "destroy", "tidyDestroy"}, job : AnyJob,
          n : 0 .. MaxThreads, seq : Nat]

WorkType ==
  /\ input \in AnyJob /\ target \in AnyJob
  /\ seq \in Nat /\ stop \in BOOLEAN /\ found \in BOOLEAN
  /\ solution \in [input : AnyJob, nonce : Nonces]

ClockType == deadline \in {"garbage", "future", "past"} /\ timer \in BOOLEAN

ThreadsType ==
  /\ running \in 0 .. MaxThreads /\ count \in Int
  /\ wpc \in [Slots -> WorkerPlaces]
  /\ nonce \in [Slots -> Nonces]
  /\ tmpInput \in [Slots -> AnyJob]
  /\ wseq \in [Slots -> Nat]
  /\ stride \in [Slots -> Nat]

LocksType ==
  /\ eventMutex \in Callers \union {Free}
  /\ runningMutex \in Callers \union {Free}
  /\ solutionMutex \in Slots \union {NoWorker}
  /\ queueMutex \in {Event, Free}

EventsType ==
  /\ queue \in Seq(Events) /\ stopEvent \in BOOLEAN
  /\ epc \in EventPlaces
  /\ event \in Events \union {NoEvent}
  /\ epc \in {"precheck", "send", "handler", "requeue"} => event \in Events
  /\ handled \in SUBSET (EventTypes \X Nat)

CallsType ==
  /\ cpc \in [Callers -> CallPlaces]
  /\ call \in [Callers -> Calls]
  /\ answered \in BOOLEAN

TypeOK == WorkType /\ ClockType /\ ThreadsType /\ LocksType /\ EventsType /\ CallsType

-----------------------------------------------------------------------------
(* Safety *)

Live(i) == wpc[i] \notin {"none", "done"}

\* No thread ever mines for superseded work: while a thread of _runningThreads
\* lives, the id, input and start nonce it was created with are the current
\* ones, whoever called start() or cancel() meanwhile (cancel() 244-255).  And
\* start() returns the id of the threads it created, although it reads the id
\* again to return it and the other caller may be about to cancel (166, 234).
WorkersMineCurrentWork ==
  /\ \A i \in Slots : Live(i) =>
       /\ wseq[i] = seq
       /\ wpc[i] \notin {"created", "entered"} => tmpInput[i] = input
  /\ \A c \in Callers : cpc[c] = "spawn" => call[c].seq = seq

\* What solutionInput(), solutionNonce() and solutionHash() return once
\* solutionAvailable() is true solves the work start() last set: never a
\* leftover of earlier work, never half written, never a second solution's
\* (220-227).  start() itself leaves a gap, between 157 and 162.
SolutionSolvesCurrentWork ==
  found /\ solutionMutex = NoWorker
        /\ (\A c \in Callers : cpc[c] \notin {"resetStop", "resetFound"})
    => /\ solution.input = input
       /\ solution.nonce \in Winning[<<input, target>>]

\* A handler told of a SOLUTION of the current work reads that same solution
\* from the miner: event.nonce is solutionNonce() (222-225).
SolutionEventMatchesSolution ==
  epc = "handler" /\ event.type = "SOLUTION" /\ event.seq = seq
    => found /\ solution.nonce = event.nonce

\* No handler is told twice of a solution, or twice of a timeout, of one work
\* item, however many threads find one and however often it was put back.
NotifiedOnce ==
  epc = "handler" => <<event.type, event.seq>> \notin handled

\* isRunning() is false once cancel() has joined the threads: the counter of
\* live threads never outlives the vector of threads (40-53, 257-260).
StoppedMeansNotRunning ==
  running = 0 => count = 0

\* The deadline is compared only after setTimer() has stored one: its atomic is
\* never initialised otherwise (101-102 of the header, 131-132, 207).
DeadlineReadIsArmed ==
  \A i \in Slots : wpc[i] = "remaining" => deadline # "garbage"

\* All that ~Qryptominer() destroys after its cancel() is no longer in use: no
\* worker lives and no handler runs or will.  Of a client that has called cancel()
\* first no handler runs even while the destructor makes its own: no event
\* outlives cancel(), so no derived object goes under a handleEvent() (65-74, 246).
DestroyedIsQuiet ==
  /\ cpc[Client] \in {"destroyStop", "joinEvent", "destroyed"} =>
       running = 0 /\ count = 0 /\ epc # "handler"
  /\ call[Client].op = "tidyDestroy" => epc # "handler"

\* What a start() has just set going is not stopped by anything but its own
\* deadline before start() returns: neither a thread of earlier work nor the
\* other caller's cancel() sets _stop_request meanwhile (161, 209, 248).
NewWorkIsNotStopped ==
  \A c \in Callers : cpc[c] \in {"lockSpawn", "spawn"} /\ stop =>
    wpc[0] \in {"exit", "done"}

\* Where a thread waits for another: for a lock, in join(), or asleep.
CallerWaits(c) ==
  \/ cpc[c] = "lockEvent" /\ ~MayLockEvent(c)
  \/ cpc[c] \in {"lockRunning", "lockSpawn"} /\ runningMutex # Free
  \/ cpc[c] = "join" /\ ~AllJoined
  \/ cpc[c] = "destroyStop" /\ queueMutex # Free
  \/ cpc[c] = "joinEvent" /\ epc # "exited"

WorkerWaits(i) ==
  \/ wpc[i] = "claim" /\ solutionMutex # NoWorker
  \/ wpc[i] \in {"timeout", "announce"} /\ queueMutex # Free

EventWaits ==
  \/ epc \in {"lock", "requeue"} /\ queueMutex # Free
  \/ epc = "send" /\ eventMutex # Free
  \/ epc = "handler" /\ CallerWaits(Event)
  \/ epc \in {"asleep", "exited"}

\* Threads and callbacks never wait for one another in a circle, over four
\* locks, two of them held over join(): while a caller waits, a worker, the
\* event thread (the user's handler included) or a client in its own call can
\* go on, without the luck of a spurious wakeup.  And the event thread never
\* sleeps while it has something to do (241, 246-252, 269, 286-288).
NobodyWaitsInVain ==
  /\ epc = "asleep" => queue = <<>> /\ ~stopEvent
  /\ \A c \in Callers : CallerWaits(c) =>
       \/ \E i \in Slots : Live(i) /\ ~WorkerWaits(i)
       \/ ~EventWaits
       \/ cpc[Client] \notin {"idle", "polling", "destroyed"} /\ ~CallerWaits(Client)

\* While handleEvent() runs the work it was told of is superseded by its own
\* start() or cancel() only, never by the client's (246, 269).
HandlerNotSuperseded ==
  [][epc = "handler" /\ epc' = "handler" /\ seq' # seq => cpc[Event] = "join"]_vars

\* The author of a handler may think in sessions: one begins with the first
\* thread of a start() and ends with the next cancel(), and of all the steps of
\* workers, queue and locks nothing else is seen (157-166, 240-262, 265-282).
Session == INSTANCE MiningSession WITH
  session <- seq,
  job <- IF running > 0 THEN input ELSE NoJob,
  hearing <- IF epc = "handler" THEN event ELSE NoEvent,
  heard <- handled,
  Solutions <- [j \in Jobs |-> Winning[<<j, j>>]],
  Idle <- NoEvent

\* start(), cancel() and the two kinds of threads implement the sessions: a
\* handler is told of the one in progress only, of a nonce that solves its job,
\* and of nothing it has dealt with, whoever calls what meanwhile.
SessionKept == Session!Spec

-----------------------------------------------------------------------------
(* Liveness, of FairSpec *)

\* cancel() returns: every worker sees _stop_request, and neither the event
\* thread nor the other caller keeps the locks (244-255).
CancelReturns ==
  \A c \in Callers :
    cpc[c] = "lockEvent" ~> cpc[c] \notin {"lockEvent", "lockRunning", "join"}

\* The destructor returns: the event thread never sleeps through the request to
\* stop (68-73, 286-288).
DestructorReturns ==
  Destroying ~> cpc[Client] = "destroyed"

\* A solution reaches the handler, also after rejections, unless the work is
\* superseded (225, 294-301).
SolutionIsNotified ==
  \A s \in 1 .. MaxSeq :
    (\E i \in Slots : wpc[i] = "announce" /\ wseq[i] = s)
      ~> (<<"SOLUTION", s>> \in handled \/ seq # s)

\* A deadline that has passed stops all workers of the work, not only the one
\* that watches the clock, unless the timer is set anew (207-211).
DeadlineStopsWorkers ==
  (running > 0 /\ timer /\ deadline = "past")
    ~> (~timer \/ deadline # "past" \/ \A i \in Slots : ~Live(i))

\* With all its threads the search ends by itself if a nonce passes, be it one
\* that a worker comes to only with its stride: they share the nonces out
\* between them and miss none (186, 219, 229).
SearchEnds ==
  (running > 0 /\ stride[0] = running /\ Winning[<<input, target>>] # {})
    ~> (found \/ stop)

-----------------------------------------------------------------------------
(* What the tests expect *)

\* "This property has been just created in the python custom class when the
\* event is received" (tests/python/test_qryptominer.py:57-59): a true result
\* of waitForAnswer() is taken to mean that handleEvent() has had the solution.
AnswerImpliesHandled ==
  answered /\ running > 0 => <<"SOLUTION", seq>> \in handled
=============================================================================
