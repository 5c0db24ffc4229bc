-------------------------- MODULE QryptominerInv --------------------------
(***************************************************************************)
(* The inductive invariant of Qryptominer: what each lock protects, what a *)
(* caller between two locks may rely on, and which events may still be on  *)
(* their way.                                                              *)
(***************************************************************************)
EXTENDS Qryptominer, FiniteSets

\* Between the cancel() of a start() and its lock of _runningThreads_mutex.
MidStart == {"setWork", "resetStop", "resetFound", "loadSeq", "lockSpawn"}

\* The client is past the cancel() of a start() or of the destructor, or has
\* made one itself and started nothing since.
ClientQuiet ==
  \/ cpc[Client] \in MidStart \union {"destroyStop", "joinEvent", "destroyed"}
  \/ call[Client].op = "tidyDestroy"
  \/ call[Client].op = "cancel"
     /\ cpc[Client] \notin {"lockEvent", "lockRunning", "join"}

\* Each mutex is owned exactly in the places between its lock and unlock.
LockInv ==
  /\ eventMutex = Client <=> cpc[Client] \in {"lockRunning", "join"}
  /\ eventMutex = Event <=> epc = "handler"
  /\ cpc[Event] # "idle" => epc = "handler"
  /\ \A c \in Callers : runningMutex = c <=> cpc[c] \in {"join", "spawn"}
  /\ \A i \in Slots : solutionMutex = i <=> wpc[i] \in {"record", "announce"}

\* A caller beyond its cancel() finds no thread, and nobody else starts any.
CallerInv ==
  /\ \A c \in Callers : cpc[c] \in MidStart \union {"spawn"} => call[c].op = "start"
  /\ \A c \in Callers : cpc[c] \in MidStart => running = 0
  /\ cpc[Client] = "spawn" => cpc[Event] \notin MidStart
  /\ ClientQuiet => running = 0 /\ epc # "handler"

\* An event is of the current work only while that work has its threads.
MayBeCurrent(e) == e.seq <= seq /\ (e.seq = seq => running > 0)

EventInv ==
  /\ \A k \in 1 .. Len(queue) : MayBeCurrent(queue[k])
  /\ epc \in {"precheck", "send", "handler", "requeue"} => MayBeCurrent(event)

\* The threads of the vector are those of the current id and input.
WorkInv ==
  /\ \A i \in Slots : wpc[i] # "none" <=> i < running
  /\ \A i \in Slots : i < running => wseq[i] = seq
  /\ \A i \in Slots :
       wpc[i] \notin {"none", "created", "entered"} => tmpInput[i] = input
  /\ \A c \in Callers : cpc[c] \in {"lockSpawn", "spawn"} => call[c].seq = seq

\* _stop_request of new work is worker 0's doing, at its deadline.
StopInv ==
  /\ \A i \in Slots :
       wpc[i] \in {"timer", "remaining", "timeout", "stopping"} => i = 0
  /\ \A c \in Callers : cpc[c] \in {"resetFound", "loadSeq", "lockSpawn"} => ~stop
  /\ \A c \in Callers : cpc[c] = "spawn" /\ stop => wpc[0] \in {"exit", "done"}

\* A deadline is stored before anybody can find the timer enabled.
ClockInv ==
  /\ timer => deadline # "garbage"
  /\ \A c \in Callers : cpc[c] = "armTimer" => deadline # "garbage"
  /\ \A i \in Slots : wpc[i] = "remaining" => deadline # "garbage"

MinerInv == LockInv /\ CallerInv /\ EventInv /\ WorkInv /\ StopInv /\ ClockInv

\* _runningThreads_count counts the workers between its ++ and its --.
Counted == {i \in Slots : wpc[i] \notin {"none", "created", "done"}}

CountInv == count = Cardinality(Counted)

\* From the claim on a worker holds a passing nonce, and the solution is its own
\* once recorded.
SolutionInv ==
  /\ \A i \in Slots : wpc[i] \in {"claim", "record", "announce"} =>
       nonce[i] \in Winning[<<tmpInput[i], target>>]
  /\ \A i \in Slots : wpc[i] \in {"record", "announce"} => found
  /\ \A i \in Slots : wpc[i] = "announce" =>
       solution = [input |-> tmpInput[i], nonce |-> nonce[i]]
  /\ SolutionSolvesCurrentWork

\* What tells one notification from another.
Key(e) == <<e.type, e.seq>>
InHand == epc \in {"precheck", "send", "handler", "requeue"}

\* The current work has sent an event of this type.
Sent(type) ==
  \/ <<type, seq>> \in handled
  \/ \E k \in 1 .. Len(queue) : Key(queue[k]) = <<type, seq>>
  \/ InHand /\ Key(event) = <<type, seq>>

\* No two events are alike; an event is sent once, a solution once recorded.
SentInv ==
  /\ \A h \in handled : h[2] <= seq /\ (h[2] = seq => running > 0)
  /\ Sent("SOLUTION") => found /\ solutionMutex = NoWorker
  /\ Sent("TIMEOUT") => wpc[0] \in {"stopping", "exit", "done"}
  /\ \A k \in 1 .. Len(queue) :
       Key(queue[k]) = <<"SOLUTION", seq>> => queue[k].nonce = solution.nonce
  /\ InHand /\ Key(event) = <<"SOLUTION", seq>> => event.nonce = solution.nonce

UniqueInv ==
  /\ \A k, l \in 1 .. Len(queue) : Key(queue[k]) = Key(queue[l]) => k = l
  /\ \A k \in 1 .. Len(queue) : Key(queue[k]) \notin handled
  /\ InHand => /\ Key(event) \notin handled
               /\ \A k \in 1 .. Len(queue) : Key(queue[k]) # Key(event)

SolvedInv == CountInv /\ SolutionInv /\ SentInv /\ UniqueInv

\* A start() stores one of the jobs, as input and as target, before it creates
\* a thread; StartReturn forgets the argument that a call was made with.
JobInv ==
  /\ target = input
  /\ \A c \in Callers :
       cpc[c] \in {"lockEvent", "lockRunning", "join", "setWork"} =>
         (call[c].op = "start" => call[c].job \in Jobs)
  /\ \A c \in Callers :
       cpc[c] \in {"resetStop", "resetFound", "loadSeq", "lockSpawn", "spawn"} =>
         input \in Jobs
  /\ running > 0 => input \in Jobs

\* The event thread looks at the queue, and falls asleep, with its mutex only;
\* the destructor asks it to stop before it joins it.
WaitInv ==
  /\ queueMutex = Event <=> epc \in {"test", "block"}
  /\ epc \in {"block", "asleep"} => queue = <<>> /\ ~stopEvent
  /\ cpc[Client] = "joinEvent" => stopEvent
  /\ cpc[Event] # "joinEvent"
=============================================================================
