-------------------------- MODULE QryptonightPool --------------------------
(***************************************************************************)
(* class QryptonightPool (src/src/qryptonight/qryptonightpool.{h,cpp}): a  *)
(* stack of idle Qryptonight instances behind a mutex, and the deleter     *)
(* with which every unique_ptr that acquire() returns gives its instance   *)
(* back.  A holder is a place where an instance may be in use: a mining    *)
(* thread, or a caller of PoWHelper::verifyInput().                        *)
(***************************************************************************)
EXTENDS Integers, Sequences, FiniteSets

CONSTANTS
  Holders,         \* the users of the pool
  Instances,       \* the Qryptonight objects the factory may create
  NoInstance,      \* a null unique_ptr
  FactoryMayThrow, \* may "new Qryptonight()" run out of memory?
  MaxFailures      \* bound: pushes of one release that run out of memory; the
                   \* code has none

ASSUME PoolAssumption ==
  /\ NoInstance \notin Instances
  /\ FactoryMayThrow \in BOOLEAN
  /\ MaxFailures \in Nat

Free == "free"

ASSUME HolderAssumption == Free \notin Holders

VARIABLES
  owner,      \* the shared_ptr of the pool's owner, a static _qnpool
  destroyed,  \* ~QryptonightPool() has run
  mutex,      \* the owner of _mutex
  stack,      \* _poolContainer, its top last
  made,       \* history: what the factory has returned
  deleted,    \* history: what has been deleted
  pc, inst,   \* holders: place, instance in hand
  failures    \* holders: bad_allocs the current release has met

vars == <<owner, destroyed, mutex, stack, made, deleted, pc, inst, failures>>

Init ==
  /\ owner = TRUE /\ destroyed = FALSE
  /\ mutex = Free /\ stack = <<>>
  /\ made = {} /\ deleted = {}
  /\ pc = [h \in Holders |-> "idle"]
  /\ inst = [h \in Holders |-> NoInstance]
  /\ failures = [h \in Holders |-> 0]

Goto(h, p) == pc' = [pc EXCEPT ![h] = p]
Contents(s) == {s[k] : k \in 1 .. Len(s)}
Pooled == Contents(stack)
Top == stack[Len(stack)]

-----------------------------------------------------------------------------
(* acquire() *)

Acquiring == {"lockAcquire", "taking", "popping"}

\* The caller reaches the pool through its owner's shared_ptr.
Acquire(h) ==
  /\ pc[h] = "idle" /\ owner
  /\ Goto(h, "lockAcquire")
  /\ UNCHANGED <<owner, destroyed, mutex, stack, made, deleted, inst, failures>>

\* Mutant of MayLock: acquire() without _mutex.
LockAnyway == TRUE

MayLock == mutex = Free

LockAcquire(h) ==
  /\ pc[h] = "lockAcquire"
  /\ MayLock
  /\ mutex' = h
  /\ Goto(h, "taking")
  /\ UNCHANGED <<owner, destroyed, stack, made, deleted, inst, failures>>

\* Mutant of NoneIdle: the pool is not looked at.
NeverIdle == TRUE

NoneIdle == stack = <<>>

\* The factory runs under the lock.
MakeInstance(h) ==
  /\ pc[h] = "taking"
  /\ NoneIdle
  /\ \E i \in Instances \ made :
       made' = made \union {i} /\ inst' = [inst EXCEPT ![h] = i]
  /\ mutex' = Free
  /\ Goto(h, "using")
  /\ UNCHANGED <<owner, destroyed, stack, deleted, failures>>

\* Mutant of FactoryThrows: the exception leaves the lock behind.
FactoryThrowsLocked(h) ==
  /\ pc[h] = "taking"
  /\ NoneIdle /\ FactoryMayThrow
  /\ Goto(h, "idle")
  /\ UNCHANGED <<owner, destroyed, mutex, stack, made, deleted, inst, failures>>

FactoryThrows(h) ==
  /\ pc[h] = "taking"
  /\ NoneIdle /\ FactoryMayThrow
  /\ mutex' = Free
  /\ Goto(h, "idle")
  /\ UNCHANGED <<owner, destroyed, stack, made, deleted, inst, failures>>

TakeTop(h) ==
  /\ pc[h] = "taking"
  /\ stack # <<>>
  /\ inst' = [inst EXCEPT ![h] = Top]
  /\ Goto(h, "popping")
  /\ UNCHANGED <<owner, destroyed, mutex, stack, made, deleted, failures>>

PopTop(h) ==
  /\ pc[h] = "popping"
  /\ stack' = SubSeq(stack, 1, Len(stack) - 1)
  /\ mutex' = Free
  /\ Goto(h, "using")
  /\ UNCHANGED <<owner, destroyed, made, deleted, inst, failures>>

-----------------------------------------------------------------------------
(* The end of a unique_ptr: ReturnToPoolDeleter::operator() *)

Adding == {"lockAdd", "pushing"}

\* Mutant of Pinning: the deleter goes to the pool without a shared_ptr.
PinningNobody == {}

\* The holders whose deleter has locked its weak_ptr.
Pinning == {h \in Holders : pc[h] \in Adding \union {"unpin"}}

Exists == owner \/ Pinning # {}

\* The last shared_ptr goes: ~QryptonightPool() deletes what is in the pool,
\* whose deleters find no pool any more.
Destroy ==
  /\ destroyed' = TRUE
  /\ deleted' = deleted \union Pooled
  /\ stack' = <<>>

\* Mutant of Release: nothing is deleted when there is no pool.
ReleaseForgets(h) ==
  /\ pc[h] = "using"
  /\ Goto(h, IF Exists THEN "lockAdd" ELSE "idle")
  /\ UNCHANGED <<owner, destroyed, mutex, stack, made, deleted, inst, failures>>

Release(h) ==
  /\ pc[h] = "using"
  /\ Goto(h, IF Exists THEN "lockAdd" ELSE "delete")
  /\ UNCHANGED <<owner, destroyed, mutex, stack, made, deleted, inst, failures>>

LockAdd(h) ==
  /\ pc[h] = "lockAdd"
  /\ mutex = Free
  /\ mutex' = h
  /\ Goto(h, "pushing")
  /\ UNCHANGED <<owner, destroyed, stack, made, deleted, inst, failures>>

\* Mutant of AfterPush: the deleter does not return after add().
DeleteAnyway(h) == "delete"

\* "return", out of the scope of the deleter's shared_ptr.
AfterPush(h) == "unpin"

\* Mutant of Pushed: the pointer has been moved from already.
PushedNull(h) == NoInstance

Pushed(h) == inst[h]

\* The push succeeds; add() returns.
Push(h) ==
  /\ pc[h] = "pushing"
  /\ stack' = Append(stack, Pushed(h))
  /\ mutex' = Free
  /\ Goto(h, AfterPush(h))
  /\ UNCHANGED <<owner, destroyed, made, deleted, inst, failures>>

\* Mutant of UnlockFirst: the parameter of add() dies before its lock.
UnlockLast(h) == mutex' = mutex

UnlockFirst(h) == mutex' = Free

\* The push runs out of memory: add() unlocks, then the end of its parameter,
\* which still owns the instance, calls a deleter, which adds it again.
PushFails(h) ==
  /\ pc[h] = "pushing"
  /\ failures[h] < MaxFailures
  /\ failures' = [failures EXCEPT ![h] = @ + 1]
  /\ UnlockFirst(h)
  /\ Goto(h, "lockAdd")
  /\ UNCHANGED <<owner, destroyed, stack, made, deleted, inst>>

\* Every deleter but the outermost catches the bad_alloc of its own add() and
\* deletes the instance; the outermost still holds the pool.
InnerDelete(h) ==
  /\ pc[h] = "unpin" /\ failures[h] > 1
  /\ deleted' = deleted \union {inst[h]}
  /\ failures' = [failures EXCEPT ![h] = @ - 1]
  /\ UNCHANGED <<owner, destroyed, mutex, stack, made, pc, inst>>

\* The outermost deleter lets go of the pool: it returns, or goes on to delete.
Unpin(h) ==
  /\ pc[h] = "unpin" /\ failures[h] <= 1
  /\ \/ failures[h] = 0 /\ Goto(h, "idle") /\ inst' = [inst EXCEPT ![h] = NoInstance]
     \/ failures[h] = 1 /\ Goto(h, "delete") /\ UNCHANGED inst
  /\ IF owner \/ Pinning # {h} THEN UNCHANGED <<destroyed, deleted, stack>>
                               ELSE Destroy
  /\ UNCHANGED <<owner, mutex, made, failures>>

Delete(h) ==
  /\ pc[h] = "delete"
  /\ deleted' = deleted \union {inst[h]}
  /\ inst' = [inst EXCEPT ![h] = NoInstance]
  /\ failures' = [failures EXCEPT ![h] = 0]
  /\ Goto(h, "idle")
  /\ UNCHANGED <<owner, destroyed, mutex, stack, made>>

\* The owner goes, at the end of the program or of a test: nobody is inside
\* acquire() then, and nobody calls it later.
DropOwner ==
  /\ owner /\ \A h \in Holders : pc[h] \notin Acquiring
  /\ owner' = FALSE
  /\ IF Pinning = {} THEN Destroy ELSE UNCHANGED <<destroyed, deleted, stack>>
  /\ UNCHANGED <<mutex, made, pc, inst, failures>>
-----------------------------------------------------------------------------

AcquireStep(h) ==
  LockAcquire(h) \/ MakeInstance(h) \/ FactoryThrows(h) \/ TakeTop(h) \/ PopTop(h)

ReleaseStep(h) ==
  LockAdd(h) \/ Push(h) \/ PushFails(h) \/ InnerDelete(h) \/ Unpin(h) \/ Delete(h)

\* Nobody uses the pool and nobody can any more.
Terminated == destroyed /\ (\A h \in Holders : pc[h] = "idle") /\ UNCHANGED vars

Next ==
  \/ \E h \in Holders : Acquire(h) \/ AcquireStep(h) \/ Release(h) \/ ReleaseStep(h)
  \/ DropOwner
  \/ Terminated

Spec == Init /\ [][Next]_vars

\* Every holder runs, and a mutex that is free again and again is taken in the
\* end.  Nobody has to call acquire(), nor to end its use.
Fairness ==
  \A h \in Holders :
    /\ WF_vars(AcquireStep(h)) /\ WF_vars(ReleaseStep(h))
    /\ SF_vars(LockAcquire(h)) /\ SF_vars(LockAdd(h))

FairSpec == Spec /\ Fairness

-----------------------------------------------------------------------------

Using == {"using", "lockAdd", "pushing", "delete"}
Held == {inst[h] : h \in {g \in Holders : pc[g] \in Using}}

NoDuplicate(s) == \A k, l \in 1 .. Len(s) : s[k] = s[l] => k = l

TypeOK ==
  /\ owner \in BOOLEAN /\ destroyed \in BOOLEAN
  /\ mutex \in Holders \union {Free}
  /\ stack \in Seq(Instances)
  /\ made \in SUBSET Instances /\ deleted \in SUBSET Instances
  /\ pc \in [Holders -> Acquiring \union Using \union {"idle", "unpin"}]
  /\ inst \in [Holders -> Instances \union {NoInstance}]
  /\ failures \in [Holders -> Nat]

-----------------------------------------------------------------------------

\* An instance, a scratchpad of mutable memory, is used by one thread at a time
\* and by none while it waits in the pool (acquire() 69-82, add() 87-88).
OneUser ==
  /\ \A g, h \in Holders :
       pc[g] \in Using /\ pc[h] \in Using /\ inst[g] = inst[h] => g = h
  /\ Pooled \intersect Held = {}

\* What has been deleted is neither in the pool nor in use: the deleter deletes
\* an instance only if "the pool is gone or [it] cannot be added back" (41-42).
DeletedIsUnreachable == (Pooled \union Held) \intersect deleted = {}

\* Every instance is in the pool, in use or deleted, and none is in the pool
\* once that is destroyed: nothing leaks, whoever goes first (29-43, 57-65).
NoneLost ==
  /\ made = Pooled \union Held \union deleted
  /\ destroyed => Pooled = {}

\* The pool is not destroyed under a holder that is inside acquire() or add()
\* (31, 74): the deleter's shared_ptr keeps it.
PoolOutlivesCalls ==
  destroyed => \A h \in Holders : pc[h] \notin Acquiring \union Adding

\* The pool never has more instances, each of them memory-intensive, than there
\* were uses at once (70-80; "create a new one if there are none available").
InstancesBounded == Cardinality(made) <= Cardinality(Holders)

\* acquire() returns or throws: nobody keeps the mutex (67-83).
AcquireReturns == \A h \in Holders : pc[h] = "lockAcquire" ~> pc[h] \in {"using", "idle"}

\* The end of a unique_ptr returns if only finitely many of its pushes fail: the
\* deleter that a failing add() calls on the same thread does not wait for a lock
\* of that thread (36-39, 85-89).  While pushes go on failing each calls the
\* deleter again, one add() deeper: nothing in the code ends that.
ReleaseReturns == \A h \in Holders : pc[h] = "lockAdd" ~> pc[h] = "idle"

Lease == [h \in Holders |-> IF pc[h] \in Using THEN inst[h] ELSE NoInstance]

Promise ==
  INSTANCE ObjectPool WITH
    Clients <- Holders, Objects <- Instances, NoObject <- NoInstance,
    lease <- Lease, idle <- Pooled, gone <- deleted, open <- ~destroyed

\* The pool implements its promise: every lease, return, deletion and the end of
\* the pool is one step of it, whatever locks and deleters it takes.
PromiseKept == Promise!Spec
=============================================================================
