----------------------- MODULE QryptonightPoolProofs -----------------------
(***************************************************************************)
(* Proofs about QryptonightPool, for any holders and instances.  What      *)
(* depends on the pushes of released instances succeeding is proved for    *)
(* MaxFailures = 0; a push that fails breaks it.                           *)
(***************************************************************************)
EXTENDS QryptonightPool, FiniteSetTheorems, SequenceTheorems, TLAPS

-----------------------------------------------------------------------------
(* The stack *)

\* push() adds one object to the stack.
LEMMA AppendContents ==
  ASSUME NEW S, NEW s \in Seq(S), NEW e \in S
  PROVE  /\ Append(s, e) \in Seq(S)
         /\ Contents(Append(s, e)) = Contents(s) \union {e}
         /\ NoDuplicate(s) /\ e \notin Contents(s) => NoDuplicate(Append(s, e))
<1>1. /\ Append(s, e) \in Seq(S)
      /\ Len(Append(s, e)) = Len(s) + 1
      /\ \A k \in 1 .. Len(s) : Append(s, e)[k] = s[k]
      /\ Append(s, e)[Len(s) + 1] = e
      /\ Len(s) \in Nat
  OBVIOUS
<1>2. Contents(Append(s, e)) = Contents(s) \union {e}
  <2>1. \A k \in 1 .. Len(s) + 1 : k \in 1 .. Len(s) \/ k = Len(s) + 1
    BY <1>1
  <2>2. \A k \in 1 .. Len(s) : k \in 1 .. Len(s) + 1
    BY <1>1
  <2>3. Len(s) + 1 \in 1 .. Len(s) + 1
    BY <1>1
  <2> QED
    BY <1>1, <2>1, <2>2, <2>3 DEF Contents
<1>3. ASSUME NoDuplicate(s), e \notin Contents(s)
      PROVE  NoDuplicate(Append(s, e))
  <2>1. \A k \in 1 .. Len(s) + 1 : k \in 1 .. Len(s) \/ k = Len(s) + 1
    BY <1>1
  <2>2. \A k \in 1 .. Len(s) : Append(s, e)[k] # e
    BY <1>1, <1>3 DEF Contents
  <2> QED
    BY <1>1, <1>3, <2>1, <2>2 DEF NoDuplicate
<1> QED
  BY <1>1, <1>2, <1>3

\* pop() takes the last object off the stack and leaves the others.
LEMMA PopContents ==
  ASSUME NEW S, NEW s \in Seq(S), s # <<>>
  PROVE  /\ SubSeq(s, 1, Len(s) - 1) \in Seq(S)
         /\ s[Len(s)] \in Contents(s)
         /\ NoDuplicate(s) =>
              /\ Contents(SubSeq(s, 1, Len(s) - 1)) = Contents(s) \ {s[Len(s)]}
              /\ NoDuplicate(SubSeq(s, 1, Len(s) - 1))
<1> DEFINE t == SubSeq(s, 1, Len(s) - 1)
<1>1. /\ Len(s) \in Nat \ {0}
      /\ t \in Seq(S)
      /\ Len(t) = Len(s) - 1
      /\ \A k \in 1 .. Len(s) - 1 : t[k] = s[k]
  <2> DEFINE n == Len(s) - 1
  <2>1. n \in Nat /\ Len(s) = n + 1 /\ \A k \in 1 .. n : s[k] \in S
    OBVIOUS
  <2> HIDE DEF n
  <2>2. /\ SubSeq(s, 1, n) \in Seq(S)
        /\ Len(SubSeq(s, 1, n)) = n
        /\ \A k \in 1 .. n : SubSeq(s, 1, n)[k] = s[k]
    BY <2>1, SubSeqProperties
  <2> QED
    BY <2>1, <2>2 DEF n
<1>2. s[Len(s)] \in Contents(s)
  BY <1>1 DEF Contents
<1>3. ASSUME NoDuplicate(s)
      PROVE  Contents(t) = Contents(s) \ {s[Len(s)]} /\ NoDuplicate(t)
  <2>1. \A k \in 1 .. Len(s) : k \in 1 .. Len(s) - 1 <=> k # Len(s)
    BY <1>1
  <2>2. \A k \in 1 .. Len(s) - 1 : k \in 1 .. Len(s) /\ s[k] # s[Len(s)]
    BY <1>1, <1>3 DEF NoDuplicate
  <2>3. Contents(t) = {s[k] : k \in 1 .. Len(s) - 1}
    BY <1>1 DEF Contents
  <2>4. Contents(t) = Contents(s) \ {s[Len(s)]}
    BY <2>1, <2>2, <2>3 DEF Contents
  <2>5. NoDuplicate(t)
    BY <1>1, <1>3, <2>2 DEF NoDuplicate
  <2> QED
    BY <2>4, <2>5
<1> QED
  BY <1>1, <1>2, <1>3

-----------------------------------------------------------------------------
(* Types and the lock *)

\* _mutex is owned exactly between its lock and unlock; the instance that is
\* being popped is still at the top.
LockInv ==
  /\ \A h \in Holders : mutex = h <=> pc[h] \in {"taking", "popping", "pushing"}
  /\ \A h \in Holders : pc[h] = "popping" => stack # <<>> /\ inst[h] = Top
  /\ \A h \in Holders :
       pc[h] \in Using \union {"popping", "unpin"} => inst[h] \in Instances

\* The pool exists as long as a shared_ptr of it does, and whoever is inside
\* acquire() or a deleter has one.
LifeInv ==
  /\ destroyed <=> ~Exists
  /\ \A h \in Holders : pc[h] \in Acquiring => owner

\* The pool starts empty, with its lock free.
LEMMA InitType == Init => TypeOK /\ LockInv /\ LifeInv
<1> SUFFICES ASSUME Init PROVE TypeOK /\ LockInv /\ LifeInv
  OBVIOUS
<1> USE DEF Init, Acquiring, Using
<1>1. TypeOK
  <2>1. stack \in Seq(Instances)
    BY EmptySeq
  <2> QED
    BY <2>1 DEF TypeOK
<1>2. LockInv
  BY HolderAssumption DEF LockInv
<1>3. LifeInv
  BY DEF LifeInv, Exists
<1> QED
  BY <1>1, <1>2, <1>3

-----------------------------------------------------------------------------
(* Every step keeps types, lock and lifetime *)

\* The type invariant is kept.
LEMMA TypeStep ==
  ASSUME TypeOK, LockInv, [Next]_vars
  PROVE  TypeOK'
<1>1. ASSUME NEW h \in Holders, Acquire(h)
      PROVE  TypeOK'
  BY <1>1
     DEF Acquire, Goto, TypeOK, Acquiring, Using
<1>2. ASSUME NEW h \in Holders, LockAcquire(h)
      PROVE  TypeOK'
  BY <1>2
     DEF LockAcquire, Goto, MayLock, TypeOK, Acquiring, Using
<1>3. ASSUME NEW h \in Holders, MakeInstance(h)
      PROVE  TypeOK'
  BY <1>3
     DEF MakeInstance, Goto, NoneIdle, TypeOK, Acquiring, Using
<1>4. ASSUME NEW h \in Holders, FactoryThrows(h)
      PROVE  TypeOK'
  BY <1>4
     DEF FactoryThrows, Goto, NoneIdle, TypeOK, Acquiring, Using
<1>5. ASSUME NEW h \in Holders, TakeTop(h)
      PROVE  TypeOK'
  BY <1>5
     DEF TakeTop, Goto, Top, TypeOK, Acquiring, Using
<1>6. ASSUME NEW h \in Holders, PopTop(h)
      PROVE  TypeOK'
  <2>1. stack' \in Seq(Instances)
    BY <1>6, PopContents DEF PopTop, TypeOK, LockInv
  <2> QED
    BY <1>6, <2>1, HolderAssumption DEF PopTop, Goto, TypeOK, Acquiring, Using
<1>7. ASSUME NEW h \in Holders, Release(h)
      PROVE  TypeOK'
  BY <1>7
     DEF Release, Goto, TypeOK, Acquiring, Using
<1>8. ASSUME NEW h \in Holders, LockAdd(h)
      PROVE  TypeOK'
  BY <1>8
     DEF LockAdd, Goto, TypeOK, Acquiring, Using
<1>9. ASSUME NEW h \in Holders, Push(h)
      PROVE  TypeOK'
  <2>1. stack' \in Seq(Instances)
    BY <1>9, AppendContents DEF Push, Pushed, TypeOK, LockInv, Using
  <2> QED
    BY <1>9, <2>1, HolderAssumption
       DEF Push, Pushed, AfterPush, Goto, TypeOK, Acquiring, Using
<1>10. ASSUME NEW h \in Holders, PushFails(h)
      PROVE  TypeOK'
  BY <1>10
     DEF PushFails, Goto, UnlockFirst, TypeOK, Acquiring, Using
<1>11. ASSUME NEW h \in Holders, InnerDelete(h)
      PROVE  TypeOK'
  BY <1>11
     DEF InnerDelete, Goto, TypeOK, Acquiring, Using, LockInv
<1>12. ASSUME NEW h \in Holders, Unpin(h)
      PROVE  TypeOK'
  <2>1. Destroy => stack' \in Seq(Instances) /\ deleted' \in SUBSET Instances
    BY EmptySeq DEF Destroy, TypeOK, Pooled, Contents
  <2>2. /\ stack' \in Seq(Instances) /\ deleted' \in SUBSET Instances
        /\ destroyed' \in BOOLEAN
    BY <1>12, <2>1 DEF Unpin, Destroy, TypeOK
  <2> QED
    BY <1>12, <2>2 DEF Unpin, Goto, TypeOK, Acquiring, Using
<1>13. ASSUME NEW h \in Holders, Delete(h)
      PROVE  TypeOK'
  BY <1>13
     DEF Delete, Goto, TypeOK, Acquiring, Using, LockInv
<1>14. ASSUME DropOwner
      PROVE  TypeOK'
  <2>1. Destroy => stack' \in Seq(Instances) /\ deleted' \in SUBSET Instances
    BY EmptySeq DEF Destroy, TypeOK, Pooled, Contents
  <2> QED
    BY <1>14, <2>1 DEF DropOwner, Destroy, TypeOK
<1>15. ASSUME UNCHANGED vars
      PROVE  TypeOK'
  BY <1>15
     DEF vars, TypeOK, Acquiring, Using
<1> QED
  BY <1>1, <1>2, <1>3, <1>4, <1>5, <1>6, <1>7, <1>8, <1>9, <1>10, <1>11,
     <1>12, <1>13, <1>14, <1>15
     DEF Next, AcquireStep, ReleaseStep, Terminated

\* Each lock is released in the end of its critical section.
LEMMA LockStep ==
  ASSUME TypeOK, LockInv, LifeInv, [Next]_vars
  PROVE  LockInv'
<1>1. ASSUME NEW h \in Holders, Acquire(h)
      PROVE  LockInv'
  BY <1>1, HolderAssumption
     DEF Acquire, Goto, TypeOK, LockInv, Top, Using
<1>2. ASSUME NEW h \in Holders, LockAcquire(h)
      PROVE  LockInv'
  BY <1>2, HolderAssumption
     DEF LockAcquire, Goto, MayLock, TypeOK, LockInv, Top, Using
<1>3. ASSUME NEW h \in Holders, MakeInstance(h)
      PROVE  LockInv'
  BY <1>3, HolderAssumption
     DEF MakeInstance, Goto, NoneIdle, TypeOK, LockInv, Top, Using
<1>4. ASSUME NEW h \in Holders, FactoryThrows(h)
      PROVE  LockInv'
  BY <1>4, HolderAssumption
     DEF FactoryThrows, Goto, NoneIdle, TypeOK, LockInv, Top, Using
<1>5. ASSUME NEW h \in Holders, TakeTop(h)
      PROVE  LockInv'
  BY <1>5, HolderAssumption
     DEF TakeTop, Goto, Top, TypeOK, LockInv, Top, Using
<1>6. ASSUME NEW h \in Holders, PopTop(h)
      PROVE  LockInv'
  BY <1>6, HolderAssumption
     DEF PopTop, Goto, TypeOK, LockInv, Top, Using
<1>7. ASSUME NEW h \in Holders, Release(h)
      PROVE  LockInv'
  BY <1>7, HolderAssumption
     DEF Release, Goto, TypeOK, LockInv, Top, Using
<1>8. ASSUME NEW h \in Holders, LockAdd(h)
      PROVE  LockInv'
  BY <1>8, HolderAssumption
     DEF LockAdd, Goto, TypeOK, LockInv, Top, Using
<1>9. ASSUME NEW h \in Holders, Push(h)
      PROVE  LockInv'
  BY <1>9, HolderAssumption
     DEF Push, Goto, AfterPush, Pushed, TypeOK, LockInv, Top, Using
<1>10. ASSUME NEW h \in Holders, PushFails(h)
      PROVE  LockInv'
  BY <1>10, HolderAssumption
     DEF PushFails, Goto, UnlockFirst, TypeOK, LockInv, Top, Using
<1>11. ASSUME NEW h \in Holders, InnerDelete(h)
      PROVE  LockInv'
  BY <1>11, HolderAssumption
     DEF InnerDelete, Goto, TypeOK, LockInv, Top, Using
<1>12. ASSUME NEW h \in Holders, Unpin(h)
      PROVE  LockInv'
  BY <1>12, HolderAssumption
     DEF Unpin, Goto, Destroy, TypeOK, LockInv, Top, Using, LifeInv, Acquiring
<1>13. ASSUME NEW h \in Holders, Delete(h)
      PROVE  LockInv'
  BY <1>13, HolderAssumption
     DEF Delete, Goto, TypeOK, LockInv, Top, Using
<1>14. ASSUME DropOwner
      PROVE  LockInv'
  BY <1>14, HolderAssumption
     DEF DropOwner, Destroy, TypeOK, LockInv, Top, Using, Acquiring
<1>15. ASSUME UNCHANGED vars
      PROVE  LockInv'
  BY <1>15, HolderAssumption
     DEF vars, TypeOK, LockInv, Top, Using
<1> QED
  BY <1>1, <1>2, <1>3, <1>4, <1>5, <1>6, <1>7, <1>8, <1>9, <1>10, <1>11,
     <1>12, <1>13, <1>14, <1>15
     DEF Next, AcquireStep, ReleaseStep, Terminated

\* The pool lives exactly as long as its last shared_ptr.
LEMMA LifeStep ==
  ASSUME TypeOK, LifeInv, [Next]_vars
  PROVE  LifeInv'
<1>1. ASSUME NEW h \in Holders, Acquire(h)
      PROVE  LifeInv'
  BY <1>1
     DEF Acquire, Goto, TypeOK, LifeInv, Exists, Pinning, Adding, Acquiring
<1>2. ASSUME NEW h \in Holders, LockAcquire(h)
      PROVE  LifeInv'
  BY <1>2
     DEF LockAcquire, Goto, MayLock, TypeOK, LifeInv, Exists, Pinning, Adding,
         Acquiring
<1>3. ASSUME NEW h \in Holders, MakeInstance(h)
      PROVE  LifeInv'
  BY <1>3
     DEF MakeInstance, Goto, NoneIdle, TypeOK, LifeInv, Exists, Pinning,
         Adding, Acquiring
<1>4. ASSUME NEW h \in Holders, FactoryThrows(h)
      PROVE  LifeInv'
  BY <1>4
     DEF FactoryThrows, Goto, NoneIdle, TypeOK, LifeInv, Exists, Pinning,
         Adding, Acquiring
<1>5. ASSUME NEW h \in Holders, TakeTop(h)
      PROVE  LifeInv'
  BY <1>5
     DEF TakeTop, Goto, Top, TypeOK, LifeInv, Exists, Pinning, Adding,
         Acquiring
<1>6. ASSUME NEW h \in Holders, PopTop(h)
      PROVE  LifeInv'
  BY <1>6
     DEF PopTop, Goto, TypeOK, LifeInv, Exists, Pinning, Adding, Acquiring
<1>7. ASSUME NEW h \in Holders, Release(h)
      PROVE  LifeInv'
  BY <1>7
     DEF Release, Goto, TypeOK, LifeInv, Exists, Pinning, Adding, Acquiring
<1>8. ASSUME NEW h \in Holders, LockAdd(h)
      PROVE  LifeInv'
  BY <1>8
     DEF LockAdd, Goto, TypeOK, LifeInv, Exists, Pinning, Adding, Acquiring
<1>9. ASSUME NEW h \in Holders, Push(h)
      PROVE  LifeInv'
  BY <1>9
     DEF Push, Goto, AfterPush, Pushed, TypeOK, LifeInv, Exists, Pinning,
         Adding, Acquiring
<1>10. ASSUME NEW h \in Holders, PushFails(h)
      PROVE  LifeInv'
  BY <1>10
     DEF PushFails, Goto, UnlockFirst, TypeOK, LifeInv, Exists, Pinning,
         Adding, Acquiring
<1>11. ASSUME NEW h \in Holders, InnerDelete(h)
      PROVE  LifeInv'
  BY <1>11
     DEF InnerDelete, Goto, TypeOK, LifeInv, Exists, Pinning, Adding,
         Acquiring
<1>12. ASSUME NEW h \in Holders, Unpin(h)
      PROVE  LifeInv'
  BY <1>12
     DEF Unpin, Goto, Destroy, TypeOK, LifeInv, Exists, Pinning, Adding,
         Acquiring
<1>13. ASSUME NEW h \in Holders, Delete(h)
      PROVE  LifeInv'
  BY <1>13
     DEF Delete, Goto, TypeOK, LifeInv, Exists, Pinning, Adding, Acquiring
<1>14. ASSUME DropOwner
      PROVE  LifeInv'
  BY <1>14
     DEF DropOwner, Destroy, TypeOK, LifeInv, Exists, Pinning, Adding,
         Acquiring
<1>15. ASSUME UNCHANGED vars
      PROVE  LifeInv'
  BY <1>15
     DEF vars, TypeOK, LifeInv, Exists, Pinning, Adding, Acquiring
<1> QED
  BY <1>1, <1>2, <1>3, <1>4, <1>5, <1>6, <1>7, <1>8, <1>9, <1>10, <1>11,
     <1>12, <1>13, <1>14, <1>15
     DEF Next, AcquireStep, ReleaseStep, Terminated

-----------------------------------------------------------------------------
(* The fate of an instance, if no push of a released instance fails *)

\* Only a user whose pool is gone deletes an instance.
DeleteInv ==
  /\ \A h \in Holders : failures[h] = 0
  /\ \A h \in Holders : pc[h] = "delete" => destroyed
  /\ deleted # {} => destroyed

FateInv == NoDuplicate(stack) /\ OneUser /\ DeletedIsUnreachable /\ NoneLost

\* No instance moves: the places that count as a use stay as they are.
LEMMA FateStays ==
  ASSUME FateInv, UNCHANGED <<stack, made, deleted>>, destroyed' => destroyed,
         \A h \in Holders : /\ pc'[h] \in Using <=> pc[h] \in Using
                            /\ pc[h] \in Using => inst'[h] = inst[h]
  PROVE  FateInv'
<1>1. Pooled' = Pooled /\ NoDuplicate(stack)'
  BY DEF Pooled, Contents, FateInv, NoDuplicate
<1>2. Held' = Held
  BY DEF Held
<1>3. OneUser'
  BY <1>1, <1>2 DEF FateInv, OneUser
<1> QED
  BY <1>1, <1>2, <1>3 DEF FateInv, DeletedIsUnreachable, NoneLost

\* A holder begins to use an instance that nobody used.
LEMMA FateTaken ==
  ASSUME TypeOK, FateInv, NEW h \in Holders, NEW i \in Instances,
         pc[h] \notin Using, i \notin Held,
         pc' = [pc EXCEPT ![h] = "using"], inst'[h] = i,
         \A g \in Holders \ {h} : inst'[g] = inst[g]
  PROVE  /\ Held' = Held \union {i}
         /\ \A f, g \in Holders :
              pc'[f] \in Using /\ pc'[g] \in Using /\ inst'[f] = inst'[g] => f = g
<1>1. pc'[h] \in Using /\ \A g \in Holders \ {h} : pc'[g] = pc[g]
  BY DEF TypeOK, Using
<1>2. Held' = Held \union {i}
  BY <1>1 DEF Held
<1>3. \A g \in Holders \ {h} : pc'[g] \in Using => inst'[g] # i
  BY <1>1 DEF Held
<1> QED
  BY <1>1, <1>2, <1>3 DEF FateInv, OneUser

\* A holder's use of its instance ends.
LEMMA FateGiven ==
  ASSUME TypeOK, FateInv, NEW h \in Holders, pc[h] \in Using, pc'[h] \notin Using,
         \A g \in Holders \ {h} : pc'[g] = pc[g] /\ inst'[g] = inst[g]
  PROVE  /\ Held' = Held \ {inst[h]}
         /\ \A f, g \in Holders :
              pc'[f] \in Using /\ pc'[g] \in Using /\ inst'[f] = inst'[g] => f = g
<1>1. \A g \in Holders \ {h} : pc[g] \in Using => inst[g] # inst[h]
  BY DEF FateInv, OneUser
<1>2. Held' = Held \ {inst[h]}
  BY <1>1 DEF Held
<1> QED
  BY <1>2 DEF FateInv, OneUser

\* What the pool deletes when it goes was in the pool.
LEMMA FateDestroyed ==
  ASSUME TypeOK, FateInv, Destroy, UNCHANGED made,
         \A h \in Holders : /\ pc'[h] \in Using <=> pc[h] \in Using
                            /\ pc[h] \in Using => inst'[h] = inst[h]
  PROVE  FateInv'
<1>1. Pooled' = {} /\ NoDuplicate(stack)'
  BY DEF Destroy, Pooled, Contents, NoDuplicate
<1>2. Held' = Held
  BY DEF Held
<1>3. OneUser'
  BY <1>1, <1>2 DEF FateInv, OneUser
<1>4. deleted' = deleted \union Pooled
  BY DEF Destroy
<1> QED
  BY <1>1, <1>2, <1>3, <1>4 DEF FateInv, OneUser, DeletedIsUnreachable, NoneLost

\* Who deletes what: a step of a release whose push succeeds deletes nothing.
LEMMA DeleteStep ==
  ASSUME MaxFailures = 0, TypeOK, LifeInv, DeleteInv, [Next]_vars
  PROVE  DeleteInv'
<1>1. ASSUME NEW h \in Holders, Acquire(h)
      PROVE  DeleteInv'
  BY <1>1
     DEF Acquire, Goto, TypeOK, DeleteInv
<1>2. ASSUME NEW h \in Holders, LockAcquire(h)
      PROVE  DeleteInv'
  BY <1>2
     DEF LockAcquire, Goto, MayLock, TypeOK, DeleteInv
<1>3. ASSUME NEW h \in Holders, MakeInstance(h)
      PROVE  DeleteInv'
  BY <1>3
     DEF MakeInstance, Goto, NoneIdle, TypeOK, DeleteInv
<1>4. ASSUME NEW h \in Holders, FactoryThrows(h)
      PROVE  DeleteInv'
  BY <1>4
     DEF FactoryThrows, Goto, NoneIdle, TypeOK, DeleteInv
<1>5. ASSUME NEW h \in Holders, TakeTop(h)
      PROVE  DeleteInv'
  BY <1>5
     DEF TakeTop, Goto, Top, TypeOK, DeleteInv
<1>6. ASSUME NEW h \in Holders, PopTop(h)
      PROVE  DeleteInv'
  BY <1>6
     DEF PopTop, Goto, TypeOK, DeleteInv
<1>7. ASSUME NEW h \in Holders, Release(h)
      PROVE  DeleteInv'
  BY <1>7
     DEF Release, Goto, TypeOK, DeleteInv, LifeInv
<1>8. ASSUME NEW h \in Holders, LockAdd(h)
      PROVE  DeleteInv'
  BY <1>8
     DEF LockAdd, Goto, TypeOK, DeleteInv
<1>9. ASSUME NEW h \in Holders, Push(h)
      PROVE  DeleteInv'
  BY <1>9
     DEF Push, Goto, AfterPush, Pushed, TypeOK, DeleteInv
<1>10. ASSUME NEW h \in Holders, PushFails(h)
      PROVE  DeleteInv'
  BY <1>10
     DEF PushFails, Goto, UnlockFirst, TypeOK, DeleteInv
<1>11. ASSUME NEW h \in Holders, InnerDelete(h)
      PROVE  DeleteInv'
  BY <1>11
     DEF InnerDelete, Goto, TypeOK, DeleteInv
<1>12. ASSUME NEW h \in Holders, Unpin(h)
      PROVE  DeleteInv'
  BY <1>12
     DEF Unpin, Goto, Destroy, TypeOK, DeleteInv, LifeInv
<1>13. ASSUME NEW h \in Holders, Delete(h)
      PROVE  DeleteInv'
  BY <1>13
     DEF Delete, Goto, TypeOK, DeleteInv
<1>14. ASSUME DropOwner
      PROVE  DeleteInv'
  BY <1>14
     DEF DropOwner, Destroy, TypeOK, DeleteInv, LifeInv
<1>15. ASSUME UNCHANGED vars
      PROVE  DeleteInv'
  BY <1>15
     DEF vars, TypeOK, DeleteInv
<1> QED
  BY <1>1, <1>2, <1>3, <1>4, <1>5, <1>6, <1>7, <1>8, <1>9, <1>10, <1>11,
     <1>12, <1>13, <1>14, <1>15
     DEF Next, AcquireStep, ReleaseStep, Terminated

\* Every step moves one instance from one fate to the next, or none.
LEMMA FateStep ==
  ASSUME MaxFailures = 0, TypeOK, LockInv, LifeInv, DeleteInv, FateInv,
         [Next]_vars
  PROVE  FateInv'
<1>1. ASSUME NEW h \in Holders, Acquire(h)
      PROVE  FateInv'
  BY <1>1, FateStays
     DEF Acquire, Goto, TypeOK, Using
<1>2. ASSUME NEW h \in Holders, LockAcquire(h)
      PROVE  FateInv'
  BY <1>2, FateStays
     DEF LockAcquire, Goto, MayLock, TypeOK, Using
<1>3. ASSUME NEW h \in Holders, MakeInstance(h)
      PROVE  FateInv'
  <2> PICK i \in Instances \ made : /\ made' = made \union {i}
                                   /\ inst' = [inst EXCEPT ![h] = i]
    BY <1>3 DEF MakeInstance
  <2>1. i \notin Pooled /\ i \notin Held /\ i \notin deleted
    BY DEF FateInv, NoneLost
  <2>2. /\ Held' = Held \union {i}
        /\ \A f, g \in Holders :
             pc'[f] \in Using /\ pc'[g] \in Using /\ inst'[f] = inst'[g] => f = g
    BY <1>3, <2>1, FateTaken DEF MakeInstance, Goto, TypeOK, Using
  <2>3. Pooled' = Pooled /\ NoDuplicate(stack)' /\ UNCHANGED <<deleted, destroyed>>
    BY <1>3 DEF MakeInstance, Pooled, Contents, FateInv, NoDuplicate
  <2> QED
    BY <2>1, <2>2, <2>3 DEF FateInv, OneUser, DeletedIsUnreachable, NoneLost
<1>4. ASSUME NEW h \in Holders, FactoryThrows(h)
      PROVE  FateInv'
  BY <1>4, FateStays
     DEF FactoryThrows, Goto, NoneIdle, TypeOK, Using
<1>5. ASSUME NEW h \in Holders, TakeTop(h)
      PROVE  FateInv'
  BY <1>5, FateStays
     DEF TakeTop, Goto, Top, TypeOK, Using
<1>6. ASSUME NEW h \in Holders, PopTop(h)
      PROVE  FateInv'
  <2>1. inst[h] = Top /\ inst[h] \in Instances /\ stack # <<>>
    BY <1>6 DEF PopTop, LockInv
  <2>2. /\ inst[h] \in Pooled
        /\ Pooled' = Pooled \ {inst[h]}
        /\ NoDuplicate(stack)'
    <3>1. stack \in Seq(Instances) /\ NoDuplicate(stack)
      BY DEF TypeOK, FateInv
    <3> QED
      BY <1>6, <2>1, <3>1, PopContents DEF PopTop, Pooled, Top, Contents, NoDuplicate
  <2>3. /\ Held' = Held \union {inst[h]}
        /\ \A f, g \in Holders :
             pc'[f] \in Using /\ pc'[g] \in Using /\ inst'[f] = inst'[g] => f = g
    <3>1. inst[h] \notin Held
      BY <2>2 DEF FateInv, OneUser
    <3> QED
      BY <1>6, <2>1, <3>1, FateTaken DEF PopTop, Goto, Using
  <2>4. UNCHANGED <<made, deleted, destroyed>>
    BY <1>6 DEF PopTop
  <2> QED
    BY <2>2, <2>3, <2>4 DEF FateInv, OneUser, DeletedIsUnreachable, NoneLost
<1>7. ASSUME NEW h \in Holders, Release(h)
      PROVE  FateInv'
  BY <1>7, FateStays
     DEF Release, Goto, TypeOK, Using
<1>8. ASSUME NEW h \in Holders, LockAdd(h)
      PROVE  FateInv'
  BY <1>8, FateStays
     DEF LockAdd, Goto, TypeOK, Using
<1>9. ASSUME NEW h \in Holders, Push(h)
      PROVE  FateInv'
  <2>1. inst[h] \in Instances /\ inst[h] \in Held
    BY <1>9 DEF Push, LockInv, Using, Held
  <2>2. Pooled' = Pooled \union {inst[h]} /\ NoDuplicate(stack)'
    <3>1. stack \in Seq(Instances) /\ NoDuplicate(stack) /\ inst[h] \notin Pooled
      BY <2>1 DEF TypeOK, FateInv, OneUser
    <3> QED
      BY <1>9, <2>1, <3>1, AppendContents DEF Push, Pushed, Pooled, Contents, NoDuplicate
  <2>3. /\ Held' = Held \ {inst[h]}
        /\ \A f, g \in Holders :
             pc'[f] \in Using /\ pc'[g] \in Using /\ inst'[f] = inst'[g] => f = g
    BY <1>9, FateGiven DEF Push, Pushed, AfterPush, Goto, TypeOK, Using
  <2>4. UNCHANGED <<made, deleted, destroyed>> /\ ~destroyed
    BY <1>9 DEF Push, LifeInv, Exists, Pinning, Adding
  <2> QED
    BY <2>1, <2>2, <2>3, <2>4 DEF FateInv, OneUser, DeletedIsUnreachable, NoneLost
<1>10. ASSUME NEW h \in Holders, PushFails(h)
      PROVE  FateInv'
  BY <1>10 DEF PushFails, DeleteInv
<1>11. ASSUME NEW h \in Holders, InnerDelete(h)
      PROVE  FateInv'
  BY <1>11 DEF InnerDelete, DeleteInv
<1>12. ASSUME NEW h \in Holders, Unpin(h)
      PROVE  FateInv'
  <2>1. \A g \in Holders : /\ pc'[g] \in Using <=> pc[g] \in Using
                           /\ pc[g] \in Using => inst'[g] = inst[g]
    BY <1>12 DEF Unpin, Goto, TypeOK, Using, DeleteInv
  <2>2. CASE Destroy
    BY <1>12, <2>1, <2>2, FateDestroyed DEF Unpin
  <2>3. CASE UNCHANGED <<destroyed, deleted, stack>>
    BY <1>12, <2>1, <2>3, FateStays DEF Unpin
  <2> QED
    BY <1>12, <2>2, <2>3 DEF Unpin
<1>13. ASSUME NEW h \in Holders, Delete(h)
      PROVE  FateInv'
  <2>1. inst[h] \in Held /\ destroyed
    BY <1>13 DEF Delete, Using, Held, DeleteInv
  <2>2. /\ Held' = Held \ {inst[h]}
        /\ \A f, g \in Holders :
             pc'[f] \in Using /\ pc'[g] \in Using /\ inst'[f] = inst'[g] => f = g
    BY <1>13, FateGiven DEF Delete, Goto, TypeOK, Using
  <2>3. Pooled' = Pooled /\ NoDuplicate(stack)' /\ UNCHANGED <<made, destroyed>>
    BY <1>13 DEF Delete, Pooled, Contents, FateInv, NoDuplicate
  <2>4. deleted' = deleted \union {inst[h]}
    BY <1>13 DEF Delete
  <2> QED
    BY <2>1, <2>2, <2>3, <2>4 DEF FateInv, OneUser, DeletedIsUnreachable, NoneLost
<1>14. ASSUME DropOwner
      PROVE  FateInv'
  <2>1. CASE Destroy
    BY <1>14, <2>1, FateDestroyed DEF DropOwner
  <2>2. CASE UNCHANGED <<destroyed, deleted, stack>>
    BY <1>14, <2>2, FateStays DEF DropOwner
  <2> QED
    BY <1>14, <2>1, <2>2 DEF DropOwner
<1>15. ASSUME UNCHANGED vars
      PROVE  FateInv'
  BY <1>15, FateStays DEF vars
<1> QED
  BY <1>1, <1>2, <1>3, <1>4, <1>5, <1>6, <1>7, <1>8, <1>9, <1>10, <1>11,
     <1>12, <1>13, <1>14, <1>15
     DEF Next, AcquireStep, ReleaseStep, Terminated

\* No instance has a fate before the first acquire().
LEMMA InitFate == Init /\ MaxFailures = 0 => DeleteInv /\ FateInv
<1> SUFFICES ASSUME Init PROVE DeleteInv /\ FateInv
  OBVIOUS
<1>1. Pooled = {} /\ Held = {} /\ made = {} /\ deleted = {} /\ ~destroyed
  BY DEF Init, Pooled, Contents, Held, Using
<1>2. OneUser
  BY <1>1 DEF Init, OneUser, Using
<1>3. NoDuplicate(stack)
  BY DEF Init, NoDuplicate
<1> QED
  BY <1>1, <1>2, <1>3
     DEF Init, DeleteInv, FateInv, DeletedIsUnreachable, NoneLost

-----------------------------------------------------------------------------
(* Safety *)

\* Types, the lock and the lifetime hold whether or not pushes fail.
THEOREM PoolTypeCorrect == Spec => [](TypeOK /\ LockInv /\ LifeInv)
<1>1. TypeOK /\ LockInv /\ LifeInv /\ [Next]_vars => (TypeOK /\ LockInv /\ LifeInv)'
  BY TypeStep, LockStep, LifeStep
<1> QED
  BY InitType, <1>1, PTL DEF Spec

\* No thread is ever inside the methods of a destroyed pool.
THEOREM PoolOutlives == Spec => []PoolOutlivesCalls
<1>1. LifeInv => PoolOutlivesCalls
  BY DEF LifeInv, PoolOutlivesCalls, Exists, Pinning, Adding
<1> QED
  BY <1>1, PoolTypeCorrect, PTL

\* While pushes succeed an instance has one fate at a time.
THEOREM OneFate ==
  MaxFailures = 0 =>
    (Spec => [](TypeOK /\ LockInv /\ LifeInv /\ DeleteInv /\ FateInv))
<1> SUFFICES ASSUME MaxFailures = 0
    PROVE  Spec => [](TypeOK /\ LockInv /\ LifeInv /\ DeleteInv /\ FateInv)
  OBVIOUS
<1>1. Init => DeleteInv /\ FateInv
  BY InitFate
<1>2. TypeOK /\ LockInv /\ LifeInv /\ DeleteInv /\ FateInv /\ [Next]_vars
        => (DeleteInv /\ FateInv)'
  BY DeleteStep, FateStep
<1> QED
  BY <1>1, <1>2, PoolTypeCorrect, PTL DEF Spec

\* An instance has one user at a time.
THEOREM OneUserAtATime == MaxFailures = 0 => (Spec => []OneUser)
<1> SUFFICES ASSUME MaxFailures = 0 PROVE Spec => []OneUser
  OBVIOUS
<1>1. FateInv => OneUser
  BY DEF FateInv
<1>2. Spec => []FateInv
  BY OneFate, PTL
<1> QED
  BY <1>1, <1>2, PTL

\* What has been deleted is out of reach: no use after free, no second delete.
THEOREM NoUseAfterDelete == MaxFailures = 0 => (Spec => []DeletedIsUnreachable)
<1> SUFFICES ASSUME MaxFailures = 0 PROVE Spec => []DeletedIsUnreachable
  OBVIOUS
<1>1. FateInv => DeletedIsUnreachable
  BY DEF FateInv
<1>2. Spec => []FateInv
  BY OneFate, PTL
<1> QED
  BY <1>1, <1>2, PTL

\* No instance is leaked.
THEOREM NoInstanceLost == MaxFailures = 0 => (Spec => []NoneLost)
<1> SUFFICES ASSUME MaxFailures = 0 PROVE Spec => []NoneLost
  OBVIOUS
<1>1. FateInv => NoneLost
  BY DEF FateInv
<1>2. Spec => []FateInv
  BY OneFate, PTL
<1> QED
  BY <1>1, <1>2, PTL

-----------------------------------------------------------------------------
(* How many instances there are *)

BoundInv == IsFiniteSet(made) /\ InstancesBounded

\* A new instance is made when every other one is in the hand of another holder.
LEMMA BoundStep ==
  ASSUME IsFiniteSet(Holders), TypeOK, LockInv, LifeInv, DeleteInv, FateInv,
         BoundInv, [Next]_vars
  PROVE  BoundInv'
<1>1. CASE made' = made
  BY <1>1 DEF BoundInv, InstancesBounded
<1>2. ASSUME NEW h \in Holders, MakeInstance(h)
      PROVE  BoundInv'
  <2> DEFINE Users == {g \in Holders : pc[g] \in Using}
             InHand == [g \in Users |-> inst[g]]
  <2>1. h \notin Users /\ Pooled = {} /\ ~destroyed
    BY <1>2 DEF MakeInstance, NoneIdle, Pooled, Contents, Using, LifeInv, Exists,
                Acquiring
  <2>2. made = Held
    BY <2>1 DEF FateInv, NoneLost, DeleteInv
  <2>3. InHand \in Surjection(Users, made)
    BY <2>2 DEF Held, Surjection
  <2>4. /\ IsFiniteSet(Holders \ {h})
        /\ Cardinality(Holders \ {h}) = Cardinality(Holders) - 1
        /\ Cardinality(Holders) \in Nat
    BY FS_RemoveElement, FS_CardinalityType
  <2>5. IsFiniteSet(Users) /\ Cardinality(Users) <= Cardinality(Holders) - 1
    <3>1. Users \in SUBSET (Holders \ {h})
      BY <2>1
    <3> HIDE DEF Users
    <3> QED
      BY <3>1, <2>4, FS_Subset
  <2>6. Cardinality(made) <= Cardinality(Users)
    <3> HIDE DEF Users, InHand
    <3> QED
      BY <2>3, <2>5, FS_Surjection
  <2>7. PICK i \in Instances \ made : made' = made \union {i}
    BY <1>2 DEF MakeInstance
  <2>8. IsFiniteSet(made') /\ Cardinality(made') = Cardinality(made) + 1
    BY <2>7, FS_AddElement DEF BoundInv
  <2>9. Cardinality(Users) \in Nat /\ Cardinality(made) \in Nat
    BY <2>5, FS_CardinalityType DEF BoundInv
  <2> QED
    BY <2>4, <2>5, <2>6, <2>8, <2>9 DEF BoundInv, InstancesBounded
<1> QED
  BY <1>1, <1>2
     DEF Next, AcquireStep, ReleaseStep, Terminated, vars, Acquire, LockAcquire,
         FactoryThrows, TakeTop, PopTop, Release, LockAdd, Push, PushFails,
         InnerDelete, Unpin, Delete, DropOwner

\* There are never more instances than uses at once.
THEOREM BoundedInstances ==
  MaxFailures = 0 /\ IsFiniteSet(Holders) => (Spec => []InstancesBounded)
<1> SUFFICES ASSUME MaxFailures = 0, IsFiniteSet(Holders)
    PROVE  Spec => []InstancesBounded
  OBVIOUS
<1>1. Init => BoundInv
  <2>1. Cardinality(Holders) \in Nat
    BY FS_CardinalityType
  <2> QED
    BY <2>1, FS_EmptySet DEF Init, BoundInv, InstancesBounded
<1>2. TypeOK /\ LockInv /\ LifeInv /\ DeleteInv /\ FateInv /\ BoundInv /\ [Next]_vars
        => BoundInv'
  BY BoundStep
<1>3. Spec => [](TypeOK /\ LockInv /\ LifeInv /\ DeleteInv /\ FateInv)
  BY OneFate
<1>4. BoundInv => InstancesBounded
  BY DEF BoundInv
<1> QED
  BY <1>1, <1>2, <1>3, <1>4, PTL DEF Spec

-----------------------------------------------------------------------------
(* The pool implements its promise *)

PromiseInv == TypeOK /\ LockInv /\ LifeInv /\ DeleteInv /\ FateInv

\* The pool starts as the abstract pool does.
LEMMA PromiseInit == Init => Promise!Init
  BY DEF Init, Promise!Init, Lease, Using, Pooled, Contents

\* No use begins or ends.
LEMMA LeaseStays ==
  ASSUME \A h \in Holders : /\ pc'[h] \in Using <=> pc[h] \in Using
                            /\ pc[h] \in Using => inst'[h] = inst[h]
  PROVE  Lease' = Lease
  BY DEF Lease

\* The instances in use change by the step of the one that takes or gives back.
LEMMA LeaseChanges ==
  ASSUME TypeOK, NEW h \in Holders,
         \A g \in Holders \ {h} : pc'[g] = pc[g] /\ inst'[g] = inst[g]
  PROVE  Lease' = [Lease EXCEPT ![h] = IF pc'[h] \in Using THEN inst'[h]
                                                           ELSE NoInstance]
  BY DEF Lease

\* The places that hold no lease, and no change of what the promise speaks of.
LEMMA PromiseStutter ==
  ASSUME UNCHANGED <<stack, deleted, destroyed>>,
         \A h \in Holders : /\ pc'[h] \in Using <=> pc[h] \in Using
                            /\ pc[h] \in Using => inst'[h] = inst[h]
  PROVE  UNCHANGED Promise!vars
  BY LeaseStays DEF Promise!vars, Pooled, Contents

\* Deleting the idle instances is a close of the abstract pool.
LEMMA PromiseClose ==
  ASSUME PromiseInv, Destroy, ~destroyed,
         \A h \in Holders : /\ pc'[h] \in Using <=> pc[h] \in Using
                            /\ pc[h] \in Using => inst'[h] = inst[h]
  PROVE  Promise!Close
<1>1. Lease' = Lease
  BY LeaseStays
<1>2. Pooled' = {}
  BY DEF Destroy, Pooled, Contents
<1> QED
  BY <1>1, <1>2 DEF Promise!Close, Destroy

\* Every step of the pool is a step of the abstract pool, or none.
LEMMA PromiseStep ==
  ASSUME MaxFailures = 0, PromiseInv, [Next]_vars
  PROVE  [Promise!Next]_(Promise!vars)
<1> USE DEF PromiseInv
<1>1. ASSUME NEW h \in Holders, Acquire(h)
      PROVE  [Promise!Next]_(Promise!vars)
  BY <1>1, PromiseStutter DEF Acquire, Goto, TypeOK, Using
<1>2. ASSUME NEW h \in Holders, LockAcquire(h)
      PROVE  [Promise!Next]_(Promise!vars)
  BY <1>2, PromiseStutter DEF LockAcquire, Goto, TypeOK, Using
<1>3. ASSUME NEW h \in Holders, MakeInstance(h)
      PROVE  [Promise!Next]_(Promise!vars)
  <2> PICK i \in Instances \ made : /\ made' = made \union {i}
                                   /\ inst' = [inst EXCEPT ![h] = i]
    BY <1>3 DEF MakeInstance
  <2>1. Lease' = [Lease EXCEPT ![h] = i] /\ Lease[h] = NoInstance
    BY <1>3, LeaseChanges DEF MakeInstance, Goto, TypeOK, Using, Lease
  <2>2. Pooled = {} /\ UNCHANGED <<Pooled, deleted, destroyed>> /\ ~destroyed
    BY <1>3 DEF MakeInstance, NoneIdle, Pooled, Contents, LifeInv, Exists, Acquiring
  <2>3. i \in Instances \ (Promise!Leased \union deleted)
    BY DEF Promise!Leased, Lease, FateInv, NoneLost, Held
  <2>4. Promise!LeaseNew(h)
    BY <2>1, <2>2, <2>3 DEF Promise!LeaseNew
  <2> QED
    BY <2>4 DEF Promise!Next
<1>4. ASSUME NEW h \in Holders, FactoryThrows(h)
      PROVE  [Promise!Next]_(Promise!vars)
  BY <1>4, PromiseStutter DEF FactoryThrows, Goto, TypeOK, Using
<1>5. ASSUME NEW h \in Holders, TakeTop(h)
      PROVE  [Promise!Next]_(Promise!vars)
  BY <1>5, PromiseStutter DEF TakeTop, Goto, TypeOK, Using
<1>6. ASSUME NEW h \in Holders, PopTop(h)
      PROVE  [Promise!Next]_(Promise!vars)
  <2>1. inst[h] = Top /\ stack # <<>> /\ inst[h] \in Instances
    BY <1>6 DEF PopTop, LockInv
  <2>2. inst[h] \in Pooled /\ Pooled' = Pooled \ {inst[h]}
    <3>1. stack \in Seq(Instances) /\ NoDuplicate(stack)
      BY DEF TypeOK, FateInv
    <3> QED
      BY <1>6, <2>1, <3>1, PopContents DEF PopTop, Pooled, Top
  <2>3. Lease' = [Lease EXCEPT ![h] = inst[h]] /\ Lease[h] = NoInstance
    BY <1>6, LeaseChanges DEF PopTop, Goto, TypeOK, Using, Lease
  <2>4. UNCHANGED <<deleted, destroyed>> /\ ~destroyed
    BY <1>6 DEF PopTop, LifeInv, Exists, Acquiring
  <2>5. Promise!LeaseIdle(h)
    BY <2>2, <2>3, <2>4 DEF Promise!LeaseIdle
  <2> QED
    BY <2>5 DEF Promise!Next
<1>7. ASSUME NEW h \in Holders, Release(h)
      PROVE  [Promise!Next]_(Promise!vars)
  BY <1>7, PromiseStutter DEF Release, Goto, TypeOK, Using
<1>8. ASSUME NEW h \in Holders, LockAdd(h)
      PROVE  [Promise!Next]_(Promise!vars)
  BY <1>8, PromiseStutter DEF LockAdd, Goto, TypeOK, Using
<1>9. ASSUME NEW h \in Holders, Push(h)
      PROVE  [Promise!Next]_(Promise!vars)
  <2>1. inst[h] \in Instances /\ Lease[h] = inst[h]
    BY <1>9 DEF Push, LockInv, Using, Lease
  <2>2. Pooled' = Pooled \union {inst[h]}
    BY <1>9, <2>1, AppendContents DEF Push, Pushed, Pooled, Contents, TypeOK
  <2>3. Lease' = [Lease EXCEPT ![h] = NoInstance]
    BY <1>9, LeaseChanges DEF Push, Pushed, AfterPush, Goto, TypeOK, Using
  <2>4. UNCHANGED <<deleted, destroyed>> /\ ~destroyed
    BY <1>9 DEF Push, LifeInv, Exists, Pinning, Adding
  <2>5. Promise!GiveBack(h)
    BY <2>1, <2>2, <2>3, <2>4, PoolAssumption DEF Promise!GiveBack
  <2> QED
    BY <2>5 DEF Promise!Next
<1>10. ASSUME NEW h \in Holders, PushFails(h)
      PROVE  [Promise!Next]_(Promise!vars)
  BY <1>10 DEF PushFails, DeleteInv
<1>11. ASSUME NEW h \in Holders, InnerDelete(h)
      PROVE  [Promise!Next]_(Promise!vars)
  BY <1>11 DEF InnerDelete, DeleteInv
<1>12. ASSUME NEW h \in Holders, Unpin(h)
      PROVE  [Promise!Next]_(Promise!vars)
  <2>1. \A g \in Holders : /\ pc'[g] \in Using <=> pc[g] \in Using
                           /\ pc[g] \in Using => inst'[g] = inst[g]
    BY <1>12 DEF Unpin, Goto, TypeOK, Using, DeleteInv
  <2>2. ~destroyed
    BY <1>12 DEF Unpin, LifeInv, Exists, Pinning
  <2>3. CASE Destroy
    BY <2>1, <2>2, <2>3, PromiseClose DEF Promise!Next
  <2>4. CASE UNCHANGED <<destroyed, deleted, stack>>
    BY <2>1, <2>4, PromiseStutter
  <2> QED
    BY <1>12, <2>3, <2>4 DEF Unpin
<1>13. ASSUME NEW h \in Holders, Delete(h)
      PROVE  [Promise!Next]_(Promise!vars)
  <2>1. inst[h] \in Instances /\ Lease[h] = inst[h] /\ destroyed
    BY <1>13 DEF Delete, LockInv, Using, Lease, DeleteInv
  <2>2. Lease' = [Lease EXCEPT ![h] = NoInstance]
    BY <1>13, LeaseChanges DEF Delete, Goto, TypeOK, Using
  <2>3. deleted' = deleted \union {inst[h]} /\ UNCHANGED <<Pooled, destroyed>>
    BY <1>13 DEF Delete, Pooled, Contents
  <2>4. Promise!Discard(h)
    BY <2>1, <2>2, <2>3, PoolAssumption DEF Promise!Discard
  <2> QED
    BY <2>4 DEF Promise!Next
<1>14. ASSUME DropOwner
      PROVE  [Promise!Next]_(Promise!vars)
  <2>1. \A g \in Holders : /\ pc'[g] \in Using <=> pc[g] \in Using
                           /\ pc[g] \in Using => inst'[g] = inst[g]
    BY <1>14 DEF DropOwner
  <2>2. ~destroyed
    BY <1>14 DEF DropOwner, LifeInv, Exists
  <2>3. CASE Destroy
    BY <2>1, <2>2, <2>3, PromiseClose DEF Promise!Next
  <2>4. CASE UNCHANGED <<destroyed, deleted, stack>>
    BY <2>1, <2>4, PromiseStutter
  <2> QED
    BY <1>14, <2>3, <2>4 DEF DropOwner
<1>15. ASSUME UNCHANGED vars
      PROVE  [Promise!Next]_(Promise!vars)
  BY <1>15, PromiseStutter DEF vars
<1> QED
  BY <1>1, <1>2, <1>3, <1>4, <1>5, <1>6, <1>7, <1>8, <1>9, <1>10, <1>11,
     <1>12, <1>13, <1>14, <1>15
     DEF Next, AcquireStep, ReleaseStep, Terminated

\* acquire() and the deleter implement leases, while pushes succeed.
THEOREM PoolKeepsPromise == MaxFailures = 0 => (Spec => PromiseKept)
<1> SUFFICES ASSUME MaxFailures = 0 PROVE Spec => PromiseKept
  OBVIOUS
<1>1. Spec => []PromiseInv
  BY OneFate DEF PromiseInv
<1>2. PromiseInv /\ [Next]_vars => [Promise!Next]_(Promise!vars)
  BY PromiseStep
<1> QED
  BY <1>1, <1>2, PromiseInit, PTL DEF Spec, PromiseKept, Promise!Spec

=============================================================================
