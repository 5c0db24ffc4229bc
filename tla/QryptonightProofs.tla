------------------------- MODULE QryptonightProofs -------------------------
(***************************************************************************)
(* Proofs about Qryptonight, for any threads and pools.                    *)
(***************************************************************************)
EXTENDS Qryptonight, TLAPS

\* The types hold before the first call.
LEMMA InitType == Init => TypeOK
  BY DEF Init, TypeOK, Constructing

\* The type invariant is kept.
LEMMA TypeStep == TypeOK /\ [Next]_vars => TypeOK'
<1> SUFFICES ASSUME TypeOK, [Next]_vars PROVE TypeOK'
  OBVIOUS
<1> USE ThreadAssumption DEF TypeOK, Constructing, Goto
<1>1. ASSUME NEW t \in Threads, Construct(t) PROVE TypeOK'
  BY <1>1 DEF Construct, MayConstruct
<1>2. ASSUME NEW t \in Threads, InitCheck(t) PROVE TypeOK'
  BY <1>2 DEF InitCheck
<1>3. ASSUME NEW t \in Threads, InitFlag(t) PROVE TypeOK'
  BY <1>3 DEF InitFlag
<1>4. ASSUME NEW t \in Threads, InitParse(t) PROVE TypeOK'
  BY <1>4 DEF InitParse
<1>5. ASSUME NEW t \in Threads, InitSelect(t) PROVE TypeOK'
  BY <1>5 DEF InitSelect
<1>6. ASSUME NEW t \in Threads, AllocFast(t) PROVE TypeOK'
  BY <1>6 DEF AllocFast, Unlock
<1>7. ASSUME NEW t \in Threads, AllocBasic(t) PROVE TypeOK'
  BY <1>7 DEF AllocBasic, Unlock
<1>8. ASSUME NEW t \in Threads, Hash(t) PROVE TypeOK'
  BY <1>8 DEF Hash
<1>9. ASSUME NEW t \in Threads, HashReturn(t) PROVE TypeOK'
  BY <1>9 DEF HashReturn
<1>10. ASSUME NEW t \in Threads, Destruct(t) PROVE TypeOK'
  BY <1>10 DEF Destruct
<1>11. CASE UNCHANGED vars
  BY <1>11 DEF vars
<1> QED
  BY <1>1, <1>2, <1>3, <1>4, <1>5, <1>6, <1>7, <1>8, <1>9, <1>10, <1>11 DEF Next

\* Every object keeps to its states, whatever is refused.
THEOREM QryptonightTypeCorrect == Spec => []TypeOK
  BY InitType, TypeStep, PTL DEF Spec

-----------------------------------------------------------------------------
(* One pool *)

\* All objects are constructed under the mutex of one pool, as the miner's are.
OnePool(p) == \A t \in Threads : PoolOf[t] = p

\* One constructor runs at a time, and only it can find the initialisation
\* half done.
InitInv(p) ==
  /\ \A t \in Threads : pc[t] \in Constructing => mutex[p] = t
  /\ initialized /\ ~hashFn => \E t \in Threads : pc[t] \in {"parse", "select"}
  /\ \A t \in Threads : pc[t] = "flag" => ~initialized
  /\ \A t \in Threads : pc[t] \in {"fast", "basic", "made", "hashing"} => hashFn
  /\ \A t \in parsing : pc[t] = "select"

\* No step breaks what is known of the initialisation.
LEMMA InitInvStep ==
  ASSUME NEW p \in Pools, OnePool(p), TypeOK, InitInv(p), [Next]_vars
  PROVE  InitInv(p)'
<1> USE ThreadAssumption, QryptonightAssumption
    DEF TypeOK, InitInv, Constructing, Goto
<1>1. ASSUME NEW t \in Threads, Construct(t) PROVE InitInv(p)'
  BY <1>1 DEF Construct, MayConstruct, OnePool
<1>2. ASSUME NEW t \in Threads, InitCheck(t) PROVE InitInv(p)'
  BY <1>2 DEF InitCheck, OnePool
<1>3. ASSUME NEW t \in Threads, InitFlag(t) PROVE InitInv(p)'
  BY <1>3 DEF InitFlag, OnePool
<1>4. ASSUME NEW t \in Threads, InitParse(t) PROVE InitInv(p)'
  BY <1>4 DEF InitParse, OnePool
<1>5. ASSUME NEW t \in Threads, InitSelect(t) PROVE InitInv(p)'
  BY <1>5 DEF InitSelect, OnePool
<1>6. ASSUME NEW t \in Threads, AllocFast(t) PROVE InitInv(p)'
  BY <1>6 DEF AllocFast, Unlock, OnePool
<1>7. ASSUME NEW t \in Threads, AllocBasic(t) PROVE InitInv(p)'
  BY <1>7 DEF AllocBasic, Unlock, OnePool
<1>8. ASSUME NEW t \in Threads, Hash(t) PROVE InitInv(p)'
  BY <1>8 DEF Hash, OnePool
<1>9. ASSUME NEW t \in Threads, HashReturn(t) PROVE InitInv(p)'
  BY <1>9 DEF HashReturn, OnePool
<1>10. ASSUME NEW t \in Threads, Destruct(t) PROVE InitInv(p)'
  BY <1>10 DEF Destruct, OnePool
<1>11. CASE UNCHANGED vars
  BY <1>11 DEF vars, OnePool
<1> QED
  BY <1>1, <1>2, <1>3, <1>4, <1>5, <1>6, <1>7, <1>8, <1>9, <1>10, <1>11 DEF Next

\* With one pool, the instances are initialised one at a time.
LEMMA OnePoolInvariant ==
  ASSUME NEW p \in Pools, OnePool(p)
  PROVE  Spec => []InitInv(p)
<1>1. Init => InitInv(p)
  BY DEF Init, InitInv, Constructing
<1>2. TypeOK /\ InitInv(p) /\ [Next]_vars => InitInv(p)'
  BY InitInvStep
<1> QED
  BY <1>1, <1>2, QryptonightTypeCorrect, PTL DEF Spec

\* Miners of one pool never call a hash function that is not there yet.
THEOREM OnePoolHashes ==
  ASSUME NEW p \in Pools, OnePool(p)
  PROVE  Spec => []HashFnIsSet
<1>1. InitInv(p) => HashFnIsSet
  BY DEF InitInv, HashFnIsSet
<1> QED
  BY <1>1, OnePoolInvariant, PTL

\* Miners of one pool never parse the configuration at the same time.
THEOREM OnePoolParses ==
  ASSUME NEW p \in Pools, OnePool(p)
  PROVE  Spec => []OneParser
<1>1. TypeOK /\ InitInv(p) => OneParser
  BY DEF TypeOK, InitInv, OneParser, Constructing
<1> QED
  BY <1>1, OnePoolInvariant, QryptonightTypeCorrect, PTL
=============================================================================
