---------------------------- MODULE Qryptonight ----------------------------
(***************************************************************************)
(* class Qryptonight (src/src/qryptonight/qryptonight.{h,cpp}) as it is    *)
(* built for Windows: the hash function is chosen once for all objects, by *)
(* the first constructor, and every object has a scratchpad of its own.    *)
(* With Linux and macOS a hash is one call of a function without state.    *)
(*                                                                         *)
(* Objects are constructed by the factory of a QryptonightPool, under the  *)
(* mutex of that pool, or directly, as the tests and Python clients do.    *)
(***************************************************************************)
EXTENDS Naturals

CONSTANTS
  Threads, Pools,
  NoPool,         \* ... of a thread that constructs its objects directly
  PoolOf,         \* the pool each thread takes its objects from
  FastMayFail,    \* may huge pages be refused: cryptonight_init(1, ...)?
  BasicMayFail    \* may the plain allocation fail too?

ASSUME QryptonightAssumption ==
  /\ NoPool \notin Pools
  /\ PoolOf \in [Threads -> Pools \union {NoPool}]
  /\ FastMayFail \in BOOLEAN /\ BasicMayFail \in BOOLEAN

Free == "free"

ASSUME ThreadAssumption == Free \notin Threads

VARIABLES
  initialized,  \* _jconf_initialized
  parsing,      \* threads inside jconf::parse_config()
  hashFn,       \* has _hash_fn been assigned? NULL until then
  mutex,        \* the owners of the pools' mutexes
  pc,
  context       \* _context of the object in each thread's hand

vars == <<initialized, parsing, hashFn, mutex, pc, context>>

Init ==
  /\ initialized = FALSE /\ parsing = {} /\ hashFn = FALSE
  /\ mutex = [p \in Pools |-> Free]
  /\ pc = [t \in Threads |-> "idle"]
  /\ context = [t \in Threads |-> "none"]

Goto(t, p) == pc' = [pc EXCEPT ![t] = p]

-----------------------------------------------------------------------------
(* The constructor *)

\* Mutant of MayConstruct: the factory runs outside of the pool's lock.
ConstructAnyway(t) == TRUE

MayConstruct(t) == PoolOf[t] # NoPool => mutex[PoolOf[t]] = Free

Construct(t) ==
  /\ pc[t] = "idle"
  /\ MayConstruct(t)
  /\ mutex' = [p \in Pools |-> IF p = PoolOf[t] THEN t ELSE mutex[p]]
  /\ Goto(t, "init")
  /\ UNCHANGED <<initialized, parsing, hashFn, context>>

\* init(): the first one to see the flag down ...
InitCheck(t) ==
  /\ pc[t] = "init"
  /\ Goto(t, IF initialized THEN "fast" ELSE "flag")
  /\ UNCHANGED <<initialized, parsing, hashFn, mutex, context>>

\* ... raises it, before there is a configuration and a hash function.
InitFlag(t) ==
  /\ pc[t] = "flag"
  /\ initialized' = TRUE
  /\ Goto(t, "parse")
  /\ UNCHANGED <<parsing, hashFn, mutex, context>>

InitParse(t) ==
  /\ pc[t] = "parse"
  /\ parsing' = parsing \union {t}
  /\ Goto(t, "select")
  /\ UNCHANGED <<initialized, hashFn, mutex, context>>

InitSelect(t) ==
  /\ pc[t] = "select"
  /\ parsing' = parsing \ {t}
  /\ hashFn' = TRUE
  /\ Goto(t, "fast")
  /\ UNCHANGED <<initialized, mutex, context>>

\* The pool's lock goes with the end of the constructor.
Unlock(t) == mutex' = [p \in Pools |-> IF p = PoolOf[t] THEN Free ELSE mutex[p]]

\* Fast memory first, which takes cryptonight_init() and an allocation; ...
AllocFast(t) ==
  /\ pc[t] = "fast"
  /\ \/ /\ context' = [context EXCEPT ![t] = "fast"]
        /\ Unlock(t) /\ Goto(t, "made")
     \/ /\ FastMayFail
        /\ Goto(t, "basic")
        /\ UNCHANGED <<context, mutex>>
  /\ UNCHANGED <<initialized, parsing, hashFn>>

\* ... then the basic settings, whose failure leaves an object that is not valid.
AllocBasic(t) ==
  /\ pc[t] = "basic"
  /\ \/ context' = [context EXCEPT ![t] = "basic"]
     \/ BasicMayFail /\ UNCHANGED context
  /\ Unlock(t)
  /\ Goto(t, "made")
  /\ UNCHANGED <<initialized, parsing, hashFn>>

-----------------------------------------------------------------------------

\* hash() calls *_hash_fn, unless it throws for a short input and changes nothing.
Hash(t) ==
  /\ pc[t] = "made"
  /\ Goto(t, "hashing")
  /\ UNCHANGED <<initialized, parsing, hashFn, mutex, context>>

HashReturn(t) ==
  /\ pc[t] = "hashing"
  /\ Goto(t, "made")
  /\ UNCHANGED <<initialized, parsing, hashFn, mutex, context>>

\* Mutant of Destruct: the object goes on with what it has freed.
DestructDangling(t) ==
  /\ pc[t] = "made"
  /\ context' = [context EXCEPT ![t] = "freed"]
  /\ UNCHANGED <<initialized, parsing, hashFn, mutex, pc>>

\* The destructor frees what the constructor allocated.
Destruct(t) ==
  /\ pc[t] = "made"
  /\ context' = [context EXCEPT ![t] = "none"]
  /\ Goto(t, "idle")
  /\ UNCHANGED <<initialized, parsing, hashFn, mutex>>

Next ==
  \E t \in Threads :
    \/ Construct(t) \/ InitCheck(t) \/ InitFlag(t) \/ InitParse(t) \/ InitSelect(t)
    \/ AllocFast(t) \/ AllocBasic(t)
    \/ Hash(t) \/ HashReturn(t) \/ Destruct(t)

Spec == Init /\ [][Next]_vars

-----------------------------------------------------------------------------

Constructing == {"init", "flag", "parse", "select", "fast", "basic"}

TypeOK ==
  /\ initialized \in BOOLEAN /\ hashFn \in BOOLEAN
  /\ parsing \in SUBSET Threads
  /\ mutex \in [Pools -> Threads \union {Free}]
  /\ pc \in [Threads -> Constructing \union {"idle", "made", "hashing"}]
  /\ context \in [Threads -> {"none", "fast", "basic"}]

\* No hash() calls *_hash_fn while it is NULL: whoever finds the flag up finds
\* the function assigned (83-88, 120).
HashFnIsSet == \A t \in Threads : pc[t] = "hashing" => hashFn

\* jconf, a singleton without a lock, is parsed by one thread at a time (86).
OneParser == \A s, t \in parsing : s = t
=============================================================================
