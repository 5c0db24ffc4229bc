----------------------------- MODULE ObjectPool -----------------------------
(***************************************************************************)
(* What QryptonightPool promises the users of acquire(): an instance       *)
(* serves one user at a time, it is created only when none is idle, and it *)
(* outlives neither its last use nor the pool.                             *)
(***************************************************************************)
CONSTANTS Clients, Objects, NoObject

VARIABLES
  lease,  \* the object each client uses
  idle,   \* the objects waiting in the pool
  gone,   \* the objects that have been deleted
  open    \* does the pool exist?

vars == <<lease, idle, gone, open>>

Leased == {lease[c] : c \in Clients} \ {NoObject}

Init ==
  /\ lease = [c \in Clients |-> NoObject]
  /\ idle = {} /\ gone = {}
  /\ open = TRUE

LeaseIdle(c) ==
  /\ open /\ lease[c] = NoObject
  /\ \E o \in idle : lease' = [lease EXCEPT ![c] = o] /\ idle' = idle \ {o}
  /\ UNCHANGED <<gone, open>>

LeaseNew(c) ==
  /\ open /\ lease[c] = NoObject
  /\ idle = {}
  /\ \E o \in Objects \ (Leased \union gone) : lease' = [lease EXCEPT ![c] = o]
  /\ UNCHANGED <<idle, gone, open>>

\* Back to the pool while it exists ...
GiveBack(c) ==
  /\ open /\ lease[c] # NoObject
  /\ idle' = idle \union {lease[c]}
  /\ lease' = [lease EXCEPT ![c] = NoObject]
  /\ UNCHANGED <<gone, open>>

\* ... "or delete the pointer if the pool no longer exists".
Discard(c) ==
  /\ ~open /\ lease[c] # NoObject
  /\ gone' = gone \union {lease[c]}
  /\ lease' = [lease EXCEPT ![c] = NoObject]
  /\ UNCHANGED <<idle, open>>

Close ==
  /\ open /\ open' = FALSE
  /\ gone' = gone \union idle /\ idle' = {}
  /\ UNCHANGED lease

Next ==
  \/ \E c \in Clients : LeaseIdle(c) \/ LeaseNew(c) \/ GiveBack(c) \/ Discard(c)
  \/ Close

Spec == Init /\ [][Next]_vars
=============================================================================
