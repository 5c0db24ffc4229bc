--------------------------- MODULE MiningSession ---------------------------
(***************************************************************************)
(* What Qryptominer promises the author of a handler: it hears of the      *)
(* session in progress only, at most once of a solution and once of a      *)
(* timeout, and the nonce of a solution solves the session's job.          *)
(***************************************************************************)
EXTENDS Naturals

CONSTANTS
  Jobs,
  NoJob,      \* no session is in progress
  Nonces,
  Solutions,  \* Solutions[j]: the nonces that solve job j
  Idle        \* the handler has nothing to do

VARIABLES
  session,  \* the sessions that are over
  job,      \* the job of the one in progress
  hearing,  \* the notification the handler is being told of
  heard     \* the type and session of those it has dealt with

vars == <<session, job, hearing, heard>>

Notifications == [type : {"SOLUTION", "TIMEOUT"}, seq : {session}, nonce : Nonces]
Of(e) == <<e.type, e.seq>>

\* It is of the session in progress, and news.
MayBeTold(e) ==
  /\ job # NoJob /\ e \in Notifications
  /\ Of(e) \notin heard
  /\ e.type = "SOLUTION" => e.nonce \in Solutions[job]

Init == session = 0 /\ job = NoJob /\ hearing = Idle /\ heard = {}

\* cancel(), also that of start() and of the destructor, ends the session ...
End ==
  /\ session' = session + 1 /\ job' = NoJob
  /\ UNCHANGED <<hearing, heard>>

\* ... and start() begins one.
Begin(j) ==
  /\ job = NoJob /\ job' = j
  /\ UNCHANGED <<session, hearing, heard>>

Tell(e) ==
  /\ hearing = Idle /\ MayBeTold(e)
  /\ hearing' = e
  /\ UNCHANGED <<session, job, heard>>

\* The handler deals with it ...
Accept ==
  /\ hearing # Idle /\ hearing' = Idle
  /\ heard' = heard \union {Of(hearing)}
  /\ UNCHANGED <<session, job>>

\* ... or asks to be told again.
Reject ==
  /\ hearing # Idle /\ hearing' = Idle
  /\ UNCHANGED <<session, job, heard>>

\* A miner that is being destroyed has no handler left to tell.
Waste(e) ==
  /\ hearing = Idle /\ MayBeTold(e)
  /\ heard' = heard \union {Of(e)}
  /\ UNCHANGED <<session, job, hearing>>

Next ==
  \/ End \/ \E j \in Jobs : Begin(j)
  \/ \E e \in Notifications : Tell(e) \/ Waste(e)
  \/ Accept \/ Reject

Spec == Init /\ [][Next]_vars
=============================================================================
