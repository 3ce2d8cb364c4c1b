--------------------------- MODULE PauseContract ---------------------------
(***************************************************************************)
(* What the pause mechanism of Slowpoke promises, without saying how.      *)
(*                                                                         *)
(* Every request charges its service the pause the experiment assigned to  *)
(* it.  The target service decides when a new pause phase starts; a        *)
(* service that joins a phase turns everything it owes into one batch, and *)
(* each batch is slept exactly once and in full.  No service is ever in a  *)
(* phase the target has not started.                                       *)
(*                                                                         *)
(* PausePP implements this specification by message passing and locks.     *)
(***************************************************************************)
EXTENDS Naturals

CONSTANTS
  Service,      \* the services of the application
  Target,       \* the service whose optimisation is being evaluated
  Threshold,    \* SLOWPOKE_POKER_BATCH_THRESHOLD of the target, in requests
  delayNanos    \* the pause each service owes per request

VARIABLES
  phase,    \* the last phase each service joined
  requests, \* requests charged since then
  owed,     \* the pause those requests owe
  batch,    \* batch[s][p]: what s turned into a batch when it joined phase p
  slept     \* slept[s][p]: what s really slept for phase p

vars == <<phase, requests, owed, batch, slept>>

\* The function f with the value d at p added.
With(f, p, d) == [q \in DOMAIN f \cup {p} |-> IF q = p THEN d ELSE f[q]]

Init ==
  /\ phase = [s \in Service |-> 0]
  /\ requests = [s \in Service |-> 0]
  /\ owed = [s \in Service |-> 0]
  /\ batch = [s \in Service |-> [p \in {} |-> 0]]
  /\ slept = [s \in Service |-> [p \in {} |-> 0]]

Charge(s) ==
  /\ requests' = [requests EXCEPT ![s] = @ + 1]
  /\ owed' = [owed EXCEPT ![s] = @ + delayNanos[s]]
  /\ UNCHANGED <<phase, batch, slept>>

\* The target joins the next phase once enough requests were charged; any
\* other service joins a later phase the target is already in.
MayJoin(s, p) ==
  /\ p > phase[s]
  /\ IF s = Target
       THEN p = phase[s] + 1 /\ requests[s] > Threshold
       ELSE p <= phase[Target]

Join(s, p) ==
  /\ MayJoin(s, p)
  /\ phase' = [phase EXCEPT ![s] = p]
  /\ batch' = [batch EXCEPT ![s] = With(@, p, owed[s])]
  /\ requests' = [requests EXCEPT ![s] = 0]
  /\ owed' = [owed EXCEPT ![s] = 0]
  /\ UNCHANGED slept

Sleep(s, p) ==
  /\ p \in DOMAIN batch[s] \ DOMAIN slept[s]
  /\ slept' = [slept EXCEPT ![s] = With(@, p, batch[s][p])]
  /\ UNCHANGED <<phase, requests, owed, batch>>

SleepSome(s) == \E p \in DOMAIN batch[s] : Sleep(s, p)

Next ==
  \E s \in Service :
    \/ Charge(s)
    \/ \E p \in 1 .. phase[Target] + 1 : Join(s, p)
    \/ SleepSome(s)

Spec == Init /\ [][Next]_vars

\* Every batch is eventually slept.
FairSpec == Spec /\ \A s \in Service : WF_vars(SleepSome(s))
=============================================================================
