------------------------------- MODULE PausePP -------------------------------
(***************************************************************************)
(* The distributed pause protocol of the Slowpoke runtime                  *)
(* (app/pkg/slowpoke/pause.go and the "PokerPP" path of utils.go).         *)
(*                                                                         *)
(* Each service process runs request goroutines and one control goroutine  *)
(* per incoming control connection.  A request charges its service a pause *)
(* and, at the target service, starts a new pause phase when the batch is  *)
(* full.  A goroutine that moves its service to a new phase takes all the  *)
(* accumulated delay, tells every neighbour about the phase and makes the  *)
(* service's poker stop the whole process for that long.  Services become  *)
(* neighbours by dialling each other's control port before their first     *)
(* call.                                                                   *)
(*                                                                         *)
(* One action is one stretch of code between two points where the          *)
(* goroutine may block or another goroutine may see its effect: a critical *)
(* section of sync_guard that contains no blocking call is one step, and   *)
(* so is a message written to a connection.  A connection is a reliable    *)
(* FIFO byte stream, one per direction, whose buffers never fill: two      *)
(* short lines are written per phase.  Processes do not crash here.        *)
(***************************************************************************)
EXTENDS Integers, Sequences, FiniteSetsExt

CONSTANTS
  Service,     \* the services of the application, by name
  Target,      \* the service with isTarget, utils.go:52
  Worker,      \* goroutines that serve requests, in each service
  Threshold,   \* pokerBatchThreshold
  delayNanos,  \* delayNanos of each service
  Calls,       \* Calls[s]: the services s invokes
  MaxReq,      \* bound: requests that arrive at each service
  NoThread     \* nobody holds a lock

ASSUME PauseAssumption ==
  /\ Target \in Service
  /\ Threshold \in Nat
  /\ delayNanos \in [Service -> Nat]
  /\ Calls \in [Service -> SUBSET Service]
  /\ MaxReq \in [Service -> Nat]
  /\ IsFiniteSet(Service) /\ IsFiniteSet(Worker)
  /\ Worker \cap Service = {}
  /\ NoThread \notin Worker \cup Service

\* The goroutines of one service: its workers, and for each other service the
\* handleConnection goroutine that reads what that service sends.
Thread == Worker \cup Service

VARIABLES
  accumulatedDelay, \* [Service -> Nat], guarded by sync_guard
  reqcount,         \* [Service -> Nat], guarded by sync_guard
  sleepPhase,       \* [Service -> Nat], guarded by sync_guard
  syncGuard,        \* who holds sync_guard across a blocking call
  neighbors,        \* neighbors[s]: the services s holds a control connection to
  nlReaders,        \* the readers of neighborsLock
  nlWriter,         \* its writer
  nlWaiting,        \* the writers that wait for it; while there is one, no reader enters
  conn,             \* conn[s][t]: the messages s wrote and t has not read
  pc, phase, delayToDo, todo, peer, \* the locals of each goroutine
  poker,            \* what the service's poker is doing
  pipe,             \* the value in the FIFO to the poker
  charged,          \* history: requests charged to each service
  batch, slept      \* history: delay taken for a phase; delay slept for it

state   == <<accumulatedDelay, reqcount, sleepPhase>>
locks   == <<syncGuard, nlReaders, nlWriter, nlWaiting>>
net     == <<neighbors, conn>>
locals  == <<pc, phase, delayToDo, todo, peer>>
pokerVars == <<poker, pipe>>
history == <<charged, batch, slept>>
vars == <<state, locks, net, locals, pokerVars, history>>

Register == [type |-> "register", phase |-> 0]
PauseNext(p) == [type |-> "pause", phase |-> p + 1]       \* wrong: each hop counts on
Pause(p) == [type |-> "pause", phase |-> p]

Init ==
  /\ accumulatedDelay = [s \in Service |-> 0]
  /\ reqcount = [s \in Service |-> 0]
  /\ sleepPhase = [s \in Service |-> 0]
  /\ syncGuard = [s \in Service |-> NoThread]
  /\ neighbors = [s \in Service |-> {}]
  /\ nlReaders = [s \in Service |-> {}]
  /\ nlWriter = [s \in Service |-> NoThread]
  /\ nlWaiting = [s \in Service |-> {}]
  /\ conn = [s \in Service |-> [t \in Service |-> <<>>]]
  /\ pc = [s \in Service |-> [i \in Thread |-> "idle"]]
  /\ phase = [s \in Service |-> [i \in Thread |-> 0]]
  /\ delayToDo = [s \in Service |-> [i \in Thread |-> 0]]
  /\ todo = [s \in Service |-> [i \in Thread |-> {}]]
  /\ peer = [s \in Service |-> [i \in Thread |-> s]]
  /\ poker = [s \in Service |-> "idle"]
  /\ pipe = [s \in Service |-> 0]
  /\ charged = [s \in Service |-> 0]
  /\ batch = [s \in Service |-> [p \in {} |-> 0]]
  /\ slept = [s \in Service |-> [p \in {} |-> 0]]

-----------------------------------------------------------------------------
(* Helpers. *)

\* SIGSTOP freezes every goroutine of the process.
Running(s) == poker[s] # "stopped"

At(s, i, label) == Running(s) /\ pc[s][i] = label

Goto(s, i, label) == pc' = [pc EXCEPT ![s][i] = label]

GuardFree(s) == syncGuard[s] = NoThread

\* RWMutex: a waiting writer keeps new readers out.
MayRead(s) == nlWriter[s] = NoThread /\ nlWaiting[s] = {}

With(f, p, d) == [q \in DOMAIN f \cup {p} |-> IF q = p THEN d ELSE f[q]]

\* What a goroutine does when handlePause returns: a request goes on to its
\* handler, a control goroutine reads the next message.
AfterPauseServe(i) == "serve"                        \* wrong: also a control goroutine
AfterPause(i) == IF i \in Worker THEN "serve" ELSE "idle"

-----------------------------------------------------------------------------
(* Requests: SlowpokePokerPPDelay and the calls the handler makes. *)

\* A request arrives: sync_guard is taken and released, its delay is added,
\* and a full batch at the target makes it ask for the next phase.
StartsPhase(s) == s = Target /\ reqcount[s] + 1 > Threshold

PokerPPDelay(s, w) ==
  /\ At(s, w, "idle") /\ GuardFree(s)
  /\ charged[s] < MaxReq[s]
  /\ accumulatedDelay' = [accumulatedDelay EXCEPT ![s] = @ + delayNanos[s]]
  /\ reqcount' = [reqcount EXCEPT ![s] = @ + 1]
  /\ charged' = [charged EXCEPT ![s] = @ + 1]
  /\ IF StartsPhase(s)
       THEN /\ phase' = [phase EXCEPT ![s][w] = sleepPhase[s] + 1]
            /\ Goto(s, w, "handlePause")
       ELSE /\ Goto(s, w, "serve")
            /\ UNCHANGED phase
  /\ UNCHANGED <<sleepPhase, locks, net, delayToDo, todo, peer, pokerVars, batch, slept>>

\* The handler returns without calling another service.
Respond(s, w) ==
  /\ At(s, w, "serve")
  /\ Goto(s, w, "idle")
  /\ UNCHANGED <<state, locks, net, phase, delayToDo, todo, peer, pokerVars, history>>

\* The handler invokes another service: Invoke starts with requestEndpointRegister.
Invoke(s, w) ==
  /\ At(s, w, "serve")
  /\ \E t \in Calls[s] : peer' = [peer EXCEPT ![s][w] = t]
  /\ Goto(s, w, "lookup")
  /\ UNCHANGED <<state, locks, net, phase, delayToDo, todo, pokerVars, history>>

-----------------------------------------------------------------------------
(* Registration: updateNeighbor and requestEndpointRegister. *)

\* The first look at the table, under a read lock that is released at once.
LookupNeighbor(s, i) ==
  /\ At(s, i, "lookup") /\ MayRead(s)
  /\ IF peer[s][i] \in neighbors[s]
       THEN Goto(s, i, "idle") /\ UNCHANGED nlWaiting
       ELSE /\ Goto(s, i, "lock")
            /\ nlWaiting' = [nlWaiting EXCEPT ![s] = @ \cup {i}]
  /\ UNCHANGED <<state, syncGuard, nlReaders, nlWriter, net, phase, delayToDo, todo,
                 peer, pokerVars, history>>

\* The write lock is granted; the table is looked at again, and unless another
\* goroutine has registered the service meanwhile the lock is kept for the dial.
LockNeighbors(s, i) ==
  /\ At(s, i, "lock")
  /\ nlWriter[s] = NoThread /\ nlReaders[s] = {}
  /\ nlWaiting' = [nlWaiting EXCEPT ![s] = @ \ {i}]
  /\ IF peer[s][i] \in neighbors[s]
       THEN Goto(s, i, "idle") /\ UNCHANGED nlWriter
       ELSE /\ Goto(s, i, "dial")
            /\ nlWriter' = [nlWriter EXCEPT ![s] = i]
  /\ UNCHANGED <<state, syncGuard, nlReaders, net, phase, delayToDo, todo, peer,
                 pokerVars, history>>

\* Only the service that makes a call goes on to send a register message.
AfterDialSilent(i) == "idle"                             \* wrong: nobody registers
AfterDial(i) == IF i \in Worker THEN "getConn" ELSE "idle"

\* The dial succeeds: the connection enters the table and the lock is released.
DialNeighbor(s, i) ==
  /\ At(s, i, "dial")
  /\ neighbors' = [neighbors EXCEPT ![s] = @ \cup {peer[s][i]}]
  /\ nlWriter' = [nlWriter EXCEPT ![s] = NoThread]
  /\ Goto(s, i, AfterDial(i))
  /\ UNCHANGED <<state, syncGuard, nlReaders, nlWaiting, conn, phase, delayToDo, todo,
                 peer, pokerVars, history>>

\* requestEndpointRegister fetches the connection under a read lock ...
GetConn(s, w) ==
  /\ At(s, w, "getConn") /\ MayRead(s)
  /\ Goto(s, w, "register")
  /\ UNCHANGED <<state, locks, net, phase, delayToDo, todo, peer, pokerVars, history>>

\* ... and writes the message after releasing it.
SendRegister(s, w) ==
  /\ At(s, w, "register")
  /\ conn' = [conn EXCEPT ![s][peer[s][w]] = Append(@, Register)]
  /\ Goto(s, w, "idle")
  /\ UNCHANGED <<state, locks, neighbors, phase, delayToDo, todo, peer, pokerVars, history>>

-----------------------------------------------------------------------------
(* Pauses: handleConnection, handlePause, requestPause, SlowpokeDoDelay. *)

\* handleConnection reads one message of service t and dispatches it.
Receive(s, t) ==
  /\ At(s, t, "idle")
  /\ conn[t][s] # <<>>
  /\ conn' = [conn EXCEPT ![t][s] = Tail(@)]
  /\ IF Head(conn[t][s]).type = "pause"
       THEN /\ phase' = [phase EXCEPT ![s][t] = Head(conn[t][s]).phase]
            /\ Goto(s, t, "handlePause")
            /\ UNCHANGED peer
       ELSE /\ peer' = [peer EXCEPT ![s][t] = t]
            /\ Goto(s, t, "lookup")
            /\ UNCHANGED phase
  /\ UNCHANGED <<state, locks, neighbors, delayToDo, todo, pokerVars, history>>

\* handlePause, first half: under sync_guard, a phase not seen before takes all
\* the accumulated delay; a phase seen before is dropped.
NewOrSamePhase(s, p) == p >= sleepPhase[s]               \* wrong: a repeat is taken again
NextPhaseOnly(s, p) == p = sleepPhase[s] + 1             \* wrong: a phase that overtook is lost
NewPhase(s, p) == p > sleepPhase[s]

ResetDelayOnly(s) ==                                     \* wrong: the request count stays
  accumulatedDelay' = [accumulatedDelay EXCEPT ![s] = 0] /\ UNCHANGED reqcount

ResetCountOnly(s) ==                                     \* wrong: the delay is taken twice
  reqcount' = [reqcount EXCEPT ![s] = 0] /\ UNCHANGED accumulatedDelay

ResetCounters(s) ==
  /\ accumulatedDelay' = [accumulatedDelay EXCEPT ![s] = 0]
  /\ reqcount' = [reqcount EXCEPT ![s] = 0]

TakeDelay(s, i) ==
  /\ At(s, i, "handlePause") /\ GuardFree(s)
  /\ IF NewPhase(s, phase[s][i])
       THEN /\ sleepPhase' = [sleepPhase EXCEPT ![s] = phase[s][i]]
            /\ delayToDo' = [delayToDo EXCEPT ![s][i] = accumulatedDelay[s]]
            /\ batch' = [batch EXCEPT ![s] = With(@, phase[s][i], accumulatedDelay[s])]
            /\ ResetCounters(s)
            /\ Goto(s, i, "lockTable")
            /\ UNCHANGED phase
       ELSE /\ Goto(s, i, AfterPause(i))
            /\ phase' = [phase EXCEPT ![s][i] = 0]
            /\ UNCHANGED <<sleepPhase, delayToDo, batch, accumulatedDelay, reqcount>>
  /\ UNCHANGED <<locks, net, todo, peer, pokerVars, charged, slept>>

\* The table is read-locked, until handlePause returns.
CopyTable(s, i) == UNCHANGED nlReaders                   \* wrong: released before the flood
HoldTable(s, i) == nlReaders' = [nlReaders EXCEPT ![s] = @ \cup {i}]

LockTable(s, i) ==
  /\ At(s, i, "lockTable") /\ MayRead(s)
  /\ HoldTable(s, i)
  /\ todo' = [todo EXCEPT ![s][i] = neighbors[s]]
  /\ Goto(s, i, "flood")
  /\ UNCHANGED <<state, syncGuard, nlWriter, nlWaiting, net, phase, delayToDo, peer,
                 pokerVars, history>>

\* requestPause to one neighbour; Go's map order is arbitrary.
RequestPause(s, i) ==
  /\ At(s, i, "flood")
  /\ \E t \in todo[s][i] :
       /\ conn' = [conn EXCEPT ![s][t] = Append(@, Pause(phase[s][i]))]
       /\ todo' = [todo EXCEPT ![s][i] = @ \ {t}]
  /\ UNCHANGED <<state, locks, neighbors, pc, phase, delayToDo, peer, pokerVars, history>>

\* handlePause passes on what it took, not what has accumulated since.
LatestDelay(s, i) == accumulatedDelay[s]                 \* wrong
DelayWritten(s, i) == delayToDo[s][i]

\* SlowpokeDoDelay takes sync_guard again and writes the batch to the poker.
DoDelay(s, i) ==
  /\ At(s, i, "flood") /\ todo[s][i] = {} /\ GuardFree(s)
  /\ syncGuard' = [syncGuard EXCEPT ![s] = i]
  /\ pipe' = [pipe EXCEPT ![s] = DelayWritten(s, i)]
  /\ poker' = [poker EXCEPT ![s] = "asked"]
  /\ Goto(s, i, "paused")
  /\ UNCHANGED <<state, nlReaders, nlWriter, nlWaiting, net, phase, delayToDo, todo, peer,
                 history>>

KeepGuard(s) == UNCHANGED syncGuard                      \* wrong: the unlock is skipped
ReleaseGuard(s) == syncGuard' = [syncGuard EXCEPT ![s] = NoThread]

\* The read of the recovery FIFO returns: sync_guard and the table are released.
EndDelay(s, i) ==
  /\ At(s, i, "paused") /\ poker[s] = "answered"
  /\ poker' = [poker EXCEPT ![s] = "idle"]
  /\ ReleaseGuard(s)
  /\ nlReaders' = [nlReaders EXCEPT ![s] = @ \ {i}]
  /\ phase' = [phase EXCEPT ![s][i] = 0]
  /\ delayToDo' = [delayToDo EXCEPT ![s][i] = 0]
  /\ Goto(s, i, AfterPause(i))
  /\ UNCHANGED <<state, nlWriter, nlWaiting, net, todo, peer, pipe, history>>

-----------------------------------------------------------------------------
(* The poker, as this protocol sees it; module Poker has its details. *)

PokerStop(s) ==
  /\ poker[s] = "asked"
  /\ poker' = [poker EXCEPT ![s] = "stopped"]
  /\ UNCHANGED <<state, locks, net, locals, pipe, history>>

\* It has slept for as long as it was asked, writes the recovery FIFO and
\* continues the process.
PokerContinue(s) ==
  /\ poker[s] = "stopped"
  /\ poker' = [poker EXCEPT ![s] = "answered"]
  /\ pipe' = [pipe EXCEPT ![s] = 0]
  /\ slept' = [slept EXCEPT ![s] = With(@, phase[s][syncGuard[s]], pipe[s])]
  /\ UNCHANGED <<state, locks, net, locals, charged, batch>>

-----------------------------------------------------------------------------

WorkerStep(s, w) ==
  \/ PokerPPDelay(s, w)
  \/ Respond(s, w)
  \/ Invoke(s, w)
  \/ GetConn(s, w)
  \/ SendRegister(s, w)

ThreadStep(s, i) ==
  \/ LookupNeighbor(s, i)
  \/ LockNeighbors(s, i)
  \/ DialNeighbor(s, i)
  \/ TakeDelay(s, i)
  \/ LockTable(s, i)
  \/ RequestPause(s, i)
  \/ DoDelay(s, i)
  \/ EndDelay(s, i)

PokerStep(s) == PokerStop(s) \/ PokerContinue(s)

\* Every request was served and every message handled.
Quiescent ==
  \A s \in Service :
    /\ charged[s] = MaxReq[s]
    /\ \A i \in Thread : pc[s][i] = "idle"
    /\ \A t \in Service : conn[s][t] = <<>>

Idle == Quiescent /\ UNCHANGED vars

Next ==
  \/ \E s \in Service :
       \/ \E w \in Worker : WorkerStep(s, w)
       \/ \E t \in Service : Receive(s, t)
       \/ \E i \in Thread : ThreadStep(s, i)
       \/ PokerStep(s)
  \/ Idle

Spec == Init /\ [][Next]_vars

\* The Go scheduler runs every goroutine that is not blocked, a request that
\* was accepted is worked on, and the poker thread is not starved.  Arrivals
\* are up to the clients, so PokerPPDelay has no fairness.
Fairness ==
  /\ \A s \in Service : WF_vars(PokerStep(s))
  /\ \A s, t \in Service : WF_vars(Receive(s, t))
  /\ \A s \in Service, i \in Thread : WF_vars(ThreadStep(s, i))
  /\ \A s \in Service, w \in Worker :
       WF_vars(Respond(s, w) \/ Invoke(s, w) \/ GetConn(s, w) \/ SendRegister(s, w))

FairSpec == Spec /\ Fairness
-----------------------------------------------------------------------------
(* Properties. *)

WorkerLabels == {"idle", "serve", "lookup", "lock", "dial", "getConn", "register",
                 "handlePause", "lockTable", "flood", "paused"}
ControlLabels == WorkerLabels \ {"serve", "getConn", "register"}

Message == [type : {"register", "pause"}, phase : Nat]

\* Every variable has its type, and a goroutine is only at labels of its own code.
TypeOK ==
  /\ accumulatedDelay \in [Service -> Nat]
  /\ reqcount \in [Service -> Nat]
  /\ sleepPhase \in [Service -> Nat]
  /\ syncGuard \in [Service -> Thread \cup {NoThread}]
  /\ neighbors \in [Service -> SUBSET Service]
  /\ nlReaders \in [Service -> SUBSET Thread]
  /\ nlWriter \in [Service -> Thread \cup {NoThread}]
  /\ nlWaiting \in [Service -> SUBSET Thread]
  /\ conn \in [Service -> [Service -> Seq(Message)]]
  /\ pc \in [Service -> [Thread -> WorkerLabels]]
  /\ \A s, t \in Service : pc[s][t] \in ControlLabels
  /\ phase \in [Service -> [Thread -> Nat]]
  /\ delayToDo \in [Service -> [Thread -> Nat]]
  /\ todo \in [Service -> [Thread -> SUBSET Service]]
  /\ peer \in [Service -> [Thread -> Service]]
  /\ poker \in [Service -> {"idle", "asked", "stopped", "answered"}]
  /\ pipe \in [Service -> Nat]
  /\ charged \in [Service -> Nat]
  /\ DOMAIN batch = Service /\ DOMAIN slept = Service

\* No service, message or control goroutine is in a phase the target has not
\* reached: only the target starts phases (utils.go:246), and a pause is
\* forwarded with the phase it came with (pause.go:117).
PhaseLed ==
  /\ \A s \in Service : sleepPhase[s] <= sleepPhase[Target]
  /\ \A s, t \in Service :
       /\ phase[s][t] <= sleepPhase[Target]
       /\ \A k \in 1 .. Len(conn[s][t]) : conn[s][t][k].phase <= sleepPhase[Target]

\* The target pays for each phase with more than Threshold requests of its own:
\* however many of its goroutines find the batch full at once, they all ask for
\* the same phase and one of them gets it (utils.go:246-251, pause.go:99-103).
PhaseEarned ==
  sleepPhase[Target] * (Threshold + 1) + reqcount[Target] <= charged[Target]

\* Goroutine i of s still has to sleep the batch of phase p.
Owes(s, i, p) ==
  /\ phase[s][i] = p
  /\ \/ pc[s][i] \in {"lockTable", "flood"}
     \/ pc[s][i] = "paused" /\ poker[s] \in {"asked", "stopped"}

Settled(s, p) ==
  /\ p \in DOMAIN slept[s] /\ slept[s][p] = batch[s][p]
  /\ \A i \in Thread : ~ Owes(s, i, p)

Due(s, p) ==
  /\ p \notin DOMAIN slept[s]
  /\ \E i \in Thread :
       /\ Owes(s, i, p) /\ delayToDo[s][i] = batch[s][p]
       /\ \A j \in Thread : Owes(s, j, p) => j = i

\* The delay taken for a phase has exactly one goroutine that owes it, with that
\* very amount, until it has been slept in full, and nobody afterwards: a pause
\* that arrives over several connections is neither slept twice nor lost between
\* the two critical sections of handlePause (pause.go:97-106 and 119).
BatchPaidOnce ==
  \A s \in Service : \A p \in DOMAIN batch[s] : Settled(s, p) \/ Due(s, p)

\* Conservation: what the requests of a service owe is waiting, in the hands of
\* a goroutine or the poker, or slept; no interleaving of requests and pauses
\* loses or doubles any of it (utils.go:244, pause.go:101-102, utils.go:260).
InHand(s) ==
  [i \in Thread |-> IF pc[s][i] \in {"lockTable", "flood"} THEN delayToDo[s][i] ELSE 0]
AtPoker(s) == IF poker[s] \in {"asked", "stopped"} THEN pipe[s] ELSE 0

DelayLedger ==
  \A s \in Service :
    charged[s] * delayNanos[s] =
      accumulatedDelay[s] + SumFunctionOnSet(InHand(s), Thread) + AtPoker(s) + SumFunction(slept[s])

\* A registration is mutual or on its way: whoever holds a connection to t will
\* be known to t once the messages under way are handled (pause.go:48-73).
Registering(s, t) ==
  \/ \E w \in Worker : peer[s][w] = t /\ pc[s][w] \in {"getConn", "register"}
  \/ \E k \in 1 .. Len(conn[s][t]) : conn[s][t][k] = Register
  \/ pc[t][s] \in {"lookup", "lock", "dial"}

RegisteredBothWays ==
  \A s \in Service : \A t \in neighbors[s] : s \in neighbors[t] \/ Registering(s, t)

\* When a service is about to be stopped for a phase, each of its neighbours is
\* in the phase or has the message: neighborsLock is held until the pause is
\* over, so none can be added between the flood and the pause (pause.go:112-119).
Told(s, t, p) ==
  \/ sleepPhase[t] >= p
  \/ \E k \in 1 .. Len(conn[s][t]) : conn[s][t][k] = Pause(p)
  \/ pc[t][s] = "handlePause" /\ phase[t][s] = p

ToldBeforePause ==
  \A s \in Service, i \in Thread :
    pc[s][i] = "paused" => \A t \in neighbors[s] : Told(s, t, phase[s][i])

\* A phase a service sleeps for reaches each of its neighbours, although phases
\* may overtake each other between two services (two goroutines write to one
\* connection) and the neighbour may be stopped itself.
NeighborsJoin ==
  \A s, t \in Service :
    \A p \in 1 .. MaxReq[Target] :
      (t \in neighbors[s] /\ \E i \in Thread : pc[s][i] = "paused" /\ phase[s][i] = p)
        ~> sleepPhase[t] >= p

\* No request waits forever behind a lock: neither for sync_guard, held while the
\* process sleeps, nor for neighborsLock, read-locked for as long (pause.go:112).
RequestsServed ==
  \A s \in Service, w \in Worker : pc[s][w] # "idle" ~> pc[s][w] = "idle"

\* The protocol implements the promise, liveness included: nothing is slept that
\* was not taken, and what was taken is slept.
Contract == INSTANCE PauseContract
  WITH phase <- sleepPhase, requests <- reqcount, owed <- accumulatedDelay

ImplementsContract == Contract!FairSpec

\* What README.md:50 says of the threshold, "number of pauses to batch together":
\* the target never lets more than that many requests run before it pauses.
BatchAsDocumented == reqcount[Target] <= Threshold
=============================================================================
