----------------------------- MODULE PausePPProofs -----------------------------
(***************************************************************************)
(* Theorems about the pause protocol, for any set of services, any number  *)
(* of request goroutines, any call graph, threshold and delays, and any    *)
(* number of requests: types, the target leads, every batch is slept once, *)
(* nobody is left out of a pause.                                          *)
(***************************************************************************)
EXTENDS PausePP, DataLemmas

-----------------------------------------------------------------------------
(***************************************************************************)
(* Type correctness of the pause protocol, for any set of services, any    *)
(* number of request goroutines, any call graph, threshold and delays, and *)
(* any number of requests: one lemma per action.                           *)
(***************************************************************************)

LEMMA TypeInit == Init => TypeOK
BY PauseAssumption DEF Init, TypeOK, Thread, WorkerLabels, ControlLabels, Message

\* Workers and services are goroutines, and no worker is a service.
LEMMA Threads == Worker \subseteq Thread /\ Service \subseteq Thread /\ Worker \cap Service = {}
BY PauseAssumption DEF Thread

\* What Goto does to the labels of all goroutines.
LEMMA GotoLabels ==
  ASSUME TypeOK, NEW s \in Service, NEW i \in Thread, NEW l \in WorkerLabels, Goto(s, i, l),
         i \in Service => l \in ControlLabels
  PROVE  /\ pc' \in [Service -> [Thread -> WorkerLabels]]
         /\ \A r, t \in Service : pc'[r][t] \in ControlLabels
         /\ pc'[s][i] = l
         /\ \A r \in Service, j \in Thread : r # s \/ j # i => pc'[r][j] = pc[r][j]
<1>1. pc \in [Service -> [Thread -> WorkerLabels]] /\ \A r, t \in Service : pc[r][t] \in ControlLabels
  BY DEF TypeOK
<1>2. pc' = [pc EXCEPT ![s][i] = l] BY DEF Goto
<1>3. pc' \in [Service -> [Thread -> WorkerLabels]] BY <1>1, <1>2
<1>4. pc'[s][i] = l /\ \A r \in Service, j \in Thread : r # s \/ j # i => pc'[r][j] = pc[r][j]
  BY <1>1, <1>2
<1>5. \A r, t \in Service : pc'[r][t] \in ControlLabels BY <1>1, <1>4, Threads
<1> QED BY <1>3, <1>4, <1>5

\* Writing a message to a connection.
LEMMA WriteType ==
  ASSUME TypeOK, NEW s \in Service, NEW t \in Service, NEW m \in Message,
         conn' = [conn EXCEPT ![s][t] = Append(@, m)]
  PROVE  /\ conn' \in [Service -> [Service -> Seq(Message)]]
         /\ conn'[s][t] = Append(conn[s][t], m)
         /\ \A r, u \in Service : r # s \/ u # t => conn'[r][u] = conn[r][u]
<1>1. conn \in [Service -> [Service -> Seq(Message)]] BY DEF TypeOK
<1>2. Append(conn[s][t], m) \in Seq(Message) BY <1>1, AppendProperties
<1> QED BY <1>1, <1>2

\* Reading a message from a connection.
LEMMA ReadType ==
  ASSUME TypeOK, NEW s \in Service, NEW t \in Service, conn[t][s] # <<>>,
         conn' = [conn EXCEPT ![t][s] = Tail(@)]
  PROVE  /\ conn' \in [Service -> [Service -> Seq(Message)]]
         /\ Head(conn[t][s]) \in Message
         /\ conn'[t][s] = Tail(conn[t][s])
         /\ \A r, u \in Service : r # t \/ u # s => conn'[r][u] = conn[r][u]
<1>1. conn \in [Service -> [Service -> Seq(Message)]] BY DEF TypeOK
<1>2. Tail(conn[t][s]) \in Seq(Message) /\ Head(conn[t][s]) \in Message BY <1>1, HeadTailProperties
<1> QED BY <1>1, <1>2

LEMMA TypePokerPPDelay ==
  ASSUME TypeOK, NEW s \in Service, NEW w \in Worker, PokerPPDelay(s, w)
  PROVE  TypeOK'
<1>1. delayNanos[s] \in Nat /\ w \in Thread /\ w \notin Service BY PauseAssumption, Threads
<1>2. accumulatedDelay' \in [Service -> Nat]
  <2>1. accumulatedDelay' = [accumulatedDelay EXCEPT ![s] = @ + delayNanos[s]] BY DEF PokerPPDelay
  <2>2. accumulatedDelay \in [Service -> Nat] BY DEF TypeOK
  <2> QED BY <1>1, <2>1, <2>2
<1>3. reqcount' \in [Service -> Nat] /\ charged' \in [Service -> Nat]
  <2>1. /\ reqcount' = [reqcount EXCEPT ![s] = @ + 1]
        /\ charged' = [charged EXCEPT ![s] = @ + 1]
    BY DEF PokerPPDelay
  <2>2. reqcount \in [Service -> Nat] /\ charged \in [Service -> Nat] BY DEF TypeOK
  <2> QED BY <2>1, <2>2
<1>4. phase' = phase \/ phase' = [phase EXCEPT ![s][w] = sleepPhase[s] + 1]
  BY DEF PokerPPDelay
<1>5. phase' \in [Service -> [Thread -> Nat]]
  <2>1. phase \in [Service -> [Thread -> Nat]] /\ sleepPhase[s] + 1 \in Nat BY DEF TypeOK
  <2> QED BY <1>1, <1>4, <2>1
<1>6. pc' \in [Service -> [Thread -> WorkerLabels]] /\ \A r, t \in Service : pc'[r][t] \in ControlLabels
  <2>1. Goto(s, w, "handlePause") \/ Goto(s, w, "serve") BY DEF PokerPPDelay
  <2> QED BY <1>1, <2>1, GotoLabels DEF WorkerLabels
<1>7. UNCHANGED <<sleepPhase, syncGuard, neighbors, nlReaders, nlWriter, nlWaiting, conn,
                  delayToDo, todo, peer, poker, pipe, batch, slept>>
  BY DEF PokerPPDelay, locks, net, pokerVars
<1> QED BY <1>2, <1>3, <1>5, <1>6, <1>7 DEF TypeOK

LEMMA TypeRespond ==
  ASSUME TypeOK, NEW s \in Service, NEW w \in Worker, Respond(s, w)
  PROVE  TypeOK'
<1>1. pc' \in [Service -> [Thread -> WorkerLabels]] /\ \A r, t \in Service : pc'[r][t] \in ControlLabels
  BY Threads, GotoLabels DEF Respond, WorkerLabels, ControlLabels
<1>2. UNCHANGED <<accumulatedDelay, reqcount, sleepPhase, syncGuard, neighbors, nlReaders,
                  nlWriter, nlWaiting, conn, phase, delayToDo, todo, peer, poker, pipe,
                  charged, batch, slept>>
  BY DEF Respond, state, locks, net, pokerVars, history
<1> QED BY <1>1, <1>2 DEF TypeOK

LEMMA TypeInvoke ==
  ASSUME TypeOK, NEW s \in Service, NEW w \in Worker, Invoke(s, w)
  PROVE  TypeOK'
<1>1. pc' \in [Service -> [Thread -> WorkerLabels]] /\ \A r, t \in Service : pc'[r][t] \in ControlLabels
  BY Threads, GotoLabels DEF Invoke, WorkerLabels, ControlLabels
<1>2. peer' \in [Service -> [Thread -> Service]]
  <2>1. PICK t \in Calls[s] : peer' = [peer EXCEPT ![s][w] = t] BY DEF Invoke
  <2>2. t \in Service /\ w \in Thread BY PauseAssumption, Threads
  <2> QED BY <2>1, <2>2 DEF TypeOK
<1>3. UNCHANGED <<accumulatedDelay, reqcount, sleepPhase, syncGuard, neighbors, nlReaders,
                  nlWriter, nlWaiting, conn, phase, delayToDo, todo, poker, pipe,
                  charged, batch, slept>>
  BY DEF Invoke, state, locks, net, pokerVars, history
<1> QED BY <1>1, <1>2, <1>3 DEF TypeOK

LEMMA TypeLookupNeighbor ==
  ASSUME TypeOK, NEW s \in Service, NEW i \in Thread, LookupNeighbor(s, i)
  PROVE  TypeOK'
<1>1. Goto(s, i, "idle") \/ Goto(s, i, "lock") BY DEF LookupNeighbor
<1>2. pc' \in [Service -> [Thread -> WorkerLabels]] /\ \A r, t \in Service : pc'[r][t] \in ControlLabels
  BY <1>1, GotoLabels DEF WorkerLabels, ControlLabels
<1>3. nlWaiting' \in [Service -> SUBSET Thread]
  <2>1. nlWaiting' = nlWaiting \/ nlWaiting' = [nlWaiting EXCEPT ![s] = @ \cup {i}] BY DEF LookupNeighbor
  <2>2. nlWaiting \in [Service -> SUBSET Thread] BY DEF TypeOK
  <2> QED BY <2>1, <2>2
<1>4. UNCHANGED <<accumulatedDelay, reqcount, sleepPhase, syncGuard, neighbors, nlReaders,
                  nlWriter, conn, phase, delayToDo, todo, peer, poker, pipe,
                  charged, batch, slept>>
  BY DEF LookupNeighbor, state, net, pokerVars, history
<1> QED BY <1>2, <1>3, <1>4 DEF TypeOK

LEMMA TypeLockNeighbors ==
  ASSUME TypeOK, NEW s \in Service, NEW i \in Thread, LockNeighbors(s, i)
  PROVE  TypeOK'
<1>1. Goto(s, i, "idle") \/ Goto(s, i, "dial") BY DEF LockNeighbors
<1>2. pc' \in [Service -> [Thread -> WorkerLabels]] /\ \A r, t \in Service : pc'[r][t] \in ControlLabels
  BY <1>1, GotoLabels DEF WorkerLabels, ControlLabels
<1>3. nlWaiting' \in [Service -> SUBSET Thread]
  <2>1. nlWaiting' = [nlWaiting EXCEPT ![s] = @ \ {i}] BY DEF LockNeighbors
  <2>2. nlWaiting \in [Service -> SUBSET Thread] BY DEF TypeOK
  <2> QED BY <2>1, <2>2
<1>4. nlWriter' \in [Service -> Thread \cup {NoThread}]
  <2>1. nlWriter' = nlWriter \/ nlWriter' = [nlWriter EXCEPT ![s] = i] BY DEF LockNeighbors
  <2>2. nlWriter \in [Service -> Thread \cup {NoThread}] BY DEF TypeOK
  <2> QED BY <2>1, <2>2
<1>5. UNCHANGED <<accumulatedDelay, reqcount, sleepPhase, syncGuard, neighbors, nlReaders,
                  conn, phase, delayToDo, todo, peer, poker, pipe, charged, batch, slept>>
  BY DEF LockNeighbors, state, net, pokerVars, history
<1> QED BY <1>2, <1>3, <1>4, <1>5 DEF TypeOK

LEMMA TypeDialNeighbor ==
  ASSUME TypeOK, NEW s \in Service, NEW i \in Thread, DialNeighbor(s, i)
  PROVE  TypeOK'
<1>1. pc' \in [Service -> [Thread -> WorkerLabels]] /\ \A r, t \in Service : pc'[r][t] \in ControlLabels
  BY Threads, GotoLabels DEF DialNeighbor, AfterDial, WorkerLabels, ControlLabels
<1>2. neighbors' \in [Service -> SUBSET Service]
  <2>1. neighbors' = [neighbors EXCEPT ![s] = @ \cup {peer[s][i]}] BY DEF DialNeighbor
  <2>2. neighbors \in [Service -> SUBSET Service] /\ peer[s][i] \in Service BY DEF TypeOK
  <2> QED BY <2>1, <2>2
<1>3. nlWriter' \in [Service -> Thread \cup {NoThread}]
  <2>1. nlWriter' = [nlWriter EXCEPT ![s] = NoThread] BY DEF DialNeighbor
  <2>2. nlWriter \in [Service -> Thread \cup {NoThread}] BY DEF TypeOK
  <2> QED BY <2>1, <2>2
<1>4. UNCHANGED <<accumulatedDelay, reqcount, sleepPhase, syncGuard, nlReaders, nlWaiting,
                  conn, phase, delayToDo, todo, peer, poker, pipe, charged, batch, slept>>
  BY DEF DialNeighbor, state, pokerVars, history
<1> QED BY <1>1, <1>2, <1>3, <1>4 DEF TypeOK

LEMMA TypeGetConn ==
  ASSUME TypeOK, NEW s \in Service, NEW w \in Worker, GetConn(s, w)
  PROVE  TypeOK'
<1>1. pc' \in [Service -> [Thread -> WorkerLabels]] /\ \A r, t \in Service : pc'[r][t] \in ControlLabels
  BY Threads, GotoLabels DEF GetConn, WorkerLabels
<1>2. UNCHANGED <<accumulatedDelay, reqcount, sleepPhase, syncGuard, neighbors, nlReaders,
                  nlWriter, nlWaiting, conn, phase, delayToDo, todo, peer, poker, pipe,
                  charged, batch, slept>>
  BY DEF GetConn, state, locks, net, pokerVars, history
<1> QED BY <1>1, <1>2 DEF TypeOK

LEMMA TypeSendRegister ==
  ASSUME TypeOK, NEW s \in Service, NEW w \in Worker, SendRegister(s, w)
  PROVE  TypeOK'
<1>1. pc' \in [Service -> [Thread -> WorkerLabels]] /\ \A r, t \in Service : pc'[r][t] \in ControlLabels
  BY Threads, GotoLabels DEF SendRegister, WorkerLabels
<1>2. conn' \in [Service -> [Service -> Seq(Message)]]
  <2>1. Register \in Message BY DEF Register, Message
  <2>2. peer[s][w] \in Service BY Threads DEF TypeOK
  <2>3. conn' = [conn EXCEPT ![s][peer[s][w]] = Append(@, Register)] BY DEF SendRegister
  <2> QED BY <2>1, <2>2, <2>3, WriteType
<1>3. UNCHANGED <<accumulatedDelay, reqcount, sleepPhase, syncGuard, neighbors, nlReaders,
                  nlWriter, nlWaiting, phase, delayToDo, todo, peer, poker, pipe,
                  charged, batch, slept>>
  BY DEF SendRegister, state, locks, pokerVars, history
<1> QED BY <1>1, <1>2, <1>3 DEF TypeOK

LEMMA TypeReceive ==
  ASSUME TypeOK, NEW s \in Service, NEW t \in Service, Receive(s, t)
  PROVE  TypeOK'
<1>1. Goto(s, t, "handlePause") \/ Goto(s, t, "lookup") BY DEF Receive
<1>2. pc' \in [Service -> [Thread -> WorkerLabels]] /\ \A r, u \in Service : pc'[r][u] \in ControlLabels
  BY <1>1, Threads, GotoLabels DEF WorkerLabels, ControlLabels
<1>3. /\ conn' \in [Service -> [Service -> Seq(Message)]]
      /\ Head(conn[t][s]) \in Message
  BY ReadType DEF Receive
<1>4. Head(conn[t][s]).phase \in Nat BY <1>3 DEF Message
<1>5. phase' \in [Service -> [Thread -> Nat]]
  <2>1. phase' = phase \/ phase' = [phase EXCEPT ![s][t] = Head(conn[t][s]).phase] BY DEF Receive
  <2>2. phase \in [Service -> [Thread -> Nat]] /\ t \in Thread BY Threads DEF TypeOK
  <2> QED BY <1>4, <2>1, <2>2
<1>6. peer' \in [Service -> [Thread -> Service]]
  <2>1. peer' = peer \/ peer' = [peer EXCEPT ![s][t] = t] BY DEF Receive
  <2>2. peer \in [Service -> [Thread -> Service]] /\ t \in Thread BY Threads DEF TypeOK
  <2>3. [peer EXCEPT ![s][t] = t] \in [Service -> [Thread -> Service]] BY <2>2
  <2> QED BY <2>1, <2>2, <2>3
<1>7. UNCHANGED <<accumulatedDelay, reqcount, sleepPhase, syncGuard, neighbors, nlReaders,
                  nlWriter, nlWaiting, delayToDo, todo, poker, pipe, charged, batch, slept>>
  BY DEF Receive, state, locks, pokerVars, history
<1> QED BY <1>2, <1>3, <1>5, <1>6, <1>7 DEF TypeOK

LEMMA TypeTakeDelay ==
  ASSUME TypeOK, NEW s \in Service, NEW i \in Thread, TakeDelay(s, i)
  PROVE  TypeOK'
<1>1. Goto(s, i, "lockTable") \/ Goto(s, i, AfterPause(i)) BY DEF TakeDelay
<1>2. pc' \in [Service -> [Thread -> WorkerLabels]] /\ \A r, u \in Service : pc'[r][u] \in ControlLabels
  BY <1>1, Threads, GotoLabels DEF AfterPause, WorkerLabels, ControlLabels
<1>3. /\ accumulatedDelay \in [Service -> Nat] /\ reqcount \in [Service -> Nat]
      /\ sleepPhase \in [Service -> Nat]
      /\ phase \in [Service -> [Thread -> Nat]] /\ delayToDo \in [Service -> [Thread -> Nat]]
      /\ DOMAIN batch = Service
  BY DEF TypeOK
<1>4. /\ accumulatedDelay' \in [Service -> Nat] /\ reqcount' \in [Service -> Nat]
      /\ sleepPhase' \in [Service -> Nat]
      /\ phase' \in [Service -> [Thread -> Nat]] /\ delayToDo' \in [Service -> [Thread -> Nat]]
      /\ DOMAIN batch' = Service
  <2>1. CASE NewPhase(s, phase[s][i])
    <3>1. /\ sleepPhase' = [sleepPhase EXCEPT ![s] = phase[s][i]]
          /\ delayToDo' = [delayToDo EXCEPT ![s][i] = accumulatedDelay[s]]
          /\ batch' = [batch EXCEPT ![s] = With(@, phase[s][i], accumulatedDelay[s])]
          /\ accumulatedDelay' = [accumulatedDelay EXCEPT ![s] = 0]
          /\ reqcount' = [reqcount EXCEPT ![s] = 0]
          /\ phase' = phase
      BY <2>1 DEF TakeDelay, ResetCounters
    <3> QED BY <1>3, <3>1
  <2>2. CASE ~ NewPhase(s, phase[s][i])
    <3>1. /\ phase' = [phase EXCEPT ![s][i] = 0]
          /\ UNCHANGED <<sleepPhase, delayToDo, batch, accumulatedDelay, reqcount>>
      BY <2>2 DEF TakeDelay
    <3> QED BY <1>3, <3>1
  <2> QED BY <2>1, <2>2
<1>5. UNCHANGED <<syncGuard, neighbors, nlReaders, nlWriter, nlWaiting, conn, todo, peer,
                  poker, pipe, charged, slept>>
  BY DEF TakeDelay, locks, net, pokerVars
<1> QED BY <1>2, <1>4, <1>5 DEF TypeOK

LEMMA TypeLockTable ==
  ASSUME TypeOK, NEW s \in Service, NEW i \in Thread, LockTable(s, i)
  PROVE  TypeOK'
<1>1. pc' \in [Service -> [Thread -> WorkerLabels]] /\ \A r, u \in Service : pc'[r][u] \in ControlLabels
  BY GotoLabels DEF LockTable, WorkerLabels, ControlLabels
<1>2. nlReaders' \in [Service -> SUBSET Thread] /\ todo' \in [Service -> [Thread -> SUBSET Service]]
  <2>1. /\ nlReaders' = [nlReaders EXCEPT ![s] = @ \cup {i}]
        /\ todo' = [todo EXCEPT ![s][i] = neighbors[s]]
    BY DEF LockTable, HoldTable
  <2>2. /\ nlReaders \in [Service -> SUBSET Thread]
        /\ todo \in [Service -> [Thread -> SUBSET Service]] /\ neighbors[s] \in SUBSET Service
    BY DEF TypeOK
  <2> QED BY <2>1, <2>2
<1>3. UNCHANGED <<accumulatedDelay, reqcount, sleepPhase, syncGuard, neighbors, nlWriter,
                  nlWaiting, conn, phase, delayToDo, peer, poker, pipe, charged, batch, slept>>
  BY DEF LockTable, state, net, pokerVars, history
<1> QED BY <1>1, <1>2, <1>3 DEF TypeOK

LEMMA TypeDoDelay ==
  ASSUME TypeOK, NEW s \in Service, NEW i \in Thread, DoDelay(s, i)
  PROVE  TypeOK'
<1>1. pc' \in [Service -> [Thread -> WorkerLabels]] /\ \A r, u \in Service : pc'[r][u] \in ControlLabels
  BY GotoLabels DEF DoDelay, WorkerLabels, ControlLabels
<1>2. /\ syncGuard' \in [Service -> Thread \cup {NoThread}]
      /\ pipe' \in [Service -> Nat]
      /\ poker' \in [Service -> {"idle", "asked", "stopped", "answered"}]
  <2>1. /\ syncGuard' = [syncGuard EXCEPT ![s] = i]
        /\ pipe' = [pipe EXCEPT ![s] = delayToDo[s][i]]
        /\ poker' = [poker EXCEPT ![s] = "asked"]
    BY DEF DoDelay, DelayWritten
  <2>2. /\ syncGuard \in [Service -> Thread \cup {NoThread}]
        /\ pipe \in [Service -> Nat] /\ delayToDo[s][i] \in Nat
        /\ poker \in [Service -> {"idle", "asked", "stopped", "answered"}]
    BY DEF TypeOK
  <2> QED BY <2>1, <2>2
<1>3. UNCHANGED <<accumulatedDelay, reqcount, sleepPhase, neighbors, nlReaders, nlWriter,
                  nlWaiting, conn, phase, delayToDo, todo, peer, charged, batch, slept>>
  BY DEF DoDelay, state, net, history
<1> QED BY <1>1, <1>2, <1>3 DEF TypeOK

LEMMA TypeEndDelay ==
  ASSUME TypeOK, NEW s \in Service, NEW i \in Thread, EndDelay(s, i)
  PROVE  TypeOK'
<1>1. pc' \in [Service -> [Thread -> WorkerLabels]] /\ \A r, u \in Service : pc'[r][u] \in ControlLabels
  BY Threads, GotoLabels DEF EndDelay, ReleaseGuard, AfterPause, WorkerLabels, ControlLabels
<1>2. /\ syncGuard' \in [Service -> Thread \cup {NoThread}]
      /\ nlReaders' \in [Service -> SUBSET Thread]
      /\ poker' \in [Service -> {"idle", "asked", "stopped", "answered"}]
  <2>1. /\ poker' = [poker EXCEPT ![s] = "idle"]
        /\ syncGuard' = [syncGuard EXCEPT ![s] = NoThread]
        /\ nlReaders' = [nlReaders EXCEPT ![s] = @ \ {i}]
    BY DEF EndDelay, ReleaseGuard
  <2>2. /\ syncGuard \in [Service -> Thread \cup {NoThread}]
        /\ nlReaders \in [Service -> SUBSET Thread]
        /\ poker \in [Service -> {"idle", "asked", "stopped", "answered"}]
    BY DEF TypeOK
  <2> QED BY <2>1, <2>2
<1>3. phase' \in [Service -> [Thread -> Nat]] /\ delayToDo' \in [Service -> [Thread -> Nat]]
  <2>1. /\ phase' = [phase EXCEPT ![s][i] = 0]
        /\ delayToDo' = [delayToDo EXCEPT ![s][i] = 0]
    BY DEF EndDelay, ReleaseGuard
  <2>2. phase \in [Service -> [Thread -> Nat]] /\ delayToDo \in [Service -> [Thread -> Nat]]
    BY DEF TypeOK
  <2> QED BY <2>1, <2>2
<1>4. UNCHANGED <<accumulatedDelay, reqcount, sleepPhase, neighbors, nlWriter, nlWaiting,
                  conn, todo, peer, pipe, charged, batch, slept>>
  BY DEF EndDelay, ReleaseGuard, state, net, history
<1> QED BY <1>1, <1>2, <1>3, <1>4 DEF TypeOK

LEMMA TypeRequestPause ==
  ASSUME TypeOK, NEW s \in Service, NEW i \in Thread, RequestPause(s, i)
  PROVE  TypeOK'
<1>1. PICK t \in todo[s][i] :
        /\ conn' = [conn EXCEPT ![s][t] = Append(@, Pause(phase[s][i]))]
        /\ todo' = [todo EXCEPT ![s][i] = @ \ {t}]
  BY DEF RequestPause
<1>2. /\ todo \in [Service -> [Thread -> SUBSET Service]] /\ phase[s][i] \in Nat
  BY DEF TypeOK
<1>3. todo' \in [Service -> [Thread -> SUBSET Service]] /\ t \in Service BY <1>1, <1>2
<1>4. conn' \in [Service -> [Service -> Seq(Message)]]
  <2>1. Pause(phase[s][i]) \in Message BY <1>2 DEF Pause, Message
  <2> QED BY <1>1, <1>3, <2>1, WriteType
<1>5. UNCHANGED <<accumulatedDelay, reqcount, sleepPhase, syncGuard, neighbors, nlReaders,
                  nlWriter, nlWaiting, pc, phase, delayToDo, peer, poker, pipe, charged,
                  batch, slept>>
  BY DEF RequestPause, state, locks, pokerVars, history
<1> QED BY <1>3, <1>4, <1>5 DEF TypeOK

LEMMA TypePokerStep ==
  ASSUME TypeOK, NEW s \in Service, PokerStep(s)
  PROVE  TypeOK'
<1>1. CASE PokerStop(s)
  <2>1. poker' = [poker EXCEPT ![s] = "stopped"] BY <1>1 DEF PokerStop
  <2>2. poker \in [Service -> {"idle", "asked", "stopped", "answered"}] BY DEF TypeOK
  <2>3. poker' \in [Service -> {"idle", "asked", "stopped", "answered"}] BY <2>1, <2>2
  <2>4. UNCHANGED <<state, locks, net, locals, pipe, history>> BY <1>1 DEF PokerStop
  <2> QED BY <2>3, <2>4 DEF TypeOK, state, locks, net, locals, history
<1>2. CASE PokerContinue(s)
  <2>1. /\ poker' = [poker EXCEPT ![s] = "answered"]
        /\ pipe' = [pipe EXCEPT ![s] = 0]
        /\ slept' = [slept EXCEPT ![s] = With(@, phase[s][syncGuard[s]], pipe[s])]
        /\ UNCHANGED <<state, locks, net, locals, charged, batch>>
    BY <1>2 DEF PokerContinue
  <2>2. /\ poker \in [Service -> {"idle", "asked", "stopped", "answered"}]
        /\ pipe \in [Service -> Nat] /\ DOMAIN slept = Service
    BY DEF TypeOK
  <2>3. /\ poker' \in [Service -> {"idle", "asked", "stopped", "answered"}]
        /\ pipe' \in [Service -> Nat] /\ DOMAIN slept' = Service
    BY <2>1, <2>2
  <2> QED BY <2>1, <2>3 DEF TypeOK, state, locks, net, locals
<1> QED BY <1>1, <1>2 DEF PokerStep

LEMMA TypeStep == TypeOK /\ [Next]_vars => TypeOK'
<1> SUFFICES ASSUME TypeOK, [Next]_vars PROVE TypeOK' OBVIOUS
<1>1. CASE UNCHANGED vars
  BY <1>1 DEF TypeOK, vars, state, locks, net, locals, pokerVars, history
<1>2. ASSUME NEW s \in Service, NEW w \in Worker, WorkerStep(s, w) PROVE TypeOK'
  BY <1>2, TypePokerPPDelay, TypeRespond, TypeInvoke, TypeGetConn, TypeSendRegister DEF WorkerStep
<1>3. ASSUME NEW s \in Service, NEW t \in Service, Receive(s, t) PROVE TypeOK'
  BY <1>3, TypeReceive
<1>4. ASSUME NEW s \in Service, NEW i \in Thread, ThreadStep(s, i) PROVE TypeOK'
  BY <1>4, TypeLookupNeighbor, TypeLockNeighbors, TypeDialNeighbor, TypeTakeDelay,
     TypeLockTable, TypeRequestPause, TypeDoDelay, TypeEndDelay DEF ThreadStep
<1>5. ASSUME NEW s \in Service, PokerStep(s) PROVE TypeOK'
  BY <1>5, TypePokerStep
<1> QED BY <1>1, <1>2, <1>3, <1>4, <1>5 DEF Next, Idle

\* Type correctness: no interleaving takes a goroutine, a lock, a counter or a
\* message out of its type (pause.go, utils.go:241-278).
THEOREM TypeCorrect == Spec => []TypeOK
BY TypeInit, TypeStep, PTL DEF Spec

-----------------------------------------------------------------------------
(***************************************************************************)
(* The target leads: no service, message or goroutine is in a phase the    *)
(* target has not reached, and the target starts a phase only after more   *)
(* than Threshold requests of its own.                                     *)
(***************************************************************************)

PauseLabels == {"handlePause", "lockTable", "flood", "paused"}

\* The steps of a goroutine that is not in handlePause and does not enter it.
OrdinaryStep(s, i) ==
  \/ i \in Worker /\ (Respond(s, i) \/ Invoke(s, i) \/ GetConn(s, i) \/ SendRegister(s, i))
  \/ LookupNeighbor(s, i) \/ LockNeighbors(s, i) \/ DialNeighbor(s, i)

LEMMA OrdinaryFrame ==
  ASSUME TypeOK, NEW s \in Service, NEW i \in Thread, OrdinaryStep(s, i)
  PROVE  /\ UNCHANGED <<accumulatedDelay, reqcount, sleepPhase, syncGuard, phase, delayToDo,
                        poker, pipe, charged, batch, slept>>
         /\ \A r \in Service, j \in Thread :
              pc'[r][j] = pc[r][j] \/ {pc[r][j], pc'[r][j]} \cap PauseLabels = {}
<1>1. UNCHANGED <<accumulatedDelay, reqcount, sleepPhase, syncGuard, phase, delayToDo,
                  poker, pipe, charged, batch, slept>>
  BY DEF OrdinaryStep, Respond, Invoke, GetConn, SendRegister, LookupNeighbor, LockNeighbors,
         DialNeighbor, state, locks, net, pokerVars, history
<1>2. pc[s][i] \notin PauseLabels
  BY DEF OrdinaryStep, Respond, Invoke, GetConn, SendRegister, LookupNeighbor, LockNeighbors,
         DialNeighbor, At, PauseLabels
<1>3. PICK l \in WorkerLabels \ PauseLabels : Goto(s, i, l) /\ (i \in Service => l \in ControlLabels)
  <2>1. \/ i \in Worker /\ (Goto(s, i, "idle") \/ Goto(s, i, "lookup") \/ Goto(s, i, "register"))
        \/ Goto(s, i, "idle") \/ Goto(s, i, "lock") \/ Goto(s, i, "dial")
        \/ Goto(s, i, AfterDial(i))
    BY DEF OrdinaryStep, Respond, Invoke, GetConn, SendRegister, LookupNeighbor,
           LockNeighbors, DialNeighbor
  <2>2. AfterDial(i) \in WorkerLabels \ PauseLabels /\ (i \in Service => AfterDial(i) \in ControlLabels)
    BY Threads DEF AfterDial, WorkerLabels, ControlLabels, PauseLabels
  <2> QED BY <2>1, <2>2, Threads DEF WorkerLabels, ControlLabels, PauseLabels
<1>4. \A r \in Service, j \in Thread :
        pc'[r][j] = pc[r][j] \/ {pc[r][j], pc'[r][j]} \cap PauseLabels = {}
  <2>1. pc'[s][i] = l /\ \A r \in Service, j \in Thread : r # s \/ j # i => pc'[r][j] = pc[r][j]
    BY <1>3, GotoLabels
  <2> QED BY <1>2, <1>3, <2>1
<1> QED BY <1>1, <1>4

\* All messages of a connection are of phase n at most.
Within(seq, n) == \A k \in 1 .. Len(seq) : seq[k].phase <= n

LEMMA WithinAppend ==
  ASSUME NEW seq \in Seq(Message), NEW m \in Message, NEW n \in Nat, Within(seq, n), m.phase <= n
  PROVE  Within(Append(seq, m), n)
<1>1. /\ Len(Append(seq, m)) = Len(seq) + 1
      /\ \A k \in 1 .. Len(seq) : Append(seq, m)[k] = seq[k]
      /\ Append(seq, m)[Len(seq) + 1] = m
      /\ Len(seq) \in Nat
  BY AppendProperties, LenProperties
<1> SUFFICES ASSUME NEW k \in 1 .. Len(seq) + 1 PROVE Append(seq, m)[k].phase <= n
  BY <1>1 DEF Within
<1>2. k \in 1 .. Len(seq) \/ k = Len(seq) + 1 BY <1>1
<1> QED BY <1>1, <1>2 DEF Within

LEMMA WithinTail ==
  ASSUME NEW seq \in Seq(Message), NEW n \in Nat, Within(seq, n), seq # <<>>
  PROVE  Within(Tail(seq), n) /\ Head(seq).phase <= n
<1>1. /\ Len(Tail(seq)) = Len(seq) - 1
      /\ \A k \in 1 .. Len(Tail(seq)) : Tail(seq)[k] = seq[k + 1]
      /\ Len(seq) \in Nat /\ Len(seq) # 0
      /\ Head(seq) = seq[1]
  BY HeadTailProperties, LenProperties, EmptySeq
<1> QED BY <1>1 DEF Within

-----------------------------------------------------------------------------
(* Phases. *)

\* A worker of the target that found the batch full and has not tried to take
\* the delay yet.  The batch stays full until some goroutine takes the phase.
Starting(s, i) ==
  /\ s = Target /\ i \in Worker /\ pc[s][i] = "handlePause"
  /\ phase[s][i] = sleepPhase[Target] + 1
  /\ reqcount[Target] > Threshold

\* PhaseLed, strengthened: what the workers carry, and when it may be ahead.
Led ==
  /\ \A s \in Service : sleepPhase[s] <= sleepPhase[Target]
  /\ \A s \in Service, i \in Thread : phase[s][i] <= sleepPhase[Target] \/ Starting(s, i)
  /\ \A s, t \in Service : Within(conn[s][t], sleepPhase[Target])

LEMMA LedInit == Init => Led
<1> SUFFICES ASSUME Init PROVE Led OBVIOUS
<1>1. \A s, t \in Service : Len(conn[s][t]) = 0 BY DEF Init
<1>2. \A s \in Service : sleepPhase[s] = 0 /\ \A i \in Thread : phase[s][i] = 0 BY DEF Init
<1> QED BY <1>1, <1>2, PauseAssumption DEF Led, Within

LEMMA LedOrdinary ==
  ASSUME TypeOK, Led, NEW s \in Service, NEW i \in Thread, OrdinaryStep(s, i)
  PROVE  Led'
<1>1. /\ UNCHANGED <<sleepPhase, phase, reqcount>>
      /\ \A r \in Service, j \in Thread : pc[r][j] = "handlePause" => pc'[r][j] = "handlePause"
  BY OrdinaryFrame DEF PauseLabels
<1>2. \A r, t \in Service : Within(conn'[r][t], sleepPhase[Target])
  <2>1. CASE i \in Worker /\ SendRegister(s, i)
    <3>1. /\ Register \in Message /\ Register.phase = 0
          /\ peer[s][i] \in Service /\ sleepPhase[Target] \in Nat
          /\ conn \in [Service -> [Service -> Seq(Message)]]
      BY PauseAssumption DEF TypeOK, Register, Message
    <3>2. conn' = [conn EXCEPT ![s][peer[s][i]] = Append(@, Register)] BY <2>1 DEF SendRegister
    <3>3. /\ conn'[s][peer[s][i]] = Append(conn[s][peer[s][i]], Register)
          /\ \A r, t \in Service : r # s \/ t # peer[s][i] => conn'[r][t] = conn[r][t]
      BY <3>1, <3>2, WriteType
    <3>4. Within(conn[s][peer[s][i]], sleepPhase[Target]) BY <3>1 DEF Led
    <3>5. Within(Append(conn[s][peer[s][i]], Register), sleepPhase[Target])
      BY <3>1, <3>4, WithinAppend
    <3> QED BY <3>3, <3>5 DEF Led
  <2>2. CASE ~ (i \in Worker /\ SendRegister(s, i))
    <3>1. UNCHANGED conn
      BY <2>2 DEF OrdinaryStep, Respond, Invoke, GetConn, LookupNeighbor, LockNeighbors,
                  DialNeighbor, net
    <3> QED BY <3>1 DEF Led
  <2> QED BY <2>1, <2>2
<1> QED BY <1>1, <1>2 DEF Led, Starting

\* A request may make its goroutine ask for the next phase.
LEMMA LedPokerPPDelay ==
  ASSUME TypeOK, Led, NEW s \in Service, NEW w \in Worker, PokerPPDelay(s, w)
  PROVE  Led'
<1>1. /\ UNCHANGED <<sleepPhase, conn>>
      /\ reqcount' = [reqcount EXCEPT ![s] = @ + 1]
      /\ pc[s][w] = "idle"
  BY DEF PokerPPDelay, At, net
<1>2. /\ reqcount \in [Service -> Nat] /\ phase \in [Service -> [Thread -> Nat]]
      /\ sleepPhase \in [Service -> Nat] /\ Threshold \in Nat /\ w \in Thread
  BY PauseAssumption, Threads DEF TypeOK
<1>3. reqcount'[Target] >= reqcount[Target] /\ (s = Target => reqcount'[Target] = reqcount[Target] + 1)
  BY <1>1, <1>2, PauseAssumption
<1>4. \A r \in Service, j \in Thread : r # s \/ j # w =>
        pc'[r][j] = pc[r][j] /\ phase'[r][j] = phase[r][j]
  <2>1. Goto(s, w, "handlePause") \/ Goto(s, w, "serve") BY DEF PokerPPDelay
  <2>2. \A r \in Service, j \in Thread : r # s \/ j # w => pc'[r][j] = pc[r][j]
    BY <1>2, <2>1, Threads, GotoLabels DEF WorkerLabels
  <2>3. phase' = phase \/ phase' = [phase EXCEPT ![s][w] = sleepPhase[s] + 1] BY DEF PokerPPDelay
  <2>4. \A r \in Service, j \in Thread : r # s \/ j # w => phase'[r][j] = phase[r][j]
    BY <1>2, <2>3
  <2> QED BY <2>2, <2>4
<1>5. phase'[s][w] <= sleepPhase[Target] \/ Starting(s, w)'
  <2>1. CASE StartsPhase(s)
    <3>1. phase' = [phase EXCEPT ![s][w] = sleepPhase[s] + 1] /\ Goto(s, w, "handlePause")
      BY <2>1 DEF PokerPPDelay
    <3>2. phase'[s][w] = sleepPhase[s] + 1 BY <1>2, <3>1
    <3>3. pc'[s][w] = "handlePause" BY <1>2, <3>1, GotoLabels DEF WorkerLabels, ControlLabels
    <3>4. s = Target /\ reqcount'[Target] > Threshold BY <1>3, <2>1 DEF StartsPhase
    <3> QED BY <1>1, <3>2, <3>3, <3>4 DEF Starting
  <2>2. CASE ~ StartsPhase(s)
    <3>1. phase' = phase BY <2>2 DEF PokerPPDelay
    <3>2. phase[s][w] <= sleepPhase[Target] BY <1>1, <1>2 DEF Led, Starting
    <3> QED BY <3>1, <3>2
  <2> QED BY <2>1, <2>2
<1>6. \A r \in Service, j \in Thread : phase'[r][j] <= sleepPhase[Target] \/ Starting(r, j)'
  <2> SUFFICES ASSUME NEW r \in Service, NEW j \in Thread, r # s \/ j # w
               PROVE  phase'[r][j] <= sleepPhase[Target] \/ Starting(r, j)'
    BY <1>5
  <2>1. pc'[r][j] = pc[r][j] /\ phase'[r][j] = phase[r][j] BY <1>4
  <2>2. Starting(r, j) => Starting(r, j)'
    BY <1>1, <1>2, <1>3, <2>1, PauseAssumption DEF Starting
  <2> QED BY <2>1, <2>2 DEF Led
<1> QED BY <1>1, <1>6 DEF Led

LEMMA LedReceive ==
  ASSUME TypeOK, Led, NEW s \in Service, NEW t \in Service, Receive(s, t)
  PROVE  Led'
<1>1. /\ conn[t][s] # <<>> /\ conn' = [conn EXCEPT ![t][s] = Tail(@)]
      /\ UNCHANGED <<sleepPhase, reqcount>>
  BY DEF Receive, state
<1>2. /\ conn \in [Service -> [Service -> Seq(Message)]] /\ sleepPhase[Target] \in Nat
      /\ phase \in [Service -> [Thread -> Nat]] /\ t \in Thread /\ t \notin Worker
  BY PauseAssumption, Threads DEF TypeOK
<1>3. Within(Tail(conn[t][s]), sleepPhase[Target]) /\ Head(conn[t][s]).phase <= sleepPhase[Target]
  BY <1>1, <1>2, WithinTail DEF Led
<1>4. \A r, u \in Service : Within(conn'[r][u], sleepPhase[Target])
  BY <1>1, <1>3, ReadType DEF Led
<1>5. phase' = phase \/ phase' = [phase EXCEPT ![s][t] = Head(conn[t][s]).phase] BY DEF Receive
<1>6. \A r \in Service, j \in Thread : phase'[r][j] <= sleepPhase[Target] \/ Starting(r, j)'
  <2> TAKE r \in Service, j \in Thread
  <2>1. CASE r = s /\ j = t
    <3>1. phase[s][t] <= sleepPhase[Target] BY <1>2 DEF Led, Starting
    <3> QED BY <1>2, <1>3, <1>5, <2>1, <3>1
  <2>2. CASE r # s \/ j # t
    <3>1. phase'[r][j] = phase[r][j] BY <1>2, <1>5, <2>2
    <3>2. Goto(s, t, "handlePause") \/ Goto(s, t, "lookup") BY DEF Receive
    <3>3. pc'[r][j] = pc[r][j] BY <1>2, <2>2, <3>2, GotoLabels DEF WorkerLabels, ControlLabels
    <3>4. phase[r][j] <= sleepPhase[Target] \/ Starting(r, j) BY DEF Led
    <3> QED BY <1>1, <3>1, <3>3, <3>4 DEF Starting
  <2> QED BY <2>1, <2>2
<1> QED BY <1>1, <1>4, <1>6 DEF Led

\* Taking the delay of the next phase moves the target to it: nobody is ahead any more.
LEMMA LedTakeDelay ==
  ASSUME TypeOK, Led, NEW s \in Service, NEW i \in Thread, TakeDelay(s, i)
  PROVE  Led'
<1>1. /\ sleepPhase \in [Service -> Nat] /\ phase \in [Service -> [Thread -> Nat]]
      /\ Target \in Service /\ UNCHANGED conn
      /\ conn \in [Service -> [Service -> Seq(Message)]]
  BY PauseAssumption DEF TypeOK, TakeDelay, net
<1>2. CASE NewPhase(s, phase[s][i])
  <2>1. /\ sleepPhase' = [sleepPhase EXCEPT ![s] = phase[s][i]] /\ phase' = phase
        /\ reqcount' = [reqcount EXCEPT ![s] = 0]
        /\ phase[s][i] > sleepPhase[s]
        /\ Goto(s, i, "lockTable")
    BY <1>2 DEF TakeDelay, NewPhase, ResetCounters
  <2>2. sleepPhase'[s] = phase[s][i] /\ \A r \in Service \ {s} : sleepPhase'[r] = sleepPhase[r]
    BY <1>1, <2>1
  <2>3. CASE s = Target
    <3>1. sleepPhase'[Target] = sleepPhase[Target] + 1
      BY <1>1, <2>1, <2>2, <2>3 DEF Led, Starting
    <3>2. \A r \in Service, j \in Thread : phase[r][j] <= sleepPhase'[Target]
      <4> TAKE r \in Service, j \in Thread
      <4>1. phase[r][j] \in Nat /\ sleepPhase[Target] \in Nat BY <1>1
      <4>2. phase[r][j] <= sleepPhase[Target] \/ phase[r][j] = sleepPhase[Target] + 1
        BY DEF Led, Starting
      <4> QED BY <3>1, <4>1, <4>2
    <3>3. \A r \in Service : sleepPhase'[r] <= sleepPhase'[Target]
      <4> TAKE r \in Service
      <4>1. sleepPhase[r] \in Nat /\ sleepPhase[Target] \in Nat BY <1>1
      <4>2. sleepPhase[r] <= sleepPhase[Target] BY DEF Led
      <4>3. r = s \/ sleepPhase'[r] = sleepPhase[r] BY <2>2
      <4> QED BY <2>3, <3>1, <4>1, <4>2, <4>3
    <3>4. \A r, t \in Service : Within(conn'[r][t], sleepPhase'[Target])
      <4> TAKE r \in Service, t \in Service
      <4>1. Within(conn[r][t], sleepPhase[Target]) BY DEF Led
      <4>2. conn[r][t] \in Seq(Message) /\ sleepPhase[Target] \in Nat BY <1>1
      <4>3. \A k \in 1 .. Len(conn[r][t]) : conn[r][t][k] \in Message BY <4>2, ElementOfSeq
      <4>4. \A k \in 1 .. Len(conn[r][t]) : conn[r][t][k].phase \in Nat BY <4>3 DEF Message
      <4>5. conn'[r][t] = conn[r][t] BY <1>1
      <4> QED BY <3>1, <4>1, <4>2, <4>4, <4>5 DEF Within
    <3> QED BY <2>1, <3>2, <3>3, <3>4 DEF Led
  <2>4. CASE s # Target
    <3>1. sleepPhase'[Target] = sleepPhase[Target] /\ phase[s][i] <= sleepPhase[Target]
          /\ reqcount'[Target] = reqcount[Target]
      BY <1>1, <2>1, <2>2, <2>4 DEF Led, Starting, TypeOK
    <3>2. \A j \in Thread : pc'[Target][j] = pc[Target][j]
      BY <1>1, <2>1, <2>4, GotoLabels DEF WorkerLabels, ControlLabels
    <3>3. \A r \in Service, j \in Thread : Starting(r, j) => Starting(r, j)'
      BY <2>1, <3>1, <3>2 DEF Starting
    <3>4. \A r \in Service : sleepPhase'[r] <= sleepPhase'[Target]
      BY <2>2, <3>1 DEF Led
    <3> QED BY <1>1, <2>1, <3>1, <3>3, <3>4 DEF Led
  <2> QED BY <2>3, <2>4
<1>3. CASE ~ NewPhase(s, phase[s][i])
  <2>1. /\ UNCHANGED <<sleepPhase, reqcount>> /\ phase' = [phase EXCEPT ![s][i] = 0]
        /\ Goto(s, i, AfterPause(i))
    BY <1>3 DEF TakeDelay
  <2>2. phase'[s][i] = 0 /\ \A r \in Service, j \in Thread : r # s \/ j # i => phase'[r][j] = phase[r][j]
    BY <1>1, <2>1
  <2>3. \A r \in Service, j \in Thread : r # s \/ j # i => pc'[r][j] = pc[r][j]
    BY <2>1, GotoLabels, Threads DEF AfterPause, WorkerLabels, ControlLabels
  <2>4. \A r \in Service, j \in Thread : phase'[r][j] <= sleepPhase'[Target] \/ Starting(r, j)'
    <3> TAKE r \in Service, j \in Thread
    <3>1. CASE r = s /\ j = i BY <1>1, <2>1, <2>2, <3>1
    <3>2. CASE r # s \/ j # i
      <4>1. phase[r][j] <= sleepPhase[Target] \/ Starting(r, j) BY DEF Led
      <4> QED BY <2>1, <2>2, <2>3, <3>2, <4>1 DEF Starting
    <3> QED BY <3>1, <3>2
  <2> QED BY <1>1, <2>1, <2>4 DEF Led
<1> QED BY <1>2, <1>3

LEMMA LedLockOrDoDelay ==
  ASSUME TypeOK, Led, NEW s \in Service, NEW i \in Thread, LockTable(s, i) \/ DoDelay(s, i)
  PROVE  Led'
<1>1. /\ UNCHANGED <<sleepPhase, reqcount, conn, phase>>
      /\ pc[s][i] # "handlePause"
      /\ Goto(s, i, "flood") \/ Goto(s, i, "paused")
  BY DEF LockTable, DoDelay, state, net, At
<1>2. \A r \in Service, j \in Thread : pc[r][j] = "handlePause" => pc'[r][j] = pc[r][j]
  BY <1>1, GotoLabels DEF WorkerLabels, ControlLabels
<1> QED BY <1>1, <1>2 DEF Led, Starting

LEMMA LedRequestPause ==
  ASSUME TypeOK, Led, NEW s \in Service, NEW i \in Thread, RequestPause(s, i)
  PROVE  Led'
<1>1. /\ UNCHANGED <<sleepPhase, reqcount, phase, pc>>
      /\ pc[s][i] = "flood"
  BY DEF RequestPause, state, At
<1>2. PICK t \in todo[s][i] : conn' = [conn EXCEPT ![s][t] = Append(@, Pause(phase[s][i]))]
  BY DEF RequestPause
<1>3. /\ t \in Service /\ Pause(phase[s][i]) \in Message /\ sleepPhase[Target] \in Nat
      /\ conn \in [Service -> [Service -> Seq(Message)]]
  <2>1. phase[s][i] \in Nat /\ todo[s][i] \in SUBSET Service BY DEF TypeOK
  <2>2. Pause(phase[s][i]) \in Message BY <2>1 DEF Message, Pause
  <2>3. sleepPhase[Target] \in Nat /\ conn \in [Service -> [Service -> Seq(Message)]]
    BY PauseAssumption DEF TypeOK
  <2> QED BY <2>1, <2>2, <2>3
<1>4. Pause(phase[s][i]).phase <= sleepPhase[Target] BY <1>1 DEF Led, Starting, Pause
<1>5. Within(Append(conn[s][t], Pause(phase[s][i])), sleepPhase[Target])
  BY <1>3, <1>4, WithinAppend DEF Led
<1>6. \A r, u \in Service : Within(conn'[r][u], sleepPhase[Target])
  BY <1>2, <1>3, <1>5, WriteType DEF Led
<1> QED BY <1>1, <1>6 DEF Led, Starting

LEMMA LedEndDelay ==
  ASSUME TypeOK, Led, NEW s \in Service, NEW i \in Thread, EndDelay(s, i)
  PROVE  Led'
<1>1. /\ UNCHANGED <<sleepPhase, reqcount, conn>>
      /\ phase' = [phase EXCEPT ![s][i] = 0]
      /\ Goto(s, i, AfterPause(i))
  BY DEF EndDelay, ReleaseGuard, state, net
<1>2. phase \in [Service -> [Thread -> Nat]] /\ sleepPhase[Target] \in Nat
  BY PauseAssumption DEF TypeOK
<1>3. phase'[s][i] = 0 /\ \A r \in Service, j \in Thread : r # s \/ j # i => phase'[r][j] = phase[r][j]
  BY <1>1, <1>2
<1>4. \A r \in Service, j \in Thread : r # s \/ j # i => pc'[r][j] = pc[r][j]
  BY <1>1, GotoLabels, Threads DEF AfterPause, WorkerLabels, ControlLabels
<1>5. \A r \in Service, j \in Thread : phase'[r][j] <= sleepPhase[Target] \/ Starting(r, j)'
  <2> TAKE r \in Service, j \in Thread
  <2>1. CASE r = s /\ j = i BY <1>2, <1>3, <2>1
  <2>2. CASE r # s \/ j # i
    <3>1. phase[r][j] <= sleepPhase[Target] \/ Starting(r, j) BY DEF Led
    <3> QED BY <1>1, <1>3, <1>4, <2>2, <3>1 DEF Starting
  <2> QED BY <2>1, <2>2
<1> QED BY <1>1, <1>5 DEF Led

LEMMA LedStep == TypeOK /\ Led /\ [Next]_vars => Led'
<1> SUFFICES ASSUME TypeOK, Led, [Next]_vars PROVE Led' OBVIOUS
<1>1. CASE UNCHANGED vars
  BY <1>1 DEF Led, Starting, vars, state, net, locals
<1>2. ASSUME NEW s \in Service, NEW w \in Worker, WorkerStep(s, w) PROVE Led'
  BY <1>2, LedPokerPPDelay, LedOrdinary, Threads DEF WorkerStep, OrdinaryStep
<1>3. ASSUME NEW s \in Service, NEW t \in Service, Receive(s, t) PROVE Led'
  BY <1>3, LedReceive
<1>4. ASSUME NEW s \in Service, NEW i \in Thread, ThreadStep(s, i) PROVE Led'
  BY <1>4, LedOrdinary, LedTakeDelay, LedLockOrDoDelay, LedRequestPause, LedEndDelay
  DEF ThreadStep, OrdinaryStep
<1>5. ASSUME NEW s \in Service, PokerStep(s) PROVE Led'
  BY <1>5 DEF PokerStep, PokerStop, PokerContinue, Led, Starting, state, net, locals
<1> QED BY <1>1, <1>2, <1>3, <1>4, <1>5 DEF Next, Idle

\* No service, message or control goroutine is ever in a phase the target has
\* not reached (pause.go:99-117, utils.go:246).
THEOREM PhasesLed == Spec => []PhaseLed
<1>1. TypeOK /\ Led => PhaseLed
  BY Threads DEF Led, Starting, PhaseLed, Within
<1> QED BY <1>1, TypeInit, TypeStep, LedInit, LedStep, PTL DEF Spec

-----------------------------------------------------------------------------
(* Phases are paid for with requests. *)

LEMMA OneMorePhase ==
  ASSUME NEW m \in Nat, NEW n \in Nat
  PROVE  (m + 1) * n = m * n + n
OBVIOUS

LEMMA EarnedStep == TypeOK /\ Led /\ PhaseEarned /\ [Next]_vars => PhaseEarned'
<1> SUFFICES ASSUME TypeOK, Led, PhaseEarned, [Next]_vars PROVE PhaseEarned' OBVIOUS
<1>t. /\ reqcount \in [Service -> Nat] /\ sleepPhase \in [Service -> Nat]
      /\ charged \in [Service -> Nat] /\ phase \in [Service -> [Thread -> Nat]]
      /\ Target \in Service /\ Threshold \in Nat
  BY PauseAssumption DEF TypeOK
<1>u. UNCHANGED <<sleepPhase, reqcount, charged>> => PhaseEarned' BY DEF PhaseEarned
<1>1. CASE UNCHANGED vars
  BY <1>1, <1>u DEF vars, state, history
<1>2. ASSUME NEW s \in Service, NEW w \in Worker, WorkerStep(s, w) PROVE PhaseEarned'
  <2>1. CASE PokerPPDelay(s, w)
    <3>1. /\ sleepPhase' = sleepPhase
          /\ reqcount' = [reqcount EXCEPT ![s] = @ + 1]
          /\ charged' = [charged EXCEPT ![s] = @ + 1]
      BY <2>1 DEF PokerPPDelay
    <3>2. \/ reqcount'[Target] = reqcount[Target] /\ charged'[Target] = charged[Target]
          \/ reqcount'[Target] = reqcount[Target] + 1 /\ charged'[Target] = charged[Target] + 1
      BY <1>t, <3>1
    <3>3. sleepPhase[Target] * (Threshold + 1) \in Nat BY <1>t
    <3> QED BY <1>t, <3>1, <3>2, <3>3 DEF PhaseEarned
  <2>2. CASE OrdinaryStep(s, w)
    BY <1>u, <2>2, OrdinaryFrame, Threads
  <2> QED BY <1>2, <2>1, <2>2 DEF WorkerStep, OrdinaryStep
<1>3. ASSUME NEW s \in Service, NEW t \in Service, Receive(s, t) PROVE PhaseEarned'
  BY <1>3, <1>u DEF Receive, state, history
<1>4. ASSUME NEW s \in Service, NEW i \in Thread, ThreadStep(s, i) PROVE PhaseEarned'
  <2>1. CASE OrdinaryStep(s, i)
    BY <1>u, <2>1, OrdinaryFrame
  <2>2. CASE LockTable(s, i) \/ RequestPause(s, i) \/ DoDelay(s, i) \/ EndDelay(s, i)
    BY <1>u, <2>2 DEF LockTable, RequestPause, DoDelay, EndDelay, ReleaseGuard, state, history
  <2>3. CASE TakeDelay(s, i)
    <3>1. charged' = charged BY <2>3 DEF TakeDelay
    <3>2. CASE s = Target /\ NewPhase(s, phase[s][i])
      <4>1. /\ sleepPhase' = [sleepPhase EXCEPT ![s] = phase[s][i]]
            /\ reqcount' = [reqcount EXCEPT ![s] = 0]
            /\ phase[s][i] > sleepPhase[s]
        BY <2>3, <3>2 DEF TakeDelay, NewPhase, ResetCounters
      <4>2. phase[s][i] = sleepPhase[Target] + 1 /\ reqcount[Target] >= Threshold + 1
        BY <1>t, <3>2, <4>1 DEF Led, Starting
      <4>3. sleepPhase'[Target] = sleepPhase[Target] + 1 /\ reqcount'[Target] = 0
        BY <1>t, <3>2, <4>1, <4>2
      <4>4. (sleepPhase[Target] + 1) * (Threshold + 1)
              = sleepPhase[Target] * (Threshold + 1) + (Threshold + 1)
        <5>1. sleepPhase[Target] \in Nat /\ Threshold + 1 \in Nat BY <1>t
        <5> QED BY <5>1, OneMorePhase
      <4>5. sleepPhase[Target] * (Threshold + 1) \in Nat BY <1>t
      <4> QED BY <1>t, <3>1, <4>2, <4>3, <4>4, <4>5 DEF PhaseEarned
    <3>3. CASE s # Target \/ ~ NewPhase(s, phase[s][i])
      <4>1. sleepPhase'[Target] = sleepPhase[Target] /\ reqcount'[Target] = reqcount[Target]
        BY <1>t, <2>3, <3>3 DEF TakeDelay, ResetCounters
      <4> QED BY <3>1, <4>1 DEF PhaseEarned
    <3> QED BY <3>2, <3>3
  <2> QED BY <1>4, <2>1, <2>2, <2>3 DEF ThreadStep, OrdinaryStep
<1>5. ASSUME NEW s \in Service, PokerStep(s) PROVE PhaseEarned'
  BY <1>5, <1>u DEF PokerStep, PokerStop, PokerContinue, state, history
<1> QED BY <1>1, <1>2, <1>3, <1>4, <1>5 DEF Next, Idle

\* The target never pauses for a batch that is not full, however many of its
\* goroutines find the same batch full (utils.go:246-251, pause.go:99-103).
THEOREM PhasesEarned == Spec => []PhaseEarned
<1>1. Init => PhaseEarned
  <2> SUFFICES ASSUME Init PROVE PhaseEarned OBVIOUS
  <2>1. sleepPhase[Target] = 0 /\ reqcount[Target] = 0 /\ charged[Target] = 0
    BY PauseAssumption DEF Init
  <2> QED BY <2>1, PauseAssumption DEF PhaseEarned
<1> QED BY <1>1, TypeInit, TypeStep, LedInit, LedStep, EarnedStep, PTL DEF Spec

-----------------------------------------------------------------------------
(***************************************************************************)
(* Every batch is slept once and in full, and the pause protocol           *)
(* implements PauseContract.                                               *)
(***************************************************************************)

\* sync_guard is held exactly by the goroutine that waits for the poker, and the
\* FIFO holds what that goroutine took.
Guarded ==
  /\ \A s \in Service, i \in Thread : pc[s][i] = "paused" <=> syncGuard[s] = i
  /\ \A s \in Service : poker[s] = "idle" <=> syncGuard[s] = NoThread
  /\ \A s \in Service :
       poker[s] \in {"asked", "stopped"} => pipe[s] = delayToDo[s][syncGuard[s]]

LEMMA NotAThread == NoThread \notin Thread
BY PauseAssumption DEF Thread

LEMMA GuardedInit == Init => Guarded
BY NotAThread DEF Init, Guarded

\* Steps that leave the guard, the poker and the label "paused" alone.
LEMMA GuardedFrame ==
  ASSUME TypeOK, Guarded, UNCHANGED <<syncGuard, poker, pipe>>,
         \A s \in Service, i \in Thread : pc'[s][i] = "paused" <=> pc[s][i] = "paused",
         \A s \in Service, i \in Thread :
           pc[s][i] = "paused" => delayToDo'[s][i] = delayToDo[s][i]
  PROVE  Guarded'
<1>1. \A s \in Service : poker[s] \in {"asked", "stopped"} =>
        delayToDo'[s][syncGuard[s]] = delayToDo[s][syncGuard[s]]
  <2> TAKE s \in Service
  <2>1. syncGuard[s] \in Thread \cup {NoThread} BY DEF TypeOK
  <2> QED BY <2>1 DEF Guarded
<1> QED BY <1>1 DEF Guarded

LEMMA GuardedStep == TypeOK /\ Guarded /\ [Next]_vars => Guarded'
<1> SUFFICES ASSUME TypeOK, Guarded, [Next]_vars PROVE Guarded' OBVIOUS
<1>t. /\ syncGuard \in [Service -> Thread \cup {NoThread}]
      /\ poker \in [Service -> {"idle", "asked", "stopped", "answered"}]
      /\ pipe \in [Service -> Nat] /\ delayToDo \in [Service -> [Thread -> Nat]]
  BY DEF TypeOK
<1>1. CASE UNCHANGED vars
  BY <1>1, GuardedFrame DEF vars, locks, locals, pokerVars
<1>2. ASSUME NEW s \in Service, NEW i \in Thread, OrdinaryStep(s, i) PROVE Guarded'
  BY <1>2, OrdinaryFrame, GuardedFrame DEF PauseLabels
<1>3. ASSUME NEW s \in Service, NEW w \in Worker, PokerPPDelay(s, w) PROVE Guarded'
  <2>1. Goto(s, w, "handlePause") \/ Goto(s, w, "serve") BY <1>3 DEF PokerPPDelay
  <2>2. \A r \in Service, j \in Thread : pc'[r][j] = "paused" <=> pc[r][j] = "paused"
    BY <1>3, <2>1, Threads, GotoLabels DEF PokerPPDelay, At, WorkerLabels
  <2> QED BY <1>3, <2>2, GuardedFrame DEF PokerPPDelay, locks, pokerVars
<1>4. ASSUME NEW s \in Service, NEW t \in Service, Receive(s, t) PROVE Guarded'
  <2>1. Goto(s, t, "handlePause") \/ Goto(s, t, "lookup") BY <1>4 DEF Receive
  <2>2. \A r \in Service, j \in Thread : pc'[r][j] = "paused" <=> pc[r][j] = "paused"
    BY <1>4, <2>1, Threads, GotoLabels DEF Receive, At, WorkerLabels, ControlLabels
  <2> QED BY <1>4, <2>2, GuardedFrame DEF Receive, locks, pokerVars
<1>5. ASSUME NEW s \in Service, NEW i \in Thread, TakeDelay(s, i) PROVE Guarded'
  <2>1. Goto(s, i, "lockTable") \/ Goto(s, i, AfterPause(i)) BY <1>5 DEF TakeDelay
  <2>2. \A r \in Service, j \in Thread : pc'[r][j] = "paused" <=> pc[r][j] = "paused"
    BY <1>5, <2>1, Threads, GotoLabels DEF TakeDelay, At, AfterPause, WorkerLabels, ControlLabels
  <2>3. delayToDo' = delayToDo \/ delayToDo' = [delayToDo EXCEPT ![s][i] = accumulatedDelay[s]]
    BY <1>5 DEF TakeDelay
  <2>4. \A r \in Service, j \in Thread : pc[r][j] = "paused" => delayToDo'[r][j] = delayToDo[r][j]
    <3>1. pc[s][i] # "paused" BY <1>5 DEF TakeDelay, At
    <3> QED BY <1>t, <2>3, <3>1
  <2> QED BY <1>5, <2>2, <2>4, GuardedFrame DEF TakeDelay, locks, pokerVars
<1>6. ASSUME NEW s \in Service, NEW i \in Thread, LockTable(s, i) PROVE Guarded'
  <2>1. \A r \in Service, j \in Thread : pc'[r][j] = "paused" <=> pc[r][j] = "paused"
    BY <1>6, GotoLabels DEF LockTable, At, WorkerLabels, ControlLabels
  <2> QED BY <1>6, <2>1, GuardedFrame DEF LockTable, pokerVars
<1>7. ASSUME NEW s \in Service, NEW i \in Thread, RequestPause(s, i) PROVE Guarded'
  BY <1>7, GuardedFrame DEF RequestPause, locks, pokerVars
<1>8. ASSUME NEW s \in Service, NEW i \in Thread, DoDelay(s, i) PROVE Guarded'
  <2>1. /\ syncGuard[s] = NoThread
        /\ syncGuard' = [syncGuard EXCEPT ![s] = i]
        /\ pipe' = [pipe EXCEPT ![s] = delayToDo[s][i]]
        /\ poker' = [poker EXCEPT ![s] = "asked"]
        /\ delayToDo' = delayToDo
        /\ Goto(s, i, "paused")
    BY <1>8 DEF DoDelay, DelayWritten, GuardFree
  <2>2. pc'[s][i] = "paused" /\ \A r \in Service, j \in Thread : r # s \/ j # i => pc'[r][j] = pc[r][j]
    BY <2>1, GotoLabels DEF WorkerLabels, ControlLabels
  <2>3. \A r \in Service, j \in Thread : pc'[r][j] = "paused" <=> syncGuard'[r] = j
    BY <1>t, <2>1, <2>2, NotAThread DEF Guarded
  <2>4. \A r \in Service : poker'[r] = "idle" <=> syncGuard'[r] = NoThread
    BY <1>t, <2>1, NotAThread DEF Guarded
  <2>5. \A r \in Service :
          poker'[r] \in {"asked", "stopped"} => pipe'[r] = delayToDo'[r][syncGuard'[r]]
    BY <1>t, <2>1 DEF Guarded
  <2> QED BY <2>3, <2>4, <2>5 DEF Guarded
<1>9. ASSUME NEW s \in Service, NEW i \in Thread, EndDelay(s, i) PROVE Guarded'
  <2>1. /\ pc[s][i] = "paused"
        /\ poker' = [poker EXCEPT ![s] = "idle"]
        /\ syncGuard' = [syncGuard EXCEPT ![s] = NoThread]
        /\ delayToDo' = [delayToDo EXCEPT ![s][i] = 0]
        /\ pipe' = pipe
        /\ Goto(s, i, AfterPause(i))
    BY <1>9 DEF EndDelay, ReleaseGuard, At
  <2>2. pc'[s][i] # "paused" /\ \A r \in Service, j \in Thread : r # s \/ j # i => pc'[r][j] = pc[r][j]
    BY <2>1, GotoLabels, Threads DEF AfterPause, WorkerLabels, ControlLabels
  <2>3. \A r \in Service, j \in Thread : pc'[r][j] = "paused" <=> syncGuard'[r] = j
    BY <1>t, <2>1, <2>2, NotAThread DEF Guarded
  <2>4. \A r \in Service : poker'[r] = "idle" <=> syncGuard'[r] = NoThread
    BY <1>t, <2>1, NotAThread DEF Guarded
  <2>5. \A r \in Service :
          poker'[r] \in {"asked", "stopped"} => pipe'[r] = delayToDo'[r][syncGuard'[r]]
    BY <1>t, <2>1 DEF Guarded
  <2> QED BY <2>3, <2>4, <2>5 DEF Guarded
<1>10. ASSUME NEW s \in Service, PokerStep(s) PROVE Guarded'
  <2>1. /\ UNCHANGED <<syncGuard, pc, delayToDo>>
        /\ \/ pipe' = pipe /\ poker[s] = "asked" /\ poker' = [poker EXCEPT ![s] = "stopped"]
           \/ /\ pipe' = [pipe EXCEPT ![s] = 0]
              /\ poker[s] = "stopped" /\ poker' = [poker EXCEPT ![s] = "answered"]
    BY <1>10 DEF PokerStep, PokerStop, PokerContinue, locks, locals
  <2>2. \A r \in Service : poker'[r] = "idle" <=> poker[r] = "idle" BY <1>t, <2>1
  <2>3. \A r \in Service :
          poker'[r] \in {"asked", "stopped"} => pipe'[r] = delayToDo[r][syncGuard[r]]
    BY <1>t, <2>1 DEF Guarded
  <2> QED BY <2>1, <2>2, <2>3 DEF Guarded
<1> QED BY <1>1, <1>2, <1>3, <1>4, <1>5, <1>6, <1>7, <1>8, <1>9, <1>10, Threads
        DEF Next, Idle, WorkerStep, ThreadStep, OrdinaryStep

-----------------------------------------------------------------------------
(* Batches. *)

\* What is known about the books of a service: a goroutine between the two
\* critical sections of handlePause carries a phase that is on the books.
Books ==
  /\ \A s \in Service, i \in Thread :
       pc[s][i] \in {"lockTable", "flood", "paused"} => phase[s][i] \in DOMAIN batch[s]
  /\ \A s \in Service : \A p \in DOMAIN batch[s] : p \in Nat /\ p <= sleepPhase[s]
  /\ \A s \in Service : DOMAIN slept[s] \subseteq DOMAIN batch[s]

Paid == Books /\ BatchPaidOnce

LEMMA PaidInit == Init => Paid
<1> SUFFICES ASSUME Init PROVE Paid OBVIOUS
<1>1. \A s \in Service : DOMAIN batch[s] = {} /\ DOMAIN slept[s] = {} BY DEF Init
<1>2. \A s \in Service, i \in Thread : pc[s][i] = "idle" BY DEF Init
<1> QED BY <1>1, <1>2 DEF Paid, Books, BatchPaidOnce

\* Steps that leave the books alone and nobody's debt changes.
LEMMA PaidFrame ==
  ASSUME TypeOK, Paid, UNCHANGED <<sleepPhase, batch, slept>>,
         \A s \in Service, i \in Thread :
           (pc'[s][i] \in {"lockTable", "flood", "paused"}) =>
             /\ pc[s][i] \in {"lockTable", "flood", "paused"}
             /\ phase'[s][i] = phase[s][i] /\ delayToDo'[s][i] = delayToDo[s][i],
         \A s \in Service, i \in Thread : \A p \in Nat : Owes(s, i, p)' <=> Owes(s, i, p)
  PROVE  Paid'
<1>1. Books' BY DEF Paid, Books
<1>2. BatchPaidOnce'
  <2> SUFFICES ASSUME NEW s \in Service, NEW p \in DOMAIN batch'[s]
               PROVE  Settled(s, p)' \/ Due(s, p)'
    BY DEF BatchPaidOnce
  <2>1. p \in DOMAIN batch[s] /\ p \in Nat BY DEF Paid, Books
  <2>2. CASE Settled(s, p) BY <2>1, <2>2 DEF Settled
  <2>3. CASE Due(s, p)
    <3>1. PICK i \in Thread :
            /\ Owes(s, i, p) /\ delayToDo[s][i] = batch[s][p]
            /\ \A j \in Thread : Owes(s, j, p) => j = i
      BY <2>3 DEF Due
    <3>2. Owes(s, i, p)' /\ \A j \in Thread : Owes(s, j, p)' => j = i BY <2>1, <3>1
    <3>3. delayToDo'[s][i] = batch'[s][p] BY <3>1, <3>2 DEF Owes
    <3> QED BY <2>3, <3>2, <3>3 DEF Due
  <2> QED BY <2>1, <2>2, <2>3 DEF Paid, BatchPaidOnce
<1> QED BY <1>1, <1>2 DEF Paid

\* A goroutine that moves between labels without debt.
LEMMA PaidElsewhere ==
  ASSUME TypeOK, Paid, NEW s \in Service, NEW i \in Thread,
         UNCHANGED <<sleepPhase, batch, slept, poker>>,
         pc[s][i] \notin {"lockTable", "flood", "paused"},
         pc'[s][i] \notin {"lockTable", "flood", "paused"},
         \A r \in Service, j \in Thread : r # s \/ j # i =>
           /\ pc'[r][j] = pc[r][j] /\ phase'[r][j] = phase[r][j]
           /\ delayToDo'[r][j] = delayToDo[r][j]
  PROVE  Paid'
<1>1. \A r \in Service, j \in Thread : \A p \in Nat : Owes(r, j, p)' <=> Owes(r, j, p)
  <2> TAKE r \in Service, j \in Thread
  <2>1. CASE r = s /\ j = i BY <2>1 DEF Owes
  <2>2. CASE r # s \/ j # i BY <2>2 DEF Owes
  <2> QED BY <2>1, <2>2
<1>2. \A r \in Service, j \in Thread :
           (pc'[r][j] \in {"lockTable", "flood", "paused"}) =>
             /\ pc[r][j] \in {"lockTable", "flood", "paused"}
             /\ phase'[r][j] = phase[r][j] /\ delayToDo'[r][j] = delayToDo[r][j]
  <2> TAKE r \in Service, j \in Thread
  <2>1. CASE r = s /\ j = i BY <2>1
  <2>2. CASE r # s \/ j # i BY <2>2
  <2> QED BY <2>1, <2>2
<1> QED BY <1>1, <1>2, PaidFrame

LEMMA PaidOrdinary ==
  ASSUME TypeOK, Paid, NEW s \in Service, NEW i \in Thread, OrdinaryStep(s, i)
  PROVE  Paid'
<1>1. /\ UNCHANGED <<sleepPhase, phase, delayToDo, poker, batch, slept>>
      /\ \A r \in Service, j \in Thread :
           pc'[r][j] = pc[r][j] \/ {pc[r][j], pc'[r][j]} \cap PauseLabels = {}
  BY OrdinaryFrame
<1>2. \A r \in Service, j \in Thread :
           (pc'[r][j] \in {"lockTable", "flood", "paused"}) =>
              pc[r][j] \in {"lockTable", "flood", "paused"}
  BY <1>1 DEF PauseLabels
<1>3. \A r \in Service, j \in Thread : \A p \in Nat : Owes(r, j, p)' <=> Owes(r, j, p)
  BY <1>1 DEF PauseLabels, Owes
<1> QED BY <1>1, <1>2, <1>3, PaidFrame

LEMMA PaidPokerPPDelay ==
  ASSUME TypeOK, Paid, NEW s \in Service, NEW w \in Worker, PokerPPDelay(s, w)
  PROVE  Paid'
<1>1. /\ w \in Thread /\ phase \in [Service -> [Thread -> Nat]]
      /\ pc[s][w] = "idle"
      /\ UNCHANGED <<sleepPhase, batch, slept, poker, delayToDo>>
      /\ phase' = phase \/ phase' = [phase EXCEPT ![s][w] = sleepPhase[s] + 1]
  BY Threads DEF TypeOK, PokerPPDelay, At, pokerVars
<1>2. \A r \in Service, j \in Thread : r # s \/ j # w => phase'[r][j] = phase[r][j]
  BY <1>1
<1>3. /\ pc'[s][w] \in {"handlePause", "serve"}
      /\ \A r \in Service, j \in Thread : r # s \/ j # w => pc'[r][j] = pc[r][j]
  <2>1. Goto(s, w, "handlePause") \/ Goto(s, w, "serve") BY DEF PokerPPDelay
  <2> QED BY <1>1, <2>1, Threads, GotoLabels DEF WorkerLabels
<1> QED BY <1>1, <1>2, <1>3, PaidElsewhere

LEMMA PaidReceive ==
  ASSUME TypeOK, Paid, NEW s \in Service, NEW t \in Service, Receive(s, t)
  PROVE  Paid'
<1>1. /\ t \in Thread /\ phase \in [Service -> [Thread -> Nat]]
      /\ pc[s][t] = "idle"
      /\ UNCHANGED <<sleepPhase, batch, slept, poker, delayToDo>>
      /\ phase' = phase \/ phase' = [phase EXCEPT ![s][t] = Head(conn[t][s]).phase]
  BY Threads DEF TypeOK, Receive, At, pokerVars, state, history
<1>2. \A r \in Service, j \in Thread : r # s \/ j # t => phase'[r][j] = phase[r][j]
  BY <1>1
<1>3. /\ pc'[s][t] \in {"handlePause", "lookup"}
      /\ \A r \in Service, j \in Thread : r # s \/ j # t => pc'[r][j] = pc[r][j]
  <2>1. Goto(s, t, "handlePause") \/ Goto(s, t, "lookup") BY DEF Receive
  <2> QED BY <1>1, <2>1, GotoLabels DEF WorkerLabels, ControlLabels
<1> QED BY <1>1, <1>2, <1>3, PaidElsewhere

\* Taking a new phase opens its book, and the goroutine owes it alone.
LEMMA PaidTakeDelay ==
  ASSUME TypeOK, Paid, NEW s \in Service, NEW i \in Thread, TakeDelay(s, i)
  PROVE  Paid'
<1>1. /\ phase \in [Service -> [Thread -> Nat]] /\ sleepPhase \in [Service -> Nat]
      /\ delayToDo \in [Service -> [Thread -> Nat]] /\ accumulatedDelay \in [Service -> Nat]
      /\ DOMAIN batch = Service
      /\ pc[s][i] = "handlePause"
      /\ UNCHANGED <<slept, poker>>
  BY DEF TypeOK, TakeDelay, At, pokerVars
<1>2. CASE NewPhase(s, phase[s][i])
  <2>p. PICK p \in Nat : p = phase[s][i] BY <1>1
  <2>1. /\ p > sleepPhase[s] /\ p \in Nat /\ sleepPhase[s] \in Nat
        /\ sleepPhase' = [sleepPhase EXCEPT ![s] = p]
        /\ delayToDo' = [delayToDo EXCEPT ![s][i] = accumulatedDelay[s]]
        /\ batch' = [batch EXCEPT ![s] = With(@, p, accumulatedDelay[s])]
        /\ phase' = phase
        /\ Goto(s, i, "lockTable")
    BY <1>1, <1>2, <2>p DEF TakeDelay, NewPhase
  <2>2. /\ pc'[s][i] = "lockTable"
        /\ \A r \in Service, j \in Thread : r # s \/ j # i =>
             pc'[r][j] = pc[r][j] /\ delayToDo'[r][j] = delayToDo[r][j]
        /\ delayToDo'[s][i] = accumulatedDelay[s]
    <3>1. /\ pc'[s][i] = "lockTable"
          /\ \A r \in Service, j \in Thread : r # s \/ j # i => pc'[r][j] = pc[r][j]
      BY <2>1, GotoLabels DEF WorkerLabels, ControlLabels
    <3>2. /\ \A r \in Service, j \in Thread : r # s \/ j # i => delayToDo'[r][j] = delayToDo[r][j]
          /\ delayToDo'[s][i] = accumulatedDelay[s]
      BY <1>1, <2>1
    <3> QED BY <3>1, <3>2
  <2>3. /\ DOMAIN batch'[s] = DOMAIN batch[s] \cup {p}
        /\ batch'[s][p] = accumulatedDelay[s]
        /\ \A q \in DOMAIN batch[s] : q # p => batch'[s][q] = batch[s][q]
        /\ \A r \in Service \ {s} : batch'[r] = batch[r]
    BY <1>1, <2>1 DEF With
  <2>4. /\ sleepPhase'[s] = p /\ \A r \in Service \ {s} : sleepPhase'[r] = sleepPhase[r]
    BY <1>1, <2>1
  <2>5. p \notin DOMAIN batch[s] /\ p \notin DOMAIN slept[s]
    BY <2>1 DEF Paid, Books
  <2>6. \A j \in Thread : ~ Owes(s, j, p)
    BY <2>5 DEF Paid, Books, Owes
  <2>7. \A r \in Service, j \in Thread : \A q \in Nat :
          Owes(r, j, q)' <=> Owes(r, j, q) \/ (r = s /\ j = i /\ q = p)
    <3> TAKE r \in Service, j \in Thread
    <3> TAKE q \in Nat
    <3>1. CASE r = s /\ j = i BY <1>1, <2>p, <2>1, <2>2, <3>1 DEF Owes
    <3>2. CASE r # s \/ j # i BY <1>1, <2>1, <2>2, <3>2 DEF Owes
    <3> QED BY <3>1, <3>2
  <2>8. Books'
    <3>1. \A r \in Service, j \in Thread :
            pc'[r][j] \in {"lockTable", "flood", "paused"} => phase'[r][j] \in DOMAIN batch'[r]
      <4> TAKE r \in Service, j \in Thread
      <4>1. CASE r = s /\ j = i BY <2>p, <2>1, <2>3, <4>1
      <4>2. CASE r # s \/ j # i BY <2>1, <2>2, <2>3, <4>2 DEF Paid, Books
      <4> QED BY <4>1, <4>2
    <3>2. \A r \in Service : \A q \in DOMAIN batch'[r] : q \in Nat /\ q <= sleepPhase'[r]
      <4> TAKE r \in Service
      <4> TAKE q \in DOMAIN batch'[r]
      <4>1. CASE r = s /\ q = p BY <2>1, <2>4, <4>1
      <4>2. CASE r = s /\ q # p
        <5>1. q \in Nat /\ q <= sleepPhase[s] BY <2>3, <4>2 DEF Paid, Books
        <5> QED BY <2>1, <2>4, <4>2, <5>1
      <4>3. CASE r # s BY <2>3, <2>4, <4>3 DEF Paid, Books
      <4> QED BY <4>1, <4>2, <4>3
    <3>3. \A r \in Service : DOMAIN slept'[r] \subseteq DOMAIN batch'[r]
      BY <1>1, <2>3 DEF Paid, Books
    <3> QED BY <3>1, <3>2, <3>3 DEF Books
  <2>9. BatchPaidOnce'
    <3> SUFFICES ASSUME NEW r \in Service, NEW q \in DOMAIN batch'[r]
                 PROVE  Settled(r, q)' \/ Due(r, q)'
      BY DEF BatchPaidOnce
    <3>1. CASE r = s /\ q = p
      <4>1. Owes(s, i, p)' BY <2>1, <2>7
      <4>2. \A j \in Thread : Owes(s, j, p)' => j = i BY <2>1, <2>6, <2>7
      <4>3. p \notin DOMAIN slept'[s] /\ delayToDo'[s][i] = batch'[s][p] BY <1>1, <2>2, <2>3, <2>5
      <4> QED BY <3>1, <4>1, <4>2, <4>3 DEF Due
    <3>2. CASE r # s \/ q # p
      <4>1. q \in DOMAIN batch[r] /\ q \in Nat /\ batch'[r][q] = batch[r][q]
        BY <2>3, <3>2 DEF Paid, Books
      <4>2. \A j \in Thread : Owes(r, j, q)' <=> Owes(r, j, q) BY <2>7, <3>2, <4>1
      <4>3. CASE Settled(r, q)
        BY <1>1, <4>1, <4>2, <4>3 DEF Settled
      <4>4. CASE Due(r, q)
        <5>1. PICK k \in Thread :
                /\ Owes(r, k, q) /\ delayToDo[r][k] = batch[r][q]
                /\ \A j \in Thread : Owes(r, j, q) => j = k
          BY <4>4 DEF Due
        <5>2. r # s \/ k # i BY <1>1, <5>1 DEF Owes
        <5>3. delayToDo'[r][k] = batch'[r][q] BY <2>2, <4>1, <5>1, <5>2
        <5> QED BY <1>1, <4>2, <4>4, <5>1, <5>3 DEF Due
      <4> QED BY <4>1, <4>3, <4>4 DEF Paid, BatchPaidOnce
    <3> QED BY <3>1, <3>2
  <2> QED BY <2>8, <2>9 DEF Paid
<1>3. CASE ~ NewPhase(s, phase[s][i])
  <2>1. /\ UNCHANGED <<sleepPhase, delayToDo, batch>>
        /\ phase' = [phase EXCEPT ![s][i] = 0]
        /\ Goto(s, i, AfterPause(i))
    BY <1>3 DEF TakeDelay
  <2>2. \A r \in Service, j \in Thread : r # s \/ j # i => phase'[r][j] = phase[r][j]
    BY <1>1, <2>1
  <2>3. /\ pc'[s][i] \in {"serve", "idle"}
        /\ \A r \in Service, j \in Thread : r # s \/ j # i => pc'[r][j] = pc[r][j]
    BY <2>1, Threads, GotoLabels DEF AfterPause, WorkerLabels, ControlLabels
  <2>4. /\ pc[s][i] \notin {"lockTable", "flood", "paused"}
        /\ pc'[s][i] \notin {"lockTable", "flood", "paused"}
    BY <1>1, <2>3
  <2>5. UNCHANGED <<sleepPhase, batch, slept, poker, delayToDo>> BY <1>1, <2>1
  <2> QED BY <2>2, <2>3, <2>4, <2>5, PaidElsewhere
<1> QED BY <1>2, <1>3

LEMMA PaidFlood ==
  ASSUME TypeOK, Paid, NEW s \in Service, NEW i \in Thread, LockTable(s, i) \/ RequestPause(s, i)
  PROVE  Paid'
<1>1. UNCHANGED <<sleepPhase, batch, slept, poker, phase, delayToDo>>
  BY DEF LockTable, RequestPause, state, pokerVars, history
<1>2. pc'[s][i] = "flood" /\ pc[s][i] \in {"lockTable", "flood"}
      /\ \A r \in Service, j \in Thread : r # s \/ j # i => pc'[r][j] = pc[r][j]
  <2>1. CASE LockTable(s, i) BY <2>1, GotoLabels DEF LockTable, At, WorkerLabels, ControlLabels
  <2>2. CASE RequestPause(s, i) BY <2>2 DEF RequestPause, At
  <2> QED BY <2>1, <2>2
<1>3. \A r \in Service, j \in Thread : \A p \in Nat : Owes(r, j, p)' <=> Owes(r, j, p)
  <2> TAKE r \in Service, j \in Thread
  <2>1. CASE r = s /\ j = i BY <1>1, <1>2, <2>1 DEF Owes
  <2>2. CASE r # s \/ j # i BY <1>1, <1>2, <2>2 DEF Owes
  <2> QED BY <2>1, <2>2
<1>4. \A r \in Service, j \in Thread :
           (pc'[r][j] \in {"lockTable", "flood", "paused"}) =>
              pc[r][j] \in {"lockTable", "flood", "paused"}
  BY <1>2
<1> QED BY <1>1, <1>3, <1>4, PaidFrame

\* The debt goes to the poker; nobody else waits for it.
LEMMA PaidDoDelay ==
  ASSUME TypeOK, Paid, Guarded, NEW s \in Service, NEW i \in Thread, DoDelay(s, i)
  PROVE  Paid'
<1>1. /\ UNCHANGED <<sleepPhase, batch, slept, phase, delayToDo>>
      /\ pc[s][i] = "flood" /\ syncGuard[s] = NoThread
      /\ poker' = [poker EXCEPT ![s] = "asked"]
  BY DEF DoDelay, state, history, At, GuardFree
<1>2. /\ pc'[s][i] = "paused"
      /\ \A r \in Service, j \in Thread : r # s \/ j # i => pc'[r][j] = pc[r][j]
  BY GotoLabels DEF DoDelay, WorkerLabels, ControlLabels
<1>3. poker'[s] = "asked" /\ \A r \in Service \ {s} : poker'[r] = poker[r]
  BY <1>1 DEF TypeOK
<1>4. \A j \in Thread : pc[s][j] # "paused" BY <1>1, NotAThread DEF Guarded
<1>5. \A r \in Service, j \in Thread : \A p \in Nat : Owes(r, j, p)' <=> Owes(r, j, p)
  <2> TAKE r \in Service, j \in Thread
  <2>1. CASE r = s /\ j = i BY <1>1, <1>2, <1>3, <2>1 DEF Owes
  <2>2. CASE r = s /\ j # i BY <1>1, <1>2, <1>4, <2>2 DEF Owes
  <2>3. CASE r # s BY <1>1, <1>2, <1>3, <2>3 DEF Owes
  <2> QED BY <2>1, <2>2, <2>3
<1>6. \A r \in Service, j \in Thread :
           (pc'[r][j] \in {"lockTable", "flood", "paused"}) =>
              pc[r][j] \in {"lockTable", "flood", "paused"}
  BY <1>1, <1>2
<1> QED BY <1>1, <1>5, <1>6, PaidFrame

\* The goroutine that returns from its pause has paid.
LEMMA PaidEndDelay ==
  ASSUME TypeOK, Paid, Guarded, NEW s \in Service, NEW i \in Thread, EndDelay(s, i)
  PROVE  Paid'
<1>1. /\ UNCHANGED <<sleepPhase, batch, slept>>
      /\ pc[s][i] = "paused" /\ poker[s] = "answered"
      /\ poker' = [poker EXCEPT ![s] = "idle"]
      /\ phase' = [phase EXCEPT ![s][i] = 0]
      /\ delayToDo' = [delayToDo EXCEPT ![s][i] = 0]
      /\ Goto(s, i, AfterPause(i))
  BY DEF EndDelay, ReleaseGuard, state, history, At
<1>2. /\ pc'[s][i] \in {"serve", "idle"}
      /\ \A r \in Service, j \in Thread : r # s \/ j # i => pc'[r][j] = pc[r][j]
  BY <1>1, Threads, GotoLabels DEF AfterPause, WorkerLabels, ControlLabels
<1>3. /\ phase \in [Service -> [Thread -> Nat]] /\ delayToDo \in [Service -> [Thread -> Nat]]
      /\ DOMAIN poker = Service
  BY DEF TypeOK
<1>4. \A r \in Service, j \in Thread : r # s \/ j # i =>
        phase'[r][j] = phase[r][j] /\ delayToDo'[r][j] = delayToDo[r][j]
  BY <1>1, <1>3
<1>5. poker'[s] = "idle" /\ \A r \in Service \ {s} : poker'[r] = poker[r] BY <1>1, <1>3
<1>6. \A j \in Thread : j # i => pc[s][j] # "paused" BY <1>1 DEF Guarded
<1>7. \A r \in Service, j \in Thread : \A p \in Nat : Owes(r, j, p)' <=> Owes(r, j, p)
  <2> TAKE r \in Service, j \in Thread
  <2>1. CASE r = s /\ j = i BY <1>1, <1>2, <2>1 DEF Owes
  <2>2. CASE r = s /\ j # i BY <1>2, <1>4, <1>6, <2>2 DEF Owes
  <2>3. CASE r # s BY <1>2, <1>4, <1>5, <2>3 DEF Owes
  <2> QED BY <2>1, <2>2, <2>3
<1>8. \A r \in Service, j \in Thread :
           (pc'[r][j] \in {"lockTable", "flood", "paused"}) =>
              /\ pc[r][j] \in {"lockTable", "flood", "paused"}
              /\ phase'[r][j] = phase[r][j] /\ delayToDo'[r][j] = delayToDo[r][j]
  BY <1>2, <1>4
<1> QED BY <1>1, <1>7, <1>8, PaidFrame

\* What the poker continues after is exactly what the guard's holder owes.
LEMMA Payment ==
  ASSUME TypeOK, Paid, Guarded, NEW s \in Service, poker[s] = "stopped"
  PROVE  /\ syncGuard[s] \in Thread /\ pc[s][syncGuard[s]] = "paused"
         /\ phase[s][syncGuard[s]] \in DOMAIN batch[s] \ DOMAIN slept[s]
         /\ phase[s][syncGuard[s]] \in Nat
         /\ pipe[s] = batch[s][phase[s][syncGuard[s]]]
         /\ \A j \in Thread : Owes(s, j, phase[s][syncGuard[s]]) => j = syncGuard[s]
<1>1. syncGuard[s] \in Thread /\ pc[s][syncGuard[s]] = "paused"
  <2>1. syncGuard[s] \in Thread \cup {NoThread} BY DEF TypeOK
  <2>2. syncGuard[s] # NoThread BY DEF Guarded
  <2> QED BY <2>1, <2>2 DEF Guarded
<1>2. PICK g \in Thread : g = syncGuard[s] BY <1>1
<1>3. PICK p \in Nat : p = phase[s][g] BY DEF TypeOK
<1>4. p \in DOMAIN batch[s] BY <1>1, <1>2, <1>3 DEF Paid, Books
<1>5. Owes(s, g, p) BY <1>1, <1>2, <1>3 DEF Owes
<1>6. Due(s, p) BY <1>4, <1>5 DEF Paid, BatchPaidOnce, Settled
<1>7. delayToDo[s][g] = batch[s][p] /\ p \notin DOMAIN slept[s]
      /\ \A j \in Thread : Owes(s, j, p) => j = g
  BY <1>5, <1>6 DEF Due
<1>8. pipe[s] = delayToDo[s][g] BY <1>2 DEF Guarded
<1> QED BY <1>1, <1>2, <1>3, <1>4, <1>7, <1>8

LEMMA PaidPokerContinue ==
  ASSUME TypeOK, Paid, Guarded, NEW s \in Service, PokerContinue(s)
  PROVE  Paid'
<1>1. /\ poker[s] = "stopped"
      /\ poker' = [poker EXCEPT ![s] = "answered"]
      /\ slept' = [slept EXCEPT ![s] = With(@, phase[s][syncGuard[s]], pipe[s])]
      /\ UNCHANGED <<sleepPhase, batch, pc, phase, delayToDo, syncGuard>>
  BY DEF PokerContinue, state, locks, locals
<1>2. PICK g \in Thread : g = syncGuard[s] BY <1>1, Payment
<1>3. PICK p \in Nat : p = phase[s][g] BY DEF TypeOK
<1>4. /\ pc[s][g] = "paused" /\ p \in DOMAIN batch[s] \ DOMAIN slept[s]
      /\ pipe[s] = batch[s][p] /\ \A j \in Thread : Owes(s, j, p) => j = g
  BY <1>1, <1>2, <1>3, Payment
<1>5. /\ DOMAIN slept'[s] = DOMAIN slept[s] \cup {p}
      /\ slept'[s][p] = batch[s][p]
      /\ \A q \in DOMAIN slept[s] : slept'[s][q] = slept[s][q]
      /\ \A r \in Service \ {s} : slept'[r] = slept[r]
  BY <1>1, <1>2, <1>3, <1>4 DEF With, TypeOK
<1>6. poker'[s] = "answered" /\ \A r \in Service \ {s} : poker'[r] = poker[r]
  BY <1>1 DEF TypeOK
<1>7. \A j \in Thread : j # g => pc[s][j] # "paused" BY <1>2 DEF Guarded
<1>8. \A r \in Service, j \in Thread : \A q \in Nat :
        Owes(r, j, q)' <=> Owes(r, j, q) /\ ~ (r = s /\ q = p)
  <2> TAKE r \in Service, j \in Thread
  <2>1. CASE r = s /\ j = g BY <1>1, <1>3, <1>4, <1>6, <2>1 DEF Owes
  <2>2. CASE r = s /\ j # g
    <3>1. ~ Owes(s, j, p) BY <1>4, <2>2
    <3> QED BY <1>1, <1>7, <2>2, <3>1 DEF Owes
  <2>3. CASE r # s BY <1>1, <1>6, <2>3 DEF Owes
  <2> QED BY <2>1, <2>2, <2>3
<1>9. Books'
  BY <1>1, <1>4, <1>5 DEF Paid, Books
<1>10. BatchPaidOnce'
  <2> SUFFICES ASSUME NEW r \in Service, NEW q \in DOMAIN batch'[r]
               PROVE  Settled(r, q)' \/ Due(r, q)'
    BY DEF BatchPaidOnce
  <2>1. q \in Nat /\ q \in DOMAIN batch[r] /\ batch' = batch BY <1>1 DEF Paid, Books
  <2>2. CASE r = s /\ q = p
    <3>1. \A j \in Thread : ~ Owes(s, j, p)' BY <1>8
    <3> QED BY <1>1, <1>5, <2>2, <3>1 DEF Settled
  <2>3. CASE r # s \/ q # p
    <3>1. \A j \in Thread : Owes(r, j, q)' <=> Owes(r, j, q) BY <1>8, <2>1, <2>3
    <3>2. /\ q \in DOMAIN slept'[r] <=> q \in DOMAIN slept[r]
          /\ q \in DOMAIN slept[r] => slept'[r][q] = slept[r][q]
      BY <1>5, <2>3
    <3>3. CASE Settled(r, q) BY <2>1, <3>1, <3>2, <3>3 DEF Settled
    <3>4. CASE Due(r, q)
      <4>1. q \notin DOMAIN slept'[r] BY <3>2, <3>4 DEF Due
      <4>2. PICK k \in Thread :
              /\ Owes(r, k, q) /\ delayToDo[r][k] = batch[r][q]
              /\ \A j \in Thread : Owes(r, j, q) => j = k
        BY <3>4 DEF Due
      <4>3. delayToDo'[r][k] = batch'[r][q] BY <1>1, <4>2
      <4> QED BY <3>1, <4>1, <4>2, <4>3 DEF Due
    <3> QED BY <2>1, <3>3, <3>4 DEF Paid, BatchPaidOnce
  <2> QED BY <2>2, <2>3
<1> QED BY <1>9, <1>10 DEF Paid

LEMMA PaidPokerStop ==
  ASSUME TypeOK, Paid, NEW s \in Service, PokerStop(s)
  PROVE  Paid'
<1>1. /\ poker[s] = "asked" /\ poker' = [poker EXCEPT ![s] = "stopped"]
      /\ UNCHANGED <<sleepPhase, batch, slept, pc, phase, delayToDo>>
  BY DEF PokerStop, state, locals, history
<1>2. poker'[s] = "stopped" /\ \A r \in Service \ {s} : poker'[r] = poker[r]
  BY <1>1 DEF TypeOK
<1>3. \A r \in Service, j \in Thread : \A p \in Nat : Owes(r, j, p)' <=> Owes(r, j, p)
  <2> TAKE r \in Service, j \in Thread
  <2>1. CASE r = s BY <1>1, <1>2, <2>1 DEF Owes
  <2>2. CASE r # s BY <1>1, <1>2, <2>2 DEF Owes
  <2> QED BY <2>1, <2>2
<1> QED BY <1>1, <1>3, PaidFrame

LEMMA PaidStep == TypeOK /\ Guarded /\ Paid /\ [Next]_vars => Paid'
<1> SUFFICES ASSUME TypeOK, Guarded, Paid, [Next]_vars PROVE Paid' OBVIOUS
<1>1. CASE UNCHANGED vars
  <2>1. UNCHANGED <<sleepPhase, batch, slept, poker, pc, phase, delayToDo>>
    BY <1>1 DEF vars, state, locals, pokerVars, history
  <2>2. \A r \in Service, j \in Thread : \A p \in Nat : Owes(r, j, p)' <=> Owes(r, j, p)
    BY <2>1 DEF Owes
  <2> QED BY <2>1, <2>2, PaidFrame
<1>2. ASSUME NEW s \in Service, NEW w \in Worker, WorkerStep(s, w) PROVE Paid'
  BY <1>2, PaidPokerPPDelay, PaidOrdinary, Threads DEF WorkerStep, OrdinaryStep
<1>3. ASSUME NEW s \in Service, NEW t \in Service, Receive(s, t) PROVE Paid'
  BY <1>3, PaidReceive
<1>4. ASSUME NEW s \in Service, NEW i \in Thread, ThreadStep(s, i) PROVE Paid'
  BY <1>4, PaidOrdinary, PaidTakeDelay, PaidFlood, PaidDoDelay, PaidEndDelay
  DEF ThreadStep, OrdinaryStep
<1>5. ASSUME NEW s \in Service, PokerStep(s) PROVE Paid'
  BY <1>5, PaidPokerStop, PaidPokerContinue DEF PokerStep
<1> QED BY <1>1, <1>2, <1>3, <1>4, <1>5 DEF Next, Idle

\* A batch is slept once and in full, by one goroutine, however often its phase
\* is announced (pause.go:97-119, utils.go:257-278).
THEOREM BatchesPaidOnce == Spec => []BatchPaidOnce
<1>1. Paid => BatchPaidOnce BY DEF Paid
<1> QED BY <1>1, TypeInit, TypeStep, GuardedInit, GuardedStep, PaidInit, PaidStep, PTL DEF Spec

-----------------------------------------------------------------------------
(* The protocol implements the contract. *)

Inv == TypeOK /\ Led /\ Guarded /\ Paid

LEMMA InvInit == Init => Inv
BY TypeInit, LedInit, GuardedInit, PaidInit DEF Inv

LEMMA InvStep == Inv /\ [Next]_vars => Inv'
BY TypeStep, LedStep, GuardedStep, PaidStep DEF Inv

LEMMA RefineInit == Init => Contract!Init
BY DEF Init, Contract!Init

LEMMA RefineTakeDelay ==
  ASSUME Inv, NEW s \in Service, NEW i \in Thread, TakeDelay(s, i)
  PROVE  Contract!Next \/ UNCHANGED Contract!vars
<1>1. CASE NewPhase(s, phase[s][i])
  <2>1. PICK p \in Nat : p = phase[s][i] BY DEF Inv, TypeOK
  <2>2. /\ p > sleepPhase[s]
        /\ sleepPhase' = [sleepPhase EXCEPT ![s] = p]
        /\ batch' = [batch EXCEPT ![s] = With(@, p, accumulatedDelay[s])]
        /\ accumulatedDelay' = [accumulatedDelay EXCEPT ![s] = 0]
        /\ reqcount' = [reqcount EXCEPT ![s] = 0]
        /\ slept' = slept
    BY <1>1, <2>1 DEF TakeDelay, NewPhase, ResetCounters
  <2>3. /\ sleepPhase[s] \in Nat /\ sleepPhase[Target] \in Nat
    BY PauseAssumption DEF Inv, TypeOK
  <2>4. p <= sleepPhase[Target] \/ (s = Target /\ p = sleepPhase[Target] + 1 /\ reqcount[s] > Threshold)
    BY <2>1 DEF Inv, Led, Starting
  <2>5. Contract!MayJoin(s, p) BY <2>2, <2>3, <2>4 DEF Contract!MayJoin
  <2>6. Contract!Join(s, p)
    BY <2>2, <2>5 DEF Contract!Join, Contract!With, With
  <2>7. p \in 1 .. sleepPhase[Target] + 1 BY <2>2, <2>3, <2>4
  <2> QED BY <2>6, <2>7 DEF Contract!Next
<1>2. CASE ~ NewPhase(s, phase[s][i])
  BY <1>2 DEF TakeDelay, Contract!vars
<1> QED BY <1>1, <1>2

LEMMA RefinePokerStep ==
  ASSUME Inv, NEW s \in Service, PokerStep(s)
  PROVE  Contract!Next \/ UNCHANGED Contract!vars
<1>1. CASE PokerStop(s)
  BY <1>1 DEF PokerStop, Contract!vars, state, history
<1>2. CASE PokerContinue(s)
  <2>1. /\ poker[s] = "stopped"
        /\ slept' = [slept EXCEPT ![s] = With(@, phase[s][syncGuard[s]], pipe[s])]
        /\ UNCHANGED <<sleepPhase, reqcount, accumulatedDelay, batch>>
    BY <1>2 DEF PokerContinue, state
  <2>2. PICK p \in Nat : p = phase[s][syncGuard[s]] BY <2>1, Payment DEF Inv
  <2>3. p \in DOMAIN batch[s] \ DOMAIN slept[s] /\ pipe[s] = batch[s][p]
    BY <2>1, <2>2, Payment DEF Inv
  <2>4. Contract!Sleep(s, p)
    BY <2>1, <2>2, <2>3 DEF Contract!Sleep, Contract!With, With
  <2> QED BY <2>3, <2>4 DEF Contract!Next, Contract!SleepSome
<1> QED BY <1>1, <1>2 DEF PokerStep

LEMMA RefineStep == Inv /\ [Next]_vars => [Contract!Next]_(Contract!vars)
<1> SUFFICES ASSUME Inv, [Next]_vars PROVE Contract!Next \/ UNCHANGED Contract!vars OBVIOUS
<1>1. CASE UNCHANGED vars
  BY <1>1 DEF Contract!vars, vars, state, history
<1>2. ASSUME NEW s \in Service, NEW w \in Worker, WorkerStep(s, w)
      PROVE  Contract!Next \/ UNCHANGED Contract!vars
  <2>1. CASE PokerPPDelay(s, w)
    <3>1. Contract!Charge(s) BY <2>1 DEF PokerPPDelay, Contract!Charge
    <3> QED BY <3>1 DEF Contract!Next
  <2>2. CASE OrdinaryStep(s, w)
    BY <2>2, OrdinaryFrame, Threads DEF Inv, Contract!vars
  <2> QED BY <1>2, <2>1, <2>2 DEF WorkerStep, OrdinaryStep
<1>3. ASSUME NEW s \in Service, NEW t \in Service, Receive(s, t)
      PROVE  Contract!Next \/ UNCHANGED Contract!vars
  BY <1>3 DEF Receive, Contract!vars, state, history
<1>4. ASSUME NEW s \in Service, NEW i \in Thread, ThreadStep(s, i)
      PROVE  Contract!Next \/ UNCHANGED Contract!vars
  <2>1. CASE OrdinaryStep(s, i)
    BY <2>1, OrdinaryFrame DEF Inv, Contract!vars
  <2>2. CASE LockTable(s, i) \/ RequestPause(s, i) \/ DoDelay(s, i) \/ EndDelay(s, i)
    BY <2>2 DEF LockTable, RequestPause, DoDelay, EndDelay, ReleaseGuard, Contract!vars, state, history
  <2>3. CASE TakeDelay(s, i) BY <2>3, RefineTakeDelay
  <2> QED BY <1>4, <2>1, <2>2, <2>3 DEF ThreadStep, OrdinaryStep
<1>5. ASSUME NEW s \in Service, PokerStep(s)
      PROVE  Contract!Next \/ UNCHANGED Contract!vars
  BY <1>5, RefinePokerStep
<1> QED BY <1>1, <1>2, <1>3, <1>4, <1>5 DEF Next, Idle

\* Every behaviour of the protocol is one the contract allows: phases are started
\* by a full batch at the target and joined by the others, and what a service
\* sleeps for a phase is what it took for it, once.
THEOREM Implementation == Spec => Contract!Spec
BY InvInit, InvStep, RefineInit, RefineStep, PTL DEF Spec, Contract!Spec

-----------------------------------------------------------------------------
(***************************************************************************)
(* Nobody is left out of a pause: registrations are mutual, and whoever is *)
(* about to be stopped has told every neighbour.                           *)
(***************************************************************************)

\* A message that satisfies a condition is under way: what writing and reading
\* a connection does to this.
LEMMA InAppend ==
  ASSUME NEW seq \in Seq(Message), NEW m \in Message
  PROVE  /\ \E k \in 1 .. Len(Append(seq, m)) : Append(seq, m)[k] = m
         /\ \A k \in 1 .. Len(seq) : k \in 1 .. Len(Append(seq, m)) /\ Append(seq, m)[k] = seq[k]
         /\ \A k \in 1 .. Len(Append(seq, m)) :
              Append(seq, m)[k] = m \/ (k \in 1 .. Len(seq) /\ Append(seq, m)[k] = seq[k])
<1>1. /\ Len(Append(seq, m)) = Len(seq) + 1
      /\ \A k \in 1 .. Len(seq) : Append(seq, m)[k] = seq[k]
      /\ Append(seq, m)[Len(seq) + 1] = m
      /\ Len(seq) \in Nat
  BY AppendProperties, LenProperties
<1> QED BY <1>1

LEMMA InTail ==
  ASSUME NEW seq \in Seq(Message), seq # <<>>
  PROVE  /\ 1 \in 1 .. Len(seq) /\ Head(seq) = seq[1]
         /\ \A k \in 1 .. Len(seq) :
              seq[k] = Head(seq) \/ \E n \in 1 .. Len(Tail(seq)) : Tail(seq)[n] = seq[k]
         /\ \A n \in 1 .. Len(Tail(seq)) : \E k \in 1 .. Len(seq) : Tail(seq)[n] = seq[k]
<1>1. /\ Len(Tail(seq)) = Len(seq) - 1
      /\ \A k \in 1 .. Len(Tail(seq)) : Tail(seq)[k] = seq[k + 1]
      /\ Len(seq) \in Nat /\ Len(seq) # 0
      /\ Head(seq) = seq[1]
  BY HeadTailProperties, LenProperties, EmptySeq
<1>2. ASSUME NEW k \in 1 .. Len(seq)
      PROVE  seq[k] = Head(seq) \/ \E n \in 1 .. Len(Tail(seq)) : Tail(seq)[n] = seq[k]
  <2>1. CASE k = 1 BY <1>1, <2>1
  <2>2. CASE k # 1
    <3>1. k - 1 \in 1 .. Len(Tail(seq)) /\ (k - 1) + 1 = k BY <1>1, <2>2
    <3> QED BY <1>1, <3>1
  <2> QED BY <2>1, <2>2
<1>3. ASSUME NEW n \in 1 .. Len(Tail(seq))
      PROVE  \E k \in 1 .. Len(seq) : Tail(seq)[n] = seq[k]
  <2>1. n + 1 \in 1 .. Len(seq) /\ Tail(seq)[n] = seq[n + 1] BY <1>1
  <2> QED BY <2>1
<1> QED BY <1>1, <1>2, <1>3

-----------------------------------------------------------------------------
(* Registrations. *)

RegisterLabels == {"lookup", "lock", "dial"}

\* RegisteredBothWays, strengthened: a control goroutine dials the service it
\* serves, and who registers with a service holds a connection to it already.
Mutual ==
  /\ RegisteredBothWays
  /\ \A s, t \in Service : pc[s][t] \in RegisterLabels => peer[s][t] = t /\ s \in neighbors[t]
  /\ \A s, t \in Service : \A k \in 1 .. Len(conn[s][t]) :
       conn[s][t][k].type = "register" => t \in neighbors[s]
  /\ \A s \in Service, w \in Worker :
       pc[s][w] \in {"getConn", "register"} => peer[s][w] \in neighbors[s]

LEMMA MutualInit == Init => Mutual
<1> SUFFICES ASSUME Init PROVE Mutual OBVIOUS
<1>1. \A s, t \in Service : Len(conn[s][t]) = 0 BY DEF Init
<1>2. \A s \in Service : neighbors[s] = {} /\ \A i \in Thread : pc[s][i] = "idle" BY DEF Init
<1> QED BY <1>1, <1>2, Threads DEF Mutual, RegisteredBothWays, RegisterLabels

\* What may change without harm to Mutual: labels that are not about registering.
RegisterPlaces == RegisterLabels \cup {"getConn", "register"}
LEMMA MutualQuiet ==
  ASSUME TypeOK, Mutual, UNCHANGED <<neighbors, conn, peer>>,
         \A r \in Service, j \in Thread :
           pc'[r][j] = pc[r][j] \/ {pc[r][j], pc'[r][j]} \cap RegisterPlaces = {}
  PROVE  Mutual'
<1>1. \A r \in Service, j \in Thread, l \in RegisterPlaces : pc[r][j] = l <=> pc'[r][j] = l
  OBVIOUS
<1>2. \A s, t \in Service : Registering(s, t) => Registering(s, t)'
  BY <1>1, Threads DEF Registering, RegisterPlaces, RegisterLabels
<1>3. RegisteredBothWays' BY <1>2 DEF Mutual, RegisteredBothWays, TypeOK
<1>4. \A s, t \in Service : pc'[s][t] \in RegisterLabels => pc[s][t] \in RegisterLabels
  BY <1>1, Threads DEF RegisterPlaces, RegisterLabels
<1>5. \A s \in Service, w \in Worker :
        pc'[s][w] \in {"getConn", "register"} => pc[s][w] \in {"getConn", "register"}
  BY <1>1, Threads DEF RegisterPlaces
<1> QED BY <1>3, <1>4, <1>5 DEF Mutual

\* Steps of one goroutine that leave the connections alone and do not end
\* a registration before the service is known.
LEMMA MutualGoto ==
  ASSUME TypeOK, Mutual, NEW s \in Service, NEW i \in Thread, NEW l \in WorkerLabels,
         Goto(s, i, l), i \in Service => l \in ControlLabels,
         UNCHANGED <<neighbors, conn, peer>>,
         l \in RegisterLabels /\ i \in Service => pc[s][i] \in RegisterLabels,
         l \in {"getConn", "register"} => pc[s][i] \in {"getConn", "register"},
         i \in Worker /\ pc[s][i] \in {"getConn", "register"} => l \in {"getConn", "register"},
         i \in Service /\ pc[s][i] \in RegisterLabels =>
           l \in RegisterLabels \/ i \in neighbors[s]
  PROVE  Mutual'
<1>1. /\ pc'[s][i] = l
      /\ \A r \in Service, j \in Thread : r # s \/ j # i => pc'[r][j] = pc[r][j]
  BY GotoLabels
<1>2. ASSUME NEW u \in Service, NEW t \in neighbors[u], t \in Service, u \notin neighbors[t]
      PROVE  Registering(u, t)'
  <2>1. Registering(u, t) BY <1>2 DEF Mutual, RegisteredBothWays
  <2>2. CASE \E w \in Worker : peer[u][w] = t /\ pc[u][w] \in {"getConn", "register"}
    <3> PICK w \in Worker : peer[u][w] = t /\ pc[u][w] \in {"getConn", "register"} BY <2>2
    <3>1. pc'[u][w] \in {"getConn", "register"} BY <1>1, Threads
    <3> QED BY <3>1 DEF Registering
  <2>3. CASE \E k \in 1 .. Len(conn[u][t]) : conn[u][t][k] = Register
    BY <2>3 DEF Registering
  <2>4. CASE pc[t][u] \in RegisterLabels
    <3>1. pc'[t][u] \in RegisterLabels BY <1>1, <1>2, <2>4, Threads
    <3> QED BY <3>1 DEF Registering, RegisterLabels
  <2> QED BY <2>1, <2>2, <2>3, <2>4 DEF Registering, RegisterLabels
<1>3. RegisteredBothWays'
  BY <1>2 DEF TypeOK, RegisteredBothWays
<1>4. \A r, t \in Service : pc'[r][t] \in RegisterLabels => pc[r][t] \in RegisterLabels
  BY <1>1, Threads
<1>5. \A r \in Service, w \in Worker :
        pc'[r][w] \in {"getConn", "register"} => pc[r][w] \in {"getConn", "register"}
  BY <1>1, Threads
<1> QED BY <1>3, <1>4, <1>5 DEF Mutual

LEMMA MutualLookupOrLock ==
  ASSUME TypeOK, Mutual, NEW s \in Service, NEW i \in Thread,
         LookupNeighbor(s, i) \/ LockNeighbors(s, i)
  PROVE  Mutual'
<1>1. UNCHANGED <<neighbors, conn, peer>> /\ pc[s][i] \in RegisterLabels
  BY DEF LookupNeighbor, LockNeighbors, net, At, RegisterLabels
<1>2. PICK l \in {"idle", "lock", "dial"} :
        Goto(s, i, l) /\ (l = "idle" => peer[s][i] \in neighbors[s])
  BY DEF LookupNeighbor, LockNeighbors
<1>3. i \in Service => peer[s][i] = i BY <1>1 DEF Mutual
<1> QED BY <1>1, <1>2, <1>3, MutualGoto, Threads DEF WorkerLabels, ControlLabels, RegisterLabels

\* The service that is dialled has registered before, or is going to be told.
LEMMA MutualDial ==
  ASSUME TypeOK, Mutual, NEW s \in Service, NEW i \in Thread, DialNeighbor(s, i)
  PROVE  Mutual'
<1> DEFINE p == peer[s][i]
<1>1. /\ UNCHANGED <<conn, peer>> /\ pc[s][i] = "dial"
      /\ neighbors' = [neighbors EXCEPT ![s] = @ \cup {p}]
      /\ Goto(s, i, AfterDial(i))
  BY DEF DialNeighbor, At
<1>2. /\ neighbors \in [Service -> SUBSET Service] /\ p \in Service
      /\ neighbors'[s] = neighbors[s] \cup {p}
      /\ \A r \in Service : neighbors[r] \subseteq neighbors'[r] /\ (r # s => neighbors'[r] = neighbors[r])
  <2>1. neighbors \in [Service -> SUBSET Service] /\ peer[s][i] \in Service BY DEF TypeOK
  <2> QED BY <1>1, <2>1
<1>3. /\ pc'[s][i] = AfterDial(i)
      /\ \A r \in Service, j \in Thread : r # s \/ j # i => pc'[r][j] = pc[r][j]
  BY <1>1, GotoLabels, Threads DEF AfterDial, WorkerLabels, ControlLabels
<1>4. i \in Service => p = i /\ s \in neighbors[i]
  BY <1>1 DEF Mutual, RegisterLabels
<1>5. ASSUME NEW u \in Service, NEW t \in Service, t \in neighbors'[u], u \notin neighbors'[t]
      PROVE  Registering(u, t)'
  <2>1. CASE t \in neighbors[u]
    <3>1. Registering(u, t) BY <1>2, <1>5, <2>1 DEF Mutual, RegisteredBothWays
    <3>2. CASE \E w \in Worker : peer[u][w] = t /\ pc[u][w] \in {"getConn", "register"}
      BY <1>1, <1>3, <3>2, Threads DEF Registering
    <3>3. CASE \E k \in 1 .. Len(conn[u][t]) : conn[u][t][k] = Register
      BY <1>1, <3>3 DEF Registering
    <3>4. CASE pc[t][u] \in RegisterLabels
      <4>1. t # s \/ u # i BY <1>2, <1>4, <1>5
      <4>2. pc'[t][u] = pc[t][u] BY <1>3, <4>1, Threads
      <4> QED BY <3>4, <4>2 DEF Registering, RegisterLabels
    <3> QED BY <3>1, <3>2, <3>3, <3>4 DEF Registering, RegisterLabels
  <2>2. CASE t \notin neighbors[u]
    <3>1. u = s /\ t = p BY <1>2, <1>5, <2>2
    <3>2. i \in Worker BY <1>2, <1>4, <1>5, <3>1 DEF Thread
    <3>3. pc'[s][i] = "getConn" /\ peer'[s][i] = t BY <1>1, <1>3, <3>1, <3>2 DEF AfterDial
    <3> QED BY <3>1, <3>2, <3>3 DEF Registering
  <2> QED BY <2>1, <2>2
<1>6. RegisteredBothWays' BY <1>2, <1>5 DEF RegisteredBothWays
<1>7. \A r, t \in Service : pc'[r][t] \in RegisterLabels => pc[r][t] \in RegisterLabels
  BY <1>3, Threads DEF AfterDial, RegisterLabels
<1>8. \A r, t \in Service : pc'[r][t] \in RegisterLabels => peer'[r][t] = t /\ r \in neighbors'[t]
  BY <1>1, <1>2, <1>7 DEF Mutual
<1>9. \A r, t \in Service : \A k \in 1 .. Len(conn'[r][t]) :
        conn'[r][t][k].type = "register" => t \in neighbors'[r]
  BY <1>1, <1>2 DEF Mutual
<1>10. ASSUME NEW r \in Service, NEW w \in Worker, pc'[r][w] \in {"getConn", "register"}
       PROVE  peer'[r][w] \in neighbors'[r]
  <2>1. CASE r = s /\ w = i BY <1>1, <1>2, <2>1
  <2>2. CASE r # s \/ w # i BY <1>1, <1>2, <1>3, <1>10, <2>2, Threads DEF Mutual
  <2> QED BY <2>1, <2>2
<1> QED BY <1>6, <1>8, <1>9, <1>10 DEF Mutual

LEMMA MutualSendRegister ==
  ASSUME TypeOK, Mutual, NEW s \in Service, NEW w \in Worker, SendRegister(s, w)
  PROVE  Mutual'
<1> DEFINE p == peer[s][w]
<1>1. /\ UNCHANGED <<neighbors, peer>> /\ pc[s][w] = "register" /\ Goto(s, w, "idle")
      /\ conn' = [conn EXCEPT ![s][p] = Append(@, Register)]
  BY DEF SendRegister, At
<1>2. p \in Service /\ p \in neighbors[s] /\ Register \in Message /\ Register.type = "register"
  BY <1>1, Threads DEF TypeOK, Mutual, Register, Message
<1>3. /\ conn \in [Service -> [Service -> Seq(Message)]]
      /\ conn'[s][p] = Append(conn[s][p], Register)
      /\ \A r, u \in Service : r # s \/ u # p => conn'[r][u] = conn[r][u]
  BY <1>1, <1>2, WriteType DEF TypeOK
<1>4. /\ pc'[s][w] = "idle"
      /\ \A r \in Service, j \in Thread : r # s \/ j # w => pc'[r][j] = pc[r][j]
  BY <1>1, GotoLabels, Threads DEF WorkerLabels
<1>5. conn[s][p] \in Seq(Message) BY <1>2, <1>3
<1>6. \E k \in 1 .. Len(conn'[s][p]) : conn'[s][p][k] = Register
  <2> HIDE DEF p
  <2>1. \E k \in 1 .. Len(Append(conn[s][p], Register)) : Append(conn[s][p], Register)[k] = Register
    BY <1>2, <1>5, InAppend
  <2> QED BY <1>3, <2>1
<1>7. ASSUME NEW u \in Service, NEW t \in Service, t \in neighbors[u], u \notin neighbors[t]
      PROVE  Registering(u, t)'
  <2>1. Registering(u, t) BY <1>7 DEF Mutual, RegisteredBothWays
  <2>2. CASE u = s /\ t = p BY <1>6, <2>2 DEF Registering
  <2>3. CASE u # s \/ t # p
    <3>1. CASE \E v \in Worker : peer[u][v] = t /\ pc[u][v] \in {"getConn", "register"}
      BY <1>1, <1>4, <2>3, <3>1, Threads DEF Registering
    <3>2. CASE \E k \in 1 .. Len(conn[u][t]) : conn[u][t][k] = Register
      BY <1>3, <2>3, <3>2 DEF Registering
    <3>3. CASE pc[t][u] \in RegisterLabels
      BY <1>4, <3>3, Threads DEF Registering, RegisterLabels
    <3> QED BY <2>1, <3>1, <3>2, <3>3 DEF Registering, RegisterLabels
  <2> QED BY <2>2, <2>3
<1>8. RegisteredBothWays' BY <1>1, <1>7 DEF RegisteredBothWays, TypeOK
<1>9. \A r, t \in Service : \A k \in 1 .. Len(conn'[r][t]) :
        conn'[r][t][k].type = "register" => t \in neighbors'[r]
  <2> TAKE r \in Service, t \in Service
  <2>1. CASE r = s /\ t = p BY <1>1, <1>2, <2>1
  <2>2. CASE r # s \/ t # p BY <1>1, <1>3, <2>2 DEF Mutual
  <2> QED BY <2>1, <2>2
<1>10. \A r, t \in Service : pc'[r][t] = pc[r][t] BY <1>4, Threads
<1>11. \A r \in Service, v \in Worker :
         pc'[r][v] \in {"getConn", "register"} => pc'[r][v] = pc[r][v]
  BY <1>4, Threads
<1> QED BY <1>1, <1>8, <1>9, <1>10, <1>11 DEF Mutual

LEMMA MutualReceive ==
  ASSUME TypeOK, Mutual, NEW s \in Service, NEW t \in Service, Receive(s, t)
  PROVE  Mutual'
<1>1. /\ conn[t][s] # <<>> /\ conn' = [conn EXCEPT ![t][s] = Tail(@)]
      /\ UNCHANGED neighbors /\ pc[s][t] = "idle"
  BY DEF Receive, At
<1>2. /\ conn \in [Service -> [Service -> Seq(Message)]] /\ t \in Thread /\ t \notin Worker
      /\ peer \in [Service -> [Thread -> Service]]
  BY Threads DEF TypeOK
<1> DEFINE m == Head(conn[t][s])
<1>3. /\ m \in Message /\ conn'[t][s] = Tail(conn[t][s])
      /\ \A r, u \in Service : r # t \/ u # s => conn'[r][u] = conn[r][u]
  BY <1>1, ReadType
<1>4. \/ m.type = "pause" /\ Goto(s, t, "handlePause") /\ UNCHANGED peer
      \/ m.type = "register" /\ Goto(s, t, "lookup") /\ peer' = [peer EXCEPT ![s][t] = t]
  BY <1>3 DEF Receive, Message
<1>5. /\ \A r \in Service, j \in Thread : r # s \/ j # t => pc'[r][j] = pc[r][j] /\ peer'[r][j] = peer[r][j]
      /\ m.type = "pause" => pc'[s][t] = "handlePause"
      /\ m.type = "register" => pc'[s][t] = "lookup" /\ peer'[s][t] = t
  <2>1. \A r \in Service, j \in Thread : r # s \/ j # t => pc'[r][j] = pc[r][j]
    BY <1>2, <1>4, GotoLabels DEF WorkerLabels, ControlLabels
  <2>2. \A r \in Service, j \in Thread : r # s \/ j # t => peer'[r][j] = peer[r][j]
    <3>1. peer' = peer \/ peer' = [peer EXCEPT ![s][t] = t] BY <1>4
    <3>2. peer \in [Service -> [Thread -> Service]] BY <1>2
    <3>3. CASE peer' = peer BY <3>3
    <3>4. CASE peer' = [peer EXCEPT ![s][t] = t] BY <3>2, <3>4
    <3> QED BY <3>1, <3>3, <3>4
  <2>3. m.type = "pause" => pc'[s][t] = "handlePause"
    BY <1>2, <1>4, GotoLabels DEF WorkerLabels, ControlLabels
  <2>4. m.type = "register" => pc'[s][t] = "lookup" /\ peer'[s][t] = t
    <3> SUFFICES ASSUME m.type = "register" PROVE pc'[s][t] = "lookup" /\ peer'[s][t] = t
      OBVIOUS
    <3>1. Goto(s, t, "lookup") /\ peer' = [peer EXCEPT ![s][t] = t] BY <1>4
    <3>2. pc'[s][t] = "lookup" BY <1>2, <3>1, GotoLabels DEF WorkerLabels, ControlLabels
    <3>3. peer'[s][t] = t BY <1>2, <3>1
    <3> QED BY <3>2, <3>3
  <2> QED BY <2>1, <2>2, <2>3, <2>4
<1>6. /\ m = conn[t][s][1] /\ 1 \in 1 .. Len(conn[t][s])
      /\ \A k \in 1 .. Len(conn[t][s]) :
           conn[t][s][k] = m \/ \E n \in 1 .. Len(conn'[t][s]) : conn'[t][s][n] = conn[t][s][k]
      /\ \A n \in 1 .. Len(conn'[t][s]) : \E k \in 1 .. Len(conn[t][s]) : conn'[t][s][n] = conn[t][s][k]
  <2>1. conn[t][s] \in Seq(Message) BY <1>2
  <2> QED BY <1>1, <1>3, <2>1, InTail
<1>7. m.type = "register" => s \in neighbors[t]
  BY <1>6 DEF Mutual
<1>8. ASSUME NEW u \in Service, NEW v \in Service, v \in neighbors[u], u \notin neighbors[v]
      PROVE  Registering(u, v)'
  <2>1. Registering(u, v) BY <1>8 DEF Mutual, RegisteredBothWays
  <2>2. CASE \E w \in Worker : peer[u][w] = v /\ pc[u][w] \in {"getConn", "register"}
    BY <1>2, <1>5, <2>2, Threads DEF Registering
  <2>3. CASE \E k \in 1 .. Len(conn[u][v]) : conn[u][v][k] = Register
    <3>1. CASE u = t /\ v = s
      <4>1. CASE \E n \in 1 .. Len(conn'[t][s]) : conn'[t][s][n] = Register
        BY <3>1, <4>1 DEF Registering
      <4>2. CASE m = Register
        BY <1>5, <3>1, <4>2 DEF Registering, Register
      <4>3. PICK k \in 1 .. Len(conn[t][s]) : conn[t][s][k] = Register BY <2>3, <3>1
      <4>4. conn[t][s][k] = m \/ \E n \in 1 .. Len(conn'[t][s]) : conn'[t][s][n] = conn[t][s][k]
        BY <1>6
      <4> QED BY <4>1, <4>2, <4>3, <4>4
    <3>2. CASE u # t \/ v # s
      BY <1>3, <2>3, <3>2 DEF Registering
    <3> QED BY <3>1, <3>2
  <2>4. CASE pc[v][u] \in RegisterLabels
    <3>1. v # s \/ u # t BY <1>1, <2>4 DEF RegisterLabels
    <3> QED BY <1>5, <2>4, <3>1, Threads DEF Registering, RegisterLabels
  <2> QED BY <2>1, <2>2, <2>3, <2>4 DEF Registering, RegisterLabels
<1>9. RegisteredBothWays' BY <1>1, <1>8 DEF RegisteredBothWays, TypeOK
<1>10. \A r, u \in Service : pc'[r][u] \in RegisterLabels => peer'[r][u] = u /\ r \in neighbors'[u]
  <2> TAKE r \in Service, u \in Service
  <2>1. CASE r = s /\ u = t
    BY <1>1, <1>4, <1>5, <1>7, <2>1 DEF RegisterLabels
  <2>2. CASE r # s \/ u # t
    BY <1>1, <1>5, <2>2, Threads DEF Mutual
  <2> QED BY <2>1, <2>2
<1>11. \A r, u \in Service : \A k \in 1 .. Len(conn'[r][u]) :
        conn'[r][u][k].type = "register" => u \in neighbors'[r]
  <2> TAKE r \in Service, u \in Service
  <2>1. CASE r = t /\ u = s BY <1>1, <1>6, <2>1 DEF Mutual
  <2>2. CASE r # t \/ u # s BY <1>1, <1>3, <2>2 DEF Mutual
  <2> QED BY <2>1, <2>2
<1>12. \A r \in Service, w \in Worker : pc'[r][w] = pc[r][w] /\ peer'[r][w] = peer[r][w]
  BY <1>2, <1>5, Threads
<1> QED BY <1>1, <1>9, <1>10, <1>11, <1>12 DEF Mutual

LEMMA MutualTakeOrPause ==
  ASSUME TypeOK, Mutual, NEW s \in Service, NEW i \in Thread,
         TakeDelay(s, i) \/ LockTable(s, i) \/ DoDelay(s, i) \/ EndDelay(s, i)
  PROVE  Mutual'
<1>1. UNCHANGED <<neighbors, conn, peer>> /\ pc[s][i] \notin RegisterPlaces
  BY DEF TakeDelay, LockTable, DoDelay, EndDelay, net, At, RegisterPlaces, RegisterLabels
<1>2. Goto(s, i, "lockTable") \/ Goto(s, i, "flood") \/ Goto(s, i, "paused") \/ Goto(s, i, AfterPause(i))
  BY DEF TakeDelay, LockTable, DoDelay, EndDelay
<1>3. PICK l \in ControlLabels \cup {"serve"} :
        Goto(s, i, l) /\ l \notin RegisterPlaces /\ (i \in Service => l \in ControlLabels)
  BY <1>2, Threads DEF AfterPause, ControlLabels, WorkerLabels, RegisterPlaces, RegisterLabels
<1>4. pc'[s][i] = l /\ \A r \in Service, j \in Thread : r # s \/ j # i => pc'[r][j] = pc[r][j]
  BY <1>3, GotoLabels DEF WorkerLabels, ControlLabels
<1> QED BY <1>1, <1>3, <1>4, MutualQuiet

LEMMA MutualRequestPause ==
  ASSUME TypeOK, Mutual, NEW s \in Service, NEW i \in Thread, RequestPause(s, i)
  PROVE  Mutual'
<1>1. UNCHANGED <<neighbors, peer, pc>> BY DEF RequestPause
<1>2. PICK p \in todo[s][i] : conn' = [conn EXCEPT ![s][p] = Append(@, Pause(phase[s][i]))]
  BY DEF RequestPause
<1> DEFINE m == Pause(phase[s][i])
<1>3. p \in Service /\ m \in Message /\ m.type = "pause"
  BY DEF TypeOK, Pause, Message
<1>4. /\ conn \in [Service -> [Service -> Seq(Message)]]
      /\ conn'[s][p] = Append(conn[s][p], m)
      /\ \A r, u \in Service : r # s \/ u # p => conn'[r][u] = conn[r][u]
  BY <1>2, <1>3, WriteType DEF TypeOK
<1> HIDE DEF m
<1>5. conn[s][p] \in Seq(Message) BY <1>3, <1>4
<1>a. LET new == Append(conn[s][p], m) IN
      /\ \A k \in 1 .. Len(conn[s][p]) : k \in 1 .. Len(new) /\ new[k] = conn[s][p][k]
      /\ \A k \in 1 .. Len(new) : new[k] = m \/ (k \in 1 .. Len(conn[s][p]) /\ new[k] = conn[s][p][k])
  BY <1>3, <1>5, InAppend
<1>6. \A r, u \in Service : \A k \in 1 .. Len(conn[r][u]) :
        k \in 1 .. Len(conn'[r][u]) /\ conn'[r][u][k] = conn[r][u][k]
  <2> TAKE r \in Service, u \in Service
  <2>1. CASE r = s /\ u = p BY <1>4, <1>a, <2>1
  <2>2. CASE r # s \/ u # p BY <1>4, <2>2
  <2> QED BY <2>1, <2>2
<1>7. \A r, u \in Service : \A k \in 1 .. Len(conn'[r][u]) :
        \/ conn'[r][u][k] = m
        \/ k \in 1 .. Len(conn[r][u]) /\ conn'[r][u][k] = conn[r][u][k]
  <2> TAKE r \in Service, u \in Service
  <2>1. CASE r = s /\ u = p BY <1>4, <1>a, <2>1
  <2>2. CASE r # s \/ u # p BY <1>4, <2>2
  <2> QED BY <2>1, <2>2
<1>8. \A u, t \in Service : Registering(u, t) => Registering(u, t)'
  <2> TAKE u \in Service, t \in Service
  <2>1. (\E k \in 1 .. Len(conn[u][t]) : conn[u][t][k] = Register)
          => \E k \in 1 .. Len(conn'[u][t]) : conn'[u][t][k] = Register
    BY <1>6
  <2> QED BY <1>1, <2>1 DEF Registering
<1>9. RegisteredBothWays' BY <1>1, <1>8 DEF Mutual, RegisteredBothWays, TypeOK
<1>10. \A r, u \in Service : \A k \in 1 .. Len(conn'[r][u]) :
        conn'[r][u][k].type = "register" => u \in neighbors'[r]
  <2> TAKE r \in Service, u \in Service
  <2> TAKE k \in 1 .. Len(conn'[r][u])
  <2>1. CASE conn'[r][u][k] = m BY <1>3, <2>1
  <2>2. CASE k \in 1 .. Len(conn[r][u]) /\ conn'[r][u][k] = conn[r][u][k]
    <3>1. conn[r][u][k].type = "register" => u \in neighbors[r] BY <2>2 DEF Mutual
    <3> QED BY <1>1, <2>2, <3>1
  <2> QED BY <1>7, <2>1, <2>2
<1>11. \A r, u \in Service : pc'[r][u] \in RegisterLabels => peer'[r][u] = u /\ r \in neighbors'[u]
  BY <1>1 DEF Mutual
<1>12. \A r \in Service, w \in Worker :
         pc'[r][w] \in {"getConn", "register"} => peer'[r][w] \in neighbors'[r]
  BY <1>1 DEF Mutual
<1> QED BY <1>9, <1>10, <1>11, <1>12 DEF Mutual

LEMMA MutualStep == TypeOK /\ Mutual /\ [Next]_vars => Mutual'
<1> SUFFICES ASSUME TypeOK, Mutual, [Next]_vars PROVE Mutual' OBVIOUS
<1>1. CASE UNCHANGED vars
  BY <1>1, MutualQuiet DEF vars, net, locals
<1>2. ASSUME NEW s \in Service, NEW w \in Worker, WorkerStep(s, w) PROVE Mutual'
  <2>1. w \in Thread /\ w \notin Service BY Threads
  <2>2. CASE PokerPPDelay(s, w) \/ Respond(s, w) \/ GetConn(s, w)
    <3>1. PICK l \in {"handlePause", "serve", "idle", "register"} :
            /\ Goto(s, w, l) /\ UNCHANGED <<neighbors, conn, peer>>
            /\ (l = "register" <=> pc[s][w] \in {"getConn", "register"})
      BY <2>2 DEF PokerPPDelay, Respond, GetConn, At, net
    <3> QED BY <2>1, <3>1, MutualGoto DEF WorkerLabels, RegisterLabels
  <2>3. CASE Invoke(s, w)
    <3>1. UNCHANGED <<neighbors, conn>> /\ pc[s][w] = "serve" /\ Goto(s, w, "lookup")
      BY <2>3 DEF Invoke, At, net
    <3>2. PICK q \in Calls[s] : peer' = [peer EXCEPT ![s][w] = q] BY <2>3 DEF Invoke
    <3>3. \A r \in Service, j \in Thread : r # s \/ j # w => peer'[r][j] = peer[r][j]
      <4>1. peer \in [Service -> [Thread -> Service]] BY DEF TypeOK
      <4> QED BY <3>2, <4>1
    <3>4. /\ pc'[s][w] = "lookup"
          /\ \A r \in Service, j \in Thread : r # s \/ j # w => pc'[r][j] = pc[r][j]
      BY <2>1, <3>1, GotoLabels DEF WorkerLabels
    <3>5. \A r, t \in Service : pc'[r][t] = pc[r][t] /\ peer'[r][t] = peer[r][t]
      BY <2>1, <3>3, <3>4, Threads
    <3>6. \A r \in Service, v \in Worker :
            pc[r][v] \in {"getConn", "register"} \/ pc'[r][v] \in {"getConn", "register"} =>
              pc'[r][v] = pc[r][v] /\ peer'[r][v] = peer[r][v]
      BY <3>1, <3>3, <3>4, Threads
    <3>7. \A u, t \in Service : Registering(u, t) => Registering(u, t)'
      BY <3>1, <3>5, <3>6 DEF Registering
    <3>8. RegisteredBothWays' BY <3>1, <3>7 DEF Mutual, RegisteredBothWays, TypeOK
    <3>9. \A r, t \in Service : pc'[r][t] \in RegisterLabels => peer'[r][t] = t /\ r \in neighbors'[t]
      BY <3>1, <3>5 DEF Mutual
    <3>10. \A r \in Service, v \in Worker :
             pc'[r][v] \in {"getConn", "register"} => peer'[r][v] \in neighbors'[r]
      BY <3>1, <3>6 DEF Mutual
    <3> QED BY <3>1, <3>8, <3>9, <3>10 DEF Mutual
  <2>4. CASE SendRegister(s, w) BY <2>4, MutualSendRegister
  <2> QED BY <1>2, <2>2, <2>3, <2>4 DEF WorkerStep
<1>3. ASSUME NEW s \in Service, NEW t \in Service, Receive(s, t) PROVE Mutual'
  BY <1>3, MutualReceive
<1>4. ASSUME NEW s \in Service, NEW i \in Thread, ThreadStep(s, i) PROVE Mutual'
  BY <1>4, MutualLookupOrLock, MutualDial, MutualTakeOrPause, MutualRequestPause DEF ThreadStep
<1>5. ASSUME NEW s \in Service, PokerStep(s) PROVE Mutual'
  BY <1>5, MutualQuiet DEF PokerStep, PokerStop, PokerContinue, net, locals
<1> QED BY <1>1, <1>2, <1>3, <1>4, <1>5 DEF Next, Idle

\* Whoever holds a connection to a service is known to it, or will be once the
\* messages under way are handled: no race of two services that register with
\* each other, or of two goroutines of one, loses a registration (pause.go:29-73).
THEOREM Registered == Spec => []RegisteredBothWays
<1>1. Mutual => RegisteredBothWays BY DEF Mutual
<1> QED BY <1>1, TypeInit, TypeStep, MutualInit, MutualStep, PTL DEF Spec

-----------------------------------------------------------------------------
(* Telling the neighbours. *)

FloodLabels == {"flood", "paused"}

\* ToldBeforePause, strengthened: whoever is flooding has told every neighbour
\* that is no longer on its list, and holds the table so that none is added.
Holding ==
  /\ \A s \in Service, i \in Thread : pc[s][i] \in FloodLabels => i \in nlReaders[s]
  /\ \A s \in Service : nlReaders[s] = {} \/ nlWriter[s] = NoThread
  /\ \A s \in Service, i \in Thread : pc[s][i] = "dial" => nlWriter[s] = i

Telling ==
  /\ \A s \in Service, i \in Thread : pc[s][i] = "paused" => todo[s][i] = {}
  /\ \A s \in Service, i \in Thread : pc[s][i] \in FloodLabels =>
       \A t \in neighbors[s] \ todo[s][i] : Told(s, t, phase[s][i])

\* No goroutine is called NoThread.
LEMMA SomeThread == NoThread \notin Thread
BY PauseAssumption DEF Thread

LEMMA HoldingInit == Init => Holding /\ Telling
BY DEF Init, Holding, Telling, FloodLabels

\* What a step of one goroutine may do to the locks and labels.
LEMMA HoldingStep == TypeOK /\ Holding /\ [Next]_vars => Holding'
<1> SUFFICES ASSUME TypeOK, Holding, [Next]_vars PROVE Holding' OBVIOUS
<1>t. /\ nlReaders \in [Service -> SUBSET Thread]
      /\ nlWriter \in [Service -> Thread \cup {NoThread}]
  BY DEF TypeOK
<1>u. ASSUME UNCHANGED <<nlReaders, nlWriter>>, NEW s \in Service, NEW i \in Thread,
             NEW l \in WorkerLabels, Goto(s, i, l), i \in Service => l \in ControlLabels,
             l # "dial", l \in FloodLabels => pc[s][i] \in FloodLabels
      PROVE  Holding'
  <2>1. pc'[s][i] = l /\ \A r \in Service, j \in Thread : r # s \/ j # i => pc'[r][j] = pc[r][j]
    BY <1>u, GotoLabels
  <2> QED BY <1>u, <2>1 DEF Holding, FloodLabels
<1>v. ASSUME UNCHANGED <<nlReaders, nlWriter, pc>> PROVE Holding'
  BY <1>v DEF Holding
<1>1. CASE UNCHANGED vars
  BY <1>1, <1>v DEF vars, locks, locals
<1>2. ASSUME NEW s \in Service, NEW w \in Worker, WorkerStep(s, w) PROVE Holding'
  <2>1. w \in Thread /\ w \notin Service BY Threads
  <2>2. PICK l \in {"handlePause", "serve", "idle", "lookup", "register"} : Goto(s, w, l)
    BY <1>2 DEF WorkerStep, PokerPPDelay, Respond, Invoke, GetConn, SendRegister
  <2>3. UNCHANGED <<nlReaders, nlWriter>>
    BY <1>2 DEF WorkerStep, PokerPPDelay, Respond, Invoke, GetConn, SendRegister, locks
  <2> QED BY <1>u, <2>1, <2>2, <2>3 DEF WorkerLabels, FloodLabels
<1>3. ASSUME NEW s \in Service, NEW t \in Service, Receive(s, t) PROVE Holding'
  <2>1. UNCHANGED <<nlReaders, nlWriter>> /\ (Goto(s, t, "handlePause") \/ Goto(s, t, "lookup"))
    BY <1>3 DEF Receive, locks
  <2> QED BY <1>u, <2>1, Threads DEF WorkerLabels, ControlLabels, FloodLabels
<1>4. ASSUME NEW s \in Service, NEW i \in Thread, ThreadStep(s, i) PROVE Holding'
  <2>1. CASE LookupNeighbor(s, i) \/ TakeDelay(s, i) \/ DoDelay(s, i)
    <3>1. PICK l \in {"idle", "lock", "lockTable", "serve", "paused"} :
            /\ Goto(s, i, l) /\ (l = "serve" => i \in Worker)
            /\ (l = "paused" => pc[s][i] = "flood")
      BY <2>1 DEF LookupNeighbor, TakeDelay, DoDelay, AfterPause, At
    <3>2. UNCHANGED <<nlReaders, nlWriter>> BY <2>1 DEF LookupNeighbor, TakeDelay, DoDelay, locks
    <3> QED BY <1>u, <3>1, <3>2, Threads DEF WorkerLabels, ControlLabels, FloodLabels
  <2>2. CASE LockNeighbors(s, i)
    <3>1. /\ nlWriter[s] = NoThread /\ nlReaders[s] = {} /\ UNCHANGED nlReaders
          /\ \/ Goto(s, i, "idle") /\ UNCHANGED nlWriter
             \/ Goto(s, i, "dial") /\ nlWriter' = [nlWriter EXCEPT ![s] = i]
      BY <2>2 DEF LockNeighbors
    <3>2. CASE Goto(s, i, "idle") /\ UNCHANGED nlWriter
      BY <1>u, <3>1, <3>2 DEF WorkerLabels, ControlLabels, FloodLabels
    <3>3. CASE Goto(s, i, "dial") /\ nlWriter' = [nlWriter EXCEPT ![s] = i]
      <4>1. /\ pc'[s][i] = "dial"
            /\ \A r \in Service, j \in Thread : r # s \/ j # i => pc'[r][j] = pc[r][j]
        BY <3>3, GotoLabels DEF WorkerLabels, ControlLabels
      <4>2. nlWriter'[s] = i /\ \A r \in Service : r # s => nlWriter'[r] = nlWriter[r]
        BY <1>t, <3>3
      <4>3. \A j \in Thread : pc[s][j] # "dial" BY <3>1, SomeThread DEF Holding
      <4> QED BY <3>1, <4>1, <4>2, <4>3 DEF Holding, FloodLabels
    <3> QED BY <3>1, <3>2, <3>3
  <2>3. CASE DialNeighbor(s, i)
    <3>1. /\ pc[s][i] = "dial" /\ UNCHANGED nlReaders
          /\ nlWriter' = [nlWriter EXCEPT ![s] = NoThread] /\ Goto(s, i, AfterDial(i))
      BY <2>3 DEF DialNeighbor, At
    <3>2. /\ pc'[s][i] \in {"idle", "getConn"}
          /\ \A r \in Service, j \in Thread : r # s \/ j # i => pc'[r][j] = pc[r][j]
      BY <3>1, GotoLabels, Threads DEF AfterDial, WorkerLabels, ControlLabels
    <3>3. nlWriter'[s] = NoThread /\ \A r \in Service : r # s => nlWriter'[r] = nlWriter[r]
      BY <1>t, <3>1
    <3>4. \A j \in Thread : pc[s][j] = "dial" => j = i BY <3>1 DEF Holding
    <3> QED BY <3>1, <3>2, <3>3, <3>4 DEF Holding, FloodLabels
  <2>4. CASE LockTable(s, i)
    <3>1. /\ nlWriter[s] = NoThread /\ UNCHANGED nlWriter /\ Goto(s, i, "flood")
          /\ nlReaders' = [nlReaders EXCEPT ![s] = @ \cup {i}]
      BY <2>4 DEF LockTable, MayRead, HoldTable
    <3>2. /\ pc'[s][i] = "flood"
          /\ \A r \in Service, j \in Thread : r # s \/ j # i => pc'[r][j] = pc[r][j]
      BY <3>1, GotoLabels DEF WorkerLabels, ControlLabels
    <3>3. nlReaders'[s] = nlReaders[s] \cup {i} /\ \A r \in Service : r # s => nlReaders'[r] = nlReaders[r]
      BY <1>t, <3>1
    <3> QED BY <3>1, <3>2, <3>3 DEF Holding, FloodLabels
  <2>5. CASE EndDelay(s, i)
    <3>1. /\ UNCHANGED nlWriter /\ Goto(s, i, AfterPause(i))
          /\ nlReaders' = [nlReaders EXCEPT ![s] = @ \ {i}]
      BY <2>5 DEF EndDelay
    <3>2. /\ pc'[s][i] \in {"serve", "idle"}
          /\ \A r \in Service, j \in Thread : r # s \/ j # i => pc'[r][j] = pc[r][j]
      BY <3>1, GotoLabels, Threads DEF AfterPause, WorkerLabels, ControlLabels
    <3>3. nlReaders'[s] = nlReaders[s] \ {i} /\ \A r \in Service : r # s => nlReaders'[r] = nlReaders[r]
      BY <1>t, <3>1
    <3> QED BY <3>1, <3>2, <3>3 DEF Holding, FloodLabels
  <2>6. CASE RequestPause(s, i)
    BY <1>v, <2>6 DEF RequestPause, locks
  <2> QED BY <1>4, <2>1, <2>2, <2>3, <2>4, <2>5, <2>6 DEF ThreadStep
<1>5. ASSUME NEW s \in Service, PokerStep(s) PROVE Holding'
  BY <1>5, <1>v DEF PokerStep, PokerStop, PokerContinue, locks, locals
<1> QED BY <1>1, <1>2, <1>3, <1>4, <1>5 DEF Next, Idle

\* The steps of goroutine i of service s.
Acts(s, i) ==
  \/ i \in Worker /\ WorkerStep(s, i)
  \/ i \in Service /\ Receive(s, i)
  \/ ThreadStep(s, i)

LEMMA ActsOrNot == ASSUME Next PROVE UNCHANGED vars \/ (\E s \in Service : PokerStep(s))
                                     \/ \E s \in Service, i \in Thread : Acts(s, i)
BY Threads DEF Next, Idle, Acts

\* A goroutine changes its own locals only.
LEMMA OthersStay ==
  ASSUME TypeOK, NEW s \in Service, NEW i \in Thread, Acts(s, i),
         NEW r \in Service, NEW j \in Thread, r # s \/ j # i
  PROVE  pc'[r][j] = pc[r][j] /\ phase'[r][j] = phase[r][j] /\ todo'[r][j] = todo[r][j]
<1>1. pc \in [Service -> [Thread -> WorkerLabels]] /\ phase \in [Service -> [Thread -> Nat]]
      /\ todo \in [Service -> [Thread -> SUBSET Service]]
  BY DEF TypeOK
<1>2. pc'[r][j] = pc[r][j]
  <2>1. pc' = pc \/ \E l : pc' = [pc EXCEPT ![s][i] = l]
    <3>1. CASE i \in Worker /\ WorkerStep(s, i)
      BY <3>1 DEF WorkerStep, PokerPPDelay, Respond, Invoke, GetConn, SendRegister, Goto
    <3>2. CASE i \in Service /\ Receive(s, i) BY <3>2 DEF Receive, Goto
    <3>3. CASE ThreadStep(s, i)
      BY <3>3 DEF ThreadStep, LookupNeighbor, LockNeighbors, DialNeighbor, TakeDelay, LockTable,
                  RequestPause, DoDelay, EndDelay, Goto
    <3> QED BY <3>1, <3>2, <3>3 DEF Acts
  <2> QED BY <1>1, <2>1
<1>3. phase'[r][j] = phase[r][j]
  <2>1. phase' = phase \/ \E l : phase' = [phase EXCEPT ![s][i] = l]
    <3>1. CASE i \in Worker /\ WorkerStep(s, i)
      BY <3>1 DEF WorkerStep, PokerPPDelay, Respond, Invoke, GetConn, SendRegister
    <3>2. CASE i \in Service /\ Receive(s, i) BY <3>2 DEF Receive
    <3>3. CASE ThreadStep(s, i)
      BY <3>3 DEF ThreadStep, LookupNeighbor, LockNeighbors, DialNeighbor, TakeDelay, LockTable,
                  RequestPause, DoDelay, EndDelay
    <3> QED BY <3>1, <3>2, <3>3 DEF Acts
  <2> QED BY <1>1, <2>1
<1>4. todo'[r][j] = todo[r][j]
  <2>1. todo' = todo \/ \E l : todo' = [todo EXCEPT ![s][i] = l]
    <3>1. CASE i \in Worker /\ WorkerStep(s, i)
      BY <3>1 DEF WorkerStep, PokerPPDelay, Respond, Invoke, GetConn, SendRegister, locals
    <3>2. CASE i \in Service /\ Receive(s, i) BY <3>2 DEF Receive, locals
    <3>3. CASE ThreadStep(s, i)
      BY <3>3 DEF ThreadStep, LookupNeighbor, LockNeighbors, DialNeighbor, TakeDelay, LockTable,
                  RequestPause, DoDelay, EndDelay, locals
    <3> QED BY <3>1, <3>2, <3>3 DEF Acts
  <2> QED BY <1>1, <2>1
<1> QED BY <1>2, <1>3, <1>4

\* Phases only grow, and a control goroutine leaves handlePause for good only
\* when its service is in the phase it was told of.
LEMMA PhasesGrow ==
  ASSUME TypeOK, Next, NEW t \in Service
  PROVE  /\ sleepPhase'[t] >= sleepPhase[t]
         /\ \A u \in Service : pc[t][u] = "handlePause" =>
              \/ sleepPhase'[t] >= phase[t][u]
              \/ pc'[t][u] = "handlePause" /\ phase'[t][u] = phase[t][u]
<1>t. sleepPhase \in [Service -> Nat] /\ phase \in [Service -> [Thread -> Nat]]
  BY DEF TypeOK
<1>1. CASE UNCHANGED vars
  BY <1>1, <1>t DEF vars, state, locals
<1>2. ASSUME NEW s \in Service, PokerStep(s)
      PROVE  UNCHANGED <<sleepPhase, pc, phase>>
  BY <1>2 DEF PokerStep, PokerStop, PokerContinue, state, locals
<1>3. ASSUME NEW s \in Service, NEW i \in Thread, Acts(s, i)
      PROVE  /\ sleepPhase'[t] >= sleepPhase[t]
             /\ \A u \in Service : pc[t][u] = "handlePause" =>
                  \/ sleepPhase'[t] >= phase[t][u]
                  \/ pc'[t][u] = "handlePause" /\ phase'[t][u] = phase[t][u]
  <2>1. CASE TakeDelay(s, i)
    <3>1. \/ sleepPhase' = [sleepPhase EXCEPT ![s] = phase[s][i]] /\ phase[s][i] > sleepPhase[s]
          \/ sleepPhase' = sleepPhase /\ ~ (phase[s][i] > sleepPhase[s])
      BY <2>1 DEF TakeDelay, NewPhase
    <3>2. phase[s][i] \in Nat /\ sleepPhase[s] \in Nat /\ sleepPhase[t] \in Nat BY <1>t
    <3>3. sleepPhase'[s] >= phase[s][i] /\ sleepPhase'[t] >= sleepPhase[t] BY <1>t, <3>1, <3>2
    <3>4. ASSUME NEW u \in Service, pc[t][u] = "handlePause"
          PROVE  \/ sleepPhase'[t] >= phase[t][u]
                 \/ pc'[t][u] = "handlePause" /\ phase'[t][u] = phase[t][u]
      <4>1. CASE t = s /\ u = i BY <3>3, <4>1
      <4>2. CASE t # s \/ u # i BY <1>3, <3>4, <4>2, OthersStay, Threads
      <4> QED BY <4>1, <4>2
    <3> QED BY <3>3, <3>4
  <2>2. CASE ~ TakeDelay(s, i)
    <3>1. UNCHANGED sleepPhase
      BY <1>3, <2>2 DEF Acts, WorkerStep, ThreadStep, PokerPPDelay, Respond, Invoke, GetConn,
         SendRegister, Receive, LookupNeighbor, LockNeighbors, DialNeighbor, LockTable,
         RequestPause, DoDelay, EndDelay, state
    <3>2. pc[s][i] # "handlePause"
      BY <1>3, <2>2 DEF Acts, WorkerStep, ThreadStep, PokerPPDelay, Respond, Invoke, GetConn,
         SendRegister, Receive, LookupNeighbor, LockNeighbors, DialNeighbor, LockTable,
         RequestPause, DoDelay, EndDelay, At
    <3>3. ASSUME NEW u \in Service, pc[t][u] = "handlePause"
          PROVE  pc'[t][u] = "handlePause" /\ phase'[t][u] = phase[t][u]
      BY <1>3, <3>2, <3>3, OthersStay, Threads
    <3>4. sleepPhase'[t] = sleepPhase[t] /\ sleepPhase[t] \in Nat BY <1>t, <3>1
    <3> QED BY <3>3, <3>4
  <2> QED BY <2>1, <2>2
<1> QED BY <1>t, <1>1, <1>2, <1>3, ActsOrNot

\* One step writes at the end of a connection or reads its first message.
LEMMA ConnStep ==
  ASSUME TypeOK, Next, NEW s \in Service, NEW t \in Service
  PROVE  \/ conn'[s][t] = conn[s][t]
         \/ \E m \in Message : conn'[s][t] = Append(conn[s][t], m)
         \/ Receive(t, s)
<1>1. CASE UNCHANGED vars BY <1>1 DEF vars, net
<1>2. CASE \E r \in Service : PokerStep(r)
  BY <1>2 DEF PokerStep, PokerStop, PokerContinue, net
<1>3. ASSUME NEW r \in Service, NEW i \in Thread, Acts(r, i)
      PROVE  \/ conn'[s][t] = conn[s][t]
             \/ \E m \in Message : conn'[s][t] = Append(conn[s][t], m)
             \/ Receive(t, s)
  <2>1. ASSUME NEW q \in Service, NEW m \in Message, conn' = [conn EXCEPT ![r][q] = Append(@, m)]
        PROVE  conn'[s][t] = conn[s][t] \/ conn'[s][t] = Append(conn[s][t], m)
    <3>1. /\ conn'[r][q] = Append(conn[r][q], m)
          /\ \A v, u \in Service : v # r \/ u # q => conn'[v][u] = conn[v][u]
      BY <2>1, WriteType DEF TypeOK
    <3>2. CASE s = r /\ t = q BY <3>1, <3>2
    <3>3. CASE s # r \/ t # q BY <3>1, <3>3
    <3> QED BY <3>2, <3>3
  <2>2. CASE i \in Worker /\ SendRegister(r, i)
    <3>1. Register \in Message /\ peer[r][i] \in Service BY DEF Register, Message, TypeOK
    <3> QED BY <2>1, <2>2, <3>1 DEF SendRegister
  <2>5. CASE RequestPause(r, i)
    <3>1. phase[r][i] \in Nat /\ todo[r][i] \in SUBSET Service BY DEF TypeOK
    <3>2. Pause(phase[r][i]) \in Message BY <3>1 DEF Pause, Message
    <3> QED BY <2>1, <2>5, <3>1, <3>2 DEF RequestPause
  <2>3. CASE i \in Service /\ Receive(r, i)
    <3>1. conn[i][r] # <<>> /\ conn' = [conn EXCEPT ![i][r] = Tail(@)] BY <2>3 DEF Receive
    <3>2. \A q, u \in Service : q # i \/ u # r => conn'[q][u] = conn[q][u]
      BY <2>3, <3>1, ReadType
    <3>3. CASE s = i /\ t = r BY <2>3, <3>3
    <3>4. CASE s # i \/ t # r BY <3>2, <3>4
    <3> QED BY <3>3, <3>4
  <2>4. CASE /\ ~ (i \in Worker /\ SendRegister(r, i)) /\ ~ RequestPause(r, i)
             /\ ~ (i \in Service /\ Receive(r, i))
    <3>1. UNCHANGED conn
      BY <1>3, <2>4 DEF Acts, WorkerStep, ThreadStep, PokerPPDelay, Respond, Invoke, GetConn,
         LookupNeighbor, LockNeighbors, DialNeighbor, TakeDelay, LockTable, DoDelay, EndDelay, net
    <3> QED BY <3>1
  <2> QED BY <2>2, <2>3, <2>4, <2>5
<1> QED BY <1>1, <1>2, <1>3, ActsOrNot

\* Who was told stays told: the message waits until it is read, the one who
\* read it keeps the phase until the service is in it, and no phase ends.
LEMMA ToldStays ==
  ASSUME TypeOK, Next, NEW s \in Service, NEW t \in Service, NEW p \in Nat, Told(s, t, p)
  PROVE  Told(s, t, p)'
<1>t. /\ conn \in [Service -> [Service -> Seq(Message)]] /\ sleepPhase[t] \in Nat
      /\ Service \subseteq Thread
  BY Threads DEF TypeOK
<1>1. sleepPhase'[t] \in Nat BY TypeStep DEF TypeOK
<1>2. CASE sleepPhase[t] >= p
  <2>1. sleepPhase'[t] >= sleepPhase[t] BY PhasesGrow
  <2> QED BY <1>t, <1>1, <1>2, <2>1 DEF Told
<1>3. CASE pc[t][s] = "handlePause" /\ phase[t][s] = p
  <2>1. \/ sleepPhase'[t] >= phase[t][s]
        \/ pc'[t][s] = "handlePause" /\ phase'[t][s] = phase[t][s]
    BY <1>3, PhasesGrow
  <2> QED BY <1>3, <2>1 DEF Told
<1>4. ASSUME NEW k \in 1 .. Len(conn[s][t]), conn[s][t][k] = Pause(p)
      PROVE  Told(s, t, p)'
  <2>1. conn[s][t] \in Seq(Message) BY <1>t
  <2>2. CASE conn'[s][t] = conn[s][t] BY <1>4, <2>2 DEF Told
  <2>3. ASSUME NEW m \in Message, conn'[s][t] = Append(conn[s][t], m) PROVE Told(s, t, p)'
    <3>1. k \in 1 .. Len(Append(conn[s][t], m)) /\ Append(conn[s][t], m)[k] = conn[s][t][k]
      BY <2>1, InAppend
    <3>2. \E n \in 1 .. Len(conn'[s][t]) : conn'[s][t][n] = Pause(p) BY <1>4, <2>3, <3>1
    <3> QED BY <3>2 DEF Told
  <2>4. CASE Receive(t, s)
    <3>1. conn[s][t] # <<>> /\ conn' = [conn EXCEPT ![s][t] = Tail(@)] BY <2>4 DEF Receive
    <3>2. conn'[s][t] = Tail(conn[s][t]) BY <3>1, ReadType
    <3>3. CASE conn[s][t][k] = Head(conn[s][t])
      <4>1. Head(conn[s][t]).type = "pause" /\ Head(conn[s][t]).phase = p
        BY <1>4, <3>3 DEF Pause
      <4>2. phase' = [phase EXCEPT ![t][s] = p] /\ Goto(t, s, "handlePause")
        BY <2>4, <4>1 DEF Receive
      <4>3. pc'[t][s] = "handlePause" /\ phase'[t][s] = p
        <5>1. phase \in [Service -> [Thread -> Nat]] BY DEF TypeOK
        <5>2. pc'[t][s] = "handlePause"
          BY <1>t, <4>2, GotoLabels DEF WorkerLabels, ControlLabels
        <5> QED BY <1>t, <4>2, <5>1, <5>2
      <4> QED BY <4>3 DEF Told
    <3>4. CASE \E n \in 1 .. Len(Tail(conn[s][t])) : Tail(conn[s][t])[n] = conn[s][t][k]
      <4>1. \E n \in 1 .. Len(conn'[s][t]) : conn'[s][t][n] = Pause(p) BY <1>4, <3>2, <3>4
      <4> QED BY <4>1 DEF Told
    <3> QED BY <2>1, <3>1, <3>3, <3>4, InTail
  <2> QED BY <2>2, <2>3, <2>4, ConnStep
<1> QED BY <1>2, <1>3, <1>4 DEF Told

\* What a goroutine that floods knows stays true when others act.
LEMMA TellingOthers ==
  ASSUME TypeOK, Telling, Next, NEW s \in Service, NEW i \in Thread,
         UNCHANGED <<pc[s][i], phase[s][i], todo[s][i]>>,
         pc[s][i] \in FloodLabels => neighbors'[s] = neighbors[s]
  PROVE  /\ pc'[s][i] = "paused" => todo'[s][i] = {}
         /\ pc'[s][i] \in FloodLabels =>
              \A t \in neighbors'[s] \ todo'[s][i] : Told(s, t, phase[s][i])'
<1>1. phase[s][i] \in Nat /\ neighbors[s] \subseteq Service BY DEF TypeOK
<1>2. ASSUME pc'[s][i] \in FloodLabels, NEW t \in neighbors'[s] \ todo'[s][i],
             NEW p \in Nat, p = phase[s][i]
      PROVE  Told(s, t, phase[s][i])'
  <2>1. t \in neighbors[s] \ todo[s][i] /\ Told(s, t, phase[s][i]) BY <1>2 DEF Telling
  <2>2. t \in Service /\ Told(s, t, p) BY <1>1, <1>2, <2>1
  <2>3. Told(s, t, p)' BY <2>2, ToldStays
  <2> QED BY <1>2, <2>3 DEF Told
<1> QED BY <1>1, <1>2 DEF Telling

\* No neighbour is added while a goroutine of the service floods.
LEMMA NeighborsHeld ==
  ASSUME TypeOK, Holding, Next, NEW s \in Service, NEW i \in Thread, pc[s][i] \in FloodLabels
  PROVE  neighbors'[s] = neighbors[s]
<1>1. nlWriter[s] = NoThread BY DEF Holding
<1>2. CASE UNCHANGED vars BY <1>2 DEF vars, net
<1>3. CASE \E r \in Service : PokerStep(r)
  BY <1>3 DEF PokerStep, PokerStop, PokerContinue, net
<1>4. ASSUME NEW r \in Service, NEW j \in Thread, Acts(r, j) PROVE neighbors'[s] = neighbors[s]
  <2>1. CASE DialNeighbor(r, j)
    <3>1. r # s BY <1>1, <2>1, SomeThread DEF DialNeighbor, At, Holding
    <3>2. neighbors \in [Service -> SUBSET Service] BY DEF TypeOK
    <3> QED BY <2>1, <3>1, <3>2 DEF DialNeighbor
  <2>2. CASE ~ DialNeighbor(r, j)
    BY <1>4, <2>2 DEF Acts, WorkerStep, ThreadStep, PokerPPDelay, Respond, Invoke, GetConn,
       SendRegister, Receive, LookupNeighbor, LockNeighbors, TakeDelay, LockTable,
       RequestPause, DoDelay, EndDelay, net
  <2> QED BY <2>1, <2>2
<1> QED BY <1>2, <1>3, <1>4, ActsOrNot

\* Each request for a pause is written to the neighbour it takes off the list.
LEMMA TellingRequestPause ==
  ASSUME TypeOK, Holding, Telling, Next, NEW s \in Service, NEW i \in Thread, RequestPause(s, i)
  PROVE  /\ pc'[s][i] = "flood"
         /\ \A u \in neighbors'[s] \ todo'[s][i] : Told(s, u, phase[s][i])'
<1>1. PICK t \in todo[s][i] : /\ conn' = [conn EXCEPT ![s][t] = Append(@, Pause(phase[s][i]))]
                              /\ todo' = [todo EXCEPT ![s][i] = @ \ {t}]
  BY DEF RequestPause
<1>2. /\ pc[s][i] = "flood" /\ pc'[s][i] = "flood" /\ UNCHANGED <<neighbors, phase>>
  BY DEF RequestPause, At
<1>3. /\ todo \in [Service -> [Thread -> SUBSET Service]] /\ phase[s][i] \in Nat /\ t \in Service
      /\ neighbors[s] \subseteq Service
  <2>1. todo \in [Service -> [Thread -> SUBSET Service]] BY DEF TypeOK
  <2>2. t \in Service BY <2>1
  <2> QED BY <2>1, <2>2 DEF TypeOK
<1>4. todo'[s][i] = todo[s][i] \ {t} BY <1>1, <1>3
<1>5. ASSUME NEW u \in neighbors'[s] \ todo'[s][i], NEW p \in Nat, p = phase[s][i]
      PROVE  Told(s, u, phase[s][i])'
  <2>1. CASE u = t
    <3>1. Pause(p) \in Message BY DEF Pause, Message
    <3>2. conn'[s][t] = Append(conn[s][t], Pause(p)) BY <1>1, <1>3, <1>5, <3>1, WriteType
    <3>3. conn[s][t] \in Seq(Message) BY <1>3 DEF TypeOK
    <3>4. \E k \in 1 .. Len(Append(conn[s][t], Pause(p))) : Append(conn[s][t], Pause(p))[k] = Pause(p)
      BY <3>1, <3>3, InAppend
    <3>5. \E k \in 1 .. Len(conn'[s][t]) : conn'[s][t][k] = Pause(p) BY <3>2, <3>4
    <3> QED BY <1>2, <1>5, <2>1, <3>5 DEF Told
  <2>2. CASE u # t
    <3>1. u \in Service /\ Told(s, u, p) BY <1>2, <1>3, <1>4, <1>5, <2>2 DEF Telling, FloodLabels
    <3>2. Told(s, u, p)' BY <3>1, ToldStays
    <3> QED BY <1>2, <1>5, <3>2 DEF Told
  <2> QED BY <2>1, <2>2
<1> QED BY <1>2, <1>3, <1>5

LEMMA TellingStep == TypeOK /\ Holding /\ Telling /\ [Next]_vars => Telling'
<1> SUFFICES ASSUME TypeOK, Holding, Telling, [Next]_vars PROVE Telling' OBVIOUS
<1>1. CASE UNCHANGED vars
  BY <1>1 DEF vars, net, locals, state, Telling, Told
<1>2. ASSUME Next, NEW s \in Service, NEW i \in Thread
      PROVE  /\ pc'[s][i] = "paused" => todo'[s][i] = {}
             /\ pc'[s][i] \in FloodLabels =>
                  \A t \in neighbors'[s] \ todo'[s][i] : Told(s, t, phase[s][i])'
  <2>t. /\ todo \in [Service -> [Thread -> SUBSET Service]]
        /\ pc[s][i] \in FloodLabels => neighbors'[s] = neighbors[s]
    BY <1>2, NeighborsHeld DEF TypeOK
  <2>1. CASE UNCHANGED vars BY <1>2, <2>1, <2>t, TellingOthers DEF vars, locals
  <2>2. CASE \E r \in Service : PokerStep(r)
    <3>1. UNCHANGED <<pc, phase, todo>> BY <2>2 DEF PokerStep, PokerStop, PokerContinue, locals
    <3> QED BY <1>2, <2>t, <3>1, TellingOthers
  <2>3. ASSUME NEW r \in Service, NEW j \in Thread, Acts(r, j), r # s \/ j # i
        PROVE  UNCHANGED <<pc[s][i], phase[s][i], todo[s][i]>>
    BY <2>3, OthersStay
  <2>4. ASSUME Acts(s, i)
        PROVE  /\ pc'[s][i] = "paused" => todo'[s][i] = {}
               /\ pc'[s][i] \in FloodLabels =>
                    \A t \in neighbors'[s] \ todo'[s][i] : Told(s, t, phase[s][i])'
    <3>1. CASE RequestPause(s, i) BY <1>2, <3>1, TellingRequestPause DEF FloodLabels
    <3>2. CASE LockTable(s, i)
      <4>1. Goto(s, i, "flood") /\ UNCHANGED neighbors /\ todo' = [todo EXCEPT ![s][i] = neighbors[s]]
        BY <3>2 DEF LockTable, net
      <4>2. pc'[s][i] = "flood" BY <4>1, GotoLabels DEF WorkerLabels, ControlLabels
      <4>3. todo'[s][i] = neighbors'[s] BY <2>t, <4>1
      <4> QED BY <4>2, <4>3
    <3>3. CASE DoDelay(s, i)
      <4>1. /\ pc[s][i] = "flood" /\ todo[s][i] = {} /\ UNCHANGED <<neighbors, phase, todo>>
        BY <3>3 DEF DoDelay, At, net
      <4>2. neighbors[s] \subseteq Service /\ phase[s][i] \in Nat BY DEF TypeOK
      <4>3. ASSUME NEW t \in neighbors'[s] \ todo'[s][i], NEW p \in Nat, p = phase[s][i]
            PROVE  Told(s, t, phase[s][i])'
        <5>1. t \in Service /\ Told(s, t, p) BY <4>1, <4>2, <4>3 DEF Telling, FloodLabels
        <5>2. Told(s, t, p)' BY <1>2, <5>1, ToldStays
        <5> QED BY <4>1, <4>3, <5>2 DEF Told
      <4> QED BY <4>1, <4>2, <4>3
    <3>4. CASE ~ RequestPause(s, i) /\ ~ LockTable(s, i) /\ ~ DoDelay(s, i)
      <4>1. \E l \in WorkerLabels \ FloodLabels :
              Goto(s, i, l) /\ (i \in Service => l \in ControlLabels)
        BY <2>4, <3>4, Threads DEF Acts, WorkerStep, ThreadStep, PokerPPDelay, Respond, Invoke,
           GetConn, SendRegister, Receive, LookupNeighbor, LockNeighbors, DialNeighbor, TakeDelay,
           EndDelay, AfterDial, AfterPause, WorkerLabels, ControlLabels, FloodLabels
      <4>2. pc'[s][i] \notin FloodLabels BY <4>1, GotoLabels
      <4> QED BY <4>2 DEF FloodLabels
    <3> QED BY <3>1, <3>2, <3>3, <3>4
  <2>5. CASE \E r \in Service, j \in Thread : Acts(r, j)
    <3>1. PICK r \in Service, j \in Thread : Acts(r, j) BY <2>5
    <3>2. CASE r = s /\ j = i BY <2>4, <3>1, <3>2
    <3>3. CASE r # s \/ j # i
      <4>1. UNCHANGED <<pc[s][i], phase[s][i], todo[s][i]>> BY <2>3, <3>1, <3>3
      <4> QED BY <1>2, <2>t, <4>1, TellingOthers
    <3> QED BY <3>2, <3>3
  <2> QED BY <1>2, <2>1, <2>2, <2>5, ActsOrNot
<1>3. CASE Next BY <1>2, <1>3 DEF Telling
<1> QED BY <1>1, <1>3

\* When a service is about to be stopped for a phase, each of its neighbours is
\* in the phase or has the message: neighborsLock is held until the pause is
\* over, so none can be added between the flood and the pause (pause.go:112-119).
THEOREM ToldFirst == Spec => []ToldBeforePause
<1>1. Telling => ToldBeforePause BY DEF Telling, ToldBeforePause, FloodLabels
<1> QED BY <1>1, TypeInit, TypeStep, HoldingInit, HoldingStep, TellingStep, PTL DEF Spec

-----------------------------------------------------------------------------
(***************************************************************************)
(* No delay is lost or slept twice: what the requests of a service owe is  *)
(* waiting, taken or slept.                                                *)
(***************************************************************************)

\* What was slept was a finite number of natural numbers.
SleptTyped ==
  \A s \in Service : /\ IsFiniteSet(DOMAIN slept[s])
                     /\ \A p \in DOMAIN slept[s] : slept[s][p] \in Nat

Ledger == SleptTyped /\ DelayLedger

LEMMA FiniteThreads == IsFiniteSet(Thread)
BY PauseAssumption, FS_Union DEF Thread

LEMMA InHandType ==
  ASSUME TypeOK, NEW s \in Service
  PROVE  /\ \A i \in Thread : InHand(s)[i] \in Int
         /\ SumFunctionOnSet(InHand(s), Thread) \in Int
         /\ AtPoker(s) \in Int
<1>1. \A i \in Thread : InHand(s)[i] \in Int BY DEF TypeOK, InHand
<1>2. AtPoker(s) \in Int BY DEF TypeOK, AtPoker
<1> HIDE DEF InHand
<1> QED BY <1>1, <1>2, FiniteThreads, SumSplit

LEMMA SleptType ==
  ASSUME SleptTyped, NEW s \in Service
  PROVE  SumFunction(slept[s]) \in Int
<1>1. IsFiniteSet(DOMAIN slept[s]) /\ \A p \in DOMAIN slept[s] : slept[s][p] \in Int BY DEF SleptTyped
<1> QED BY <1>1, SumSplit DEF SumFunction

\* A goroutine changes at most its own term.
LEMMA OneHand ==
  ASSUME TypeOK, TypeOK', NEW s \in Service, NEW i \in Thread,
         \A j \in Thread \ {i} : pc'[s][j] = pc[s][j] /\ delayToDo'[s][j] = delayToDo[s][j]
  PROVE  SumFunctionOnSet(InHand(s)', Thread) =
           SumFunctionOnSet(InHand(s), Thread) + InHand(s)'[i] - InHand(s)[i]
<1>1. \A j \in Thread \ {i} : InHand(s)'[j] = InHand(s)[j] BY DEF InHand
<1>2. \A j \in Thread : InHand(s)[j] \in Int BY InHandType
<1>3. InHand(s)'[i] \in Int BY DEF TypeOK, InHand
<1>4. \A f, g : ( /\ g[i] \in Int
                  /\ \A y \in Thread : f[y] \in Int
                  /\ \A y \in Thread \ {i} : g[y] = f[y] ) =>
        SumFunctionOnSet(g, Thread) = SumFunctionOnSet(f, Thread) + g[i] - f[i]
  BY FiniteThreads, SumChange
<1> HIDE DEF InHand
<1> QED BY <1>1, <1>2, <1>3, <1>4

\* The ledger of one service.
Balanced(s) ==
  charged[s] * delayNanos[s] =
    accumulatedDelay[s] + SumFunctionOnSet(InHand(s), Thread) + AtPoker(s) + SumFunction(slept[s])

\* What a goroutine takes from one place it puts into another.
LEMMA Moves ==
  ASSUME TypeOK, TypeOK', SleptTyped, NEW s \in Service, NEW i \in Thread, Balanced(s),
         \A j \in Thread \ {i} : pc'[s][j] = pc[s][j] /\ delayToDo'[s][j] = delayToDo[s][j],
         charged'[s] = charged[s], slept'[s] = slept[s],
         accumulatedDelay'[s] + InHand(s)'[i] + AtPoker(s)' = accumulatedDelay[s] + InHand(s)[i] + AtPoker(s)
  PROVE  Balanced(s)'
<1> DEFINE H == SumFunctionOnSet(InHand(s), Thread)
           Z == SumFunction(slept[s])
<1>1. H' = H + InHand(s)'[i] - InHand(s)[i]
  <2>1. H' = SumFunctionOnSet(InHand(s)', Thread) OBVIOUS
  <2> QED BY <2>1, OneHand
<1>2. H \in Int /\ InHand(s)[i] \in Int /\ AtPoker(s) \in Int BY InHandType
<1>3. InHand(s)'[i] \in Int /\ AtPoker(s)' \in Int BY DEF TypeOK, InHand, AtPoker
<1>4. Z \in Int BY SleptType
<1>5. accumulatedDelay[s] \in Int /\ accumulatedDelay'[s] \in Int BY DEF TypeOK
<1>6. charged[s] * delayNanos[s] = accumulatedDelay[s] + H + AtPoker(s) + Z BY DEF Balanced
<1>7. Balanced(s)' <=> charged[s] * delayNanos[s] = accumulatedDelay'[s] + H' + AtPoker(s)' + Z
  BY DEF Balanced
<1>8. \A a1, a2, h, x1, x2, p1, p2, z \in Int :
        a2 + x2 + p2 = a1 + x1 + p1 => a1 + h + p1 + z = a2 + (h + x2 - x1) + p2 + z
  OBVIOUS
<1> HIDE DEF H, Z
<1> QED BY <1>1, <1>2, <1>3, <1>4, <1>5, <1>6, <1>7, <1>8

\* A service whose goroutines, poker and books are left alone.
LEMMA Untouched ==
  ASSUME NEW s \in Service, Balanced(s),
         \A j \in Thread : pc'[s][j] = pc[s][j] /\ delayToDo'[s][j] = delayToDo[s][j],
         charged'[s] = charged[s], slept'[s] = slept[s],
         accumulatedDelay'[s] = accumulatedDelay[s], poker'[s] = poker[s], pipe'[s] = pipe[s]
  PROVE  Balanced(s)'
<1>1. InHand(s)' = InHand(s) /\ AtPoker(s)' = AtPoker(s) BY DEF InHand, AtPoker
<1> QED BY <1>1 DEF Balanced

\* A step of goroutine i of s that puts nothing elsewhere.
LEMMA StepOfGoroutine ==
  ASSUME TypeOK, TypeOK', Ledger, NEW s \in Service, NEW i \in Thread,
         \A r \in Service, j \in Thread : (r # s \/ j # i) =>
           pc'[r][j] = pc[r][j] /\ delayToDo'[r][j] = delayToDo[r][j],
         UNCHANGED <<charged, slept>>,
         \A r \in Service \ {s} : /\ accumulatedDelay'[r] = accumulatedDelay[r]
                                  /\ poker'[r] = poker[r] /\ pipe'[r] = pipe[r],
         accumulatedDelay'[s] + InHand(s)'[i] + AtPoker(s)' = accumulatedDelay[s] + InHand(s)[i] + AtPoker(s)
  PROVE  Ledger'
<1>1. SleptTyped' BY DEF Ledger, SleptTyped
<1>2. \A r \in Service : Balanced(r) BY DEF Ledger, DelayLedger, Balanced
<1>3. Balanced(s)' BY <1>2, Moves DEF Ledger
<1>4. ASSUME NEW r \in Service \ {s} PROVE Balanced(r)' BY <1>2, Untouched
<1> QED BY <1>1, <1>3, <1>4 DEF Ledger, DelayLedger, Balanced

LEMMA LedgerInit == Init => Ledger
<1> SUFFICES ASSUME Init PROVE Ledger OBVIOUS
<1>1. \A s \in Service : slept[s] = [p \in {} |-> 0] BY DEF Init
<1>2. SleptTyped BY <1>1, FS_EmptySet DEF SleptTyped
<1>3. ASSUME NEW s \in Service PROVE Balanced(s)
  <2>1. \A i \in Thread : InHand(s)[i] = 0 BY DEF Init, InHand
  <2>2. SumFunctionOnSet(InHand(s), Thread) = 0
    <3> HIDE DEF InHand
    <3> QED BY <2>1, FiniteThreads, SumZero
  <2>3. AtPoker(s) = 0 /\ charged[s] = 0 /\ accumulatedDelay[s] = 0 BY DEF Init, AtPoker
  <2>4. SumFunction(slept[s]) = 0
    <3>1. DOMAIN slept[s] = {} BY <1>1
    <3> QED BY <3>1, SumEmpty DEF SumFunction
  <2>5. delayNanos[s] \in Nat BY PauseAssumption
  <2>6. 0 * delayNanos[s] = 0 BY <2>5
  <2> QED BY <2>2, <2>3, <2>4, <2>6 DEF Balanced
<1> QED BY <1>2, <1>3 DEF Ledger, DelayLedger, Balanced

LEMMA LedgerCharge ==
  ASSUME TypeOK, TypeOK', Ledger, NEW s \in Service, NEW w \in Worker, PokerPPDelay(s, w)
  PROVE  Ledger'
<1>t. w \in Thread BY Threads
<1>1. /\ pc[s][w] = "idle" /\ UNCHANGED <<delayToDo, slept, poker, pipe>>
      /\ accumulatedDelay' = [accumulatedDelay EXCEPT ![s] = @ + delayNanos[s]]
      /\ charged' = [charged EXCEPT ![s] = @ + 1]
  BY DEF PokerPPDelay, At, pokerVars
<1>2. Goto(s, w, "handlePause") \/ Goto(s, w, "serve") BY DEF PokerPPDelay
<1>3. /\ pc'[s][w] \in {"handlePause", "serve"}
      /\ \A r \in Service, j \in Thread : r # s \/ j # w => pc'[r][j] = pc[r][j]
  BY <1>2, <1>t, Threads, GotoLabels DEF WorkerLabels
<1>4. accumulatedDelay'[s] = accumulatedDelay[s] + delayNanos[s] /\ charged'[s] = charged[s] + 1
  BY <1>1 DEF TypeOK
<1>5. \A r \in Service \ {s} : accumulatedDelay'[r] = accumulatedDelay[r] /\ charged'[r] = charged[r]
  BY <1>1 DEF TypeOK
<1>6. SleptTyped' BY <1>1 DEF Ledger, SleptTyped
<1>7. \A r \in Service : Balanced(r) BY DEF Ledger, DelayLedger, Balanced
<1>8. ASSUME NEW r \in Service \ {s} PROVE Balanced(r)'
  BY <1>1, <1>3, <1>5, <1>7, Untouched
<1>9. Balanced(s)'
  <2>1. \A j \in Thread : InHand(s)'[j] = InHand(s)[j] BY <1>1, <1>3 DEF InHand
  <2>2. InHand(s)' = InHand(s) BY <1>1, <1>3 DEF InHand
  <2>3. AtPoker(s)' = AtPoker(s) BY <1>1 DEF AtPoker
  <2>4. delayNanos[s] \in Nat /\ charged[s] \in Nat /\ accumulatedDelay[s] \in Nat
    BY PauseAssumption DEF TypeOK
  <2>5. \A c, d \in Nat : (c + 1) * d = c * d + d /\ c * d \in Nat OBVIOUS
  <2>6. SumFunctionOnSet(InHand(s), Thread) \in Int /\ AtPoker(s) \in Int BY InHandType
  <2>7. SumFunction(slept[s]) \in Int BY SleptType DEF Ledger
  <2>8. charged[s] * delayNanos[s] =
          accumulatedDelay[s] + SumFunctionOnSet(InHand(s), Thread) + AtPoker(s) + SumFunction(slept[s])
    BY <1>7 DEF Balanced
  <2>9. \A a, d, h, p, z, c \in Int : c = a + h + p + z => c + d = (a + d) + h + p + z OBVIOUS
  <2>10. (charged[s] + 1) * delayNanos[s] = charged[s] * delayNanos[s] + delayNanos[s]
         /\ charged[s] * delayNanos[s] \in Int
    BY <2>4, <2>5
  <2>11. (charged[s] + 1) * delayNanos[s] =
           (accumulatedDelay[s] + delayNanos[s]) + SumFunctionOnSet(InHand(s), Thread) + AtPoker(s)
             + SumFunction(slept[s])
    BY <2>4, <2>6, <2>7, <2>8, <2>9, <2>10
  <2> QED BY <1>1, <1>4, <2>2, <2>3, <2>11 DEF Balanced
<1> QED BY <1>6, <1>8, <1>9 DEF Ledger, DelayLedger, Balanced

\* Labels at which a goroutine has nothing in hand.
EmptyHand(s, i) == pc[s][i] \notin {"lockTable", "flood"}

\* A goroutine that moves between such labels.
LEMMA LedgerElsewhere ==
  ASSUME TypeOK, TypeOK', Ledger, NEW s \in Service, NEW i \in Thread,
         UNCHANGED <<charged, slept, accumulatedDelay, poker, pipe>>,
         EmptyHand(s, i), EmptyHand(s, i)',
         \A r \in Service, j \in Thread : (r # s \/ j # i) =>
           pc'[r][j] = pc[r][j] /\ delayToDo'[r][j] = delayToDo[r][j]
  PROVE  Ledger'
<1>1. InHand(s)[i] = 0 /\ InHand(s)'[i] = 0 BY DEF EmptyHand, InHand
<1>2. AtPoker(s)' = AtPoker(s) BY DEF AtPoker
<1>3. accumulatedDelay'[s] + InHand(s)'[i] + AtPoker(s)' = accumulatedDelay[s] + InHand(s)[i] + AtPoker(s)
  BY <1>1, <1>2
<1> HIDE DEF InHand
<1> QED BY <1>3, StepOfGoroutine

LEMMA LedgerReceive ==
  ASSUME TypeOK, TypeOK', Ledger, NEW s \in Service, NEW t \in Service, Receive(s, t)
  PROVE  Ledger'
<1>t. t \in Thread BY Threads
<1>1. /\ pc[s][t] = "idle"
      /\ UNCHANGED <<charged, slept, accumulatedDelay, poker, pipe, delayToDo>>
  BY DEF Receive, At, pokerVars, state, history
<1>2. Goto(s, t, "handlePause") \/ Goto(s, t, "lookup") BY DEF Receive
<1>3. /\ pc'[s][t] \in {"handlePause", "lookup"}
      /\ \A r \in Service, j \in Thread : r # s \/ j # t => pc'[r][j] = pc[r][j]
  BY <1>2, <1>t, Threads, GotoLabels DEF WorkerLabels, ControlLabels
<1>4. EmptyHand(s, t) /\ EmptyHand(s, t)' BY <1>1, <1>3 DEF EmptyHand
<1> QED BY <1>t, <1>1, <1>3, <1>4, LedgerElsewhere

LEMMA LedgerOrdinary ==
  ASSUME TypeOK, TypeOK', Ledger, NEW s \in Service, NEW i \in Thread, OrdinaryStep(s, i)
  PROVE  Ledger'
<1>1. /\ UNCHANGED <<accumulatedDelay, delayToDo, poker, pipe, charged, slept>>
      /\ \A r \in Service, j \in Thread :
           pc'[r][j] = pc[r][j] \/ {pc[r][j], pc'[r][j]} \cap PauseLabels = {}
  BY OrdinaryFrame
<1>2. \A r \in Service : InHand(r)' = InHand(r) /\ AtPoker(r)' = AtPoker(r)
  BY <1>1 DEF InHand, AtPoker, PauseLabels
<1> QED BY <1>1, <1>2 DEF Ledger, SleptTyped, DelayLedger

LEMMA LedgerTakeDelay ==
  ASSUME TypeOK, TypeOK', Ledger, NEW s \in Service, NEW i \in Thread, TakeDelay(s, i)
  PROVE  Ledger'
<1>1. pc[s][i] = "handlePause" /\ UNCHANGED <<poker, pipe, charged, slept>>
  BY DEF TakeDelay, At, pokerVars
<1>2. CASE NewPhase(s, phase[s][i])
  <2>1. /\ delayToDo' = [delayToDo EXCEPT ![s][i] = accumulatedDelay[s]]
        /\ accumulatedDelay' = [accumulatedDelay EXCEPT ![s] = 0]
        /\ Goto(s, i, "lockTable")
    BY <1>2 DEF TakeDelay, ResetCounters
  <2>2. /\ pc'[s][i] = "lockTable"
        /\ \A r \in Service, j \in Thread : r # s \/ j # i => pc'[r][j] = pc[r][j]
    BY <2>1, GotoLabels DEF WorkerLabels, ControlLabels
  <2>3. /\ delayToDo'[s][i] = accumulatedDelay[s] /\ accumulatedDelay'[s] = 0
        /\ \A r \in Service \ {s} : accumulatedDelay'[r] = accumulatedDelay[r]
        /\ \A r \in Service, j \in Thread : (r # s \/ j # i) => delayToDo'[r][j] = delayToDo[r][j]
    BY <2>1 DEF TypeOK
  <2>4. InHand(s)[i] = 0 /\ InHand(s)'[i] = accumulatedDelay[s] BY <1>1, <2>2, <2>3 DEF InHand
  <2>5. AtPoker(s)' = AtPoker(s) /\ AtPoker(s) \in Int BY <1>1, InHandType DEF AtPoker
  <2>6. accumulatedDelay'[s] + InHand(s)'[i] + AtPoker(s)' = accumulatedDelay[s] + InHand(s)[i] + AtPoker(s)
    BY <2>3, <2>4, <2>5 DEF TypeOK
  <2> HIDE DEF InHand
  <2> QED BY <1>1, <2>2, <2>3, <2>6, StepOfGoroutine
<1>3. CASE ~ NewPhase(s, phase[s][i])
  <2>1. UNCHANGED <<delayToDo, accumulatedDelay>> /\ Goto(s, i, AfterPause(i)) BY <1>3 DEF TakeDelay
  <2>2. /\ pc'[s][i] \in {"serve", "idle"}
        /\ \A r \in Service, j \in Thread : r # s \/ j # i => pc'[r][j] = pc[r][j]
    BY <2>1, Threads, GotoLabels DEF AfterPause, WorkerLabels, ControlLabels
  <2>3. EmptyHand(s, i) /\ EmptyHand(s, i)' BY <1>1, <2>2 DEF EmptyHand
  <2> QED BY <1>1, <2>1, <2>2, <2>3, LedgerElsewhere
<1> QED BY <1>2, <1>3

LEMMA LedgerFlood ==
  ASSUME TypeOK, TypeOK', Ledger, NEW s \in Service, NEW i \in Thread,
         LockTable(s, i) \/ RequestPause(s, i)
  PROVE  Ledger'
<1>1. UNCHANGED <<accumulatedDelay, delayToDo, poker, pipe, charged, slept>>
  BY DEF LockTable, RequestPause, state, pokerVars, history
<1>2. \A r \in Service, j \in Thread :
        pc'[r][j] \in {"lockTable", "flood"} <=> pc[r][j] \in {"lockTable", "flood"}
  <2>1. CASE LockTable(s, i) BY <2>1, GotoLabels DEF LockTable, At, WorkerLabels, ControlLabels
  <2>2. CASE RequestPause(s, i) BY <2>2 DEF RequestPause
  <2> QED BY <2>1, <2>2
<1>3. \A r \in Service : InHand(r)' = InHand(r) /\ AtPoker(r)' = AtPoker(r)
  BY <1>1, <1>2 DEF InHand, AtPoker
<1> QED BY <1>1, <1>3 DEF Ledger, SleptTyped, DelayLedger

LEMMA LedgerDoDelay ==
  ASSUME TypeOK, TypeOK', Guarded, Ledger, NEW s \in Service, NEW i \in Thread, DoDelay(s, i)
  PROVE  Ledger'
<1>1. /\ syncGuard[s] = NoThread /\ pc[s][i] = "flood"
      /\ pipe' = [pipe EXCEPT ![s] = delayToDo[s][i]]
      /\ poker' = [poker EXCEPT ![s] = "asked"]
      /\ UNCHANGED <<delayToDo, accumulatedDelay, charged, slept>>
      /\ Goto(s, i, "paused")
  BY DEF DoDelay, DelayWritten, GuardFree, At, state, history
<1>2. poker[s] = "idle" BY <1>1 DEF Guarded
<1>3. /\ pc'[s][i] = "paused"
      /\ \A r \in Service, j \in Thread : r # s \/ j # i => pc'[r][j] = pc[r][j]
  BY <1>1, GotoLabels DEF WorkerLabels, ControlLabels
<1>4. /\ pipe'[s] = delayToDo[s][i] /\ poker'[s] = "asked"
      /\ \A r \in Service \ {s} : pipe'[r] = pipe[r] /\ poker'[r] = poker[r]
  BY <1>1 DEF TypeOK
<1>5. InHand(s)[i] = delayToDo[s][i] /\ InHand(s)'[i] = 0 BY <1>1, <1>3 DEF InHand
<1>6. AtPoker(s) = 0 /\ AtPoker(s)' = delayToDo[s][i] BY <1>2, <1>4 DEF AtPoker
<1>7. accumulatedDelay'[s] + InHand(s)'[i] + AtPoker(s)' = accumulatedDelay[s] + InHand(s)[i] + AtPoker(s)
  <2>1. delayToDo[s][i] \in Int /\ accumulatedDelay[s] \in Int BY DEF TypeOK
  <2> QED BY <1>1, <1>5, <1>6, <2>1
<1> HIDE DEF InHand
<1> QED BY <1>1, <1>3, <1>4, <1>7, StepOfGoroutine

LEMMA LedgerEndDelay ==
  ASSUME TypeOK, TypeOK', Ledger, NEW s \in Service, NEW i \in Thread, EndDelay(s, i)
  PROVE  Ledger'
<1>1. /\ pc[s][i] = "paused" /\ poker[s] = "answered"
      /\ poker' = [poker EXCEPT ![s] = "idle"]
      /\ delayToDo' = [delayToDo EXCEPT ![s][i] = 0]
      /\ UNCHANGED <<pipe, accumulatedDelay, charged, slept>>
      /\ Goto(s, i, AfterPause(i))
  BY DEF EndDelay, At, state, history
<1>2. /\ pc'[s][i] \in {"serve", "idle"}
      /\ \A r \in Service, j \in Thread : r # s \/ j # i => pc'[r][j] = pc[r][j]
  BY <1>1, Threads, GotoLabels DEF AfterPause, WorkerLabels, ControlLabels
<1>3. /\ poker'[s] = "idle" /\ \A r \in Service \ {s} : poker'[r] = poker[r]
      /\ \A r \in Service, j \in Thread : (r # s \/ j # i) => delayToDo'[r][j] = delayToDo[r][j]
  BY <1>1 DEF TypeOK
<1>4. InHand(s)[i] = 0 /\ InHand(s)'[i] = 0 BY <1>1, <1>2 DEF InHand
<1>5. AtPoker(s) = 0 /\ AtPoker(s)' = 0 BY <1>1, <1>3 DEF AtPoker
<1>6. accumulatedDelay'[s] + InHand(s)'[i] + AtPoker(s)' = accumulatedDelay[s] + InHand(s)[i] + AtPoker(s)
  BY <1>1, <1>4, <1>5
<1> HIDE DEF InHand
<1> QED BY <1>1, <1>2, <1>3, <1>6, StepOfGoroutine

LEMMA LedgerPokerStop ==
  ASSUME TypeOK, Ledger, NEW s \in Service, PokerStop(s)
  PROVE  Ledger'
<1>1. /\ poker[s] = "asked" /\ poker' = [poker EXCEPT ![s] = "stopped"]
      /\ UNCHANGED <<pc, delayToDo, pipe, accumulatedDelay, charged, slept>>
  BY DEF PokerStop, state, locals, history
<1>2. poker'[s] = "stopped" /\ \A r \in Service \ {s} : poker'[r] = poker[r] BY <1>1 DEF TypeOK
<1>3. \A r \in Service : InHand(r)' = InHand(r) /\ AtPoker(r)' = AtPoker(r)
  BY <1>1, <1>2 DEF InHand, AtPoker
<1> QED BY <1>1, <1>3 DEF Ledger, SleptTyped, DelayLedger

\* One more phase that was slept.
LEMMA SleptOnce ==
  ASSUME NEW f, IsFiniteSet(DOMAIN f), \A q \in DOMAIN f : f[q] \in Nat,
         NEW p, p \notin DOMAIN f, NEW d \in Nat
  PROVE  /\ IsFiniteSet(DOMAIN With(f, p, d))
         /\ \A q \in DOMAIN With(f, p, d) : With(f, p, d)[q] \in Nat
         /\ SumFunction(With(f, p, d)) = SumFunction(f) + d
<1> DEFINE g == With(f, p, d)
           D == DOMAIN f \cup {p}
<1>1. DOMAIN g = D /\ g[p] = d /\ \A q \in DOMAIN f : g[q] = f[q] BY DEF With
<1>2. IsFiniteSet(D) BY FS_AddElement
<1>3. \A q \in D : g[q] \in Nat BY <1>1
<1>4. D \ {p} = DOMAIN f /\ p \in D OBVIOUS
<1> HIDE DEF g, D
<1>5. \A q \in D : g[q] \in Int BY <1>3
<1>6. /\ SumFunctionOnSet(g, D) = g[p] + SumFunctionOnSet(g, D \ {p})
      /\ SumFunctionOnSet(g, D \ {p}) \in Int
  BY <1>2, <1>4, <1>5, SumSplit
<1>7. SumFunctionOnSet(g, DOMAIN f) = SumFunctionOnSet(f, DOMAIN f)
  <2>1. \A q \in DOMAIN f : g[q] \in Int /\ g[q] = f[q] BY <1>1
  <2> QED BY <2>1, SumSame
<1>8. SumFunction(g) = SumFunction(f) + d
  BY <1>1, <1>4, <1>6, <1>7 DEF SumFunction
<1> QED BY <1>1, <1>2, <1>3, <1>8 DEF g

LEMMA LedgerPokerContinue ==
  ASSUME TypeOK, TypeOK', Guarded, Paid, Ledger, NEW s \in Service, PokerContinue(s)
  PROVE  Ledger'
<1>1. /\ poker[s] = "stopped" /\ poker' = [poker EXCEPT ![s] = "answered"]
      /\ pipe' = [pipe EXCEPT ![s] = 0]
      /\ slept' = [slept EXCEPT ![s] = With(@, phase[s][syncGuard[s]], pipe[s])]
      /\ UNCHANGED <<pc, delayToDo, accumulatedDelay, charged>>
  BY DEF PokerContinue, state, locals, history
<1>2. PICK p \in Nat : p = phase[s][syncGuard[s]] BY <1>1, Payment
<1>3. p \notin DOMAIN slept[s] BY <1>1, <1>2, Payment
<1>4. /\ slept'[s] = With(slept[s], p, pipe[s]) /\ poker'[s] = "answered" /\ pipe'[s] = 0
      /\ \A r \in Service \ {s} : slept'[r] = slept[r] /\ poker'[r] = poker[r] /\ pipe'[r] = pipe[r]
  BY <1>1, <1>2 DEF TypeOK
<1>5. pipe[s] \in Nat BY DEF TypeOK
<1>6. /\ IsFiniteSet(DOMAIN slept'[s]) /\ \A q \in DOMAIN slept'[s] : slept'[s][q] \in Nat
      /\ SumFunction(slept'[s]) = SumFunction(slept[s]) + pipe[s]
  BY <1>3, <1>4, <1>5, SleptOnce DEF Ledger, SleptTyped
<1>7. SleptTyped' BY <1>4, <1>6 DEF Ledger, SleptTyped
<1>8. \A r \in Service : Balanced(r) BY DEF Ledger, DelayLedger, Balanced
<1>9. ASSUME NEW r \in Service \ {s} PROVE Balanced(r)' BY <1>1, <1>4, <1>8, Untouched
<1>10. Balanced(s)'
  <2>1. InHand(s)' = InHand(s) BY <1>1 DEF InHand
  <2>2. AtPoker(s) = pipe[s] /\ AtPoker(s)' = 0 BY <1>1, <1>4 DEF AtPoker
  <2>3. SumFunctionOnSet(InHand(s), Thread) \in Int BY InHandType
  <2>4. SumFunction(slept[s]) \in Int BY SleptType DEF Ledger
  <2>5. accumulatedDelay[s] \in Int BY DEF TypeOK
  <2>6. charged[s] * delayNanos[s] =
          accumulatedDelay[s] + SumFunctionOnSet(InHand(s), Thread) + pipe[s] + SumFunction(slept[s])
    BY <1>8, <2>2 DEF Balanced
  <2>7. \A a, h, p2, z \in Int : a + h + p2 + z = a + h + 0 + (z + p2) OBVIOUS
  <2>8. charged[s] * delayNanos[s] =
          accumulatedDelay[s] + SumFunctionOnSet(InHand(s), Thread) + 0 + (SumFunction(slept[s]) + pipe[s])
    BY <1>5, <2>3, <2>4, <2>5, <2>6, <2>7
  <2> QED BY <1>1, <1>6, <2>1, <2>2, <2>8 DEF Balanced
<1> QED BY <1>7, <1>9, <1>10 DEF Ledger, DelayLedger, Balanced

LEMMA LedgerStep == TypeOK /\ TypeOK' /\ Guarded /\ Paid /\ Ledger /\ [Next]_vars => Ledger'
<1> SUFFICES ASSUME TypeOK, TypeOK', Guarded, Paid, Ledger, [Next]_vars PROVE Ledger' OBVIOUS
<1>1. CASE UNCHANGED vars
  <2>1. UNCHANGED <<pc, delayToDo, pipe, poker, accumulatedDelay, charged, slept>>
    BY <1>1 DEF vars, state, locals, pokerVars, history
  <2>2. \A r \in Service : InHand(r)' = InHand(r) /\ AtPoker(r)' = AtPoker(r)
    BY <2>1 DEF InHand, AtPoker
  <2> QED BY <2>1, <2>2 DEF Ledger, SleptTyped, DelayLedger
<1>2. ASSUME NEW s \in Service, NEW w \in Worker, WorkerStep(s, w) PROVE Ledger'
  BY <1>2, LedgerCharge, LedgerOrdinary, Threads DEF WorkerStep, OrdinaryStep
<1>3. ASSUME NEW s \in Service, NEW t \in Service, Receive(s, t) PROVE Ledger'
  BY <1>3, LedgerReceive
<1>4. ASSUME NEW s \in Service, NEW i \in Thread, ThreadStep(s, i) PROVE Ledger'
  BY <1>4, LedgerOrdinary, LedgerTakeDelay, LedgerFlood, LedgerDoDelay, LedgerEndDelay
  DEF ThreadStep, OrdinaryStep
<1>5. ASSUME NEW s \in Service, PokerStep(s) PROVE Ledger'
  BY <1>5, LedgerPokerStop, LedgerPokerContinue DEF PokerStep
<1> QED BY <1>1, <1>2, <1>3, <1>4, <1>5 DEF Next, Idle

\* The delay of every request is slept once, whatever the services, delays and
\* threshold are and however requests, floods and pauses interleave: at any time
\* what is charged is what waits, what was taken and what was slept (utils.go:244,
\* 260, pause.go:101-102).
THEOREM DelaysBalance == Spec => []DelayLedger
<1>1. Ledger => DelayLedger BY DEF Ledger
<1> QED BY <1>1, TypeInit, TypeStep, GuardedInit, GuardedStep, PaidInit, PaidStep, LedgerInit,
           LedgerStep, PTL DEF Spec
=============================================================================
