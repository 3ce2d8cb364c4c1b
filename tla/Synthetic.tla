------------------------------ MODULE Synthetic ------------------------------
(***************************************************************************)
(* The services that are built from a description: the synthetic ones      *)
(* (src/app/cmd/synthetic) and the mutex example (src/app/cmd/mutex). A    *)
(* request is served by threads that use the CPU and by calls to other     *)
(* services, one after the other or all at once, over HTTP or gRPC. Every  *)
(* call registers with the service it goes to first (slowpoke/pause.go),   *)
(* which dials it under a lock. What a request is charged is in PausePP,   *)
(* how it spins and is counted in Accounting.                              *)
(*                                                                         *)
(* Services may stop, and panics spread: net/http recovers the panic of a  *)
(* handler, but not that of a goroutine it started, gRPC recovers none, a  *)
(* panic with a lock leaves it locked, and a process that ends takes all   *)
(* its requests with it.                                                   *)
(***************************************************************************)
EXTENDS Naturals, Sequences, Functions

CONSTANTS Clients,     \* each sends one request
          Services,
          Configs,     \* descriptions of an application, see Endpoint
          Failing      \* services that may stop by themselves

VARIABLES config,      \* the application
          asked,       \* clients that have sent their request
          answered,    \* clients whose request was answered
          node,        \* the calls under way, see Call
          alive,       \* services that run
          stopped,     \* those that have stopped by themselves
          neighbors,   \* neighbors[r]: services r has a control connection to
          stuck,       \* services whose neighborsLock is locked for good
          registers,   \* register messages <<to, from>> under way
          conns,       \* conns[r]: services r has a gRPC connection in its table to
          dialled,     \* dialled[r][s]: gRPC connections r has opened to s
          lock         \* the calls that hold the mutex service's lock

network == <<neighbors, stuck, registers>>
grpc == <<conns, dialled>>
vars == <<config, asked, answered, node, alive, stopped, network, grpc, lock>>

-----------------------------------------------------------------------------
(* Descriptions. *)
CpuComplexity == Nat                    \* threads; how long they spin is left out
CalledService == [service : Services, endpoint : STRING, protocol : {"http", "grpc"},
                  ratio : Nat, probability : 0..100]
NetworkComplexity == [async : BOOLEAN, calls : Seq(CalledService)]
Endpoint == [threads : CpuComplexity, locked : BOOLEAN, network : NetworkComplexity]

NoNetwork == [async |-> FALSE, calls |-> <<>>]
Static(service, endpoint) == [service |-> service, endpoint |-> endpoint, protocol |-> "http",
                              ratio |-> 1, probability |-> 0]

(* cmd/mutex: service1 calls service2, which spins under a lock. *)
mutex(service1, service2) ==
  [entry |-> <<service1, "home">>,
   protocol |-> [s \in Services |-> "http"],
   endpoints |->
     [s \in Services |->
        IF s = service1
        THEN [home |-> [threads |-> 1, locked |-> FALSE, network |->
                          [async |-> FALSE, calls |-> <<Static(service2, "ep1")>>]]]
        ELSE [ep1 |-> [threads |-> 1, locked |-> TRUE, network |-> NoNetwork]]]]

(* A description only calls endpoints it describes.                        *)
ASSUME SyntheticAssumption ==
  \A app \in Configs :
    /\ app.protocol \in [Services -> {"http", "grpc"}]
    /\ DOMAIN app.endpoints = Services
    /\ app.entry \in Services \X STRING /\ app.entry[2] \in DOMAIN app.endpoints[app.entry[1]]
    /\ \A s \in Services : \A e \in DOMAIN app.endpoints[s] :
         /\ app.endpoints[s][e] \in Endpoint
         /\ \A called \in Range(app.endpoints[s][e].network.calls) :
              called.endpoint \in DOMAIN app.endpoints[called.service]

-----------------------------------------------------------------------------
(* Calls. A call is named by the client and the position of each call on   *)
(* the way to it in the calls of the handler above. Until it is sent it is *)
(* a goroutine of the service that makes it, then one of the service it    *)
(* goes to.                                                                *)
Call(target, at) ==
  [service |-> target.service, endpoint |-> target.endpoint, protocol |-> target.protocol,
   at |-> at,
   threads |-> 0,    \* that still spin
   calls |-> <<>>,   \* the calls to make
   made |-> 0]       \* how many have been started

Calling == {"register", "updateNeighbor", "announce", "lookup", "connect", "send"}
Serving == {"serve", "cpu", "network"}

Under(p) == SubSeq(p, 1, Len(p) - 1)
Above(q, p) == Len(q) = Len(p) + 1 /\ Under(q) = p
Exists(p) == p \in DOMAIN node
Caller(p) == node[Under(p)].service
Protocol(p) == config.protocol[node[p].service]
Described(p) == config.endpoints[node[p].service][node[p].endpoint]

Without(nodes, gone) == [q \in DOMAIN nodes \ gone |-> nodes[q]]
Step(p, at) == node' = [node EXCEPT ![p].at = at]

(* The handler of p is gone: so are the goroutines that call for it and    *)
(* the answers it has; calls that are served elsewhere go on.              *)
Leftovers(p) == {q \in DOMAIN node : Above(q, p) /\ node[q].at \notin Serving}

(* The process of a service ends. *)
Crash(service, alsoGone) ==
  LET hit == {p \in DOMAIN node : node[p].service = service /\ node[p].at \in Serving}
      gone == alsoGone \cup UNION {Leftovers(p) : p \in hit}
  IN /\ alive' = alive \ {service}
     /\ lock' = lock \ hit
     /\ node' = Without([p \in DOMAIN node |->
                           IF p \in hit THEN [node[p] EXCEPT !.at = "lost"] ELSE node[p]], gone)

(* The handler that made the call p is still there. *)
Awaited(p) == Len(p) > 1 /\ Exists(Under(p)) /\ node[Under(p)].at \in Serving

(* The goroutine that makes the call p panics. *)
Panic(p) ==
  LET caller == Under(p) IN
  /\ UNCHANGED <<config, asked, answered, stopped, registers, neighbors, grpc>>
  /\ IF ~Awaited(p)
     THEN node' = Without(node, {p}) /\ UNCHANGED <<alive, lock>>
     ELSE IF Described(caller).network.async \/ Protocol(caller) = "grpc"
     THEN Crash(node[caller].service, {p})
     ELSE /\ node' = Without([node EXCEPT ![caller].at = "lost"], Leftovers(caller) \cup {p})
          /\ UNCHANGED <<alive, lock>>

Failed(p) == node[p].at = "lost" /\ Panic(p) /\ UNCHANGED stuck

-----------------------------------------------------------------------------
(* Registering. Dialling happens under the write lock, so nobody sees      *)
(* neighbors meanwhile; when it fails the lock stays locked.               *)
Registered(p) == IF node[p].protocol = "grpc" THEN "lookup" ELSE "send"

requestEndpointRegister(p) ==
  /\ node[p].at = "register" /\ Caller(p) \notin stuck
  /\ Step(p, IF node[p].service \in neighbors[Caller(p)] THEN Registered(p) ELSE "updateNeighbor")
  /\ UNCHANGED <<config, asked, answered, alive, stopped, network, grpc, lock>>

(* Mutant: the lock is not released after a connection was made. *)
updateNeighborHeld(p) ==
  LET r == Caller(p)
      s == node[p].service
  IN /\ node[p].at = "updateNeighbor" /\ r \notin stuck
     /\ s \in alive
     /\ Step(p, "announce")
     /\ neighbors' = [neighbors EXCEPT ![r] = @ \cup {s}]
     /\ stuck' = stuck \cup {r}
     /\ UNCHANGED <<config, asked, answered, alive, stopped, registers, grpc, lock>>

updateNeighbor(p) ==
  LET r == Caller(p)
      s == node[p].service
  IN /\ node[p].at = "updateNeighbor" /\ r \notin stuck
     /\ IF s \in neighbors[r] \/ s \in alive
        THEN /\ Step(p, IF s \in neighbors[r] THEN Registered(p) ELSE "announce")
             /\ neighbors' = [neighbors EXCEPT ![r] = @ \cup {s}]
             /\ UNCHANGED <<config, asked, answered, alive, stopped, stuck, registers, grpc, lock>>
        ELSE stuck' = stuck \cup {r} /\ Panic(p)

(* What is written to a service that has stopped is lost, or fails. *)
announce(p) ==
  /\ node[p].at = "announce" /\ Caller(p) \notin stuck
  /\ \/ /\ Step(p, Registered(p))
        /\ registers' = registers \cup {<<node[p].service, Caller(p)>>}
        /\ UNCHANGED <<config, asked, answered, alive, stopped, neighbors, stuck, grpc, lock>>
     \/ node[p].service \notin alive /\ Panic(p) /\ UNCHANGED stuck

(* The other side dials back. A panic of the control goroutine ends the    *)
(* process.                                                                *)
handleRegister(s, r) ==
  /\ <<s, r>> \in registers
  /\ s \in stuck => s \notin alive
  /\ registers' = registers \ {<<s, r>>}
  /\ neighbors' = IF s \in alive /\ r \in alive THEN [neighbors EXCEPT ![s] = @ \cup {r}]
                                                ELSE neighbors
  /\ UNCHANGED <<config, asked, answered, stopped, stuck, grpc>>
  /\ IF s \in alive /\ r \notin neighbors[s] \cup alive
     THEN Crash(s, {})
     ELSE UNCHANGED <<alive, node, lock>>

-----------------------------------------------------------------------------
InitGRPCConn(r, s) == [dialled EXCEPT ![r][s] = @ + 1]

(* gRPC connections: looked up under a read lock, and made under the write *)
(* lock after a second look.                                               *)
lookup(p) ==
  /\ node[p].at = "lookup"
  /\ Step(p, IF node[p].service \in conns[Caller(p)] THEN "send" ELSE "connect")
  /\ UNCHANGED <<config, asked, answered, alive, stopped, network, grpc, lock>>

(* Mutant: whoever has found no connection makes one. *)
connectAnyway(p) ==
  LET r == Caller(p)
      s == node[p].service
  IN /\ node[p].at = "connect"
     /\ conns' = [conns EXCEPT ![r] = @ \cup {s}]
     /\ dialled' = InitGRPCConn(r, s)
     /\ Step(p, "send")
     /\ UNCHANGED <<config, asked, answered, alive, stopped, network, lock>>

connect(p) ==
  LET r == Caller(p)
      s == node[p].service
  IN /\ node[p].at = "connect"
     /\ conns' = [conns EXCEPT ![r] = @ \cup {s}]
     /\ dialled' = IF s \in conns[r] THEN dialled ELSE InitGRPCConn(r, s)
     /\ Step(p, "send")
     /\ UNCHANGED <<config, asked, answered, alive, stopped, network, lock>>

(* A request to a service that does not run is refused. *)
Invoke(p) ==
  /\ node[p].at = "send"
  /\ IF node[p].service \in alive
     THEN Step(p, "serve")
          /\ UNCHANGED <<config, asked, answered, alive, stopped, network, grpc, lock>>
     ELSE Panic(p) /\ UNCHANGED stuck

-----------------------------------------------------------------------------
(* Serving. *)
Serves(p) ==
  /\ node[p].at = "serve"
  /\ node' = [node EXCEPT ![p].at = "cpu", ![p].threads = Described(p).threads]
  /\ UNCHANGED <<config, asked, answered, alive, stopped, network, grpc>>
ServeHTTP(p) == Protocol(p) = "http" /\ ~Described(p).locked /\ Serves(p) /\ UNCHANGED lock
SimpleRPC(p) == Protocol(p) = "grpc" /\ Serves(p) /\ UNCHANGED lock

(* cmd/mutex/service2, with IS_LOCKED. *)
ep1(p) == Described(p).locked /\ lock = {} /\ lock' = {p} /\ Serves(p)

stressCPU(p) ==
  /\ node[p].at = "cpu" /\ node[p].threads > 0
  /\ node' = [node EXCEPT ![p].threads = @ - 1]
  /\ UNCHANGED <<config, asked, answered, alive, stopped, network, grpc, lock>>

(* Of the services with a probability one is picked by rand.Intn(sum - 1)  *)
(* + 1, which is never sum; a single one is picked, or "" is, as if it had *)
(* a companion with the rest of 100.                                       *)
Dynamic(calls) == SelectSeq(calls, LAMBDA s : s.probability # 0)
pickDynamicService(calls) ==
  LET dynamic == Dynamic(calls)
      upTo[i \in 0..Len(dynamic)] == IF i = 0 THEN 0 ELSE upTo[i - 1] + dynamic[i].probability
      sum == IF Len(dynamic) = 1 THEN 100 ELSE upTo[Len(dynamic)]
      picked(v) == IF \E i \in DOMAIN dynamic : v <= upTo[i]
                   THEN dynamic[CHOOSE i \in DOMAIN dynamic : v <= upTo[i] /\ v > upTo[i - 1]].service
                   ELSE ""
  IN IF dynamic = <<>> THEN {""} ELSE {picked(v) : v \in 1..(sum - 1)}

(* The calls that are made when service was picked, each as often as its   *)
(* ratio says.                                                             *)
Repeated(called, service) ==
  [n \in 1..(IF called.probability # 0 /\ called.service # service THEN 0 ELSE called.ratio) |->
     called]
Forwarded(calls, service) ==
  LET list[i \in 0..Len(calls)] ==
        IF i = 0 THEN <<>> ELSE list[i - 1] \o Repeated(calls[i], service)
  IN list[Len(calls)]

execCPU(p) ==
  /\ node[p].at = "cpu" /\ node[p].threads = 0
  /\ lock' = lock \ {p}
  /\ \E service \in pickDynamicService(Described(p).network.calls) :
       node' = [node EXCEPT ![p].at = "network",
                            ![p].calls = Forwarded(Described(p).network.calls, service)]
  /\ UNCHANGED <<config, asked, answered, alive, stopped, network, grpc>>

Made(p) == {q \in DOMAIN node : Above(q, p)}
AllBack(p) == \A q \in Made(p) : node[q].at = "done"

(* The next call. A gRPC handler has no HTTP request whose context a call  *)
(* over HTTP could use: it panics.                                         *)
Forward(p) ==
  LET target == node[p].calls[node[p].made + 1]
      q == Append(p, node[p].made + 1)
  IN /\ UNCHANGED <<config, asked, answered, stopped, network, grpc>>
     /\ IF target.protocol = "http" /\ Protocol(p) = "grpc"
        THEN Crash(node[p].service, {})
        ELSE /\ node' = [r \in DOMAIN node \cup {q} |->
                           IF r = q THEN Call(target, "register")
                           ELSE IF r = p THEN [node[p] EXCEPT !.made = @ + 1] ELSE node[r]]
             /\ UNCHANGED <<alive, lock>>

execParallel(p) == Described(p).network.async /\ Forward(p)
execSequential(p) == ~Described(p).network.async /\ AllBack(p) /\ Forward(p)
execNetwork(p) ==
  /\ node[p].at = "network" /\ node[p].made < Len(node[p].calls)
  /\ execParallel(p) \/ execSequential(p)

(* Mutant: the answers of the goroutines are not waited for. *)
execTaskEarly(p) ==
  /\ node[p].at = "network" /\ node[p].made = Len(node[p].calls)
  /\ answered' = IF Len(p) = 1 THEN answered \cup {p[1]} ELSE answered
  /\ node' = IF Awaited(p) THEN Without([node EXCEPT ![p].at = "done"], Leftovers(p))
                           ELSE Without(node, Leftovers(p) \cup {p})
  /\ UNCHANGED <<config, asked, alive, stopped, network, grpc, lock>>

execTask(p) ==
  /\ node[p].at = "network" /\ node[p].made = Len(node[p].calls) /\ AllBack(p)
  /\ answered' = IF Len(p) = 1 THEN answered \cup {p[1]} ELSE answered
  /\ node' = IF Awaited(p) THEN Without([node EXCEPT ![p].at = "done"], Leftovers(p))
                           ELSE Without(node, Leftovers(p) \cup {p})
  /\ UNCHANGED <<config, asked, alive, stopped, network, grpc, lock>>

-----------------------------------------------------------------------------
Client(c) ==
  /\ c \notin asked
  /\ asked' = asked \cup {c}
  /\ node' = [p \in DOMAIN node \cup {<<c>>} |->
                IF p = <<c>>
                THEN Call([service |-> config.entry[1], endpoint |-> config.entry[2],
                           protocol |-> config.protocol[config.entry[1]]], "send")
                ELSE node[p]]
  /\ UNCHANGED <<config, answered, alive, stopped, network, grpc, lock>>

Stops(service) ==
  /\ service \in Failing /\ service \in alive
  /\ stopped' = stopped \cup {service}
  /\ Crash(service, {})
  /\ UNCHANGED <<config, asked, answered, network, grpc>>

Goes(p) ==
  \/ requestEndpointRegister(p) \/ updateNeighbor(p) \/ announce(p)
  \/ lookup(p) \/ connect(p) \/ Invoke(p) \/ Failed(p)
  \/ ServeHTTP(p) \/ SimpleRPC(p) \/ ep1(p) \/ stressCPU(p) \/ execCPU(p) \/ execNetwork(p) \/ execTask(p)

Init ==
  /\ config \in Configs
  /\ asked = {} /\ answered = {}
  /\ node = [p \in {} |-> <<>>]
  /\ alive = Services /\ stopped = {}
  /\ neighbors = [s \in Services |-> {}] /\ stuck = {} /\ registers = {}
  /\ conns = [s \in Services |-> {}] /\ dialled = [r \in Services |-> [s \in Services |-> 0]]
  /\ lock = {}

Handles == \E s, r \in Services : handleRegister(s, r)
Proceeds == \E p \in DOMAIN node : Goes(p)
Next ==
  \/ Handles \/ Proceeds
  \/ \E c \in Clients : Client(c)
  \/ \E s \in Failing : Stops(s)

(* Nothing on the way of a request waits for an input: the goroutines run. *)
Spec == Init /\ [][Next]_vars /\ WF_vars(Handles) /\ WF_vars(Proceeds)

-----------------------------------------------------------------------------
(* However many goroutines of a service call another one over gRPC at the  *)
(* same time, one connection is opened: the second look under the write    *)
(* lock (utils.go 476) finds what the first one missed.                    *)
OneConnection == \A r, s \in Services : dialled[r][s] <= 1

(* A request that is answered has left nothing behind: no goroutine that   *)
(* handler.go and exec_network.go started for it still runs, in any        *)
(* service, whatever failed meanwhile. A request fails only when a service *)
(* has stopped, or where an HTTP call is described in a gRPC service,      *)
(* whose handler has no HTTP request (handler.go 109): no race of          *)
(* registrations, connections and calls makes a handler panic.             *)
NothingLeft == \A p \in DOMAIN node : p[1] \notin answered
Unsupported ==
  \E s \in Services : \E e \in DOMAIN config.endpoints[s] :
    /\ config.protocol[s] = "grpc"
    /\ \E call \in Range(config.endpoints[s][e].network.calls) : call.protocol = "http"
FailsForAReason ==
  \A c \in asked \ answered : <<c>> \in DOMAIN node \/ stopped # {} \/ Unsupported
OutcomesExplained == NothingLeft /\ FailsForAReason

(* Every request is answered, or fails, unless one of its goroutines waits *)
(* for the neighborsLock of a service that failed to dial one that does    *)
(* not run (pause.go 40): that lock is never released.                     *)
WaitsForever(c) ==
  /\ alive # Services
  /\ \E p \in DOMAIN node : /\ p[1] = c
                            /\ node[p].at \in {"register", "updateNeighbor", "announce"}
                            /\ Caller(p) \in stuck
RequestsEnd == \A c \in Clients : c \in asked ~> (<<c>> \notin DOMAIN node \/ WaitsForever(c))
=============================================================================
