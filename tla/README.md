# A TLA+ model of Slowpoke

Slowpoke predicts what an optimisation of one microservice would do to the throughput of a
whole application: every *other* service is slowed down by pausing its process, so that the
optimised one looks faster than it is.  The prediction is right only if every service is
paused for exactly as long as its requests owe, at moments all services agree on.  This
directory models the parts of the program that have to guarantee it, checks them with TLC and
proves the main results with TLAPS.  The applications it is evaluated on, the synthetic
services and the orchestrator that turns measurements into predictions are modelled as well.

## The system

| part | code | state | operations |
|---|---|---|---|
| runtime: charging | `app/pkg/slowpoke/utils.go` | `accumulatedDelay`, `reqcount`, `sleepPhase` under `sync_guard` | `SlowpokePokerPPDelay` on each request, `SlowpokeDoDelay` |
| pause protocol | `app/pkg/slowpoke/pause.go` | `neighbors` under `neighborsLock`, TCP connections | `updateNeighbor`, `requestEndpointRegister`, `requestPause`, `handlePause`, `handleConnection` |
| poker | `src/poker/poker.c` | two FIFOs, `accumulated_nano_sleep`, `child_exited` | `monitor_fifo`, `monitor_child`, `main`; on the service's side the end of `SlowpokeInit` and `SlowpokeDoDelay` |
| counters, CPU spinning | `utils.go` | `requestCounters`, `sleepSurplus` | `SlowpokeCheck`, `CPUSpinTime`, `printCountersSyncMap` |
| local store | `app/pkg/slowpoke/state.go` | `internalStates` | `GetState`, `SetState`, bulk forms |
| applications | `app/internal/{hotel,boutique,social,movie}`, `app/cmd` | values in the store or a `sync.Map` | one handler per endpoint, calling others with `Invoke` |
| synthetic and mutex services | `app/cmd/{synthetic,mutex}` | gRPC connections, a mutex | calls in sequence, in parallel and dynamic ones |
| long-chain services | `app/cmd/longchain` | none | do not compile at this commit |
| mucache client side | `app/pkg/{cm,invoke,wrappers,state}` | dependency sets, work queues | compiled out of Slowpoke's builds |
| experiment | `src/main.py`, `src/run.sh`, `src/config.py`, `src/count.py` | delays and measured throughputs | baseline, ground truth, slowdown, prediction |

How they interact.  A request enters through `SlowpokeWrapper`, which charges the service
`delayNanos`.  At the target service the request that overfills the batch asks for the next
*phase*.  A goroutine that moves its service to a new phase takes the accumulated delay, writes
a pause message to every neighbour and asks the poker, over a FIFO, to stop the whole process
for that long.  The neighbours do the same when they read the message, so that a phase floods
the application.  Services become neighbours by dialling each other before the first call.  The
poker is the service's parent process; it stops and continues the service's process group with
signals and answers over a second FIFO.

What is hard.  Any number of request goroutines and one control goroutine per connection share
two locks, one of which is held while the process sleeps; pauses arrive several times, out of
order and while the service is stopped; the delay is taken in one critical section and slept in
another; signals take effect late, sleeps last too long and the service may be killed at any
moment.  The applications read, change and write back shared values without locks, and orders
and posts take several calls of which one may fail.  A panic ends a handler, or the process,
depending on which goroutine it is in.  PROJECT.json lists each of these hazards at its line, with the properties that cover it
or the reason why none does yet.

## The modules

| module | what it is |
|---|---|
| `PauseContract` | what the pause mechanism promises: phases are started by the target, each batch is slept once and in full |
| `PausePP` | the protocol of `pause.go` and the runtime's charging: goroutines, locks, connections |
| `MCPausePP` | instances of `PausePP` for TLC |
| `PokerContract` | what a service may rely on when it asks its poker for a pause |
| `Poker` | the poker and the service's side of the FIFOs |
| `PausePPProofs` | theorems about `PausePP` |
| `Accounting` | counting requests and burning CPU time: the lock-free counters, their printing, the surplus |
| `MCAccounting` | its instance for TLC |
| `LocalStore` | the map of values of a service, and the bounds of the lists in it |
| `Services` | what the applications have in common: `Invoke`, panics, services that start and stop |
| `Hotel`, `Social`, `Movie`, `Boutique` | the four applications, one module each, on top of `Services` |
| `MCHotel`, `MCSocial`, `MCMovie`, `MCBoutique` | their instances for TLC |
| `HotelKept`, `MovieKept`, `SocialKept`, `BoutiqueKept` | theorems about `Hotel`, `Movie`, `Social` and `Boutique` |
| `Synthetic`, `MCSynthetic` | services built from a description, the mutex example, registration with services that stop |
| `SyntheticOutcomes` | theorems about `Synthetic` |
| `Experiment`, `MCExperiment` | the orchestrator, its script and its tables |
| `MethodProofs` | theorems about `Poker`, `Accounting` and `Experiment`: how long a service is stopped, what is counted and burnt, and what the method predicts |
| `DataLemmas` | lemmas that all these proofs share: induction, recursive functions, sums, stacks of handlers, bounded lists |

`PausePP` uses the poker through the five states of `PokerContract` (idle, asked, stopped,
answered, gone); `Poker` implements that contract by the mapping `View`.

### PausePP

State.  `accumulatedDelay`, `reqcount`, `sleepPhase` and `neighbors` are the package variables of
the same names, one per service.  `sync_guard` is held across a step only while
`SlowpokeDoDelay` waits for the poker (`syncGuard`); its other critical sections contain no
blocking call and are one step each.  `neighborsLock` is modelled with its readers, its writer
and the writers that wait, because Go's `RWMutex` keeps new readers out as soon as a writer
waits.  `conn[s][t]` is what `s` wrote to `t` and `t` has not read.  `pc`, `phase`, `delayToDo`,
`todo` and `peer` are the locals of a goroutine: `Worker`s serve requests, and the goroutine
named after service `t` runs `handleConnection` for what `t` sends.  `charged`, `batch` and
`slept` are history variables that no action reads.

Actions, in the order of the code: `PokerPPDelay`, `Respond`, `Invoke`; `LookupNeighbor`,
`LockNeighbors`, `DialNeighbor`, `GetConn`, `SendRegister`; `Receive`, `TakeDelay`, `LockTable`,
`RequestPause`, `DoDelay`, `EndDelay`; and the poker's `PokerStop` and `PokerContinue`.  While
the poker has stopped a service none of its goroutines takes a step.

What is left out: the contents of requests and responses; which handler calls whom (any call of
the graph `Calls`, any number of times); failures of the network.  The program has one
connection per dial; two services that dial each other have two, one per direction, as here.

### Poker

`fifoThread` is where `monitor_fifo` is, after `main`'s `getpgid`, which decides the process
group that gets the signals and may run before the child's `setsid`.  `child` is where the
service is, from `fork` to the requests it serves.  Time is counted in units: a sleep of `n`
takes `n` to `n + MaxOver`, and up to `MaxLag` of what the poker counts for a pause passes
before the service is really stopped, or after the count ends until it is continued.
`stoppedTime` and `asked` are history variables; `asks` counts the delays written, the one of
the handshake included.  `InitGroup` says that the poker's process group is group 1, as in a
container, where `kill(-1, ...)` stops the service all the same.

### Accounting

Every atomic operation of `SlowpokeCheck` is a step: `LoadOrStore` and the compare-and-swap loop
of the counter (`SlowpokeCheck`, `Increment`, `Reload`), the swap of `sleepSurplus`
(`TakeSurplus`), each loop between two looks at the CPU clock (`Spin`) and the atomic add
(`ReturnSurplus`).  The printing goroutine visits the keys that the map has when `Range` starts,
in any order, with the value each has when it is visited (`Visit`, `Reset`, `ReloadCounter`).
`func`, `counter`, `takenSurplus`, `sleepTime` and `spun` (the code's `current` less the clock
when it started) are locals of a worker and are cleared when they are dead; `counted`, `printed`
and `cpu` are history.  The protocol of `PausePP` and this module share no variable: a request
first goes through `SlowpokeCheck`, then its delay is charged, so they are not composed.

### Services and the applications

A request of a client is a stack of handlers (`call[c]`), one for each service it has got to:
the endpoint, the decoded request, the place in the function, and the locals a later step needs.
Each read or write of a service's state is a step of its own, so that the requests of different
clients interleave between any two of them; calls push a handler, returns pop one.  An endpoint's
action has the name of the function in `cmd/.../main.go` and calls the operator with the name of
the function in `internal/`.  A panic ends the whole stack, since the callers' `Invoke` panics
in turn.  `Listen` opens a service's endpoints after its `main` has stored the seed data;
Clients ask only services that listen; a call
between services may reach a `Late` one before it does, and panics.  In `Boutique` the services in
`Failing` (`shipping` in `MCBoutique`) may stop, and requests that wait for one fail.

`log` and `raced` are history variables: what was written to a list, and which lists were
rewritten between another request's read and write.  The code has no locks there, so the
properties say what holds without such an overlap and, separately, what holds in spite of it.

`Boutique` models carts as Go slices: the stored cart, and every copy of it, is a window on an
array of `arrays` with a capacity, and `append` writes into the array when there is room.  Money
has units and nanos, with `NanosMod = 100` in place of 10^9; the arithmetic is that of `Sum`,
`MultiplySlow` and `_carry`.  Floating-point values appear where their cut-off fraction matters
(`CreateQuoteFromCount`: `Truncated` lists the counts for which 8.99 n loses a cent).

Abstracted: names, texts and addresses are model values, hashes injections, and each client
sends one request.  A slice header is read and written at once, although Go does not promise it
for the catalogue, which is appended to without a lock.

Things the models made us notice, none of which contradicts a line of the repository: `_carry`
adds a whole unit on every carry, so a converted amount is never below one unit; an item of
quantity 0 is charged once (`MultiplySlow` adds after the first); `GetRecommendations` fetches a
catalogue of size 0 and panics for a list that is not empty; `pickDynamicService` never draws
the highest value, so that of two services with probability 1 each the first is always picked.

### Synthetic

`config` is a description of an application: for each service a protocol and its endpoints, each
with the threads that use the CPU and the calls it makes.  `node` maps the name of a call (the
client and the positions of the calls on the way to it) to where it is: with its caller
(`register`, `updateNeighbor`, `announce`, `lookup`, `connect`, `send`), then with the service it
goes to (`serve`, `cpu`, `network`), then `done` or `lost`.  The steps of a call are those of
`Invoke` or `InvokeGRPC`, of `updateNeighbor` and `requestEndpointRegister`, of `ServeHTTP` or
`SimpleRPC`, and of `execTask`.

Failures.  The services in `Failing` may stop, and are not restarted.  A call to one is refused
and panics.  `Panic` and `Crash` say what a panic takes with it: the handler when net/http recovers it
(its other goroutines go on), the process when it is in a goroutine of `execParallel`, in a gRPC
handler or in the control server.  A dial that fails panics with `neighborsLock` locked, which
is `stuck` from then on.

Not in it: the payload of messages, what a request is charged (`PausePP`) and how it is counted
and spins (`Accounting`), HTTP calls to services that serve gRPC, a request for an endpoint that
does not exist, and cyclic descriptions, whose calls could nest without bound.

### Experiment

`stage`, `i` and `repetition` are where `run` is; `service_delay` and `processing_time` are its two
dictionaries, which all experiments share.  `exp` hands them to `run.sh` (`sh`), which deletes the
pods, waits until they are gone, deploys new ones and measures.  A measurement may fail
(throughput 0, repeated) or print no times (a division by zero that ends the orchestrator).

The cluster is external, and idealised to the assumption of the method: the throughput is that
of the service with the highest cost per request, and a delay costs what it says.  A throughput
is recorded by its inverse, in units in which all quotients of the formulas but two are integers;
these two are where the code cuts off a fraction.  `PredictionsHold` then says that the
arithmetic of `main.py` is the right one under this assumption: it says nothing on whether a
real cluster meets it, to which `PausePP` and `Poker` contribute.

## Checking

Run each with `tlc -config <cfg> <module>`.

| run | module, cfg | distinct states | shows |
|---|---|---|---|
| `pause_safety` | `MCPausePP`, `PauseSafety.cfg` | 607 thousand | seven invariants of the protocol, with three services |
| `pause_liveness` | `MCPausePP`, `PauseLiveness.cfg` | 20 thousand | pauses reach the neighbours, nobody waits forever, the contract is implemented |
| `pause_batch` | `MCPausePP`, `PauseBatch.cfg` | | the batch is larger than documented (see Findings) |
| `poker` | `Poker`, `Poker.cfg` | 15 thousand | the service is stopped for what it asked, errors do not add up, the contract, the end of both processes |
| `poker_hang` | `Poker`, `PokerHang.cfg` | | the FIFO thread may hang (see Findings) |
| `accounting` | `MCAccounting`, `Accounting.cfg` | 272 thousand | counts and CPU time are conserved, every count is printed |
| `hotel` | `MCHotel`, `Hotel.cfg` | 1.5 million | lists keep what was confirmed, reservations fit, hotels are known to all services |
| `social` | `MCSocial`, `Social.cfg` | 1 million | timelines name stored posts and keep the newest, posts reach followers, the graph has both sides |
| `movie` | `MCMovie`, `Movie.cfg` | 640 thousand | indexed reviews are stored, both indexes are kept |
| `boutique` | `MCBoutique`, `Boutique.cfg` | 709 thousand | carts, orders and the catalogue are kept, whatever overlaps or stops |
| `synthetic` | `MCSynthetic`, `Synthetic.cfg` | 140 thousand | one connection per pair of services, failures have a reason, requests end |
| `experiment` | `MCExperiment`, `Experiment.cfg` | 17 thousand | predictions agree with measurements, the orchestrator ends |

The properties, and what would break them:

* `PhaseLed`: only the target starts phases.  `PhaseEarned`: it pays for each with more than
  `Threshold` of its own requests, although several goroutines may find the batch full at once.
* `BatchPaidOnce` and `DelayLedger`: nothing that was charged is lost, slept twice or slept in
  the wrong amount between the critical sections, whatever copies of a pause arrive.
* `RegisteredBothWays`, `ToldBeforePause`: the windows between table, register message and flood.
* `NeighborsJoin`, `RequestsServed`: a pause reaches every neighbour even if pauses overtake each
  other, and no goroutine waits forever behind either lock.
* `PausedInFull`, `ErrorCarried`: lower and upper bound of the time the service was stopped.
* `PokerFollows`, `PauseEnds`: the poker ends with its service, every pause ends.
* `CountsConserved`, `CountsPrinted`: increments and resets race without a lock, yet each request
  is counted once and printed once.  `SpinConserved`: the surplus is neither lost nor used twice,
  so that the CPU time burnt is right in the long run although each request burns too much.
* `KeptUnlessRaced`, `TimelinesKept`, `IndexesKept`, `CartsKept`, `CatalogKept`: a list that is read,
  changed and written back by several requests is what it should be unless two of them overlapped,
  and stays within its bound, or is bounded by how it outgrows it.
* `ReservationsFit`: however requests overlap, no stored reservation was admitted beyond the
  capacity, counting the earlier ones that are still in the list.
* `KnownOnceStored`, `FannedOut`, `FollowedBothWays`, `ReviewsFound`: what is stored in several calls
  is in all places, or its request is under way or has failed.
* `OrdersPaid`: what is shipped was paid to the last fraction; an order that fails was not
  charged unless a service that it passes after the charge (`shipping`, `cart`, or on the way back
  `checkout` and `frontend`) stopped.  `TypeOK` of `Boutique` includes that amounts of money are
  normalised.
* `OneConnection`: goroutines that find no gRPC connection at once make one.
* `OutcomesExplained`: no race of registration, connections and calls fails a request, and an
  answer waits for everything that was started for it.
* `RequestsEnd`: every request ends, unless it waits for the lock that a failed dial left locked.
* `PredictionsHold`: the prediction equals the measured throughput except for the fractions that
  are cut off, which make it too high by less than a microsecond per request; a value left in
  a dictionary, or an old pod still running, would break it.  `RunsEnd`: the orchestrator ends
  unless the application serves less than one request a second.
* `ImplementsContract`, in both modules: the detailed specification implements the abstract one.

Bounds.  `MaxReq` bounds the requests of each service: four (three with three services) at the
target with `Threshold = 1` give two phases (one), so that a second phase can overtake a first
one and requests arrive between the phases.  Two request goroutines at one service are enough
for two of them to find the batch full together and for a reader and a writer to wait for
`neighborsLock`; three services give a neighbour that hears of a phase over two paths.
`MaxAsks = 4` (the handshake and three pauses) lets two errors add up; `Delays` are longer than
the error of one pause, as the premise of `ErrorCarried` says; `MaxOver` and `MaxLag` are one
unit each.  `MaxChecks = 3` requests of two workers let a compare-and-swap fail against the other
worker and against the printing goroutine, and let one worker find the surplus taken by the
other; a `Quantum` of one or three around `processingTime = 2` gives both exact and excess
burning.  The run is a pre-run
(`prerun = TRUE`); without one the counters and the printing goroutine do nothing.

In the applications three clients send one request each, to any endpoint a client uses: two that
overlap on a list and a third that reads it, or that makes the call that should not be lost.  The
lists keep two elements instead of ten, so that the third drops one.  Capacities, stays and rooms
let two reservations fit on their own and not together.  `MCBoutique` starts with a cart of
three items in an array for four, for which `append` writes in place, or without a cart; of its
three clients two use everything and the third fills a cart, and in `MCSocial` the third composes
a post.  `MCSynthetic` has six
applications: a parallel fan-out with two calls to one service over gRPC, a chain over gRPC, a
choice of two services, a call that is made or not, an HTTP call described in a gRPC service, and
the mutex; with two requests two goroutines of a service race for the table, the connection and
the lock, and two of the three services may stop.  Quotas are 2 in `config.py`; one of the
tables of `MCExperiment` has others, so that the formulas' use of them is checked.  Three
experiments in each of two repetitions show a value that is carried over; `MaxFailures = 2`.

Fairness.  The Go scheduler and the kernel run every goroutine and thread that is neither
blocked nor stopped, hence weak fairness of each goroutine's steps and of the poker's.  A request
that was accepted is worked on (its choice between answering and calling is one fair action).
The printing goroutine's timer fires.  In `Synthetic` the goroutines of calls run and messages are
read; in `Experiment` the scripts run and Kubernetes starts and ends pods.  There is no fairness for the arrival of requests, for
`Ask`, nor for `ChildEnds`.  Deadlock is
checked: the only states without a further step are those where all requests are served
(`Quiescent`) and where the poker is `Finished` or `Hung`; the printing goroutine of
`Accounting` never stops.  The applications, `Synthetic` and `Experiment` stop when every client was
answered, or the orchestrator is done, so deadlock is not checked there; that `Synthetic` and
`Experiment` do not stop earlier is what their liveness properties say.

## Proofs

The theorems hold for every value of the constants: any services, call graph, delays, threshold,
number of goroutines and requests (`PauseAssumption`), any delays, excess and lag
(`PokerAssumption`), any workers, endpoints and CPU times (`AccountingAssumption`), any guests,
hotels, films, casts, users, posts, clients and bounds (`HotelAssumption`, `MovieAssumption`,
`SocialAssumption`, which lets the populated graph be any, also one with pairs that one vertex
lists and the other does not), any products, payments, currencies and rates but 0, by which
`Convert` divides, any services that stop, and carts of up to four items to start with
(`BoutiqueAssumption`), any description
of an application whose calls name endpoints it has
(`SyntheticAssumption`), any benchmark tables (`ExperimentAssumption`).  Services, workers and
goroutines are finite sets.  Check them with `tlapm <module>.tla`.

| theorem | says |
|---|---|
| `PausePPProofs!TypeCorrect` | `Spec => []TypeOK` |
| `PausePPProofs!PhasesLed`, `PhasesEarned` | `Spec => []PhaseLed`, `Spec => []PhaseEarned` |
| `PausePPProofs!BatchesPaidOnce`, `DelaysBalance` | `Spec => []BatchPaidOnce`, `Spec => []DelayLedger` |
| `PausePPProofs!Registered`, `ToldFirst` | `Spec => []RegisteredBothWays`, `Spec => []ToldBeforePause` |
| `PausePPProofs!Implementation` | `Spec => Contract!Spec` |
| `MethodProofs!TypeCorrect` | `Spec => []TypeOK`, of `Poker` |
| `MethodProofs!Paused`, `ErrorIsCarried` | `Spec => []PausedInFull`, `Spec => []ErrorCarried` |
| `MethodProofs!Implementation` | `Spec => ImplementsContract`, of `Poker` |
| `MethodProofs!AccountingTypeCorrect` | `AccountingSpec => []AccountingTypeOK` |
| `MethodProofs!CountsAreConserved` | `AccountingSpec => []CountsConserved` |
| `MethodProofs!CPUTimeIsConserved` | `AccountingSpec => []SpinConserved` |
| `SyntheticOutcomes!Connections`, `Outcomes` | `Spec => []OneConnection`, `Spec => []OutcomesExplained` |
| `HotelKept!Typed`, `Fitting` | `Spec => []TypeOK`, `Spec => []ReservationsFit` |
| `HotelKept!NothingLost`, `StoredHotelsKnown` | `Spec => []KeptUnlessRaced`, `Spec => []KnownOnceStored` |
| `MovieKept!Typed` | `Spec => []TypeOK` |
| `MovieKept!NoneMissing`, `KeptNewest` | `Spec => []ReviewsFound`, `Spec => []IndexesKept` |
| `SocialKept!Typed`, `TimelinesAlwaysKept` | `Spec => []TypeOK`, `Spec => []TimelinesKept` |
| `SocialKept!AlwaysFannedOut` | `Spec => []FannedOut` |
| `SocialKept!AlwaysFollowedBothWays` | `Spec => []FollowedBothWays` |
| `BoutiqueKept!Typed`, `CatalogAlwaysKept` | `Spec => []TypeOK`, `Spec => []CatalogKept` |
| `BoutiqueKept!OrdersAlwaysPaid` | `Spec => []OrdersPaid` |
| `BoutiqueKept!CartsAlwaysKept` | `Spec => []CartsKept` |
| `MethodProofs!PredictionsAreRight` | `ExperimentSpec => []PredictionsHold` |

The argument for the protocol.  `PhaseLed` is not inductive: it also takes that a goroutine of
the target that asks for phase `p` found `p - 1` current, and that a phase one past the
target's is asked for only after more than `Threshold` requests were counted.  `BatchPaidOnce`
additionally needs that `sync_guard` is held by exactly the goroutine that waits for the poker,
that the value in the FIFO is that goroutine's `delayToDo`, and that no goroutine owes a phase
later than its service's.  The refinement then maps each step: charging, joining and sleeping
are steps of the contract, everything else stutters.

`DelayLedger` follows step by step from `BatchPaidOnce`: every step moves an amount between the
accumulator, one goroutine, the poker and what was slept, and `SumChange` says what that does to
the sum over the goroutines.  `RegisteredBothWays` needs where a registration can be: in the hands
of the goroutine that dialled, in the connection, or with the goroutine that reads it, which is
then before its write to the table; whoever registers holds a connection already (`Mutual`).
For `ToldBeforePause` a goroutine that floods holds the table
for reading until it has written to all (`Holding`, `Telling`), so that nobody joins the table in between; one that is
added later has its phase from the register message.

The argument for the poker.  The two processes take turns (`Turns`): where one is and what is in
the FIFOs says where the other can be, so at most one delay and one answer are under way.
`Books` balances the accumulator: stopped time, what is still to be slept and one lag per pause
cover what was asked, and outside a pause the accumulator is never positive.  For the upper
bound, `Bounded` keeps the credit within one pause's error, which takes that delays are longer
than it, and `NotTooLong` bounds the stopped time by the pauses that have `Ended`.

The argument for the counters.  A swap that succeeds finds the value its goroutine loaded, even if
the counter was reset and counted up again in between, so it moves exactly that many requests;
`NothingHeld` says that the printing goroutine keeps none of them between two messages.  A
surplus is with one worker or in `sleepSurplus`, since a worker swaps it for 0 before it uses it,
and a worker that does not burn has burnt nothing for its next request yet (`Rested`).

The argument for the synthetic services.  Whatever was dialled is in the table (`DialledIsKnown`),
hence the second look finds it; no step but `connect` touches either, panics and crashes included.
For `OutcomesExplained`, the calls in progress form a `Tree` below the requests: each is one its
description makes, its caller is in the part of its code where it waits for it, and every call
that is lost has a reason (a service that stopped, or the protocol of the description) that its
callers inherit.  That whatever `execNetwork` calls its
description names is by induction on the parts that it joins (`Parts`, `Joins`).

The argument for the applications.  `CallsOK` says of each stack of handlers which endpoint may
wait for which, where it waits, what its request and its locals can be, and that a called
handler works on what its caller asked (`SameReview` in `MovieKept`); `StatesOK` is the type of the stores.
Every endpoint is shown once to take a `Step` of five kinds, so that the other invariants need
not look at its code again.

* `Hotel`.  Whoever is between the read and the write of a list either holds the list as it
  is or has been raced, and what was admitted stays admitted when an older entry is dropped
  (`ReservationsFit`).  `KnownOnceStored` follows the frontend's `store_hotel` through its calls.
* `Movie`.  `Stage` says how far the review that a request composes has come; `Progressed` ties it
  to the stores: stored from stage 1, in the movie's index from 2, in the user's at 3, and
  the compose request still carries that very review.  `LogOK`: only stored reviews were ever
  indexed.  `FoundInv` follows what `ro_read_reviews` reads for its caller: ids that the caller's index named
  stay stored, so no default is read, and the answer goes up to the page unchanged.  `HeldOK` is the argument
  on lists, with `NewestAppended`: dropping the oldest before each append keeps the newest.
* `Social`.  `FramesOK` is what each handler on a stack knows, given the posts that are stored, the
  logs of what was written and the lists that were raced.  All three only grow, so a step of one client takes
  nothing from what another's handlers know: a composer past `stored` has its posts in the storage,
  past `wroteUser` in the author's log, and `write_home_timeline` has written to every follower of
  the populated graph that is not among those it has left, unless the vertex was raced (`Fanned`); `FannedOut` is what is left
  of it when the answer is given.  `HeldOK` says that a copy which a handler will write back is still
  what is stored, unless the list was raced; it serves both the timelines (`LinesOK`: a line is a suffix of its log)
  and the graph.  `GraphOK` has each side of a pair follow from the other but for
  the one request that wrote the follower's side and is on its way, or has failed, before the followee's (`Wrote`).
* `Boutique`.  Carts are windows on shared arrays, and `FitsOK` keeps every window, in the store or
  in the hands of a handler, within its array.  `CartsOK` gives each array an owner: whoever has a
  window on it adds for that user.  So all that is ever written there was asked for by that user, and
  two requests that write the same cell, or a reader whose window another request rewrites, find
  at worst each other's items; a product is written before its quantity, beyond every window in
  use, hence the two halves of the claim (`KnownProducts`, `Known`).  Without a race the copy of whoever
  adds is the stored cart, and the only one who does finds its own item behind it (`FrameExact`).
  `OrdersOK` says where the request of a client that was charged can be (`Charged`), and that the
  handlers below it still hold the order that was paid.  That the amount is what is `Due` is
  the arithmetic of `Sum` and `MultiplySlow` on normalised amounts, item by item (`TimesPaid`,
  `TotalDue`); amounts in the user's currency have at least one unit, since `_carry` adds one.  `CatalogOK`:
  unless raced, who adds products has read the list as it is and leaves room for what it has left.

The argument for the experiment.  `Measuring`, `Listed` and `Summarised` say, for each stage of
`run`, what the two dictionaries and the lists of results hold; the bound on the prediction is
then one of integer division.

Induction.  The library's induction theorems cannot be instantiated by the installed provers, so
`DataLemmas` proves induction in set form (`Induction`, `FiniteInduction`) from the well-foundedness
of `<` and of strict inclusion, and from it that the fold of the community modules is a sum that
does not depend on the order (`SumIs`, `SumChange`, `SumSplit`), and that a recursive function on
`0..n` has the values that its definition gives (`Recursion`, from which `Found`, `MultiplySlow`, `Total` and
`Due` are proved item by item).

Only model-checked: the liveness properties and the fairness part of `PauseContract` (temporal
reasoning with `ENABLED` is out of the prover's reach).  Every invariant and every action property
of a passing run is a theorem.  The inductive invariants of `Social` and `Boutique` (its `FitsOK`,
`CatalogOK`, `OrdersOK`, `CartsOK` and the types of the calls) were also checked by TLC on the instances of
`MCSocial` and `MCBoutique`, before they were proved.  `BoutiqueKept` is the longest proof, some ten
minutes for `tlapm` from nothing.

## Findings

* `BatchAsDocumented`: README.md:50 calls the threshold the "number of pauses to batch
  together".  `utils.go:246` compares with `>`, and requests that arrive before `handlePause`
  takes the lock are batched, too, so a batch has at least `Threshold + 1` pauses.
* `FifoThreadExits`: poker.c:161 sets `child_exited` to "Signal the FIFO monitoring thread to
  exit".  If the service ends before it opens the recovery FIFO (a failing `execvp`, a crash
  during start) the thread is blocked in `open` and never looks at it; `main` waits forever.

## Not modelled

* Memory-level details: `child_exited` is read and written by two threads without
  synchronisation; the loop calls functions the compiler cannot see through, so it is re-read.
* Failures of `mkfifo`, `fork` and `pthread_create`, which end the program at once.
* A write of a pause that fails (pause.go:90): it takes a connection that breaks while a flood
  goes on.  A write to the FIFO that fails (utils.go:265): the poker would have to end before
  its service.
* The long-chain example: `main.go:75` passes two arguments to `NonROWrapper`, which takes one, so
  it does not compile.  `SlowpokeDelay` and `SlowpokeFlushDelay`, the older batching, have no
  other caller that is built.
* `count.py`, the load generator, deployment scripts, Kubernetes manifests, plots and generated
  protobuf code: I/O without state of their own.
* The mucache client side: inherited, compiled out of every build of Slowpoke, and its cache
  manager is not in the repository.
