----------------------------- MODULE Accounting -----------------------------
(***************************************************************************)
(* What SlowpokeCheck does to every request (app/pkg/slowpoke/utils.go):   *)
(* it counts the request and then burns CPU time in its place.             *)
(*                                                                         *)
(* In a pre-run the request is counted in a sync.Map, without a lock, by   *)
(* compare-and-swap; another goroutine prints the counters every 30        *)
(* seconds and resets each to zero, also by compare-and-swap.  The printed *)
(* counts are the ratios the experiment multiplies delays with.            *)
(*                                                                         *)
(* Burning goes on in long loops between two looks at the thread's CPU     *)
(* clock, so a request burns too much; the excess is left in sleepSurplus, *)
(* which the next request takes (all of it) and need not burn again.       *)
(*                                                                         *)
(* Every atomic operation is a step.  The thread is locked while it burns, *)
(* so its CPU clock only counts its own goroutine.                         *)
(***************************************************************************)
EXTENDS Integers, FiniteSetsExt

CONSTANTS
  Worker,          \* goroutines that serve requests
  Func,            \* the endpoints SlowpokeCheck is called for
  prerun,          \* SLOWPOKE_PRERUN: whether requests are counted
  processingTime,  \* CPU time of a request; negative: none is burnt
  Quantum,         \* CPU times one loop of CPUSpinTime may take
  MaxChecks        \* bound: calls of SlowpokeCheck

ASSUME AccountingAssumption ==
  /\ prerun \in BOOLEAN
  /\ processingTime \in Int
  /\ Quantum \subseteq Nat \ {0}
  /\ MaxChecks \in Nat
  /\ Func # {}
  /\ IsFiniteSet(Worker)

VARIABLES
  keys,             \* the keys of the map
  requestCounters,  \* [Func -> Nat]; 0 for what is not a key
  sleepSurplus,
  pc, func, counter, takenSurplus, sleepTime, spun, \* the locals of each worker
  printer,          \* what the printing goroutine is doing
  todo,             \* the keys Range has yet to visit
  visited, counterInt, funcCounters,  \* its locals
  checks, counted, printed, cpu       \* history: calls, counted, printed, CPU burnt

work == <<pc, func, counter, takenSurplus, sleepTime, spun>>
print == <<printer, todo, visited, counterInt, funcCounters>>
history == <<checks, counted, printed, cpu>>
accountingVars == <<keys, requestCounters, sleepSurplus, work, print, history>>

Zeros == [f \in Func |-> 0]

AccountingInit ==
  /\ keys = {}
  /\ requestCounters = Zeros
  /\ sleepSurplus = 0
  /\ pc = [w \in Worker |-> "idle"]
  /\ func = [w \in Worker |-> CHOOSE f \in Func : TRUE]
  /\ counter = [w \in Worker |-> 0]
  /\ takenSurplus = [w \in Worker |-> 0]
  /\ sleepTime = [w \in Worker |-> 0]
  /\ spun = [w \in Worker |-> 0]
  /\ printer = "wait"
  /\ todo = {}
  /\ visited = CHOOSE f \in Func : TRUE
  /\ counterInt = 0
  /\ funcCounters = Zeros
  /\ checks = 0
  /\ counted = Zeros
  /\ printed = Zeros
  /\ cpu = 0

Goto(w, label) == pc' = [pc EXCEPT ![w] = label]

\* CompareAndSwap(f, old, new) of the map finds the value it expects.
SwapsBlindly(f, old) == TRUE                             \* wrong: Store
Swaps(f, old) == f \in keys /\ requestCounters[f] = old

-----------------------------------------------------------------------------
(* Counting. *)

\* A request for endpoint f: LoadOrStore of its counter, in a pre-run.
SlowpokeCheck(w, f) ==
  /\ pc[w] = "idle" /\ checks < MaxChecks
  /\ checks' = checks + 1
  /\ func' = [func EXCEPT ![w] = f]
  /\ IF prerun
       THEN /\ keys' = keys \cup {f}
            /\ counter' = [counter EXCEPT ![w] = requestCounters[f]]
            /\ Goto(w, "increment")
       ELSE Goto(w, "process") /\ UNCHANGED <<keys, counter>>
  /\ UNCHANGED <<requestCounters, sleepSurplus, takenSurplus, sleepTime, spun, print,
                 counted, printed, cpu>>

\* The compare-and-swap of the increment; if it fails the counter is loaded again.
Increment(w) ==
  /\ pc[w] = "increment"
  /\ IF Swaps(func[w], counter[w])
       THEN /\ requestCounters' = [requestCounters EXCEPT ![func[w]] = counter[w] + 1]
            /\ counted' = [counted EXCEPT ![func[w]] = @ + 1]
            /\ counter' = [counter EXCEPT ![w] = 0]
            /\ Goto(w, "process")
       ELSE Goto(w, "reload") /\ UNCHANGED <<requestCounters, counter, counted>>
  /\ UNCHANGED <<keys, sleepSurplus, func, takenSurplus, sleepTime, spun, print,
                 checks, printed, cpu>>

Reload(w) ==
  /\ pc[w] = "reload"
  /\ counter' = [counter EXCEPT ![w] = requestCounters[func[w]]]
  /\ Goto(w, "increment")
  /\ UNCHANGED <<keys, requestCounters, sleepSurplus, func, takenSurplus, sleepTime, spun,
                 print, history>>

-----------------------------------------------------------------------------
(* Burning CPU time. *)

Smaller(a, b) == IF a < b THEN a ELSE b

\* SwapInt64(&sleepSurplus, 0): what is left for others.
LeavesSurplus == sleepSurplus                            \* wrong: a load, not a swap
LeavesNothing == 0

\* The surplus is taken; what covers this request's time is used up.
TakeSurplus(w) ==
  /\ pc[w] = "process"
  /\ IF processingTime >= 0
       THEN LET common == Smaller(sleepSurplus, processingTime) IN
            /\ sleepSurplus' = LeavesNothing
            /\ takenSurplus' = [takenSurplus EXCEPT ![w] = sleepSurplus - common]
            /\ sleepTime' = [sleepTime EXCEPT ![w] = processingTime - common]
            /\ Goto(w, "spin")
       ELSE Goto(w, "idle") /\ UNCHANGED <<sleepSurplus, takenSurplus, sleepTime>>
  /\ UNCHANGED <<keys, requestCounters, func, counter, spun, print, history>>

\* One loop, and a look at the clock.
Spin(w) ==
  /\ pc[w] = "spin" /\ spun[w] < sleepTime[w]
  /\ \E q \in Quantum :
       /\ spun' = [spun EXCEPT ![w] = @ + q]
       /\ cpu' = cpu + q
  /\ UNCHANGED <<keys, requestCounters, sleepSurplus, pc, func, counter, takenSurplus,
                 sleepTime, print, checks, counted, printed>>

\* What this worker has to give back.
Missing(w) == takenSurplus[w] + sleepTime[w] - spun[w]   \* wrong: target - current
Excess(w) == takenSurplus[w] + spun[w] - sleepTime[w]

ReturnSurplus(w) ==
  /\ pc[w] = "spin" /\ spun[w] >= sleepTime[w]
  /\ sleepSurplus' = sleepSurplus + Excess(w)
  /\ takenSurplus' = [takenSurplus EXCEPT ![w] = 0]
  /\ sleepTime' = [sleepTime EXCEPT ![w] = 0]
  /\ spun' = [spun EXCEPT ![w] = 0]
  /\ Goto(w, "idle")
  /\ UNCHANGED <<keys, requestCounters, func, counter, print, history>>

-----------------------------------------------------------------------------
(* The printing goroutine: printCountersSyncMap. *)

\* The timer fires.  Range visits the keys there are now, once each.
StartPrint ==
  /\ prerun
  /\ printer = "wait"
  /\ printer' = "range"
  /\ todo' = keys
  /\ funcCounters' = Zeros
  /\ UNCHANGED <<keys, requestCounters, sleepSurplus, work, visited, counterInt, history>>

\* Range calls the function for a key, with the value the key has by then.
Visit(f) ==
  /\ printer = "range" /\ f \in todo
  /\ visited' = f
  /\ todo' = todo \ {f}
  /\ counterInt' = requestCounters[f]
  /\ printer' = "reset"
  /\ UNCHANGED <<keys, requestCounters, sleepSurplus, work, funcCounters, history>>

\* What Range goes on with after a key.
RestIfCounted == IF counterInt > 0 THEN todo ELSE {}     \* wrong: return counterInt > 0
Rest == todo

Reset ==
  /\ printer = "reset"
  /\ IF Swaps(visited, counterInt)
       THEN /\ requestCounters' = [requestCounters EXCEPT ![visited] = 0]
            /\ funcCounters' = [funcCounters EXCEPT ![visited] = @ + counterInt]
            /\ counterInt' = 0
            /\ printer' = "range"
            /\ todo' = Rest
       ELSE /\ printer' = "reloadCounter"
            /\ UNCHANGED <<requestCounters, funcCounters, counterInt, todo>>
  /\ UNCHANGED <<keys, sleepSurplus, work, visited, history>>

ReloadCounter ==
  /\ printer = "reloadCounter"
  /\ counterInt' = requestCounters[visited]
  /\ printer' = "reset"
  /\ UNCHANGED <<keys, requestCounters, sleepSurplus, work, todo, visited, funcCounters,
                 history>>

\* The message is printed; the local map is gone.
FinishPrint ==
  /\ printer = "range" /\ todo = {}
  /\ printed' = [f \in Func |-> printed[f] + funcCounters[f]]
  /\ funcCounters' = Zeros
  /\ printer' = "wait"
  /\ UNCHANGED <<keys, requestCounters, sleepSurplus, work, todo, visited, counterInt,
                 checks, counted, cpu>>

-----------------------------------------------------------------------------

Step(w) ==
  \/ Increment(w)
  \/ Reload(w)
  \/ TakeSurplus(w)
  \/ Spin(w)
  \/ ReturnSurplus(w)

Printer ==
  \/ StartPrint
  \/ \E f \in Func : Visit(f)
  \/ Reset
  \/ ReloadCounter
  \/ FinishPrint

AccountingNext ==
  \/ \E w \in Worker : Step(w) \/ \E f \in Func : SlowpokeCheck(w, f)
  \/ Printer

AccountingSpec == AccountingInit /\ [][AccountingNext]_accountingVars

\* Goroutines run and the timer fires; requests need not come.
AccountingFairSpec ==
  /\ AccountingSpec
  /\ WF_accountingVars(Printer) /\ \A w \in Worker : WF_accountingVars(Step(w))
-----------------------------------------------------------------------------
(* Properties. *)

\* Types; neither the surplus nor what a worker has taken is ever negative, so a
\* request never burns more than its own time because of others (utils.go:309-328).
AccountingTypeOK ==
  /\ keys \subseteq Func
  /\ requestCounters \in [Func -> Nat]
  /\ sleepSurplus \in Nat
  /\ pc \in [Worker -> {"idle", "increment", "reload", "process", "spin"}]
  /\ func \in [Worker -> Func]
  /\ counter \in [Worker -> Nat]
  /\ takenSurplus \in [Worker -> Nat]
  /\ sleepTime \in [Worker -> Nat]
  /\ spun \in [Worker -> Nat]
  /\ printer \in {"wait", "range", "reset", "reloadCounter"}
  /\ todo \subseteq keys
  /\ visited \in Func
  /\ counterInt \in Nat
  /\ funcCounters \in [Func -> Nat]
  /\ checks \in Nat
  /\ counted \in [Func -> Nat]
  /\ printed \in [Func -> Nat]
  /\ cpu \in Nat

\* Every counted request is in the map, in the message being put together or
\* printed, and in one of them only, although increments and resets race without
\* a lock and a counter can return to a value it had (utils.go:81-91, 293-302).
CountsConserved ==
  \A f \in Func : counted[f] = requestCounters[f] + funcCounters[f] + printed[f]

\* What worker w holds of the surplus, less what it has yet to burn.
Balance == [w \in Worker |-> IF pc[w] = "spin" THEN Excess(w) ELSE 0]

\* The CPU time a request is to burn.
Due == IF processingTime >= 0 THEN processingTime ELSE 0

\* The workers that have not started to burn their time.
Waiting == {w \in Worker : pc[w] \in {"increment", "reload", "process"}}

\* CPU time is conserved: what was burnt is what the requests were to burn, and
\* what is in excess is in the surplus or with a worker, however many workers take
\* and return the surplus at once (utils.go:309-328).  So the time burnt is right
\* over many requests although it is wrong for each.
SpinConserved ==
  cpu = Due * (checks - Cardinality(Waiting)) + sleepSurplus + SumFunctionOnSet(Balance, Worker)

\* Whatever was counted is printed in the end, keys that appear while Range runs
\* included (utils.go:194-200).
CountsPrinted ==
  \A f \in Func : \A n \in 1 .. MaxChecks : counted[f] >= n ~> printed[f] >= n
=============================================================================
