-------------------------------- MODULE Poker --------------------------------
(***************************************************************************)
(* The poker (src/poker/poker.c) and the process it controls.              *)
(*                                                                         *)
(* The poker forks the service, which leads a session of its own, and      *)
(* talks to it over two FIFOs.  The service writes the delay it wants      *)
(* slept; the poker's FIFO thread stops the service's process group,       *)
(* sleeps, writes eight bytes to the recovery FIFO and continues the       *)
(* group.  What it sleeps too much or too little is carried over to the    *)
(* next pause.  A second thread waits for the service to end.              *)
(*                                                                         *)
(* The service is the runtime's side of the FIFOs: SlowpokeInit and        *)
(* SlowpokeDoDelay of app/pkg/slowpoke/utils.go, of which sync_guard lets  *)
(* one at a time through.  It may be killed at any moment.                 *)
(*                                                                         *)
(* Time is counted in units.  A sleep of n units takes at least n and at   *)
(* most n + MaxOver.  A signal takes effect with some lag: up to MaxLag    *)
(* units of what the poker counts as a pause pass before the service is    *)
(* stopped, and up to MaxLag after the end of what it counts until the     *)
(* service is continued.                                                   *)
(***************************************************************************)
EXTENDS Integers, Sequences

CONSTANTS
  Delays,       \* the delays the service asks for
  MaxAsks,      \* bound: how many
  MaxOver,      \* bound: by how much a sleep is longer than asked
  MaxLag,       \* bound: the lag of a signal, clock reads included
  InitGroup,    \* the poker's process group is group 1, as in a container
  ChildMayEnd   \* the service may end (or be killed)

ASSUME PokerAssumption ==
  /\ Delays \subseteq Nat
  /\ MaxAsks \in Nat
  /\ MaxOver \in Nat
  /\ MaxLag \in Nat
  /\ InitGroup \in BOOLEAN
  /\ ChildMayEnd \in BOOLEAN

VARIABLES
  fifoThread,  \* where monitor_fifo is
  childPgid,   \* what getpgid returned: the child's own group or the poker's
  child,       \* where the service process is
  fifo,        \* values written to the FIFO and not read
  recover,     \* answers written to the recovery FIFO and not read
  acc,         \* accumulated_nano_sleep
  stopped,     \* the service is stopped
  selfStopped, \* the poker stopped itself
  childExited, \* child_exited
  asks,        \* how many delays the service wrote to the FIFO, the greeting included
  asked,       \* history: their sum
  stoppedTime  \* history: for how long the service has been stopped

pokerVars == <<fifoThread, childPgid, acc, selfStopped, childExited>>
childVars == <<child, asks, asked>>
vars == <<pokerVars, childVars, fifo, recover, stopped, stoppedTime>>

Init ==
  /\ fifoThread = "getpgid" /\ childPgid = "unknown"
  /\ child = "forked"
  /\ fifo = <<>> /\ recover = 0
  /\ acc = 0
  /\ stopped = FALSE /\ selfStopped = FALSE /\ childExited = FALSE
  /\ asks = 0 /\ asked = 0 /\ stoppedTime = 0

-----------------------------------------------------------------------------
(* The service. *)

ChildAt(label) == child = label /\ ~ stopped
ChildGoto(label) == child' = label

Setsid ==
  /\ ChildAt("forked") /\ ChildGoto("session")
  /\ UNCHANGED <<pokerVars, asks, asked, fifo, recover, stopped, stoppedTime>>

\* execvp, and SlowpokeInit up to the open of the FIFO, which needs a reader.
OpenFifo ==
  /\ ChildAt("session") /\ ChildGoto("greet")
  /\ fifoThread \notin {"getpgid", "openFifo"}
  /\ UNCHANGED <<pokerVars, asks, asked, fifo, recover, stopped, stoppedTime>>

\* SlowpokeInit writes a delay of 0 ...
Greet ==
  /\ ChildAt("greet") /\ ChildGoto("openRecover")
  /\ fifo' = Append(fifo, 0)
  /\ asks' = asks + 1
  /\ UNCHANGED <<pokerVars, asked, recover, stopped, stoppedTime>>

\* ... and opens the recovery FIFO, which meets the poker's open of it.
OpenRecover ==
  /\ ChildAt("openRecover") /\ ChildGoto("waiting")
  /\ fifoThread = "openRecover" /\ fifoThread' = "read"
  /\ UNCHANGED <<childPgid, acc, selfStopped, childExited, asks, asked, fifo, recover,
                 stopped, stoppedTime>>

\* SlowpokeDoDelay writes the delay and waits, sync_guard held.
Ask ==
  /\ ChildAt("serving") /\ asks < MaxAsks
  /\ \E d \in Delays :
       /\ fifo' = Append(fifo, d)
       /\ asked' = asked + d
  /\ asks' = asks + 1
  /\ ChildGoto("waiting")
  /\ UNCHANGED <<pokerVars, recover, stopped, stoppedTime>>

LeaveAnswer(n) == n                       \* wrong: the answer is not consumed
AfterRead(n) == n - 1

\* The read of the recovery FIFO returns what is there, eight bytes at most.
Return ==
  /\ ChildAt("waiting") /\ recover > 0
  /\ recover' = AfterRead(recover)
  /\ ChildGoto("serving")
  /\ UNCHANGED <<pokerVars, asks, asked, fifo, stopped, stoppedTime>>

\* The service ends, or is killed: a kill ends a stopped process, too.
ChildEnds ==
  /\ ChildMayEnd /\ child # "gone"
  /\ ChildGoto("gone")
  /\ stopped' = FALSE
  /\ UNCHANGED <<pokerVars, asks, asked, fifo, recover, stoppedTime>>

-----------------------------------------------------------------------------
(* The poker. *)

PokerAt(label) == fifoThread = label /\ ~ selfStopped
PokerGoto(label) == fifoThread' = label

\* main asks for the child's process group while the child may not have called
\* setsid yet; it is still in the poker's group then.
Getpgid ==
  /\ PokerAt("getpgid") /\ PokerGoto("openFifo")
  /\ childPgid' \in CASE child = "forked" -> {"poker"}
                     [] child = "gone" -> {"poker", "child"}
                     [] OTHER -> {"child"}
  /\ UNCHANGED <<childVars, fifo, recover, acc, stopped, selfStopped, childExited, stoppedTime>>

OpenFifoRead ==
  /\ PokerAt("openFifo") /\ PokerGoto("openRecover")
  /\ UNCHANGED <<childPgid, acc, selfStopped, childExited, childVars, fifo, recover,
                 stopped, stoppedTime>>

\* One read takes everything that is in the FIFO and the first value counts.
CreditForgotten(d) == d                   \* wrong: sleeps what was read, without the carry-over
Credit(d) == acc + d

ReadDelay ==
  /\ PokerAt("read") /\ fifo # <<>>
  /\ acc' = Credit(Head(fifo))
  /\ fifo' = <<>>
  /\ PokerGoto("stop")
  /\ UNCHANGED <<childPgid, selfStopped, childExited, childVars, recover, stopped, stoppedTime>>

\* The FIFO is empty: end of file once the service is gone; until then a read
\* sleeps and tries again, and later blocks.
ReadNothing ==
  /\ PokerAt("read") /\ fifo = <<>> /\ child = "gone"
  /\ PokerGoto("check")
  /\ UNCHANGED <<childPgid, acc, selfStopped, childExited, childVars, fifo, recover,
                 stopped, stoppedTime>>

\* kill(-pgid, SIGSTOP).  Group 1 is special: kill(-1) signals every process
\* but the caller and process 1, so it stops the service all the same.
SignalsOwnSession == childPgid = "child"  \* wrong: group 1 is not special
SignalsChild == childPgid = "child" \/ InitGroup

\* Wrong: the signal is not delivered and the error is only printed.
StopFails ==
  /\ PokerAt("stop") /\ PokerGoto("sleep")
  /\ UNCHANGED <<childPgid, acc, selfStopped, childExited, childVars, fifo, recover,
                 stopped, stoppedTime>>

Stop ==
  /\ PokerAt("stop") /\ PokerGoto("sleep")
  /\ stopped' = (stopped \/ (SignalsChild /\ child # "gone"))
  /\ selfStopped' = ~ SignalsChild
  /\ UNCHANGED <<childPgid, acc, childExited, childVars, fifo, recover, stoppedTime>>

\* precise_sleep returns at once when nothing is owed, and never early.  What it
\* takes and what passed since the clock was read before SIGSTOP is subtracted.
ElapsedInterrupted(n) == 0 .. IF n > 0 THEN n + MaxOver ELSE MaxOver   \* wrong: EINTR ends it
Elapsed(n) == IF n > 0 THEN n .. n + MaxOver ELSE 0 .. MaxOver

Subtract(e, before) == acc - e - before

PreciseSleep ==
  /\ PokerAt("sleep") /\ PokerGoto("answer")
  /\ \E e \in Elapsed(acc), before \in 0 .. MaxLag, late \in 0 .. MaxLag :
       /\ before + late <= MaxLag
       /\ acc' = Subtract(e, before)
       /\ stoppedTime' = IF stopped /\ e > late THEN stoppedTime + (e - late) ELSE stoppedTime
  /\ UNCHANGED <<childPgid, selfStopped, childExited, childVars, fifo, recover, stopped>>

\* The answer is written before the service is continued.  If the service is
\* gone nobody reads the recovery FIFO: SIGPIPE ends the poker or, where it is
\* process 1 and the signal is ignored, the write fails and the thread exits.
Answer ==
  /\ PokerAt("answer")
  /\ \/ /\ child = "gone" /\ UNCHANGED recover
        /\ PokerGoto("terminated") \/ PokerGoto("exited")
     \/ /\ child # "gone" /\ recover' = recover + 1
        /\ PokerGoto("continue")
  /\ UNCHANGED <<childPgid, acc, selfStopped, childExited, childVars, fifo, stopped, stoppedTime>>

Continue ==
  /\ PokerAt("continue") /\ PokerGoto("check")
  /\ stopped' = (stopped /\ ~ SignalsChild)
  /\ \E late \in 0 .. MaxLag :
       stoppedTime' = IF stopped THEN stoppedTime + late ELSE stoppedTime
  /\ UNCHANGED <<childPgid, acc, selfStopped, childExited, childVars, fifo, recover>>

\* Wrong: the flag is not looked at.
CheckNothing ==
  /\ PokerAt("check")
  /\ PokerGoto("read")
  /\ UNCHANGED <<childPgid, acc, selfStopped, childExited, childVars, fifo, recover,
                 stopped, stoppedTime>>

CheckExited ==
  /\ PokerAt("check")
  /\ PokerGoto(IF childExited THEN "exited" ELSE "read")
  /\ UNCHANGED <<childPgid, acc, selfStopped, childExited, childVars, fifo, recover,
                 stopped, stoppedTime>>

\* monitor_child: waitpid returns.
MonitorChild ==
  /\ child = "gone" /\ ~ childExited /\ ~ selfStopped
  /\ fifoThread \notin {"getpgid", "terminated"}
  /\ childExited' = TRUE
  /\ UNCHANGED <<fifoThread, childPgid, acc, selfStopped, childVars, fifo, recover,
                 stopped, stoppedTime>>

\* main has joined both threads and removes the FIFO.
MainReturns ==
  /\ PokerAt("exited") /\ childExited
  /\ PokerGoto("terminated")
  /\ UNCHANGED <<childPgid, acc, selfStopped, childExited, childVars, fifo, recover,
                 stopped, stoppedTime>>

-----------------------------------------------------------------------------

ChildStep == Setsid \/ OpenFifo \/ Greet \/ OpenRecover \/ Return

FifoThreadStep ==
  \/ Getpgid \/ OpenFifoRead \/ ReadDelay \/ ReadNothing \/ Stop \/ PreciseSleep
  \/ Answer \/ Continue \/ CheckExited \/ MainReturns

\* The service asked for all it will ask for, or the poker is gone.
Finished ==
  /\ \/ child = "serving" /\ asks = MaxAsks /\ PokerAt("read")
     \/ fifoThread = "terminated"
  /\ UNCHANGED vars

\* The service ended before it opened the recovery FIFO: the poker's open of it
\* never returns, and main waits for the thread forever.
Hung ==
  /\ fifoThread = "openRecover" /\ childExited
  /\ UNCHANGED vars

Next == ChildStep \/ Ask \/ ChildEnds \/ FifoThreadStep \/ MonitorChild \/ Finished \/ Hung

Spec == Init /\ [][Next]_vars

\* The kernel runs the threads that are not blocked or stopped.
FairSpec ==
  /\ Spec
  /\ WF_vars(ChildStep) /\ WF_vars(FifoThreadStep) /\ WF_vars(MonitorChild)

-----------------------------------------------------------------------------
(* Properties. *)

\* Every variable has its type; there is at most one delay and one answer in the
\* FIFOs, so that a read never takes two delays for one (poker.c:95, 115).
TypeOK ==
  /\ fifoThread \in {"getpgid", "openFifo", "openRecover", "read", "stop", "sleep", "answer",
                     "continue", "check", "exited", "terminated"}
  /\ childPgid \in {"unknown", "child", "poker"}
  /\ child \in {"forked", "session", "greet", "openRecover", "waiting", "serving", "gone"}
  /\ fifo \in Seq(Nat) /\ Len(fifo) <= 1
  /\ recover \in 0 .. 1
  /\ acc \in Int
  /\ stopped \in BOOLEAN /\ selfStopped \in BOOLEAN /\ childExited \in BOOLEAN
  /\ asks \in Nat /\ asked \in Nat /\ stoppedTime \in Nat

\* While the service runs requests, it has been stopped for at least as long as
\* all the delays it asked for, but for one lag per pause: an answer is never
\* early and no credit is given twice (poker.c:115-133, utils.go:259-277).
PausedInFull == child = "serving" => stoppedTime + asks * MaxLag >= asked

\* Sleeping too long does not add up: the carry-over keeps the total within one
\* sleep's excess of what was asked, if every delay is longer than the error of a
\* pause.  Only the lags of the signals add up (poker.c:116-125).
ErrorCarried ==
  (child = "serving" /\ \A d \in Delays : d >= MaxOver + MaxLag) =>
    stoppedTime <= asked + MaxOver + asks * MaxLag

\* When the service is gone the poker ends, too, provided the service got far
\* enough to open the recovery FIFO (poker.c:139-142, 239-246).
PokerFollows == (child = "gone" /\ fifoThread \in {"read", "stop", "sleep", "answer",
                                                  "continue", "check", "exited"})
                  ~> fifoThread = "terminated"

\* poker.c:161 says of the flag that monitor_child sets: "Signal the FIFO
\* monitoring thread to exit".  Once signalled, the thread would exit.
FifoThreadExits == childExited ~> fifoThread \in {"exited", "terminated"}

\* The poker as PausePP sees it.
View ==
  IF child = "gone" THEN "gone"
  ELSE IF stopped THEN "stopped"
  ELSE IF recover > 0 THEN "answered"
  ELSE IF child \in {"openRecover", "waiting"} THEN "asked"
  ELSE "idle"

Contract == INSTANCE PokerContract WITH poker <- View

\* The poker and the runtime's side of the FIFOs keep the contract: the service
\* runs again only after everything it asked for was slept ...
ImplementsContract == Contract!Spec

\* ... and every pause ends, the one of the handshake included.
PauseEnds == Contract!PauseEnds
=============================================================================
