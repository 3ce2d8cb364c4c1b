---------------------------- MODULE MethodProofs ----------------------------
(***************************************************************************)
(* Theorems about the three parts of the method.  Poker: a service is      *)
(* stopped for what it asks, for any delays, any number of them and any    *)
(* excess of a sleep, and the two sides keep PokerContract.  Accounting:   *)
(* what a service counts and burns for each request; in particular nobody  *)
(* ever holds a negative surplus, no counted request is lost or printed    *)
(* twice, and no CPU time is.  Experiment: what the counted ratios and the *)
(* burnt times are used for; for any application, any number of services,  *)
(* any request ratios, processing times and CPU quotas, and however often  *)
(* measurements fail, the prediction is the throughput of the faster       *)
(* target, up to the fractions of a microsecond that are cut off.          *)
(***************************************************************************)
EXTENDS Poker, Accounting, Experiment, DataLemmas

-----------------------------------------------------------------------------
(* Poker: pausing. *)

\* The two processes take turns: what is in the FIFOs, and where the one is,
\* say where the other can be.
Turns ==
  \/ /\ child \in {"forked", "session"}
     /\ fifoThread \in {"getpgid", "openFifo", "openRecover"}
     /\ fifo = <<>> /\ recover = 0
  \/ /\ child = "greet" /\ fifoThread = "openRecover"
     /\ fifo = <<>> /\ recover = 0
  \/ /\ child = "openRecover" /\ fifoThread = "openRecover"
     /\ Len(fifo) = 1 /\ recover = 0
  \/ /\ child = "waiting" /\ fifoThread \in {"read", "check"}
     /\ Len(fifo) = 1 /\ recover = 0
  \/ /\ child = "waiting" /\ fifoThread \in {"stop", "sleep", "answer"}
     /\ fifo = <<>> /\ recover = 0
  \/ /\ child = "waiting" /\ fifoThread \in {"continue", "check", "read"}
     /\ fifo = <<>> /\ recover = 1
  \/ /\ child = "serving" /\ fifoThread \in {"check", "read"}
     /\ fifo = <<>> /\ recover = 0
  \/ child = "gone"

\* When the service is stopped, and by which signals.
Signals ==
  /\ childExited => child = "gone"
  /\ stopped => child # "gone" /\ SignalsChild /\ fifoThread \in {"sleep", "answer", "continue"}
  /\ (child # "gone" /\ fifoThread \in {"sleep", "answer", "continue"} /\ ~ selfStopped)
       => stopped
  /\ selfStopped => fifoThread = "sleep"

\* What is still to be slept: in the FIFO and in the accumulator.
InFifo == IF fifo = <<>> THEN 0 ELSE Head(fifo)

\* A delay was written to the FIFO and is not slept yet.
Pending == fifo # <<>> \/ fifoThread \in {"stop", "sleep"}

\* The carry-over accounts for what was asked and not slept, but for one lag per
\* finished pause, and outside a pause it is a credit of the service.
Books ==
  /\ fifoThread \notin {"stop", "sleep"} => acc <= 0
  /\ (child # "gone" /\ ~ Pending) => stoppedTime + acc + asks * MaxLag >= asked
  /\ (child # "gone" /\ Pending) =>
       asks # 0 /\ stoppedTime + acc + InFifo + (asks - 1) * MaxLag >= asked

Inv == TypeOK /\ Turns /\ Signals /\ Books

LEMMA InvInit == Init => Inv
<1> SUFFICES ASSUME Init PROVE Inv OBVIOUS
<1>1. fifo \in Seq(Nat) /\ Len(fifo) = 0 BY DEF Init
<1>2. TypeOK
  <2>1. fifo \in Seq(Nat) /\ Len(fifo) <= 1 BY <1>1
  <2>2. recover \in 0 .. 1 /\ acc \in Int /\ asks \in Nat /\ asked \in Nat /\ stoppedTime \in Nat
    BY DEF Init
  <2>3. /\ fifoThread = "getpgid" /\ childPgid = "unknown" /\ child = "forked"
        /\ stopped = FALSE /\ selfStopped = FALSE /\ childExited = FALSE
    BY DEF Init
  <2> QED BY <2>1, <2>2, <2>3 DEF TypeOK
<1>3. Turns BY DEF Init, Turns
<1>4. Signals BY DEF Init, Signals
<1>5. Books BY PokerAssumption DEF Init, Books, InFifo, Pending
<1> QED BY <1>2, <1>3, <1>4, <1>5 DEF Inv

\* A FIFO that was empty holds what was written to it.
LEMMA WriteOne ==
  ASSUME NEW d \in Nat, NEW seq, seq = <<>>
  PROVE  /\ Append(seq, d) \in Seq(Nat) /\ Len(Append(seq, d)) = 1
         /\ Append(seq, d) # <<>> /\ Head(Append(seq, d)) = d
<1>1. seq \in Seq(Nat) /\ Len(seq) = 0 OBVIOUS
<1>2. /\ Append(seq, d) \in Seq(Nat) /\ Append(seq, d) # <<>>
      /\ Len(Append(seq, d)) = Len(seq) + 1 /\ Append(seq, d)[Len(seq) + 1] = d
  BY <1>1, AppendProperties
<1> QED BY <1>1, <1>2

LEMMA OneMorePause ==
  ASSUME NEW m \in Nat, NEW n \in Nat
  PROVE  (m + 1) * n = m * n + n /\ m * n \in Nat
OBVIOUS

LEMMA InvSetsid == Inv /\ Setsid => Inv'
<1> SUFFICES ASSUME Inv, Setsid PROVE Inv' OBVIOUS
<1>1. /\ child = "forked" /\ child' = "session"
      /\ UNCHANGED <<fifoThread, childPgid, acc, selfStopped, childExited, asks, asked, fifo, recover, stopped, stoppedTime>>
  BY DEF Setsid, ChildAt, ChildGoto, PokerAt, PokerGoto, pokerVars, childVars, Credit, AfterRead
<1>2. TypeOK' BY <1>1 DEF Inv, TypeOK
<1>3. Turns' BY <1>1 DEF Inv, Turns, TypeOK
<1>4. Signals' BY <1>1 DEF Inv, Signals, SignalsChild, TypeOK
<1>5. Books' BY <1>1 DEF Inv, Books, InFifo, Pending, TypeOK
<1> QED BY <1>2, <1>3, <1>4, <1>5 DEF Inv

LEMMA InvOpenFifo == Inv /\ OpenFifo => Inv'
<1> SUFFICES ASSUME Inv, OpenFifo PROVE Inv' OBVIOUS
<1>1. /\ fifoThread \notin {"getpgid", "openFifo"}
      /\ child = "session" /\ child' = "greet"
      /\ UNCHANGED <<fifoThread, childPgid, acc, selfStopped, childExited, asks, asked, fifo, recover, stopped, stoppedTime>>
  BY DEF OpenFifo, ChildAt, ChildGoto, PokerAt, PokerGoto, pokerVars, childVars, Credit, AfterRead
<1>2. TypeOK' BY <1>1 DEF Inv, TypeOK
<1>3. Turns' BY <1>1 DEF Inv, Turns, TypeOK
<1>4. Signals' BY <1>1 DEF Inv, Signals, SignalsChild, TypeOK
<1>5. Books' BY <1>1 DEF Inv, Books, InFifo, Pending, TypeOK
<1> QED BY <1>2, <1>3, <1>4, <1>5 DEF Inv

\* The greeting asks for nothing.
LEMMA InvGreet == Inv /\ Greet => Inv'
<1> SUFFICES ASSUME Inv, Greet PROVE Inv' OBVIOUS
<1>1. /\ child = "greet" /\ child' = "openRecover"
      /\ fifo' = Append(fifo, 0) /\ asks' = asks + 1
      /\ UNCHANGED <<fifoThread, childPgid, acc, selfStopped, childExited, asked, recover, stopped, stoppedTime>>
  BY DEF Greet, ChildAt, ChildGoto, PokerAt, PokerGoto, pokerVars, childVars, Credit, AfterRead
<1>w. fifo = <<>> /\ fifo' \in Seq(Nat) /\ Len(fifo') = 1 /\ fifo' # <<>> /\ Head(fifo') = 0
  BY <1>1, WriteOne DEF Inv, Turns
<1>2. TypeOK' BY <1>w, <1>1 DEF Inv, TypeOK
<1>3. Turns' BY <1>w, <1>1 DEF Inv, Turns, TypeOK
<1>4. Signals' BY <1>1 DEF Inv, Signals, SignalsChild, TypeOK
<1>5. Books'
  <2>1. stoppedTime + acc + asks * MaxLag >= asked /\ acc <= 0
    <3>1. child # "gone" /\ fifoThread = "openRecover" /\ ~ Pending BY <1>1, <1>w DEF Inv, Turns, Pending
    <3> QED BY <3>1 DEF Inv, Books
  <2>2. asks' # 0 /\ asks' - 1 = asks BY <1>1 DEF Inv, TypeOK
  <2>3. InFifo' = 0 BY <1>w DEF InFifo
  <2>4. stoppedTime' + acc' + InFifo' + (asks' - 1) * MaxLag >= asked'
    <3>1. /\ stoppedTime \in Nat /\ acc \in Int /\ asked \in Nat /\ asks * MaxLag \in Nat
      BY PokerAssumption DEF Inv, TypeOK
    <3>2. PICK lags \in Nat : lags = asks * MaxLag BY <3>1
    <3>3. stoppedTime + acc + lags >= asked BY <2>1, <3>2
    <3>4. stoppedTime' + acc' + InFifo' + lags >= asked' BY <1>1, <1>w, <2>3, <3>1, <3>3
    <3> QED BY <2>2, <3>2, <3>4
  <2> QED BY <1>1, <1>w, <2>1, <2>2, <2>4 DEF Books, Pending
<1> QED BY <1>2, <1>3, <1>4, <1>5 DEF Inv

LEMMA InvOpenRecover == Inv /\ OpenRecover => Inv'
<1> SUFFICES ASSUME Inv, OpenRecover PROVE Inv' OBVIOUS
<1>1. /\ child = "openRecover" /\ child' = "waiting"
      /\ fifoThread = "openRecover" /\ fifoThread' = "read"
      /\ UNCHANGED <<childPgid, acc, selfStopped, childExited, asks, asked, fifo, recover, stopped, stoppedTime>>
  BY DEF OpenRecover, ChildAt, ChildGoto, PokerAt, PokerGoto, pokerVars, childVars, Credit, AfterRead
<1>2. TypeOK' BY <1>1 DEF Inv, TypeOK
<1>3. Turns' BY <1>1 DEF Inv, Turns, TypeOK
<1>4. Signals' BY <1>1 DEF Inv, Signals, SignalsChild, TypeOK
<1>5. Books' BY <1>1 DEF Inv, Books, InFifo, Pending, TypeOK
<1> QED BY <1>2, <1>3, <1>4, <1>5 DEF Inv

LEMMA InvAsk == Inv /\ Ask => Inv'
<1> SUFFICES ASSUME Inv, Ask PROVE Inv' OBVIOUS
<1>1. /\ child = "serving" /\ child' = "waiting" /\ ~ stopped
      /\ asks' = asks + 1
      /\ \E d \in Delays : fifo' = Append(fifo, d) /\ asked' = asked + d
      /\ UNCHANGED <<fifoThread, childPgid, acc, selfStopped, childExited, recover, stopped, stoppedTime>>
  BY DEF Ask, ChildAt, ChildGoto, PokerAt, PokerGoto, pokerVars, childVars, Credit, AfterRead
<1>p. PICK d \in Delays : fifo' = Append(fifo, d) /\ asked' = asked + d BY <1>1
<1>w. /\ d \in Nat /\ fifo = <<>>
      /\ fifo' \in Seq(Nat) /\ Len(fifo') = 1 /\ fifo' # <<>> /\ Head(fifo') = d
  BY <1>1, <1>p, WriteOne, PokerAssumption DEF Inv, Turns
<1>2. TypeOK' BY <1>1, <1>p, <1>w DEF Inv, TypeOK
<1>3. Turns' BY <1>1, <1>w DEF Inv, Turns, TypeOK
<1>4. Signals' BY <1>1 DEF Inv, Signals, SignalsChild, TypeOK
<1>5. Books'
  <2>1. stoppedTime + acc + asks * MaxLag >= asked /\ acc <= 0
    BY <1>1, <1>w DEF Inv, Books, Pending, Turns
  <2>2. asks' # 0 /\ asks' - 1 = asks BY <1>1 DEF Inv, TypeOK
  <2>3. InFifo' = d BY <1>w DEF InFifo
  <2>4. stoppedTime' + acc' + InFifo' + (asks' - 1) * MaxLag >= asked'
    <3>1. /\ stoppedTime \in Nat /\ acc \in Int /\ asked \in Nat /\ asks * MaxLag \in Nat
      BY PokerAssumption DEF Inv, TypeOK
    <3> QED BY <1>1, <1>p, <1>w, <2>1, <2>2, <2>3, <3>1
  <2> QED BY <1>1, <1>w, <2>1, <2>2, <2>4 DEF Books, Pending
<1> QED BY <1>2, <1>3, <1>4, <1>5 DEF Inv

LEMMA InvReturn == Inv /\ Return => Inv'
<1> SUFFICES ASSUME Inv, Return PROVE Inv' OBVIOUS
<1>1. /\ child = "waiting" /\ child' = "serving" /\ ~ stopped
      /\ recover > 0 /\ recover' = recover - 1
      /\ UNCHANGED <<fifoThread, childPgid, acc, selfStopped, childExited, asks, asked, fifo, stopped, stoppedTime>>
  BY DEF Return, ChildAt, ChildGoto, PokerAt, PokerGoto, pokerVars, childVars, Credit, AfterRead
<1>2. TypeOK' BY <1>1 DEF Inv, TypeOK
<1>3. Turns' BY <1>1 DEF Inv, Turns, Signals, TypeOK
<1>4. Signals' BY <1>1 DEF Inv, Signals, SignalsChild, TypeOK
<1>5. Books' BY <1>1 DEF Inv, Books, InFifo, Pending, TypeOK
<1> QED BY <1>2, <1>3, <1>4, <1>5 DEF Inv

LEMMA InvChildEnds == Inv /\ ChildEnds => Inv'
<1> SUFFICES ASSUME Inv, ChildEnds PROVE Inv' OBVIOUS
<1>1. /\ child' = "gone" /\ stopped' = FALSE
      /\ UNCHANGED <<fifoThread, childPgid, acc, selfStopped, childExited, asks, asked, fifo, recover, stoppedTime>>
  BY DEF ChildEnds, ChildAt, ChildGoto, PokerAt, PokerGoto, pokerVars, childVars, Credit, AfterRead
<1>2. TypeOK' BY <1>1 DEF Inv, TypeOK
<1>3. Turns' BY <1>1 DEF Inv, Turns, TypeOK
<1>4. Signals' BY <1>1 DEF Inv, Signals, SignalsChild, TypeOK
<1>5. Books' BY <1>1 DEF Inv, Books, InFifo, Pending, TypeOK
<1> QED BY <1>2, <1>3, <1>4, <1>5 DEF Inv

LEMMA InvGetpgid == Inv /\ Getpgid => Inv'
<1> SUFFICES ASSUME Inv, Getpgid PROVE Inv' OBVIOUS
<1>1. /\ fifoThread = "getpgid" /\ fifoThread' = "openFifo"
      /\ childPgid' \in {"poker", "child"}
      /\ UNCHANGED <<acc, selfStopped, childExited, child, asks, asked, fifo, recover, stopped, stoppedTime>>
  BY DEF Getpgid, ChildAt, ChildGoto, PokerAt, PokerGoto, pokerVars, childVars, Credit, AfterRead
<1>2. TypeOK' BY <1>1 DEF Inv, TypeOK
<1>3. Turns' BY <1>1 DEF Inv, Turns, TypeOK
<1>4. Signals' BY <1>1 DEF Inv, Signals, SignalsChild, TypeOK
<1>5. Books' BY <1>1 DEF Inv, Books, InFifo, Pending, TypeOK
<1> QED BY <1>2, <1>3, <1>4, <1>5 DEF Inv

LEMMA InvOpenFifoRead == Inv /\ OpenFifoRead => Inv'
<1> SUFFICES ASSUME Inv, OpenFifoRead PROVE Inv' OBVIOUS
<1>1. /\ fifoThread = "openFifo" /\ fifoThread' = "openRecover"
      /\ UNCHANGED <<childPgid, acc, selfStopped, childExited, child, asks, asked, fifo, recover, stopped, stoppedTime>>
  BY DEF OpenFifoRead, ChildAt, ChildGoto, PokerAt, PokerGoto, pokerVars, childVars, Credit, AfterRead
<1>2. TypeOK' BY <1>1 DEF Inv, TypeOK
<1>3. Turns' BY <1>1 DEF Inv, Turns, TypeOK
<1>4. Signals' BY <1>1 DEF Inv, Signals, SignalsChild, TypeOK
<1>5. Books' BY <1>1 DEF Inv, Books, InFifo, Pending, TypeOK
<1> QED BY <1>2, <1>3, <1>4, <1>5 DEF Inv

LEMMA InvReadDelay == Inv /\ ReadDelay => Inv'
<1> SUFFICES ASSUME Inv, ReadDelay PROVE Inv' OBVIOUS
<1>1. /\ fifoThread = "read" /\ fifoThread' = "stop"
      /\ fifo # <<>> /\ fifo' = <<>> /\ acc' = acc + Head(fifo)
      /\ UNCHANGED <<childPgid, selfStopped, childExited, child, asks, asked, recover, stopped, stoppedTime>>
  BY DEF ReadDelay, ChildAt, ChildGoto, PokerAt, PokerGoto, pokerVars, childVars, Credit, AfterRead
<1>w. Head(fifo) \in Nat /\ fifo' \in Seq(Nat) /\ Len(fifo') = 0
  BY <1>1, HeadTailProperties DEF Inv, TypeOK
<1>2. TypeOK' BY <1>1, <1>w DEF Inv, TypeOK
<1>3. Turns' BY <1>1 DEF Inv, Turns, TypeOK
<1>4. Signals' BY <1>1 DEF Inv, Signals, SignalsChild, TypeOK
<1>5. Books'
  <2>1. child # "gone" => asks # 0 /\ stoppedTime + acc + Head(fifo) + (asks - 1) * MaxLag >= asked
    BY <1>1 DEF Inv, Books, InFifo, Pending
  <2>2. InFifo' = 0 /\ Pending' BY <1>1, <1>w DEF InFifo, Pending
  <2>3. child # "gone" => asks # 0 /\ stoppedTime + acc' + 0 + (asks - 1) * MaxLag >= asked
    <3>1. /\ stoppedTime \in Nat /\ acc \in Int /\ asked \in Nat
      BY DEF Inv, TypeOK
    <3>2. asks # 0 => (asks - 1) * MaxLag \in Nat BY PokerAssumption DEF Inv, TypeOK
    <3> QED BY <1>1, <1>w, <2>1, <3>1, <3>2
  <2> QED BY <1>1, <2>2, <2>3 DEF Books
<1> QED BY <1>2, <1>3, <1>4, <1>5 DEF Inv

LEMMA InvReadNothing == Inv /\ ReadNothing => Inv'
<1> SUFFICES ASSUME Inv, ReadNothing PROVE Inv' OBVIOUS
<1>1. /\ fifoThread = "read" /\ fifoThread' = "check"
      /\ child = "gone"
      /\ UNCHANGED <<childPgid, acc, selfStopped, childExited, child, asks, asked, fifo, recover, stopped, stoppedTime>>
  BY DEF ReadNothing, ChildAt, ChildGoto, PokerAt, PokerGoto, pokerVars, childVars, Credit, AfterRead
<1>2. TypeOK' BY <1>1 DEF Inv, TypeOK
<1>3. Turns' BY <1>1 DEF Inv, Turns, TypeOK
<1>4. Signals' BY <1>1 DEF Inv, Signals, SignalsChild, TypeOK
<1>5. Books' BY <1>1 DEF Inv, Books, InFifo, Pending, TypeOK
<1> QED BY <1>2, <1>3, <1>4, <1>5 DEF Inv

LEMMA InvStop == Inv /\ Stop => Inv'
<1> SUFFICES ASSUME Inv, Stop PROVE Inv' OBVIOUS
<1>1. /\ fifoThread = "stop" /\ fifoThread' = "sleep"
      /\ stopped' = (stopped \/ (SignalsChild /\ child # "gone"))
      /\ selfStopped' = ~ SignalsChild
      /\ UNCHANGED <<childPgid, acc, childExited, child, asks, asked, fifo, recover, stoppedTime>>
  BY DEF Stop, ChildAt, ChildGoto, PokerAt, PokerGoto, pokerVars, childVars, Credit, AfterRead
<1>2. TypeOK' BY <1>1 DEF Inv, TypeOK
<1>3. Turns' BY <1>1 DEF Inv, Turns, TypeOK
<1>4. Signals' BY <1>1 DEF Inv, Signals, SignalsChild, TypeOK
<1>5. Books' BY <1>1 DEF Inv, Books, InFifo, Pending, TypeOK
<1> QED BY <1>2, <1>3, <1>4, <1>5 DEF Inv

LEMMA InvPreciseSleep == Inv /\ PreciseSleep => Inv'
<1> SUFFICES ASSUME Inv, PreciseSleep PROVE Inv' OBVIOUS
<1>1. /\ fifoThread = "sleep" /\ fifoThread' = "answer" /\ ~ selfStopped
      /\ UNCHANGED <<childPgid, selfStopped, childExited, child, asks, asked, fifo, recover, stopped>>
  BY DEF PreciseSleep, PokerAt, PokerGoto, childVars
<1>p. PICK e \in Elapsed(acc), before \in 0 .. MaxLag, late \in 0 .. MaxLag :
        /\ before + late <= MaxLag
        /\ acc' = acc - e - before
        /\ stoppedTime' = IF stopped /\ e > late THEN stoppedTime + (e - late) ELSE stoppedTime
  BY DEF PreciseSleep, Subtract
<1>w. /\ e \in Nat /\ acc - e <= 0 /\ acc \in Int /\ before \in Nat /\ late \in Nat /\ MaxLag \in Nat
      /\ stoppedTime \in Nat /\ asked \in Nat /\ asks \in Nat
  BY PokerAssumption DEF Elapsed, Inv, TypeOK
<1>2. TypeOK' BY <1>1, <1>p, <1>w DEF Inv, TypeOK
<1>3. Turns' BY <1>1 DEF Inv, Turns, TypeOK
<1>4. Signals' BY <1>1 DEF Inv, Signals, SignalsChild, TypeOK
<1>5. Books'
  <2>1. acc' <= 0 BY <1>p, <1>w
  <2>2. child # "gone" => ~ Pending' BY <1>1 DEF Inv, Turns, Pending
  <2>3. ASSUME child # "gone" PROVE stoppedTime' + acc' + asks * MaxLag >= asked
    <3>1. /\ asks # 0 /\ stoppedTime + acc + 0 + (asks - 1) * MaxLag >= asked
      BY <1>1, <2>3 DEF Inv, Books, InFifo, Pending, Turns
    <3>2. asks * MaxLag = (asks - 1) * MaxLag + MaxLag /\ (asks - 1) * MaxLag \in Nat
      <4>1. asks - 1 \in Nat /\ (asks - 1) + 1 = asks BY <1>w, <3>1
      <4> QED BY <1>w, <4>1, OneMorePause
    <3>3. stopped BY <1>1, <2>3 DEF Inv, Signals
    <3>4. stoppedTime' + acc' >= stoppedTime + acc - MaxLag BY <1>p, <1>w, <3>3
    <3>5. stoppedTime' \in Int /\ acc' \in Int BY <1>p, <1>w
    <3>6. PICK lags \in Nat : lags = (asks - 1) * MaxLag BY <3>2
    <3>l. stoppedTime + acc + 0 + lags >= asked BY <3>1, <3>6, Zenon
    <3>7. stoppedTime + acc + lags >= asked BY <1>w, <3>l
    <3>t. PICK time \in Int, carried \in Int : time = stoppedTime' /\ carried = acc' BY <3>5
    <3>e. /\ stoppedTime \in Nat /\ acc \in Int /\ asked \in Nat /\ MaxLag \in Nat
          /\ time + carried >= stoppedTime + acc - MaxLag
      BY <1>w, <3>4, <3>t
    <3>f. time + carried + (lags + MaxLag) >= asked BY <3>e, <3>7
    <3>8. stoppedTime' + acc' + (lags + MaxLag) >= asked BY <3>t, <3>f, Zenon
    <3>9. asks * MaxLag = lags + MaxLag BY <3>2, <3>6
    <3> QED BY <3>8, <3>9, Zenon
  <2>4. child' # "gone" => ~ Pending' /\ stoppedTime' + acc' + asks' * MaxLag >= asked'
    BY <1>1, <2>2, <2>3
  <2> QED BY <2>1, <2>4 DEF Books
<1> QED BY <1>2, <1>3, <1>4, <1>5 DEF Inv

LEMMA InvAnswer == Inv /\ Answer => Inv'
<1> SUFFICES ASSUME Inv, Answer PROVE Inv' OBVIOUS
<1>1. /\ fifoThread = "answer" /\ ~ selfStopped
      /\ \/ child = "gone" /\ fifoThread' \in {"terminated", "exited"} /\ recover' = recover
         \/ child # "gone" /\ fifoThread' = "continue" /\ recover' = recover + 1
      /\ UNCHANGED <<childPgid, acc, selfStopped, childExited, child, asks, asked, fifo, stopped, stoppedTime>>
  BY DEF Answer, ChildAt, ChildGoto, PokerAt, PokerGoto, pokerVars, childVars, Credit, AfterRead
<1>2. TypeOK' BY <1>1 DEF Inv, TypeOK, Turns
<1>3. Turns' BY <1>1 DEF Inv, Turns, TypeOK
<1>4. Signals' BY <1>1 DEF Inv, Signals, SignalsChild, TypeOK
<1>5. Books' BY <1>1 DEF Inv, Books, InFifo, Pending, TypeOK
<1> QED BY <1>2, <1>3, <1>4, <1>5 DEF Inv

LEMMA InvContinue == Inv /\ Continue => Inv'
<1> SUFFICES ASSUME Inv, Continue PROVE Inv' OBVIOUS
<1>1. /\ fifoThread = "continue" /\ fifoThread' = "check" /\ ~ selfStopped
      /\ stopped' = (stopped /\ ~ SignalsChild)
      /\ UNCHANGED <<childPgid, acc, selfStopped, childExited, child, asks, asked, fifo, recover>>
  BY DEF Continue, PokerAt, PokerGoto, childVars
<1>p. PICK late \in 0 .. MaxLag :
        stoppedTime' = IF stopped THEN stoppedTime + late ELSE stoppedTime
  BY DEF Continue
<1>w. /\ late \in Nat /\ stoppedTime \in Nat /\ acc \in Int /\ asked \in Nat /\ asks * MaxLag \in Nat
  BY PokerAssumption DEF Inv, TypeOK
<1>2. TypeOK' BY <1>1, <1>p, <1>w DEF Inv, TypeOK
<1>3. Turns' BY <1>1 DEF Inv, Turns, TypeOK
<1>4. Signals' BY <1>1 DEF Inv, Signals, SignalsChild, TypeOK
<1>5. Books'
  <2>1. child # "gone" => ~ Pending' /\ stoppedTime + acc + asks * MaxLag >= asked
    BY <1>1 DEF Inv, Turns, Books, Pending
  <2>2. acc <= 0 BY <1>1 DEF Inv, Books
  <2>3. stoppedTime' >= stoppedTime /\ stoppedTime' \in Nat BY <1>p, <1>w
  <2>4. ASSUME child' # "gone" PROVE ~ Pending' /\ stoppedTime' + acc' + asks' * MaxLag >= asked'
    <3>1. PICK lags \in Nat : lags = asks * MaxLag BY <1>w
    <3>c. child # "gone" BY <1>1, <2>4
    <3>d. ~ Pending' /\ stoppedTime + acc + asks * MaxLag >= asked BY <2>1, <3>c
    <3>2. stoppedTime + acc + lags >= asked BY <3>1, <3>d, Zenon
    <3>t. PICK time \in Nat : time = stoppedTime' BY <2>3
    <3>e. stoppedTime \in Nat /\ acc \in Int /\ asked \in Nat /\ time >= stoppedTime
      BY <1>w, <2>3, <3>t
    <3>f. time + acc + lags >= asked BY <3>e, <3>2
    <3>3. stoppedTime' + acc + lags >= asked BY <3>t, <3>f, Zenon
    <3>4. acc' = acc /\ asked' = asked /\ asks' = asks /\ MaxLag' = MaxLag BY <1>1
    <3>5. asks' * MaxLag = lags BY <3>1, <3>4
    <3>6. stoppedTime' + acc' + lags >= asked' BY <3>3, <3>4
    <3>7. stoppedTime' + acc' + asks' * MaxLag >= asked' BY <3>5, <3>6, Zenon
    <3> QED BY <3>d, <3>7
  <2> QED BY <1>1, <2>2, <2>4 DEF Books
<1> QED BY <1>2, <1>3, <1>4, <1>5 DEF Inv

LEMMA InvCheckExited == Inv /\ CheckExited => Inv'
<1> SUFFICES ASSUME Inv, CheckExited PROVE Inv' OBVIOUS
<1>1. /\ fifoThread = "check"
      /\ fifoThread' = IF childExited THEN "exited" ELSE "read"
      /\ UNCHANGED <<childPgid, acc, selfStopped, childExited, child, asks, asked, fifo, recover, stopped, stoppedTime>>
  BY DEF CheckExited, ChildAt, ChildGoto, PokerAt, PokerGoto, pokerVars, childVars, Credit, AfterRead
<1>2. TypeOK' BY <1>1 DEF Inv, TypeOK
<1>3. Turns' BY <1>1 DEF Inv, Turns, Signals, TypeOK
<1>4. Signals' BY <1>1 DEF Inv, Signals, SignalsChild, TypeOK
<1>5. Books' BY <1>1 DEF Inv, Books, InFifo, Pending, TypeOK
<1> QED BY <1>2, <1>3, <1>4, <1>5 DEF Inv

LEMMA InvMonitorChild == Inv /\ MonitorChild => Inv'
<1> SUFFICES ASSUME Inv, MonitorChild PROVE Inv' OBVIOUS
<1>1. /\ child = "gone" /\ childExited' = TRUE
      /\ UNCHANGED <<fifoThread, childPgid, acc, selfStopped, child, asks, asked, fifo, recover, stopped, stoppedTime>>
  BY DEF MonitorChild, ChildAt, ChildGoto, PokerAt, PokerGoto, pokerVars, childVars, Credit, AfterRead
<1>2. TypeOK' BY <1>1 DEF Inv, TypeOK
<1>3. Turns' BY <1>1 DEF Inv, Turns, TypeOK
<1>4. Signals' BY <1>1 DEF Inv, Signals, SignalsChild, TypeOK
<1>5. Books' BY <1>1 DEF Inv, Books, InFifo, Pending, TypeOK
<1> QED BY <1>2, <1>3, <1>4, <1>5 DEF Inv

LEMMA InvMainReturns == Inv /\ MainReturns => Inv'
<1> SUFFICES ASSUME Inv, MainReturns PROVE Inv' OBVIOUS
<1>1. /\ fifoThread = "exited" /\ fifoThread' = "terminated" /\ childExited
      /\ UNCHANGED <<childPgid, acc, selfStopped, childExited, child, asks, asked, fifo, recover, stopped, stoppedTime>>
  BY DEF MainReturns, ChildAt, ChildGoto, PokerAt, PokerGoto, pokerVars, childVars, Credit, AfterRead
<1>2. TypeOK' BY <1>1 DEF Inv, TypeOK
<1>3. Turns' BY <1>1 DEF Inv, Turns, TypeOK
<1>4. Signals' BY <1>1 DEF Inv, Signals, SignalsChild, TypeOK
<1>5. Books' BY <1>1 DEF Inv, Books, InFifo, Pending, TypeOK
<1> QED BY <1>2, <1>3, <1>4, <1>5 DEF Inv

LEMMA InvStep == Inv /\ [Next]_vars => Inv'
<1> SUFFICES ASSUME Inv, [Next]_vars PROVE Inv' OBVIOUS
<1>1. CASE UNCHANGED vars
  <2>1. UNCHANGED <<fifoThread, childPgid, acc, selfStopped, childExited, child, asks, asked,
                    fifo, recover, stopped, stoppedTime>>
    BY <1>1 DEF vars, pokerVars, childVars
  <2> QED BY <2>1 DEF Inv, TypeOK, Turns, Signals, SignalsChild, Books, InFifo, Pending
<1>2. CASE ChildStep
  BY <1>2, InvSetsid, InvOpenFifo, InvGreet, InvOpenRecover, InvReturn DEF ChildStep
<1>3. CASE Ask \/ ChildEnds
  BY <1>3, InvAsk, InvChildEnds
<1>4. CASE FifoThreadStep
  BY <1>4, InvGetpgid, InvOpenFifoRead, InvReadDelay, InvReadNothing, InvStop, InvPreciseSleep,
     InvAnswer, InvContinue, InvCheckExited, InvMainReturns DEF FifoThreadStep
<1>5. CASE MonitorChild
  BY <1>5, InvMonitorChild
<1>6. CASE Finished \/ Hung
  BY <1>1, <1>6 DEF Finished, Hung
<1> QED BY <1>1, <1>2, <1>3, <1>4, <1>5, <1>6 DEF Next

\* Type correctness, with at most one delay and one answer under way, so that one
\* read of the FIFO never takes two delays for one (poker.c:95, 115).
THEOREM TypeCorrect == Spec => []TypeOK
<1>1. Inv => TypeOK BY DEF Inv
<1> QED BY <1>1, InvInit, InvStep, PTL DEF Spec

\* A service that serves requests has been stopped for all it asked for, but for
\* one lag per pause: no answer is early and no credit is given twice
\* (poker.c:115-133, utils.go:259-277).
THEOREM Paused == Spec => []PausedInFull
<1>1. Inv => PausedInFull
  <2> SUFFICES ASSUME Inv, child = "serving" PROVE stoppedTime + asks * MaxLag >= asked
    BY DEF PausedInFull
  <2>1. fifoThread \in {"check", "read"} /\ ~ Pending BY DEF Inv, Turns, Pending
  <2>2. stoppedTime + acc + asks * MaxLag >= asked /\ acc <= 0 BY <2>1 DEF Inv, Books
  <2>3. stoppedTime \in Nat /\ acc \in Int /\ asked \in Nat /\ asks * MaxLag \in Nat
    BY PokerAssumption DEF Inv, TypeOK
  <2>4. PICK lags \in Nat : lags = asks * MaxLag BY <2>3
  <2>5. stoppedTime + lags >= asked BY <2>2, <2>3, <2>4
  <2> QED BY <2>4, <2>5
<1> QED BY <1>1, InvInit, InvStep, PTL DEF Spec

-----------------------------------------------------------------------------
(* The error does not add up. *)

\* Every delay is longer than the error of one pause.
LongDelays == \A d \in Delays : d >= MaxOver + MaxLag

\* Then what is to be slept is never negative when a pause starts, and the credit
\* never exceeds the error of one pause.
Bounded ==
  (child # "gone" /\ LongDelays) =>
    /\ fifoThread \in {"stop", "sleep"} => acc >= 0
    /\ acc >= 0 - (MaxOver + MaxLag)
    /\ fifo # <<>> => acc + Head(fifo) >= 0
    /\ child \in {"forked", "session", "greet"} => acc >= 0

LEMMA ChildStays == [Next]_vars /\ child' # "gone" => child # "gone"
BY DEF Next, ChildStep, Setsid, OpenFifo, Greet, OpenRecover, Return, Ask, ChildEnds,
       FifoThreadStep, Getpgid, OpenFifoRead, ReadDelay, ReadNothing, Stop, PreciseSleep,
       Answer, Continue, CheckExited, MainReturns, MonitorChild, Finished, Hung,
       ChildAt, ChildGoto, vars, childVars

LEMMA BoundedStep == Inv /\ Bounded /\ [Next]_vars => Bounded'
<1> SUFFICES ASSUME Inv, Bounded, [Next]_vars, child' # "gone", LongDelays
             PROVE  Bounded'
  BY DEF Bounded, LongDelays
<1>t. acc \in Int /\ MaxOver \in Nat /\ MaxLag \in Nat BY PokerAssumption DEF Inv, TypeOK
<1>c. child # "gone" BY ChildStays
<1>1. CASE UNCHANGED <<acc, fifo>> /\ fifoThread' \notin {"stop", "sleep"}
           /\ child' \notin {"forked", "session", "greet"}
  BY <1>1, <1>c DEF Bounded
<1>2. CASE UNCHANGED <<acc, fifo, fifoThread, child>>
  BY <1>2 DEF Bounded
<1>3. CASE Setsid \/ OpenFifo
  <2>1. /\ UNCHANGED <<acc, fifo, fifoThread>> /\ child \in {"forked", "session", "greet"}
    BY <1>3 DEF Setsid, OpenFifo, ChildAt, pokerVars
  <2> QED BY <1>c, <2>1 DEF Bounded
<1>4. CASE Greet
  <2>1. fifo' = Append(fifo, 0) /\ fifo = <<>> /\ child = "greet" /\ child' = "openRecover"
        /\ UNCHANGED <<fifoThread, acc>>
    BY <1>4 DEF Greet, ChildAt, ChildGoto, Inv, Turns, pokerVars
  <2>2. Head(fifo') = 0 BY <2>1, WriteOne
  <2> QED BY <1>t, <1>c, <2>1, <2>2 DEF Bounded
<1>5. CASE Ask
  <2>1. PICK d \in Delays : fifo' = Append(fifo, d) BY <1>5 DEF Ask
  <2>2. fifo = <<>> /\ child' = "waiting" /\ UNCHANGED <<fifoThread, acc>>
    BY <1>5 DEF Ask, ChildAt, ChildGoto, Inv, Turns, pokerVars
  <2>3. d \in Nat /\ d >= MaxOver + MaxLag BY PokerAssumption DEF LongDelays
  <2>4. Head(fifo') = d BY <2>1, <2>2, <2>3, WriteOne
  <2> QED BY <1>t, <1>c, <2>2, <2>3, <2>4 DEF Bounded
<1>6. CASE Getpgid \/ OpenFifoRead
  <2>1. /\ UNCHANGED <<acc, fifo, child>> /\ fifoThread' \notin {"stop", "sleep"}
    BY <1>6 DEF Getpgid, OpenFifoRead, PokerAt, PokerGoto, childVars
  <2> QED BY <1>c, <2>1 DEF Bounded
<1>7. CASE ReadDelay
  <2>1. /\ fifo # <<>> /\ fifo' = <<>> /\ acc' = acc + Head(fifo)
        /\ fifoThread = "read" /\ fifoThread' = "stop" /\ child' = child
    BY <1>7 DEF ReadDelay, Credit, PokerAt, PokerGoto, childVars
  <2>2. acc' >= 0 /\ Head(fifo) \in Nat
    BY <1>c, <2>1, HeadTailProperties DEF Bounded, Inv, TypeOK
  <2> QED BY <1>t, <2>1, <2>2 DEF Bounded
<1>8. CASE Stop
  <2>1. /\ UNCHANGED <<acc, fifo, child>> /\ fifoThread = "stop"
    BY <1>8 DEF Stop, PokerAt, childVars
  <2> QED BY <1>c, <2>1 DEF Bounded
<1>9. CASE PreciseSleep
  <2>1. PICK e \in Elapsed(acc), before \in 0 .. MaxLag : acc' = acc - e - before
    BY <1>9 DEF PreciseSleep, Subtract
  <2>2. fifoThread = "sleep" /\ fifoThread' = "answer" /\ UNCHANGED <<fifo, child>>
    BY <1>9 DEF PreciseSleep, PokerAt, PokerGoto, childVars
  <2>3. acc >= 0 BY <1>c, <2>2 DEF Bounded
  <2>4. acc' >= 0 - (MaxOver + MaxLag) BY <1>t, <2>1, <2>3 DEF Elapsed
  <2>5. child' \notin {"forked", "session", "greet"} /\ fifo' = <<>>
    BY <1>c, <2>2 DEF Inv, Turns
  <2> QED BY <2>2, <2>4, <2>5 DEF Bounded
<1>10. CASE OpenRecover \/ Return \/ ReadNothing \/ Answer \/ Continue \/ CheckExited \/ MainReturns
  <2>1. /\ UNCHANGED <<acc, fifo>> /\ fifoThread' \notin {"stop", "sleep"}
        /\ child' \notin {"forked", "session", "greet"}
    BY <1>10, <1>c DEF OpenRecover, Return, ReadNothing, Answer, Continue, CheckExited,
       MainReturns, PokerAt, PokerGoto, ChildAt, ChildGoto, pokerVars, childVars, Inv, Turns
  <2> QED BY <1>1, <2>1
<1>11. CASE ChildEnds \/ MonitorChild
  BY <1>2, <1>11 DEF ChildEnds, MonitorChild, ChildGoto, childVars
<1>12. CASE Finished \/ Hung \/ UNCHANGED vars
  BY <1>2, <1>12 DEF Finished, Hung, vars, pokerVars, childVars
<1> QED BY <1>3, <1>4, <1>5, <1>6, <1>7, <1>8, <1>9, <1>10, <1>11, <1>12
        DEF Next, ChildStep, FifoThreadStep

\* The lags of n pauses.
Lags(n) == n * MaxLag

LEMMA LagsGrow == ASSUME NEW n \in Nat PROVE Lags(n) \in Nat /\ Lags(n + 1) = Lags(n) + MaxLag
BY PokerAssumption, OneMorePause DEF Lags

\* How many pauses have ended.
Ended == IF Pending \/ stopped THEN asks - 1 ELSE asks

\* What the service has been stopped for: with the carry-over, at most what it
\* asked for and the lags; without, at most one sleep's excess more.
NotTooLong ==
  (child # "gone" /\ LongDelays) =>
    /\ Ended \in Nat
    /\ stoppedTime + acc + InFifo <= asked + Lags(Ended)
    /\ ~ Pending => stoppedTime <= asked + MaxOver + Lags(Ended)

LEMMA NotTooLongStep == Inv /\ Bounded /\ NotTooLong /\ [Next]_vars => NotTooLong'
<1> SUFFICES ASSUME Inv, Bounded, NotTooLong, [Next]_vars, child' # "gone", LongDelays
             PROVE  NotTooLong'
  BY DEF NotTooLong, LongDelays
<1>t. /\ acc \in Int /\ MaxOver \in Nat /\ MaxLag \in Nat /\ asks \in Nat
      /\ asked \in Nat /\ stoppedTime \in Nat
  BY PokerAssumption DEF Inv, TypeOK
<1>c. child # "gone" BY ChildStays
<1>n. /\ Ended \in Nat
      /\ stoppedTime + acc + InFifo <= asked + Lags(Ended)
      /\ ~ Pending => stoppedTime <= asked + MaxOver + Lags(Ended)
  BY <1>c DEF NotTooLong
<1>l. Lags(Ended) \in Nat BY <1>n, LagsGrow
<1>1. CASE /\ UNCHANGED <<acc, fifo, asks, asked, stoppedTime, stopped>>
           /\ Pending' = Pending
  <2>1. Ended' = Ended /\ InFifo' = InFifo BY <1>1 DEF Ended, InFifo
  <2>2. Lags(Ended)' = Lags(Ended) BY <2>1 DEF Lags
  <2>3. stoppedTime' + acc' + InFifo' <= asked' + Lags(Ended)' BY <1>1, <1>n, <2>1, <2>2
  <2>4. ~ Pending' => stoppedTime' <= asked' + MaxOver + Lags(Ended)' BY <1>1, <1>n, <2>2
  <2> QED BY <1>n, <2>1, <2>3, <2>4 DEF NotTooLong
<1>2. CASE Setsid \/ OpenFifo \/ OpenRecover \/ Return \/ Getpgid \/ OpenFifoRead \/ ReadNothing
           \/ Answer \/ CheckExited \/ MainReturns
  <2>1. UNCHANGED <<acc, fifo, asks, asked, stoppedTime, stopped>>
    BY <1>2 DEF Setsid, OpenFifo, OpenRecover, Return, Getpgid, OpenFifoRead, ReadNothing, Answer,
                CheckExited, MainReturns, pokerVars, childVars
  <2>2. (fifoThread \in {"stop", "sleep"}) <=> (fifoThread' \in {"stop", "sleep"})
    BY <1>2 DEF Setsid, OpenFifo, OpenRecover, Return, Getpgid, OpenFifoRead, ReadNothing, Answer,
                CheckExited, MainReturns, PokerAt, PokerGoto, pokerVars
  <2> QED BY <1>1, <2>1, <2>2 DEF Pending
<1>3. CASE MonitorChild \/ Finished \/ Hung \/ UNCHANGED vars
  <2>1. UNCHANGED <<acc, fifo, asks, asked, stoppedTime, stopped, fifoThread>>
    BY <1>3 DEF MonitorChild, Finished, Hung, vars, pokerVars, childVars
  <2> QED BY <1>1, <2>1 DEF Pending
<1>4. CASE Greet \/ Ask
  <2>1. PICK d \in Nat : /\ fifo' = Append(fifo, d) /\ asked' = asked + d /\ asks' = asks + 1
                         /\ UNCHANGED <<fifoThread, acc, stopped, stoppedTime>>
    <3>1. CASE Greet
      BY <1>t, <3>1 DEF Greet, pokerVars
    <3>2. CASE Ask
      BY <3>2, PokerAssumption DEF Ask, pokerVars
    <3> QED BY <1>4, <3>1, <3>2
  <2>2. child \in {"greet", "serving"} /\ ~ stopped BY <1>4 DEF Greet, Ask, ChildAt
  <2>3. fifo = <<>> /\ ~ Pending BY <2>2 DEF Inv, Turns, Pending
  <2>4. fifo' # <<>> /\ Head(fifo') = d BY <2>1, <2>3, WriteOne
  <2>5. Ended = asks /\ InFifo = 0 BY <2>2, <2>3 DEF Ended, InFifo
  <2>6. Pending' /\ InFifo' = d BY <2>4 DEF Pending, InFifo
  <2>7. Ended' = asks BY <1>t, <2>1, <2>6 DEF Ended
  <2>8. Lags(Ended)' = Lags(Ended) BY <2>5, <2>7 DEF Lags
  <2>9. stoppedTime' + acc' + InFifo' <= asked' + Lags(Ended)'
    BY <1>t, <1>n, <1>l, <2>1, <2>5, <2>6, <2>8
  <2> QED BY <1>t, <2>6, <2>7, <2>9 DEF NotTooLong
<1>5. CASE ReadDelay
  <2>1. /\ fifo # <<>> /\ fifo' = <<>> /\ acc' = acc + Head(fifo)
        /\ fifoThread' = "stop" /\ UNCHANGED <<asks, asked, stopped, stoppedTime>>
    BY <1>5 DEF ReadDelay, Credit, PokerAt, PokerGoto, childVars
  <2>2. Pending /\ Pending' /\ InFifo = Head(fifo) /\ InFifo' = 0 BY <2>1 DEF Pending, InFifo
  <2>3. Head(fifo) \in Nat BY <2>1, HeadTailProperties DEF Inv, TypeOK
  <2>4. Ended' = Ended BY <2>1, <2>2 DEF Ended
  <2>5. Lags(Ended)' = Lags(Ended) BY <2>4 DEF Lags
  <2>6. stoppedTime' + acc' + InFifo' <= asked' + Lags(Ended)'
    BY <1>t, <1>n, <1>l, <2>1, <2>2, <2>3, <2>5
  <2> QED BY <1>n, <2>2, <2>4, <2>6 DEF NotTooLong
<1>6. CASE Stop
  <2>1. /\ fifoThread = "stop" /\ fifoThread' = "sleep"
        /\ UNCHANGED <<acc, fifo, asks, asked, stoppedTime>>
    BY <1>6 DEF Stop, PokerAt, PokerGoto, childVars
  <2>2. Pending /\ Pending' /\ InFifo' = InFifo BY <2>1 DEF Pending, InFifo
  <2>3. Ended' = Ended BY <2>1, <2>2 DEF Ended
  <2>4. Lags(Ended)' = Lags(Ended) BY <2>3 DEF Lags
  <2>5. stoppedTime' + acc' + InFifo' <= asked' + Lags(Ended)' BY <1>n, <2>1, <2>2, <2>4
  <2> QED BY <1>n, <2>2, <2>3, <2>5 DEF NotTooLong
<1>7. CASE PreciseSleep
  <2>1. /\ fifoThread = "sleep" /\ fifoThread' = "answer" /\ ~ selfStopped
        /\ UNCHANGED <<fifo, stopped, asks, asked>>
    BY <1>7 DEF PreciseSleep, PokerAt, PokerGoto, childVars
  <2>2. PICK e \in Elapsed(acc), before \in 0 .. MaxLag, late \in 0 .. MaxLag :
          /\ acc' = acc - e - before
          /\ stoppedTime' = IF stopped /\ e > late THEN stoppedTime + (e - late) ELSE stoppedTime
    BY <1>7 DEF PreciseSleep, Subtract
  <2>3. acc >= 0 BY <1>c, <2>1 DEF Bounded
  <2>4. e \in Nat /\ before \in Nat /\ late \in Nat /\ e <= acc + MaxOver
    BY <1>t, <2>3 DEF Elapsed
  <2>5. stopped /\ fifo = <<>> BY <1>c, <2>1 DEF Inv, Signals, Turns
  <2>6. Pending /\ ~ Pending' /\ stopped' /\ InFifo = 0 /\ InFifo' = 0
    BY <2>1, <2>5 DEF Pending, InFifo
  <2>7. Ended' = Ended BY <2>1, <2>5, <2>6 DEF Ended
  <2>8. Lags(Ended)' = Lags(Ended) BY <2>7 DEF Lags
  <2>9. PICK time \in Nat : time = stoppedTime' BY <1>t, <2>2, <2>4
  <2>10. time <= stoppedTime + e BY <1>t, <2>2, <2>4, <2>9
  <2>11. stoppedTime + acc <= asked + Lags(Ended) BY <1>t, <1>l, <1>n, <2>6
  <2>12. time + (acc - e - before) + 0 <= asked + Lags(Ended)
    BY <1>t, <1>l, <2>4, <2>10, <2>11
  <2>13. time <= asked + MaxOver + Lags(Ended) BY <1>t, <1>l, <2>4, <2>10, <2>11
  <2>14. stoppedTime' + acc' + InFifo' <= asked' + Lags(Ended)'
    BY <2>1, <2>2, <2>6, <2>8, <2>9, <2>12, Zenon
  <2>15. stoppedTime' <= asked' + MaxOver + Lags(Ended)' BY <2>1, <2>8, <2>9, <2>13, Zenon
  <2> QED BY <1>n, <2>7, <2>14, <2>15 DEF NotTooLong
<1>8. CASE Continue
  <2>1. /\ fifoThread = "continue" /\ fifoThread' = "check" /\ ~ selfStopped
        /\ stopped' = (stopped /\ ~ SignalsChild)
        /\ UNCHANGED <<acc, fifo, asks, asked>>
    BY <1>8 DEF Continue, PokerAt, PokerGoto, childVars
  <2>2. PICK late \in 0 .. MaxLag :
          stoppedTime' = IF stopped THEN stoppedTime + late ELSE stoppedTime
    BY <1>8 DEF Continue
  <2>3. stopped /\ SignalsChild /\ fifo = <<>> BY <1>c, <2>1 DEF Inv, Signals, Turns
  <2>4. ~ Pending /\ ~ Pending' /\ ~ stopped' /\ InFifo = 0 /\ InFifo' = 0
    BY <2>1, <2>3 DEF Pending, InFifo
  <2>5. Ended' = Ended + 1 BY <1>t, <2>1, <2>3, <2>4 DEF Ended
  <2>6. Lags(Ended)' = Lags(Ended) + MaxLag
    <3>1. Lags(Ended)' = Lags(Ended + 1) BY <2>5 DEF Lags
    <3> QED BY <1>n, <3>1, LagsGrow
  <2>7. PICK time \in Nat : time = stoppedTime' BY <1>t, <2>2
  <2>8. time <= stoppedTime + MaxLag BY <1>t, <2>2, <2>7
  <2>9. time + acc + 0 <= asked + (Lags(Ended) + MaxLag) BY <1>t, <1>l, <1>n, <2>4, <2>8
  <2>10. time <= asked + MaxOver + (Lags(Ended) + MaxLag) BY <1>t, <1>l, <1>n, <2>4, <2>8
  <2>11. stoppedTime' + acc' + InFifo' <= asked' + Lags(Ended)'
    BY <2>1, <2>4, <2>6, <2>7, <2>9, Zenon
  <2>12. stoppedTime' <= asked' + MaxOver + Lags(Ended)' BY <2>1, <2>6, <2>7, <2>10, Zenon
  <2>13. Ended' \in Nat BY <1>n, <2>5
  <2> QED BY <2>11, <2>12, <2>13 DEF NotTooLong
<1>9. CASE ChildEnds
  BY <1>9 DEF ChildEnds, ChildGoto
<1> QED BY <1>2, <1>3, <1>4, <1>5, <1>6, <1>7, <1>8, <1>9 DEF Next, ChildStep, FifoThreadStep

\* However many pauses there were, the service has been stopped for at most one
\* sleep's excess and the lags of the signals longer than it asked: the rest is
\* carried over to the next pause instead of adding up (poker.c:116, 123-125).
THEOREM ErrorIsCarried == Spec => []ErrorCarried
<1>1. Init => Bounded BY PokerAssumption DEF Init, Bounded
<1>2. Init => NotTooLong
  <2> SUFFICES ASSUME Init PROVE NotTooLong OBVIOUS
  <2>1. /\ asks = 0 /\ asked = 0 /\ stoppedTime = 0 /\ acc = 0 /\ fifo = <<>> /\ ~ stopped
        /\ fifoThread = "getpgid"
    BY DEF Init
  <2>2. Ended = 0 /\ InFifo = 0 BY <2>1 DEF Ended, InFifo, Pending
  <2>3. Lags(Ended) \in Nat /\ MaxOver \in Nat BY <2>2, LagsGrow, PokerAssumption
  <2> QED BY <2>1, <2>2, <2>3 DEF NotTooLong
<1>3. Inv /\ NotTooLong => ErrorCarried
  <2> SUFFICES ASSUME Inv, NotTooLong, child = "serving", LongDelays
               PROVE  stoppedTime <= asked + MaxOver + asks * MaxLag
    BY DEF ErrorCarried, LongDelays
  <2>1. ~ Pending /\ ~ stopped BY DEF Inv, Turns, Signals, Pending
  <2>2. Ended = asks BY <2>1 DEF Ended
  <2> QED BY <2>1, <2>2 DEF NotTooLong, Lags
<1> QED BY <1>1, <1>2, <1>3, InvInit, InvStep, BoundedStep, NotTooLongStep, PTL DEF Spec
-----------------------------------------------------------------------------
(* The poker and the runtime implement the contract. *)

LEMMA RefineInit == Init => Contract!Init
BY DEF Init, Contract!Init, View

\* The steps of the service, as the contract sees them.
LEMMA RefineChild ==
  ASSUME Inv, ChildStep \/ Ask \/ ChildEnds
  PROVE  Contract!Next \/ UNCHANGED Contract!vars
<1>1. CASE Setsid \/ OpenFifo
  <2>1. /\ child \in {"forked", "session"} /\ child' \in {"session", "greet"}
        /\ UNCHANGED <<recover, stopped, asks, asked, stoppedTime>>
    BY <1>1 DEF Setsid, OpenFifo, ChildAt, ChildGoto
  <2> QED BY <2>1 DEF View, Contract!vars
<1>2. CASE Greet
  <2>1. /\ child = "greet" /\ child' = "openRecover" /\ ~ stopped
        /\ asks' = asks + 1 /\ UNCHANGED <<recover, stopped, asked, stoppedTime>>
    BY <1>2 DEF Greet, ChildAt, ChildGoto
  <2>2. recover = 0 /\ asked \in Nat BY <2>1 DEF Inv, Turns, TypeOK
  <2>3. View = "idle" /\ View' = "asked" BY <2>1, <2>2 DEF View
  <2> QED BY <2>1, <2>2, <2>3 DEF Contract!Next, Contract!Ask
<1>3. CASE OpenRecover
  <2>1. /\ child = "openRecover" /\ child' = "waiting"
        /\ UNCHANGED <<recover, stopped, asks, asked, stoppedTime>>
    BY <1>3 DEF OpenRecover, ChildAt, ChildGoto
  <2> QED BY <2>1 DEF View, Contract!vars
<1>4. CASE Return
  <2>1. /\ child = "waiting" /\ child' = "serving" /\ ~ stopped
        /\ recover > 0 /\ recover' = recover - 1
        /\ UNCHANGED <<stopped, asks, asked, stoppedTime>>
    BY <1>4 DEF Return, ChildAt, ChildGoto, AfterRead
  <2>2. recover' = 0 BY <2>1 DEF Inv, TypeOK
  <2>3. View = "answered" /\ View' = "idle" BY <2>1, <2>2 DEF View
  <2> QED BY <2>1, <2>3 DEF Contract!Next, Contract!Return
<1>5. CASE Ask
  <2>1. PICK d \in Delays : asked' = asked + d BY <1>5 DEF Ask
  <2>2. /\ child = "serving" /\ child' = "waiting" /\ ~ stopped
        /\ asks' = asks + 1 /\ UNCHANGED <<recover, stopped, stoppedTime>>
    BY <1>5 DEF Ask, ChildAt, ChildGoto
  <2>3. recover = 0 /\ asked \in Nat /\ d \in Nat BY <2>2, PokerAssumption DEF Inv, Turns, TypeOK
  <2>4. View = "idle" /\ View' = "asked" BY <2>2, <2>3 DEF View
  <2>5. asked' >= asked BY <2>1, <2>3
  <2> QED BY <2>2, <2>4, <2>5 DEF Contract!Next, Contract!Ask
<1>6. CASE ChildEnds
  <2>1. child # "gone" /\ child' = "gone" /\ UNCHANGED <<asks, asked, stoppedTime>> /\ stoppedTime \in Nat
    BY <1>6 DEF ChildEnds, ChildGoto, Inv, TypeOK
  <2>2. View # "gone" /\ View' = "gone" BY <2>1 DEF View
  <2> QED BY <2>1, <2>2 DEF Contract!Next, Contract!Exit
<1> QED BY <1>1, <1>2, <1>3, <1>4, <1>5, <1>6 DEF ChildStep

\* The steps of the poker.
LEMMA RefinePoker ==
  ASSUME Inv, FifoThreadStep \/ MonitorChild
  PROVE  Contract!Next \/ UNCHANGED Contract!vars
<1>0. UNCHANGED <<child, asks, asked>>
  BY DEF FifoThreadStep, Getpgid, OpenFifoRead, ReadDelay, ReadNothing, Stop, PreciseSleep,
         Answer, Continue, CheckExited, MainReturns, MonitorChild, childVars
<1>1. CASE \/ Getpgid \/ OpenFifoRead \/ ReadDelay \/ ReadNothing \/ CheckExited \/ MainReturns
           \/ MonitorChild
  <2>1. UNCHANGED <<recover, stopped, stoppedTime>>
    BY <1>1 DEF Getpgid, OpenFifoRead, ReadDelay, ReadNothing, CheckExited, MainReturns,
                MonitorChild
  <2> QED BY <1>0, <2>1 DEF View, Contract!vars
<1>2. CASE Stop
  <2>1. /\ fifoThread = "stop" /\ UNCHANGED <<recover, stoppedTime>>
        /\ stopped' = (stopped \/ (SignalsChild /\ child # "gone"))
    BY <1>2 DEF Stop, PokerAt
  <2>2. CASE child # "gone" /\ SignalsChild
    <3>1. child = "waiting" /\ recover = 0 /\ ~ stopped BY <2>1, <2>2 DEF Inv, Turns, Signals
    <3>s. stopped' BY <2>1, <2>2
    <3>2. View = "asked" /\ View' = "stopped"
      <4>1. View = "asked" BY <2>2, <3>1 DEF View
      <4>2. child' # "gone" BY <1>0, <2>2
      <4>3. View' = "stopped" BY <3>s, <4>2 DEF View
      <4> QED BY <4>1, <4>3
    <3> QED BY <1>0, <2>1, <3>2 DEF Contract!Next, Contract!Stop
  <2>3. CASE child = "gone" BY <1>0, <2>1, <2>3 DEF View, Contract!vars
  <2>4. CASE child # "gone" /\ ~ SignalsChild
    <3>1. ~ stopped /\ ~ stopped' BY <2>1, <2>4 DEF Inv, Signals
    <3> QED BY <1>0, <2>1, <2>4, <3>1 DEF View, Contract!vars
  <2> QED BY <2>2, <2>3, <2>4
<1>3. CASE PreciseSleep
  <2>1. /\ fifoThread = "sleep" /\ ~ selfStopped /\ UNCHANGED <<recover, stopped>>
    BY <1>3 DEF PreciseSleep, PokerAt
  <2>2. PICK e \in Elapsed(acc), late \in 0 .. MaxLag :
          stoppedTime' = IF stopped /\ e > late THEN stoppedTime + (e - late) ELSE stoppedTime
    BY <1>3 DEF PreciseSleep
  <2>3. e \in Nat /\ late \in Nat /\ stoppedTime \in Nat
    BY PokerAssumption DEF Elapsed, Inv, TypeOK
  <2>4. CASE child # "gone"
    <3>1. stopped BY <2>1, <2>4 DEF Inv, Signals
    <3>2. View = "stopped" /\ View' = "stopped" BY <1>0, <2>1, <2>4, <3>1 DEF View
    <3>3. stoppedTime' >= stoppedTime BY <2>2, <2>3
    <3> QED BY <1>0, <3>2, <3>3 DEF Contract!Next, Contract!Sleep
  <2>5. CASE child = "gone"
    <3>1. ~ stopped BY <2>5 DEF Inv, Signals
    <3>2. stoppedTime' = stoppedTime BY <2>2, <3>1
    <3> QED BY <1>0, <2>1, <2>5, <3>2 DEF View, Contract!vars
  <2> QED BY <2>4, <2>5
<1>4. CASE Answer
  <2>1. fifoThread = "answer" /\ ~ selfStopped /\ UNCHANGED <<stopped, stoppedTime>>
    BY <1>4 DEF Answer, PokerAt
  <2>2. child = "gone" \/ stopped BY <2>1 DEF Inv, Signals
  <2> QED BY <1>0, <2>1, <2>2 DEF View, Contract!vars
<1>5. CASE Continue
  <2>1. /\ fifoThread = "continue" /\ ~ selfStopped /\ UNCHANGED recover
        /\ stopped' = (stopped /\ ~ SignalsChild)
    BY <1>5 DEF Continue, PokerAt
  <2>t. PICK late \in 0 .. MaxLag :
          stoppedTime' = IF stopped THEN stoppedTime + late ELSE stoppedTime
    BY <1>5 DEF Continue
  <2>n. /\ late \in Nat /\ stoppedTime \in Nat /\ acc \in Int /\ asked \in Nat
        /\ asks * MaxLag \in Nat
    BY PokerAssumption DEF Inv, TypeOK
  <2>2. CASE child # "gone"
    <3>1. stopped /\ SignalsChild /\ child = "waiting" /\ recover = 1 /\ fifo = <<>>
      BY <2>1, <2>2 DEF Inv, Turns, Signals
    <3>s. ~ stopped' BY <2>1, <3>1
    <3>2. View = "stopped" /\ View' = "answered"
      <4>1. View = "stopped" BY <2>2, <3>1 DEF View
      <4>2. child' # "gone" /\ recover' > 0 BY <1>0, <2>1, <2>2, <3>1
      <4>3. View' = "answered" BY <3>s, <4>2 DEF View
      <4> QED BY <4>1, <4>3
    <3>3. stoppedTime + acc + asks * MaxLag >= asked /\ acc <= 0
      <4>1. ~ Pending BY <2>1, <3>1 DEF Pending
      <4> QED BY <2>1, <2>2, <4>1 DEF Inv, Books
    <3>4. stoppedTime + asks * MaxLag >= asked
      <4>1. PICK lags \in Nat : lags = asks * MaxLag BY <2>n
      <4>2. stoppedTime + acc + lags >= asked BY <3>3, <4>1, Zenon
      <4>3. stoppedTime + lags >= asked BY <2>n, <3>3, <4>2
      <4> QED BY <4>1, <4>3, Zenon
    <3>5. stoppedTime' >= stoppedTime BY <2>t, <2>n
    <3> QED BY <1>0, <3>2, <3>4, <3>5 DEF Contract!Next, Contract!Continue
  <2>3. CASE child = "gone"
    <3>1. ~ stopped BY <2>3 DEF Inv, Signals
    <3>2. stoppedTime' = stoppedTime BY <2>t, <3>1
    <3> QED BY <1>0, <2>1, <2>3, <3>2 DEF View, Contract!vars
  <2> QED BY <2>2, <2>3
<1> QED BY <1>1, <1>2, <1>3, <1>4, <1>5 DEF FifoThreadStep

LEMMA RefineStep == Inv /\ [Next]_vars => [Contract!Next]_(Contract!vars)
<1> SUFFICES ASSUME Inv, [Next]_vars PROVE Contract!Next \/ UNCHANGED Contract!vars OBVIOUS
<1>1. CASE Finished \/ Hung \/ UNCHANGED vars
  BY <1>1 DEF Finished, Hung, vars, childVars, View, Contract!vars
<1> QED BY <1>1, RefineChild, RefinePoker DEF Next

\* The service runs again only after all it ever asked for was slept, but for the
\* lags: the answer that is written before SIGCONT lets nobody through early
\* (poker.c:129-133).
THEOREM Implementation == Spec => ImplementsContract
BY InvInit, InvStep, RefineInit, RefineStep, PTL DEF Spec, ImplementsContract, Contract!Spec

-----------------------------------------------------------------------------
(* Accounting: counting and burning. *)

\* Between two messages nothing is left in the printing goroutine.
NothingHeld == printer = "wait" => funcCounters = Zeros

IInv == AccountingTypeOK /\ NothingHeld /\ CountsConserved

LEMMA InitHolds ==
  ASSUME AccountingInit
  PROVE  IInv
<1>1. (CHOOSE f \in Func : TRUE) \in Func
  BY AccountingAssumption
<1>2. AccountingTypeOK
  BY <1>1 DEF AccountingInit, AccountingTypeOK, Zeros
<1>3. NothingHeld
  BY DEF AccountingInit, NothingHeld
<1>4. CountsConserved
  BY DEF AccountingInit, CountsConserved, Zeros
<1> QED
  BY <1>2, <1>3, <1>4 DEF IInv

-----------------------------------------------------------------------------
(* One lemma for each action of a worker. *)

LEMMA CheckKeeps ==
  ASSUME IInv, NEW w \in Worker, NEW f \in Func, SlowpokeCheck(w, f)
  PROVE  IInv'
<1>1. AccountingTypeOK'
  <2>1. CASE prerun
    BY <2>1 DEF IInv, SlowpokeCheck, Goto, AccountingTypeOK, print
  <2>2. CASE ~ prerun
    BY <2>2 DEF IInv, SlowpokeCheck, Goto, AccountingTypeOK, print
  <2> QED
    BY <2>1, <2>2
<1>2. NothingHeld' /\ CountsConserved'
  BY DEF IInv, SlowpokeCheck, NothingHeld, CountsConserved, print
<1> QED
  BY <1>1, <1>2 DEF IInv

LEMMA IncrementKeeps ==
  ASSUME IInv, NEW w \in Worker, Increment(w)
  PROVE  IInv'
<1>1. CASE Swaps(func[w], counter[w])
  <2>1. AccountingTypeOK'
    BY <1>1 DEF IInv, Increment, Goto, AccountingTypeOK, print
  <2>2. requestCounters[func[w]] = counter[w] /\ func[w] \in Func
    BY <1>1 DEF Swaps, IInv, AccountingTypeOK
  <2>3. /\ requestCounters' = [requestCounters EXCEPT ![func[w]] = requestCounters[func[w]] + 1]
        /\ counted' = [counted EXCEPT ![func[w]] = @ + 1]
        /\ UNCHANGED <<funcCounters, printed>>
    BY <1>1, <2>2 DEF Increment, print
  <2>4. CountsConserved'
    BY <2>2, <2>3 DEF IInv, AccountingTypeOK, CountsConserved
  <2> QED
    BY <2>1, <2>4 DEF IInv, Increment, NothingHeld, print
<1>2. CASE ~ Swaps(func[w], counter[w])
  <2>1. AccountingTypeOK'
    BY <1>2 DEF IInv, Increment, Goto, AccountingTypeOK, print
  <2> QED
    BY <1>2, <2>1 DEF IInv, Increment, NothingHeld, CountsConserved, print
<1> QED
  BY <1>1, <1>2

LEMMA ReloadKeeps ==
  ASSUME IInv, NEW w \in Worker, Reload(w)
  PROVE  IInv'
<1>1. AccountingTypeOK'
  BY DEF IInv, Reload, Goto, AccountingTypeOK, print, history
<1> QED
  BY <1>1 DEF IInv, Reload, NothingHeld, CountsConserved, print, history

LEMMA TakeSurplusKeeps ==
  ASSUME IInv, NEW w \in Worker, TakeSurplus(w)
  PROVE  IInv'
<1>1. AccountingTypeOK'
  <2>1. CASE processingTime >= 0
    <3> DEFINE common == Smaller(sleepSurplus, processingTime)
    <3>1. sleepSurplus - common \in Nat /\ processingTime - common \in Nat
      BY <2>1, AccountingAssumption DEF IInv, AccountingTypeOK, Smaller
    <3> HIDE DEF common
    <3>2. /\ sleepSurplus' = 0
          /\ takenSurplus' = [takenSurplus EXCEPT ![w] = sleepSurplus - common]
          /\ sleepTime' = [sleepTime EXCEPT ![w] = processingTime - common]
          /\ pc' = [pc EXCEPT ![w] = "spin"]
      BY <2>1 DEF TakeSurplus, LeavesNothing, Goto, common
    <3> QED
      BY <3>1, <3>2 DEF TakeSurplus, IInv, AccountingTypeOK, print, history
  <2>2. CASE ~ (processingTime >= 0)
    BY <2>2 DEF IInv, TakeSurplus, Goto, AccountingTypeOK, print, history
  <2> QED
    BY <2>1, <2>2
<1> QED
  BY <1>1 DEF IInv, TakeSurplus, NothingHeld, CountsConserved, print, history

LEMMA SpinKeeps ==
  ASSUME IInv, NEW w \in Worker, Spin(w)
  PROVE  IInv'
<1>1. PICK q \in Quantum : spun' = [spun EXCEPT ![w] = @ + q] /\ cpu' = cpu + q
  BY DEF Spin
<1>2. q \in Nat
  BY AccountingAssumption
<1>3. AccountingTypeOK'
  BY <1>1, <1>2 DEF IInv, Spin, AccountingTypeOK, print
<1> QED
  BY <1>3 DEF IInv, Spin, NothingHeld, CountsConserved, print

LEMMA ReturnSurplusKeeps ==
  ASSUME IInv, NEW w \in Worker, ReturnSurplus(w)
  PROVE  IInv'
<1>1. Excess(w) \in Nat
  BY DEF IInv, AccountingTypeOK, ReturnSurplus, Excess
<1>2. AccountingTypeOK'
  BY <1>1 DEF IInv, ReturnSurplus, Goto, AccountingTypeOK, print, history
<1> QED
  BY <1>2 DEF IInv, ReturnSurplus, NothingHeld, CountsConserved, print, history

-----------------------------------------------------------------------------
(* The actions of the printing goroutine. *)

LEMMA PrinterKeeps ==
  ASSUME IInv, Printer
  PROVE  IInv'
<1>1. CASE StartPrint
  BY <1>1 DEF IInv, StartPrint, AccountingTypeOK, NothingHeld, CountsConserved, Zeros, work, history
<1>2. ASSUME NEW f \in Func, Visit(f)
      PROVE  IInv'
  BY <1>2 DEF IInv, Visit, AccountingTypeOK, NothingHeld, CountsConserved, work, history
<1>3. CASE Reset
  <2>1. CASE Swaps(visited, counterInt)
    <3>1. AccountingTypeOK'
      BY <1>3, <2>1 DEF IInv, Reset, Rest, AccountingTypeOK, work, history
    <3>2. requestCounters[visited] = counterInt
      BY <2>1 DEF Swaps
    <3>3. CountsConserved'
      BY <1>3, <2>1, <3>2 DEF IInv, Reset, AccountingTypeOK, CountsConserved, history
    <3> QED
      BY <1>3, <2>1, <3>1, <3>3 DEF IInv, Reset, NothingHeld
  <2>2. CASE ~ Swaps(visited, counterInt)
    BY <1>3, <2>2 DEF IInv, Reset, AccountingTypeOK, NothingHeld, CountsConserved, work, history
  <2> QED
    BY <2>1, <2>2
<1>4. CASE ReloadCounter
  BY <1>4 DEF IInv, ReloadCounter, AccountingTypeOK, NothingHeld, CountsConserved, work, history
<1>5. CASE FinishPrint
  BY <1>5 DEF IInv, FinishPrint, AccountingTypeOK, NothingHeld, CountsConserved, Zeros, work
<1> QED
  BY <1>1, <1>2, <1>3, <1>4, <1>5 DEF Printer

-----------------------------------------------------------------------------

LEMMA NextKeeps ==
  ASSUME IInv, [AccountingNext]_accountingVars
  PROVE  IInv'
<1>1. ASSUME NEW w \in Worker, Step(w)
      PROVE  IInv'
  BY <1>1, IncrementKeeps, ReloadKeeps, TakeSurplusKeeps, SpinKeeps, ReturnSurplusKeeps DEF Step
<1>2. CASE UNCHANGED accountingVars
  BY <1>2 DEF IInv, AccountingTypeOK, NothingHeld, CountsConserved, accountingVars, work, print, history
<1> QED
  BY <1>1, <1>2, CheckKeeps, PrinterKeeps DEF AccountingNext

\* Every variable has its type: no worker ever takes or returns a negative surplus,
\* for any number of workers, any CPU time per request and per loop (utils.go:309-328).
THEOREM AccountingTypeCorrect == AccountingSpec => []AccountingTypeOK
<1>1. IInv => AccountingTypeOK
  BY DEF IInv
<1> QED
  BY <1>1, InitHolds, NextKeeps, PTL DEF AccountingSpec

\* The lock-free counters neither lose nor double a request, for any number of
\* workers and endpoints (utils.go:81-91, 293-302).
THEOREM CountsAreConserved == AccountingSpec => []CountsConserved
<1>1. IInv => CountsConserved
  BY DEF IInv
<1> QED
  BY <1>1, InitHolds, NextKeeps, PTL DEF AccountingSpec

-----------------------------------------------------------------------------
(* CPU time. *)

\* Whoever is not burning has not burnt anything for its next request.
Rested == \A w \in Worker : pc[w] # "spin" => spun[w] = 0

BurntInv == IInv /\ Rested /\ SpinConserved

LEMMA BalanceType == AccountingTypeOK => \A w \in Worker : Balance[w] \in Int
BY DEF AccountingTypeOK, Balance, Excess

LEMMA DueType == Due \in Nat
BY AccountingAssumption DEF Due

\* A step of one worker changes only its own term.
LEMMA OneBalance ==
  ASSUME AccountingTypeOK, AccountingTypeOK', NEW w \in Worker,
         \A v \in Worker \ {w} : /\ pc'[v] = pc[v]
                                 /\ takenSurplus'[v] = takenSurplus[v]
                                 /\ sleepTime'[v] = sleepTime[v]
                                 /\ spun'[v] = spun[v]
  PROVE  /\ SumFunctionOnSet(Balance, Worker)' =
              SumFunctionOnSet(Balance, Worker) + Balance'[w] - Balance[w]
         /\ SumFunctionOnSet(Balance, Worker) \in Int
         /\ Balance[w] \in Int /\ Balance'[w] \in Int
         /\ Waiting \ {w} = Waiting' \ {w}
<1>1. \A v \in Worker \ {w} : Balance'[v] = Balance[v] BY DEF Balance, Excess
<1>2. \A v \in Worker : Balance[v] \in Int BY BalanceType
<1>3. \A v \in Worker : Balance'[v] \in Int BY DEF AccountingTypeOK, Balance, Excess
<1>4. Waiting \ {w} = Waiting' \ {w} BY DEF Waiting
<1>5. IsFiniteSet(Worker) BY AccountingAssumption
<1>6. \A f, g : ( /\ g[w] \in Int
                  /\ \A y \in Worker : f[y] \in Int
                  /\ \A y \in Worker \ {w} : g[y] = f[y] ) =>
        /\ SumFunctionOnSet(g, Worker) = SumFunctionOnSet(f, Worker) + g[w] - f[w]
        /\ SumFunctionOnSet(f, Worker) \in Int
  BY <1>5, SumChange, SumSplit
<1>7. SumFunctionOnSet(Balance, Worker)' = SumFunctionOnSet(Balance', Worker) OBVIOUS
<1> HIDE DEF Balance
<1> QED BY <1>1, <1>2, <1>3, <1>4, <1>6, <1>7

LEMMA OneWaits ==
  ASSUME NEW S, IsFiniteSet(S), NEW R, IsFiniteSet(R), NEW w, S \ {w} = R \ {w}
  PROVE  /\ (w \in S /\ w \in R) => Cardinality(R) = Cardinality(S)
         /\ (w \notin S /\ w \notin R) => Cardinality(R) = Cardinality(S)
         /\ (w \in S /\ w \notin R) => Cardinality(R) = Cardinality(S) - 1
         /\ (w \notin S /\ w \in R) => Cardinality(R) = Cardinality(S) + 1
<1>1. /\ Cardinality(S \ {w}) = IF w \in S THEN Cardinality(S) - 1 ELSE Cardinality(S)
      /\ Cardinality(R \ {w}) = IF w \in R THEN Cardinality(R) - 1 ELSE Cardinality(R)
  BY FS_RemoveElement
<1>2. Cardinality(S) \in Nat /\ Cardinality(R) \in Nat BY FS_CardinalityType
<1>3. Cardinality(S \ {w}) = Cardinality(R \ {w}) OBVIOUS
<1>4. CASE w \in S BY <1>1, <1>2, <1>3, <1>4
<1>5. CASE w \notin S BY <1>1, <1>2, <1>3, <1>5
<1> QED BY <1>4, <1>5

LEMMA CardinalityType ==
  /\ IsFiniteSet(Waiting) /\ Cardinality(Waiting) \in Nat
  /\ IsFiniteSet(Waiting') /\ Cardinality(Waiting') \in Nat
<1>1. Waiting \in SUBSET Worker /\ Waiting' \in SUBSET Worker BY DEF Waiting
<1> QED BY <1>1, AccountingAssumption, FS_Subset, FS_CardinalityType

\* The ledger after a step of worker w: d requests more have started to burn and
\* q more was burnt.
LEMMA StepOfWorker ==
  ASSUME AccountingTypeOK, AccountingTypeOK', SpinConserved, NEW w \in Worker,
         \A v \in Worker \ {w} : /\ pc'[v] = pc[v]
                                 /\ takenSurplus'[v] = takenSurplus[v]
                                 /\ sleepTime'[v] = sleepTime[v]
                                 /\ spun'[v] = spun[v],
         NEW d \in {0, 1}, NEW q \in Nat,
         checks' - Cardinality(Waiting') = checks - Cardinality(Waiting) + d,
         cpu' = cpu + q,
         q = (IF d = 1 THEN Due ELSE 0) + (sleepSurplus' - sleepSurplus)
               + (Balance'[w] - Balance[w])
  PROVE  SpinConserved'
<1> DEFINE S == SumFunctionOnSet(Balance, Worker)
           n == checks - Cardinality(Waiting)
           m == checks' - Cardinality(Waiting')
<1>1. S' = S + Balance'[w] - Balance[w] /\ S \in Int /\ Balance[w] \in Int /\ Balance'[w] \in Int
  BY OneBalance
<1>2. n \in Int /\ m \in Int /\ m = n + d BY CardinalityType DEF AccountingTypeOK
<1>3. Due * m = Due * n + (IF d = 1 THEN Due ELSE 0) /\ Due * n \in Int
  <2>1. \A a \in Nat, b \in Int : a * (b + 1) = a * b + a /\ a * (b + 0) = a * b + 0 /\ a * b \in Int
    OBVIOUS
  <2> HIDE DEF n, m
  <2>2. Due * (n + 1) = Due * n + Due /\ Due * (n + 0) = Due * n + 0 /\ Due * n \in Int
    BY <1>2, <2>1, DueType
  <2>3. CASE d = 1 BY <1>2, <2>2, <2>3
  <2>4. CASE d = 0 BY <1>2, <2>2, <2>4
  <2> QED BY <2>3, <2>4
<1>4. cpu = Due * n + sleepSurplus + S BY DEF SpinConserved
<1>5. Due' = Due BY DEF Due
<1>6. sleepSurplus \in Int /\ sleepSurplus' \in Int /\ cpu \in Int BY DEF AccountingTypeOK
<1>7. SpinConserved' <=> cpu' = Due * m + sleepSurplus' + S' BY <1>5 DEF SpinConserved
<1>8. (IF d = 1 THEN Due ELSE 0) \in Int BY DueType
<1> HIDE DEF S, n, m
<1>9. \A a, b, e, s1, s2, t1, t2, b1, b2, qq \in Int :
        (a = b + s1 + t1 /\ t2 = t1 + b2 - b1 /\ qq = e + (s2 - s1) + (b2 - b1)) =>
          a + qq = b + e + s2 + t2
  OBVIOUS
<1>10. S' \in Int BY <1>1
<1> QED
  <2>1. cpu + q = Due * n + (IF d = 1 THEN Due ELSE 0) + sleepSurplus' + S'
    BY <1>1, <1>3, <1>4, <1>6, <1>8, <1>9, <1>10
  <2> QED BY <1>3, <1>7, <2>1

LEMMA BurntInit == AccountingInit => Rested /\ SpinConserved
<1> SUFFICES ASSUME AccountingInit PROVE Rested /\ SpinConserved OBVIOUS
<1>1. Rested BY DEF AccountingInit, Rested
<1>2. \A w \in Worker : Balance[w] = 0 BY DEF AccountingInit, Balance
<1>3. SumFunctionOnSet(Balance, Worker) = 0 BY <1>2, AccountingAssumption, SumZero
<1>4. Waiting = {} BY DEF AccountingInit, Waiting
<1>5. Cardinality(Waiting) = 0 BY <1>4, FS_EmptySet
<1>6. checks = 0 /\ cpu = 0 /\ sleepSurplus = 0 BY DEF AccountingInit
<1>7. Due * (0 - 0) = 0 BY DueType
<1> QED BY <1>1, <1>3, <1>5, <1>6, <1>7 DEF SpinConserved

\* A step that burns nothing and changes neither who waits nor what is left over.
Idles == UNCHANGED <<sleepSurplus, takenSurplus, sleepTime, spun, cpu>>

LEMMA CheckBurns ==
  ASSUME BurntInv, IInv', NEW w \in Worker, NEW f \in Func, SlowpokeCheck(w, f)
  PROVE  Rested' /\ SpinConserved'
<1>1. AccountingTypeOK /\ AccountingTypeOK' /\ SpinConserved /\ Rested BY DEF BurntInv, IInv
<1>2. Idles /\ checks' = checks + 1 BY DEF SlowpokeCheck, Idles
<1>3. \E l \in {"increment", "process"} : pc' = [pc EXCEPT ![w] = l]
  BY DEF SlowpokeCheck, Goto
<1>4. PICK l \in {"increment", "process"} : pc' = [pc EXCEPT ![w] = l] BY <1>3
<1>5. pc[w] = "idle" /\ pc'[w] = l /\ \A v \in Worker \ {w} : pc'[v] = pc[v]
  BY <1>1, <1>4 DEF AccountingTypeOK, SlowpokeCheck
<1>6. Rested' BY <1>1, <1>2, <1>5 DEF Rested, Idles
<1>7. w \notin Waiting /\ w \in Waiting' BY <1>5 DEF Waiting
<1>8. \A v \in Worker \ {w} : /\ pc'[v] = pc[v]
                              /\ takenSurplus'[v] = takenSurplus[v]
                              /\ sleepTime'[v] = sleepTime[v]
                              /\ spun'[v] = spun[v]
  BY <1>2, <1>5 DEF Idles
<1>9. Cardinality(Waiting') = Cardinality(Waiting) + 1
  <2>1. Waiting \ {w} = Waiting' \ {w} BY <1>1, <1>8, OneBalance
  <2> QED BY <1>7, <2>1, CardinalityType, OneWaits
<1>10. Balance[w] = 0 /\ Balance'[w] = 0 BY <1>5 DEF Balance
<1>11. checks' - Cardinality(Waiting') = checks - Cardinality(Waiting) + 0
  BY <1>1, <1>2, <1>9, CardinalityType DEF AccountingTypeOK
<1>12. cpu' = cpu + 0 /\ 0 = (IF 0 = 1 THEN Due ELSE 0) + (sleepSurplus' - sleepSurplus)
                               + (Balance'[w] - Balance[w])
  BY <1>1, <1>2, <1>10 DEF AccountingTypeOK, Idles
<1>13. SpinConserved' BY <1>1, <1>8, <1>11, <1>12, StepOfWorker
<1> QED BY <1>6, <1>13

LEMMA CountingBurns ==
  ASSUME BurntInv, IInv', NEW w \in Worker, Increment(w) \/ Reload(w)
  PROVE  Rested' /\ SpinConserved'
<1>1. AccountingTypeOK /\ AccountingTypeOK' /\ SpinConserved /\ Rested BY DEF BurntInv, IInv
<1>2. Idles /\ checks' = checks BY DEF Increment, Reload, Idles, history
<1>3. \E l \in {"increment", "reload", "process"} : pc' = [pc EXCEPT ![w] = l]
  BY DEF Increment, Reload, Goto
<1>4. PICK l \in {"increment", "reload", "process"} : pc' = [pc EXCEPT ![w] = l] BY <1>3
<1>5. pc[w] \in {"increment", "reload"} /\ pc'[w] = l /\ \A v \in Worker \ {w} : pc'[v] = pc[v]
  BY <1>1, <1>4 DEF AccountingTypeOK, Increment, Reload
<1>6. Rested' BY <1>1, <1>2, <1>5 DEF Rested, Idles
<1>7. Waiting' = Waiting BY <1>5 DEF Waiting
<1>8. \A v \in Worker \ {w} : /\ pc'[v] = pc[v]
                              /\ takenSurplus'[v] = takenSurplus[v]
                              /\ sleepTime'[v] = sleepTime[v]
                              /\ spun'[v] = spun[v]
  BY <1>2, <1>5 DEF Idles
<1>9. Balance[w] = 0 /\ Balance'[w] = 0 BY <1>5 DEF Balance
<1>10. checks' - Cardinality(Waiting') = checks - Cardinality(Waiting) + 0
  BY <1>1, <1>2, <1>7, CardinalityType DEF AccountingTypeOK
<1>11. cpu' = cpu + 0 /\ 0 = (IF 0 = 1 THEN Due ELSE 0) + (sleepSurplus' - sleepSurplus)
                               + (Balance'[w] - Balance[w])
  BY <1>1, <1>2, <1>9 DEF AccountingTypeOK, Idles
<1>12. SpinConserved' BY <1>1, <1>8, <1>10, <1>11, StepOfWorker
<1> QED BY <1>6, <1>12

LEMMA TakeBurns ==
  ASSUME BurntInv, IInv', NEW w \in Worker, TakeSurplus(w)
  PROVE  Rested' /\ SpinConserved'
<1>1. AccountingTypeOK /\ AccountingTypeOK' /\ SpinConserved /\ Rested BY DEF BurntInv, IInv
<1>2. spun' = spun /\ cpu' = cpu /\ checks' = checks BY DEF TakeSurplus, history
<1>3. pc[w] = "process" /\ spun[w] = 0 BY <1>1 DEF TakeSurplus, Rested
<1>4. w \in Waiting /\ Balance[w] = 0 BY <1>3 DEF Waiting, Balance
<1>5. /\ \A v \in Worker \ {w} : /\ pc'[v] = pc[v]
                                 /\ takenSurplus'[v] = takenSurplus[v]
                                 /\ sleepTime'[v] = sleepTime[v]
                                 /\ spun'[v] = spun[v]
      /\ pc'[w] \in {"spin", "idle"}
  <2>1. CASE processingTime >= 0 BY <1>1, <1>2, <2>1 DEF TakeSurplus, AccountingTypeOK, Goto
  <2>2. CASE ~ (processingTime >= 0) BY <1>1, <1>2, <2>2 DEF TakeSurplus, AccountingTypeOK, Goto
  <2> QED BY <2>1, <2>2
<1>6. Rested' BY <1>1, <1>2, <1>3, <1>5 DEF Rested
<1>7. w \notin Waiting' BY <1>5 DEF Waiting
<1>8. Cardinality(Waiting') = Cardinality(Waiting) - 1
  <2>1. Waiting \ {w} = Waiting' \ {w} BY <1>1, <1>5, OneBalance
  <2> QED BY <1>4, <1>7, <2>1, CardinalityType, OneWaits
<1>9. checks' - Cardinality(Waiting') = checks - Cardinality(Waiting) + 1
  BY <1>1, <1>2, <1>8, CardinalityType DEF AccountingTypeOK
<1>10. cpu' = cpu + 0 BY <1>1, <1>2 DEF AccountingTypeOK
<1>11. 0 = Due + (sleepSurplus' - sleepSurplus) + Balance'[w]
  <2>1. CASE processingTime >= 0
    <3> DEFINE common == Smaller(sleepSurplus, processingTime)
    <3>1. common \in Int BY <1>1, AccountingAssumption DEF AccountingTypeOK, Smaller
    <3> HIDE DEF common
    <3>2. /\ sleepSurplus' = 0
          /\ takenSurplus' = [takenSurplus EXCEPT ![w] = sleepSurplus - common]
          /\ sleepTime' = [sleepTime EXCEPT ![w] = processingTime - common]
          /\ pc' = [pc EXCEPT ![w] = "spin"]
      BY <2>1 DEF TakeSurplus, LeavesNothing, Goto, common
    <3>3. /\ takenSurplus'[w] = sleepSurplus - common
          /\ sleepTime'[w] = processingTime - common
          /\ pc'[w] = "spin" /\ spun'[w] = 0
      BY <1>1, <1>2, <1>3, <3>2 DEF AccountingTypeOK
    <3>4. Balance'[w] = (sleepSurplus - common) + 0 - (processingTime - common)
      BY <3>3 DEF Balance, Excess
    <3>5. Due = processingTime BY <2>1 DEF Due
    <3>6. sleepSurplus \in Int /\ processingTime \in Int BY <1>1, AccountingAssumption DEF AccountingTypeOK
    <3>7. \A s, p, c \in Int : 0 = p + (0 - s) + ((s - c) + 0 - (p - c)) OBVIOUS
    <3> QED BY <3>1, <3>2, <3>4, <3>5, <3>6, <3>7
  <2>2. CASE ~ (processingTime >= 0)
    <3>1. sleepSurplus' = sleepSurplus /\ pc' = [pc EXCEPT ![w] = "idle"] /\ Due = 0
      BY <2>2 DEF TakeSurplus, Goto, Due
    <3>2. pc'[w] = "idle" BY <1>1, <3>1 DEF AccountingTypeOK
    <3>3. Balance'[w] = 0 BY <3>2 DEF Balance
    <3> QED BY <1>1, <3>1, <3>3 DEF AccountingTypeOK
  <2> QED BY <2>1, <2>2
<1>12. 0 = (IF 1 = 1 THEN Due ELSE 0) + (sleepSurplus' - sleepSurplus) + (Balance'[w] - Balance[w])
  <2>1. Balance'[w] \in Int BY <1>1 DEF AccountingTypeOK, Balance, Excess
  <2> QED BY <1>4, <1>11, <2>1
<1>13. SpinConserved' BY <1>1, <1>5, <1>9, <1>10, <1>12, StepOfWorker
<1> QED BY <1>6, <1>13

LEMMA SpinBurns ==
  ASSUME BurntInv, IInv', NEW w \in Worker, Spin(w)
  PROVE  Rested' /\ SpinConserved'
<1>1. AccountingTypeOK /\ AccountingTypeOK' /\ SpinConserved /\ Rested BY DEF BurntInv, IInv
<1>2. PICK q \in Quantum : spun' = [spun EXCEPT ![w] = @ + q] /\ cpu' = cpu + q BY DEF Spin
<1>3. q \in Nat BY AccountingAssumption
<1>4. pc[w] = "spin" /\ UNCHANGED <<pc, takenSurplus, sleepTime, sleepSurplus, checks>> BY DEF Spin
<1>5. spun'[w] = spun[w] + q /\ \A v \in Worker \ {w} : spun'[v] = spun[v] BY <1>1, <1>2 DEF AccountingTypeOK
<1>6. Rested' BY <1>1, <1>4, <1>5 DEF Rested
<1>7. Waiting' = Waiting BY <1>4 DEF Waiting
<1>8. checks' - Cardinality(Waiting') = checks - Cardinality(Waiting) + 0
  BY <1>1, <1>4, <1>7, CardinalityType DEF AccountingTypeOK
<1>9. /\ Balance[w] = takenSurplus[w] + spun[w] - sleepTime[w]
      /\ Balance'[w] = takenSurplus[w] + (spun[w] + q) - sleepTime[w]
  BY <1>4, <1>5 DEF Balance, Excess
<1>10. takenSurplus[w] \in Int /\ spun[w] \in Int /\ sleepTime[w] \in Int /\ sleepSurplus \in Int
  BY <1>1 DEF AccountingTypeOK
<1>11. \A a, b, c, d, s \in Int : d = 0 + (s - s) + ((a + (b + d) - c) - (a + b - c)) OBVIOUS
<1>12. q = 0 + (sleepSurplus - sleepSurplus) + (Balance'[w] - Balance[w])
  BY <1>3, <1>9, <1>10, <1>11
<1>13. q = (IF 0 = 1 THEN Due ELSE 0) + (sleepSurplus' - sleepSurplus) + (Balance'[w] - Balance[w])
  BY <1>4, <1>12
<1>14. \A v \in Worker \ {w} : /\ pc'[v] = pc[v]
                               /\ takenSurplus'[v] = takenSurplus[v]
                               /\ sleepTime'[v] = sleepTime[v]
                               /\ spun'[v] = spun[v]
  BY <1>4, <1>5
<1>15. SpinConserved' BY <1>1, <1>2, <1>3, <1>8, <1>13, <1>14, StepOfWorker
<1> QED BY <1>6, <1>15

LEMMA ReturnBurns ==
  ASSUME BurntInv, IInv', NEW w \in Worker, ReturnSurplus(w)
  PROVE  Rested' /\ SpinConserved'
<1>1. AccountingTypeOK /\ AccountingTypeOK' /\ SpinConserved /\ Rested BY DEF BurntInv, IInv
<1>2. /\ pc[w] = "spin" /\ pc' = [pc EXCEPT ![w] = "idle"]
      /\ sleepSurplus' = sleepSurplus + Excess(w)
      /\ cpu' = cpu /\ checks' = checks
  BY DEF ReturnSurplus, Goto, history
<1>3. /\ \A v \in Worker \ {w} : /\ pc'[v] = pc[v]
                                 /\ takenSurplus'[v] = takenSurplus[v]
                                 /\ sleepTime'[v] = sleepTime[v]
                                 /\ spun'[v] = spun[v]
      /\ pc'[w] = "idle" /\ spun'[w] = 0
  BY <1>1, <1>2 DEF AccountingTypeOK, ReturnSurplus
<1>4. Rested' BY <1>1, <1>3 DEF Rested
<1>5. Waiting' = Waiting BY <1>2, <1>3 DEF Waiting
<1>6. checks' - Cardinality(Waiting') = checks - Cardinality(Waiting) + 0
  BY <1>1, <1>2, <1>5, CardinalityType DEF AccountingTypeOK
<1>7. Balance[w] = Excess(w) /\ Balance'[w] = 0 BY <1>2, <1>3 DEF Balance
<1>8. Excess(w) \in Int /\ sleepSurplus \in Int BY <1>1 DEF AccountingTypeOK, Excess
<1>9. \A s, e \in Int : 0 = 0 + ((s + e) - s) + (0 - e) OBVIOUS
<1>10. 0 = (IF 0 = 1 THEN Due ELSE 0) + (sleepSurplus' - sleepSurplus) + (Balance'[w] - Balance[w])
  BY <1>2, <1>7, <1>8, <1>9
<1>11. cpu' = cpu + 0 BY <1>1, <1>2 DEF AccountingTypeOK
<1>12. SpinConserved' BY <1>1, <1>3, <1>6, <1>10, <1>11, StepOfWorker
<1> QED BY <1>4, <1>12

\* The printing goroutine burns nothing that is counted here.
LEMMA PrinterBurns ==
  ASSUME BurntInv, Printer \/ UNCHANGED accountingVars
  PROVE  Rested' /\ SpinConserved'
<1>1. UNCHANGED <<work, sleepSurplus, checks, cpu>>
  BY DEF Printer, StartPrint, Visit, Reset, ReloadCounter, FinishPrint, accountingVars, history
<1>2. Balance' = Balance /\ Waiting' = Waiting /\ Due' = Due
  BY <1>1 DEF Balance, Excess, Waiting, Due, work
<1>3. SpinConserved' BY <1>1, <1>2 DEF BurntInv, SpinConserved
<1> QED BY <1>1, <1>3 DEF BurntInv, Rested, work

LEMMA BurntStep == BurntInv /\ [AccountingNext]_accountingVars => BurntInv'
<1> SUFFICES ASSUME BurntInv, [AccountingNext]_accountingVars PROVE BurntInv' OBVIOUS
<1>1. IInv' BY NextKeeps DEF BurntInv
<1>2. ASSUME NEW w \in Worker, Step(w) PROVE Rested' /\ SpinConserved'
  BY <1>1, <1>2, CountingBurns, TakeBurns, SpinBurns, ReturnBurns DEF Step
<1>3. ASSUME NEW w \in Worker, NEW f \in Func, SlowpokeCheck(w, f) PROVE Rested' /\ SpinConserved'
  BY <1>1, <1>3, CheckBurns
<1>4. Rested' /\ SpinConserved' BY <1>2, <1>3, PrinterBurns DEF AccountingNext
<1> QED BY <1>1, <1>4 DEF BurntInv

\* No CPU time is lost or burnt twice, for any number of workers, any time per
\* request and any length of the loops: what one request burns too much others
\* burn less, although they take and return the surplus without a lock
\* (utils.go:309-328).
THEOREM CPUTimeIsConserved == AccountingSpec => []SpinConserved
<1>1. AccountingInit => BurntInv BY InitHolds, BurntInit DEF BurntInv
<1>2. BurntInv => SpinConserved BY DEF BurntInv
<1> QED BY <1>1, <1>2, BurntStep, PTL DEF AccountingSpec

-----------------------------------------------------------------------------
(* Experiment: delays and predictions. *)

-----------------------------------------------------------------------------
(* Integer division. *)

LEMMA Division ==
  ASSUME NEW a \in Nat, NEW b \in Nat \ {0}
  PROVE  /\ a \div b \in Nat
         /\ (a \div b) * b <= a
         /\ a < (a \div b + 1) * b
OBVIOUS

LEMMA Monotone ==
  ASSUME NEW a \in Nat, NEW b \in Nat, NEW c \in Nat
  PROVE  /\ a <= b => a * c <= b * c
         /\ (a < b /\ c > 0) => a * c < b * c
         /\ (a * c <= b * c /\ c > 0) => a <= b
         /\ (a * c < b * c) => a < b
OBVIOUS

LEMMA Product ==
  /\ \A a, b \in Nat : a * b \in Nat /\ a * b = b * a
  /\ \A a, b, c \in Nat : (a * b) * c = a * (b * c)
  /\ \A a, b, c \in Nat : (a + b) * c = a * c + b * c
OBVIOUS

\* A delay that is cut off twice, where it becomes an integer and where it is read,
\* costs a service with r requests at most what the target saves, S for each of its
\* t CPUs, and less than a microsecond per request below it.
LEMMA Charged ==
  ASSUME NEW S \in Nat, NEW q \in Nat \ {0}, NEW r \in Nat \ {0}, NEW t \in Nat \ {0},
         NEW C \in Nat \ {0}, C % t = 0
  PROVE  LET d == ((S * q) \div (r * t)) \div q IN
         /\ d \in Nat
         /\ (r * d) * C <= S * (C \div t)
         /\ S * (C \div t) < (r * d) * C + r * C
<1> DEFINE D == (S * q) \div (r * t)
           d == D \div q
           K == C \div t
<1>1. r * t \in Nat \ {0} /\ S * q \in Nat OBVIOUS
<1>2. D \in Nat /\ D * (r * t) <= S * q /\ S * q < (D + 1) * (r * t) BY <1>1, Division
<1>3. d \in Nat /\ d * q <= D /\ D < (d + 1) * q
  <2> HIDE DEF D
  <2> QED BY <1>2, Division
<1>4. K \in Nat /\ t * K = C /\ K > 0 OBVIOUS
<1> HIDE DEF D, d, K
<1>5. (d * q) * (r * t) <= S * q
  <2>1. d * q \in Nat BY <1>3, Product
  <2>2. (d * q) * (r * t) <= D * (r * t) BY <1>1, <1>2, <1>3, <2>1, Monotone
  <2>3. (d * q) * (r * t) \in Nat /\ D * (r * t) \in Nat BY <1>1, <1>2, <2>1, Product
  <2> QED BY <1>1, <1>2, <2>2, <2>3
<1>6. (d * (r * t)) * q <= S * q
  <2>1. (d * q) * (r * t) = (d * (r * t)) * q
    <3>1. (d * q) * (r * t) = d * (q * (r * t)) BY <1>1, <1>3, Product
    <3>2. q * (r * t) = (r * t) * q BY <1>1, Product
    <3>3. (d * (r * t)) * q = d * ((r * t) * q) BY <1>1, <1>3, Product
    <3> QED BY <3>1, <3>2, <3>3
  <2> QED BY <1>5, <2>1
<1>7. d * (r * t) <= S
  <2>1. d * (r * t) \in Nat BY <1>1, <1>3, Product
  <2> QED BY <1>6, <2>1, Monotone
<1>8. (d * (r * t)) * K = (r * d) * C
  <2>1. (d * (r * t)) * K = d * ((r * t) * K) BY <1>1, <1>3, <1>4, Product
  <2>2. (r * t) * K = r * C BY <1>4, Product
  <2>3. d * (r * C) = (d * r) * C BY <1>3, Product
  <2>4. d * r = r * d BY <1>3, Product
  <2> QED BY <2>1, <2>2, <2>3, <2>4
<1>9. (r * d) * C <= S * K
  <2>1. d * (r * t) \in Nat BY <1>1, <1>3, Product
  <2>2. (d * (r * t)) * K <= S * K BY <1>4, <1>7, <2>1, Monotone
  <2> QED BY <1>8, <2>2
<1>10. S * q < ((d + 1) * (r * t)) * q
  <2>1. d + 1 \in Nat /\ (d + 1) * q \in Nat /\ D + 1 \in Nat BY <1>2, <1>3, Product
  <2>2. D + 1 <= (d + 1) * q BY <1>2, <1>3, <2>1
  <2>3. (D + 1) * (r * t) <= ((d + 1) * q) * (r * t) BY <1>1, <2>1, <2>2, Monotone
  <2>4. ((d + 1) * q) * (r * t) = (d + 1) * (q * (r * t)) BY <1>1, <2>1, Product
  <2>5. q * (r * t) = (r * t) * q BY <1>1, Product
  <2>6. ((d + 1) * (r * t)) * q = (d + 1) * ((r * t) * q) BY <1>1, <2>1, Product
  <2>7. (D + 1) * (r * t) \in Nat /\ ((d + 1) * q) * (r * t) \in Nat BY <1>1, <2>1, Product
  <2>8. \A a, b, c \in Nat : (a < b /\ b <= c) => a < c OBVIOUS
  <2> QED BY <1>1, <1>2, <2>3, <2>4, <2>5, <2>6, <2>7, <2>8
<1>11. S < (d + 1) * (r * t)
  <2>1. d + 1 \in Nat BY <1>3
  <2>2. (d + 1) * (r * t) \in Nat BY <1>1, <2>1, Product
  <2> QED BY <1>10, <2>2, Monotone
<1>12. S * K < ((d + 1) * (r * t)) * K
  <2>1. d + 1 \in Nat BY <1>3
  <2>2. (d + 1) * (r * t) \in Nat BY <1>1, <2>1, Product
  <2> QED BY <1>4, <1>11, <2>2, Monotone
<1>13. ((d + 1) * (r * t)) * K = (r * d) * C + r * C
  <2>1. (d + 1) * (r * t) = d * (r * t) + 1 * (r * t) BY <1>1, <1>3, Product
  <2>2. 1 * (r * t) = r * t BY <1>1
  <2>3. d * (r * t) \in Nat BY <1>1, <1>3, Product
  <2>4. (d * (r * t) + r * t) * K = (d * (r * t)) * K + (r * t) * K BY <1>1, <1>4, <2>3, Product
  <2>5. (r * t) * K = r * C BY <1>4, Product
  <2> QED BY <1>8, <2>1, <2>2, <2>4, <2>5
<1> QED BY <1>3, <1>9, <1>12, <1>13 DEF D, d, K

-----------------------------------------------------------------------------
(* The measurements that belong together. *)

LEMMA Tables ==
  ASSUME benchmark \in Benchmarks
  PROVE  /\ IsFiniteSet(Services) /\ Target \in Services /\ T \in Nat
         /\ benchmark.time \in [Services -> Nat] /\ benchmark.ratio \in [Services -> Nat]
         /\ benchmark.quota \in [Services -> Nat \ {0}]
         /\ \A s \in Services : CPUs % benchmark.quota[s] = 0
         /\ CPUs \in Nat \ {0} /\ Second \in Nat /\ NumExp \in Nat \ {0}
BY ExperimentAssumption DEF Services, Target, T

LEMMA Ranges ==
  ASSUME benchmark \in Benchmarks, NEW n \in 1 .. NumExp
  PROVE  processing_time_range[n] \in Nat /\ processing_time_range[n] <= T
<1> DEFINE step == (T - benchmark.low) \div NumExp
<1>1. benchmark.low \in Nat /\ T \in Nat /\ step > 0 /\ NumExp \in Nat \ {0}
  BY Tables, ExperimentAssumption DEF T, Target
<1>2. \A a \in Int, b \in Nat \ {0} : a \div b \in Int /\ (a \div b) * b <= a OBVIOUS
<1>3. step \in Int /\ step * NumExp <= T - benchmark.low
  <2>1. T - benchmark.low \in Int BY <1>1
  <2> QED BY <1>1, <1>2, <2>1
<1>4. processing_time_range[n] = benchmark.low + (n - 1) * step BY DEF processing_time_range
<1> HIDE DEF step
<1>5. step \in Nat /\ n - 1 \in Nat /\ n - 1 <= NumExp BY <1>1, <1>3
<1>6. (n - 1) * step <= NumExp * step BY <1>1, <1>5, Monotone
<1>7. NumExp * step = step * NumExp BY <1>1, <1>5, Product
<1>8. (n - 1) * step \in Nat /\ step * NumExp \in Nat BY <1>1, <1>5, Product
<1> QED BY <1>1, <1>3, <1>4, <1>6, <1>7, <1>8

\* What a request costs service s when the script was started with environment e.
CostIn(e, s) ==
  benchmark.ratio[s] *
    (e.time[s] * (CPUs \div benchmark.quota[s]) + SlowpokeInit(e.delay[s], benchmark.quota[s]) * CPUs)
Bottleneck(e) == Max({CostIn(e, s) : s \in Services})

\* The n-th experiment: the faster target, and the slower other services.
Faster(n) ==
  [delay |-> Undelayed, time |-> [benchmark.time EXCEPT ![Target] = processing_time_range[n]]]
Slower(n) ==
  [delay |-> [s \in Services |->
                IF s = Target \/ benchmark.ratio[s] = 0 THEN 0
                ELSE (Saved(processing_time_range[n]) * benchmark.quota[s])
                       \div (benchmark.ratio[s] * benchmark.quota[Target])],
   time |-> benchmark.time]

LEMMA BottleneckIs ==
  ASSUME benchmark \in Benchmarks, NEW e, \A s \in Services : CostIn(e, s) \in Nat
  PROVE  /\ Bottleneck(e) \in Nat
         /\ \E s \in Services : Bottleneck(e) = CostIn(e, s)
         /\ \A s \in Services : CostIn(e, s) <= Bottleneck(e)
<1> DEFINE Costs == {CostIn(e, s) : s \in Services}
<1>1. IsFiniteSet(Services) /\ Services # {} BY Tables
<1>2. IsFiniteSet(Costs)
  <2> DEFINE cost == [s \in Services |-> CostIn(e, s)]
  <2>1. IsFiniteSet({cost[s] : s \in Services})
    <3> HIDE DEF cost
    <3> QED BY <1>1, ImageFinite
  <2>2. {cost[s] : s \in Services} = Costs OBVIOUS
  <2> QED BY <2>1, <2>2
<1>3. Costs \in SUBSET Int /\ Costs # {} BY <1>1
<1> HIDE DEF Costs
<1>4. Max(Costs) \in Costs /\ \A y \in Costs : y <= Max(Costs) BY <1>2, <1>3, MaxExists
<1> QED BY <1>4 DEF Costs, Bottleneck

\* Costs in the two measurements of an experiment, service by service.
LEMMA Costs ==
  ASSUME benchmark \in Benchmarks, NEW n \in 1 .. NumExp, NEW s \in Services
  PROVE  LET saving == Saved(processing_time_range[n]) * (CPUs \div benchmark.quota[Target]) IN
         /\ CostIn(Faster(n), s) \in Nat /\ CostIn(Slower(n), s) \in Nat /\ saving \in Nat
         /\ s = Target => CostIn(Slower(n), s) - saving = CostIn(Faster(n), s)
         /\ CostIn(Slower(n), s) - saving <= CostIn(Faster(n), s)
         /\ benchmark.ratio[s] # 0 =>
              CostIn(Faster(n), s) - (CostIn(Slower(n), s) - saving) < CPUs * benchmark.ratio[s]
         /\ benchmark.ratio[s] = 0 => CostIn(Faster(n), s) = 0
<1> DEFINE p == processing_time_range[n]
           r == benchmark.ratio[s]
           q == benchmark.quota[s]
           rt == benchmark.ratio[Target]
           qt == benchmark.quota[Target]
           K == CPUs \div q
           Kt == CPUs \div qt
           saving == Saved(p) * Kt
<1>1. /\ r \in Nat /\ rt \in Nat /\ q \in Nat \ {0} /\ qt \in Nat \ {0} /\ T \in Nat
      /\ CPUs \in Nat \ {0} /\ CPUs % qt = 0 /\ Target \in Services
      /\ benchmark.time \in [Services -> Nat] /\ benchmark.time[Target] = T
  BY Tables DEF T
<1>2. p \in Nat /\ p <= T BY Ranges
<1>3. K \in Nat /\ Kt \in Nat BY <1>1, Division
<1>4. Saved(p) = (T - p) * rt /\ Saved(p) \in Nat
  <2>1. T - p \in Nat BY <1>1, <1>2
  <2> QED BY <1>1, <2>1, Product DEF Saved
<1>5. saving \in Nat BY <1>3, <1>4, Product
<1>6. CostIn(Faster(n), s) = r * (Faster(n).time[s] * K + SlowpokeInit(0, q) * CPUs)
  BY DEF CostIn, Faster, Undelayed
<1>7. SlowpokeInit(0, q) = 0
  <2>1. \A b \in Nat \ {0} : 0 \div b = 0 OBVIOUS
  <2> QED BY <1>1, <2>1 DEF SlowpokeInit
<1>8. Faster(n).time[s] = IF s = Target THEN p ELSE benchmark.time[s]
  BY <1>1 DEF Faster
<1>9. CostIn(Slower(n), s) = r * (benchmark.time[s] * K + SlowpokeInit(Slower(n).delay[s], q) * CPUs)
  BY DEF CostIn, Slower
<1>10. Slower(n).delay[s] = IF s = Target \/ r = 0 THEN 0 ELSE (Saved(p) * q) \div (r * qt)
  BY DEF Slower
<1> DEFINE time == Faster(n).time[s]
           d == SlowpokeInit(Slower(n).delay[s], q)
<1>11. time \in Nat /\ benchmark.time[s] \in Nat BY <1>1, <1>2, <1>8
<1>12. d \in Nat /\ (s = Target \/ r = 0 => d = 0)
  <2>1. CASE s = Target \/ r = 0 BY <1>7, <1>10, <2>1
  <2>2. CASE ~ (s = Target \/ r = 0)
    <3>1. Saved(p) * q \in Nat /\ r * qt \in Nat \ {0} BY <1>1, <1>4, <2>2
    <3>2. Slower(n).delay[s] \in Nat BY <1>10, <2>2, <3>1, Division
    <3> QED BY <1>1, <2>2, <3>2, Division DEF SlowpokeInit
  <2> QED BY <2>1, <2>2
<1> HIDE DEF p, r, q, rt, qt, K, Kt, time, d, saving
<1>13. CostIn(Faster(n), s) = (r * time) * K /\ CostIn(Faster(n), s) \in Nat
  <2>1. time * K \in Nat /\ 0 * CPUs = 0 BY <1>1, <1>3, <1>11, Product
  <2>2. CostIn(Faster(n), s) = r * (time * K + 0 * CPUs) BY <1>6, <1>7 DEF time
  <2>3. r * (time * K) = (r * time) * K BY <1>1, <1>3, <1>11, Product
  <2>4. r * (time * K) \in Nat BY <1>1, <2>1, Product
  <2>5. time * K + 0 * CPUs = time * K BY <2>1
  <2> QED BY <2>2, <2>3, <2>4, <2>5
<1>14. CostIn(Slower(n), s) = (r * benchmark.time[s]) * K + (r * d) * CPUs /\ CostIn(Slower(n), s) \in Nat
  <2>1. /\ benchmark.time[s] * K \in Nat /\ d * CPUs \in Nat
        /\ (r * benchmark.time[s]) * K \in Nat /\ (r * d) * CPUs \in Nat
    BY <1>1, <1>3, <1>11, <1>12, Product
  <2>2. CostIn(Slower(n), s) = r * (benchmark.time[s] * K + d * CPUs) BY <1>9 DEF d
  <2>3. \A a, b, c \in Nat : a * (b + c) = a * b + a * c OBVIOUS
  <2>4. r * (benchmark.time[s] * K + d * CPUs) = r * (benchmark.time[s] * K) + r * (d * CPUs)
    BY <1>1, <2>1, <2>3
  <2>5. r * (benchmark.time[s] * K) = (r * benchmark.time[s]) * K /\ r * (d * CPUs) = (r * d) * CPUs
    BY <1>1, <1>3, <1>11, <1>12, Product
  <2> QED BY <2>1, <2>2, <2>4, <2>5
<1>15. s = Target => CostIn(Slower(n), s) - saving = CostIn(Faster(n), s)
  <2> SUFFICES ASSUME s = Target PROVE CostIn(Slower(n), s) - saving = CostIn(Faster(n), s) OBVIOUS
  <2>1. r = rt /\ K = Kt /\ benchmark.time[s] = T /\ time = p /\ d = 0
    BY <1>1, <1>8, <1>12 DEF r, rt, K, Kt, q, qt, time, p
  <2>2. (rt * d) * CPUs = 0 BY <1>1, <2>1
  <2>3. saving = ((T - p) * rt) * Kt BY <1>4 DEF saving
  <2>4. T - p \in Nat BY <1>1, <1>2
  <2>5. (T - p) * rt = rt * (T - p) /\ rt * (T - p) \in Nat BY <1>1, <2>4, Product
  <2>6. \A a, b, c, k \in Nat : (a - b \in Nat) =>
          (c * a) * k = (c * (a - b)) * k + (c * b) * k
    <3> TAKE a, b, c, k \in Nat
    <3> HAVE a - b \in Nat
    <3>1. PICK x \in Nat : x = a - b OBVIOUS
    <3>2. a = x + b BY <3>1
    <3>3. c * (x + b) = c * x + c * b OBVIOUS
    <3>4. c * x \in Nat /\ c * b \in Nat BY Product
    <3>5. (c * x + c * b) * k = (c * x) * k + (c * b) * k BY <3>4, Product
    <3> QED BY <3>1, <3>2, <3>3, <3>5
  <2>7. (rt * T) * Kt = (rt * (T - p)) * Kt + (rt * p) * Kt BY <1>1, <1>2, <1>3, <2>4, <2>6
  <2>8. (rt * (T - p)) * Kt \in Nat /\ (rt * p) * Kt \in Nat BY <1>1, <1>2, <1>3, <2>4, Product
  <2> QED BY <1>13, <1>14, <2>1, <2>2, <2>3, <2>5, <2>7, <2>8
<1>16. r = 0 => CostIn(Faster(n), s) = 0 /\ CostIn(Slower(n), s) = 0
  <2> SUFFICES ASSUME r = 0 PROVE CostIn(Faster(n), s) = 0 /\ CostIn(Slower(n), s) = 0 OBVIOUS
  <2>1. \A a, b \in Nat : (0 * a) * b = 0 OBVIOUS
  <2> QED BY <1>1, <1>3, <1>11, <1>12, <1>13, <1>14, <2>1
<1>17. ASSUME s # Target, r # 0
       PROVE  /\ CostIn(Slower(n), s) - saving <= CostIn(Faster(n), s)
              /\ CostIn(Faster(n), s) - (CostIn(Slower(n), s) - saving) < r * CPUs
  <2>1. d = ((Saved(p) * q) \div (r * qt)) \div q BY <1>10, <1>17 DEF d, SlowpokeInit
  <2>2. (r * d) * CPUs <= saving /\ saving < (r * d) * CPUs + r * CPUs
    <3>1. r \in Nat \ {0} BY <1>1, <1>17
    <3> QED BY <1>1, <1>4, <2>1, <3>1, Charged DEF saving, Kt
  <2>3. time = benchmark.time[s] BY <1>8, <1>17 DEF time
  <2>4. (r * time) * K \in Nat /\ (r * d) * CPUs \in Nat /\ r * CPUs \in Nat
    BY <1>1, <1>3, <1>11, <1>12, Product
  <2>5. \A a, b, c, e \in Nat : (b <= c /\ c < b + e) =>
          (a + b) - c <= a /\ a - ((a + b) - c) < e
    OBVIOUS
  <2> QED BY <1>5, <1>13, <1>14, <2>2, <2>3, <2>4, <2>5
<1>18. r * CPUs = CPUs * r /\ (r # 0 => CPUs * r > 0) BY <1>1
<1>19. CostIn(Slower(n), s) - saving <= CostIn(Faster(n), s)
  BY <1>5, <1>13, <1>14, <1>15, <1>16, <1>17
<1>20. r # 0 => CostIn(Faster(n), s) - (CostIn(Slower(n), s) - saving) < CPUs * r
  BY <1>5, <1>13, <1>14, <1>15, <1>17, <1>18
<1> QED BY <1>5, <1>13, <1>14, <1>15, <1>16, <1>19, <1>20 DEF saving, p, r, Kt, qt

\* The prediction of an experiment whose measurement is not 0.
LEMMA OnePrediction ==
  ASSUME benchmark \in Benchmarks, NEW n \in 1 .. NumExp, Bottleneck(Faster(n)) # 0
  PROVE  LET measured == Bottleneck(Faster(n))
             prediction == Prediction(Bottleneck(Slower(n)), processing_time_range[n])
         IN  /\ measured \in Nat /\ prediction \in Int
             /\ prediction <= measured
             /\ measured - prediction < CPUs * Max({benchmark.ratio[s] : s \in Services})
<1> DEFINE saving == Saved(processing_time_range[n]) * (CPUs \div benchmark.quota[Target])
           fast == Bottleneck(Faster(n))
           slow == Bottleneck(Slower(n))
           most == Max({benchmark.ratio[s] : s \in Services})
<1>1. \A s \in Services :
         /\ CostIn(Faster(n), s) \in Nat /\ CostIn(Slower(n), s) \in Nat /\ saving \in Nat
         /\ CostIn(Slower(n), s) - saving <= CostIn(Faster(n), s)
         /\ benchmark.ratio[s] # 0 =>
              CostIn(Faster(n), s) - (CostIn(Slower(n), s) - saving) < CPUs * benchmark.ratio[s]
         /\ benchmark.ratio[s] = 0 => CostIn(Faster(n), s) = 0
  BY Costs
<1>2. Target \in Services /\ IsFiniteSet(Services) /\ CPUs \in Nat \ {0}
      /\ \A s \in Services : benchmark.ratio[s] \in Nat
  BY Tables
<1>3. saving \in Nat BY <1>1, <1>2
<1> HIDE DEF saving
<1>4. /\ fast \in Nat /\ \A s \in Services : CostIn(Faster(n), s) <= fast
      /\ \E s \in Services : fast = CostIn(Faster(n), s)
  BY <1>1, BottleneckIs
<1>5. /\ slow \in Nat /\ \A s \in Services : CostIn(Slower(n), s) <= slow
      /\ \E s \in Services : slow = CostIn(Slower(n), s)
  BY <1>1, BottleneckIs
<1>6. most \in Nat /\ \A s \in Services : benchmark.ratio[s] <= most
  <2> DEFINE R == {benchmark.ratio[s] : s \in Services}
  <2>1. IsFiniteSet(R) BY <1>2, ImageFinite
  <2>2. R \in SUBSET Nat /\ R # {} BY <1>2
  <2>3. R \in SUBSET Int BY <2>2
  <2> HIDE DEF R
  <2>4. Max(R) \in R /\ \A y \in R : y <= Max(R) BY <2>1, <2>2, <2>3, MaxExists
  <2> QED BY <2>2, <2>4 DEF R
<1> HIDE DEF fast, slow, most
<1>7. fast # 0 BY DEF fast
<1>8. slow - saving <= fast
  <2>1. PICK s \in Services : slow = CostIn(Slower(n), s) BY <1>5
  <2>2. CostIn(Faster(n), s) <= fast /\ CostIn(Slower(n), s) - saving <= CostIn(Faster(n), s)
        /\ CostIn(Faster(n), s) \in Nat
    BY <1>1, <1>4
  <2> QED BY <1>3, <1>4, <1>5, <2>1, <2>2
<1>9. fast - (slow - saving) < CPUs * most
  <2>1. PICK s \in Services : fast = CostIn(Faster(n), s) BY <1>4
  <2>2. benchmark.ratio[s] # 0 BY <1>1, <1>7, <2>1
  <2>3. fast - (CostIn(Slower(n), s) - saving) < CPUs * benchmark.ratio[s] BY <1>1, <2>1, <2>2
  <2>4. CostIn(Slower(n), s) <= slow /\ CostIn(Slower(n), s) \in Nat BY <1>1, <1>5
  <2>5. CPUs * benchmark.ratio[s] <= CPUs * most
    <3>1. benchmark.ratio[s] * CPUs <= most * CPUs BY <1>2, <1>6, Monotone
    <3>2. benchmark.ratio[s] * CPUs = CPUs * benchmark.ratio[s] /\ most * CPUs = CPUs * most
      BY <1>2, <1>6, Product
    <3> QED BY <3>1, <3>2
  <2>6. CPUs * benchmark.ratio[s] \in Nat /\ CPUs * most \in Nat BY <1>2, <1>6, Product
  <2>7. \A f, c, w, v, a, b \in Int : (f - (c - v) < a /\ c <= w /\ a <= b) => f - (w - v) < b
    OBVIOUS
  <2>8. fast \in Int /\ slow \in Int /\ saving \in Int BY <1>3, <1>4, <1>5
  <2>9. CostIn(Slower(n), s) \in Int /\ CPUs * benchmark.ratio[s] \in Int /\ CPUs * most \in Int
    BY <2>4, <2>6
  <2> HIDE DEF CostIn
  <2> QED BY <2>3, <2>4, <2>5, <2>7, <2>8, <2>9
<1>10. Prediction(slow, processing_time_range[n]) = slow - saving BY DEF Prediction, saving
<1> QED BY <1>3, <1>4, <1>5, <1>8, <1>9, <1>10 DEF fast, slow, most

-----------------------------------------------------------------------------
(* The invariant. *)

\* The pods of a deployment are those the script was started for.
Deployed ==
  \A p \in pods :
    /\ p.service \in Services
    /\ p.time = env.time[p.service]
    /\ p.delay = SlowpokeInit(env.delay[p.service], benchmark.quota[p.service])

Measuring ==
  /\ benchmark \in Benchmarks
  /\ env = [delay |-> service_delay, time |-> processing_time]
  /\ stage = "baseline" => processing_time = benchmark.time
  /\ stage = "groundtruth" => env = Faster(i)
  /\ stage = "slowdown" => env = Slower(i)
  /\ sh = "ready" => Deployed
  /\ sh = "returned" => res = 0 \/ res = Bottleneck(env)

\* The measurements of this repetition, one more of the faster target while the
\* other services are slowed down.
Listed ==
  /\ groundtruth \in Seq(Int) /\ predicted \in Seq(Int)
  /\ stage = "baseline" => Len(groundtruth) = 0 /\ Len(predicted) = 0
  /\ stage = "groundtruth" =>
       i \in 1 .. NumExp /\ Len(groundtruth) = i - 1 /\ Len(predicted) = i - 1
  /\ stage = "slowdown" =>
       /\ i \in 1 .. NumExp /\ Len(groundtruth) = i /\ Len(predicted) = i - 1
       /\ groundtruth[i] = Bottleneck(Faster(i)) /\ groundtruth[i] # 0
  /\ Predicted(groundtruth, predicted)

Summarised ==
  /\ summary \in Seq([groundtruth : Seq(Int), predicted : Seq(Int)])
  /\ \A r \in DOMAIN summary : Predicted(summary[r].groundtruth, summary[r].predicted)

PInv == Measuring /\ Listed /\ Summarised

LEMMA MeasuringStarts == ExperimentInit => PInv
<1> SUFFICES ASSUME ExperimentInit PROVE PInv OBVIOUS
<1>1. Measuring BY DEF ExperimentInit, Measuring
<1>2. groundtruth = <<>> /\ predicted = <<>> /\ summary = <<>> /\ stage = "start" BY DEF ExperimentInit
<1>3. Listed BY <1>2 DEF Listed, Predicted
<1>4. Summarised BY <1>2 DEF Summarised
<1> QED BY <1>1, <1>3, <1>4 DEF PInv

\* The actions of the cluster and of the script leave the lists and the plan alone.
LEMMA ScriptFrame ==
  ASSUME PInv, UNCHANGED <<benchmark, i, service_delay, processing_time, lists, summary, env>>,
         stage' \in {stage, "aborted"},
         sh' = "ready" => Deployed', sh' = "returned" => res' = 0 \/ res' = Bottleneck(env)
  PROVE  PInv'
<1>1. UNCHANGED <<benchmark, i, service_delay, processing_time, groundtruth, predicted, summary, env>>
      /\ (stage' = stage \/ stage' = "aborted")
  BY DEF lists
<1>2. \A n : Faster(n)' = Faster(n) /\ Slower(n)' = Slower(n)
  BY <1>1 DEF Faster, Slower, Undelayed, Saved, processing_time_range, T, Target, Services
<1>3. \A e : Bottleneck(e)' = Bottleneck(e) BY <1>1 DEF Bottleneck, CostIn, Services
<1>4. \A m, p : Predicted(m, p)' <=> Predicted(m, p) BY <1>1 DEF Predicted, Services
<1>5. Measuring' BY <1>1, <1>2, <1>3 DEF PInv, Measuring
<1>6. Listed' BY <1>1, <1>2, <1>3, <1>4 DEF PInv, Listed
<1>7. Summarised' BY <1>1, <1>4 DEF PInv, Summarised
<1> QED BY <1>5, <1>6, <1>7 DEF PInv

\* One pod of each service serves the test: the throughput is that of the
\* environment the script was started with.
LEMMA Serving ==
  ASSUME PInv, sh = "ready", NEW serving \in SUBSET pods,
         \A s \in Services : Cardinality({p \in serving : p.service = s}) = 1
  PROVE  Throughput(serving) = Bottleneck(env)
<1>1. \A p \in serving : p.service \in Services /\ Cost(p) = CostIn(env, p.service)
  BY DEF PInv, Measuring, Deployed, Cost, CostIn
<1>2. ASSUME NEW s \in Services PROVE \E p \in serving : p.service = s
  <2>1. {p \in serving : p.service = s} # {}
    <3> SUFFICES ASSUME {p \in serving : p.service = s} = {} PROVE FALSE OBVIOUS
    <3>1. Cardinality({p \in serving : p.service = s}) = 0 BY FS_EmptySet
    <3> QED BY <3>1
  <2> QED BY <2>1
<1>3. {Cost(p) : p \in serving} = {CostIn(env, s) : s \in Services}
  <2>1. \A p \in serving : Cost(p) \in {CostIn(env, s) : s \in Services} BY <1>1
  <2>2. ASSUME NEW s \in Services PROVE CostIn(env, s) \in {Cost(p) : p \in serving}
    <3>1. PICK p \in serving : p.service = s BY <1>2
    <3>2. Cost(p) = CostIn(env, s) BY <1>1, <3>1
    <3> QED BY <3>2
  <2> HIDE DEF Cost, CostIn
  <2> QED BY <2>1, <2>2
<1> QED BY <1>3 DEF Throughput, Bottleneck

LEMMA ClusterKeeps == PInv /\ Cluster => PInv'
<1> SUFFICES ASSUME PInv, NEW p \in pods, PodStarts(p) \/ PodEnds(p) PROVE PInv' BY DEF Cluster
<1>1. UNCHANGED <<benchmark, i, service_delay, processing_time, lists, summary, env, sh, res>>
      /\ stage' = stage
  BY DEF PodStarts, PodEnds, runner
<1>2. sh' = "ready" => Deployed'
  <2> SUFFICES ASSUME sh = "ready", NEW x \in pods'
               PROVE  /\ x.service \in Services /\ x.time = env.time[x.service]
                      /\ x.delay = SlowpokeInit(env.delay[x.service], benchmark.quota[x.service])
    BY <1>1 DEF Deployed, Services, SlowpokeInit
  <2>1. Deployed BY DEF PInv, Measuring
  <2>2. CASE x \in pods BY <2>1, <2>2 DEF Deployed
  <2>3. CASE x = [p EXCEPT !.status = "running"]
    <3>1. x.service = p.service /\ x.time = p.time /\ x.delay = p.delay BY <2>3
    <3> QED BY <2>1, <3>1 DEF Deployed
  <2> QED BY <2>2, <2>3 DEF PodStarts, PodEnds
<1>3. sh' = "returned" => res' = 0 \/ res' = Bottleneck(env) BY <1>1 DEF PInv, Measuring
<1> QED BY <1>1, <1>2, <1>3, ScriptFrame

LEMMA ScriptKeeps == PInv /\ Script => PInv'
<1> SUFFICES ASSUME PInv, Script PROVE PInv' OBVIOUS
<1>1. CASE delete
  <2>1. UNCHANGED <<benchmark, i, service_delay, processing_time, lists, summary, env>>
        /\ stage' = stage /\ sh' = "wait"
    BY <1>1 DEF delete, runner
  <2> QED BY <2>1, ScriptFrame
<1>2. CASE deploy
  <2>1. /\ UNCHANGED <<benchmark, i, service_delay, processing_time, lists, summary, env>>
        /\ stage' = stage /\ sh' = "ready"
        /\ pods' = {Pod(s, env.time[s], SlowpokeInit(env.delay[s], benchmark.quota[s]), "starting")
                      : s \in Services}
    BY <1>2 DEF deploy, runner
  <2>2. Deployed'
    <3> SUFFICES ASSUME NEW x \in pods'
                 PROVE  /\ x.service \in Services /\ x.time = env.time[x.service]
                        /\ x.delay = SlowpokeInit(env.delay[x.service], benchmark.quota[x.service])
      BY <2>1 DEF Deployed, Services, SlowpokeInit
    <3>1. PICK s \in Services :
            x = Pod(s, env.time[s], SlowpokeInit(env.delay[s], benchmark.quota[s]), "starting")
      BY <2>1
    <3> QED BY <3>1 DEF Pod
  <2> QED BY <2>1, <2>2, ScriptFrame
<1>3. CASE run_test
  <2>1. /\ sh = "ready"
        /\ UNCHANGED <<benchmark, i, service_delay, processing_time, lists, summary, env>>
    BY <1>3 DEF run_test
  <2>2. CASE \E serving \in SUBSET pods :
               /\ \A s \in Services : Cardinality({p \in serving : p.service = s}) = 1
               /\ sh' = "returned" /\ res' = Throughput(serving)
               /\ UNCHANGED <<stage, failures>>
    <3>1. sh' = "returned" /\ res' = Bottleneck(env) /\ stage' = stage BY <2>1, <2>2, Serving
    <3> QED BY <2>1, <3>1, ScriptFrame
  <2>3. CASE sh' = "returned" /\ res' = 0 /\ UNCHANGED stage
    BY <2>1, <2>3, ScriptFrame
  <2>4. CASE sh' = "none" /\ stage' = "aborted"
    BY <2>1, <2>4, ScriptFrame
  <2> QED BY <1>3, <2>2, <2>3, <2>4 DEF run_test
<1> QED BY <1>1, <1>2, <1>3 DEF Script

\* What does not depend on the state but on the benchmark.
LEMMA PlanFrame ==
  ASSUME benchmark' = benchmark
  PROVE  /\ \A n : Faster(n)' = Faster(n) /\ Slower(n)' = Slower(n)
         /\ \A e : Bottleneck(e)' = Bottleneck(e)
         /\ \A m, p : Predicted(m, p)' <=> Predicted(m, p)
<1>1. \A n : Faster(n)' = Faster(n) /\ Slower(n)' = Slower(n)
  BY DEF Faster, Slower, Undelayed, Saved, processing_time_range, T, Target, Services
<1>2. \A e : Bottleneck(e)' = Bottleneck(e) BY DEF Bottleneck, CostIn, Services
<1>3. \A m, p : Predicted(m, p)' <=> Predicted(m, p) BY DEF Predicted, Services
<1> QED BY <1>1, <1>2, <1>3

LEMMA RunKeeps == PInv /\ run => PInv'
<1> SUFFICES ASSUME PInv, run PROVE PInv' OBVIOUS
<1>1. /\ benchmark' = benchmark /\ summary' = summary /\ stage' = "baseline" /\ sh' = "delete"
      /\ groundtruth' = <<>> /\ predicted' = <<>>
      /\ service_delay' = Undelayed /\ processing_time' = benchmark.time
      /\ env' = [delay |-> Undelayed, time |-> benchmark.time]
  BY DEF run, exp
<1>2. Measuring' BY <1>1 DEF PInv, Measuring
<1>3. Listed' BY <1>1 DEF Listed, Predicted
<1>4. Summarised' BY <1>1, PlanFrame DEF PInv, Summarised
<1> QED BY <1>2, <1>3, <1>4 DEF PInv

LEMMA RepeatKeeps == PInv /\ Repeat => PInv'
<1> SUFFICES ASSUME PInv, Repeat PROVE PInv' OBVIOUS
<1>1. /\ UNCHANGED <<benchmark, i, service_delay, processing_time, lists, summary, stage>>
      /\ env' = [delay |-> service_delay, time |-> processing_time] /\ sh' = "delete"
  BY DEF Repeat, Rerun, exp
<1>2. env' = env BY <1>1 DEF PInv, Measuring
<1> QED BY <1>1, <1>2, ScriptFrame

\* The plan of the next measurement of the faster target.
LEMMA FasterPlanned ==
  ASSUME benchmark \in Benchmarks, NEW n \in 1 .. NumExp,
         processing_time = benchmark.time, Groundtruth(n)
  PROVE  /\ service_delay' = Undelayed /\ processing_time' = Faster(n).time
         /\ env' = Faster(n) /\ sh' = "delete"
         /\ env' = [delay |-> service_delay', time |-> processing_time']
BY DEF Groundtruth, exp, With, Faster

LEMMA BaselineKeeps == PInv /\ BaselineDone => PInv'
<1> SUFFICES ASSUME PInv, BaselineDone PROVE PInv' OBVIOUS
<1>1. /\ stage = "baseline" /\ stage' = "groundtruth" /\ i' = 1 /\ Groundtruth(1)
      /\ UNCHANGED <<benchmark, lists, summary>>
  BY DEF BaselineDone
<1>2. benchmark \in Benchmarks /\ processing_time = benchmark.time BY <1>1 DEF PInv, Measuring
<1>3. 1 \in 1 .. NumExp BY <1>2, Tables
<1>4. /\ env' = Faster(1) /\ sh' = "delete"
      /\ env' = [delay |-> service_delay', time |-> processing_time']
  BY <1>1, <1>2, <1>3, FasterPlanned
<1>5. Measuring' BY <1>1, <1>2, <1>4, PlanFrame DEF Measuring
<1>6. Listed'
  <2>1. groundtruth' = groundtruth /\ predicted' = predicted BY <1>1 DEF lists
  <2>2. Len(groundtruth) = 0 /\ Len(predicted) = 0 BY <1>1 DEF PInv, Listed
  <2> QED BY <1>1, <1>3, <2>1, <2>2, PlanFrame DEF PInv, Listed
<1>7. Summarised' BY <1>1, PlanFrame DEF PInv, Summarised
<1> QED BY <1>5, <1>6, <1>7 DEF PInv

LEMMA Appended ==
  ASSUME NEW S, NEW seq \in Seq(S), NEW x \in S
  PROVE  /\ Append(seq, x) \in Seq(S) /\ Len(Append(seq, x)) = Len(seq) + 1 /\ Len(seq) \in Nat
         /\ \A n \in DOMAIN seq : Append(seq, x)[n] = seq[n]
         /\ Append(seq, x)[Len(seq) + 1] = x
         /\ DOMAIN seq = 1 .. Len(seq) /\ DOMAIN Append(seq, x) = 1 .. (Len(seq) + 1)
BY AppendProperties, LenProperties

LEMMA GroundtruthKeeps == PInv /\ GroundtruthDone => PInv'
<1> SUFFICES ASSUME PInv, GroundtruthDone PROVE PInv' OBVIOUS
<1>1. /\ sh = "returned" /\ stage = "groundtruth" /\ stage' = "slowdown" /\ res # 0
      /\ groundtruth' = Append(groundtruth, res)
      /\ exp(Slowdowns(processing_time_range[i]), With(T))
      /\ UNCHANGED <<benchmark, i, predicted, summary>>
  BY DEF GroundtruthDone, IntIsZero
<1>2. /\ benchmark \in Benchmarks /\ i \in 1 .. NumExp
      /\ env = Faster(i) /\ env = [delay |-> service_delay, time |-> processing_time]
      /\ res = Bottleneck(Faster(i))
      /\ Len(groundtruth) = i - 1 /\ Len(predicted) = i - 1
  BY <1>1 DEF PInv, Measuring, Listed
<1>3. /\ service_delay = Undelayed
      /\ processing_time = [benchmark.time EXCEPT ![Target] = processing_time_range[i]]
  BY <1>2 DEF Faster
<1>4. /\ Target \in Services /\ benchmark.time \in [Services -> Nat] /\ benchmark.time[Target] = T
  BY <1>2, Tables DEF T
<1>5. With(T) = benchmark.time BY <1>3, <1>4 DEF With
<1>6. Slowdowns(processing_time_range[i]) = Slower(i).delay
  BY <1>3, <1>4 DEF Slowdowns, Slower, Undelayed
<1>7. /\ env' = Slower(i) /\ sh' = "delete"
      /\ env' = [delay |-> service_delay', time |-> processing_time']
  BY <1>1, <1>5, <1>6 DEF exp, Slower
<1>8. Measuring' BY <1>1, <1>2, <1>7, PlanFrame DEF Measuring
<1>9. res \in Int
  <2> DEFINE measured == Bottleneck(Faster(i))
  <2>1. measured # 0 BY <1>1, <1>2
  <2>2. measured \in Nat BY <1>2, <2>1, OnePrediction
  <2>3. res = measured BY <1>2
  <2> HIDE DEF measured
  <2> QED BY <2>2, <2>3
<1>10. /\ groundtruth' \in Seq(Int) /\ Len(groundtruth') = i /\ groundtruth'[i] = res
       /\ \A n \in 1 .. i - 1 : groundtruth'[n] = groundtruth[n]
  <2>1. groundtruth \in Seq(Int) BY DEF PInv, Listed
  <2> QED BY <1>1, <1>2, <1>9, <2>1, Appended
<1>11. Predicted(groundtruth', predicted)
  <2>1. predicted \in Seq(Int) /\ Predicted(groundtruth, predicted) BY DEF PInv, Listed
  <2>2. DOMAIN predicted = 1 .. i - 1 BY <1>2, <2>1, LenProperties
  <2> QED BY <1>10, <2>1, <2>2 DEF Predicted
<1>12. Listed' BY <1>1, <1>2, <1>10, <1>11, PlanFrame DEF PInv, Listed
<1>13. Summarised' BY <1>1, PlanFrame DEF PInv, Summarised
<1> QED BY <1>8, <1>12, <1>13 DEF PInv

LEMMA SlowdownKeeps == PInv /\ SlowdownDone => PInv'
<1> SUFFICES ASSUME PInv, SlowdownDone PROVE PInv' OBVIOUS
<1> DEFINE prediction == Prediction(res, processing_time_range[i])
<1>1. /\ sh = "returned" /\ stage = "slowdown" /\ res # 0
      /\ predicted' = Append(predicted, prediction)
      /\ UNCHANGED <<benchmark, groundtruth, res>>
  BY DEF SlowdownDone, IntIsZero
<1>2. /\ benchmark \in Benchmarks /\ i \in 1 .. NumExp
      /\ env = Slower(i) /\ env = [delay |-> service_delay, time |-> processing_time]
      /\ res = Bottleneck(Slower(i))
      /\ groundtruth \in Seq(Int) /\ predicted \in Seq(Int) /\ Predicted(groundtruth, predicted)
      /\ Len(groundtruth) = i /\ Len(predicted) = i - 1
      /\ groundtruth[i] = Bottleneck(Faster(i)) /\ groundtruth[i] # 0
  BY <1>1 DEF PInv, Measuring, Listed
<1>3. /\ prediction \in Int /\ prediction <= groundtruth[i]
      /\ groundtruth[i] - prediction < CPUs * Max({benchmark.ratio[s] : s \in Services})
  BY <1>2, OnePrediction
<1> HIDE DEF prediction
<1>4. /\ predicted' \in Seq(Int) /\ Len(predicted') = i /\ predicted'[i] = prediction
      /\ DOMAIN predicted' = 1 .. i /\ DOMAIN predicted = 1 .. i - 1
      /\ \A n \in 1 .. i - 1 : predicted'[n] = predicted[n]
  BY <1>1, <1>2, <1>3, Appended
<1>5. Predicted(groundtruth, predicted')
  <2> SUFFICES ASSUME NEW n \in 1 .. i
               PROVE  /\ predicted'[n] <= groundtruth[n]
                      /\ groundtruth[n] - predicted'[n] < CPUs * Max({benchmark.ratio[s] : s \in Services})
    BY <1>4 DEF Predicted
  <2>1. CASE n = i BY <1>3, <1>4, <2>1
  <2>2. CASE n # i
    <3>1. n \in 1 .. i - 1 BY <1>2, <2>2
    <3>2. predicted'[n] = predicted[n] /\ n \in DOMAIN predicted BY <1>4, <3>1
    <3> QED BY <1>2, <3>2 DEF Predicted
  <2> QED BY <2>1, <2>2
<1>6. CASE i < NumExp
  <2>1. stage' = "groundtruth" /\ i' = i + 1 /\ Groundtruth(i + 1) /\ summary' = summary
    BY <1>6 DEF SlowdownDone
  <2>2. processing_time = benchmark.time BY <1>2 DEF Slower
  <2>3. i + 1 \in 1 .. NumExp BY <1>2, <1>6, Tables
  <2>4. /\ env' = Faster(i + 1) /\ sh' = "delete"
        /\ env' = [delay |-> service_delay', time |-> processing_time']
    BY <1>2, <2>1, <2>2, <2>3, FasterPlanned
  <2>5. Measuring' BY <1>1, <1>2, <2>1, <2>4, PlanFrame DEF Measuring
  <2>6. Len(groundtruth') = i' - 1 /\ Len(predicted') = i' - 1 /\ i' \in 1 .. NumExp
    BY <1>1, <1>2, <1>4, <2>1, <2>3
  <2>7. Listed' BY <1>1, <1>2, <1>4, <1>5, <2>1, <2>6, PlanFrame DEF Listed
  <2>8. Summarised' BY <1>1, <2>1, PlanFrame DEF PInv, Summarised
  <2> QED BY <2>5, <2>7, <2>8 DEF PInv
<1>7. CASE ~ (i < NumExp)
  <2> DEFINE entry == [groundtruth |-> groundtruth, predicted |-> predicted']
  <2>1. /\ stage' = "start" /\ sh' = "none" /\ summary' = Append(summary, entry)
        /\ UNCHANGED <<service_delay, processing_time, env>>
    BY <1>7 DEF SlowdownDone
  <2>2. Measuring' BY <1>1, <1>2, <2>1 DEF Measuring
  <2>3. Listed' BY <1>1, <1>2, <1>4, <1>5, <2>1, PlanFrame DEF Listed
  <2>4. entry \in [groundtruth : Seq(Int), predicted : Seq(Int)] BY <1>2, <1>4
  <2>5. Predicted(entry.groundtruth, entry.predicted) BY <1>5
  <2> HIDE DEF entry
  <2>6. /\ summary' \in Seq([groundtruth : Seq(Int), predicted : Seq(Int)])
        /\ DOMAIN summary' = 1 .. (Len(summary) + 1) /\ DOMAIN summary = 1 .. Len(summary)
        /\ Len(summary) \in Nat
        /\ summary'[Len(summary) + 1] = entry
        /\ \A r \in DOMAIN summary : summary'[r] = summary[r]
    BY <2>1, <2>4, Appended DEF PInv, Summarised
  <2>7. \A r \in DOMAIN summary' : Predicted(summary'[r].groundtruth, summary'[r].predicted)
    <3> TAKE r \in DOMAIN summary'
    <3>1. CASE r = Len(summary) + 1 BY <2>5, <2>6, <3>1
    <3>2. CASE r # Len(summary) + 1
      <4>1. r \in DOMAIN summary BY <2>6, <3>2
      <4> QED BY <2>6, <4>1 DEF PInv, Summarised
    <3> QED BY <3>1, <3>2
  <2>8. Summarised' BY <1>1, <2>6, <2>7, PlanFrame DEF Summarised
  <2> QED BY <2>2, <2>3, <2>8 DEF PInv
<1> QED BY <1>6, <1>7

LEMMA PrintKeeps == PInv /\ print_summary => PInv'
<1> SUFFICES ASSUME PInv, print_summary PROVE PInv' OBVIOUS
<1>1. stage' = "done"
      /\ UNCHANGED <<benchmark, i, service_delay, processing_time, lists, summary, sh, env, res, pods>>
  BY DEF print_summary
<1>2. UNCHANGED <<groundtruth, predicted>> BY <1>1 DEF lists
<1>3. Measuring' BY <1>1, PlanFrame DEF PInv, Measuring, Deployed, Services, SlowpokeInit
<1>4. Listed' BY <1>1, <1>2, PlanFrame DEF PInv, Listed
<1>5. Summarised' BY <1>1, PlanFrame DEF PInv, Summarised
<1> QED BY <1>3, <1>4, <1>5 DEF PInv

LEMMA StutterKeeps == PInv /\ UNCHANGED experimentVars => PInv'
<1> SUFFICES ASSUME PInv, UNCHANGED experimentVars PROVE PInv' OBVIOUS
<1>1. UNCHANGED <<benchmark, i, stage, service_delay, processing_time, groundtruth, predicted,
                  summary, sh, env, res, pods>>
  BY DEF experimentVars, runner, lists
<1>2. Measuring' BY <1>1, PlanFrame DEF PInv, Measuring, Deployed, Services, SlowpokeInit
<1>3. Listed' BY <1>1, PlanFrame DEF PInv, Listed
<1>4. Summarised' BY <1>1, PlanFrame DEF PInv, Summarised
<1> QED BY <1>2, <1>3, <1>4 DEF PInv

LEMMA ExperimentKeeps == PInv /\ [ExperimentNext]_experimentVars => PInv'
BY ClusterKeeps, ScriptKeeps, RunKeeps, RepeatKeeps, BaselineKeeps, GroundtruthKeeps, SlowdownKeeps,
   PrintKeeps, StutterKeeps DEF ExperimentNext, Runner

\* For every application the method measures the prediction is that of the faster
\* target, too high by less than one microsecond for each request to a service,
\* whatever its ratios, times and quotas are, whichever service is the target and
\* however often a measurement failed before (main.py 141-175).
THEOREM PredictionsAreRight == ExperimentSpec => []PredictionsHold
<1>1. PInv => PredictionsHold BY DEF PInv, Listed, Summarised, PredictionsHold
<1> QED BY <1>1, MeasuringStarts, ExperimentKeeps, PTL DEF ExperimentSpec
=============================================================================
