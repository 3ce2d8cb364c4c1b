--------------------------- MODULE PokerContract ---------------------------
(***************************************************************************)
(* What a service may rely on when it asks its poker for a pause: the      *)
(* whole process is stopped, it stays stopped until everything it ever     *)
(* asked for has been slept, but for one signal's lag per pause, and only  *)
(* then the request is answered.                                           *)
(* PausePP relies on these steps; Poker implements them.                           *)
(***************************************************************************)
EXTENDS Naturals

CONSTANT MaxLag  \* the lag of a signal

VARIABLES
  poker,       \* "idle", "asked", "stopped", "answered", or "gone"
  asks,        \* how many pauses were asked for
  asked,       \* all the delay asked for so far
  stoppedTime  \* for how long the process has been stopped so far

vars == <<poker, asks, asked, stoppedTime>>

Init == poker = "idle" /\ asks = 0 /\ asked = 0 /\ stoppedTime = 0

Ask ==
  /\ poker = "idle" /\ poker' = "asked"
  /\ asks' = asks + 1
  /\ asked' >= asked
  /\ UNCHANGED stoppedTime

Stop ==
  /\ poker = "asked" /\ poker' = "stopped"
  /\ UNCHANGED <<asks, asked, stoppedTime>>

Sleep ==
  /\ poker = "stopped"
  /\ stoppedTime' >= stoppedTime
  /\ UNCHANGED <<poker, asks, asked>>

Continue ==
  /\ poker = "stopped" /\ poker' = "answered"
  /\ stoppedTime + asks * MaxLag >= asked
  /\ stoppedTime' >= stoppedTime
  /\ UNCHANGED <<asks, asked>>

Return ==
  /\ poker = "answered" /\ poker' = "idle"
  /\ UNCHANGED <<asks, asked, stoppedTime>>

\* The service process may end at any time, and with it the obligation.
Exit ==
  /\ poker # "gone" /\ poker' = "gone"
  /\ UNCHANGED <<asks, asked>>
  /\ stoppedTime' >= stoppedTime

Next == Ask \/ Stop \/ Sleep \/ Continue \/ Return \/ Exit

Spec == Init /\ [][Next]_vars

\* A pause that was asked for ends.
PauseEnds == poker \in {"asked", "stopped", "answered"} ~> poker \in {"idle", "gone"}
=============================================================================
