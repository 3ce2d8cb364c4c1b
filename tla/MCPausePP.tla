------------------------------ MODULE MCPausePP ------------------------------
(* Small instances of PausePP for TLC. *)
EXTENDS PausePP

CONSTANTS front, cart, mail, w1, w2

\* front calls cart, which calls nobody.
TwoCalls == [s \in Service |-> IF s = front THEN {cart} ELSE {}]
\* front calls cart and mail, cart calls mail.
ThreeCalls == [s \in Service |-> IF s = front THEN {cart, mail}
                                 ELSE IF s = cart THEN {mail} ELSE {}]
UnitDelays == [s \in Service |-> 1]
\* The target serves four requests, enough for two phases with Threshold = 1.
TwoPhases == [s \in Service |-> IF s = Target THEN 4 ELSE 1]
OnePhase == [s \in Service |-> IF s = Target THEN 3 ELSE 1]
=============================================================================
