---------------------------- MODULE MCAccounting ----------------------------
(* A small instance of Accounting for TLC. *)
EXTENDS Accounting

CONSTANTS w1, w2
=============================================================================
