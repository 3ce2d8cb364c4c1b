------------------------------- MODULE MCMovie -------------------------------
(* An instance of Movie: two movies, the second of which names an actor    *)
(* that the data file does not describe.                                   *)
EXTENDS Movie, TLC

CONSTANTS ann, bob, right, wrong, alien, brazil, m0, m1, star, extra

MCCatalog == <<[movie |-> m0, title |-> alien, cast |-> <<star>>],
               [movie |-> m1, title |-> brazil, cast |-> <<star, extra>>]>>
MCSeedUsers == ann :> right
Symmetric == Permutations(Clients)
=============================================================================
