------------------------------- MODULE MCHotel -------------------------------
(* An instance of Hotel: one seeded hotel and one that clients register, *)
(* in one location; stays of one and of two days.                        *)
EXTENDS Hotel, TLC

CONSTANTS h1, h2, paris, ann, bob, right, wrong

MCCatalog == paris :> <<h1>>
MCSeedUsers == ann :> right
MCStays == {<<1, 2>>, <<3, 3>>}
Symmetric == Permutations(Clients)
=============================================================================
