------------------------------- MODULE MCSocial -------------------------------
(* An instance of Social: bob follows ann, eve has no vertex yet. *)
EXTENDS Social, TLC

CONSTANTS ann, bob, eve

MCPopulated == ann :> [followers |-> <<bob>>, followees |-> <<>>]
            @@ bob :> [followers |-> <<>>, followees |-> <<ann>>]
MCManyLists == {<<bob>>}
Symmetric == Permutations(Visitors)
=============================================================================
