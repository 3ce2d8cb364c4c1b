------------------------------ MODULE MCBoutique ------------------------------
(* An instance of Boutique: two products of the data file, one that is     *)
(* added; a cart that is new, or has three items in an array for four.     *)
EXTENDS Boutique

CONSTANTS ann, lamp, mug, sofa

MCItem(p, n) == [product |-> p, quantity |-> n]
MCWanted ==
  [c \in Clients |-> {MCItem(sofa, 2)} \cup (IF c \in Visitors THEN {MCItem(lamp, 1)} ELSE {})]
MCMoney(u, n) == [currency |-> "USD", units |-> u, nanos |-> n]
MCCatalog == <<[id |-> lamp, price |-> MCMoney(1, 99)], [id |-> mug, price |-> MCMoney(0, 50)]>>
MCNewProducts == {[id |-> sofa, price |-> MCMoney(3, 0)], [id |-> mug, price |-> MCMoney(0, 60)]}
MCInitialRates == "USD" :> <<9, 8>> @@ "EUR" :> <<1, 1>>
MCNewRates == {[code |-> "USD", rate |-> <<5, 4>>]}
MCCard(month) == [type |-> "visa", expires |-> month]
MCPayments == {[currency |-> "EUR", card |-> MCCard(24)], [currency |-> "USD", card |-> MCCard(24)],
               [currency |-> "USD", card |-> MCCard(23)]}
MCStored == {<<>>, ann :> <<MCItem(mug, 2), MCItem(lamp, 0), MCItem(mug, 1)>>}
Symmetric == Permutations(Visitors)
=============================================================================
