----------------------------- MODULE BoutiqueKept -----------------------------
(***************************************************************************)
(* The boutique keeps what it is given: types, carts that hold what was    *)
(* asked for, orders that are paid when they are shipped, and a catalogue  *)
(* that begins with the products of the data file.                         *)
(***************************************************************************)
EXTENDS Boutique, DataLemmas

-----------------------------------------------------------------------------
(* The frames of the handlers. *)

Eps == DOMAIN RequestOf
Entries == DOMAIN ResponseOf    \* what clients ask for
Adders == {"add_product", "add_products"}

\* Where a handler waits, and for which endpoint.
Sites ==
  {<<"ro_home", "gotCurrencies", "ro_get_currencies">>,
   <<"ro_home", "gotUserCart", "ro_get_cart">>,
   <<"ro_home", "gotPage", "ro_fetch_catalog">>,
   <<"frontend_set_currency", "passed", "set_currency">>,
   <<"ro_browse_product", "passed", "ro_get_product">>,
   <<"add_to_cart", "passed", "add_item">>,
   <<"ro_view_cart", "passed", "ro_get_cart">>,
   <<"checkout", "passed", "place_order">>,
   <<"place_order", "gotCart", "ro_get_cart">>,
   <<"place_order", "gotProduct", "ro_get_product">>,
   <<"place_order", "gotPrice", "ro_convert_currency">>,
   <<"place_order", "gotQuote", "ro_get_quote">>,
   <<"place_order", "gotShippingCost", "ro_convert_currency">>,
   <<"place_order", "charged", "charge">>,
   <<"place_order", "shipped", "ship_order">>,
   <<"place_order", "emptied", "empty_cart">>,
   <<"ro_get_recommendations", "gotCatalog", "ro_fetch_catalog">>}

\* Where it is between two accesses to the state of its service.
Pauses ==
  {<<"add_item", "loaded">>, <<"add_item", "wroteProduct">>, <<"add_item", "appended">>,
   <<"ro_get_cart", "loaded">>, <<"init_currencies", "next">>, <<"ro_convert_currency", "gotFrom">>,
   <<"ro_get_currencies", "ranging">>, <<"add_product", "read">>, <<"add_products", "next">>,
   <<"add_products", "read">>, <<"place_order", "prepare">>}
PauseNames ==
  {"loaded", "wroteProduct", "appended", "next", "gotFrom", "ranging", "read", "prepare"}

PlaceNames == {"start"} \cup PauseNames \cup DOMAIN ResponseAt
Waits(e, p) == \E callee \in Eps : <<e, p, callee>> \in Sites
Place(e, p) == p = "start" \/ <<e, p>> \in Pauses \/ Waits(e, p)

\* Amounts in a currency asked for have been converted, so a unit was carried.
Paid == {m \in Money : m.units >= 1}
Orders == {o \in [items : Seq(CartItem), costs : Seq(Paid), shipping : Paid] :
             Len(o.costs) = Len(o.items)}
Preparing(p) ==
  {o \in [items : Seq(CartItem), costs : Seq(Paid)] :
     /\ Len(o.costs) <= Len(o.items)
     /\ p \in {"gotProduct", "gotPrice"} => Len(o.costs) < Len(o.items)
     /\ p \in {"gotQuote", "gotShippingCost"} => Len(o.costs) = Len(o.items)}

ReplyTo(e) ==
  IF e \in Entries THEN ResponseOf[e]
  ELSE [place_order |-> PlaceOrderResponse, add_item |-> AddItemResponse,
        ro_get_cart |-> GetCartResponse, empty_cart |-> EmptyCartResponse,
        set_currency |-> SetCurrencySupportResponse,
        ro_get_currencies |-> GetSupportedCurrenciesResponse,
        ro_convert_currency |-> [amount : Paid], charge |-> ChargeResponse,
        ro_get_product |-> GetProductResponse, ro_fetch_catalog |-> FetchCatalogResponse,
        ro_get_quote |-> GetQuoteResponse, ship_order |-> ShipOrderResponse][e]

Slice == [array : Nat, len : Nat]
HoldsSlice(e, p) ==
  \/ e = "add_item" /\ p \in {"loaded", "wroteProduct", "appended"}
  \/ e = "ro_get_cart" /\ p = "loaded"

LocalsAt(e, p) ==
  IF HoldsSlice(e, p) THEN Slice
  ELSE IF e = "init_currencies" /\ p = "next" THEN [left : Seq(Currency)]
  ELSE IF e = "ro_convert_currency" /\ p = "gotFrom" THEN [rate : Rate]
  ELSE IF e = "ro_get_currencies" /\ p = "ranging" THEN [found : Seq(Currency)]
  ELSE IF e = "add_product" /\ p = "read" THEN [list : Seq(Product)]
  ELSE IF e = "add_products" /\ p = "next" THEN [left : Seq(Product)]
  ELSE IF e = "add_products" /\ p = "read" THEN [left : Seq(Product) \ {<<>>}, list : Seq(Product)]
  ELSE IF e = "ro_home" /\ p = "gotUserCart" THEN [currencies : Seq(Currency)]
  ELSE IF e = "ro_home" /\ p = "gotPage" THEN [currencies : Seq(Currency), cart : Cart]
  ELSE IF e = "place_order" /\ p \in {"prepare", "gotProduct", "gotPrice", "gotQuote", "gotShippingCost"}
       THEN Preparing(p)
  ELSE IF e = "place_order" /\ p \in {"charged", "shipped", "emptied"} THEN Orders
  ELSE {<<>>}

Requests == UNION {RequestOf[e] : e \in Eps}
Locals == UNION {LocalsAt(e, p) : e \in Eps, p \in PlaceNames}
Results == {<<>>} \cup UNION {ReplyTo(e) : e \in Eps}

Frames ==
  {f \in [ep : Eps, req : Requests, at : PlaceNames, my : Locals, res : Results] :
     f.req \in RequestOf[f.ep] /\ Place(f.ep, f.at) /\ f.my \in LocalsAt(f.ep, f.at)}

\* What a handler serves, to the one that waits for it.
Bound(f, g) ==
  /\ f.ep \in {"add_item", "place_order"} => f.req = g.req
  /\ f.ep = "ro_get_cart" => f.req.user = g.req.user
  /\ f.ep = "ship_order" => f.req.items = g.my.items
  /\ f.ep = "charge" => /\ Value(f.req.amount) = Due(g.my)
                        /\ f.req.amount.currency = g.req.currency

\* The innermost handler has the response it goes on with.
Heads == {f \in Frames : \A e \in Eps : <<f.ep, f.at, e>> \in Sites => f.res \in ReplyTo(e)}
Links == {l \in Frames \X Frames : <<l[2].ep, l[2].at, l[1].ep>> \in Sites /\ Bound(l[1], l[2])}
Bottoms == {f \in Frames : f.ep \in Entries}
Calls == Stacks(Frames, Heads, Links, Bottoms)

Answers == [ep : Eps \cup {"none"}, req : Requests \cup {<<>>}, ok : BOOLEAN, res : Results]

CallsOK ==
  /\ DOMAIN call = Clients /\ \A c \in Clients : call[c] \in Calls
  /\ call = [c \in Clients |-> call[c]]
  /\ answer \in [Clients -> Answers]
  /\ \A c \in Clients : answer[c].ep # "none" =>
       call[c] = <<>> /\ answer[c].ep \in Entries /\ answer[c].req \in RequestOf[answer[c].ep]
  /\ \A c \in Clients : answer[c].ok => /\ answer[c].ep \in Entries
                                        /\ answer[c].res \in ReplyTo(answer[c].ep)

\* A service that listens serves all of its endpoints.
UpOK ==
  \A s \in DOMAIN Endpoints : Listening(s) => \A e \in Endpoints[s] : <<s, e>> \in up

Array == [items : Seq(CartItem), cap : Nat]
StatesOK ==
  /\ products \in Seq(Product)
  /\ StateOf(rates, Currencies, Rate)
  /\ StateOf(carts, Users, Slice)
  /\ arrays \in Seq(Array)
  /\ log \in [Users -> Seq(CartItem)]

\* Slices lie in their arrays. Arrays only grow.
Fits(s, A) == s.len > 0 => s.array \in 1 .. Len(A) /\ s.len <= Len(A[s.array].items)
FrameFits(f, A) ==
  /\ HoldsSlice(f.ep, f.at) => Fits(f.my, A)
  /\ f.ep = "add_item" /\ f.at = "wroteProduct" =>
       f.my.len > 0 /\ f.my.len < Len(A[f.my.array].items)
FitsOK ==
  /\ \A u \in DOMAIN carts : Fits(carts[u], arrays)
  /\ \A c \in Clients : call[c] # <<>> => FrameFits(call[c][1], arrays)

-----------------------------------------------------------------------------
(* The catalogue. Unless there was a race, a request to add products has   *)
(* read the catalogue as it is, and leaves room for what it has left.      *)

Prefixed(list) == Len(Catalog) <= Len(list) /\ \A i \in 1 .. Len(Catalog) : list[i] = Catalog[i]
Single == {c \in Clients : answer[c].ep = "add_product"}
FrameAdds(f, R) ==
  /\ f.ep \in Adders /\ f.at = "read" =>
       Prefixed(f.my.list) /\ ("catalog" \notin R => f.my.list = products)
  /\ f.ep = "add_products" /\ f.at \in {"next", "read"} /\ "catalog" \notin R =>
       f.my.left = <<>> \/ Len(products) + Len(f.my.left) <= CatalogSize
CatalogOK ==
  /\ Prefixed(products)
  /\ \A c \in Clients : call[c] # <<>> => FrameAdds(call[c][1], raced)
  /\ "catalog" \notin raced => Len(products) <= CatalogSize + Cardinality(Single)

-----------------------------------------------------------------------------
(* Orders. Between its charge and its end, a request is in one of these    *)
(* places.                                                                 *)

Charged(f) ==
  \/ f.ep = "place_order" /\ f.at = "charged" /\ f.res.error = ""
  \/ f.ep = "place_order" /\ f.at \in {"shipped", "emptied"}
  \/ f.ep = "checkout" /\ f.at = "passed"
  \/ f.ep \in {"ship_order", "empty_cart"}
PaidIn(c, currency) == Has(payments, c) /\ payments[c].amount.currency = currency
OrderPaid(c, f) == PaidIn(c, f.req.currency) /\ payments[c].order = f.my

\* Of any handler of c, of the innermost one, and of the answer.
FramePaid(c, f) ==
  /\ f.ep = "place_order" /\ f.at \in {"shipped", "emptied"} => OrderPaid(c, f)
  /\ f.ep = "place_order" /\ f.at = "emptied" => Has(parcels, c)
TopPaid(c, f) ==
  /\ Has(payments, c) => Charged(f)
  /\ f.ep = "place_order" /\ f.at = "charged" /\ f.res.error = "" => OrderPaid(c, f)
  /\ f.ep = "place_order" /\ f.at = "shipped" => Has(parcels, c)
  /\ f.ep = "checkout" /\ f.at = "passed" => PaidIn(c, f.req.currency) /\ Has(parcels, c)
AnswerPaid(c, a) ==
  a.ep = "checkout" => IF a.ok THEN PaidIn(c, a.req.currency) /\ Has(parcels, c)
                               ELSE Has(payments, c) => Broken
OrdersOK ==
  /\ \A c \in DOMAIN parcels : Has(payments, c) /\ payments[c].order.items = parcels[c]
  /\ \A c \in DOMAIN payments : Value(payments[c].amount) = Due(payments[c].order)
  /\ \A c \in Clients :
       /\ \A i \in 1 .. Len(call[c]) : FramePaid(c, call[c][i])
       /\ call[c] # <<>> => TopPaid(c, call[c][1])
       /\ call[c] = <<>> /\ answer[c].ep # "checkout" => ~Has(payments, c)
       /\ AnswerPaid(c, answer[c])

-----------------------------------------------------------------------------
(* Carts. Each array belongs to a user, who asked for the products in it;  *)
(* the quantities may be new beyond the slices that are in use.            *)

wanted == [u \in Users |-> AskedFor(u)]
Known(W, items, n) == \A i \in 1 .. n : \E a \in W : a.quantity = items[i].quantity
KnownProducts(W, items) == \A i \in 1 .. Len(items) : \E a \in W : a.product = items[i].product
ItemsAsked(W, items) == KnownProducts(W, items) /\ Known(W, items, Len(items))

Owned(owner, A, W) ==
  /\ owner \in [1 .. Len(A) -> Users]
  /\ \A k \in 1 .. Len(A) : KnownProducts(W[owner[k]], A[k].items)
Belongs(owner, A, W, s, u) ==
  s.len > 0 => owner[s.array] = u /\ Known(W[u], A[s.array].items, s.len)
OwnedBy(owner) ==
  /\ Owned(owner, arrays, wanted)
  /\ \A u \in DOMAIN carts : Belongs(owner, arrays, wanted, carts[u], u)
  /\ \A c \in Clients : call[c] # <<>> /\ HoldsSlice(call[c][1].ep, call[c][1].at) =>
       Belongs(owner, arrays, wanted, call[c][1].my, call[c][1].req.user)

ViewOf(c) ==
  /\ call[c] # <<>> /\ call[c][1].ep = "ro_view_cart" /\ call[c][1].at = "passed" =>
       ItemsAsked(wanted[call[c][1].req.user], call[c][1].res.cart.items)
  /\ answer[c].ok /\ answer[c].ep = "ro_view_cart" =>
       ItemsAsked(wanted[answer[c].req.user], answer[c].res.c.items)

\* Unless there was a race, whoever adds has the cart as it is, and the only
\* one who does has its own item behind it.
ItemOf(f) == [product |-> f.req.product, quantity |-> f.req.quantity]
Adding(s, u) == s # <<>> /\ s[1].ep = "add_item" /\ s[1].at # "start" /\ s[1].req.user = u
FrameExact(f, u, sole) ==
  /\ f.at \in {"loaded", "wroteProduct"} => f.my = _localGetCart(u)
  /\ sole /\ f.at = "wroteProduct" =>
       arrays[f.my.array].items[f.my.len + 1].product = f.req.product
  /\ sole /\ f.at = "appended" => Items(f.my) = Append(log[u], ItemOf(f))
ExactFor(u) ==
  u \notin raced =>
    /\ Items(_localGetCart(u)) = log[u]
    /\ \A c \in Clients : Adding(call[c], u) =>
         FrameExact(call[c][1], u, \A d \in Clients \ {c} : ~Adding(call[d], u))

CartsOK ==
  /\ \E owner \in [1 .. Len(arrays) -> Users] : OwnedBy(owner)
  /\ \A c \in Clients : ViewOf(c)
  /\ \A u \in Users : ExactFor(u)

TypesOK == CallsOK /\ UpOK /\ StatesOK /\ FitsOK

-----------------------------------------------------------------------------
(* Data. *)

\* A sequence of the elements of a finite set.
LEMMA SetToSeqParts ==
  ASSUME NEW S, IsFiniteSet(S)
  PROVE  /\ SetToSeq(S) \in Seq(S) /\ DOMAIN SetToSeq(S) = 1 .. Cardinality(S)
         /\ Len(SetToSeq(S)) = Cardinality(S) /\ Cardinality(S) \in Nat
         /\ \A x \in S : \E i \in 1 .. Cardinality(S) : SetToSeq(S)[i] = x
         /\ \A i, j \in 1 .. Cardinality(S) : SetToSeq(S)[i] = SetToSeq(S)[j] => i = j
<1> DEFINE n == Cardinality(S)  D == 1 .. n
<1>1. n \in Nat /\ ExistsBijection(D, S) BY FS_CardinalityType
<1>2. IsFiniteSet(D) /\ Cardinality(D) = n
  <2>1. IsFiniteSet(1 .. n) /\ Cardinality(1 .. n) = IF 1 > n THEN 0 ELSE n - 1 + 1
    <3>1. n \in Int /\ 1 \in Int BY <1>1
    <3> QED BY <3>1, FS_Interval
  <2> QED BY <1>1, <2>1
<1>3. \E f \in [D -> S] : IsInjective(f)
  BY <1>1 DEF ExistsBijection, Bijection, Injection
<1>4. SetToSeq(S) \in [D -> S] /\ IsInjective(SetToSeq(S)) BY <1>3 DEF SetToSeq
<1> DEFINE f == SetToSeq(S)
<1>5. \A i, j \in D : f[i] = f[j] => i = j BY <1>4 DEF IsInjective
<1>6. ASSUME NEW x \in S, \A i \in D : f[i] # x PROVE FALSE
  <2>1. f \in [D -> S \ {x}] BY <1>4, <1>6
  <2>2. IsFiniteSet(S \ {x}) /\ Cardinality(S \ {x}) = n - 1 BY <1>6, FS_RemoveElement
  <2>3. Cardinality(S \ {x}) < Cardinality(D) BY <1>1, <1>2, <2>2
  <2>4. \E i, j \in D : i # j /\ f[i] = f[j]
    <3> HIDE DEF f, D
    <3> QED BY <1>2, <2>1, <2>2, <2>3, FS_PigeonHole
  <2> QED BY <1>5, <2>4
<1>7. f \in Seq(S) /\ Len(f) = n /\ DOMAIN f = D BY <1>1, <1>4
<1> QED BY <1>1, <1>5, <1>6, <1>7

LEMMA WiderSeq ==
  ASSUME NEW S, NEW T, S \subseteq T, NEW s \in Seq(S)
  PROVE  s \in Seq(T)
<1>1. s \in [1 .. Len(s) -> S] /\ Len(s) \in Nat BY LenProperties
<1>2. s \in [1 .. Len(s) -> T] BY <1>1
<1> QED BY <1>1, <1>2

LEMMA FoundTyped ==
  ASSUME products \in Seq(Product), NEW query
  PROVE  Found(query) \in Seq(Product)
<1> DEFINE n == Len(products)
           V == Seq(Product)
           Body(g) == [i \in 0 .. n |-> IF i = 0 THEN <<>>
                         ELSE IF products[i].id \in query THEN Append(g[i - 1], products[i])
                         ELSE g[i - 1]]
           G == [x \in (1 .. n) \X V |->
                   IF products[x[1]].id \in query THEN Append(x[2], products[x[1]]) ELSE x[2]]
           found == CHOOSE g : g = Body(g)
<1>1. n \in Nat /\ <<>> \in V BY LenProperties, EmptySeq
<1>2. \A i \in 1 .. n : products[i] \in Product BY ElementOfSeq
<1>3. \A s \in V : \A p \in Product : Append(s, p) \in V BY AppendProperties
<1>4. G \in Steps(n, V) BY <1>2, <1>3 DEF Steps
<1>5. Found(query) = found[n] BY DEF Found
<1> HIDE DEF V
<1>6. \E g : g = Body(g)
  <2>1. PICK g : Recursive(g, n, V, <<>>, G)
    <3> HIDE DEF n, G
    <3> QED BY <1>1, <1>4, Recursion
  <2>2. /\ g = [i \in 0 .. n |-> g[i]] /\ g[0] = <<>>
        /\ \A i \in 1 .. n : g[i - 1] \in V /\ g[i] = G[<<i, g[i - 1]>>]
    BY <2>1 DEF Recursive
  <2>3. \A i \in 0 .. n : g[i] = Body(g)[i]
    <3>1. 0 \in 0 .. n /\ g[0] = Body(g)[0] BY <1>1, <2>2
    <3>2. ASSUME NEW i \in 1 .. n PROVE g[i] = Body(g)[i]
      <4>1. i \in 0 .. n /\ i # 0 BY <1>1
      <4>2. g[i - 1] \in V /\ g[i] = G[<<i, g[i - 1]>>] BY <2>2
      <4>3. G[<<i, g[i - 1]>>] = IF products[i].id \in query THEN Append(g[i - 1], products[i])
                                 ELSE g[i - 1]
        BY <4>2
      <4>4. Body(g)[i] = IF products[i].id \in query THEN Append(g[i - 1], products[i])
                         ELSE g[i - 1]
        BY <4>1
      <4> HIDE DEF G, Body
      <4> QED BY <4>2, <4>3, <4>4
    <3>3. \A i \in 0 .. n : i = 0 \/ i \in 1 .. n BY <1>1
    <3> QED BY <1>1, <3>1, <3>2, <3>3
  <2>4. [i \in 0 .. n |-> g[i]] = Body(g) BY <2>3
  <2> QED BY <2>2, <2>4
<1>7. found = Body(found)
  <2> HIDE DEF Body
  <2> QED BY <1>6
<1> HIDE DEF found
<1> DEFINE T == {i \in 0 .. n : found[i] \in V}
<1>8. 0 \in T BY <1>1, <1>7
<1>9. ASSUME NEW i \in 1 .. n, i - 1 \in T PROVE i \in T
  <2>1. i \in 0 .. n /\ i # 0 BY <1>1
  <2>2. found[i] = IF products[i].id \in query THEN Append(found[i - 1], products[i])
                   ELSE found[i - 1]
    BY <1>7, <2>1
  <2>3. found[i] \in V BY <1>2, <1>3, <1>9, <2>2
  <2> QED BY <2>1, <2>3
<1>10. \A i \in 0 .. n : i \in T
  <2> HIDE DEF T, n
  <2> QED BY <1>1, <1>8, <1>9, UpTo
<1>11. n \in T BY <1>1, <1>10
<1> QED BY <1>5, <1>11 DEF V

-----------------------------------------------------------------------------
(* Money. *)

LEMMA Division ==
  ASSUME NEW a \in Nat, NEW b \in Nat \ {0}
  PROVE  /\ a \div b \in Nat /\ a % b \in 0 .. b - 1 /\ a = b * (a \div b) + (a % b)
         /\ a >= b => a \div b >= 1
OBVIOUS

LEMMA SumPaid ==
  ASSUME NEW l \in Paid, NEW r \in Paid
  PROVE  /\ Sum(l, r) \in Paid /\ Sum(l, r).currency = l.currency
         /\ Value(Sum(l, r)) = Value(l) + Value(r)
<1> DEFINE units == l.units + r.units
           nanos == l.nanos + r.nanos
           m == [currency |-> l.currency, units |-> units + Quo(nanos, NanosMod),
                 nanos |-> Rem(nanos, NanosMod)]
<1>0. NanosMod \in Nat \ {0} BY BoutiqueAssumption
<1>1. /\ l.units \in Nat /\ r.units \in Nat /\ l.units >= 1 /\ r.units >= 1
      /\ l.nanos \in Nat /\ r.nanos \in Nat /\ l.currency \in Currencies
  BY <1>0 DEF Paid, Money
<1>2. Sum(l, r) = m BY <1>1 DEF Sum
<1>3. /\ Quo(nanos, NanosMod) = nanos \div NanosMod
      /\ Rem(nanos, NanosMod) = nanos - NanosMod * (nanos \div NanosMod)
  BY <1>1 DEF Quo, Rem
<1>4. nanos \in Nat /\ units \in Nat /\ units >= 1 BY <1>1
<1> DEFINE q == nanos \div NanosMod  s == nanos % NanosMod
<1>5. q \in Nat /\ s \in 0 .. NanosMod - 1 /\ nanos = NanosMod * q + s
  <2> HIDE DEF nanos
  <2> QED BY <1>0, <1>4, Division
<1> HIDE DEF q, s
<1>6. m = [currency |-> l.currency, units |-> units + q, nanos |-> s]
  <2>1. NanosMod * q \in Nat BY <1>0, <1>5
  <2>2. Quo(nanos, NanosMod) = q /\ Rem(nanos, NanosMod) = nanos - NanosMod * q BY <1>3 DEF q
  <2>3. \A x, y, z \in Int : x = y + z => x - y = z OBVIOUS
  <2>4. nanos - NanosMod * q = s BY <1>4, <1>5, <2>1, <2>3
  <2> QED BY <2>2, <2>4
<1>7. (units + q) * NanosMod + s = (l.units * NanosMod + l.nanos) + (r.units * NanosMod + r.nanos)
  <2>1. \A u, v, k, M \in Int : (u + v + k) * M = u * M + v * M + M * k OBVIOUS
  <2>2. units + q = l.units + r.units + q OBVIOUS
  <2>3. (units + q) * NanosMod = l.units * NanosMod + r.units * NanosMod + NanosMod * q
    BY <1>0, <1>1, <1>5, <2>1, <2>2
  <2>4. /\ l.units * NanosMod \in Int /\ r.units * NanosMod \in Int /\ NanosMod * q \in Int
        /\ (units + q) * NanosMod \in Int
    BY <1>0, <1>1, <1>4, <1>5
  <2>5. \A x, a, b, k, t, c, d \in Int : x = a + b + k /\ c + d = k + t => x + t = (a + c) + (b + d)
    OBVIOUS
  <2> QED BY <1>0, <1>1, <1>5, <2>3, <2>4, <2>5
<1> HIDE DEF m
<1>8. m.currency = l.currency /\ m.units = units + q /\ m.nanos = s BY <1>6
<1>9. m \in Paid BY <1>1, <1>4, <1>5, <1>6 DEF Paid, Money
<1>10. Value(m) = Value(l) + Value(r) BY <1>7, <1>8 DEF Value
<1> QED BY <1>2, <1>8, <1>9, <1>10

LEMMA ValueNat == ASSUME NEW m \in Money PROVE Value(m) \in Nat
<1>1. NanosMod \in Nat \ {0} BY BoutiqueAssumption
<1>2. m.units \in Nat /\ m.nanos \in Nat BY <1>1 DEF Money
<1>3. m.units * NanosMod \in Nat BY <1>1, <1>2
<1> QED BY <1>2, <1>3 DEF Value

\* A price times a quantity.
Times(n) == IF n = 0 THEN 1 ELSE n

LEMMA TimesPaid ==
  ASSUME NEW m \in Paid, NEW n \in Nat
  PROVE  MultiplySlow(m, n) \in Paid /\ Value(MultiplySlow(m, n)) = Times(n) * Value(m)
<1> DEFINE Body(g) == [k \in 0 .. n |-> IF k <= 1 THEN m ELSE Sum(g[k - 1], m)]
           G == [x \in (1 .. n) \X Paid |-> IF x[1] <= 1 THEN m ELSE Sum(x[2], m)]
           Good(g) == {k \in 0 .. n : g[k] \in Paid /\ Value(g[k]) = Times(k) * Value(m)}
<1>1. MultiplySlow(m, n) = (CHOOSE g : g = Body(g))[n] BY DEF MultiplySlow
<1>2. G \in Steps(n, Paid) BY SumPaid DEF Steps
<1>3. \E g : g = Body(g)
  <2>1. PICK g : Recursive(g, n, Paid, m, G)
    <3> HIDE DEF G
    <3> QED BY <1>2, Recursion
  <2>2. /\ g = [i \in 0 .. n |-> g[i]] /\ g[0] = m
        /\ \A i \in 1 .. n : g[i - 1] \in Paid /\ g[i] = G[<<i, g[i - 1]>>]
    BY <2>1 DEF Recursive
  <2>3. \A i \in 1 .. n : g[i] = IF i <= 1 THEN m ELSE Sum(g[i - 1], m) BY <2>2
  <2> HIDE DEF G
  <2>4. \A i \in 0 .. n : g[i] = IF i <= 1 THEN m ELSE Sum(g[i - 1], m)
    <3>1. \A i \in 0 .. n : i = 0 \/ i \in 1 .. n OBVIOUS
    <3>2. 0 <= 1 OBVIOUS
    <3> QED BY <2>2, <2>3, <3>1, <3>2
  <2>5. [i \in 0 .. n |-> g[i]] = Body(g) BY <2>4
  <2> QED BY <2>2, <2>5
<1>4. PICK g : g = Body(g) /\ g = (CHOOSE h : h = Body(h)) BY <1>3
<1>5. Value(m) \in Nat BY ValueNat DEF Paid
<1>6. 0 \in Good(g) /\ (n >= 1 => 1 \in Good(g))
  <2>1. g[0] = m /\ (n >= 1 => g[1] = m) BY <1>4
  <2>2. 1 * Value(m) = Value(m) BY <1>5
  <2> QED BY <2>1, <2>2 DEF Times
<1>7. ASSUME NEW i \in 1 .. n, i - 1 \in Good(g) PROVE i \in Good(g)
  <2>1. CASE i = 1 BY <1>6, <2>1
  <2>2. CASE i # 1
    <3>1. g[i] = Sum(g[i - 1], m) /\ g[i - 1] \in Paid /\ i - 1 # 0 /\ i # 0 BY <1>4, <1>7, <2>2
    <3>2. Value(g[i - 1]) = (i - 1) * Value(m) BY <1>7, <3>1 DEF Times
    <3>3. Sum(g[i - 1], m) \in Paid /\ Value(Sum(g[i - 1], m)) = Value(g[i - 1]) + Value(m)
      BY <3>1, SumPaid
    <3>4. \A k, v \in Int : (k - 1) * v + v = k * v OBVIOUS
    <3>5. Value(g[i]) = i * Value(m) BY <1>5, <3>1, <3>2, <3>3, <3>4
    <3> QED BY <3>1, <3>3, <3>5 DEF Times
  <2> QED BY <2>1, <2>2
<1> DEFINE S == Good(g)
<1>8. 0 \in S /\ \A i \in 1 .. n : i - 1 \in S => i \in S BY <1>6, <1>7
<1> HIDE DEF S
<1>9. \A i \in 0 .. n : i \in S BY <1>8, UpTo
<1>10. n \in Good(g) BY <1>9 DEF S
<1> QED BY <1>1, <1>4, <1>10

\* The total of an order is what is due, in the user's currency.
LEMMA TotalDue ==
  ASSUME NEW items \in Seq(CartItem), NEW costs \in Seq(Paid), Len(costs) = Len(items),
         NEW shipping \in Paid, NEW currency \in Currencies, NEW order,
         order.items = items, order.costs = costs
  PROVE  /\ Total(order, shipping, currency) \in Paid
         /\ Total(order, shipping, currency).currency = currency
         /\ Value(Total(order, shipping, currency)) =
              Due([items |-> items, costs |-> costs, shipping |-> shipping])
<1> DEFINE n == Len(items)
           first == Sum([currency |-> currency, units |-> 0, nanos |-> 0], shipping)
           Item(i) == MultiplySlow(costs[i], items[i].quantity)
           V == {m \in Paid : m.currency = currency}
           Body(g) == [i \in 0 .. n |-> IF i = 0 THEN first ELSE Sum(g[i - 1], Item(i))]
           G == [x \in (1 .. n) \X V |-> Sum(x[2], Item(x[1]))]
           DueBody(h) == [i \in 0 .. n |-> IF i = 0 THEN Value(shipping)
                            ELSE h[i - 1] + Times(items[i].quantity) * Value(costs[i])]
           H == [x \in (1 .. n) \X Int |-> x[2] + Times(items[x[1]].quantity) * Value(costs[x[1]])]
<1>1. Total(order, shipping, currency) = (CHOOSE g : g = Body(g))[n] BY DEF Total
<1>2. Due([items |-> items, costs |-> costs, shipping |-> shipping])
        = (CHOOSE h : h = DueBody(h))[n]
  <2> DEFINE o == [items |-> items, costs |-> costs, shipping |-> shipping]
  <2>1. o.items = items /\ o.costs = costs /\ o.shipping = shipping OBVIOUS
  <2> HIDE DEF o
  <2>2. Due(o) = (CHOOSE h : h = DueBody(h))[n] BY <2>1 DEF Due, Times
  <2> QED BY <2>2 DEF o
<1>3. n \in Nat /\ \A i \in 1 .. n : items[i].quantity \in Nat /\ costs[i] \in Paid
  <2>1. n \in Nat /\ Len(costs) = n BY LenProperties
  <2>2. \A i \in 1 .. n : items[i] \in CartItem BY ElementOfSeq
  <2>3. \A i \in 1 .. n : costs[i] \in Paid BY <2>1, ElementOfSeq
  <2> QED BY <2>1, <2>2, <2>3 DEF CartItem
<1>4. \A i \in 1 .. n :
        Item(i) \in Paid /\ Value(Item(i)) = Times(items[i].quantity) * Value(costs[i])
  BY <1>3, TimesPaid
<1>5. first \in V /\ Value(first) = Value(shipping)
  <2> DEFINE zero == [currency |-> currency, units |-> 0, nanos |-> 0]
  <2>0. NanosMod \in Nat \ {0} BY BoutiqueAssumption
  <2>1. /\ shipping.units \in Nat /\ shipping.units >= 1 /\ shipping.nanos \in 0 .. NanosMod - 1
        /\ zero.units = 0 /\ zero.nanos = 0 /\ zero.currency = currency
    BY DEF Paid, Money
  <2>2. first = [currency |-> currency, units |-> shipping.units + Quo(shipping.nanos, NanosMod),
                 nanos |-> Rem(shipping.nanos, NanosMod)]
    BY <2>0, <2>1 DEF Sum
  <2>3. Quo(shipping.nanos, NanosMod) = 0
    <3>1. \A a \in Nat, b \in Nat \ {0} : a < b => a \div b = 0 OBVIOUS
    <3> QED BY <2>0, <2>1, <3>1 DEF Quo
  <2>4. Rem(shipping.nanos, NanosMod) = shipping.nanos BY <2>0, <2>1, <2>3 DEF Rem
  <2>5. first = [currency |-> currency, units |-> shipping.units, nanos |-> shipping.nanos]
    BY <2>1, <2>2, <2>3, <2>4
  <2> HIDE DEF first
  <2>6. first.currency = currency /\ first.units = shipping.units /\ first.nanos = shipping.nanos
    BY <2>5
  <2>7. first \in Paid BY <2>0, <2>1, <2>5 DEF Paid, Money
  <2> QED BY <2>6, <2>7 DEF Value
<1> HIDE DEF first, Item
<1>6. G \in Steps(n, V) BY <1>4, SumPaid DEF Steps
<1>7. \A i \in 1 .. n : Times(items[i].quantity) * Value(costs[i]) \in Int
  <2>1. \A i \in 1 .. n : Value(costs[i]) \in Nat BY <1>3, ValueNat DEF Paid
  <2>2. \A i \in 1 .. n : Times(items[i].quantity) \in Nat BY <1>3 DEF Times
  <2>3. \A a, b \in Nat : a * b \in Int OBVIOUS
  <2> QED BY <2>1, <2>2, <2>3
<1>8. H \in Steps(n, Int) /\ Value(shipping) \in Int BY <1>7, ValueNat DEF Paid, Steps
<1>9. \E g : g = Body(g)
  <2>1. PICK g : Recursive(g, n, V, first, G)
    <3> HIDE DEF V, n, G
    <3> QED BY <1>3, <1>5, <1>6, Recursion
  <2>2. /\ g = [i \in 0 .. n |-> g[i]] /\ g[0] = first
        /\ \A i \in 1 .. n : g[i - 1] \in V /\ g[i] = G[<<i, g[i - 1]>>]
    BY <2>1 DEF Recursive
  <2>3. \A i \in 1 .. n : g[i] = Sum(g[i - 1], Item(i)) BY <2>2
  <2> HIDE DEF G, V
  <2>4. \A i \in 0 .. n : g[i] = IF i = 0 THEN first ELSE Sum(g[i - 1], Item(i))
    <3>1. \A i \in 0 .. n : i = 0 \/ i \in 1 .. n BY <1>3
    <3> QED BY <2>2, <2>3, <3>1
  <2>5. [i \in 0 .. n |-> g[i]] = Body(g) BY <2>4
  <2> QED BY <2>2, <2>5
<1>10. \E h : h = DueBody(h)
  <2>1. PICK h : Recursive(h, n, Int, Value(shipping), H)
    <3> HIDE DEF n, H
    <3> QED BY <1>3, <1>8, Recursion
  <2>2. /\ h = [i \in 0 .. n |-> h[i]] /\ h[0] = Value(shipping)
        /\ \A i \in 1 .. n : h[i - 1] \in Int /\ h[i] = H[<<i, h[i - 1]>>]
    BY <2>1 DEF Recursive
  <2>3. \A i \in 1 .. n : h[i] = h[i - 1] + Times(items[i].quantity) * Value(costs[i]) BY <2>2
  <2> HIDE DEF H
  <2>4. \A i \in 0 .. n : h[i] = IF i = 0 THEN Value(shipping)
                                  ELSE h[i - 1] + Times(items[i].quantity) * Value(costs[i])
    <3>1. \A i \in 0 .. n : i = 0 \/ i \in 1 .. n BY <1>3
    <3> QED BY <2>2, <2>3, <3>1
  <2>5. [i \in 0 .. n |-> h[i]] = DueBody(h) BY <2>4
  <2> QED BY <2>2, <2>5
<1>11. PICK g : g = Body(g) /\ g = (CHOOSE k : k = Body(k)) BY <1>9
<1>12. PICK h : h = DueBody(h) /\ h = (CHOOSE k : k = DueBody(k)) BY <1>10
<1> DEFINE S == {i \in 0 .. n : g[i] \in V /\ Value(g[i]) = h[i]}
<1>13. 0 \in S BY <1>3, <1>5, <1>11, <1>12
<1>14. ASSUME NEW i \in 1 .. n, i - 1 \in S PROVE i \in S
  <2>1. g[i] = Sum(g[i - 1], Item(i)) BY <1>3, <1>11
  <2>2. h[i] = h[i - 1] + Times(items[i].quantity) * Value(costs[i]) BY <1>3, <1>12
  <2>3. g[i - 1] \in Paid /\ g[i - 1].currency = currency /\ Value(g[i - 1]) = h[i - 1] BY <1>14
  <2>4. /\ Sum(g[i - 1], Item(i)) \in Paid /\ Sum(g[i - 1], Item(i)).currency = currency
        /\ Value(Sum(g[i - 1], Item(i))) = Value(g[i - 1]) + Value(Item(i))
    BY <1>4, <2>3, SumPaid
  <2>5. i \in 0 .. n BY <1>3
  <2> QED BY <1>4, <2>1, <2>2, <2>3, <2>4, <2>5
<1> HIDE DEF S
<1>15. \A i \in 0 .. n : i \in S
  <2> HIDE DEF n
  <2> QED BY <1>3, <1>13, <1>14, UpTo
<1>16. n \in S BY <1>3, <1>15
<1> QED BY <1>1, <1>2, <1>11, <1>12, <1>16 DEF S

\* A carry adds a unit, so what was converted has one.
LEMMA Carried ==
  ASSUME NEW u \in Nat, NEW x \in Nat, NEW d \in Nat \ {0}
  PROVE  /\ _carry(<<u, d>>, <<x, d>>).units \in Nat /\ _carry(<<u, d>>, <<x, d>>).units >= 1
         /\ _carry(<<u, d>>, <<x, d>>).nanos \in 0 .. NanosMod - 1
<1> DEFINE n == x + NanosMod * d
           b == d * NanosMod
           rounded == (2 * n + d) \div (2 * d)
<1>0. NanosMod \in Nat \ {0} BY BoutiqueAssumption
<1>1. _carry(<<u, d>>, <<x, d>>) =
        [units |-> (u \div d) + (n \div b), nanos |-> rounded % NanosMod]
  BY DEF _carry
<1>2. b \in Nat \ {0} /\ NanosMod * d = b
  <2>1. \A k, l \in Nat \ {0} : k * l \in Nat \ {0} /\ l * k = k * l OBVIOUS
  <2> QED BY <1>0, <2>1
<1> HIDE DEF b
<1>3. n \in Nat /\ n >= b BY <1>2
<1> HIDE DEF n
<1>4. n \div b \in Nat /\ n \div b >= 1 /\ u \div d \in Nat BY <1>2, <1>3, Division
<1>5. rounded \in Nat BY <1>3, Division
<1> HIDE DEF rounded
<1>6. rounded % NanosMod \in 0 .. NanosMod - 1 BY <1>0, <1>5, Division
<1> QED BY <1>1, <1>4, <1>6

LEMMA ConvertedPaid ==
  ASSUME NEW amount \in Money, NEW from \in Rate, NEW to \in Rate, NEW code \in Currencies
  PROVE  Converted(amount, from, to, code) \in Paid
<1> DEFINE euros == _carry(<<amount.units * from[2], from[1]>>, <<amount.nanos * from[2], from[1]>>)
           result == _carry(<<euros.units * to[1], to[2]>>, <<euros.nanos * to[1], to[2]>>)
<1>0. NanosMod \in Nat \ {0} BY BoutiqueAssumption
<1>1. /\ from[1] \in Nat \ {0} /\ from[2] \in Nat \ {0} /\ to[1] \in Nat \ {0} /\ to[2] \in Nat \ {0}
      /\ amount.units \in Nat /\ amount.nanos \in Nat
  BY <1>0 DEF Rate, Money
<1>2. amount.units * from[2] \in Nat /\ amount.nanos * from[2] \in Nat BY <1>1
<1>3. euros.units \in Nat /\ euros.nanos \in Nat BY <1>0, <1>1, <1>2, Carried
<1> HIDE DEF euros
<1>4. euros.units * to[1] \in Nat /\ euros.nanos * to[1] \in Nat BY <1>1, <1>3
<1>5. result.units \in Nat /\ result.units >= 1 /\ result.nanos \in 0 .. NanosMod - 1
  BY <1>1, <1>4, Carried
<1>6. Converted(amount, from, to, code) =
        [currency |-> code, units |-> result.units, nanos |-> result.nanos]
  BY DEF Converted, euros
<1> HIDE DEF result
<1> QED BY <1>5, <1>6 DEF Paid, Money

LEMMA QuoteTyped == ASSUME NEW count \in Nat PROVE CreateQuoteFromCount(count) \in Money
<1> DEFINE cents == ItemShipping * count - (IF count \in Truncated THEN 1 ELSE 0)
<1>0. /\ NanosMod \in Nat \ {0} /\ ItemShipping \in Nat \ {0} /\ Truncated \subseteq Nat \ {0}
      /\ "USD" \in Currencies
  BY BoutiqueAssumption
<1>1. cents \in Nat
  <2>1. CASE count = 0 BY <1>0, <2>1
  <2>2. CASE count # 0
    <3>1. \A k, l \in Nat \ {0} : k * l \in Nat /\ k * l - 1 \in Nat OBVIOUS
    <3> QED BY <1>0, <2>2, <3>1
  <2> QED BY <2>1, <2>2
<1>2. CreateQuoteFromCount(count) =
        [currency |-> "USD", units |-> cents \div 100, nanos |-> (cents % 100) * (NanosMod \div 100)]
  BY DEF CreateQuoteFromCount
<1> HIDE DEF cents
<1>3. cents \div 100 \in Nat /\ cents % 100 \in 0 .. 99 BY <1>1
<1>4. (cents % 100) * (NanosMod \div 100) \in 0 .. NanosMod - 1
  <2> DEFINE q == NanosMod \div 100  r == cents % 100
  <2>1. q \in Nat /\ 100 * q <= NanosMod /\ r \in 0 .. 99 BY <1>0, <1>3
  <2> HIDE DEF q, r
  <2>2. r * q \in Nat /\ r * q <= 99 * q
    <3>1. \A i \in 0 .. 99 : \A k \in Nat : i * k \in Nat /\ i * k <= 99 * k OBVIOUS
    <3> QED BY <2>1, <3>1
  <2>3. 99 * q < NanosMod BY <1>0, <2>1
  <2>4. r * q \in 0 .. NanosMod - 1 BY <1>0, <2>1, <2>2, <2>3
  <2> QED BY <2>4 DEF q, r
<1> QED BY <1>0, <1>2, <1>3, <1>4 DEF Money

-----------------------------------------------------------------------------
(* Facts about the names. *)

LEMMA Names ==
  /\ Eps = {"ro_home", "frontend_set_currency", "ro_browse_product", "add_to_cart",
            "ro_view_cart", "checkout", "place_order", "add_item", "ro_get_cart", "empty_cart",
            "set_currency", "init_currencies", "ro_get_currencies", "ro_convert_currency",
            "ro_send_email", "charge", "add_product", "add_products", "ro_get_product",
            "ro_search_products", "ro_fetch_catalog", "ro_get_recommendations", "ro_get_quote",
            "ship_order"}
  /\ Entries = {"ro_home", "frontend_set_currency", "ro_browse_product", "add_to_cart",
                "ro_view_cart", "checkout", "init_currencies", "ro_send_email", "add_product",
                "add_products", "ro_search_products", "ro_get_recommendations"}
  /\ DOMAIN ResponseAt = {"gotCart", "gotProduct", "gotPrice", "gotQuote", "gotShippingCost",
                          "charged", "shipped", "emptied", "gotCurrencies", "gotUserCart",
                          "gotPage", "gotCatalog", "passed"}
BY DEF Eps, RequestOf, Entries, ResponseOf, ResponseAt

LEMMA SiteNames ==
  ASSUME NEW e, NEW p, NEW callee, <<e, p, callee>> \in Sites
  PROVE  /\ e \in Eps /\ callee \in Eps /\ callee \notin Entries /\ callee # "none"
         /\ p \in DOMAIN ResponseAt /\ p \in PlaceNames /\ p # "start" /\ p \notin PauseNames
         /\ Waits(e, p) /\ \A d : <<e, p, d>> \in Sites => d = callee
<1>1. \A x, y, z : <<x, y, z>> \in Sites =>
        \/ x = "ro_home" /\ y = "gotCurrencies" /\ z = "ro_get_currencies"
        \/ x = "ro_home" /\ y = "gotUserCart" /\ z = "ro_get_cart"
        \/ x = "ro_home" /\ y = "gotPage" /\ z = "ro_fetch_catalog"
        \/ x = "frontend_set_currency" /\ y = "passed" /\ z = "set_currency"
        \/ x = "ro_browse_product" /\ y = "passed" /\ z = "ro_get_product"
        \/ x = "add_to_cart" /\ y = "passed" /\ z = "add_item"
        \/ x = "ro_view_cart" /\ y = "passed" /\ z = "ro_get_cart"
        \/ x = "checkout" /\ y = "passed" /\ z = "place_order"
        \/ x = "place_order" /\ y = "gotCart" /\ z = "ro_get_cart"
        \/ x = "place_order" /\ y = "gotProduct" /\ z = "ro_get_product"
        \/ x = "place_order" /\ y = "gotPrice" /\ z = "ro_convert_currency"
        \/ x = "place_order" /\ y = "gotQuote" /\ z = "ro_get_quote"
        \/ x = "place_order" /\ y = "gotShippingCost" /\ z = "ro_convert_currency"
        \/ x = "place_order" /\ y = "charged" /\ z = "charge"
        \/ x = "place_order" /\ y = "shipped" /\ z = "ship_order"
        \/ x = "place_order" /\ y = "emptied" /\ z = "empty_cart"
        \/ x = "ro_get_recommendations" /\ y = "gotCatalog" /\ z = "ro_fetch_catalog"
  BY DEF Sites
<1>2. e \in Eps /\ callee \in Eps BY <1>1, Names
<1>3. callee \notin Entries /\ callee # "none" BY <1>1, Names
<1>4. p # "start" /\ p \notin PauseNames BY <1>1 DEF PauseNames
<1>7. p \in DOMAIN ResponseAt BY <1>1, Names
<1>8. p \in PlaceNames BY <1>7 DEF PlaceNames
<1>5. Waits(e, p) BY <1>2 DEF Waits
<1>6. \A d : <<e, p, d>> \in Sites => d = callee BY <1>1
<1> QED BY <1>2, <1>3, <1>4, <1>5, <1>6, <1>7, <1>8

LEMMA SiteList ==
  /\ <<"ro_home", "gotCurrencies", "ro_get_currencies">> \in Sites
  /\ <<"ro_home", "gotUserCart", "ro_get_cart">> \in Sites
  /\ <<"ro_home", "gotPage", "ro_fetch_catalog">> \in Sites
  /\ <<"frontend_set_currency", "passed", "set_currency">> \in Sites
  /\ <<"ro_browse_product", "passed", "ro_get_product">> \in Sites
  /\ <<"add_to_cart", "passed", "add_item">> \in Sites
  /\ <<"ro_view_cart", "passed", "ro_get_cart">> \in Sites
  /\ <<"checkout", "passed", "place_order">> \in Sites
  /\ <<"place_order", "gotCart", "ro_get_cart">> \in Sites
  /\ <<"place_order", "gotProduct", "ro_get_product">> \in Sites
  /\ <<"place_order", "gotPrice", "ro_convert_currency">> \in Sites
  /\ <<"place_order", "gotQuote", "ro_get_quote">> \in Sites
  /\ <<"place_order", "gotShippingCost", "ro_convert_currency">> \in Sites
  /\ <<"place_order", "charged", "charge">> \in Sites
  /\ <<"place_order", "shipped", "ship_order">> \in Sites
  /\ <<"place_order", "emptied", "empty_cart">> \in Sites
  /\ <<"ro_get_recommendations", "gotCatalog", "ro_fetch_catalog">> \in Sites
BY DEF Sites

\* Nobody waits at a pause.
LEMMA PauseList ==
  /\ \A e, p : <<e, p>> \in Pauses => p \in PlaceNames /\ p \in PauseNames /\ Place(e, p) /\ ~Waits(e, p)
  /\ <<"add_item", "loaded">> \in Pauses
  /\ <<"add_item", "wroteProduct">> \in Pauses
  /\ <<"add_item", "appended">> \in Pauses
  /\ <<"ro_get_cart", "loaded">> \in Pauses
  /\ <<"init_currencies", "next">> \in Pauses
  /\ <<"ro_convert_currency", "gotFrom">> \in Pauses
  /\ <<"ro_get_currencies", "ranging">> \in Pauses
  /\ <<"add_product", "read">> \in Pauses
  /\ <<"add_products", "next">> \in Pauses
  /\ <<"add_products", "read">> \in Pauses
  /\ <<"place_order", "prepare">> \in Pauses
<1>1. \A e, p : <<e, p>> \in Pauses => p \in PauseNames BY DEF Pauses, PauseNames
<1>2. \A e, p : p \in PauseNames => ~Waits(e, p) BY SiteNames DEF Waits
<1>3. "start" \in PlaceNames /\ ~(\E e : Waits(e, "start")) BY SiteNames DEF Waits, PlaceNames
<1> QED BY <1>1, <1>2, <1>3 DEF Pauses, PlaceNames, Place

\* What waits for an endpoint.
LEMMA WaitsFor ==
  ASSUME NEW e, NEW p, NEW d, <<e, p, d>> \in Sites
  PROVE  /\ d = "add_item" => e = "add_to_cart" /\ p = "passed"
         /\ d = "place_order" => e = "checkout" /\ p = "passed"
         /\ d = "charge" => e = "place_order" /\ p = "charged"
         /\ d = "ship_order" => e = "place_order" /\ p = "shipped"
         /\ d = "empty_cart" => e = "place_order" /\ p = "emptied"
         /\ d = "ro_get_cart" => <<e, p>> \in {<<"ro_view_cart", "passed">>, <<"ro_home", "gotUserCart">>,
                                                <<"place_order", "gotCart">>}
         /\ e = "place_order" => p \in {"gotCart", "gotProduct", "gotPrice", "gotQuote",
                                        "gotShippingCost", "charged", "shipped", "emptied"}
         /\ e = "place_order" /\ p = "charged" => d = "charge"
         /\ e = "place_order" /\ p = "shipped" => d = "ship_order"
         /\ e = "place_order" /\ p = "emptied" => d = "empty_cart"
         /\ e = "ro_view_cart" => d = "ro_get_cart"
         /\ e = "checkout" => d = "place_order"
         /\ e \notin {"add_item", "ro_get_cart", "ship_order", "empty_cart", "charge"} \cup Adders
BY DEF Sites, Adders

\* What TypeOK says of a response is what its endpoint answers.
LEMMA Replies ==
  /\ \A e \in DOMAIN ResponseOf : e \in Eps /\ ResponseOf[e] = ReplyTo(e)
  /\ \A e, p, callee : <<e, p, callee>> \in Sites => ReplyTo(callee) \subseteq ResponseAt[p]
<1>1. \A e \in Entries : e \in Eps BY Names
<1>2. \A e \in DOMAIN ResponseOf : e \in Eps /\ ResponseOf[e] = ReplyTo(e)
  BY <1>1 DEF ReplyTo, Entries
<1>3. ASSUME NEW e, NEW p, NEW callee, <<e, p, callee>> \in Sites
      PROVE  ReplyTo(callee) \subseteq ResponseAt[p]
  <2>0. callee \notin Entries BY <1>3, SiteNames
  <2>1. \/ p = "charged" /\ callee = "charge"
        \/ p = "emptied" /\ callee = "empty_cart"
        \/ p = "gotCart" /\ callee = "ro_get_cart"
        \/ p = "gotCatalog" /\ callee = "ro_fetch_catalog"
        \/ p = "gotCurrencies" /\ callee = "ro_get_currencies"
        \/ p = "gotPage" /\ callee = "ro_fetch_catalog"
        \/ p = "gotPrice" /\ callee = "ro_convert_currency"
        \/ p = "gotProduct" /\ callee = "ro_get_product"
        \/ p = "gotQuote" /\ callee = "ro_get_quote"
        \/ p = "gotShippingCost" /\ callee = "ro_convert_currency"
        \/ p = "gotUserCart" /\ callee = "ro_get_cart"
        \/ p = "passed" /\ callee = "add_item"
        \/ p = "passed" /\ callee = "place_order"
        \/ p = "passed" /\ callee = "ro_get_cart"
        \/ p = "passed" /\ callee = "ro_get_product"
        \/ p = "passed" /\ callee = "set_currency"
        \/ p = "shipped" /\ callee = "ship_order"
    BY <1>3 DEF Sites
  <2>2. [amount : Paid] \subseteq ConvertCurrencyResponse BY DEF Paid, ConvertCurrencyResponse
  <2>3. CASE p = "charged" /\ callee = "charge" BY <2>0, <2>2, <2>3 DEF ReplyTo, ResponseAt
  <2>4. CASE p = "emptied" /\ callee = "empty_cart" BY <2>0, <2>2, <2>4 DEF ReplyTo, ResponseAt
  <2>5. CASE p = "gotCart" /\ callee = "ro_get_cart" BY <2>0, <2>2, <2>5 DEF ReplyTo, ResponseAt
  <2>6. CASE p = "gotCatalog" /\ callee = "ro_fetch_catalog" BY <2>0, <2>2, <2>6 DEF ReplyTo, ResponseAt
  <2>7. CASE p = "gotCurrencies" /\ callee = "ro_get_currencies" BY <2>0, <2>2, <2>7 DEF ReplyTo, ResponseAt
  <2>8. CASE p = "gotPage" /\ callee = "ro_fetch_catalog" BY <2>0, <2>2, <2>8 DEF ReplyTo, ResponseAt
  <2>9. CASE p = "gotPrice" /\ callee = "ro_convert_currency" BY <2>0, <2>2, <2>9 DEF ReplyTo, ResponseAt
  <2>10. CASE p = "gotProduct" /\ callee = "ro_get_product" BY <2>0, <2>2, <2>10 DEF ReplyTo, ResponseAt
  <2>11. CASE p = "gotQuote" /\ callee = "ro_get_quote" BY <2>0, <2>2, <2>11 DEF ReplyTo, ResponseAt
  <2>12. CASE p = "gotShippingCost" /\ callee = "ro_convert_currency" BY <2>0, <2>2, <2>12 DEF ReplyTo, ResponseAt
  <2>13. CASE p = "gotUserCart" /\ callee = "ro_get_cart" BY <2>0, <2>2, <2>13 DEF ReplyTo, ResponseAt
  <2>14. CASE p = "passed" /\ callee = "add_item" BY <2>0, <2>2, <2>14 DEF ReplyTo, ResponseAt
  <2>15. CASE p = "passed" /\ callee = "place_order" BY <2>0, <2>2, <2>15 DEF ReplyTo, ResponseAt
  <2>16. CASE p = "passed" /\ callee = "ro_get_cart" BY <2>0, <2>2, <2>16 DEF ReplyTo, ResponseAt
  <2>17. CASE p = "passed" /\ callee = "ro_get_product" BY <2>0, <2>2, <2>17 DEF ReplyTo, ResponseAt
  <2>18. CASE p = "passed" /\ callee = "set_currency" BY <2>0, <2>2, <2>18 DEF ReplyTo, ResponseAt
  <2>19. CASE p = "shipped" /\ callee = "ship_order" BY <2>0, <2>2, <2>19 DEF ReplyTo, ResponseAt
  <2> QED BY <2>1, <2>3, <2>4, <2>5, <2>6, <2>7, <2>8, <2>9, <2>10, <2>11, <2>12, <2>13, <2>14, <2>15, <2>16, <2>17, <2>18, <2>19
<1> QED BY <1>2, <1>3

-----------------------------------------------------------------------------
(* Frames. *)

LEMMA FrameParts ==
  ASSUME NEW f \in Frames
  PROVE  /\ f.ep \in Eps /\ f.req \in RequestOf[f.ep]
         /\ Place(f.ep, f.at) /\ f.my \in LocalsAt(f.ep, f.at) /\ f.at \in PlaceNames
         /\ f.req \in Requests /\ f.my \in Locals /\ f.res \in Results
         /\ f = [ep |-> f.ep, req |-> f.req, at |-> f.at, my |-> f.my, res |-> f.res]
BY DEF Frames

\* The frame after Goto, and after a response.
Gone(f, place, my) == [f EXCEPT !.at = place, !.my = my]
Answered(f, r) == [f EXCEPT !.res = r]

LEMMA FrameStarts ==
  ASSUME NEW e \in Eps, NEW q \in RequestOf[e]
  PROVE  /\ Frame(e, q) \in Frames /\ Frame(e, q) \in Heads
         /\ Frame(e, q).ep = e /\ Frame(e, q).req = q /\ Frame(e, q).at = "start"
         /\ Frame(e, q).my = <<>> /\ Frame(e, q).res = <<>>
<1>1. Place(e, "start") /\ \A d : <<e, "start", d>> \notin Sites BY SiteNames DEF Place
<1>2. <<>> \in LocalsAt(e, "start") BY DEF LocalsAt, HoldsSlice
<1>4. q \in Requests /\ <<>> \in Results BY DEF Requests, Results
<1>5. <<>> \in Locals /\ "start" \in PlaceNames
  <2>1. "start" \in PlaceNames BY DEF PlaceNames
  <2>2. \A p \in PlaceNames : LocalsAt(e, p) \subseteq Locals BY DEF Locals
  <2> QED BY <1>2, <2>1, <2>2
<1>6. Frame(e, q) \in Frames
  <2> DEFINE f == Frame(e, q)
  <2>1. f = [ep |-> e, req |-> q, at |-> "start", my |-> <<>>, res |-> <<>>] BY DEF Frame
  <2>2. f \in [ep : Eps, req : Requests, at : PlaceNames, my : Locals, res : Results]
    BY <1>4, <1>5, <2>1
  <2> HIDE DEF f
  <2>3. f \in Frames BY <1>1, <1>2, <2>1, <2>2 DEF Frames
  <2> QED BY <2>3 DEF f
<1> QED BY <1>1, <1>6 DEF Frame, Heads

LEMMA FrameGoes ==
  ASSUME NEW f \in Frames, NEW place \in PlaceNames, Place(f.ep, place),
         NEW my \in LocalsAt(f.ep, place)
  PROVE  /\ Gone(f, place, my) \in Frames
         /\ Gone(f, place, my).ep = f.ep /\ Gone(f, place, my).req = f.req
         /\ Gone(f, place, my).at = place /\ Gone(f, place, my).my = my
         /\ Gone(f, place, my).res = f.res
         /\ ~Waits(f.ep, place) => Gone(f, place, my) \in Heads
<1> DEFINE g == Gone(f, place, my)
<1>1. /\ f.ep \in Eps /\ f.req \in RequestOf[f.ep] /\ f.req \in Requests /\ f.res \in Results
      /\ f = [ep |-> f.ep, req |-> f.req, at |-> f.at, my |-> f.my, res |-> f.res]
  BY FrameParts
<1>2. g = [ep |-> f.ep, req |-> f.req, at |-> place, my |-> my, res |-> f.res]
  <2> DEFINE h == [f EXCEPT !.at = place]
  <2>1. h = [ep |-> f.ep, req |-> f.req, at |-> place, my |-> f.my, res |-> f.res] BY <1>1
  <2>2. g = [h EXCEPT !.my = my] BY DEF Gone
  <2> HIDE DEF h, g
  <2> QED BY <2>1, <2>2
<1>3. my \in Locals BY <1>1 DEF Locals
<1>4. g \in Frames BY <1>1, <1>2, <1>3 DEF Frames
<1>5. ~Waits(f.ep, place) => \A e \in Eps : <<f.ep, place, e>> \notin Sites BY DEF Waits
<1> QED BY <1>2, <1>4, <1>5 DEF Heads

LEMMA FrameAnswered ==
  ASSUME NEW f \in Frames, NEW r \in Results
  PROVE  /\ Answered(f, r) \in Frames
         /\ Answered(f, r).ep = f.ep /\ Answered(f, r).req = f.req
         /\ Answered(f, r).at = f.at /\ Answered(f, r).my = f.my /\ Answered(f, r).res = r
         /\ (\A e \in Eps : <<f.ep, f.at, e>> \in Sites => r \in ReplyTo(e))
              => Answered(f, r) \in Heads
<1> DEFINE g == Answered(f, r)
<1>1. /\ f.ep \in Eps /\ f.req \in RequestOf[f.ep] /\ Place(f.ep, f.at) /\ f.at \in PlaceNames
      /\ f.my \in LocalsAt(f.ep, f.at) /\ f.req \in Requests /\ f.my \in Locals
      /\ f = [ep |-> f.ep, req |-> f.req, at |-> f.at, my |-> f.my, res |-> f.res]
  BY FrameParts
<1>2. g = [ep |-> f.ep, req |-> f.req, at |-> f.at, my |-> f.my, res |-> r]
  BY <1>1 DEF Answered
<1>3. g \in Frames BY <1>1, <1>2 DEF Frames
<1> QED BY <1>2, <1>3 DEF Heads

\* A frame with the endpoint and the request of another has its links.
LEMMA SameLinks ==
  ASSUME NEW f \in Frames, NEW g \in Frames, g.ep = f.ep, g.req = f.req
  PROVE  /\ f \in Bottoms => g \in Bottoms
         /\ \A x \in Frames : <<f, x>> \in Links => <<g, x>> \in Links
BY DEF Bottoms, Links, Bound

-----------------------------------------------------------------------------
(* The stacks of handlers. *)

LEMMA StackOf ==
  ASSUME CallsOK, NEW c \in Clients, call[c] # <<>>
  PROVE  /\ call[c] \in Calls /\ call[c] \in Seq(Frames) /\ Head(call[c]) = call[c][1]
         /\ Len(call[c]) \in Nat /\ Len(call[c]) >= 1
         /\ \A i \in 1 .. Len(call[c]) : call[c][i] \in Frames
         /\ call[c][1] \in Frames /\ call[c][1] \in Heads
         /\ call[c][Len(call[c])] \in Bottoms
         /\ \A i \in 1 .. Len(call[c]) - 1 : <<call[c][i], call[c][i + 1]>> \in Links
         /\ answer[c].ep = "none"
<1>1. call[c] \in Calls BY DEF CallsOK
<1>2. /\ call[c] \in Seq(Frames) /\ call[c][1] \in Heads /\ call[c][Len(call[c])] \in Bottoms
      /\ \A i \in 1 .. Len(call[c]) - 1 : <<call[c][i], call[c][i + 1]>> \in Links
  BY <1>1 DEF Calls, Stacks
<1>3. /\ Len(call[c]) \in Nat /\ Len(call[c]) >= 1 /\ Head(call[c]) = call[c][1]
      /\ \A i \in 1 .. Len(call[c]) : call[c][i] \in Frames
  BY <1>2, StackParts
<1> QED BY <1>1, <1>2, <1>3 DEF CallsOK

\* The one that waits for the innermost handler.
LEMMA SecondOf ==
  ASSUME CallsOK, NEW c \in Clients, call[c] # <<>>, Len(call[c]) # 1
  PROVE  /\ Len(call[c]) > 1 /\ call[c][2] \in Frames
         /\ <<call[c][2].ep, call[c][2].at, call[c][1].ep>> \in Sites
         /\ Bound(call[c][1], call[c][2])
<1>1. Len(call[c]) \in Nat /\ Len(call[c]) >= 1 BY StackOf
<1>2. /\ Len(call[c]) > 1 /\ 2 \in 1 .. Len(call[c])
      /\ 1 \in 1 .. Len(call[c]) - 1 /\ 1 + 1 = 2
  <2>1. \A n \in Nat : n >= 1 /\ n # 1 => /\ n > 1 /\ 2 \in 1 .. n
                                        /\ 1 \in 1 .. n - 1 /\ 1 + 1 = 2
    OBVIOUS
  <2> QED BY <1>1, <2>1
<1>3. \A i \in 1 .. Len(call[c]) - 1 : <<call[c][i], call[c][i + 1]>> \in Links BY StackOf
<1>4. <<call[c][1], call[c][2]>> \in Links BY <1>2, <1>3
<1>5. call[c][2] \in Frames BY <1>2, StackOf
<1> QED BY <1>2, <1>4, <1>5 DEF Links

\* What a handler waits for is no endpoint of a client.
LEMMA SecondIfCallee ==
  ASSUME CallsOK, NEW c \in Clients, call[c] # <<>>, call[c][1].ep \notin Entries
  PROVE  Len(call[c]) # 1
BY StackOf DEF Bottoms

\* The stack of a client becomes another one.
LEMMA BecameOK ==
  ASSUME CallsOK, NEW c \in Clients, call[c] # <<>>, NEW s \in Calls,
         call' = [call EXCEPT ![c] = s], UNCHANGED answer
  PROVE  CallsOK' /\ call'[c] = s /\ \A d \in Clients : d # c => call'[d] = call[d]
<1>1. answer[c].ep = "none" BY StackOf
<1>2. call = [d \in Clients |-> call[d]] /\ \A d \in Clients : call[d] \in Calls BY DEF CallsOK
<1>3. /\ call' = [d \in Clients |-> call'[d]] /\ call'[c] = s
      /\ \A d \in Clients : d # c => call'[d] = call[d]
  BY <1>2
<1>4. \A d \in Clients : call'[d] \in Calls BY <1>2, <1>3
<1>5. DOMAIN call' = Clients BY <1>3
<1> QED BY <1>1, <1>3, <1>4, <1>5 DEF CallsOK

\* The ways a step of c changes its stack: the request is over, the innermost
\* handler goes on, calls another one, or returns.
Bottom(c) == call[c][Len(call[c])]
Over(c, ok, r) ==
  /\ call'[c] = <<>>
  /\ answer'[c] = [ep |-> Bottom(c).ep, req |-> Bottom(c).req, ok |-> ok, res |-> r]
Went(c, place, my) ==
  /\ Len(call'[c]) = Len(call[c]) /\ answer'[c] = answer[c]
  /\ call'[c][1] = Gone(call[c][1], place, my)
  /\ \A i \in 2 .. Len(call[c]) : call'[c][i] = call[c][i]
Deeper(c, e, q, place, my) ==
  /\ Len(call'[c]) = Len(call[c]) + 1 /\ answer'[c] = answer[c]
  /\ call'[c][1] = Frame(e, q) /\ call'[c][2] = Gone(call[c][1], place, my)
  /\ \A i \in 3 .. Len(call[c]) + 1 : call'[c][i] = call[c][i - 1]
Back(c, r) ==
  /\ Len(call[c]) > 1 /\ Len(call'[c]) = Len(call[c]) - 1 /\ answer'[c] = answer[c]
  /\ call'[c][1] = Answered(call[c][2], r)
  /\ \A i \in 2 .. Len(call[c]) - 1 : call'[c][i] = call[c][i + 1]
Others(c) ==
  \A d \in Clients : d # c => call'[d] = call[d] /\ answer'[d] = answer[d]

LEMMA Ends ==
  ASSUME CallsOK, NEW c \in Clients, call[c] # <<>>, NEW ok \in BOOLEAN, NEW r \in Results,
         ok => Len(call[c]) = 1 /\ r \in ReplyTo(call[c][1].ep), Ended(c, ok, r)
  PROVE  CallsOK' /\ Over(c, ok, r) /\ Others(c)
<1> DEFINE first == call[c][Len(call[c])]
           a == [ep |-> first.ep, req |-> first.req, ok |-> ok, res |-> r]
<1>1. /\ call' = [call EXCEPT ![c] = <<>>] /\ answer' = [answer EXCEPT ![c] = a]
  BY DEF Ended
<1>2. first \in Frames /\ first.ep \in Entries BY StackOf DEF Bottoms
<1>3. a \in Answers BY <1>2, FrameParts DEF Answers
<1>4. /\ ok => r \in ReplyTo(first.ep)
      /\ first.req \in RequestOf[first.ep]
  BY <1>2, StackOf, FrameParts
<1>5. <<>> \in Calls BY EmptySeq DEF Calls, Stacks
<1>6. /\ call = [d \in Clients |-> call[d]] /\ \A d \in Clients : call[d] \in Calls
      /\ answer \in [Clients -> Answers]
  BY DEF CallsOK
<1> HIDE DEF a
<1>7. /\ call' = [d \in Clients |-> call'[d]] /\ answer' \in [Clients -> Answers]
      /\ call'[c] = <<>> /\ answer'[c] = a
      /\ \A d \in Clients : d # c => call'[d] = call[d] /\ answer'[d] = answer[d]
  BY <1>1, <1>3, <1>6
<1>8. DOMAIN call' = Clients /\ \A d \in Clients : call'[d] \in Calls BY <1>5, <1>6, <1>7
<1>9. a.ok = ok /\ a.ep = first.ep /\ a.res = r /\ a.req = first.req BY DEF a
<1>10. CallsOK' BY <1>2, <1>4, <1>7, <1>8, <1>9 DEF CallsOK
<1>11. Over(c, ok, r) BY <1>7 DEF a, Over, Bottom
<1>12. Others(c) BY <1>7 DEF Others
<1> QED BY <1>10, <1>11, <1>12

LEMMA Goes ==
  ASSUME CallsOK, NEW c \in Clients, call[c] # <<>>, NEW place \in PlaceNames,
         Place(call[c][1].ep, place), ~Waits(call[c][1].ep, place),
         NEW my \in LocalsAt(call[c][1].ep, place), Goto(c, place, my)
  PROVE  CallsOK' /\ Went(c, place, my) /\ Others(c)
<1> DEFINE f == call[c][1]
           g == Gone(f, place, my)
<1>1. f \in Frames /\ Head(call[c]) = f /\ call[c] \in Calls /\ call[c] \in Seq(Frames)
  BY StackOf
<1>2. g \in Frames /\ g.ep = f.ep /\ g.req = f.req /\ g \in Heads
  <2> HIDE DEF f
  <2>1. Place(f.ep, place) /\ ~Waits(f.ep, place) /\ my \in LocalsAt(f.ep, place) BY DEF f
  <2> QED BY <1>1, <2>1, FrameGoes
<1>3. call' = [call EXCEPT ![c] = <<g>> \o Tail(@)] /\ UNCHANGED answer BY <1>1 DEF Goto, Gone
<1> HIDE DEF g
<1> DEFINE s == <<g>> \o Tail(call[c])
<1>4. s \in Calls
  <2>1. g.ep = call[c][1].ep /\ g.req = call[c][1].req /\ call[c][1] \in Frames BY <1>1, <1>2
  <2>2. /\ call[c][1] \in Bottoms => g \in Bottoms
        /\ \A x \in Frames : <<call[c][1], x>> \in Links => <<g, x>> \in Links
    BY <1>2, <2>1, SameLinks
  <2> QED BY <1>1, <1>2, <2>2, StackReplaced DEF Calls
<1>5. Len(s) = Len(call[c]) /\ s[1] = g /\ \A i \in 2 .. Len(call[c]) : s[i] = call[c][i]
  BY <1>1, <1>2, TopReplaced
<1> HIDE DEF s
<1>6. call' = [call EXCEPT ![c] = s] BY <1>3 DEF s
<1>7. CallsOK' /\ call'[c] = s /\ \A d \in Clients : d # c => call'[d] = call[d]
  BY <1>3, <1>4, <1>6, BecameOK
<1> QED BY <1>3, <1>5, <1>7 DEF Went, Others, g

LEMMA Asking ==
  ASSUME CallsOK, NEW c \in Clients, call[c] # <<>>, NEW place, NEW e,
         <<call[c][1].ep, place, e>> \in Sites, NEW q \in RequestOf[e],
         NEW my \in LocalsAt(call[c][1].ep, place), Bound(Frame(e, q), Gone(call[c][1], place, my)),
         NEW service, InvokeWith(c, service, e, q, place, my), <<service, e>> \in up
  PROVE  CallsOK' /\ Deeper(c, e, q, place, my) /\ Others(c)
<1> DEFINE f == call[c][1]
           g == Gone(f, place, my)
           h == Frame(e, q)
<1>1. f \in Frames /\ Head(call[c]) = f /\ call[c] \in Calls /\ call[c] \in Seq(Frames)
  BY StackOf
<1>0. place \in PlaceNames /\ Place(f.ep, place) /\ e \in Eps BY SiteNames DEF PlaceNames, Place
<1>2. g \in Frames /\ g.ep = f.ep /\ g.req = f.req /\ g.at = place
  <2> HIDE DEF f
  <2>2. my \in LocalsAt(f.ep, place) BY DEF f
  <2> QED BY <1>0, <1>1, <2>2, FrameGoes
<1>3. h \in Frames /\ h \in Heads /\ h.ep = e BY <1>0, FrameStarts
<1>4. call' = [call EXCEPT ![c] = <<h, g>> \o Tail(@)] /\ UNCHANGED answer
  BY <1>1 DEF InvokeWith, performRequest, Gone
<1>5. <<h, g>> \in Links
  <2>1. Bound(h, g) /\ <<f.ep, place, e>> \in Sites OBVIOUS
  <2> HIDE DEF f, h, g
  <2> QED BY <1>2, <1>3, <2>1 DEF Links
<1> HIDE DEF g, h
<1> DEFINE s == <<h, g>> \o Tail(call[c])
<1>6. s \in Calls
  <2>1. g.ep = call[c][1].ep /\ g.req = call[c][1].req /\ call[c][1] \in Frames BY <1>1, <1>2
  <2>2. /\ call[c][1] \in Bottoms => g \in Bottoms
        /\ \A x \in Frames : <<call[c][1], x>> \in Links => <<g, x>> \in Links
    BY <1>2, <2>1, SameLinks
  <2> QED BY <1>1, <1>2, <1>3, <1>5, <2>2, StackCalls DEF Calls
<1>7. /\ Len(s) = Len(call[c]) + 1 /\ s[1] = h /\ s[2] = g
      /\ \A i \in 3 .. Len(call[c]) + 1 : s[i] = call[c][i - 1]
  BY <1>1, <1>2, <1>3, TopCalls
<1> HIDE DEF s
<1>8. call' = [call EXCEPT ![c] = s] BY <1>4 DEF s
<1>9. CallsOK' /\ call'[c] = s /\ \A d \in Clients : d # c => call'[d] = call[d]
  BY <1>4, <1>6, <1>8, BecameOK
<1> QED BY <1>4, <1>7, <1>9 DEF Deeper, Others, h, g

LEMMA Returning ==
  ASSUME CallsOK, NEW c \in Clients, call[c] # <<>>, NEW r \in ReplyTo(call[c][1].ep), Return(c, r)
  PROVE  /\ CallsOK' /\ Others(c)
         /\ \/ Len(call[c]) = 1 /\ Over(c, TRUE, r)
            \/ Back(c, r) /\ <<call[c][2].ep, call[c][2].at, call[c][1].ep>> \in Sites
<1> DEFINE f == call[c][2]
           g == Answered(f, r)
<1>0. call[c][1].ep \in Eps /\ r \in ReplyTo(call[c][1].ep) BY StackOf, FrameParts
<1>1. r \in Results BY <1>0 DEF Results
<1>2. CASE Len(call[c]) = 1
  <2>1. Ended(c, TRUE, r) BY <1>2 DEF Return
  <2> QED BY <1>0, <1>1, <1>2, <2>1, Ends
<1>3. CASE Len(call[c]) # 1
  <2>1. /\ Len(call[c]) > 1 /\ call[c] \in Calls /\ call[c] \in Seq(Frames)
        /\ f \in Frames /\ call[c][1] \in Frames /\ Head(call[c]) = call[c][1]
        /\ <<f.ep, f.at, call[c][1].ep>> \in Sites
    BY <1>3, StackOf, SecondOf
  <2>2. \A e \in Eps : <<f.ep, f.at, e>> \in Sites => r \in ReplyTo(e) BY <2>1, SiteNames
  <2>3. g \in Frames /\ g.ep = f.ep /\ g.req = f.req /\ g \in Heads
    <3> HIDE DEF f
    <3> QED BY <1>1, <2>1, <2>2, FrameAnswered
  <2>4. call' = [call EXCEPT ![c] = <<g>> \o Tail(Tail(@))] /\ UNCHANGED answer
    BY <1>3 DEF Return, Answered
  <2> HIDE DEF g
  <2> DEFINE s == <<g>> \o Tail(Tail(call[c]))
  <2>5. s \in Calls
    <3>1. /\ f \in Bottoms => g \in Bottoms
          /\ \A x \in Frames : <<f, x>> \in Links => <<g, x>> \in Links
      BY <2>1, <2>3, SameLinks
    <3> QED BY <2>1, <2>3, <3>1, StackReturns DEF Calls
  <2>6. /\ Len(s) = Len(call[c]) - 1 /\ s[1] = g
        /\ \A i \in 2 .. Len(call[c]) - 1 : s[i] = call[c][i + 1]
    <3>1. call[c] \in Seq(Frames) BY <2>1
    <3>2. Len(call[c]) > 1 BY <2>1
    <3>3. g \in Frames BY <2>3
    <3> DEFINE n == <<g>> \o Tail(Tail(call[c]))
    <3>4. /\ Len(n) = Len(call[c]) - 1 /\ n[1] = g
          /\ \A i \in 2 .. Len(call[c]) - 1 : n[i] = call[c][i + 1]
      BY <3>1, <3>2, <3>3, TopReturns
    <3> QED BY <3>4 DEF s
  <2> HIDE DEF s
  <2>7. call' = [call EXCEPT ![c] = s] BY <2>4 DEF s
  <2>8. CallsOK' /\ call'[c] = s /\ \A d \in Clients : d # c => call'[d] = call[d]
    BY <2>4, <2>5, <2>7, BecameOK
  <2> QED BY <2>1, <2>4, <2>6, <2>8 DEF Back, Others, g
<1> QED BY <1>2, <1>3

-----------------------------------------------------------------------------
(* What a handler f answers, and where, with what, it goes on or calls     *)
(* another one.                                                            *)

Gives(f, r) ==
  /\ f.ep = "ro_get_cart" => f.at = "loaded" /\ r.cart.items = Items(f.my)
  /\ f.ep = "ro_view_cart" => f.at = "passed" /\ r.c = f.res.cart
  /\ f.ep = "add_item" => f.at = "appended"
  /\ f.ep = "checkout" => f.at = "passed"
  /\ f.ep = "place_order" => f.at = "emptied"
  /\ f.ep = "charge" => r.error = ErrorOf(f.req.card)
  /\ f.ep = "add_product" => f.at = "read"
  /\ f.ep = "add_products" => f.at = "next"

GoesTo(f, place, my) ==
  /\ <<f.ep, place>> \in Pauses
  /\ f.ep = "add_item" =>
       \/ f.at = "start" /\ place = "loaded" /\ my = _localGetCart(f.req.user)
       \/ /\ f.at = "loaded" /\ place = "appended" /\ ~Room(f.my)
          /\ my = [array |-> Len(arrays) + 1, len |-> f.my.len + 1]
       \/ f.at = "loaded" /\ place = "wroteProduct" /\ Room(f.my) /\ my = f.my
       \/ f.at = "wroteProduct" /\ place = "appended" /\ my = [f.my EXCEPT !.len = @ + 1]
  /\ f.ep = "ro_get_cart" => my = _localGetCart(f.req.user)
  /\ f.ep = "add_product" => f.at = "start" /\ my.list = products
  /\ f.ep = "add_products" =>
       \/ /\ f.at = "start" /\ place = "next"
          /\ my.left = <<>> \/ Len(products) + Len(my.left) <= CatalogSize
       \/ f.at = "next" /\ place = "read" /\ my.left = f.my.left /\ my.list = products
       \/ f.at = "read" /\ place = "next" /\ my.left = Tail(f.my.left)
  /\ f.ep = "place_order" => f.at \in {"gotCart", "gotPrice"}

Seeks(f, e, q, place, my) ==
  /\ Bound(Frame(e, q), Gone(f, place, my))
  /\ e = "ship_order" => f.at = "charged" /\ f.res.error = "" /\ my = f.my
  /\ e = "empty_cart" => f.at = "shipped" /\ my = f.my
  /\ f.ep = "place_order" /\ e \notin {"ship_order", "empty_cart"} =>
       f.at \notin {"charged", "shipped", "emptied"}
  /\ f.ep \in {"checkout", "ro_view_cart"} => f.at = "start"

Fails(f) == f.ep \notin {"add_item", "charge"} /\ (Charged(f) => Broken)

Step(c) ==
  LET f == call[c][1] IN
  \/ Fails(f) /\ Panic(c)
  \/ \E r \in ReplyTo(f.ep) : Gives(f, r) /\ Return(c, r)
  \/ \E place \in PlaceNames : \E my \in LocalsAt(f.ep, place) :
       GoesTo(f, place, my) /\ Goto(c, place, my)
  \/ \E place \in PlaceNames, e \in Eps : \E my \in LocalsAt(f.ep, place), q \in RequestOf[e] :
       /\ <<f.ep, place, e>> \in Sites /\ Seeks(f, e, q, place, my)
       /\ \E s \in DOMAIN Endpoints : e \in Endpoints[s] /\ InvokeWith(c, s, e, q, place, my)

\* What such a step comes to.
Outcome(c) ==
  LET f == call[c][1] IN
  \/ Fails(f) /\ Over(c, FALSE, <<>>)
  \/ \E r \in ReplyTo(f.ep) : Gives(f, r) /\ Len(call[c]) = 1 /\ Over(c, TRUE, r)
  \/ \E r \in ReplyTo(f.ep) :
       Gives(f, r) /\ Back(c, r) /\ <<call[c][2].ep, call[c][2].at, f.ep>> \in Sites
  \/ \E place \in PlaceNames : \E my \in LocalsAt(f.ep, place) :
       GoesTo(f, place, my) /\ Went(c, place, my)
  \/ \E place \in PlaceNames, e \in Eps : \E my \in LocalsAt(f.ep, place), q \in RequestOf[e] :
       <<f.ep, place, e>> \in Sites /\ Seeks(f, e, q, place, my) /\ Deeper(c, e, q, place, my)

\* A service that cannot be asked has stopped.
LEMMA Refused ==
  ASSUME UpOK, NEW s \in DOMAIN Endpoints, NEW e \in Endpoints[s], <<s, e>> \notin up
  PROVE  /\ ~Listening(s)
         /\ e = "ship_order" => s = "shipping"
         /\ e = "empty_cart" => s = "cart"
<1>1. ~Listening(s) BY DEF UpOK
<1>2. /\ DOMAIN Endpoints = {"cart", "checkout", "currency", "email", "frontend", "payment",
                             "productcatalog", "recommendations", "shipping"}
      /\ Endpoints["cart"] = cartMain /\ Endpoints["checkout"] = checkoutMain
      /\ Endpoints["currency"] = currencyMain /\ Endpoints["email"] = emailMain
      /\ Endpoints["frontend"] = frontendMain /\ Endpoints["payment"] = paymentMain
      /\ Endpoints["productcatalog"] = productCatalogMain
      /\ Endpoints["recommendations"] = recommendationsMain
      /\ Endpoints["shipping"] = shippingMain
  BY DEF Endpoints
<1>3. ASSUME e = "ship_order", s # "shipping" PROVE FALSE
  BY <1>2, <1>3 DEF cartMain, checkoutMain, currencyMain, emailMain, frontendMain, paymentMain,
                   productCatalogMain, recommendationsMain, shippingMain
<1>4. ASSUME e = "empty_cart", s # "cart" PROVE FALSE
  BY <1>2, <1>4 DEF cartMain, checkoutMain, currencyMain, emailMain, frontendMain, paymentMain,
                   productCatalogMain, recommendationsMain, shippingMain
<1> QED BY <1>1, <1>3, <1>4

LEMMA StepOK ==
  ASSUME CallsOK, UpOK, NEW c \in Clients, call[c] # <<>>, Step(c)
  PROVE  CallsOK' /\ Others(c) /\ Outcome(c) /\ UNCHANGED up
<1> DEFINE f == call[c][1]
<1>1. ASSUME Fails(f), Panic(c) PROVE CallsOK' /\ Others(c) /\ Outcome(c) /\ UNCHANGED up
  <2>1. <<>> \in Results /\ FALSE \in BOOLEAN BY DEF Results
  <2>2. Ended(c, FALSE, <<>>) /\ UNCHANGED up BY <1>1 DEF Panic, Ended
  <2>3. CallsOK' /\ Over(c, FALSE, <<>>) /\ Others(c) BY <2>1, <2>2, Ends
  <2> QED BY <1>1, <2>2, <2>3 DEF Outcome
<1>2. ASSUME NEW r \in ReplyTo(f.ep), Gives(f, r), Return(c, r)
      PROVE  CallsOK' /\ Others(c) /\ Outcome(c) /\ UNCHANGED up
  <2>1. /\ CallsOK' /\ Others(c)
        /\ \/ Len(call[c]) = 1 /\ Over(c, TRUE, r)
           \/ Back(c, r) /\ <<call[c][2].ep, call[c][2].at, call[c][1].ep>> \in Sites
    BY <1>2, Returning
  <2>2. UNCHANGED up BY <1>2 DEF Return, Ended
  <2> QED BY <1>2, <2>1, <2>2 DEF Outcome
<1>3. ASSUME NEW place \in PlaceNames, NEW my \in LocalsAt(f.ep, place),
             GoesTo(f, place, my), Goto(c, place, my)
      PROVE  CallsOK' /\ Others(c) /\ Outcome(c) /\ UNCHANGED up
  <2>1. Place(f.ep, place) /\ ~Waits(f.ep, place) BY <1>3, PauseList DEF GoesTo
  <2>2. CallsOK' /\ Went(c, place, my) /\ Others(c) BY <1>3, <2>1, Goes
  <2>3. UNCHANGED up BY <1>3 DEF Goto
  <2> QED BY <1>3, <2>2, <2>3 DEF Outcome
<1>4. ASSUME NEW place \in PlaceNames, NEW e \in Eps, NEW my \in LocalsAt(f.ep, place),
             NEW q \in RequestOf[e], <<f.ep, place, e>> \in Sites, Seeks(f, e, q, place, my),
             NEW s \in DOMAIN Endpoints, e \in Endpoints[s], InvokeWith(c, s, e, q, place, my)
      PROVE  CallsOK' /\ Others(c) /\ Outcome(c) /\ UNCHANGED up
  <2>1. CASE <<s, e>> \in up
    <3>1. Bound(Frame(e, q), Gone(call[c][1], place, my)) BY <1>4 DEF Seeks
    <3>2. CallsOK' /\ Deeper(c, e, q, place, my) /\ Others(c) BY <1>4, <2>1, <3>1, Asking
    <3>3. UNCHANGED up BY <1>4, <2>1 DEF InvokeWith, performRequest
    <3> QED BY <1>4, <3>2, <3>3 DEF Outcome
  <2>2. CASE <<s, e>> \notin up
    <3>1. Panic(c) BY <1>4, <2>2 DEF InvokeWith, performRequest
    <3>2. f.ep \notin {"add_item", "charge"} BY <1>4, WaitsFor
    <3>3. ASSUME Charged(f) PROVE Broken
      <4>1. e \in {"ship_order", "empty_cart"}
        <5>1. f.ep \notin {"ship_order", "empty_cart"} BY <1>4, WaitsFor
        <5> QED BY <1>4, <3>3, <5>1 DEF Charged, Seeks
      <4>2. ~Listening(s) /\ s \in {"shipping", "cart"} BY <1>4, <2>2, <4>1, Refused
      <4> QED BY <4>2 DEF Broken
    <3> QED BY <1>1, <3>1, <3>2, <3>3 DEF Fails
  <2> QED BY <2>1, <2>2
<1> QED BY <1>1, <1>2, <1>3, <1>4 DEF Step

-----------------------------------------------------------------------------
(* Each handler takes such steps, and keeps the values of its service well *)
(* formed.                                                                 *)

LEMMA Serves ==
  ASSUME CallsOK, NEW c \in Clients, NEW e, Serving(c, e)
  PROVE  /\ call[c] # <<>> /\ e \in Eps /\ call[c][1].ep = e /\ Head(call[c]) = call[c][1]
         /\ Req(c) \in RequestOf[e] /\ call[c][1].req = Req(c)
         /\ call[c][1].my = My(c) /\ call[c][1].res = Res(c)
         /\ call[c][1] \in Frames /\ My(c) \in LocalsAt(e, call[c][1].at)
         /\ \A p : At(c, p) => call[c][1].at = p /\ My(c) \in LocalsAt(e, p)
         /\ \A p, callee : At(c, p) /\ <<e, p, callee>> \in Sites => Res(c) \in ReplyTo(callee)
<1>1. call[c] # <<>> /\ Head(call[c]).ep = e BY DEF Serving
<1>2. Head(call[c]) = call[c][1] /\ call[c][1] \in Frames /\ call[c][1] \in Heads
  BY <1>1, StackOf
<1>3. \A p, callee : <<e, p, callee>> \in Sites => callee \in Eps BY SiteNames
<1> QED BY <1>1, <1>2, <1>3, FrameParts DEF Req, My, At, Res, Heads

\* Handlers that call nobody.
LEMMA WaitsInit ==
  ASSUME NEW e \in {"init_currencies", "ro_get_currencies", "ro_convert_currency", "add_product",
                    "add_products", "add_item", "ro_get_cart"}, NEW p
  PROVE  ~Waits(e, p)
BY DEF Waits, Sites

LEMMA CallStep ==
  ASSUME CallsOK, NEW c \in Clients, NEW e, Serving(c, e), NEW place, NEW callee,
         <<e, place, callee>> \in Sites, NEW q \in RequestOf[callee],
         NEW my \in LocalsAt(e, place), Seeks(call[c][1], callee, q, place, my),
         NEW s \in DOMAIN Endpoints, callee \in Endpoints[s], InvokeWith(c, s, callee, q, place, my)
  PROVE  Step(c)
<1>1. call[c][1].ep = e BY Serves
<1>2. place \in PlaceNames /\ callee \in Eps BY SiteNames
<1> QED BY <1>1, <1>2 DEF Step

LEMMA ReturnStep ==
  ASSUME CallsOK, NEW c \in Clients, NEW e, Serving(c, e), NEW r \in ReplyTo(e),
         Gives(call[c][1], r), Return(c, r)
  PROVE  Step(c)
<1>1. call[c][1].ep = e BY Serves
<1> QED BY <1>1 DEF Step

LEMMA GotoStep ==
  ASSUME CallsOK, NEW c \in Clients, NEW e, Serving(c, e), NEW place,
         <<e, place>> \in Pauses, NEW my \in LocalsAt(e, place),
         GoesTo(call[c][1], place, my), Goto(c, place, my)
  PROVE  Step(c)
<1>1. call[c][1].ep = e BY Serves
<1>2. place \in PlaceNames BY PauseList
<1> QED BY <1>1, <1>2 DEF Step

LEMMA PanicStep ==
  ASSUME NEW c, call[c][1].ep \notin {"add_item", "charge"}, Charged(call[c][1]) => Broken, Panic(c)
  PROVE  Step(c)
BY DEF Step, Fails

\* What a step of c does to the state of the services.
Calm(f) ==
  /\ f.ep \notin {"ship_order", "empty_cart"}
  /\ f.ep = "add_item" => f.at = "start"
  /\ f.ep \in Adders => f.at # "read"
  /\ f.ep = "charge" => ErrorOf(f.req.card) # ""

Cells(f) == arrays[f.my.array].items
WithItem(f, item) ==
  IF f.my.len = Len(Cells(f)) THEN Append(Cells(f), item) ELSE [Cells(f) EXCEPT ![f.my.len + 1] = item]
Old(f) == IF f.my.len < Len(Cells(f)) THEN Cells(f)[f.my.len + 1].quantity ELSE 0

ProductAdded(f, p, others) ==
  /\ f.ep \in Adders /\ f.at = "read" /\ products' = Append(f.my.list, p)
  /\ raced' = raced \cup (IF others THEN {"catalog"} ELSE {})
  /\ UNCHANGED <<cartVars, payments, parcels>>
Ships(c, f) ==
  /\ f.ep = "ship_order" /\ parcels' = SetState(parcels, c, f.req.items)
  /\ UNCHANGED <<cartVars, products, payments, raced>>
Charges(c, f) ==
  /\ f.ep = "charge" /\ ErrorOf(f.req.card) = ""
  /\ payments' = SetState(payments, c, [amount |-> f.req.amount, order |-> call[c][2].my])
  /\ UNCHANGED <<cartVars, products, parcels, raced>>
Empties(f, held) ==
  /\ f.ep = "empty_cart"
  /\ carts' = SetState(carts, f.req.user, Empty) /\ log' = [log EXCEPT ![f.req.user] = <<>>]
  /\ raced' = IF held THEN raced \cup {f.req.user} ELSE raced \ {f.req.user}
  /\ UNCHANGED <<arrays, products, payments, parcels>>
Grows(f) ==
  /\ f.ep = "add_item" /\ f.at = "loaded" /\ ~Room(f.my)
  /\ arrays' = Append(arrays, Grown(f.my, ItemOf(f)))
  /\ UNCHANGED <<carts, log, raced, products, payments, parcels>>
SetsProduct(f) ==
  arrays' = [arrays EXCEPT ![f.my.array].items = WithItem(f, [ItemOf(f) EXCEPT !.quantity = Old(f)])]
SetsQuantity(f) ==
  arrays' = [arrays EXCEPT ![f.my.array].items[f.my.len + 1].quantity = f.req.quantity]
WritesProduct(f) ==
  /\ f.ep = "add_item" /\ f.at = "loaded" /\ Room(f.my)
  /\ SetsProduct(f)
  /\ UNCHANGED <<carts, log, raced, products, payments, parcels>>
WritesQuantity(f) ==
  /\ f.ep = "add_item" /\ f.at = "wroteProduct"
  /\ SetsQuantity(f)
  /\ UNCHANGED <<carts, log, raced, products, payments, parcels>>
StoresCart(f, held) ==
  /\ f.ep = "add_item" /\ f.at = "appended"
  /\ carts' = SetState(carts, f.req.user, f.my)
  /\ log' = [log EXCEPT ![f.req.user] = Append(@, ItemOf(f))]
  /\ raced' = IF held THEN raced \cup {f.req.user} ELSE raced
  /\ UNCHANGED <<arrays, products, payments, parcels>>

OthersAdd(c) == \E d \in Clients \ {c} : adds(d)
Changed(c) ==
  LET f == call[c][1] IN
  \/ UNCHANGED <<cartVars, products, payments, parcels, raced>> /\ Calm(f)
  \/ \E p \in Product : ProductAdded(f, p, OthersAdd(c))
  \/ Ships(c, f) \/ Charges(c, f)
  \/ Empties(f, Held(c, f.req.user)) \/ StoresCart(f, Held(c, f.req.user))
  \/ Grows(f) \/ WritesProduct(f) \/ WritesQuantity(f)

LEMMA StatesStay == ASSUME StatesOK, UNCHANGED state PROVE StatesOK'
BY DEF StatesOK, StateOf, state, cartVars

LEMMA RatesTyped ==
  ASSUME StatesOK, StateOf(rates', Currencies, Rate), UNCHANGED <<cartVars, products>>
  PROVE  StatesOK'
BY DEF StatesOK, StateOf, cartVars

\* A handler that leaves the state alone.
LEMMA Quiet ==
  ASSUME NEW c, StatesOK, UNCHANGED state, Calm(call[c][1])
  PROVE  StatesOK' /\ Changed(c)
BY StatesStay DEF Changed, state, cartVars

LEMMA ServedBy ==
  /\ \A s \in {"cart", "checkout", "currency", "payment", "productcatalog", "shipping"} :
       s \in DOMAIN Endpoints
  /\ "add_item" \in Endpoints["cart"] /\ "ro_get_cart" \in Endpoints["cart"]
  /\ "empty_cart" \in Endpoints["cart"] /\ "place_order" \in Endpoints["checkout"]
  /\ "set_currency" \in Endpoints["currency"] /\ "ro_get_currencies" \in Endpoints["currency"]
  /\ "ro_convert_currency" \in Endpoints["currency"] /\ "charge" \in Endpoints["payment"]
  /\ "ro_get_product" \in Endpoints["productcatalog"]
  /\ "ro_fetch_catalog" \in Endpoints["productcatalog"]
  /\ "ro_get_quote" \in Endpoints["shipping"] /\ "ship_order" \in Endpoints["shipping"]
BY DEF Endpoints, cartMain, checkoutMain, currencyMain, paymentMain, productCatalogMain, shippingMain

LEMMA NoLocals ==
  /\ \A e : LocalsAt(e, "start") = {<<>>} /\ LocalsAt(e, "passed") = {<<>>}
  /\ LocalsAt("ro_home", "gotCurrencies") = {<<>>}
  /\ LocalsAt("place_order", "gotCart") = {<<>>}
  /\ LocalsAt("ro_get_recommendations", "gotCatalog") = {<<>>}
BY DEF LocalsAt, HoldsSlice

LEMMA GoneParts ==
  ASSUME NEW f \in Frames, NEW place, NEW my
  PROVE  /\ Gone(f, place, my).ep = f.ep /\ Gone(f, place, my).req = f.req
         /\ Gone(f, place, my).at = place /\ Gone(f, place, my).my = my
         /\ Gone(f, place, my).res = f.res
<1> DEFINE h == [f EXCEPT !.at = place]  g == [h EXCEPT !.my = my]
<1>1. f = [ep |-> f.ep, req |-> f.req, at |-> f.at, my |-> f.my, res |-> f.res] BY FrameParts
<1>2. h = [ep |-> f.ep, req |-> f.req, at |-> place, my |-> f.my, res |-> f.res] BY <1>1
<1> HIDE DEF h
<1>3. g = [ep |-> f.ep, req |-> f.req, at |-> place, my |-> my, res |-> f.res] BY <1>2
<1>4. Gone(f, place, my) = g BY DEF Gone, h
<1> HIDE DEF g
<1> QED BY <1>3, <1>4

\* A call before any money is taken.
LEMMA SeeksPlain ==
  ASSUME NEW f \in Frames, NEW e, NEW q, NEW place, NEW my,
         e \notin {"ship_order", "empty_cart", "charge"},
         e \in {"add_item", "place_order"} => q = f.req,
         e = "ro_get_cart" => q.user = f.req.user,
         f.ep = "place_order" => f.at \notin {"charged", "shipped", "emptied"},
         f.ep \in {"checkout", "ro_view_cart"} => f.at = "start"
  PROVE  Seeks(f, e, q, place, my)
<1>1. Gone(f, place, my).req = f.req BY GoneParts
<1>2. Frame(e, q).ep = e /\ Frame(e, q).req = q BY DEF Frame
<1>3. Bound(Frame(e, q), Gone(f, place, my)) BY <1>1, <1>2 DEF Bound
<1> QED BY <1>3 DEF Seeks

-----------------------------------------------------------------------------
(* The frontend. *)

LEMMA FrontendSetCurrencyStep ==
  ASSUME CallsOK, NEW c \in Clients, frontendSetCurrency(c)
  PROVE  Step(c) /\ UNCHANGED state /\ Calm(call[c][1])
<1> DEFINE f == call[c][1]
           q == [currency |-> Req(c).cur]
           r == [text |-> "OK"]
<1>1. /\ Serving(c, "frontend_set_currency") /\ UNCHANGED state
      /\ \/ At(c, "start") /\ Invoke(c, "currency", "set_currency", q, "passed")
         \/ At(c, "passed") /\ Return(c, r)
  BY DEF frontendSetCurrency, FrontendSetCurrency, Passes
<1>2. /\ f \in Frames /\ f.ep = "frontend_set_currency" /\ f.req = Req(c) /\ f.res = Res(c)
      /\ Req(c) \in FrontendSetCurrencyRequest
  <2>1. RequestOf["frontend_set_currency"] = FrontendSetCurrencyRequest BY DEF RequestOf
  <2> QED BY <1>1, <2>1, Serves
<1>3. Calm(f) BY <1>2 DEF Calm, Adders
<1>4. <<"frontend_set_currency", "passed", "set_currency">> \in Sites BY SiteList
<1>5. CASE At(c, "start") /\ Invoke(c, "currency", "set_currency", q, "passed")
  <2>1. f.at = "start" /\ My(c) = <<>> BY <1>1, <1>5, Serves, NoLocals
  <2>2. RequestOf["set_currency"] = SetCurrencySupportRequest BY DEF RequestOf
  <2>3. q \in SetCurrencySupportRequest BY <1>2 DEF FrontendSetCurrencyRequest, SetCurrencySupportRequest
  <2>4. q = [currency |-> f.req.cur]
    BY <1>2
  <2>5. Seeks(f, "set_currency", q, "passed", <<>>)
    <3> HIDE DEF f, q
    <3> QED BY <1>2, <2>1, <2>4, SeeksPlain
  <2>6. InvokeWith(c, "currency", "set_currency", q, "passed", <<>>) BY <1>5, <2>1 DEF Invoke, InvokeWith
  <2>7. <<>> \in LocalsAt("frontend_set_currency", "passed") BY NoLocals
  <2> HIDE DEF q
  <2> QED BY <1>1, <1>3, <1>4, <2>2, <2>3, <2>5, <2>6, <2>7, CallStep, ServedBy
<1>6. CASE At(c, "passed") /\ Return(c, r)
  <2>1. f.at = "passed" BY <1>1, <1>6, Serves
  <2>2. Res(c) \in ReplyTo("set_currency") BY <1>1, <1>4, <1>6, Serves
  <2>3. ReplyTo("set_currency") = SetCurrencySupportResponse BY Names DEF ReplyTo
  <2>4. ReplyTo("frontend_set_currency") = FrontendSetCurrencyResponse BY Names DEF ReplyTo, ResponseOf
  <2>5. r \in FrontendSetCurrencyResponse BY <2>2, <2>3 DEF FrontendSetCurrencyResponse, SetCurrencySupportResponse
  <2>6. Gives(f, r)
    <3>1. r = [text |-> "OK"]
      BY <1>2
    <3> HIDE DEF f, r
    <3> QED BY <1>2, <2>1, <3>1 DEF Gives
  <2> HIDE DEF r
  <2> QED BY <1>1, <1>3, <1>6, <2>4, <2>5, <2>6, ReturnStep
<1> QED BY <1>1, <1>5, <1>6

LEMMA BrowseProductStep ==
  ASSUME CallsOK, NEW c \in Clients, browseProduct(c)
  PROVE  Step(c) /\ UNCHANGED state /\ Calm(call[c][1])
<1> DEFINE f == call[c][1]
           q == [product |-> Req(c).product]
           r == [prod |-> Res(c).product]
<1>1. /\ Serving(c, "ro_browse_product") /\ UNCHANGED state
      /\ \/ At(c, "start") /\ Invoke(c, "productcatalog", "ro_get_product", q, "passed")
         \/ At(c, "passed") /\ Return(c, r)
  BY DEF browseProduct, BrowseProduct, Passes
<1>2. /\ f \in Frames /\ f.ep = "ro_browse_product" /\ f.req = Req(c) /\ f.res = Res(c)
      /\ Req(c) \in BrowseProductRequest
  <2>1. RequestOf["ro_browse_product"] = BrowseProductRequest BY DEF RequestOf
  <2> QED BY <1>1, <2>1, Serves
<1>3. Calm(f) BY <1>2 DEF Calm, Adders
<1>4. <<"ro_browse_product", "passed", "ro_get_product">> \in Sites BY SiteList
<1>5. CASE At(c, "start") /\ Invoke(c, "productcatalog", "ro_get_product", q, "passed")
  <2>1. f.at = "start" /\ My(c) = <<>> BY <1>1, <1>5, Serves, NoLocals
  <2>2. RequestOf["ro_get_product"] = GetProductRequest BY DEF RequestOf
  <2>3. q \in GetProductRequest BY <1>2 DEF BrowseProductRequest, GetProductRequest
  <2>4. q = [product |-> f.req.product]
    BY <1>2
  <2>5. Seeks(f, "ro_get_product", q, "passed", <<>>)
    <3> HIDE DEF f, q
    <3> QED BY <1>2, <2>1, <2>4, SeeksPlain
  <2>6. InvokeWith(c, "productcatalog", "ro_get_product", q, "passed", <<>>) BY <1>5, <2>1 DEF Invoke, InvokeWith
  <2>7. <<>> \in LocalsAt("ro_browse_product", "passed") BY NoLocals
  <2> HIDE DEF q
  <2> QED BY <1>1, <1>3, <1>4, <2>2, <2>3, <2>5, <2>6, <2>7, CallStep, ServedBy
<1>6. CASE At(c, "passed") /\ Return(c, r)
  <2>1. f.at = "passed" BY <1>1, <1>6, Serves
  <2>2. Res(c) \in ReplyTo("ro_get_product") BY <1>1, <1>4, <1>6, Serves
  <2>3. ReplyTo("ro_get_product") = GetProductResponse BY Names DEF ReplyTo
  <2>4. ReplyTo("ro_browse_product") = BrowseProductResponse BY Names DEF ReplyTo, ResponseOf
  <2>5. r \in BrowseProductResponse
    <3>1. PICK p : p = Res(c) OBVIOUS
    <3>2. p.product \in Product \cup {NoProduct} BY <2>2, <2>3, <3>1 DEF GetProductResponse
    <3>3. r = [prod |-> p.product] BY <3>1
    <3> HIDE DEF r
    <3> QED BY <3>2, <3>3 DEF BrowseProductResponse
  <2>6. Gives(f, r)
    <3>1. r = [prod |-> f.res.product]
      BY <1>2
    <3> HIDE DEF f, r
    <3> QED BY <1>2, <2>1, <3>1 DEF Gives
  <2> HIDE DEF r
  <2> QED BY <1>1, <1>3, <1>6, <2>4, <2>5, <2>6, ReturnStep
<1> QED BY <1>1, <1>5, <1>6

LEMMA AddToCartStep ==
  ASSUME CallsOK, NEW c \in Clients, addToCart(c)
  PROVE  Step(c) /\ UNCHANGED state /\ Calm(call[c][1])
<1> DEFINE f == call[c][1]
           q == Req(c)
           r == [ok |-> Res(c).ok]
<1>1. /\ Serving(c, "add_to_cart") /\ UNCHANGED state
      /\ \/ At(c, "start") /\ Invoke(c, "cart", "add_item", q, "passed")
         \/ At(c, "passed") /\ Return(c, r)
  BY DEF addToCart, AddToCart, Passes
<1>2. /\ f \in Frames /\ f.ep = "add_to_cart" /\ f.req = Req(c) /\ f.res = Res(c)
      /\ Req(c) \in AddToCartRequest
  <2>1. RequestOf["add_to_cart"] = AddToCartRequest BY DEF RequestOf
  <2> QED BY <1>1, <2>1, Serves
<1>3. Calm(f) BY <1>2 DEF Calm, Adders
<1>4. <<"add_to_cart", "passed", "add_item">> \in Sites BY SiteList
<1>5. CASE At(c, "start") /\ Invoke(c, "cart", "add_item", q, "passed")
  <2>1. f.at = "start" /\ My(c) = <<>> BY <1>1, <1>5, Serves, NoLocals
  <2>2. RequestOf["add_item"] = AddItemRequest BY DEF RequestOf
  <2>3. q \in AddItemRequest BY <1>2 DEF AddToCartRequest, AddItemRequest
  <2>4. q = f.req
    BY <1>2
  <2>5. Seeks(f, "add_item", q, "passed", <<>>)
    <3> HIDE DEF f, q
    <3> QED BY <1>2, <2>1, <2>4, SeeksPlain
  <2>6. InvokeWith(c, "cart", "add_item", q, "passed", <<>>) BY <1>5, <2>1 DEF Invoke, InvokeWith
  <2>7. <<>> \in LocalsAt("add_to_cart", "passed") BY NoLocals
  <2> HIDE DEF q
  <2> QED BY <1>1, <1>3, <1>4, <2>2, <2>3, <2>5, <2>6, <2>7, CallStep, ServedBy
<1>6. CASE At(c, "passed") /\ Return(c, r)
  <2>1. f.at = "passed" BY <1>1, <1>6, Serves
  <2>2. Res(c) \in ReplyTo("add_item") BY <1>1, <1>4, <1>6, Serves
  <2>3. ReplyTo("add_item") = AddItemResponse BY Names DEF ReplyTo
  <2>4. ReplyTo("add_to_cart") = AddToCartResponse BY Names DEF ReplyTo, ResponseOf
  <2>5. r \in AddToCartResponse BY <2>2, <2>3 DEF AddToCartResponse, AddItemResponse
  <2>6. Gives(f, r)
    <3>1. r = [ok |-> f.res.ok]
      BY <1>2
    <3> HIDE DEF f, r
    <3> QED BY <1>2, <2>1, <3>1 DEF Gives
  <2> HIDE DEF r
  <2> QED BY <1>1, <1>3, <1>6, <2>4, <2>5, <2>6, ReturnStep
<1> QED BY <1>1, <1>5, <1>6

LEMMA ViewCartStep ==
  ASSUME CallsOK, NEW c \in Clients, viewCart(c)
  PROVE  Step(c) /\ UNCHANGED state /\ Calm(call[c][1])
<1> DEFINE f == call[c][1]
           q == [user |-> Req(c).user]
           r == [c |-> Res(c).cart]
<1>1. /\ Serving(c, "ro_view_cart") /\ UNCHANGED state
      /\ \/ At(c, "start") /\ Invoke(c, "cart", "ro_get_cart", q, "passed")
         \/ At(c, "passed") /\ Return(c, r)
  BY DEF viewCart, ViewCart, Passes
<1>2. /\ f \in Frames /\ f.ep = "ro_view_cart" /\ f.req = Req(c) /\ f.res = Res(c)
      /\ Req(c) \in ViewCartRequest
  <2>1. RequestOf["ro_view_cart"] = ViewCartRequest BY DEF RequestOf
  <2> QED BY <1>1, <2>1, Serves
<1>3. Calm(f) BY <1>2 DEF Calm, Adders
<1>4. <<"ro_view_cart", "passed", "ro_get_cart">> \in Sites BY SiteList
<1>5. CASE At(c, "start") /\ Invoke(c, "cart", "ro_get_cart", q, "passed")
  <2>1. f.at = "start" /\ My(c) = <<>> BY <1>1, <1>5, Serves, NoLocals
  <2>2. RequestOf["ro_get_cart"] = GetCartRequest BY DEF RequestOf
  <2>3. q \in GetCartRequest BY <1>2 DEF ViewCartRequest, GetCartRequest
  <2>4. q.user = f.req.user
    BY <1>2
  <2>5. Seeks(f, "ro_get_cart", q, "passed", <<>>)
    <3> HIDE DEF f, q
    <3> QED BY <1>2, <2>1, <2>4, SeeksPlain
  <2>6. InvokeWith(c, "cart", "ro_get_cart", q, "passed", <<>>) BY <1>5, <2>1 DEF Invoke, InvokeWith
  <2>7. <<>> \in LocalsAt("ro_view_cart", "passed") BY NoLocals
  <2> HIDE DEF q
  <2> QED BY <1>1, <1>3, <1>4, <2>2, <2>3, <2>5, <2>6, <2>7, CallStep, ServedBy
<1>6. CASE At(c, "passed") /\ Return(c, r)
  <2>1. f.at = "passed" BY <1>1, <1>6, Serves
  <2>2. Res(c) \in ReplyTo("ro_get_cart") BY <1>1, <1>4, <1>6, Serves
  <2>3. ReplyTo("ro_get_cart") = GetCartResponse BY Names DEF ReplyTo
  <2>4. ReplyTo("ro_view_cart") = ViewCartResponse BY Names DEF ReplyTo, ResponseOf
  <2>5. r \in ViewCartResponse
    <3>1. Res(c) \in GetCartResponse BY <2>2, <2>3
    <3>2. Res(c).cart \in Cart BY <3>1 DEF GetCartResponse
    <3> QED BY <3>2 DEF ViewCartResponse
  <2>6. Gives(f, r)
    <3>1. r.c = f.res.cart
      BY <1>2
    <3> HIDE DEF f, r
    <3> QED BY <1>2, <2>1, <3>1 DEF Gives
  <2> HIDE DEF r
  <2> QED BY <1>1, <1>3, <1>6, <2>4, <2>5, <2>6, ReturnStep
<1> QED BY <1>1, <1>5, <1>6

LEMMA CheckoutStep ==
  ASSUME CallsOK, NEW c \in Clients, checkout(c)
  PROVE  Step(c) /\ UNCHANGED state /\ Calm(call[c][1])
<1> DEFINE f == call[c][1]
           q == Req(c)
           r == [res |-> Res(c).order]
<1>1. /\ Serving(c, "checkout") /\ UNCHANGED state
      /\ \/ At(c, "start") /\ Invoke(c, "checkout", "place_order", q, "passed")
         \/ At(c, "passed") /\ Return(c, r)
  BY DEF checkout, Checkout, Passes
<1>2. /\ f \in Frames /\ f.ep = "checkout" /\ f.req = Req(c) /\ f.res = Res(c)
      /\ Req(c) \in CheckoutRequest
  <2>1. RequestOf["checkout"] = CheckoutRequest BY DEF RequestOf
  <2> QED BY <1>1, <2>1, Serves
<1>3. Calm(f) BY <1>2 DEF Calm, Adders
<1>4. <<"checkout", "passed", "place_order">> \in Sites BY SiteList
<1>5. CASE At(c, "start") /\ Invoke(c, "checkout", "place_order", q, "passed")
  <2>1. f.at = "start" /\ My(c) = <<>> BY <1>1, <1>5, Serves, NoLocals
  <2>2. RequestOf["place_order"] = PlaceOrderRequest BY DEF RequestOf
  <2>3. q \in PlaceOrderRequest BY <1>2 DEF CheckoutRequest, PlaceOrderRequest
  <2>4. q = f.req
    BY <1>2
  <2>5. Seeks(f, "place_order", q, "passed", <<>>)
    <3> HIDE DEF f, q
    <3> QED BY <1>2, <2>1, <2>4, SeeksPlain
  <2>6. InvokeWith(c, "checkout", "place_order", q, "passed", <<>>) BY <1>5, <2>1 DEF Invoke, InvokeWith
  <2>7. <<>> \in LocalsAt("checkout", "passed") BY NoLocals
  <2> HIDE DEF q
  <2> QED BY <1>1, <1>3, <1>4, <2>2, <2>3, <2>5, <2>6, <2>7, CallStep, ServedBy
<1>6. CASE At(c, "passed") /\ Return(c, r)
  <2>1. f.at = "passed" BY <1>1, <1>6, Serves
  <2>2. Res(c) \in ReplyTo("place_order") BY <1>1, <1>4, <1>6, Serves
  <2>3. ReplyTo("place_order") = PlaceOrderResponse BY Names DEF ReplyTo
  <2>4. ReplyTo("checkout") = CheckoutResponse BY Names DEF ReplyTo, ResponseOf
  <2>5. r \in CheckoutResponse
    <3>1. Res(c) \in PlaceOrderResponse BY <2>2, <2>3
    <3>2. Res(c).order \in OrderResult BY <3>1 DEF PlaceOrderResponse
    <3> QED BY <3>2 DEF CheckoutResponse
  <2>6. Gives(f, r)
    <3>1. r = [res |-> f.res.order]
      BY <1>2
    <3> HIDE DEF f, r
    <3> QED BY <1>2, <2>1, <3>1 DEF Gives
  <2> HIDE DEF r
  <2> QED BY <1>1, <1>3, <1>6, <2>4, <2>5, <2>6, ReturnStep
<1> QED BY <1>1, <1>5, <1>6

LEMMA HomeStep ==
  ASSUME CallsOK, NEW c \in Clients, home(c)
  PROVE  Step(c) /\ UNCHANGED state /\ Calm(call[c][1])
<1> DEFINE f == call[c][1]
           u == Req(c).user
           size == Req(c).size
           m1 == [currencies |-> Res(c).currencies]
           m2 == [currencies |-> My(c).currencies, cart |-> Res(c).cart]
           r == [currencies |-> My(c).currencies, cart |-> My(c).cart, products |-> Res(c).catalog]
<1>1. Serving(c, "ro_home") /\ UNCHANGED state /\ Home(c, u, size) BY DEF home, Home
<1>2. f \in Frames /\ f.ep = "ro_home" /\ f.req.user = u /\ u \in Users /\ size \in Nat
  <2>1. RequestOf["ro_home"] = HomeRequest BY DEF RequestOf
  <2>2. Req(c) \in HomeRequest BY <1>1, <2>1, Serves
  <2>3. call[c][1] \in Frames /\ call[c][1].ep = "ro_home" /\ call[c][1].req = Req(c) BY <1>1, Serves
  <2> QED BY <2>2, <2>3 DEF HomeRequest
<1>3. Calm(f) BY <1>2 DEF Calm, Adders
<1>4. /\ <<"ro_home", "gotCurrencies", "ro_get_currencies">> \in Sites
      /\ <<"ro_home", "gotUserCart", "ro_get_cart">> \in Sites
      /\ <<"ro_home", "gotPage", "ro_fetch_catalog">> \in Sites
  BY SiteList
<1>5. /\ RequestOf["ro_get_currencies"] = {<<>>} /\ RequestOf["ro_get_cart"] = GetCartRequest
      /\ RequestOf["ro_fetch_catalog"] = FetchCatalogRequest
      /\ ReplyTo("ro_get_currencies") = GetSupportedCurrenciesResponse
      /\ ReplyTo("ro_get_cart") = GetCartResponse /\ ReplyTo("ro_fetch_catalog") = FetchCatalogResponse
      /\ ReplyTo("ro_home") = HomeResponse
  BY Names DEF RequestOf, ReplyTo, ResponseOf, GetSupportedCurrenciesRequest
<1>6. /\ LocalsAt("ro_home", "gotUserCart") = [currencies : Seq(Currency)]
      /\ LocalsAt("ro_home", "gotPage") = [currencies : Seq(Currency), cart : Cart]
  BY DEF LocalsAt, HoldsSlice
<1>7. ASSUME NEW k, NEW q, NEW place, NEW my, k \in {"ro_get_currencies", "ro_get_cart", "ro_fetch_catalog"},
             k = "ro_get_cart" => q.user = u
      PROVE  Seeks(f, k, q, place, my)
  <2> HIDE DEF f
  <2> QED BY <1>2, <1>7, SeeksPlain
<1>8. CASE At(c, "start") /\ Invoke(c, "currency", "ro_get_currencies", <<>>, "gotCurrencies")
  <2>1. My(c) = <<>> /\ <<>> \in LocalsAt("ro_home", "gotCurrencies") BY <1>1, <1>8, Serves, NoLocals
  <2>2. InvokeWith(c, "currency", "ro_get_currencies", <<>>, "gotCurrencies", <<>>)
    BY <1>8, <2>1 DEF Invoke, InvokeWith
  <2>3. Seeks(f, "ro_get_currencies", <<>>, "gotCurrencies", <<>>) BY <1>7
  <2> QED BY <1>1, <1>3, <1>4, <1>5, <2>1, <2>2, <2>3, CallStep, ServedBy
<1>9. CASE At(c, "gotCurrencies") /\ InvokeWith(c, "cart", "ro_get_cart", [user |-> u], "gotUserCart", m1)
  <2>1. Res(c) \in GetSupportedCurrenciesResponse BY <1>1, <1>4, <1>5, <1>9, Serves
  <2>2. m1 \in LocalsAt("ro_home", "gotUserCart") BY <1>6, <2>1 DEF GetSupportedCurrenciesResponse
  <2>3. [user |-> u] \in GetCartRequest BY <1>2 DEF GetCartRequest
  <2>4. Seeks(f, "ro_get_cart", [user |-> u], "gotUserCart", m1) BY <1>7
  <2> HIDE DEF m1
  <2> QED BY <1>1, <1>3, <1>4, <1>5, <1>9, <2>2, <2>3, <2>4, CallStep, ServedBy
<1>10. CASE At(c, "gotUserCart") /\ InvokeWith(c, "productcatalog", "ro_fetch_catalog", [size |-> size], "gotPage", m2)
  <2>1. Res(c) \in GetCartResponse BY <1>1, <1>4, <1>5, <1>10, Serves
  <2>2. My(c) \in [currencies : Seq(Currency)] BY <1>1, <1>6, <1>10, Serves
  <2>3. m2 \in LocalsAt("ro_home", "gotPage") BY <1>6, <2>1, <2>2 DEF GetCartResponse
  <2>4. [size |-> size] \in FetchCatalogRequest BY <1>2 DEF FetchCatalogRequest
  <2>5. Seeks(f, "ro_fetch_catalog", [size |-> size], "gotPage", m2) BY <1>7
  <2> HIDE DEF m2
  <2> QED BY <1>1, <1>3, <1>4, <1>5, <1>10, <2>3, <2>4, <2>5, CallStep, ServedBy
<1>11. CASE At(c, "gotPage") /\ Return(c, r)
  <2>1. Res(c) \in FetchCatalogResponse BY <1>1, <1>4, <1>5, <1>11, Serves
  <2>2. My(c) \in [currencies : Seq(Currency), cart : Cart] BY <1>1, <1>6, <1>11, Serves
  <2>3. r \in HomeResponse BY <2>1, <2>2 DEF FetchCatalogResponse, HomeResponse
  <2>4. Gives(f, r)
    <3> HIDE DEF f, r
    <3> QED BY <1>2 DEF Gives
  <2> HIDE DEF r
  <2> QED BY <1>1, <1>3, <1>5, <1>11, <2>3, <2>4, ReturnStep
<1> QED BY <1>1, <1>8, <1>9, <1>10, <1>11 DEF Home


-----------------------------------------------------------------------------
(* Currencies. *)

LEMMA SetCurrencyStep ==
  ASSUME CallsOK, StatesOK, NEW c \in Clients, setCurrency(c)
  PROVE  Step(c) /\ StatesOK' /\ Changed(c)
<1> DEFINE cur == Req(c).currency
           r == [ok |-> TRUE]
<1>1. Serving(c, "set_currency") /\ SetCurrencySupport(c, cur) BY DEF setCurrency
<1>2. call[c][1].ep = "set_currency" /\ cur.code \in Currencies /\ cur.rate \in Rate
  <2>1. RequestOf["set_currency"] = SetCurrencySupportRequest BY DEF RequestOf
  <2>2. Req(c) \in SetCurrencySupportRequest BY <1>1, <2>1, Serves
  <2>3. call[c][1] \in Frames /\ call[c][1].ep = "set_currency" /\ call[c][1].req = Req(c) BY <1>1, Serves
  <2> QED BY <2>2, <2>3 DEF SetCurrencySupportRequest, Currency
<1>3. StatesOK'
  <2>1. StateOf(rates', Currencies, Rate) BY <1>1, <1>2, StoredType DEF StatesOK, SetCurrencySupport
  <2> QED BY <1>1, <2>1, RatesTyped DEF SetCurrencySupport
<1>4. Changed(c) BY <1>1, <1>2 DEF Changed, Calm, Adders, SetCurrencySupport
<1>5. r \in ReplyTo("set_currency") BY Names DEF ReplyTo, SetCurrencySupportResponse
<1>6. Return(c, r) BY <1>1 DEF SetCurrencySupport
<1>7. Gives(call[c][1], r) BY <1>2 DEF Gives
<1> HIDE DEF r
<1> QED BY <1>1, <1>3, <1>4, <1>5, <1>6, <1>7, ReturnStep

LEMMA InitCurrenciesStep ==
  ASSUME CallsOK, StatesOK, NEW c \in Clients, initCurrencies(c)
  PROVE  Step(c) /\ StatesOK' /\ Changed(c)
<1> DEFINE left == IF At(c, "start") THEN Req(c).currencies ELSE My(c).left
           my == [left |-> Tail(left)]
           r == [text |-> "OK"]
           f == call[c][1]
<1>1. /\ Serving(c, "init_currencies") /\ UNCHANGED <<cartVars, products, payments, parcels, raced>>
      /\ \/ /\ left # <<>> /\ rates' = SetState(rates, Head(left).code, Head(left).rate)
            /\ Goto(c, "next", my)
         \/ left = <<>> /\ Return(c, r) /\ UNCHANGED rates
  BY DEF initCurrencies, InitCurrencies
<1>2. f \in Frames /\ f.ep = "init_currencies" BY <1>1, Serves
<1>3. left \in Seq(Currency)
  <2>1. RequestOf["init_currencies"] = InitCurrencyRequest BY DEF RequestOf
  <2>2. Req(c).currencies \in Seq(Currency)
    <3>1. Req(c) \in InitCurrencyRequest BY <1>1, <2>1, Serves
    <3> QED BY <3>1 DEF InitCurrencyRequest
  <2>3. f.at = "start" \/ f.at = "next"
    <3>1. Place(f.ep, f.at) /\ ~Waits("init_currencies", f.at) BY <1>2, FrameParts, WaitsInit
    <3> QED BY <1>2, <3>1 DEF Place, Pauses
  <2>4. f.at = "next" => My(c) \in [left : Seq(Currency)]
    <3>1. LocalsAt("init_currencies", "next") = [left : Seq(Currency)] BY DEF LocalsAt, HoldsSlice
    <3> QED BY <1>1, <3>1, Serves
  <2>5. At(c, "start") <=> f.at = "start" BY <1>1, Serves DEF At
  <2> QED BY <2>2, <2>3, <2>4, <2>5
<1> HIDE DEF left
<1>4. Changed(c) BY <1>1, <1>2 DEF Changed, Calm, Adders
<1>5. CASE left # <<>> /\ rates' = SetState(rates, Head(left).code, Head(left).rate) /\ Goto(c, "next", my)
  <2>1. Head(left) \in Currency /\ Tail(left) \in Seq(Currency) BY <1>3, <1>5, StackParts
  <2>2. Head(left).code \in Currencies /\ Head(left).rate \in Rate BY <2>1 DEF Currency
  <2>3. StateOf(rates', Currencies, Rate) BY <1>5, <2>2, StoredType DEF StatesOK
  <2>4. StatesOK' BY <1>1, <2>3, RatesTyped
  <2>5. my \in LocalsAt("init_currencies", "next") BY <2>1 DEF LocalsAt, HoldsSlice
  <2> HIDE DEF my
  <2>6. GoesTo(f, "next", my) BY <1>2, PauseList DEF GoesTo
  <2> QED BY <1>1, <1>4, <1>5, <2>4, <2>5, <2>6, GotoStep, PauseList
<1>6. CASE left = <<>> /\ Return(c, r) /\ UNCHANGED rates
  <2>1. StatesOK' BY <1>1, <1>6, StatesStay DEF state
  <2>2. r \in ReplyTo("init_currencies") BY Names DEF ReplyTo, ResponseOf, InitCurrencyResponse
  <2>3. Gives(f, r) BY <1>2 DEF Gives
  <2> HIDE DEF r
  <2> QED BY <1>1, <1>4, <1>6, <2>1, <2>2, <2>3, ReturnStep
<1> QED BY <1>1, <1>5, <1>6

LEMMA GetCurrenciesStep ==
  ASSUME CallsOK, StatesOK, NEW c \in Clients, getCurrencies(c)
  PROVE  Step(c) /\ UNCHANGED state /\ Calm(call[c][1])
<1> DEFINE found == IF At(c, "start") THEN <<>> ELSE My(c).found
           left == DOMAIN rates \ {found[i].code : i \in DOMAIN found}
           f == call[c][1]
           r == [currencies |-> found]
<1>1. /\ Serving(c, "ro_get_currencies") /\ UNCHANGED state
      /\ \/ left = {} /\ Return(c, r)
         \/ \E code \in left :
              Goto(c, "ranging", [found |-> Append(found, [code |-> code, rate |-> rates[code]])])
  BY DEF getCurrencies, GetSupportedCurrencies
<1>2. f \in Frames /\ f.ep = "ro_get_currencies" BY <1>1, Serves
<1>3. found \in Seq(Currency)
  <2>1. f.at = "start" \/ f.at = "ranging"
    <3>1. Place(f.ep, f.at) /\ ~Waits("ro_get_currencies", f.at) BY <1>2, FrameParts, WaitsInit
    <3> QED BY <1>2, <3>1 DEF Place, Pauses
  <2>2. f.at = "ranging" => My(c) \in [found : Seq(Currency)]
    <3>1. LocalsAt("ro_get_currencies", "ranging") = [found : Seq(Currency)] BY DEF LocalsAt, HoldsSlice
    <3> QED BY <1>1, <3>1, Serves
  <2>3. At(c, "start") <=> f.at = "start" BY <1>1, Serves DEF At
  <2> QED BY <2>1, <2>2, <2>3, EmptySeq
<1>4. left \subseteq DOMAIN rates OBVIOUS
<1> HIDE DEF found, left
<1>5. Calm(f) BY <1>2 DEF Calm, Adders
<1>6. CASE left = {} /\ Return(c, r)
  <2>1. r \in ReplyTo("ro_get_currencies") BY <1>3, Names DEF ReplyTo, GetSupportedCurrenciesResponse
  <2>2. Gives(f, r) BY <1>2 DEF Gives
  <2> HIDE DEF r
  <2> QED BY <1>1, <1>5, <1>6, <2>1, <2>2, ReturnStep
<1>7. ASSUME NEW code \in left,
             Goto(c, "ranging", [found |-> Append(found, [code |-> code, rate |-> rates[code]])])
      PROVE  Step(c)
  <2> DEFINE my == [found |-> Append(found, [code |-> code, rate |-> rates[code]])]
  <2>1. [code |-> code, rate |-> rates[code]] \in Currency
    BY <1>4, <1>7 DEF StatesOK, StateOf, Currency
  <2>2. Append(found, [code |-> code, rate |-> rates[code]]) \in Seq(Currency)
    BY <1>3, <2>1, AppendProperties
  <2>3. my \in LocalsAt("ro_get_currencies", "ranging") BY <2>2 DEF LocalsAt, HoldsSlice
  <2>4. Goto(c, "ranging", my) BY <1>7
  <2> HIDE DEF my
  <2>5. GoesTo(f, "ranging", my) BY <1>2, PauseList DEF GoesTo
  <2> QED BY <1>1, <2>3, <2>4, <2>5, GotoStep, PauseList
<1> QED BY <1>1, <1>5, <1>6, <1>7

LEMMA ConvertCurrencyStep ==
  ASSUME CallsOK, StatesOK, NEW c \in Clients, convertCurrency(c)
  PROVE  Step(c) /\ UNCHANGED state /\ Calm(call[c][1])
<1> DEFINE f == call[c][1]
           amount == Req(c).amount
           to == Req(c).to
           my == [rate |-> rates[amount.currency]]
           r == [amount |-> Converted(amount, My(c).rate, rates[to], to)]
<1>1. /\ Serving(c, "ro_convert_currency") /\ UNCHANGED state
      /\ \/ Panic(c)
         \/ At(c, "start") /\ Has(rates, amount.currency) /\ Goto(c, "gotFrom", my)
         \/ At(c, "gotFrom") /\ Has(rates, to) /\ Return(c, r)
  BY DEF convertCurrency, ConvertCurrency
<1>2. f \in Frames /\ f.ep = "ro_convert_currency" /\ amount \in Money /\ to \in Currencies
  <2>1. RequestOf["ro_convert_currency"] = ConvertCurrencyRequest BY DEF RequestOf
  <2>2. Req(c) \in ConvertCurrencyRequest BY <1>1, <2>1, Serves
  <2>3. call[c][1] \in Frames /\ call[c][1].ep = "ro_convert_currency" /\ call[c][1].req = Req(c) BY <1>1, Serves
  <2> QED BY <2>2, <2>3 DEF ConvertCurrencyRequest
<1>3. Calm(f) BY <1>2 DEF Calm, Adders
<1>4. LocalsAt("ro_convert_currency", "gotFrom") = [rate : Rate] BY DEF LocalsAt, HoldsSlice
<1>5. \A k \in DOMAIN rates : rates[k] \in Rate BY DEF StatesOK, StateOf
<1>6. CASE Panic(c) BY <1>1, <1>2, <1>3, <1>6, PanicStep DEF Charged
<1>7. CASE Has(rates, amount.currency) /\ Goto(c, "gotFrom", my)
  <2>1. my \in LocalsAt("ro_convert_currency", "gotFrom") BY <1>4, <1>5, <1>7 DEF Has
  <2> HIDE DEF my
  <2>2. GoesTo(f, "gotFrom", my) BY <1>2, PauseList DEF GoesTo
  <2> QED BY <1>1, <1>3, <1>7, <2>1, <2>2, GotoStep, PauseList
<1>8. CASE At(c, "gotFrom") /\ Has(rates, to) /\ Return(c, r)
  <2>1. My(c) \in [rate : Rate] BY <1>1, <1>4, <1>8, Serves
  <2>2. My(c).rate \in Rate /\ rates[to] \in Rate BY <1>5, <1>8, <2>1 DEF Has
  <2>3. Converted(amount, My(c).rate, rates[to], to) \in Paid
    <3> HIDE DEF amount, to
    <3> QED BY <1>2, <2>2, ConvertedPaid
  <2>4. r \in ReplyTo("ro_convert_currency") BY <2>3, Names DEF ReplyTo
  <2> HIDE DEF r
  <2>5. Gives(f, r) BY <1>2 DEF Gives
  <2> QED BY <1>1, <1>3, <1>8, <2>4, <2>5, ReturnStep
<1> QED BY <1>1, <1>6, <1>7, <1>8

-----------------------------------------------------------------------------
(* The catalogue. *)

LEMMA ProductsTyped ==
  ASSUME StatesOK, products' \in Seq(Product), UNCHANGED <<cartVars, rates>>
  PROVE  StatesOK'
BY DEF StatesOK, StateOf, cartVars

LEMMA AppendProductAdds ==
  ASSUME StatesOK, NEW c, NEW list \in Seq(Product), NEW p \in Product,
         call[c][1].ep \in Adders, call[c][1].at = "read", call[c][1].my.list = list,
         AppendProduct(c, list, p), UNCHANGED <<cartVars, rates, payments, parcels>>
  PROVE  StatesOK' /\ Changed(c)
<1>1. products' \in Seq(Product) BY AppendProperties DEF AppendProduct
<1>2. ProductAdded(call[c][1], p, OthersAdd(c)) BY DEF AppendProduct, ProductAdded, OthersAdd
<1> QED BY <1>1, <1>2, ProductsTyped DEF Changed

LEMMA AddProductStep ==
  ASSUME CallsOK, StatesOK, NEW c \in Clients, addProduct(c)
  PROVE  Step(c) /\ StatesOK' /\ Changed(c)
<1> DEFINE f == call[c][1]
           p == Req(c).product
           my == [list |-> products]
           r == [product |-> p.id]
<1>1. /\ Serving(c, "add_product") /\ UNCHANGED <<cartVars, rates, payments, parcels>>
      /\ \/ At(c, "start") /\ Goto(c, "read", my) /\ UNCHANGED <<products, raced>>
         \/ At(c, "read") /\ AppendProduct(c, My(c).list, p) /\ Return(c, r)
  BY DEF addProduct, AddProduct
<1>2. f \in Frames /\ f.ep = "add_product" /\ p \in Product /\ f.my = My(c)
  <2>1. RequestOf["add_product"] = AddProductRequest BY DEF RequestOf
  <2>2. Req(c) \in AddProductRequest BY <1>1, <2>1, Serves
  <2>3. call[c][1] \in Frames /\ call[c][1].ep = "add_product" /\ call[c][1].req = Req(c) BY <1>1, Serves
  <2>4. Req(c).product \in Product BY <2>2 DEF AddProductRequest
  <2>5. f.my = My(c) BY <1>1, Serves
  <2> QED BY <2>3, <2>4, <2>5
<1>3. LocalsAt("add_product", "read") = [list : Seq(Product)] BY DEF LocalsAt, HoldsSlice
<1>4. CASE At(c, "start") /\ Goto(c, "read", my) /\ UNCHANGED <<products, raced>>
  <2>1. f.at = "start" BY <1>1, <1>4, Serves
  <2>2. UNCHANGED state BY <1>1, <1>4 DEF state
  <2>3. Calm(f) BY <1>2, <2>1 DEF Calm
  <2>4. my \in LocalsAt("add_product", "read") BY <1>3 DEF StatesOK
  <2>5. my.list = products OBVIOUS
  <2> HIDE DEF my
  <2>6. GoesTo(f, "read", my) BY <1>2, <2>1, <2>5, PauseList DEF GoesTo, Adders
  <2> QED BY <1>1, <1>4, <2>2, <2>3, <2>4, <2>6, GotoStep, PauseList, Quiet
<1>5. CASE At(c, "read") /\ AppendProduct(c, My(c).list, p) /\ Return(c, r)
  <2>0. f.at = "read" /\ My(c) \in [list : Seq(Product)] BY <1>1, <1>3, <1>5, Serves
  <2>1. f.at = "read" /\ My(c).list \in Seq(Product) BY <2>0
  <2>2. f.ep \in Adders BY <1>2 DEF Adders
  <2>3. StatesOK' /\ Changed(c) BY <1>1, <1>2, <1>5, <2>1, <2>2, AppendProductAdds
  <2>4. p.id \in ProductIds BY <1>2 DEF Product
  <2>5. r \in ReplyTo("add_product") BY <2>4, Names DEF ReplyTo, ResponseOf, AddProductResponse
  <2> HIDE DEF r
  <2>6. Gives(f, r) BY <1>2, <2>1 DEF Gives
  <2> QED BY <1>1, <1>5, <2>3, <2>5, <2>6, ReturnStep
<1> QED BY <1>1, <1>4, <1>5

LEMMA FittingParts ==
  ASSUME NEW new \in Seq(Product), NEW size \in Nat
  PROVE  /\ Fitting(new, size) \in Seq(Product)
         /\ Fitting(new, size) = <<>> \/ size + Len(Fitting(new, size)) <= CatalogSize
<1> DEFINE n == IF Len(new) < CatalogSize - size THEN Len(new) ELSE CatalogSize - size
<1>0. CatalogSize \in Nat /\ Len(new) \in Nat BY BoutiqueAssumption, LenProperties
<1>1. CASE size < CatalogSize
  <2>1. n \in Nat /\ n <= Len(new) /\ size + n <= CatalogSize BY <1>0, <1>1
  <2>2. Fitting(new, size) = SubSeq(new, 1, n) BY <1>1 DEF Fitting
  <2> HIDE DEF n
  <2>3. \A i \in 1 .. n : new[i] \in Product
    BY <1>0, <2>1, ElementOfSeq
  <2>4. SubSeq(new, 1, n) \in Seq(Product) /\ Len(SubSeq(new, 1, n)) = n
    BY <1>0, <2>1, <2>3, SubSeqProperties
  <2> QED BY <2>1, <2>2, <2>4
<1>2. CASE ~(size < CatalogSize) BY <1>2, EmptySeq DEF Fitting
<1> QED BY <1>1, <1>2

LEMMA AddProductsStep ==
  ASSUME CallsOK, StatesOK, NEW c \in Clients, addProducts(c)
  PROVE  Step(c) /\ StatesOK' /\ Changed(c)
<1> DEFINE f == call[c][1]
           new == Req(c).products
           fits == Fitting(new, Len(products))
           m1 == [left |-> fits]
           m2 == [left |-> My(c).left, list |-> products]
           m3 == [left |-> Tail(My(c).left)]
           r == [text |-> "OK"]
<1>1. /\ Serving(c, "add_products") /\ UNCHANGED <<cartVars, rates, payments, parcels>>
      /\ \/ At(c, "start") /\ Goto(c, "next", m1) /\ UNCHANGED <<products, raced>>
         \/ At(c, "next") /\ Return(c, r) /\ UNCHANGED <<products, raced>>
         \/ At(c, "next") /\ My(c).left # <<>> /\ Goto(c, "read", m2) /\ UNCHANGED <<products, raced>>
         \/ At(c, "read") /\ AppendProduct(c, My(c).list, Head(My(c).left)) /\ Goto(c, "next", m3)
  BY DEF addProducts, AddProducts
<1>2. f \in Frames /\ f.ep = "add_products" /\ new \in Seq(Product) /\ f.my = My(c)
  <2>1. RequestOf["add_products"] = AddProductsRequest BY DEF RequestOf
  <2>2. Req(c) \in AddProductsRequest BY <1>1, <2>1, Serves
  <2>3. call[c][1] \in Frames /\ call[c][1].ep = "add_products" /\ call[c][1].req = Req(c) BY <1>1, Serves
  <2>4. Req(c).products \in Seq(Product) BY <2>2 DEF AddProductsRequest
  <2>5. f.my = My(c) BY <1>1, Serves
  <2> QED BY <2>3, <2>4, <2>5
<1>3. /\ LocalsAt("add_products", "next") = [left : Seq(Product)]
      /\ LocalsAt("add_products", "read") = [left : Seq(Product) \ {<<>>}, list : Seq(Product)]
  BY DEF LocalsAt, HoldsSlice
<1>4. products \in Seq(Product) /\ Len(products) \in Nat BY LenProperties DEF StatesOK
<1>5. fits \in Seq(Product) /\ (fits = <<>> \/ Len(products) + Len(fits) <= CatalogSize)
  <2> HIDE DEF new
  <2> QED BY <1>2, <1>4, FittingParts
<1> HIDE DEF fits, new
<1>6. CASE At(c, "start") /\ Goto(c, "next", m1) /\ UNCHANGED <<products, raced>>
  <2>1. f.at = "start" BY <1>1, <1>6, Serves
  <2>2. UNCHANGED state BY <1>1, <1>6 DEF state
  <2>3. Calm(f) BY <1>2, <2>1 DEF Calm
  <2>4. m1 \in LocalsAt("add_products", "next") /\ m1.left = fits BY <1>3, <1>5
  <2> HIDE DEF m1
  <2>6. GoesTo(f, "next", m1) BY <1>2, <1>5, <2>1, <2>4, PauseList DEF GoesTo, Adders
  <2> QED BY <1>1, <1>6, <2>2, <2>3, <2>4, <2>6, GotoStep, PauseList, Quiet
<1>7. CASE At(c, "next") /\ Return(c, r) /\ UNCHANGED <<products, raced>>
  <2>1. f.at = "next" BY <1>1, <1>7, Serves
  <2>2. UNCHANGED state BY <1>1, <1>7 DEF state
  <2>3. Calm(f) BY <1>2, <2>1 DEF Calm
  <2>4. r \in ReplyTo("add_products") BY Names DEF ReplyTo, ResponseOf, AddProductsResponse
  <2> HIDE DEF r
  <2>5. Gives(f, r) BY <1>2, <2>1 DEF Gives
  <2> QED BY <1>1, <1>7, <2>2, <2>3, <2>4, <2>5, ReturnStep, Quiet
<1>8. CASE At(c, "next") /\ My(c).left # <<>> /\ Goto(c, "read", m2) /\ UNCHANGED <<products, raced>>
  <2>1. f.at = "next" /\ My(c) \in [left : Seq(Product)] BY <1>1, <1>3, <1>8, Serves
  <2>2. UNCHANGED state BY <1>1, <1>8 DEF state
  <2>3. Calm(f) BY <1>2, <2>1 DEF Calm
  <2>4. m2 \in LocalsAt("add_products", "read") /\ m2.left = f.my.left /\ m2.list = products
    BY <1>2, <1>3, <1>4, <1>8, <2>1
  <2> HIDE DEF m2
  <2>6. GoesTo(f, "read", m2) BY <1>2, <2>1, <2>4, PauseList DEF GoesTo, Adders
  <2> QED BY <1>1, <1>8, <2>2, <2>3, <2>4, <2>6, GotoStep, PauseList, Quiet
<1>9. CASE At(c, "read") /\ AppendProduct(c, My(c).list, Head(My(c).left)) /\ Goto(c, "next", m3)
  <2>1. f.at = "read" /\ My(c) \in [left : Seq(Product) \ {<<>>}, list : Seq(Product)]
    BY <1>1, <1>3, <1>9, Serves
  <2>2. My(c).list \in Seq(Product) /\ My(c).left \in Seq(Product) /\ My(c).left # <<>> BY <2>1
  <2>3. Head(My(c).left) \in Product /\ Tail(My(c).left) \in Seq(Product) BY <2>2, StackParts
  <2>4. f.ep \in Adders BY <1>2 DEF Adders
  <2>5. StatesOK' /\ Changed(c) BY <1>1, <1>2, <1>9, <2>1, <2>2, <2>3, <2>4, AppendProductAdds
  <2>6. m3 \in LocalsAt("add_products", "next") /\ m3.left = Tail(f.my.left) BY <1>2, <1>3, <2>3
  <2> HIDE DEF m3
  <2>7. GoesTo(f, "next", m3) BY <1>2, <2>1, <2>6, PauseList DEF GoesTo, Adders
  <2> QED BY <1>1, <1>9, <2>5, <2>6, <2>7, GotoStep, PauseList
<1> QED BY <1>1, <1>6, <1>7, <1>8, <1>9

\* Handlers that answer at once, from the state.
LEMMA Reads ==
  ASSUME CallsOK, NEW c \in Clients,
         NEW e \in {"ro_get_product", "ro_search_products", "ro_fetch_catalog", "ro_get_quote",
                    "ro_send_email"},
         Serving(c, e), UNCHANGED state, NEW r \in ReplyTo(e), Return(c, r)
  PROVE  Step(c) /\ UNCHANGED state /\ Calm(call[c][1])
<1>1. call[c][1].ep = e BY Serves
<1>2. Calm(call[c][1]) BY <1>1 DEF Calm, Adders
<1>3. Gives(call[c][1], r) BY <1>1 DEF Gives
<1> QED BY <1>2, <1>3, ReturnStep

LEMMA GetProductStep ==
  ASSUME CallsOK, StatesOK, NEW c \in Clients, getProduct(c)
  PROVE  Step(c) /\ UNCHANGED state /\ Calm(call[c][1])
<1> DEFINE found == Found({Req(c).product})
           r == [product |-> IF found = <<>> THEN NoProduct ELSE Head(found)]
<1>1. Serving(c, "ro_get_product") /\ UNCHANGED state /\ Return(c, r) BY DEF getProduct, GetProduct
<1>2. found \in Seq(Product) BY FoundTyped DEF StatesOK
<1> HIDE DEF found
<1>3. r \in GetProductResponse BY <1>2, StackParts DEF GetProductResponse
<1>4. r \in ReplyTo("ro_get_product") BY <1>3, Names DEF ReplyTo
<1> HIDE DEF r
<1> QED BY <1>1, <1>4, Reads

LEMMA SearchProductsStep ==
  ASSUME CallsOK, StatesOK, NEW c \in Clients, searchProducts(c)
  PROVE  Step(c) /\ UNCHANGED state /\ Calm(call[c][1])
<1> DEFINE found == Found(Req(c).query)
           r == [products |-> found]
<1>1. Serving(c, "ro_search_products") /\ UNCHANGED state /\ Return(c, r)
  BY DEF searchProducts, SearchProducts
<1>2. found \in Seq(Product) BY FoundTyped DEF StatesOK
<1> HIDE DEF found
<1>3. r \in ReplyTo("ro_search_products") BY <1>2, Names DEF ReplyTo, ResponseOf, SearchProductsResponse
<1> HIDE DEF r
<1> QED BY <1>1, <1>3, Reads

LEMMA FetchCatalogStep ==
  ASSUME CallsOK, StatesOK, NEW c \in Clients, fetchCatalog(c)
  PROVE  Step(c) /\ UNCHANGED state /\ Calm(call[c][1])
<1> DEFINE size == Req(c).size
           page == IF size < Len(products) THEN SubSeq(products, 1, size) ELSE products
           r == [catalog |-> page]
<1>1. Serving(c, "ro_fetch_catalog") /\ UNCHANGED state /\ Return(c, r)
  BY DEF fetchCatalog, FetchCatalog
<1>2. size \in Nat
  <2>1. RequestOf["ro_fetch_catalog"] = FetchCatalogRequest BY DEF RequestOf
  <2>2. Req(c) \in FetchCatalogRequest BY <1>1, <2>1, Serves
  <2>3. call[c][1] \in Frames /\ call[c][1].ep = "ro_fetch_catalog" /\ call[c][1].req = Req(c) BY <1>1, Serves
  <2> QED BY <2>2, <2>3 DEF FetchCatalogRequest
<1> HIDE DEF size
<1>3. page \in Seq(Product)
  <2>1. products \in Seq(Product) /\ Len(products) \in Nat BY LenProperties DEF StatesOK
  <2>2. CASE size < Len(products)
    <3>1. \A i \in 1 .. size : products[i] \in Product BY <1>2, <2>1, <2>2, ElementOfSeq
    <3> QED BY <1>2, <2>1, <2>2, <3>1, SubSeqProperties
  <2> QED BY <2>1, <2>2
<1> HIDE DEF page
<1>4. r \in ReplyTo("ro_fetch_catalog") BY <1>3, Names DEF ReplyTo, FetchCatalogResponse
<1> HIDE DEF r
<1> QED BY <1>1, <1>4, Reads

LEMMA GetRecommendationsStep ==
  ASSUME CallsOK, NEW c \in Clients, getRecommendations(c)
  PROVE  Step(c) /\ UNCHANGED state /\ Calm(call[c][1])
<1> DEFINE f == call[c][1]
           q == [size |-> 0]
           r == [products |-> <<>>]
<1>1. /\ Serving(c, "ro_get_recommendations") /\ UNCHANGED state
      /\ \/ At(c, "start") /\ Invoke(c, "productcatalog", "ro_fetch_catalog", q, "gotCatalog")
         \/ Panic(c)
         \/ Return(c, r)
  BY DEF getRecommendations, GetRecommendations
<1>2. f \in Frames /\ f.ep = "ro_get_recommendations" BY <1>1, Serves
<1>3. Calm(f) BY <1>2 DEF Calm, Adders
<1>4. CASE At(c, "start") /\ Invoke(c, "productcatalog", "ro_fetch_catalog", q, "gotCatalog")
  <2>1. My(c) = <<>> /\ <<>> \in LocalsAt("ro_get_recommendations", "gotCatalog")
    BY <1>1, <1>4, Serves, NoLocals
  <2>2. q \in RequestOf["ro_fetch_catalog"]
    <3>1. RequestOf["ro_fetch_catalog"] = FetchCatalogRequest BY DEF RequestOf
    <3> QED BY <3>1 DEF FetchCatalogRequest
  <2>3. InvokeWith(c, "productcatalog", "ro_fetch_catalog", q, "gotCatalog", <<>>)
    BY <1>4, <2>1 DEF Invoke, InvokeWith
  <2> HIDE DEF q
  <2>4. Seeks(f, "ro_fetch_catalog", q, "gotCatalog", <<>>)
    <3> HIDE DEF f
    <3> QED BY <1>2, SeeksPlain
  <2> QED BY <1>1, <1>3, <2>1, <2>2, <2>3, <2>4, CallStep, ServedBy, SiteList
<1>5. CASE Panic(c) BY <1>1, <1>2, <1>3, <1>5, PanicStep DEF Charged
<1>6. CASE Return(c, r)
  <2>1. r \in ReplyTo("ro_get_recommendations")
    BY EmptySeq, Names DEF ReplyTo, ResponseOf, GetRecommendationsResponse
  <2> HIDE DEF r
  <2>2. Gives(f, r) BY <1>2 DEF Gives
  <2> QED BY <1>1, <1>3, <1>6, <2>1, <2>2, ReturnStep
<1> QED BY <1>1, <1>4, <1>5, <1>6

-----------------------------------------------------------------------------
(* Shipping, payment and email. *)

LEMMA GetQuoteStep ==
  ASSUME CallsOK, NEW c \in Clients, getQuote(c)
  PROVE  Step(c) /\ UNCHANGED state /\ Calm(call[c][1])
<1> DEFINE r == [cost |-> CreateQuoteFromCount(Len(Req(c).items))]
<1>1. Serving(c, "ro_get_quote") /\ UNCHANGED state /\ Return(c, r) BY DEF getQuote, GetQuote
<1>2. Req(c).items \in Seq(CartItem)
  <2>1. RequestOf["ro_get_quote"] = GetQuoteRequest BY DEF RequestOf
  <2>2. Req(c) \in GetQuoteRequest BY <1>1, <2>1, Serves
  <2>3. call[c][1] \in Frames /\ call[c][1].ep = "ro_get_quote" /\ call[c][1].req = Req(c) BY <1>1, Serves
  <2> QED BY <2>2, <2>3 DEF GetQuoteRequest
<1>3. CreateQuoteFromCount(Len(Req(c).items)) \in Money BY <1>2, LenProperties, QuoteTyped
<1>4. r \in ReplyTo("ro_get_quote") BY <1>3, Names DEF ReplyTo, GetQuoteResponse
<1> HIDE DEF r
<1> QED BY <1>1, <1>4, Reads

LEMMA SendEmailStep ==
  ASSUME CallsOK, NEW c \in Clients, sendEmail(c)
  PROVE  Step(c) /\ UNCHANGED state /\ Calm(call[c][1])
<1> DEFINE r == [ok |-> TRUE]
<1>1. Serving(c, "ro_send_email") /\ UNCHANGED state /\ Return(c, r) BY DEF sendEmail, SendConfirmation
<1>2. r \in ReplyTo("ro_send_email") BY Names DEF ReplyTo, ResponseOf, SendOrderConfirmationResponse
<1> HIDE DEF r
<1> QED BY <1>1, <1>2, Reads

LEMMA ShipOrderStep ==
  ASSUME CallsOK, StatesOK, NEW c \in Clients, shipOrder(c)
  PROVE  Step(c) /\ StatesOK' /\ Changed(c)
<1> DEFINE f == call[c][1]
           r == [tracking |-> c]
<1>1. /\ Serving(c, "ship_order") /\ parcels' = SetState(parcels, c, Req(c).items) /\ Return(c, r)
      /\ UNCHANGED <<cartVars, products, rates, payments, raced>>
  BY DEF shipOrder, ShipOrder
<1>2. f.ep = "ship_order" /\ f.req = Req(c) BY <1>1, Serves
<1>3. StatesOK' BY <1>1, ProductsTyped DEF StatesOK
<1>4. Changed(c) BY <1>1, <1>2 DEF Changed, Ships
<1>5. r \in ReplyTo("ship_order") BY Names DEF ReplyTo, ShipOrderResponse
<1> HIDE DEF r
<1>6. Gives(f, r) BY <1>2 DEF Gives
<1> QED BY <1>1, <1>3, <1>4, <1>5, <1>6, ReturnStep

LEMMA ChargeStep ==
  ASSUME CallsOK, StatesOK, NEW c \in Clients, charge(c)
  PROVE  Step(c) /\ StatesOK' /\ Changed(c)
<1> DEFINE f == call[c][1]
           r == [error |-> ErrorOf(Req(c).card)]
<1>1. /\ Serving(c, "charge") /\ Return(c, r) /\ UNCHANGED <<cartVars, products, rates, parcels, raced>>
      /\ payments' = IF ErrorOf(Req(c).card) = ""
                     THEN SetState(payments, c, [amount |-> Req(c).amount, order |-> call[c][2].my])
                     ELSE payments
  BY DEF charge, Charge
<1>2. f.ep = "charge" /\ f.req = Req(c) BY <1>1, Serves
<1>3. StatesOK' BY <1>1, ProductsTyped DEF StatesOK
<1>4. Changed(c)
  <2>1. CASE ErrorOf(Req(c).card) = "" BY <1>1, <1>2, <2>1 DEF Changed, Charges
  <2>2. CASE ErrorOf(Req(c).card) # "" BY <1>1, <1>2, <2>2 DEF Changed, Calm, Adders
  <2> QED BY <2>1, <2>2
<1>5. r \in ReplyTo("charge") BY Names DEF ReplyTo, ChargeResponse, ErrorOf
<1>6. Gives(f, r)
  <2>1. r.error = ErrorOf(f.req.card) BY <1>2
  <2> HIDE DEF r
  <2> QED BY <1>2, <2>1 DEF Gives
<1> HIDE DEF r
<1> QED BY <1>1, <1>3, <1>4, <1>5, <1>6, ReturnStep

-----------------------------------------------------------------------------
(* Slices and arrays. *)

\* The positions of a sequence.
LEMMA Positions ==
  /\ \A l \in Nat : l + 1 \in 1 .. l + 1 /\ \A i \in 1 .. l + 1 : i \in 1 .. l \/ i = l + 1
  /\ \A l, m \in Nat : l < m => l + 1 \in 1 .. m
  /\ \A l, m \in Nat : l + 1 \in 1 .. m => l + 1 <= m /\ l < m
  /\ \A l, m \in Nat : l <= m => \A i \in 1 .. l : i \in 1 .. m
OBVIOUS

LEMMA AddedItem ==
  ASSUME NEW s \in Seq(CartItem), NEW item \in CartItem
  PROVE  /\ Append(s, item) \in Seq(CartItem) /\ Len(Append(s, item)) = Len(s) + 1
         /\ Append(s, item)[Len(s) + 1] = item
         /\ \A i \in 1 .. Len(s) : Append(s, item)[i] = s[i]
BY AppendProperties

LEMMA ItemsReplaced ==
  \A v : \A a \in Array : [a EXCEPT !.items = v] = [items |-> v, cap |-> a.cap]
BY DEF Array

LEMMA ArrayParts ==
  ASSUME NEW A \in Seq(Array), NEW k \in 1 .. Len(A)
  PROVE  /\ A[k] \in Array /\ A[k].items \in Seq(CartItem) /\ A[k].cap \in Nat
         /\ Len(A[k].items) \in Nat /\ Len(A) \in Nat /\ k \in Nat
         /\ A[k] = [items |-> A[k].items, cap |-> A[k].cap]
<1>1. A[k] \in Array /\ Len(A) \in Nat BY ElementOfSeq, LenProperties
<1> QED BY <1>1, LenProperties DEF Array

ItemsIn(A, s) == IF s.len = 0 THEN <<>> ELSE SubSeq(A[s.array].items, 1, s.len)
LEMMA ItemsInParts ==
  ASSUME NEW A \in Seq(Array), NEW s \in Slice, Fits(s, A)
  PROVE  /\ s.len \in Nat /\ s.array \in Nat /\ ItemsIn(A, s) \in Seq(CartItem)
         /\ Len(ItemsIn(A, s)) = s.len
         /\ \A i \in 1 .. s.len : ItemsIn(A, s)[i] = A[s.array].items[i]
<1>1. s.len \in Nat /\ s.array \in Nat BY DEF Slice
<1>2. CASE s.len = 0 BY <1>1, <1>2, EmptySeq DEF ItemsIn
<1>3. CASE s.len # 0
  <2> DEFINE cells == A[s.array].items
  <2>1. s.array \in 1 .. Len(A) /\ s.len <= Len(cells) BY <1>1, <1>3 DEF Fits
  <2>2. cells \in Seq(CartItem) /\ Len(cells) \in Nat BY <2>1, ArrayParts
  <2>3. ItemsIn(A, s) = SubSeq(cells, 1, s.len) BY <1>3 DEF ItemsIn
  <2> HIDE DEF cells
  <2>4. \A i \in 1 .. s.len : cells[i] \in CartItem BY <1>1, <2>1, <2>2, ElementOfSeq
  <2>5. /\ SubSeq(cells, 1, s.len) \in Seq(CartItem) /\ Len(SubSeq(cells, 1, s.len)) = s.len
        /\ \A i \in 1 .. s.len : SubSeq(cells, 1, s.len)[i] = cells[i]
    BY <1>1, <2>1, <2>2, <2>4, SubSeqProperties
  <2> QED BY <1>1, <2>3, <2>5 DEF cells
<1> QED BY <1>2, <1>3

LEMMA ItemsParts ==
  ASSUME arrays \in Seq(Array), NEW s \in Slice, Fits(s, arrays)
  PROVE  /\ s.len \in Nat /\ s.array \in Nat /\ Items(s) \in Seq(CartItem) /\ Len(Items(s)) = s.len
         /\ \A i \in 1 .. s.len : Items(s)[i] = arrays[s.array].items[i]
<1>1. Items(s) = ItemsIn(arrays, s) BY DEF Items, ItemsIn
<1> QED BY <1>1, ItemsInParts

LEMMA CartLoaded ==
  ASSUME StatesOK, FitsOK, NEW u
  PROVE  _localGetCart(u) \in Slice /\ Fits(_localGetCart(u), arrays)
<1>1. Empty \in Slice /\ Fits(Empty, arrays) BY DEF Empty, Slice, Fits
<1>2. Has(carts, u) => carts[u] \in Slice /\ Fits(carts[u], arrays)
  BY DEF Has, StatesOK, StateOf, FitsOK
<1> QED BY <1>1, <1>2 DEF _localGetCart, GetState

\* A cell of an array is written, or one is added to it.
Slotted(s, n, item) == IF n = Len(s) THEN Append(s, item) ELSE [s EXCEPT ![n + 1] = item]

LEMMA SlotWritten ==
  ASSUME NEW s \in Seq(CartItem), NEW n \in Nat, n <= Len(s), NEW item \in CartItem
  PROVE  LET t == Slotted(s, n, item) IN
         /\ t \in Seq(CartItem) /\ Len(t) \in Nat /\ Len(t) >= Len(s) /\ n + 1 \in 1 .. Len(t)
         /\ t[n + 1] = item /\ \A i \in 1 .. Len(t) : i # n + 1 => i \in 1 .. Len(s) /\ t[i] = s[i]
<1> DEFINE t == Slotted(s, n, item)
<1>0. Len(s) \in Nat BY LenProperties
<1>1. CASE n = Len(s)
  <2>1. /\ t \in Seq(CartItem) /\ Len(t) = Len(s) + 1 /\ t[Len(s) + 1] = item
        /\ \A i \in 1 .. Len(s) : t[i] = s[i]
    BY <1>1, AppendProperties DEF Slotted
  <2>2. \A m, i \in Nat : i \in 1 .. m + 1 /\ i # m + 1 => i \in 1 .. m OBVIOUS
  <2>3. \A i \in 1 .. Len(t) : i \in Nat OBVIOUS
  <2> QED BY <1>0, <1>1, <2>1, <2>2, <2>3 DEF t
<1>2. CASE n # Len(s)
  <2>1. t = [s EXCEPT ![n + 1] = item] /\ n + 1 \in 1 .. Len(s) BY <1>0, <1>2 DEF Slotted
  <2>2. t \in Seq(CartItem) /\ Len(t) = Len(s) BY <2>1, ExceptSeq
  <2>3. t[n + 1] = item /\ \A i \in 1 .. Len(t) : i # n + 1 => i \in 1 .. Len(s) /\ t[i] = s[i]
    BY <2>1, <2>2, ExceptSeq
  <2> QED BY <1>0, <2>1, <2>2, <2>3
<1> QED BY <1>1, <1>2

CellWritten(k, n, item) ==
  /\ arrays' \in Seq(Array) /\ Len(arrays') = Len(arrays)
  /\ \A i \in 1 .. Len(arrays) : i # k => arrays'[i] = arrays[i]
  /\ Len(arrays'[k].items) >= Len(arrays[k].items) /\ n \in 1 .. Len(arrays'[k].items)
  /\ arrays'[k].items[n] = item
  /\ \A i \in 1 .. Len(arrays'[k].items) : i # n =>
       i \in 1 .. Len(arrays[k].items) /\ arrays'[k].items[i] = arrays[k].items[i]

Rewritten(k, t) == arrays' = [arrays EXCEPT ![k] = [items |-> t, cap |-> arrays[k].cap]]

LEMMA ArrayWritten ==
  ASSUME arrays \in Seq(Array), NEW k \in 1 .. Len(arrays), NEW n \in Nat,
         n <= Len(arrays[k].items), NEW item \in CartItem,
         Rewritten(k, Slotted(arrays[k].items, n, item))
  PROVE  CellWritten(k, n + 1, item)
<1> DEFINE s == arrays[k].items
           t == Slotted(s, n, item)
           a == [items |-> t, cap |-> arrays[k].cap]
<1>1. s \in Seq(CartItem) /\ arrays[k].cap \in Nat BY ArrayParts
<1>2. /\ t \in Seq(CartItem) /\ Len(t) \in Nat /\ Len(t) >= Len(s) /\ n + 1 \in 1 .. Len(t)
      /\ t[n + 1] = item /\ \A i \in 1 .. Len(t) : i # n + 1 => i \in 1 .. Len(s) /\ t[i] = s[i]
  BY <1>1, SlotWritten
<1> HIDE DEF t
<1>3. a \in Array /\ a.items = t BY <1>1, <1>2 DEF Array
<1> HIDE DEF a
<1>4. /\ arrays' \in Seq(Array) /\ Len(arrays') = Len(arrays) /\ arrays'[k] = a
      /\ \A i \in 1 .. Len(arrays) : i # k => arrays'[i] = arrays[i]
  <2>1. arrays' = [arrays EXCEPT ![k] = a] BY DEF a, t, Rewritten
  <2>2. k \in 1 .. Len(arrays) /\ arrays \in Seq(Array) OBVIOUS
  <2>3. LET w == [arrays EXCEPT ![k] = a] IN
        /\ w \in Seq(Array) /\ Len(w) = Len(arrays) /\ w[k] = a
        /\ \A i \in 1 .. Len(arrays) : i # k => w[i] = arrays[i]
    BY <1>3, <2>2, ExceptSeq
  <2> QED BY <2>1, <2>3
<1> QED BY <1>2, <1>3, <1>4 DEF CellWritten

-----------------------------------------------------------------------------
(* Carts. *)

LEMMA Holder ==
  ASSUME CallsOK, StatesOK, FitsOK, NEW c \in Clients, call[c] # <<>>,
         HoldsSlice(call[c][1].ep, call[c][1].at)
  PROVE  /\ call[c][1].my \in Slice /\ Fits(call[c][1].my, arrays)
         /\ call[c][1].my.len \in Nat /\ call[c][1].my.array \in Nat
         /\ call[c][1].at = "wroteProduct" =>
              /\ call[c][1].my.len > 0
              /\ call[c][1].my.len < Len(arrays[call[c][1].my.array].items)
<1> DEFINE f == call[c][1]
<1>1. f \in Frames /\ f.my \in LocalsAt(f.ep, f.at) BY StackOf, FrameParts
<1>2. f.my \in Slice BY <1>1 DEF LocalsAt
<1>3. FrameFits(f, arrays) BY DEF FitsOK
<1> QED BY <1>2, <1>3 DEF FrameFits, HoldsSlice, Slice

LEMMA AddItemParts ==
  ASSUME CallsOK, NEW c \in Clients, call[c] # <<>>, call[c][1].ep = "add_item"
  PROVE  /\ call[c][1].req \in AddItemRequest /\ call[c][1].req.user \in Users
         /\ ItemOf(call[c][1]) \in CartItem
<1>1. RequestOf["add_item"] = AddItemRequest BY DEF RequestOf
<1>2. call[c][1].req \in AddItemRequest BY <1>1, StackOf, FrameParts
<1> QED BY <1>2 DEF AddItemRequest, ItemOf, CartItem

\* What writing an item comes to.
LEMMA GrowsAway ==
  ASSUME CallsOK, StatesOK, FitsOK, NEW c \in Clients, call[c] # <<>>, Grows(call[c][1])
  PROVE  LET f == call[c][1]
             n == Len(arrays) + 1
         IN /\ arrays' \in Seq(Array) /\ Len(arrays') = n /\ Len(arrays) \in Nat
            /\ \A i \in 1 .. Len(arrays) : arrays'[i] = arrays[i]
            /\ arrays'[n].items = Append(Items(f.my), ItemOf(f))
            /\ arrays'[n].items \in Seq(CartItem) /\ Len(arrays'[n].items) = f.my.len + 1
            /\ f.my.len \in Nat
<1> DEFINE f == call[c][1]
           a == Grown(f.my, ItemOf(f))
           t == Append(Items(f.my), ItemOf(f))
<1>1. /\ f.ep = "add_item" /\ f.at = "loaded" /\ HoldsSlice(f.ep, f.at)
      /\ arrays' = Append(arrays, a)
  BY DEF Grows, HoldsSlice
<1>2. f.my \in Slice /\ Fits(f.my, arrays) /\ f.my.len \in Nat BY <1>1, Holder
<1>3. ItemOf(f) \in CartItem BY <1>1, AddItemParts
<1>4. arrays \in Seq(Array) /\ Len(arrays) \in Nat BY LenProperties DEF StatesOK
<1>5. Items(f.my) \in Seq(CartItem) /\ Len(Items(f.my)) = f.my.len
  <2> HIDE DEF f
  <2> QED BY <1>2, <1>4, ItemsParts
<1>6. t \in Seq(CartItem) /\ Len(t) = f.my.len + 1 BY <1>3, <1>5, AppendProperties
<1>7. a = [items |-> t, cap |-> IF f.my.len = 0 THEN 1 ELSE 2 * f.my.len] BY DEF Grown
<1> HIDE DEF t, a
<1>c. \A l \in Nat : (IF l = 0 THEN 1 ELSE 2 * l) \in Nat OBVIOUS
<1>8. a \in Array /\ a.items = t
  <2>1. PICK z \in Nat : a = [items |-> t, cap |-> z] BY <1>2, <1>7, <1>c, Zenon
  <2> QED BY <1>6, <2>1 DEF Array
<1>9. /\ arrays' \in Seq(Array) /\ Len(arrays') = Len(arrays) + 1 /\ arrays'[Len(arrays) + 1] = a
      /\ \A i \in 1 .. Len(arrays) : arrays'[i] = arrays[i]
  BY <1>1, <1>4, <1>8, AppendProperties, SMTT(30)
<1> QED BY <1>2, <1>4, <1>6, <1>8, <1>9 DEF t

LEMMA ProductCell ==
  ASSUME CallsOK, StatesOK, FitsOK, NEW c \in Clients, call[c] # <<>>, WritesProduct(call[c][1])
  PROVE  LET f == call[c][1] IN
         /\ CellWritten(f.my.array, f.my.len + 1, [product |-> f.req.product, quantity |-> Old(f)])
         /\ f.my.array \in 1 .. Len(arrays) /\ f.my.len \in Nat /\ f.my.len > 0
         /\ f.my.len <= Len(arrays[f.my.array].items)
         /\ f.my.len < Len(arrays[f.my.array].items) =>
              Old(f) = arrays[f.my.array].items[f.my.len + 1].quantity
<1> DEFINE f == call[c][1]
           k == f.my.array
           n == f.my.len
           s == arrays[k].items
           item == [product |-> f.req.product, quantity |-> Old(f)]
           t == IF n = Len(s) THEN Append(s, item) ELSE [s EXCEPT ![n + 1] = item]
<1>1. /\ f.ep = "add_item" /\ f.at = "loaded" /\ HoldsSlice(f.ep, f.at) /\ Room(f.my)
      /\ arrays' = [arrays EXCEPT ![k].items = WithItem(f, [ItemOf(f) EXCEPT !.quantity = Old(f)])]
  BY DEF WritesProduct, SetsProduct, HoldsSlice
<1>2. f.my \in Slice /\ Fits(f.my, arrays) /\ n \in Nat /\ n > 0 BY <1>1, Holder DEF Room
<1>3. k \in 1 .. Len(arrays) /\ n <= Len(s) BY <1>2 DEF Fits
<1>4. arrays \in Seq(Array) BY DEF StatesOK
<1>5. /\ s \in Seq(CartItem) /\ Len(s) \in Nat /\ arrays[k] = [items |-> s, cap |-> arrays[k].cap]
      /\ arrays[k] \in Array
  BY <1>3, <1>4, ArrayParts
<1>6. f.req.product \in ProductIds BY <1>1, AddItemParts DEF AddItemRequest
<1>7. Old(f) \in Nat /\ (n < Len(s) => Old(f) = s[n + 1].quantity)
  <2>1. Old(f) = IF n < Len(s) THEN s[n + 1].quantity ELSE 0 BY SMTT(30) DEF Old, Cells
  <2>2. ASSUME n < Len(s) PROVE s[n + 1].quantity \in Nat
    <3>1. n + 1 \in 1 .. Len(s) BY <1>2, <1>5, <2>2
    <3>2. s[n + 1] \in CartItem BY <1>5, <3>1, ElementOfSeq, Zenon
    <3> QED BY <3>2 DEF CartItem
  <2> HIDE DEF s, f, n
  <2> QED BY <2>1, <2>2
<1>8. [ItemOf(f) EXCEPT !.quantity = Old(f)] = item BY DEF ItemOf
<1>9. item \in CartItem BY <1>6, <1>7, Zenon DEF CartItem
<1>10. WithItem(f, [ItemOf(f) EXCEPT !.quantity = Old(f)]) = t BY <1>8 DEF WithItem, Cells
<1> HIDE DEF item
<1>11. arrays' = [arrays EXCEPT ![k] = [items |-> t, cap |-> arrays[k].cap]]
  <2> HIDE DEF t
  <2>1. arrays' = [arrays EXCEPT ![k].items = t] BY <1>1, <1>10
  <2>2. [arrays[k] EXCEPT !.items = t] = [items |-> t, cap |-> arrays[k].cap] BY <1>5 DEF Array
  <2> QED BY <2>1, <2>2
<1>12. CellWritten(k, n + 1, item)
  <2> HIDE DEF k, n
  <2>1. n \in Nat BY <1>2
  <2>2. Rewritten(k, Slotted(s, n, item)) BY <1>4, <1>11, Zenon DEF Rewritten, Slotted
  <2> QED BY <1>3, <1>4, <1>9, <2>1, <2>2, ArrayWritten
<1> QED BY <1>2, <1>3, <1>7, <1>12 DEF item

\* The cell with its new quantity.
Half(f) == [product |-> arrays[f.my.array].items[f.my.len + 1].product, quantity |-> f.req.quantity]

LEMMA QuantityCell ==
  ASSUME CallsOK, StatesOK, FitsOK, NEW c \in Clients, call[c] # <<>>, WritesQuantity(call[c][1])
  PROVE  LET f == call[c][1]
         IN /\ CellWritten(f.my.array, f.my.len + 1, Half(f))
            /\ f.my.array \in 1 .. Len(arrays) /\ f.my.len \in Nat /\ f.my.len > 0
            /\ f.my.len < Len(arrays[f.my.array].items)
<1> DEFINE f == call[c][1]
           k == f.my.array
           n == f.my.len
           s == arrays[k].items
           item == [product |-> s[n + 1].product, quantity |-> f.req.quantity]
           t == IF n = Len(s) THEN Append(s, item) ELSE [s EXCEPT ![n + 1] = item]
<1>1. /\ f.ep = "add_item" /\ f.at = "wroteProduct" /\ HoldsSlice(f.ep, f.at)
      /\ arrays' = [arrays EXCEPT ![k].items[n + 1].quantity = f.req.quantity]
  BY Zenon DEF WritesQuantity, SetsQuantity, HoldsSlice
<1>2. f.my \in Slice /\ Fits(f.my, arrays) /\ n \in Nat /\ n > 0 /\ n < Len(s) BY <1>1, Holder, Zenon
<1>3. k \in 1 .. Len(arrays) BY <1>2 DEF Fits
<1>4. arrays \in Seq(Array) BY DEF StatesOK
<1>5. /\ s \in Seq(CartItem) /\ Len(s) \in Nat /\ arrays[k] = [items |-> s, cap |-> arrays[k].cap]
      /\ arrays[k] \in Array
  BY <1>3, <1>4, ArrayParts, Zenon
<1>6. f.req.quantity \in Nat BY <1>1, AddItemParts, Zenon DEF AddItemRequest
<1>7. n + 1 \in 1 .. Len(s) /\ s[n + 1] \in CartItem
  <2>1. n + 1 \in 1 .. Len(s)
    <3>1. PICK m \in Nat : m = Len(s) BY <1>5
    <3>2. PICK l \in Nat : l = n BY <1>2
    <3>3. l < m BY <1>2, <3>1, <3>2
    <3>4. l + 1 \in 1 .. m BY <3>3
    <3> QED BY <3>1, <3>2, <3>4, Zenon
  <2> QED BY <1>5, <2>1, ElementOfSeq
<1>8. [s[n + 1] EXCEPT !.quantity = f.req.quantity] = item
  <2>1. \A q : \A x \in CartItem : [x EXCEPT !.quantity = q] = [product |-> x.product, quantity |-> q]
    BY SMTT(30) DEF CartItem
  <2> QED BY <1>7, <2>1, Zenon
<1>9. item \in CartItem BY <1>6, <1>7 DEF CartItem
<1>10. arrays' = [arrays EXCEPT ![k] = [items |-> t, cap |-> arrays[k].cap]]
  <2> HIDE DEF item
  <2>1. t = [s EXCEPT ![n + 1] = item]
    <3>1. n # Len(s)
      <4> HIDE DEF s, n
      <4> QED BY <1>2, <1>5
    <3> QED BY <3>1
  <2>2. [arrays[k] EXCEPT !.items = t] = [items |-> t, cap |-> arrays[k].cap]
    <3> HIDE DEF t, k
    <3> QED BY <1>5, ItemsReplaced, Zenon
  <2>3. [s EXCEPT ![n + 1].quantity = f.req.quantity] = t BY <1>8, <2>1, Zenon
  <2> HIDE DEF t
  <2>4. arrays' = [arrays EXCEPT ![k].items = t] BY <1>1, <2>3, Zenon
  <2> QED BY <2>2, <2>4
<1> HIDE DEF item
<1>11. CellWritten(k, n + 1, item)
  <2> HIDE DEF k, n
  <2>1. n \in Nat /\ n <= Len(s) BY <1>2, <1>5
  <2>2. Rewritten(k, Slotted(s, n, item)) BY <1>4, <1>10 DEF Rewritten, Slotted
  <2> QED BY <1>3, <1>4, <1>9, <2>1, <2>2, ArrayWritten
<1> QED BY <1>2, <1>3, <1>11, Zenon DEF item, Half

LEMMA CartsTyped ==
  ASSUME StatesOK, UNCHANGED <<products, rates>>, StateOf(carts', Users, Slice),
         arrays' \in Seq(Array), log' \in [Users -> Seq(CartItem)]
  PROVE  StatesOK'
BY DEF StatesOK, StateOf

LEMMA AddItemStep ==
  ASSUME CallsOK, StatesOK, FitsOK, NEW c \in Clients, addItemToCart(c)
  PROVE  Step(c) /\ StatesOK' /\ Changed(c)
<1> DEFINE f == call[c][1]
           user == Req(c).user
           item == [product |-> Req(c).product, quantity |-> Req(c).quantity]
           my == My(c)
           grown == [array |-> Len(arrays) + 1, len |-> my.len + 1]
           longer == [my EXCEPT !.len = @ + 1]
           cells == arrays[my.array].items
           old == IF my.len < Len(cells) THEN cells[my.len + 1].quantity ELSE 0
           r == [ok |-> TRUE]
<1>1. /\ Serving(c, "add_item") /\ UNCHANGED <<products, rates, payments, parcels>>
      /\ \/ At(c, "start") /\ Goto(c, "loaded", _localGetCart(user)) /\ UNCHANGED <<cartVars, raced>>
         \/ /\ At(c, "loaded") /\ ~Room(my) /\ arrays' = Append(arrays, Grown(my, item))
            /\ Goto(c, "appended", grown) /\ UNCHANGED <<carts, log, raced>>
         \/ /\ At(c, "loaded") /\ Room(my) /\ Put(my, [item EXCEPT !.quantity = old])
            /\ Goto(c, "wroteProduct", my) /\ UNCHANGED <<carts, log, raced>>
         \/ /\ At(c, "wroteProduct")
            /\ arrays' = [arrays EXCEPT ![my.array].items[my.len + 1].quantity = Req(c).quantity]
            /\ Goto(c, "appended", longer) /\ UNCHANGED <<carts, log, raced>>
         \/ /\ At(c, "appended") /\ carts' = SetState(carts, user, my)
            /\ log' = [log EXCEPT ![user] = Append(@, item)]
            /\ raced' = IF Held(c, user) THEN raced \cup {user} ELSE raced
            /\ Return(c, r) /\ UNCHANGED arrays
  BY DEF addItemToCart, AddItem
<1>2. /\ f \in Frames /\ f.ep = "add_item" /\ f.req = Req(c) /\ f.my = my /\ call[c] # <<>>
      /\ item = ItemOf(f)
  BY <1>1, Serves DEF ItemOf
<1>3. user \in Users /\ item \in CartItem BY <1>2, AddItemParts
<1>4. /\ LocalsAt("add_item", "loaded") = Slice /\ LocalsAt("add_item", "wroteProduct") = Slice
      /\ LocalsAt("add_item", "appended") = Slice
  BY DEF LocalsAt, HoldsSlice
<1>5. \A p \in {"loaded", "wroteProduct", "appended"} : At(c, p) =>
        f.at = p /\ my \in Slice /\ Fits(my, arrays) /\ my.len \in Nat /\ my.array \in Nat
  <2> SUFFICES ASSUME NEW p \in {"loaded", "wroteProduct", "appended"}, At(c, p)
               PROVE  f.at = p /\ my \in Slice /\ Fits(my, arrays) /\ my.len \in Nat /\ my.array \in Nat
    OBVIOUS
  <2>1. f.at = p BY <1>1, Serves
  <2>2. HoldsSlice(f.ep, f.at) BY <1>2, <2>1 DEF HoldsSlice
  <2> QED BY <1>2, <2>1, <2>2, Holder
<1>6. arrays \in Seq(Array) /\ Len(arrays) \in Nat BY LenProperties DEF StatesOK
<1>7. UNCHANGED <<carts, log, products, rates>> /\ arrays' \in Seq(Array) => StatesOK'
  BY CartsTyped DEF StatesOK
<1>8. CASE At(c, "start") /\ Goto(c, "loaded", _localGetCart(user)) /\ UNCHANGED <<cartVars, raced>>
  <2> DEFINE cart == _localGetCart(user)
  <2>1. f.at = "start" BY <1>1, <1>8, Serves
  <2>2. UNCHANGED state BY <1>1, <1>8 DEF state
  <2>3. Calm(f) BY <1>2, <2>1 DEF Calm, Adders
  <2>4. cart \in Slice BY CartLoaded
  <2>5. cart = _localGetCart(f.req.user) BY <1>2
  <2> HIDE DEF cart
  <2>6. GoesTo(f, "loaded", cart) BY <1>2, <2>1, <2>5, PauseList DEF GoesTo
  <2>7. Goto(c, "loaded", cart) BY <1>8 DEF cart
  <2> QED BY <1>1, <1>4, <2>2, <2>3, <2>4, <2>6, <2>7, GotoStep, PauseList, Quiet
<1>9. CASE /\ At(c, "loaded") /\ ~Room(my) /\ arrays' = Append(arrays, Grown(my, item))
           /\ Goto(c, "appended", grown) /\ UNCHANGED <<carts, log, raced>>
  <2>1. Grows(f) BY <1>1, <1>2, <1>5, <1>9 DEF Grows
  <2>2. arrays' \in Seq(Array) BY <1>2, <2>1, GrowsAway
  <2>3. StatesOK' BY <1>1, <1>7, <1>9, <2>2
  <2>4. grown \in Slice BY <1>5, <1>6, <1>9 DEF Slice
  <2>5. grown = [array |-> Len(arrays) + 1, len |-> f.my.len + 1] BY <1>2
  <2> HIDE DEF grown
  <2>6. GoesTo(f, "appended", grown) BY <1>2, <1>5, <1>9, <2>5, PauseList DEF GoesTo
  <2>7. Changed(c) BY <2>1 DEF Changed
  <2> QED BY <1>1, <1>4, <1>9, <2>3, <2>4, <2>6, <2>7, GotoStep, PauseList
<1>10. CASE /\ At(c, "loaded") /\ Room(my) /\ Put(my, [item EXCEPT !.quantity = old])
            /\ Goto(c, "wroteProduct", my) /\ UNCHANGED <<carts, log, raced>>
  <2>1. WritesProduct(f)
    <3>1. old = Old(f) BY <1>2 DEF Old, Cells
    <3>2. arrays' = [arrays EXCEPT ![f.my.array].items =
                       WithItem(f, [ItemOf(f) EXCEPT !.quantity = Old(f)])]
      <4> HIDE DEF old, item
      <4>1. my.array \in DOMAIN arrays
        <5>1. my.len > 0 /\ Fits(my, arrays) BY <1>5, <1>10, Zenon DEF Room
        <5> QED BY <1>6, <5>1 DEF Fits
      <4> QED BY <1>2, <1>10, <3>1, <4>1 DEF Put, WithItem, Cells
    <3> QED BY <1>1, <1>2, <1>5, <1>10, <3>2 DEF WritesProduct, SetsProduct
  <2>2. arrays' \in Seq(Array) BY <1>2, <2>1, ProductCell, Zenon DEF CellWritten
  <2>3. StatesOK' BY <1>1, <1>7, <1>10, <2>2
  <2>4. f.at = "loaded" /\ my \in Slice BY <1>5, <1>10
  <2>5. GoesTo(f, "wroteProduct", my) BY <1>2, <1>10, <2>4, PauseList DEF GoesTo
  <2>6. Changed(c) BY <2>1 DEF Changed
  <2> HIDE DEF my
  <2> QED BY <1>1, <1>4, <1>10, <2>3, <2>4, <2>5, <2>6, GotoStep, PauseList
<1>11. CASE /\ At(c, "wroteProduct")
            /\ arrays' = [arrays EXCEPT ![my.array].items[my.len + 1].quantity = Req(c).quantity]
            /\ Goto(c, "appended", longer) /\ UNCHANGED <<carts, log, raced>>
  <2>1. WritesQuantity(f) BY <1>1, <1>2, <1>5, <1>11 DEF WritesQuantity, SetsQuantity
  <2>2. arrays' \in Seq(Array) BY <1>2, <2>1, QuantityCell DEF CellWritten
  <2>3. StatesOK' BY <1>1, <1>7, <1>11, <2>2
  <2>4. longer \in Slice /\ longer = [f.my EXCEPT !.len = @ + 1] BY <1>2, <1>5, <1>11 DEF Slice
  <2>5. f.at = "wroteProduct" BY <1>5, <1>11
  <2> HIDE DEF longer
  <2>6. GoesTo(f, "appended", longer) BY <1>2, <2>4, <2>5, PauseList DEF GoesTo
  <2>7. Changed(c) BY <2>1 DEF Changed
  <2> QED BY <1>1, <1>4, <1>11, <2>3, <2>4, <2>6, <2>7, GotoStep, PauseList
<1>12. CASE /\ At(c, "appended") /\ carts' = SetState(carts, user, my)
            /\ log' = [log EXCEPT ![user] = Append(@, item)]
            /\ raced' = IF Held(c, user) THEN raced \cup {user} ELSE raced
            /\ Return(c, r) /\ UNCHANGED arrays
  <2>1. my \in Slice /\ f.at = "appended" BY <1>5, <1>12
  <2>2. StateOf(carts', Users, Slice) BY <1>3, <1>12, <2>1, StoredType DEF StatesOK
  <2>3. log' \in [Users -> Seq(CartItem)]
    <3> HIDE DEF user, item
    <3>1. log \in [Users -> Seq(CartItem)] BY DEF StatesOK
    <3>2. Append(log[user], item) \in Seq(CartItem) BY <1>3, <3>1, AppendProperties
    <3> QED BY <1>12, <3>1, <3>2
  <2>4. StatesOK' BY <1>1, <1>6, <1>12, <2>2, <2>3, CartsTyped
  <2>5. StoresCart(f, Held(c, f.req.user)) BY <1>1, <1>2, <1>12, <2>1 DEF StoresCart
  <2>6. Changed(c) BY <2>5 DEF Changed
  <2>7. r \in ReplyTo("add_item") BY Names DEF ReplyTo, AddItemResponse
  <2> HIDE DEF r
  <2>8. Gives(f, r) BY <1>2, <2>1 DEF Gives
  <2> QED BY <1>1, <1>12, <2>4, <2>6, <2>7, <2>8, ReturnStep
<1> QED BY <1>1, <1>8, <1>9, <1>10, <1>11, <1>12

LEMMA GetCartStep ==
  ASSUME CallsOK, StatesOK, FitsOK, NEW c \in Clients, getCart(c)
  PROVE  Step(c) /\ UNCHANGED state /\ Calm(call[c][1])
<1> DEFINE f == call[c][1]
           user == Req(c).user
           cart == _localGetCart(user)
           items == Items(My(c))
           r == [cart |-> [user |-> user, items |-> items]]
<1>1. /\ Serving(c, "ro_get_cart") /\ UNCHANGED state
      /\ \/ At(c, "start") /\ Goto(c, "loaded", cart)
         \/ At(c, "loaded") /\ Return(c, r)
  BY DEF getCart, GetCart
<1>2. f \in Frames /\ f.ep = "ro_get_cart" /\ f.req = Req(c) /\ f.my = My(c) /\ call[c] # <<>>
  BY <1>1, Serves
<1>3. user \in Users
  <2>1. RequestOf["ro_get_cart"] = GetCartRequest BY DEF RequestOf
  <2>2. Req(c) \in GetCartRequest BY <1>1, <2>1, Serves
  <2>3. call[c][1] \in Frames /\ call[c][1].ep = "ro_get_cart" /\ call[c][1].req = Req(c) BY <1>1, Serves
  <2> QED BY <2>2, <2>3 DEF GetCartRequest
<1>4. Calm(f) BY <1>2 DEF Calm, Adders
<1>5. CASE At(c, "start") /\ Goto(c, "loaded", cart)
  <2>1. cart \in Slice BY CartLoaded
  <2>2. LocalsAt("ro_get_cart", "loaded") = Slice BY DEF LocalsAt, HoldsSlice
  <2>3. cart = _localGetCart(f.req.user) BY <1>2
  <2> HIDE DEF cart
  <2>4. GoesTo(f, "loaded", cart) BY <1>2, <2>3, PauseList DEF GoesTo
  <2> QED BY <1>1, <1>4, <1>5, <2>1, <2>2, <2>4, GotoStep, PauseList
<1>6. CASE At(c, "loaded") /\ Return(c, r)
  <2>1. f.at = "loaded" BY <1>1, <1>6, Serves
  <2>2. HoldsSlice(f.ep, f.at) BY <1>2, <2>1 DEF HoldsSlice
  <2>3. f.my \in Slice /\ Fits(f.my, arrays) BY <1>2, <2>2, Holder
  <2>4. items \in Seq(CartItem) /\ items = Items(f.my)
    <3> HIDE DEF f
    <3> QED BY <1>2, <2>3, ItemsParts DEF StatesOK
  <2> HIDE DEF items, user
  <2>5. [user |-> user, items |-> items] \in Cart BY <1>3, <2>4 DEF Cart
  <2>6. r \in ReplyTo("ro_get_cart") BY <2>5, Names DEF ReplyTo, GetCartResponse
  <2>7. r.cart.items = items OBVIOUS
  <2> HIDE DEF r
  <2>8. Gives(f, r) BY <1>2, <2>1, <2>4, <2>7 DEF Gives
  <2> QED BY <1>1, <1>4, <1>6, <2>6, <2>8, ReturnStep
<1> QED BY <1>1, <1>5, <1>6

LEMMA EmptyCartStep ==
  ASSUME CallsOK, StatesOK, NEW c \in Clients, emptyCart(c)
  PROVE  Step(c) /\ StatesOK' /\ Changed(c)
<1> DEFINE f == call[c][1]
           user == Req(c).user
           r == [ok |-> TRUE]
<1>1. /\ Serving(c, "empty_cart") /\ carts' = SetState(carts, user, Empty)
      /\ log' = [log EXCEPT ![user] = <<>>]
      /\ raced' = IF Held(c, user) THEN raced \cup {user} ELSE raced \ {user}
      /\ Return(c, r) /\ UNCHANGED <<arrays, products, rates, payments, parcels>>
  BY DEF emptyCart, EmptyCart
<1>2. f.ep = "empty_cart" /\ f.req = Req(c) BY <1>1, Serves
<1>3. user \in Users
  <2>1. RequestOf["empty_cart"] = EmptyCartRequest BY DEF RequestOf
  <2>2. Req(c) \in EmptyCartRequest BY <1>1, <2>1, Serves
  <2>3. call[c][1] \in Frames /\ call[c][1].ep = "empty_cart" /\ call[c][1].req = Req(c) BY <1>1, Serves
  <2> QED BY <2>2, <2>3 DEF EmptyCartRequest
<1>4. StatesOK'
  <2>1. Empty \in Slice BY DEF Empty, Slice
  <2>2. StateOf(carts', Users, Slice) BY <1>1, <1>3, <2>1, StoredType DEF StatesOK
  <2>3. log' \in [Users -> Seq(CartItem)]
    <3> HIDE DEF user
    <3> QED BY <1>1, <1>3, EmptySeq DEF StatesOK
  <2> QED BY <1>1, <2>2, <2>3, CartsTyped DEF StatesOK
<1>5. Changed(c) BY <1>1, <1>2 DEF Changed, Empties
<1>6. r \in ReplyTo("empty_cart") BY Names DEF ReplyTo, EmptyCartResponse
<1> HIDE DEF r
<1>7. Gives(f, r) BY <1>2 DEF Gives
<1> QED BY <1>1, <1>4, <1>5, <1>6, <1>7, ReturnStep

-----------------------------------------------------------------------------
(* Orders. *)

LEMMA OrderLocals ==
  /\ \A p \in {"prepare", "gotProduct", "gotPrice", "gotQuote", "gotShippingCost"} :
       LocalsAt("place_order", p) = Preparing(p)
  /\ \A p \in {"charged", "shipped", "emptied"} : LocalsAt("place_order", p) = Orders
BY DEF LocalsAt, HoldsSlice

LEMMA PreparingParts ==
  ASSUME NEW p, NEW o \in Preparing(p)
  PROVE  /\ o.items \in Seq(CartItem) /\ o.costs \in Seq(Paid)
         /\ Len(o.items) \in Nat /\ Len(o.costs) \in Nat
         /\ o \in [items : Seq(CartItem), costs : Seq(Paid)]
         /\ Len(o.costs) <= Len(o.items)
         /\ Len(o.costs) < Len(o.items) => \A k \in {"prepare", "gotProduct", "gotPrice"} : o \in Preparing(k)
         /\ Len(o.costs) = Len(o.items) =>
              \A k \in {"prepare", "gotQuote", "gotShippingCost"} : o \in Preparing(k)
         /\ p \in {"gotProduct", "gotPrice"} => Len(o.costs) < Len(o.items)
         /\ p \in {"gotQuote", "gotShippingCost"} => Len(o.costs) = Len(o.items)
<1>1. o.items \in Seq(CartItem) /\ o.costs \in Seq(Paid) BY DEF Preparing
<1>2. Len(o.items) \in Nat /\ Len(o.costs) \in Nat BY <1>1, LenProperties
<1>3. /\ o \in [items : Seq(CartItem), costs : Seq(Paid)] /\ Len(o.costs) <= Len(o.items)
      /\ p \in {"gotProduct", "gotPrice"} => Len(o.costs) < Len(o.items)
      /\ p \in {"gotQuote", "gotShippingCost"} => Len(o.costs) = Len(o.items)
  BY DEF Preparing
<1>4. Len(o.costs) < Len(o.items) => \A k \in {"prepare", "gotProduct", "gotPrice"} : o \in Preparing(k)
  BY <1>2, <1>3 DEF Preparing
<1>5. Len(o.costs) = Len(o.items) =>
        \A k \in {"prepare", "gotQuote", "gotShippingCost"} : o \in Preparing(k)
  BY <1>2, <1>3 DEF Preparing
<1> QED BY <1>1, <1>2, <1>3, <1>4, <1>5

LEMMA OrderParts ==
  ASSUME CallsOK, NEW c \in Clients, Serving(c, "place_order")
  PROVE  /\ call[c][1] \in Frames /\ call[c][1].ep = "place_order" /\ call[c][1].req = Req(c)
         /\ call[c][1].my = My(c) /\ call[c][1].res = Res(c) /\ Calm(call[c][1])
         /\ Req(c).user \in Users /\ Req(c).currency \in Currencies /\ Req(c).card \in CreditCard
<1>1. RequestOf["place_order"] = PlaceOrderRequest BY DEF RequestOf
<1>2. call[c][1].ep = "place_order" BY Serves
<1>3. Calm(call[c][1]) BY <1>2 DEF Calm, Adders
<1>4. Req(c) \in PlaceOrderRequest BY <1>1, Serves
<1>5. Req(c).user \in Users /\ Req(c).currency \in Currencies /\ Req(c).card \in CreditCard
  BY <1>4 DEF PlaceOrderRequest
<1> QED BY <1>3, <1>5, Serves

LEMMA PrepareStep ==
  ASSUME CallsOK, NEW c \in Clients, Serving(c, "place_order"),
         prepareOrderItemsAndShippingQuoteFromCart(c, Req(c).user, Req(c).currency)
  PROVE  Step(c)
<1> DEFINE f == call[c][1]
           user == Req(c).user
           currency == Req(c).currency
           my == My(c)
           n == Len(my.costs) + 1
           items == my.items
           m0 == [items |-> Res(c).cart.items, costs |-> <<>>]
           m1 == [my EXCEPT !.costs = Append(@, Res(c).amount)]
<1>1. \/ At(c, "start") /\ Invoke(c, "cart", "ro_get_cart", [user |-> user], "gotCart")
      \/ At(c, "gotCart") /\ Goto(c, "prepare", m0)
      \/ /\ At(c, "prepare") /\ n <= Len(items)
         /\ Invoke(c, "productcatalog", "ro_get_product", [product |-> items[n].product], "gotProduct")
      \/ At(c, "gotProduct") /\ Res(c).product.price = NoPrice /\ Panic(c)
      \/ /\ At(c, "gotProduct") /\ Res(c).product.price # NoPrice
         /\ Invoke(c, "currency", "ro_convert_currency",
                   [amount |-> Res(c).product.price, to |-> currency], "gotPrice")
      \/ At(c, "gotPrice") /\ Goto(c, "prepare", m1)
      \/ /\ At(c, "prepare") /\ Len(my.costs) = Len(my.items)
         /\ Invoke(c, "shipping", "ro_get_quote", [items |-> my.items], "gotQuote")
      \/ /\ At(c, "gotQuote")
         /\ Invoke(c, "currency", "ro_convert_currency", [amount |-> Res(c).cost, to |-> currency],
                   "gotShippingCost")
  BY DEF prepareOrderItemsAndShippingQuoteFromCart, prepOrderItems
<1>2. /\ f \in Frames /\ f.ep = "place_order" /\ f.req = Req(c) /\ f.my = my
      /\ user \in Users /\ currency \in Currencies
  BY OrderParts
<1>3. \A p, callee : At(c, p) /\ <<"place_order", p, callee>> \in Sites => Res(c) \in ReplyTo(callee)
  BY Serves
<1>4. \A p : At(c, p) => f.at = p BY Serves
<1>5. \A p \in {"prepare", "gotProduct", "gotPrice", "gotQuote", "gotShippingCost"} :
        At(c, p) => my \in Preparing(p)
  BY OrderLocals, Serves
<1>6. /\ RequestOf["ro_get_cart"] = GetCartRequest /\ RequestOf["ro_get_product"] = GetProductRequest
      /\ RequestOf["ro_convert_currency"] = ConvertCurrencyRequest
      /\ RequestOf["ro_get_quote"] = GetQuoteRequest
  BY DEF RequestOf
<1>7. /\ ReplyTo("ro_get_cart") = GetCartResponse /\ ReplyTo("ro_get_product") = GetProductResponse
      /\ ReplyTo("ro_convert_currency") = [amount : Paid] /\ ReplyTo("ro_get_quote") = GetQuoteResponse
  BY Names DEF ReplyTo
\* One of its calls.
<1>8. ASSUME NEW callee \in {"ro_get_cart", "ro_get_product", "ro_convert_currency", "ro_get_quote"},
             NEW place, <<"place_order", place, callee>> \in Sites, NEW q \in RequestOf[callee],
             callee = "ro_get_cart" => q.user = user, my \in LocalsAt("place_order", place),
             f.at \notin {"charged", "shipped", "emptied"},
             NEW s, s \in DOMAIN Endpoints, callee \in Endpoints[s],
             Invoke(c, s, callee, q, place)
      PROVE  Step(c)
  <2>1. Seeks(f, callee, q, place, my)
    <3> HIDE DEF f, my
    <3> QED BY <1>2, <1>8, SeeksPlain
  <2>2. InvokeWith(c, s, callee, q, place, my) BY <1>8 DEF Invoke, InvokeWith
  <2> HIDE DEF my
  <2> QED BY <1>8, <2>1, <2>2, CallStep
<1>9. CASE At(c, "start") /\ Invoke(c, "cart", "ro_get_cart", [user |-> user], "gotCart")
  <2>1. f.at = "start" /\ my = <<>> BY <1>4, <1>9, Serves, NoLocals
  <2>2. my \in LocalsAt("place_order", "gotCart") BY <2>1, NoLocals
  <2>3. [user |-> user] \in RequestOf["ro_get_cart"] BY <1>2, <1>6 DEF GetCartRequest
  <2> QED BY <1>8, <1>9, <2>1, <2>2, <2>3, SiteList, ServedBy
<1>10. CASE At(c, "gotCart") /\ Goto(c, "prepare", m0)
  <2>1. f.at = "gotCart" /\ Res(c) \in GetCartResponse BY <1>3, <1>4, <1>7, <1>10, SiteList
  <2>2. Res(c).cart.items \in Seq(CartItem) BY <2>1 DEF GetCartResponse, Cart
  <2>3. m0 \in Preparing("prepare")
    <3>1. <<>> \in Seq(Paid) /\ Len(<<>>) = 0 /\ Len(Res(c).cart.items) \in Nat BY <2>2, EmptySeq, LenProperties
    <3> QED BY <2>2, <3>1 DEF Preparing
  <2> HIDE DEF m0
  <2>4. m0 \in LocalsAt("place_order", "prepare") BY <2>3, OrderLocals
  <2>5. GoesTo(f, "prepare", m0) BY <1>2, <2>1, PauseList DEF GoesTo, Adders
  <2> QED BY <1>10, <2>4, <2>5, GotoStep, PauseList
<1>11. CASE /\ At(c, "prepare") /\ n <= Len(items)
            /\ Invoke(c, "productcatalog", "ro_get_product", [product |-> items[n].product], "gotProduct")
  <2>1. f.at = "prepare" /\ my \in Preparing("prepare") BY <1>4, <1>5, <1>11
  <2>2. /\ items \in Seq(CartItem) /\ Len(items) \in Nat /\ Len(my.costs) \in Nat
        /\ Len(my.costs) < Len(items) => my \in Preparing("gotProduct")
    <3> HIDE DEF my
    <3> QED BY <2>1, PreparingParts
  <2>3. n \in 1 .. Len(items) /\ Len(my.costs) < Len(items) BY <1>11, <2>2
  <2>4. items[n] \in CartItem
    <3> HIDE DEF n, items
    <3> QED BY <2>2, <2>3, ElementOfSeq
  <2>5. [product |-> items[n].product] \in RequestOf["ro_get_product"]
    BY <1>6, <2>4 DEF CartItem, GetProductRequest
  <2>6. my \in LocalsAt("place_order", "gotProduct") BY <2>2, <2>3, OrderLocals
  <2> HIDE DEF items, n
  <2> QED BY <1>8, <1>11, <2>1, <2>5, <2>6, SiteList, ServedBy
<1>12. CASE At(c, "gotProduct") /\ Panic(c)
  <2>1. f.at = "gotProduct" BY <1>4, <1>12
  <2>2. ~Charged(f) BY <1>2, <2>1 DEF Charged
  <2> QED BY <1>2, <1>12, <2>2, PanicStep
<1>13. CASE /\ At(c, "gotProduct") /\ Res(c).product.price # NoPrice
            /\ Invoke(c, "currency", "ro_convert_currency",
                      [amount |-> Res(c).product.price, to |-> currency], "gotPrice")
  <2>1. f.at = "gotProduct" /\ my \in Preparing("gotProduct") BY <1>4, <1>5, <1>13
  <2>2. Res(c) \in GetProductResponse BY <1>3, <1>7, <1>13, SiteList
  <2>3. NoProduct.price = NoPrice BY DEF NoProduct
  <2>4. Res(c).product \in Product BY <1>13, <2>2, <2>3 DEF GetProductResponse
  <2>5. [amount |-> Res(c).product.price, to |-> currency] \in RequestOf["ro_convert_currency"]
    BY <1>2, <1>6, <2>4 DEF Product, ConvertCurrencyRequest
  <2>6. my \in Preparing("gotPrice")
    <3> HIDE DEF my
    <3> QED BY <2>1, PreparingParts
  <2>7. my \in LocalsAt("place_order", "gotPrice") BY <2>6, OrderLocals
  <2> QED BY <1>8, <1>13, <2>1, <2>5, <2>7, SiteList, ServedBy
<1>14. CASE At(c, "gotPrice") /\ Goto(c, "prepare", m1)
  <2>1. f.at = "gotPrice" /\ my \in Preparing("gotPrice") BY <1>4, <1>5, <1>14
  <2>2. Res(c).amount \in Paid
    <3>1. Res(c) \in [amount : Paid] BY <1>3, <1>7, <1>14, SiteList
    <3> QED BY <3>1
  <2>3. /\ my \in [items : Seq(CartItem), costs : Seq(Paid)] /\ my.costs \in Seq(Paid)
        /\ my.items \in Seq(CartItem) /\ Len(my.items) \in Nat /\ Len(my.costs) \in Nat
        /\ Len(my.costs) < Len(my.items)
    <3> HIDE DEF my
    <3> QED BY <2>1, PreparingParts
  <2>4. Append(my.costs, Res(c).amount) \in Seq(Paid) /\ Len(Append(my.costs, Res(c).amount)) = Len(my.costs) + 1
    BY <2>2, <2>3, AppendProperties
  <2>5. m1 = [items |-> my.items, costs |-> Append(my.costs, Res(c).amount)]
    <3>1. \A s : \A o \in [items : Seq(CartItem), costs : Seq(Paid)] :
            [o EXCEPT !.costs = s] = [items |-> o.items, costs |-> s]
      OBVIOUS
    <3> HIDE DEF my
    <3> QED BY <2>3, <3>1
  <2> HIDE DEF m1
  <2>6. m1 \in Preparing("prepare")
    <3>1. m1 \in [items : Seq(CartItem), costs : Seq(Paid)] BY <2>3, <2>4, <2>5
    <3>2. Len(m1.costs) <= Len(m1.items) BY <2>3, <2>4, <2>5
    <3> QED BY <3>1, <3>2 DEF Preparing
  <2>7. m1 \in LocalsAt("place_order", "prepare") BY <2>6, OrderLocals
  <2>8. GoesTo(f, "prepare", m1) BY <1>2, <2>1, PauseList DEF GoesTo, Adders
  <2> QED BY <1>14, <2>7, <2>8, GotoStep, PauseList
<1>15. CASE /\ At(c, "prepare") /\ Len(my.costs) = Len(my.items)
            /\ Invoke(c, "shipping", "ro_get_quote", [items |-> my.items], "gotQuote")
  <2>1. f.at = "prepare" /\ my \in Preparing("prepare") BY <1>4, <1>5, <1>15
  <2>2. my \in Preparing("gotQuote") /\ my.items \in Seq(CartItem)
    <3> HIDE DEF my
    <3> QED BY <1>15, <2>1, PreparingParts
  <2>3. [items |-> my.items] \in RequestOf["ro_get_quote"] BY <1>6, <2>2 DEF GetQuoteRequest
  <2>4. my \in LocalsAt("place_order", "gotQuote") BY <2>2, OrderLocals
  <2> QED BY <1>8, <1>15, <2>1, <2>3, <2>4, SiteList, ServedBy
<1>16. CASE /\ At(c, "gotQuote")
            /\ Invoke(c, "currency", "ro_convert_currency", [amount |-> Res(c).cost, to |-> currency],
                      "gotShippingCost")
  <2>1. f.at = "gotQuote" /\ my \in Preparing("gotQuote") BY <1>4, <1>5, <1>16
  <2>2. my \in Preparing("gotShippingCost")
    <3> HIDE DEF my
    <3> QED BY <2>1, PreparingParts
  <2>3. Res(c).cost \in Money
    <3>1. Res(c) \in GetQuoteResponse BY <1>3, <1>7, <1>16, SiteList
    <3> QED BY <3>1 DEF GetQuoteResponse
  <2>4. [amount |-> Res(c).cost, to |-> currency] \in RequestOf["ro_convert_currency"]
    BY <1>2, <1>6, <2>3 DEF ConvertCurrencyRequest
  <2>5. my \in LocalsAt("place_order", "gotShippingCost") BY <2>2, OrderLocals
  <2> QED BY <1>8, <1>16, <2>1, <2>4, <2>5, SiteList, ServedBy
<1> QED BY <1>1, <1>9, <1>10, <1>11, <1>12, <1>13, <1>14, <1>15, <1>16

LEMMA PaysStep ==
  ASSUME CallsOK, NEW c \in Clients, Serving(c, "place_order"), At(c, "gotShippingCost"),
         chargeCard(c, Total(My(c), Res(c).amount, Req(c).currency), Req(c).card,
                    [items |-> My(c).items, costs |-> My(c).costs, shipping |-> Res(c).amount])
  PROVE  Step(c)
<1> DEFINE f == call[c][1]
           my == My(c)
           shipping == Res(c).amount
           currency == Req(c).currency
           total == Total(my, shipping, currency)
           order == [items |-> my.items, costs |-> my.costs, shipping |-> shipping]
           q == [amount |-> total, card |-> Req(c).card]
<1>1. /\ f \in Frames /\ f.ep = "place_order" /\ f.req = Req(c) /\ currency \in Currencies
      /\ Req(c).card \in CreditCard
  BY OrderParts
<1>2. f.at = "gotShippingCost" BY Serves
<1>3. shipping \in Paid
  <2>1. Res(c) \in ReplyTo("ro_convert_currency") BY Serves, SiteList
  <2>2. ReplyTo("ro_convert_currency") = [amount : Paid] BY Names DEF ReplyTo
  <2>3. Res(c) \in [amount : Paid] BY <2>1, <2>2
  <2> QED BY <2>3
<1>4. my \in Preparing("gotShippingCost") BY OrderLocals, Serves
<1>5. my.items \in Seq(CartItem) /\ my.costs \in Seq(Paid) /\ Len(my.costs) = Len(my.items)
  <2> HIDE DEF my
  <2> QED BY <1>4, PreparingParts
<1>6. total \in Paid /\ total.currency = currency /\ Value(total) = Due(order)
  <2> HIDE DEF my, shipping, currency
  <2> QED BY <1>1, <1>3, <1>5, TotalDue, SMTT(30)
<1>7. order \in Orders BY <1>3, <1>5 DEF Orders
<1>8. q \in RequestOf["charge"]
  <2>1. RequestOf["charge"] = ChargeRequest BY DEF RequestOf
  <2> HIDE DEF total
  <2> QED BY <1>1, <1>6, <2>1 DEF Paid, ChargeRequest
<1>9. q.amount = total /\ currency = f.req.currency BY <1>1
<1>10. InvokeWith(c, "payment", "charge", q, "charged", order) BY DEF chargeCard
<1> HIDE DEF order, q, total
<1>11. Seeks(f, "charge", q, "charged", order)
  <2>1. Frame("charge", q).ep = "charge" /\ Frame("charge", q).req = q BY DEF Frame
  <2>2. Gone(f, "charged", order).my = order /\ Gone(f, "charged", order).req = f.req
    <3> HIDE DEF f
    <3> QED BY <1>1, GoneParts
  <2>3. Bound(Frame("charge", q), Gone(f, "charged", order)) BY <1>6, <1>9, <2>1, <2>2 DEF Bound
  <2> QED BY <1>1, <1>2, <2>3 DEF Seeks
<1>12. order \in LocalsAt("place_order", "charged") BY <1>7, OrderLocals
<1> QED BY <1>8, <1>10, <1>11, <1>12, CallStep, SiteList, ServedBy

LEMMA DeliversStep ==
  ASSUME CallsOK, NEW c \in Clients, Serving(c, "place_order"), Delivers(c, Req(c).user)
  PROVE  Step(c)
<1> DEFINE f == call[c][1]
           my == My(c)
           q1 == [items |-> my.items]
           q2 == [user |-> Req(c).user]
           bought == [i \in DOMAIN my.items |-> [item |-> my.items[i], cost |-> my.costs[i]]]
           order == [shippingCost |-> my.shipping, items |-> bought]
           r == [order |-> order]
<1>1. \/ At(c, "charged") /\ Res(c).error # "" /\ Panic(c)
      \/ At(c, "charged") /\ Res(c).error = "" /\ Invoke(c, "shipping", "ship_order", q1, "shipped")
      \/ At(c, "shipped") /\ Invoke(c, "cart", "empty_cart", q2, "emptied")
      \/ At(c, "emptied") /\ Return(c, r)
  BY DEF Delivers
<1>2. /\ f \in Frames /\ f.ep = "place_order" /\ f.req = Req(c) /\ f.my = my /\ f.res = Res(c)
      /\ Req(c).user \in Users
  BY OrderParts
<1>3. \A p : At(c, p) => f.at = p BY Serves
<1>4. \A p \in {"charged", "shipped", "emptied"} : At(c, p) => my \in Orders BY OrderLocals, Serves
<1>5. my \in Orders => /\ my.items \in Seq(CartItem) /\ my.costs \in Seq(Paid) /\ my.shipping \in Paid
                       /\ Len(my.costs) = Len(my.items)
  BY DEF Orders
<1>6. CASE At(c, "charged") /\ Res(c).error # "" /\ Panic(c)
  <2>1. f.at = "charged" /\ f.res.error # "" BY <1>2, <1>3, <1>6
  <2>2. ~Charged(f) BY <1>2, <2>1 DEF Charged
  <2> QED BY <1>2, <1>6, <2>2, PanicStep
<1>7. CASE At(c, "charged") /\ Res(c).error = "" /\ Invoke(c, "shipping", "ship_order", q1, "shipped")
  <2>1. f.at = "charged" /\ f.res.error = "" /\ my \in Orders BY <1>2, <1>3, <1>4, <1>7
  <2>2. q1 \in RequestOf["ship_order"]
    <3>1. RequestOf["ship_order"] = ShipOrderRequest BY DEF RequestOf
    <3> QED BY <1>5, <2>1, <3>1 DEF ShipOrderRequest
  <2>3. q1.items = my.items OBVIOUS
  <2>4. InvokeWith(c, "shipping", "ship_order", q1, "shipped", my) BY <1>7 DEF Invoke, InvokeWith
  <2> HIDE DEF q1
  <2>5. Seeks(f, "ship_order", q1, "shipped", my)
    <3>1. Frame("ship_order", q1).ep = "ship_order" /\ Frame("ship_order", q1).req = q1 BY DEF Frame
    <3>2. Gone(f, "shipped", my).my = my
      <4> HIDE DEF f, my
      <4> QED BY <1>2, GoneParts
    <3>3. Bound(Frame("ship_order", q1), Gone(f, "shipped", my)) BY <2>3, <3>1, <3>2 DEF Bound
    <3> QED BY <1>2, <2>1, <3>3 DEF Seeks
  <2>6. my \in LocalsAt("place_order", "shipped") BY <2>1, OrderLocals
  <2> HIDE DEF my
  <2> QED BY <2>2, <2>4, <2>5, <2>6, CallStep, SiteList, ServedBy
<1>8. CASE At(c, "shipped") /\ Invoke(c, "cart", "empty_cart", q2, "emptied")
  <2>1. f.at = "shipped" /\ my \in Orders BY <1>3, <1>4, <1>8
  <2>2. q2 \in RequestOf["empty_cart"]
    <3>1. RequestOf["empty_cart"] = EmptyCartRequest BY DEF RequestOf
    <3> QED BY <1>2, <3>1 DEF EmptyCartRequest
  <2>4. InvokeWith(c, "cart", "empty_cart", q2, "emptied", my) BY <1>8 DEF Invoke, InvokeWith
  <2> HIDE DEF q2
  <2>5. Seeks(f, "empty_cart", q2, "emptied", my)
    <3>1. Frame("empty_cart", q2).ep = "empty_cart" BY DEF Frame
    <3>2. Bound(Frame("empty_cart", q2), Gone(f, "emptied", my)) BY <3>1 DEF Bound
    <3> QED BY <1>2, <2>1, <3>2 DEF Seeks
  <2>6. my \in LocalsAt("place_order", "emptied") BY <2>1, OrderLocals
  <2> HIDE DEF my
  <2> QED BY <2>2, <2>4, <2>5, <2>6, CallStep, SiteList, ServedBy
<1>9. CASE At(c, "emptied") /\ Return(c, r)
  <2>1. f.at = "emptied" /\ my \in Orders BY <1>3, <1>4, <1>9
  <2>2. /\ my.items \in Seq(CartItem) /\ my.costs \in Seq(Paid) /\ my.shipping \in Money
        /\ Len(my.costs) = Len(my.items)
    BY <1>5, <2>1 DEF Paid
  <2>3. bought \in Seq(OrderItem)
    <3> HIDE DEF my
    <3>1. Len(my.items) \in Nat /\ DOMAIN my.items = 1 .. Len(my.items) BY <2>2, LenProperties
    <3>2. \A i \in 1 .. Len(my.items) : my.items[i] \in CartItem /\ my.costs[i] \in Paid
      BY <2>2, ElementOfSeq
    <3>3. \A i \in 1 .. Len(my.items) : [item |-> my.items[i], cost |-> my.costs[i]] \in OrderItem
      BY <3>2 DEF OrderItem, Paid
    <3>4. bought \in [1 .. Len(my.items) -> OrderItem] BY <3>1, <3>3
    <3> HIDE DEF bought
    <3> QED BY <3>1, <3>4
  <2> HIDE DEF bought, my
  <2>4. order \in OrderResult BY <2>2, <2>3 DEF OrderResult
  <2> HIDE DEF order
  <2>5. r \in ReplyTo("place_order") BY <2>4, Names DEF ReplyTo, PlaceOrderResponse
  <2> HIDE DEF r
  <2>6. Gives(f, r) BY <1>2, <2>1 DEF Gives
  <2> QED BY <1>9, <2>5, <2>6, ReturnStep
<1> QED BY <1>1, <1>6, <1>7, <1>8, <1>9

LEMMA PlaceOrderStep ==
  ASSUME CallsOK, NEW c \in Clients, placeOrder(c)
  PROVE  Step(c) /\ UNCHANGED state /\ Calm(call[c][1])
<1>1. Serving(c, "place_order") /\ UNCHANGED state BY DEF placeOrder, PlaceOrder
<1>2. Calm(call[c][1]) BY <1>1, OrderParts
<1>3. CASE prepareOrderItemsAndShippingQuoteFromCart(c, Req(c).user, Req(c).currency)
  BY <1>1, <1>2, <1>3, PrepareStep
<1>4. CASE /\ At(c, "gotShippingCost")
           /\ chargeCard(c, Total(My(c), Res(c).amount, Req(c).currency), Req(c).card,
                         [items |-> My(c).items, costs |-> My(c).costs, shipping |-> Res(c).amount])
  BY <1>1, <1>2, <1>4, PaysStep
<1>5. CASE Delivers(c, Req(c).user) BY <1>1, <1>2, <1>5, DeliversStep
<1> QED BY <1>3, <1>4, <1>5 DEF placeOrder, PlaceOrder

-----------------------------------------------------------------------------
(* Clients, services that stop, and the initial values. *)

\* A request of a client, to one of the endpoints it uses.
Asked(c) == \E e \in Entries : \E q \in RequestOf[e] : Asks(c, e, q)

LEMMA AsksStep ==
  ASSUME CallsOK, NEW c \in Clients, NEW e \in Entries, NEW q \in RequestOf[e], Asks(c, e, q)
  PROVE  /\ CallsOK' /\ UNCHANGED <<up, answer>> /\ answer[c].ep = "none" /\ call[c] = <<>>
         /\ call'[c] # <<>> /\ Len(call'[c]) = 1 /\ call'[c][1] = Frame(e, q)
         /\ \A d \in Clients : d # c => call'[d] = call[d]
<1> DEFINE f == Frame(e, q)
<1>1. /\ call[c] = <<>> /\ answer[c].ep = "none" /\ UNCHANGED <<up, answer>>
      /\ call' = [call EXCEPT ![c] = <<f>>]
  BY DEF Asks, Idle
<1>2. f \in Frames /\ f \in Heads /\ f.ep = e
  <2>1. e \in Eps BY Names
  <2> QED BY <2>1, FrameStarts
<1>3. f \in Bottoms BY <1>2 DEF Bottoms
<1> HIDE DEF f
<1>4. <<f>> \in Calls /\ <<f>> # <<>> /\ <<f>>[1] = f /\ Len(<<f>>) = 1
  <2>1. <<f>> \in Seq(Frames) /\ Len(<<f>>) = 1 /\ <<f>>[1] = f BY <1>2
  <2> QED BY <1>2, <1>3, <2>1 DEF Calls, Stacks
<1>5. call = [d \in Clients |-> call[d]] /\ \A d \in Clients : call[d] \in Calls BY DEF CallsOK
<1>6. /\ call' = [d \in Clients |-> call'[d]] /\ call'[c] = <<f>>
      /\ \A d \in Clients : d # c => call'[d] = call[d]
  BY <1>1, <1>5
<1>7. DOMAIN call' = Clients /\ \A d \in Clients : call'[d] \in Calls BY <1>4, <1>5, <1>6
<1>8. CallsOK' BY <1>1, <1>6, <1>7 DEF CallsOK
<1> QED BY <1>1, <1>4, <1>6, <1>8 DEF f

LEMMA ClientAsks ==
  ASSUME CallsOK, NEW c \in Clients, Client(c) \/ (c \in Visitors /\ Visitor(c))
  PROVE  Asked(c) /\ UNCHANGED state
<1>1. UNCHANGED state BY DEF Client, Visitor
<1>2. ASSUME NEW e \in Entries, NEW q, q \in RequestOf[e], AsksServed(c, e, q)
      PROVE  Asked(c)
  BY <1>2 DEF Asked, AsksServed
<1>3. /\ RequestOf["add_to_cart"] = AddToCartRequest /\ RequestOf["ro_view_cart"] = ViewCartRequest
      /\ RequestOf["ro_home"] = HomeRequest
      /\ RequestOf["frontend_set_currency"] = FrontendSetCurrencyRequest
      /\ RequestOf["init_currencies"] = InitCurrencyRequest
      /\ RequestOf["ro_browse_product"] = BrowseProductRequest
      /\ RequestOf["ro_search_products"] = SearchProductsRequest
      /\ RequestOf["ro_get_recommendations"] = GetRecommendationsRequest
      /\ RequestOf["checkout"] = CheckoutRequest /\ RequestOf["add_product"] = AddProductRequest
      /\ RequestOf["add_products"] = AddProductsRequest
      /\ RequestOf["ro_send_email"] = SendOrderConfirmationRequest
  BY DEF RequestOf
<1>4. ASSUME NEW u \in Users, NEW w \in Wanted[c],
             AsksServed(c, "add_to_cart", [user |-> u, product |-> w.product, quantity |-> w.quantity])
      PROVE  Asked(c)
  <2>1. w \in CartItem BY BoutiqueAssumption
  <2>2. [user |-> u, product |-> w.product, quantity |-> w.quantity] \in AddToCartRequest
    BY <2>1 DEF CartItem, AddToCartRequest
  <2> QED BY <1>2, <1>3, <1>4, <2>2, Names
<1>5. ASSUME NEW u \in Users, AsksServed(c, "ro_view_cart", [user |-> u]) PROVE Asked(c)
  <2>1. [user |-> u] \in ViewCartRequest BY DEF ViewCartRequest
  <2> QED BY <1>2, <1>3, <1>5, <2>1, Names
<1>6. ASSUME NEW u \in Users, NEW n \in PageSizes, AsksServed(c, "ro_home", [user |-> u, size |-> n])
      PROVE  Asked(c)
  <2>1. [user |-> u, size |-> n] \in HomeRequest BY BoutiqueAssumption DEF HomeRequest
  <2> QED BY <1>2, <1>3, <1>6, <2>1, Names
<1>7. ASSUME NEW cur \in NewRates, AsksServed(c, "frontend_set_currency", [cur |-> cur]) PROVE Asked(c)
  <2>1. [cur |-> cur] \in FrontendSetCurrencyRequest BY BoutiqueAssumption DEF FrontendSetCurrencyRequest
  <2> QED BY <1>2, <1>3, <1>7, <2>1, Names
<1>8. ASSUME AsksServed(c, "init_currencies", [currencies |-> SetToSeq(NewRates)]) PROVE Asked(c)
  <2>1. SetToSeq(NewRates) \in Seq(Currency)
    <3>1. SetToSeq(NewRates) \in Seq(NewRates) BY BoutiqueAssumption, SetToSeqParts
    <3> QED BY <3>1, BoutiqueAssumption, WiderSeq
  <2>2. [currencies |-> SetToSeq(NewRates)] \in InitCurrencyRequest BY <2>1 DEF InitCurrencyRequest
  <2> QED BY <1>2, <1>3, <1>8, <2>2, Names
<1>9. ASSUME NEW p \in ProductIds, AsksServed(c, "ro_browse_product", [product |-> p]) PROVE Asked(c)
  <2>1. [product |-> p] \in BrowseProductRequest BY DEF BrowseProductRequest
  <2> QED BY <1>2, <1>3, <1>9, <2>1, Names
<1>10. ASSUME NEW p \in ProductIds, AsksServed(c, "ro_search_products", [query |-> {p}]) PROVE Asked(c)
  <2>1. [query |-> {p}] \in SearchProductsRequest BY DEF SearchProductsRequest
  <2> QED BY <1>2, <1>3, <1>10, <2>1, Names
<1>11. ASSUME NEW ps \in {<<>>} \cup {<<p>> : p \in ProductIds},
              AsksServed(c, "ro_get_recommendations", [products |-> ps])
       PROVE  Asked(c)
  <2>1. ps \in Seq(ProductIds)
    <3>1. \A p \in ProductIds : <<p>> \in Seq(ProductIds) OBVIOUS
    <3> QED BY <3>1, EmptySeq
  <2>2. [products |-> ps] \in GetRecommendationsRequest BY <2>1 DEF GetRecommendationsRequest
  <2> QED BY <1>2, <1>3, <1>11, <2>2, Names
<1>12. ASSUME NEW u \in Users, NEW p \in Payments,
              AsksServed(c, "checkout", [user |-> u, currency |-> p.currency, card |-> p.card])
       PROVE  Asked(c)
  <2>1. [user |-> u, currency |-> p.currency, card |-> p.card] \in CheckoutRequest
    BY BoutiqueAssumption DEF CheckoutRequest
  <2> QED BY <1>2, <1>3, <1>12, <2>1, Names
<1>13. ASSUME NEW p \in NewProducts, AsksServed(c, "add_product", [product |-> p]) PROVE Asked(c)
  <2>1. [product |-> p] \in AddProductRequest BY BoutiqueAssumption DEF AddProductRequest
  <2> QED BY <1>2, <1>3, <1>13, <2>1, Names
<1>14. ASSUME AsksServed(c, "add_products", [products |-> SetToSeq(NewProducts)]) PROVE Asked(c)
  <2>1. SetToSeq(NewProducts) \in Seq(Product)
    <3>1. SetToSeq(NewProducts) \in Seq(NewProducts) BY BoutiqueAssumption, SetToSeqParts
    <3> QED BY <3>1, BoutiqueAssumption, WiderSeq
  <2>2. [products |-> SetToSeq(NewProducts)] \in AddProductsRequest BY <2>1 DEF AddProductsRequest
  <2> QED BY <1>2, <1>3, <1>14, <2>2, Names
<1>15. ASSUME NEW d \in Clients, answer[d].ep = "checkout", answer[d].ok,
              AsksServed(c, "ro_send_email", [order |-> answer[d].res.res])
       PROVE  Asked(c)
  <2>1. answer[d].res \in ReplyTo("checkout") BY <1>15 DEF CallsOK
  <2>2. ReplyTo("checkout") = CheckoutResponse BY Names DEF ReplyTo, ResponseOf
  <2>3. [order |-> answer[d].res.res] \in SendOrderConfirmationRequest
    <3>1. PICK r \in CheckoutResponse : r = answer[d].res BY <2>1, <2>2
    <3>2. r.res \in OrderResult BY DEF CheckoutResponse
    <3>3. answer[d].res.res \in OrderResult BY <3>1, <3>2
    <3> QED BY <3>3 DEF SendOrderConfirmationRequest
  <2> QED BY <1>2, <1>3, <1>15, <2>3, Names
<1>16. CASE Client(c) BY <1>1, <1>4, <1>16 DEF Client
<1>17. CASE Visitor(c)
  BY <1>1, <1>5, <1>6, <1>7, <1>8, <1>9, <1>10, <1>11, <1>12, <1>13, <1>14, <1>15, <1>17 DEF Visitor
<1> QED BY <1>16, <1>17

\* What a step of a handler is.
Handled(c) == call[c] # <<>> /\ Step(c) /\ Changed(c)

LEMMA HandleStep ==
  ASSUME CallsOK, StatesOK, FitsOK, NEW c \in Clients, Handle(c)
  PROVE  Handled(c) /\ StatesOK'
<1>1. call[c] # <<>>
  BY DEF Handle, home, frontendSetCurrency, browseProduct, addToCart, viewCart, checkout, placeOrder,
         charge, getQuote, shipOrder, sendEmail, addItemToCart, getCart, emptyCart, setCurrency,
         initCurrencies, getCurrencies, convertCurrency, addProduct, addProducts, getProduct,
         searchProducts, fetchCatalog, getRecommendations, Serving
<1>2. ASSUME Step(c), UNCHANGED state, Calm(call[c][1]) PROVE Handled(c) /\ StatesOK'
  BY <1>1, <1>2, Quiet DEF Handled
<1>3. ASSUME Step(c), StatesOK', Changed(c) PROVE Handled(c) /\ StatesOK'
  BY <1>1, <1>3 DEF Handled
<1>4. CASE home(c) \/ frontendSetCurrency(c) \/ browseProduct(c) \/ addToCart(c) \/ viewCart(c)
  BY <1>2, <1>4, HomeStep, FrontendSetCurrencyStep, BrowseProductStep, AddToCartStep, ViewCartStep
<1>5. CASE checkout(c) \/ placeOrder(c) \/ getQuote(c) \/ sendEmail(c) \/ getCart(c)
  BY <1>2, <1>5, CheckoutStep, PlaceOrderStep, GetQuoteStep, SendEmailStep, GetCartStep
<1>6. CASE charge(c) \/ shipOrder(c) \/ addItemToCart(c) \/ emptyCart(c)
  BY <1>3, <1>6, ChargeStep, ShipOrderStep, AddItemStep, EmptyCartStep
<1>7. CASE setCurrency(c) \/ initCurrencies(c) \/ addProduct(c) \/ addProducts(c)
  BY <1>3, <1>7, SetCurrencyStep, InitCurrenciesStep, AddProductStep, AddProductsStep
<1>8. CASE \/ getCurrencies(c) \/ convertCurrency(c) \/ getProduct(c) \/ searchProducts(c)
           \/ fetchCatalog(c) \/ getRecommendations(c)
  BY <1>2, <1>8, GetCurrenciesStep, ConvertCurrencyStep, GetProductStep, SearchProductsStep,
     FetchCatalogStep, GetRecommendationsStep
<1> QED BY <1>4, <1>5, <1>6, <1>7, <1>8 DEF Handle

\* Stored carts lie in arrays of their own, and are the items in them.
Starts(lists, owners) ==
  /\ DOMAIN lists \subseteq Users /\ \A u \in DOMAIN lists : lists[u] \in Seq(CartItem)
  /\ arrays \in Seq(Array) /\ owners \in [1 .. Len(arrays) -> DOMAIN lists]
  /\ \A i \in 1 .. Len(arrays) : arrays[i].items = lists[owners[i]]
  /\ StateOf(carts, Users, Slice) /\ DOMAIN carts = DOMAIN lists
  /\ \A u \in DOMAIN lists : /\ carts[u].array \in 1 .. Len(arrays) /\ owners[carts[u].array] = u
                             /\ carts[u].len = Len(lists[u])
  /\ log = [u \in Users |-> IF u \in DOMAIN lists THEN lists[u] ELSE <<>>]

LEMMA InitStarts == Init => \E lists \in Stored : \E owners : Starts(lists, owners)
<1> SUFFICES ASSUME Init PROVE \E lists \in Stored : \E owners : Starts(lists, owners) OBVIOUS
<1>1. PICK lists \in Stored :
        LET owners == SetToSeq(DOMAIN lists) IN
        /\ carts = [u \in DOMAIN lists |->
                      [array |-> CHOOSE i \in DOMAIN owners : owners[i] = u, len |-> Len(lists[u])]]
        /\ arrays = [i \in DOMAIN owners |->
                       [items |-> lists[owners[i]],
                        cap |-> CHOOSE cap \in {1, 2, 4} : cap >= Len(lists[owners[i]])
                                                       /\ cap < 2 * Len(lists[owners[i]])]]
        /\ log = [u \in Users |-> IF u \in DOMAIN lists THEN lists[u] ELSE <<>>]
  BY DEF Init
<1> DEFINE owners == SetToSeq(DOMAIN lists)
           n == Cardinality(DOMAIN lists)
           at == [u \in DOMAIN lists |-> CHOOSE i \in DOMAIN owners : owners[i] = u]
<1>2. /\ DOMAIN lists \subseteq Users /\ IsFiniteSet(DOMAIN lists)
      /\ \A u \in DOMAIN lists : lists[u] \in Seq(CartItem) /\ Len(lists[u]) \in 1 .. 4
  BY BoutiqueAssumption
<1>3. /\ DOMAIN owners = 1 .. n /\ n \in Nat /\ \A i \in 1 .. n : owners[i] \in DOMAIN lists
      /\ \A u \in DOMAIN lists : at[u] \in 1 .. n /\ owners[at[u]] = u
  <2>1. /\ owners \in Seq(DOMAIN lists) /\ DOMAIN owners = 1 .. n /\ Len(owners) = n /\ n \in Nat
        /\ \A u \in DOMAIN lists : \E i \in 1 .. n : owners[i] = u
    BY <1>2, SetToSeqParts
  <2> HIDE DEF owners, n
  <2>2. \A i \in 1 .. n : owners[i] \in DOMAIN lists BY <2>1, ElementOfSeq
  <2> QED BY <2>1, <2>2
<1>4. carts = [u \in DOMAIN lists |-> [array |-> at[u], len |-> Len(lists[u])]] BY <1>1
<1> HIDE DEF owners, n, at
<1>5. arrays \in Seq(Array) /\ Len(arrays) = n /\ \A i \in 1 .. n : arrays[i].items = lists[owners[i]]
  <2> DEFINE room(k) == CHOOSE cap \in {1, 2, 4} : cap >= k /\ cap < 2 * k
  <2>1. \A k \in 1 .. 4 : room(k) \in Nat
    <3>1. ASSUME NEW k \in 1 .. 4 PROVE room(k) \in Nat
      <4>1. \E cap \in {1, 2, 4} : cap >= k /\ cap < 2 * k
        <5>1. k \in {1, 2, 3, 4} OBVIOUS
        <5> QED BY <5>1
      <4>2. room(k) \in {1, 2, 4} BY <4>1, Zenon
      <4> HIDE DEF room
      <4> QED BY <4>2
    <3> QED BY <3>1
  <2>2. arrays = [i \in 1 .. n |-> [items |-> lists[owners[i]], cap |-> room(Len(lists[owners[i]]))]]
    BY <1>1, <1>3 DEF owners
  <2> HIDE DEF room
  <2>3. \A i \in 1 .. n : /\ lists[owners[i]] \in Seq(CartItem) /\ room(Len(lists[owners[i]])) \in Nat
    BY <1>2, <1>3, <2>1
  <2>4. \A i \in 1 .. n : arrays[i] \in Array /\ arrays[i].items = lists[owners[i]]
    BY <2>2, <2>3 DEF Array
  <2>5. arrays \in [1 .. n -> Array] BY <2>2, <2>4
  <2> QED BY <1>3, <2>4, <2>5
<1>6. StateOf(carts, Users, Slice)
  <2>1. \A u \in DOMAIN lists : [array |-> at[u], len |-> Len(lists[u])] \in Slice
    BY <1>2, <1>3 DEF Slice
  <2> QED BY <1>2, <1>4, <2>1 DEF StateOf
<1>7. PICK next : next = [i \in 1 .. n |-> owners[i]] OBVIOUS
<1>8. next \in [1 .. n -> DOMAIN lists] /\ \A i \in 1 .. n : next[i] = owners[i] BY <1>3, <1>7
<1>9. DOMAIN carts = DOMAIN lists /\ \A u \in DOMAIN lists : carts[u].array = at[u] /\ carts[u].len = Len(lists[u])
  BY <1>4
<1>10. log = [u \in Users |-> IF u \in DOMAIN lists THEN lists[u] ELSE <<>>] BY <1>1
<1>11. Starts(lists, next) BY <1>2, <1>3, <1>5, <1>6, <1>8, <1>9, <1>10 DEF Starts
<1> QED BY <1>11

LEMMA InitOK == Init => TypesOK
<1> SUFFICES ASSUME Init PROVE TypesOK OBVIOUS
<1> DEFINE a == [ep |-> "none", req |-> <<>>, ok |-> FALSE, res |-> <<>>]
<1>1. CallsOK
  <2>1. call = [c \in Clients |-> <<>>] /\ answer = [c \in Clients |-> a]
    BY DEF Init, InitServices
  <2>2. <<>> \in Calls BY EmptySeq DEF Calls, Stacks
  <2>3. a \in Answers BY DEF Answers, Results
  <2>4. a.ok = FALSE /\ a.ep = "none" OBVIOUS
  <2> HIDE DEF a
  <2> QED BY <2>1, <2>2, <2>3, <2>4 DEF CallsOK
<1>2. UpOK
  <2>1. up = UNION {{s} \X Endpoints[s] : s \in DOMAIN Endpoints \ {}} BY DEF Init, InitServices
  <2> QED BY <2>1 DEF UpOK
<1>3. PICK lists \in Stored : \E owners : Starts(lists, owners) BY InitStarts
<1>4. PICK owners : Starts(lists, owners) BY <1>3
<1>5. StatesOK
  <2>1. log \in [Users -> Seq(CartItem)] BY <1>4, EmptySeq DEF Starts
  <2>2. products \in Seq(Product) /\ StateOf(rates, Currencies, Rate)
    BY BoutiqueAssumption DEF Init, InitAllProducts, InitAllCurrencies
  <2> QED BY <1>4, <2>1, <2>2 DEF StatesOK, Starts
<1>6. FitsOK
  <2>1. ASSUME NEW u \in DOMAIN carts PROVE Fits(carts[u], arrays)
    <3>1. /\ carts[u].array \in 1 .. Len(arrays) /\ carts[u].len = Len(lists[u])
          /\ arrays[carts[u].array].items = lists[u] /\ Len(lists[u]) \in Nat
      BY <1>4, <2>1, LenProperties DEF Starts
    <3> QED BY <3>1 DEF Fits
  <2>2. \A c \in Clients : call[c] = <<>> BY DEF Init, InitServices
  <2> QED BY <2>1, <2>2 DEF FitsOK
<1> QED BY <1>1, <1>2, <1>5, <1>6 DEF TypesOK

-----------------------------------------------------------------------------
(* A service stops. *)

\* What the endpoints that wait for each other have in common.
LEMMA Underneath ==
  ASSUME CallsOK, NEW c \in Clients, call[c] # <<>>, NEW S, call[c][1].ep \in S,
         \A e, p, d : <<e, p, d>> \in Sites /\ d \in S => e \in S
  PROVE  \A i \in 1 .. Len(call[c]) : call[c][i].ep \in S
<1> DEFINE n == Len(call[c]) - 1
           T == {i \in 0 .. n : call[c][i + 1].ep \in S}
<1>1. n \in Nat /\ Len(call[c]) = n + 1 BY StackOf
<1>2. \A i \in 1 .. n : <<call[c][i], call[c][i + 1]>> \in Links BY StackOf
<1> HIDE DEF n
<1>3. 0 \in T BY <1>1
<1>4. \A i \in 1 .. n : i - 1 \in T => i \in T
  <2> SUFFICES ASSUME NEW i \in 1 .. n, i - 1 \in T PROVE i \in T OBVIOUS
  <2>1. (i - 1) + 1 = i /\ i \in 0 .. n BY <1>1
  <2>2. call[c][i].ep \in S BY <2>1
  <2>3. <<call[c][i + 1].ep, call[c][i + 1].at, call[c][i].ep>> \in Sites BY <1>2 DEF Links
  <2>4. call[c][i + 1].ep \in S BY <2>2, <2>3
  <2> QED BY <2>1, <2>4
<1> HIDE DEF T
<1>5. \A i \in 0 .. n : i \in T BY <1>1, <1>3, <1>4, UpTo
<1>6. \A i \in 1 .. Len(call[c]) : i - 1 \in 0 .. n /\ (i - 1) + 1 = i BY <1>1
<1> QED BY <1>5, <1>6 DEF T

Stopping(lost) ==
  /\ \A c \in lost : call[c] # <<>> /\ Over(c, FALSE, <<>>)
  /\ \A c \in Clients \ lost : call'[c] = call[c] /\ answer'[c] = answer[c]
  /\ Broken => Broken'
  /\ \A c \in lost : Charged(call[c][1]) => Broken'
  /\ \A c, d \in Clients :
       /\ call[c] # <<>> /\ call[c][1].ep = "add_item" /\ call[d] # <<>> /\ call[d][1].ep = "add_item"
       => (c \in lost <=> d \in lost)

\* Adding an item goes with the frontend or the cart service, whoever adds it.
LEMMA AddersAlike ==
  ASSUME CallsOK, NEW c \in Clients, call[c] # <<>>, call[c][1].ep = "add_item"
  PROVE  /\ \A f \in Handlers(c) : f.ep \in {"add_item", "add_to_cart"}
         /\ \E f \in Handlers(c) : f.ep = "add_item"
         /\ \E f \in Handlers(c) : f.ep = "add_to_cart"
<1>1. call[c] \in Seq(Frames) /\ Len(call[c]) \in Nat /\ Len(call[c]) >= 1 BY StackOf
<1>2. DOMAIN call[c] = 1 .. Len(call[c]) BY <1>1
<1>3. \A i \in 1 .. Len(call[c]) : call[c][i].ep \in {"add_item", "add_to_cart"}
  <2>1. \A e, p, d : <<e, p, d>> \in Sites /\ d \in {"add_item", "add_to_cart"} =>
          e \in {"add_item", "add_to_cart"}
    <3>1. "add_to_cart" \in Entries BY Names
    <3> QED BY <3>1, WaitsFor, SiteNames
  <2> QED BY <2>1, Underneath
<1>4. call[c][Len(call[c])].ep \in Entries BY StackOf DEF Bottoms
<1>5. call[c][Len(call[c])].ep = "add_to_cart"
  <2>1. "add_item" \notin Entries BY Names
  <2>2. Len(call[c]) \in 1 .. Len(call[c]) BY <1>1
  <2> QED BY <1>3, <1>4, <2>1, <2>2
<1> QED BY <1>1, <1>2, <1>3, <1>5 DEF Handlers

LEMMA EndpointsOf ==
  ASSUME NEW s \in DOMAIN Endpoints
  PROVE  /\ "add_item" \in Endpoints[s] <=> s = "cart"
         /\ "add_to_cart" \in Endpoints[s] <=> s = "frontend"
         /\ \A e \in Endpoints[s] \cap {"checkout", "place_order", "ship_order", "empty_cart"} :
              s \in {"frontend", "checkout", "shipping", "cart"}
<1>1. s \in {"cart", "checkout", "currency", "email", "frontend", "payment",
             "productcatalog", "recommendations", "shipping"}
  BY DEF Endpoints
<1>2. CASE s = "cart" BY <1>2 DEF Endpoints, cartMain
<1>3. CASE s = "checkout" BY <1>3 DEF Endpoints, checkoutMain
<1>4. CASE s = "currency" BY <1>4 DEF Endpoints, currencyMain
<1>5. CASE s = "email" BY <1>5 DEF Endpoints, emailMain
<1>6. CASE s = "frontend" BY <1>6 DEF Endpoints, frontendMain
<1>7. CASE s = "payment" BY <1>7 DEF Endpoints, paymentMain
<1>8. CASE s = "productcatalog" BY <1>8 DEF Endpoints, productCatalogMain
<1>9. CASE s = "recommendations" BY <1>9 DEF Endpoints, recommendationsMain
<1>10. CASE s = "shipping" BY <1>10 DEF Endpoints, shippingMain
<1> QED BY <1>1, <1>2, <1>3, <1>4, <1>5, <1>6, <1>7, <1>8, <1>9, <1>10

LEMMA StopsStep ==
  ASSUME CallsOK, UpOK, NEW s \in Failing, Stops(s)
  PROVE  CallsOK' /\ UpOK' /\ UNCHANGED state /\ \E lost \in SUBSET Clients : Stopping(lost)
<1> DEFINE lost == {c \in Clients : \E f \in Handlers(c) : f.ep \in Endpoints[s]}
           a(c) == [ep |-> Bottom(c).ep, req |-> Bottom(c).req, ok |-> FALSE, res |-> <<>>]
<1>1. /\ UNCHANGED state /\ s \in DOMAIN Endpoints
      /\ up' = {endpoint \in up : endpoint[1] # s}
      /\ call' = [c \in Clients |-> IF c \in lost THEN <<>> ELSE call[c]]
      /\ answer' = [c \in Clients |-> IF c \in lost THEN a(c) ELSE answer[c]]
  BY BoutiqueAssumption DEF Stops, Stop, Bottom
<1>2. \A c \in lost : call[c] # <<>> BY DEF Handlers
<1>3. \A c \in lost : a(c) \in Answers /\ a(c).ep \in Entries /\ a(c).req \in RequestOf[a(c).ep]
  <2> SUFFICES ASSUME NEW c \in lost
               PROVE  a(c) \in Answers /\ a(c).ep \in Entries /\ a(c).req \in RequestOf[a(c).ep]
    OBVIOUS
  <2> DEFINE g == Bottom(c)
  <2>1. g \in Frames /\ g.ep \in Entries BY <1>2, StackOf DEF Bottoms, Bottom
  <2>2. g.req \in RequestOf[g.ep] /\ g.ep \in Eps /\ g.req \in Requests BY <2>1, FrameParts
  <2>3. <<>> \in Results BY DEF Results
  <2> HIDE DEF g
  <2>4. a(c) = [ep |-> g.ep, req |-> g.req, ok |-> FALSE, res |-> <<>>] BY DEF g
  <2> QED BY <2>1, <2>2, <2>3, <2>4 DEF Answers
<1>4. \A c : a(c).ok = FALSE OBVIOUS
<1> HIDE DEF lost, a
<1>5. lost \subseteq Clients BY DEF lost
<1>6. CallsOK'
  <2>1. <<>> \in Calls BY EmptySeq DEF Calls, Stacks
  <2>2. answer \in [Clients -> Answers] /\ \A c \in Clients : call[c] \in Calls BY DEF CallsOK
  <2>3. /\ \A c \in Clients : call'[c] = (IF c \in lost THEN <<>> ELSE call[c])
        /\ \A c \in Clients : answer'[c] = IF c \in lost THEN a(c) ELSE answer[c]
        /\ call' = [c \in Clients |-> call'[c]] /\ DOMAIN call' = Clients
        /\ answer' \in [Clients -> Answers]
    BY <1>1, <1>3, <2>2
  <2>4. \A c \in Clients : call'[c] \in Calls BY <2>1, <2>2, <2>3
  <2>5. \A c \in Clients : answer'[c].ep # "none" =>
          call'[c] = <<>> /\ answer'[c].ep \in Entries /\ answer'[c].req \in RequestOf[answer'[c].ep]
    BY <1>3, <2>3 DEF CallsOK
  <2>6. \A c \in Clients : answer'[c].ok => /\ answer'[c].ep \in Entries
                                            /\ answer'[c].res \in ReplyTo(answer'[c].ep)
    BY <1>4, <2>3 DEF CallsOK
  <2> QED BY <2>3, <2>4, <2>5, <2>6 DEF CallsOK
<1>7. UpOK' BY <1>1 DEF UpOK, Listening
<1>8. ~Listening(s)' /\ (Broken => Broken') BY <1>1 DEF Listening, Broken
<1>9. ASSUME NEW c \in lost, Charged(call[c][1]) PROVE Broken'
  <2> DEFINE S == {"checkout", "place_order", "ship_order", "empty_cart"}
  <2>0. call[c] # <<>> /\ c \in Clients BY <1>2, <1>5
  <2>1. call[c][1].ep \in S BY <1>9 DEF Charged
  <2>2. \A e, p, d : <<e, p, d>> \in Sites /\ d \in S => e \in S
    <3>1. "checkout" \in Entries BY Names
    <3> QED BY <3>1, WaitsFor, SiteNames
  <2> HIDE DEF S
  <2>3. \A i \in 1 .. Len(call[c]) : call[c][i].ep \in S BY <2>0, <2>1, <2>2, Underneath
  <2>4. DOMAIN call[c] = 1 .. Len(call[c]) BY <2>0, StackOf
  <2>5. PICK f \in Handlers(c) : f.ep \in Endpoints[s] BY DEF lost
  <2>6. f.ep \in S BY <2>3, <2>4 DEF Handlers
  <2>7. s \in {"frontend", "checkout", "shipping", "cart"} BY <1>1, <2>5, <2>6, EndpointsOf DEF S
  <2> QED BY <1>8, <2>7 DEF Broken
<1>10. ASSUME NEW c \in Clients, NEW d \in Clients, call[c] # <<>>, call[c][1].ep = "add_item",
              call[d] # <<>>, call[d][1].ep = "add_item"
       PROVE  c \in lost <=> d \in lost
  <2>1. ASSUME NEW b \in Clients, call[b] # <<>>, call[b][1].ep = "add_item"
        PROVE  b \in lost <=> s \in {"cart", "frontend"}
    <3>1. /\ \A f \in Handlers(b) : f.ep \in {"add_item", "add_to_cart"}
          /\ \E f \in Handlers(b) : f.ep = "add_item"
          /\ \E f \in Handlers(b) : f.ep = "add_to_cart"
      BY <2>1, AddersAlike
    <3>2. "add_item" \in Endpoints[s] <=> s = "cart" BY <1>1, EndpointsOf
    <3>3. "add_to_cart" \in Endpoints[s] <=> s = "frontend" BY <1>1, EndpointsOf
    <3> QED BY <3>1, <3>2, <3>3 DEF lost
  <2> QED BY <1>10, <2>1
<1>11. \A c \in lost : Over(c, FALSE, <<>>) BY <1>1, <1>5 DEF Over, a
<1>12. \A c \in Clients \ lost : call'[c] = call[c] /\ answer'[c] = answer[c] BY <1>1
<1>13. Stopping(lost) BY <1>2, <1>8, <1>9, <1>10, <1>11, <1>12, Zenon DEF Stopping
<1> QED BY <1>1, <1>5, <1>6, <1>7, <1>13

-----------------------------------------------------------------------------
(* What a step leaves alone. *)

LEMMA AddsBy ==
  ASSUME NEW c, Changed(c), call[c][1].ep = "add_item"
  PROVE  /\ UNCHANGED <<products, payments, parcels>>
         /\ \/ call[c][1].at = "start" /\ UNCHANGED <<cartVars, raced>>
            \/ Grows(call[c][1]) \/ WritesProduct(call[c][1]) \/ WritesQuantity(call[c][1])
            \/ StoresCart(call[c][1], Held(c, call[c][1].req.user))
BY Zenon DEF Changed, ProductAdded, Ships, Charges, Empties, Calm, Adders, Grows, WritesProduct,
       WritesQuantity, StoresCart, cartVars

LEMMA EmptiesBy ==
  ASSUME NEW c, Changed(c), call[c][1].ep = "empty_cart"
  PROVE  Empties(call[c][1], Held(c, call[c][1].req.user))
BY Zenon DEF Changed, ProductAdded, Ships, Charges, Calm, Adders, Grows, WritesProduct, WritesQuantity,
       StoresCart

LEMMA CartsStay ==
  ASSUME NEW c, Changed(c), call[c][1].ep \notin {"add_item", "empty_cart"}
  PROVE  UNCHANGED cartVars /\ \A u \in Users : u \in raced' <=> u \in raced
<1>1. "catalog" \notin Users BY BoutiqueAssumption, Zenon
<1> QED
  BY <1>1, Zenon DEF Changed, ProductAdded, Ships, Charges, Empties, Grows, WritesProduct, WritesQuantity,
              StoresCart, cartVars

LEMMA MoneyStays ==
  ASSUME NEW c, Changed(c), call[c][1].ep \notin {"ship_order", "charge"}
  PROVE  UNCHANGED <<payments, parcels>>
BY Zenon DEF Changed, ProductAdded, Ships, Charges, Empties, Grows, WritesProduct, WritesQuantity, StoresCart

LEMMA CatalogStays ==
  ASSUME CallsOK, NEW c \in Clients, call[c] # <<>>, Changed(c),
         ~(call[c][1].ep \in Adders /\ call[c][1].at = "read")
  PROVE  UNCHANGED products /\ ("catalog" \in raced' <=> "catalog" \in raced)
<1> DEFINE f == call[c][1]
<1>1. "catalog" \notin Users BY BoutiqueAssumption
<1>2. f.ep = "empty_cart" => f.req.user \in Users
  <2>1. RequestOf["empty_cart"] = EmptyCartRequest BY DEF RequestOf
  <2>2. f.ep = "empty_cart" => f.req \in EmptyCartRequest BY <2>1, StackOf, FrameParts
  <2> QED BY <2>2 DEF EmptyCartRequest
<1>3. f.ep = "add_item" => f.req.user \in Users BY AddItemParts
<1> HIDE DEF f
<1>4. f = call[c][1] BY DEF f
<1> QED
  BY <1>1, <1>2, <1>3, <1>4, Zenon DEF Changed, ProductAdded, Ships, Charges, Empties, Grows,
     WritesProduct, WritesQuantity, StoresCart

\* Arrays only grow, so slices stay within them.
GrownTo(A, B) ==
  /\ A \in Seq(Array) /\ B \in Seq(Array)
  /\ \A k \in 1 .. Len(A) : k \in 1 .. Len(B) /\ Len(B[k].items) >= Len(A[k].items)

LEMMA ArraysGrow ==
  ASSUME TypesOK, NEW c \in Clients, Handled(c)
  PROVE  GrownTo(arrays, arrays')
<1> DEFINE f == call[c][1]
<1>0. /\ CallsOK /\ StatesOK /\ FitsOK /\ call[c] # <<>> /\ Changed(c) /\ arrays \in Seq(Array)
      /\ Len(arrays) \in Nat /\ \A k \in 1 .. Len(arrays) : Len(arrays[k].items) \in Nat
  BY ArrayParts, LenProperties DEF TypesOK, Handled, StatesOK
<1>1. CASE UNCHANGED arrays BY <1>0, <1>1 DEF GrownTo
<1>2. CASE Grows(f) BY <1>0, <1>2, GrowsAway DEF GrownTo
<1>3. CASE \E k \in 1 .. Len(arrays) : \E n, item : CellWritten(k, n, item)
  BY <1>0, <1>3, SMTT(30) DEF CellWritten, GrownTo
<1>4. CASE WritesProduct(f)
  <2>1. \E k \in 1 .. Len(arrays) : \E n, item : CellWritten(k, n, item) BY <1>0, <1>4, ProductCell
  <2> QED BY <1>3, <2>1
<1>5. CASE WritesQuantity(f)
  <2>1. \E k \in 1 .. Len(arrays) : \E n, item : CellWritten(k, n, item) BY <1>0, <1>5, QuantityCell
  <2> QED BY <1>3, <2>1
<1>6. CASE f.ep = "add_item"
  BY <1>0, <1>1, <1>2, <1>4, <1>5, <1>6, AddsBy DEF StoresCart, cartVars
<1>7. CASE f.ep = "empty_cart" BY <1>0, <1>1, <1>7, EmptiesBy DEF Empties
<1>8. CASE f.ep \notin {"add_item", "empty_cart"} BY <1>0, <1>1, <1>8, CartsStay DEF cartVars
<1> QED BY <1>6, <1>7, <1>8

LEMMA StillFits ==
  ASSUME NEW A, NEW B, GrownTo(A, B)
  PROVE  /\ \A s \in Slice : Fits(s, A) => Fits(s, B)
         /\ \A f \in Frames : FrameFits(f, A) => FrameFits(f, B)
<1>1. /\ A \in Seq(Array) /\ B \in Seq(Array)
      /\ \A k \in 1 .. Len(A) : k \in 1 .. Len(B) /\ Len(B[k].items) >= Len(A[k].items)
      /\ \A k \in 1 .. Len(A) : Len(A[k].items) \in Nat
      /\ \A k \in 1 .. Len(B) : Len(B[k].items) \in Nat
  BY ArrayParts DEF GrownTo
<1>2. \A s \in Slice : Fits(s, A) => Fits(s, B) BY <1>1 DEF Fits, Slice
<1>3. ASSUME NEW f \in Frames, FrameFits(f, A) PROVE FrameFits(f, B)
  <2>1. HoldsSlice(f.ep, f.at) => f.my \in Slice BY FrameParts DEF LocalsAt
  <2>2. HoldsSlice(f.ep, f.at) => Fits(f.my, A) BY <1>3 DEF FrameFits
  <2>3. ASSUME f.ep = "add_item", f.at = "wroteProduct"
        PROVE  f.my.len > 0 /\ f.my.len < Len(B[f.my.array].items)
    <3>1. HoldsSlice(f.ep, f.at) BY <2>3 DEF HoldsSlice
    <3>2. f.my \in Slice /\ Fits(f.my, A) BY <2>1, <2>2, <3>1
    <3>3. f.my.len > 0 /\ f.my.len < Len(A[f.my.array].items) BY <1>3, <2>3 DEF FrameFits
    <3>4. f.my.array \in 1 .. Len(A) BY <3>2, <3>3 DEF Fits
    <3>5. f.my.len \in Nat BY <3>2 DEF Slice
    <3>6. \A l, m, n \in Nat : l < m /\ n >= m => l < n OBVIOUS
    <3> QED BY <1>1, <3>3, <3>4, <3>5, <3>6, Zenon
  <2> QED BY <1>2, <2>1, <2>2, <2>3 DEF FrameFits
<1> QED BY <1>2, <1>3

\* The innermost handler after a step of c.
LEMMA NewTop ==
  ASSUME CallsOK, NEW c \in Clients, call[c] # <<>>, Outcome(c), CallsOK', call'[c] # <<>>
  PROVE  LET f == call[c][1]
             g == call'[c][1]
         IN \/ /\ g.at = "start" /\ g.my = <<>>
               /\ \E place \in PlaceNames, e \in Eps :
                    \E my \in LocalsAt(f.ep, place), q \in RequestOf[e] :
                      /\ g = Frame(e, q) /\ <<f.ep, place, e>> \in Sites
                      /\ Seeks(f, e, q, place, my) /\ Deeper(c, e, q, place, my)
            \/ /\ g.ep \notin {"add_item", "ro_get_cart", "ship_order", "empty_cart", "charge"} \cup Adders
               /\ call[c][2] \in Frames /\ <<call[c][2].ep, call[c][2].at, f.ep>> \in Sites
               /\ g.ep = call[c][2].ep /\ g.req = call[c][2].req /\ g.at = call[c][2].at
               /\ g.my = call[c][2].my
               /\ \E r \in ReplyTo(f.ep) : Gives(f, r) /\ Back(c, r) /\ g.res = r
            \/ /\ g.ep = f.ep /\ g.req = f.req /\ g.res = f.res
               /\ \E place \in PlaceNames : \E my \in LocalsAt(f.ep, place) :
                    GoesTo(f, place, my) /\ Went(c, place, my) /\ g.at = place /\ g.my = my
<1> DEFINE f == call[c][1]
           g == call'[c][1]
<1>0. f \in Frames /\ f.ep \in Eps BY StackOf, FrameParts
<1>1. CASE Fails(f) /\ Over(c, FALSE, <<>>) BY <1>1 DEF Over
<1>2. CASE \E r \in ReplyTo(f.ep) : Gives(f, r) /\ Len(call[c]) = 1 /\ Over(c, TRUE, r)
  BY <1>2 DEF Over
<1>3. ASSUME NEW r \in ReplyTo(f.ep), Gives(f, r), Back(c, r),
             <<call[c][2].ep, call[c][2].at, f.ep>> \in Sites
      PROVE  /\ g.ep \notin {"add_item", "ro_get_cart", "ship_order", "empty_cart", "charge"} \cup Adders
             /\ call[c][2] \in Frames
             /\ g.ep = call[c][2].ep /\ g.req = call[c][2].req /\ g.at = call[c][2].at
             /\ g.my = call[c][2].my /\ g.res = r
  <2> DEFINE h == call[c][2]
  <2>1. Len(call[c]) # 1 /\ g = Answered(h, r) BY <1>3 DEF Back
  <2>2. h \in Frames /\ <<h.ep, h.at, f.ep>> \in Sites BY <1>3, <2>1, SecondOf
  <2>3. r \in Results BY <1>0 DEF Results
  <2>4. h.ep \notin {"add_item", "ro_get_cart", "ship_order", "empty_cart", "charge"} \cup Adders
    BY <2>2, WaitsFor
  <2> HIDE DEF h
  <2>5. /\ Answered(h, r).ep = h.ep /\ Answered(h, r).req = h.req /\ Answered(h, r).at = h.at
        /\ Answered(h, r).my = h.my /\ Answered(h, r).res = r
    BY <2>2, <2>3, FrameAnswered
  <2> QED BY <2>1, <2>2, <2>4, <2>5 DEF h
<1>4. ASSUME NEW place \in PlaceNames, NEW my \in LocalsAt(f.ep, place), Went(c, place, my)
      PROVE  g.ep = f.ep /\ g.req = f.req /\ g.res = f.res /\ g.at = place /\ g.my = my
  <2>1. g = Gone(f, place, my) BY <1>4 DEF Went
  <2> HIDE DEF f, g
  <2> QED BY <1>0, <2>1, GoneParts
<1>5. ASSUME NEW place \in PlaceNames, NEW e \in Eps, NEW my \in LocalsAt(f.ep, place),
             NEW q \in RequestOf[e], Deeper(c, e, q, place, my)
      PROVE  g = Frame(e, q) /\ g.at = "start" /\ g.my = <<>>
  BY <1>5, FrameStarts DEF Deeper
<1> HIDE DEF f, g
<1>6. Outcome(c) BY DEF f
<1>7. f = call[c][1] /\ g = call'[c][1] BY DEF f, g
<1>8. CASE \E r \in ReplyTo(f.ep) :
             Gives(f, r) /\ Back(c, r) /\ <<call[c][2].ep, call[c][2].at, f.ep>> \in Sites
  BY <1>3, <1>7, <1>8
<1>9. CASE \E place \in PlaceNames : \E my \in LocalsAt(f.ep, place) :
             GoesTo(f, place, my) /\ Went(c, place, my)
  BY <1>4, <1>7, <1>9
<1>10. CASE \E place \in PlaceNames, e \in Eps : \E my \in LocalsAt(f.ep, place), q \in RequestOf[e] :
              <<f.ep, place, e>> \in Sites /\ Seeks(f, e, q, place, my) /\ Deeper(c, e, q, place, my)
  BY <1>5, <1>7, <1>10
<1> QED BY <1>1, <1>2, <1>6, <1>7, <1>8, <1>9, <1>10 DEF Outcome

LEMMA FitsHandled ==
  ASSUME TypesOK, NEW c \in Clients, Handled(c), Others(c), Outcome(c), CallsOK', StatesOK'
  PROVE  FitsOK'
<1> DEFINE f == call[c][1]
           g == call'[c][1]
<1>0. /\ CallsOK /\ StatesOK /\ FitsOK /\ call[c] # <<>> /\ Changed(c)
      /\ f \in Frames /\ (HoldsSlice(f.ep, f.at) => f.my \in Slice /\ Fits(f.my, arrays))
  BY StackOf, Holder DEF TypesOK, Handled
<1>1. GrownTo(arrays, arrays') BY ArraysGrow
<1>2. /\ \A s \in Slice : Fits(s, arrays) => Fits(s, arrays')
      /\ \A h \in Frames : FrameFits(h, arrays) => FrameFits(h, arrays')
  <2>1. PICK B : B = arrays' OBVIOUS
  <2>2. GrownTo(arrays, B) BY <1>1, <2>1
  <2> QED BY <2>1, <2>2, StillFits
<1>3. \A u \in DOMAIN carts : carts[u] \in Slice /\ Fits(carts[u], arrays')
  BY <1>0, <1>2 DEF StatesOK, StateOf, FitsOK
<1>4. ASSUME NEW u \in DOMAIN carts' PROVE Fits(carts'[u], arrays')
  <2>1. CASE UNCHANGED carts BY <1>3, <2>1
  <2>2. ASSUME NEW v, NEW s \in Slice, Fits(s, arrays'), carts' = SetState(carts, v, s)
        PROVE  Fits(carts'[u], arrays')
    BY <1>3, <2>2 DEF SetState
  <2>3. CASE f.ep = "add_item"
    <3>1. CASE StoresCart(f, Held(c, f.req.user))
      <4>1. HoldsSlice(f.ep, f.at) BY <3>1 DEF StoresCart, HoldsSlice
      <4> QED BY <1>0, <1>2, <2>2, <3>1, <4>1 DEF StoresCart
    <3> QED BY <1>0, <2>1, <2>3, <3>1, AddsBy DEF Grows, WritesProduct, WritesQuantity, cartVars
  <2>4. CASE f.ep = "empty_cart"
    <3>1. Empty \in Slice /\ Fits(Empty, arrays') BY DEF Empty, Slice, Fits
    <3> QED BY <1>0, <2>2, <2>4, <3>1, EmptiesBy DEF Empties
  <2>5. CASE f.ep \notin {"add_item", "empty_cart"} BY <1>0, <2>1, <2>5, CartsStay DEF cartVars
  <2> QED BY <2>3, <2>4, <2>5
<1>5. ASSUME NEW d \in Clients, d # c, call'[d] # <<>> PROVE FrameFits(call'[d][1], arrays')
  <2>1. call'[d] = call[d] BY <1>5 DEF Others
  <2>2. call[d][1] \in Frames /\ FrameFits(call[d][1], arrays) BY <1>0, <1>5, <2>1, StackOf DEF FitsOK
  <2> QED BY <1>2, <2>1, <2>2
<1>6. ASSUME call'[c] # <<>> PROVE FrameFits(call'[c][1], arrays')
  <2>1. CASE g.at = "start" BY <2>1 DEF FrameFits, HoldsSlice
  <2>2. CASE g.ep \notin {"add_item", "ro_get_cart"} BY <2>2 DEF FrameFits, HoldsSlice
  <2>3. ASSUME NEW place, NEW my, GoesTo(f, place, my), g.ep = f.ep, g.req = f.req,
               g.at = place, g.my = my, f.ep = "ro_get_cart"
        PROVE  FrameFits(g, arrays')
    <3>1. my = _localGetCart(f.req.user) BY <2>3 DEF GoesTo
    <3>2. my \in Slice /\ Fits(my, arrays) BY <1>0, <3>1, CartLoaded
    <3>3. Fits(g.my, arrays') BY <1>2, <2>3, <3>2
    <3> HIDE DEF f, g
    <3> QED BY <2>3, <3>3 DEF FrameFits
  <2>4. ASSUME NEW place, NEW my, GoesTo(f, place, my), g.ep = f.ep, g.req = f.req,
               g.at = place, g.my = my, f.ep = "add_item"
        PROVE  FrameFits(g, arrays')
    <3>1. CASE f.at = "start" /\ place = "loaded" /\ my = _localGetCart(f.req.user)
      <4>1. my \in Slice /\ Fits(my, arrays) BY <1>0, <3>1, CartLoaded
      <4>2. Fits(g.my, arrays') /\ g.at = "loaded" BY <1>2, <2>4, <3>1, <4>1
      <4> HIDE DEF f, g
      <4> QED BY <4>2 DEF FrameFits
    <3>2. CASE /\ f.at = "loaded" /\ place = "appended" /\ ~Room(f.my)
               /\ my = [array |-> Len(arrays) + 1, len |-> f.my.len + 1]
      <4>1. Grows(f) BY <1>0, <2>4, <3>2, AddsBy DEF WritesProduct, WritesQuantity, StoresCart
      <4>2. /\ Len(arrays') = Len(arrays) + 1 /\ Len(arrays) \in Nat
            /\ Len(arrays'[Len(arrays) + 1].items) = f.my.len + 1 /\ f.my.len \in Nat
        BY <1>0, <4>1, GrowsAway
      <4>3. my.array = Len(arrays) + 1 /\ my.len = f.my.len + 1 BY <3>2
      <4>4. Fits(g.my, arrays') BY <2>4, <4>2, <4>3 DEF Fits
      <4>5. g.at = "appended" BY <2>4, <3>2
      <4> HIDE DEF f, g
      <4> QED BY <4>4, <4>5 DEF FrameFits
    <3>3. CASE f.at = "loaded" /\ place = "wroteProduct" /\ Room(f.my) /\ my = f.my
      <4>1. WritesProduct(f) BY <1>0, <2>4, <3>3, AddsBy DEF Grows, WritesQuantity, StoresCart
      <4>2. /\ CellWritten(f.my.array, f.my.len + 1, [product |-> f.req.product, quantity |-> Old(f)])
            /\ f.my.len \in Nat /\ f.my.len > 0
        BY <1>0, <4>1, ProductCell, Zenon
      <4>3. f.my.len + 1 \in 1 .. Len(arrays'[f.my.array].items) BY <4>2, Zenon DEF CellWritten
      <4>4. Len(arrays'[f.my.array].items) \in Nat
        <5>1. f.my.array \in 1 .. Len(arrays') /\ arrays' \in Seq(Array)
          BY <1>0, <4>1, <4>2, ProductCell, Zenon DEF CellWritten
        <5>2. PICK B : B = arrays' OBVIOUS
        <5> QED BY <5>1, <5>2, ArrayParts, Zenon
      <4>5. HoldsSlice(f.ep, f.at) BY <2>4, <3>3 DEF HoldsSlice
      <4>6. Fits(f.my, arrays') BY <1>0, <1>2, <4>5
      <4>7. f.my.len < Len(arrays'[f.my.array].items) BY <4>2, <4>3, <4>4
      <4>8. g.my = f.my BY <2>4, <3>3
      <4> HIDE DEF f, g
      <4> QED BY <4>2, <4>6, <4>7, <4>8 DEF FrameFits
    <3>4. CASE f.at = "wroteProduct" /\ place = "appended" /\ my = [f.my EXCEPT !.len = @ + 1]
      <4>1. WritesQuantity(f) BY <1>0, <2>4, <3>4, AddsBy DEF Grows, WritesProduct, StoresCart
      <4>2. /\ f.my.array \in 1 .. Len(arrays) /\ f.my.len \in Nat
            /\ f.my.len < Len(arrays[f.my.array].items)
        BY <1>0, <4>1, QuantityCell
      <4>3. HoldsSlice(f.ep, f.at) /\ f.my \in Slice
        <5>1. HoldsSlice(f.ep, f.at) BY <2>4, <3>4 DEF HoldsSlice
        <5> QED BY <1>0, <5>1
      <4>4. my.array = f.my.array /\ my.len = f.my.len + 1 BY <3>4, <4>3 DEF Slice
      <4>5. arrays \in Seq(Array) /\ Len(arrays[f.my.array].items) \in Nat
        BY <1>0, <4>2, ArrayParts DEF StatesOK
      <4>6. my \in Slice /\ Fits(my, arrays)
        <5>1. my.len <= Len(arrays[my.array].items)
          <6>1. PICK m : m = Len(arrays[f.my.array].items) OBVIOUS
          <6>2. m \in Nat /\ f.my.len \in Nat /\ f.my.len < m BY <4>2, <4>5, <6>1
          <6>3. f.my.len + 1 <= m BY <6>2
          <6> QED BY <4>4, <6>1, <6>3
        <5>2. my \in Slice BY <3>4, <4>3, <4>2 DEF Slice
        <5> QED BY <4>2, <4>4, <5>1, <5>2 DEF Fits
      <4>7. Fits(g.my, arrays') /\ g.at = "appended" BY <1>2, <2>4, <3>4, <4>6
      <4> HIDE DEF f, g
      <4> QED BY <4>7 DEF FrameFits
    <3> QED BY <2>4, <3>1, <3>2, <3>3, <3>4 DEF GoesTo
  <2>5. CASE \E place \in PlaceNames : \E my \in LocalsAt(f.ep, place) :
               GoesTo(f, place, my) /\ g.ep = f.ep /\ g.req = f.req /\ g.at = place /\ g.my = my
    BY <2>2, <2>3, <2>4, <2>5
  <2> QED BY <1>0, <1>6, <2>1, <2>2, <2>5, NewTop
<1> QED BY <1>4, <1>5, <1>6 DEF FitsOK

\* The cases of a step, with the types.
LEMMA NextCases ==
  ASSUME TypesOK, [Next]_vars
  PROVE  /\ TypesOK'
         /\ \/ UNCHANGED <<up, call, answer, state>>
            \/ UNCHANGED state /\ \E lost \in SUBSET Clients : Stopping(lost)
            \/ \E c \in Clients : Asked(c) /\ UNCHANGED <<up, answer, state>>
            \/ \E c \in Clients : /\ Handled(c) /\ Others(c) /\ Outcome(c) /\ UNCHANGED up
<1>0. CallsOK /\ UpOK /\ StatesOK /\ FitsOK BY DEF TypesOK
<1>1. ASSUME UNCHANGED vars PROVE TypesOK' /\ UNCHANGED <<up, call, answer, state>>
  <2>1. UNCHANGED <<up, call, answer>> /\ UNCHANGED state /\ UNCHANGED <<carts, arrays>>
    BY <1>1 DEF vars, svars, state, cartVars
  <2>2. CallsOK' /\ UpOK' /\ FitsOK' BY <1>0, <2>1 DEF CallsOK, UpOK, Listening, FitsOK
  <2> QED BY <1>0, <2>1, <2>2, StatesStay DEF TypesOK
<1>2. ASSUME NEW c \in Clients, Client(c) \/ (c \in Visitors /\ Visitor(c))
      PROVE  TypesOK' /\ Asked(c) /\ UNCHANGED <<up, answer, state>>
  <2>1. Asked(c) /\ UNCHANGED state BY <1>0, <1>2, ClientAsks
  <2>2. PICK e \in Entries : \E q \in RequestOf[e] : Asks(c, e, q) BY <2>1 DEF Asked
  <2>3. PICK q \in RequestOf[e] : Asks(c, e, q) BY <2>2
  <2>4. /\ CallsOK' /\ UNCHANGED <<up, answer>> /\ call'[c] # <<>> /\ call'[c][1] = Frame(e, q)
        /\ \A d \in Clients : d # c => call'[d] = call[d]
    BY <1>0, <2>3, AsksStep
  <2>5. UpOK' BY <1>0, <2>4 DEF UpOK, Listening
  <2>6. Frame(e, q).at = "start" BY DEF Frame
  <2>7. FitsOK'
    <3>1. UNCHANGED <<carts, arrays>> BY <2>1 DEF state, cartVars
    <3>2. FrameFits(Frame(e, q), arrays) BY <2>6 DEF FrameFits, HoldsSlice
    <3>3. \A d \in Clients : call'[d] # <<>> => FrameFits(call'[d][1], arrays)
      BY <1>0, <2>4, <3>2 DEF FitsOK
    <3> QED BY <1>0, <3>1, <3>3 DEF FitsOK
  <2> QED BY <1>0, <2>1, <2>4, <2>5, <2>7, StatesStay DEF TypesOK
<1>3. ASSUME NEW c \in Clients, Handle(c)
      PROVE  TypesOK' /\ Handled(c) /\ Others(c) /\ Outcome(c) /\ UNCHANGED up
  <2>1. Handled(c) /\ StatesOK' BY <1>0, <1>3, HandleStep
  <2>2. call[c] # <<>> /\ Step(c) BY <2>1 DEF Handled
  <2>3. CallsOK' /\ Others(c) /\ Outcome(c) /\ UNCHANGED up BY <1>0, <2>2, StepOK
  <2>4. FitsOK' BY <2>1, <2>3, FitsHandled
  <2>5. UpOK' BY <1>0, <2>3 DEF UpOK, Listening
  <2> QED BY <2>1, <2>3, <2>4, <2>5 DEF TypesOK
<1>4. ASSUME NEW s \in Failing, Stops(s)
      PROVE  TypesOK' /\ UNCHANGED state /\ \E lost \in SUBSET Clients : Stopping(lost)
  <2>1. CallsOK' /\ UpOK' /\ UNCHANGED state /\ \E lost \in SUBSET Clients : Stopping(lost)
    BY <1>0, <1>4, StopsStep
  <2>2. FitsOK'
    <3>1. UNCHANGED <<carts, arrays>> BY <2>1 DEF state, cartVars
    <3>2. \A d \in Clients : call'[d] # <<>> => call'[d] = call[d]
      BY <2>1 DEF Stopping, Over
    <3> QED BY <1>0, <3>1, <3>2 DEF FitsOK
  <2> QED BY <1>0, <2>1, <2>2, StatesStay DEF TypesOK
<1>5. Visitors \subseteq Clients BY BoutiqueAssumption
<1>6. CASE \E s \in Failing : Stops(s) BY <1>4, <1>6
<1>7. CASE \E c \in Visitors : Visitor(c) BY <1>2, <1>5, <1>7
<1>8. CASE \E c \in Clients : Client(c) \/ Handle(c) BY <1>2, <1>3, <1>8
<1> QED BY <1>1, <1>6, <1>7, <1>8 DEF Next

LEMMA AlwaysTyped == Spec => []TypesOK
<1>1. TypesOK /\ [Next]_vars => TypesOK' BY NextCases
<1> QED BY InitOK, <1>1, PTL DEF Spec

(* Every request and response has the fields its endpoint declares, every  *)
(* service holds well-formed values, and every amount of money is          *)
(* normalised (the handlers of src/app/internal/boutique, whatever their   *)
(* interleaving and whichever services stop).                              *)
THEOREM Typed == Spec => []TypeOK
<1>1. TypesOK => TypeOK
  <2> SUFFICES ASSUME TypesOK PROVE TypeOK OBVIOUS
  <2>0. CallsOK /\ StatesOK /\ FitsOK BY DEF TypesOK
  <2>1. /\ products \in Seq(Product) /\ StateOf(rates, Currencies, Rate)
        /\ DOMAIN carts \subseteq Users /\ arrays \in Seq(Array)
        /\ \A u \in DOMAIN carts : carts[u] \in Slice /\ Fits(carts[u], arrays)
    BY <2>0 DEF StatesOK, StateOf, FitsOK
  <2>2. \A u \in DOMAIN carts : Items(carts[u]) \in Seq(CartItem) BY <2>1, ItemsParts
  <2>3. ASSUME NEW c \in Clients
        PROVE  /\ \A f \in Handlers(c) : f.req \in RequestOf[f.ep]
               /\ ~Idle(c) /\ Head(call[c]).at \in DOMAIN ResponseAt
                    => Res(c) \in ResponseAt[Head(call[c]).at]
               /\ answer[c].ok => answer[c].res \in ResponseOf[answer[c].ep]
    <3>1. answer[c].ok => answer[c].res \in ResponseOf[answer[c].ep]
      BY <2>0, Replies DEF CallsOK, Entries
    <3>2. call[c] \in Seq(Frames) BY <2>0 DEF CallsOK, Calls, Stacks
    <3>3. \A f \in Handlers(c) : f.req \in RequestOf[f.ep]
      BY <3>2, LenProperties, ElementOfSeq, FrameParts DEF Handlers
    <3>4. ASSUME ~Idle(c), Head(call[c]).at \in DOMAIN ResponseAt
          PROVE  Res(c) \in ResponseAt[Head(call[c]).at]
      <4> DEFINE f == Head(call[c])
      <4>1. call[c] # <<>> BY <3>4 DEF Idle
      <4>2. f \in Heads /\ f \in Frames BY <2>0, <4>1, StackOf
      <4>3. Place(f.ep, f.at) BY <4>2, FrameParts
      <4>4. f.at # "start" /\ f.at \notin PauseNames BY <3>4, Names DEF PauseNames
      <4> HIDE DEF f
      <4>5. Waits(f.ep, f.at) BY <4>3, <4>4, PauseList DEF Place
      <4>6. PICK callee \in Eps : <<f.ep, f.at, callee>> \in Sites BY <4>5 DEF Waits
      <4>7. f.res \in ReplyTo(callee) BY <4>2, <4>6 DEF Heads
      <4>8. ReplyTo(callee) \subseteq ResponseAt[f.at] BY <4>6, Replies
      <4> QED BY <4>7, <4>8 DEF Res, f
    <3> QED BY <3>1, <3>3, <3>4
  <2> QED BY <2>1, <2>2, <2>3 DEF TypeOK
<1> QED BY AlwaysTyped, <1>1, PTL

-----------------------------------------------------------------------------
(* The catalogue. *)

LEMMA Singles == IsFiniteSet(Single) /\ Cardinality(Single) \in Nat
BY BoutiqueAssumption, FS_Subset, FS_CardinalityType DEF Single

LEMMA MoreSingles ==
  ASSUME Single \subseteq Single'
  PROVE  Cardinality(Single) <= Cardinality(Single') /\ Cardinality(Single') \in Nat
<1>1. IsFiniteSet(Single') BY BoutiqueAssumption, FS_Subset DEF Single
<1> QED BY <1>1, FS_Subset, FS_CardinalityType

LEMMA InitCatalog == Init => CatalogOK
<1> SUFFICES ASSUME Init PROVE CatalogOK OBVIOUS
<1>1. products = Catalog /\ raced = {} /\ \A c \in Clients : call[c] = <<>>
  BY DEF Init, InitAllProducts, InitServices
<1>2. Catalog \in Seq(Product) /\ Len(Catalog) <= CatalogSize /\ CatalogSize \in Nat
  BY BoutiqueAssumption
<1>3. Prefixed(products) /\ Len(products) \in Nat BY <1>1, <1>2 DEF Prefixed
<1> QED BY <1>1, <1>2, <1>3, Singles DEF CatalogOK

AddsOK(d) == call[d] # <<>> => FrameAdds(call[d][1], raced)

\* The catalogue and what is known of it stay, and no request to add ends.
LEMMA CatalogSame ==
  ASSUME TypesOK, CatalogOK, UNCHANGED products, "catalog" \in raced' <=> "catalog" \in raced,
         Single \subseteq Single',
         \A d \in Clients : AddsOK(d)'
  PROVE  CatalogOK'
<1>1. Cardinality(Single) <= Cardinality(Single') /\ Cardinality(Single') \in Nat BY MoreSingles
<1>2. Len(products) \in Nat /\ CatalogSize \in Nat /\ Cardinality(Single) \in Nat
  BY BoutiqueAssumption, Singles, LenProperties DEF TypesOK, StatesOK
<1>3. Prefixed(products)' BY DEF CatalogOK, Prefixed
<1>4. "catalog" \notin raced' => Len(products) <= CatalogSize + Cardinality(Single) BY DEF CatalogOK
<1> QED BY <1>1, <1>2, <1>3, <1>4 DEF AddsOK, CatalogOK

LEMMA CatalogRead ==
  ASSUME TypesOK, CatalogOK, NEW c \in Clients, Handled(c), Others(c), Outcome(c), TypesOK',
         ~(call[c][1].ep \in Adders /\ call[c][1].at = "read")
  PROVE  CatalogOK'
<1> DEFINE f == call[c][1]
<1>0. /\ CallsOK /\ CallsOK' /\ call[c] # <<>> /\ Changed(c) /\ f \in Frames /\ answer[c].ep = "none"
      /\ FrameAdds(f, raced) /\ Prefixed(products)
  BY StackOf DEF TypesOK, Handled, CatalogOK
<1>1. UNCHANGED products /\ ("catalog" \in raced' <=> "catalog" \in raced) BY <1>0, CatalogStays
<1>2. Single \subseteq Single' BY <1>0 DEF Single, Others
<1>3. ASSUME NEW d \in Clients, d # c, call'[d] # <<>> PROVE AddsOK(d)'
  <2>1. call'[d] = call[d] BY <1>3 DEF Others
  <2>2. FrameAdds(call[d][1], raced) BY <1>3, <2>1 DEF CatalogOK
  <2> QED BY <1>1, <2>1, <2>2 DEF AddsOK, FrameAdds, Prefixed
<1>4. ASSUME NEW g, g = call'[c][1], call'[c] # <<>> PROVE FrameAdds(g, raced)'
  <2>1. CASE g.at = "start" \/ g.ep \notin Adders BY <2>1 DEF FrameAdds, Adders
  <2>2. ASSUME NEW place, NEW my, GoesTo(f, place, my), g.ep = f.ep, g.at = place, g.my = my,
               f.ep \in Adders
        PROVE  FrameAdds(g, raced)'
    <3>1. CASE f.ep = "add_product"
      <4>1. my.list = products BY <2>2, <3>1 DEF GoesTo
      <4> HIDE DEF f
      <4> QED BY <1>0, <1>1, <2>2, <3>1, <4>1 DEF FrameAdds, Prefixed
    <3>2. CASE f.ep = "add_products"
      <4>1. \/ place = "next" /\ (my.left = <<>> \/ Len(products) + Len(my.left) <= CatalogSize)
            \/ f.at = "next" /\ place = "read" /\ my.left = f.my.left /\ my.list = products
        BY <2>2, <3>2 DEF GoesTo, Adders
      <4> HIDE DEF f
      <4> QED BY <1>0, <1>1, <2>2, <3>2, <4>1 DEF FrameAdds, Prefixed
    <3> QED BY <2>2, <3>1, <3>2 DEF Adders
  <2> QED BY <1>0, <1>4, <2>1, <2>2, NewTop
<1>5. \A d \in Clients : AddsOK(d)' BY <1>3, <1>4 DEF AddsOK
<1> QED BY <1>1, <1>2, <1>5, CatalogSame

\* A product is appended to the list that was read.
LEMMA AppendPrefix ==
  ASSUME NEW list \in Seq(Product), NEW p \in Product, Prefixed(list)
  PROVE  Prefixed(Append(list, p)) /\ Len(Append(list, p)) = Len(list) + 1
<1>1. /\ Len(list) \in Nat /\ Len(Append(list, p)) = Len(list) + 1
      /\ \A i \in 1 .. Len(list) : Append(list, p)[i] = list[i]
  BY AppendProperties, LenProperties
<1>2. Len(Catalog) \in Nat BY BoutiqueAssumption, LenProperties
<1> QED BY <1>1, <1>2 DEF Prefixed

LEMMA CatalogAdded ==
  ASSUME TypesOK, CatalogOK, NEW c \in Clients, Handled(c), Others(c), Outcome(c), TypesOK',
         call[c][1].ep \in Adders, call[c][1].at = "read"
  PROVE  CatalogOK'
<1> DEFINE f == call[c][1]
<1>0. /\ CallsOK /\ CallsOK' /\ call[c] # <<>> /\ Changed(c) /\ f \in Frames /\ answer[c].ep = "none"
      /\ FrameAdds(f, raced) /\ products \in Seq(Product) /\ CatalogSize \in Nat
      /\ Len(products) \in Nat
  BY StackOf, BoutiqueAssumption, LenProperties DEF TypesOK, StatesOK, Handled, CatalogOK
<1>1. PICK p \in Product : ProductAdded(f, p, OthersAdd(c))
  BY <1>0 DEF Changed, Calm, Ships, Charges, Empties, StoresCart, Grows, WritesProduct,
              WritesQuantity, Adders
<1>2. /\ products' = Append(f.my.list, p) /\ ("catalog" \notin raced' => "catalog" \notin raced)
      /\ OthersAdd(c) => "catalog" \in raced'
  BY <1>1 DEF ProductAdded
<1>3. f.my.list \in Seq(Product) /\ (f.ep = "add_products" => f.my.left \in Seq(Product) \ {<<>>})
  <2>1. f.my \in LocalsAt(f.ep, f.at) BY <1>0, FrameParts
  <2> HIDE DEF f
  <2>2. f.ep \in Adders /\ f.at = "read" BY DEF f
  <2>3. CASE f.ep = "add_product" BY <2>1, <2>2, <2>3 DEF LocalsAt, HoldsSlice
  <2>4. CASE f.ep = "add_products" BY <2>1, <2>2, <2>4 DEF LocalsAt, HoldsSlice
  <2> QED BY <2>2, <2>3, <2>4 DEF Adders
<1>4. Prefixed(f.my.list) /\ ("catalog" \notin raced => f.my.list = products)
  BY <1>0 DEF FrameAdds
<1>5. /\ Prefixed(products') /\ ("catalog" \notin raced' => Len(products') = Len(products) + 1)
  BY <1>2, <1>3, <1>4, AppendPrefix
<1>6. Prefixed(products)' BY <1>5 DEF Prefixed
<1>7. ASSUME NEW d \in Clients, d # c, call'[d] # <<>> PROVE AddsOK(d)'
  <2>1. call'[d] = call[d] /\ call[d] # <<>> BY <1>7 DEF Others
  <2> DEFINE h == call[d][1]
  <2>2. FrameAdds(h, raced) /\ Head(call[d]) = h BY <1>0, <2>1, StackOf DEF CatalogOK
  <2>3. ASSUME h.ep \in Adders, h.at # "start" PROVE "catalog" \in raced'
    <3>1. adds(d) BY <2>1, <2>2, <2>3 DEF adds, Idle, Serving, At, Adders
    <3> QED BY <1>2, <1>7, <3>1 DEF OthersAdd
  <2> QED BY <2>1, <2>2, <2>3 DEF AddsOK, FrameAdds, Adders, Prefixed
<1>8. CASE f.ep = "add_product"
  <2>1. Len(call[c]) = 1
    <3>1. f.ep \in Entries BY <1>8, Names
    <3>2. \A e, q : <<e, q, f.ep>> \notin Sites BY <3>1, SiteNames
    <3> QED BY <1>0, <3>2, SecondOf
  <2>2. \A place, e : <<f.ep, place, e>> \notin Sites BY <1>8, WaitsFor DEF Adders
  <2>3. \A place, my : ~GoesTo(f, place, my) BY <1>8 DEF GoesTo
  <2>4. \A r : ~Back(c, r) BY <2>1 DEF Back
  <2>5. \E ok, r : Over(c, ok, r) BY <2>2, <2>3, <2>4 DEF Outcome
  <2>6. call'[c] = <<>> /\ answer'[c].ep = "add_product" BY <1>8, <2>1, <2>5 DEF Over, Bottom
  <2>7. c \notin Single /\ Single' = Single \cup {c} BY <1>0, <2>6 DEF Single, Others
  <2>8. Cardinality(Single') = Cardinality(Single) + 1 BY <2>7, Singles, FS_AddElement
  <2>9. "catalog" \notin raced => Len(products) <= CatalogSize + Cardinality(Single)
    BY DEF CatalogOK
  <2>10. "catalog" \notin raced' => Len(products') <= CatalogSize + Cardinality(Single')
    BY <1>0, <1>2, <1>5, <2>8, <2>9, Singles
  <2>11. \A d \in Clients : AddsOK(d)' BY <1>7, <2>6 DEF AddsOK
  <2> QED BY <1>6, <2>10, <2>11 DEF CatalogOK, AddsOK
<1>9. CASE f.ep = "add_products"
  <2>1. Len(f.my.left) \in Nat \ {0} /\ Len(Tail(f.my.left)) = Len(f.my.left) - 1
    BY <1>3, <1>9, HeadTailProperties, EmptySeq, LenProperties
  <2>2. "catalog" \notin raced => Len(products) + Len(f.my.left) <= CatalogSize
    <3>1. f.my.left # <<>> BY <1>3, <1>9
    <3> QED BY <1>0, <1>9, <3>1 DEF FrameAdds
  <2>3. "catalog" \notin raced' =>
          /\ Len(products') + Len(Tail(f.my.left)) <= CatalogSize /\ Len(products') <= CatalogSize
    <3>1. PICK l \in Nat \ {0} : l = Len(f.my.left) /\ Len(Tail(f.my.left)) = l - 1 BY <2>1
    <3>2. PICK n \in Nat : n = Len(products) BY <1>0
    <3>3. "catalog" \notin raced' => Len(products') = n + 1 /\ n + l <= CatalogSize
      BY <1>2, <1>5, <2>2, <3>1, <3>2
    <3>4. PICK m \in Nat : m = CatalogSize BY <1>0
    <3>5. n + l <= m => n + 1 + (l - 1) <= m /\ n + 1 <= m OBVIOUS
    <3> QED BY <3>1, <3>3, <3>4, <3>5
  <2>4. Single \subseteq Single' BY <1>0 DEF Single, Others
  <2>5. "catalog" \notin raced' => Len(products') <= CatalogSize + Cardinality(Single')
    <3>1. Cardinality(Single') \in Nat BY <2>4, MoreSingles
    <3>2. "catalog" \notin raced' => Len(products') \in Nat BY <1>0, <1>5
    <3> QED BY <1>0, <2>3, <3>1, <3>2
  <2>6. ASSUME NEW g, g = call'[c][1], call'[c] # <<>> PROVE FrameAdds(g, raced)'
    <3>1. CASE g.at = "start" \/ g.ep \notin Adders BY <3>1 DEF FrameAdds, Adders
    <3>2. ASSUME NEW place, NEW my, GoesTo(f, place, my), g.ep = f.ep, g.at = place, g.my = my
          PROVE  FrameAdds(g, raced)'
      <4>1. place = "next" /\ my.left = Tail(f.my.left) BY <1>9, <3>2 DEF GoesTo
      <4>2. g.at = "next" /\ g.my.left = Tail(f.my.left) BY <3>2, <4>1
      <4> HIDE DEF f
      <4> QED BY <2>3, <4>2 DEF FrameAdds
    <3> QED BY <1>0, <2>6, <3>1, <3>2, NewTop
  <2>7. \A d \in Clients : AddsOK(d)' BY <1>7, <2>6 DEF AddsOK
  <2> QED BY <1>6, <2>5, <2>7 DEF CatalogOK, AddsOK
<1> QED BY <1>8, <1>9 DEF Adders

LEMMA CatalogStep == TypesOK /\ CatalogOK /\ [Next]_vars => CatalogOK'
<1> SUFFICES ASSUME TypesOK, CatalogOK, [Next]_vars PROVE CatalogOK' OBVIOUS
<1>0. TypesOK' /\ CallsOK BY NextCases DEF TypesOK
<1>1. CASE UNCHANGED <<up, call, answer, state>>
  BY <1>1 DEF CatalogOK, Prefixed, FrameAdds, Single, state
<1>2. ASSUME UNCHANGED state, NEW lost \in SUBSET Clients, Stopping(lost) PROVE CatalogOK'
  <2>1. UNCHANGED products /\ ("catalog" \in raced' <=> "catalog" \in raced) BY <1>2 DEF state
  <2>2. \A d \in Clients : call'[d] # <<>> => call'[d] = call[d] BY <1>2 DEF Stopping, Over
  <2>3. \A d \in Clients : AddsOK(d)'
    <3>1. \A f : FrameAdds(f, raced) => FrameAdds(f, raced)' BY <2>1, Zenon DEF FrameAdds, Prefixed
    <3> QED BY <2>2, <3>1, Zenon DEF AddsOK, CatalogOK
  <2>4. \A d \in lost : answer[d].ep = "none" BY <1>0, <1>2, StackOf DEF Stopping
  <2>5. Single \subseteq Single' BY <1>2, <2>4 DEF Single, Stopping
  <2> QED BY <2>1, <2>3, <2>5, CatalogSame
<1>3. ASSUME NEW c \in Clients, Asked(c), UNCHANGED <<up, answer, state>> PROVE CatalogOK'
  <2>1. UNCHANGED products /\ ("catalog" \in raced' <=> "catalog" \in raced) BY <1>3 DEF state
  <2>2. PICK e \in Entries : \E q \in RequestOf[e] : Asks(c, e, q) BY <1>3 DEF Asked
  <2>3. PICK q \in RequestOf[e] : Asks(c, e, q) BY <2>2
  <2>4. call'[c][1] = Frame(e, q) /\ \A d \in Clients : d # c => call'[d] = call[d]
    BY <1>0, <2>3, AsksStep
  <2>5. Frame(e, q).at = "start" BY DEF Frame
  <2>6. \A d \in Clients : AddsOK(d)'
    <3>1. \A f : FrameAdds(f, raced) => FrameAdds(f, raced)' BY <2>1, Zenon DEF FrameAdds, Prefixed
    <3>2. FrameAdds(Frame(e, q), raced)' BY <2>5, Zenon DEF FrameAdds
    <3> QED BY <2>4, <3>1, <3>2, Zenon DEF AddsOK, CatalogOK
  <2>7. Single \subseteq Single' BY <1>3 DEF Single
  <2> QED BY <2>1, <2>6, <2>7, CatalogSame
<1>4. ASSUME NEW c \in Clients, Handled(c), Others(c), Outcome(c) PROVE CatalogOK'
  BY <1>0, <1>4, CatalogRead, CatalogAdded
<1> QED BY <1>1, <1>2, <1>3, <1>4, NextCases

(* The catalogue keeps the products of the data file, first of all,        *)
(* whatever is added by whom; requests that add several products keep it   *)
(* within its bound unless two requests overlapped (append and len without *)
(* a lock in src/app/internal/boutique/productcatalog.go).                 *)
THEOREM CatalogAlwaysKept == Spec => []CatalogKept
<1>1. TypesOK /\ CatalogOK => CatalogKept
  <2> SUFFICES ASSUME TypesOK, CatalogOK PROVE CatalogKept OBVIOUS
  <2> DEFINE single == {c \in Clients : \/ answer[c].ep = "add_product"
                                        \/ ~Idle(c) /\ Serving(c, "add_product")}
  <2>1. /\ products \in Seq(Product) /\ Catalog \in Seq(Product) /\ Prefixed(products)
        /\ Len(Catalog) \in Nat /\ Len(products) \in Nat /\ CatalogSize \in Nat
    BY BoutiqueAssumption, LenProperties DEF TypesOK, StatesOK, CatalogOK
  <2>2. SubSeq(products, 1, Len(Catalog)) = Catalog
    <3> DEFINE s == SubSeq(products, 1, Len(Catalog))
    <3>1. /\ s \in Seq(Product) /\ Len(s) = Len(Catalog)
          /\ \A i \in 1 .. Len(Catalog) : s[i] = products[i]
      <4> DEFINE n == Len(Catalog)
      <4>1. n \in Nat /\ n <= Len(products) /\ \A i \in 1 .. n : products[i] \in Product
        BY <2>1, ElementOfSeq DEF Prefixed
      <4> HIDE DEF n
      <4>2. /\ SubSeq(products, 1, n) \in Seq(Product)
            /\ Len(SubSeq(products, 1, n)) = IF 1 <= n THEN n - 1 + 1 ELSE 0
            /\ \A i \in 1 .. n - 1 + 1 : SubSeq(products, 1, n)[i] = products[1 + i - 1]
        BY <4>1, SubSeqProperties
      <4>3. /\ Len(SubSeq(products, 1, n)) = n
            /\ \A i \in 1 .. n : SubSeq(products, 1, n)[i] = products[i]
        BY <4>1, <4>2
      <4> QED BY <4>2, <4>3 DEF n
    <3> HIDE DEF s
    <3>2. \A i \in 1 .. Len(Catalog) : s[i] = Catalog[i] BY <2>1, <3>1 DEF Prefixed
    <3>3. s = Catalog BY <2>1, <3>1, <3>2, SeqEqual
    <3> QED BY <3>3 DEF s
  <2>3. IsFiniteSet(single) /\ Single \subseteq single
    BY BoutiqueAssumption, FS_Subset DEF Single
  <2>4. Cardinality(Single) <= Cardinality(single) /\ Cardinality(single) \in Nat
    BY <2>3, FS_Subset, FS_CardinalityType
  <2>5. "catalog" \in raced \/ Len(products) <= CatalogSize + Cardinality(single)
    BY <2>1, <2>4, Singles DEF CatalogOK
  <2> QED BY <2>2, <2>5 DEF CatalogKept
<1> QED BY AlwaysTyped, InitCatalog, CatalogStep, <1>1, PTL DEF Spec

-----------------------------------------------------------------------------
(* Orders. *)

PaidFrames(c) == \A i \in 1 .. Len(call[c]) : FramePaid(c, call[c][i])
TopOK(c) ==
  /\ call[c] # <<>> => TopPaid(c, call[c][1])
  /\ call[c] = <<>> /\ answer[c].ep # "checkout" => ~Has(payments, c)
  /\ AnswerPaid(c, answer[c])
ParcelsPaid == \A c \in DOMAIN parcels : Has(payments, c) /\ payments[c].order.items = parcels[c]
AmountsDue == \A c \in DOMAIN payments : Value(payments[c].amount) = Due(payments[c].order)

\* The amounts after a step, of the payments after it.
LEMMA AmountsNext ==
  AmountsDue' <=> \A c \in DOMAIN payments' : Value(payments'[c].amount) = Due(payments'[c].order)
BY DEF AmountsDue, Value, Due

LEMMA OrdersSplit ==
  OrdersOK <=> ParcelsPaid /\ AmountsDue /\ \A c \in Clients : PaidFrames(c) /\ TopOK(c)
BY DEF OrdersOK, ParcelsPaid, AmountsDue, PaidFrames, TopOK

\* What c has paid and been sent stays.
PaidStays(c) ==
  /\ Has(payments, c) => Has(payments, c)' /\ payments'[c] = payments[c]
  /\ Has(parcels, c) => Has(parcels, c)'
MoneySame(c) == PaidStays(c) /\ (Has(payments, c)' => Has(payments, c))

LEMMA FramesStay ==
  ASSUME NEW c, PaidStays(c), NEW f, FramePaid(c, f)
  PROVE  FramePaid(c, f)'
BY DEF PaidStays, FramePaid, OrderPaid, PaidIn

LEMMA InitOrders == Init => OrdersOK
<1> SUFFICES ASSUME Init PROVE OrdersOK OBVIOUS
<1>1. /\ payments = <<>> /\ parcels = <<>>
      /\ \A c \in Clients : call[c] = <<>> /\ answer[c].ep = "none"
  BY DEF Init, InitServices
<1>2. DOMAIN payments = {} /\ DOMAIN parcels = {} BY <1>1
<1>3. \A c \in Clients : 1 .. Len(call[c]) = {} BY <1>1
<1> QED BY <1>1, <1>2, <1>3 DEF OrdersOK, AnswerPaid, Has

\* Whoever has been charged asked to check out.
LEMMA ChargedUnder ==
  ASSUME CallsOK, NEW c \in Clients, call[c] # <<>>, Charged(call[c][1])
  PROVE  Bottom(c).ep = "checkout"
<1> DEFINE S == {"checkout", "place_order", "ship_order", "empty_cart"}
<1>1. call[c][1].ep \in S BY DEF Charged
<1>2. \A e, p, d : <<e, p, d>> \in Sites /\ d \in S => e \in S
  <2>1. "checkout" \in Entries BY Names
  <2> QED BY <2>1, WaitsFor, SiteNames
<1> HIDE DEF S
<1>3. \A i \in 1 .. Len(call[c]) : call[c][i].ep \in S BY <1>1, <1>2, Underneath
<1>4. /\ Len(call[c]) \in 1 .. Len(call[c]) /\ Bottom(c).ep \in Entries
  BY StackOf DEF Bottoms, Bottom
<1>5. Bottom(c).ep \in S BY <1>3, <1>4 DEF Bottom
<1> QED BY <1>4, <1>5, Names DEF S

\* A client whose stack and answer stay.
LEMMA PaidOther ==
  ASSUME NEW d, PaidFrames(d), TopOK(d), call'[d] = call[d], answer'[d] = answer[d], MoneySame(d),
         Broken => Broken'
  PROVE  PaidFrames(d)' /\ TopOK(d)'
<1>1. PaidFrames(d)' BY DEF PaidFrames, FramePaid, OrderPaid, PaidIn, MoneySame, PaidStays
<1>2. ASSUME NEW f, TopPaid(d, f) PROVE TopPaid(d, f)'
  BY <1>2 DEF TopPaid, Charged, OrderPaid, PaidIn, MoneySame, PaidStays
<1>3. PICK f : f = call[d][1] OBVIOUS
<1>4. call[d] # <<>> => TopPaid(d, f)' BY <1>2, <1>3 DEF TopOK
<1>5. call'[d] # <<>> => TopPaid(d, call[d][1])'
  BY <1>3, <1>4 DEF TopPaid, Charged, OrderPaid, PaidIn
<1>6. AnswerPaid(d, answer[d])' BY DEF TopOK, AnswerPaid, PaidIn, MoneySame, PaidStays
<1>7. call'[d] = <<>> /\ answer'[d].ep # "checkout" => ~Has(payments, d)' BY DEF TopOK, MoneySame
<1> QED BY <1>1, <1>5, <1>6, <1>7 DEF TopOK

\* The ways a stack changes, for all frames of it.
LEMMA PaidWent ==
  ASSUME CallsOK, NEW c \in Clients, call[c] # <<>>, PaidFrames(c), PaidStays(c),
         NEW place, place \in PauseNames, NEW my, Went(c, place, my)
  PROVE  PaidFrames(c)'
<1>1. Len(call[c]) \in Nat /\ call[c][1] \in Frames BY StackOf
<1>2. /\ Len(call'[c]) = Len(call[c]) /\ call'[c][1] = Gone(call[c][1], place, my)
      /\ \A i \in 2 .. Len(call[c]) : call'[c][i] = call[c][i]
  BY DEF Went
<1>3. ASSUME NEW i \in 1 .. Len(call[c]) PROVE FramePaid(c, call[c][i])'
  <2>1. CASE i = 1
    <3>1. call'[c][1].at = place BY <1>1, <1>2, GoneParts
    <3>2. place \notin {"shipped", "emptied"} BY DEF PauseNames
    <3> QED BY <2>1, <3>1, <3>2 DEF FramePaid
  <2>2. CASE i # 1
    <3>1. call'[c][i] = call[c][i] BY <1>1, <1>2, <2>2
    <3>2. FramePaid(c, call[c][i]) BY DEF PaidFrames
    <3> QED BY <3>1, <3>2 DEF FramePaid, OrderPaid, PaidIn, PaidStays
  <2> QED BY <2>1, <2>2
<1> QED BY <1>2, <1>3 DEF PaidFrames

LEMMA PaidDeeper ==
  ASSUME CallsOK, NEW c \in Clients, call[c] # <<>>, PaidFrames(c), TopOK(c), PaidStays(c),
         NEW place, NEW e \in Eps, NEW my, NEW q \in RequestOf[e], <<call[c][1].ep, place, e>> \in Sites,
         Seeks(call[c][1], e, q, place, my), Deeper(c, e, q, place, my)
  PROVE  PaidFrames(c)'
<1> DEFINE f == call[c][1]
<1>1. Len(call[c]) \in Nat /\ Len(call[c]) >= 1 /\ f \in Frames BY StackOf
<1>2. /\ Len(call'[c]) = Len(call[c]) + 1
      /\ call'[c][1] = Frame(e, q) /\ call'[c][2] = Gone(f, place, my)
      /\ \A i \in 3 .. Len(call[c]) + 1 : call'[c][i] = call[c][i - 1]
  BY DEF Deeper
<1>3. ASSUME NEW i \in 1 .. Len(call[c]) + 1 PROVE FramePaid(c, call[c][i])'
  <2>1. CASE i = 1 BY <1>2, <2>1, FrameStarts DEF FramePaid
  <2>2. CASE i = 2
    <3>1. PICK g : g = Gone(f, place, my) OBVIOUS
    <3>2. g.ep = f.ep /\ g.req = f.req /\ g.at = place /\ g.my = my BY <1>1, <3>1, GoneParts
    <3>3. FramePaid(c, f) /\ TopPaid(c, f) BY <1>1 DEF PaidFrames, TopOK
    <3>4. CASE f.ep = "place_order" /\ place = "shipped"
      <4>1. e = "ship_order" BY <3>4, WaitsFor
      <4>2. f.at = "charged" /\ f.res.error = "" /\ my = f.my BY <4>1 DEF Seeks
      <4>3. OrderPaid(c, f) BY <3>3, <3>4, <4>2 DEF TopPaid
      <4> HIDE DEF f
      <4>4. FramePaid(c, g) BY <3>2, <3>4, <4>2, <4>3 DEF FramePaid, OrderPaid
      <4> QED BY <1>2, <2>2, <3>1, <4>4, FramesStay DEF FramePaid, OrderPaid, PaidIn, f
    <3>5. CASE f.ep = "place_order" /\ place = "emptied"
      <4>1. e = "empty_cart" BY <3>5, WaitsFor
      <4>2. f.at = "shipped" /\ my = f.my BY <4>1 DEF Seeks
      <4>3. OrderPaid(c, f) /\ Has(parcels, c) BY <3>3, <3>5, <4>2 DEF TopPaid, FramePaid
      <4> HIDE DEF f
      <4>4. FramePaid(c, g) BY <3>2, <3>5, <4>2, <4>3 DEF FramePaid, OrderPaid
      <4> QED BY <1>2, <2>2, <3>1, <4>4, FramesStay DEF FramePaid, OrderPaid, PaidIn, f
    <3>6. CASE ~(f.ep = "place_order" /\ place \in {"shipped", "emptied"})
      <4>1. call'[c][2] = g BY <1>2, <3>1
      <4> HIDE DEF f
      <4> QED BY <2>2, <3>2, <3>6, <4>1 DEF FramePaid
    <3> QED BY <3>4, <3>5, <3>6
  <2>3. CASE i \notin {1, 2}
    <3>1. i \in 3 .. Len(call[c]) + 1 /\ i - 1 \in 1 .. Len(call[c]) BY <1>1, <2>3
    <3>2. call'[c][i] = call[c][i - 1] /\ FramePaid(c, call[c][i - 1]) BY <1>2, <3>1 DEF PaidFrames
    <3> QED BY <3>2 DEF FramePaid, OrderPaid, PaidIn, PaidStays
  <2> QED BY <2>1, <2>2, <2>3
<1> QED BY <1>2, <1>3 DEF PaidFrames

LEMMA PaidBack ==
  ASSUME CallsOK, NEW c \in Clients, call[c] # <<>>, PaidFrames(c), PaidStays(c),
         NEW r \in Results, Back(c, r)
  PROVE  PaidFrames(c)'
<1>1. /\ Len(call[c]) \in Nat /\ Len(call[c]) > 1 /\ call[c][2] \in Frames
      /\ Len(call'[c]) = Len(call[c]) - 1 /\ call'[c][1] = Answered(call[c][2], r)
      /\ \A i \in 2 .. Len(call[c]) - 1 : call'[c][i] = call[c][i + 1]
  BY StackOf, SecondOf, SMTT(30) DEF Back
<1>2. 2 \in 1 .. Len(call[c]) BY <1>1
<1>3. ASSUME NEW i \in 1 .. Len(call[c]) - 1 PROVE FramePaid(c, call[c][i])'
  <2>1. CASE i = 1
    <3>1. PICK h : h = call[c][2] OBVIOUS
    <3>2. PICK g : g = Answered(h, r) OBVIOUS
    <3>3. g.ep = h.ep /\ g.req = h.req /\ g.at = h.at /\ g.my = h.my
      BY <1>1, <3>1, <3>2, FrameAnswered
    <3>4. FramePaid(c, h) BY <1>2, <3>1 DEF PaidFrames
    <3>5. FramePaid(c, g) BY <3>3, <3>4 DEF FramePaid, OrderPaid
    <3>6. FramePaid(c, g)' BY <3>5, FramesStay
    <3>7. call'[c][1] = g BY <1>1, <3>1, <3>2
    <3> QED BY <2>1, <3>6, <3>7 DEF FramePaid, OrderPaid, PaidIn
  <2>2. CASE i # 1
    <3>1. i \in 2 .. Len(call[c]) - 1 /\ i + 1 \in 1 .. Len(call[c]) BY <1>1, <2>2
    <3>2. call'[c][i] = call[c][i + 1] /\ FramePaid(c, call[c][i + 1]) BY <1>1, <3>1 DEF PaidFrames
    <3> QED BY <3>2 DEF FramePaid, OrderPaid, PaidIn, PaidStays
  <2> QED BY <2>1, <2>2
<1> QED BY <1>1, <1>3 DEF PaidFrames

\* The request of c ends.
LEMMA PaidFailed ==
  ASSUME CallsOK, NEW c \in Clients, call[c] # <<>>, TopOK(c), MoneySame(c), NEW r,
         Over(c, FALSE, r), Charged(call[c][1]) => Broken'
  PROVE  PaidFrames(c)' /\ TopOK(c)'
<1>1. /\ call'[c] = <<>> /\ answer'[c].ep = Bottom(c).ep /\ answer'[c].ok = FALSE
      /\ 1 .. Len(call'[c]) = {}
  BY DEF Over
<1>2. Has(payments, c) => Charged(call[c][1]) BY DEF TopOK, TopPaid
<1>3. Has(payments, c) => Bottom(c).ep = "checkout" BY <1>2, ChargedUnder
<1>4. AnswerPaid(c, answer[c])' BY <1>1, <1>2 DEF AnswerPaid, MoneySame
<1>5. answer'[c].ep # "checkout" => ~Has(payments, c)' BY <1>1, <1>3 DEF MoneySame
<1> QED BY <1>1, <1>4, <1>5 DEF PaidFrames, TopOK

LEMMA PaidDone ==
  ASSUME CallsOK, NEW c \in Clients, call[c] # <<>>, TopOK(c), MoneySame(c), NEW r,
         Len(call[c]) = 1, Gives(call[c][1], r), Over(c, TRUE, r)
  PROVE  PaidFrames(c)' /\ TopOK(c)'
<1> DEFINE f == call[c][1]
<1>1. /\ call'[c] = <<>> /\ answer'[c].ep = f.ep /\ answer'[c].ok = TRUE /\ answer'[c].req = f.req
      /\ 1 .. Len(call'[c]) = {}
  BY DEF Over, Bottom
<1>2. TopPaid(c, f) BY DEF TopOK
<1>3. f.ep = "checkout" => f.at = "passed" BY DEF Gives
<1>4. f.ep = "checkout" => PaidIn(c, f.req.currency) /\ Has(parcels, c) BY <1>2, <1>3 DEF TopPaid
<1>5. f.ep # "checkout" => ~Has(payments, c) BY <1>2, ChargedUnder DEF TopPaid, Bottom
<1> HIDE DEF f
<1>6. AnswerPaid(c, answer[c])' BY <1>1, <1>4 DEF AnswerPaid, PaidIn, MoneySame, PaidStays
<1> QED BY <1>1, <1>5, <1>6 DEF PaidFrames, TopOK, MoneySame

\* While its request goes on, the innermost handler is another one.
LEMMA TopBecomes ==
  ASSUME CallsOK', NEW c \in Clients, call'[c] # <<>>, NEW g, g = call'[c][1], TopPaid(c, g)'
  PROVE  TopOK(c)'
<1>1. answer'[c].ep = "none"
  BY DEF CallsOK
<1>2. TopPaid(c, call[c][1])' BY DEF TopPaid, Charged, OrderPaid, PaidIn
<1> QED BY <1>1, <1>2 DEF TopOK, AnswerPaid

LEMMA PaidQuietly ==
  ASSUME TypesOK, TypesOK', NEW c \in Clients, PaidFrames(c), TopOK(c), Handled(c), Outcome(c),
         UNCHANGED up, call[c][1].ep \notin {"charge", "ship_order"}
  PROVE  PaidFrames(c)' /\ TopOK(c)'
<1> DEFINE f == call[c][1]
<1>0. CallsOK /\ CallsOK' /\ call[c] # <<>> /\ f \in Frames /\ f.ep \in Eps
  BY StackOf, FrameParts DEF TypesOK, Handled
<1>1. UNCHANGED <<payments, parcels>> BY MoneyStays DEF Handled
<1>2. MoneySame(c) /\ PaidStays(c) /\ (Broken => Broken')
  BY <1>1 DEF MoneySame, PaidStays, Has, Broken, Listening
<1>3. TopPaid(c, f) /\ (Has(payments, c) => Charged(f)) BY <1>0 DEF TopOK, TopPaid
<1>4. FramePaid(c, f)
  <2>1. 1 \in 1 .. Len(call[c]) BY <1>0, StackOf
  <2> QED BY <2>1 DEF PaidFrames
<1>5. CASE Fails(f) /\ Over(c, FALSE, <<>>)
  BY <1>0, <1>2, <1>5, PaidFailed DEF Fails
<1>6. CASE \E r \in ReplyTo(f.ep) : Gives(f, r) /\ Len(call[c]) = 1 /\ Over(c, TRUE, r)
  BY <1>0, <1>2, <1>6, PaidDone
<1>7. ASSUME NEW r \in ReplyTo(f.ep), Gives(f, r), Back(c, r),
             <<call[c][2].ep, call[c][2].at, f.ep>> \in Sites
      PROVE  PaidFrames(c)' /\ TopOK(c)'
  <2>1. r \in Results BY <1>0 DEF Results
  <2>2. PaidFrames(c)' BY <1>0, <1>2, <1>7, <2>1, PaidBack
  <2>3. PICK h : h = call[c][2] OBVIOUS
  <2>4. PICK g : g = Answered(h, r) OBVIOUS
  <2>5. Len(call[c]) # 1 /\ call'[c][1] = g /\ call'[c] # <<>>
    <3>1. Len(call[c]) \in Nat BY <1>0, StackOf
    <3>2. Len(call'[c]) # 0 BY <1>7, <3>1 DEF Back
    <3> QED BY <1>7, <2>3, <2>4, <3>1, <3>2 DEF Back
  <2>6. h \in Frames /\ <<h.ep, h.at, f.ep>> \in Sites /\ Bound(f, h)
    BY <1>0, <2>3, <2>5, SecondOf
  <2>7. g.ep = h.ep /\ g.req = h.req /\ g.at = h.at /\ g.my = h.my /\ g.res = r
    BY <2>1, <2>4, <2>6, FrameAnswered
  <2>8. f.ep # "checkout" /\ "checkout" \in Entries BY <2>6, SiteNames, Names
  <2>9. /\ f.ep = "place_order" => h.ep = "checkout" /\ h.at = "passed" /\ f.at = "emptied"
        /\ f.ep = "empty_cart" => h.ep = "place_order" /\ h.at = "emptied"
        /\ h.ep = "checkout" => f.ep = "place_order"
        /\ ~(h.ep = "place_order" /\ h.at \in {"charged", "shipped"})
    <3> HIDE DEF f
    <3>1. f.ep = "place_order" => f.at = "emptied" BY <1>7 DEF Gives, f
    <3>2. f.ep \notin {"charge", "ship_order"} BY DEF f
    <3> QED BY <2>6, <3>1, <3>2, WaitsFor
  <2>10. f.ep = "place_order" => /\ PaidIn(c, f.req.currency) /\ Has(parcels, c) /\ f.req = h.req
    <3> HIDE DEF f
    <3> QED BY <1>4, <2>6, <2>9 DEF FramePaid, OrderPaid, Bound
  <2> HIDE DEF f
  <2>11. Has(payments, c) => Charged(g)
    BY <1>3, <2>7, <2>8, <2>9 DEF Charged, f
  <2>12. TopPaid(c, g)
    BY <2>7, <2>9, <2>10, <2>11 DEF TopPaid
  <2>13. TopPaid(c, g)' BY <1>1, <2>12 DEF TopPaid, Charged, OrderPaid, PaidIn, Has
  <2> QED BY <1>0, <2>2, <2>5, <2>13, TopBecomes
<1>8. ASSUME NEW place \in PlaceNames, NEW my, GoesTo(f, place, my), Went(c, place, my)
      PROVE  PaidFrames(c)' /\ TopOK(c)'
  <2>1. <<f.ep, place>> \in Pauses /\ place \in PauseNames BY <1>8, PauseList DEF GoesTo
  <2>2. PaidFrames(c)' BY <1>0, <1>2, <1>8, <2>1, PaidWent
  <2>3. PICK g : g = Gone(f, place, my) OBVIOUS
  <2>4. call'[c][1] = g /\ call'[c] # <<>>
    <3>1. Len(call[c]) \in Nat /\ Len(call[c]) >= 1 BY <1>0, StackOf
    <3>2. Len(call'[c]) # 0 BY <1>8, <3>1 DEF Went
    <3> QED BY <1>8, <2>3, <3>2 DEF Went
  <2>5. g.at = place BY <1>0, <2>3, GoneParts
  <2>6. ~Charged(f)
    <3>1. f.ep = "place_order" => f.at \in {"gotCart", "gotPrice"} BY <1>8 DEF GoesTo
    <3>2. f.ep \notin {"checkout", "ship_order", "empty_cart"} BY <2>1 DEF Pauses
    <3> HIDE DEF f
    <3> QED BY <3>1, <3>2 DEF Charged
  <2>7. place \notin {"charged", "shipped", "emptied", "passed"} BY <2>1 DEF PauseNames
  <2>8. ~Has(payments, c)' BY <1>2, <1>3, <2>6 DEF MoneySame
  <2>9. TopPaid(c, g)' BY <2>5, <2>7, <2>8 DEF TopPaid
  <2> QED BY <1>0, <2>2, <2>4, <2>9, TopBecomes
<1>9. ASSUME NEW place \in PlaceNames, NEW e \in Eps, NEW my \in LocalsAt(f.ep, place),
             NEW q \in RequestOf[e], <<f.ep, place, e>> \in Sites, Seeks(f, e, q, place, my),
             Deeper(c, e, q, place, my)
      PROVE  PaidFrames(c)' /\ TopOK(c)'
  <2>1. PaidFrames(c)' BY <1>0, <1>2, <1>9, PaidDeeper
  <2>2. PICK g : g = Frame(e, q) OBVIOUS
  <2>3. g.ep = e /\ g.at = "start" BY <2>2 DEF Frame
  <2>4. call'[c][1] = g /\ call'[c] # <<>>
    <3>1. Len(call[c]) \in Nat /\ Len(call[c]) >= 1 BY <1>0, StackOf
    <3>2. Len(call'[c]) # 0 BY <1>9, <3>1 DEF Deeper
    <3> QED BY <1>9, <2>2, <3>2 DEF Deeper
  <2>5. Charged(f) => e \in {"ship_order", "empty_cart"}
    <3>1. f.ep \notin {"ship_order", "empty_cart"} BY <1>9, WaitsFor
    <3>2. /\ f.ep = "place_order" /\ e \notin {"ship_order", "empty_cart"} =>
               f.at \notin {"charged", "shipped", "emptied"}
          /\ f.ep = "checkout" => f.at = "start"
      BY <1>9 DEF Seeks
    <3> HIDE DEF f
    <3> QED BY <3>1, <3>2 DEF Charged
  <2>6. Has(payments, c)' => Charged(g) BY <1>2, <1>3, <2>3, <2>5 DEF MoneySame, Charged
  <2>7. TopPaid(c, g)' BY <2>3, <2>6 DEF TopPaid, Charged
  <2> QED BY <1>0, <2>1, <2>4, <2>7, TopBecomes
<1> HIDE DEF f
<1>10. Outcome(c) /\ f = call[c][1] BY DEF f
<1>11. CASE \E r \in ReplyTo(f.ep) :
              Gives(f, r) /\ Back(c, r) /\ <<call[c][2].ep, call[c][2].at, f.ep>> \in Sites
  BY <1>7, <1>11
<1>12. CASE \E place \in PlaceNames : \E my \in LocalsAt(f.ep, place) :
              GoesTo(f, place, my) /\ Went(c, place, my)
  BY <1>8, <1>12
<1>13. CASE \E place \in PlaceNames, e \in Eps : \E my \in LocalsAt(f.ep, place), q \in RequestOf[e] :
              <<f.ep, place, e>> \in Sites /\ Seeks(f, e, q, place, my) /\ Deeper(c, e, q, place, my)
  BY <1>9, <1>13
<1> QED BY <1>5, <1>6, <1>10, <1>11, <1>12, <1>13 DEF Outcome

\* Neither charging nor shipping calls anybody or goes on later.
LEMMA Immediate ==
  ASSUME CallsOK, NEW c \in Clients, call[c] # <<>>, Outcome(c),
         call[c][1].ep \in {"charge", "ship_order"}
  PROVE  /\ Len(call[c]) # 1
         /\ \/ Fails(call[c][1]) /\ Over(c, FALSE, <<>>)
            \/ \E r \in ReplyTo(call[c][1].ep) :
                 /\ r \in Results /\ Gives(call[c][1], r) /\ Back(c, r)
                 /\ call'[c][1] = Answered(call[c][2], r) /\ call'[c] # <<>>
<1> DEFINE f == call[c][1]
<1>1. f.ep \notin Entries BY Names
<1>2. Len(call[c]) # 1 BY <1>1, SecondIfCallee
<1>3. \A place, my : ~GoesTo(f, place, my) BY DEF GoesTo, Pauses
<1>4. \A place, e : <<f.ep, place, e>> \notin Sites BY WaitsFor
<1>5. f.ep \in Eps BY StackOf, FrameParts
<1>6. ASSUME NEW r \in ReplyTo(f.ep), Back(c, r)
      PROVE  r \in Results /\ call'[c][1] = Answered(call[c][2], r) /\ call'[c] # <<>>
  <2>1. Len(call[c]) \in Nat BY StackOf
  <2>2. Len(call'[c]) # 0 BY <1>6, <2>1 DEF Back
  <2> QED BY <1>5, <1>6, <2>2 DEF Back, Results
<1> QED BY <1>2, <1>3, <1>4, <1>6 DEF Outcome

LEMMA PaidCharge ==
  ASSUME TypesOK, TypesOK', OrdersOK, NEW c \in Clients, Handled(c), Outcome(c),
         call[c][1].ep = "charge"
  PROVE  /\ PaidFrames(c)' /\ TopOK(c)' /\ ParcelsPaid' /\ AmountsDue'
         /\ \A d \in Clients \ {c} : MoneySame(d)
<1> DEFINE f == call[c][1]
<1>0. /\ CallsOK /\ CallsOK' /\ call[c] # <<>> /\ Changed(c) /\ ParcelsPaid /\ AmountsDue
      /\ PaidFrames(c) /\ TopOK(c)
  BY OrdersSplit DEF TypesOK, Handled
<1>1. ~Has(payments, c) /\ ~Has(parcels, c)
  <2>1. ~Charged(f) BY DEF Charged
  <2> QED BY <1>0, <2>1 DEF TopOK, TopPaid, ParcelsPaid, Has
<1>2. PICK h : h = call[c][2] OBVIOUS
<1>3. PICK r \in ReplyTo(f.ep) :
        /\ r \in Results /\ Gives(f, r) /\ Back(c, r)
        /\ call'[c][1] = Answered(h, r) /\ call'[c] # <<>>
  <2>1. ~Fails(f) BY DEF Fails
  <2> QED BY <1>0, <1>2, <2>1, Immediate
<1>4. PICK g : g = Answered(h, r) OBVIOUS
<1>5. /\ h \in Frames /\ h.ep = "place_order" /\ h.at = "charged"
      /\ Value(f.req.amount) = Due(h.my) /\ f.req.amount.currency = h.req.currency
  <2>1. Len(call[c]) # 1 BY <1>0, Immediate
  <2>2. h \in Frames /\ <<h.ep, h.at, f.ep>> \in Sites /\ Bound(f, h) BY <1>0, <1>2, <2>1, SecondOf
  <2> QED BY <2>2, WaitsFor DEF Bound
<1>6. /\ g.ep = "place_order" /\ g.at = "charged" /\ g.req = h.req /\ g.my = h.my
      /\ g.res = r /\ r.error = ErrorOf(f.req.card)
  BY <1>3, <1>4, <1>5, FrameAnswered DEF Gives
<1>7. PaidStays(c) => PaidFrames(c)' BY <1>0, <1>3, PaidBack
<1>8. CASE ErrorOf(f.req.card) = ""
  <2>1. Charges(c, f)
    BY <1>0, <1>8 DEF Changed, Calm, ProductAdded, Ships, Empties, StoresCart, Grows, WritesProduct,
                      WritesQuantity, Adders
  <2>2. payments' = SetState(payments, c, [amount |-> f.req.amount, order |-> h.my]) /\ UNCHANGED parcels
    BY <1>2, <2>1 DEF Charges
  <2>3. /\ DOMAIN payments' = DOMAIN payments \cup {c}
        /\ payments'[c] = [amount |-> f.req.amount, order |-> h.my]
        /\ \A d \in DOMAIN payments : d # c => payments'[d] = payments[d]
    <3> HIDE DEF f
    <3> QED BY <2>2 DEF SetState
  <2>4. payments'[c].amount = f.req.amount /\ payments'[c].order = h.my BY <2>3
  <2> HIDE DEF f
  <2>5. PaidStays(c) BY <1>1 DEF PaidStays
  <2>6. \A d \in Clients \ {c} : MoneySame(d) BY <2>2, <2>3 DEF MoneySame, PaidStays, Has
  <2>7. ParcelsPaid' BY <1>0, <1>1, <2>2, <2>3 DEF ParcelsPaid, Has
  <2>8. AmountsDue'
    <3>1. Value(payments'[c].amount) = Due(payments'[c].order) BY <1>5, <2>4
    <3> QED BY <1>0, <2>3, <3>1, AmountsNext DEF AmountsDue
  <2>9. PaidIn(c, g.req.currency)' /\ Has(payments, c)' /\ payments'[c].order = g.my
    BY <1>5, <1>6, <2>3, <2>4 DEF PaidIn, Has
  <2>10. TopPaid(c, g)' BY <1>6, <1>8, <2>9 DEF TopPaid, Charged, OrderPaid, PaidIn
  <2> QED BY <1>0, <1>3, <1>4, <1>7, <2>5, <2>6, <2>7, <2>8, <2>10, TopBecomes
<1>9. CASE ErrorOf(f.req.card) # ""
  <2>1. UNCHANGED <<payments, parcels>>
    BY <1>0, <1>9 DEF Changed, Calm, ProductAdded, Ships, Charges, Empties, StoresCart, Grows,
                      WritesProduct, WritesQuantity, Adders
  <2> HIDE DEF f
  <2>2. \A d \in Clients : MoneySame(d) BY <2>1 DEF MoneySame, PaidStays, Has
  <2>3. ParcelsPaid' /\ AmountsDue' BY <1>0, <2>1, AmountsNext DEF ParcelsPaid, AmountsDue, Has
  <2>4. ~Has(payments, c)' BY <1>1, <2>1 DEF Has
  <2>5. TopPaid(c, g)' BY <1>6, <1>9, <2>4 DEF TopPaid
  <2>6. PaidStays(c) BY <2>2 DEF MoneySame
  <2> QED BY <1>0, <1>3, <1>4, <1>7, <2>2, <2>3, <2>5, <2>6, TopBecomes
<1> QED BY <1>8, <1>9

LEMMA PaidShip ==
  ASSUME TypesOK, TypesOK', OrdersOK, NEW c \in Clients, Handled(c), Outcome(c), UNCHANGED up,
         call[c][1].ep = "ship_order"
  PROVE  /\ PaidFrames(c)' /\ TopOK(c)' /\ ParcelsPaid' /\ AmountsDue'
         /\ \A d \in Clients \ {c} : MoneySame(d)
<1> DEFINE f == call[c][1]
<1>0. /\ CallsOK /\ CallsOK' /\ call[c] # <<>> /\ Changed(c) /\ ParcelsPaid /\ AmountsDue
      /\ PaidFrames(c) /\ TopOK(c)
  BY OrdersSplit DEF TypesOK, Handled
<1>1. PICK h : h = call[c][2] OBVIOUS
<1>2. /\ Len(call[c]) # 1 /\ h \in Frames /\ h.ep = "place_order" /\ h.at = "shipped"
      /\ f.req.items = h.my.items /\ FramePaid(c, h)
  <2>1. Len(call[c]) # 1 BY <1>0, Immediate
  <2>2. h \in Frames /\ <<h.ep, h.at, f.ep>> \in Sites /\ Bound(f, h) BY <1>0, <1>1, <2>1, SecondOf
  <2>3. 2 \in 1 .. Len(call[c])
    <3>1. Len(call[c]) > 1 /\ Len(call[c]) \in Nat BY <1>0, <2>1, SecondOf, StackOf
    <3> QED BY <3>1
  <2>4. FramePaid(c, h) BY <1>0, <1>1, <2>3 DEF PaidFrames
  <2> QED BY <2>1, <2>2, <2>4, WaitsFor DEF Bound
<1>3. OrderPaid(c, h) BY <1>2 DEF FramePaid
<1>4. parcels' = SetState(parcels, c, f.req.items) /\ UNCHANGED payments
  BY <1>0 DEF Changed, Calm, ProductAdded, Ships, Charges, Empties, StoresCart, Grows,
              WritesProduct, WritesQuantity, Adders
<1>5. /\ DOMAIN parcels' = DOMAIN parcels \cup {c} /\ parcels'[c] = h.my.items
      /\ \A d \in DOMAIN parcels : d # c => parcels'[d] = parcels[d]
  <2> HIDE DEF f
  <2> QED BY <1>2, <1>4 DEF SetState
<1>6. /\ MoneySame(c) /\ PaidStays(c) /\ Has(parcels, c)'
      /\ \A d \in Clients \ {c} : MoneySame(d)
  BY <1>4, <1>5 DEF MoneySame, PaidStays, Has
<1>7. ParcelsPaid' BY <1>0, <1>3, <1>4, <1>5 DEF ParcelsPaid, OrderPaid, PaidIn, Has
<1>8. AmountsDue' BY <1>0, <1>4, AmountsNext DEF AmountsDue
<1>9. CASE Fails(f) /\ Over(c, FALSE, <<>>)
  <2>1. Broken => Broken' BY DEF Broken, Listening
  <2>2. PaidFrames(c)' /\ TopOK(c)' BY <1>0, <1>6, <1>9, <2>1, PaidFailed DEF Fails
  <2> QED BY <1>6, <1>7, <1>8, <2>2
<1>10. ASSUME NEW r, r \in Results, Back(c, r), call'[c][1] = Answered(h, r), call'[c] # <<>>
       PROVE  PaidFrames(c)' /\ TopOK(c)'
  <2>1. PICK g : g = Answered(h, r) OBVIOUS
  <2>2. g.ep = "place_order" /\ g.at = "shipped" BY <1>2, <1>10, <2>1, FrameAnswered
  <2>3. PaidFrames(c)' BY <1>0, <1>6, <1>10, PaidBack
  <2>4. TopPaid(c, g)' BY <1>6, <2>2 DEF TopPaid, Charged
  <2> QED BY <1>0, <1>10, <2>1, <2>3, <2>4, TopBecomes
<1> QED BY <1>0, <1>1, <1>6, <1>7, <1>8, <1>9, <1>10, Immediate

LEMMA OrdersStep == TypesOK /\ OrdersOK /\ [Next]_vars => OrdersOK'
<1> SUFFICES ASSUME TypesOK, OrdersOK, [Next]_vars PROVE OrdersOK' OBVIOUS
<1>0. /\ TypesOK' /\ CallsOK /\ ParcelsPaid /\ AmountsDue
      /\ \A c \in Clients : PaidFrames(c) /\ TopOK(c)
  BY NextCases, OrdersSplit DEF TypesOK
<1>1. ASSUME UNCHANGED <<payments, parcels>>
      PROVE  ParcelsPaid' /\ AmountsDue' /\ \A d : MoneySame(d)
  BY <1>0, <1>1, AmountsNext DEF ParcelsPaid, AmountsDue, Has, MoneySame, PaidStays
<1>2. ASSUME ParcelsPaid', AmountsDue', \A c \in Clients : PaidFrames(c)' /\ TopOK(c)'
      PROVE  OrdersOK'
  BY <1>2 DEF OrdersOK, ParcelsPaid, AmountsDue, PaidFrames, TopOK
<1>3. UNCHANGED up => (Broken => Broken') BY DEF Broken, Listening
<1>4. CASE UNCHANGED <<up, call, answer, state>>
  <2>1. ParcelsPaid' /\ AmountsDue' /\ \A d : MoneySame(d) BY <1>1, <1>4 DEF state
  <2>2. \A d \in Clients : PaidFrames(d)' /\ TopOK(d)' BY <1>0, <1>3, <1>4, <2>1, PaidOther
  <2> QED BY <1>2, <2>1, <2>2
<1>5. ASSUME UNCHANGED state, NEW lost \in SUBSET Clients, Stopping(lost) PROVE OrdersOK'
  <2>1. ParcelsPaid' /\ AmountsDue' /\ \A d : MoneySame(d) BY <1>1, <1>5 DEF state
  <2>2. \A d \in lost : PaidFrames(d)' /\ TopOK(d)'
    BY <1>0, <1>5, <2>1, PaidFailed DEF Stopping
  <2>3. \A d \in Clients \ lost : PaidFrames(d)' /\ TopOK(d)'
    BY <1>0, <1>5, <2>1, PaidOther DEF Stopping
  <2> QED BY <1>2, <2>1, <2>2, <2>3
<1>6. ASSUME NEW c \in Clients, Asked(c), UNCHANGED <<up, answer, state>> PROVE OrdersOK'
  <2>1. ParcelsPaid' /\ AmountsDue' /\ \A d : MoneySame(d) BY <1>1, <1>6 DEF state
  <2>2. PICK e \in Entries : \E q \in RequestOf[e] : Asks(c, e, q) BY <1>6 DEF Asked
  <2>3. PICK q \in RequestOf[e] : Asks(c, e, q) BY <2>2
  <2>4. PICK g : g = Frame(e, q) OBVIOUS
  <2>5. /\ answer[c].ep = "none" /\ call[c] = <<>> /\ call'[c] # <<>> /\ Len(call'[c]) = 1
        /\ call'[c][1] = g /\ g.at = "start" /\ \A d \in Clients : d # c => call'[d] = call[d]
    BY <1>0, <2>3, <2>4, AsksStep DEF Frame
  <2>6. ~Has(payments, c)' BY <1>0, <2>1, <2>5 DEF TopOK, MoneySame
  <2>7. TopPaid(c, g)' BY <2>5, <2>6 DEF TopPaid
  <2>8. TopOK(c)' BY <1>0, <2>5, <2>7, TopBecomes DEF TypesOK
  <2>9. PaidFrames(c)' BY <2>5 DEF PaidFrames, FramePaid
  <2>10. \A d \in Clients : d # c => PaidFrames(d)' /\ TopOK(d)'
    BY <1>0, <1>3, <1>6, <2>1, <2>5, PaidOther
  <2> QED BY <1>2, <2>1, <2>8, <2>9, <2>10
<1>7. ASSUME NEW c \in Clients, Handled(c), Others(c), Outcome(c), UNCHANGED up PROVE OrdersOK'
  <2>1. /\ PaidFrames(c)' /\ TopOK(c)' /\ ParcelsPaid' /\ AmountsDue'
        /\ \A d \in Clients \ {c} : MoneySame(d)
    <3>1. CASE call[c][1].ep \notin {"charge", "ship_order"}
      <4>1. UNCHANGED <<payments, parcels>> BY <1>7, <3>1, MoneyStays DEF Handled
      <4> QED BY <1>0, <1>1, <1>7, <3>1, <4>1, PaidQuietly
    <3> QED BY <1>0, <1>7, <3>1, PaidCharge, PaidShip
  <2>2. \A d \in Clients : d # c => PaidFrames(d)' /\ TopOK(d)'
    BY <1>0, <1>3, <1>7, <2>1, PaidOther DEF Others
  <2> QED BY <1>2, <2>1, <2>2
<1> QED BY <1>4, <1>5, <1>6, <1>7, NextCases

(* What is shipped has been paid, to the last fraction and in the user's   *)
(* currency; an order that fails has been charged only if a service that   *)
(* it passes after the charge has stopped (PlaceOrder in                   *)
(* src/app/internal/boutique/checkout.go, with the services it calls).     *)
THEOREM OrdersAlwaysPaid == Spec => []OrdersPaid
<1>1. TypesOK /\ OrdersOK => OrdersPaid
  BY DEF OrdersOK, OrdersPaid, AnswerPaid, PaidIn, Has
<1> QED BY AlwaysTyped, InitOrders, OrdersStep, <1>1, PTL DEF Spec

-----------------------------------------------------------------------------
(* What has been asked for stays asked for. *)

StoredFor(u) == UNION {ToSet(lists[u]) : lists \in {s \in Stored : u \in DOMAIN s}}
AsksFor(c, u, x) ==
  /\ x.user = u
  /\ \/ answer[c].ep = "add_to_cart" /\ answer[c].req = x
     \/ call[c] # <<>> /\ Bottom(c).ep = "add_to_cart" /\ Bottom(c).req = x

LEMMA OnlyBottom ==
  ASSUME CallsOK, NEW c \in Clients, call[c] # <<>>, NEW i \in 1 .. Len(call[c]),
         call[c][i].ep \in Entries
  PROVE  call[c][i] = Bottom(c)
<1>1. \A j \in 1 .. Len(call[c]) - 1 : call[c][j].ep \notin Entries
  BY StackOf, SiteNames DEF Links
<1>2. Len(call[c]) \in Nat BY StackOf
<1>3. i = Len(call[c]) BY <1>1, <1>2
<1> QED BY <1>3 DEF Bottom

LEMMA AskedNow ==
  ASSUME NEW u, NEW x
  PROVE  x \in AskedFor(u) <=>
           \/ \E c \in Clients : answer[c].ep = "add_to_cart" /\ answer[c].req.user = u /\ x = answer[c].req
           \/ \E c \in Clients : \E f \in Handlers(c) : f.ep = "add_to_cart" /\ f.req.user = u /\ x = f.req
           \/ x \in StoredFor(u)
<1> DEFINE asks(f) == f.ep = "add_to_cart" /\ f.req.user = u
           told == {answer[c].req : c \in {d \in Clients : asks(answer[d])}}
           asked == UNION {{f.req : f \in {g \in Handlers(c) : asks(g)}} : c \in Clients}
<1>1. AskedFor(u) = (told \cup asked) \cup StoredFor(u) BY DEF AskedFor, StoredFor
<1>2. x \in told <=> \E c \in Clients : asks(answer[c]) /\ x = answer[c].req OBVIOUS
<1>3. x \in asked <=> \E c \in Clients : \E f \in Handlers(c) : asks(f) /\ x = f.req OBVIOUS
<1> HIDE DEF told, asked
<1> QED BY <1>1, <1>2, <1>3

LEMMA AskedNext ==
  ASSUME NEW u, NEW x
  PROVE  x \in AskedFor(u)' <=>
           \/ \E c \in Clients : answer'[c].ep = "add_to_cart" /\ answer'[c].req.user = u /\ x = answer'[c].req
           \/ \E c \in Clients : \E f \in Handlers(c)' : f.ep = "add_to_cart" /\ f.req.user = u /\ x = f.req
           \/ x \in StoredFor(u)
<1> DEFINE asks(f) == f.ep = "add_to_cart" /\ f.req.user = u
           told == {answer'[c].req : c \in {d \in Clients : asks(answer'[d])}}
           asked == UNION {{f.req : f \in {g \in Handlers(c)' : asks(g)}} : c \in Clients}
<1>1. AskedFor(u)' = (told \cup asked) \cup StoredFor(u) BY DEF AskedFor, StoredFor
<1>2. x \in told <=> \E c \in Clients : asks(answer'[c]) /\ x = answer'[c].req OBVIOUS
<1>3. x \in asked <=> \E c \in Clients : \E f \in Handlers(c)' : asks(f) /\ x = f.req OBVIOUS
<1> HIDE DEF told, asked
<1> QED BY <1>1, <1>2, <1>3

LEMMA AskedParts ==
  ASSUME CallsOK, NEW u, NEW x \in AskedFor(u)
  PROVE  x \in StoredFor(u) \/ \E c \in Clients : AsksFor(c, u, x)
<1>1. ASSUME NEW c \in Clients, NEW f \in Handlers(c), f.ep = "add_to_cart", f.req.user = u
      PROVE  AsksFor(c, u, f.req)
  <2>1. call[c] # <<>> BY <1>1 DEF Handlers
  <2>2. PICK i \in 1 .. Len(call[c]) : f = call[c][i] BY <2>1, StackOf DEF Handlers
  <2>3. f = Bottom(c) BY <1>1, <2>1, <2>2, OnlyBottom, Names
  <2> QED BY <1>1, <2>1, <2>3 DEF AsksFor
<1> QED BY <1>1, AskedNow DEF AsksFor

LEMMA AskedStays ==
  ASSUME CallsOK', NEW u, NEW x, x \in StoredFor(u) \/ \E c \in Clients : AsksFor(c, u, x)'
  PROVE  x \in AskedFor(u)'
<1>1. ASSUME NEW c \in Clients, call'[c] # <<>>, Bottom(c)'.ep = "add_to_cart", Bottom(c)'.req = x, x.user = u
      PROVE  x \in AskedFor(u)'
  <2>1. call'[c] \in Seq(Frames) BY DEF CallsOK, Calls, Stacks
  <2>2. Len(call'[c]) \in DOMAIN call'[c] BY <1>1, <2>1
  <2>3. Bottom(c)' \in Handlers(c)' BY <2>2 DEF Bottom, Handlers
  <2> QED BY <1>1, <2>3, AskedNext
<1>2. ASSUME NEW c \in Clients, AsksFor(c, u, x)' PROVE x \in AskedFor(u)'
  <2>1. CASE answer'[c].ep = "add_to_cart" /\ answer'[c].req = x /\ x.user = u BY <2>1, AskedNext
  <2>2. CASE call'[c] # <<>> /\ Bottom(c)'.ep = "add_to_cart" /\ Bottom(c)'.req = x /\ x.user = u
    BY <1>1, <2>2
  <2> QED BY <1>2, <2>1, <2>2 DEF AsksFor
<1> QED BY <1>2, AskedNext

LEMMA BottomStays ==
  ASSUME CallsOK, NEW c \in Clients, call[c] # <<>>, Outcome(c), CallsOK', call'[c] # <<>>
  PROVE  Bottom(c)'.ep = Bottom(c).ep /\ Bottom(c)'.req = Bottom(c).req
<1> DEFINE f == call[c][1]
           n == Len(call[c])
<1>0. f \in Frames /\ f.ep \in Eps /\ n \in Nat /\ n >= 1 BY StackOf, FrameParts
<1>1. ASSUME NEW place \in PlaceNames, NEW my \in LocalsAt(f.ep, place), NEW g, g = Gone(f, place, my)
      PROVE  g.ep = f.ep /\ g.req = f.req
  <2> HIDE DEF f
  <2> QED BY <1>0, <1>1, GoneParts
<1>2. ASSUME NEW place \in PlaceNames, NEW my \in LocalsAt(f.ep, place), Went(c, place, my)
      PROVE  Bottom(c)'.ep = Bottom(c).ep /\ Bottom(c)'.req = Bottom(c).req
  <2>1. Len(call'[c]) = n /\ (n # 1 => n \in 2 .. n)
    <3>1. n # 1 => n \in 2 .. n
      <4> HIDE DEF n
      <4> QED BY <1>0
    <3> QED BY <1>2, <3>1 DEF Went
  <2>2. CASE n = 1 BY <1>1, <1>2, <2>1, <2>2 DEF Went, Bottom
  <2>3. CASE n # 1 BY <1>2, <2>1, <2>3 DEF Went, Bottom
  <2> QED BY <2>2, <2>3
<1>3. ASSUME NEW place \in PlaceNames, NEW my \in LocalsAt(f.ep, place), NEW e, NEW q,
             Deeper(c, e, q, place, my)
      PROVE  Bottom(c)'.ep = Bottom(c).ep /\ Bottom(c)'.req = Bottom(c).req
  <2>1. Len(call'[c]) = n + 1 /\ (n # 1 => n + 1 \in 3 .. n + 1 /\ n + 1 - 1 = n)
    <3>1. n # 1 => n + 1 \in 3 .. n + 1 /\ n + 1 - 1 = n
      <4> HIDE DEF n
      <4> QED BY <1>0
    <3> QED BY <1>3, <3>1 DEF Deeper
  <2>2. CASE n = 1
    <3>1. Bottom(c)' = Gone(f, place, my) BY <1>3, <2>1, <2>2 DEF Deeper, Bottom
    <3> QED BY <1>1, <2>2, <3>1 DEF Bottom
  <2>3. CASE n # 1 BY <1>3, <2>1, <2>3 DEF Deeper, Bottom
  <2> QED BY <2>2, <2>3
<1>4. ASSUME NEW r \in ReplyTo(f.ep), Back(c, r)
      PROVE  Bottom(c)'.ep = Bottom(c).ep /\ Bottom(c)'.req = Bottom(c).req
  <2>1. /\ n > 1 /\ Len(call'[c]) = n - 1
        /\ n # 2 => n - 1 \in 2 .. n - 1 /\ n - 1 + 1 = n
    <3>1. n > 1 /\ Len(call'[c]) = n - 1 BY <1>4 DEF Back
    <3>2. n > 1 /\ n # 2 => n - 1 \in 2 .. n - 1 /\ n - 1 + 1 = n
      <4> HIDE DEF n
      <4> QED BY <1>0
    <3> QED BY <3>1, <3>2
  <2>2. CASE n = 2
    <3>1. Bottom(c)' = Answered(call[c][2], r) BY <1>4, <2>1, <2>2 DEF Back, Bottom
    <3>2. call[c][2] \in Frames
      <4>1. Len(call[c]) # 1 BY <2>2
      <4> QED BY <4>1, SecondOf
    <3>3. r \in Results BY <1>0 DEF Results
    <3> QED BY <2>2, <3>1, <3>2, <3>3, FrameAnswered DEF Bottom
  <2>3. CASE n # 2 BY <1>4, <2>1, <2>3 DEF Back, Bottom
  <2> QED BY <2>2, <2>3
<1>5. \A ok, r : ~Over(c, ok, r) BY DEF Over
<1> QED BY <1>2, <1>3, <1>4, <1>5 DEF Outcome

LEMMA WantedGrows ==
  ASSUME TypesOK, [Next]_vars
  PROVE  \A u \in Users : wanted[u] \subseteq wanted'[u]
<1>0. TypesOK' /\ CallsOK /\ CallsOK' BY NextCases DEF TypesOK
<1> SUFFICES ASSUME NEW u \in Users, NEW x \in AskedFor(u) PROVE x \in AskedFor(u)'
  BY DEF wanted
<1>1. CASE x \in StoredFor(u) BY <1>0, <1>1, AskedStays
<1>2. ASSUME NEW c \in Clients, AsksFor(c, u, x) PROVE x \in AskedFor(u)'
  <2>1. AsksFor(c, u, x)' => x \in AskedFor(u)' BY <1>0, AskedStays
  <2>2. call'[c] = call[c] /\ answer'[c] = answer[c] => AsksFor(c, u, x)'
    BY <1>2 DEF AsksFor, Bottom
  <2>3. \A r : call[c] # <<>> /\ Over(c, FALSE, r) => AsksFor(c, u, x)'
    BY <1>0, <1>2, StackOf DEF AsksFor, Over
  <2>4. CASE UNCHANGED <<up, call, answer, state>> BY <2>1, <2>2, <2>4
  <2>5. ASSUME NEW lost \in SUBSET Clients, Stopping(lost) PROVE x \in AskedFor(u)'
    BY <2>1, <2>2, <2>3, <2>5 DEF Stopping
  <2>6. ASSUME NEW d \in Clients, Asked(d), UNCHANGED <<up, answer, state>> PROVE x \in AskedFor(u)'
    <3>1. PICK e \in Entries : \E q \in RequestOf[e] : Asks(d, e, q) BY <2>6 DEF Asked
    <3>2. PICK q \in RequestOf[e] : Asks(d, e, q) BY <3>1
    <3>3. call[d] = <<>> /\ answer[d].ep = "none" /\ \A b \in Clients : b # d => call'[b] = call[b]
      BY <1>0, <3>2, AsksStep
    <3>4. c # d BY <1>2, <3>3 DEF AsksFor
    <3> QED BY <2>1, <2>2, <2>6, <3>3, <3>4
  <2>7. ASSUME NEW d \in Clients, Handled(d), Others(d), Outcome(d) PROVE x \in AskedFor(u)'
    <3>1. CASE c # d BY <2>1, <2>2, <2>7, <3>1 DEF Others
    <3>2. CASE c = d
      <4>1. call[c] # <<>> BY <2>7, <3>2 DEF Handled
      <4>2. answer[c].ep = "none" BY <1>0, <4>1, StackOf
      <4>3. /\ Bottom(c).ep = "add_to_cart" /\ Bottom(c).req = x /\ x.user = u
        BY <1>2, <4>2 DEF AsksFor
      <4>4. CASE call'[c] # <<>>
        <5>1. Bottom(c)'.ep = Bottom(c).ep /\ Bottom(c)'.req = Bottom(c).req
          BY <1>0, <2>7, <3>2, <4>1, <4>4, BottomStays
        <5> QED BY <2>1, <4>3, <4>4, <5>1 DEF AsksFor
      <4>5. CASE call'[c] = <<>>
        <5>1. \E ok, r : Over(c, ok, r)
          <6>1. Len(call[c]) \in Nat /\ Len(call[c]) >= 1 /\ Len(<<>>) = 0 BY <1>0, <4>1, StackOf
          <6>2. \A r : ~Back(c, r)
            BY <4>5, <6>1 DEF Back
          <6>3. \A place, my : ~Went(c, place, my) BY <4>5, <6>1 DEF Went
          <6>4. \A e, q, place, my : ~Deeper(c, e, q, place, my) BY <4>5, <6>1 DEF Deeper
          <6> QED BY <2>7, <3>2, <6>2, <6>3, <6>4 DEF Outcome
        <5> QED BY <2>1, <4>3, <5>1 DEF AsksFor, Over
      <4> QED BY <4>4, <4>5
    <3> QED BY <3>1, <3>2
  <2> QED BY <2>4, <2>5, <2>6, <2>7, NextCases
<1> QED BY <1>0, <1>1, <1>2, AskedParts

\* Whoever adds an item was asked to, for that user.
LEMMA AdderAsked ==
  ASSUME CallsOK, NEW c \in Clients, call[c] # <<>>, call[c][1].ep = "add_item"
  PROVE  call[c][1].req.user \in Users /\ call[c][1].req \in wanted[call[c][1].req.user]
<1> DEFINE f == call[c][1]
           h == call[c][2]
<1>1. f.ep \notin Entries BY Names
<1>2. Len(call[c]) # 1 BY <1>1, SecondIfCallee
<1>3. /\ h \in Frames /\ <<h.ep, h.at, f.ep>> \in Sites /\ f.req = h.req
  BY <1>2, SecondOf DEF Bound
<1>4. h.ep = "add_to_cart" BY <1>3, WaitsFor
<1>5. h \in Handlers(c)
  <2>1. PICK s \in Seq(Frames) : s = call[c] BY StackOf
  <2>2. Len(s) > 1 /\ Len(s) \in Nat BY <1>2, <2>1, SecondOf, StackOf
  <2>3. 2 \in DOMAIN s BY <2>2
  <2> QED BY <2>1, <2>3 DEF Handlers
<1>6. f.req.user \in Users BY AddItemParts
<1>7. f.req \in AskedFor(f.req.user) BY <1>3, <1>4, <1>5, AskedNow
<1> QED BY <1>6, <1>7 DEF wanted

-----------------------------------------------------------------------------
(* Each array keeps its owner. *)

Evolves(owner, next, A, B, W, X) ==
  /\ \A u \in Users : W[u] \subseteq X[u]
  /\ \A k \in 1 .. Len(A) :
       /\ next[k] = owner[k]
       /\ \A i \in 1 .. Len(A[k].items) :
            \/ B[k].items[i].quantity = A[k].items[i].quantity
            \/ \E a \in X[owner[k]] : a.quantity = B[k].items[i].quantity

LEMMA StillBelongs ==
  ASSUME NEW A \in Seq(Array), NEW B, NEW W, NEW X, NEW owner \in [1 .. Len(A) -> Users], NEW next,
         Evolves(owner, next, A, B, W, X), NEW s \in Slice, NEW u, Fits(s, A),
         Belongs(owner, A, W, s, u)
  PROVE  Belongs(next, B, X, s, u)
<1> SUFFICES ASSUME s.len > 0 PROVE next[s.array] = u /\ Known(X[u], B[s.array].items, s.len)
  BY DEF Belongs
<1> DEFINE k == s.array
<1>1. k \in 1 .. Len(A) /\ s.len <= Len(A[k].items) /\ s.len \in Nat BY DEF Fits, Slice
<1>2. owner[k] = u /\ Known(W[u], A[k].items, s.len) BY DEF Belongs
<1>3. next[k] = u /\ u \in Users /\ W[u] \subseteq X[u] BY <1>1, <1>2 DEF Evolves
<1>4. ASSUME NEW i \in 1 .. s.len PROVE \E a \in X[u] : a.quantity = B[k].items[i].quantity
  <2>1. Len(A[k].items) \in Nat BY <1>1, ArrayParts
  <2>2. i \in 1 .. Len(A[k].items) BY <1>1, <2>1
  <2>3. \E a \in X[u] : a.quantity = A[k].items[i].quantity BY <1>2, <1>3 DEF Known
  <2> QED BY <1>1, <1>2, <2>2, <2>3 DEF Evolves
<1> QED BY <1>3, <1>4 DEF Known

\* One cell is written, with a product that was asked for.
LEMMA CellOwned ==
  ASSUME arrays \in Seq(Array), NEW k \in 1 .. Len(arrays), NEW n \in Nat, NEW item, CellWritten(k, n, item),
         NEW W, NEW X, \A u \in Users : W[u] \subseteq X[u], NEW owner, Owned(owner, arrays, W),
         \E a \in X[owner[k]] : a.product = item.product,
         \/ n \notin 1 .. Len(arrays[k].items)
         \/ item.quantity = arrays[k].items[n].quantity
         \/ \E a \in X[owner[k]] : a.quantity = item.quantity
  PROVE  Owned(owner, arrays', X) /\ Evolves(owner, owner, arrays, arrays', W, X)
<1>1. /\ Len(arrays') = Len(arrays) /\ owner \in [1 .. Len(arrays) -> Users]
      /\ \A j \in 1 .. Len(arrays) : KnownProducts(W[owner[j]], arrays[j].items)
      /\ \A j \in 1 .. Len(arrays) : j # k => arrays'[j] = arrays[j]
      /\ arrays'[k].items[n] = item
      /\ \A i \in 1 .. Len(arrays'[k].items) : i # n =>
           i \in 1 .. Len(arrays[k].items) /\ arrays'[k].items[i] = arrays[k].items[i]
  BY DEF Owned, CellWritten
<1>2. Len(arrays'[k].items) >= Len(arrays[k].items) /\ Len(arrays'[k].items) \in Nat /\ Len(arrays[k].items) \in Nat
  <2>1. arrays' \in Seq(Array) BY DEF CellWritten
  <2>2. PICK B : B = arrays' OBVIOUS
  <2>3. Len(B[k].items) \in Nat BY <1>1, <2>1, <2>2, ArrayParts
  <2> QED BY <2>2, <2>3, ArrayParts DEF CellWritten
<1>3. \A j \in 1 .. Len(arrays) : KnownProducts(X[owner[j]], arrays[j].items)
  BY <1>1 DEF KnownProducts
<1>4. KnownProducts(X[owner[k]], arrays'[k].items)
  <2>1. PICK s : s = arrays[k].items OBVIOUS
  <2>2. PICK t : t = arrays'[k].items OBVIOUS
  <2>3. KnownProducts(X[owner[k]], s) BY <1>3, <2>1
  <2>4. ASSUME NEW i \in 1 .. Len(t) PROVE \E a \in X[owner[k]] : a.product = t[i].product
    <3>1. CASE i = n
      <4>1. t[i] = item BY <1>1, <2>2, <3>1
      <4> QED BY <4>1
    <3>2. CASE i # n
      <4>1. i \in 1 .. Len(s) /\ t[i] = s[i] BY <1>1, <2>1, <2>2, <3>2
      <4> QED BY <2>3, <4>1 DEF KnownProducts
    <3> QED BY <3>1, <3>2
  <2> QED BY <2>2, <2>4 DEF KnownProducts
<1>5. Owned(owner, arrays', X)
  <2>1. \A j \in 1 .. Len(arrays') : KnownProducts(X[owner[j]], arrays'[j].items)
    BY <1>1, <1>3, <1>4
  <2> QED BY <1>1, <2>1 DEF Owned
<1>6. \A i \in 1 .. Len(arrays[k].items) :
        \/ arrays'[k].items[i].quantity = arrays[k].items[i].quantity
        \/ \E a \in X[owner[k]] : a.quantity = arrays'[k].items[i].quantity
  BY <1>1, <1>2, SMTT(30)
<1> QED BY <1>1, <1>5, <1>6 DEF Evolves

LEMMA ArraysOwned ==
  ASSUME TypesOK, NEW c \in Clients, Handled(c), NEW owner, OwnedBy(owner),
         NEW X, \A u \in Users : wanted[u] \subseteq X[u]
  PROVE  \E next : /\ Owned(next, arrays', X) /\ Evolves(owner, next, arrays, arrays', wanted, X)
                   /\ Grows(call[c][1]) => next[Len(arrays) + 1] = call[c][1].req.user
<1> DEFINE f == call[c][1]
           u == f.req.user
           k == f.my.array
           n == f.my.len + 1
<1>0. /\ CallsOK /\ StatesOK /\ FitsOK /\ call[c] # <<>> /\ Changed(c) /\ f \in Frames
      /\ arrays \in Seq(Array) /\ Len(arrays) \in Nat
      /\ Owned(owner, arrays, wanted) /\ owner \in [1 .. Len(arrays) -> Users]
  BY StackOf, LenProperties DEF TypesOK, Handled, StatesOK, OwnedBy, Owned
<1>1. CASE UNCHANGED arrays /\ ~Grows(f)
  <2>1. Owned(owner, arrays', X) BY <1>0, <1>1 DEF Owned, KnownProducts
  <2>2. Evolves(owner, owner, arrays, arrays', wanted, X) BY <1>0, <1>1 DEF Evolves
  <2> QED BY <1>1, <2>1, <2>2
<1>2. ASSUME f.ep = "add_item"
      PROVE  /\ u \in Users /\ f.req \in X[u]
             /\ HoldsSlice(f.ep, f.at) => /\ Belongs(owner, arrays, wanted, f.my, u)
                                          /\ f.my \in Slice /\ Fits(f.my, arrays)
  <2>1. u \in Users /\ f.req \in wanted[u] BY <1>0, <1>2, AdderAsked
  <2>2. HoldsSlice(f.ep, f.at) => Belongs(owner, arrays, wanted, f.my, u) BY <1>0 DEF OwnedBy
  <2> QED BY <1>0, <2>1, <2>2, Holder
<1>3. CASE Grows(f)
  <2> DEFINE m == Len(arrays) + 1
             next == [j \in 1 .. m |-> IF j = m THEN u ELSE owner[j]]
  <2>1. /\ Len(arrays') = m /\ \A i \in 1 .. Len(arrays) : arrays'[i] = arrays[i]
        /\ arrays'[m].items = Append(Items(f.my), ItemOf(f)) /\ f.my.len \in Nat
    BY <1>0, <1>3, GrowsAway
  <2>2. f.ep = "add_item" /\ HoldsSlice(f.ep, f.at) BY <1>3 DEF Grows, HoldsSlice
  <2>3. /\ u \in Users /\ f.req \in X[u] /\ Belongs(owner, arrays, wanted, f.my, u)
        /\ f.my \in Slice /\ Fits(f.my, arrays)
    BY <1>2, <2>2
  <2>4. next \in [1 .. m -> Users] /\ next[m] = u /\ \A j \in 1 .. Len(arrays) : next[j] = owner[j]
    BY <1>0, <2>3
  <2>5. KnownProducts(X[u], arrays'[m].items)
    <3>1. /\ Items(f.my) \in Seq(CartItem) /\ Len(Items(f.my)) = f.my.len
          /\ \A i \in 1 .. f.my.len : Items(f.my)[i] = arrays[k].items[i]
      <4> HIDE DEF f
      <4> QED BY <1>0, <2>3, ItemsParts
    <3>2. ItemOf(f) \in CartItem BY <1>0, <2>2, AddItemParts
    <3>3. /\ Len(arrays'[m].items) = f.my.len + 1 /\ arrays'[m].items[f.my.len + 1] = ItemOf(f)
          /\ \A i \in 1 .. f.my.len : arrays'[m].items[i] = arrays[k].items[i]
      <4> DEFINE s == Items(f.my)  item == ItemOf(f)
      <4> HIDE DEF s, item
      <4>1. s \in Seq(CartItem) /\ item \in CartItem /\ Len(s) = f.my.len BY <3>1, <3>2 DEF s, item
      <4>a. /\ Len(Append(s, item)) = Len(s) + 1 /\ Append(s, item)[Len(s) + 1] = item
            /\ \A i \in 1 .. Len(s) : Append(s, item)[i] = s[i]
        BY <4>1, AddedItem, Zenon
      <4>2. /\ Len(Append(s, item)) = f.my.len + 1 /\ Append(s, item)[f.my.len + 1] = item
            /\ \A i \in 1 .. f.my.len : Append(s, item)[i] = s[i]
        BY <4>1, <4>a, Zenon
      <4> QED BY <2>1, <3>1, <4>2, Zenon DEF s, item
    <3>4. ItemOf(f).product = f.req.product BY Zenon DEF ItemOf
    <3>5. ASSUME NEW i \in 1 .. f.my.len PROVE \E a \in X[u] : a.product = arrays[k].items[i].product
      <4>1. f.my.len > 0 /\ k \in 1 .. Len(arrays) /\ f.my.len <= Len(arrays[k].items)
        BY <2>1, <2>3 DEF Fits
      <4>2. owner[k] = u BY <2>3, <4>1 DEF Belongs
      <4>3. Len(arrays[k].items) \in Nat BY <1>0, <4>1, ArrayParts
      <4>4. i \in 1 .. Len(arrays[k].items)
        <5>1. PICK w \in Nat : w = Len(arrays[k].items) BY <4>3
        <5>2. PICK l \in Nat : l = f.my.len BY <2>1
        <5>3. l <= w BY <4>1, <5>1, <5>2
        <5>4. i \in 1 .. l BY <5>2
        <5>5. i \in 1 .. w BY <5>3, <5>4
        <5> QED BY <5>1, <5>5, Zenon
      <4>5. KnownProducts(wanted[u], arrays[k].items) BY <1>0, <4>1, <4>2 DEF Owned
      <4> QED BY <2>3, <4>4, <4>5 DEF KnownProducts
    <3>6. ASSUME NEW i \in 1 .. Len(arrays'[m].items)
          PROVE  \E a \in X[u] : a.product = arrays'[m].items[i].product
      <4>1. i = f.my.len + 1 \/ i \in 1 .. f.my.len BY <2>1, <3>3
      <4> QED BY <2>3, <3>3, <3>4, <3>5, <4>1, Zenon
    <3> QED BY <3>6 DEF KnownProducts
  <2> HIDE DEF next
  <2>6. \A j \in 1 .. Len(arrays) : KnownProducts(X[owner[j]], arrays[j].items)
    BY <1>0 DEF Owned, KnownProducts
  <2>7. ASSUME NEW j \in 1 .. m PROVE KnownProducts(X[next[j]], arrays'[j].items)
    <3>1. j = m \/ j \in 1 .. Len(arrays) BY <1>0
    <3> QED BY <2>1, <2>4, <2>5, <2>6, <3>1
  <2>8. Owned(next, arrays', X) BY <2>1, <2>4, <2>7 DEF Owned
  <2>9. Evolves(owner, next, arrays, arrays', wanted, X) BY <2>1, <2>4, Zenon DEF Evolves
  <2> QED BY <2>4, <2>8, <2>9
<1>4. CASE WritesProduct(f)
  <2> DEFINE item == [product |-> f.req.product, quantity |-> Old(f)]
  <2>1. /\ CellWritten(k, n, item) /\ k \in 1 .. Len(arrays) /\ f.my.len \in Nat /\ f.my.len > 0
        /\ f.my.len < Len(arrays[k].items) => Old(f) = arrays[k].items[n].quantity
    BY <1>0, <1>4, ProductCell
  <2>2. f.ep = "add_item" /\ HoldsSlice(f.ep, f.at) /\ ~Grows(f)
    BY <1>4, Zenon DEF WritesProduct, HoldsSlice, Grows
  <2>3. u \in Users /\ f.req \in X[u] /\ owner[k] = u BY <1>2, <2>1, <2>2, Zenon DEF Belongs
  <2>4. n \notin 1 .. Len(arrays[k].items) \/ item.quantity = arrays[k].items[n].quantity
    <3>1. Len(arrays[k].items) \in Nat BY <1>0, <2>1, ArrayParts
    <3> QED BY <2>1, <3>1, Positions, Zenon
  <2>5. \E a \in X[owner[k]] : a.product = item.product BY <2>3
  <2> HIDE DEF item, k, n
  <2>6. n \in Nat BY <2>1 DEF n
  <2>7. Owned(owner, arrays', X) /\ Evolves(owner, owner, arrays, arrays', wanted, X)
    BY <1>0, <2>1, <2>4, <2>5, <2>6, CellOwned
  <2> QED BY <2>2, <2>7, Zenon
<1>5. CASE WritesQuantity(f)
  <2> DEFINE item == Half(f)
  <2>1. /\ CellWritten(k, n, item) /\ k \in 1 .. Len(arrays) /\ f.my.len \in Nat /\ f.my.len > 0
        /\ f.my.len < Len(arrays[k].items)
    BY <1>0, <1>5, QuantityCell
  <2>2. f.ep = "add_item" /\ HoldsSlice(f.ep, f.at) /\ ~Grows(f)
    BY <1>5 DEF WritesQuantity, HoldsSlice, Grows
  <2>3. u \in Users /\ f.req \in X[u] /\ owner[k] = u BY <1>2, <2>1, <2>2 DEF Belongs
  <2>4. \E a \in X[owner[k]] : a.quantity = item.quantity BY <2>3 DEF Half
  <2>5. \E a \in X[owner[k]] : a.product = item.product
    <3>1. Len(arrays[k].items) \in Nat BY <1>0, <2>1, ArrayParts
    <3>2. n \in 1 .. Len(arrays[k].items)
      <4>1. PICK m \in Nat : m = Len(arrays[k].items) BY <3>1
      <4>2. PICK l \in Nat : l = f.my.len BY <2>1
      <4>3. l < m BY <2>1, <4>1, <4>2
      <4>4. l + 1 \in 1 .. m BY <4>3
      <4> QED BY <4>1, <4>2, <4>4
    <3>3. KnownProducts(wanted[u], arrays[k].items) BY <1>0, <2>1, <2>3 DEF Owned
    <3>4. item.product = arrays[k].items[n].product BY DEF Half
    <3> HIDE DEF item, k, n
    <3> QED BY <2>3, <3>2, <3>3, <3>4 DEF KnownProducts
  <2> HIDE DEF item, k, n
  <2>6. n \in Nat BY <2>1 DEF n
  <2>7. Owned(owner, arrays', X) /\ Evolves(owner, owner, arrays, arrays', wanted, X)
    BY <1>0, <2>1, <2>4, <2>5, <2>6, CellOwned
  <2> QED BY <2>2, <2>7
<1>6. CASE f.ep = "add_item"
  <2>1. f.at = "start" => ~Grows(f) BY DEF Grows
  <2>2. StoresCart(f, Held(c, u)) => UNCHANGED arrays /\ ~Grows(f) BY DEF StoresCart, Grows
  <2> QED BY <1>0, <1>1, <1>3, <1>4, <1>5, <1>6, <2>1, <2>2, AddsBy DEF cartVars
<1>7. CASE f.ep = "empty_cart" BY <1>0, <1>1, <1>7, EmptiesBy DEF Empties, Grows
<1>8. CASE f.ep \notin {"add_item", "empty_cart"} BY <1>0, <1>1, <1>8, CartsStay DEF cartVars, Grows
<1> QED BY <1>6, <1>7, <1>8

LEMMA LoadedBelongs ==
  ASSUME NEW owner, OwnedBy(owner), NEW u
  PROVE  Belongs(owner, arrays, wanted, _localGetCart(u), u)
<1>1. Belongs(owner, arrays, wanted, Empty, u) BY DEF Belongs, Empty
<1> QED BY <1>1 DEF OwnedBy, _localGetCart, GetState, Has

\* The slice that the innermost handler of c has after a step.
LEMMA TopBelongs ==
  ASSUME TypesOK, TypesOK', NEW c \in Clients, Handled(c), Outcome(c), NEW owner, OwnedBy(owner),
         NEW X, NEW next, Owned(next, arrays', X), Evolves(owner, next, arrays, arrays', wanted, X),
         Grows(call[c][1]) => next[Len(arrays) + 1] = call[c][1].req.user,
         call'[c] # <<>>, NEW g, g = call'[c][1], HoldsSlice(g.ep, g.at)
  PROVE  Belongs(next, arrays', X, g.my, g.req.user)
<1> DEFINE f == call[c][1]
           u == f.req.user
<1>0. /\ CallsOK /\ StatesOK /\ FitsOK /\ CallsOK' /\ call[c] # <<>> /\ Changed(c) /\ f \in Frames
      /\ arrays \in Seq(Array) /\ Len(arrays) \in Nat /\ owner \in [1 .. Len(arrays) -> Users]
  BY StackOf, LenProperties DEF TypesOK, Handled, StatesOK, OwnedBy, Owned
<1>1. ASSUME NEW s \in Slice, Fits(s, arrays), Belongs(owner, arrays, wanted, s, u)
      PROVE  Belongs(next, arrays', X, s, u)
  <2>1. PICK B : B = arrays' OBVIOUS
  <2>2. PICK A : A = arrays OBVIOUS
  <2>3. PICK W : W = wanted OBVIOUS
  <2>4. /\ A \in Seq(Array) /\ owner \in [1 .. Len(A) -> Users] /\ Evolves(owner, next, A, B, W, X)
        /\ Fits(s, A) /\ Belongs(owner, A, W, s, u)
    BY <1>0, <1>1, <2>1, <2>2, <2>3
  <2> HIDE DEF f
  <2>5. Belongs(next, B, X, s, u) BY <2>4, StillBelongs
  <2> QED BY <2>1, <2>5
<1>2. Belongs(next, arrays', X, _localGetCart(u), u)
  <2>1. _localGetCart(u) \in Slice /\ Fits(_localGetCart(u), arrays) BY <1>0, CartLoaded
  <2>2. Belongs(owner, arrays, wanted, _localGetCart(u), u) BY LoadedBelongs
  <2> QED BY <1>1, <2>1, <2>2
<1>3. HoldsSlice(f.ep, f.at) => /\ Belongs(owner, arrays, wanted, f.my, u) /\ f.my \in Slice
                                /\ Fits(f.my, arrays) /\ f.my.len \in Nat
                                /\ Belongs(next, arrays', X, f.my, u)
  <2>1. HoldsSlice(f.ep, f.at) => /\ Belongs(owner, arrays, wanted, f.my, u)
                                  /\ f.my \in Slice /\ Fits(f.my, arrays) /\ f.my.len \in Nat
    BY <1>0, Holder DEF OwnedBy
  <2> HIDE DEF f
  <2> QED BY <1>1, <2>1
<1>4. PICK place, my : GoesTo(f, place, my) /\ g.ep = f.ep /\ g.req = f.req /\ g.at = place /\ g.my = my
  <2>1. g.at # "start" /\ g.ep \in {"add_item", "ro_get_cart"} BY DEF HoldsSlice
  <2> HIDE DEF f
  <2>2. f = call[c][1] BY DEF f
  <2> QED BY <1>0, <2>1, <2>2, NewTop
<1>5. CASE f.ep = "ro_get_cart"
  <2>1. my = _localGetCart(u) BY <1>4, <1>5 DEF GoesTo
  <2> HIDE DEF f
  <2> QED BY <1>2, <1>4, <2>1 DEF u
<1>6. ASSUME f.ep = "add_item", HoldsSlice(f.ep, f.at), my.len = f.my.len + 1, f.my.len \in Nat,
             my.array \in Nat, next[my.array] = u,
             \A i \in 1 .. f.my.len : \E a \in X[u] : a.quantity = arrays'[my.array].items[i].quantity,
             arrays'[my.array].items[f.my.len + 1].quantity = f.req.quantity
      PROVE  Belongs(next, arrays', X, g.my, g.req.user)
  <2>1. f.req \in X[u]
    <3>1. u \in Users /\ f.req \in wanted[u] BY <1>0, <1>6, AdderAsked
    <3> QED BY <3>1, ZenonT(30) DEF Evolves
  <2>2. \A i \in 1 .. f.my.len + 1 : i \in 1 .. f.my.len \/ i = f.my.len + 1 BY <1>6, Positions, Zenon
  <2>3. Known(X[u], arrays'[my.array].items, f.my.len + 1) BY <1>6, <2>1, <2>2, ZenonT(30) DEF Known
  <2>4. Belongs(next, arrays', X, my, u) BY <1>6, <2>3 DEF Belongs
  <2> HIDE DEF f
  <2> QED BY <1>4, <2>4 DEF u
<1>7. CASE f.ep = "add_item"
  <2>1. CASE f.at = "start"
    <3>1. my = _localGetCart(u) BY <1>4, <1>7, <2>1 DEF GoesTo
    <3> HIDE DEF f
    <3> QED BY <1>2, <1>4, <3>1 DEF u
  <2>2. CASE f.at = "loaded" /\ Room(f.my)
    <3>1. my = f.my /\ HoldsSlice(f.ep, f.at) BY <1>4, <1>7, <2>2, ZenonT(30) DEF GoesTo, HoldsSlice
    <3> HIDE DEF f
    <3> QED BY <1>3, <1>4, <3>1 DEF u
  <2>3. CASE f.at = "loaded" /\ ~Room(f.my)
    <3> DEFINE m == Len(arrays) + 1
    <3>1. /\ HoldsSlice(f.ep, f.at) /\ my = [array |-> m, len |-> f.my.len + 1]
      BY <1>4, <1>7, <2>3 DEF GoesTo, HoldsSlice
    <3>2. Grows(f) BY <1>0, <1>7, <2>3, AddsBy DEF WritesProduct, WritesQuantity, StoresCart
    <3>3. /\ arrays'[m].items = Append(Items(f.my), ItemOf(f)) /\ f.my.len \in Nat
      BY <1>0, <3>2, GrowsAway
    <3>4. ItemOf(f) \in CartItem /\ ItemOf(f).quantity = f.req.quantity
      BY <1>0, <1>7, AddItemParts DEF ItemOf
    <3>5. my.array = m /\ my.len = f.my.len + 1 /\ next[m] = u /\ m \in Nat BY <1>0, <3>1, <3>2
    <3>6. /\ Items(f.my) \in Seq(CartItem) /\ Len(Items(f.my)) = f.my.len
          /\ \A i \in 1 .. f.my.len : Items(f.my)[i] = arrays[f.my.array].items[i]
      <4>1. f.my \in Slice /\ Fits(f.my, arrays) BY <1>3, <3>1
      <4> HIDE DEF f
      <4> QED BY <1>0, <4>1, ItemsParts
    <3>7. /\ arrays'[m].items[f.my.len + 1] = ItemOf(f)
          /\ \A i \in 1 .. f.my.len : arrays'[m].items[i] = Items(f.my)[i]
      <4> DEFINE s == Items(f.my)  item == ItemOf(f)
      <4> HIDE DEF s, item
      <4>1. s \in Seq(CartItem) /\ item \in CartItem /\ Len(s) = f.my.len BY <3>4, <3>6 DEF s, item
      <4>a. /\ Append(s, item)[Len(s) + 1] = item
            /\ \A i \in 1 .. Len(s) : Append(s, item)[i] = s[i]
        BY <4>1, AddedItem, Zenon
      <4>2. /\ Append(s, item)[f.my.len + 1] = item
            /\ \A i \in 1 .. f.my.len : Append(s, item)[i] = s[i]
        BY <4>1, <4>a, Zenon
      <4> QED BY <3>3, <4>2, Zenon DEF s, item
    <3>8. ASSUME NEW i \in 1 .. f.my.len PROVE \E a \in X[u] : a.quantity = arrays'[m].items[i].quantity
      <4>1. f.my.len > 0 BY <3>3
      <4>2. Known(wanted[u], arrays[f.my.array].items, f.my.len) BY <1>3, <3>1, <4>1 DEF Belongs
      <4>3. wanted[u] \subseteq X[u] BY <1>0, <1>7, AddItemParts DEF Evolves
      <4> QED BY <3>6, <3>7, <4>2, <4>3, ZenonT(30) DEF Known
    <3> QED BY <1>6, <1>7, <3>1, <3>3, <3>4, <3>5, <3>7, <3>8
  <2>4. CASE f.at = "wroteProduct"
    <3>1. HoldsSlice(f.ep, f.at) /\ my = [f.my EXCEPT !.len = @ + 1]
      BY <1>4, <1>7, <2>4 DEF GoesTo, HoldsSlice
    <3>2. WritesQuantity(f) BY <1>0, <1>7, <2>4, AddsBy DEF Grows, WritesProduct, StoresCart
    <3>3. CellWritten(f.my.array, f.my.len + 1, Half(f)) /\ f.my.len > 0
      BY <1>0, <3>2, QuantityCell
    <3>4. /\ f.my \in Slice /\ f.my.len \in Nat /\ Belongs(next, arrays', X, f.my, u)
      BY <1>3, <3>1
    <3>5. my.array = f.my.array /\ my.len = f.my.len + 1 /\ my.array \in Nat BY <3>1, <3>4 DEF Slice
    <3>6. arrays'[f.my.array].items[f.my.len + 1].quantity = f.req.quantity
      <4> HIDE DEF f
      <4>1. arrays'[f.my.array].items[f.my.len + 1] = Half(f) BY <3>3 DEF CellWritten
      <4> QED BY <4>1 DEF Half
    <3>7. next[f.my.array] = u /\ Known(X[u], arrays'[f.my.array].items, f.my.len)
      BY <3>3, <3>4 DEF Belongs
    <3> QED BY <1>6, <1>7, <3>1, <3>4, <3>5, <3>6, <3>7, Zenon DEF Known
  <2>5. CASE f.at \notin {"start", "loaded", "wroteProduct"} BY <1>4, <1>7, <2>5 DEF GoesTo
  <2> QED BY <2>1, <2>2, <2>3, <2>4, <2>5
<1> QED BY <1>4, <1>5, <1>7 DEF HoldsSlice

LEMMA OwnedStep ==
  ASSUME TypesOK, TypesOK', NEW c \in Clients, Handled(c), Others(c), Outcome(c),
         NEW owner, OwnedBy(owner), NEW X, X = wanted', \A u \in Users : wanted[u] \subseteq X[u]
  PROVE  \E next \in [1 .. Len(arrays') -> Users] : OwnedBy(next)'
<1> DEFINE f == call[c][1]
<1>0. /\ CallsOK /\ StatesOK /\ FitsOK /\ CallsOK' /\ call[c] # <<>> /\ Changed(c) /\ f \in Frames
      /\ arrays \in Seq(Array) /\ owner \in [1 .. Len(arrays) -> Users]
  BY StackOf DEF TypesOK, Handled, StatesOK, OwnedBy, Owned
<1>1. PICK next : /\ Owned(next, arrays', X) /\ Evolves(owner, next, arrays, arrays', wanted, X)
                  /\ Grows(f) => next[Len(arrays) + 1] = f.req.user
  BY ArraysOwned
<1>2. ASSUME NEW s \in Slice, Fits(s, arrays), NEW u, Belongs(owner, arrays, wanted, s, u)
      PROVE  Belongs(next, arrays', X, s, u)
  <2>1. PICK B : B = arrays' OBVIOUS
  <2>2. PICK A : A = arrays OBVIOUS
  <2>3. PICK W : W = wanted OBVIOUS
  <2>4. /\ A \in Seq(Array) /\ owner \in [1 .. Len(A) -> Users] /\ Evolves(owner, next, A, B, W, X)
        /\ Fits(s, A) /\ Belongs(owner, A, W, s, u)
    BY <1>0, <1>1, <1>2, <2>1, <2>2, <2>3
  <2>5. Belongs(next, B, X, s, u) BY <2>4, StillBelongs
  <2> QED BY <2>1, <2>5
<1>3. ASSUME NEW v \in DOMAIN carts PROVE Belongs(next, arrays', X, carts[v], v)
  <2>1. carts[v] \in Slice /\ Fits(carts[v], arrays) BY <1>0, <1>3 DEF StatesOK, StateOf, FitsOK
  <2>2. Belongs(owner, arrays, wanted, carts[v], v) BY <1>3 DEF OwnedBy
  <2> QED BY <1>2, <2>1, <2>2
<1>4. ASSUME NEW v \in DOMAIN carts' PROVE Belongs(next, arrays', X, carts'[v], v)
  <2>1. CASE UNCHANGED carts BY <1>3, <2>1
  <2>2. ASSUME NEW u, NEW s, Belongs(next, arrays', X, s, u), carts' = SetState(carts, u, s)
        PROVE  Belongs(next, arrays', X, carts'[v], v)
    BY <1>3, <2>2 DEF SetState
  <2>3. CASE f.ep = "add_item"
    <3>1. CASE StoresCart(f, Held(c, f.req.user))
      <4>1. HoldsSlice(f.ep, f.at) BY <3>1 DEF StoresCart, HoldsSlice
      <4>2. f.my \in Slice /\ Fits(f.my, arrays) /\ Belongs(owner, arrays, wanted, f.my, f.req.user)
        BY <1>0, <4>1, Holder DEF OwnedBy
      <4> QED BY <1>2, <2>2, <3>1, <4>2 DEF StoresCart
    <3> QED BY <1>0, <2>1, <2>3, <3>1, AddsBy DEF Grows, WritesProduct, WritesQuantity, cartVars
  <2>4. CASE f.ep = "empty_cart"
    <3>1. Belongs(next, arrays', X, Empty, f.req.user) BY DEF Belongs, Empty
    <3> QED BY <1>0, <2>2, <2>4, <3>1, EmptiesBy DEF Empties
  <2>5. CASE f.ep \notin {"add_item", "empty_cart"} BY <1>0, <2>1, <2>5, CartsStay DEF cartVars
  <2> QED BY <2>3, <2>4, <2>5
<1>5. ASSUME NEW d \in Clients, call'[d] # <<>>, HoldsSlice(call'[d][1].ep, call'[d][1].at)
      PROVE  Belongs(next, arrays', X, call'[d][1].my, call'[d][1].req.user)
  <2>1. CASE d = c BY <1>1, <1>5, <2>1, TopBelongs
  <2>2. CASE d # c
    <3>1. call'[d] = call[d] BY <2>2 DEF Others
    <3>2. call[d][1].my \in Slice /\ Fits(call[d][1].my, arrays) BY <1>0, <1>5, <3>1, Holder
    <3>3. Belongs(owner, arrays, wanted, call[d][1].my, call[d][1].req.user) BY <1>5, <3>1 DEF OwnedBy
    <3> QED BY <1>2, <3>1, <3>2, <3>3
  <2> QED BY <2>1, <2>2
<1>6. next \in [1 .. Len(arrays') -> Users] BY <1>1 DEF Owned
<1>7. OwnedBy(next)' BY <1>1, <1>4, <1>5 DEF OwnedBy
<1> QED BY <1>6, <1>7

-----------------------------------------------------------------------------
(* Carts that were answered. *)

LEMMA ItemsBelong ==
  ASSUME arrays \in Seq(Array), NEW s \in Slice, Fits(s, arrays), NEW W, NEW owner,
         Owned(owner, arrays, W), NEW u, Belongs(owner, arrays, W, s, u)
  PROVE  ItemsAsked(W[u], Items(s))
<1>1. /\ s.len \in Nat /\ Len(Items(s)) = s.len
      /\ \A i \in 1 .. s.len : Items(s)[i] = arrays[s.array].items[i]
  BY ItemsParts
<1>2. CASE s.len = 0 BY <1>1, <1>2 DEF ItemsAsked, KnownProducts, Known
<1>3. CASE s.len # 0
  <2> DEFINE k == s.array
  <2>1. /\ s.len > 0 /\ k \in 1 .. Len(arrays) /\ s.len <= Len(arrays[k].items)
        /\ Len(arrays[k].items) \in Nat
    BY <1>1, <1>3, ArrayParts DEF Fits
  <2>2. owner[k] = u /\ Known(W[u], arrays[k].items, s.len) BY <2>1 DEF Belongs
  <2>3. KnownProducts(W[u], arrays[k].items) BY <2>1, <2>2 DEF Owned
  <2>4. \A i \in 1 .. s.len : i \in 1 .. Len(arrays[k].items) BY <1>1, <2>1
  <2> QED BY <1>1, <2>2, <2>3, <2>4 DEF ItemsAsked, KnownProducts, Known
<1> QED BY <1>2, <1>3

LEMMA ViewHandled ==
  ASSUME TypesOK, TypesOK', NEW c \in Clients, Handled(c), Outcome(c), ViewOf(c),
         NEW owner, OwnedBy(owner), NEW X, X = wanted', \A u \in Users : wanted[u] \subseteq X[u]
  PROVE  ViewOf(c)'
<1> DEFINE f == call[c][1]
           g == call'[c][1]
<1>0. /\ CallsOK /\ StatesOK /\ FitsOK /\ CallsOK' /\ call[c] # <<>> /\ f \in Frames
      /\ arrays \in Seq(Array) /\ Owned(owner, arrays, wanted)
  BY StackOf DEF TypesOK, Handled, StatesOK, OwnedBy
<1>1. ASSUME call'[c] # <<>>, g.ep = "ro_view_cart", g.at = "passed"
      PROVE  ItemsAsked(X[g.req.user], g.res.cart.items)
  <2>1. /\ g.at # "start" /\ <<"ro_view_cart", g.at>> \notin Pauses BY <1>1 DEF Pauses
  <2>2. PICK h : h = call[c][2] OBVIOUS
  <2>3. PICK r \in ReplyTo(f.ep) :
          /\ Gives(f, r) /\ Back(c, r) /\ g.res = r /\ h \in Frames
          /\ <<h.ep, h.at, f.ep>> \in Sites /\ g.ep = h.ep /\ g.req = h.req
    <3> HIDE DEF f, g
    <3>1. f = call[c][1] /\ g = call'[c][1] BY DEF f, g
    <3> QED BY <1>0, <1>1, <2>1, <2>2, <3>1, NewTop DEF GoesTo
  <2>4. f.ep = "ro_get_cart" BY <1>1, <2>3, WaitsFor
  <2>5. f.at = "loaded" /\ r.cart.items = Items(f.my) BY <2>3, <2>4 DEF Gives
  <2>6. Len(call[c]) # 1 BY <2>3 DEF Back
  <2>7. f.req.user = h.req.user BY <1>0, <2>2, <2>4, <2>6, SecondOf DEF Bound
  <2>8. HoldsSlice(f.ep, f.at) BY <2>4, <2>5 DEF HoldsSlice
  <2>9. f.my \in Slice /\ Fits(f.my, arrays) /\ Belongs(owner, arrays, wanted, f.my, f.req.user)
    BY <1>0, <2>8, Holder DEF OwnedBy
  <2>10. f.req.user \in Users
    <3>1. RequestOf["ro_get_cart"] = GetCartRequest BY DEF RequestOf
    <3>2. f.req \in GetCartRequest BY <1>0, <2>4, <3>1, FrameParts
    <3> HIDE DEF f
    <3> QED BY <3>2 DEF GetCartRequest
  <2> HIDE DEF f
  <2>11. PICK W : W = wanted OBVIOUS
  <2>12. ItemsAsked(W[f.req.user], Items(f.my)) BY <1>0, <2>9, <2>11, ItemsBelong
  <2>13. ItemsAsked(X[f.req.user], Items(f.my))
    BY <2>10, <2>11, <2>12 DEF ItemsAsked, KnownProducts, Known
  <2> QED BY <2>3, <2>5, <2>7, <2>13
<1>2. ASSUME answer'[c].ok, answer'[c].ep = "ro_view_cart"
      PROVE  ItemsAsked(X[answer'[c].req.user], answer'[c].res.c.items)
  <2>1. call'[c] = <<>> /\ Len(call'[c]) = 0 BY <1>0, <1>2 DEF CallsOK
  <2>2. PICK r : Gives(f, r) /\ Len(call[c]) = 1 /\ Over(c, TRUE, r)
    <3>1. Len(call[c]) \in Nat /\ Len(call[c]) >= 1 BY <1>0, StackOf
    <3>2. \A r : ~Back(c, r) BY <2>1, <3>1 DEF Back
    <3>3. \A place, my : ~Went(c, place, my) BY <2>1, <3>1 DEF Went
    <3>4. \A e, q, place, my : ~Deeper(c, e, q, place, my) BY <2>1, <3>1 DEF Deeper
    <3>5. \A r : ~Over(c, FALSE, r) BY <1>2 DEF Over
    <3> QED BY <3>2, <3>3, <3>4, <3>5 DEF Outcome
  <2>3. answer'[c].ep = f.ep /\ answer'[c].req = f.req /\ answer'[c].res = r BY <2>2 DEF Over, Bottom
  <2>4. f.at = "passed" /\ r.c = f.res.cart BY <1>2, <2>2, <2>3 DEF Gives
  <2>5. ItemsAsked(wanted[f.req.user], f.res.cart.items) BY <1>0, <1>2, <2>3, <2>4 DEF ViewOf
  <2>6. f.req.user \in Users
    <3>1. RequestOf["ro_view_cart"] = ViewCartRequest BY DEF RequestOf
    <3>2. f.req \in ViewCartRequest BY <1>0, <1>2, <2>3, <3>1, FrameParts
    <3> HIDE DEF f
    <3> QED BY <3>2 DEF ViewCartRequest
  <2> HIDE DEF f
  <2>7. ItemsAsked(X[f.req.user], f.res.cart.items) BY <2>5, <2>6 DEF ItemsAsked, KnownProducts, Known
  <2> QED BY <2>3, <2>4, <2>7
<1> QED BY <1>1, <1>2 DEF ViewOf

\* A client whose request does not go on.
Rests(c) ==
  /\ call'[c] = call[c] \/ call'[c] = <<>> \/ call'[c][1].at = "start"
  /\ answer'[c] = answer[c] \/ answer'[c].ok = FALSE

LEMMA ViewOther ==
  ASSUME CallsOK, NEW c \in Clients, Rests(c), ViewOf(c),
         NEW X, X = wanted', \A u \in Users : wanted[u] \subseteq X[u]
  PROVE  ViewOf(c)'
<1>1. RequestOf["ro_view_cart"] = ViewCartRequest BY DEF RequestOf
<1>2. ASSUME NEW f, f = call[c][1], call[c] # <<>>, f.ep = "ro_view_cart" PROVE f.req.user \in Users
  <2>1. f \in Frames BY <1>2, StackOf
  <2>2. f.req \in ViewCartRequest BY <1>1, <1>2, <2>1, FrameParts
  <2> QED BY <2>2 DEF ViewCartRequest
<1>3. ASSUME answer[c].ok, answer[c].ep = "ro_view_cart" PROVE answer[c].req.user \in Users
  <2>1. answer[c].ep # "none" BY <1>3
  <2>2. answer[c].req \in ViewCartRequest BY <1>1, <1>3, <2>1 DEF CallsOK
  <2> QED BY <2>2 DEF ViewCartRequest
<1>4. \A u \in Users : \A items : ItemsAsked(wanted[u], items) => ItemsAsked(X[u], items)
  BY DEF ItemsAsked, KnownProducts, Known
<1>5. ASSUME call'[c] # <<>>, call'[c][1].ep = "ro_view_cart", call'[c][1].at = "passed"
      PROVE  ItemsAsked(X[call'[c][1].req.user], call'[c][1].res.cart.items)
  <2>1. call'[c] = call[c] BY <1>5 DEF Rests
  <2>2. ItemsAsked(wanted[call[c][1].req.user], call[c][1].res.cart.items) BY <1>5, <2>1 DEF ViewOf
  <2> QED BY <1>2, <1>4, <1>5, <2>1, <2>2
<1>6. ASSUME answer'[c].ok, answer'[c].ep = "ro_view_cart"
      PROVE  ItemsAsked(X[answer'[c].req.user], answer'[c].res.c.items)
  <2>1. answer'[c] = answer[c] BY <1>6 DEF Rests
  <2>2. ItemsAsked(wanted[answer[c].req.user], answer[c].res.c.items) BY <1>6, <2>1 DEF ViewOf
  <2> QED BY <1>3, <1>4, <1>6, <2>1, <2>2
<1> QED BY <1>5, <1>6 DEF ViewOf, ItemsAsked, KnownProducts, Known

-----------------------------------------------------------------------------
(* Carts and the items added to them. *)

LEMMA HeldIs ==
  ASSUME CallsOK, NEW c, NEW u
  PROVE  Held(c, u) <=> \E d \in Clients \ {c} : Adding(call[d], u)
<1>1. ASSUME NEW d \in Clients PROVE holds(d, u) <=> Adding(call[d], u)
  BY StackOf DEF holds, Idle, Serving, At, Req, Adding
<1> QED BY <1>1 DEF Held

LEMMA ItemsSame ==
  ASSUME NEW A \in Seq(Array), NEW B \in Seq(Array), NEW s \in Slice, Fits(s, A), Fits(s, B),
         \A i \in 1 .. s.len : B[s.array].items[i] = A[s.array].items[i]
  PROVE  ItemsIn(B, s) = ItemsIn(A, s)
<1>1. /\ ItemsIn(A, s) \in Seq(CartItem) /\ Len(ItemsIn(A, s)) = s.len
      /\ ItemsIn(B, s) \in Seq(CartItem) /\ Len(ItemsIn(B, s)) = s.len
      /\ \A i \in 1 .. s.len : ItemsIn(B, s)[i] = ItemsIn(A, s)[i]
  BY ItemsInParts
<1> QED BY <1>1, SeqEqual

\* What a handler that adds to another cart, or to this one behind what it
\* has, does to the slices of a user.
LEMMA SliceStays ==
  ASSUME TypesOK, NEW c \in Clients, Handled(c), NEW owner, OwnedBy(owner), NEW u,
         NEW s \in Slice, Fits(s, arrays), Belongs(owner, arrays, wanted, s, u)
  PROVE  /\ Fits(s, arrays')
         /\ /\ call[c][1].ep = "add_item" /\ call[c][1].req.user = u
            /\ HoldsSlice(call[c][1].ep, call[c][1].at) => s = call[c][1].my
            => Items(s)' = Items(s)
         /\ ~(call[c][1].ep = "add_item" /\ call[c][1].req.user = u) =>
              Items(s)' = Items(s) /\ (s.len > 0 => arrays'[s.array] = arrays[s.array])
<1> DEFINE f == call[c][1]
           k == f.my.array
           n == f.my.len + 1
<1>0. /\ CallsOK /\ StatesOK /\ FitsOK /\ call[c] # <<>> /\ Changed(c) /\ arrays \in Seq(Array)
      /\ s.len \in Nat
  BY DEF TypesOK, Handled, StatesOK, Slice
<1>1. GrownTo(arrays, arrays') BY ArraysGrow
<1>2. Fits(s, arrays')
  <2>1. PICK B : B = arrays' OBVIOUS
  <2>2. GrownTo(arrays, B) BY <1>1, <2>1
  <2> QED BY <2>1, <2>2, StillFits
<1>3. ASSUME s.len > 0 => \A i \in 1 .. s.len : arrays'[s.array].items[i] = arrays[s.array].items[i]
      PROVE  Items(s)' = Items(s)
  <2>1. PICK B : B = arrays' OBVIOUS
  <2>2. PICK A : A = arrays OBVIOUS
  <2>3. /\ A \in Seq(Array) /\ B \in Seq(Array) /\ Fits(s, A) /\ Fits(s, B)
        /\ \A i \in 1 .. s.len : B[s.array].items[i] = A[s.array].items[i]
    BY <1>0, <1>1, <1>2, <1>3, <2>1, <2>2 DEF GrownTo
  <2>4. ItemsIn(B, s) = ItemsIn(A, s) BY <2>3, ItemsSame
  <2> QED BY <2>1, <2>2, <2>4 DEF Items, ItemsIn
<1>4. CASE s.len = 0 BY <1>2, <1>3, <1>4
<1>5. CASE s.len # 0
  <2>1. s.len > 0 /\ s.array \in 1 .. Len(arrays) /\ owner[s.array] = u
    BY <1>0, <1>5 DEF Fits, Belongs
  <2>2. CASE arrays'[s.array] = arrays[s.array] BY <1>2, <1>3, <2>2
  <2>3. ASSUME NEW item, CellWritten(k, n, item), f.ep = "add_item", HoldsSlice(f.ep, f.at), f.my.len > 0
        PROVE  /\ k # s.array => arrays'[s.array] = arrays[s.array]
               /\ k = s.array => f.req.user = u
               /\ k = s.array /\ s = f.my => Items(s)' = Items(s)
    <3>1. k # s.array => arrays'[s.array] = arrays[s.array] BY <2>1, <2>3, Zenon DEF CellWritten
    <3>2. owner[k] = f.req.user BY <1>0, <2>3 DEF OwnedBy, Belongs
    <3>3. ASSUME k = s.array, s = f.my PROVE Items(s)' = Items(s)
      <4>1. ASSUME NEW i \in 1 .. s.len PROVE arrays'[s.array].items[i] = arrays[s.array].items[i]
        <5>1. Len(arrays[k].items) \in Nat /\ s.len <= Len(arrays[k].items)
          BY <1>0, <2>1, <3>3, ArrayParts, Zenon DEF Fits
        <5>2. Len(arrays'[k].items) >= Len(arrays[k].items) BY <2>3, Zenon DEF CellWritten
        <5>3. Len(arrays'[k].items) \in Nat
          <6>1. PICK B : B = arrays' OBVIOUS
          <6>2. k \in 1 .. Len(B) /\ B \in Seq(Array) BY <2>1, <2>3, <3>3, <6>1, Zenon DEF CellWritten
          <6> QED BY <6>1, <6>2, ArrayParts, Zenon
        <5>4. i \in 1 .. Len(arrays'[k].items) /\ i # n
          <6>1. PICK l \in Nat : l = s.len BY <1>0
          <6>2. PICK a \in Nat : a = Len(arrays[k].items) BY <5>1
          <6>3. PICK b \in Nat : b = Len(arrays'[k].items) BY <5>3
          <6>4. l <= a /\ b >= a /\ i \in 1 .. l BY <5>1, <5>2, <6>1, <6>2, <6>3
          <6>5. i \in 1 .. b /\ i # l + 1 BY <6>4
          <6> QED BY <3>3, <6>1, <6>3, <6>5
        <5> QED BY <2>3, <3>3, <5>4, Zenon DEF CellWritten
      <4> QED BY <1>3, <4>1, Zenon
    <3> QED BY <2>1, <3>1, <3>2, <3>3, Zenon
  <2>4. CASE WritesProduct(f)
    <3>1. f.ep = "add_item" /\ HoldsSlice(f.ep, f.at) BY <2>4 DEF WritesProduct, HoldsSlice
    <3>2. \E item : CellWritten(k, n, item) /\ f.my.len > 0 BY <1>0, <2>4, ProductCell
    <3> QED BY <1>2, <2>2, <2>3, <3>1, <3>2
  <2>5. CASE WritesQuantity(f)
    <3>1. f.ep = "add_item" /\ HoldsSlice(f.ep, f.at) BY <2>5 DEF WritesQuantity, HoldsSlice
    <3>2. \E item : CellWritten(k, n, item) /\ f.my.len > 0 BY <1>0, <2>5, QuantityCell
    <3> QED BY <1>2, <2>2, <2>3, <3>1, <3>2
  <2>6. CASE Grows(f) BY <1>0, <2>1, <2>2, <2>6, GrowsAway
  <2>7. CASE f.ep = "add_item"
    BY <1>0, <2>2, <2>4, <2>5, <2>6, <2>7, AddsBy DEF StoresCart, cartVars
  <2>8. CASE f.ep = "empty_cart" BY <1>0, <2>2, <2>8, EmptiesBy DEF Empties
  <2>9. CASE f.ep \notin {"add_item", "empty_cart"} BY <1>0, <2>2, <2>9, CartsStay DEF cartVars
  <2> QED BY <2>7, <2>8, <2>9
<1> QED BY <1>4, <1>5

\* Adding an item goes on until the cart is stored; nobody fails.
LEMMA AddGoes ==
  ASSUME CallsOK, CallsOK', NEW c \in Clients, call[c] # <<>>, Outcome(c), call[c][1].ep = "add_item",
         call[c][1].at # "appended"
  PROVE  /\ call'[c] # <<>>
         /\ \E place, my : /\ GoesTo(call[c][1], place, my)
                           /\ call'[c][1].ep = "add_item" /\ call'[c][1].req = call[c][1].req
                           /\ call'[c][1].at = place /\ call'[c][1].my = my
<1> DEFINE f == call[c][1]
           g == call'[c][1]
<1>1. ~Fails(f) /\ \A r : ~Gives(f, r) BY DEF Fails, Gives
<1>2. \A place, e : <<f.ep, place, e>> \notin Sites BY WaitsFor
<1>3. call'[c] # <<>>
  <2>1. \E place, my : Went(c, place, my) BY <1>1, <1>2 DEF Outcome
  <2>2. Len(call[c]) \in Nat /\ Len(call[c]) >= 1 BY StackOf
  <2> QED BY <2>1, <2>2 DEF Went
<1>4. f = call[c][1] /\ g = call'[c][1] OBVIOUS
<1> HIDE DEF f, g
<1> QED BY <1>1, <1>2, <1>3, <1>4, NewTop

LEMMA AddEnds ==
  ASSUME CallsOK, CallsOK', NEW c \in Clients, call[c] # <<>>, Outcome(c),
         call[c][1].ep = "add_item" => call[c][1].at = "appended", NEW u
  PROVE  ~Adding(call'[c], u)
<1> DEFINE f == call[c][1]
           g == call'[c][1]
<1>1. SUFFICES ASSUME call'[c] # <<>>, g.ep = "add_item", g.at # "start" PROVE FALSE BY DEF Adding
<1>2. f = call[c][1] /\ g = call'[c][1] OBVIOUS
<1> HIDE DEF f, g
<1>3. PICK place, my : GoesTo(f, place, my) /\ f.ep = "add_item" BY <1>1, <1>2, NewTop
<1>4. f.at = "appended" BY <1>2, <1>3
<1> QED BY <1>3, <1>4 DEF GoesTo

\* A step of another handler than one that adds for u.
LEMMA ExactElse ==
  ASSUME TypesOK, TypesOK', NEW c \in Clients, Handled(c), Others(c), Outcome(c),
         NEW owner, OwnedBy(owner), NEW u \in Users, ExactFor(u), u \notin raced, u \notin raced',
         ~(call[c][1].ep = "add_item" /\ call[c][1].req.user = u),
         _localGetCart(u)' = _localGetCart(u), log'[u] = log[u]
  PROVE  ExactFor(u)'
<1> DEFINE f == call[c][1]
<1>0. CallsOK /\ StatesOK /\ FitsOK /\ CallsOK' /\ call[c] # <<>> BY DEF TypesOK, Handled
<1>1. ASSUME NEW d \in Clients, d # c PROVE call'[d] = call[d] BY <1>1 DEF Others
<1>2. ~Adding(call[c], u) BY DEF Adding
<1>3. ~Adding(call'[c], u)
  <2>1. CASE f.ep # "add_item" \/ f.at = "appended" BY <1>0, <2>1, AddEnds
  <2>2. CASE f.ep = "add_item" /\ f.at # "appended"
    <3>1. call'[c][1].req = f.req BY <1>0, <2>2, AddGoes
    <3> QED BY <2>2, <3>1 DEF Adding
  <2> QED BY <2>1, <2>2
<1>4. Items(_localGetCart(u))' = log'[u]
  <2>1. PICK s : s = _localGetCart(u) OBVIOUS
  <2>2. /\ s \in Slice /\ Fits(s, arrays) /\ Belongs(owner, arrays, wanted, s, u)
    BY <1>0, <2>1, CartLoaded, LoadedBelongs
  <2>3. Items(s)' = Items(s) BY <2>2, SliceStays
  <2>4. Items(s) = log[u] BY <2>1 DEF ExactFor
  <2> QED BY <2>1, <2>3, <2>4 DEF Items
<1>5. ASSUME NEW d \in Clients, Adding(call'[d], u)
      PROVE  FrameExact(call[d][1], u, \A b \in Clients \ {d} : ~Adding(call[b], u))'
  <2>1. d # c /\ call'[d] = call[d] /\ call[d] # <<>> BY <1>1, <1>3, <1>5 DEF Adding
  <2>2. (\A b \in Clients \ {d} : ~Adding(call'[b], u)) => \A b \in Clients \ {d} : ~Adding(call[b], u)
    BY <1>1, <1>2
  <2>3. PICK h : h = call[d][1] OBVIOUS
  <2>4. FrameExact(h, u, \A b \in Clients \ {d} : ~Adding(call[b], u)) BY <1>5, <2>1, <2>3 DEF ExactFor
  <2>5. h \in Frames /\ h.ep = "add_item" /\ h.at # "start" /\ h.req.user = u
    BY <1>0, <1>5, <2>1, <2>3, StackOf DEF Adding
  <2>6. HoldsSlice(h.ep, h.at)
    <3>1. Place("add_item", h.at) BY <2>5, FrameParts
    <3>2. ~Waits("add_item", h.at) BY WaitsFor DEF Waits
    <3> QED BY <2>5, <3>1, <3>2 DEF Place, HoldsSlice, Pauses
  <2>7. h.my \in Slice /\ Fits(h.my, arrays) /\ Belongs(owner, arrays, wanted, h.my, u)
        /\ (h.at = "wroteProduct" => h.my.len > 0)
    BY <1>0, <2>1, <2>3, <2>5, <2>6, Holder DEF OwnedBy
  <2>8. Items(h.my)' = Items(h.my) /\ (h.my.len > 0 => arrays'[h.my.array] = arrays[h.my.array])
    BY <2>7, SliceStays
  <2>9. call'[d][1] = h BY <2>1, <2>3
  <2>10. FrameExact(h, u, \A b \in Clients \ {d} : ~Adding(call[b], u))'
    BY <2>2, <2>4, <2>7, <2>8 DEF FrameExact
  <2> QED BY <2>9, <2>10 DEF FrameExact, Items
<1> QED BY <1>4, <1>5 DEF ExactFor

\* A step that adds for u, before its cart is stored.
LEMMA ExactAdds ==
  ASSUME TypesOK, TypesOK', NEW c \in Clients, Handled(c), Others(c), Outcome(c),
         NEW owner, OwnedBy(owner), NEW u \in Users, ExactFor(u), u \notin raced, u \notin raced',
         call[c][1].ep = "add_item", call[c][1].req.user = u, call[c][1].at # "appended"
  PROVE  ExactFor(u)'
<1> DEFINE f == call[c][1]
           s == _localGetCart(u)
           Sole(d) == \A b \in Clients \ {d} : ~Adding(call[b], u)
<1>0. /\ CallsOK /\ StatesOK /\ FitsOK /\ CallsOK' /\ call[c] # <<>> /\ Changed(c)
      /\ arrays \in Seq(Array)
  BY DEF TypesOK, Handled, StatesOK
<1>g. PICK g : g = call'[c][1] OBVIOUS
<1>1. PICK place, my : /\ GoesTo(f, place, my) /\ g.ep = "add_item" /\ g.req = f.req
                       /\ g.at = place /\ g.my = my /\ call'[c] # <<>>
  BY <1>0, <1>g, AddGoes
<1>2. Adding(call'[c], u) BY <1>1, <1>g DEF Adding, GoesTo
<1>3. /\ f.at = "start" /\ UNCHANGED <<carts, log>>
      \/ Grows(f) \/ WritesProduct(f) \/ WritesQuantity(f)
  BY <1>0, AddsBy DEF StoresCart, cartVars
<1>4. UNCHANGED <<carts, log>> BY <1>3 DEF Grows, WritesProduct, WritesQuantity
<1>5. s \in Slice /\ Fits(s, arrays) /\ Belongs(owner, arrays, wanted, s, u) /\ Items(s) = log[u]
  BY <1>0, CartLoaded, LoadedBelongs DEF ExactFor
<1>6. f.at # "start" => FrameExact(f, u, Sole(c)) BY <1>0 DEF ExactFor, Adding
<1>7. f.at \in {"loaded", "wroteProduct"} => f.my = s BY <1>6 DEF FrameExact
<1>8. s' = s BY <1>4 DEF _localGetCart, Has, GetState
<1>9. Items(s)' = log'[u]
  <2>1. PICK t : t = s OBVIOUS
  <2>2. HoldsSlice(f.ep, f.at) => t = f.my BY <1>7, <2>1 DEF HoldsSlice
  <2>3. Items(t)' = Items(t) BY <1>5, <2>1, <2>2, SliceStays
  <2> QED BY <1>4, <1>5, <1>8, <2>1, <2>3 DEF Items
<1>10. ASSUME NEW d \in Clients, d # c, Adding(call'[d], u) PROVE FrameExact(call[d][1], u, Sole(d))'
  <2>1. call'[d] = call[d] BY <1>10 DEF Others
  <2>2. ~Sole(d)' BY <1>2, <1>10
  <2>3. FrameExact(call[d][1], u, Sole(d)) BY <1>10, <2>1 DEF ExactFor
  <2>4. call[d][1].at \in {"loaded", "wroteProduct"} => call[d][1].my = s BY <2>3 DEF FrameExact
  <2> QED BY <1>8, <2>1, <2>2, <2>4 DEF FrameExact
<1>11. Sole(c)' => Sole(c) BY DEF Others
<1>12. ItemOf(f) \in CartItem /\ ItemOf(f) = [product |-> f.req.product, quantity |-> f.req.quantity]
  BY <1>0, AddItemParts DEF ItemOf
<1>13. ItemOf(g) = ItemOf(f) BY <1>1 DEF ItemOf
<1>14. CASE f.at = "start"
  <2>1. g.at = "loaded" /\ g.my = s BY <1>1, <1>14 DEF GoesTo
  <2>2. FrameExact(call[c][1], u, Sole(c))' BY <1>8, <1>g, <2>1 DEF FrameExact
  <2> QED BY <1>9, <1>10, <2>2 DEF ExactFor
<1>15. CASE f.at = "loaded" /\ ~Room(f.my)
  <2> DEFINE m == Len(arrays) + 1
  <2>1. g.at = "appended" /\ g.my = [array |-> m, len |-> f.my.len + 1] BY <1>1, <1>15 DEF GoesTo
  <2>2. Grows(f) BY <1>3, <1>15 DEF WritesProduct, WritesQuantity
  <2>3. /\ arrays' \in Seq(Array) /\ Len(arrays') = m /\ Len(arrays) \in Nat /\ f.my.len \in Nat
        /\ arrays'[m].items = Append(Items(f.my), ItemOf(f)) /\ arrays'[m].items \in Seq(CartItem)
        /\ Len(arrays'[m].items) = f.my.len + 1
    BY <1>0, <2>2, GrowsAway
  <2>4. g.my.array = m /\ g.my.len = f.my.len + 1 BY <2>1
  <2>5. Items(g.my)' = SubSeq(arrays'[m].items, 1, Len(arrays'[m].items))
    <3>1. PICK l \in Nat : l = f.my.len BY <2>3
    <3>2. l + 1 # 0 OBVIOUS
    <3>3. g.my.len # 0 BY <2>4, <3>1, <3>2
    <3>4. g.my.len = Len(arrays'[m].items) BY <2>3, <2>4
    <3> HIDE DEF f, m
    <3> QED BY <2>4, <3>3, <3>4 DEF Items
  <2>6. Items(g.my)' = arrays'[m].items BY <2>3, <2>5, SubSeqFull
  <2>7. Items(f.my) = log[u] BY <1>5, <1>7, <1>15
  <2>8. Items(g.my)' = Append(log'[u], ItemOf(g)) BY <1>4, <1>13, <2>3, <2>6, <2>7
  <2>9. FrameExact(call[c][1], u, Sole(c))'
    <3>1. FrameExact(g, u, Sole(c))' BY <2>1, <2>8 DEF FrameExact, ItemOf
    <3> QED BY <1>g, <3>1, Zenon DEF FrameExact, Items, ItemOf
  <2> QED BY <1>9, <1>10, <2>9 DEF ExactFor
<1>16. CASE f.at = "loaded" /\ Room(f.my)
  <2>1. g.at = "wroteProduct" /\ g.my = f.my BY <1>1, <1>16 DEF GoesTo
  <2>2. WritesProduct(f) BY <1>3, <1>16 DEF Grows, WritesQuantity
  <2>3. arrays'[f.my.array].items[f.my.len + 1].product = f.req.product
    <3>1. CellWritten(f.my.array, f.my.len + 1, [product |-> f.req.product, quantity |-> Old(f)])
      BY <1>0, <2>2, ProductCell
    <3> HIDE DEF f
    <3>2. arrays'[f.my.array].items[f.my.len + 1] = [product |-> f.req.product, quantity |-> Old(f)]
      BY <3>1 DEF CellWritten
    <3> QED BY <3>2
  <2>4. FrameExact(call[c][1], u, Sole(c))' BY <1>1, <1>7, <1>8, <1>16, <1>g, <2>1, <2>3 DEF FrameExact
  <2> QED BY <1>9, <1>10, <2>4 DEF ExactFor
<1>17. CASE f.at = "wroteProduct"
  <2> DEFINE k == f.my.array
             n == f.my.len + 1
             item == Half(f)
  <2>1. g.at = "appended" /\ g.my = [f.my EXCEPT !.len = @ + 1] BY <1>1, <1>17 DEF GoesTo
  <2>2. WritesQuantity(f) BY <1>3, <1>17 DEF Grows, WritesProduct
  <2>3. CellWritten(k, n, item) /\ k \in 1 .. Len(arrays) /\ f.my.len \in Nat /\ f.my.len > 0
    BY <1>0, <2>2, QuantityCell
  <2>4. ASSUME Sole(c)' PROVE Items(g.my)' = Append(log'[u], ItemOf(g))
    <3>1. arrays[k].items[n].product = f.req.product BY <1>6, <1>11, <1>17, <2>4 DEF FrameExact
    <3>2. item = ItemOf(f) BY <1>12, <3>1 DEF Half
    <3>3. f.my = s /\ f.my \in Slice /\ Fits(f.my, arrays) /\ Items(f.my) = log[u]
      BY <1>5, <1>7, <1>17
    <3>4. g.my.array = k /\ g.my.len = n /\ g.my \in Slice BY <2>1, <2>3, <3>3 DEF Slice
    <3>5. PICK B : B = arrays' OBVIOUS
    <3>6. PICK A : A = arrays BY Zenon
    <3>7. /\ B \in Seq(Array) /\ k \in 1 .. Len(B) /\ n \in 1 .. Len(B[k].items) /\ B[k].items[n] = item
          /\ \A i \in 1 .. Len(B[k].items) : i # n => B[k].items[i] = A[k].items[i]
      BY <2>3, <3>5, <3>6, Zenon DEF CellWritten
    <3>8. Len(B[k].items) \in Nat BY <3>7, ArrayParts, Zenon
    <3>9. Fits(g.my, B)
      <4>1. PICK o \in Nat : o = Len(B[k].items) BY <3>8
      <4>2. n <= o
        <5>1. n \in 1 .. o BY <3>7, <4>1, Zenon
        <5> QED BY <2>3, <5>1, Positions, Zenon
      <4> HIDE DEF k, n
      <4> QED BY <3>4, <3>7, <4>1, <4>2 DEF Fits
    <3>10. /\ ItemsIn(B, g.my) \in Seq(CartItem) /\ Len(ItemsIn(B, g.my)) = n
           /\ \A i \in 1 .. n : ItemsIn(B, g.my)[i] = B[k].items[i]
      <4>1. PICK t : t = g.my OBVIOUS
      <4>2. /\ ItemsIn(B, t) \in Seq(CartItem) /\ Len(ItemsIn(B, t)) = t.len
            /\ \A i \in 1 .. t.len : ItemsIn(B, t)[i] = B[t.array].items[i]
        BY <3>4, <3>7, <3>9, <4>1, ItemsInParts, Zenon
      <4> QED BY <3>4, <4>1, <4>2, Zenon
    <3>11. /\ ItemsIn(A, f.my) \in Seq(CartItem) /\ Len(ItemsIn(A, f.my)) = f.my.len
           /\ \A i \in 1 .. f.my.len : ItemsIn(A, f.my)[i] = A[k].items[i]
      <4>1. PICK t : t = f.my OBVIOUS
      <4>2. /\ ItemsIn(A, t) \in Seq(CartItem) /\ Len(ItemsIn(A, t)) = t.len
            /\ \A i \in 1 .. t.len : ItemsIn(A, t)[i] = A[t.array].items[i]
        BY <1>0, <3>3, <3>6, <4>1, ItemsInParts
      <4> QED BY <4>1, <4>2
    <3>12. ItemsIn(B, g.my) = Append(ItemsIn(A, f.my), ItemOf(f))
      <4> DEFINE x == ItemsIn(A, f.my)  y == ItemOf(f)  z == ItemsIn(B, g.my)  l == f.my.len
      <4>1. /\ x \in Seq(CartItem) /\ y \in CartItem /\ z \in Seq(CartItem) /\ l \in Nat
            /\ Len(x) = l /\ Len(z) = l + 1
        BY <1>12, <2>3, <3>10, <3>11
      <4>a. l + 1 \in 1 .. l + 1 BY <4>1, Positions, Zenon
      <4>2. z[l + 1] = y
        <5>1. z[l + 1] = B[k].items[l + 1] BY <3>10, <4>a, Zenon
        <5> QED BY <3>2, <3>7, <5>1, Zenon
      <4>3. ASSUME NEW i \in 1 .. l PROVE z[i] = x[i]
        <5>1. i \in 1 .. n /\ i # n /\ i \in 1 .. Len(B[k].items)
          <6>1. PICK o \in Nat : o = Len(B[k].items) BY <3>8
          <6>2. PICK w \in Nat : w = f.my.len BY <2>3
          <6>3. w + 1 <= o /\ i \in 1 .. w
            <7>1. w + 1 \in 1 .. o BY <3>7, <6>1, <6>2, Zenon
            <7>2. i \in 1 .. w BY <6>2
            <7> QED BY <7>1, <7>2, Positions, Zenon
          <6>4. i \in 1 .. w + 1 /\ i # w + 1 /\ i \in 1 .. o BY <6>3
          <6> QED BY <6>1, <6>2, <6>4
        <5> QED BY <3>7, <3>10, <3>11, <5>1, Zenon
      <4> HIDE DEF x, y, z, l
      <4>4. /\ Append(x, y) \in Seq(CartItem) /\ Len(Append(x, y)) = l + 1 /\ Append(x, y)[l + 1] = y
            /\ \A i \in 1 .. l : Append(x, y)[i] = x[i]
        BY <4>1, AddedItem, Zenon
      <4>5. \A i \in 1 .. l + 1 : i \in 1 .. l \/ i = l + 1 BY <4>1
      <4>6. \A i \in 1 .. Len(z) : z[i] = Append(x, y)[i] BY <4>1, <4>2, <4>3, <4>4, <4>5
      <4>7. z = Append(x, y) BY <4>1, <4>4, <4>6, SeqEqual
      <4> QED BY <4>7 DEF x, y, z
    <3>13. Items(g.my)' = ItemsIn(B, g.my) BY <3>5 DEF Items, ItemsIn
    <3>14. Items(f.my) = ItemsIn(A, f.my) BY <3>6 DEF Items, ItemsIn
    <3> QED BY <1>4, <1>13, <3>3, <3>12, <3>13, <3>14
  <2>5. FrameExact(call[c][1], u, Sole(c))'
    <3>1. FrameExact(g, u, Sole(c))' BY <2>1, <2>4 DEF FrameExact, ItemOf
    <3> QED BY <1>g, <3>1 DEF FrameExact, Items, ItemOf
  <2> QED BY <1>9, <1>10, <2>5 DEF ExactFor
<1> QED BY <1>1, <1>14, <1>15, <1>16, <1>17 DEF GoesTo

\* Nobody adds for u any more, and its cart is what was added.
LEMMA ExactAlone ==
  ASSUME NEW u, Items(_localGetCart(u))' = log'[u], \A d \in Clients : ~Adding(call'[d], u)
  PROVE  ExactFor(u)'
BY DEF ExactFor

\* The cart of u is stored, or emptied.
LEMMA ExactStores ==
  ASSUME TypesOK, TypesOK', NEW c \in Clients, Handled(c), Others(c), Outcome(c),
         NEW owner, OwnedBy(owner), NEW u \in Users, ExactFor(u), u \notin raced',
         call[c][1].ep = "empty_cart" \/ (call[c][1].ep = "add_item" /\ call[c][1].at = "appended"),
         call[c][1].req.user = u
  PROVE  ExactFor(u)'
<1> DEFINE f == call[c][1]
<1>0. /\ CallsOK /\ StatesOK /\ FitsOK /\ CallsOK' /\ call[c] # <<>> /\ Changed(c) /\ f \in Frames
  BY StackOf DEF TypesOK, Handled
<1>1. UNCHANGED arrays /\ ~Held(c, u)
  BY <1>0, AddsBy, EmptiesBy DEF Empties, Grows, WritesProduct, WritesQuantity, StoresCart
<1>2. \A d \in Clients \ {c} : ~Adding(call[d], u) BY <1>0, <1>1, HeldIs
<1>3. \A d \in Clients : ~Adding(call'[d], u)
  <2>1. ~Adding(call'[c], u) BY <1>0, AddEnds
  <2> QED BY <1>2, <2>1 DEF Others
<1>4. ASSUME NEW s, carts' = SetState(carts, u, s) PROVE Items(_localGetCart(u))' = Items(s)
  BY <1>1, <1>4 DEF SetState, _localGetCart, GetState, Has, Items
<1>5. log \in [Users -> Seq(CartItem)] BY <1>0 DEF StatesOK
<1>6. CASE f.ep = "empty_cart"
  <2>1. carts' = SetState(carts, u, Empty) /\ log' = [log EXCEPT ![u] = <<>>]
    BY <1>0, <1>6, EmptiesBy DEF Empties
  <2>2. Items(Empty) = <<>> BY DEF Items, Empty
  <2>3. Items(_localGetCart(u))' = log'[u] BY <1>4, <1>5, <2>1, <2>2
  <2> QED BY <1>3, <2>3, ExactAlone
<1>7. CASE f.ep = "add_item" /\ f.at = "appended"
  <2>1. StoresCart(f, Held(c, u)) BY <1>0, <1>7, AddsBy DEF Grows, WritesProduct, WritesQuantity
  <2>2. /\ carts' = SetState(carts, u, f.my) /\ log' = [log EXCEPT ![u] = Append(@, ItemOf(f))]
        /\ u \notin raced
    BY <1>1, <2>1 DEF StoresCart
  <2>3. Items(f.my) = Append(log[u], ItemOf(f))
    BY <1>0, <1>2, <1>7, <2>2 DEF ExactFor, Adding, FrameExact
  <2>4. Items(_localGetCart(u))' = log'[u] BY <1>4, <1>5, <2>2, <2>3
  <2> QED BY <1>3, <2>4, ExactAlone
<1> QED BY <1>6, <1>7

LEMMA ExactHandled ==
  ASSUME TypesOK, TypesOK', NEW c \in Clients, Handled(c), Others(c), Outcome(c),
         NEW owner, OwnedBy(owner), NEW u \in Users, ExactFor(u)
  PROVE  ExactFor(u)'
<1> DEFINE f == call[c][1]
<1>0. CallsOK /\ StatesOK /\ call[c] # <<>> /\ Changed(c) /\ f \in Frames BY StackOf DEF TypesOK, Handled
<1>1. SUFFICES ASSUME u \notin raced' PROVE ExactFor(u)' BY DEF ExactFor
<1>2. CASE f.req.user = u /\ (f.ep = "empty_cart" \/ (f.ep = "add_item" /\ f.at = "appended"))
  BY <1>1, <1>2, ExactStores
<1>3. CASE f.req.user # u \/ ~(f.ep = "empty_cart" \/ (f.ep = "add_item" /\ f.at = "appended"))
  <2>1. /\ u \notin raced /\ _localGetCart(u)' = _localGetCart(u) /\ log'[u] = log[u]
    <3>1. /\ DOMAIN log = Users
          /\ \A v, s : v # u /\ carts' = SetState(carts, v, s) => _localGetCart(u)' = _localGetCart(u)
      BY <1>0 DEF StatesOK, SetState, _localGetCart, GetState, Has
    <3>2. UNCHANGED carts => _localGetCart(u)' = _localGetCart(u) BY DEF _localGetCart, GetState, Has
    <3>3. CASE f.ep = "add_item"
      <4>1. CASE StoresCart(f, Held(c, f.req.user))
        <5>1. f.req.user # u /\ carts' = SetState(carts, f.req.user, f.my) BY <1>3, <4>1 DEF StoresCart
        <5>2. log'[u] = log[u] BY <3>1, <4>1, <5>1 DEF StoresCart
        <5>3. u \notin raced BY <1>1, <4>1, <5>1 DEF StoresCart
        <5> HIDE DEF f
        <5> QED BY <3>1, <5>1, <5>2, <5>3
      <4>2. CASE ~StoresCart(f, Held(c, f.req.user))
        <5>1. UNCHANGED <<carts, log, raced>>
          BY <1>0, <3>3, <4>2, AddsBy DEF Grows, WritesProduct, WritesQuantity, cartVars
        <5> QED BY <1>1, <3>2, <5>1
      <4> QED BY <4>1, <4>2
    <3>4. CASE f.ep = "empty_cart" BY <1>0, <1>1, <1>3, <3>1, <3>4, EmptiesBy DEF Empties
    <3>5. CASE f.ep \notin {"add_item", "empty_cart"}
      BY <1>0, <1>1, <3>2, <3>5, CartsStay DEF cartVars
    <3> QED BY <3>3, <3>4, <3>5
  <2> QED BY <1>1, <1>3, <2>1, ExactAdds, ExactElse
<1> QED BY <1>2, <1>3

-----------------------------------------------------------------------------
(* Carts in every step. *)

\* No request goes on, and all that add an item stay or none does.
LEMMA CartsElse ==
  ASSUME TypesOK, TypesOK', CartsOK, UNCHANGED state,
         NEW X, X = wanted', \A u \in Users : wanted[u] \subseteq X[u], \A d \in Clients : Rests(d),
         \A d, b \in Clients :
           call[d] # <<>> /\ call[d][1].ep = "add_item" /\ call[b] # <<>> /\ call[b][1].ep = "add_item"
           => (call'[d] = call[d] => call'[b] = call[b])
  PROVE  CartsOK'
<1>0. /\ CallsOK /\ StatesOK /\ FitsOK /\ arrays \in Seq(Array)
      /\ UNCHANGED <<carts, arrays, log, raced>>
  BY DEF TypesOK, StatesOK, state, cartVars
<1>1. PICK owner \in [1 .. Len(arrays) -> Users] : OwnedBy(owner) BY DEF CartsOK
<1>2. ASSUME NEW s \in Slice, Fits(s, arrays), NEW u, Belongs(owner, arrays, wanted, s, u)
      PROVE  Belongs(owner, arrays, X, s, u)
  <2>1. Evolves(owner, owner, arrays, arrays, wanted, X) BY DEF Evolves
  <2>2. PICK W : W = wanted OBVIOUS
  <2>3. PICK A : A = arrays OBVIOUS
  <2>4. /\ A \in Seq(Array) /\ owner \in [1 .. Len(A) -> Users] /\ Evolves(owner, owner, A, A, W, X)
        /\ Fits(s, A) /\ Belongs(owner, A, W, s, u)
    BY <1>0, <1>1, <1>2, <2>1, <2>2, <2>3
  <2>5. Belongs(owner, A, X, s, u) BY <2>4, StillBelongs
  <2> QED BY <2>3, <2>5
<1>3. OwnedBy(owner)'
  <2>1. Owned(owner, arrays', X) BY <1>0, <1>1 DEF OwnedBy, Owned, KnownProducts
  <2>2. ASSUME NEW u \in DOMAIN carts PROVE Belongs(owner, arrays, X, carts[u], u)
    <3>1. carts[u] \in Slice /\ Fits(carts[u], arrays) BY <1>0 DEF StatesOK, StateOf, FitsOK
    <3> QED BY <1>1, <1>2, <3>1 DEF OwnedBy
  <2>3. ASSUME NEW d \in Clients, call'[d] # <<>>, HoldsSlice(call'[d][1].ep, call'[d][1].at)
        PROVE  Belongs(owner, arrays, X, call'[d][1].my, call'[d][1].req.user)
    <3>1. call'[d] = call[d] BY <2>3 DEF Rests, HoldsSlice
    <3>2. call[d][1].my \in Slice /\ Fits(call[d][1].my, arrays) BY <1>0, <2>3, <3>1, Holder
    <3>3. Belongs(owner, arrays, wanted, call[d][1].my, call[d][1].req.user)
      BY <1>1, <2>3, <3>1 DEF OwnedBy
    <3> QED BY <1>2, <3>1, <3>2, <3>3
  <2> QED BY <1>0, <2>1, <2>2, <2>3 DEF OwnedBy
<1>4. \A c \in Clients : ViewOf(c)' BY <1>0, ViewOther DEF CartsOK
<1>5. ASSUME NEW u \in Users PROVE ExactFor(u)'
  <2>1. ExactFor(u) BY DEF CartsOK
  <2>2. \A d \in Clients : Adding(call'[d], u) => call'[d] = call[d] BY DEF Rests, Adding
  <2>3. ASSUME NEW d \in Clients, Adding(call'[d], u), NEW b \in Clients, Adding(call[b], u)
        PROVE  Adding(call'[b], u)
    BY <2>2, <2>3 DEF Adding
  <2>4. /\ _localGetCart(u)' = _localGetCart(u) /\ \A s : Items(s)' = Items(s)
    BY <1>0, Zenon DEF _localGetCart, GetState, Has, Items
  <2>5. ASSUME NEW d \in Clients, Adding(call'[d], u), u \notin raced
        PROVE  FrameExact(call[d][1], u, \A b \in Clients \ {d} : ~Adding(call[b], u))'
    <3>1. call'[d] = call[d] BY <2>2, <2>5
    <3>2. FrameExact(call[d][1], u, \A b \in Clients \ {d} : ~Adding(call[b], u))
      BY <2>1, <2>5, <3>1 DEF ExactFor
    <3>3. (\A b \in Clients \ {d} : ~Adding(call'[b], u)) => \A b \in Clients \ {d} : ~Adding(call[b], u)
      BY <2>3, <2>5
    <3> QED BY <1>0, <2>4, <3>1, <3>2, <3>3, Zenon DEF FrameExact, ItemOf, Items
  <2>6. Items(_localGetCart(u))' = Items(_localGetCart(u)) BY <1>0, <2>4 DEF Items
  <2> QED BY <1>0, <2>1, <2>5, <2>6 DEF ExactFor
<1>6. owner \in [1 .. Len(arrays') -> Users] BY <1>0, <1>1
<1> QED BY <1>3, <1>4, <1>5, <1>6 DEF CartsOK

LEMMA CartsStep == TypesOK /\ CartsOK /\ [Next]_vars => CartsOK'
<1> SUFFICES ASSUME TypesOK, CartsOK, [Next]_vars PROVE CartsOK' OBVIOUS
<1>0. TypesOK' /\ CallsOK BY NextCases DEF TypesOK
<1>1. PICK X : X = wanted' OBVIOUS
<1>2. \A u \in Users : wanted[u] \subseteq X[u] BY <1>1, WantedGrows
<1>3. CASE UNCHANGED <<up, call, answer, state>>
  <2>1. \A d \in Clients : Rests(d) BY <1>3 DEF Rests
  <2> QED BY <1>0, <1>1, <1>2, <1>3, <2>1, CartsElse
<1>4. ASSUME UNCHANGED state, NEW lost \in SUBSET Clients, Stopping(lost) PROVE CartsOK'
  <2>1. ASSUME NEW d \in Clients PROVE Rests(d)
    <3>1. CASE d \in lost
      <4>1. Over(d, FALSE, <<>>) BY <1>4, <3>1 DEF Stopping
      <4>2. call'[d] = <<>> /\ answer'[d].ok = FALSE BY <4>1 DEF Over
      <4> QED BY <4>2 DEF Rests
    <3>2. CASE d \notin lost BY <1>4, <3>2 DEF Rests, Stopping
    <3> QED BY <3>1, <3>2
  <2>2. ASSUME NEW d \in Clients, NEW b \in Clients, call[d] # <<>>, call[d][1].ep = "add_item",
               call[b] # <<>>, call[b][1].ep = "add_item", call'[d] = call[d]
        PROVE  call'[b] = call[b]
    BY <1>4, <2>2 DEF Stopping, Over
  <2> QED BY <1>0, <1>1, <1>2, <1>4, <2>1, <2>2, CartsElse
<1>5. ASSUME NEW c \in Clients, Asked(c), UNCHANGED <<up, answer, state>> PROVE CartsOK'
  <2>1. PICK e \in Entries : \E q \in RequestOf[e] : Asks(c, e, q) BY <1>5 DEF Asked
  <2>2. PICK q \in RequestOf[e] : Asks(c, e, q) BY <2>1
  <2>3. /\ call[c] = <<>> /\ call'[c][1].at = "start"
        /\ \A d \in Clients : d # c => call'[d] = call[d]
    <3>1. /\ call[c] = <<>> /\ call'[c][1] = Frame(e, q)
          /\ \A d \in Clients : d # c => call'[d] = call[d]
      BY <1>0, <2>2, AsksStep
    <3>2. Frame(e, q).at = "start" BY DEF Frame
    <3> QED BY <3>1, <3>2
  <2>4. \A d \in Clients : Rests(d) BY <1>5, <2>3 DEF Rests
  <2> QED BY <1>0, <1>1, <1>2, <1>5, <2>3, <2>4, CartsElse
<1>6. ASSUME NEW c \in Clients, Handled(c), Others(c), Outcome(c) PROVE CartsOK'
  <2>1. PICK owner \in [1 .. Len(arrays) -> Users] : OwnedBy(owner) BY DEF CartsOK
  <2>2. \E next \in [1 .. Len(arrays') -> Users] : OwnedBy(next)'
    BY <1>0, <1>1, <1>2, <1>6, <2>1, OwnedStep
  <2>3. \A u \in Users : ExactFor(u)' BY <1>0, <1>6, <2>1, ExactHandled DEF CartsOK
  <2>4. ViewOf(c)' BY <1>0, <1>1, <1>2, <1>6, <2>1, ViewHandled DEF CartsOK
  <2>5. ASSUME NEW d \in Clients, d # c PROVE ViewOf(d)'
    <3>1. Rests(d) BY <1>6, <2>5 DEF Others, Rests
    <3> QED BY <1>0, <1>1, <1>2, <3>1, ViewOther DEF CartsOK
  <2> QED BY <2>2, <2>3, <2>4, <2>5 DEF CartsOK
<1> QED BY <1>3, <1>4, <1>5, <1>6, NextCases

LEMMA InitCarts == Init => CartsOK
<1> SUFFICES ASSUME Init PROVE CartsOK OBVIOUS
<1>0. TypesOK /\ CallsOK /\ StatesOK /\ FitsOK BY InitOK DEF TypesOK
<1>1. PICK lists \in Stored : \E owners : Starts(lists, owners) BY InitStarts
<1>2. PICK owners : Starts(lists, owners) BY <1>1
<1>3. /\ DOMAIN lists \subseteq Users /\ \A u \in DOMAIN lists : lists[u] \in Seq(CartItem)
      /\ arrays \in Seq(Array) /\ owners \in [1 .. Len(arrays) -> DOMAIN lists]
      /\ \A i \in 1 .. Len(arrays) : arrays[i].items = lists[owners[i]]
      /\ StateOf(carts, Users, Slice) /\ DOMAIN carts = DOMAIN lists
      /\ \A u \in DOMAIN lists : /\ carts[u].array \in 1 .. Len(arrays) /\ owners[carts[u].array] = u
                                 /\ carts[u].len = Len(lists[u]) /\ Len(lists[u]) \in Nat
      /\ log = [u \in Users |-> IF u \in DOMAIN lists THEN lists[u] ELSE <<>>]
  BY <1>2, LenProperties DEF Starts
<1>4. \A c \in Clients : call[c] = <<>> /\ answer[c].ok = FALSE BY DEF Init, InitServices
<1>5. ASSUME NEW u \in DOMAIN lists
      PROVE  ItemsAsked(wanted[u], lists[u])
  <2>1. lists[u] \in [1 .. Len(lists[u]) -> CartItem] BY <1>3, LenProperties
  <2>2. ASSUME NEW i \in 1 .. Len(lists[u]) PROVE lists[u][i] \in wanted[u]
    <3>1. lists[u][i] \in ToSet(lists[u]) BY <2>1 DEF ToSet
    <3> QED BY <1>3, <3>1 DEF wanted, AskedFor
  <2> QED BY <2>2 DEF ItemsAsked, KnownProducts, Known
<1>6. OwnedBy(owners)
  <2>1. Owned(owners, arrays, wanted) BY <1>3, <1>5 DEF Owned, ItemsAsked
  <2>2. \A u \in DOMAIN carts : Belongs(owners, arrays, wanted, carts[u], u)
    BY <1>3, <1>5 DEF Belongs, ItemsAsked
  <2> QED BY <1>4, <2>1, <2>2 DEF OwnedBy
<1>7. ASSUME NEW u \in Users PROVE ExactFor(u)
  <2>1. Items(_localGetCart(u)) = log[u]
    <3>1. CASE u \notin DOMAIN lists
      BY <1>3, <3>1 DEF _localGetCart, Has, Items, Empty
    <3>2. CASE u \in DOMAIN lists
      <4>1. /\ _localGetCart(u) = carts[u] /\ log[u] = lists[u]
            /\ arrays[carts[u].array].items = lists[u]
        BY <1>3, <3>2 DEF _localGetCart, Has, GetState
      <4>2. SubSeq(lists[u], 1, Len(lists[u])) = lists[u] BY <1>3, <3>2, SubSeqFull
      <4>3. Len(lists[u]) = 0 => lists[u] = <<>> BY <1>3, <3>2, EmptySeq
      <4> QED BY <1>3, <3>2, <4>1, <4>2, <4>3 DEF Items
    <3> QED BY <3>1, <3>2
  <2> QED BY <1>4, <2>1 DEF ExactFor, Adding
<1>8. owners \in [1 .. Len(arrays) -> Users] BY <1>3
<1> QED BY <1>4, <1>6, <1>7, <1>8 DEF CartsOK, ViewOf

(* Unless requests to add to it overlapped, a cart has what was added to   *)
(* it, in order; and what is answered of a cart was asked for by its user, *)
(* though appends to copies of a cart write into one array (AddItem and    *)
(* GetCart in src/app/internal/boutique/cart.go).                          *)
THEOREM CartsAlwaysKept == Spec => []CartsKept
<1>1. TypesOK /\ CartsOK => CartsKept
  <2> SUFFICES ASSUME TypesOK, CartsOK PROVE CartsKept OBVIOUS
  <2>1. \A u \in Users \ raced : Items(_localGetCart(u)) = log[u] BY DEF CartsOK, ExactFor
  <2>2. ASSUME NEW c \in Clients, answer[c].ok, answer[c].ep = "ro_view_cart",
               NEW i \in DOMAIN answer[c].res.c.items
        PROVE  /\ \E a \in AskedFor(answer[c].req.user) : a.product = answer[c].res.c.items[i].product
               /\ \E a \in AskedFor(answer[c].req.user) : a.quantity = answer[c].res.c.items[i].quantity
    <3> DEFINE items == answer[c].res.c.items
               u == answer[c].req.user
    <3>1. ItemsAsked(wanted[u], items) BY <2>2 DEF CartsOK, ViewOf
    <3>2. answer[c].req \in RequestOf["ro_view_cart"] /\ answer[c].res \in ReplyTo("ro_view_cart")
      BY <2>2 DEF TypesOK, CallsOK
    <3>3. u \in Users
      <4>1. RequestOf["ro_view_cart"] = ViewCartRequest BY DEF RequestOf
      <4> QED BY <3>2, <4>1 DEF ViewCartRequest
    <3>4. items \in Seq(CartItem)
      <4>1. ReplyTo("ro_view_cart") = ViewCartResponse BY Names DEF ReplyTo, ResponseOf
      <4> QED BY <3>2, <4>1 DEF ViewCartResponse, Cart
    <3>5. i \in 1 .. Len(items) BY <2>2, <3>4, LenProperties
    <3> HIDE DEF items, u
    <3>6. /\ \E a \in AskedFor(u) : a.product = items[i].product
          /\ \E a \in AskedFor(u) : a.quantity = items[i].quantity
      BY <3>1, <3>3, <3>5 DEF ItemsAsked, KnownProducts, Known, wanted
    <3> QED BY <3>6 DEF items, u
  <2> QED BY <2>1, <2>2 DEF CartsKept
<1> QED BY AlwaysTyped, InitCarts, CartsStep, <1>1, PTL DEF Spec
=============================================================================
