------------------------------- MODULE Boutique -------------------------------
(***************************************************************************)
(* The boutique (src/app/internal/boutique, src/app/cmd/boutique): carts,  *)
(* a catalogue, currencies, and orders, which read the cart, price it in   *)
(* the user's currency, charge the card, ship and empty the cart.          *)
(*                                                                         *)
(* Carts are Go values in a sync.Map whose items are slices: appending to  *)
(* a copy of a cart writes into the array that the stored cart uses, too,  *)
(* if it has room. arrays is that memory.                                  *)
(***************************************************************************)
EXTENDS Services, Integers, SequencesExt

CONSTANTS Visitors,      \* clients that do more than add to a cart
          Users, ProductIds,
          Wanted,        \* Wanted[c]: the items that client c adds
          Payments,      \* currencies and cards that orders are paid with
          Currencies,    \* the codes; "USD" is one
          InitialRates,  \* the rates of the data file, <<num, den>> for each code
          NewRates,      \* currencies that clients set
          Catalog,       \* the products of the data file, in its order
          NewProducts,   \* products that clients add
          CatalogSize,   \* 1000 in the code
          PageSizes,     \* numbers of products a home page asks for
          NanosMod,      \* fractions in a unit of money, 10^9 in the code
          ItemShipping,  \* what shipping an item costs, in cents: 899
          Truncated,     \* item counts n for which 8.99 * n is a cent less when
                         \* its fraction is cut off: 3, 6, 7, 9, 12...
          ThisMonth,     \* year * 12 + month
          Stored,        \* carts that exist at the start, sequences of items
          Failing        \* services that may stop

VARIABLES carts,         \* cart: [array, len] for each user
          arrays,        \* [items, cap] for each array; cart 0 has none
          products, rates,
          payments,      \* payments[c]: amount charged for c's order, and the order
          parcels,       \* parcels[c]: the items shipped for c's order
          log,           \* log[u]: the items added since u's cart was emptied
          raced          \* carts whose read and write were overlapped by a write
                         \* since they were emptied, "catalog" for the catalogue

cartVars == <<carts, arrays, log>>
state == <<cartVars, products, rates, payments, parcels, raced>>
vars == <<svars, state>>

(* Both the frontend and the currency service have a path /set_currency;   *)
(* frontend_set_currency is the frontend's.                                *)
cartMain == {"add_item", "ro_get_cart", "empty_cart"}
checkoutMain == {"place_order"}
currencyMain == {"set_currency", "init_currencies", "ro_get_currencies", "ro_convert_currency"}
emailMain == {"ro_send_email"}
frontendMain == {"ro_home", "frontend_set_currency", "ro_browse_product", "add_to_cart",
                 "ro_view_cart", "checkout"}
paymentMain == {"charge"}
productCatalogMain == {"add_product", "add_products", "ro_get_product", "ro_search_products",
                       "ro_fetch_catalog"}
recommendationsMain == {"ro_get_recommendations"}
shippingMain == {"ro_get_quote", "ship_order"}
Endpoints ==
  [cart |-> cartMain, checkout |-> checkoutMain, currency |-> currencyMain,
   email |-> emailMain, frontend |-> frontendMain, payment |-> paymentMain,
   productcatalog |-> productCatalogMain, recommendations |-> recommendationsMain,
   shipping |-> shippingMain]

-----------------------------------------------------------------------------
(* Values and messages. *)
Money == [currency : Currencies, units : Nat, nanos : 0..(NanosMod - 1)]
NoPrice == [currency |-> "none", units |-> 0, nanos |-> 0]   \* a nil *Money
Rate == (Nat \ {0}) \X (Nat \ {0})   \* in euros; Convert divides by it
Currency == [code : Currencies, rate : Rate]
CartItem == [product : ProductIds, quantity : Nat]
Cart == [user : Users, items : Seq(CartItem)]
Product == [id : ProductIds, price : Money]
NoProduct == [id |-> "none", price |-> NoPrice]
OrderItem == [item : CartItem, cost : Money]
CreditCard == [type : STRING, expires : Nat]
OrderResult == [shippingCost : Money, items : Seq(OrderItem)]

HomeRequest == [user : Users, size : Nat]
HomeResponse == [products : Seq(Product), cart : Cart, currencies : Seq(Currency)]
FrontendSetCurrencyRequest == [cur : Currency]
FrontendSetCurrencyResponse == [text : {"OK"}]
BrowseProductRequest == [product : ProductIds]
BrowseProductResponse == [prod : Product \cup {NoProduct}]
AddToCartRequest == [user : Users, product : ProductIds, quantity : Nat]
AddToCartResponse == [ok : BOOLEAN]
ViewCartRequest == [user : Users]
ViewCartResponse == [c : Cart]
CheckoutRequest == [user : Users, currency : Currencies, card : CreditCard]
CheckoutResponse == [res : OrderResult]
AddProductRequest == [product : Product]
AddProductResponse == [product : ProductIds]
AddProductsRequest == [products : Seq(Product)]
AddProductsResponse == [text : {"OK"}]
GetProductRequest == [product : ProductIds]
GetProductResponse == [product : Product \cup {NoProduct}]
SearchProductsRequest == [query : SUBSET ProductIds]
SearchProductsResponse == [products : Seq(Product)]
FetchCatalogRequest == [size : Nat]
FetchCatalogResponse == [catalog : Seq(Product)]
GetRecommendationsRequest == [products : Seq(ProductIds)]
GetRecommendationsResponse == [products : Seq(ProductIds)]
SetCurrencySupportRequest == [currency : Currency]
SetCurrencySupportResponse == [ok : BOOLEAN]
ConvertCurrencyRequest == [amount : Money, to : Currencies]
ConvertCurrencyResponse == [amount : Money]
GetSupportedCurrenciesRequest == {<<>>}
GetSupportedCurrenciesResponse == [currencies : Seq(Currency)]
InitCurrencyRequest == [currencies : Seq(Currency)]
InitCurrencyResponse == [text : {"OK"}]
GetQuoteRequest == [items : Seq(CartItem)]
GetQuoteResponse == [cost : Money]
ShipOrderRequest == [items : Seq(CartItem)]
ShipOrderResponse == [tracking : Clients]
AddItemRequest == [user : Users, product : ProductIds, quantity : Nat]
AddItemResponse == [ok : BOOLEAN]
GetCartRequest == [user : Users]
GetCartResponse == [cart : Cart]
EmptyCartRequest == [user : Users]
EmptyCartResponse == [ok : BOOLEAN]
ChargeRequest == [amount : Money, card : CreditCard]
ChargeResponse == [error : {"", "invalid card type", "expired credit card"}]
PlaceOrderRequest == [user : Users, currency : Currencies, card : CreditCard]
PlaceOrderResponse == [order : OrderResult]
SendOrderConfirmationRequest == [order : OrderResult]
SendOrderConfirmationResponse == [ok : BOOLEAN]

-----------------------------------------------------------------------------
(* Money. Go's / and % round toward zero. *)
Quo(a, b) == IF a >= 0 THEN a \div b ELSE -((-a) \div b)
Rem(a, b) == a - b * Quo(a, b)

(* Mutant: fractions are added up and never carried. *)
SumUncarried(l, r) ==
  [currency |-> l.currency, units |-> l.units + r.units, nanos |-> l.nanos + r.nanos]

Sum(l, r) ==
  LET units == l.units + r.units
      nanos == l.nanos + r.nanos
      sum(u, n) == [currency |-> l.currency, units |-> u, nanos |-> n]
  IN CASE \/ units = 0 /\ nanos = 0
          \/ units > 0 /\ nanos >= 0
          \/ units < 0 /\ nanos <= 0 -> sum(units + Quo(nanos, NanosMod), Rem(nanos, NanosMod))
       [] units > 0 /\ nanos < 0     -> sum(units - 1, nanos + NanosMod)
       [] OTHER                      -> sum(units + 1, nanos - NanosMod)

(* m is returned as it is for n = 0, too. *)
MultiplySlow(m, n) ==
  LET out[k \in 0..n] == IF k <= 1 THEN m ELSE Sum(out[k - 1], m) IN out[n]

(* The amounts are quotients <<numerator, denominator>>. A whole unit is   *)
(* added to the fractions, whatever they are, so every carry adds one.     *)
_carry(units, nanos) ==
  LET n == nanos[1] + NanosMod * nanos[2]
      rounded == (2 * n + nanos[2]) \div (2 * nanos[2])
  IN [units |-> (units[1] \div units[2]) + (n \div (nanos[2] * NanosMod)),
      nanos |-> rounded % NanosMod]

Converted(amount, from, to, code) ==
  LET euros == _carry(<<amount.units * from[2], from[1]>>, <<amount.nanos * from[2], from[1]>>)
      result == _carry(<<euros.units * to[1], to[2]>>, <<euros.nanos * to[1], to[2]>>)
  IN [currency |-> code, units |-> result.units, nanos |-> result.nanos]

CreateQuoteFromCount(count) ==
  LET cents == ItemShipping * count - (IF count \in Truncated THEN 1 ELSE 0)
  IN [currency |-> "USD", units |-> cents \div 100, nanos |-> (cents % 100) * (NanosMod \div 100)]

-----------------------------------------------------------------------------
(* Currencies. *)
InitAllCurrencies == InitialRates

SetCurrencySupport(c, currency) ==
  /\ rates' = SetState(rates, currency.code, currency.rate)
  /\ Return(c, [ok |-> TRUE])
  /\ UNCHANGED <<cartVars, products, payments, parcels, raced>>

InitCurrencies(c, currencies) ==
  LET left == IF At(c, "start") THEN currencies ELSE My(c).left IN
  /\ UNCHANGED <<cartVars, products, payments, parcels, raced>>
  /\ \/ /\ left # <<>>
        /\ rates' = SetState(rates, Head(left).code, Head(left).rate)
        /\ Goto(c, "next", [left |-> Tail(left)])
     \/ /\ left = <<>>
        /\ Return(c, [text |-> "OK"])
        /\ UNCHANGED rates

(* The two rates are looked up one after the other. *)
ConvertCurrency(c, amount, to) ==
  /\ UNCHANGED state
  /\ \/ /\ At(c, "start")
        /\ IF Has(rates, amount.currency) THEN Goto(c, "gotFrom", [rate |-> rates[amount.currency]])
                                          ELSE Panic(c)
     \/ /\ At(c, "gotFrom")
        /\ IF Has(rates, to)
           THEN Return(c, [amount |-> Converted(amount, My(c).rate, rates[to], to)])
           ELSE Panic(c)

(* The map may change while it is ranged over. *)
GetSupportedCurrencies(c) ==
  LET found == IF At(c, "start") THEN <<>> ELSE My(c).found
      left == DOMAIN rates \ {found[i].code : i \in DOMAIN found}
  IN /\ UNCHANGED state
     /\ \/ left = {} /\ Return(c, [currencies |-> found])
        \/ \E code \in left :
             Goto(c, "ranging", [found |-> Append(found, [code |-> code, rate |-> rates[code]])])

setCurrency(c) == Serving(c, "set_currency") /\ SetCurrencySupport(c, Req(c).currency)
initCurrencies(c) == Serving(c, "init_currencies") /\ InitCurrencies(c, Req(c).currencies)
getCurrencies(c) == Serving(c, "ro_get_currencies") /\ GetSupportedCurrencies(c)
convertCurrency(c) ==
  Serving(c, "ro_convert_currency") /\ ConvertCurrency(c, Req(c).amount, Req(c).to)

-----------------------------------------------------------------------------
(* The catalogue. allProducts = append(allProducts, ...) reads the slice   *)
(* and writes it back without a lock. (Two that share an array leave one   *)
(* of their two products in it, like two that do not.)                     *)
InitAllProducts == Catalog

adds(c) == ~Idle(c) /\ (Serving(c, "add_product") \/ Serving(c, "add_products")) /\ ~At(c, "start")
AppendProduct(c, list, product) ==
  /\ products' = Append(list, product)
  /\ raced' = raced \cup (IF \E d \in Clients \ {c} : adds(d) THEN {"catalog"} ELSE {})

AddProduct(c, product) ==
  /\ UNCHANGED <<cartVars, rates, payments, parcels>>
  /\ \/ At(c, "start") /\ Goto(c, "read", [list |-> products]) /\ UNCHANGED <<products, raced>>
     \/ At(c, "read") /\ AppendProduct(c, My(c).list, product) /\ Return(c, [product |-> product.id])

(* Mutant: the room that is left is not looked at. *)
FittingAll(new, size) == IF size < CatalogSize THEN new ELSE <<>>
Fitting(new, size) ==
  LET rest == IF Len(new) < CatalogSize - size THEN Len(new) ELSE CatalogSize - size
  IN IF size < CatalogSize THEN SubSeq(new, 1, rest) ELSE <<>>

AddProducts(c, new) ==
  /\ UNCHANGED <<cartVars, rates, payments, parcels>>
  /\ \/ At(c, "start")
        /\ Goto(c, "next", [left |-> Fitting(new, Len(products))])
        /\ UNCHANGED <<products, raced>>
     \/ At(c, "next") /\ My(c).left = <<>> /\ Return(c, [text |-> "OK"])
        /\ UNCHANGED <<products, raced>>
     \/ At(c, "next") /\ My(c).left # <<>>
        /\ Goto(c, "read", [left |-> My(c).left, list |-> products])
        /\ UNCHANGED <<products, raced>>
     \/ At(c, "read")
        /\ AppendProduct(c, My(c).list, Head(My(c).left))
        /\ Goto(c, "next", [left |-> Tail(My(c).left)])

(* A query stands for the products whose name or description contains it. *)
Found(query) ==
  LET found[i \in 0..Len(products)] ==
        IF i = 0 THEN <<>>
        ELSE IF products[i].id \in query THEN Append(found[i - 1], products[i])
        ELSE found[i - 1]
  IN found[Len(products)]
GetProduct(c, id) ==
  /\ UNCHANGED state
  /\ Return(c, [product |-> IF Found({id}) = <<>> THEN NoProduct ELSE Head(Found({id}))])

SearchProducts(c, query) == UNCHANGED state /\ Return(c, [products |-> Found(query)])

FetchCatalog(c, size) ==
  UNCHANGED state /\ Return(c, [catalog |-> IF size < Len(products) THEN SubSeq(products, 1, size)
                                                                    ELSE products])

addProduct(c) == Serving(c, "add_product") /\ AddProduct(c, Req(c).product)
addProducts(c) == Serving(c, "add_products") /\ AddProducts(c, Req(c).products)
getProduct(c) == Serving(c, "ro_get_product") /\ GetProduct(c, Req(c).product)
searchProducts(c) == Serving(c, "ro_search_products") /\ SearchProducts(c, Req(c).query)
fetchCatalog(c) == Serving(c, "ro_fetch_catalog") /\ FetchCatalog(c, Req(c).size)

(* The request for the catalogue leaves its size at zero, so nothing can   *)
(* be recommended, and a capacity of -len(productIds) panics.              *)
GetRecommendations(c, ids) ==
  /\ UNCHANGED state
  /\ \/ At(c, "start")
        /\ Invoke(c, "productcatalog", "ro_fetch_catalog", [size |-> 0], "gotCatalog")
     \/ At(c, "gotCatalog")
        /\ IF Len(Res(c).catalog) < Len(ids) THEN Panic(c) ELSE Return(c, [products |-> <<>>])

getRecommendations(c) ==
  Serving(c, "ro_get_recommendations") /\ GetRecommendations(c, Req(c).products)

-----------------------------------------------------------------------------
(* Carts. A cart's items are a slice: an array, and how much of it is used. *)
(* Array 0 is the empty literal.                                           *)
CartInit == [u \in {} |-> <<>>]
Empty == [array |-> 0, len |-> 0]
Room(cart) == cart.len > 0 /\ cart.len < arrays[cart.array].cap
Items(cart) == IF cart.len = 0 THEN <<>> ELSE SubSeq(arrays[cart.array].items, 1, cart.len)
_localGetCart(user) == IF Has(carts, user) THEN GetState(carts, user) ELSE Empty

(* The cell behind the last item is written, used already or not. *)
Put(cart, item) ==
  arrays' = [arrays EXCEPT ![cart.array].items =
               IF cart.len = Len(@) THEN Append(@, item) ELSE [@ EXCEPT ![cart.len + 1] = item]]

(* Mutant: a cart that has outgrown its array starts over. *)
GrownAfresh(cart, item) ==
  [items |-> [i \in 1..(cart.len + 1) |-> item], cap |-> 2 * (cart.len + 1)]
Grown(cart, item) ==
  [items |-> Append(Items(cart), item), cap |-> IF cart.len = 0 THEN 1 ELSE 2 * cart.len]

holds(c, user) ==
  /\ ~Idle(c)
  /\ Serving(c, "add_item") /\ ~At(c, "start") /\ Req(c).user = user
Held(c, user) == \E d \in Clients \ {c} : holds(d, user)

(* An item is two words: a reader or a second writer may come in between. *)
AddItem(c, user, product, quantity) ==
  LET cart == My(c)
      item == [product |-> product, quantity |-> quantity]
  IN /\ UNCHANGED <<products, rates, payments, parcels>>
     /\ \/ /\ At(c, "start")
           /\ Goto(c, "loaded", _localGetCart(user))
           /\ UNCHANGED <<cartVars, raced>>
        \/ /\ At(c, "loaded") /\ ~Room(cart)
           /\ arrays' = Append(arrays, Grown(cart, item))
           /\ Goto(c, "appended", [array |-> Len(arrays) + 1, len |-> cart.len + 1])
           /\ UNCHANGED <<carts, log, raced>>
        \/ /\ At(c, "loaded") /\ Room(cart)
           /\ LET cells == arrays[cart.array].items
                  old == IF cart.len < Len(cells) THEN cells[cart.len + 1].quantity ELSE 0
              IN Put(cart, [item EXCEPT !.quantity = old])
           /\ Goto(c, "wroteProduct", cart)
           /\ UNCHANGED <<carts, log, raced>>
        \/ /\ At(c, "wroteProduct")
           /\ arrays' = [arrays EXCEPT ![cart.array].items[cart.len + 1].quantity = quantity]
           /\ Goto(c, "appended", [cart EXCEPT !.len = @ + 1])
           /\ UNCHANGED <<carts, log, raced>>
        \/ /\ At(c, "appended")
           /\ carts' = SetState(carts, user, cart)
           /\ log' = [log EXCEPT ![user] = Append(@, item)]
           /\ raced' = IF Held(c, user) THEN raced \cup {user} ELSE raced
           /\ Return(c, [ok |-> TRUE])
           /\ UNCHANGED arrays

(* The items are read when the response is encoded. *)
GetCart(c, user) ==
  /\ UNCHANGED state
  /\ \/ At(c, "start") /\ Goto(c, "loaded", _localGetCart(user))
     \/ At(c, "loaded") /\ Return(c, [cart |-> [user |-> user, items |-> Items(My(c))]])

(* The cart that is read only gives the user's id back. *)
EmptyCart(c, user) ==
  /\ carts' = SetState(carts, user, Empty)
  /\ log' = [log EXCEPT ![user] = <<>>]
  /\ raced' = IF Held(c, user) THEN raced \cup {user} ELSE raced \ {user}
  /\ Return(c, [ok |-> TRUE])
  /\ UNCHANGED <<arrays, products, rates, payments, parcels>>

addItemToCart(c) ==
  Serving(c, "add_item") /\ AddItem(c, Req(c).user, Req(c).product, Req(c).quantity)
getCart(c) == Serving(c, "ro_get_cart") /\ GetCart(c, Req(c).user)
emptyCart(c) == Serving(c, "empty_cart") /\ EmptyCart(c, Req(c).user)

-----------------------------------------------------------------------------
(* Shipping, payment and email. payments and parcels keep what the world   *)
(* outside learns, payments also the order that was paid.                  *)
GetQuote(c, items) ==
  UNCHANGED state /\ Return(c, [cost |-> CreateQuoteFromCount(Len(items))])

ShipOrder(c, items) ==
  /\ parcels' = SetState(parcels, c, items)
  /\ Return(c, [tracking |-> c])
  /\ UNCHANGED <<cartVars, products, rates, payments, raced>>

ErrorOf(card) ==
  IF card.type \notin {"visa", "mastercard"} THEN "invalid card type"
  ELSE IF ThisMonth > card.expires THEN "expired credit card" ELSE ""

Charge(c, amount, card) ==
  LET order == call[c][2].my IN
  /\ payments' = IF ErrorOf(card) = "" THEN SetState(payments, c, [amount |-> amount, order |-> order])
                                       ELSE payments
  /\ Return(c, [error |-> ErrorOf(card)])
  /\ UNCHANGED <<cartVars, products, rates, parcels, raced>>

SendConfirmation(c) == UNCHANGED state /\ Return(c, [ok |-> TRUE])

getQuote(c) == Serving(c, "ro_get_quote") /\ GetQuote(c, Req(c).items)
shipOrder(c) == Serving(c, "ship_order") /\ ShipOrder(c, Req(c).items)
charge(c) == Serving(c, "charge") /\ Charge(c, Req(c).amount, Req(c).card)
sendEmail(c) == Serving(c, "ro_send_email") /\ SendConfirmation(c)

-----------------------------------------------------------------------------
(* Orders. What is known of an order grows as it is prepared: the items,   *)
(* their costs in the user's currency, what shipping costs.                *)
prepOrderItems(c, items, currency) ==
  LET n == Len(My(c).costs) + 1 IN
  \/ /\ At(c, "prepare") /\ n <= Len(items)
     /\ Invoke(c, "productcatalog", "ro_get_product", [product |-> items[n].product], "gotProduct")
  \/ /\ At(c, "gotProduct")
     /\ IF Res(c).product.price = NoPrice
        THEN Panic(c)
        ELSE Invoke(c, "currency", "ro_convert_currency",
                    [amount |-> Res(c).product.price, to |-> currency], "gotPrice")
  \/ /\ At(c, "gotPrice")
     /\ Goto(c, "prepare", [My(c) EXCEPT !.costs = Append(@, Res(c).amount)])

prepareOrderItemsAndShippingQuoteFromCart(c, user, currency) ==
  \/ At(c, "start") /\ Invoke(c, "cart", "ro_get_cart", [user |-> user], "gotCart")
  \/ At(c, "gotCart") /\ Goto(c, "prepare", [items |-> Res(c).cart.items, costs |-> <<>>])
  \/ prepOrderItems(c, My(c).items, currency)
  \/ /\ At(c, "prepare") /\ Len(My(c).costs) = Len(My(c).items)
     /\ Invoke(c, "shipping", "ro_get_quote", [items |-> My(c).items], "gotQuote")
  \/ /\ At(c, "gotQuote")
     /\ Invoke(c, "currency", "ro_convert_currency",
               [amount |-> Res(c).cost, to |-> currency], "gotShippingCost")

Total(order, shipping, currency) ==
  LET first == Sum([currency |-> currency, units |-> 0, nanos |-> 0], shipping)
      total[i \in 0..Len(order.items)] ==
        IF i = 0 THEN first
        ELSE Sum(total[i - 1], MultiplySlow(order.costs[i], order.items[i].quantity))
  IN total[Len(order.items)]

chargeCard(c, total, card, order) ==
  InvokeWith(c, "payment", "charge", [amount |-> total, card |-> card], "charged", order)

Delivers(c, user) ==
  \/ /\ At(c, "charged")
     /\ IF Res(c).error # "" THEN Panic(c)
        ELSE Invoke(c, "shipping", "ship_order", [items |-> My(c).items], "shipped")
  \/ At(c, "shipped") /\ Invoke(c, "cart", "empty_cart", [user |-> user], "emptied")
  \/ /\ At(c, "emptied")
     /\ Return(c, [order |-> [shippingCost |-> My(c).shipping, items |->
          [i \in DOMAIN My(c).items |-> [item |-> My(c).items[i], cost |-> My(c).costs[i]]]]])

(* Mutant: the error of the payment service is overlooked. *)
PlaceOrderUnpaid(c, user, currency, card) ==
  /\ UNCHANGED state
  /\ \/ prepareOrderItemsAndShippingQuoteFromCart(c, user, currency)
     \/ At(c, "gotShippingCost")
        /\ chargeCard(c, Total(My(c), Res(c).amount, currency), card,
                      [items |-> My(c).items, costs |-> My(c).costs, shipping |-> Res(c).amount])
     \/ At(c, "charged") /\ Res(c).error # ""
        /\ Invoke(c, "shipping", "ship_order", [items |-> My(c).items], "shipped")
     \/ Delivers(c, user)

PlaceOrder(c, user, currency, card) ==
  /\ UNCHANGED state
  /\ \/ prepareOrderItemsAndShippingQuoteFromCart(c, user, currency)
     \/ At(c, "gotShippingCost")
        /\ chargeCard(c, Total(My(c), Res(c).amount, currency), card,
                      [items |-> My(c).items, costs |-> My(c).costs, shipping |-> Res(c).amount])
     \/ Delivers(c, user)

placeOrder(c) ==
  Serving(c, "place_order") /\ PlaceOrder(c, Req(c).user, Req(c).currency, Req(c).card)

-----------------------------------------------------------------------------
(* The frontend. *)
Home(c, user, size) ==
  /\ UNCHANGED state
  /\ \/ At(c, "start") /\ Invoke(c, "currency", "ro_get_currencies", <<>>, "gotCurrencies")
     \/ At(c, "gotCurrencies")
        /\ InvokeWith(c, "cart", "ro_get_cart", [user |-> user], "gotUserCart", [currencies |-> Res(c).currencies])
     \/ At(c, "gotUserCart")
        /\ InvokeWith(c, "productcatalog", "ro_fetch_catalog", [size |-> size],
                      "gotPage", [currencies |-> My(c).currencies, cart |-> Res(c).cart])
     \/ At(c, "gotPage")
        /\ Return(c, [currencies |-> My(c).currencies, cart |-> My(c).cart,
                       products |-> Res(c).catalog])

(* A handler that asks one service and answers from its response. *)
Passes(c, service, endpoint, request, Answer(_)) ==
  /\ UNCHANGED state
  /\ \/ At(c, "start") /\ Invoke(c, service, endpoint, request, "passed")
     \/ At(c, "passed") /\ Return(c, Answer(Res(c)))

FrontendSetCurrency(c, currency) ==
  Passes(c, "currency", "set_currency", [currency |-> currency], LAMBDA res : [text |-> "OK"])
BrowseProduct(c, product) ==
  Passes(c, "productcatalog", "ro_get_product", [product |-> product],
         LAMBDA res : [prod |-> res.product])
AddToCart(c, request) ==
  Passes(c, "cart", "add_item", request, LAMBDA res : [ok |-> res.ok])
ViewCart(c, user) ==
  Passes(c, "cart", "ro_get_cart", [user |-> user], LAMBDA res : [c |-> res.cart])
Checkout(c, request) ==
  Passes(c, "checkout", "place_order", request, LAMBDA res : [res |-> res.order])

home(c) == Serving(c, "ro_home") /\ Home(c, Req(c).user, Req(c).size)
frontendSetCurrency(c) == Serving(c, "frontend_set_currency") /\ FrontendSetCurrency(c, Req(c).cur)
browseProduct(c) == Serving(c, "ro_browse_product") /\ BrowseProduct(c, Req(c).product)
addToCart(c) == Serving(c, "add_to_cart") /\ AddToCart(c, Req(c))
viewCart(c) == Serving(c, "ro_view_cart") /\ ViewCart(c, Req(c).user)
checkout(c) == Serving(c, "checkout") /\ Checkout(c, Req(c))

-----------------------------------------------------------------------------
(* Every client fills carts. *)
Client(c) ==
  /\ UNCHANGED state
  /\ \E u \in Users, w \in Wanted[c] :
       AsksServed(c, "add_to_cart", [user |-> u, product |-> w.product, quantity |-> w.quantity])

Visitor(c) ==
  /\ UNCHANGED state
  /\ \/ \E u \in Users : AsksServed(c, "ro_view_cart", [user |-> u])
     \/ \E u \in Users, n \in PageSizes : AsksServed(c, "ro_home", [user |-> u, size |-> n])
     \/ \E cur \in NewRates : AsksServed(c, "frontend_set_currency", [cur |-> cur])
     \/ AsksServed(c, "init_currencies", [currencies |-> SetToSeq(NewRates)])
     \/ \E p \in ProductIds :
          \/ AsksServed(c, "ro_browse_product", [product |-> p])
          \/ AsksServed(c, "ro_search_products", [query |-> {p}])
     \/ \E ps \in {<<>>} \cup {<<p>> : p \in ProductIds} :
          AsksServed(c, "ro_get_recommendations", [products |-> ps])
     \/ \E u \in Users, p \in Payments :
          AsksServed(c, "checkout", [user |-> u, currency |-> p.currency, card |-> p.card])
     \/ \E p \in NewProducts : AsksServed(c, "add_product", [product |-> p])
     \/ AsksServed(c, "add_products", [products |-> SetToSeq(NewProducts)])
     \/ \E d \in Clients : answer[d].ep = "checkout" /\ answer[d].ok
                           /\ AsksServed(c, "ro_send_email", [order |-> answer[d].res.res])

Stops(service) ==
  /\ service \in Failing
  /\ Stop(service, Endpoints[service])
  /\ UNCHANGED state

Handle(c) ==
  \/ home(c) \/ frontendSetCurrency(c) \/ browseProduct(c) \/ addToCart(c) \/ viewCart(c)
  \/ checkout(c) \/ placeOrder(c) \/ charge(c) \/ getQuote(c) \/ shipOrder(c) \/ sendEmail(c)
  \/ addItemToCart(c) \/ getCart(c) \/ emptyCart(c)
  \/ setCurrency(c) \/ initCurrencies(c) \/ getCurrencies(c) \/ convertCurrency(c)
  \/ addProduct(c) \/ addProducts(c) \/ getProduct(c) \/ searchProducts(c) \/ fetchCatalog(c)
  \/ getRecommendations(c)

(* Stored carts, of users that have added items before, have grown from    *)
(* one item to two, to four.                                               *)
Init ==
  /\ InitServices(Endpoints, {})
  /\ \E lists \in Stored :
       LET owners == SetToSeq(DOMAIN lists) IN
       /\ carts = [u \in DOMAIN lists |->
                     [array |-> CHOOSE i \in DOMAIN owners : owners[i] = u, len |-> Len(lists[u])]]
       /\ arrays = [i \in DOMAIN owners |->
                      [items |-> lists[owners[i]],
                       cap |-> CHOOSE cap \in {1, 2, 4} : cap >= Len(lists[owners[i]])
                                                      /\ cap < 2 * Len(lists[owners[i]])]]
       /\ log = [u \in Users |-> IF u \in DOMAIN lists THEN lists[u] ELSE <<>>]
  /\ products = InitAllProducts /\ rates = InitAllCurrencies
  /\ payments = <<>> /\ parcels = <<>>
  /\ raced = {}

Next ==
  \/ \E s \in Failing : Stops(s)
  \/ \E c \in Visitors : Visitor(c)
  \/ \E c \in Clients : Client(c) \/ Handle(c)

Spec == Init /\ [][Next]_vars

(* The data file and the clients send values of the declared types; rates  *)
(* are not zero, and "catalog" names no user.                              *)
ASSUME BoutiqueAssumption ==
  /\ Visitors \subseteq Clients /\ IsFiniteSet(Clients)
  /\ "catalog" \notin Users
  /\ CatalogSize \in Nat /\ PageSizes \subseteq Nat /\ ThisMonth \in Nat
  /\ NanosMod \in Nat \ {0} /\ ItemShipping \in Nat \ {0} /\ Truncated \subseteq Nat \ {0}
  /\ Failing \subseteq DOMAIN Endpoints
  /\ "USD" \in Currencies /\ StateOf(InitialRates, Currencies, Rate)
  /\ NewRates \subseteq Currency /\ IsFiniteSet(NewRates)
  /\ Catalog \in Seq(Product) /\ Len(Catalog) <= CatalogSize
  /\ NewProducts \subseteq Product /\ IsFiniteSet(NewProducts)
  /\ \A c \in Clients : Wanted[c] \subseteq CartItem
  /\ \A p \in Payments : p.currency \in Currencies /\ p.card \in CreditCard
  /\ \A lists \in Stored :
       /\ DOMAIN lists \subseteq Users /\ IsFiniteSet(DOMAIN lists)
       /\ \A u \in DOMAIN lists : lists[u] \in Seq(CartItem) /\ Len(lists[u]) \in 1..4

-----------------------------------------------------------------------------
RequestOf ==
  [ro_home |-> HomeRequest, frontend_set_currency |-> FrontendSetCurrencyRequest,
   ro_browse_product |-> BrowseProductRequest,
   add_to_cart |-> AddToCartRequest, ro_view_cart |-> ViewCartRequest,
   checkout |-> CheckoutRequest, place_order |-> PlaceOrderRequest,
   add_item |-> AddItemRequest, ro_get_cart |-> GetCartRequest, empty_cart |-> EmptyCartRequest,
   set_currency |-> SetCurrencySupportRequest, init_currencies |-> InitCurrencyRequest,
   ro_get_currencies |-> GetSupportedCurrenciesRequest,
   ro_convert_currency |-> ConvertCurrencyRequest, ro_send_email |-> SendOrderConfirmationRequest,
   charge |-> ChargeRequest, add_product |-> AddProductRequest,
   add_products |-> AddProductsRequest, ro_get_product |-> GetProductRequest,
   ro_search_products |-> SearchProductsRequest, ro_fetch_catalog |-> FetchCatalogRequest,
   ro_get_recommendations |-> GetRecommendationsRequest, ro_get_quote |-> GetQuoteRequest,
   ship_order |-> ShipOrderRequest]

(* The response a handler has when it goes on after a call. *)
ResponseAt ==
  [gotCart |-> GetCartResponse, gotProduct |-> GetProductResponse,
   gotPrice |-> ConvertCurrencyResponse, gotQuote |-> GetQuoteResponse,
   gotShippingCost |-> ConvertCurrencyResponse, charged |-> ChargeResponse,
   shipped |-> ShipOrderResponse, emptied |-> EmptyCartResponse,
   gotCurrencies |-> GetSupportedCurrenciesResponse, gotUserCart |-> GetCartResponse,
   gotPage |-> FetchCatalogResponse, gotCatalog |-> FetchCatalogResponse,
   passed |-> PlaceOrderResponse \cup GetCartResponse \cup AddItemResponse
              \cup GetProductResponse \cup SetCurrencySupportResponse]

ResponseOf ==
  [ro_home |-> HomeResponse, frontend_set_currency |-> FrontendSetCurrencyResponse,
   ro_browse_product |-> BrowseProductResponse,
   add_to_cart |-> AddToCartResponse, ro_view_cart |-> ViewCartResponse,
   checkout |-> CheckoutResponse, init_currencies |-> InitCurrencyResponse,
   ro_send_email |-> SendOrderConfirmationResponse, add_product |-> AddProductResponse,
   add_products |-> AddProductsResponse, ro_search_products |-> SearchProductsResponse,
   ro_get_recommendations |-> GetRecommendationsResponse]

(* Types: requests, responses and stored values have the fields that their *)
(* declarations name, and amounts of money that occur are normalised.      *)
TypeOK ==
  /\ products \in Seq(Product)
  /\ StateOf(rates, Currencies, Rate)
  /\ DOMAIN carts \subseteq Users
  /\ \A u \in DOMAIN carts : Items(carts[u]) \in Seq(CartItem)
  /\ \A c \in Clients :
       /\ \A f \in Handlers(c) : f.req \in RequestOf[f.ep]
       /\ ~Idle(c) /\ Head(call[c]).at \in DOMAIN ResponseAt
            => Res(c) \in ResponseAt[Head(call[c]).at]
       /\ answer[c].ok => answer[c].res \in ResponseOf[answer[c].ep]

(* Unless requests to add to it overlapped since it was last emptied, a    *)
(* cart has exactly the items that were added since, in their order.       *)
(* Overlapping or not, each product and each quantity in a cart, or in one *)
(* that was answered, was asked for by a request for that user.            *)
AskedFor(u) ==
  LET asks(f) == f.ep = "add_to_cart" /\ f.req.user = u IN
  {answer[c].req : c \in {d \in Clients : asks(answer[d])}}
  \cup (UNION {{f.req : f \in {g \in Handlers(c) : asks(g)}} : c \in Clients})
  \cup (UNION {ToSet(lists[u]) : lists \in {s \in Stored : u \in DOMAIN s}})
CartsKept ==
  /\ \A u \in Users \ raced : Items(_localGetCart(u)) = log[u]
  /\ \A c \in Clients : answer[c].ok /\ answer[c].ep = "ro_view_cart" =>
       LET items == answer[c].res.c.items
           asked == AskedFor(answer[c].req.user)
       IN \A i \in DOMAIN items : /\ \E a \in asked : a.product = items[i].product
                                  /\ \E a \in asked : a.quantity = items[i].quantity

Value(m) == m.units * NanosMod + m.nanos
Due(order) ==
  LET due[i \in 0..Len(order.items)] ==
        IF i = 0 THEN Value(order.shipping)
        ELSE LET n == order.items[i].quantity IN
             due[i - 1] + (IF n = 0 THEN 1 ELSE n) * Value(order.costs[i])
  IN due[Len(order.items)]

(* What was shipped was paid: the amount charged is, to the last fraction, *)
(* that of the items in the parcel and of its shipping, in the currency of *)
(* the user. An order that fails has not been charged, unless a service    *)
(* that it still passes after the charge has stopped. (An item of quantity *)
(* 0 is charged once.)                                                     *)
Broken == \E service \in {"frontend", "checkout", "shipping", "cart"} : ~Listening(service)
OrdersPaid ==
  /\ \A c \in DOMAIN parcels : Has(payments, c) /\ payments[c].order.items = parcels[c]
  /\ \A c \in DOMAIN payments : Value(payments[c].amount) = Due(payments[c].order)
  /\ \A c \in Clients : answer[c].ep = "checkout" =>
       IF answer[c].ok
       THEN Has(parcels, c) /\ payments[c].amount.currency = answer[c].req.currency
       ELSE Has(payments, c) => Broken

(* The catalogue keeps the products of the data file, first of all. It     *)
(* does not outgrow its bound by products that are added several at once,  *)
(* unless two requests to add overlapped.                                  *)
CatalogKept ==
  /\ SubSeq(products, 1, Len(Catalog)) = Catalog
  /\ LET single == {c \in Clients : \/ answer[c].ep = "add_product"
                                    \/ ~Idle(c) /\ Serving(c, "add_product")}
     IN "catalog" \in raced \/ Len(products) <= CatalogSize + Cardinality(single)
=============================================================================
