----------------------------- MODULE CartProofs -----------------------------
(***************************************************************************)
(* Cart, for any menu, any coupons, prices and distances.                  *)
(*                                                                         *)
(* With any number of requests (LinesInv): the items, their total and their*)
(* tax are written in one $set, so that they fit together whatever the     *)
(* request has missed since it read.                                       *)
(*                                                                         *)
(* One request after the other (BillInv): what a request read is what is   *)
(* stored, and what it is about to write leaves a right bill (Bill) and    *)
(* the discount that was there, unless it is the write of a coupon.        *)
(***************************************************************************)
EXTENDS Cart, FiniteSetTheorems, TLAPS

----------------------------------------------------------------------------
(* Sums.  The item total is a fold of the community modules; these lemmas  *)
(* are by induction over the subsets of a finite set, put as the existence *)
(* of a minimal counterexample (WFMin), which needs no operator as a       *)
(* parameter.                                                              *)

\* A non-empty set of subsets of a finite set has a minimal member.
LEMMA MinimalSubset ==
  ASSUME NEW S, IsFiniteSet(S), NEW B \in SUBSET (SUBSET S), B # {}
  PROVE  \E m \in B : \A t \in B : t \subseteq m => t = m
  <1>1. IsWellFoundedOn(StrictSubsetOrdering(S), SUBSET S)
    BY FS_StrictSubsetOrderingWellFounded, FS_FiniteSubsetsOfFinite
  <1>2. PICK m \in B : \A t \in B : ~ (<<t, m>> \in StrictSubsetOrdering(S))
    BY <1>1, WFMin
  <1>3. QED
    BY <1>2 DEF StrictSubsetOrdering

\* One element of a set, the one a fold takes first.
First(s) == CHOOSE x \in s : TRUE
\* g gives the sum of f over each subset of S.
Sums(g, f, S) ==
  g = [s \in SUBSET S |-> IF s = {} THEN 0 ELSE f[First(s)] + g[s \ {First(s)}]]

\* The first element of a set is one of it.
LEMMA FirstIsMember == ASSUME NEW s, s # {} PROVE First(s) \in s
  BY DEF First

\* A sum over a set does not depend on the set it is a subset of.
LEMMA SumsAgree ==
  ASSUME NEW f, NEW S, NEW T \in SUBSET S, IsFiniteSet(S),
         NEW g, Sums(g, f, S), NEW h, Sums(h, f, T)
  PROVE  \A s \in SUBSET T : g[s] = h[s]
  <1> DEFINE B == {s \in SUBSET T : g[s] # h[s]}
  <1>1. IsFiniteSet(T)
    BY FS_Subset
  <1>2. CASE B # {}
    <2>1. PICK m \in B : \A t \in B : t \subseteq m => t = m
      <3>1. B \in SUBSET (SUBSET T)
        OBVIOUS
      <3> HIDE DEF B
      <3>2. QED
        BY <1>1, <1>2, <3>1, MinimalSubset
    <2>2. m # {}
      BY DEF Sums
    <2>3. m \ {First(m)} \in SUBSET T /\ m \ {First(m)} # m
      BY <2>2, FirstIsMember
    <2>4. g[m \ {First(m)}] = h[m \ {First(m)}]
      BY <2>1, <2>3
    <2>5. g[m] = h[m]
      <3>1. g[m] = f[First(m)] + g[m \ {First(m)}]
        BY <2>2 DEF Sums
      <3>2. h[m] = f[First(m)] + h[m \ {First(m)}]
        BY <2>2 DEF Sums
      <3>3. QED
        BY <2>4, <3>1, <3>2
    <2>6. QED
      BY <2>5
  <1>3. QED
    BY <1>2

\* The sums over the subsets of a finite set exist.
LEMMA SumsExist ==
  ASSUME NEW f, NEW S, IsFiniteSet(S)
  PROVE  \E g : Sums(g, f, S)
  <1> DEFINE B == {T \in SUBSET S : ~ \E g : Sums(g, f, T)}
  <1>1. CASE B # {}
    <2>1. PICK m \in B : \A t \in B : t \subseteq m => t = m
      <3>1. B \in SUBSET (SUBSET S)
        OBVIOUS
      <3> HIDE DEF B
      <3>2. QED
        BY <1>1, <3>1, MinimalSubset
    <2> DEFINE G(T) == CHOOSE g : Sums(g, f, T)
    <2>2. \A T \in SUBSET m : T # m => Sums(G(T), f, T)
      BY <2>1
    <2> DEFINE rest(s) == s \ {First(s)}
               h == [s \in SUBSET m |-> IF s = {} THEN 0 ELSE f[First(s)] + G(rest(s))[rest(s)]]
    <2>3. ASSUME NEW s \in SUBSET m, s # {}
          PROVE  h[rest(s)] = G(rest(s))[rest(s)]
      <3> DEFINE t == rest(s)
      <3>1. t \in SUBSET m /\ t # m
        BY <2>3, FirstIsMember
      <3>2. Sums(G(t), f, t) /\ IsFiniteSet(t)
        <4>1. IsFiniteSet(t)
          BY <3>1, FS_Subset
        <4>2. QED
          BY <2>2, <3>1, <4>1
      <3>3. CASE t = {}
        <4>1. h[t] = 0
          BY <3>1, <3>3
        <4>2. G(t)[t] = 0
          BY <3>2, <3>3 DEF Sums
        <4>3. QED
          BY <4>1, <4>2
      <3>4. CASE t # {}
        <4>1. rest(t) \in SUBSET t /\ rest(t) # m
          BY <3>1, <3>4, FirstIsMember
        <4>2. Sums(G(rest(t)), f, rest(t))
          BY <2>2, <3>1, <4>1
        <4>3. G(t)[rest(t)] = G(rest(t))[rest(t)]
          BY <3>2, <4>1, <4>2, SumsAgree
        <4>4. G(t)[t] = f[First(t)] + G(t)[rest(t)]
          BY <3>2, <3>4 DEF Sums
        <4>5. h[t] = f[First(t)] + G(rest(t))[rest(t)]
          BY <3>1, <3>4
        <4>6. QED
          BY <4>3, <4>4, <4>5
      <3>5. QED
        BY <3>3, <3>4
    <2>4. \A s \in SUBSET m : h[s] = IF s = {} THEN 0 ELSE f[First(s)] + h[rest(s)]
      <3>1. \A s \in SUBSET m :
              h[s] = IF s = {} THEN 0 ELSE f[First(s)] + G(rest(s))[rest(s)]
        OBVIOUS
      <3> HIDE DEF h, G, rest
      <3>2. QED
        BY <2>3, <3>1
    <2>5. Sums(h, f, m)
      <3>1. h = [s \in SUBSET m |-> h[s]]
        OBVIOUS
      <3> HIDE DEF h
      <3>2. QED
        BY <2>4, <3>1 DEF Sums
    <2>6. QED
      BY <2>5
  <1>2. QED
    BY <1>1

\* The sum of a function over its domain is the sum of these.
LEMMA SumIsOneOfThem ==
  ASSUME NEW f, IsFiniteSet(DOMAIN f)
  PROVE  \E g : Sums(g, f, DOMAIN f) /\ SumFunction(f) = g[DOMAIN f]
  <1> DEFINE g == CHOOSE g : Sums(g, f, DOMAIN f)
  <1>1. Sums(g, f, DOMAIN f)
    BY SumsExist
  <1>2. SumFunction(f) = g[DOMAIN f]
    BY DEF SumFunction, SumFunctionOnSet, FoldFunctionOnSet, MapThenFoldSet, Sums, First
  <1>3. QED
    BY <1>1, <1>2

\* A sum of integers is one.
LEMMA SumType ==
  ASSUME NEW f, IsFiniteSet(DOMAIN f), \A x \in DOMAIN f : f[x] \in Int
  PROVE  SumFunction(f) \in Int
  <1>1. PICK g : Sums(g, f, DOMAIN f) /\ SumFunction(f) = g[DOMAIN f]
    BY SumIsOneOfThem
  <1> DEFINE B == {s \in SUBSET (DOMAIN f) : g[s] \notin Int}
  <1>2. CASE B # {}
    <2>1. PICK m \in B : \A t \in B : t \subseteq m => t = m
      <3>1. B \in SUBSET (SUBSET (DOMAIN f))
        OBVIOUS
      <3> HIDE DEF B
      <3>2. QED
        BY <1>2, <3>1, MinimalSubset
    <2>2. m # {}
      BY <1>1 DEF Sums
    <2>3. m \ {First(m)} \in SUBSET (DOMAIN f) /\ m \ {First(m)} # m /\ First(m) \in DOMAIN f
      BY <2>2, FirstIsMember
    <2>4. g[m \ {First(m)}] \in Int
      BY <2>1, <2>3
    <2>5. g[m] = f[First(m)] + g[m \ {First(m)}]
      BY <1>1, <2>2 DEF Sums
    <2>6. QED
      BY <2>3, <2>4, <2>5
  <1>3. QED
    BY <1>1, <1>2

\* Nothing adds up to nothing.
LEMMA SumOfNone ==
  ASSUME NEW f, DOMAIN f = {}
  PROVE  SumFunction(f) = 0
  <1>1. IsFiniteSet(DOMAIN f)
    BY FS_EmptySet
  <1>2. PICK g : Sums(g, f, DOMAIN f) /\ SumFunction(f) = g[DOMAIN f]
    BY <1>1, SumIsOneOfThem
  <1>3. QED
    BY <1>2 DEF Sums
----------------------------------------------------------------------------
(* The bill *)

\* The lines of a cart are finitely many.
LEMMA LinesTypes ==
  ASSUME NEW items \in Lines
  PROVE  /\ DOMAIN items \in SUBSET Items /\ IsFiniteSet(DOMAIN items)
         /\ items \in [DOMAIN items -> Line]
  <1>1. PICK chosen \in SUBSET Items : items \in [chosen -> Line]
    BY DEF Lines
  <1>2. QED
    BY <1>1, MenuAssumption, FS_Subset

\* A function of lines is the lines of a cart.
LEMMA AreLines ==
  ASSUME NEW chosen \in SUBSET Items, NEW items \in [chosen -> Line]
  PROVE  items \in Lines
  BY DEF Lines

\* The item total is an integer, and that of no items is 0.
LEMMA ItemTotalType ==
  ASSUME NEW items \in Lines
  PROVE  /\ ItemTotal(items) \in Int
         /\ DOMAIN items = {} => ItemTotal(items) = 0
  <1> DEFINE f == [i \in DOMAIN items |-> items[i].price * items[i].quantity]
  <1>1. DOMAIN f = DOMAIN items /\ ItemTotal(items) = SumFunction(f)
    BY DEF ItemTotal
  <1>2. ASSUME NEW i \in DOMAIN f PROVE f[i] \in Int
    <2>1. items[i].price \in Int /\ items[i].quantity \in Nat
      BY <1>1, <1>2, LinesTypes, AmountAssumption, BoundAssumption DEF Line
    <2>2. f[i] = items[i].price * items[i].quantity
      BY <1>2
    <2> HIDE DEF f
    <2>3. QED
      BY <2>1, <2>2
  <1> HIDE DEF f
  <1>3. IsFiniteSet(DOMAIN f)
    BY <1>1, LinesTypes
  <1>4. QED
    BY <1>1, <1>2, <1>3, SumType, SumOfNone

\* Five percent of an amount.
LEMMA TaxType == ASSUME NEW n \in Int PROVE calculateTax(n) \in Int
  BY DEF calculateTax, TAX_PERCENT

\* A rounded amount is half a rupee off at most.
LEMMA RoundType ==
  ASSUME NEW x \in Int
  PROVE  Round(x) \in Int /\ 2 * (Round(x) - x) <= Rupee /\ 2 * (Round(x) - x) >= -Rupee
  BY DEF Round, Rupee

\* The charges of a delivery are natural numbers.
LEMMA ChargesType == ASSUME NEW c \in Charges PROVE c \in Nat
  BY AmountAssumption DEF Charges, calculateDeliveryCharges, DELIVERY_CHARGE_PER_KM, Rupee

\* What is due, but for the discount.
LEMMA AmountType ==
  ASSUME NEW items \in Lines, NEW c \in Charges, NEW d \in Int
  PROVE  /\ AmountDue(items, c, d) \in Int
         /\ AmountDue(items, c, 0) \in Int
         /\ AmountDue(items, c, d) = AmountDue(items, c, 0) - d
  <1>1. ItemTotal(items) \in Int /\ calculateTax(ItemTotal(items)) \in Int /\ c \in Int
    BY ItemTotalType, TaxType, ChargesType
  <1>2. QED
    BY <1>1 DEF AmountDue, PLATFORM_FEE, Rupee

\* The item part of a bill is that of its items.
Adds(bill) == bill.itemTotal = ItemTotal(bill.items) /\ bill.tax = calculateTax(bill.itemTotal)

\* What a handler that recomputes the totals sets.
LEMMA TotalsType ==
  ASSUME NEW items \in Lines, NEW c \in Charges, NEW d \in Int
  PROVE  /\ calculateCartTotals(items, c, d) \in TotalsWrite
         /\ Adds(calculateCartTotals(items, c, d))
         /\ calculateCartTotals(items, c, d).items = items
         /\ calculateCartTotals(items, c, d).deliveryCharges = c
         /\ calculateCartTotals(items, c, d).discount = d
         /\ calculateCartTotals(items, c, d).total = Round(AmountDue(items, c, d))
  <1>1. /\ ItemTotal(items) \in Int /\ calculateTax(ItemTotal(items)) \in Int
        /\ Round(AmountDue(items, c, d)) \in Int
    <2>1. ItemTotal(items) \in Int
      BY ItemTotalType
    <2>2. AmountDue(items, c, d) \in Int
      BY AmountType
    <2>3. QED
      BY <2>1, <2>2, TaxType, RoundType
  <1>2. QED
    BY <1>1 DEF calculateCartTotals, TotalsWrite, Adds

----------------------------------------------------------------------------
(* Documents *)

Fields == {"id", "restaurantId", "items", "itemTotal", "tax", "deliveryCharges",
           "discount", "total", "couponId"}

\* A document is given by its fields.
LEMMA Document ==
  ASSUME NEW document \in Cart, NEW set
  PROVE  /\ DOMAIN Assign(document, set) = Fields
         /\ \A f \in Fields :
              Assign(document, set)[f] = IF f \in DOMAIN set THEN set[f] ELSE document[f]
  BY DEF Cart, Assign, Fields

\* The write of addToCartService sets all but the id.
LEMMA AssignAddWrite ==
  ASSUME NEW document \in Cart, NEW set \in AddWrite
  PROVE  /\ Assign(document, set) \in Cart
         /\ Assign(document, set) =
           [id |-> document.id, restaurantId |-> set.restaurantId,
            items |-> set.items, itemTotal |-> set.itemTotal,
            tax |-> set.tax, deliveryCharges |-> set.deliveryCharges,
            discount |-> set.discount, total |-> set.total,
            couponId |-> set.couponId]
  <1>1. DOMAIN set = {"restaurantId", "items", "itemTotal", "tax", "deliveryCharges",
                      "discount", "total", "couponId"}
    BY DEF AddWrite
  <1>2. Assign(document, set) =
           [id |-> document.id, restaurantId |-> set.restaurantId,
            items |-> set.items, itemTotal |-> set.itemTotal,
            tax |-> set.tax, deliveryCharges |-> set.deliveryCharges,
            discount |-> set.discount, total |-> set.total,
            couponId |-> set.couponId]
    <2>1. Assign(document, set) = [f \in Fields |-> Assign(document, set)[f]]
      BY DEF Assign, Cart, Fields
    <2>2. QED
      BY <1>1, <2>1, Document DEF Fields
  <1>3. QED
    BY <1>2, ChargesType DEF Cart, AddWrite

\* The write of new items and totals leaves the restaurant and the coupon alone.
LEMMA AssignTotalsWrite ==
  ASSUME NEW document \in Cart, NEW set \in TotalsWrite
  PROVE  /\ Assign(document, set) \in Cart
         /\ Assign(document, set) =
           [id |-> document.id, restaurantId |-> document.restaurantId,
            items |-> set.items, itemTotal |-> set.itemTotal,
            tax |-> set.tax, deliveryCharges |-> set.deliveryCharges,
            discount |-> set.discount, total |-> set.total,
            couponId |-> document.couponId]
  <1>1. DOMAIN set = {"items", "itemTotal", "tax", "deliveryCharges", "discount", "total"}
    BY DEF TotalsWrite
  <1>2. Assign(document, set) =
           [id |-> document.id, restaurantId |-> document.restaurantId,
            items |-> set.items, itemTotal |-> set.itemTotal,
            tax |-> set.tax, deliveryCharges |-> set.deliveryCharges,
            discount |-> set.discount, total |-> set.total,
            couponId |-> document.couponId]
    <2>1. Assign(document, set) = [f \in Fields |-> Assign(document, set)[f]]
      BY DEF Assign, Cart, Fields
    <2>2. QED
      BY <1>1, <2>1, Document DEF Fields
  <1>3. QED
    BY <1>2, ChargesType DEF Cart, TotalsWrite

\* The write of no items leaves the charges and the discount alone.
LEMMA AssignEmptyWrite ==
  ASSUME NEW document \in Cart, NEW set \in EmptyWrite
  PROVE  /\ Assign(document, set) \in Cart
         /\ Assign(document, set) =
           [id |-> document.id, restaurantId |-> document.restaurantId,
            items |-> set.items, itemTotal |-> set.itemTotal,
            tax |-> set.tax,
            deliveryCharges |-> document.deliveryCharges,
            discount |-> document.discount, total |-> set.total,
            couponId |-> document.couponId]
  <1>1. DOMAIN set = {"items", "itemTotal", "tax", "total"}
    BY DEF EmptyWrite
  <1>2. Assign(document, set) =
           [id |-> document.id, restaurantId |-> document.restaurantId,
            items |-> set.items, itemTotal |-> set.itemTotal,
            tax |-> set.tax,
            deliveryCharges |-> document.deliveryCharges,
            discount |-> document.discount, total |-> set.total,
            couponId |-> document.couponId]
    <2>1. Assign(document, set) = [f \in Fields |-> Assign(document, set)[f]]
      BY DEF Assign, Cart, Fields
    <2>2. QED
      BY <1>1, <2>1, Document DEF Fields
  <1>3. QED
    BY <1>2, ChargesType DEF Cart, EmptyWrite

\* The write of a coupon leaves the items alone.
LEMMA AssignCouponWrite ==
  ASSUME NEW document \in Cart, NEW set \in CouponWrite
  PROVE  /\ Assign(document, set) \in Cart
         /\ Assign(document, set) =
           [id |-> document.id, restaurantId |-> document.restaurantId,
            items |-> document.items, itemTotal |-> document.itemTotal,
            tax |-> document.tax,
            deliveryCharges |-> document.deliveryCharges,
            discount |-> set.discount, total |-> set.total,
            couponId |-> set.couponId]
  <1>1. DOMAIN set = {"total", "discount", "couponId"}
    BY DEF CouponWrite
  <1>2. Assign(document, set) =
           [id |-> document.id, restaurantId |-> document.restaurantId,
            items |-> document.items, itemTotal |-> document.itemTotal,
            tax |-> document.tax,
            deliveryCharges |-> document.deliveryCharges,
            discount |-> set.discount, total |-> set.total,
            couponId |-> set.couponId]
    <2>1. Assign(document, set) = [f \in Fields |-> Assign(document, set)[f]]
      BY DEF Assign, Cart, Fields
    <2>2. QED
      BY <1>1, <2>1, Document DEF Fields
  <1>3. QED
    BY <1>2, ChargesType DEF Cart, CouponWrite

----------------------------------------------------------------------------
(* Requests *)

\* What a request remembers, by the step it is at.
LEMMA RequestTypes ==
  ASSUME TypeOK, NEW r \in Requests
  PROVE  /\ request[r] \in Request \cup {Idle}
         /\ request[r].step = "addMenu" =>
              request[r].item \in Items /\ request[r].seen \in Cart \cup {NoCart}
         /\ request[r].step = "upsert" => request[r].set \in AddWrite
         /\ request[r].step = "getMenu" => request[r].seen \in Cart
         /\ request[r].step = "update" => request[r].set \in TotalsWrite \cup EmptyWrite
         /\ request[r].step = "deleteEmptied" => request[r].id \in CartIds
         /\ request[r].step = "coupon" => request[r].coupon \in Coupons /\ request[r].seen \in Cart
         /\ request[r].step = "updateById" =>
              request[r].id \in CartIds /\ request[r].set \in CouponWrite
  <1>1. request[r] \in Request \cup {Idle}
    BY DEF TypeOK
  <1>2. Idle.step = "idle"
    BY DEF Idle
  <1>3. QED
    BY <1>1, <1>2 DEF Request

\* The records of requests.
LEMMA IsRequest ==
  /\ \A i \in Items, s \in Cart \cup {NoCart} :
       [step |-> "addMenu", item |-> i, seen |-> s] \in Request
  /\ \A w \in AddWrite : [step |-> "upsert", set |-> w] \in Request
  /\ \A s \in Cart : [step |-> "getMenu", seen |-> s] \in Request
  /\ \A w \in TotalsWrite \cup EmptyWrite : [step |-> "update", set |-> w] \in Request
  /\ \A k \in CartIds : [step |-> "deleteEmptied", id |-> k] \in Request
  /\ \A c \in Coupons, s \in Cart : [step |-> "coupon", coupon |-> c, seen |-> s] \in Request
  /\ \A k \in CartIds, w \in CouponWrite : [step |-> "updateById", id |-> k, set |-> w] \in Request
  BY DEF Request

\* A request goes on, the others stay where they are.
LEMMA Continues ==
  ASSUME TypeOK, NEW r \in Requests, NEW q \in Request \cup {Idle}, Continue(r, q)
  PROVE  /\ request' \in [Requests -> Request \cup {Idle}]
         /\ request'[r] = q
         /\ \A o \in Requests \ {r} : request'[o] = request[o]
  BY DEF TypeOK, Continue

\* The document that is stored, if there is one.
LEMMA CartTypes ==
  ASSUME TypeOK
  PROVE  /\ cart # NoCart => cart \in Cart
         /\ \A i \in Items : menu[i].price \in Prices /\ menu[i].isAvailable \in BOOLEAN
         /\ charges \in Charges
  BY DEF TypeOK

----------------------------------------------------------------------------
(* Items *)

\* One more of an item, within the bound on quantities.
LEMMA OneMoreType ==
  ASSUME TypeOK, NEW chosen \in SUBSET Items, NEW items \in [chosen -> Line], NEW i \in Items,
         i \in chosen => items[i].quantity # MaxQuantity
  PROVE  OneMore(items, i) \in Lines /\ DOMAIN OneMore(items, i) # {}
  <1>1. CASE i \in chosen
    <2>1. [items[i] EXCEPT !.quantity = items[i].quantity + 1] \in Line
      <3>1. items[i] \in Line /\ items[i].quantity + 1 \in 1..MaxQuantity
        BY <1>1, BoundAssumption DEF Line
      <3>2. QED
        BY <3>1 DEF Line
    <2>2. OneMore(items, i) \in [chosen -> Line]
      BY <1>1, <2>1 DEF OneMore
    <2>3. QED
      BY <1>1, <2>2, AreLines
  <1>2. CASE i \notin chosen
    <2>1. [quantity |-> 1, price |-> menu[i].price] \in Line
      BY CartTypes, BoundAssumption DEF Line
    <2>2. OneMore(items, i) \in [chosen \cup {i} -> Line]
      BY <1>2, <2>1 DEF OneMore
    <2>3. QED
      BY <2>2, AreLines
  <1>3. QED
    BY <1>1, <1>2

\* One less of an item.
LEMMA OneLessType ==
  ASSUME NEW items \in Lines, NEW i \in DOMAIN items
  PROVE  OneLess(items, i) \in Lines
  <1>1. DOMAIN items \in SUBSET Items /\ items \in [DOMAIN items -> Line]
    BY LinesTypes
  <1>2. CASE items[i].quantity > 1
    <2>1. [items[i] EXCEPT !.quantity = items[i].quantity - 1] \in Line
      <3>1. items[i] \in Line /\ items[i].quantity - 1 \in 1..MaxQuantity
        BY <1>1, <1>2, BoundAssumption DEF Line
      <3>2. QED
        BY <3>1 DEF Line
    <2>2. OneLess(items, i) \in [DOMAIN items -> Line]
      BY <1>1, <1>2, <2>1 DEF OneLess
    <2>3. QED
      BY <1>1, <2>2, AreLines
  <1>3. CASE ~ (items[i].quantity > 1)
    <2>1. OneLess(items, i) \in [DOMAIN items \ {i} -> Line]
      BY <1>1, <1>3 DEF OneLess
    <2>2. DOMAIN items \ {i} \in SUBSET Items
      BY <1>1
    <2>3. QED
      BY <2>1, <2>2, AreLines
  <1>4. QED
    BY <1>2, <1>3

\* The items that are on the menu still, at their new prices.
LEMMA RefreshedType ==
  ASSUME TypeOK, NEW items \in Lines, NEW left \in SUBSET (DOMAIN items)
  PROVE  [i \in left |-> [items[i] EXCEPT !.price = menu[i].price]] \in Lines
  <1>1. DOMAIN items \in SUBSET Items /\ items \in [DOMAIN items -> Line]
    BY LinesTypes
  <1>2. ASSUME NEW i \in left PROVE [items[i] EXCEPT !.price = menu[i].price] \in Line
    <2>1. items[i] \in Line /\ menu[i].price \in Prices
      BY <1>1, CartTypes
    <2>2. QED
      BY <2>1 DEF Line
  <1>3. [i \in left |-> [items[i] EXCEPT !.price = menu[i].price]] \in [left -> Line]
    BY <1>2
  <1>4. QED
    BY <1>1, <1>3, AreLines

----------------------------------------------------------------------------
(* The invariants *)

\* With any number of requests: what is about to be written adds up, whoever
\* wrote meanwhile.  The item part of a bill is written in one step with its items.
LinesInv ==
  /\ TypeOK
  /\ LinesAddUp
  /\ \A r \in Requests : request[r].step \in {"upsert", "update"} => Adds(request[r].set)

\* The total is right up to half a rupee for itself and for each of n coupons.
Off(bill, n) ==
  LET error == bill.total - AmountDue(bill.items, bill.deliveryCharges, bill.discount) IN
  /\ 2 * error <= (1 + n) * Rupee
  /\ 2 * error >= -(1 + n) * Rupee

\* A bill that n coupons were applied to.
Bill(document, n) ==
  /\ DOMAIN document.items # {} => Off(document, n)
  /\ document.couponId = NoCoupon => document.discount = 0

\* A write that leaves the discount of the document as it is.
KeepsDiscount(document, set) == Assign(document, set).discount = document.discount

\* One request after the other: what was read is what is stored, and what is
\* about to be written leaves a right bill, and the discount unless it is the
\* write of a coupon.
AsRead(q) ==
  /\ q.step = "addMenu" => q.seen = cart
  /\ q.step \in {"getMenu", "coupon"} => cart # NoCart /\ q.seen = cart
  /\ q.step = "coupon" => cart.couponId = NoCoupon
  /\ q.step = "upsert" => Bill(q.set, 0)
  /\ q.step = "update" =>
       cart # NoCart /\ Bill(Assign(cart, q.set), applied) /\ KeepsDiscount(cart, q.set)
  /\ q.step = "updateById" =>
       /\ cart # NoCart /\ q.id = cart.id
       /\ IF q.set.couponId = NoCoupon THEN Bill(Assign(cart, q.set), applied)
          ELSE /\ applied < MaxApplied /\ Bill(Assign(cart, q.set), applied + 1)
               /\ cart.couponId = NoCoupon

BillInv ==
  /\ LinesInv
  /\ cart # NoCart => Bill(cart, applied)
  /\ \A r \in Requests : AsRead(request[r])

----------------------------------------------------------------------------
(* The steps that compute: what they remember for the next one. *)

\* A request goes on with q, and nothing else happens.
Goes(r, q) ==
  /\ q \in Request \cup {Idle}
  /\ Continue(r, q)
  /\ UNCHANGED <<menu, charges, valid, cart, applied>>

\* The totals of some lines are right up to half a rupee.
LEMMA TotalsAreOff ==
  ASSUME NEW items \in Lines, NEW c \in Charges, NEW d \in Int, NEW n \in Nat, NEW total,
         total = Round(AmountDue(items, c, d))
  PROVE  Off([items |-> items, deliveryCharges |-> c, discount |-> d, total |-> total], n)
  <1>1. total \in Int /\ 2 * (total - AmountDue(items, c, d)) <= Rupee
          /\ 2 * (total - AmountDue(items, c, d)) >= -Rupee
    BY AmountType, RoundType
  <1>2. AmountDue(items, c, d) \in Int
    BY AmountType
  <1>3. (1 + n) * Rupee \in Int /\ (1 + n) * Rupee >= Rupee /\ Rupee \in Nat
    BY DEF Rupee
  <1>4. QED
    BY <1>1, <1>2, <1>3 DEF Off

\* addToCartService reads the cart.
LEMMA AddGoes ==
  ASSUME TypeOK, NEW r \in Requests, NEW i \in Items, addToCartService(r, i)
  PROVE  \E q : Goes(r, q) /\ q.step = "addMenu" /\ q.seen = cart
  BY IsRequest DEF addToCartService, Goes, TypeOK

\* addToCartService computes every field of the cart.
LEMMA AddItemGoes ==
  ASSUME TypeOK, NEW r \in Requests, AddItem(r)
  PROVE  \E q : /\ Goes(r, q)
                /\ \/ q = Idle
                   \/ /\ q.step = "upsert" /\ q.set \in AddWrite /\ Adds(q.set)
                      /\ Bill(q.set, 0)
  <1> DEFINE i == request[r].item
             seen == request[r].seen
             had == IF seen = NoCart THEN <<>> ELSE seen.items
             items == OneMore(had, i)
             totals == calculateCartTotals(items, charges, 0)
             set == [restaurantId |-> MenuRestaurant[i], couponId |-> NoCoupon,
                     items |-> items, itemTotal |-> totals.itemTotal, tax |-> totals.tax,
                     deliveryCharges |-> charges, discount |-> 0, total |-> totals.total]
  <1>1. i \in Items /\ seen \in Cart \cup {NoCart}
    BY RequestTypes DEF AddItem
  <1>2. CASE ~menu[i].isAvailable \/ Conflict(seen, i) \/ AtBound(seen, i)
    <2>1. Goes(r, Idle)
      BY <1>2 DEF AddItem, Goes, Finish
    <2>2. QED
      BY <2>1
  <1>3. CASE ~ (~menu[i].isAvailable \/ Conflict(seen, i) \/ AtBound(seen, i))
    <2>1. Continue(r, [step |-> "upsert", set |-> set])
      BY <1>3 DEF AddItem
    <2>2. items \in Lines /\ DOMAIN items # {}
      <3>1. CASE seen = NoCart
        <4>1. had \in [{} -> Line] /\ {} \in SUBSET Items
          BY <3>1
        <4> HIDE DEF had
        <4>2. QED
          BY <1>1, <4>1, OneMoreType
      <3>2. CASE seen # NoCart
        <4>1. seen.items \in Lines
          BY <1>1, <3>2 DEF Cart
        <4>2. DOMAIN had \in SUBSET Items /\ had \in [DOMAIN had -> Line]
          BY <3>2, <4>1, LinesTypes
        <4>3. i \in DOMAIN had => had[i].quantity # MaxQuantity
          BY <1>3, <3>2 DEF AtBound
        <4> HIDE DEF had
        <4>4. QED
          BY <1>1, <4>2, <4>3, OneMoreType
      <3>3. QED
        BY <3>1, <3>2
    <2>3. charges \in Charges
      BY DEF TypeOK
    <2> HIDE DEF items
    <2>4. /\ totals \in TotalsWrite /\ Adds(totals)
          /\ totals.items = items /\ totals.total = Round(AmountDue(items, charges, 0))
      BY <2>2, <2>3, TotalsType
    <2>5. totals.itemTotal \in Int /\ totals.tax \in Int /\ totals.total \in Int
      BY <2>4 DEF TotalsWrite
    <2>6. totals.itemTotal = ItemTotal(items) /\ totals.tax = calculateTax(totals.itemTotal)
      BY <2>4 DEF Adds
    <2> HIDE DEF totals, seen
    <2>7. MenuRestaurant[i] \in Restaurants
      BY <1>1, MenuAssumption
    <2> HIDE DEF i
    <2>8. set \in AddWrite
      BY <2>2, <2>3, <2>5, <2>7 DEF AddWrite
    <2>9. Adds(set)
      BY <2>6 DEF Adds
    <2>10. Off([items |-> items, deliveryCharges |-> charges, discount |-> 0,
                total |-> totals.total], 0)
      BY <2>2, <2>3, <2>4, TotalsAreOff
    <2>11. Bill(set, 0)
      BY <2>10 DEF Bill, Off
    <2> HIDE DEF set
    <2>12. Goes(r, [step |-> "upsert", set |-> set])
      BY <2>1, <2>8, IsRequest DEF Goes, AddItem
    <2>13. QED
      BY <2>8, <2>9, <2>11, <2>12
  <1>4. QED
    BY <1>2, <1>3

\* removeItemService computes the items that are left and their totals.
LEMMA RemoveItemGoes ==
  ASSUME TypeOK, NEW r \in Requests, NEW i \in Items, removeItemService(r, i)
  PROVE  /\ cart # NoCart
         /\ \E q : /\ Goes(r, q)
                   /\ \/ q.step = "deleteEmptied"
                      \/ /\ q.step = "update"
                         /\ \E items \in Lines :
                              q.set = calculateCartTotals(items, cart.deliveryCharges, cart.discount)
  <1>1. /\ request[r] = Idle /\ cart # NoCart /\ i \in DOMAIN cart.items
        /\ UNCHANGED <<menu, charges, valid, cart, applied>>
    BY DEF removeItemService
  <1>2. cart \in Cart
    BY <1>1, CartTypes
  <1>3. /\ cart.items \in Lines /\ cart.deliveryCharges \in Charges
        /\ cart.discount \in Int /\ cart.id \in CartIds
    BY <1>2 DEF Cart
  <1>4. OneLess(cart.items, i) \in Lines
    BY <1>1, <1>3, OneLessType
  <1>5. CASE DOMAIN OneLess(cart.items, i) = {}
    <2>1. Goes(r, [step |-> "deleteEmptied", id |-> cart.id])
      BY <1>3, <1>5, IsRequest DEF removeItemService, Goes
    <2>2. QED
      BY <1>1, <2>1
  <1>6. CASE DOMAIN OneLess(cart.items, i) # {}
    <2>1. RemovedTotals(cart, i) \in TotalsWrite
      BY <1>3, <1>4, TotalsType DEF RemovedTotals
    <2>2. Goes(r, [step |-> "update", set |-> RemovedTotals(cart, i)])
      BY <1>6, <2>1, IsRequest DEF removeItemService, Goes
    <2>3. QED
      BY <1>1, <1>4, <2>2 DEF RemovedTotals
  <1>7. QED
    BY <1>5, <1>6

\* getCartService reads the cart.
LEMMA GetGoes ==
  ASSUME TypeOK, NEW r \in Requests, getCartService(r)
  PROVE  cart # NoCart /\ \E q : Goes(r, q) /\ q.step = "getMenu" /\ q.seen = cart
  BY IsRequest, CartTypes DEF getCartService, Goes

\* getCartService computes the items that are on the menu still and their
\* totals; of no items there is only the fees to pay.
LEMMA RefreshGoes ==
  ASSUME TypeOK, NEW r \in Requests, RefreshItems(r)
  PROVE  \E q : /\ Goes(r, q)
                /\ \/ q = Idle
                   \/ /\ q.step = "update" /\ q.set \in EmptyWrite
                      /\ DOMAIN q.set.items = {}
                      /\ q.set.total = request[r].seen.deliveryCharges + PLATFORM_FEE
                   \/ /\ q.step = "update"
                      /\ \E items \in Lines :
                           q.set = calculateCartTotals(items, request[r].seen.deliveryCharges,
                                                       request[r].seen.discount)
  <1> DEFINE seen == request[r].seen
             left == {i \in DOMAIN seen.items : menu[i].isAvailable}
             items == [i \in left |-> [seen.items[i] EXCEPT !.price = menu[i].price]]
             none == [items |-> items, itemTotal |-> 0, tax |-> 0,
                      total |-> seen.deliveryCharges + PLATFORM_FEE]
  <1>1. seen \in Cart
    BY RequestTypes DEF RefreshItems
  <1>2. seen.items \in Lines /\ seen.deliveryCharges \in Charges /\ seen.discount \in Int
    BY <1>1 DEF Cart
  <1>3. items \in Lines
    BY <1>2, RefreshedType
  <1>4. CASE left = {}
    <2>1. Continue(r, [step |-> "update", set |-> none])
      BY <1>4 DEF RefreshItems
    <2>2. DOMAIN items = {}
      BY <1>4
    <2>3. seen.deliveryCharges + PLATFORM_FEE \in Nat
      BY <1>2, ChargesType DEF PLATFORM_FEE, Rupee
    <2> HIDE DEF items, seen
    <2>4. none \in EmptyWrite
      BY <1>3, <2>3 DEF EmptyWrite
    <2>5. Goes(r, [step |-> "update", set |-> none])
      BY <2>1, <2>4, IsRequest DEF Goes, RefreshItems
    <2>6. QED
      BY <2>2, <2>4, <2>5 DEF seen
  <1>5. CASE left # {} /\ items = seen.items
    <2>1. Goes(r, Idle)
      BY <1>5 DEF RefreshItems, Goes, Finish
    <2>2. QED
      BY <2>1
  <1>6. CASE left # {} /\ items # seen.items
    <2>1. Continue(r, [step |-> "update", set |-> RefreshedTotals(seen, items)])
      BY <1>6 DEF RefreshItems
    <2> HIDE DEF items, seen
    <2>2. RefreshedTotals(seen, items) \in TotalsWrite
      BY <1>2, <1>3, TotalsType DEF RefreshedTotals
    <2>3. Goes(r, [step |-> "update", set |-> RefreshedTotals(seen, items)])
      BY <2>1, <2>2, IsRequest DEF Goes, RefreshItems
    <2>4. QED
      BY <1>3, <2>3 DEF RefreshedTotals, seen
  <1>7. QED
    BY <1>4, <1>5, <1>6

\* applyCouponService reads the cart.
LEMMA ApplyGoes ==
  ASSUME TypeOK, NEW r \in Requests, NEW c \in Coupons, applyCouponService(r, c)
  PROVE  /\ cart # NoCart /\ cart.couponId = NoCoupon
         /\ \E q : Goes(r, q) /\ q.step = "coupon" /\ q.seen = cart
  BY IsRequest, CartTypes DEF applyCouponService, Goes

\* A discount is an integer.
LEMMA DiscountType ==
  ASSUME NEW total \in Int, NEW c \in Coupons
  PROVE  Discount(total, c) \in Int
  <1>1. CouponData[c].discountPercent \in Int /\ CouponData[c].maxDiscount \in Int
    BY CouponAssumption DEF CouponRecord
  <1>2. total * CouponData[c].discountPercent \in Int
    BY <1>1
  <1>3. (total * CouponData[c].discountPercent) \div 100 \in Int
    BY <1>2
  <1>4. QED
    BY <1>1, <1>3 DEF Discount

\* applyCouponService computes the total and the discount of the cart it read.
LEMMA CheckGoes ==
  ASSUME TypeOK, NEW r \in Requests, CheckCoupon(r)
  PROVE  \E q : /\ Goes(r, q)
                /\ \/ q = Idle
                   \/ /\ q.step = "updateById" /\ q.id = request[r].seen.id /\ applied < MaxApplied
                      /\ q.set \in CouponWrite
                      /\ \E c \in Coupons : q.set = CouponSet(request[r].seen, c)
  <1> DEFINE seen == request[r].seen
             c == request[r].coupon
  <1>1. seen \in Cart /\ c \in Coupons
    BY RequestTypes DEF CheckCoupon
  <1>2. CASE Applicable(seen, c) /\ applied < MaxApplied
    <2>1. Continue(r, [step |-> "updateById", id |-> seen.id, set |-> CouponSet(seen, c)])
      BY <1>2 DEF CheckCoupon
    <2>2. seen.total \in Int /\ seen.id \in CartIds
      BY <1>1 DEF Cart
    <2>3. Discount(seen.total, c) \in Int
      BY <1>1, <2>2, DiscountType
    <2>4. Round(seen.total - Discount(seen.total, c)) \in Int
      BY <2>2, <2>3, RoundType
    <2> HIDE DEF seen, c
    <2>5. CouponSet(seen, c) \in CouponWrite
      BY <1>1, <2>3, <2>4 DEF CouponSet, CouponWrite
    <2>6. Goes(r, [step |-> "updateById", id |-> seen.id, set |-> CouponSet(seen, c)])
      BY <2>1, <2>2, <2>5, IsRequest DEF Goes, CheckCoupon
    <2>7. QED
      BY <1>1, <1>2, <2>5, <2>6 DEF seen
  <1>3. CASE ~ (Applicable(seen, c) /\ applied < MaxApplied)
    <2>1. Goes(r, Idle)
      BY <1>3 DEF CheckCoupon, Goes, Finish
    <2>2. QED
      BY <2>1
  <1>4. QED
    BY <1>2, <1>3

\* removeCouponService gives the discount back.
LEMMA RemoveCouponGoes ==
  ASSUME TypeOK, NEW r \in Requests, removeCouponService(r)
  PROVE  /\ cart # NoCart
         /\ \E q : /\ Goes(r, q) /\ q.step = "updateById" /\ q.id = cart.id
                   /\ q.set \in CouponWrite
                   /\ q.set = [total |-> cart.total + cart.discount, discount |-> 0,
                               couponId |-> NoCoupon]
  <1> DEFINE set == [total |-> cart.total + cart.discount, discount |-> 0, couponId |-> NoCoupon]
  <1>1. cart # NoCart /\ cart \in Cart
    BY CartTypes DEF removeCouponService
  <1>2. set \in CouponWrite /\ cart.id \in CartIds
    BY <1>1 DEF Cart, CouponWrite
  <1>3. Goes(r, [step |-> "updateById", id |-> cart.id, set |-> set])
    BY <1>2, IsRequest DEF removeCouponService, Goes
  <1> HIDE DEF set
  <1>4. QED
    BY <1>1, <1>2, <1>3 DEF set

----------------------------------------------------------------------------
(* The steps that write. *)

\* A request ends with a write of the document; the menu and the coupons stay.
Ends(r) ==
  /\ request' = [request EXCEPT ![r] = Idle]
  /\ UNCHANGED <<menu, charges, valid>>
  /\ applied' \in 0..MaxApplied

\* addToCartService sets all fields of the cart, or creates it.
LEMMA UpsertWrites ==
  ASSUME TypeOK, NEW r \in Requests, UpsertCart(r)
  PROVE  LET set == request[r].set IN
         /\ Ends(r) /\ applied' = 0
         /\ \E id \in CartIds :
              cart' = [id |-> id, restaurantId |-> set.restaurantId, items |-> set.items,
                       itemTotal |-> set.itemTotal, tax |-> set.tax,
                       deliveryCharges |-> set.deliveryCharges, discount |-> set.discount,
                       total |-> set.total, couponId |-> set.couponId]
         /\ set \in AddWrite /\ cart' \in Cart
  <1> DEFINE set == request[r].set
  <1>1. set \in AddWrite
    BY RequestTypes DEF UpsertCart
  <1>2. Ends(r) /\ applied' = 0
    BY BoundAssumption DEF UpsertCart, Ends, Finish, Continue
  <1>3. \E id \in CartIds :
          cart' = [id |-> id, restaurantId |-> set.restaurantId, items |-> set.items,
                   itemTotal |-> set.itemTotal, tax |-> set.tax,
                   deliveryCharges |-> set.deliveryCharges, discount |-> set.discount,
                   total |-> set.total, couponId |-> set.couponId]
    <2>1. CASE cart = NoCart
      BY <2>1 DEF UpsertCart, NewIds
    <2>2. CASE cart # NoCart
      <3>1. cart' = Assign(cart, set)
        BY <2>2 DEF UpsertCart
      <3>2. cart \in Cart
        BY <2>2, CartTypes
      <3>3. cart.id \in CartIds
        BY <3>2 DEF Cart
      <3> HIDE DEF set
      <3>4. QED
        BY <1>1, <3>1, <3>2, <3>3, AssignAddWrite
    <2>3. QED
      BY <2>1, <2>2
  <1> HIDE DEF set
  <1>4. cart' \in Cart
    BY <1>1, <1>3 DEF AddWrite, Cart
  <1>5. QED
    BY <1>1, <1>2, <1>3, <1>4 DEF set

\* removeItemService and getCartService set the items and their totals, if
\* the user has a cart.
LEMMA UpdateWrites ==
  ASSUME TypeOK, NEW r \in Requests, UpdateCart(r)
  PROVE  /\ Ends(r) /\ applied' = applied
         /\ cart = NoCart => cart' = NoCart
         /\ cart # NoCart => /\ cart' = Assign(cart, request[r].set) /\ cart' \in Cart
                             /\ cart'.items = request[r].set.items
                             /\ cart'.itemTotal = request[r].set.itemTotal
                             /\ cart'.tax = request[r].set.tax
  <1> DEFINE set == request[r].set
  <1>1. set \in TotalsWrite \cup EmptyWrite
    BY RequestTypes DEF UpdateCart
  <1>2. Ends(r) /\ applied' = applied
    BY DEF UpdateCart, Ends, Finish, Continue, TypeOK
  <1>3. CASE cart = NoCart
    BY <1>2, <1>3 DEF UpdateCart
  <1>4. CASE cart # NoCart
    <2>1. cart' = Assign(cart, set) /\ cart \in Cart
      BY <1>4, CartTypes DEF UpdateCart
    <2> HIDE DEF set
    <2>2. CASE set \in TotalsWrite
      BY <1>2, <1>4, <2>1, <2>2, AssignTotalsWrite DEF set
    <2>3. CASE set \in EmptyWrite
      BY <1>2, <1>4, <2>1, <2>3, AssignEmptyWrite DEF set
    <2>4. QED
      BY <1>1, <2>2, <2>3
  <1>5. QED
    BY <1>3, <1>4

\* The coupon's handlers set the total, the discount and the coupon of the
\* document they read, if it is there still.
LEMMA UpdateByIdWrites ==
  ASSUME TypeOK, NEW r \in Requests, UpdateCartById(r)
  PROVE  /\ Ends(r)
         /\ \/ cart' = cart /\ applied' = applied /\ ~ (cart # NoCart /\ cart.id = request[r].id)
            \/ /\ cart # NoCart /\ cart.id = request[r].id
               /\ cart' = Assign(cart, request[r].set) /\ cart' \in Cart
               /\ cart'.items = cart.items
               /\ cart'.itemTotal = cart.itemTotal /\ cart'.tax = cart.tax
               /\ applied' = IF request[r].set.couponId = NoCoupon \/ applied = MaxApplied
                             THEN applied ELSE applied + 1
  <1>1. request[r].set \in CouponWrite
    BY RequestTypes DEF UpdateCartById
  <1>2. CASE cart # NoCart /\ cart.id = request[r].id
    <2>1. /\ cart' = Assign(cart, request[r].set)
          /\ applied' = IF request[r].set.couponId = NoCoupon \/ applied = MaxApplied
                        THEN applied ELSE applied + 1
      BY <1>2 DEF UpdateCartById
    <2>2. applied' \in 0..MaxApplied
      BY <2>1, BoundAssumption DEF TypeOK
    <2>3. Ends(r)
      BY <2>2 DEF UpdateCartById, Ends, Finish, Continue
    <2>4. cart \in Cart
      BY <1>2, CartTypes
    <2>5. QED
      BY <1>1, <1>2, <2>1, <2>3, <2>4, AssignCouponWrite
  <1>3. CASE ~ (cart # NoCart /\ cart.id = request[r].id)
    BY <1>3 DEF UpdateCartById, Ends, Finish, Continue, TypeOK
  <1>4. QED
    BY <1>2, <1>3

----------------------------------------------------------------------------
(* LinesInv, step by step *)

\* A request goes on with a write that adds up.
LEMMA LinesGoOn ==
  ASSUME LinesInv, NEW r \in Requests, NEW q, Goes(r, q),
         q.step \in {"upsert", "update"} => Adds(q.set)
  PROVE  LinesInv'
  <1>1. TypeOK /\ LinesAddUp
    BY DEF LinesInv
  <1>2. /\ request' \in [Requests -> Request \cup {Idle}]
        /\ request'[r] = q
        /\ \A o \in Requests \ {r} : request'[o] = request[o]
    BY <1>1, Continues DEF Goes
  <1>3. UNCHANGED <<menu, charges, valid, cart, applied>>
    BY DEF Goes
  <1>4. TypeOK'
    BY <1>1, <1>2, <1>3 DEF TypeOK
  <1>5. LinesAddUp'
    BY <1>1, <1>3 DEF LinesAddUp
  <1>6. ASSUME NEW o \in Requests, request'[o].step \in {"upsert", "update"}
        PROVE  Adds(request'[o].set)
    <2>1. CASE o = r
      BY <1>2, <1>6, <2>1
    <2>2. CASE o # r
      BY <1>2, <1>6, <2>2 DEF LinesInv
    <2>3. QED
      BY <2>1, <2>2
  <1>7. QED
    BY <1>4, <1>5, <1>6 DEF LinesInv

\* A request ends, and the document it leaves adds up.
LEMMA LinesEnd ==
  ASSUME LinesInv, NEW r \in Requests, Ends(r),
         cart' \in Cart \cup {NoCart}, cart' # NoCart => Adds(cart')
  PROVE  LinesInv'
  <1>1. TypeOK
    BY DEF LinesInv
  <1>2. /\ request' \in [Requests -> Request \cup {Idle}]
        /\ request'[r] = Idle
        /\ \A o \in Requests \ {r} : request'[o] = request[o]
    BY <1>1, Continues DEF Ends, Continue
  <1>3. TypeOK'
    BY <1>1, <1>2 DEF TypeOK, Ends
  <1>4. LinesAddUp'
    BY DEF LinesAddUp, Adds
  <1>5. ASSUME NEW o \in Requests, request'[o].step \in {"upsert", "update"}
        PROVE  Adds(request'[o].set)
    <2>1. o # r
      BY <1>2, <1>5 DEF Idle
    <2>2. QED
      BY <1>2, <1>5, <2>1 DEF LinesInv
  <1>6. QED
    BY <1>3, <1>4, <1>5 DEF LinesInv

\* Menus and coupons are edited, and the restaurant moves.
LEMMA EnvironmentTypes ==
  ASSUME TypeOK, Environment
  PROVE  TypeOK' /\ UNCHANGED <<cart, request, applied>>
  <1>1. ASSUME NEW i \in Items, NEW entry \in [price: Prices, isAvailable: BOOLEAN],
               MenuEdited(i, entry)
        PROVE  TypeOK' /\ UNCHANGED <<cart, request, applied>>
    BY <1>1 DEF MenuEdited, TypeOK
  <1>2. ASSUME NEW c \in Charges, RestaurantMoves(c)
        PROVE  TypeOK' /\ UNCHANGED <<cart, request, applied>>
    BY <1>2 DEF RestaurantMoves, TypeOK
  <1>3. ASSUME NEW c \in Coupons, CouponEdited(c)
        PROVE  TypeOK' /\ UNCHANGED <<cart, request, applied>>
    BY <1>3 DEF CouponEdited, TypeOK
  <1>4. QED
    BY <1>1, <1>2, <1>3 DEF Environment

\* The handlers of the cart controller and a failing request.
LEMMA LinesRoute ==
  ASSUME LinesInv, NEW r \in Requests, Route(r) \/ RequestFails(r)
  PROVE  LinesInv'
  <1> DEFINE after(q) == q.step \in {"upsert", "update"} => Adds(q.set)
  <1>1. TypeOK
    BY DEF LinesInv
  <1>2. cart \in Cart \cup {NoCart} /\ (cart # NoCart => Adds(cart)) /\ applied \in 0..MaxApplied
    BY DEF LinesInv, LinesAddUp, Adds, TypeOK
  <1>3. ASSUME NEW i \in Items, addToCartService(r, i) PROVE LinesInv'
    <2>1. PICK q : Goes(r, q) /\ q.step = "addMenu"
      BY <1>1, <1>3, AddGoes
    <2>2. QED
      BY <2>1, LinesGoOn
  <1>4. CASE AddItem(r)
    <2>1. PICK q : Goes(r, q) /\ (q = Idle \/ Adds(q.set))
      BY <1>1, <1>4, AddItemGoes
    <2>2. QED
      BY <2>1, LinesGoOn DEF Idle
  <1>5. CASE UpsertCart(r)
    <2>1. Ends(r) /\ cart' \in Cart
      BY <1>1, <1>5, UpsertWrites
    <2>2. Adds(request[r].set)
      BY <1>5 DEF UpsertCart, LinesInv
    <2>3. cart'.items = request[r].set.items /\ cart'.itemTotal = request[r].set.itemTotal
            /\ cart'.tax = request[r].set.tax
      BY <1>1, <1>5, UpsertWrites
    <2>4. Adds(cart')
      BY <2>2, <2>3 DEF Adds
    <2>5. QED
      BY <2>1, <2>4, LinesEnd
  <1>6. ASSUME NEW i \in Items, removeItemService(r, i) PROVE LinesInv'
    <2>1. PICK q : /\ Goes(r, q)
                   /\ \/ q.step = "deleteEmptied"
                      \/ /\ q.step = "update"
                         /\ \E items \in Lines :
                              q.set = calculateCartTotals(items, cart.deliveryCharges, cart.discount)
      BY <1>1, <1>6, RemoveItemGoes
    <2>2. cart.deliveryCharges \in Charges /\ cart.discount \in Int
      BY <1>1, <1>6, CartTypes DEF Cart, removeItemService
    <2>3. q.step \in {"upsert", "update"} => Adds(q.set)
      BY <2>1, <2>2, TotalsType
    <2>4. QED
      BY <2>1, <2>3, LinesGoOn
  <1>7. CASE DeleteEmptied(r)
    <2>1. Ends(r) /\ cart' \in {cart, NoCart}
      BY <1>2, <1>7 DEF DeleteEmptied, Ends, Finish, Continue
    <2>2. QED
      BY <1>2, <2>1, LinesEnd
  <1>8. CASE UpdateCart(r)
    <2>1. Ends(r)
      BY <1>1, <1>8, UpdateWrites
    <2>2. Adds(request[r].set)
      BY <1>8 DEF UpdateCart, LinesInv
    <2>3. CASE cart = NoCart
      BY <1>1, <1>8, <2>1, <2>3, UpdateWrites, LinesEnd
    <2>4. CASE cart # NoCart
      <3>1. /\ cart' \in Cart /\ cart'.items = request[r].set.items
            /\ cart'.itemTotal = request[r].set.itemTotal /\ cart'.tax = request[r].set.tax
        BY <1>1, <1>8, <2>4, UpdateWrites
      <3>2. Adds(cart')
        BY <2>2, <3>1 DEF Adds
      <3>3. QED
        BY <2>1, <3>1, <3>2, LinesEnd
    <2>5. QED
      BY <2>3, <2>4
  <1>9. CASE deleteCartService(r)
    <2>1. request[r] = Idle /\ request' = request
      BY <1>9 DEF deleteCartService
    <2>2. request' = [request EXCEPT ![r] = Idle]
      BY <1>1, <2>1 DEF TypeOK
    <2>3. Ends(r) /\ cart' = NoCart
      BY <1>2, <1>9, <2>2 DEF deleteCartService, Ends
    <2>4. QED
      BY <2>3, LinesEnd
  <1>10. CASE getCartService(r)
    <2>1. PICK q : Goes(r, q) /\ q.step = "getMenu"
      BY <1>1, <1>10, GetGoes
    <2>2. QED
      BY <2>1, LinesGoOn
  <1>11. CASE RefreshItems(r)
    <2>1. PICK q : /\ Goes(r, q)
                   /\ \/ q = Idle
                      \/ q.set \in EmptyWrite /\ DOMAIN q.set.items = {}
                      \/ \E items \in Lines :
                           q.set = calculateCartTotals(items, request[r].seen.deliveryCharges,
                                                       request[r].seen.discount)
      BY <1>1, <1>11, RefreshGoes
    <2>2. request[r].seen.deliveryCharges \in Charges /\ request[r].seen.discount \in Int
      BY <1>1, <1>11, RequestTypes DEF Cart, RefreshItems
    <2>3. ASSUME q.set \in EmptyWrite, DOMAIN q.set.items = {}
          PROVE  Adds(q.set)
      <3>1. q.set.items \in Lines /\ q.set.itemTotal = 0 /\ q.set.tax = 0
        BY <2>3 DEF EmptyWrite
      <3>2. ItemTotal(q.set.items) = 0
        BY <2>3, <3>1, ItemTotalType
      <3>3. calculateTax(0) = 0
        BY DEF calculateTax, TAX_PERCENT
      <3>4. QED
        BY <3>1, <3>2, <3>3 DEF Adds
    <2>4. q.step \in {"upsert", "update"} => Adds(q.set)
      BY <2>1, <2>2, <2>3, TotalsType DEF Idle
    <2>5. QED
      BY <2>1, <2>4, LinesGoOn
  <1>12. ASSUME NEW c \in Coupons, applyCouponService(r, c) PROVE LinesInv'
    <2>1. PICK q : Goes(r, q) /\ q.step = "coupon"
      BY <1>1, <1>12, ApplyGoes
    <2>2. QED
      BY <2>1, LinesGoOn
  <1>13. CASE CheckCoupon(r)
    <2>1. PICK q : Goes(r, q) /\ (q = Idle \/ q.step = "updateById")
      BY <1>1, <1>13, CheckGoes
    <2>2. QED
      BY <2>1, LinesGoOn DEF Idle
  <1>14. CASE removeCouponService(r)
    <2>1. PICK q : Goes(r, q) /\ q.step = "updateById"
      BY <1>1, <1>14, RemoveCouponGoes
    <2>2. QED
      BY <2>1, LinesGoOn
  <1>15. CASE UpdateCartById(r)
    <2>1. /\ Ends(r)
          /\ \/ cart' = cart
             \/ /\ cart # NoCart /\ cart' \in Cart /\ cart'.items = cart.items
                /\ cart'.itemTotal = cart.itemTotal /\ cart'.tax = cart.tax
      BY <1>1, <1>15, UpdateByIdWrites
    <2>2. cart' \in Cart \cup {NoCart}
      BY <1>2, <2>1
    <2>3. cart' # NoCart => Adds(cart')
      BY <1>2, <2>1 DEF Adds
    <2>4. QED
      BY <2>1, <2>2, <2>3, LinesEnd
  <1>16. CASE RequestFails(r)
    <2>1. Goes(r, Idle)
      BY <1>16 DEF RequestFails, Finish, Goes
    <2>2. QED
      BY <2>1, LinesGoOn DEF Idle
  <1>17. QED
    BY <1>3, <1>4, <1>5, <1>6, <1>7, <1>8, <1>9, <1>10, <1>11, <1>12, <1>13, <1>14, <1>15, <1>16
    DEF Route, addToCart, removeItem, deleteCart, getCart, applyCoupon, removeCoupon

\* The invariant of any number of requests.
LEMMA LinesStart == Init => LinesInv
  <1> SUFFICES ASSUME Init PROVE LinesInv
    OBVIOUS
  <1>1. TypeOK
    <2>1. [price: Prices, isAvailable: {TRUE}] \subseteq [price: Prices, isAvailable: BOOLEAN]
      OBVIOUS
    <2>2. menu \in [Items -> [price: Prices, isAvailable: BOOLEAN]]
      BY <2>1 DEF Init
    <2>3. QED
      BY <2>2, BoundAssumption DEF Init, TypeOK
  <1>2. \A r \in Requests : request[r].step = "idle"
    BY DEF Init, Idle
  <1>3. QED
    BY <1>1, <1>2 DEF LinesInv, LinesAddUp, Init

LEMMA LinesStep == LinesInv /\ [Next]_vars => LinesInv'
  <1> SUFFICES ASSUME LinesInv, [Next]_vars PROVE LinesInv'
    OBVIOUS
  <1>1. ASSUME NEW r \in Requests, Route(r) \/ RequestFails(r) PROVE LinesInv'
    BY <1>1, LinesRoute
  <1>2. CASE Environment
    <2>1. TypeOK' /\ UNCHANGED <<cart, request, applied>>
      BY <1>2, EnvironmentTypes DEF LinesInv
    <2>2. QED
      BY <2>1 DEF LinesInv, LinesAddUp
  <1>3. CASE UNCHANGED vars
    BY <1>3 DEF vars, LinesInv, LinesAddUp, TypeOK
  <1>4. QED
    BY <1>1, <1>2, <1>3 DEF Next

LEMMA LinesAlways == Spec => []LinesInv
  BY LinesStart, LinesStep, PTL DEF Spec

----------------------------------------------------------------------------
(* Bills, write by write *)

\* New items and totals, with the charges and the discount of the document.
LEMMA BillOfTotals ==
  ASSUME NEW document \in Cart, NEW n \in Nat, Bill(document, n), NEW items \in Lines, NEW set,
         set = calculateCartTotals(items, document.deliveryCharges, document.discount)
  PROVE  Bill(Assign(document, set), n) /\ KeepsDiscount(document, set)
  <1> DEFINE c == document.deliveryCharges
             d == document.discount
             new == Assign(document, set)
  <1>1. c \in Charges /\ d \in Int
    BY DEF Cart
  <1>2. /\ set \in TotalsWrite /\ set.items = items /\ set.deliveryCharges = c
        /\ set.discount = d /\ set.total = Round(AmountDue(items, c, d))
    BY <1>1, TotalsType
  <1>3. /\ new.items = items /\ new.deliveryCharges = c /\ new.discount = d
        /\ new.total = set.total /\ new.couponId = document.couponId
    BY <1>2, AssignTotalsWrite
  <1>4. Off([items |-> items, deliveryCharges |-> c, discount |-> d, total |-> set.total], n)
    BY <1>1, <1>2, TotalsAreOff
  <1> HIDE DEF new
  <1>5. Off(new, n)
    BY <1>3, <1>4 DEF Off
  <1>6. QED
    BY <1>3, <1>4, <1>5 DEF Bill, KeepsDiscount, new

\* No items, and the fees to pay.
LEMMA BillOfNone ==
  ASSUME NEW document \in Cart, NEW n \in Nat, Bill(document, n), NEW set \in EmptyWrite,
         DOMAIN set.items = {}
  PROVE  Bill(Assign(document, set), n) /\ KeepsDiscount(document, set)
  <1> DEFINE new == Assign(document, set)
  <1>1. /\ new.items = set.items /\ new.discount = document.discount
        /\ new.couponId = document.couponId
    BY AssignEmptyWrite
  <1> HIDE DEF new
  <1>2. QED
    BY <1>1 DEF Bill, KeepsDiscount, new

\* A coupon on a cart that has none.
LEMMA BillOfCoupon ==
  ASSUME NEW document \in Cart, NEW n \in 0..2, Bill(document, n), document.couponId = NoCoupon,
         NEW c \in Coupons, CouponSet(document, c) \in CouponWrite
  PROVE  Bill(Assign(document, CouponSet(document, c)), n + 1)
  <1> DEFINE set == CouponSet(document, c)
             new == Assign(document, set)
             off == Discount(document.total, c)
             due == AmountDue(document.items, document.deliveryCharges, 0)
  <1>1. document.discount = 0 /\ document.total \in Int
    BY DEF Bill, Cart
  <1>2. set.total = Round(document.total - off) /\ set.discount = off /\ set.couponId = c
    BY DEF CouponSet
  <1>3. /\ new.items = document.items /\ new.deliveryCharges = document.deliveryCharges
        /\ new.discount = off /\ new.total = set.total /\ new.couponId = c
    BY <1>2, AssignCouponWrite
  <1>5. off \in Int
    BY <1>1, DiscountType
  <1>6. c # NoCoupon
    BY CouponAssumption
  <1>7. /\ set.total \in Int
        /\ 2 * (set.total - (document.total - off)) <= Rupee
        /\ 2 * (set.total - (document.total - off)) >= -Rupee
    BY <1>1, <1>2, <1>5, RoundType
  <1>9. ASSUME DOMAIN document.items # {} PROVE Off(new, n + 1)
    <2>1. document.items \in Lines /\ document.deliveryCharges \in Charges
      BY DEF Cart
    <2>2. /\ due \in Int /\ AmountDue(document.items, document.deliveryCharges, off) = due - off
          /\ AmountDue(document.items, document.deliveryCharges, document.discount) = due
      BY <1>1, <1>5, <2>1, AmountType
    <2>3. /\ 2 * (document.total - due) <= (1 + n) * Rupee
          /\ 2 * (document.total - due) >= -(1 + n) * Rupee
      BY <1>9, <2>2 DEF Bill, Off
    <2> HIDE DEF new, set, off, due
    <2>4. /\ 2 * (set.total - (due - off)) <= (1 + (n + 1)) * Rupee
          /\ 2 * (set.total - (due - off)) >= -(1 + (n + 1)) * Rupee
      BY <1>1, <1>5, <1>7, <2>2, <2>3 DEF Rupee
    <2>5. QED
      BY <1>3, <2>2, <2>4 DEF Off
  <1> HIDE DEF new, set, off
  <1>10. Bill(new, n + 1)
    BY <1>3, <1>6, <1>9 DEF Bill
  <1>11. QED
    BY <1>10 DEF new, set

\* The discount given back.
LEMMA BillOfRemoval ==
  ASSUME NEW document \in Cart, NEW n \in Nat, Bill(document, n), NEW set \in CouponWrite,
         set = [total |-> document.total + document.discount, discount |-> 0, couponId |-> NoCoupon]
  PROVE  Bill(Assign(document, set), n)
  <1> DEFINE new == Assign(document, set)
             due == AmountDue(document.items, document.deliveryCharges, 0)
  <1>1. /\ new.items = document.items /\ new.deliveryCharges = document.deliveryCharges
        /\ new.discount = 0 /\ new.total = document.total + document.discount
        /\ new.couponId = NoCoupon
    BY AssignCouponWrite
  <1>2. document.discount \in Int /\ document.total \in Int
    BY DEF Cart
  <1>3. ASSUME DOMAIN document.items # {} PROVE Off(new, n)
    <2>1. document.items \in Lines /\ document.deliveryCharges \in Charges
      BY DEF Cart
    <2>2. /\ due \in Int
          /\ AmountDue(document.items, document.deliveryCharges, document.discount)
               = due - document.discount
      BY <1>2, <2>1, AmountType
    <2>3. /\ 2 * (document.total - (due - document.discount)) <= (1 + n) * Rupee
          /\ 2 * (document.total - (due - document.discount)) >= -(1 + n) * Rupee
      BY <1>3, <2>2 DEF Bill, Off
    <2>4. AmountDue(new.items, new.deliveryCharges, new.discount) = due
      BY <1>1
    <2> HIDE DEF new, due
    <2>5. new.total - due = document.total - (due - document.discount)
      BY <1>1, <1>2, <2>2
    <2>6. QED
      BY <2>3, <2>4, <2>5 DEF Off
  <1> HIDE DEF new
  <1>6. Bill(new, n)
    BY <1>1, <1>3 DEF Bill
  <1>7. QED
    BY <1>6 DEF new

----------------------------------------------------------------------------
(* BillInv, step by step: one request after the other. *)
OneRequest == \A q, r \in Requests : q = r

\* A request goes on, knowing the cart as it is.
LEMMA BillGoesOn ==
  ASSUME OneRequest, BillInv, LinesInv', NEW r \in Requests, NEW q, Goes(r, q), AsRead(q)
  PROVE  BillInv'
  <1>1. request'[r] = q
    BY Continues DEF BillInv, LinesInv, Goes
  <1>2. cart' = cart /\ applied' = applied
    BY DEF Goes
  <1>3. \A o \in Requests : AsRead(request[o])'
    <2>1. AsRead(request[r])'
      BY <1>1, <1>2 DEF AsRead
    <2>2. QED
      BY <2>1 DEF OneRequest
  <1>4. QED
    BY <1>2, <1>3 DEF BillInv

\* A request ends and leaves a right bill.
LEMMA BillEnds ==
  ASSUME OneRequest, BillInv, LinesInv', NEW r \in Requests, Ends(r),
         cart' # NoCart => Bill(cart', applied')
  PROVE  BillInv'
  <1>1. request'[r] = Idle
    BY Continues DEF BillInv, LinesInv, Ends, Continue
  <1>2. \A o \in Requests : AsRead(request[o])'
    <2>1. AsRead(request[r])'
      BY <1>1 DEF AsRead, Idle
    <2>2. QED
      BY <2>1 DEF OneRequest
  <1>3. QED
    BY <1>2 DEF BillInv

\* The handlers of the cart controller and a failing request.
LEMMA BillRoute ==
  ASSUME OneRequest, BillInv, NEW r \in Requests, Route(r) \/ RequestFails(r)
  PROVE  BillInv'
  <1>1. LinesInv /\ TypeOK /\ LinesInv'
    BY LinesRoute DEF BillInv, LinesInv
  <1>2. /\ cart # NoCart => cart \in Cart /\ Bill(cart, applied)
        /\ applied \in 0..MaxApplied /\ applied \in 0..2 /\ applied \in Nat
        /\ AsRead(request[r])
    BY <1>1, CartTypes, BoundAssumption DEF BillInv, TypeOK
  <1>3. ASSUME NEW i \in Items, addToCartService(r, i) PROVE BillInv'
    <2>1. PICK q : Goes(r, q) /\ q.step = "addMenu" /\ q.seen = cart
      BY <1>1, <1>3, AddGoes
    <2>2. QED
      BY <1>1, <2>1, BillGoesOn DEF AsRead
  <1>4. CASE AddItem(r)
    <2>1. PICK q : Goes(r, q) /\ (q = Idle \/ (q.step = "upsert" /\ Bill(q.set, 0)))
      BY <1>1, <1>4, AddItemGoes
    <2>2. QED
      BY <1>1, <2>1, BillGoesOn DEF AsRead, Idle
  <1>5. CASE UpsertCart(r)
    <2> DEFINE set == request[r].set
    <2>1. Ends(r) /\ applied' = 0
      BY <1>1, <1>5, UpsertWrites
    <2>2. Bill(set, 0)
      BY <1>2, <1>5 DEF AsRead, UpsertCart
    <2>3. /\ cart'.items = set.items /\ cart'.deliveryCharges = set.deliveryCharges
          /\ cart'.discount = set.discount /\ cart'.total = set.total
          /\ cart'.couponId = set.couponId
      BY <1>1, <1>5, UpsertWrites
    <2> HIDE DEF set
    <2>4. Bill(cart', 0)
      BY <2>2, <2>3 DEF Bill, Off
    <2>5. Bill(cart', applied')
      BY <2>1, <2>4
    <2>6. QED
      BY <1>1, <2>1, <2>5, BillEnds
  <1>6. ASSUME NEW i \in Items, removeItemService(r, i) PROVE BillInv'
    <2>1. PICK q : /\ Goes(r, q)
                   /\ \/ q.step = "deleteEmptied"
                      \/ /\ q.step = "update"
                         /\ \E items \in Lines :
                              q.set = calculateCartTotals(items, cart.deliveryCharges, cart.discount)
      BY <1>1, <1>6, RemoveItemGoes
    <2>2. cart # NoCart
      BY <1>6 DEF removeItemService
    <2>3. q.step = "update" => Bill(Assign(cart, q.set), applied) /\ KeepsDiscount(cart, q.set)
      BY <1>2, <2>1, <2>2, BillOfTotals
    <2>4. QED
      BY <1>1, <2>1, <2>2, <2>3, BillGoesOn DEF AsRead
  <1>7. CASE DeleteEmptied(r)
    <2>1. Ends(r) /\ cart' \in {cart, NoCart} /\ applied' = applied
      BY <1>2, <1>7 DEF DeleteEmptied, Ends, Finish, Continue
    <2>2. QED
      BY <1>1, <1>2, <2>1, BillEnds
  <1>8. CASE UpdateCart(r)
    <2>1. Ends(r) /\ applied' = applied
      BY <1>1, <1>8, UpdateWrites
    <2>2. cart # NoCart /\ Bill(Assign(cart, request[r].set), applied)
      BY <1>2, <1>8 DEF AsRead, UpdateCart
    <2>3. cart' = Assign(cart, request[r].set)
      BY <1>1, <1>8, <2>2, UpdateWrites
    <2>4. QED
      BY <1>1, <2>1, <2>2, <2>3, BillEnds
  <1>9. CASE deleteCartService(r)
    <2>1. request' = [request EXCEPT ![r] = Idle]
      BY <1>1, <1>9 DEF TypeOK, deleteCartService
    <2>2. Ends(r) /\ cart' = NoCart
      BY <1>2, <1>9, <2>1 DEF deleteCartService, Ends
    <2>3. QED
      BY <1>1, <2>2, BillEnds
  <1>10. CASE getCartService(r)
    <2>1. PICK q : Goes(r, q) /\ q.step = "getMenu" /\ q.seen = cart
      BY <1>1, <1>10, GetGoes
    <2>2. cart # NoCart
      BY <1>10 DEF getCartService
    <2>3. QED
      BY <1>1, <2>1, <2>2, BillGoesOn DEF AsRead
  <1>11. CASE RefreshItems(r)
    <2>1. request[r].seen = cart /\ cart # NoCart
      BY <1>2, <1>11 DEF AsRead, RefreshItems
    <2>2. PICK q : /\ Goes(r, q)
                   /\ \/ q = Idle
                      \/ /\ q.step = "update" /\ q.set \in EmptyWrite
                         /\ DOMAIN q.set.items = {}
                         /\ q.set.total = cart.deliveryCharges + PLATFORM_FEE
                      \/ /\ q.step = "update"
                         /\ \E items \in Lines :
                              q.set = calculateCartTotals(items, cart.deliveryCharges, cart.discount)
      BY <1>1, <1>11, <2>1, RefreshGoes
    <2>3. \/ q = Idle
          \/ /\ q.step = "update" /\ Bill(Assign(cart, q.set), applied)
             /\ KeepsDiscount(cart, q.set)
      BY <1>2, <2>1, <2>2, BillOfTotals, BillOfNone
    <2>4. QED
      BY <1>1, <2>1, <2>2, <2>3, BillGoesOn DEF AsRead, Idle
  <1>12. ASSUME NEW c \in Coupons, applyCouponService(r, c) PROVE BillInv'
    <2>1. PICK q : Goes(r, q) /\ q.step = "coupon" /\ q.seen = cart
      BY <1>1, <1>12, ApplyGoes
    <2>2. cart # NoCart /\ cart.couponId = NoCoupon
      BY <1>12 DEF applyCouponService
    <2>3. QED
      BY <1>1, <2>1, <2>2, BillGoesOn DEF AsRead
  <1>13. CASE CheckCoupon(r)
    <2>1. request[r].seen = cart /\ cart # NoCart /\ cart.couponId = NoCoupon
      BY <1>2, <1>13 DEF AsRead, CheckCoupon
    <2>2. PICK q : /\ Goes(r, q)
                   /\ \/ q = Idle
                      \/ /\ q.step = "updateById" /\ q.id = cart.id /\ applied < MaxApplied
                         /\ q.set \in CouponWrite
                         /\ \E c \in Coupons : q.set = CouponSet(cart, c)
      BY <1>1, <1>13, <2>1, CheckGoes
    <2>3. ASSUME q # Idle
          PROVE  Bill(Assign(cart, q.set), applied + 1) /\ q.set.couponId # NoCoupon
      <3>1. PICK c \in Coupons : q.set = CouponSet(cart, c)
        BY <2>2, <2>3
      <3>2. q.set.couponId # NoCoupon
        BY <3>1, CouponAssumption DEF CouponSet
      <3>3. QED
        BY <1>2, <2>1, <2>2, <2>3, <3>1, <3>2, BillOfCoupon
    <2>4. QED
      BY <1>1, <2>1, <2>2, <2>3, BillGoesOn DEF AsRead, Idle
  <1>14. CASE removeCouponService(r)
    <2>1. PICK q : /\ Goes(r, q) /\ q.step = "updateById" /\ q.id = cart.id
                   /\ q.set \in CouponWrite
                   /\ q.set = [total |-> cart.total + cart.discount, discount |-> 0,
                               couponId |-> NoCoupon]
      BY <1>1, <1>14, RemoveCouponGoes
    <2>2. cart # NoCart
      BY <1>14 DEF removeCouponService
    <2>3. Bill(Assign(cart, q.set), applied) /\ q.set.couponId = NoCoupon
      BY <1>2, <2>1, <2>2, BillOfRemoval
    <2>4. QED
      BY <1>1, <2>1, <2>2, <2>3, BillGoesOn DEF AsRead
  <1>15. CASE UpdateCartById(r)
    <2> DEFINE set == request[r].set
    <2>1. /\ cart # NoCart /\ request[r].id = cart.id
          /\ IF set.couponId = NoCoupon THEN Bill(Assign(cart, set), applied)
             ELSE applied < MaxApplied /\ Bill(Assign(cart, set), applied + 1)
      BY <1>2, <1>15 DEF AsRead, UpdateCartById
    <2>2. /\ Ends(r) /\ cart' = Assign(cart, set)
          /\ applied' = IF set.couponId = NoCoupon \/ applied = MaxApplied
                        THEN applied ELSE applied + 1
      BY <1>1, <1>15, <2>1, UpdateByIdWrites
    <2> HIDE DEF set
    <2>3. Bill(cart', applied')
      <3>1. CASE set.couponId = NoCoupon
        BY <2>1, <2>2, <3>1
      <3>2. CASE set.couponId # NoCoupon
        <4>1. applied' = applied + 1
          BY <1>2, <2>1, <2>2, <3>2, BoundAssumption
        <4>2. QED
          BY <2>1, <2>2, <3>2, <4>1
      <3>3. QED
        BY <3>1, <3>2
    <2>4. QED
      BY <1>1, <2>2, <2>3, BillEnds
  <1>16. CASE RequestFails(r)
    <2>1. Goes(r, Idle)
      BY <1>16 DEF RequestFails, Finish, Goes
    <2>2. QED
      BY <1>1, <2>1, BillGoesOn DEF AsRead, Idle
  <1>17. QED
    BY <1>3, <1>4, <1>5, <1>6, <1>7, <1>8, <1>9, <1>10, <1>11, <1>12, <1>13, <1>14, <1>15, <1>16
    DEF Route, addToCart, removeItem, deleteCart, getCart, applyCoupon, removeCoupon

\* The invariant of one request.
LEMMA BillStart == Init => BillInv
  <1> SUFFICES ASSUME Init PROVE BillInv
    OBVIOUS
  <1>1. LinesInv
    BY LinesStart
  <1>2. \A r \in Requests : AsRead(request[r])
    BY DEF Init, Idle, AsRead
  <1>3. QED
    BY <1>1, <1>2 DEF BillInv, Init

LEMMA BillStep == ASSUME OneRequest PROVE BillInv /\ [Next]_vars => BillInv'
  <1> SUFFICES ASSUME BillInv, [Next]_vars PROVE BillInv'
    OBVIOUS
  <1>1. ASSUME NEW r \in Requests, Route(r) \/ RequestFails(r) PROVE BillInv'
    BY <1>1, BillRoute
  <1>2. ASSUME UNCHANGED <<cart, request, applied>> PROVE BillInv'
    <2>1. LinesInv'
      BY LinesStep DEF BillInv
    <2>2. QED
      BY <1>2, <2>1 DEF BillInv, AsRead
  <1>3. CASE Environment
    <2>1. UNCHANGED <<cart, request, applied>>
      BY <1>3, EnvironmentTypes DEF BillInv, LinesInv
    <2>2. QED
      BY <1>2, <2>1
  <1>4. CASE UNCHANGED vars
    BY <1>2, <1>4 DEF vars
  <1>5. QED
    BY <1>1, <1>3, <1>4 DEF Next

LEMMA BillAlways == ASSUME OneRequest PROVE Spec => []BillInv
  BY BillStart, BillStep, PTL DEF Spec

----------------------------------------------------------------------------
(* Theorems *)

\* The state of a cart and of its requests is of its type; in particular no
\* handler writes a line without a quantity, whatever it read.
THEOREM TypeCorrect == Spec => []TypeOK
  <1>1. LinesInv => TypeOK
    BY DEF LinesInv
  <1>2. QED
    BY <1>1, LinesAlways, PTL

\* The item part of the bill is always that of the items the cart has, with
\* any number of requests that read, compute and write on top of each other.
THEOREM LinesAlwaysAddUp == Spec => []LinesAddUp
  <1>1. LinesInv => LinesAddUp
    BY DEF LinesInv
  <1>2. QED
    BY <1>1, LinesAlways, PTL

\* One request after the other, the total is what the items, the fees and the
\* discount come to, up to half a rupee for itself and for each coupon.
THEOREM TotalAlwaysAddsUp == ASSUME OneRequest PROVE Spec => []TotalAddsUp
  <1>1. BillInv => TotalAddsUp
    BY DEF BillInv, Bill, Off, TotalAddsUp
  <1>2. QED
    BY <1>1, BillAlways, PTL

\* One request after the other, no step of a handler changes the discount of a
\* cart that keeps its coupon, nor leaves one on a cart without.
LEMMA DiscountRoute ==
  ASSUME OneRequest, BillInv, BillInv', NEW r \in Requests, Route(r) \/ RequestFails(r)
  PROVE  DiscountOfCoupon
  <1>1. TypeOK /\ AsRead(request[r])
    BY DEF BillInv, LinesInv
  <1>2. /\ cart # NoCart /\ cart.couponId = NoCoupon => cart.discount = 0
        /\ cart' # NoCart /\ cart'.couponId = NoCoupon => cart'.discount = 0
    BY DEF BillInv, Bill
  <1>3. ASSUME cart' \in {cart, NoCart} PROVE DiscountOfCoupon
    BY <1>2, <1>3 DEF DiscountOfCoupon
  <1>4. CASE UpsertCart(r)
    <2>1. cart'.couponId = request[r].set.couponId /\ request[r].set \in AddWrite
      BY <1>1, <1>4, UpsertWrites, RequestTypes DEF UpsertCart
    <2>2. cart'.couponId = NoCoupon
      BY <2>1 DEF AddWrite
    <2>3. QED
      BY <1>2, <2>2 DEF DiscountOfCoupon
  <1>5. CASE UpdateCart(r)
    <2>1. cart # NoCart /\ KeepsDiscount(cart, request[r].set)
      BY <1>1, <1>5 DEF AsRead, UpdateCart
    <2>2. cart' = Assign(cart, request[r].set)
      BY <1>5, <2>1 DEF UpdateCart
    <2>3. QED
      BY <1>2, <2>1, <2>2 DEF DiscountOfCoupon, KeepsDiscount
  <1>6. CASE UpdateCartById(r)
    <2> DEFINE set == request[r].set
    <2>1. /\ cart # NoCart /\ cart \in Cart /\ set \in CouponWrite /\ request[r].id = cart.id
          /\ set.couponId # NoCoupon => cart.couponId = NoCoupon
      BY <1>1, <1>6, CartTypes, RequestTypes DEF AsRead, UpdateCartById
    <2>2. cart' = Assign(cart, set)
      BY <1>6, <2>1 DEF UpdateCartById
    <2>3. cart'.couponId = set.couponId
      BY <2>1, <2>2, AssignCouponWrite
    <2> HIDE DEF set
    <2>4. QED
      BY <1>2, <2>1, <2>3 DEF DiscountOfCoupon
  <1>7. CASE DeleteEmptied(r)
    BY <1>3, <1>7 DEF DeleteEmptied
  <1>8. CASE deleteCartService(r)
    BY <1>3, <1>8 DEF deleteCartService
  <1>9. CASE RequestFails(r)
    BY <1>3, <1>9 DEF RequestFails
  <1>10. CASE \/ \E i \in Items : addToCartService(r, i) \/ removeItemService(r, i)
              \/ AddItem(r) \/ getCartService(r) \/ RefreshItems(r)
    BY <1>3, <1>10
    DEF addToCartService, removeItemService, AddItem, getCartService, RefreshItems
  <1>11. CASE \/ \E c \in Coupons : applyCouponService(r, c)
              \/ CheckCoupon(r) \/ removeCouponService(r)
    BY <1>3, <1>11 DEF applyCouponService, CheckCoupon, removeCouponService
  <1>12. QED
    BY <1>4, <1>5, <1>6, <1>7, <1>8, <1>9, <1>10, <1>11
    DEF Route, addToCart, removeItem, deleteCart, getCart, applyCoupon, removeCoupon

\* One request after the other, a cart without a coupon has no discount, and one
\* with a coupon keeps the discount it was given when the coupon was applied;
\* for coupons of any terms, worthless ones among them.
THEOREM DiscountAlwaysFollows == ASSUME OneRequest PROVE Spec => DiscountFollowsCoupon
  <1>1. ASSUME BillInv, BillInv', [Next]_vars PROVE [DiscountOfCoupon]_vars
    <2>1. ASSUME NEW r \in Requests, Route(r) \/ RequestFails(r) PROVE DiscountOfCoupon
      BY <1>1, <2>1, DiscountRoute
    <2>2. CASE Environment
      <3>1. UNCHANGED <<cart, request, applied>>
        BY <1>1, <2>2, EnvironmentTypes DEF BillInv, LinesInv
      <3>2. QED
        BY <1>1, <3>1 DEF BillInv, Bill, DiscountOfCoupon
    <2>3. QED
      BY <1>1, <2>1, <2>2 DEF Next
  <1>2. QED
    BY <1>1, BillAlways, PTL DEF Spec, DiscountFollowsCoupon
=============================================================================
