-------------------------------- MODULE Cart --------------------------------
(***************************************************************************)
(* cart-service: the cart of one user and the HTTP requests that change    *)
(* it.  Carts of different users share nothing but the menu, the coupons   *)
(* and the restaurants, which other services write.                        *)
(*                                                                         *)
(* Every handler reads the whole document, computes in memory, and writes  *)
(* fields back with $set, some by user id and some by document id.  Nothing*)
(* checks that the document is still the one that was read.                *)
(***************************************************************************)
EXTENDS Integers, FiniteSets, Functions

CONSTANTS
  Items,           \* menu items, finitely many
  Restaurants,
  MenuRestaurant,  \* the restaurant each item is on the menu of
  Coupons,         \* coupon ids; a coupon with other terms is another one here,
                   \* as the terms are read when it is applied and never again
  NoCoupon,        \* couponId null
  CouponData,      \* the terms of each coupon: percentage, limits, restaurant
  NoRestaurant,    \* the restaurant of a coupon for all of them
  CartIds,         \* document ids
  NoCart,          \* "the user has no cart"
  Requests,        \* HTTP requests of the user being handled at a time
  Prices,          \* prices a menu item may have
  Distances,       \* metres from the default coordinates to the restaurant
  MaxQuantity,     \* bound: quantity of an item
  MaxApplied       \* bound: coupons applied since an item was added

\* Amounts are in 1/10000 of a rupee, which keeps percentages of percentages
\* exact, as long as no more than two coupons are applied (BoundAssumption).
Rupee == 10000
TAX_PERCENT == 5
PLATFORM_FEE == 9 * Rupee
DELIVERY_CHARGE_PER_KM == 5

\* Any numbers: neither the form nor the schema of a coupon bounds them, so one
\* may be worth nothing, or less.
CouponRecord == [discountPercent: Int, maxDiscount: Int, minOrderAmount: Int,
                 restaurantId: Restaurants \cup {NoRestaurant}]

ASSUME MenuAssumption == IsFiniteSet(Items) /\ MenuRestaurant \in [Items -> Restaurants]
ASSUME CouponAssumption == /\ CouponData \in [Coupons -> CouponRecord]
                           /\ NoCoupon \notin Coupons
ASSUME AmountAssumption == Prices \subseteq Int /\ Distances \subseteq Nat
ASSUME BoundAssumption == MaxQuantity \in Nat \ {0} /\ MaxApplied \in 0..2

VARIABLES
  menu,      \* price and availability of each item
  charges,   \* the delivery charges for where the restaurant is
  valid,     \* coupons that are active and not expired
  cart,      \* the document
  request,   \* the requests being handled
  applied    \* coupons applied since an item was added

vars == <<menu, charges, valid, cart, request, applied>>

----------------------------------------------------------------------------
(* The bill *)

\* Math.ceil: a rupee that is begun is charged.
calculateDeliveryCharges(distance) ==
  ((distance * DELIVERY_CHARGE_PER_KM + 999) \div 1000) * Rupee
Charges == {calculateDeliveryCharges(d) : d \in Distances}

calculateTax(amount) == (amount * TAX_PERCENT) \div 100
\* Math.round: halves go up.
Round(amount) == ((amount + Rupee \div 2) \div Rupee) * Rupee

ItemTotal(items) == SumFunction([i \in DOMAIN items |-> items[i].price * items[i].quantity])
AmountDue(items, deliveryCharges, discount) ==
  ItemTotal(items) + calculateTax(ItemTotal(items)) + deliveryCharges + PLATFORM_FEE - discount

\* What a handler that recomputes the totals sets.  The fields it derives
\* from these (subtotal, platformFee, each item's own tax) are left out.
calculateCartTotals(items, deliveryCharges, discount) ==
  [items |-> items, itemTotal |-> ItemTotal(items), tax |-> calculateTax(ItemTotal(items)),
   deliveryCharges |-> deliveryCharges, discount |-> discount,
   total |-> Round(AmountDue(items, deliveryCharges, discount))]

----------------------------------------------------------------------------
(* Documents, writes and requests *)

Line == [quantity: 1..MaxQuantity, price: Prices]
Lines == UNION {[chosen -> Line] : chosen \in SUBSET Items}
Cart == [id: CartIds, restaurantId: Restaurants, items: Lines, itemTotal: Int, tax: Int,
         deliveryCharges: Charges, discount: Int, total: Int, couponId: Coupons \cup {NoCoupon}]

\* The fields of a $set, by the handler that sends it.
AddWrite == [restaurantId: Restaurants, items: Lines, itemTotal: Int, tax: Int,
             deliveryCharges: Charges, discount: Int, total: Int, couponId: {NoCoupon}]
TotalsWrite == [items: Lines, itemTotal: Int, tax: Int, deliveryCharges: Charges,
                discount: Int, total: Int]
EmptyWrite == [items: Lines, itemTotal: {0}, tax: {0}, total: Nat]
CouponWrite == [total: Int, discount: Int, couponId: Coupons \cup {NoCoupon}]

Idle == [step |-> "idle"]
Request ==
  [step: {"addMenu"}, item: Items, seen: Cart \cup {NoCart}]
    \cup [step: {"upsert"}, set: AddWrite]
    \cup [step: {"getMenu"}, seen: Cart]
    \cup [step: {"update"}, set: TotalsWrite \cup EmptyWrite]
    \cup [step: {"deleteEmptied"}, id: CartIds]
    \cup [step: {"coupon"}, coupon: Coupons, seen: Cart]
    \cup [step: {"updateById"}, id: CartIds, set: CouponWrite]

TypeOK ==
  /\ menu \in [Items -> [price: Prices, isAvailable: BOOLEAN]]
  /\ charges \in Charges
  /\ valid \subseteq Coupons
  /\ cart \in Cart \cup {NoCart}
  /\ request \in [Requests -> Request \cup {Idle}]
  /\ applied \in 0..MaxApplied

Init ==
  /\ menu \in [Items -> [price: Prices, isAvailable: {TRUE}]]
  /\ charges \in Charges
  /\ valid = Coupons
  /\ cart = NoCart
  /\ request = [r \in Requests |-> Idle]
  /\ applied = 0

Assign(document, set) ==
  [f \in DOMAIN document |-> IF f \in DOMAIN set THEN set[f] ELSE document[f]]

Continue(r, next) == request' = [request EXCEPT ![r] = next]
Finish(r) == Continue(r, Idle)

----------------------------------------------------------------------------
(* The environment: managers edit menus, coupons and where the restaurant  *)
(* is.  Where the user is has no say: the key it is read from is written   *)
(* by nobody, and the default coordinates are used.                        *)

MenuEdited(i, entry) ==
  /\ menu' = [menu EXCEPT ![i] = entry]
  /\ UNCHANGED <<charges, valid, cart, request, applied>>
RestaurantMoves(c) ==
  /\ charges' = c
  /\ UNCHANGED <<menu, valid, cart, request, applied>>
CouponEdited(c) ==
  /\ valid' = IF c \in valid THEN valid \ {c} ELSE valid \cup {c}
  /\ UNCHANGED <<menu, charges, cart, request, applied>>

----------------------------------------------------------------------------
(* addToCartService: read the cart, then the menu and the restaurant, then *)
(* write every field of the cart, creating it if it is not there.  No      *)
(* unique index is behind the upsert: two that create the cart at the very *)
(* same time may leave the user two; here the second finds the first.      *)

addToCartService(r, i) ==
  /\ request[r] = Idle
  /\ Continue(r, [step |-> "addMenu", item |-> i, seen |-> cart])
  /\ UNCHANGED <<menu, charges, valid, cart, applied>>

\* A present item keeps the price it was put in with.
OneMore(items, i) ==
  IF i \in DOMAIN items
  THEN [items EXCEPT ![i] = [items[i] EXCEPT !.quantity = items[i].quantity + 1]]
  ELSE [j \in DOMAIN items \cup {i} |->
          IF j = i THEN [quantity |-> 1, price |-> menu[i].price] ELSE items[j]]

Conflict(seen, i) == seen # NoCart /\ seen.restaurantId # MenuRestaurant[i]
AtBound(seen, i) == seen # NoCart /\ i \in DOMAIN seen.items /\ seen.items[i].quantity = MaxQuantity

AddItem(r) ==
  /\ request[r].step = "addMenu"
  /\ LET i == request[r].item
         seen == request[r].seen
         items == OneMore(IF seen = NoCart THEN <<>> ELSE seen.items, i)
         totals == calculateCartTotals(items, charges, 0)
     IN IF ~menu[i].isAvailable \/ Conflict(seen, i) \/ AtBound(seen, i) THEN Finish(r)
        ELSE Continue(r, [step |-> "upsert", set |->
               [restaurantId |-> MenuRestaurant[i], couponId |-> NoCoupon,
                items |-> items, itemTotal |-> totals.itemTotal, tax |-> totals.tax,
                deliveryCharges |-> charges, discount |-> 0, total |-> totals.total]])
  /\ UNCHANGED <<menu, charges, valid, cart, applied>>

\* Ids are never used twice: an id is new if no request remembers it.
Remembered(r) ==
  CASE request[r].step \in {"updateById", "deleteEmptied"} -> {request[r].id}
    [] request[r].step = "coupon" -> {request[r].seen.id}
    [] OTHER -> {}
NewIds == CartIds \ UNION {Remembered(r) : r \in Requests}

UpsertCart(r) ==
  /\ request[r].step = "upsert"
  /\ LET set == request[r].set IN
     IF cart # NoCart THEN cart' = Assign(cart, set)
     ELSE \E id \in NewIds :
            cart' = [id |-> id, restaurantId |-> set.restaurantId, items |-> set.items,
                     itemTotal |-> set.itemTotal, tax |-> set.tax,
                     deliveryCharges |-> set.deliveryCharges, discount |-> set.discount,
                     total |-> set.total, couponId |-> set.couponId]
  /\ Finish(r)
  /\ applied' = 0
  /\ UNCHANGED <<menu, charges, valid>>

----------------------------------------------------------------------------
(* removeItemService: read the cart, then write the items left and their   *)
(* totals, or delete the cart when nothing is left.                        *)

\* Fault: an item stays in the cart with quantity 0.
OneLess_Kept(items, i) ==
  [items EXCEPT ![i] = [items[i] EXCEPT !.quantity = items[i].quantity - 1]]

OneLess(items, i) ==
  IF items[i].quantity > 1
  THEN [items EXCEPT ![i] = [items[i] EXCEPT !.quantity = items[i].quantity - 1]]
  ELSE [j \in DOMAIN items \ {i} |-> items[j]]

\* Fault: the discount of the cart is forgotten.
RemovedTotals_NoDiscount(seen, i) ==
  calculateCartTotals(OneLess(seen.items, i), seen.deliveryCharges, 0)

RemovedTotals(seen, i) ==
  calculateCartTotals(OneLess(seen.items, i), seen.deliveryCharges, seen.discount)

removeItemService(r, i) ==
  /\ request[r] = Idle
  /\ cart # NoCart
  /\ i \in DOMAIN cart.items
  /\ Continue(r, IF DOMAIN OneLess(cart.items, i) = {}
                 THEN [step |-> "deleteEmptied", id |-> cart.id]
                 ELSE [step |-> "update", set |-> RemovedTotals(cart, i)])
  /\ UNCHANGED <<menu, charges, valid, cart, applied>>

DeleteEmptied(r) ==
  /\ request[r].step = "deleteEmptied"
  /\ cart' = IF cart # NoCart /\ cart.id = request[r].id THEN NoCart ELSE cart
  /\ Finish(r)
  /\ UNCHANGED <<menu, charges, valid, applied>>

\* The write of removeItemService and getCartService, by user id; a cart that
\* is gone by then stays gone.
UpdateCart(r) ==
  /\ request[r].step = "update"
  /\ cart' = IF cart = NoCart THEN NoCart ELSE Assign(cart, request[r].set)
  /\ Finish(r)
  /\ UNCHANGED <<menu, charges, valid, applied>>

----------------------------------------------------------------------------
(* getCartService: read the cart, then the menu; write the cart back if an *)
(* item is gone or has another price.                                      *)

getCartService(r) ==
  /\ request[r] = Idle
  /\ cart # NoCart
  /\ Continue(r, [step |-> "getMenu", seen |-> cart])
  /\ UNCHANGED <<menu, charges, valid, cart, applied>>

\* Fault: the items are refreshed, the totals are not.
RefreshedTotals_Stale(seen, items) ==
  [items |-> items, itemTotal |-> seen.itemTotal, tax |-> seen.tax,
   deliveryCharges |-> seen.deliveryCharges, discount |-> seen.discount, total |-> seen.total]

RefreshedTotals(seen, items) == calculateCartTotals(items, seen.deliveryCharges, seen.discount)

RefreshItems(r) ==
  /\ request[r].step = "getMenu"
  /\ LET seen == request[r].seen
         left == {i \in DOMAIN seen.items : menu[i].isAvailable}
         items == [i \in left |-> [seen.items[i] EXCEPT !.price = menu[i].price]]
     IN IF left = {}
        THEN Continue(r, [step |-> "update", set |->
               [items |-> items, itemTotal |-> 0, tax |-> 0,
                total |-> seen.deliveryCharges + PLATFORM_FEE]])
        ELSE IF items = seen.items THEN Finish(r)
        ELSE Continue(r, [step |-> "update", set |-> RefreshedTotals(seen, items)])
  /\ UNCHANGED <<menu, charges, valid, cart, applied>>

----------------------------------------------------------------------------
(* Coupons: read the cart, then the coupon, then write total and discount  *)
(* of the document that was read, by its id.                               *)

applyCouponService(r, c) ==
  /\ request[r] = Idle
  /\ cart # NoCart
  /\ cart.couponId = NoCoupon
  /\ Continue(r, [step |-> "coupon", coupon |-> c, seen |-> cart])
  /\ UNCHANGED <<menu, charges, valid, cart, applied>>

Discount(total, c) ==
  LET percentage == (total * CouponData[c].discountPercent) \div 100 IN
  IF percentage < CouponData[c].maxDiscount THEN percentage ELSE CouponData[c].maxDiscount

Applicable(seen, c) ==
  /\ CouponData[c].restaurantId \in {seen.restaurantId, NoRestaurant}
  /\ c \in valid
  /\ seen.total >= CouponData[c].minOrderAmount

\* Fault: the discount is taken off the total and not noted.
CouponSet_NotNoted(seen, c) ==
  [total |-> Round(seen.total - Discount(seen.total, c)), discount |-> 0, couponId |-> c]

CouponSet(seen, c) ==
  [total |-> Round(seen.total - Discount(seen.total, c)),
   discount |-> Discount(seen.total, c), couponId |-> c]

CheckCoupon(r) ==
  /\ request[r].step = "coupon"
  /\ LET seen == request[r].seen
         c == request[r].coupon
     IN IF Applicable(seen, c) /\ applied < MaxApplied
        THEN Continue(r, [step |-> "updateById", id |-> seen.id, set |-> CouponSet(seen, c)])
        ELSE Finish(r)
  /\ UNCHANGED <<menu, charges, valid, cart, applied>>

removeCouponService(r) ==
  /\ request[r] = Idle
  /\ cart # NoCart
  /\ cart.couponId # NoCoupon
  /\ Continue(r, [step |-> "updateById", id |-> cart.id, set |->
       [total |-> cart.total + cart.discount, discount |-> 0, couponId |-> NoCoupon]])
  /\ UNCHANGED <<menu, charges, valid, cart, applied>>

UpdateCartById(r) ==
  /\ request[r].step = "updateById"
  /\ IF cart # NoCart /\ cart.id = request[r].id
     THEN /\ cart' = Assign(cart, request[r].set)
          /\ applied' = IF request[r].set.couponId = NoCoupon \/ applied = MaxApplied
                        THEN applied ELSE applied + 1
     ELSE UNCHANGED <<cart, applied>>
  /\ Finish(r)
  /\ UNCHANGED <<menu, charges, valid>>

----------------------------------------------------------------------------
deleteCartService(r) ==
  /\ request[r] = Idle
  /\ cart' = NoCart
  /\ UNCHANGED <<menu, charges, valid, request, applied>>

\* An awaited call rejects, or the process dies: the request is over.
RequestFails(r) ==
  /\ request[r] # Idle
  /\ Finish(r)
  /\ UNCHANGED <<menu, charges, valid, cart, applied>>

----------------------------------------------------------------------------
(* The routes of the cart controller: the steps of a request, each between *)
(* two awaits, in the order in which its records let them happen.          *)

addToCart(r) ==
  \/ \E i \in Items : addToCartService(r, i)
  \/ AddItem(r)
  \/ UpsertCart(r)
removeItem(r) ==
  \/ \E i \in Items : removeItemService(r, i)
  \/ DeleteEmptied(r)
  \/ UpdateCart(r)
deleteCart(r) == deleteCartService(r)
getCart(r) ==
  \/ getCartService(r)
  \/ RefreshItems(r)
  \/ UpdateCart(r)
applyCoupon(r) ==
  \/ \E c \in Coupons : applyCouponService(r, c)
  \/ CheckCoupon(r)
  \/ UpdateCartById(r)
removeCoupon(r) == removeCouponService(r) \/ UpdateCartById(r)

Route(r) == addToCart(r) \/ removeItem(r) \/ deleteCart(r) \/ getCart(r)
              \/ applyCoupon(r) \/ removeCoupon(r)
Environment ==
  \/ \E i \in Items, entry \in [price: Prices, isAvailable: BOOLEAN] : MenuEdited(i, entry)
  \/ \E c \in Charges : RestaurantMoves(c)
  \/ \E c \in Coupons : CouponEdited(c)

Next ==
  \/ \E r \in Requests : Route(r) \/ RequestFails(r)
  \/ Environment

Spec == Init /\ [][Next]_vars

----------------------------------------------------------------------------
(* Properties *)

\* Requests read, compute and write on top of each other, and documents are
\* deleted and created under their feet; whatever is lost by it, the item part
\* of the bill is always that of the items the cart has.
LinesAddUp ==
  cart # NoCart => /\ cart.itemTotal = ItemTotal(cart.items)
                   /\ cart.tax = calculateTax(cart.itemTotal)

\* The total is what the items, the fees and the discount come to, up to half
\* a rupee for itself and for each coupon applied since an item was added.  (A cart whose
\* items all went off the menu keeps its discount and is charged without it.)
TotalAddsUp ==
  cart # NoCart /\ DOMAIN cart.items # {} =>
    LET error == cart.total - AmountDue(cart.items, cart.deliveryCharges, cart.discount) IN
    /\ 2 * error <= (1 + applied) * Rupee
    /\ 2 * error >= -(1 + applied) * Rupee

\* One request after the other, a cart without a coupon has no discount, and one
\* with a coupon keeps the discount that the coupon came to when it was applied,
\* whatever is taken off the cart or gets another price, until the coupon goes.
DiscountOfCoupon ==
  cart # NoCart /\ cart' # NoCart =>
    /\ cart'.couponId = NoCoupon => cart'.discount = 0
    /\ cart'.couponId = cart.couponId => cart'.discount = cart.discount
DiscountFollowsCoupon == [][DiscountOfCoupon]_vars
=============================================================================
