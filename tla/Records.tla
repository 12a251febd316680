------------------------------ MODULE Records ------------------------------
(***************************************************************************)
(* The addresses of customers (user-service), the menu items and coupons   *)
(* of restaurants (restaurant-service), and the ratings of orders          *)
(* (media-rating-service).  Each is a document that is inserted once,      *)
(* ratings without a look at anything, the others after a look at another  *)
(* document; all but menu items have a key that a unique index keeps to    *)
(* one document.  A request whose write finds the key taken ends with 400  *)
(* or 500.                                                                 *)
(*                                                                         *)
(* Updates and deletions of an address look for one whose id is that of    *)
(* the customer, and find none: addresses stay as they are.  Restaurants   *)
(* are found by their id, whoever manages them.                            *)
(***************************************************************************)
EXTENDS Handlers

CONSTANTS
  Addresses, Coupons, MenuItems, Ratings,  \* ids of documents, each drawn once
  Places,       \* customer, latitude and longitude: the key of an address
  Codes,        \* the key of a coupon
  Rated,        \* orders: the key of a rating
  Restaurants

VARIABLES
  address,      \* the key of each address
  coupon,       \* the key of each coupon
  menuItem,     \* the restaurant of each menu item
  rating        \* the key of each rating

store == <<address, coupon, menuItem, rating>>
vars == <<store, request, faults>>

CreateAddress == [step: {"findAddress", "saveAddress"}, place: Places]
ByCustomer == [step: {"updateAddress", "deleteAddress"}]
CreateCoupon == [step: {"findRestaurant", "saveCoupon"}, code: Codes]
UpdateCoupon == [step: {"updateCoupon"}, coupon: Coupons, code: Codes]
CreateMenuItem == [step: {"findById", "saveMenuItem"}, restaurant: Restaurants]
CreateRating == [step: {"saveRating"}, order: Rated]
Request ==
  CreateAddress \cup ByCustomer \cup CreateCoupon \cup UpdateCoupon \cup CreateMenuItem
    \cup CreateRating

TypeOK ==
  /\ address \in [Addresses -> Places \cup {"none"}]
  /\ coupon \in [Coupons -> Codes \cup {"none"}]
  /\ menuItem \in [MenuItems -> Restaurants \cup {"none"}]
  /\ rating \in [Ratings -> Rated \cup {"none"}]
  /\ request \in [Requests -> Request \cup {Idle}]
  /\ faults \in 0..MaxFaults

Init ==
  /\ address = [a \in Addresses |-> "none"]
  /\ coupon = [c \in Coupons |-> "none"]
  /\ menuItem = [i \in MenuItems |-> "none"]
  /\ rating = [g \in Ratings |-> "none"]
  /\ NoRequests

Uses(documents, key) == {d \in DOMAIN documents : documents[d] = key}
Insert(documents, key) ==
  {[documents EXCEPT ![d] = key] : d \in Uses(documents, "none")}

----------------------------------------------------------------------------
(* Addresses *)

addressCreateService(r, p) ==
  /\ Start(r, [step |-> "findAddress", place |-> p])
  /\ UNCHANGED <<store, faults>>

\* 409 if the customer has an address there.
FindAddress(r) ==
  /\ request[r].step = "findAddress"
  /\ IF Uses(address, request[r].place) # {} THEN Finish(r) ELSE Continue(r, "saveAddress")
  /\ UNCHANGED <<store, faults>>

\* Fault: the index on the three fields is not unique.
SaveAddress_NoIndex(r) ==
  /\ request[r].step = "saveAddress"
  /\ address' \in Insert(address, request[r].place)
  /\ UNCHANGED <<coupon, menuItem, rating>>

SaveAddress(r) ==
  /\ request[r].step = "saveAddress"
  /\ Uses(address, request[r].place) = {}
  /\ address' \in Insert(address, request[r].place)
  /\ UNCHANGED <<coupon, menuItem, rating>>

updateAddressService(r) == Start(r, [step |-> "updateAddress"]) /\ UNCHANGED <<store, faults>>
deleteAddressService(r) == Start(r, [step |-> "deleteAddress"]) /\ UNCHANGED <<store, faults>>

\* No address has the customer's id: 500 of an update, 403 of a deletion.
FindByCustomer(r) ==
  /\ request[r].step \in {"updateAddress", "deleteAddress"}
  /\ Finish(r)
  /\ UNCHANGED <<store, faults>>

----------------------------------------------------------------------------
(* Coupons and menu items *)

createCoupon(r, d) ==
  /\ Start(r, [step |-> "findRestaurant", code |-> d])
  /\ UNCHANGED <<store, faults>>

createMenuItem(r, x) ==
  /\ Start(r, [step |-> "findById", restaurant |-> x])
  /\ UNCHANGED <<store, faults>>

\* The restaurant may not be there: 404.
FindRestaurant(r) ==
  /\ \/ request[r].step = "findRestaurant" /\ (Continue(r, "saveCoupon") \/ Finish(r))
     \/ request[r].step = "findById" /\ (Continue(r, "saveMenuItem") \/ Finish(r))
  /\ UNCHANGED <<store, faults>>

SaveCoupon(r) ==
  /\ request[r].step = "saveCoupon"
  /\ Uses(coupon, request[r].code) = {}
  /\ coupon' \in Insert(coupon, request[r].code)
  /\ UNCHANGED <<address, menuItem, rating>>

updateCoupon(r, c, d) ==
  /\ Start(r, [step |-> "updateCoupon", coupon |-> c, code |-> d])
  /\ UNCHANGED <<store, faults>>

\* A coupon that is there gets the code, if no other coupon has it.
FindCouponAndUpdate(r) ==
  /\ request[r].step = "updateCoupon"
  /\ coupon[request[r].coupon] # "none"
  /\ Uses(coupon, request[r].code) \subseteq {request[r].coupon}
  /\ coupon' = [coupon EXCEPT ![request[r].coupon] = request[r].code]
  /\ UNCHANGED <<address, menuItem, rating>>

SaveMenuItem(r) ==
  /\ request[r].step = "saveMenuItem"
  /\ menuItem' \in Insert(menuItem, request[r].restaurant)
  /\ UNCHANGED <<address, coupon, rating>>

----------------------------------------------------------------------------
(* Ratings: whoever asks, whatever the order is. *)

addRatingService(r, o) ==
  /\ Start(r, [step |-> "saveRating", order |-> o])
  /\ UNCHANGED <<store, faults>>

SaveRating(r) ==
  /\ request[r].step = "saveRating"
  /\ Uses(rating, request[r].order) = {}
  /\ rating' \in Insert(rating, request[r].order)
  /\ UNCHANGED <<address, coupon, menuItem>>

----------------------------------------------------------------------------
(* Writes: answered, refused or neither *)

Write(r) ==
  SaveAddress(r) \/ SaveCoupon(r) \/ FindCouponAndUpdate(r) \/ SaveMenuItem(r) \/ SaveRating(r)

Answered(r) == Write(r) /\ Finish(r) /\ UNCHANGED faults

\* The document is not there, or its key is another document's: 400, 404 or 500.
Refused(r) ==
  /\ \/ request[r].step = "saveAddress" /\ Uses(address, request[r].place) # {}
     \/ request[r].step = "saveCoupon" /\ Uses(coupon, request[r].code) # {}
     \/ request[r].step = "saveRating" /\ Uses(rating, request[r].order) # {}
     \/ /\ request[r].step = "updateCoupon"
        /\ \/ coupon[request[r].coupon] = "none"
           \/ ~(Uses(coupon, request[r].code) \subseteq {request[r].coupon})
  /\ Finish(r)
  /\ UNCHANGED <<store, faults>>

\* MongoDB stores the document, and its answer is lost.
Unanswered(r) == Write(r) /\ Failure(r)

RequestFails(r) == Failure(r) /\ UNCHANGED store

AddressController(r) ==
  \/ \E p \in Places : addressCreateService(r, p)
  \/ FindAddress(r)
  \/ updateAddressService(r) \/ deleteAddressService(r) \/ FindByCustomer(r)

RestaurantController(r) ==
  \/ \E x \in Restaurants : createMenuItem(r, x)
  \/ \E d \in Codes : createCoupon(r, d) \/ \E c \in Coupons : updateCoupon(r, c, d)
  \/ FindRestaurant(r)

RatingController(r) == \E o \in Rated : addRatingService(r, o)

Next == \E r \in Requests :
  \/ AddressController(r) \/ RestaurantController(r) \/ RatingController(r)
  \/ Answered(r) \/ Refused(r) \/ Unanswered(r) \/ RequestFails(r)

Spec == Init /\ [][Next]_vars

----------------------------------------------------------------------------
(* Properties *)

\* A customer has one address at a place, a code belongs to one coupon, and an
\* order has one rating:
\* although requests look first and write later, may be repeated when the
\* answer of the first was lost, and a coupon may get another coupon's code.
KeysAreUnique ==
  /\ \A a, b \in Addresses : address[a] = address[b] /\ address[a] # "none" => a = b
  /\ \A c, d \in Coupons : coupon[c] = coupon[d] /\ coupon[c] # "none" => c = d
  /\ \A g, h \in Ratings : rating[g] = rating[h] /\ rating[g] # "none" => g = h
=============================================================================
