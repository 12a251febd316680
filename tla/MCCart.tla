------------------------------- MODULE MCCart -------------------------------
(* Cart on small instances. *)
EXTENDS Cart, TLC

CONSTANTS i1, i2, i3, r1, r2, c1, c2

OneMenu == [i \in Items |-> r1]
\* The third item is another restaurant's.
TwoMenus == [i \in Items |-> IF i = i3 THEN r2 ELSE r1]

\* Prices and a distance (two rupees) that make totals of odd and of fractional rupees.
OnePrice == {10 * Rupee}
TwoPrices == {10 * Rupee, 13 * Rupee}
OneAddress == {370}

\* Half price for any order anywhere, which is a fixed discount on larger ones,
\* and for larger orders of one restaurant what a form that was left at 0 makes.
HalfPrice == [discountPercent |-> 50, maxDiscount |-> 30 * Rupee,
              minOrderAmount |-> 0, restaurantId |-> NoRestaurant]
Worthless == [discountPercent |-> 0, maxDiscount |-> 0,
              minOrderAmount |-> 30 * Rupee, restaurantId |-> r1]
TwoCoupons == (c1 :> HalfPrice) @@ (c2 :> Worthless)
\* A discount of whole rupees, the same for every order.
FiveOff == c1 :> [HalfPrice EXCEPT !.maxDiscount = 5 * Rupee, !.discountPercent = 90]

Symmetry == Permutations(Requests) \cup Permutations(CartIds)
=============================================================================
