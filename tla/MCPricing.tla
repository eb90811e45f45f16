------------------------------ MODULE MCPricing ------------------------------
(***************************************************************************)
(* Instances of Pricing and of Checkout: a behavior is of one of the two.  *)
(* In Pricing no order is paid, and stock does not matter.                 *)
(***************************************************************************)
EXTENDS Pricing, Checkout, TLC

CONSTANTS p1, a1, u1, i1, i2, r1

VARIABLE story  \* the module a behavior is of

OneProduct == {p1}
OneAdmin   == {a1}
OneUser    == {u1}
TwoLines   == {i1, i2}
OneRequest == {r1}
NoStock    == {0}
None       == {}
NoUnits    == <<>>

\* 1.00, 2.00 and 2.004, which the column rounds to 2.00.
FinePrices == {1000, 2000, 2004}

BasketsInit ==
    /\ story \in {"prices", "checkout"}
    /\ PricingInit /\ CheckoutInit
    /\ story = "checkout" => items[p1].price = 1000

BasketsNext ==
    /\ UNCHANGED story
    /\ \/ story = "prices" /\ PricingNext /\ UNCHANGED checkoutVars
       \/ story = "checkout" /\ CheckoutNext /\ UNCHANGED pricingVars

BasketsSpec == BasketsInit /\ [][BasketsNext]_<<story, pricingVars, checkoutVars>>
=============================================================================
