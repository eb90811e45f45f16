------------------------------ MODULE MCCatalog ------------------------------
(* Instances of module Catalog. *)
EXTENDS Catalog, TLC

CONSTANTS p1, p2, a1, a2, c1, r1

BothProducts == {p1, p2}
OneProduct   == {p1}
OneAdmin     == {a1}
TwoAdmins    == {a1, a2}
OneConsumer  == {c1}
None         == {}
OneOrder     == {r1}
BothItems    == r1 :> (p1 :> 2 @@ p2 :> 1)
NoUnits      == <<>>

TwoPrices    == {1000, 2000}
\* 1.004, which the column rounds to 1.00, and 2.00.
FinePrices   == {1004, 2000}
SomeStock    == {0, 3}
NoStock      == {0}
=============================================================================
