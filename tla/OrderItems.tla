------------------------------ MODULE OrderItems ------------------------------
(***************************************************************************)
(* Order.AddOrderItem, called by CreateOrderCommandHandler for one item of *)
(* the basket after the other.  A basket may hold a product on several     *)
(* lines, with different prices; an order has one line per product.        *)
(* ToOrderItemDTO makes -1 of a product id that is no number, and leaves   *)
(* the discount at zero: discounts are left out, SetNewDiscount with them. *)
(***************************************************************************)
EXTENDS Integers, Sequences, Functions

CONSTANTS
    Names,      \* product ids in baskets, which are strings
    Number,     \* those that are numbers, with their number
    Prices,     \* prices baskets show, which nobody keeps from being negative
    Units,      \* BasketItem.Validate lets positive quantities through
    MaxItems    \* bound: items of the basket

VARIABLES
    basket,   \* the items of the command
    next,     \* the one the loop is at
    lines,    \* _orderItems: product -> price and units
    threw     \* OrderItem has refused one

vars == <<basket, next, lines, threw>>

Items == [product : Names, price : Prices, units : Units]

\* ToOrderItemDTO.
ProductId(name) == IF name \in DOMAIN Number THEN Number[name] ELSE -1

Init ==
    /\ basket \in UNION {[1..n -> Items] : n \in 1..MaxItems}
    /\ next = 1 /\ lines = <<>> /\ threw = FALSE

\* "The total of order item is lower than applied discount", which is zero.
Refused(i) == i.price * i.units < 0

\* Mutant: a second line of a product replaces the first one.
WithItemMutant(l, i) ==
    [p \in DOMAIN l \cup {ProductId(i.product)} |->
        IF p # ProductId(i.product) THEN l[p] ELSE [price |-> i.price, units |-> i.units]]

\* Mutant: the constructor of OrderItem forgets _units.
WithItemUnset(l, i) ==
    [p \in DOMAIN l \cup {ProductId(i.product)} |->
        IF p # ProductId(i.product) THEN l[p]
        ELSE IF p \in DOMAIN l THEN [l[p] EXCEPT !.units = @ + i.units]
        ELSE [price |-> i.price, units |-> 0]]

\* A product that is there gets the units and keeps its price.
WithItem(l, i) ==
    [p \in DOMAIN l \cup {ProductId(i.product)} |->
        IF p # ProductId(i.product) THEN l[p]
        ELSE IF p \in DOMAIN l THEN [l[p] EXCEPT !.units = @ + i.units]
        ELSE [price |-> i.price, units |-> i.units]]

AddOrderItem ==
    /\ next \in DOMAIN basket /\ ~threw
    /\ LET i == basket[next]
       IN IF ProductId(i.product) \notin DOMAIN lines /\ Refused(i)
          THEN threw' = TRUE /\ UNCHANGED <<next, lines>>
          ELSE next' = next + 1 /\ lines' = WithItem(lines, i) /\ UNCHANGED threw
    /\ UNCHANGED basket

Next == AddOrderItem

Spec == Init /\ [][Next]_vars

GetTotal(l) == SumFunction([p \in DOMAIN l |-> l[p].units * l[p].price])

-----------------------------------------------------------------------------
(* Properties *)

Products == {ProductId(n) : n \in Names}

TypeOK ==
    /\ basket \in Seq(Items) /\ next \in 1..(Len(basket) + 1) /\ threw \in BOOLEAN
    /\ DOMAIN lines \subseteq Products
    /\ lines \in [DOMAIN lines -> [price : Prices, units : Nat \ {0}]]

\* The items of the basket that ask for product p, and the sum they show.
Showing(p) == {n \in DOMAIN basket : ProductId(basket[n].product) = p}
Quantities == [n \in DOMAIN basket |-> basket[n].units]
Amounts == [n \in DOMAIN basket |-> basket[n].units * basket[n].price]

TwoPrices == \E p \in Products : \E m, n \in Showing(p) : basket[m].price # basket[n].price

\* An order has the units its basket had of every product, on one line, and costs what the
\* basket showed, unless a product was there at two prices: the later one is ignored.
\* Names that are no numbers are one product.
OrderIsItsBasket ==
    next = Len(basket) + 1
        => /\ DOMAIN lines = {p \in Products : Showing(p) # {}}
           /\ \A p \in DOMAIN lines : lines[p].units = SumFunctionOnSet(Quantities, Showing(p))
           /\ TwoPrices \/ GetTotal(lines) = SumFunction(Amounts)
=============================================================================
