------------------------------- MODULE Pricing -------------------------------
(***************************************************************************)
(* Catalog and Basket composed: a price on its way from the administrator  *)
(* to the baskets.                                                         *)
(*                                                                         *)
(* The aggregator asks Catalog.API for prices; Basket.API gets the         *)
(* ProductPriceChanged events in the order in which Catalog.API hands them *)
(* to the broker (one exchange, one durable queue).  No step belongs to    *)
(* both services: they share what Catalog writes and Basket reads.         *)
(***************************************************************************)
EXTENDS Catalog

CONSTANTS Users, Ids, Requests, NoUser, NoProduct, NoId, MaxFailures

ASSUME PricingAssumption ==
    /\ NoUser \notin Users /\ NoId \notin Ids
    /\ MaxFailures \in Nat
    /\ \A price \in Prices : price >= 5  \* not rounded to 0, which stands for no product

VARIABLES
    baskets, handled, checkedOut, started, cpc, todo, current, copy, apc, req, basket,
    lost, failures,
    overlap  \* history: a request to the aggregator was in while a price was on its way

\* What Catalog.API answers to a GET of a product.
Quoted == [p \in Products |-> IF Present(p) THEN items[p].price ELSE 0]

\* The messages of Basket's queue, the handled ones included.
Queue == [i \in DOMAIN bus |-> [product |-> eventLog[bus[i]].product,
                                new     |-> eventLog[bus[i]].new,
                                old     |-> eventLog[bus[i]].old]]

B == INSTANCE Basket WITH price <- Quoted, feed <- Queue

basketVars  == <<baskets, handled, checkedOut, started, cpc, todo, current, copy, apc,
                 req, basket, lost, failures>>
pricingVars == <<vars, basketVars, overlap>>

\* A price change has been committed and Basket is not through with it.
OnItsWay == handled < Len(eventLog)

Busy == \E r \in Requests : apc[r] # "idle"

PricingInit == Init /\ B!Init /\ overlap = FALSE

PricingNext ==
    /\ \/ Next /\ UNCHANGED basketVars
       \/ UNCHANGED vars /\ B!Next
    /\ overlap' = (overlap \/ (OnItsWay /\ Busy)')

PricingSpec == PricingInit /\ [][PricingNext]_pricingVars

-----------------------------------------------------------------------------
(* Properties *)

PricingTypeOK == TypeOK /\ B!TypeOK /\ overlap \in BOOLEAN

\* Every price sent has at most two decimals, so that the column holds it as it is.
WholeCents == \A i \in DOMAIN eventLog : Stored(eventLog[i].new) = eventLog[i].new

\* When no price is on its way, every line has the price the catalog has, unless one of
\* three things has happened: a request to the aggregator met a price on its way (its
\* copy of the basket or its price was old when it was written), the handler failed half
\* way and its message was acknowledged, or a price was finer than the column.  In
\* particular neither crashes and redeliveries nor products that swap their prices do it.
PricesAgree ==
    ~overlap /\ ~lost /\ WholeCents /\ ~OnItsWay
        => \A u \in Users : \A line \in baskets[u] :
              Quoted[line.product] \in {0, line.unit}

\* Whatever races, a line that says "the price was x and is y" repeats a price change
\* the catalog has saved, and any other line has a price the catalog has had.
PricesAreGenuine ==
    \A u \in Users : \A line \in baskets[u] :
        LET changes == {i \in DOMAIN eventLog : eventLog[i].product = line.product}
        IN  IF line.oldUnit # 0
            THEN \E i \in changes : eventLog[i].new = line.unit /\ eventLog[i].old = line.oldUnit
            ELSE \/ Quoted[line.product] \in {0, line.unit}
                 \/ \E i \in changes : eventLog[i].old = line.unit
=============================================================================
