------------------------------- MODULE Basket --------------------------------
(***************************************************************************)
(* Basket.API and the aggregator of the web shop: baskets in Redis.        *)
(*                                                                         *)
(* A basket is one JSON string under the user's id: it is read and written *)
(* as a whole, without a transaction or a version.  Who changes a line     *)
(* therefore reads the basket, changes its copy and writes it back over    *)
(* whatever is there by then: the requests of the aggregator, and the      *)
(* handler of ProductPriceChanged, which goes through all baskets one by   *)
(* one.  The one consumer of the event bus (RabbitMQ) handles one message  *)
(* after the other.                                                        *)
(*                                                                         *)
(* Quantities, names and pictures of the lines are left out: a change of   *)
(* quantity writes the basket back as it was read.  The module has no      *)
(* specification of its own: Pricing gives it prices and messages.         *)
(***************************************************************************)
EXTENDS Naturals, Sequences, FiniteSets

CONSTANTS
    Users,       \* buyer ids
    Ids,         \* ids of basket lines: Guids (bound on the lines there are at a time)
    Requests,    \* requests to the aggregator in flight
    NoUser, NoProduct, NoId,
    MaxFailures  \* bound on failed Redis calls and crashes of Basket.API

VARIABLES
    price,      \* external: the price of each product that Catalog.API returns, 0: not found
    feed,       \* external: the price changes in the order the queue holds them
    baskets,    \* Redis: the lines of each user's basket; no lines, no key
    handled,    \* how many messages of feed have been acknowledged
    checkedOut, \* users whose UserCheckoutAccepted Ordering has not answered yet
    started,    \* users for whom OrderStarted is in the queue
    cpc,        \* control state of the consumer
    todo,       \* the users whose baskets the handler has yet to look at
    current,    \* the user whose basket it has read, or whose basket it deletes
    copy,       \* the basket it has read
    apc,        \* control state of each request to the aggregator
    req,        \* the request: operation, user, line
    basket,     \* the basket it has read
    lost,       \* history: a price change was acknowledged though its handler failed
    failures    \* failures so far

consumer   == <<handled, started, cpc, todo, current, copy>>
aggregator == <<apc, req, basket>>
vars == <<price, feed, baskets, checkedOut, consumer, aggregator, lost, failures>>

Listed == DOMAIN price

\* BasketItem
Line(id, product, unitPrice, oldUnitPrice) ==
    [id |-> id, product |-> product, unit |-> unitPrice, oldUnit |-> oldUnitPrice]

NoRequest == [op |-> "none", user |-> NoUser, line |-> Line(NoId, NoProduct, 0, 0)]

\* What Basket.API and the aggregator start from; price and feed are Catalog's.
Init ==
    /\ baskets = [u \in Users |-> {}]
    /\ handled = 0
    /\ checkedOut = {} /\ started = {}
    /\ cpc = "idle"
    /\ todo = {} /\ current = NoUser /\ copy = {}
    /\ apc = [r \in Requests |-> "idle"]
    /\ req = [r \in Requests |-> NoRequest]
    /\ basket = [r \in Requests |-> {}]
    /\ lost = FALSE
    /\ failures = 0

Failure == failures < MaxFailures /\ failures' = failures + 1

-----------------------------------------------------------------------------
(* The aggregator's BasketController. *)

Goto(r, label) == apc' = [apc EXCEPT ![r] = label]

EndRequest(r) ==
    /\ Goto(r, "idle")
    /\ req' = [req EXCEPT ![r] = NoRequest]
    /\ basket' = [basket EXCEPT ![r] = {}]

\* Guids do not repeat; an id that is nowhere any more stands for a new one.
InUse == {line.id : line \in copy \cup UNION {baskets[u] : u \in Users}
                                  \cup UNION {basket[r] \cup {req[r].line} : r \in Requests}}

\* AddBasketItemAsync asks Catalog.API first, UpdateAllBasketAsync and
\* UpdateQuantitiesAsync read the basket first.
ReceiveRequest(r) ==
    /\ apc[r] = "idle"
    /\ \E u \in Users :
          \/ \E op \in {"Add", "UpdateAll"}, p \in Listed, id \in Ids \ InUse :
                /\ req' = [req EXCEPT ![r] = [op |-> op, user |-> u,
                                              line |-> Line(id, p, 0, 0)]]
                /\ Goto(r, IF op = "Add" THEN "price" ELSE "read")
          \/ /\ req' = [req EXCEPT ![r] = [NoRequest EXCEPT !.op = "SetQuantities",
                                                            !.user = u]]
             /\ Goto(r, "read")
    /\ UNCHANGED <<price, feed, baskets, checkedOut, consumer, basket, lost, failures>>

\* Mutant of NotFound: a missing product is not noticed.
NotFoundMutant(r) == FALSE

\* GetStringAsync throws, or catalogItem is null.
NotFound(r) == price[req[r].line.product] = 0

\* GET the product from Catalog.API; if it is not found the request ends in an error.
GetPrice(r) ==
    /\ apc[r] = "price"
    /\ IF NotFound(r)
       THEN EndRequest(r)
       ELSE /\ req' = [req EXCEPT ![r].line.unit = price[req[r].line.product]]
            /\ Goto(r, IF req[r].op = "Add" THEN "read" ELSE "write")
            /\ UNCHANGED basket
    /\ UNCHANGED <<price, feed, baskets, checkedOut, consumer, lost, failures>>

\* GET the basket from Basket.API, which returns an empty one for an unknown user;
\* quantities of lines that are not there are a BadRequest.
GetBasket(r) ==
    /\ apc[r] = "read"
    /\ LET found == baskets[req[r].user]
       IN  IF req[r].op = "SetQuantities" /\ found = {}
           THEN EndRequest(r)
           ELSE /\ basket' = [basket EXCEPT ![r] = found]
                /\ Goto(r, IF req[r].op = "UpdateAll" THEN "price" ELSE "write")
                /\ UNCHANGED req
    /\ UNCHANGED <<price, feed, baskets, checkedOut, consumer, lost, failures>>

\* Mutant of Merged: the line goes into the basket with its price as the old price.
MergedMutant(r) ==
    IF req[r].op = "SetQuantities" THEN basket[r]
    ELSE basket[r] \cup {[req[r].line EXCEPT !.oldUnit = req[r].line.unit]}

\* The copy with the new line, or with new quantities.
Merged(r) == IF req[r].op = "SetQuantities" THEN basket[r]
             ELSE basket[r] \cup {req[r].line}

\* POST to Basket.API: UpdateBasketAsync replaces what is there.
PostBasket(r) ==
    /\ apc[r] = "write"
    /\ baskets' = [baskets EXCEPT ![req[r].user] = Merged(r)]
    /\ EndRequest(r)
    /\ UNCHANGED <<price, feed, checkedOut, consumer, lost, failures>>

\* A call fails, or Basket.API refuses the basket (a quantity below one): BasketService
\* does not look at the answer to its POST, the client gets 200 and nothing is written.
RequestFails(r) ==
    /\ apc[r] # "idle"
    /\ EndRequest(r)
    /\ UNCHANGED <<price, feed, baskets, checkedOut, consumer, lost, failures>>

-----------------------------------------------------------------------------
(* BasketController of Basket.API, and Ordering's answer to a checkout. *)

\* CheckoutAsync publishes the basket and leaves it where it is.  (Bound: a user does not
\* check out again before Ordering has answered.)
Checkout(u) ==
    /\ baskets[u] # {}
    /\ u \notin checkedOut
    /\ checkedOut' = checkedOut \cup {u}
    /\ UNCHANGED <<price, feed, baskets, consumer, aggregator, lost, failures>>

\* Ordering accepts the checkout and publishes OrderStarted, or refuses it.
OrderingAnswers(u) ==
    /\ u \in checkedOut
    /\ checkedOut' = checkedOut \ {u}
    /\ started' \in {started, started \cup {u}}
    /\ UNCHANGED <<price, feed, baskets, handled, cpc, todo, current, copy, aggregator,
                   lost, failures>>

\* DELETE api/v1/basket/{id}, for administrators.
DeleteBasket(u) ==
    /\ baskets[u] # {}
    /\ baskets' = [baskets EXCEPT ![u] = {}]
    /\ UNCHANGED <<price, feed, checkedOut, consumer, aggregator, lost, failures>>

-----------------------------------------------------------------------------
(* ProductPriceChangedIntegrationEventHandler. *)

Owners == {u \in Users : baskets[u] # {}}

Reset == cpc' = "idle" /\ todo' = {} /\ current' = NoUser /\ copy' = {}

\* server.Keys() is read as the loop goes: it returns the baskets that are there all the
\* time, and perhaps some that come or go.
ReceivePriceChanged ==
    /\ cpc = "idle" /\ handled < Len(feed)
    /\ todo' \in SUBSET Users /\ Owners \subseteq todo'
    /\ cpc' = "read"
    /\ UNCHANGED <<price, feed, baskets, checkedOut, handled, started, current, copy,
                   aggregator, lost, failures>>

\* GetBasketAsync of the next user; a basket that has gone is passed over.
ReadBasket(u) ==
    /\ cpc = "read" /\ u \in todo
    /\ todo' = todo \ {u}
    /\ IF baskets[u] = {}
       THEN UNCHANGED <<cpc, current, copy>>
       ELSE cpc' = "write" /\ current' = u /\ copy' = baskets[u]
    /\ UNCHANGED <<price, feed, baskets, checkedOut, handled, started, aggregator, lost,
                   failures>>

\* Mutant of Matches: the line's price is not compared.
MatchesMutant(line, e) == line.product = e.product

\* The lines of the product that still have the old price.
Matches(line, e) == line.product = e.product /\ line.unit = e.old

\* UpdatePriceInBasketItems
Repriced(lines, e) ==
    {IF Matches(line, e) THEN [line EXCEPT !.unit = e.new, !.oldUnit = line.unit]
     ELSE line : line \in lines}

WriteBasket ==
    /\ cpc = "write"
    /\ baskets' = [baskets EXCEPT ![current] = Repriced(copy, feed[handled + 1])]
    /\ cpc' = "read" /\ current' = NoUser /\ copy' = {}
    /\ UNCHANGED <<price, feed, checkedOut, handled, started, todo, aggregator, lost,
                   failures>>

\* The loop is through, the message is acknowledged.
AckPriceChanged ==
    /\ cpc = "read" /\ todo = {}
    /\ handled' = handled + 1
    /\ Reset
    /\ UNCHANGED <<price, feed, baskets, checkedOut, started, aggregator, lost, failures>>

\* A Redis call fails half way; the consumer acknowledges all the same.
HandlerThrows ==
    /\ cpc \in {"read", "write"}
    /\ Failure
    /\ handled' = handled + 1
    /\ lost' = TRUE
    /\ Reset
    /\ UNCHANGED <<price, feed, baskets, checkedOut, started, aggregator>>

-----------------------------------------------------------------------------
(* OrderStartedIntegrationEventHandler. *)

DeleteOrdered(u) ==
    /\ cpc = "idle" /\ u \in started
    /\ baskets' = [baskets EXCEPT ![u] = {}]
    /\ cpc' = "ack" /\ current' = u
    /\ UNCHANGED <<price, feed, checkedOut, handled, started, todo, copy, aggregator, lost,
                   failures>>

AckOrderStarted ==
    /\ cpc = "ack"
    /\ started' = started \ {current}
    /\ Reset
    /\ UNCHANGED <<price, feed, baskets, checkedOut, handled, aggregator, lost, failures>>

\* KeyDeleteAsync fails; the message is acknowledged and the basket stays.
DeleteFails(u) ==
    /\ cpc = "idle" /\ u \in started
    /\ Failure
    /\ started' = started \ {u}
    /\ UNCHANGED <<price, feed, baskets, checkedOut, handled, cpc, todo, current, copy,
                   aggregator, lost>>

\* Basket.API dies and is restarted: the message in hand is delivered again.
Crash ==
    /\ cpc # "idle"
    /\ Failure
    /\ Reset
    /\ UNCHANGED <<price, feed, baskets, checkedOut, handled, started, aggregator, lost>>

-----------------------------------------------------------------------------

\* The consumer goes on with the message it has, or takes the next price change.
HandlePriceChanged ==
    \/ ReceivePriceChanged \/ (\E u \in Users : ReadBasket(u)) \/ WriteBasket
    \/ AckPriceChanged

Consume == HandlePriceChanged \/ (\E u \in Users : DeleteOrdered(u)) \/ AckOrderStarted

Next ==
    \/ \E r \in Requests : \/ ReceiveRequest(r) \/ GetPrice(r) \/ GetBasket(r)
                           \/ PostBasket(r) \/ RequestFails(r)
    \/ \E u \in Users : \/ Checkout(u) \/ OrderingAnswers(u) \/ DeleteBasket(u)
                        \/ DeleteFails(u)
    \/ Consume
    \/ HandlerThrows
    \/ Crash

\* The type invariant.
TypeOK ==
    LET Basket == SUBSET [id : Ids, product : Listed, unit : Nat \ {0}, oldUnit : Nat]
    IN  /\ \A u \in Users : baskets[u] \in Basket
        /\ handled \in 0 .. Len(feed)
        /\ checkedOut \subseteq Users /\ started \subseteq Users /\ todo \subseteq Users
        /\ cpc \in {"idle", "read", "write", "ack"}
        /\ current \in Users \cup {NoUser}
        /\ copy \in Basket
        /\ \A r \in Requests : /\ apc[r] \in {"idle", "price", "read", "write"}
                               /\ basket[r] \in Basket
        /\ lost \in BOOLEAN
        /\ failures \in 0 .. MaxFailures
=============================================================================
