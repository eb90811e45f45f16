------------------------------- MODULE Catalog -------------------------------
(***************************************************************************)
(* Catalog.API: the products, their prices and their stock.                *)
(*                                                                         *)
(* Administrators' PUT requests overwrite the whole row of a product with  *)
(* what the client sent, and announce a new price through the same event   *)
(* log as Ordering: the event is saved with the row, then published and    *)
(* marked.  The consumer of the event bus takes the stock of paid orders   *)
(* off.  The table has no concurrency token, so both write over what       *)
(* others have committed since they read.                                  *)
(*                                                                         *)
(* Left out: brands, types, texts and pictures of a product, and the       *)
(* handler of AwaitingValidation, which publishes null: the exception is   *)
(* swallowed by the consumer and nothing changes.                          *)
(***************************************************************************)
EXTENDS Naturals, Sequences, FiniteSets, Functions

CONSTANTS
    Products,    \* ids of the table's identity column
    Seeded,      \* products of CatalogContextSeed
    Prices,      \* prices a client sends, in tenths of a cent
    Stocks,      \* AvailableStock a client sends, not negative
    Orders,      \* orders that are paid
    Units,       \* for each order, the units of each product in it
    Admins,      \* requests to CatalogController in flight
    Consumers,   \* consumers of the event bus: one with RabbitMQ
    NoOrder,
    MaxEvents,   \* bound on price changes: no PUT arrives after that many
    MaxFaults    \* bound on failed database and broker calls and crashes

Workers == Admins \cup Consumers

ASSUME CatalogAssumption ==
    /\ Seeded \subseteq Products
    /\ Prices \subseteq Nat /\ Stocks \subseteq Nat
    /\ \A o \in Orders : /\ DOMAIN Units[o] \subseteq Products
                         /\ \A p \in DOMAIN Units[o] : Units[o][p] \in Nat \ {0}
    /\ NoOrder \notin Orders
    /\ Admins \cap Consumers = {}
    /\ MaxEvents \in Nat /\ MaxFaults \in Nat

\* What the column decimal(18,2) keeps of a price: SQL Server rounds it to cents.
Stored(price) == ((price + 5) \div 10) * 10

\* A row of CatalogItems: not created yet, present or deleted.
Unborn         == [state |-> "unborn", price |-> 0, stock |-> 0]
Deleted        == [state |-> "deleted", price |-> 0, stock |-> 0]
Item(price, n) == [state |-> "present", price |-> Stored(price), stock |-> n]

\* ProductPriceChangedIntegrationEvent and its entry in the event log.
Entry(product, new, old) ==
    [product |-> product, new |-> new, old |-> old, state |-> "NotPublished"]

ItemRow    == [state : {"unborn", "present", "deleted"}, price : Nat, stock : Nat]
EventState == {"NotPublished", "InProgress", "Published", "PublishedFailed"}
EventEntry == [product : Products, new : Prices, old : Nat, state : EventState]

\* The product in the body of a PUT.
Put   == [product : Products, price : Prices, stock : Stocks]
NoPut == [product |-> CHOOSE p \in Products : TRUE, price |-> 0, stock |-> 0]

\* What RemoveStock has done to an item: the stock left, the units it took.
Reduction == [left : Nat, removed : Nat \ {0}]

Publishing == {"publish", "send", "markPublished", "markFailed"}
AdminPc    == {"idle", "read", "save"} \cup Publishing
ConsumerPc == {"idle", "remove", "ack"}

VARIABLES
    items,     \* table CatalogItems
    eventLog,  \* table IntegrationEventLog, an event is its index here
    bus,       \* the events handed to the broker, in that order
    message,   \* OrderStatusChangedToPaid of each order: none, queued, acked
    pc,        \* each worker's control state
    put, old,  \* an administrator's request and the price it read
    event,     \* the event he is publishing
    order,     \* the order a consumer handles
    tracked,   \* the stock left of the items it has found and reduced
    taken,     \* history: units of each product taken off for each order
    faults     \* faults so far

tables    == <<items, eventLog>>
requests  == <<put, old, event>>
handling  == <<order, tracked>>
vars == <<tables, bus, message, pc, requests, handling, taken, faults>>

Present(p) == items[p].state = "present"

Init ==
    /\ \E price \in [Seeded -> Prices], stock \in [Seeded -> Stocks] :
          items = [p \in Products |-> IF p \in Seeded THEN Item(price[p], stock[p]) ELSE Unborn]
    /\ eventLog = <<>>
    /\ bus = <<>>
    /\ message = [o \in Orders |-> "none"]
    /\ pc = [w \in Workers |-> "idle"]
    /\ put = [a \in Admins |-> NoPut]
    /\ old = [a \in Admins |-> 0]
    /\ event = [a \in Admins |-> 0]
    /\ order = [c \in Consumers |-> NoOrder]
    /\ tracked = [c \in Consumers |-> <<>>]
    /\ taken = [o \in Orders |-> [p \in DOMAIN Units[o] |-> 0]]
    /\ faults = 0

Goto(w, label) == pc' = [pc EXCEPT ![w] = label]

Fault == faults < MaxFaults /\ faults' = faults + 1

-----------------------------------------------------------------------------
(* CatalogController: create, delete. *)

\* CreateProductAsync copies the price, not the stock.
CreateProduct(p, price) ==
    /\ items[p] = Unborn
    /\ items' = [items EXCEPT ![p] = Item(price, 0)]
    /\ UNCHANGED <<eventLog, bus, message, pc, requests, handling, taken, faults>>

DeleteProduct(p) ==
    /\ Present(p)
    /\ items' = [items EXCEPT ![p] = Deleted]
    /\ UNCHANGED <<eventLog, bus, message, pc, requests, handling, taken, faults>>

-----------------------------------------------------------------------------
(* CatalogController.UpdateProductAsync. *)

EndRequest(a) ==
    /\ Goto(a, "idle")
    /\ put' = [put EXCEPT ![a] = NoPut]
    /\ old' = [old EXCEPT ![a] = 0]
    /\ event' = [event EXCEPT ![a] = 0]

ReceivePut(a) ==
    /\ pc[a] = "idle"
    /\ Len(eventLog) < MaxEvents
    /\ \E p \in Products, price \in Prices, n \in Stocks :
          put' = [put EXCEPT ![a] = [product |-> p, price |-> price, stock |-> n]]
    /\ Goto(a, "read")
    /\ UNCHANGED <<tables, bus, message, old, event, handling, taken, faults>>

\* SingleOrDefaultAsync without tracking; NotFound ends the request.
ReadOldPrice(a) ==
    /\ pc[a] = "read"
    /\ IF Present(put[a].product)
       THEN /\ old' = [old EXCEPT ![a] = items[put[a].product].price]
            /\ Goto(a, "save")
            /\ UNCHANGED <<put, event>>
       ELSE EndRequest(a)
    /\ UNCHANGED <<tables, bus, message, handling, taken, faults>>

\* Mutant of PriceChanged: only a higher price is news.
PriceChangedMutant(a) == put[a].price > old[a]

\* Does the code take the branch that publishes.
PriceChanged(a) == old[a] # put[a].price

\* Mutant of PriceEvent: the prices are swapped in the constructor's call.
PriceEventMutant(a) == Entry(put[a].product, old[a], put[a].price)

\* new ProductPriceChangedIntegrationEvent: the new price is the one sent.
PriceEvent(a) == Entry(put[a].product, put[a].price, old[a])

\* SaveEventAndCatalogContextChangesAsync or SaveChangesAsync: the whole row and,
\* if the price changed, the event in one transaction.
WriteProduct(a) ==
    /\ Present(put[a].product)
    /\ items' = [items EXCEPT ![put[a].product] = Item(put[a].price, put[a].stock)]
    /\ eventLog' = IF PriceChanged(a) THEN Append(eventLog, PriceEvent(a)) ELSE eventLog

\* Mutant of NextEvent: counted from zero.
NextEventMutant == Len(eventLog)

\* The id of the event that is saved next.
NextEvent == Len(eventLog) + 1

SaveProduct(a) ==
    /\ pc[a] = "save"
    /\ WriteProduct(a)
    /\ IF PriceChanged(a)
       THEN /\ event' = [event EXCEPT ![a] = NextEvent]
            /\ Goto(a, "publish")
            /\ UNCHANGED <<put, old>>
       ELSE EndRequest(a)
    /\ UNCHANGED <<bus, message, handling, taken, faults>>

\* No row is affected: DbUpdateConcurrencyException.
SaveProductGone(a) ==
    /\ pc[a] = "save"
    /\ ~Present(put[a].product)
    /\ EndRequest(a)
    /\ UNCHANGED <<tables, bus, message, handling, taken, faults>>

\* A database call fails for good and nothing is saved.  (A retry of the strategy that
\* has tracked the log entry cannot add it again and fails, too.)
ProductFails(a) ==
    /\ pc[a] \in {"read", "save"}
    /\ Fault
    /\ EndRequest(a)
    /\ UNCHANGED <<tables, bus, message, handling, taken>>

\* The commit succeeds and its acknowledgement is lost.  The retry of a price change
\* fails when it adds the log entry; the retry of a plain SaveChanges writes again.
SaveProductAckLost(a) ==
    /\ pc[a] = "save"
    /\ Fault
    /\ WriteProduct(a)
    /\ IF PriceChanged(a) THEN EndRequest(a) ELSE UNCHANGED <<pc, requests>>
    /\ UNCHANGED <<bus, message, handling, taken>>

-----------------------------------------------------------------------------
(* CatalogIntegrationEventService.PublishThroughEventBusAsync. *)

UpdateEventStatus(a, state) == eventLog' = [eventLog EXCEPT ![event[a]].state = state]

MarkInProgress(a) ==
    /\ pc[a] = "publish"
    /\ UpdateEventStatus(a, "InProgress")
    /\ Goto(a, "send")
    /\ UNCHANGED <<items, bus, message, requests, handling, taken, faults>>

Publish(a) ==
    /\ pc[a] = "send"
    /\ bus' = Append(bus, event[a])
    /\ Goto(a, "markPublished")
    /\ UNCHANGED <<tables, message, requests, handling, taken, faults>>

MarkPublished(a) ==
    /\ pc[a] = "markPublished"
    /\ UpdateEventStatus(a, "Published")
    /\ EndRequest(a)
    /\ UNCHANGED <<items, bus, message, handling, taken, faults>>

\* An exception in the try block; its catch block.
PublishFails(a) ==
    /\ pc[a] \in Publishing \ {"markFailed"}
    /\ Fault
    /\ Goto(a, "markFailed")
    /\ UNCHANGED <<tables, bus, message, requests, handling, taken>>

MarkFailed(a) ==
    /\ pc[a] = "markFailed"
    /\ UpdateEventStatus(a, "PublishedFailed")
    /\ EndRequest(a)
    /\ UNCHANGED <<items, bus, message, handling, taken, faults>>

MarkFailedFails(a) ==
    /\ pc[a] = "markFailed"
    /\ Fault
    /\ EndRequest(a)
    /\ UNCHANGED <<tables, bus, message, handling, taken>>

-----------------------------------------------------------------------------
(* OrderStatusChangedToPaidIntegrationEventHandler. *)

\* Ordering announces that an order is paid.
OrderPaid(o) ==
    /\ message[o] = "none"
    /\ message' = [message EXCEPT ![o] = "queued"]
    /\ UNCHANGED <<tables, bus, pc, requests, handling, taken, faults>>

ReceivePaid(c) ==
    /\ pc[c] = "idle"
    /\ \E o \in Orders :
          /\ message[o] = "queued" /\ \A d \in Consumers : order[d] # o
          /\ order' = [order EXCEPT ![c] = o]
    /\ Goto(c, "remove")
    /\ UNCHANGED <<tables, bus, message, requests, tracked, taken, faults>>

Lines(c) == DOMAIN Units[order[c]]

\* Mutant of Refused: RemoveStock takes nothing off an empty stock and goes on.
RefusedMutant(p) == ~Present(p)

\* Find returns null, which the handler dereferences, or RemoveStock throws.
Refused(p) == ~Present(p) \/ items[p].stock = 0

\* CatalogItem.RemoveStock takes what there is, and the handler does not look at the
\* number it returns.
Removed(c, p) == LET wanted == Units[order[c]][p]  n == items[p].stock
                 IN  IF wanted < n THEN wanted ELSE n

\* One round of the loop.
RemoveStock(c) ==
    /\ pc[c] = "remove"
    /\ \E p \in Lines(c) \ DOMAIN tracked[c] :
          /\ ~Refused(p)
          /\ tracked' = [tracked EXCEPT ![c] =
                [q \in DOMAIN @ \cup {p} |->
                    IF q = p THEN [left |-> items[p].stock - Removed(c, p),
                                   removed |-> Removed(c, p)]
                    ELSE @[q]]]
    /\ UNCHANGED <<tables, bus, message, pc, requests, order, taken, faults>>

Reduced(c) == Lines(c) = DOMAIN tracked[c]

\* SaveChangesAsync: the stock of all items of the order, and no other column.
WriteStock(c) ==
    /\ \A p \in Lines(c) : Present(p)
    /\ items' = [p \in Products |->
                    IF p \in Lines(c) THEN [items[p] EXCEPT !.stock = tracked[c][p].left]
                    ELSE items[p]]

SaveStock(c) ==
    /\ pc[c] = "remove" /\ Reduced(c)
    /\ WriteStock(c)
    /\ taken' = [taken EXCEPT ![order[c]] = [p \in DOMAIN @ |-> @[p] + tracked[c][p].removed]]
    /\ Goto(c, "ack")
    /\ UNCHANGED <<eventLog, bus, message, requests, handling, faults>>

\* The commit's acknowledgement is lost: the retry writes the same numbers again.
SaveStockAckLost(c) ==
    /\ pc[c] = "remove" /\ Reduced(c)
    /\ Fault
    /\ WriteStock(c)
    /\ UNCHANGED <<eventLog, bus, message, pc, requests, handling, taken>>

\* An exception leaves the handler and the consumer acknowledges all the same: an item
\* is refused, one has been deleted since it was found, or the database fails.
HandlerThrows(c) ==
    /\ pc[c] = "remove"
    /\ \/ (\E p \in Lines(c) \ DOMAIN tracked[c] : Refused(p)) /\ UNCHANGED faults
       \/ Reduced(c) /\ (\E p \in Lines(c) : ~Present(p)) /\ UNCHANGED faults
       \/ Fault
    /\ Goto(c, "ack")
    /\ UNCHANGED <<tables, bus, message, requests, handling, taken>>

Ack(c) ==
    /\ pc[c] = "ack"
    /\ message' = [message EXCEPT ![order[c]] = "acked"]
    /\ order' = [order EXCEPT ![c] = NoOrder]
    /\ tracked' = [tracked EXCEPT ![c] = <<>>]
    /\ Goto(c, "idle")
    /\ UNCHANGED <<tables, bus, requests, taken, faults>>

-----------------------------------------------------------------------------

\* Catalog.API dies and is restarted; what was not acknowledged is delivered again.
Crash ==
    /\ \E w \in Workers : pc[w] # "idle"
    /\ Fault
    /\ pc' = [w \in Workers |-> "idle"]
    /\ put' = [a \in Admins |-> NoPut]
    /\ old' = [a \in Admins |-> 0]
    /\ event' = [a \in Admins |-> 0]
    /\ order' = [c \in Consumers |-> NoOrder]
    /\ tracked' = [c \in Consumers |-> <<>>]
    /\ UNCHANGED <<tables, bus, message, taken>>

\* The steps of a request that is in.
Update(a) ==
    \/ ReadOldPrice(a) \/ SaveProduct(a) \/ SaveProductGone(a)
    \/ ProductFails(a) \/ SaveProductAckLost(a)
    \/ MarkInProgress(a) \/ Publish(a) \/ MarkPublished(a)
    \/ PublishFails(a) \/ MarkFailed(a) \/ MarkFailedFails(a)

\* The steps of the handler of a paid order.
TakeStock(c) ==
    \/ RemoveStock(c) \/ SaveStock(c) \/ SaveStockAckLost(c)
    \/ HandlerThrows(c) \/ Ack(c)

Next ==
    \/ \E p \in Products, price \in Prices : CreateProduct(p, price)
    \/ \E p \in Products : DeleteProduct(p)
    \/ \E a \in Admins : ReceivePut(a) \/ Update(a)
    \/ \E o \in Orders : OrderPaid(o)
    \/ \E c \in Consumers : ReceivePaid(c) \/ TakeStock(c)
    \/ Crash

Spec == Init /\ [][Next]_vars

-----------------------------------------------------------------------------
(* Properties *)

\* The type invariant.
TypeOK ==
    /\ items \in [Products -> ItemRow]
    /\ eventLog \in Seq(EventEntry)
    /\ bus \in Seq(DOMAIN eventLog)
    /\ message \in [Orders -> {"none", "queued", "acked"}]
    /\ pc \in [Workers -> AdminPc \cup ConsumerPc]
    /\ put \in [Admins -> Put \cup {NoPut}]
    /\ old \in [Admins -> Nat]
    /\ event \in [Admins -> {0} \cup DOMAIN eventLog]
    /\ order \in [Consumers -> Orders \cup {NoOrder}]
    /\ DOMAIN tracked = Consumers /\ DOMAIN taken = Orders
    /\ \A c \in Consumers : tracked[c] \in [DOMAIN tracked[c] -> Reduction]
    /\ \A o \in Orders : taken[o] \in [DOMAIN Units[o] -> Nat]
    /\ faults \in 0 .. MaxFaults

\* The price events of Catalog as a transactional outbox.
Outbox == INSTANCE TransactionalOutbox
             WITH Event <- Nat, saved <- DOMAIN eventLog, handed <- Range(bus)
OutboxPromise == Outbox!Spec

\* Event i is the last one of its product before place n of the log.
LatestBefore(i, n) ==
    i < n /\ \A k \in DOMAIN eventLog :
                i < k /\ k < n => eventLog[k].product # eventLog[i].product

\* While administrators work one after the other, the saved events of a product tell the
\* history of its price without a gap: each starts from the price the one before it has
\* left in the table, and the last one leaves the price that is there.  Basket needs
\* it: it replaces a price only where it finds the old one.
EventsChain ==
    \A i \in DOMAIN eventLog :
        LET p == eventLog[i].product
            left == Stored(eventLog[i].new)
        IN  /\ \A j \in DOMAIN eventLog :
                  eventLog[j].product = p /\ LatestBefore(i, j) => eventLog[j].old = left
            /\ Present(p) /\ LatestBefore(i, Len(eventLog) + 1) => items[p].price = left

\* The stock of an order is taken off for all of its items or for none, whichever item
\* is sold out or deleted, and however often the message is delivered.
StockAllOrNothing ==
    \A o \in Orders : \/ \A p \in DOMAIN Units[o] : taken[o][p] = 0
                      \/ \A p \in DOMAIN Units[o] : taken[o][p] > 0

-----------------------------------------------------------------------------
(* What the code says and does not do. *)

\* CatalogController: "publish integration event through the Event Bus if price has
\* changed", and "Just save the updated product because the Product's Price hasn't changed".
PriceChangesAreSaved ==
    [][\A p \in Products : /\ Present(p)
                           /\ items'[p].state = "present"
                           /\ items'[p].price # items[p].price
                           => Len(eventLog') > Len(eventLog)]_vars
=============================================================================
