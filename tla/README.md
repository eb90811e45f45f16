# dotnet-shopping: a verification project

TLA+ modules of the shop's core, TLC configurations that check them on small
instances, and TLAPS proofs of what holds for every instance. Paths are relative
to the repository root; `O` stands for `src/Ordering`, `API` for
`O/Ordering.API/Application`, `BB` for `src/BuildingBlocks/EventBus`.

## 1. The system

Services with a database each, coupled by integration events over an event bus
(RabbitMQ locally, Azure Service Bus in the cloud). A purchase runs like this:

    WebMVC --checkout--> Basket --UserCheckoutAccepted--> Ordering: CreateOrder
    Ordering --OrderStarted--> Basket (deletes the basket)
    BackgroundTasks --GracePeriodConfirmed--> Ordering: SetAwaitingValidation
    Ordering --AwaitingValidation--> Catalog --StockConfirmed/Rejected--> Ordering
    Ordering --StockConfirmed--> Payment --PaymentSucceded/Failed--> Ordering
    Ordering --Paid--> Catalog (removes stock), Webhooks, SignalR hub
    user --PUT cancel / ship--> Ordering --Cancelled/Shipped--> hub, Webhooks

### Inventory

| Component | State | Operations | What is hard | What makes it correct |
|---|---|---|---|---|
| Order aggregate (`O/Ordering.Domain`) | status, buyer, items | ctor, AddOrderItem, six `Set*Status` | guards that are silent no-ops in some methods and exceptions in others | no step is skipped, none is repeated |
| Buyer aggregate (`O/Ordering.Domain`, `API/DomainEventHandlers`) | buyers and their payment methods | find, verify or add a card, save | concurrent handlers add the same buyer or card; a duplicate card makes the next checkout fail | a card is stored once per buyer; every checkout ends |
| Ordering commands (`API`) | tables `orders`, `requests`, `IntegrationEventLog`; per request a DbContext and a transaction | six status commands, CreateOrder, duplicates | lost updates, swallowed exceptions, retries with a used DbContext, crash between commit and publish | a request id is executed once; the outbox tells the whole story of an order; only committed events are published |
| Grace period (`O/Ordering.BackgroundTasks`) | none (polls the database) | poll and publish | publishes again at every poll; dies of an exception, and nothing starts it again | every Submitted order is offered for validation |
| Event bus, RabbitMQ (`BB/EventBusRabbitMQ`, `BB/EventBus`) | connection, consumer channel, subscriptions, queue and bindings | Publish, Subscribe, Unsubscribe, deliver, reconnect | acknowledges failed messages; bind before handler registration; channel replaced under a running handler | a message with a handler is handled, an acknowledged one is gone |
| Event bus, Service Bus (`BB/EventBusServiceBus`) | rules, subscriptions | Publish, Subscribe, handle (10 at a time) | concurrent handlers; locks that expire; a failed completion brings handled work back | completes only what it handled; every repetition has a cause |
| Basket (`src/Basket.API`) | baskets in Redis | get, update, checkout, delete, OrderStarted, ProductPriceChanged | read-modify-write without compare-and-swap; deletion when OrderStarted arrives | prices are the catalog's; nothing is ordered twice or lost |
| Catalog (`src/Catalog.API`) | items, stock, its own event log | update price, create, delete, Paid and AwaitingValidation handlers | whole rows overwritten without a token; prices rounded by the column; the AwaitingValidation handler publishes null | events tell the price of every product; an order's stock is taken as a whole; every validation is answered |
| Aggregator (`src/ApiGateways/Web.Shopping`) | none | UpdateAll, UpdateQuantities, AddBasketItem | read-modify-write over two services | concurrent additions survive |
| WebMVC (`src/WebMVC`) | sessions; the SignalR connection of a page | checkout; connect, register, reload | the page registers its handler after it has joined its group and never reconnects; a poll may end, time out or be aborted at any line of the client | a page shows the status in the end; the close is announced once, and nothing is heard behind it |
| SignalR hub (`O/Ordering.SignalrHub`) | groups of connections | join, leave, push a status | pushes to whoever is in the group at this moment | every status is pushed |
| MapUserMVC | users and their connections | keep, remove, send to a user | the lists of the map escape its lock and are walked with an await in every turn | a request that ends well has reached all, but in the moment of a removal |
| Webhooks.API, WebhookClient | subscriptions; received hooks | subscribe, unsubscribe, post hooks; keep them | one subscriber whose url cannot be sent to stops the loop for all; requests fail or are refused and nothing is tried again; an unsynchronised list | a subscriber misses an event only by his own failed or refused request, or because the loop was broken off before it |
| Identity.API | users, clients | login, consent | third-party protocol | - |

`PROJECT.json` lists the components with their sources, and the hazards with the
lines where they bite.

## 2. The modules

| Module | Models |
|---|---|
| `OrderAggregate` | the status methods of `O/Ordering.Domain/.../Order.cs` as pure operators: `Throws`, `Acts`, `Target`, `NewStatus`, `Raises` |
| `Ordering` | every command of Ordering.API from arrival to publication, by concurrent workers |
| `TransactionalOutbox` | what a service with an event log promises: the abstract specification `Ordering` implements |
| `Catalog` | products, prices and stock of Catalog.API, its price events and its Paid handler; implements `TransactionalOutbox`, too |
| `Basket` | baskets in Redis: Basket.API, the aggregator's requests, the handlers of ProductPriceChanged and OrderStarted |
| `Checkout` | one user's basket from the requests that fill it over checkouts that are sent again and Ordering's transaction to the deletion by OrderStarted |
| `Pricing` | `Catalog` (extended) and `Basket` (instantiated) composed: the broker's queue between them is what `Catalog` has handed over |
| `SubscriptionsManager` | what a message meets while `AddSubscription` runs: the same class serves both buses |
| `EventBusRabbitMQ` | one service's end of the bus over RabbitMQ: Startup, consumer channel, delivery tags, work pools, lost connections, `CallbackException`, restarts |
| `EventBusServiceBus` | one service's end of the bus over Azure Service Bus: rules, message pump, locks, concurrent handlers, dead-letter queue, restarts |
| `EventDelivery` | what the bus promises of a service's messages: the abstract specification both buses implement |
| `Buyers` | buyers and cards when several handlers place orders at a time |
| `OrderItems` | `Order.AddOrderItem` over the items of a basket, against sums over the basket |
| `GracePeriod` | the polling loop of Ordering.BackgroundTasks with its failures |
| `OrderHub` | the way of a status from the commit over the SignalR hub to the page |
| `HubConnection` | the SignalR client of the pages over long polling: `start`, the poll loop, `stop` |
| `NotificationChannel` | what a connection promises the page: the abstract specification `HubConnection` implements |
| `UserConnections` | the connection map of MapUserMVC |
| `Webhooks` | subscriptions, the sender, and the list of the receiving client |
| `Services` | the sum of the components that share no state (Service Bus, `Buyers`, `GracePeriod`, `UserConnections`, `OrderHub`, `Webhooks`, `OrderItems`, `HubConnection`): its variable `service` says which of them takes the steps of this behaviour |
| `MCOrdering`, `MCCatalog`, `MCPricing`, `MCEventBus`, `MCServices` | the values of the constants for TLC; `MCPricing` is also a sum of `Pricing` and `Checkout` (`story`) |
| `OutboxProofs`, `OrderingProofs` | the theorems on `Ordering`: types and outbox, then commands and orders |
| `CatalogProofs`, `PricingProofs`, `CheckoutProofs`, `EventBusProofs`, `ServiceBusProofs` | the theorems on the modules of these names |
| `ServicesProofs` | the theorems on `Buyers`, `UserConnections`, `Webhooks`, `HubConnection` and on the types of all of `Services` |

### How `Ordering` corresponds to the code

A *worker* is a caller of `IMediator.Send`: a consumer of the bus (one with
RabbitMQ, whose channel hands over one message after the other; several with the
Service Bus) or an HTTP request of `OrdersController`. Its control state `pc`
follows `TransactionBehaviour.Handle`:

| `pc` | code |
|---|---|
| `begin` | `BeginTransactionAsync`; `IdentifiedCommandHandler`: `ExistAsync` |
| `insert` | `CreateRequestForCommandAsync`, which blocks on the primary key |
| `handle` | `GetAsync`, the domain method, domain event handlers, `SaveEntitiesAsync` |
| `commit` | `CommitTransactionAsync`: one atomic write of the tables |
| `publish`, `send`, `markPublished`, `markFailed` | the loop of `PublishEventsThroughEventBusAsync` and its catch block |

`handle` is one step: between `GetAsync` and `SaveChanges` a worker only reads a
row nobody's uncommitted write can reach (READ COMMITTED) and writes its own
transaction. The lost update comes from the gap between `handle` and `commit`,
which is kept. `RequestLocked` is the one lock that makes a transaction wait for
another before it has read. (The UPDATE of an order row blocks a second UPDATE of
it until the first commits; that delays the second commit and orders the two
writes, as the model's atomic commits do.)

`ctx` is the DbContext: it survives an attempt that the execution strategy
retries, so `Exists` and `Found` ask it before they ask the tables, and
`WriteTables` saves what a failed handler left `dirty` in it. `answered` and
`executed` are history variables. A domain event handler that needs the buyer of
an order without one throws (`MissesBuyer`). Faults (`BeginFails`,
`SetStatusThrows`, `CreateOrderThrows`, `CommitFails`, `CommitAckLost`,
`PublishFails`, `MarkFailedFails`, `Crash`) are bounded by `MaxFaults`.

Abstractions: addresses, cards, items and descriptions are left out; an event is
its key (what it is about) and a number in place of a Guid; payment methods are
left out and the buyer is a Boolean; a database error that dooms the transaction
is a `CommitFails`; deliveries may repeat without end, since what is
published stays in `bus` and `grace`, and any checkout may arrive again. The log
entry of an event whose save failed stays tracked in the log's own context and is
inserted, never to be published, with the next status update: left out.

### How `Catalog`, `Basket` and `Pricing` correspond to the code

`Catalog` follows `CatalogController.UpdateProductAsync` in three steps: the read
of the old price (`read`), the one transaction that overwrites the row and saves
the event (`save`), and `PublishThroughEventBusAsync` (`publish` to `markFailed`).
`DbContext.Update` marks every column, so `WriteProduct` replaces price and stock
together; the Paid handler's tracked entities write the stock alone (`WriteStock`),
computed when `Find` read the row (`RemoveStock`). No row has a concurrency token.
`Stored` is what `decimal(18,2)` makes of a price. The strategy of
`ResilientTransaction` cannot run its action twice with success, since the log
entry is tracked already; the plain `SaveChanges` can (`SaveProductAckLost`). The
handler of AwaitingValidation publishes `null` and changes nothing: in this
repository nobody answers a validation, and the payment service is not there, so
`Ordering` takes their answers from outside.

`Basket` writes a basket as one value. A request of the aggregator is two reads
and a write (`GetPrice`, `GetBasket`, `PostBasket`; UpdateAll reads the basket
first, AddBasketItem the price, UpdateQuantities no price). The price handler is
the loop over `server.Keys()`: `ReadBasket` and `WriteBasket` of one user after
the other, in any order, over a set of keys that was scanned while others came and
went. Its consumer takes one message after the other (RabbitMQ), and acknowledges
a message whose handler threw. Checkout sends the basket off and leaves it; what
Ordering makes of it is `OrderingAnswers`.

`Pricing` extends `Catalog`, and so do its proofs those of `Catalog`; its own
specification is `PricingSpec`. It joins the two by what they share: `price` is Catalog's table as its GET
returns it, `feed` the events in the order of `bus`. A step belongs to one of the
services. Not there: the queues of other subscribers, and messages of the two
kinds that overtake each other, which the two handlers do not notice.

### How `Checkout` corresponds to the code

`Checkout` crosses WebMVC, Basket, the broker and Ordering, and takes each service
only as far as it decides what becomes of a line. A *form* is one rendering of
`Create.cshtml`, which carries a new request id (`:100`); WebMVC's retry policy and a
second click send it again with that id. `CheckoutAsync` reads the basket, publishes
what it has read and leaves the basket as it is; these are one step, since nobody can
tell a late publication from a late delivery (a message stays in `sent` as long as it
likes), and a checkout that fails changes nothing. Ordering's transaction is one step here, with the ends it has in
`Ordering`: committed (`CreateOrder`), committed with a swallowed exception behind
OrderStarted (`CreateOrderThrows`) or of the validator (`CreateOrderInvalid`, the request id
alone), rolled back, or a duplicate. That one step is justified by
`Ordering`, where `ExecutedAtMostOnce` is proved for the interleaved transactions.
OrderStarted may be lost behind the commit (`LoseStarted`), come twice, or fail
to delete the basket. A line is its Guid. `astray` and `repeated` are history: the
lines a known race has met.

### How the buses correspond to the code

`Subscribe` is five lines in either bus: bind the queue or add the rule, put an empty
list into the dictionary, add the handler to it, add the event type, and (RabbitMQ)
start a consumer. They are five steps, since messages arrive between them: RabbitMQ's
consumer starts with the first call, the Service Bus's pump in the constructor.
`Meets` says what `ProcessEvent` can do at each of them.

`EventBusRabbitMQ` keeps what decides whether a message is taken off: `queue` at the
broker, `channel` as `_consumerChannel` is (open, lost under a connection that the
client library recovers, or closed), its delivery tags, and `local`, the deliveries the
client has buffered, each with its session, tag and place in `Consumer_Received`. A
*session* is the life of one channel at the broker; its end gives what was not
acknowledged back to the queue (`Requeue`), which may come later than the new session.
`BasicAck` acknowledges on whatever channel is there by now: outside the `try`, so a
closed one throws and raises `CallbackException`, which replaces the channel. A
recovered channel ignores the tags from before (`offset`); a replaced one does not know
that they are another channel's. `Restart` keeps the queue and its bindings, and loses
what the process had.

The exchange is not durable, so a restart of the broker loses the bindings for the
publishers: not modelled. `IsConnected` is read outside the lock of `TryConnect`, so
two connections may be opened and one leaks: it has no channel and changes nothing
here. No service calls `Unsubscribe` or `SubscribeDynamic`. `refused` lets creating the
new channel fail once.

`EventBusServiceBus` has the subscription (`queue`, `locked`, `dead`, `deliveries`)
and the handlers (`task`). A message is taken off by `CompleteAsync` alone, a request to
the broker that throws when the lock has expired, and may throw when it has not
(`CompleteFails`; `CompleteUnanswered` when only the answer is lost). The pump then
abandons the message, a request that may fail, too (`AbandonFails`). `Leave` is the
callback whose `ProcessEvent` returned false and which calls nothing at all. Renewing a lock is what keeps `LockExpires` from
happening; when a handler is slower, it happens.

### How the other services correspond to the code

* `Buyers`: a transaction of `CreateOrder` from `FindAsync` (`found`) over
  `SaveEntitiesAsync` (`saved`: its row of the buyer is locked) to its commit. The bus
  is the Service Bus, where a handler that threw gets the message again; with
  RabbitMQ there is one handler and no race. Cards are valid: `PaymentMethod` throws
  for others, which is a `Fail`. `VerifyFails` is `SingleOrDefault` on two equal cards,
  swallowed by the identified command handler as in `Ordering`.
* `OrderItems`: one action per turn of the loop in `CreateOrderCommandHandler`. Discounts
  are left out, as a checkout never carries one.
* `GracePeriod`: `loop` is the line of `ExecuteAsync`. After `Throws` it is dead: before the
  first await the web host logs that a hosted service has failed to start and goes on,
  afterwards nobody looks at the task. No code starts it again. `Confirm` stands for Ordering.
* `OrderHub`: the commit and the publication (Ordering), `Handle` (hub), and the page:
  `connection` is `inGroup` between `OnConnectedAsync` and the `then` of `start()`.
  `missed` records that a status later than the shown one has got lost.
* `HubConnection`: the three layers of the client (`HubConnection`, `HttpConnection`,
  `LongPollingTransport`) in `site.js`. A step is a run of the script from one answer of
  the network to the next; `Idle` says that promise jobs go before answers. The hub's
  end is external. Long polling is the transport modelled. Keep-alive and server timeout
  are not, since a poll answers in time or is given up; a poll answered with nothing only
  begins another turn. The page's handler does not throw. Streams, `invoke`, `stop()`
  called by the page and the other transports are used by no page.
  Two things the model shows and no property forbids: when the answer to the
  handshake's POST is the last to arrive, `start()` is fulfilled and the state becomes
  Connected on a connection that has already closed; and after a failed POST
  (`PostFails`) the transport goes on polling, in the group and without a handler.
* `UserConnections`: `AdminUser` gets the list itself, and every turn of its `foreach`
  is a step. The list is changed under a lock the walker does not have, so each write of
  `List<T>` is a step, too (`inside` says which call has the lock): `Add` raises `version`,
  then the size, then writes the item; `RemoveAt` lowers the size (`Size`), moves the items
  up one by one (`RemoveAtGap`) and raises `version` last.
* `Webhooks`: the handler reads the subscribers and starts one request after the other
  (`OnSendData`), `WhenAll` waits for them. A request fails on its way (`RequestFails`), or
  its receiver answers 400 (`BadRequest`); the sender ignores answers and tries nothing
  again. `Crash` ends the loop. `NewWebhook` and `Add` are the two halves of `List.Add` in the client.

## 3. Runs

| Run | Instance | Question |
|---|---|---|
| `ordering_faults` | 1 order, 1 consumer, 1 client with cancel and ship, 1 fault | do orders, request ids and outbox stay consistent whatever fails |
| `ordering_retries` | 1 order, 1 consumer, 3 faults | what retry after retry does to events and their log |
| `ordering_races` | 1 order, 1 consumer, 2 clients with one cancel id, fairness | duplicates and races without faults, termination |
| `ordering_servicebus` | 2 checkouts, 2 orders, 2 consumers | does a checkout make one order, however often and to however many it is delivered |
| `paid_cancelled` (violation) | 1 order, 1 consumer, 1 client | a stale Cancel overwrites Paid |
| `ok_not_executed` (violation) | the same | the retry of a failed command is answered true |
| `started_no_order` (violation) | 1 order, 1 consumer, 1 fault | OrderStarted without an order |
| `catalog_faults` | 2 products, 1 admin, 1 consumer, 1 order of both, 2 price changes, 2 faults | do events tell every price, and orders take all or nothing |
| `silent_price` (violation) | 1 product, 2 admins | a price changes without an event |
| `pricing` | 1 product, 1 basket of up to 2 lines, 1 request, 2 price changes, 1 failure; or 1 basket of up to 2 lines, 2 requests, 2 forms, 2 checkouts | what becomes of a basket: do its prices and the catalog's agree when the dust has settled; are its lines ordered, and once |
| `event_bus` | 2 event names, a Subscribe call for each, 2 sessions, 2 messages, 1 lost connection or crash, fairness | when is a message taken off RabbitMQ's queue, when run twice or not at all |
| `services` | the Service Bus, buyers, grace period, connection map, hub and page, SignalR client, webhooks, order items, one at a time, fairness | what the smaller components keep, and that their work ends |

Properties:

* `StepsAreSaved`: an order is StockConfirmed, Paid or Shipped only if the events
  of all earlier steps were saved. It survives lost updates because every write
  of a status starts from a committed status and saves its own event with it.
* `NoBuyerNoValidation`: what a swallowed exception leaves behind cannot go on.
* `ExecutedAtMostOnce`, `OkMeansExecuted` (violated): idempotency by request id.
* `AnnouncedOnce`, `NeverRewinds`: with one consumer. With two, both are broken:
  two handlers read StockConfirmed, both announce Paid.
* `OneOrderPerCheckout`: there are as many orders as checkouts that were executed, and as
  many saved OrderStarted events, although two consumers have the same checkout in hand.
* `OutboxAgreesWithBus`, `OutboxPromise`: the log against the broker.
* `PaidIsNotCancelled`, `StartedOrdersExist` (violated): see the findings.
* `EventsChain`: with one administrator at a time, each price event starts from the
  price the one before has left, and the last one is the price in the table. The
  basket's handler depends on it, since it replaces a price only if it is the old one.
* `StockAllOrNothing`: one `SaveChanges` for all items of an order, whatever throws.
* `PricesAgree`: when no price is on its way, baskets have the catalog's prices,
  unless a request overlapped a price on its way, a handler failed and was
  acknowledged, or a price was finer than a cent. Each exception is needed: without
  it TLC finds the disagreement. Redelivery, crashes and checkouts are no exception.
* `PricesAreGenuine`: has no exceptions. Whatever races, no basket shows a price or a
  price change the catalog has not had.
* `PriceChangesAreSaved` (violated): see the findings.
* `CommandsTerminate`: under weak fairness of each worker.
* `NothingVanishes`, `OrderedOnce` (`Checkout`): OrderStarted deletes the basket unseen,
  and every checkout reads it anew, so what an order has and what is deleted need not be
  the same lines. The exceptions are the races the code is open to: a line added while a checkout is
  on its way, an overwritten write, an administrator's deletion and the swallowed
  exception (`astray`); a second form, or an old copy that brings ordered lines back
  (`repeated`). Redeliveries, double clicks of one form, crashes and lost OrderStarted
  events are no exceptions.

The buses:

* `DeliveryPromise` (each bus implements `EventDelivery`): a message is taken off once,
  and only after a run that allows it. RabbitMQ counts a run that threw, as
  EventBusRabbitMQ.cs:213 says; once `CallbackException` has replaced the
  channel the promise is off, since a tag of the old channel may acknowledge a message
  of the new one that nobody has seen. The Service Bus counts a success only; its excuse
  is the moment in which a name has an entry and no handler.
* `FirstCallIsHeard`: binding before registering may drop messages, of every name but
  the first one in the first process.
* `OnceWithoutFaults`, `RepeatsAreCaused`: what it takes for a second run. With RabbitMQ it
  is a lost connection or a restart. With the Service Bus, each run after the first is
  paid for by a lock that has expired or a completion that has failed (`runs`, `lapses` and
  `faults` count them for every message).
* `NotDeafByItself`: only `CallbackException` leads to a closed channel for good.
* `QueueDrains`: messages leave the queue, unless the service is deaf. Its premise
  says that `CallbackException` happens finitely often: a delivery of an old session
  can close the new channel and cause the next replacement, for ever.
* `MessagesSettle`: with the Service Bus every message is completed or dead, without a
  premise.

The other components (`service` names one of them, the others stand still):

* `CardsPerHandler`, `CheckoutsSettle` (`Buyers`): duplicates are bounded by the number
  of handlers; losing a race delays a checkout and does not stop it.
* `OrderIsItsBasket` (`OrderItems`): units are summed per product, the total is the
  basket's unless a product was there at two prices.
* `DueIsConfirmed` (`GracePeriod`): only an exception that ends the loop holds an order back.
* `PageCatchesUp` (`OrderHub`): the only gaps are statuses that got lost (`missed`). A
  reload may show more than was announced, and then the later push is harmless.
* `KeepsChannel`, `StartSettles` (`HubConnection`): refinement of `NotificationChannel`,
  and that `start()` does not hang unless the handshake was in an answer nobody read.
* `DoneReachesAll` (`UserConnections`): a changed list makes the walk throw, and a walk that
  does not throw has reached everybody, unless a connection of the user is being removed
  when the walk ends: then the list is short, its version is the old one, and a
  connection that stays may have been passed over. Without this exception TLC finds that.
* `HooksArrive` (`Webhooks`): whoever is subscribed when an event is handled gets the hook, unless his own
  request fails or is refused for its token, or the loop is broken off before his
  request, by a crash or by an url that cannot be sent to. Other receivers' failures, an
  exception after his request and unsubscribing meanwhile do not keep it from him.
* `KeptHooksAreListed` (`Webhooks`): a hook that was answered with 200 gets lost only if
  another one was added at the same time.

### Bounds

* `Orders`: commands name one order, and the only thing two orders share is the
  table of request ids and `OrderStarted`. One order shows every race on a row;
  `ordering_servicebus` has two, of two checkouts, and nobody who cancels, ships or fails
  to pay (`MaxCancelled` is 0): its question is the creation of orders. Two consumers with
  a shipping client beside them are too many states; `StepsAreSaved` is proved for them.
* Workers: two on one row is what a lost update takes; three (a consumer and two
  clients) what a duplicate in between takes.
* `MaxFaults`: one fault beside a concurrent client, three without one (a failed
  publication, a failed catch block and a failed retry of the command). The theorems hold for any number.
* `MaxCancelled` bounds the payment failures that keep announcing a cancellation,
  which nothing else does (a request id is executed once).
* `Checkout`: two checkouts with two forms are a form sent twice or two forms; two
  lines are one that was checked out and one that was not; two requests are one that
  overtakes another. The theorems hold for any number.
* `MaxEvents`: two price changes are what it takes for one to overtake a stale copy
  of a basket, or to start from a price that was rounded. `catalog_faults` has a
  price of 1.004, `pricing` 2.004 beside 2.00. After `MaxEvents` changes
  no PUT arrives.
* `Pricing` has one user and one request in flight in that run: baskets of two users share
  nothing but the handler's loop, in which a user is skipped or visited
  independently. Two lines tell a line that is added from one that is there. Catalog
  has no faults there, as what fails in Catalog is a price that stays on its way.
* `catalog_faults` has one administrator, as `EventsChain` asks; `silent_price` two.
* `event_bus`: two names tell the first Subscribe call from the others; two messages
  are what one tag needs to acknowledge the wrong one; a second session is what
  replaces the first (a third is only needed when deliveries of two old sessions are
  left: then the new channel waits until one of them is through). The theorems hold for any number.
* `services`: one message in the Service Bus subscription, since messages share nothing
  but the handlers, which are two; three deliveries before the dead-letter queue and two restarts;
  three checkouts with one card and one with another (two handlers can store a card twice,
  the third checkout then meets the duplicate); two orders in the grace period with one lost event and
  two errors (one caught, one deadly); three connections, two of one user; three statuses on their way to
  the page; three notices and two polls given up for the client; four subscribers, one of
  them unsendable and one with another token, and one event; baskets of up to three lines
  over one product id that is a number and two that are none.
* Deadlock is checked for `Ordering`. In the other runs it is not: the services
  rest when the bound is reached and nothing is in flight.
* The event log of Ordering is bounded because each status is entered through a guard.

### Fairness

`CommandsTerminate` assumes weak fairness of `Work(w)`: a worker that can go on
does. The .NET thread pool runs every ready continuation, and every database and
broker call has a timeout. Nothing is assumed of arrivals, and a worker that waits
for a row (`RequestLocked`) is not enabled: that it gets on is the property.

All fairness is weak, and of what runs by itself:

* `EventBusRabbitMQ`: Startup's thread, the work pool of each session, the broker's
  delivery and requeueing, and the library's recovery (automatic recovery is its
  default). Publishing, restarts and lost connections are not fair.
* `EventBusServiceBus`: Startup, each handler, and the expiry of a lock nobody renews.
* `Buyers`: each handler; a failing transaction (bounded) is not fair.
* `GracePeriod`: the loop, time, and Ordering's handling of an event; losses and errors
  are bounded, since a loss that repeats for ever would hold every order.
* `OrderHub`: the publication, the hub's handler, the arrival of a push, the timer. That a
  page connects or stays connected is not assumed.
* `HubConnection`: promise jobs, and that every request is answered or fails (the loop
  for data or a connection that is gone; nothing makes a poll end while the hub is silent); the hub's
  handshake timer.
* `Webhooks`: the tasks of the handler and the requests of the client.

## 4. Proofs

The theorems on `Ordering` are for arbitrary `Orders`, workers, request ids,
`MaxFaults` and `MaxCancelled`, from `ConstantsAssumption` alone (`NoOrder` and
`NoRequest` are no ids, the two kinds of workers are disjoint, the bounds are
naturals). Those on `Catalog` are for arbitrary products, prices, orders, requests
and consumers, from `CatalogAssumption`: orders have at least one unit of each of
their products, prices and stocks that are sent are naturals (a PUT with a negative
stock is excluded: the code accepts it, and `RemoveStock` then adds). Those on `Checkout` need no
assumption. Those on
`Pricing` assume in addition (`PricingAssumption`) that a price is at least half a cent, which
the column does not round to zero, as `oldUnit = 0` stands for no old price; those
on the buses that Startup's calls name events (each once, with RabbitMQ), that a
message is delivered at least once, and that the message pump has finitely many handlers. Those on the modules under `Services` use
`ServicesAssumption`: a checkout names a user and a card, a page connects with the id of a user, there are finitely many subscriptions,
baskets hold positive quantities (`BasketItem.Validate`), prices are integers (the code's
decimals, in their smallest unit) and the bounds are naturals.

| Theorem | Property | Inductive invariant |
|---|---|---|
| `TypeCorrect` | `TypeOK` | `Typing`: `TypeOK` and `Control`, what a control state says of the command and the pending events (`Head(pending)` exists when an event is sent) |
| `RequestsExecutedOnce` | `ExecutedAtMostOnce` | `OnceInv`: an executed request has its row; the inner command completes only in a transaction that holds the row, and no two transactions hold one |
| `StepsSaved`, `BuyerBeforeValidation` | `StepsAreSaved`, `NoBuyerNoValidation` | `OrderInv`: the same two statements for the tables (`RowInv`) and for the order each worker has in its DbContext, with the events of its transaction counted as saved (`WorkerInv`) |
| `OrderingIsAnOutbox` | `OutboxPromise` | `PendingInv`: what a worker is about to publish is in the log |
| `OutboxAgrees` | `OutboxAgreesWithBus` | `AgreeInv`: an event is held by one worker once (`HeldOnce`), those behind the head of a worker's list are NotPublished, the head has the state its line of the publish loop has left (`Holds`), and the broker has only what is in the log |
| `StepsAnnouncedOnce`, `RowsNeverRewind` (if `OneConsumer`) | `AnnouncedOnce`, `NeverRewinds` | `ProcessInv`: no step behind the status of a row that is not Cancelled has been announced, and none twice (`ProcessRow`); what the consumer is going to write and to announce is ahead of the row and of the log until it commits, whatever is done over HTTP (`ProcessWorker`) |
| `CatalogProofs!TypeCorrect` | `TypeOK` | `Typing`: `TypeOK`, and what a control state says of a request (`AdminControl`) or of a message (`ConsumerControl`) |
| `StockTakenTogether` | `StockAllOrNothing` | itself, with `Typing`: an item is tracked only if `RemoveStock` took at least one unit (`ReductionTypes`), and the commit takes all tracked items |
| `CatalogIsAnOutbox` | `OutboxPromise` | `Typing`: the event a request is about to send is in the log, which only grows (`LogGrows`) |
| `EventsAreChained` (if `OneAdmin`) | `EventsChain` | `Chained`: the property; stored prices are rounded (`Rounded`); a product's first event starts from the price it was born with (`Born`); what the administrator has read is still in the table (`Reads`) |
| `PricingTypeCorrect` | `PricingTypeOK` | `Typing` of `Catalog` and `Types`, what the control states of a request and of the price handler say of their copies |
| `GenuinePrices` (if `OneAdmin`) | `PricesAreGenuine` | `HeldAreGenuine`: the property of every line anybody holds: baskets, copies of requests and of the handler, lines about to be added |
| `PricesComeToAgree` (if `OneAdmin`) | `PricesAgree` | `SentInOrder` and `Agreeing`, see below |
| `EventBusProofs!TypeCorrect` | `TypeOK` | itself; among it that tags are numbered in the order of delivery (`TagsInOrder`) |
| `FirstCallHeard`, `OnceUntilFaults`, `NeverDeafByItself` | `FirstCallIsHeard`, `OnceWithoutFaults`, `NotDeafByItself` | `Inv`: a message is in one place before something fails; what waits for its acknowledgement is outstanding at the broker under its own tag until a channel is replaced; nothing is consumed before the first call is through |
| `EventBusProofs!DeliveryPromised` | `DeliveryPromise` | the same: an outstanding tag is the tag of a run that has ended |
| `ServiceBusProofs!TypeCorrect` | `TypeOK` | with `Deliverable`: what may be delivered has a delivery left |
| `RepeatsCaused` | `RepeatsAreCaused` | `Held`: who holds a lock holds it alone (`Hands`, `Locks`), and the account of a message (`Paid`): its runs and those that handlers are about to make (`InHand`) are covered by its lapses and faults, and one more that nothing has paid for unless the message is going to be delivered again (`Again`, `Allowed`) |
| `ServiceBusProofs!DeliveryPromised` | `DeliveryPromise` | the same, and that who has handled a message has counted a run (`Ends`) |
| `CardsStored` | `CardsPerHandler` | `CardsInv`: the cards stored and the handlers that read the buyer without the card and are going to store it are together no more than the handlers |
| `DoneReached` | `DoneReachesAll` | `WalkInv`: while the version is that of the beginning and nothing is being removed, the `foreach` has sent to exactly the items before the next one; a walk under way has not passed the item that is still to be written |
| `KeptListed` | `KeptHooksAreListed` | `ListInv` and `KeepInv`: a hook that is added alone has the place behind the last one, and every hook that is being added has a place behind those that are kept |
| `OrdersAreBaskets` | `OrderIsItsBasket` | `LinesInv`: the lines are what the items before the next one amount to; unless a product is there at two prices, their total is the sum of those items |
| `PageKeepsChannel` | `KeepsChannel` | `PageInv`: `Control`, how loop and `stop()` share the end of the connection, and `Stream`, that what the hub has written is notices but for a first and a last message |
| `ServicesTypeCorrect` | `ServicesTypeOK` | the types of the components, with `Inv` of the Service Bus, `ListInv` and `PageInv` |
| `CheckoutProofs!TypeCorrect` | `CheckoutTypeOK` | itself |
| `BasketIsKept` | `NothingVanishes` | `VanishInv`: what is in the basket while a checkout may still become an order is in that checkout, ordered or astray, and when OrderStarted is saved it is ordered or astray (`Covered`) |
| `LinesOrderedOnce` | `OrderedOnce` | `OnceInv`: checkouts of different forms that may both become orders share repeated lines only, and an order whose basket was deleted shares only such lines with the basket (`Apart`); one order for each form (`OneOrderEach`) |

`StepsAreSaved` is not inductive by itself: a worker that read a status long ago
writes it now. The strengthening says that whatever a worker holds was justified
by the log when it was read, and the log only grows. `ExecutedAtMostOnce` needs
that the row of a request, once locked, is held by one transaction
(`RequestLocked`), and that a retry never forgets that it tracks the row.
Each invariant of `Ordering` was checked by TLC on the instance of `ordering_faults`
and one with two consumers before it was proved, those of the other modules on the
instances of their runs.

`OneAdmin` says that administrators work one after the other (there is at most one of
them at a time). It is a premise of the theorems and not of the module: with two,
`EventsChain` is broken, which `silent_price` shows.

`PricesComeToAgree` needs to know how old a line of a basket is. `AsOf(line, k)`: the
line has the price its product had after the first `k` events of the log. A basket's
lines are as old as `handled`, or one event younger (`Recent`); those of a user the handler has
passed are younger (`Passed`); a request's copy is as old as `handled`, as it would
otherwise have met a price on its way. The log is the queue only if no event was left out: `SentInOrder`
says that the broker gets the events in the order of the log, and that a gap, once
there, stays (`Len(bus) < LastSent`), so that a price is on its way for ever and the
property asks for nothing.

`OneConsumer` says that the bus has one consumer, as over RabbitMQ, whose client runs the
handlers of a channel one at a time; the HTTP requests beside it are any number. It is a premise,
too: with two, the same message delivered twice is announced twice, which is among the
hazards. `ProcessInv` is where the premise is needed: a Cancel may overwrite the row at
any time, but only the consumer moves it on, so what it has read can be out of date
in one way alone, the row is Cancelled.

`PageKeepsChannel` maps the notices among what the hub has written and no poll has
brought to the channel's `pending`, until the close is announced, and polls given up and
the crash of the hub to its faults. The lemmas `NoticesSplit`, `NoticesTaken`
and `NoticesAppend` say that cutting a stream into answers cuts its notices; the
rest is one step of the channel for each step of the client (`ChannelStep`): the end of the loop
and the answer to DELETE are `End`, and never both, because a loop that `stop()` has
aborted announces nothing and one that has ended before leaves no transport to stop.
`KeepInv` shows what `overlapped` is for: two hooks that are added at the same time
can have the same place.

`OrdersAreBaskets` needs to know what a fold over a finite set computes. The library's
induction theorems cannot be instantiated by the provers, so the lemmas before it take a
smallest counterexample among the subsets of the set instead (`Smallest`): the recursion
of the fold has one solution (`AddsOnce`, `AddsSomewhere`), it satisfies its equation
(`SumStep`), and the order in which it takes the elements does not matter (`SumRemove`).
The rest is an invariant of the loop. `TwoPrices` is about the whole basket, so
that the sum of the prefix is kept from the first item on.

The theorems on `Buyers`, `UserConnections`, `Webhooks`, `OrderItems` and `HubConnection` are about
the specification of the component, and `ServicesSpec` runs each of them by itself.

Only model-checked: all liveness, `CommandsTerminate`, `QueueDrains`,
`MessagesSettle`, `CheckoutsSettle`, `DueIsConfirmed`, `PageCatchesUp`, `StartSettles`,
`HooksArrive` (liveness under fairness is out of TLAPS' reach), and what the runs that
expect a violation show.

## 5. Plan

Done: the order and its commands, the outbox, catalog, baskets, their composition and the checkout,
both buses, the smaller services, and the proofs above. Left:

1. `Checkout` with liveness: under which losses an order that was placed deletes its basket,
   and the order nobody validates.

## Not modelled

* The payment service is not in the repository; its answers are messages from outside
  (`ReceivePaymentAnswer`). So are the answers to a validation, which nothing sends.
* Identity.API: configuration, accounts and consent pages of a third-party protocol.
* The controllers of WebMVC and the configuration of Ocelot keep no state. `src/examples`,
  `k8s` and `docker-compose` are demonstrations and deployment.
* The JavaScript under `wwwroot` is vendored: jQuery, jQuery Validation, Bootstrap,
  toastr. The one script of it that takes part in the system is the SignalR client in
  `src/WebMVC/wwwroot/js/site.js`, modelled as far as the pages use it
  (`HubConnection`). The program itself is C#, so that of the repository's
  JavaScript only a small share is mapped.
