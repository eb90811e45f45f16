------------------------------ MODULE Ordering ------------------------------
(***************************************************************************)
(* Ordering.API: the commands on orders, run by concurrent workers.        *)
(*                                                                         *)
(* A worker is whatever calls IMediator.Send: an HTTP request of           *)
(* OrdersController or a consumer of the event bus.  TransactionBehaviour  *)
(* wraps every command in one READ COMMITTED transaction of the ordering   *)
(* database, IdentifiedCommandHandler makes a command with a request id    *)
(* idempotent, the domain event handlers save integration events in the    *)
(* same transaction (the outbox), and after the commit the worker itself   *)
(* publishes the events it saved.  No table has a concurrency token, so a  *)
(* command decides on the status it read and writes whatever the status is *)
(* by then.                                                                *)
(*                                                                         *)
(* The DbContext of a worker outlives a failed attempt: the execution      *)
(* strategy of EnableRetryOnFailure runs the command again with the        *)
(* entities the first attempt left in the change tracker (ctx below).      *)
(*                                                                         *)
(* External, modelled by the messages they send: Basket (checkouts), the   *)
(* stock and the payment service.                                          *)
(***************************************************************************)
EXTENDS OrderAggregate, Naturals, Sequences, FiniteSets

CONSTANTS
    Orders,          \* ids the orderseq sequence hands out (bound on orders created)
    BusWorkers,      \* consumers: one with RabbitMQ, MaxConcurrentCalls with Service Bus
    HttpWorkers,     \* HTTP requests in flight
    CreateRequests,  \* x-requestid of a checkout, carried by UserCheckoutAccepted
    CancelRequests,  \* x-requestid of PUT /orders/cancel
    ShipRequests,    \* x-requestid of PUT /orders/ship
    NoOrder, NoRequest,
    MaxFaults,       \* bound on faults: failed database and broker calls, crashes
    MaxCancelled     \* bound on Cancelled events that PaymentFailed messages may add

Workers  == BusWorkers \cup HttpWorkers
Requests == CreateRequests \cup CancelRequests \cup ShipRequests

ASSUME ConstantsAssumption ==
    /\ NoOrder \notin Orders
    /\ NoRequest \notin Requests
    /\ BusWorkers \cap HttpWorkers = {}
    /\ MaxFaults \in Nat /\ MaxCancelled \in Nat

\* What the integration events of the outbox are about: OrderStarted names the
\* buyer only, the others the status an order has changed to.
OrderStarted == <<"OrderStarted", NoOrder>>
EventKey     == {OrderStarted} \cup (Status \X Orders)

\* EventStateEnum
EventState == {"NotPublished", "InProgress", "Published", "PublishedFailed"}

\* The n-th event about key; in the code every event has a Guid.
EventId == EventKey \X (Nat \ {0})

\* A row of ordering.orders, or no row.
NoRow    == [status |-> "none", buyer |-> FALSE]
OrderRow == [status : Status \cup {"none"}, buyer : BOOLEAN]

Command   == [op : StatusOp \cup {"Create"}, req : Requests \cup {NoRequest},
              order : Orders \cup {NoOrder}]
NoCommand == [op |-> "Create", req |-> NoRequest, order |-> NoOrder]

\* A worker's DbContext: is the ClientRequest tracked, the tracked order (NoRow: none),
\* has it changes that SaveChanges has not sent.
Context      == [request : BOOLEAN, order : OrderRow, dirty : BOOLEAN]
EmptyContext == [request |-> FALSE, order |-> NoRow, dirty |-> FALSE]

\* What a worker's open transaction holds: the row of the request, the write of the
\* order, the events saved.
Transaction == [request : BOOLEAN, order : BOOLEAN, events : Seq(EventKey)]
NoWrites    == [request |-> FALSE, order |-> FALSE, events |-> <<>>]

Pc == {"idle", "begin", "insert", "handle", "commit", "publish", "send",
       "markPublished", "markFailed"}

VARIABLES
    orders,      \* table orders
    requests,    \* table requests: the ClientRequest ids
    eventLog,    \* table IntegrationEventLog: the states of the events about each key
    bus,         \* ids of the events handed to the broker so far
    grace,       \* orders for which GracePeriodConfirmed has been published
    pc, cmd,     \* each worker's control state and command
    ctx, tx,     \* its DbContext and its open transaction
    reply,       \* what the command is going to return
    inner,       \* did the (inner) command handler itself run to completion
    pending,     \* the committed events it is publishing
    answered,    \* history: the answers given to each request id
    executed,    \* history: how often a request's command was committed
    faults       \* faults so far

database == <<orders, requests, eventLog>>
outside  == <<bus, grace>>
local    == <<pc, cmd, ctx, tx, reply, inner, pending>>
history  == <<answered, executed>>
vars     == <<database, outside, local, history, faults>>

Init ==
    /\ orders = [o \in Orders |-> NoRow]
    /\ requests = {}
    /\ eventLog = [k \in EventKey |-> <<>>]
    /\ bus = {}
    /\ grace = {}
    /\ pc = [w \in Workers |-> "idle"]
    /\ cmd = [w \in Workers |-> NoCommand]
    /\ ctx = [w \in Workers |-> EmptyContext]
    /\ tx = [w \in Workers |-> NoWrites]
    /\ reply = [w \in Workers |-> FALSE]
    /\ inner = [w \in Workers |-> FALSE]
    /\ pending = [w \in Workers |-> <<>>]
    /\ answered = {}
    /\ executed = [r \in Requests |-> 0]
    /\ faults = 0

Goto(w, label) == pc' = [pc EXCEPT ![w] = label]

\* The scope of the request ends: its DbContext is disposed, an open transaction is
\* rolled back, the exception or the result is gone.
EndScope(w) ==
    /\ Goto(w, "idle")
    /\ cmd' = [cmd EXCEPT ![w] = NoCommand]
    /\ ctx' = [ctx EXCEPT ![w] = EmptyContext]
    /\ tx' = [tx EXCEPT ![w] = NoWrites]
    /\ reply' = [reply EXCEPT ![w] = FALSE]
    /\ inner' = [inner EXCEPT ![w] = FALSE]
    /\ pending' = [pending EXCEPT ![w] = <<>>]

Identified(w) == cmd[w].req # NoRequest

Fault == faults < MaxFaults /\ faults' = faults + 1

OnBus(key) == \E id \in bus : id[1] = key

-----------------------------------------------------------------------------
(* A command arrives. *)

Receive(w, op, req, order) ==
    /\ pc[w] = "idle"
    /\ Goto(w, "begin")
    /\ cmd' = [cmd EXCEPT ![w] = [op |-> op, req |-> req, order |-> order]]
    /\ UNCHANGED <<database, outside, ctx, tx, reply, inner, pending, history, faults>>

\* UserCheckoutAccepted, any number of times for a request id.
ReceiveCheckout(w) ==
    /\ w \in BusWorkers
    /\ \E r \in CreateRequests : Receive(w, "Create", r, NoOrder)

\* GracePeriodConfirmed: published while the order was Submitted, handled whenever.
ReceiveGracePeriod(w) ==
    /\ w \in BusWorkers
    /\ \E o \in grace : Receive(w, "SetAwaitingValidation", NoRequest, o)

\* The stock service's answers to OrderStatusChangedToAwaitingValidation.
ReceiveStockAnswer(w) ==
    /\ w \in BusWorkers
    /\ \E o \in Orders, op \in {"SetStockConfirmed", "SetStockRejected"} :
          OnBus(<<AwaitingValidation, o>>) /\ Receive(w, op, NoRequest, o)

\* The payment service's answers to OrderStatusChangedToStockConfirmed.
ReceivePaymentAnswer(w) ==
    /\ w \in BusWorkers
    /\ \E o \in Orders, op \in {"SetPaid", "Cancel"} :
          /\ OnBus(<<StockConfirmed, o>>)
          /\ op = "Cancel" => Len(eventLog[<<Cancelled, o>>]) < MaxCancelled
          /\ Receive(w, op, NoRequest, o)

\* PUT /orders/cancel and PUT /orders/ship, for any order number the client names.
ReceiveHttp(w) ==
    /\ w \in HttpWorkers
    /\ \E o \in Orders :
          \/ \E r \in CancelRequests : Receive(w, "Cancel", r, o)
          \/ \E r \in ShipRequests : Receive(w, "Ship", r, o)

-----------------------------------------------------------------------------
(* TransactionBehaviour and IdentifiedCommandHandler up to the inner command. *)

\* FindAsync looks into the change tracker before it asks the database.
Exists(w) == ctx[w].request \/ cmd[w].req \in requests

\* BeginTransaction and, for an IdentifiedCommand, ExistAsync.
Begin(w) ==
    /\ pc[w] = "begin"
    /\ tx' = [tx EXCEPT ![w] = NoWrites]
    /\ IF Identified(w) /\ Exists(w)
       THEN /\ reply' = [reply EXCEPT ![w] = TRUE]  \* CreateResultForDuplicateRequest
            /\ Goto(w, "commit")
       ELSE /\ Goto(w, IF Identified(w) THEN "insert" ELSE "handle")
            /\ UNCHANGED reply
    /\ inner' = [inner EXCEPT ![w] = FALSE]
    /\ UNCHANGED <<database, outside, cmd, ctx, pending, history, faults>>

\* Mutant of RequestLocked: under SERIALIZABLE the read of ExistAsync locks the key, too.
RequestLockedMutant(w) ==
    \E v \in Workers \ {w} : pc[v] \in {"insert", "handle", "commit"}
                            /\ cmd[v].req = cmd[w].req

\* Another mutant: the table has no primary key, and the second ExistAsync is all there is.
RequestLockedByNobody(w) == FALSE

\* The primary key of requests: a second INSERT of an id waits for the transaction
\* that holds the first one.
RequestLocked(w) == \E v \in Workers \ {w} : tx[v].request /\ cmd[v].req = cmd[w].req

\* Mutant of RowExists: no primary key and no second ExistAsync.
RowExistsMutant(w) == FALSE

\* The second ExistAsync, or the violation of the primary key.
RowExists(w) == cmd[w].req \in requests

\* CreateRequestForCommandAsync, outside the try block: if the row is there by now
\* the exception leaves the handler.
InsertRequest(w) ==
    /\ pc[w] = "insert"
    /\ ~RequestLocked(w)
    /\ IF RowExists(w)
       THEN EndScope(w)
       ELSE /\ tx' = [tx EXCEPT ![w].request = TRUE]
            /\ ctx' = [ctx EXCEPT ![w].request = TRUE]
            /\ Goto(w, "handle")
            /\ UNCHANGED <<cmd, reply, inner, pending>>
    /\ UNCHANGED <<database, outside, history, faults>>

\* A database call fails before the inner command runs.  A retry of the strategy gets
\* no transaction while the failed one is current, so the exception leaves the behaviour.
BeginFails(w) ==
    /\ pc[w] \in {"begin", "insert"}
    /\ Fault
    /\ EndScope(w)
    /\ UNCHANGED <<database, outside, history>>

-----------------------------------------------------------------------------
(* The handlers of the commands that change an order's status. *)

\* OrderRepository.GetAsync: the tracked order, else the committed row.
Found(w) == IF ctx[w].order # NoRow THEN ctx[w].order ELSE orders[cmd[w].order]

\* The command returns `result`, its transaction goes on to the commit.
Return(w, result, completed) ==
    /\ reply' = [reply EXCEPT ![w] = result]
    /\ inner' = [inner EXCEPT ![w] = completed]
    /\ Goto(w, "commit")

\* No such order: the handler returns false.
OrderMissing(w) ==
    /\ pc[w] = "handle" /\ cmd[w].op \in StatusOp
    /\ Found(w) = NoRow
    /\ Return(w, FALSE, FALSE)
    /\ UNCHANGED <<database, outside, cmd, ctx, tx, pending, history, faults>>

\* Mutant of MissesBuyer: only OrderCancelledDomainEventHandler needs the buyer.
MissesBuyerMutant(op, row) == op = "Cancel" /\ Raises(op, row.status) /\ ~row.buyer

\* Every handler of the status-change events reads order.GetBuyerId.Value.
MissesBuyer(op, row) == Raises(op, row.status) /\ ~row.buyer

\* The domain method, the domain event handler's AddAndSaveEventAsync, SaveChanges.
SetStatus(w) ==
    LET op == cmd[w].op  row == Found(w)  new == NewStatus(op, row.status)
    IN  /\ pc[w] = "handle" /\ op \in StatusOp
        /\ row # NoRow
        /\ ~Throws(op, row.status)
        /\ ~MissesBuyer(op, row)
        /\ ctx' = [ctx EXCEPT ![w].order = [row EXCEPT !.status = new]]
        /\ tx' = [tx EXCEPT ![w].order = (new # row.status),
                            ![w].events = IF Raises(op, row.status)
                                          THEN <<<<new, cmd[w].order>>>> ELSE <<>>]
        /\ Return(w, TRUE, TRUE)
        /\ UNCHANGED <<database, outside, cmd, pending, history, faults>>

\* An exception out of the handler.  IdentifiedCommandHandler swallows it and
\* returns false; the entities stay as they are in the change tracker.
HandlerThrows(w, row, dirty) ==
    /\ IF Identified(w)
       THEN /\ ctx' = [ctx EXCEPT ![w].order = row, ![w].dirty = dirty]
            /\ Return(w, FALSE, FALSE)
            /\ UNCHANGED <<cmd, tx, pending>>
       ELSE EndScope(w)
    /\ UNCHANGED <<database, outside, history>>

\* The domain method refuses, a domain event handler misses the buyer, or a
\* database call fails and leaves the transaction usable: before the domain
\* method was called, or after it (`changed`).
SetStatusThrows(w) ==
    LET op == cmd[w].op  row == Found(w)
        changed == [row EXCEPT !.status = NewStatus(op, row.status)]
    IN  /\ pc[w] = "handle" /\ op \in StatusOp
        /\ row # NoRow
        /\ \/ /\ Throws(op, row.status)
              /\ HandlerThrows(w, row, FALSE)
              /\ UNCHANGED faults
           \/ /\ MissesBuyer(op, row)
              /\ HandlerThrows(w, changed, TRUE)
              /\ UNCHANGED faults
           \/ Fault /\ HandlerThrows(w, row, FALSE)
           \/ Fault /\ Acts(op, row.status) /\ HandlerThrows(w, changed, TRUE)

-----------------------------------------------------------------------------
(* CreateOrderCommandHandler and the handlers of OrderStartedDomainEvent. *)

\* The hilo sequence hands out an id once.
Unused(o) == /\ orders[o] = NoRow
             /\ \A v \in Workers : cmd[v].op = "Create" => cmd[v].order # o

\* OrderStarted is saved, the order is added, its buyer is found or created, and
\* OrderStatusChangedToSubmitted is saved.
CreateOrder(w) ==
    /\ pc[w] = "handle" /\ cmd[w].op = "Create"
    /\ \E o \in Orders :
          /\ Unused(o)
          /\ cmd' = [cmd EXCEPT ![w].order = o]
          /\ tx' = [tx EXCEPT ![w].order = TRUE,
                              ![w].events = <<OrderStarted, <<Submitted, o>>>>]
    /\ ctx' = [ctx EXCEPT ![w].order = [status |-> Submitted, buyer |-> TRUE]]
    /\ Return(w, TRUE, TRUE)
    /\ UNCHANGED <<database, outside, pending, history, faults>>

\* ValidatorBehavior throws: no items, or an expired card.
CreateOrderInvalid(w) ==
    /\ pc[w] = "handle" /\ cmd[w].op = "Create"
    /\ Return(w, FALSE, FALSE)
    /\ UNCHANGED <<database, outside, cmd, ctx, tx, pending, history, faults>>

\* A database call fails half way and leaves the transaction usable: the key of the
\* order cannot be fetched; the buyer cannot be looked up when the order is already
\* tracked; the order and its buyer are saved, the Submitted event is not (left out: its
\* log entry, still tracked, is inserted by the next status update and never published).
CreateOrderThrows(w) ==
    /\ pc[w] = "handle" /\ cmd[w].op = "Create"
    /\ Fault
    /\ \/ /\ tx' = [tx EXCEPT ![w].events = <<OrderStarted>>]
          /\ UNCHANGED <<cmd, ctx>>
       \/ \E o \in Orders, buyer \in BOOLEAN :
             /\ Unused(o)
             /\ cmd' = [cmd EXCEPT ![w].order = o]
             /\ tx' = [tx EXCEPT ![w].order = buyer, ![w].events = <<OrderStarted>>]
             /\ ctx' = [ctx EXCEPT ![w].order = [status |-> Submitted, buyer |-> buyer],
                                   ![w].dirty = ~buyer]
    /\ Return(w, FALSE, FALSE)
    /\ UNCHANGED <<database, outside, pending, history>>

-----------------------------------------------------------------------------
(* CommitTransactionAsync. *)

\* Mutant of LogAfter: the events go with the changes of the order only.
LogAfterMutant(w) ==
    [k \in EventKey |-> IF tx[w].order /\ \E i \in DOMAIN tx[w].events : tx[w].events[i] = k
                        THEN Append(eventLog[k], "NotPublished") ELSE eventLog[k]]

\* SaveEventAsync of the events of the transaction.
LogAfter(w) ==
    [k \in EventKey |-> IF \E i \in DOMAIN tx[w].events : tx[w].events[i] = k
                        THEN Append(eventLog[k], "NotPublished") ELSE eventLog[k]]

\* The tables after the commit: CommitTransactionAsync calls SaveChanges first, which
\* also saves what a handler that failed left behind in the change tracker.
WriteTables(w) ==
    /\ requests' = IF tx[w].request THEN requests \cup {cmd[w].req} ELSE requests
    /\ orders' = IF tx[w].order \/ ctx[w].dirty
                 THEN [orders EXCEPT ![cmd[w].order] = ctx[w].order] ELSE orders
    /\ eventLog' = LogAfter(w)
    /\ executed' = IF Identified(w) /\ inner[w]
                   THEN [executed EXCEPT ![cmd[w].req] = @ + 1] ELSE executed

\* Mutant of SavedEvents: the numbers start at zero.
SavedEventsMutant(w) ==
    [i \in DOMAIN tx[w].events |-> <<tx[w].events[i], Len(eventLog[tx[w].events[i]])>>]

\* The ids of the events the transaction has saved, in the order of their creation.
SavedEvents(w) ==
    [i \in DOMAIN tx[w].events |->
        <<tx[w].events[i], Len(eventLog[tx[w].events[i]]) + 1>>]

\* The commit, and RetrieveEventLogsPendingToPublishAsync for its transaction id.
Commit(w) ==
    /\ pc[w] = "commit"
    /\ WriteTables(w)
    /\ pending' = [pending EXCEPT ![w] = SavedEvents(w)]
    /\ tx' = [tx EXCEPT ![w] = NoWrites]
    /\ ctx' = [ctx EXCEPT ![w].dirty = FALSE]
    /\ Goto(w, "publish")
    /\ UNCHANGED <<outside, cmd, reply, inner, answered, faults>>

\* SaveChanges or the commit fails and the transaction is rolled back.  The execution
\* strategy retries a transient failure with the same DbContext, whose entities count
\* as saved once SaveChanges has accepted them.
CommitFails(w) ==
    /\ pc[w] = "commit"
    /\ Fault
    /\ \/ /\ Goto(w, "begin")
          /\ tx' = [tx EXCEPT ![w] = NoWrites]
          /\ \E accepted \in BOOLEAN :
                ctx' = [ctx EXCEPT ![w].dirty = ctx[w].dirty /\ ~accepted]
          /\ UNCHANGED <<cmd, reply, inner, pending>>
       \/ EndScope(w)
    /\ UNCHANGED <<database, outside, history>>

\* The database commits and the acknowledgement is lost, or the events cannot be read
\* back after the commit: a failure to the strategy, which may run the command again.
CommitAckLost(w) ==
    /\ pc[w] = "commit"
    /\ Fault
    /\ WriteTables(w)
    /\ \/ /\ Goto(w, "begin")
          /\ tx' = [tx EXCEPT ![w] = NoWrites]
          /\ ctx' = [ctx EXCEPT ![w].dirty = FALSE]
          /\ UNCHANGED <<cmd, reply, inner, pending>>
       \/ EndScope(w)
    /\ UNCHANGED <<outside, answered>>

-----------------------------------------------------------------------------
(* PublishEventsThroughEventBusAsync. *)

\* Mutant of UpdateEventStatus: the catch block marks the event as Published.
UpdateEventStatusMutant(w, state) ==
    LET id == Head(pending[w])
    IN  eventLog' = [eventLog EXCEPT ![id[1]][id[2]] =
                        IF state = "PublishedFailed" THEN "Published" ELSE state]

\* UpdateEventStatus of the event being published.
UpdateEventStatus(w, state) ==
    LET id == Head(pending[w])
    IN  eventLog' = [eventLog EXCEPT ![id[1]][id[2]] = state]

MarkInProgress(w) ==
    /\ pc[w] = "publish" /\ pending[w] # <<>>
    /\ UpdateEventStatus(w, "InProgress")
    /\ Goto(w, "send")
    /\ UNCHANGED <<orders, requests, outside, cmd, ctx, tx, reply, inner, pending,
                   history, faults>>

Publish(w) ==
    /\ pc[w] = "send"
    /\ bus' = bus \cup {Head(pending[w])}
    /\ Goto(w, "markPublished")
    /\ UNCHANGED <<database, grace, cmd, ctx, tx, reply, inner, pending, history, faults>>

MarkPublished(w) ==
    /\ pc[w] = "markPublished"
    /\ UpdateEventStatus(w, "Published")
    /\ pending' = [pending EXCEPT ![w] = Tail(@)]
    /\ Goto(w, "publish")
    /\ UNCHANGED <<orders, requests, outside, cmd, ctx, tx, reply, inner, history, faults>>

\* Marking the event or handing it to the broker fails; the loop's catch block.
PublishFails(w) ==
    /\ \/ pc[w] = "publish" /\ pending[w] # <<>>
       \/ pc[w] \in {"send", "markPublished"}
    /\ Fault
    /\ Goto(w, "markFailed")
    /\ UNCHANGED <<database, outside, cmd, ctx, tx, reply, inner, pending, history>>

MarkFailed(w) ==
    /\ pc[w] = "markFailed"
    /\ UpdateEventStatus(w, "PublishedFailed")
    /\ pending' = [pending EXCEPT ![w] = Tail(@)]
    /\ Goto(w, "publish")
    /\ UNCHANGED <<orders, requests, outside, cmd, ctx, tx, reply, inner, history, faults>>

\* An exception out of the catch block leaves the loop; it is still inside the lambda
\* of the execution strategy, which may run the whole command again.
MarkFailedFails(w) ==
    /\ pc[w] = "markFailed"
    /\ Fault
    /\ \/ /\ Goto(w, "begin")
          /\ pending' = [pending EXCEPT ![w] = <<>>]
          /\ UNCHANGED <<cmd, ctx, tx, reply, inner>>
       \/ EndScope(w)
    /\ UNCHANGED <<database, outside, history>>

\* The response goes back to the client, or the message is acknowledged.
Finish(w) ==
    /\ pc[w] = "publish" /\ pending[w] = <<>>
    /\ EndScope(w)
    /\ answered' = IF Identified(w) THEN answered \cup {<<cmd[w].req, reply[w]>>}
                   ELSE answered
    /\ UNCHANGED <<database, outside, executed, faults>>

-----------------------------------------------------------------------------
(* Around the workers. *)

\* GracePeriodManagerService finds the order Submitted and publishes, at every poll.
GracePeriodPoll(o) ==
    /\ orders[o].status = Submitted
    /\ o \notin grace
    /\ grace' = grace \cup {o}
    /\ UNCHANGED <<database, bus, local, history, faults>>

\* Ordering.API dies and is restarted: transactions are rolled back, the publishing of
\* committed events is forgotten.  The broker redelivers what was not acknowledged.
Crash ==
    /\ \E w \in Workers : pc[w] # "idle"
    /\ Fault
    /\ pc' = [w \in Workers |-> "idle"]
    /\ cmd' = [w \in Workers |-> NoCommand]
    /\ ctx' = [w \in Workers |-> EmptyContext]
    /\ tx' = [w \in Workers |-> NoWrites]
    /\ reply' = [w \in Workers |-> FALSE]
    /\ inner' = [w \in Workers |-> FALSE]
    /\ pending' = [w \in Workers |-> <<>>]
    /\ UNCHANGED <<database, outside, history>>

\* The steps a worker takes once it has a command.
Work(w) ==
    \/ Begin(w) \/ InsertRequest(w) \/ BeginFails(w)
    \/ OrderMissing(w) \/ SetStatus(w) \/ SetStatusThrows(w)
    \/ CreateOrder(w) \/ CreateOrderInvalid(w) \/ CreateOrderThrows(w)
    \/ Commit(w) \/ CommitFails(w) \/ CommitAckLost(w)
    \/ MarkInProgress(w) \/ Publish(w) \/ MarkPublished(w)
    \/ PublishFails(w) \/ MarkFailed(w) \/ MarkFailedFails(w)
    \/ Finish(w)

Arrive(w) ==
    \/ ReceiveCheckout(w) \/ ReceiveGracePeriod(w) \/ ReceiveStockAnswer(w)
    \/ ReceivePaymentAnswer(w) \/ ReceiveHttp(w)

Next ==
    \/ \E w \in Workers : Arrive(w) \/ Work(w)
    \/ \E o \in Orders : GracePeriodPoll(o)
    \/ Crash

Spec == Init /\ [][Next]_vars

\* A worker that has a command goes on with it: the thread pool runs every ready
\* continuation, and every database and broker call returns or times out.
Fairness == \A w \in Workers : WF_vars(Work(w))

FairSpec == Spec /\ Fairness

-----------------------------------------------------------------------------
(* Properties *)

\* The type invariant of the tables and of the workers.
TypeOK ==
    /\ orders \in [Orders -> OrderRow]
    /\ requests \subseteq Requests
    /\ eventLog \in [EventKey -> Seq(EventState)]
    /\ bus \subseteq EventId
    /\ grace \subseteq Orders
    /\ pc \in [Workers -> Pc]
    /\ cmd \in [Workers -> Command]
    /\ ctx \in [Workers -> Context]
    /\ tx \in [Workers -> Transaction]
    /\ reply \in [Workers -> BOOLEAN]
    /\ inner \in [Workers -> BOOLEAN]
    /\ pending \in [Workers -> Seq(EventId)]
    /\ answered \subseteq Requests \X BOOLEAN
    /\ executed \in [Requests -> Nat]
    /\ faults \in 0..MaxFaults

Saved(key) == eventLog[key] # <<>>

\* The statuses an order goes through before it can have a status.
Before(status) == CASE status = StockConfirmed -> {AwaitingValidation}
                    [] status = Paid           -> {AwaitingValidation, StockConfirmed}
                    [] status = Shipped        -> {AwaitingValidation, StockConfirmed, Paid}
                    [] OTHER                   -> {}

\* The outbox tells the whole story of an order: whatever commands race, fail or are
\* retried, an order is StockConfirmed, Paid or Shipped only if the events of the steps
\* that lead there have been saved: nobody ships what stock and payment were not told of.
StepsAreSaved ==
    \A o \in Orders : \A s \in Before(orders[o].status) : Saved(<<s, o>>)

\* With one consumer (RabbitMQ) each step of the process is announced at most once per
\* order, whatever HTTP commands interfere: Catalog takes the stock of an order off when
\* it hears of Paid, and the payment service charges when it hears of StockConfirmed.
AnnouncedOnce ==
    \A o \in Orders : \A s \in {AwaitingValidation, StockConfirmed, Paid} :
        Len(eventLog[<<s, o>>]) <= 1

\* IdentifiedCommandHandler: the command of a request id is committed at most once,
\* whatever the number of deliveries, concurrent attempts, crashes and retries.
ExecutedAtMostOnce == \A r \in Requests : executed[r] <= 1

\* Without faults a checkout makes one order and tells Basket of it once, however often and to
\* however many consumers at the same time UserCheckoutAccepted is delivered; one that was
\* refused by the validator makes none, although its request id is recorded like the others.
OneOrderPerCheckout ==
    LET made == {o \in Orders : orders[o] # NoRow}
    IN  /\ Cardinality(made) = Cardinality({r \in CreateRequests : executed[r] > 0})
        /\ Len(eventLog[OrderStarted]) = Cardinality(made)

\* An order without a buyer (CreateOrderThrows) gets stuck before validation: it is never
\* validated, paid or shipped.
NoBuyerNoValidation ==
    \A o \in Orders : ~orders[o].buyer => orders[o].status \in {"none", Submitted, Cancelled}

\* The states of the outbox against the broker: an event marked Published was handed to
\* the broker, one that is NotPublished or about to be handed over was not.
OutboxAgreesWithBus ==
    /\ \A k \in EventKey : \A n \in DOMAIN eventLog[k] :
          /\ eventLog[k][n] = "Published" => <<k, n>> \in bus
          /\ eventLog[k][n] = "NotPublished" => <<k, n>> \notin bus
    /\ \A w \in Workers : pc[w] = "send" => Head(pending[w]) \notin bus

\* The events of Ordering as a transactional outbox: no crash, failure or retry hands
\* over an event of a transaction that did not commit.
SavedIds == UNION {{k} \X DOMAIN eventLog[k] : k \in EventKey}
Outbox   == INSTANCE TransactionalOutbox
                WITH Event <- EventId, saved <- SavedIds, handed <- bus
OutboxPromise == Outbox!Spec

Rank(status) == CASE status = "none"             -> 0
                  [] status = Submitted          -> 1
                  [] status = AwaitingValidation -> 2
                  [] status = StockConfirmed     -> 3
                  [] status = Paid               -> 4
                  [] status = Shipped            -> 5
                  [] status = Cancelled          -> 6

\* With one consumer the row of an order never goes back to a status the process has
\* left: a stale command can cancel, and revive a Cancelled order, but not rewind one.
NeverRewinds ==
    [][\A o \in Orders : \/ orders[o].status = Cancelled
                         \/ Rank(orders'[o].status) >= Rank(orders[o].status)]_vars

\* Every command comes to an end: two attempts of one request id that wait for each
\* other's row, or a retry that starts over for ever, would leave a worker running.
CommandsTerminate == \A w \in Workers : pc[w] # "idle" ~> pc[w] = "idle"

-----------------------------------------------------------------------------
(* What the repository says of the program and the code does not do: each is *)
(* violated by a run of its own.                                             *)

\* Order.cs refuses "to change the order status from" Paid or Shipped to Cancelled.
PaidIsNotCancelled ==
    [][\A o \in Orders : orders[o].status \in {Paid, Shipped}
                              => orders'[o].status # Cancelled]_vars

\* IdentifiedCommandHandler: "Return value of inner command or default value if request
\* same ID was found"; the default value of bool is false.
OkMeansExecuted == \A r \in Requests : <<r, TRUE>> \in answered => executed[r] > 0

\* OrderStartedIntegrationEvent: "An Event is something that has happened in the past".
StartedOrdersExist ==
    Len(eventLog[OrderStarted]) <= Cardinality({o \in Orders : orders[o] # NoRow})

=============================================================================
