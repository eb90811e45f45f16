---------------------------- MODULE CatalogProofs ----------------------------
(***************************************************************************)
(* Catalog: type correctness, the event log as a transactional outbox, and *)
(* the stock of an order taken off as a whole, for any number of requests, *)
(* consumers, products, orders and faults.                                 *)
(***************************************************************************)
EXTENDS Catalog, TLAPS

\* A worker is an administrator's request or a consumer, and where it is says what it has.
AdminControl ==
    \A a \in Admins :
        /\ pc[a] \in AdminPc
        /\ pc[a] \in {"read", "save"} => put[a] \in Put
        /\ pc[a] \in Publishing => event[a] \in DOMAIN eventLog

ConsumerControl ==
    \A c \in Consumers :
        /\ pc[c] \in ConsumerPc
        /\ pc[c] # "idle" => order[c] \in Orders

Typing == TypeOK /\ AdminControl /\ ConsumerControl

\* Rounding a natural number gives a natural number.
LEMMA StoredIsNat == ASSUME NEW price \in Nat PROVE Stored(price) \in Nat
PROOF
  <1>1. price + 5 \in Nat
    OBVIOUS
  <1>2. (price + 5) \div 10 \in Nat
    BY <1>1, SMT
  <1> QED
    BY <1>2 DEF Stored

\* A row written by a request is a row.
LEMMA ItemIsRow == ASSUME NEW price \in Nat, NEW n \in Nat PROVE Item(price, n) \in ItemRow
BY StoredIsNat DEF Item, ItemRow

LEMMA Disjoint == ASSUME NEW a \in Admins, NEW c \in Consumers
                  PROVE  a # c /\ a \in Workers /\ c \in Workers
BY CatalogAssumption DEF Workers

\* The end of a request, of whichever kind.
LEMMA EndRequestTypes ==
    ASSUME Typing, NEW a \in Admins, EndRequest(a)
    PROVE  /\ put' \in [Admins -> Put \cup {NoPut}]
           /\ old' \in [Admins -> Nat]
           /\ event' \in [Admins -> {0} \cup DOMAIN eventLog]
           /\ pc' \in [Workers -> AdminPc \cup ConsumerPc]
           /\ pc'[a] = "idle"
           /\ \A w \in Workers \ {a} : pc'[w] = pc[w]
           /\ \A b \in Admins \ {a} : put'[b] = put[b] /\ event'[b] = event[b]
BY Disjoint DEF EndRequest, Goto, Typing, TypeOK, AdminPc, ConsumerPc, Workers

\* The commit of a PUT: the tables keep their types, and the log grows at its end.
LEMMA WriteProductTypes ==
    ASSUME Typing, NEW a \in Admins, pc[a] = "save", WriteProduct(a)
    PROVE  /\ items' \in [Products -> ItemRow]
           /\ eventLog' \in Seq(EventEntry)
           /\ DOMAIN eventLog \subseteq DOMAIN eventLog'
           /\ PriceChanged(a) => DOMAIN eventLog' = DOMAIN eventLog \cup {NextEvent}
PROOF
  <1>1. put[a] \in Put /\ old[a] \in Nat /\ put[a].price \in Nat /\ put[a].stock \in Nat
    BY CatalogAssumption DEF Typing, TypeOK, AdminControl, Put
  <1>2. items' \in [Products -> ItemRow]
    BY <1>1, ItemIsRow DEF WriteProduct, Typing, TypeOK
  <1>3. PriceEvent(a) \in EventEntry
    BY <1>1 DEF PriceEvent, Entry, EventEntry, EventState, Put
  <1>4. eventLog \in Seq(EventEntry)
    BY DEF Typing, TypeOK
  <1> DEFINE longer == Append(eventLog, PriceEvent(a))
  <1>5. /\ longer \in Seq(EventEntry) /\ Len(longer) = Len(eventLog) + 1
        /\ DOMAIN longer = 1 .. Len(eventLog) + 1
        /\ DOMAIN eventLog = 1 .. Len(eventLog) /\ Len(eventLog) \in Nat
    BY <1>3, <1>4
  <1>6. DOMAIN longer = DOMAIN eventLog \cup {NextEvent} /\ DOMAIN eventLog \subseteq DOMAIN longer
    BY <1>5 DEF NextEvent
  <1>7. eventLog' = IF PriceChanged(a) THEN longer ELSE eventLog
    BY DEF WriteProduct
  <1> QED
    BY <1>2, <1>4, <1>5, <1>6, <1>7

\* Marking an event keeps the log's type and length.
LEMMA UpdateEventStatusTypes ==
    ASSUME Typing, NEW a \in Admins, pc[a] \in Publishing, NEW state \in EventState,
           UpdateEventStatus(a, state)
    PROVE  eventLog' \in Seq(EventEntry) /\ DOMAIN eventLog' = DOMAIN eventLog
PROOF
  <1>1. eventLog \in Seq(EventEntry) /\ event[a] \in DOMAIN eventLog
    BY DEF Typing, TypeOK, AdminControl
  <1>2. eventLog' = [eventLog EXCEPT ![event[a]] = [eventLog[event[a]] EXCEPT !.state = state]]
    BY DEF UpdateEventStatus
  <1>3. eventLog[event[a]] \in EventEntry
    BY <1>1
  <1>4. [eventLog[event[a]] EXCEPT !.state = state] \in EventEntry
    BY <1>3 DEF EventEntry
  <1> QED
    BY <1>1, <1>2, <1>4

\* A longer log leaves what refers to it well typed.
LEMMA LargerLog ==
    ASSUME Typing, DOMAIN eventLog \subseteq DOMAIN eventLog'
    PROVE  bus \in Seq(DOMAIN eventLog') /\ event \in [Admins -> {0} \cup DOMAIN eventLog']
PROOF
  <1>1. bus \in Seq(DOMAIN eventLog)
    BY DEF Typing, TypeOK
  <1>2. \A i \in 1 .. Len(bus) : bus[i] \in DOMAIN eventLog'
    BY <1>1
  <1>3. Len(bus) \in Nat /\ bus = [i \in 1 .. Len(bus) |-> bus[i]]
    BY <1>1
  <1>4. bus \in Seq(DOMAIN eventLog')
    BY <1>2, <1>3
  <1> QED
    BY <1>4 DEF Typing, TypeOK

\* Init is typed.
LEMMA TypingInit == Init => Typing
PROOF
  <1> SUFFICES ASSUME Init PROVE Typing
    OBVIOUS
  <1>1. items \in [Products -> ItemRow]
    <2>1. PICK price \in [Seeded -> Prices], stock \in [Seeded -> Stocks] :
             items = [p \in Products |-> IF p \in Seeded THEN Item(price[p], stock[p]) ELSE Unborn]
      BY DEF Init
    <2>2. \A p \in Seeded : Item(price[p], stock[p]) \in ItemRow
      BY CatalogAssumption, ItemIsRow
    <2>3. Unborn \in ItemRow
      BY DEF Unborn, ItemRow
    <2> QED
      BY <2>1, <2>2, <2>3
  <1>2. eventLog \in Seq(EventEntry) /\ bus \in Seq(DOMAIN eventLog)
    BY DEF Init
  <1>3. \A c \in Consumers : tracked[c] \in [DOMAIN tracked[c] -> Reduction]
    BY DEF Init
  <1> QED
    BY <1>1, <1>2, <1>3, CatalogAssumption
    DEF Init, Typing, TypeOK, AdminControl, ConsumerControl, AdminPc, ConsumerPc, Publishing,
        Workers

\* The steps of an administrator's request.
LEMMA UpdateTyping ==
    ASSUME Typing, NEW a \in Admins, ReceivePut(a) \/ Update(a)
    PROVE  Typing'
PROOF
  <1> USE DEF requests, handling, tables
  <1>0. faults \in Nat /\ MaxFaults \in Nat
    BY CatalogAssumption DEF Typing, TypeOK
  <1>1. ASSUME DOMAIN eventLog \subseteq DOMAIN eventLog', eventLog' \in Seq(EventEntry),
               items' \in [Products -> ItemRow], EndRequest(a),
               UNCHANGED <<bus, message, handling, taken>>, faults' \in 0 .. MaxFaults
        PROVE  Typing'
    <2>1. bus' \in Seq(DOMAIN eventLog') /\ event' \in [Admins -> {0} \cup DOMAIN eventLog']
      BY <1>1, LargerLog, EndRequestTypes
    <2>2. TypeOK'
      BY <1>1, <2>1, EndRequestTypes DEF Typing, TypeOK
    <2>3. AdminControl'
      BY <1>1, EndRequestTypes DEF Typing, AdminControl, Workers, AdminPc, Publishing
    <2>4. ConsumerControl'
      BY <1>1, EndRequestTypes, Disjoint DEF Typing, ConsumerControl
    <2> QED
      BY <2>2, <2>3, <2>4 DEF Typing
  <1>2. ASSUME NEW label \in AdminPc, Goto(a, label), items' \in [Products -> ItemRow],
               DOMAIN eventLog \subseteq DOMAIN eventLog', eventLog' \in Seq(EventEntry),
               bus' \in Seq(DOMAIN eventLog'), put' \in [Admins -> Put \cup {NoPut}],
               old' \in [Admins -> Nat], event' \in [Admins -> {0} \cup DOMAIN eventLog'],
               \A b \in Admins \ {a} : put'[b] = put[b] /\ event'[b] = event[b],
               label \in {"read", "save"} => put'[a] \in Put,
               label \in Publishing => event'[a] \in DOMAIN eventLog',
               UNCHANGED <<message, handling, taken>>, faults' \in 0 .. MaxFaults
        PROVE  Typing'
    <2>1. /\ pc' \in [Workers -> AdminPc \cup ConsumerPc] /\ pc'[a] = label
          /\ \A w \in Workers \ {a} : pc'[w] = pc[w]
      BY <1>2 DEF Goto, Typing, TypeOK, Workers
    <2>2. TypeOK'
      BY <1>2, <2>1 DEF Typing, TypeOK
    <2>3. AdminControl'
      BY <1>2, <2>1 DEF Typing, AdminControl, Workers
    <2>4. ConsumerControl'
      BY <1>2, <2>1, Disjoint DEF Typing, ConsumerControl
    <2> QED
      BY <2>2, <2>3, <2>4 DEF Typing
  <1>3. CASE ReceivePut(a)
    <2>1. PICK p \in Products, price \in Prices, n \in Stocks :
             put' = [put EXCEPT ![a] = [product |-> p, price |-> price, stock |-> n]]
      BY <1>3 DEF ReceivePut
    <2>2. /\ put' \in [Admins -> Put \cup {NoPut}] /\ put'[a] \in Put
          /\ \A b \in Admins \ {a} : put'[b] = put[b]
      BY <2>1 DEF Typing, TypeOK, Put
    <2> QED
      BY <1>2, <1>3, <2>2 DEF ReceivePut, Typing, TypeOK, AdminPc, Publishing
  <1>4. CASE ReadOldPrice(a)
    <2>1. CASE Present(put[a].product)
      <3>1. put[a] \in Put /\ put[a].product \in Products
        BY <1>4 DEF ReadOldPrice, Typing, AdminControl, Put
      <3>2. items[put[a].product].price \in Nat
        BY <3>1 DEF Typing, TypeOK, ItemRow
      <3>3. old' \in [Admins -> Nat]
        BY <1>4, <2>1, <3>2 DEF ReadOldPrice, Typing, TypeOK
      <3> QED
        BY <1>2, <1>4, <2>1, <3>1, <3>3 DEF ReadOldPrice, Typing, TypeOK, AdminPc, Publishing
    <2>2. CASE ~Present(put[a].product)
      BY <1>1, <1>4, <2>2 DEF ReadOldPrice, Typing, TypeOK
    <2> QED
      BY <2>1, <2>2
  <1>5. CASE SaveProduct(a)
    <2>1. pc[a] = "save" /\ WriteProduct(a)
      BY <1>5 DEF SaveProduct
    <2>2. CASE PriceChanged(a)
      <3>1. /\ event' = [event EXCEPT ![a] = NextEvent]
            /\ NextEvent \in DOMAIN eventLog' /\ Goto(a, "publish")
            /\ UNCHANGED <<bus, put, old, message, handling, taken, faults>>
        BY <1>5, <2>1, <2>2, WriteProductTypes DEF SaveProduct
      <3>2. /\ event' \in [Admins -> {0} \cup DOMAIN eventLog'] /\ event'[a] \in DOMAIN eventLog'
            /\ \A b \in Admins \ {a} : event'[b] = event[b]
            /\ bus' \in Seq(DOMAIN eventLog')
        BY <2>1, <3>1, WriteProductTypes, LargerLog DEF Typing, TypeOK
      <3> QED
        BY <1>2, <2>1, <3>1, <3>2, WriteProductTypes DEF Typing, TypeOK, AdminPc, Publishing
    <2>3. CASE ~PriceChanged(a)
      BY <1>1, <1>5, <2>1, <2>3, WriteProductTypes DEF SaveProduct, Typing, TypeOK
    <2> QED
      BY <2>2, <2>3
  <1>6. CASE SaveProductGone(a)
    BY <1>1, <1>6 DEF SaveProductGone, Typing, TypeOK
  <1>7. CASE ProductFails(a)
    <2>1. faults' \in 0 .. MaxFaults
      BY <1>0, <1>7 DEF ProductFails, Fault
    <2> QED
      BY <1>1, <1>7, <2>1 DEF ProductFails, Typing, TypeOK
  <1>8. CASE SaveProductAckLost(a)
    <2>1. pc[a] = "save" /\ WriteProduct(a) /\ faults' \in 0 .. MaxFaults
      BY <1>0, <1>8 DEF SaveProductAckLost, Fault
    <2>2. CASE PriceChanged(a)
      BY <1>1, <1>8, <2>1, <2>2, WriteProductTypes DEF SaveProductAckLost
    <2>3. CASE ~PriceChanged(a)
      <3>1. UNCHANGED <<eventLog, bus, message, pc, requests, handling, taken>>
        BY <1>8, <2>1, <2>3 DEF SaveProductAckLost, WriteProduct
      <3> QED
        BY <2>1, <3>1, WriteProductTypes DEF Typing, TypeOK, AdminControl, ConsumerControl
    <2> QED
      BY <2>2, <2>3
  <1>9. CASE MarkInProgress(a)
    <2>1. pc[a] \in Publishing /\ UpdateEventStatus(a, "InProgress")
      BY <1>9 DEF MarkInProgress, Publishing
    <2>2. eventLog' \in Seq(EventEntry) /\ DOMAIN eventLog' = DOMAIN eventLog
      BY <2>1, UpdateEventStatusTypes DEF EventState
    <2> QED
      BY <1>2, <1>9, <2>1, <2>2 DEF MarkInProgress, Typing, TypeOK, AdminControl, AdminPc, Publishing
  <1>10. CASE Publish(a)
    <2>1. event[a] \in DOMAIN eventLog
      BY <1>10 DEF Publish, Typing, AdminControl, Publishing
    <2>2. bus' \in Seq(DOMAIN eventLog')
      BY <1>10, <2>1 DEF Publish, Typing, TypeOK
    <2> QED
      BY <1>2, <1>10, <2>1, <2>2 DEF Publish, Typing, TypeOK, AdminPc, Publishing
  <1>11. CASE MarkPublished(a) \/ MarkFailed(a)
    <2>1. pc[a] \in Publishing /\ \E state \in EventState : UpdateEventStatus(a, state)
      BY <1>11 DEF MarkPublished, MarkFailed, Publishing, EventState
    <2>2. eventLog' \in Seq(EventEntry) /\ DOMAIN eventLog' = DOMAIN eventLog
      BY <2>1, UpdateEventStatusTypes
    <2> QED
      BY <1>1, <1>11, <2>2 DEF MarkPublished, MarkFailed, Typing, TypeOK
  <1>12. CASE PublishFails(a)
    <2>1. faults' \in 0 .. MaxFaults
      BY <1>0, <1>12 DEF PublishFails, Fault
    <2>2. event[a] \in DOMAIN eventLog
      BY <1>12 DEF PublishFails, Typing, AdminControl
    <2> QED
      BY <1>2, <1>12, <2>1, <2>2 DEF PublishFails, Typing, TypeOK, AdminPc, Publishing
  <1>13. CASE MarkFailedFails(a)
    <2>1. faults' \in 0 .. MaxFaults
      BY <1>0, <1>13 DEF MarkFailedFails, Fault
    <2> QED
      BY <1>1, <1>13, <2>1 DEF MarkFailedFails, Typing, TypeOK
  <1> QED
    BY <1>3, <1>4, <1>5, <1>6, <1>7, <1>8, <1>9, <1>10, <1>11, <1>12, <1>13 DEF Update

\* What RemoveStock does to one item: it takes at least one unit and leaves no debt.
LEMMA ReductionTypes ==
    ASSUME Typing, NEW c \in Consumers, pc[c] = "remove", NEW p \in Lines(c), ~Refused(p)
    PROVE  /\ Removed(c, p) \in Nat \ {0}
           /\ items[p].stock - Removed(c, p) \in Nat
PROOF
  <1>1. order[c] \in Orders
    BY DEF Typing, ConsumerControl
  <1>2. p \in Products /\ Units[order[c]][p] \in Nat \ {0}
    BY <1>1, CatalogAssumption DEF Lines
  <1>3. items[p].stock \in Nat /\ items[p].stock # 0
    BY <1>2 DEF Refused, Typing, TypeOK, ItemRow
  <1> QED
    BY <1>2, <1>3 DEF Removed

\* SaveChanges of the reduced items writes rows.
LEMMA WriteStockTypes ==
    ASSUME Typing, NEW c \in Consumers, Reduced(c), WriteStock(c)
    PROVE  items' \in [Products -> ItemRow]
PROOF
  <1>1. ASSUME NEW p \in Products
        PROVE  items'[p] \in ItemRow
    <2>1. items[p] \in ItemRow
      BY DEF Typing, TypeOK
    <2>2. CASE p \in Lines(c)
      <3>1. tracked[c][p] \in Reduction
        BY <2>2 DEF Reduced, Typing, TypeOK
      <3>2. tracked[c][p].left \in Nat
        BY <3>1 DEF Reduction
      <3>3. [items[p] EXCEPT !.stock = tracked[c][p].left] \in ItemRow
        BY <2>1, <3>2 DEF ItemRow
      <3>4. items'[p] = [items[p] EXCEPT !.stock = tracked[c][p].left]
        BY <2>2 DEF WriteStock
      <3> QED
        BY <3>3, <3>4
    <2>3. CASE p \notin Lines(c)
      BY <2>1, <2>3 DEF WriteStock
    <2> QED
      BY <2>2, <2>3
  <1> QED
    BY <1>1 DEF WriteStock

\* The steps of the consumer.
LEMMA TakeStockTyping ==
    ASSUME Typing, NEW c \in Consumers, ReceivePaid(c) \/ TakeStock(c)
    PROVE  Typing'
PROOF
  <1> USE DEF requests, handling, tables
  <1>0. faults \in Nat /\ MaxFaults \in Nat
    BY CatalogAssumption DEF Typing, TypeOK
  <1>1. ASSUME NEW label \in ConsumerPc, Goto(c, label), UNCHANGED <<eventLog, bus, requests>>,
               items' \in [Products -> ItemRow], message' \in [Orders -> {"none", "queued", "acked"}],
               order' \in [Consumers -> Orders \cup {NoOrder}],
               \A d \in Consumers \ {c} : order'[d] = order[d],
               label # "idle" => order'[c] \in Orders,
               DOMAIN tracked' = Consumers, DOMAIN taken' = Orders,
               \A d \in Consumers : tracked'[d] \in [DOMAIN tracked'[d] -> Reduction],
               \A o \in Orders : taken'[o] \in [DOMAIN Units[o] -> Nat], faults' \in 0 .. MaxFaults
        PROVE  Typing'
    <2>1. /\ pc' \in [Workers -> AdminPc \cup ConsumerPc] /\ pc'[c] = label
          /\ \A w \in Workers \ {c} : pc'[w] = pc[w]
      BY <1>1 DEF Goto, Typing, TypeOK, Workers
    <2>2. TypeOK'
      BY <1>1, <2>1 DEF Typing, TypeOK
    <2>3. AdminControl'
      BY <1>1, <2>1, Disjoint DEF Typing, AdminControl
    <2>4. ConsumerControl'
      BY <1>1, <2>1, Disjoint DEF Typing, ConsumerControl, Workers
    <2> QED
      BY <2>2, <2>3, <2>4 DEF Typing
  <1>2. CASE ReceivePaid(c)
    <2>1. PICK o \in Orders : order' = [order EXCEPT ![c] = o]
      BY <1>2 DEF ReceivePaid
    <2>2. /\ order' \in [Consumers -> Orders \cup {NoOrder}] /\ order'[c] \in Orders
          /\ \A d \in Consumers \ {c} : order'[d] = order[d]
      BY <2>1 DEF Typing, TypeOK
    <2> QED
      BY <1>1, <1>2, <2>2 DEF ReceivePaid, Typing, TypeOK, ConsumerPc
  <1>3. CASE RemoveStock(c)
    <2>1. PICK p \in Lines(c) \ DOMAIN tracked[c] :
             /\ ~Refused(p)
             /\ tracked' = [tracked EXCEPT ![c] =
                   [q \in DOMAIN @ \cup {p} |->
                       IF q = p THEN [left |-> items[p].stock - Removed(c, p),
                                      removed |-> Removed(c, p)]
                       ELSE @[q]]]
      BY <1>3 DEF RemoveStock
    <2> DEFINE reduction == [left |-> items[p].stock - Removed(c, p), removed |-> Removed(c, p)]
               longer == [q \in DOMAIN tracked[c] \cup {p} |->
                             IF q = p THEN reduction ELSE tracked[c][q]]
    <2>2. reduction \in Reduction
      BY <1>3, <2>1, ReductionTypes DEF RemoveStock, Reduction
    <2>3. tracked' = [tracked EXCEPT ![c] = longer]
      BY <2>1
    <2>4. longer \in [DOMAIN longer -> Reduction]
      BY <2>2 DEF Typing, TypeOK
    <2> HIDE DEF longer
    <2>5. DOMAIN tracked' = Consumers
          /\ \A d \in Consumers : tracked'[d] \in [DOMAIN tracked'[d] -> Reduction]
      BY <2>3, <2>4 DEF Typing, TypeOK
    <2>6. UNCHANGED <<items, eventLog, bus, message, pc, put, old, event, order, taken, faults>>
      BY <1>3 DEF RemoveStock
    <2> QED
      BY <2>5, <2>6 DEF Typing, TypeOK, AdminControl, ConsumerControl
  <1>4. CASE SaveStock(c)
    <2>1. pc[c] = "remove" /\ Reduced(c) /\ WriteStock(c) /\ order[c] \in Orders
      BY <1>4 DEF SaveStock, Typing, ConsumerControl
    <2>2. DOMAIN taken' = Orders
          /\ \A o \in Orders : taken'[o] \in [DOMAIN Units[o] -> Nat]
      <3>1. \A p \in DOMAIN Units[order[c]] : tracked[c][p].removed \in Nat
        BY <2>1 DEF Reduced, Lines, Typing, TypeOK, Reduction
      <3> QED
        BY <1>4, <2>1, <3>1 DEF SaveStock, Typing, TypeOK
    <2> QED
      BY <1>1, <1>4, <2>1, <2>2, WriteStockTypes DEF SaveStock, Typing, TypeOK, ConsumerPc
  <1>5. CASE SaveStockAckLost(c)
    <2>1. items' \in [Products -> ItemRow] /\ faults' \in 0 .. MaxFaults
      BY <1>0, <1>5, WriteStockTypes DEF SaveStockAckLost, Fault
    <2> QED
      BY <1>5, <2>1 DEF SaveStockAckLost, Typing, TypeOK, AdminControl, ConsumerControl
  <1>6. CASE HandlerThrows(c)
    <2>1. faults' \in 0 .. MaxFaults
      BY <1>0, <1>6 DEF HandlerThrows, Fault, Typing, TypeOK
    <2>2. order[c] \in Orders
      BY <1>6 DEF HandlerThrows, Typing, ConsumerControl
    <2> QED
      BY <1>1, <1>6, <2>1, <2>2 DEF HandlerThrows, Typing, TypeOK, ConsumerPc
  <1>7. CASE Ack(c)
    <2>1. DOMAIN tracked' = Consumers
          /\ \A d \in Consumers : tracked'[d] \in [DOMAIN tracked'[d] -> Reduction]
      BY <1>7 DEF Ack, Typing, TypeOK
    <2>2. /\ order' \in [Consumers -> Orders \cup {NoOrder}]
          /\ \A d \in Consumers \ {c} : order'[d] = order[d]
          /\ message' \in [Orders -> {"none", "queued", "acked"}]
      BY <1>7 DEF Ack, Typing, TypeOK
    <2> QED
      BY <1>1, <1>7, <2>1, <2>2 DEF Ack, Typing, TypeOK, ConsumerPc
  <1> QED
    BY <1>2, <1>3, <1>4, <1>5, <1>6, <1>7 DEF TakeStock

\* The other steps.
LEMMA OtherTyping ==
    ASSUME Typing,
           \/ \E p \in Products, price \in Prices : CreateProduct(p, price)
           \/ \E p \in Products : DeleteProduct(p)
           \/ \E o \in Orders : OrderPaid(o)
           \/ Crash
           \/ UNCHANGED vars
    PROVE  Typing'
PROOF
  <1> USE DEF requests, handling, tables
  <1>1. CASE \E p \in Products, price \in Prices : CreateProduct(p, price)
    <2>1. items' \in [Products -> ItemRow]
      BY <1>1, CatalogAssumption, ItemIsRow DEF CreateProduct, Typing, TypeOK
    <2> QED
      BY <1>1, <2>1 DEF CreateProduct, Typing, TypeOK, AdminControl, ConsumerControl
  <1>2. CASE \E p \in Products : DeleteProduct(p)
    <2>1. items' \in [Products -> ItemRow]
      BY <1>2 DEF DeleteProduct, Deleted, ItemRow, Typing, TypeOK
    <2> QED
      BY <1>2, <2>1 DEF DeleteProduct, Typing, TypeOK, AdminControl, ConsumerControl
  <1>3. CASE \E o \in Orders : OrderPaid(o)
    BY <1>3 DEF OrderPaid, Typing, TypeOK, AdminControl, ConsumerControl
  <1>4. CASE Crash
    <2>1. faults' \in 0 .. MaxFaults
      BY <1>4, CatalogAssumption DEF Crash, Fault, Typing, TypeOK
    <2>2. \A c \in Consumers : tracked'[c] \in [DOMAIN tracked'[c] -> Reduction]
      BY <1>4 DEF Crash
    <2>3. TypeOK'
      BY <1>4, <2>1, <2>2 DEF Crash, Typing, TypeOK, AdminPc, ConsumerPc
    <2>4. \A w \in Workers : pc'[w] = "idle"
      BY <1>4 DEF Crash
    <2> QED
      BY <2>3, <2>4 DEF Typing, AdminControl, ConsumerControl, Workers, AdminPc, ConsumerPc, Publishing
  <1>5. CASE UNCHANGED vars
    BY <1>5 DEF vars, Typing, TypeOK, AdminControl, ConsumerControl
  <1> QED
    BY <1>1, <1>2, <1>3, <1>4, <1>5

LEMMA TypingStep == Typing /\ [Next]_vars => Typing'
BY UpdateTyping, TakeStockTyping, OtherTyping DEF Next

LEMMA TypingInvariant == Spec => []Typing
BY TypingInit, TypingStep, PTL DEF Spec

\* Types hold, and among them: no stock is ever negative, and what is handed to the broker
\* or about to be handed over is in the log.
THEOREM TypeCorrect == Spec => []TypeOK
PROOF
  <1>1. Typing => TypeOK
    BY DEF Typing
  <1> QED
    BY <1>1, TypingInvariant, PTL

-----------------------------------------------------------------------------

\* One step of the handler takes from all items of its order or from none.
LEMMA StockStep == Typing /\ StockAllOrNothing /\ [Next]_vars => StockAllOrNothing'
PROOF
  <1> SUFFICES ASSUME Typing, StockAllOrNothing, [Next]_vars
               PROVE  StockAllOrNothing'
    OBVIOUS
  <1>1. CASE UNCHANGED taken
    BY <1>1 DEF StockAllOrNothing
  <1>2. ASSUME NEW c \in Consumers, SaveStock(c)
        PROVE  StockAllOrNothing'
    <2> DEFINE o == order[c]
    <2>1. o \in Orders /\ Reduced(c)
      BY <1>2 DEF SaveStock, Typing, ConsumerControl
    <2>2. taken' = [taken EXCEPT ![o] = [p \in DOMAIN taken[o] |-> taken[o][p] + tracked[c][p].removed]]
      BY <1>2 DEF SaveStock
    <2>3. taken[o] \in [DOMAIN Units[o] -> Nat]
      BY <2>1 DEF Typing, TypeOK
    <2>4. \A p \in DOMAIN Units[o] : tracked[c][p].removed \in Nat \ {0}
      BY <2>1 DEF Reduced, Lines, Typing, TypeOK, Reduction
    <2>5. taken'[o] = [p \in DOMAIN taken[o] |-> taken[o][p] + tracked[c][p].removed]
      BY <2>1, <2>2 DEF Typing, TypeOK
    <2>6. ASSUME NEW p \in DOMAIN Units[o]
          PROVE  taken'[o][p] > 0
      <3>1. taken[o][p] \in Nat /\ tracked[c][p].removed \in Nat \ {0}
        BY <2>3, <2>4
      <3>2. taken'[o][p] = taken[o][p] + tracked[c][p].removed
        BY <2>3, <2>5
      <3> QED
        BY <3>1, <3>2
    <2>7. \A q \in Orders \ {o} : taken'[q] = taken[q]
      BY <2>2 DEF Typing, TypeOK
    <2> QED
      BY <2>6, <2>7 DEF StockAllOrNothing
  <1>3. (\E c \in Consumers : SaveStock(c)) \/ UNCHANGED taken
    BY DEF Next, CreateProduct, DeleteProduct, ReceivePut, Update, ReadOldPrice, SaveProduct,
           SaveProductGone, ProductFails, SaveProductAckLost, MarkInProgress, Publish,
           MarkPublished, PublishFails, MarkFailed, MarkFailedFails, OrderPaid, ReceivePaid,
           TakeStock, RemoveStock, SaveStockAckLost, HandlerThrows, Ack, Crash, vars
  <1> QED
    BY <1>1, <1>2, <1>3

\* The stock of a paid order is taken off for all of its items or for none, for any orders,
\* any number of consumers, deliveries and faults, and whatever administrators do.
THEOREM StockTakenTogether == Spec => []StockAllOrNothing
PROOF
  <1>1. Init => StockAllOrNothing
    BY DEF Init, StockAllOrNothing
  <1> QED
    BY <1>1, StockStep, TypingInvariant, PTL DEF Spec

-----------------------------------------------------------------------------

\* Only Publish hands an event over.
LEMMA OnlyPublishHandsOver == [Next]_vars => UNCHANGED bus \/ \E a \in Admins : Publish(a)
BY DEF Next, CreateProduct, DeleteProduct, ReceivePut, Update, ReadOldPrice, SaveProduct,
       SaveProductGone, ProductFails, SaveProductAckLost, MarkInProgress, MarkPublished,
       PublishFails, MarkFailed, MarkFailedFails, OrderPaid, ReceivePaid, TakeStock,
       RemoveStock, SaveStock, SaveStockAckLost, HandlerThrows, Ack, Crash, vars

\* The log only grows.
LEMMA LogGrows == Typing /\ [Next]_vars => DOMAIN eventLog \subseteq DOMAIN eventLog'
PROOF
  <1> SUFFICES ASSUME Typing, [Next]_vars
               PROVE  DOMAIN eventLog \subseteq DOMAIN eventLog'
    OBVIOUS
  <1> USE DEF tables
  <1>1. ASSUME NEW a \in Admins, SaveProduct(a) \/ SaveProductAckLost(a)
        PROVE  DOMAIN eventLog \subseteq DOMAIN eventLog'
    BY <1>1, WriteProductTypes DEF SaveProduct, SaveProductAckLost
  <1>2. ASSUME NEW a \in Admins, MarkInProgress(a) \/ MarkPublished(a) \/ MarkFailed(a)
        PROVE  DOMAIN eventLog \subseteq DOMAIN eventLog'
    <2>1. pc[a] \in Publishing /\ \E state \in EventState : UpdateEventStatus(a, state)
      BY <1>2 DEF MarkInProgress, MarkPublished, MarkFailed, Publishing, EventState
    <2> QED
      BY <2>1, UpdateEventStatusTypes
  <1>3. \/ UNCHANGED eventLog
        \/ \E a \in Admins : \/ SaveProduct(a) \/ SaveProductAckLost(a) \/ MarkInProgress(a)
                             \/ MarkPublished(a) \/ MarkFailed(a)
    BY DEF Next, CreateProduct, DeleteProduct, ReceivePut, Update, ReadOldPrice,
           SaveProductGone, ProductFails, Publish, PublishFails, MarkFailedFails, OrderPaid,
           ReceivePaid, TakeStock, RemoveStock, SaveStock, SaveStockAckLost, HandlerThrows, Ack,
           Crash, vars
  <1> QED
    BY <1>1, <1>2, <1>3

\* Every step of Catalog is a step of the outbox or changes nothing of it.
LEMMA OutboxStep ==
    ASSUME Typing, Typing', [Next]_vars
    PROVE  [Outbox!Next]_(Outbox!vars)
PROOF
  <1>1. DOMAIN eventLog \subseteq DOMAIN eventLog' /\ DOMAIN eventLog' \in SUBSET Nat
    BY LogGrows DEF Typing, TypeOK
  <1>2. CASE UNCHANGED bus
    BY <1>1, <1>2 DEF Outbox!Next, Outbox!Save
  <1>3. CASE \E a \in Admins : Publish(a)
    <2>1. PICK a \in Admins : Publish(a)
      BY <1>3
    <2>2. event[a] \in DOMAIN eventLog /\ UNCHANGED eventLog /\ bus' = Append(bus, event[a])
      BY <2>1 DEF Publish, tables, Typing, AdminControl, Publishing
    <2>3. bus \in Seq(DOMAIN eventLog)
      BY DEF Typing, TypeOK
    <2>4. Range(bus') = Range(bus) \cup {event[a]}
      <3>1. /\ DOMAIN bus' = DOMAIN bus \cup {Len(bus) + 1}
            /\ bus'[Len(bus) + 1] = event[a]
            /\ \A i \in DOMAIN bus : bus'[i] = bus[i]
        BY <2>2, <2>3
      <3> QED
        BY <3>1 DEF Range
    <2>5. CASE event[a] \in Range(bus)
      BY <2>2, <2>4, <2>5 DEF Outbox!vars
    <2>6. CASE event[a] \notin Range(bus)
      BY <2>2, <2>4, <2>6 DEF Outbox!Next, Outbox!HandOver
    <2> QED
      BY <2>5, <2>6
  <1> QED
    BY <1>2, <1>3, OnlyPublishHandsOver

\* The price events are a transactional outbox: what reaches the broker was saved with the
\* price it announces before, whatever fails between the two.
THEOREM CatalogIsAnOutbox == Spec => OutboxPromise
PROOF
  <1>1. Init => Outbox!Init
    BY DEF Init, Outbox!Init, Range
  <1> QED
    BY <1>1, OutboxStep, TypingInvariant, PTL DEF Spec, OutboxPromise, Outbox!Spec

-----------------------------------------------------------------------------
(* One administrator at a time: the chain of price events. *)

OneAdmin == \A a, b \in Admins : a = b

\* The column has rounded every price.
Rounded == \A p \in Products : Present(p) => Stored(items[p].price) = items[p].price

\* An event is about a product that has been created.
Born == \A i \in DOMAIN eventLog : items[eventLog[i].product].state # "unborn"

\* What an administrator has read is what is in the table.
Reads == \A a \in Admins : pc[a] = "save" =>
            /\ items[put[a].product].state # "unborn"
            /\ Present(put[a].product) => old[a] = items[put[a].product].price

Chained == Rounded /\ Born /\ Reads /\ EventsChain

LEMMA EntryTypes ==
    ASSUME Typing, NEW i \in DOMAIN eventLog
    PROVE  eventLog[i].product \in Products /\ eventLog[i].new \in Nat /\ eventLog[i].old \in Nat
PROOF
  <1>1. eventLog[i] \in EventEntry
    BY DEF Typing, TypeOK
  <1> QED
    BY <1>1, CatalogAssumption DEF EventEntry

LEMMA StoredTwice == ASSUME NEW price \in Nat PROVE Stored(Stored(price)) = Stored(price)
PROOF
  <1> DEFINE cents == (price + 5) \div 10
  <1>1. cents \in Nat
    BY SMT
  <1> HIDE DEF cents
  <1>2. (cents * 10 + 5) \div 10 = cents
    BY <1>1, SMT
  <1> QED
    BY <1>2 DEF Stored, cents

\* Steps that append no event and give no product that had one a price.
LEMMA ChainSame ==
    ASSUME Typing, Chained, Len(eventLog') = Len(eventLog), DOMAIN eventLog' = DOMAIN eventLog,
           \A i \in DOMAIN eventLog : /\ eventLog'[i].product = eventLog[i].product
                                      /\ eventLog'[i].new = eventLog[i].new
                                      /\ eventLog'[i].old = eventLog[i].old,
           \A p \in Products :
              \/ items'[p].state = items[p].state /\ items'[p].price = items[p].price
              \/ items'[p].state = "deleted"
              \/ /\ items[p].state = "unborn" /\ items'[p].state = "present"
                 /\ Stored(items'[p].price) = items'[p].price
    PROVE  Rounded' /\ Born' /\ EventsChain'
PROOF
  <1>1. \A i \in DOMAIN eventLog : eventLog[i].product \in Products
    BY EntryTypes
  <1>2. Rounded'
    BY DEF Chained, Rounded, Present
  <1>3. Born'
    BY <1>1 DEF Chained, Born
  <1>4. ASSUME NEW i \in DOMAIN eventLog, NEW n, LatestBefore(i, n)'
        PROVE  LatestBefore(i, n)
    BY <1>4 DEF LatestBefore
  <1>5. ASSUME NEW i \in DOMAIN eventLog, items'[eventLog[i].product].state = "present"
        PROVE  /\ items[eventLog[i].product].state = "present"
               /\ items'[eventLog[i].product].price = items[eventLog[i].product].price
    <2>1. items[eventLog[i].product].state # "unborn"
      BY DEF Chained, Born
    <2> QED
      BY <1>1, <1>5, <2>1
  <1>7. ASSUME NEW i \in DOMAIN eventLog, NEW j \in DOMAIN eventLog,
               eventLog[j].product = eventLog[i].product, LatestBefore(i, j)'
        PROVE  eventLog[j].old = Stored(eventLog[i].new)
    BY <1>4, <1>7 DEF Chained, EventsChain
  <1>8. ASSUME NEW i \in DOMAIN eventLog, NEW n, n = Len(eventLog) + 1,
               items'[eventLog[i].product].state = "present", LatestBefore(i, n)'
        PROVE  items'[eventLog[i].product].price = Stored(eventLog[i].new)
    <2>1. LatestBefore(i, n)
      BY <1>4, <1>8
    <2> QED
      BY <1>5, <1>8, <2>1 DEF Chained, EventsChain, Present
  <1> QED
    BY <1>2, <1>3, <1>7, <1>8 DEF EventsChain, Present

\* The write of a PUT, with or without an event.
LEMMA ChainWrite ==
    ASSUME Typing, Chained, NEW a \in Admins, pc[a] = "save", WriteProduct(a)
    PROVE  /\ Rounded' /\ Born' /\ EventsChain'
           /\ items'[put[a].product].state = "present"
           /\ ~PriceChanged(a) => old[a] = items'[put[a].product].price
PROOF
  <1> DEFINE p == put[a].product
             new == put[a].price
             n == Len(eventLog) + 1
  <1>1. p \in Products /\ new \in Nat /\ put[a] \in Put
    BY CatalogAssumption DEF Typing, TypeOK, AdminControl, Put
  <1>2. /\ items'[p].state = "present" /\ items'[p].price = Stored(new)
        /\ \A q \in Products : q # p => items'[q] = items[q]
    BY <1>1 DEF WriteProduct, Item, Typing, TypeOK
  <1>3. items[p].state = "present" /\ old[a] = items[p].price
    BY DEF WriteProduct, Chained, Reads, Present
  <1>4. CASE ~PriceChanged(a)
    <2>1. old[a] = new
      BY <1>4 DEF PriceChanged
    <2>2. items'[p].price = items[p].price
      BY <1>1, <1>2, <1>3, <2>1 DEF Chained, Rounded, Present
    <2>3. UNCHANGED eventLog
      BY <1>4 DEF WriteProduct
    <2> QED
      BY <1>2, <1>3, <2>2, <2>3, ChainSame
  <1>5. CASE PriceChanged(a)
    <2>1. /\ eventLog' = Append(eventLog, PriceEvent(a))
          /\ eventLog \in Seq(EventEntry) /\ Len(eventLog) \in Nat
      BY <1>5 DEF WriteProduct, Typing, TypeOK
    <2>2. /\ DOMAIN eventLog = 1..Len(eventLog) /\ DOMAIN eventLog' = DOMAIN eventLog \cup {n}
          /\ Len(eventLog') = n /\ n \in Nat /\ n \notin DOMAIN eventLog
          /\ \A i \in DOMAIN eventLog : eventLog'[i] = eventLog[i] /\ i < n
          /\ eventLog'[n] = PriceEvent(a)
      BY <2>1
    <2>3. eventLog'[n].product = p /\ eventLog'[n].new = new /\ eventLog'[n].old = old[a]
      BY <2>2 DEF PriceEvent, Entry
    <2> HIDE DEF p, new, n
    <2>4. Rounded'
      BY <1>1, <1>2, StoredTwice DEF Chained, Rounded, Present
    <2>5. Born'
      <3>1. \A i \in DOMAIN eventLog : eventLog[i].product \in Products
        BY EntryTypes
      <3> QED
        BY <1>2, <2>2, <2>3, <3>1 DEF Chained, Born
    <2>6. ASSUME NEW i \in DOMAIN eventLog, NEW j \in DOMAIN eventLog', LatestBefore(i, j)'
          PROVE  LatestBefore(i, j)
      BY <2>2, <2>6 DEF LatestBefore
    <2>7. ASSUME NEW i \in DOMAIN eventLog, NEW j \in DOMAIN eventLog',
                 eventLog'[j].product = eventLog'[i].product, LatestBefore(i, j)'
          PROVE  eventLog'[j].old = Stored(eventLog'[i].new)
      <3>1. eventLog'[i] = eventLog[i] /\ LatestBefore(i, j)
        BY <2>2, <2>6, <2>7
      <3>2. CASE j \in DOMAIN eventLog
        BY <2>2, <2>7, <3>1, <3>2 DEF Chained, EventsChain
      <3>3. CASE j = n
        BY <1>3, <2>3, <2>7, <3>1, <3>3 DEF Chained, EventsChain, Present, n
      <3> QED
        BY <2>2, <3>2, <3>3
    <2>8. ASSUME NEW i, i = n, NEW j \in DOMAIN eventLog', LatestBefore(i, j)'
          PROVE  FALSE
      BY <2>2, <2>8 DEF LatestBefore
    <2>9. ASSUME NEW i \in DOMAIN eventLog, NEW m, m = n + 1,
                 items'[eventLog[i].product].state = "present", LatestBefore(i, m)'
          PROVE  items'[eventLog[i].product].price = Stored(eventLog[i].new)
      <3>1. eventLog[i].product # p /\ eventLog[i].product \in Products
        BY <2>2, <2>3, <2>9, EntryTypes DEF LatestBefore
      <3>2. LatestBefore(i, n)
        BY <2>2, <2>9 DEF LatestBefore
      <3> QED
        BY <1>2, <2>9, <3>1, <3>2 DEF Chained, EventsChain, Present, n
    <2>10. ASSUME NEW i \in DOMAIN eventLog', NEW m, m = n + 1,
                  items'[eventLog'[i].product].state = "present", LatestBefore(i, m)'
           PROVE  items'[eventLog'[i].product].price = Stored(eventLog'[i].new)
      BY <1>2, <2>2, <2>3, <2>9, <2>10
    <2>11. ASSUME NEW i \in DOMAIN eventLog', NEW j \in DOMAIN eventLog',
                  eventLog'[j].product = eventLog'[i].product, LatestBefore(i, j)'
           PROVE  eventLog'[j].old = Stored(eventLog'[i].new)
      BY <2>2, <2>7, <2>8, <2>11
    <2>12. EventsChain'
      BY <2>2, <2>10, <2>11 DEF EventsChain, Present
    <2> QED
      BY <1>2, <1>5, <2>4, <2>5, <2>12 DEF p
  <1> QED
    BY <1>4, <1>5

\* Marking an event changes nothing else of it.
LEMMA MarkKeeps ==
    ASSUME Typing, NEW a \in Admins, MarkInProgress(a) \/ MarkPublished(a) \/ MarkFailed(a)
    PROVE  /\ UNCHANGED items /\ Len(eventLog') = Len(eventLog)
           /\ DOMAIN eventLog' = DOMAIN eventLog
           /\ \A i \in DOMAIN eventLog : /\ eventLog'[i].product = eventLog[i].product
                                         /\ eventLog'[i].new = eventLog[i].new
                                         /\ eventLog'[i].old = eventLog[i].old
PROOF
  <1>1. /\ pc[a] \in Publishing /\ UNCHANGED items
        /\ \E state \in EventState : UpdateEventStatus(a, state)
    BY DEF MarkInProgress, MarkPublished, MarkFailed, Publishing, EventState
  <1>2. PICK state \in EventState : UpdateEventStatus(a, state)
    BY <1>1
  <1>3. eventLog \in Seq(EventEntry) /\ event[a] \in DOMAIN eventLog
    BY <1>1 DEF Typing, TypeOK, AdminControl
  <1>4. eventLog' = [eventLog EXCEPT ![event[a]] = [eventLog[event[a]] EXCEPT !.state = state]]
    BY <1>2 DEF UpdateEventStatus
  <1>5. [eventLog[event[a]] EXCEPT !.state = state].product = eventLog[event[a]].product
        /\ [eventLog[event[a]] EXCEPT !.state = state].new = eventLog[event[a]].new
        /\ [eventLog[event[a]] EXCEPT !.state = state].old = eventLog[event[a]].old
    <2>1. eventLog[event[a]] \in EventEntry
      BY <1>3
    <2> QED
      BY <2>1 DEF EventEntry
  <1> DEFINE marked == [eventLog[event[a]] EXCEPT !.state = state]
  <1> HIDE DEF marked
  <1>6. eventLog' = [eventLog EXCEPT ![event[a]] = marked]
    BY <1>4 DEF marked
  <1>7. /\ Len(eventLog') = Len(eventLog) /\ DOMAIN eventLog' = DOMAIN eventLog
        /\ \A i \in DOMAIN eventLog : i # event[a] => eventLog'[i] = eventLog[i]
        /\ eventLog'[event[a]] = marked
    BY <1>3, <1>6
  <1>8. /\ marked.product = eventLog[event[a]].product
        /\ marked.new = eventLog[event[a]].new /\ marked.old = eventLog[event[a]].old
    BY <1>5 DEF marked
  <1>9. \A i \in DOMAIN eventLog : /\ eventLog'[i].product = eventLog[i].product
                                   /\ eventLog'[i].new = eventLog[i].new
                                   /\ eventLog'[i].old = eventLog[i].old
    <2> TAKE i \in DOMAIN eventLog
    <2>1. CASE i = event[a]
      BY <1>7, <1>8, <2>1
    <2>2. CASE i # event[a]
      BY <1>7, <2>2
    <2> QED
      BY <2>1, <2>2
  <1> QED
    BY <1>1, <1>7, <1>9

\* The stock is all that a paid order changes of a product.
LEMMA StockKeepsPrices ==
    ASSUME Typing, NEW c \in Consumers, UNCHANGED items \/ WriteStock(c), NEW p \in Products
    PROVE  items'[p].state = items[p].state /\ items'[p].price = items[p].price
PROOF
  <1>1. CASE UNCHANGED items
    BY <1>1
  <1>2. CASE WriteStock(c)
    <2>1. items[p] \in ItemRow
      BY DEF Typing, TypeOK
    <2>2. items'[p] = items[p] \/ items'[p] = [items[p] EXCEPT !.stock = tracked[c][p].left]
      BY <1>2 DEF WriteStock
    <2> QED
      BY <2>1, <2>2 DEF ItemRow
  <1> QED
    BY <1>1, <1>2

\* Every step keeps the chain.
LEMMA ChainStep ==
    ASSUME Typing, OneAdmin, Chained, [Next]_vars
    PROVE  Chained'
PROOF
  <1> USE DEF tables, requests, handling
  <1>1. ASSUME UNCHANGED items, DOMAIN eventLog' = DOMAIN eventLog, Len(eventLog') = Len(eventLog),
               \A i \in DOMAIN eventLog : /\ eventLog'[i].product = eventLog[i].product
                                          /\ eventLog'[i].new = eventLog[i].new
                                          /\ eventLog'[i].old = eventLog[i].old
        PROVE  Rounded' /\ Born' /\ EventsChain'
    BY <1>1, ChainSame
  <1>2. ASSUME UNCHANGED <<items, eventLog>>
        PROVE  Rounded' /\ Born' /\ EventsChain'
    BY <1>1, <1>2
  <1>3. ASSUME NEW a \in Admins, Goto(a, "idle") \/ Goto(a, "read") \/ \E l \in Publishing : Goto(a, l)
        PROVE  Reads'
    <2>1. pc'[a] # "save"
      BY <1>3 DEF Goto, Typing, TypeOK, Workers, Publishing
    <2> QED
      BY <2>1 DEF OneAdmin, Reads
  <1>4. ASSUME NEW a \in Admins, SaveProduct(a) \/ SaveProductAckLost(a)
        PROVE  Chained'
    <2>1. pc[a] = "save" /\ WriteProduct(a)
      BY <1>4 DEF SaveProduct, SaveProductAckLost
    <2>2. \/ Goto(a, "idle") \/ Goto(a, "publish")
          \/ ~PriceChanged(a) /\ UNCHANGED <<pc, put, old>>
      BY <1>4 DEF SaveProduct, SaveProductAckLost, EndRequest
    <2>3. CASE ~PriceChanged(a) /\ UNCHANGED <<pc, put, old>>
      BY <2>1, <2>3, ChainWrite DEF OneAdmin, Chained, Reads, Present
    <2>4. CASE Goto(a, "idle") \/ Goto(a, "publish")
      BY <1>3, <2>1, <2>4, ChainWrite DEF Chained, Publishing
    <2> QED
      BY <2>2, <2>3, <2>4
  <1>5. ASSUME NEW a \in Admins, ReadOldPrice(a)
        PROVE  Chained'
    <2>1. CASE Present(put[a].product)
      <3>1. /\ Goto(a, "save") /\ UNCHANGED <<put, items, eventLog>>
            /\ old' = [old EXCEPT ![a] = items[put[a].product].price]
        BY <1>5, <2>1 DEF ReadOldPrice
      <3>2. old'[a] = items[put[a].product].price
        BY <3>1 DEF Typing, TypeOK
      <3>3. Reads'
        BY <2>1, <3>1, <3>2 DEF OneAdmin, Reads, Present
      <3> QED
        BY <1>2, <3>1, <3>3 DEF Chained
    <2>2. CASE ~Present(put[a].product)
      BY <1>2, <1>3, <1>5, <2>2 DEF ReadOldPrice, EndRequest, Chained
    <2> QED
      BY <2>1, <2>2
  <1>6. ASSUME NEW a \in Admins, MarkInProgress(a) \/ MarkPublished(a) \/ MarkFailed(a)
        PROVE  Chained'
    <2>1. Rounded' /\ Born' /\ EventsChain'
      BY <1>1, <1>6, MarkKeeps
    <2>2. Goto(a, "send") \/ Goto(a, "idle")
      BY <1>6 DEF MarkInProgress, MarkPublished, MarkFailed, EndRequest
    <2> QED
      BY <1>3, <2>1, <2>2 DEF Chained, Publishing
  <1>7. ASSUME NEW a \in Admins, ReceivePut(a) \/ SaveProductGone(a) \/ ProductFails(a)
                                  \/ Publish(a) \/ PublishFails(a) \/ MarkFailedFails(a)
        PROVE  Chained'
    <2>1. /\ UNCHANGED <<items, eventLog>>
          /\ \/ Goto(a, "idle") \/ Goto(a, "read") \/ Goto(a, "markPublished")
             \/ Goto(a, "markFailed")
      BY <1>7 DEF ReceivePut, SaveProductGone, ProductFails, Publish, PublishFails,
                  MarkFailedFails, EndRequest
    <2> QED
      BY <1>2, <1>3, <2>1 DEF Chained, Publishing
  <1>8. ASSUME NEW p \in Products, NEW price \in Prices, CreateProduct(p, price)
        PROVE  Chained'
    <2>1. items[p] = Unborn /\ items' = [items EXCEPT ![p] = Item(price, 0)]
          /\ UNCHANGED <<eventLog, pc, put, old>>
      BY <1>8 DEF CreateProduct
    <2>2. items[p].state = "unborn" /\ items'[p].state = "present"
          /\ items'[p].price = Stored(price)
          /\ \A q \in Products : q # p => items'[q] = items[q]
      BY <2>1 DEF Unborn, Item, Typing, TypeOK
    <2>3. Stored(items'[p].price) = items'[p].price
      BY <2>2, CatalogAssumption, StoredTwice
    <2>4. Rounded' /\ Born' /\ EventsChain'
      BY <2>1, <2>2, <2>3, ChainSame
    <2>5. \A a \in Admins : pc[a] = "save" => put[a].product \in Products
      BY DEF Typing, AdminControl, Put
    <2>6. Reads'
      BY <2>1, <2>2, <2>5 DEF Chained, Reads, Present
    <2> QED
      BY <2>4, <2>6 DEF Chained
  <1>9. ASSUME NEW p \in Products, DeleteProduct(p)
        PROVE  Chained'
    <2>1. items' = [items EXCEPT ![p] = Deleted] /\ UNCHANGED <<eventLog, pc, put, old>>
      BY <1>9 DEF DeleteProduct
    <2>2. /\ items'[p].state = "deleted"
          /\ \A q \in Products : q # p => items'[q] = items[q]
      BY <2>1 DEF Deleted, Typing, TypeOK
    <2>3. Rounded' /\ Born' /\ EventsChain'
      BY <2>1, <2>2, ChainSame
    <2>4. \A a \in Admins : pc[a] = "save" => put[a].product \in Products
      BY DEF Typing, AdminControl, Put
    <2>5. Reads'
      BY <2>1, <2>2, <2>4 DEF Chained, Reads, Present
    <2> QED
      BY <2>3, <2>5 DEF Chained
  <1>10. ASSUME \A p \in Products : /\ items'[p].state = items[p].state
                                    /\ items'[p].price = items[p].price,
                UNCHANGED <<eventLog, put, old>>,
                \A a \in Admins : pc'[a] = pc[a]
         PROVE  Chained'
    <2>1. Rounded' /\ Born' /\ EventsChain'
      BY <1>10, ChainSame
    <2>2. \A a \in Admins : pc[a] = "save" => put[a].product \in Products
      BY DEF Typing, AdminControl, Put
    <2>3. Reads'
      BY <1>10, <2>2 DEF Chained, Reads, Present
    <2> QED
      BY <2>1, <2>3 DEF Chained
  <1>11. ASSUME NEW c \in Consumers, NEW l, Goto(c, l)
         PROVE  \A a \in Admins : pc'[a] = pc[a]
    BY <1>11, Disjoint DEF Goto, Typing, TypeOK, Workers
  <1>12. ASSUME NEW c \in Consumers, ReceivePaid(c) \/ TakeStock(c)
         PROVE  Chained'
    <2>1. UNCHANGED <<eventLog, put, old>> /\ (UNCHANGED items \/ WriteStock(c))
      BY <1>12 DEF ReceivePaid, TakeStock, RemoveStock, SaveStock, SaveStockAckLost,
                   HandlerThrows, Ack
    <2>2. UNCHANGED pc \/ \E l \in ConsumerPc : Goto(c, l)
      BY <1>12 DEF ReceivePaid, TakeStock, RemoveStock, SaveStock, SaveStockAckLost,
                   HandlerThrows, Ack, ConsumerPc
    <2>3. \A a \in Admins : pc'[a] = pc[a]
      BY <1>11, <2>2
    <2>4. \A p \in Products : items'[p].state = items[p].state /\ items'[p].price = items[p].price
      BY <2>1, StockKeepsPrices
    <2> QED
      BY <1>10, <2>1, <2>3, <2>4
  <1>13. CASE Crash
    <2>1. \A a \in Admins : pc'[a] # "save"
      BY <1>13 DEF Crash, Workers
    <2>2. UNCHANGED <<items, eventLog>>
      BY <1>13 DEF Crash
    <2> QED
      BY <1>2, <2>1, <2>2 DEF Chained, Reads
  <1>14. CASE (\E o \in Orders : OrderPaid(o)) \/ UNCHANGED vars
    BY <1>10, <1>14 DEF OrderPaid, vars
  <1> QED
    BY <1>4, <1>5, <1>6, <1>7, <1>8, <1>9, <1>12, <1>13, <1>14 DEF Next, Update

\* What a step does to prices and events, as whoever reads them sees it: events stay as
\* they were, and a price that is replaced is the old price of an event.
HistoryKept ==
    /\ \A i \in DOMAIN eventLog : /\ i \in DOMAIN eventLog'
                                  /\ eventLog'[i].product = eventLog[i].product
                                  /\ eventLog'[i].new = eventLog[i].new
                                  /\ eventLog'[i].old = eventLog[i].old
    /\ \A p \in Products : items[p].state = "deleted" => items'[p].state = "deleted"
    /\ \A p \in Products :
          Present(p) => \/ items'[p].state = "deleted"
                        \/ items'[p].state = "present" /\ items'[p].price = items[p].price
                        \/ \E i \in DOMAIN eventLog' : /\ eventLog'[i].product = p
                                                       /\ eventLog'[i].old = items[p].price

\* A step that saves no event: a product is created or deleted, or no price changes.
RowsKept ==
    /\ Len(eventLog') = Len(eventLog) /\ DOMAIN eventLog' = DOMAIN eventLog
    /\ \A i \in DOMAIN eventLog : /\ eventLog'[i].product = eventLog[i].product
                                  /\ eventLog'[i].new = eventLog[i].new
                                  /\ eventLog'[i].old = eventLog[i].old
    /\ \A p \in Products :
          \/ items'[p].state = items[p].state /\ items'[p].price = items[p].price
          \/ Present(p) /\ items'[p].state = "deleted"
          \/ /\ items[p].state = "unborn" /\ items'[p].state = "present"
             /\ \E price \in Prices : items'[p].price = Stored(price)

\* A step that saves a change of the price of p.
ChangeSaved(p) ==
    LET n == Len(eventLog) + 1
        e == eventLog'[n]
    IN  /\ Len(eventLog') = n /\ DOMAIN eventLog' = DOMAIN eventLog \cup {n}
        /\ \A i \in DOMAIN eventLog : eventLog'[i] = eventLog[i]
        /\ Present(p) /\ items'[p].state = "present"
        /\ e.product = p /\ e.old = items[p].price /\ e.new \in Prices /\ e.new # e.old
        /\ items'[p].price = Stored(e.new)
        /\ \A q \in Products : q # p => items'[q] = items[q]

LEMMA PriceStep ==
    Typing /\ OneAdmin /\ Chained /\ [Next]_vars
        => RowsKept \/ \E p \in Products : ChangeSaved(p)
PROOF
  <1> SUFFICES ASSUME Typing, Chained, [Next]_vars
               PROVE  RowsKept \/ \E p \in Products : ChangeSaved(p)
    OBVIOUS
  <1> USE DEF tables
  <1>1. ASSUME Len(eventLog') = Len(eventLog), DOMAIN eventLog' = DOMAIN eventLog,
               \A i \in DOMAIN eventLog : /\ eventLog'[i].product = eventLog[i].product
                                          /\ eventLog'[i].new = eventLog[i].new
                                          /\ eventLog'[i].old = eventLog[i].old,
               \A p \in Products :
                  \/ items'[p].state = items[p].state /\ items'[p].price = items[p].price
                  \/ Present(p) /\ items'[p].state = "deleted"
                  \/ /\ items[p].state = "unborn" /\ items'[p].state = "present"
                     /\ \E price \in Prices : items'[p].price = Stored(price)
        PROVE  RowsKept
    BY <1>1 DEF RowsKept
  <1>2. ASSUME NEW a \in Admins, SaveProduct(a) \/ SaveProductAckLost(a)
        PROVE  RowsKept \/ \E p \in Products : ChangeSaved(p)
    <2> DEFINE p == put[a].product
    <2>1. pc[a] = "save" /\ WriteProduct(a)
      BY <1>2 DEF SaveProduct, SaveProductAckLost
    <2>2. p \in Products /\ put[a].price \in Prices
      BY <2>1 DEF Typing, AdminControl, Put
    <2>3. /\ items[p].state = "present" /\ old[a] = items[p].price
          /\ items'[p].state = "present" /\ items'[p].price = Stored(put[a].price)
          /\ \A q \in Products : q # p => items'[q] = items[q]
      BY <2>1, <2>2 DEF WriteProduct, Chained, Reads, Present, Item, Typing, TypeOK
    <2>4. CASE ~PriceChanged(a)
      <3>1. items'[p].price = items[p].price /\ UNCHANGED eventLog
        BY <2>1, <2>3, <2>4, ChainWrite DEF WriteProduct
      <3> QED
        BY <1>1, <2>3, <3>1
    <2>5. CASE PriceChanged(a)
      <3>1. eventLog' = Append(eventLog, PriceEvent(a)) /\ eventLog \in Seq(EventEntry)
        BY <2>1, <2>5 DEF WriteProduct, Typing, TypeOK
      <3>2. /\ \A i \in DOMAIN eventLog : eventLog'[i] = eventLog[i]
            /\ Len(eventLog') = Len(eventLog) + 1
            /\ DOMAIN eventLog' = DOMAIN eventLog \cup {Len(eventLog) + 1}
            /\ eventLog'[Len(eventLog) + 1] = PriceEvent(a)
        BY <3>1
      <3>3. /\ PriceEvent(a).product = p /\ PriceEvent(a).old = items[p].price
            /\ PriceEvent(a).new = put[a].price /\ PriceEvent(a).new # PriceEvent(a).old
        BY <2>3, <2>5 DEF PriceEvent, Entry, PriceChanged
      <3> HIDE DEF p
      <3>4. ChangeSaved(p)
        BY <2>2, <2>3, <3>2, <3>3 DEF ChangeSaved, Present
      <3> QED
        BY <2>2, <3>4
    <2> QED
      BY <2>4, <2>5
  <1>3. ASSUME NEW a \in Admins, MarkInProgress(a) \/ MarkPublished(a) \/ MarkFailed(a)
        PROVE  RowsKept
    BY <1>1, <1>3, MarkKeeps
  <1>4. ASSUME NEW p \in Products, NEW price \in Prices, CreateProduct(p, price)
        PROVE  RowsKept
    <2>1. UNCHANGED eventLog
      BY <1>4 DEF CreateProduct
    <2>2. /\ items[p].state = "unborn" /\ items'[p].state = "present"
          /\ items'[p].price = Stored(price)
          /\ \A q \in Products : q # p => items'[q] = items[q]
      BY <1>4 DEF CreateProduct, Unborn, Item, Typing, TypeOK
    <2> QED
      BY <1>1, <2>1, <2>2
  <1>5. ASSUME NEW p \in Products, DeleteProduct(p)
        PROVE  RowsKept
    BY <1>1, <1>5 DEF DeleteProduct, Deleted, Typing, TypeOK
  <1>6. ASSUME NEW c \in Consumers, TakeStock(c)
        PROVE  RowsKept
    <2>1. UNCHANGED eventLog /\ (UNCHANGED items \/ WriteStock(c))
      BY <1>6 DEF TakeStock, RemoveStock, SaveStock, SaveStockAckLost, HandlerThrows, Ack
    <2> QED
      BY <1>1, <2>1, StockKeepsPrices
  <1>7. \/ UNCHANGED <<items, eventLog>>
        \/ \E a \in Admins : \/ SaveProduct(a) \/ SaveProductAckLost(a) \/ MarkInProgress(a)
                             \/ MarkPublished(a) \/ MarkFailed(a)
        \/ \E p \in Products, price \in Prices : CreateProduct(p, price)
        \/ \E p \in Products : DeleteProduct(p)
        \/ \E c \in Consumers : TakeStock(c)
    BY DEF Next, ReceivePut, Update, ReadOldPrice, SaveProductGone, ProductFails, Publish,
           PublishFails, MarkFailedFails, OrderPaid, ReceivePaid, Crash, vars
  <1> QED
    BY <1>1, <1>2, <1>3, <1>4, <1>5, <1>6, <1>7

LEMMA HistoryStep == Typing /\ OneAdmin /\ Chained /\ [Next]_vars => HistoryKept
PROOF
  <1> SUFFICES ASSUME Typing, OneAdmin, Chained, [Next]_vars
               PROVE  HistoryKept
    OBVIOUS
  <1>1. CASE RowsKept
    BY <1>1 DEF RowsKept, HistoryKept, Present
  <1>2. ASSUME NEW p \in Products, ChangeSaved(p)
        PROVE  HistoryKept
    BY <1>2 DEF ChangeSaved, HistoryKept, Present
  <1> QED
    BY <1>1, <1>2, PriceStep

LEMMA ChainedStep == Typing /\ OneAdmin /\ Chained /\ [Next]_vars => Chained'
BY ChainStep

LEMMA ChainInit == Init => Chained
PROOF
  <1> SUFFICES ASSUME Init PROVE Chained
    OBVIOUS
  <1>1. PICK price \in [Seeded -> Prices], stock \in [Seeded -> Stocks] :
           items = [p \in Products |-> IF p \in Seeded THEN Item(price[p], stock[p]) ELSE Unborn]
    BY DEF Init
  <1>2. \A p \in Seeded : price[p] \in Nat
    BY CatalogAssumption
  <1>3. Rounded
    BY <1>1, <1>2, StoredTwice DEF Rounded, Present, Item, Unborn
  <1>4. eventLog = <<>> /\ \A a \in Admins : pc[a] = "idle"
    BY DEF Init, Workers
  <1> QED
    BY <1>3, <1>4 DEF Chained, Born, Reads, EventsChain

\* While administrators work one after the other, the price events of every product are a
\* chain from price to price that ends at the price in the table, for any number of
\* products, deletions, lost commits and crashes, and whatever paid orders do to the rows.
THEOREM EventsAreChained == OneAdmin => (Spec => []EventsChain)
PROOF
  <1> SUFFICES ASSUME OneAdmin PROVE Spec => []EventsChain
    OBVIOUS
  <1>1. Typing /\ Chained /\ [Next]_vars => Chained'
    BY ChainStep
  <1>2. Chained => EventsChain
    BY DEF Chained
  <1> QED
    BY <1>1, <1>2, ChainInit, TypingInvariant, PTL DEF Spec
=============================================================================
