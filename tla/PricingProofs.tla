---------------------------- MODULE PricingProofs ----------------------------
(***************************************************************************)
(* Catalog and Basket composed: type correctness; that no basket shows a   *)
(* price the catalog has not had; and that a price change, once it has     *)
(* been handled, has reached every basket.  For any number of users,       *)
(* lines, requests, products, price changes and failures.                  *)
(***************************************************************************)
EXTENDS Pricing, CatalogProofs

(* Catalog, beside Basket *)

LEMMA CatalogStep == [PricingNext]_pricingVars => [Next]_vars
BY DEF PricingNext, pricingVars

LEMMA CatalogTyped == PricingSpec => []Typing
PROOF
  <1>1. PricingInit => Init
    BY DEF PricingInit
  <1> QED
    BY <1>1, TypingInit, TypingStep, CatalogStep, PTL DEF PricingSpec

\* While administrators work one after the other.
LEMMA CatalogChained == OneAdmin => (PricingSpec => []Chained)
PROOF
  <1> SUFFICES ASSUME OneAdmin PROVE PricingSpec => []Chained
    OBVIOUS
  <1>1. PricingInit => Init
    BY DEF PricingInit
  <1>2. Typing /\ Chained /\ [Next]_vars => Chained'
    BY ChainedStep
  <1> QED
    BY <1>1, <1>2, ChainInit, CatalogTyped, CatalogStep, PTL DEF PricingSpec

-----------------------------------------------------------------------------
(* Types *)

BasketLine == [id : Ids, product : Products, unit : Nat \ {0}, oldUnit : Nat]
Asked   == [id : Ids \cup {NoId}, product : Products \cup {NoProduct}, unit : Nat,
            oldUnit : {0}]
Request == [op : {"none", "Add", "UpdateAll", "SetQuantities"}, user : Users \cup {NoUser},
            line : Asked]

\* The line of request q has its price when the request is at this place.
Priced(at, q) ==
    q.op # "SetQuantities" /\ (at = "write" \/ (at = "read" /\ q.op = "Add"))

\* What is known of a request at a place.
Placed(at, q) ==
    /\ at # "idle" => q.op # "none" /\ q.user \in Users
    /\ at # "idle" /\ q.op # "SetQuantities" => q.line.id \in Ids /\ q.line.product \in Products
    /\ at = "price" => q.op # "SetQuantities"
    /\ Priced(at, q) => q.line.unit # 0

RequestTypes ==
    /\ apc \in [Requests -> {"idle", "price", "read", "write"}]
    /\ req \in [Requests -> Request]
    /\ basket \in [Requests -> SUBSET BasketLine]
    /\ \A r \in Requests : Placed(apc[r], req[r])

ConsumerTypes ==
    /\ cpc \in {"idle", "read", "write", "ack"}
    /\ todo \subseteq Users
    /\ current \in Users \cup {NoUser}
    /\ copy \subseteq BasketLine
    /\ handled \in 0..Len(bus)
    /\ cpc \in {"read", "write"} => handled < Len(bus)
    /\ cpc = "write" => current \in Users

OtherTypes ==
    /\ checkedOut \subseteq Users /\ started \subseteq Users
    /\ lost \in BOOLEAN /\ failures \in 0..MaxFailures /\ overlap \in BOOLEAN

BasketTypes == baskets \in [Users -> SUBSET BasketLine]

Types == BasketTypes /\ RequestTypes /\ ConsumerTypes /\ OtherTypes

\* The queue is as long as what Catalog has handed over, and holds events of its log.
LEMMA QueueHolds ==
    ASSUME Typing
    PROVE  /\ Len(bus) \in Nat /\ Len(Queue) = Len(bus)
           /\ \A i \in 1..Len(bus) :
                 /\ bus[i] \in DOMAIN eventLog
                 /\ Queue[i].product = eventLog[bus[i]].product
                 /\ Queue[i].new = eventLog[bus[i]].new
                 /\ Queue[i].old = eventLog[bus[i]].old
PROOF
  <1>1. bus \in Seq(DOMAIN eventLog)
    BY DEF Typing, TypeOK
  <1>2. /\ Len(bus) \in Nat /\ DOMAIN bus = 1..Len(bus)
        /\ \A i \in 1..Len(bus) : bus[i] \in DOMAIN eventLog
    BY <1>1
  <1>3. Len(Queue) = Len(bus)
    BY <1>2 DEF Queue
  <1> QED
    BY <1>2, <1>3 DEF Queue

\* A price is not 0, nor is what the column keeps of it.
LEMMA NoPriceIsZero ==
    ASSUME NEW price \in Prices
    PROVE  price \in Nat \ {0}
BY CatalogAssumption, PricingAssumption

\* The next message of the queue, when the handler has one.
LEMMA NextMessage ==
    ASSUME Typing, handled \in 0..Len(bus), handled < Len(bus)
    PROVE  /\ bus[handled + 1] \in DOMAIN eventLog
           /\ Queue[handled + 1].product = eventLog[bus[handled + 1]].product
           /\ Queue[handled + 1].new = eventLog[bus[handled + 1]].new
           /\ Queue[handled + 1].old = eventLog[bus[handled + 1]].old
           /\ Queue[handled + 1].new \in Nat \ {0}
PROOF
  <1>1. Len(bus) \in Nat
    BY QueueHolds
  <1>2. handled + 1 \in 1..Len(bus)
    BY <1>1
  <1>3. eventLog[bus[handled + 1]] \in EventEntry
    BY <1>2, QueueHolds DEF Typing, TypeOK
  <1> QED
    BY <1>2, <1>3, QueueHolds, NoPriceIsZero DEF EventEntry

LEMMA TypesInit == PricingInit => Types
PROOF
  <1> SUFFICES ASSUME PricingInit PROVE Types
    OBVIOUS
  <1>1. B!Init /\ overlap = FALSE /\ bus = <<>>
    BY DEF PricingInit, Init
  <1>2. B!NoRequest \in Request
    BY DEF B!NoRequest, B!Line, Request, Asked
  <1>3. RequestTypes
    <2>1. /\ apc = [r \in Requests |-> "idle"]
          /\ req = [r \in Requests |-> B!NoRequest]
          /\ basket = [r \in Requests |-> {}]
      BY <1>1 DEF B!Init
    <2>2. \A r \in Requests : Placed(apc[r], req[r])
      BY <2>1 DEF Placed, Priced
    <2> QED
      BY <1>2, <2>1, <2>2 DEF RequestTypes
  <1>4. BasketTypes
    BY <1>1 DEF B!Init, BasketTypes
  <1>5. OtherTypes
    <2>1. failures = 0 /\ 0 \in 0..MaxFailures
      BY <1>1, PricingAssumption DEF B!Init
    <2>2. lost = FALSE /\ checkedOut = {} /\ started = {}
      BY <1>1 DEF B!Init
    <2> QED
      BY <1>1, <2>1, <2>2 DEF OtherTypes
  <1>6. ConsumerTypes
    BY <1>1 DEF B!Init, ConsumerTypes
  <1> QED
    BY <1>3, <1>4, <1>5, <1>6 DEF Types

\* A step of Catalog leaves the baskets alone, and the queue grows.
LEMMA TypesCatalog ==
    ASSUME Typing, Types, [Next]_vars, UNCHANGED basketVars, overlap' \in BOOLEAN
    PROVE  Types'
PROOF
  <1>1. Len(bus) \in Nat /\ Len(bus') \in Nat /\ Len(bus) <= Len(bus')
    <2>1. UNCHANGED bus \/ \E a \in Admins : Publish(a)
      BY OnlyPublishHandsOver
    <2>2. bus \in Seq(DOMAIN eventLog)
      BY DEF Typing, TypeOK
    <2>3. ASSUME NEW a \in Admins, Publish(a)
          PROVE  Len(bus') = Len(bus) + 1
      BY <2>2, <2>3 DEF Publish
    <2> QED
      BY <2>1, <2>2, <2>3
  <1>2. BasketTypes' /\ RequestTypes'
    BY DEF Types, BasketTypes, RequestTypes, Placed, Priced, basketVars
  <1>3. ConsumerTypes'
    BY <1>1 DEF Types, ConsumerTypes, basketVars
  <1>4. OtherTypes'
    BY DEF Types, OtherTypes, basketVars
  <1> QED
    BY <1>2, <1>3, <1>4 DEF Types

\* The end of a request.
LEMMA EndTypes ==
    ASSUME RequestTypes, NEW r \in Requests, B!EndRequest(r)
    PROVE  RequestTypes'
PROOF
  <1>1. B!NoRequest \in Request
    BY DEF B!NoRequest, B!Line, Request, Asked
  <1>2. /\ apc' \in [Requests -> {"idle", "price", "read", "write"}]
        /\ req' \in [Requests -> Request]
        /\ basket' \in [Requests -> SUBSET BasketLine]
    BY <1>1 DEF RequestTypes, B!EndRequest, B!Goto
  <1>3. ASSUME NEW q \in Requests
        PROVE  Placed(apc'[q], req'[q])
    <2>1. CASE q = r
      <3>1. apc'[q] = "idle"
        BY <2>1 DEF RequestTypes, B!EndRequest, B!Goto
      <3> QED
        BY <3>1 DEF Placed, Priced
    <2>2. CASE q # r
      BY <2>2 DEF RequestTypes, B!EndRequest, B!Goto
    <2> QED
      BY <2>1, <2>2
  <1> QED
    BY <1>2, <1>3 DEF RequestTypes

\* A request that goes on: what has to be seen to is the request itself.
LEMMA GoesOn ==
    ASSUME RequestTypes, NEW r \in Requests,
           NEW at \in {"price", "read", "write"}, B!Goto(r, at),
           NEW q \in Request, req' = [req EXCEPT ![r] = q], Placed(at, q),
           basket' \in [Requests -> SUBSET BasketLine]
    PROVE  RequestTypes'
PROOF
  <1>1. /\ apc' \in [Requests -> {"idle", "price", "read", "write"}]
        /\ req' \in [Requests -> Request]
        /\ apc'[r] = at /\ req'[r] = q
        /\ \A s \in Requests : s # r => apc'[s] = apc[s] /\ req'[s] = req[s]
    BY DEF RequestTypes, B!Goto
  <1>2. \A s \in Requests : Placed(apc'[s], req'[s])
    BY <1>1 DEF RequestTypes
  <1> QED
    BY <1>1, <1>2 DEF RequestTypes

\* The line a request puts into the basket is complete.
LEMMA MergedTypes ==
    ASSUME RequestTypes, NEW r \in Requests, apc[r] = "write"
    PROVE  B!Merged(r) \subseteq BasketLine /\ req[r].user \in Users
PROOF
  <1>1. /\ req[r] \in Request /\ basket[r] \subseteq BasketLine
        /\ Placed("write", req[r])
    BY DEF RequestTypes
  <1>2. req[r].op # "SetQuantities" => req[r].line \in BasketLine
    BY <1>1 DEF Request, Asked, BasketLine, Placed, Priced
  <1> QED
    BY <1>1, <1>2 DEF B!Merged, Placed

LEMMA TypesRequests ==
    ASSUME Typing, Types, NEW r \in Requests,
           B!ReceiveRequest(r) \/ B!GetPrice(r) \/ B!GetBasket(r) \/ B!PostBasket(r)
               \/ B!RequestFails(r)
    PROVE  RequestTypes' /\ BasketTypes'
PROOF
  <1> USE DEF Types
  <1>1. CASE B!ReceiveRequest(r)
    <2>1. UNCHANGED <<baskets, basket>>
      BY <1>1 DEF B!ReceiveRequest, B!aggregator
    <2>2. PICK u \in Users :
             \/ \E op \in {"Add", "UpdateAll"}, p \in B!Listed, id \in Ids \ B!InUse :
                   /\ req' = [req EXCEPT ![r] = [op |-> op, user |-> u,
                                                 line |-> B!Line(id, p, 0, 0)]]
                   /\ B!Goto(r, IF op = "Add" THEN "price" ELSE "read")
             \/ /\ req' = [req EXCEPT ![r] = [B!NoRequest EXCEPT !.op = "SetQuantities",
                                                                  !.user = u]]
                /\ B!Goto(r, "read")
      BY <1>1 DEF B!ReceiveRequest
    <2>3. ASSUME NEW op \in {"Add", "UpdateAll"}, NEW p \in B!Listed, NEW id \in Ids,
                 req' = [req EXCEPT ![r] = [op |-> op, user |-> u,
                                            line |-> B!Line(id, p, 0, 0)]],
                 B!Goto(r, IF op = "Add" THEN "price" ELSE "read")
          PROVE  RequestTypes'
      <3> DEFINE q == [op |-> op, user |-> u, line |-> B!Line(id, p, 0, 0)]
      <3> DEFINE at == IF op = "Add" THEN "price" ELSE "read"
      <3>1. p \in Products
        BY DEF B!Listed, Quoted
      <3>2. q \in Request /\ at \in {"price", "read", "write"}
        BY <3>1 DEF Request, Asked, B!Line
      <3>3. Placed(at, q)
        BY <3>1 DEF Placed, Priced, B!Line
      <3>4. B!Goto(r, at) /\ req' = [req EXCEPT ![r] = q]
        BY <2>3
      <3> HIDE DEF q, at
      <3> QED
        BY <2>1, <3>2, <3>3, <3>4, GoesOn DEF RequestTypes
    <2>4. ASSUME req' = [req EXCEPT ![r] = [B!NoRequest EXCEPT !.op = "SetQuantities",
                                                               !.user = u]],
                 B!Goto(r, "read")
          PROVE  RequestTypes'
      <3> DEFINE q == [B!NoRequest EXCEPT !.op = "SetQuantities", !.user = u]
      <3>1. q \in Request /\ Placed("read", q)
        BY DEF Request, Asked, B!NoRequest, B!Line, Placed, Priced
      <3>2. req' = [req EXCEPT ![r] = q]
        BY <2>4
      <3> HIDE DEF q
      <3> QED
        BY <2>1, <2>4, <3>1, <3>2, GoesOn DEF RequestTypes
    <2>5. RequestTypes'
      BY <2>2, <2>3, <2>4
    <2> QED
      BY <2>1, <2>5 DEF BasketTypes
  <1>2. CASE B!GetPrice(r)
    <2>1. UNCHANGED baskets /\ apc[r] = "price"
      BY <1>2 DEF B!GetPrice
    <2>2. CASE B!NotFound(r)
      BY <1>2, <2>1, <2>2, EndTypes DEF B!GetPrice, BasketTypes
    <2>3. CASE ~B!NotFound(r)
      <3> DEFINE q == [req[r] EXCEPT !.line.unit = Quoted[req[r].line.product]]
      <3> DEFINE at == IF req[r].op = "Add" THEN "read" ELSE "write"
      <3>1. req[r] \in Request /\ Placed("price", req[r])
        BY <2>1 DEF RequestTypes
      <3>2. req[r].op # "SetQuantities" /\ req[r].line.product \in Products
        BY <3>1 DEF Placed
      <3>3. Quoted[req[r].line.product] \in Nat \ {0}
        <4>1. Quoted[req[r].line.product] \in Nat
          BY <3>2 DEF Quoted, Typing, TypeOK, ItemRow
        <4> QED
          BY <2>3, <4>1 DEF B!NotFound
      <3>4. q \in Request /\ q.line.unit # 0 /\ q.op = req[r].op /\ q.user = req[r].user
            /\ q.line.id = req[r].line.id /\ q.line.product = req[r].line.product
        BY <3>1, <3>3 DEF Request, Asked
      <3>5. Placed(at, q)
        BY <3>1, <3>2, <3>4 DEF Placed
      <3>6. B!Goto(r, at) /\ UNCHANGED basket
        BY <1>2, <2>3 DEF B!GetPrice
      <3>7. req' = [req EXCEPT ![r] = q]
        BY <1>2, <2>3 DEF B!GetPrice, RequestTypes
      <3>8. at \in {"price", "read", "write"}
        OBVIOUS
      <3> HIDE DEF q, at
      <3>9. RequestTypes'
        BY <3>4, <3>5, <3>6, <3>7, <3>8, GoesOn DEF RequestTypes
      <3> QED
        BY <2>1, <3>9 DEF BasketTypes
    <2> QED
      BY <2>2, <2>3
  <1>3. CASE B!GetBasket(r)
    <2>1. UNCHANGED baskets /\ apc[r] = "read"
      BY <1>3 DEF B!GetBasket
    <2>2. CASE req[r].op = "SetQuantities" /\ baskets[req[r].user] = {}
      BY <1>3, <2>1, <2>2, EndTypes DEF B!GetBasket, BasketTypes
    <2>3. CASE ~(req[r].op = "SetQuantities" /\ baskets[req[r].user] = {})
      <3> DEFINE at == IF req[r].op = "UpdateAll" THEN "price" ELSE "write"
      <3>1. req[r] \in Request /\ Placed("read", req[r])
        BY <2>1 DEF RequestTypes
      <3>2. baskets[req[r].user] \subseteq BasketLine
        BY <3>1 DEF Placed, BasketTypes
      <3>3. /\ basket' = [basket EXCEPT ![r] = baskets[req[r].user]]
            /\ B!Goto(r, at) /\ UNCHANGED req
        BY <1>3, <2>3 DEF B!GetBasket
      <3>4. basket' \in [Requests -> SUBSET BasketLine]
        BY <3>2, <3>3 DEF RequestTypes
      <3>5. req' = [req EXCEPT ![r] = req[r]]
        BY <3>3 DEF RequestTypes
      <3>6. req[r].op \in {"none", "Add", "UpdateAll", "SetQuantities"}
        BY <3>1 DEF Request
      <3>7. req[r].op # "none"
        BY <3>1 DEF Placed
      <3>8. Placed(at, req[r])
        BY <3>1, <3>6, <3>7 DEF Placed, Priced
      <3>9. at \in {"price", "read", "write"}
        OBVIOUS
      <3> HIDE DEF at
      <3>10. RequestTypes'
        BY <3>1, <3>3, <3>4, <3>5, <3>8, <3>9, GoesOn
      <3> QED
        BY <2>1, <3>10 DEF BasketTypes
    <2> QED
      BY <2>2, <2>3
  <1>4. CASE B!PostBasket(r)
    <2>1. apc[r] = "write" /\ B!EndRequest(r)
          /\ baskets' = [baskets EXCEPT ![req[r].user] = B!Merged(r)]
      BY <1>4 DEF B!PostBasket
    <2>2. RequestTypes'
      BY <2>1, EndTypes
    <2> QED
      BY <2>1, <2>2, MergedTypes DEF BasketTypes
  <1>5. CASE B!RequestFails(r)
    BY <1>5, EndTypes DEF B!RequestFails, BasketTypes
  <1> QED
    BY <1>1, <1>2, <1>3, <1>4, <1>5

\* The handler of price changes rewrites lines into lines.
LEMMA RepricedTypes ==
    ASSUME Typing, Types, handled < Len(bus)
    PROVE  B!Repriced(copy, Queue[handled + 1]) \subseteq BasketLine
PROOF
  <1> DEFINE e == Queue[handled + 1]
  <1>1. e.new \in Nat \ {0}
    BY NextMessage DEF Types, ConsumerTypes
  <1>2. ASSUME NEW line \in BasketLine
        PROVE  [line EXCEPT !.unit = e.new, !.oldUnit = line.unit] \in BasketLine
    BY <1>1, <1>2 DEF BasketLine
  <1> HIDE DEF e
  <1>3. B!Repriced(copy, e) \subseteq BasketLine
    BY <1>2 DEF B!Repriced, Types, ConsumerTypes
  <1> QED
    BY <1>3 DEF e

LEMMA TypesConsumer ==
    ASSUME Typing, Types, UNCHANGED vars,
           B!Consume \/ B!HandlerThrows \/ B!Crash \/ \E u \in Users : B!DeleteFails(u)
    PROVE  ConsumerTypes' /\ BasketTypes'
PROOF
  <1> USE DEF Types
  <1>1. UNCHANGED bus /\ Len(bus) \in Nat /\ Len(Queue) = Len(bus)
    BY QueueHolds DEF vars
  <1>2. CASE B!ReceivePriceChanged
    BY <1>1, <1>2 DEF B!ReceivePriceChanged, ConsumerTypes, BasketTypes
  <1>3. ASSUME NEW u \in Users, B!ReadBasket(u)
        PROVE  ConsumerTypes' /\ BasketTypes'
    BY <1>1, <1>3 DEF B!ReadBasket, ConsumerTypes, BasketTypes
  <1>4. CASE B!WriteBasket
    <2>1. baskets' = [baskets EXCEPT ![current] = B!Repriced(copy, Queue[handled + 1])]
          /\ handled < Len(bus)
      BY <1>4 DEF B!WriteBasket, ConsumerTypes
    <2>2. BasketTypes'
      BY <2>1, RepricedTypes DEF BasketTypes
    <2> QED
      BY <1>1, <1>4, <2>2 DEF B!WriteBasket, ConsumerTypes
  <1>5. CASE B!AckPriceChanged
    BY <1>1, <1>5 DEF B!AckPriceChanged, B!Reset, ConsumerTypes, BasketTypes
  <1>6. CASE B!HandlerThrows
    BY <1>1, <1>6 DEF B!HandlerThrows, B!Reset, ConsumerTypes, BasketTypes
  <1>7. ASSUME NEW u \in Users, B!DeleteOrdered(u)
        PROVE  ConsumerTypes' /\ BasketTypes'
    BY <1>1, <1>7 DEF B!DeleteOrdered, ConsumerTypes, BasketTypes
  <1>8. CASE B!AckOrderStarted
    BY <1>1, <1>8 DEF B!AckOrderStarted, B!Reset, ConsumerTypes, BasketTypes
  <1>9. ASSUME NEW u \in Users, B!DeleteFails(u)
        PROVE  ConsumerTypes' /\ BasketTypes'
    BY <1>1, <1>9 DEF B!DeleteFails, ConsumerTypes, BasketTypes
  <1>10. CASE B!Crash
    BY <1>1, <1>10 DEF B!Crash, B!Reset, ConsumerTypes, BasketTypes
  <1> QED
    BY <1>2, <1>3, <1>4, <1>5, <1>6, <1>7, <1>8, <1>9, <1>10 DEF B!Consume, B!HandlePriceChanged

\* The rest of the state: each step changes a part of it only.
LEMMA TypesOther ==
    ASSUME Types, B!Next, overlap' \in BOOLEAN
    PROVE  OtherTypes'
PROOF
  <1>1. failures' = failures \/ B!Failure
    BY DEF B!Next, B!ReceiveRequest, B!GetPrice, B!GetBasket, B!PostBasket, B!RequestFails,
           B!Checkout, B!OrderingAnswers, B!DeleteBasket, B!DeleteFails, B!Consume,
           B!HandlePriceChanged, B!ReceivePriceChanged, B!ReadBasket, B!WriteBasket,
           B!AckPriceChanged, B!DeleteOrdered, B!AckOrderStarted, B!HandlerThrows, B!Crash
  <1>2. lost' = lost \/ lost' = TRUE
    BY DEF B!Next, B!ReceiveRequest, B!GetPrice, B!GetBasket, B!PostBasket, B!RequestFails,
           B!Checkout, B!OrderingAnswers, B!DeleteBasket, B!DeleteFails, B!Consume,
           B!HandlePriceChanged, B!ReceivePriceChanged, B!ReadBasket, B!WriteBasket,
           B!AckPriceChanged, B!DeleteOrdered, B!AckOrderStarted, B!HandlerThrows, B!Crash
  <1>3. checkedOut' \subseteq Users
    BY DEF B!Next, B!ReceiveRequest, B!GetPrice, B!GetBasket, B!PostBasket, B!RequestFails,
           B!Checkout, B!OrderingAnswers, B!DeleteBasket, B!DeleteFails, B!Consume,
           B!HandlePriceChanged, B!ReceivePriceChanged, B!ReadBasket, B!WriteBasket,
           B!AckPriceChanged, B!DeleteOrdered, B!AckOrderStarted, B!HandlerThrows, B!Crash,
           Types, OtherTypes
  <1>4. started' \subseteq Users
    BY DEF B!Next, B!ReceiveRequest, B!GetPrice, B!GetBasket, B!PostBasket, B!RequestFails,
           B!Checkout, B!OrderingAnswers, B!DeleteBasket, B!DeleteFails, B!Consume,
           B!HandlePriceChanged, B!ReceivePriceChanged, B!ReadBasket, B!WriteBasket,
           B!AckPriceChanged, B!DeleteOrdered, B!AckOrderStarted, B!HandlerThrows, B!Crash,
           B!consumer, Types, OtherTypes
  <1>5. failures' \in 0..MaxFailures
    BY <1>1, PricingAssumption DEF B!Failure, Types, OtherTypes
  <1> QED
    BY <1>2, <1>3, <1>4, <1>5 DEF Types, OtherTypes

LEMMA TypesBasket ==
    ASSUME Typing, Types, UNCHANGED vars, B!Next, overlap' \in BOOLEAN
    PROVE  Types'
PROOF
  <1> USE DEF Types
  <1>1. OtherTypes'
    BY TypesOther
  <1>2. ASSUME NEW r \in Requests,
               B!ReceiveRequest(r) \/ B!GetPrice(r) \/ B!GetBasket(r) \/ B!PostBasket(r)
                   \/ B!RequestFails(r)
        PROVE  Types'
    <2>1. UNCHANGED B!consumer
      BY <1>2 DEF B!ReceiveRequest, B!GetPrice, B!GetBasket, B!PostBasket, B!RequestFails
    <2>2. ConsumerTypes'
      BY <2>1 DEF ConsumerTypes, B!consumer, vars
    <2> QED
      BY <1>1, <1>2, <2>2, TypesRequests
  <1>3. ASSUME UNCHANGED B!aggregator
        PROVE  RequestTypes'
    BY <1>3 DEF RequestTypes, B!aggregator
  <1>4. ASSUME NEW u \in Users,
               B!Checkout(u) \/ B!OrderingAnswers(u) \/ B!DeleteBasket(u)
        PROVE  Types'
    <2>1. /\ UNCHANGED <<handled, cpc, todo, current, copy>>
          /\ UNCHANGED B!aggregator
          /\ UNCHANGED baskets \/ baskets' = [baskets EXCEPT ![u] = {}]
      BY <1>4 DEF B!Checkout, B!OrderingAnswers, B!DeleteBasket, B!consumer
    <2>2. ConsumerTypes'
      BY <2>1 DEF ConsumerTypes, vars
    <2>3. BasketTypes'
      BY <2>1 DEF BasketTypes
    <2> QED
      BY <1>1, <1>3, <2>1, <2>2, <2>3
  <1>5. ASSUME B!Consume \/ B!HandlerThrows \/ B!Crash \/ \E u \in Users : B!DeleteFails(u)
        PROVE  Types'
    <2>1. UNCHANGED B!aggregator
      BY <1>5 DEF B!Consume, B!HandlePriceChanged, B!ReceivePriceChanged, B!ReadBasket,
         B!WriteBasket, B!AckPriceChanged, B!DeleteOrdered, B!AckOrderStarted,
         B!HandlerThrows, B!Crash, B!DeleteFails
    <2> QED
      BY <1>1, <1>3, <1>5, <2>1, TypesConsumer
  <1> QED
    BY <1>2, <1>4, <1>5 DEF B!Next

LEMMA TypesStep == Typing /\ Types /\ [PricingNext]_pricingVars => Types'
PROOF
  <1> SUFFICES ASSUME Typing, Types, [PricingNext]_pricingVars
               PROVE  Types'
    OBVIOUS
  <1>1. overlap' \in BOOLEAN
    BY DEF PricingNext, pricingVars, Types, OtherTypes
  <1> QED
    BY <1>1, TypesCatalog, TypesBasket DEF PricingNext, pricingVars

LEMMA TypesInvariant == PricingSpec => [](Typing /\ Types)
BY TypesInit, TypesStep, CatalogTyped, PTL DEF PricingSpec

\* In every state of the two services their variables have their types.
THEOREM PricingTypeCorrect == PricingSpec => []PricingTypeOK
PROOF
  <1>1. Typing /\ Types => PricingTypeOK
    <2> SUFFICES ASSUME Typing, Types PROVE PricingTypeOK
      OBVIOUS
    <2>1. Len(Queue) = Len(bus)
      BY QueueHolds
    <2>2. B!Listed = Products
      BY DEF B!Listed, Quoted
    <2>3. SUBSET BasketLine = SUBSET [id : Ids, product : B!Listed, unit : Nat \ {0},
                                      oldUnit : Nat]
      BY <2>2 DEF BasketLine
    <2>4. B!TypeOK
      BY <2>1, <2>3 DEF Types, BasketTypes, RequestTypes, ConsumerTypes, OtherTypes, B!TypeOK
    <2> QED
      BY <2>4 DEF PricingTypeOK, Typing, Types, OtherTypes
  <1> QED
    BY <1>1, TypesInvariant, PTL

-----------------------------------------------------------------------------
(* Genuine prices: what PricesAreGenuine says of the lines in Redis holds of every line
   somebody has in hand too: the handler's copy, the aggregator's copies, and the line a
   request is about to add. *)

Change(i, line) == i \in DOMAIN eventLog /\ eventLog[i].product = line.product

Genuine(line) ==
    IF line.oldUnit # 0
    THEN \E i \in DOMAIN eventLog :
            Change(i, line) /\ eventLog[i].new = line.unit /\ eventLog[i].old = line.oldUnit
    ELSE \/ items[line.product].state = "deleted"
         \/ Present(line.product) /\ items[line.product].price = line.unit
         \/ \E i \in DOMAIN eventLog : Change(i, line) /\ eventLog[i].old = line.unit

Held(line) ==
    \/ \E u \in Users : line \in baskets[u]
    \/ line \in copy
    \/ \E r \in Requests : line \in basket[r]
    \/ \E r \in Requests : Priced(apc[r], req[r]) /\ line = req[r].line

HeldAreGenuine == \A line \in BasketLine : Held(line) => Genuine(line)

\* Catalog keeps the history a line refers to.
LEMMA StaysGenuine ==
    ASSUME HistoryKept, NEW line \in BasketLine, Genuine(line)
    PROVE  Genuine(line)'
PROOF
  <1>1. line.product \in Products
    BY DEF BasketLine
  <1>2. \A i : Change(i, line) => /\ Change(i, line)'
                                 /\ eventLog'[i].new = eventLog[i].new
                                 /\ eventLog'[i].old = eventLog[i].old
    BY DEF HistoryKept, Change
  <1>3. CASE line.oldUnit # 0
    BY <1>2, <1>3 DEF Genuine, Change
  <1>4. CASE line.oldUnit = 0
    <2>1. CASE items[line.product].state = "deleted"
      BY <1>1, <1>4, <2>1 DEF Genuine, HistoryKept
    <2>2. CASE \E i \in DOMAIN eventLog : Change(i, line) /\ eventLog[i].old = line.unit
      BY <1>2, <1>4, <2>2 DEF Genuine, Change
    <2>3. CASE Present(line.product) /\ items[line.product].price = line.unit
      BY <1>1, <1>4, <2>3 DEF Genuine, HistoryKept, Change, Present
    <2> QED
      BY <1>4, <2>1, <2>2, <2>3 DEF Genuine
  <1> QED
    BY <1>3, <1>4

\* A request that has just come in has no price, and nobody else notices.
LEMMA Received ==
    ASSUME RequestTypes, NEW r \in Requests, B!ReceiveRequest(r)
    PROVE  /\ ~Priced(apc'[r], req'[r])
           /\ apc'[r] \in {"price", "read"}
           /\ \A s \in Requests : s # r => apc'[s] = apc[s] /\ req'[s] = req[s]
           /\ UNCHANGED <<baskets, basket>>
PROOF
  <1> USE DEF RequestTypes
  <1>1. PICK u \in Users :
           \/ \E op \in {"Add", "UpdateAll"}, p \in B!Listed, id \in Ids \ B!InUse :
                 /\ req' = [req EXCEPT ![r] = [op |-> op, user |-> u,
                                               line |-> B!Line(id, p, 0, 0)]]
                 /\ B!Goto(r, IF op = "Add" THEN "price" ELSE "read")
           \/ /\ req' = [req EXCEPT ![r] = [B!NoRequest EXCEPT !.op = "SetQuantities",
                                                                !.user = u]]
              /\ B!Goto(r, "read")
    BY DEF B!ReceiveRequest
  <1>2. ASSUME NEW op \in {"Add", "UpdateAll"}, NEW p, NEW id,
               req' = [req EXCEPT ![r] = [op |-> op, user |-> u,
                                          line |-> B!Line(id, p, 0, 0)]],
               B!Goto(r, IF op = "Add" THEN "price" ELSE "read")
        PROVE  ~Priced(apc'[r], req'[r])
    <2>1. req'[r].op = op /\ apc'[r] = IF op = "Add" THEN "price" ELSE "read"
      BY <1>2 DEF B!Goto
    <2> QED
      BY <2>1 DEF Priced
  <1>3. ASSUME req' = [req EXCEPT ![r] = [B!NoRequest EXCEPT !.op = "SetQuantities",
                                                             !.user = u]]
        PROVE  ~Priced(apc'[r], req'[r])
    <2>1. req'[r].op = "SetQuantities"
      BY <1>3 DEF B!NoRequest
    <2> QED
      BY <2>1 DEF Priced
  <1>4. ~Priced(apc'[r], req'[r])
    BY <1>1, <1>2, <1>3
  <1>5. /\ apc'[r] \in {"price", "read"}
        /\ \A s \in Requests : s # r => apc'[s] = apc[s] /\ req'[s] = req[s]
    BY <1>1 DEF B!Goto
  <1> QED
    BY <1>4, <1>5 DEF B!ReceiveRequest

\* No step of Basket makes a line out of nothing: each line held after it was held before,
\* or has just got a price that Catalog has, or has been repriced by an event.
LEMMA HeldRequests ==
    ASSUME Typing, Types, HeldAreGenuine, NEW line \in BasketLine, Held(line)', NEW r \in Requests,
           B!ReceiveRequest(r) \/ B!GetPrice(r) \/ B!GetBasket(r) \/ B!PostBasket(r)
               \/ B!RequestFails(r)
    PROVE  Held(line) \/ Genuine(line)
PROOF
  <1> USE DEF Types, RequestTypes
  <1>1. UNCHANGED copy
    BY DEF B!ReceiveRequest, B!GetPrice, B!GetBasket, B!PostBasket, B!RequestFails, B!consumer
  <1>2. ASSUME B!EndRequest(r), UNCHANGED baskets
        PROVE  Held(line)
    <2>1. /\ apc'[r] = "idle" /\ basket'[r] = {}
          /\ \A s \in Requests : s # r => /\ apc'[s] = apc[s] /\ req'[s] = req[s]
                                         /\ basket'[s] = basket[s]
      BY <1>2 DEF B!EndRequest, B!Goto
    <2>2. ~Priced(apc'[r], req'[r])
      BY <2>1 DEF Priced
    <2> QED
      BY <1>1, <1>2, <2>1, <2>2 DEF Held
  <1>3. CASE B!ReceiveRequest(r)
    BY <1>1, <1>3, Received DEF Held
  <1>4. CASE B!GetPrice(r)
    <2>1. apc[r] = "price" /\ UNCHANGED baskets
      BY <1>4 DEF B!GetPrice
    <2>2. CASE B!NotFound(r)
      BY <1>2, <1>4, <2>1, <2>2 DEF B!GetPrice
    <2>3. CASE ~B!NotFound(r)
      <3>1. /\ req' = [req EXCEPT ![r].line.unit = Quoted[req[r].line.product]]
            /\ B!Goto(r, IF req[r].op = "Add" THEN "read" ELSE "write")
            /\ UNCHANGED basket
        BY <1>4, <2>3 DEF B!GetPrice
      <3>2. \A s \in Requests : s # r => apc'[s] = apc[s] /\ req'[s] = req[s]
        BY <3>1 DEF B!Goto
      <3>3. req[r] \in Request /\ Placed("price", req[r])
        BY <2>1
      <3>4. req[r].line.product \in Products
        BY <3>3 DEF Placed
      <3>5. /\ req'[r].line.product = req[r].line.product
            /\ req'[r].line.unit = Quoted[req[r].line.product]
            /\ req'[r].line.oldUnit = 0
        BY <3>1, <3>3 DEF Request, Asked
      <3>6. /\ Present(req[r].line.product)
            /\ items[req[r].line.product].price = Quoted[req[r].line.product]
        BY <2>3, <3>4 DEF Quoted, B!NotFound
      <3>7. line = req'[r].line => Genuine(line)
        BY <3>5, <3>6 DEF Genuine
      <3> QED
        BY <1>1, <2>1, <3>1, <3>2, <3>7 DEF Held
    <2> QED
      BY <2>2, <2>3
  <1>5. CASE B!GetBasket(r)
    <2>1. apc[r] = "read" /\ UNCHANGED baskets
      BY <1>5 DEF B!GetBasket
    <2>2. CASE req[r].op = "SetQuantities" /\ baskets[req[r].user] = {}
      BY <1>2, <1>5, <2>1, <2>2 DEF B!GetBasket
    <2>3. CASE ~(req[r].op = "SetQuantities" /\ baskets[req[r].user] = {})
      <3>1. /\ basket' = [basket EXCEPT ![r] = baskets[req[r].user]]
            /\ B!Goto(r, IF req[r].op = "UpdateAll" THEN "price" ELSE "write")
            /\ UNCHANGED req
        BY <1>5, <2>3 DEF B!GetBasket
      <3>2. req[r] \in Request /\ Placed("read", req[r])
        BY <2>1
      <3>3. /\ req[r].user \in Users
            /\ req[r].op \in {"Add", "UpdateAll", "SetQuantities"}
        BY <3>2 DEF Placed, Request
      <3>4. Priced(apc'[r], req'[r]) => Priced(apc[r], req[r])
        BY <2>1, <3>1, <3>3 DEF Priced, B!Goto
      <3>5. \A s \in Requests : s # r => apc'[s] = apc[s] /\ basket'[s] = basket[s]
        BY <3>1 DEF B!Goto
      <3>6. basket'[r] = baskets[req[r].user]
        BY <3>1
      <3> QED
        BY <1>1, <2>1, <3>1, <3>3, <3>4, <3>5, <3>6 DEF Held
    <2> QED
      BY <2>2, <2>3
  <1>6. CASE B!PostBasket(r)
    <2>1. /\ apc[r] = "write" /\ B!EndRequest(r)
          /\ baskets' = [baskets EXCEPT ![req[r].user] = B!Merged(r)]
      BY <1>6 DEF B!PostBasket
    <2>2. /\ apc'[r] = "idle" /\ basket'[r] = {}
          /\ \A s \in Requests : s # r => /\ apc'[s] = apc[s] /\ req'[s] = req[s]
                                         /\ basket'[s] = basket[s]
      BY <2>1 DEF B!EndRequest, B!Goto
    <2>3. ~Priced(apc'[r], req'[r])
      BY <2>2 DEF Priced
    <2>4. line \in B!Merged(r) => Held(line)
      BY <2>1 DEF B!Merged, Held, Priced
    <2>5. \A u \in Users : line \in baskets'[u] => line \in baskets[u] \/ line \in B!Merged(r)
      BY <2>1 DEF BasketTypes
    <2> QED
      BY <1>1, <2>2, <2>3, <2>4, <2>5 DEF Held
  <1>7. CASE B!RequestFails(r)
    BY <1>2, <1>7 DEF B!RequestFails
  <1> QED
    BY <1>3, <1>4, <1>5, <1>6, <1>7

LEMMA HeldConsumer ==
    ASSUME Typing, Types, HeldAreGenuine, NEW line \in BasketLine, Held(line)',
           UNCHANGED B!aggregator,
           \/ B!Consume \/ B!HandlerThrows \/ B!Crash
           \/ \E u \in Users : B!DeleteFails(u) \/ B!Checkout(u) \/ B!OrderingAnswers(u)
                               \/ B!DeleteBasket(u)
    PROVE  Held(line) \/ Genuine(line)
PROOF
  <1> USE DEF Types, BasketTypes, ConsumerTypes
  <1>1. /\ \A r \in Requests : line \in basket'[r] => Held(line)
        /\ \A r \in Requests : Priced(apc'[r], req'[r]) /\ line = req'[r].line => Held(line)
    BY DEF Held, B!aggregator
  <1>2. ASSUME copy' \in {copy, {}},
               \/ UNCHANGED baskets
               \/ \E u \in Users : baskets' = [baskets EXCEPT ![u] = {}]
        PROVE  Held(line)
    BY <1>1, <1>2 DEF Held
  <1>3. ASSUME NEW u \in Users, B!ReadBasket(u)
        PROVE  Held(line)
    BY <1>1, <1>3 DEF Held, B!ReadBasket
  <1>4. CASE B!WriteBasket
    <2> DEFINE e == Queue[handled + 1]
    <2>1. /\ baskets' = [baskets EXCEPT ![current] = B!Repriced(copy, e)]
          /\ copy' = {} /\ handled < Len(bus)
      BY <1>4 DEF B!WriteBasket
    <2>2. /\ bus[handled + 1] \in DOMAIN eventLog
          /\ e.product = eventLog[bus[handled + 1]].product
          /\ e.new = eventLog[bus[handled + 1]].new
          /\ e.old = eventLog[bus[handled + 1]].old
      BY <2>1, NextMessage
    <2> HIDE DEF e
    <2>3. ASSUME NEW l \in copy, B!Matches(l, e),
                 line = [l EXCEPT !.unit = e.new, !.oldUnit = l.unit]
          PROVE  Genuine(line)
      <3>1. l \in BasketLine
        OBVIOUS
      <3>2. /\ line.product = l.product /\ line.unit = e.new /\ line.oldUnit = l.unit
            /\ l.unit # 0 /\ l.product = e.product /\ l.unit = e.old
        BY <2>3, <3>1 DEF BasketLine, B!Matches
      <3> QED
        BY <2>2, <3>2 DEF Genuine, Change
    <2>4. line \in B!Repriced(copy, e) => line \in copy \/ Genuine(line)
      BY <2>3 DEF B!Repriced
    <2>5. \A u \in Users : line \in baskets'[u] => line \in baskets[u]
                                                  \/ line \in B!Repriced(copy, e)
      BY <2>1
    <2> QED
      BY <1>1, <2>1, <2>4, <2>5 DEF Held
  <1>5. CASE B!ReceivePriceChanged \/ B!AckPriceChanged \/ B!HandlerThrows
             \/ B!AckOrderStarted \/ B!Crash
    BY <1>2, <1>5 DEF B!ReceivePriceChanged, B!AckPriceChanged, B!HandlerThrows,
                      B!AckOrderStarted, B!Crash, B!Reset
  <1>6. ASSUME NEW u \in Users,
               \/ B!DeleteOrdered(u) \/ B!DeleteFails(u) \/ B!Checkout(u)
               \/ B!OrderingAnswers(u) \/ B!DeleteBasket(u)
        PROVE  Held(line)
    BY <1>2, <1>6 DEF B!DeleteOrdered, B!DeleteFails, B!Checkout, B!OrderingAnswers,
                      B!DeleteBasket, B!consumer
  <1> QED
    BY <1>3, <1>4, <1>5, <1>6 DEF B!Consume, B!HandlePriceChanged

LEMMA HeldInit == PricingInit => HeldAreGenuine
PROOF
  <1> SUFFICES ASSUME PricingInit PROVE HeldAreGenuine
    OBVIOUS
  <1>1. /\ baskets = [u \in Users |-> {}] /\ copy = {}
        /\ basket = [r \in Requests |-> {}] /\ apc = [r \in Requests |-> "idle"]
    BY DEF PricingInit, B!Init
  <1> QED
    BY <1>1 DEF HeldAreGenuine, Held, Priced

LEMMA HeldStep ==
    Typing /\ OneAdmin /\ Chained /\ Types /\ HeldAreGenuine /\ [PricingNext]_pricingVars
        => HeldAreGenuine'
PROOF
  <1> SUFFICES ASSUME Typing, OneAdmin, Chained, Types, HeldAreGenuine,
                      [PricingNext]_pricingVars,
                      NEW line \in BasketLine, Held(line)'
               PROVE  Genuine(line)'
    BY DEF HeldAreGenuine
  <1>1. CASE UNCHANGED basketVars
    <2>1. Held(line)
      BY <1>1 DEF Held, basketVars
    <2>2. HistoryKept
      BY CatalogStep, HistoryStep
    <2> QED
      BY <2>1, <2>2, StaysGenuine DEF HeldAreGenuine
  <1>2. CASE UNCHANGED vars /\ B!Next
    <2>1. Genuine(line) <=> Genuine(line)'
      BY <1>2 DEF Genuine, Change, Present, vars, tables
    <2>2. Held(line) \/ Genuine(line)
      <3>1. \/ \E r \in Requests : B!ReceiveRequest(r) \/ B!GetPrice(r) \/ B!GetBasket(r)
                                  \/ B!PostBasket(r) \/ B!RequestFails(r)
            \/ /\ UNCHANGED B!aggregator
               /\ \/ B!Consume \/ B!HandlerThrows \/ B!Crash
                  \/ \E u \in Users : B!DeleteFails(u) \/ B!Checkout(u) \/ B!OrderingAnswers(u)
                                      \/ B!DeleteBasket(u)
        BY <1>2 DEF B!Next, B!Consume, B!HandlePriceChanged, B!ReceivePriceChanged,
           B!ReadBasket, B!WriteBasket, B!AckPriceChanged, B!DeleteOrdered,
           B!AckOrderStarted, B!HandlerThrows, B!Crash, B!DeleteFails, B!Checkout,
           B!OrderingAnswers, B!DeleteBasket
      <3> QED
        BY <3>1, HeldRequests, HeldConsumer
    <2> QED
      BY <2>1, <2>2 DEF HeldAreGenuine
  <1> QED
    BY <1>1, <1>2 DEF PricingNext, pricingVars

LEMMA HeldInvariant == OneAdmin => (PricingSpec => []HeldAreGenuine)
PROOF
  <1> SUFFICES ASSUME OneAdmin PROVE PricingSpec => []HeldAreGenuine
    OBVIOUS
  <1>1. Typing /\ Chained /\ Types /\ HeldAreGenuine /\ [PricingNext]_pricingVars
            => HeldAreGenuine'
    BY HeldStep
  <1> QED
    BY <1>1, HeldInit, TypesInvariant, CatalogChained, PTL DEF PricingSpec

\* While administrators work one after the other: whatever the requests, the handler of
\* price changes and failures do to each other's baskets, a line that says "the price was
\* x and is y" repeats a change the catalog has saved, and any other line has a price the
\* catalog has had.
THEOREM GenuinePrices == OneAdmin => (PricingSpec => []PricesAreGenuine)
PROOF
  <1> SUFFICES ASSUME OneAdmin PROVE PricingSpec => []PricesAreGenuine
    OBVIOUS
  <1>1. Types /\ HeldAreGenuine => PricesAreGenuine
    <2> SUFFICES ASSUME Types, HeldAreGenuine, NEW u \in Users, NEW line \in baskets[u]
                 PROVE  LET changes == {i \in DOMAIN eventLog :
                                           eventLog[i].product = line.product}
                        IN  IF line.oldUnit # 0
                            THEN \E i \in changes : /\ eventLog[i].new = line.unit
                                                    /\ eventLog[i].old = line.oldUnit
                            ELSE \/ Quoted[line.product] \in {0, line.unit}
                                 \/ \E i \in changes : eventLog[i].old = line.unit
      BY DEF PricesAreGenuine
    <2>1. line \in BasketLine /\ Held(line)
      BY DEF Types, BasketTypes, Held
    <2>2. Genuine(line) /\ line.product \in Products
      BY <2>1 DEF HeldAreGenuine, BasketLine
    <2> QED
      BY <2>2 DEF Genuine, Change, Present, Quoted
  <1> QED
    BY <1>1, TypesInvariant, HeldInvariant, PTL

-----------------------------------------------------------------------------
(* Agreement.  With one administrator at a time the broker gets the events in the order
   of the log.  If one is never sent, a price stays on its way for ever; otherwise the
   queue is the log, and a line is as old as the part of it that has been handled. *)

\* The last event handed over.
LastSent == IF bus = <<>> THEN 0 ELSE bus[Len(bus)]

\* No event has been left out.
InOrder == \A i \in 1..Len(bus) : bus[i] = i

SentInOrder ==
    /\ Len(bus) <= LastSent
    /\ InOrder \/ Len(bus) < LastSent
    /\ \A a \in Admins : pc[a] \in {"publish", "send"} => event[a] > LastSent

\* Product p has no event after place k of the log.
Silent(p, k) == \A i \in DOMAIN eventLog : i > k => eventLog[i].product # p

\* Event i is the first one of its product after place k.
FirstAfter(i, k) ==
    i > k /\ \A j \in DOMAIN eventLog :
                k < j /\ j < i => eventLog[j].product # eventLog[i].product

\* Line has the price its product had after the first k events: the next event finds it,
\* and if there is none it is the price in the table.
AsOf(line, k) ==
    /\ \A i \in DOMAIN eventLog :
          Change(i, line) /\ FirstAfter(i, k) => eventLog[i].old = line.unit
    /\ Silent(line.product, k) /\ Present(line.product)
          => items[line.product].price = line.unit

\* Line has the price before or after the message the handler may be at.
Recent(line) == AsOf(line, handled) \/ (handled < Len(bus) /\ AsOf(line, handled + 1))

\* The handler has been through with user u.
Passed(u) == cpc \in {"read", "write"} /\ u \notin todo /\ ~(cpc = "write" /\ current = u)

\* The line is in a request's copy of the basket, or the request is about to add it.
Asks(r, line) == line \in basket[r] \/ (Priced(apc[r], req[r]) /\ line = req[r].line)

Undisturbed  == Busy => ~OnItsWay
BasketsAgree == \A u \in Users, line \in BasketLine : line \in baskets[u] =>
                    Recent(line) /\ (Passed(u) => AsOf(line, handled + 1))
CopyAgrees   == cpc = "write" => \A line \in BasketLine : line \in copy => Recent(line)
AsksAgree    == \A r \in Requests, line \in BasketLine : Asks(r, line) => AsOf(line, handled)
IdleIsEmpty  == \A r \in Requests : apc[r] = "idle" => basket[r] = {}

Agreement == Undisturbed /\ BasketsAgree /\ CopyAgrees /\ AsksAgree /\ IdleIsEmpty

\* Nothing has happened that PricesAgree makes an exception for.
Quiet == ~overlap /\ ~lost /\ WholeCents

Agreeing == Quiet /\ InOrder => Agreement

LEMMA SentBounds ==
    ASSUME Typing, SentInOrder
    PROVE  /\ Len(bus) \in Nat /\ Len(eventLog) \in Nat /\ LastSent \in Nat
           /\ DOMAIN eventLog = 1..Len(eventLog)
           /\ Len(bus) <= LastSent /\ LastSent <= Len(eventLog)
PROOF
  <1>1. bus \in Seq(DOMAIN eventLog) /\ eventLog \in Seq(EventEntry)
    BY DEF Typing, TypeOK
  <1>2. /\ Len(bus) \in Nat /\ Len(eventLog) \in Nat
        /\ DOMAIN eventLog = 1..Len(eventLog)
    BY <1>1
  <1>3. CASE bus = <<>>
    BY <1>2, <1>3 DEF LastSent, SentInOrder
  <1>4. CASE bus # <<>>
    <2>1. bus[Len(bus)] \in DOMAIN eventLog
      BY <1>1, <1>4
    <2> QED
      BY <1>2, <1>4, <2>1 DEF LastSent, SentInOrder
  <1> QED
    BY <1>3, <1>4

LEMMA SentInit == Init => SentInOrder
PROOF
  <1> SUFFICES ASSUME Init PROVE SentInOrder
    OBVIOUS
  <1>1. bus = <<>> /\ \A a \in Admins : pc[a] = "idle"
    BY DEF Init, Workers
  <1> QED
    BY <1>1 DEF SentInOrder, LastSent, InOrder

LEMMA SentStep == Typing /\ OneAdmin /\ SentInOrder /\ [Next]_vars => SentInOrder'
PROOF
  <1> SUFFICES ASSUME Typing, OneAdmin, SentInOrder, [Next]_vars
               PROVE  SentInOrder'
    OBVIOUS
  <1> USE DEF tables, requests
  <1>1. ASSUME NEW a \in Admins, Publish(a)
        PROVE  SentInOrder'
    <2>1. /\ pc[a] = "send" /\ bus' = Append(bus, event[a]) /\ pc'[a] = "markPublished"
          /\ event[a] \in DOMAIN eventLog
      BY <1>1 DEF Publish, Goto, Typing, TypeOK, AdminControl, Publishing, Workers
    <2>2. bus \in Seq(DOMAIN eventLog)
      BY DEF Typing, TypeOK
    <2>3. /\ Len(bus') = Len(bus) + 1 /\ bus' # <<>> /\ bus'[Len(bus')] = event[a]
          /\ \A i \in 1..Len(bus) : bus'[i] = bus[i]
      BY <2>1, <2>2
    <2>4. event[a] \in Nat /\ event[a] > LastSent /\ LastSent' = event[a]
      BY <2>1, <2>3, SentBounds DEF SentInOrder, LastSent
    <2>5. Len(bus') <= LastSent' /\ (InOrder' \/ Len(bus') < LastSent')
      BY <2>3, <2>4, SentBounds DEF SentInOrder, InOrder
    <2> QED
      BY <2>1, <2>5 DEF SentInOrder, OneAdmin
  <1>2. ASSUME UNCHANGED bus,
               \A a \in Admins : pc'[a] \in {"publish", "send"} =>
                   \/ pc[a] \in {"publish", "send"} /\ event'[a] = event[a]
                   \/ event'[a] = Len(eventLog) + 1
        PROVE  SentInOrder'
    <2>1. LastSent' = LastSent /\ InOrder' = InOrder /\ Len(bus') = Len(bus)
      BY <1>2 DEF LastSent, InOrder
    <2>2. \A a \in Admins : pc'[a] \in {"publish", "send"} => event'[a] > LastSent
      BY <1>2, SentBounds DEF SentInOrder
    <2> QED
      BY <2>1, <2>2 DEF SentInOrder
  <1>3. ASSUME NEW w \in Workers, NEW label, Goto(w, label), label \notin {"publish", "send"},
               UNCHANGED event
        PROVE  \A a \in Admins : pc'[a] \in {"publish", "send"} =>
                   pc[a] \in {"publish", "send"} /\ event'[a] = event[a]
    BY <1>3 DEF Goto, Typing, TypeOK, Workers
  <1>4. ASSUME NEW b \in Admins, EndRequest(b)
        PROVE  \A a \in Admins : pc'[a] \in {"publish", "send"} =>
                   pc[a] \in {"publish", "send"} /\ event'[a] = event[a]
    BY <1>4 DEF EndRequest, Goto, Typing, TypeOK, Workers
  <1>5. ASSUME NEW a \in Admins, ReceivePut(a)
        PROVE  SentInOrder'
    BY <1>2, <1>3, <1>5 DEF ReceivePut, Workers
  <1>6. ASSUME NEW a \in Admins, ReadOldPrice(a)
        PROVE  SentInOrder'
    BY <1>2, <1>3, <1>4, <1>6 DEF ReadOldPrice, Workers
  <1>7. ASSUME NEW a \in Admins, SaveProduct(a)
        PROVE  SentInOrder'
    <2>1. CASE PriceChanged(a)
      <3>1. /\ UNCHANGED bus
            /\ event' = [event EXCEPT ![a] = Len(eventLog) + 1] /\ Goto(a, "publish")
        BY <1>7, <2>1 DEF SaveProduct, NextEvent
      <3>2. event'[a] = Len(eventLog) + 1 /\ \A b \in Admins : b = a
        BY <3>1 DEF OneAdmin, Typing, TypeOK
      <3> QED
        BY <1>2, <3>1, <3>2
    <2>2. CASE ~PriceChanged(a)
      BY <1>2, <1>4, <1>7, <2>2 DEF SaveProduct
    <2> QED
      BY <2>1, <2>2
  <1>8. ASSUME NEW a \in Admins,
               SaveProductGone(a) \/ ProductFails(a) \/ MarkPublished(a) \/ MarkFailed(a)
                   \/ MarkFailedFails(a)
        PROVE  SentInOrder'
    BY <1>2, <1>4, <1>8 DEF SaveProductGone, ProductFails, MarkPublished, MarkFailed,
                            MarkFailedFails
  <1>9. ASSUME NEW a \in Admins, SaveProductAckLost(a)
        PROVE  SentInOrder'
    BY <1>2, <1>4, <1>9 DEF SaveProductAckLost
  <1>10. ASSUME NEW a \in Admins, MarkInProgress(a)
        PROVE  SentInOrder'
    BY <1>2, <1>10 DEF MarkInProgress, Goto, Typing, TypeOK, Workers
  <1>11. ASSUME NEW a \in Admins, PublishFails(a)
        PROVE  SentInOrder'
    BY <1>2, <1>3, <1>11 DEF PublishFails, Workers
  <1>12. ASSUME NEW c \in Consumers, ReceivePaid(c) \/ TakeStock(c)
        PROVE  SentInOrder'
    <2>1. UNCHANGED <<bus, event>>
          /\ (UNCHANGED pc \/ \E label \in {"idle", "remove", "ack"} : Goto(c, label))
      BY <1>12 DEF ReceivePaid, TakeStock, RemoveStock, SaveStock, SaveStockAckLost,
                   HandlerThrows, Ack
    <2> QED
      BY <1>2, <1>3, <2>1 DEF Workers
  <1>13. CASE Crash
    <2>1. UNCHANGED bus /\ pc' = [w \in Workers |-> "idle"]
      BY <1>13 DEF Crash
    <2> QED
      BY <1>2, <2>1 DEF Workers
  <1>14. CASE \/ \E p \in Products, price \in Prices : CreateProduct(p, price)
              \/ \E p \in Products : DeleteProduct(p)
              \/ \E o \in Orders : OrderPaid(o)
              \/ UNCHANGED vars
    BY <1>2, <1>14 DEF CreateProduct, DeleteProduct, OrderPaid, vars
  <1> QED
    BY <1>1, <1>5, <1>6, <1>7, <1>8, <1>9, <1>10, <1>11, <1>12, <1>13, <1>14 DEF Next, Update

\* No product in a basket is yet to be created.
LEMMA NotUnborn ==
    ASSUME Typing, Chained, NEW line \in BasketLine, Genuine(line)
    PROVE  items[line.product].state # "unborn" /\ line.product \in Products
PROOF
  <1>1. line.product \in Products
    BY DEF BasketLine
  <1>2. \A i \in DOMAIN eventLog : Change(i, line) => items[line.product].state # "unborn"
    BY DEF Change, Chained, Born
  <1> QED
    BY <1>1, <1>2 DEF Genuine, Present

\* What Catalog does leaves a line the price it had after the first k events: a new event
\* starts from the price in the table.
LEMMA StaysAsOf ==
    ASSUME Typing, OneAdmin, Chained, [Next]_vars, NEW line \in BasketLine, Genuine(line),
           NEW k \in Nat, k <= Len(eventLog), AsOf(line, k)
    PROVE  AsOf(line, k)'
PROOF
  <1>1. items[line.product].state # "unborn" /\ line.product \in Products
    BY NotUnborn
  <1>2. Len(eventLog) \in Nat /\ DOMAIN eventLog = 1..Len(eventLog)
    BY DEF Typing, TypeOK
  <1>3. CASE RowsKept
    <2>1. \A i \in DOMAIN eventLog : FirstAfter(i, k)' <=> FirstAfter(i, k)
      BY <1>3 DEF RowsKept, FirstAfter
    <2>2. Silent(line.product, k)' <=> Silent(line.product, k)
      BY <1>3 DEF RowsKept, Silent
    <2>3. Present(line.product)' =>
             Present(line.product) /\ items'[line.product].price = items[line.product].price
      BY <1>1, <1>3 DEF RowsKept, Present
    <2>4. ASSUME NEW i \in DOMAIN eventLog', Change(i, line)', FirstAfter(i, k)'
          PROVE  eventLog'[i].old = line.unit
      BY <1>3, <2>1, <2>4 DEF RowsKept, Change, AsOf
    <2> QED
      BY <2>2, <2>3, <2>4 DEF AsOf
  <1>4. ASSUME NEW p \in Products, ChangeSaved(p)
        PROVE  AsOf(line, k)'
    <2> DEFINE n == Len(eventLog) + 1
    <2>1. /\ DOMAIN eventLog' = DOMAIN eventLog \cup {n} /\ n > k
          /\ \A i \in DOMAIN eventLog : eventLog'[i] = eventLog[i] /\ i < n
          /\ Present(p) /\ eventLog'[n].product = p /\ eventLog'[n].old = items[p].price
          /\ \A q \in Products : q # p => items'[q] = items[q]
      BY <1>2, <1>4 DEF ChangeSaved
    <2> HIDE DEF n
    <2>2. \A i \in DOMAIN eventLog : FirstAfter(i, k)' => FirstAfter(i, k)
      BY <2>1 DEF FirstAfter
    <2>3. ASSUME NEW i \in DOMAIN eventLog', Change(i, line)', FirstAfter(i, k)'
          PROVE  eventLog'[i].old = line.unit
      <3>1. CASE i \in DOMAIN eventLog
        BY <2>1, <2>2, <2>3, <3>1 DEF Change, AsOf
      <3>2. CASE i = n
        <4>1. line.product = p
          BY <2>1, <2>3, <3>2 DEF Change
        <4>2. Silent(p, k)
          BY <2>1, <2>3, <3>2 DEF FirstAfter, Silent
        <4> QED
          BY <2>1, <3>2, <4>1, <4>2 DEF AsOf
      <3> QED
        BY <2>1, <3>1, <3>2
    <2>4. ASSUME Silent(line.product, k)', Present(line.product)'
          PROVE  items'[line.product].price = line.unit
      <3>1. line.product # p
        BY <2>1, <2>4 DEF Silent
      <3>2. Silent(line.product, k)
        BY <2>1, <2>4 DEF Silent
      <3> QED
        BY <1>1, <2>1, <2>4, <3>1, <3>2 DEF AsOf, Present
    <2> QED
      BY <2>3, <2>4 DEF AsOf
  <1> QED
    BY <1>3, <1>4, PriceStep

\* What UpdatePriceInBasketItems makes of a line.
Updated(line, e) ==
    IF B!Matches(line, e) THEN [line EXCEPT !.unit = e.new, !.oldUnit = line.unit] ELSE line

\* The handler takes a line on to the next event, and leaves one that is there as it is.
LEMMA Advances ==
    ASSUME Typing, Chained, WholeCents, NEW k \in Nat, k < Len(eventLog),
           NEW line \in BasketLine, AsOf(line, k) \/ AsOf(line, k + 1),
           NEW e, e.product = eventLog[k + 1].product,
           e.new = eventLog[k + 1].new, e.old = eventLog[k + 1].old
    PROVE  AsOf(Updated(line, e), k + 1)
PROOF
  <1>1. /\ Len(eventLog) \in Nat /\ DOMAIN eventLog = 1..Len(eventLog)
        /\ k + 1 \in DOMAIN eventLog
    BY DEF Typing, TypeOK
  <1>2. CASE line.product # e.product
    <2>1. Updated(line, e) = line
      BY <1>2 DEF Updated, B!Matches
    <2>2. \A i \in DOMAIN eventLog : Change(i, line) /\ FirstAfter(i, k + 1) => FirstAfter(i, k)
      BY <1>1, <1>2 DEF Change, FirstAfter
    <2>3. Silent(line.product, k + 1) => Silent(line.product, k)
      BY <1>1, <1>2 DEF Silent
    <2>4. AsOf(line, k) => AsOf(line, k + 1)
      BY <2>2, <2>3 DEF AsOf
    <2> QED
      BY <2>1, <2>4
  <1>3. CASE line.product = e.product /\ line.unit = e.old
    <2> DEFINE l == Updated(line, e)
    <2>1. l.product = line.product /\ l.unit = e.new
      BY <1>3 DEF Updated, B!Matches, BasketLine
    <2> HIDE DEF l
    <2>2. Stored(e.new) = e.new
      BY <1>1 DEF WholeCents
    <2>3. ASSUME NEW i \in DOMAIN eventLog, Change(i, l), FirstAfter(i, k + 1)
          PROVE  eventLog[i].old = l.unit
      <3>1. eventLog[i].product = eventLog[k + 1].product /\ LatestBefore(k + 1, i)
        BY <1>1, <1>3, <2>1, <2>3 DEF Change, FirstAfter, LatestBefore
      <3> QED
        BY <1>1, <2>1, <2>2, <3>1 DEF Chained, EventsChain
    <2>4. ASSUME Silent(l.product, k + 1), Present(l.product)
          PROVE  items[l.product].price = l.unit
      <3>1. LatestBefore(k + 1, Len(eventLog) + 1) /\ l.product = eventLog[k + 1].product
        BY <1>1, <1>3, <2>1, <2>4 DEF Silent, LatestBefore
      <3> QED
        BY <1>1, <2>1, <2>2, <2>4, <3>1 DEF Chained, EventsChain
    <2>5. AsOf(l, k + 1)
      BY <2>3, <2>4 DEF AsOf
    <2> QED
      BY <2>5 DEF l
  <1>4. CASE line.product = e.product /\ line.unit # e.old
    <2>1. Updated(line, e) = line
      BY <1>4 DEF Updated, B!Matches
    <2>2. Change(k + 1, line) /\ FirstAfter(k + 1, k)
      BY <1>1, <1>4 DEF Change, FirstAfter
    <2>3. ~AsOf(line, k)
      BY <1>1, <1>4, <2>2 DEF AsOf
    <2> QED
      BY <2>1, <2>3
  <1> QED
    BY <1>2, <1>3, <1>4

\* A step that changes neither Catalog nor how far the handler is.
LEMMA SameAsOf ==
    ASSUME UNCHANGED vars, UNCHANGED handled, NEW line
    PROVE  /\ AsOf(line, handled)' <=> AsOf(line, handled)
           /\ AsOf(line, handled + 1)' <=> AsOf(line, handled + 1)
           /\ Recent(line)' <=> Recent(line)
PROOF
  <1>1. /\ AsOf(line, handled)' <=> AsOf(line, handled)
        /\ AsOf(line, handled + 1)' <=> AsOf(line, handled + 1)
    BY DEF AsOf, Change, FirstAfter, Silent, Present, vars, tables
  <1> QED
    BY <1>1 DEF Recent, vars

LEMMA QueueGrows ==
    ASSUME Typing, [Next]_vars
    PROVE  /\ Len(bus) \in Nat /\ Len(bus') \in Nat /\ Len(bus) <= Len(bus')
           /\ \A i \in 1..Len(bus) : bus'[i] = bus[i]
PROOF
  <1>1. bus \in Seq(DOMAIN eventLog)
    BY DEF Typing, TypeOK
  <1>2. ASSUME NEW a \in Admins, Publish(a)
        PROVE  Len(bus') = Len(bus) + 1 /\ \A i \in 1..Len(bus) : bus'[i] = bus[i]
    BY <1>1, <1>2 DEF Publish
  <1> QED
    BY <1>1, <1>2, OnlyPublishHandsOver

\* The exceptions last: what is quiet and in order has been so before.
LEMMA QuietBefore ==
    ASSUME Typing, Types, OneAdmin, Chained, [PricingNext]_pricingVars, Quiet', InOrder'
    PROVE  Quiet /\ InOrder
PROOF
  <1>1. HistoryKept
    BY CatalogStep, HistoryStep
  <1>2. WholeCents
    BY <1>1 DEF Quiet, WholeCents, HistoryKept
  <1>3. InOrder
    BY CatalogStep, QueueGrows DEF InOrder
  <1>4. ~overlap
    BY DEF Quiet, PricingNext, pricingVars
  <1>5. lost' = lost \/ lost' = TRUE
    BY DEF PricingNext, pricingVars, basketVars,
           B!Next, B!ReceiveRequest, B!GetPrice, B!GetBasket, B!PostBasket, B!RequestFails,
           B!Checkout, B!OrderingAnswers, B!DeleteBasket, B!DeleteFails, B!Consume,
           B!HandlePriceChanged, B!ReceivePriceChanged, B!ReadBasket, B!WriteBasket,
           B!AckPriceChanged, B!DeleteOrdered, B!AckOrderStarted, B!HandlerThrows, B!Crash
  <1> QED
    BY <1>2, <1>3, <1>4, <1>5 DEF Quiet

LEMMA AgreementCatalog ==
    ASSUME Typing, Types, OneAdmin, Chained, HeldAreGenuine, SentInOrder, Agreement,
           [Next]_vars, UNCHANGED basketVars, Undisturbed'
    PROVE  Agreement'
PROOF
  <1>1. /\ handled \in Nat /\ handled <= Len(bus) /\ Len(bus) <= Len(eventLog)
        /\ Len(bus) \in Nat /\ Len(eventLog) \in Nat
        /\ cpc \in {"read", "write"} => handled < Len(bus)
    BY SentBounds DEF Types, ConsumerTypes
  <1>2. ASSUME NEW line \in BasketLine, Held(line), AsOf(line, handled)
        PROVE  AsOf(line, handled)'
    <2>1. \A k \in Nat : k <= Len(eventLog) /\ AsOf(line, k) => AsOf(line, k)'
      BY <1>2, StaysAsOf DEF HeldAreGenuine
    <2> QED
      BY <1>1, <1>2, <2>1 DEF basketVars, AsOf, FirstAfter, Silent
  <1>3. ASSUME NEW line \in BasketLine, Held(line), AsOf(line, handled + 1), handled < Len(bus)
        PROVE  AsOf(line, handled + 1)'
    <2>1. handled + 1 \in Nat /\ handled + 1 <= Len(eventLog)
      BY <1>1, <1>3
    <2>2. \A k \in Nat : k <= Len(eventLog) /\ AsOf(line, k) => AsOf(line, k)'
      BY <1>3, StaysAsOf DEF HeldAreGenuine
    <2> QED
      BY <1>3, <2>1, <2>2 DEF basketVars, AsOf, FirstAfter, Silent
  <1>4. ASSUME NEW line \in BasketLine, Held(line), Recent(line)
        PROVE  Recent(line)'
    BY <1>2, <1>3, <1>4, QueueGrows DEF Recent, basketVars, Types, ConsumerTypes
  <1>5. BasketsAgree'
    BY <1>1, <1>3, <1>4 DEF Agreement, BasketsAgree, Passed, Held, basketVars
  <1>6. CopyAgrees'
    BY <1>4 DEF Agreement, CopyAgrees, Held, basketVars
  <1>7. AsksAgree'
    BY <1>2 DEF Agreement, AsksAgree, Asks, Held, basketVars
  <1>8. IdleIsEmpty'
    BY DEF Agreement, IdleIsEmpty, basketVars
  <1> QED
    BY <1>5, <1>6, <1>7, <1>8 DEF Agreement

\* While a request is in, no price is on its way and every line is up to date.
LEMMA BusyMeansDone ==
    ASSUME Typing, Types, SentInOrder, Undisturbed, Busy
    PROVE  /\ ~(handled < Len(bus)) /\ cpc \notin {"read", "write"}
           /\ handled = Len(eventLog) /\ DOMAIN eventLog = 1..Len(eventLog)
           /\ handled \in Nat
PROOF
  <1>1. /\ handled \in Nat /\ handled <= Len(bus) /\ Len(bus) <= Len(eventLog)
        /\ Len(bus) \in Nat /\ Len(eventLog) \in Nat /\ DOMAIN eventLog = 1..Len(eventLog)
        /\ cpc \in {"read", "write"} => handled < Len(bus)
    BY SentBounds DEF Types, ConsumerTypes
  <1>2. ~(handled < Len(eventLog))
    BY DEF Undisturbed, OnItsWay
  <1>3. ~(handled < Len(bus)) /\ handled = Len(eventLog)
    <2>1. /\ handled \in Nat /\ Len(bus) \in Nat /\ Len(eventLog) \in Nat
          /\ handled <= Len(bus) /\ Len(bus) <= Len(eventLog)
      BY <1>1
    <2> QED
      BY <1>2, <2>1
  <1> QED
    BY <1>1, <1>3

LEMMA AgreementRequests ==
    ASSUME Typing, Types, SentInOrder, Agreement, UNCHANGED vars, NEW r \in Requests,
           B!ReceiveRequest(r) \/ B!GetPrice(r) \/ B!GetBasket(r) \/ B!PostBasket(r)
               \/ B!RequestFails(r),
           Undisturbed'
    PROVE  Agreement'
PROOF
  <1> USE DEF Types, RequestTypes, Agreement
  <1>1. UNCHANGED <<handled, cpc, todo, current, copy, bus>>
    BY DEF B!ReceiveRequest, B!GetPrice, B!GetBasket, B!PostBasket, B!RequestFails, B!consumer,
           vars
  <1>2. CopyAgrees'
    BY <1>1, SameAsOf DEF CopyAgrees
  <1>3. ASSUME UNCHANGED baskets
        PROVE  BasketsAgree'
    BY <1>1, <1>3, SameAsOf DEF BasketsAgree, Passed
  <1>4. ASSUME B!EndRequest(r)
        PROVE  AsksAgree' /\ IdleIsEmpty'
    <2>1. /\ apc'[r] = "idle" /\ basket'[r] = {}
          /\ \A s \in Requests : s # r => /\ apc'[s] = apc[s] /\ req'[s] = req[s]
                                         /\ basket'[s] = basket[s]
      BY <1>4 DEF B!EndRequest, B!Goto
    <2>2. ~Priced(apc'[r], req'[r])
      BY <2>1 DEF Priced
    <2>3. \A s \in Requests, line \in BasketLine : Asks(s, line)' => Asks(s, line)
      BY <2>1, <2>2 DEF Asks
    <2> QED
      BY <1>1, <2>1, <2>3, SameAsOf DEF AsksAgree, IdleIsEmpty
  <1>5. CASE B!ReceiveRequest(r)
    <2>1. /\ ~Priced(apc'[r], req'[r]) /\ apc'[r] \in {"price", "read"}
          /\ \A s \in Requests : s # r => apc'[s] = apc[s] /\ req'[s] = req[s]
          /\ UNCHANGED <<baskets, basket>>
      BY <1>5, Received
    <2>2. \A s \in Requests, line \in BasketLine : Asks(s, line)' => Asks(s, line)
      BY <2>1 DEF Asks
    <2>3. AsksAgree' /\ IdleIsEmpty'
      BY <1>1, <2>1, <2>2, SameAsOf DEF AsksAgree, IdleIsEmpty
    <2> QED
      BY <1>2, <1>3, <2>1, <2>3
  <1>6. CASE B!GetPrice(r)
    <2>1. apc[r] = "price" /\ UNCHANGED baskets
      BY <1>6 DEF B!GetPrice
    <2>2. CASE B!NotFound(r)
      BY <1>2, <1>3, <1>4, <1>6, <2>1, <2>2 DEF B!GetPrice
    <2>3. CASE ~B!NotFound(r)
      <3>1. /\ req' = [req EXCEPT ![r].line.unit = Quoted[req[r].line.product]]
            /\ B!Goto(r, IF req[r].op = "Add" THEN "read" ELSE "write")
            /\ UNCHANGED basket
        BY <1>6, <2>3 DEF B!GetPrice
      <3>2. /\ apc'[r] \in {"read", "write"}
            /\ \A s \in Requests : s # r => apc'[s] = apc[s] /\ req'[s] = req[s]
        BY <3>1 DEF B!Goto
      <3>3. req[r] \in Request /\ Placed("price", req[r])
        BY <2>1
      <3>4. req[r].line.product \in Products
        BY <3>3 DEF Placed
      <3>5. /\ req'[r].line.product = req[r].line.product
            /\ req'[r].line.unit = Quoted[req[r].line.product]
        BY <3>1, <3>3 DEF Request, Asked
      <3>6. items[req[r].line.product].price = Quoted[req[r].line.product]
        BY <2>3, <3>4 DEF Quoted, B!NotFound
      <3>7. handled = Len(eventLog) /\ DOMAIN eventLog = 1..Len(eventLog) /\ handled \in Nat
        BY <2>1, BusyMeansDone DEF Busy
      <3>8. ASSUME NEW line \in BasketLine, line = req'[r].line
            PROVE  AsOf(line, handled)
        BY <3>5, <3>6, <3>7, <3>8 DEF AsOf, FirstAfter
      <3>9. ASSUME NEW s \in Requests, NEW line \in BasketLine, Asks(s, line)'
            PROVE  AsOf(line, handled)
        BY <3>1, <3>2, <3>8, <3>9 DEF Asks, AsksAgree
      <3>10. AsksAgree' /\ IdleIsEmpty'
        BY <1>1, <3>1, <3>2, <3>9, SameAsOf DEF AsksAgree, IdleIsEmpty
      <3> QED
        BY <1>2, <1>3, <2>1, <3>10
    <2> QED
      BY <2>2, <2>3
  <1>7. CASE B!GetBasket(r)
    <2>1. apc[r] = "read" /\ UNCHANGED baskets
      BY <1>7 DEF B!GetBasket
    <2>2. CASE req[r].op = "SetQuantities" /\ baskets[req[r].user] = {}
      BY <1>2, <1>3, <1>4, <1>7, <2>1, <2>2 DEF B!GetBasket
    <2>3. CASE ~(req[r].op = "SetQuantities" /\ baskets[req[r].user] = {})
      <3>1. /\ basket' = [basket EXCEPT ![r] = baskets[req[r].user]]
            /\ B!Goto(r, IF req[r].op = "UpdateAll" THEN "price" ELSE "write")
            /\ UNCHANGED req
        BY <1>7, <2>3 DEF B!GetBasket
      <3>2. req[r] \in Request /\ Placed("read", req[r])
        BY <2>1
      <3>3. /\ req[r].user \in Users
            /\ req[r].op \in {"Add", "UpdateAll", "SetQuantities"}
        BY <3>2 DEF Placed, Request
      <3>4. Priced(apc'[r], req'[r]) => Priced(apc[r], req[r])
        BY <2>1, <3>1, <3>3 DEF Priced, B!Goto
      <3>5. /\ apc'[r] \in {"price", "write"}
            /\ \A s \in Requests : s # r => apc'[s] = apc[s] /\ basket'[s] = basket[s]
        BY <3>1 DEF B!Goto
      <3>6. basket'[r] = baskets[req[r].user]
        BY <3>1
      <3>7. ~(handled < Len(bus))
        BY <2>1, BusyMeansDone DEF Busy
      <3>8. ASSUME NEW line \in BasketLine, line \in baskets[req[r].user]
            PROVE  AsOf(line, handled)
        BY <3>3, <3>7, <3>8 DEF BasketsAgree, Recent
      <3>9. ASSUME NEW s \in Requests, NEW line \in BasketLine, Asks(s, line)'
            PROVE  AsOf(line, handled)
        BY <3>1, <3>4, <3>5, <3>6, <3>8, <3>9 DEF Asks, AsksAgree
      <3>10. AsksAgree' /\ IdleIsEmpty'
        BY <1>1, <3>5, <3>9, SameAsOf DEF AsksAgree, IdleIsEmpty
      <3> QED
        BY <1>2, <1>3, <2>1, <3>10
    <2> QED
      BY <2>2, <2>3
  <1>8. CASE B!PostBasket(r)
    <2>1. /\ apc[r] = "write" /\ B!EndRequest(r)
          /\ baskets' = [baskets EXCEPT ![req[r].user] = B!Merged(r)]
      BY <1>8 DEF B!PostBasket
    <2>2. cpc \notin {"read", "write"}
      BY <2>1, BusyMeansDone DEF Busy
    <2>3. \A line \in BasketLine : line \in B!Merged(r) => AsOf(line, handled)
      BY <2>1 DEF B!Merged, AsksAgree, Asks, Priced
    <2>4. \A u \in Users, line \in BasketLine :
             line \in baskets'[u] => line \in baskets[u] \/ line \in B!Merged(r)
      BY <2>1 DEF BasketTypes
    <2>5. \A u \in Users, line \in BasketLine : line \in baskets'[u] => Recent(line)
      BY <2>3, <2>4 DEF BasketsAgree, Recent
    <2>6. BasketsAgree'
      BY <1>1, <2>2, <2>5, SameAsOf DEF BasketsAgree, Passed
    <2> QED
      BY <1>2, <1>4, <2>1, <2>6
  <1>9. CASE B!RequestFails(r)
    BY <1>2, <1>3, <1>4, <1>9 DEF B!RequestFails
  <1> QED
    BY <1>5, <1>6, <1>7, <1>8, <1>9

LEMMA AgreementConsumer ==
    ASSUME Typing, Types, SentInOrder, Chained, WholeCents, Agreement, InOrder,
           UNCHANGED vars, UNCHANGED B!aggregator,
           \/ B!Consume \/ B!Crash
           \/ \E u \in Users : B!DeleteFails(u) \/ B!Checkout(u) \/ B!OrderingAnswers(u)
                               \/ B!DeleteBasket(u),
           Undisturbed'
    PROVE  Agreement'
PROOF
  <1> USE DEF Types, BasketTypes, ConsumerTypes, Agreement
  <1>1. IdleIsEmpty'
    BY DEF IdleIsEmpty, B!aggregator
  <1>2. \A s \in Requests, line \in BasketLine : Asks(s, line)' => Asks(s, line)
    BY DEF Asks, B!aggregator
  <1>3. ASSUME UNCHANGED handled
        PROVE  AsksAgree'
    BY <1>2, <1>3, SameAsOf DEF AsksAgree
  <1>4. UNCHANGED bus
    BY DEF vars
  <1>5. ASSUME UNCHANGED <<handled, cpc, todo, current, copy>>,
               \/ UNCHANGED baskets
               \/ \E u \in Users : baskets' = [baskets EXCEPT ![u] = {}]
        PROVE  Agreement'
    <2>1. \A u \in Users : baskets'[u] \subseteq baskets[u]
      BY <1>5
    <2>2. BasketsAgree'
      BY <1>5, <2>1, SameAsOf DEF BasketsAgree, Passed
    <2>3. CopyAgrees'
      BY <1>5, SameAsOf DEF CopyAgrees
    <2> QED
      BY <1>1, <1>3, <1>5, <2>2, <2>3
  <1>6. ASSUME NEW u \in Users,
               B!DeleteFails(u) \/ B!Checkout(u) \/ B!OrderingAnswers(u) \/ B!DeleteBasket(u)
        PROVE  Agreement'
    BY <1>5, <1>6 DEF B!DeleteFails, B!Checkout, B!OrderingAnswers, B!DeleteBasket, B!consumer
  <1>7. ASSUME UNCHANGED handled, cpc' \in {"idle", "ack"},
               \/ UNCHANGED baskets
               \/ \E u \in Users : baskets' = [baskets EXCEPT ![u] = {}]
        PROVE  Agreement'
    <2>1. \A u \in Users : baskets'[u] \subseteq baskets[u]
      BY <1>7
    <2>2. BasketsAgree'
      BY <1>7, <2>1, SameAsOf DEF BasketsAgree, Passed
    <2>3. CopyAgrees'
      BY <1>7 DEF CopyAgrees
    <2> QED
      BY <1>1, <1>3, <1>7, <2>2, <2>3
  <1>8. CASE B!Crash \/ B!AckOrderStarted \/ \E u \in Users : B!DeleteOrdered(u)
    BY <1>7, <1>8 DEF B!Crash, B!AckOrderStarted, B!DeleteOrdered, B!Reset
  <1>9. CASE B!ReceivePriceChanged
    <2>1. /\ UNCHANGED <<handled, baskets, current, copy>> /\ cpc' = "read"
          /\ B!Owners \subseteq todo'
      BY <1>9 DEF B!ReceivePriceChanged
    <2>2. \A u \in Users : Passed(u)' => baskets[u] = {}
      BY <2>1 DEF Passed, B!Owners
    <2>3. BasketsAgree'
      BY <2>1, <2>2, SameAsOf DEF BasketsAgree
    <2>4. CopyAgrees'
      BY <2>1 DEF CopyAgrees
    <2> QED
      BY <1>1, <1>3, <2>1, <2>3, <2>4
  <1>10. ASSUME NEW u \in Users, B!ReadBasket(u)
         PROVE  Agreement'
    <2>1. UNCHANGED <<handled, baskets>> /\ cpc = "read" /\ todo' = todo \ {u}
      BY <1>10 DEF B!ReadBasket
    <2>2. \/ baskets[u] = {} /\ UNCHANGED <<cpc, current, copy>>
          \/ cpc' = "write" /\ current' = u /\ copy' = baskets[u]
      BY <1>10 DEF B!ReadBasket
    <2>3. \A v \in Users : Passed(v)' => Passed(v) \/ baskets[v] = {}
      BY <2>1, <2>2 DEF Passed
    <2>4. BasketsAgree'
      BY <2>1, <2>3, SameAsOf DEF BasketsAgree
    <2>5. CopyAgrees'
      BY <2>1, <2>2, SameAsOf DEF CopyAgrees, BasketsAgree
    <2> QED
      BY <1>1, <1>3, <2>1, <2>4, <2>5
  <1>11. CASE B!WriteBasket
    <2> DEFINE e == Queue[handled + 1]
    <2>1. /\ baskets' = [baskets EXCEPT ![current] = B!Repriced(copy, e)]
          /\ cpc = "write" /\ cpc' = "read" /\ UNCHANGED <<handled, todo>>
          /\ current \in Users /\ handled < Len(bus)
      BY <1>11 DEF B!WriteBasket
    <2>2. /\ handled \in Nat /\ handled < Len(eventLog) /\ bus[handled + 1] = handled + 1
      BY <2>1, SentBounds DEF InOrder
    <2>3. /\ e.product = eventLog[handled + 1].product
          /\ e.new = eventLog[handled + 1].new /\ e.old = eventLog[handled + 1].old
      BY <2>1, <2>2, NextMessage
    <2> HIDE DEF e
    <2>4. ASSUME NEW line \in BasketLine, line \in copy
          PROVE  AsOf(Updated(line, e), handled + 1)
      <3>1. AsOf(line, handled) \/ AsOf(line, handled + 1)
        BY <2>1, <2>4 DEF CopyAgrees, Recent
      <3> QED
        BY <2>2, <2>3, <3>1, Advances
    <2>5. B!Repriced(copy, e) = {Updated(line, e) : line \in copy}
      BY DEF B!Repriced, Updated
    <2>6. \A line \in B!Repriced(copy, e) : AsOf(line, handled + 1)
      BY <2>4, <2>5
    <2>7. ASSUME NEW u \in Users, NEW line \in BasketLine, line \in baskets'[u]
          PROVE  Recent(line) /\ (Passed(u)' => AsOf(line, handled + 1))
      <3>1. CASE u = current
        BY <2>1, <2>6, <2>7, <3>1 DEF Recent
      <3>2. CASE u # current
        BY <2>1, <2>7, <3>2 DEF BasketsAgree, Passed
      <3> QED
        BY <3>1, <3>2
    <2>8. BasketsAgree'
      BY <2>1, <2>7, SameAsOf DEF BasketsAgree
    <2>9. CopyAgrees'
      BY <2>1 DEF CopyAgrees
    <2> QED
      BY <1>1, <1>3, <2>1, <2>8, <2>9
  <1>12. CASE B!AckPriceChanged
    <2>1. /\ cpc = "read" /\ todo = {} /\ handled' = handled + 1 /\ cpc' = "idle"
          /\ UNCHANGED baskets
      BY <1>12 DEF B!AckPriceChanged, B!Reset
    <2>2. \A u \in Users, line \in BasketLine : line \in baskets[u] => AsOf(line, handled + 1)
      BY <2>1 DEF BasketsAgree, Passed
    <2>3. \A line : AsOf(line, handled)' <=> AsOf(line, handled + 1)
      BY <2>1 DEF AsOf, Change, FirstAfter, Silent, Present, vars, tables
    <2>4. BasketsAgree'
      BY <2>1, <2>2, <2>3 DEF BasketsAgree, Recent, Passed
    <2>5. ~Busy
      BY <2>1, BusyMeansDone
    <2>6. \A s \in Requests, line \in BasketLine : ~Asks(s, line)
      BY <2>5 DEF Busy, Asks, IdleIsEmpty, Priced
    <2>7. AsksAgree'
      BY <1>2, <2>6 DEF AsksAgree
    <2>8. CopyAgrees'
      BY <2>1 DEF CopyAgrees
    <2> QED
      BY <1>1, <2>4, <2>7, <2>8
  <1> QED
    BY <1>6, <1>8, <1>9, <1>10, <1>11, <1>12 DEF B!Consume, B!HandlePriceChanged

\* As long as no request has met a price on its way, none does.
Met == ~overlap => Undisturbed

LEMMA AgreeingInit == PricingInit => Met /\ Agreeing
PROOF
  <1> SUFFICES ASSUME PricingInit PROVE Met /\ Agreeing
    OBVIOUS
  <1>1. /\ baskets = [u \in Users |-> {}] /\ copy = {} /\ cpc = "idle"
        /\ basket = [r \in Requests |-> {}] /\ apc = [r \in Requests |-> "idle"]
    BY DEF PricingInit, B!Init
  <1>2. ~Busy
    BY <1>1 DEF Busy
  <1>3. BasketsAgree /\ CopyAgrees /\ AsksAgree /\ IdleIsEmpty
    BY <1>1 DEF BasketsAgree, CopyAgrees, AsksAgree, IdleIsEmpty, Asks, Priced
  <1> QED
    BY <1>2, <1>3 DEF Met, Agreeing, Agreement, Undisturbed

LEMMA AgreeingStep ==
    Typing /\ OneAdmin /\ Chained /\ Types /\ HeldAreGenuine /\ SentInOrder /\ Met /\ Agreeing
            /\ [PricingNext]_pricingVars
        => Met' /\ Agreeing'
PROOF
  <1> SUFFICES ASSUME Typing, OneAdmin, Chained, Types, HeldAreGenuine, SentInOrder, Met,
                      Agreeing, [PricingNext]_pricingVars
               PROVE  Met' /\ Agreeing'
    OBVIOUS
  <1>1. Met'
    <2>1. CASE PricingNext
      BY <2>1 DEF PricingNext, Met, Undisturbed
    <2>2. CASE UNCHANGED pricingVars
      BY <2>2 DEF pricingVars, basketVars, vars, tables, Met, Undisturbed, Busy, OnItsWay
    <2> QED
      BY <2>1, <2>2
  <1>2. ASSUME Quiet', InOrder'
        PROVE  Agreement'
    <2>1. Agreement /\ Quiet /\ InOrder
      BY <1>2, QuietBefore DEF Agreeing
    <2>2. Undisturbed' /\ lost' = FALSE /\ lost = FALSE
      BY <1>1, <1>2, <2>1 DEF Met, Quiet, Types, OtherTypes
    <2>3. CASE UNCHANGED basketVars
      BY <2>1, <2>2, <2>3, CatalogStep, AgreementCatalog
    <2>4. CASE UNCHANGED vars /\ B!Next
      <3>1. ~B!HandlerThrows
        BY <2>2 DEF B!HandlerThrows
      <3>2. \/ \E r \in Requests : B!ReceiveRequest(r) \/ B!GetPrice(r) \/ B!GetBasket(r)
                                  \/ B!PostBasket(r) \/ B!RequestFails(r)
            \/ /\ UNCHANGED B!aggregator
               /\ \/ B!Consume \/ B!Crash
                  \/ \E u \in Users : B!DeleteFails(u) \/ B!Checkout(u) \/ B!OrderingAnswers(u)
                                      \/ B!DeleteBasket(u)
        BY <2>4, <3>1 DEF B!Next, B!Consume, B!HandlePriceChanged, B!ReceivePriceChanged,
           B!ReadBasket, B!WriteBasket, B!AckPriceChanged, B!DeleteOrdered,
           B!AckOrderStarted, B!Crash, B!DeleteFails, B!Checkout,
           B!OrderingAnswers, B!DeleteBasket
      <3>3. WholeCents
        BY <2>1 DEF Quiet
      <3> QED
        BY <2>1, <2>2, <2>4, <3>2, <3>3, AgreementRequests, AgreementConsumer
    <2> QED
      BY <2>3, <2>4 DEF PricingNext, pricingVars
  <1> QED
    BY <1>1, <1>2 DEF Agreeing

LEMMA SentInvariant == OneAdmin => (PricingSpec => []SentInOrder)
PROOF
  <1> SUFFICES ASSUME OneAdmin PROVE PricingSpec => []SentInOrder
    OBVIOUS
  <1>1. PricingInit => SentInOrder
    BY SentInit DEF PricingInit
  <1>2. Typing /\ SentInOrder /\ [PricingNext]_pricingVars => SentInOrder'
    BY SentStep, CatalogStep
  <1> QED
    BY <1>1, <1>2, CatalogTyped, PTL DEF PricingSpec

\* While administrators work one after the other: when no price is on its way, every line
\* of every basket has the price the catalog has, unless a request met a price on its way,
\* a handler's failure was acknowledged or a price was finer than the column.  Crashes and
\* redeliveries half way through the baskets, deleted products, baskets that come and go,
\* events that are saved and never sent, and prices that go back do not upset it.
THEOREM PricesComeToAgree == OneAdmin => (PricingSpec => []PricesAgree)
PROOF
  <1> SUFFICES ASSUME OneAdmin PROVE PricingSpec => []PricesAgree
    OBVIOUS
  <1>1. Typing /\ Chained /\ Types /\ HeldAreGenuine /\ SentInOrder /\ Met /\ Agreeing
            /\ [PricingNext]_pricingVars => Met' /\ Agreeing'
    BY AgreeingStep
  <1>2. Typing /\ Types /\ SentInOrder /\ Agreeing => PricesAgree
    <2> SUFFICES ASSUME Typing, Types, SentInOrder, Agreeing, Quiet, ~OnItsWay,
                        NEW u \in Users, NEW line \in baskets[u]
                 PROVE  Quoted[line.product] \in {0, line.unit}
      BY DEF PricesAgree, Quiet
    <2>1. /\ handled \in Nat /\ handled <= Len(bus) /\ Len(bus) <= LastSent
          /\ LastSent <= Len(eventLog) /\ Len(bus) \in Nat /\ LastSent \in Nat
          /\ Len(eventLog) \in Nat /\ DOMAIN eventLog = 1..Len(eventLog)
      BY SentBounds DEF Types, ConsumerTypes
    <2>2. handled = Len(eventLog) /\ Len(bus) = LastSent
      <3>1. ~(handled < Len(eventLog))
        BY DEF OnItsWay
      <3>2. /\ handled \in Nat /\ Len(bus) \in Nat /\ LastSent \in Nat
            /\ Len(eventLog) \in Nat
            /\ handled <= Len(bus) /\ Len(bus) <= LastSent /\ LastSent <= Len(eventLog)
        BY <2>1
      <3> QED
        BY <3>1, <3>2
    <2>3. InOrder
      BY <2>1, <2>2 DEF SentInOrder
    <2>4. line \in BasketLine
      BY DEF Types, BasketTypes
    <2>5. Recent(line)
      BY <2>3, <2>4 DEF Agreeing, Agreement, BasketsAgree
    <2>6. AsOf(line, handled) /\ Silent(line.product, handled)
      BY <2>1, <2>2, <2>5 DEF Recent, Silent
    <2>7. line.product \in Products
      BY <2>4 DEF BasketLine
    <2> QED
      BY <2>6, <2>7 DEF AsOf, Quoted
  <1> QED
    BY <1>1, <1>2, AgreeingInit, TypesInvariant, CatalogChained, HeldInvariant, SentInvariant,
       PTL DEF PricingSpec
=============================================================================
