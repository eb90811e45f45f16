--------------------------- MODULE OrderingProofs ---------------------------
(***************************************************************************)
(* The safety theorems of module Ordering, for every number of orders,     *)
(* consumers, HTTP requests, request ids, faults and crashes.              *)
(*                                                                         *)
(* Each has an inductive invariant of its own on top of Typing: what every *)
(* worker's scope holds, in terms of the tables.                           *)
(***************************************************************************)
EXTENDS OutboxProofs

-----------------------------------------------------------------------------
(* IdentifiedCommandHandler: executed at most once *)

\* A worker that runs the inner command holds the row of its request in an open
\* transaction, and no committed row has that id.
HoldsRequest(w) ==
    /\ pc[w] = "handle" /\ Identified(w) => tx[w].request
    /\ pc[w] = "commit" /\ Identified(w) /\ inner[w] => tx[w].request
    /\ tx[w].request => cmd[w].req \notin requests

\* Only one open transaction holds the row of a request; one that has been executed
\* has a committed row.
OnceInv ==
    /\ \A w \in Workers : HoldsRequest(w)
    /\ \A v, w \in Workers : tx[v].request /\ tx[w].request /\ cmd[v].req = cmd[w].req => v = w
    /\ \A r \in Requests : executed[r] <= 1 /\ (executed[r] # 0 => r \in requests)

\* A step of worker w that writes neither table keeps the invariant if w does not get
\* hold of another request.
LEMMA OnceKept ==
    ASSUME OnceInv, NEW w \in Workers, OthersUnchanged(w), UNCHANGED <<requests, executed>>,
           HoldsRequest(w)', tx'[w].request => tx[w].request /\ cmd'[w].req = cmd[w].req
    PROVE  OnceInv'
PROOF
  BY DEF OnceInv, HoldsRequest, OthersUnchanged, Identified

\* The end of a scope gives the request up.
LEMMA OnceEndScope ==
    ASSUME Typing, NEW w \in Workers, EndScope(w)
    PROVE  HoldsRequest(w)' /\ ~tx'[w].request
PROOF
  BY DEF EndScope, Goto, Typing, TypeOK, HoldsRequest, NoWrites

\* A commit makes the row of the request, if the worker holds it, a committed one.
LEMMA OnceWrites ==
    ASSUME Typing, OnceInv, NEW w \in Workers, pc[w] = "commit", OthersUnchanged(w),
           WriteTables(w), HoldsRequest(w)', ~tx'[w].request
    PROVE  OnceInv'
PROOF
  <1>1. ControlOf(w) /\ HoldsRequest(w)
    BY DEF Typing, Control, OnceInv
  <1>2. ASSUME NEW v \in Workers
        PROVE  HoldsRequest(v)'
    <2>1. CASE v = w
      BY <2>1
    <2>2. CASE v # w
      <3>1. /\ HoldsRequest(v)
            /\ tx[v].request /\ tx[w].request => cmd[v].req # cmd[w].req
        BY <2>2 DEF OnceInv
      <3>2. requests' = IF tx[w].request THEN requests \cup {cmd[w].req} ELSE requests
        BY DEF WriteTables
      <3> QED
        BY <2>2, <3>1, <3>2 DEF HoldsRequest, OthersUnchanged, Identified
    <2> QED
      BY <2>1, <2>2
  <1>3. ASSUME NEW u \in Workers, NEW v \in Workers, tx'[u].request, tx'[v].request,
               cmd'[u].req = cmd'[v].req
        PROVE  u = v
    BY <1>3 DEF OnceInv, OthersUnchanged
  <1>4. ASSUME NEW r \in Requests
        PROVE  executed'[r] <= 1 /\ (executed'[r] # 0 => r \in requests')
    <2>1. executed[r] \in Nat /\ executed[r] <= 1 /\ (executed[r] # 0 => r \in requests)
      BY DEF OnceInv, Typing, TypeOK
    <2>2. requests \subseteq requests' /\ (tx[w].request => cmd[w].req \in requests')
      BY DEF WriteTables
    <2>3. CASE Identified(w) /\ inner[w]
      <3>1. /\ tx[w].request /\ cmd[w].req \notin requests
            /\ executed' = [executed EXCEPT ![cmd[w].req] = executed[cmd[w].req] + 1]
        BY <1>1, <2>3 DEF HoldsRequest, WriteTables
      <3>2. executed'[r] = IF r = cmd[w].req THEN executed[r] + 1 ELSE executed[r]
        BY <3>1 DEF Typing, TypeOK
      <3> QED
        BY <2>1, <2>2, <3>1, <3>2
    <2>4. CASE ~(Identified(w) /\ inner[w])
      BY <2>1, <2>2, <2>4 DEF WriteTables
    <2> QED
      BY <2>3, <2>4
  <1> QED
    BY <1>2, <1>3, <1>4 DEF OnceInv

\* No step breaks the invariant.
LEMMA OnceStep ==
    ASSUME Typing, OnceInv, [Next]_vars
    PROVE  OnceInv'
PROOF
  <1> USE DEF database, outside, history
  <1>1. ASSUME NEW w \in Workers, Arrive(w)
        PROVE  OnceInv'
    <2>1. /\ pc'[w] = "begin" /\ tx'[w] = tx[w] /\ tx[w] = NoWrites
          /\ UNCHANGED <<requests, executed>>
      BY <1>1 DEF Arrive, ReceiveCheckout, ReceiveGracePeriod, ReceiveStockAnswer,
                  ReceivePaymentAnswer, ReceiveHttp, Receive, Goto, Typing, TypeOK,
                  Control, ControlOf
    <2> QED
      BY <1>1, <2>1, OnceKept, WorkersAreLocal DEF HoldsRequest, NoWrites, Typing
  <1>2. ASSUME NEW w \in Workers, Work(w)
        PROVE  OnceInv'
    <2> DEFINE RowKept == /\ UNCHANGED <<requests, executed>> /\ HoldsRequest(w)'
                          /\ tx'[w].request => tx[w].request /\ cmd'[w].req = cmd[w].req
    <2>1. OthersUnchanged(w) /\ ControlOf(w) /\ HoldsRequest(w)
      BY <1>2, WorkersAreLocal DEF Typing, Control, OnceInv
    <2>2. RowKept => OnceInv'
      BY <2>1, OnceKept
    <2>3. EndScope(w) /\ UNCHANGED <<requests, executed>> => RowKept
      BY OnceEndScope
    <2>4. CASE Begin(w)
      <3>1. /\ UNCHANGED <<requests, executed>> /\ tx'[w] = NoWrites /\ ~inner'[w]
            /\ cmd'[w] = cmd[w] /\ (pc'[w] = "handle" => ~Identified(w))
        BY <2>4 DEF Begin, Goto, Typing, TypeOK
      <3> QED
        BY <2>2, <3>1 DEF HoldsRequest, NoWrites, Identified
    <2>5. CASE (InsertRequest(w) /\ RowExists(w)) \/ BeginFails(w)
      BY <2>2, <2>3, <2>5 DEF InsertRequest, BeginFails
    <2>6. CASE InsertRequest(w) /\ ~RowExists(w)
      <3>1. /\ UNCHANGED <<requests, executed>> /\ cmd'[w] = cmd[w]
            /\ tx'[w].request /\ pc'[w] = "handle"
        BY <2>6 DEF InsertRequest, Goto, Typing, TypeOK, Transaction
      <3>2. /\ \A v \in Workers \ {w} : tx[v].request => cmd[v].req # cmd[w].req
            /\ cmd[w].req \notin requests
        BY <2>6 DEF InsertRequest, RequestLocked, RowExists
      <3> QED
        BY <2>1, <3>1, <3>2 DEF OnceInv, HoldsRequest, OthersUnchanged, Identified
    <2>7. CASE OrderMissing(w) \/ SetStatus(w)
      <3>1. /\ UNCHANGED <<requests, executed>> /\ cmd'[w] = cmd[w] /\ pc'[w] = "commit"
            /\ pc[w] = "handle" /\ tx'[w].request = tx[w].request
        BY <2>7 DEF OrderMissing, SetStatus, Return, Goto, Typing, TypeOK, Transaction
      <3> QED
        BY <2>1, <2>2, <3>1 DEF HoldsRequest, Identified
    <2>8. CASE SetStatusThrows(w)
      <3>1. pc[w] = "handle" /\ \E row, b : HandlerThrows(w, row, b)
        BY <2>8 DEF SetStatusThrows
      <3>2. PICK row, b : HandlerThrows(w, row, b)
        BY <3>1
      <3>3. CASE Identified(w)
        <4>1. /\ UNCHANGED <<requests, executed>> /\ cmd'[w] = cmd[w] /\ pc'[w] = "commit"
              /\ tx'[w] = tx[w]
          BY <3>2, <3>3 DEF HandlerThrows, Return, Goto, Typing, TypeOK
        <4> QED
          BY <2>1, <2>2, <3>1, <4>1 DEF HoldsRequest, Identified
      <3>4. CASE ~Identified(w)
        BY <2>2, <2>3, <3>2, <3>4 DEF HandlerThrows
      <3> QED
        BY <3>3, <3>4
    <2>9. CASE CreateOrder(w) \/ CreateOrderInvalid(w) \/ CreateOrderThrows(w)
      <3>1. /\ UNCHANGED <<requests, executed>> /\ pc'[w] = "commit" /\ pc[w] = "handle"
        BY <2>9 DEF CreateOrder, CreateOrderInvalid, CreateOrderThrows, Return, Goto,
                    Typing, TypeOK
      <3>2. tx'[w].request = tx[w].request /\ cmd'[w].req = cmd[w].req
        <4> USE DEF Typing, TypeOK, Transaction, Command
        <4>1. CASE CreateOrder(w)
          BY <4>1 DEF CreateOrder
        <4>2. CASE CreateOrderInvalid(w)
          BY <4>2 DEF CreateOrderInvalid
        <4>3. CASE CreateOrderThrows(w)
          <5>1. CASE tx' = [tx EXCEPT ![w].events = <<OrderStarted>>] /\ UNCHANGED cmd
            BY <5>1
          <5>2. ASSUME NEW o \in Orders, NEW b \in BOOLEAN,
                       cmd' = [cmd EXCEPT ![w].order = o],
                       tx' = [tx EXCEPT ![w].order = b, ![w].events = <<OrderStarted>>]
                PROVE  tx'[w].request = tx[w].request /\ cmd'[w].req = cmd[w].req
            BY <5>2
          <5> QED
            BY <4>3, <5>1, <5>2 DEF CreateOrderThrows
        <4> QED
          BY <2>9, <4>1, <4>2, <4>3
      <3> QED
        BY <2>1, <2>2, <3>1, <3>2 DEF HoldsRequest, Identified
    <2>10. CASE Commit(w)
      <3>1. /\ pc[w] = "commit" /\ WriteTables(w) /\ pc'[w] = "publish" /\ tx'[w] = NoWrites
        BY <2>10 DEF Commit, Goto, Typing, TypeOK
      <3> QED
        BY <2>1, <3>1, OnceWrites DEF HoldsRequest, NoWrites
    <2>11. CASE CommitFails(w)
      <3>1. CASE EndScope(w)
        BY <2>2, <2>3, <2>11, <3>1 DEF CommitFails
      <3>2. CASE Goto(w, "begin") /\ tx' = [tx EXCEPT ![w] = NoWrites]
        BY <2>2, <2>11, <3>2 DEF CommitFails, Goto, HoldsRequest, NoWrites, Typing, TypeOK
      <3> QED
        BY <2>11, <3>1, <3>2 DEF CommitFails
    <2>12. CASE CommitAckLost(w)
      <3>1. pc[w] = "commit" /\ WriteTables(w)
        BY <2>12 DEF CommitAckLost
      <3>2. HoldsRequest(w)' /\ ~tx'[w].request
        <4>1. CASE EndScope(w)
          BY <4>1, OnceEndScope
        <4>2. CASE Goto(w, "begin") /\ tx' = [tx EXCEPT ![w] = NoWrites]
          BY <4>2 DEF Goto, HoldsRequest, NoWrites, Typing, TypeOK
        <4> QED
          BY <2>12, <4>1, <4>2 DEF CommitAckLost
      <3> QED
        BY <2>1, <3>1, <3>2, OnceWrites
    <2>13. CASE \/ MarkInProgress(w) \/ Publish(w) \/ MarkPublished(w)
                \/ PublishFails(w) \/ MarkFailed(w)
      <3>1. /\ UNCHANGED <<requests, executed, cmd, tx>>
            /\ pc'[w] \notin {"handle", "commit"}
        BY <2>13 DEF MarkInProgress, Publish, MarkPublished, PublishFails, MarkFailed, Goto,
                     Typing, TypeOK
      <3> QED
        BY <2>1, <2>2, <3>1 DEF HoldsRequest
    <2>14. CASE MarkFailedFails(w)
      <3>1. CASE EndScope(w)
        BY <2>2, <2>3, <2>14, <3>1 DEF MarkFailedFails
      <3>2. CASE Goto(w, "begin") /\ UNCHANGED <<cmd, tx>>
        BY <2>1, <2>2, <2>14, <3>2 DEF MarkFailedFails, Goto, HoldsRequest, Typing, TypeOK
      <3> QED
        BY <2>14, <3>1, <3>2 DEF MarkFailedFails
    <2>15. CASE Finish(w)
      BY <2>2, <2>3, <2>15 DEF Finish
    <2> QED
      BY <1>2, <2>4, <2>5, <2>6, <2>7, <2>8, <2>9, <2>10, <2>11, <2>12, <2>13, <2>14, <2>15
      DEF Work
  <1>3. CASE Crash
    BY <1>3 DEF Crash, OnceInv, HoldsRequest, NoWrites
  <1>4. CASE \E o \in Orders : GracePeriodPoll(o)
    BY <1>4 DEF GracePeriodPoll, local, OnceInv, HoldsRequest, Identified
  <1>5. CASE UNCHANGED vars
    BY <1>5 DEF vars, local, OnceInv, HoldsRequest, Identified
  <1> QED
    BY <1>1, <1>2, <1>3, <1>4, <1>5 DEF Next

\* IdentifiedCommandHandler executes the command of a request id at most once, whatever
\* the number of workers, deliveries, retries and crashes.
THEOREM RequestsExecutedOnce == Spec => []ExecutedAtMostOnce
PROOF
  <1>1. Init => OnceInv
    BY DEF Init, OnceInv, HoldsRequest, NoWrites
  <1>2. OnceInv => ExecutedAtMostOnce
    BY DEF OnceInv, ExecutedAtMostOnce
  <1> QED
    BY <1>1, <1>2, OnceStep, TypingInvariant, PTL DEF Spec

-----------------------------------------------------------------------------
(* The steps of the order process *)

\* The statuses up to and including this one whose events StepsAreSaved is about.
Upto(status) == Before(status) \cup
                ({status} \cap {AwaitingValidation, StockConfirmed, Paid})

\* The part of a worker's scope that can reach table orders.
ScopeInv(w) ==
    /\ pc[w] = "idle" => ctx[w] = EmptyContext
    /\ cmd[w].op \in {"Create", "Ship"} /\ pc[w] # "idle" => Identified(w)
    /\ cmd[w].op \notin {"Create", "Ship", "Cancel"} => ~Identified(w)
    /\ ctx[w].dirty => Identified(w) /\ ctx[w].order # NoRow
    /\ Identified(w) /\ ctx[w].order # NoRow => ctx[w].request
    /\ pc[w] = "insert" => ~ctx[w].request
    /\ pc[w] = "handle" => ~tx[w].order
    /\ pc[w] = "handle" /\ Identified(w) => ctx[w].request /\ ctx[w].order = NoRow
    /\ ~Identified(w) /\ ctx[w].order # NoRow
          => cmd[w].op = "Cancel" \/ ~Acts(cmd[w].op, ctx[w].order.status)

\* What a worker may write: the steps that lead to its status are saved or will be
\* with it.
WritesInv(w) ==
    /\ ctx[w].dirty \/ tx[w].order => cmd[w].order \in Orders
    /\ ctx[w].dirty => \A s \in Upto(ctx[w].order.status) : Saved(<<s, cmd[w].order>>)
    /\ tx[w].order => \A s \in Upto(ctx[w].order.status) :
                         \/ Saved(<<s, cmd[w].order>>)
                         \/ \E i \in DOMAIN tx[w].events : tx[w].events[i] = <<s, cmd[w].order>>

\* A row, committed or tracked, without a buyer.
BuyerOK(row) == ~row.buyer => row.status \in {"none", Submitted, Cancelled}

WorkerInv(w) == ScopeInv(w) /\ WritesInv(w) /\ BuyerOK(ctx[w].order)

\* Not only the statuses before an order's own have been saved: its own has, too.
RowInv(o) == BuyerOK(orders[o]) /\ \A s \in Upto(orders[o].status) : Saved(<<s, o>>)

OrderInv == (\A w \in Workers : WorkerInv(w)) /\ (\A o \in Orders : RowInv(o))

\* What a domain method does to the steps of an order: it adds the one it announces,
\* and doing it again has no effect.
LEMMA MethodSteps ==
    ASSUME NEW op \in StatusOp, NEW status, Acts(op, status)
    PROVE  /\ \A s \in Upto(Target(op)) : \/ s \in Upto(status)
                                          \/ s = Target(op) /\ Raises(op, status)
           /\ op \notin {"Cancel", "Ship"} => ~Acts(op, Target(op))
           /\ op \in {"Cancel", "Ship"} => Upto(Target(op)) \subseteq Upto(status)
           /\ op = "Cancel" => Upto(Target(op)) = {}
           /\ Target(op) # "none"
PROOF
  BY DEF StatusOp, Acts, Throws, Raises, Target, Upto, Before, Submitted, AwaitingValidation,
         StockConfirmed, Paid, Shipped, Cancelled

\* An event about a step of an order is one the log knows.
LEMMA StepKeys ==
    ASSUME NEW status, NEW s \in Upto(status), NEW o \in Orders
    PROVE  <<s, o>> \in EventKey
PROOF
  <1>1. s \in Status
    BY DEF Upto, Before, Status
  <1> QED
    BY <1>1 DEF EventKey

\* What has been saved stays saved.
LEMMA SavedStays ==
    ASSUME Typing, LogKept, NEW k \in EventKey, Saved(k)
    PROVE  Saved(k)'
PROOF
  <1>1. /\ eventLog[k] \in Seq(EventState) /\ Len(eventLog[k]) \in Nat
        /\ eventLog[k] # <<>> => Len(eventLog[k]) > 0
    BY DEF Typing, TypeOK
  <1> QED
    BY <1>1 DEF LogKept, Saved

\* Workers whose scope does not change keep their invariant.
LEMMA OthersKeep ==
    ASSUME Typing, OrderInv, LogKept, NEW w \in Workers, OthersUnchanged(w),
           NEW v \in Workers \ {w}
    PROVE  WorkerInv(v)'
PROOF
  <1>1. /\ WorkerInv(v) /\ pc'[v] = pc[v] /\ cmd'[v] = cmd[v] /\ ctx'[v] = ctx[v]
        /\ tx'[v] = tx[v]
    BY DEF OrderInv, OthersUnchanged
  <1>2. ScopeInv(v)' /\ BuyerOK(ctx[v].order)'
    BY <1>1 DEF WorkerInv, ScopeInv, BuyerOK, Identified
  <1>3. \A o \in Orders : \A s \in Upto(ctx[v].order.status) :
              Saved(<<s, o>>) => Saved(<<s, o>>)'
    BY SavedStays, StepKeys
  <1>4. WritesInv(v)'
    BY <1>1, <1>3 DEF WorkerInv, WritesInv
  <1> QED
    BY <1>2, <1>4 DEF WorkerInv

\* A step of worker w that leaves table orders alone.
LEMMA OrderKept ==
    ASSUME Typing, OrderInv, LogKept, NEW w \in Workers, OthersUnchanged(w),
           UNCHANGED orders, WorkerInv(w)'
    PROVE  OrderInv'
PROOF
  <1>1. ASSUME NEW o \in Orders
        PROVE  RowInv(o)'
    BY SavedStays, StepKeys DEF OrderInv, RowInv
  <1> QED
    BY <1>1, OthersKeep DEF OrderInv

\* The commit of worker w.
LEMMA OrderWrites ==
    ASSUME Typing, OrderInv, LogKept, NEW w \in Workers, OthersUnchanged(w),
           WriteTables(w), WorkerInv(w)'
    PROVE  OrderInv'
PROOF
  <1>1. WorkerInv(w)
    BY DEF OrderInv
  <1>2. ASSUME NEW o \in Orders
        PROVE  RowInv(o)'
    <2>1. CASE (tx[w].order \/ ctx[w].dirty) /\ cmd[w].order = o
      <3>1. orders'[o] = ctx[w].order
        BY <2>1 DEF WriteTables, Typing, TypeOK
      <3>2. ASSUME NEW s \in Upto(ctx[w].order.status)
            PROVE  Saved(<<s, o>>)'
        <4>1. <<s, o>> \in EventKey
          BY StepKeys
        <4>2. CASE Saved(<<s, o>>)
          BY <4>1, <4>2, SavedStays
        <4>3. CASE \E i \in DOMAIN tx[w].events : tx[w].events[i] = <<s, o>>
          <5>1. eventLog'[<<s, o>>] = Append(eventLog[<<s, o>>], "NotPublished")
            BY <4>1, <4>3 DEF WriteTables, LogAfter
          <5>2. eventLog[<<s, o>>] \in Seq(EventState) /\ "NotPublished" \in EventState
            BY <4>1 DEF Typing, TypeOK, EventState
          <5> QED
            BY <5>1, <5>2, AppendIsNotEmpty DEF Saved
        <4> QED
          BY <1>1, <2>1, <4>2, <4>3 DEF WorkerInv, WritesInv
      <3> QED
        BY <1>1, <3>1, <3>2 DEF RowInv, WorkerInv, BuyerOK
    <2>2. CASE ~((tx[w].order \/ ctx[w].dirty) /\ cmd[w].order = o)
      <3>1. orders'[o] = orders[o]
        BY <2>2 DEF WriteTables, Typing, TypeOK
      <3> QED
        BY <3>1, SavedStays, StepKeys DEF OrderInv, RowInv, BuyerOK
    <2> QED
      BY <2>1, <2>2
  <1> QED
    BY <1>2, OthersKeep DEF OrderInv

\* The end of a scope.
LEMMA OrderEndScope ==
    ASSUME Typing, NEW w \in Workers, EndScope(w)
    PROVE  WorkerInv(w)'
PROOF
  <1>1. /\ pc'[w] = "idle" /\ cmd'[w] = NoCommand /\ ctx'[w] = EmptyContext
        /\ tx'[w] = NoWrites
    BY DEF EndScope, Goto, Typing, TypeOK
  <1> QED
    BY <1>1 DEF WorkerInv, ScopeInv, WritesInv, BuyerOK, NoCommand, EmptyContext, NoWrites,
                NoRow, Identified

\* A command arrives.
LEMMA OrderArrive ==
    ASSUME Typing, OrderInv, NEW w \in Workers, Arrive(w)
    PROVE  WorkerInv(w)' /\ UNCHANGED orders
PROOF
  <1>1. ASSUME NEW op \in StatusOp \cup {"Create"}, NEW r \in Requests \cup {NoRequest},
               NEW o \in Orders \cup {NoOrder}, Receive(w, op, r, o),
               op \in {"Create", "Ship"} => r # NoRequest,
               op \notin {"Create", "Ship", "Cancel"} => r = NoRequest
        PROVE  WorkerInv(w)' /\ UNCHANGED orders
    <2>1. /\ pc[w] = "idle" /\ pc'[w] = "begin" /\ cmd'[w] = [op |-> op, req |-> r, order |-> o]
          /\ ctx'[w] = ctx[w] /\ tx'[w] = tx[w] /\ UNCHANGED orders
      BY <1>1 DEF Receive, Goto, Typing, TypeOK, database
    <2>2. ctx[w] = EmptyContext /\ tx[w] = NoWrites
      BY <2>1 DEF OrderInv, WorkerInv, ScopeInv, Typing, Control, ControlOf
    <2> QED
      BY <1>1, <2>1, <2>2 DEF WorkerInv, ScopeInv, WritesInv, BuyerOK, EmptyContext, NoWrites,
                              NoRow, Identified
  <1>2. /\ \A r \in CreateRequests : r \in Requests /\ r # NoRequest
        /\ \A r \in CancelRequests : r \in Requests /\ r # NoRequest
        /\ \A r \in ShipRequests : r \in Requests /\ r # NoRequest
    BY ConstantsAssumption DEF Requests
  <1>3. CASE ReceiveCheckout(w)
    BY <1>1, <1>2, <1>3 DEF ReceiveCheckout, StatusOp
  <1>4. CASE ReceiveGracePeriod(w)
    BY <1>1, <1>4 DEF ReceiveGracePeriod, StatusOp, Typing, TypeOK
  <1>5. CASE ReceiveStockAnswer(w)
    BY <1>1, <1>5 DEF ReceiveStockAnswer, StatusOp
  <1>6. CASE ReceivePaymentAnswer(w)
    BY <1>1, <1>6 DEF ReceivePaymentAnswer, StatusOp
  <1>7. CASE ReceiveHttp(w)
    BY <1>1, <1>2, <1>7 DEF ReceiveHttp, StatusOp
  <1> QED
    BY <1>3, <1>4, <1>5, <1>6, <1>7 DEF Arrive

\* A domain method on a row that is as it should be.
LEMMA OrderMethod ==
    ASSUME NEW op \in StatusOp, NEW row \in OrderRow, BuyerOK(row)
    PROVE  LET changed == [row EXCEPT !.status = NewStatus(op, row.status)]
           IN  /\ changed.status = NewStatus(op, row.status)
               /\ changed.buyer = row.buyer
               /\ ~MissesBuyer(op, row) => BuyerOK(changed)
               /\ op \in {"Cancel", "Ship"} => BuyerOK(changed)
PROOF
  <1> DEFINE changed == [row EXCEPT !.status = NewStatus(op, row.status)]
  <1>1. changed.status = NewStatus(op, row.status) /\ changed.buyer = row.buyer
    BY DEF OrderRow
  <1>2. CASE row.buyer
    BY <1>1, <1>2 DEF BuyerOK
  <1>3. CASE ~row.buyer
    <2>1. row.status \in {"none", Submitted, Cancelled}
      BY <1>3 DEF BuyerOK
    <2>2. CASE ~Acts(op, row.status)
      BY <1>1, <2>1, <2>2 DEF BuyerOK, NewStatus
    <2>3. CASE Acts(op, row.status)
      <3>1. op \in {"Cancel", "SetStockRejected"} => BuyerOK(changed)
        BY <1>1, <2>3 DEF NewStatus, Target, BuyerOK
      <3>2. op # "Ship"
        BY <2>1, <2>3 DEF Acts, Throws, Paid, Submitted, Cancelled
      <3>3. ~MissesBuyer(op, row) => op = "SetStockRejected"
        BY <1>3, <2>3 DEF MissesBuyer, Raises
      <3> QED
        BY <1>1, <3>1, <3>2, <3>3
    <2> QED
      BY <2>2, <2>3
  <1> QED
    BY <1>1, <1>2, <1>3

\* The row a domain method leaves in the change tracker.
Changed(w) == [Found(w) EXCEPT !.status = NewStatus(cmd[w].op, Found(w).status)]

\* What a domain method called by worker w does to its scope.
LEMMA SetStatusEffect ==
    ASSUME Typing, OrderInv, NEW w \in Workers, SetStatus(w)
    PROVE  /\ pc[w] = "handle" /\ cmd[w].op \in StatusOp /\ cmd[w].order \in Orders
           /\ Found(w) \in OrderRow /\ BuyerOK(Found(w)) /\ Found(w) # NoRow
           /\ ~MissesBuyer(cmd[w].op, Found(w))
           /\ Changed(w).status = NewStatus(cmd[w].op, Found(w).status) /\ BuyerOK(Changed(w))
           /\ pc'[w] = "commit" /\ cmd'[w] = cmd[w] /\ UNCHANGED <<orders, eventLog>>
           /\ ctx'[w].order = Changed(w) /\ ctx'[w].request = ctx[w].request /\ ~ctx'[w].dirty
           /\ tx'[w].order <=> NewStatus(cmd[w].op, Found(w).status) # Found(w).status
           /\ tx'[w].events = IF Raises(cmd[w].op, Found(w).status)
                              THEN <<<<NewStatus(cmd[w].op, Found(w).status), cmd[w].order>>>>
                              ELSE <<>>
PROOF
  <1> DEFINE op == cmd[w].op  row == Found(w)  new == NewStatus(op, row.status)
             changed == [row EXCEPT !.status = new]
  <1>1. /\ pc[w] = "handle" /\ op \in StatusOp /\ cmd[w].order \in Orders
        /\ WorkerInv(w) /\ row # NoRow /\ ~MissesBuyer(op, row)
    BY DEF SetStatus, Typing, Control, ControlOf, OrderInv
  <1>2. row \in OrderRow /\ BuyerOK(row)
    BY <1>1, FoundTypes DEF Found, OrderInv, RowInv, WorkerInv
  <1>3. changed.status = new /\ BuyerOK(changed)
    BY <1>1, <1>2, OrderMethod
  <1>4. /\ pc'[w] = "commit" /\ cmd'[w] = cmd[w] /\ UNCHANGED <<orders, eventLog>>
        /\ ctx'[w] = [ctx[w] EXCEPT !.order = changed]
        /\ tx'[w] = [tx[w] EXCEPT !.order = (new # row.status),
                                  !.events = IF Raises(op, row.status)
                                             THEN <<<<new, cmd[w].order>>>> ELSE <<>>]
    BY DEF SetStatus, Return, Goto, Typing, TypeOK, database
  <1>5. ~ctx[w].dirty
    BY <1>1 DEF WorkerInv, ScopeInv
  <1>6. /\ ctx'[w].order = changed /\ ctx'[w].request = ctx[w].request /\ ~ctx'[w].dirty
    BY <1>4, <1>5 DEF Typing, TypeOK, Context
  <1>7. /\ tx'[w].order <=> new # row.status
        /\ tx'[w].events = IF Raises(op, row.status) THEN <<<<new, cmd[w].order>>>> ELSE <<>>
    <2> DEFINE b == (new # row.status)
               q == IF Raises(op, row.status) THEN <<<<new, cmd[w].order>>>> ELSE <<>>
    <2>1. b \in BOOLEAN /\ tx[w] \in Transaction
      BY DEF Typing, TypeOK
    <2>2. q \in Seq(EventKey)
      <3>1. CASE Raises(op, row.status)
        <4>1. <<new, cmd[w].order>> \in EventKey
          BY <1>1, <1>2, <3>1, MethodTypes DEF EventKey
        <4> HIDE DEF op, row, new
        <4> QED
          BY <3>1, <4>1, ShortSeqs
      <3>2. CASE ~Raises(op, row.status)
        BY <3>2
      <3> QED
        BY <3>1, <3>2
    <2>3. tx'[w] = [tx[w] EXCEPT !.order = b, !.events = q]
      BY <1>4
    <2> HIDE DEF op, row, new, b, q
    <2>4. tx'[w].order = b /\ tx'[w].events = q
      BY <2>1, <2>2, <2>3, TransactionParts
    <2> QED
      BY <2>4 DEF b, q
  <1> QED
    BY <1>1, <1>2, <1>3, <1>4, <1>6, <1>7 DEF Changed

\* A domain method called by worker w, and the domain event handler.
LEMMA OrderSetStatus ==
    ASSUME Typing, OrderInv, NEW w \in Workers, SetStatus(w)
    PROVE  WorkerInv(w)' /\ UNCHANGED orders
PROOF
  <1> DEFINE op == cmd[w].op  row == Found(w)  new == NewStatus(op, row.status)
             changed == Changed(w)
  <1>1. /\ pc[w] = "handle" /\ op \in StatusOp /\ cmd[w].order \in Orders
        /\ WorkerInv(w) /\ row # NoRow
    BY SetStatusEffect DEF OrderInv
  <1>2. changed.status = new /\ BuyerOK(changed)
    BY SetStatusEffect
  <1>3. pc'[w] = "commit" /\ cmd'[w] = cmd[w] /\ UNCHANGED orders
    BY SetStatusEffect
  <1>4. ctx'[w].order = changed /\ ctx'[w].request = ctx[w].request /\ ~ctx'[w].dirty
    BY SetStatusEffect
  <1>5. /\ tx'[w].order <=> new # row.status
        /\ Raises(op, row.status) => tx'[w].events = <<<<new, cmd[w].order>>>>
    BY SetStatusEffect
  <1> HIDE DEF changed
  <1>6. ~Identified(w) => op = "Cancel" \/ ~Acts(op, new)
    <2>1. CASE Acts(op, row.status)
      BY <1>1, <2>1, MethodSteps DEF WorkerInv, ScopeInv, NewStatus
    <2>2. CASE ~Acts(op, row.status)
      BY <2>2 DEF NewStatus
    <2> QED
      BY <2>1, <2>2
  <1>7. ScopeInv(w)'
    BY <1>1, <1>2, <1>3, <1>4, <1>6 DEF WorkerInv, ScopeInv, Identified
  <1>8. ASSUME new # row.status, NEW s \in Upto(new)
         PROVE  Saved(<<s, cmd[w].order>>) \/ (s = new /\ Raises(op, row.status))
    <2>1. Acts(op, row.status) /\ new = Target(op)
      BY <1>8 DEF NewStatus
    <2>2. CASE ctx[w].order = NoRow
      <3>1. row = orders[cmd[w].order]
        BY <2>2 DEF Found
      <3>2. s \in Upto(row.status) \/ (s = new /\ Raises(op, row.status))
        BY <1>1, <1>8, <2>1, MethodSteps
      <3> QED
        BY <1>1, <3>1, <3>2 DEF OrderInv, RowInv
    <2>3. CASE ctx[w].order # NoRow
      <3>1. row = ctx[w].order
        BY <2>3 DEF Found
      <3>2. op = "Cancel"
        BY <1>1, <2>1, <2>3, <3>1 DEF WorkerInv, ScopeInv
      <3> QED
        BY <1>1, <1>8, <2>1, <3>2, MethodSteps
    <2> QED
      BY <2>2, <2>3
  <1>9. WritesInv(w)'
    <2>1. ASSUME tx'[w].order, NEW s \in Upto(new)
          PROVE  \/ Saved(<<s, cmd[w].order>>)
                 \/ \E i \in DOMAIN tx'[w].events : tx'[w].events[i] = <<s, cmd[w].order>>
      BY <1>5, <1>8, <2>1
    <2>2. \A k : Saved(k)' <=> Saved(k)
      BY DEF SetStatus, database, Saved
    <2> QED
      BY <1>1, <1>2, <1>3, <1>4, <2>1, <2>2 DEF WritesInv
  <1> QED
    BY <1>2, <1>3, <1>4, <1>7, <1>9 DEF WorkerInv, BuyerOK

\* An exception out of a handler of a status command.
LEMMA OrderSetStatusThrows ==
    ASSUME Typing, OrderInv, NEW w \in Workers, SetStatusThrows(w)
    PROVE  WorkerInv(w)' /\ UNCHANGED orders
PROOF
  <1> DEFINE op == cmd[w].op  row == Found(w)
             changed == [row EXCEPT !.status = NewStatus(op, row.status)]
  <1>1. /\ pc[w] = "handle" /\ op \in StatusOp /\ cmd[w].order \in Orders
        /\ WorkerInv(w) /\ row # NoRow
    BY DEF SetStatusThrows, Typing, Control, ControlOf, OrderInv
  <1>2. row \in OrderRow /\ BuyerOK(row) /\ changed \in OrderRow
    BY <1>1, FoundTypes, MethodTypes DEF Found, OrderInv, RowInv, WorkerInv
  <1>3. \/ HandlerThrows(w, row, FALSE)
        \/ Acts(op, row.status) /\ HandlerThrows(w, changed, TRUE)
    BY DEF SetStatusThrows, MissesBuyer, Raises
  <1>4. CASE ~Identified(w)
    <2>1. EndScope(w) /\ UNCHANGED orders
      BY <1>3, <1>4 DEF HandlerThrows, database
    <2> QED
      BY <2>1, OrderEndScope
  <1>5. CASE Identified(w)
    <2>1. ASSUME NEW r \in OrderRow, NEW b \in BOOLEAN, HandlerThrows(w, r, b)
          PROVE  /\ pc'[w] = "commit" /\ cmd'[w] = cmd[w] /\ tx'[w] = tx[w]
                 /\ ctx'[w] = [ctx[w] EXCEPT !.order = r, !.dirty = b]
                 /\ UNCHANGED <<orders, eventLog>>
      BY <1>5, <2>1 DEF HandlerThrows, Return, Goto, Typing, TypeOK, database
    <2>2. /\ op \in {"Cancel", "Ship"} /\ ctx[w].request /\ ~tx[w].order
          /\ row = orders[cmd[w].order] /\ ctx[w] \in Context
      BY <1>1, <1>5 DEF WorkerInv, ScopeInv, StatusOp, Found, Typing, TypeOK
    <2>3. \A r \in OrderRow, b \in BOOLEAN :
             LET c == [ctx[w] EXCEPT !.order = r, !.dirty = b]
             IN  c.order = r /\ c.dirty = b /\ c.request = ctx[w].request
      BY <2>2 DEF Context
    <2>4. CASE HandlerThrows(w, row, FALSE)
      <3>1. /\ pc'[w] = "commit" /\ cmd'[w] = cmd[w] /\ tx'[w] = tx[w]
            /\ ctx'[w].order = row /\ ~ctx'[w].dirty /\ ctx'[w].request
            /\ UNCHANGED orders
        <4>1. /\ pc'[w] = "commit" /\ cmd'[w] = cmd[w] /\ tx'[w] = tx[w]
              /\ ctx'[w] = [ctx[w] EXCEPT !.order = row, !.dirty = FALSE]
              /\ UNCHANGED orders
          BY <1>2, <2>1, <2>4
        <4> HIDE DEF row
        <4> QED
          BY <1>2, <2>2, <4>1 DEF Context
      <3> QED
        BY <1>1, <1>2, <1>5, <2>2, <3>1 DEF WorkerInv, ScopeInv, WritesInv, Identified
    <2>5. CASE Acts(op, row.status) /\ HandlerThrows(w, changed, TRUE)
      <3>1. /\ pc'[w] = "commit" /\ cmd'[w] = cmd[w] /\ tx'[w] = tx[w]
            /\ ctx'[w].order = changed /\ ctx'[w].request
            /\ UNCHANGED <<orders, eventLog>>
        BY <1>2, <2>1, <2>2, <2>3, <2>5
      <3>2. changed.status = Target(op) /\ BuyerOK(changed)
        BY <1>1, <1>2, <2>2, <2>5, OrderMethod DEF NewStatus
      <3>3. changed # NoRow
        BY <1>1, <2>5, <3>2, MethodSteps DEF NoRow
      <3>4. \A s \in Upto(changed.status) : Saved(<<s, cmd[w].order>>)
        BY <1>1, <2>2, <2>5, <3>2, MethodSteps DEF OrderInv, RowInv
      <3>5. \A k : Saved(k)' <=> Saved(k)
        BY <3>1 DEF Saved
      <3> HIDE DEF changed
      <3>6. WritesInv(w)'
        BY <1>1, <2>2, <3>1, <3>4, <3>5 DEF WritesInv
      <3>7. ScopeInv(w)'
        BY <1>1, <1>5, <2>2, <3>1, <3>3 DEF WorkerInv, ScopeInv, Identified
      <3> QED
        BY <3>1, <3>2, <3>6, <3>7 DEF WorkerInv
    <2> QED
      BY <1>3, <2>4, <2>5
  <1> QED
    BY <1>4, <1>5

\* A new row is Submitted: no step of the process is behind it.
LEMMA OrderCreated ==
    ASSUME Typing, OrderInv, NEW w \in Workers, pc[w] = "handle", cmd[w].op = "Create",
           NEW o \in Orders, NEW b \in BOOLEAN,
           pc'[w] = "commit", cmd'[w] = [cmd[w] EXCEPT !.order = o],
           ctx'[w].order = [status |-> Submitted, buyer |-> b],
           ctx'[w].request = ctx[w].request
    PROVE  WorkerInv(w)'
PROOF
  <1>1. WorkerInv(w) /\ Identified(w) /\ cmd[w] \in Command
    BY DEF OrderInv, WorkerInv, ScopeInv, Typing, TypeOK
  <1>2. cmd'[w].op = "Create" /\ cmd'[w].req = cmd[w].req /\ cmd'[w].order = o
    BY <1>1 DEF Command
  <1>3. Upto(Submitted) = {} /\ Submitted # "none"
    BY DEF Upto, Before, Submitted, StockConfirmed, Paid, Shipped, AwaitingValidation
  <1>4. ScopeInv(w)'
    BY <1>1, <1>2, <1>3 DEF WorkerInv, ScopeInv, Identified, NoRow
  <1> QED
    BY <1>2, <1>3, <1>4 DEF WorkerInv, WritesInv, BuyerOK

\* A checkout.
LEMMA OrderCreate ==
    ASSUME Typing, OrderInv, NEW w \in Workers,
           CreateOrder(w) \/ CreateOrderInvalid(w) \/ CreateOrderThrows(w)
    PROVE  WorkerInv(w)' /\ UNCHANGED orders
PROOF
  <1>1. /\ pc[w] = "handle" /\ pc'[w] = "commit" /\ cmd[w].op = "Create" /\ UNCHANGED orders
        /\ WorkerInv(w)
    BY DEF CreateOrder, CreateOrderInvalid, CreateOrderThrows, Return, Goto, Typing, TypeOK,
           database, OrderInv
  <1>2. /\ Identified(w) /\ ctx[w].order = NoRow /\ ~tx[w].order /\ ~ctx[w].dirty
        /\ ctx[w] \in Context /\ tx[w] \in Transaction
    BY <1>1 DEF WorkerInv, ScopeInv, Typing, TypeOK
  <1>3. CASE CreateOrder(w)
    <2>1. PICK o \in Orders : /\ Unused(o)
                              /\ cmd' = [cmd EXCEPT ![w].order = o]
                              /\ tx' = [tx EXCEPT ![w].order = TRUE,
                                   ![w].events = <<OrderStarted, <<Submitted, o>>>>]
      BY <1>3, Zenon DEF CreateOrder
    <2>2. /\ cmd'[w] = [cmd[w] EXCEPT !.order = o]
          /\ ctx'[w] = [ctx[w] EXCEPT !.order = [status |-> Submitted, buyer |-> TRUE]]
      BY <1>3, <2>1 DEF CreateOrder, Typing, TypeOK
    <2>3. /\ ctx'[w].order = [status |-> Submitted, buyer |-> TRUE]
          /\ ctx'[w].request = ctx[w].request
      BY <1>2, <2>2 DEF Context
    <2> QED
      BY <1>1, <2>2, <2>3, OrderCreated
  <1>4. ASSUME UNCHANGED <<cmd, ctx>>, tx'[w].order = tx[w].order
        PROVE  WorkerInv(w)'
    BY <1>1, <1>2, <1>4 DEF WorkerInv, ScopeInv, WritesInv, BuyerOK, Identified
  <1>5. CASE CreateOrderInvalid(w)
    BY <1>1, <1>4, <1>5 DEF CreateOrderInvalid
  <1>6. CASE CreateOrderThrows(w)
    <2>1. CASE tx' = [tx EXCEPT ![w].events = <<OrderStarted>>] /\ UNCHANGED <<cmd, ctx>>
      <3>1. tx'[w].order = tx[w].order
        BY <1>2, <2>1 DEF Typing, TypeOK, Transaction
      <3> QED
        BY <1>1, <1>4, <2>1, <3>1
    <2>2. CASE \E o \in Orders, b \in BOOLEAN :
                    /\ cmd' = [cmd EXCEPT ![w].order = o]
                    /\ tx' = [tx EXCEPT ![w].order = b, ![w].events = <<OrderStarted>>]
                    /\ ctx' = [ctx EXCEPT ![w].order = [status |-> Submitted, buyer |-> b],
                                          ![w].dirty = ~b]
      <3>1. PICK o \in Orders, b \in BOOLEAN :
               /\ cmd' = [cmd EXCEPT ![w].order = o]
               /\ tx' = [tx EXCEPT ![w].order = b, ![w].events = <<OrderStarted>>]
               /\ ctx' = [ctx EXCEPT ![w].order = [status |-> Submitted, buyer |-> b],
                                     ![w].dirty = ~b]
        BY <2>2, Zenon
      <3>2. /\ cmd'[w] = [cmd[w] EXCEPT !.order = o]
            /\ ctx'[w] = [ctx[w] EXCEPT !.order = [status |-> Submitted, buyer |-> b],
                                        !.dirty = ~b]
        BY <3>1 DEF Typing, TypeOK
      <3>3. /\ ctx'[w].order = [status |-> Submitted, buyer |-> b]
            /\ ctx'[w].request = ctx[w].request
        BY <1>2, <3>2 DEF Context
      <3> QED
        BY <1>1, <3>2, <3>3, OrderCreated
    <2> QED
      BY <1>6, <2>1, <2>2, Zenon DEF CreateOrderThrows
  <1> QED
    BY <1>1, <1>3, <1>5, <1>6

\* The other steps of a worker leave the tracked order as it is or end the scope.
LEMMA OrderRest ==
    ASSUME Typing, OrderInv, NEW w \in Workers,
           \/ Begin(w) \/ InsertRequest(w) \/ BeginFails(w) \/ OrderMissing(w)
           \/ Commit(w) \/ CommitFails(w) \/ CommitAckLost(w)
           \/ MarkInProgress(w) \/ Publish(w) \/ MarkPublished(w)
           \/ PublishFails(w) \/ MarkFailed(w) \/ MarkFailedFails(w) \/ Finish(w)
    PROVE  WorkerInv(w)' /\ (UNCHANGED orders \/ (pc[w] = "commit" /\ WriteTables(w)))
PROOF
  <1> USE DEF database, outside, history
  <1>1. /\ WorkerInv(w) /\ ControlOf(w) /\ ctx[w] \in Context /\ LogKept
        /\ OthersUnchanged(w)
    BY LogGrows, WorkersAreLocal DEF OrderInv, Typing, TypeOK, Control, Next, Work
  <1>2. UNCHANGED orders \/ (pc[w] = "commit" /\ WriteTables(w))
    BY DEF Begin, InsertRequest, BeginFails, OrderMissing, Commit, CommitFails, CommitAckLost,
           MarkInProgress, Publish, MarkPublished, PublishFails, MarkFailed,
           MarkFailedFails, Finish
  <1>3. ASSUME cmd'[w] = cmd[w], ctx'[w].order = ctx[w].order,
               ctx'[w].dirty => ctx[w].dirty, ~tx'[w].order,
               ctx'[w].request = ctx[w].request,
               pc'[w] \notin {"idle", "handle"}, pc[w] # "idle",
               pc'[w] = "insert" => ~ctx[w].request
        PROVE  WorkerInv(w)'
    <2>1. ScopeInv(w)' /\ BuyerOK(ctx[w].order)'
      BY <1>1, <1>3 DEF WorkerInv, ScopeInv, BuyerOK, Identified
    <2>2. \A o \in Orders : \A s \in Upto(ctx[w].order.status) :
             Saved(<<s, o>>) => Saved(<<s, o>>)'
      BY <1>1, SavedStays, StepKeys
    <2>3. WritesInv(w)'
      BY <1>1, <1>3, <2>2 DEF WorkerInv, WritesInv
    <2> QED
      BY <2>1, <2>3 DEF WorkerInv
  <1>4. CASE Begin(w)
    <2>1. /\ cmd'[w] = cmd[w] /\ ctx'[w] = ctx[w] /\ tx'[w] = NoWrites /\ pc[w] = "begin"
          /\ pc'[w] \in {"commit", "insert", "handle"}
          /\ pc'[w] = "insert" => ~ctx[w].request
          /\ pc'[w] = "handle" => ~Identified(w)
          /\ UNCHANGED eventLog
      BY <1>4 DEF Begin, Goto, Exists, Typing, TypeOK
    <2>2. ScopeInv(w)'
      BY <1>1, <2>1 DEF WorkerInv, ScopeInv, Identified, NoWrites
    <2>3. WritesInv(w)' /\ BuyerOK(ctx[w].order)'
      BY <1>1, <2>1 DEF WorkerInv, WritesInv, BuyerOK, NoWrites, Saved
    <2> QED
      BY <1>2, <2>2, <2>3 DEF WorkerInv
  <1>5. CASE InsertRequest(w)
    <2>1. CASE RowExists(w)
      BY <1>2, <1>5, <2>1, OrderEndScope DEF InsertRequest
    <2>2. CASE ~RowExists(w)
      <3>1. /\ cmd'[w] = cmd[w] /\ ctx'[w] = [ctx[w] EXCEPT !.request = TRUE]
            /\ tx'[w] = [tx[w] EXCEPT !.request = TRUE]
            /\ pc[w] = "insert" /\ pc'[w] = "handle" /\ UNCHANGED eventLog
        BY <1>5, <2>2 DEF InsertRequest, Goto, Typing, TypeOK
      <3>2. /\ ctx'[w].order = ctx[w].order /\ ctx'[w].dirty = ctx[w].dirty
            /\ ctx'[w].request /\ tx'[w].order = tx[w].order
        BY <1>1, <3>1 DEF Context, Typing, TypeOK, Transaction
      <3>3. Identified(w) /\ ctx[w].order = NoRow /\ ~tx[w].order
        BY <1>1, <3>1 DEF ControlOf, NoWrites, WorkerInv, ScopeInv
      <3>4. ScopeInv(w)'
        BY <1>1, <3>1, <3>2, <3>3 DEF WorkerInv, ScopeInv, Identified
      <3>5. WritesInv(w)' /\ BuyerOK(ctx[w].order)'
        BY <1>1, <3>1, <3>2, <3>3 DEF WorkerInv, ScopeInv, WritesInv, BuyerOK
      <3> QED
        BY <1>2, <3>4, <3>5 DEF WorkerInv
    <2> QED
      BY <2>1, <2>2
  <1>10. CASE BeginFails(w)
    BY <1>2, <1>10, OrderEndScope DEF BeginFails
  <1>6. CASE OrderMissing(w)
    <2>1. /\ cmd'[w] = cmd[w] /\ ctx'[w] = ctx[w] /\ tx'[w] = tx[w] /\ pc[w] = "handle"
          /\ pc'[w] = "commit"
      BY <1>6 DEF OrderMissing, Return, Goto, Typing, TypeOK
    <2> QED
      BY <1>1, <1>2, <1>3, <2>1 DEF WorkerInv, ScopeInv
  <1>7. CASE Commit(w)
    <2>1. /\ cmd'[w] = cmd[w] /\ ctx'[w] = [ctx[w] EXCEPT !.dirty = FALSE]
          /\ tx'[w] = NoWrites /\ pc[w] = "commit" /\ pc'[w] = "publish"
      BY <1>7 DEF Commit, Goto, Typing, TypeOK
    <2>2. /\ ctx'[w].order = ctx[w].order /\ ctx'[w].request = ctx[w].request
          /\ ~ctx'[w].dirty
      BY <1>1, <2>1 DEF Context
    <2> QED
      BY <1>2, <1>3, <2>1, <2>2 DEF NoWrites
  <1>8. CASE CommitFails(w) \/ CommitAckLost(w) \/ MarkFailedFails(w) \/ Finish(w)
    <2>1. CASE EndScope(w)
      BY <1>2, <2>1, OrderEndScope
    <2>2. CASE ~EndScope(w)
      <3>1. /\ cmd'[w] = cmd[w] /\ pc[w] \in {"commit", "markFailed"} /\ pc'[w] = "begin"
        BY <1>8, <2>2 DEF CommitFails, CommitAckLost, MarkFailedFails, Finish, Goto,
                          Typing, TypeOK
      <3>2. ~tx'[w].order
        BY <1>1, <1>8, <2>2 DEF CommitFails, CommitAckLost, MarkFailedFails, Finish,
                                ControlOf, NoWrites, Typing, TypeOK
      <3>3. \/ ctx' = ctx \/ ctx' = [ctx EXCEPT ![w].dirty = FALSE]
            \/ \E b \in BOOLEAN : ctx' = [ctx EXCEPT ![w].dirty = ctx[w].dirty /\ ~b]
        BY <1>8, <2>2 DEF CommitFails, CommitAckLost, MarkFailedFails, Finish
      <3>4. ASSUME NEW b \in BOOLEAN, ctx' = [ctx EXCEPT ![w].dirty = ctx[w].dirty /\ ~b]
            PROVE  /\ ctx'[w].order = ctx[w].order /\ ctx'[w].request = ctx[w].request
                   /\ ctx'[w].dirty => ctx[w].dirty
        BY <1>1, <3>4 DEF Context, Typing, TypeOK
      <3>5. ASSUME ctx' = [ctx EXCEPT ![w].dirty = FALSE]
            PROVE  /\ ctx'[w].order = ctx[w].order /\ ctx'[w].request = ctx[w].request
                   /\ ~ctx'[w].dirty
        BY <1>1, <3>5 DEF Context, Typing, TypeOK
      <3>6. /\ ctx'[w].order = ctx[w].order /\ ctx'[w].request = ctx[w].request
            /\ ctx'[w].dirty => ctx[w].dirty
        BY <3>3, <3>4, <3>5
      <3> QED
        BY <1>2, <1>3, <3>1, <3>2, <3>6
    <2> QED
      BY <2>1, <2>2
  <1>9. CASE \/ MarkInProgress(w) \/ Publish(w) \/ MarkPublished(w)
             \/ PublishFails(w) \/ MarkFailed(w)
    <2>1. /\ UNCHANGED <<cmd, ctx, tx>> /\ tx[w] = NoWrites
          /\ pc[w] \in {"publish", "send", "markPublished", "markFailed"}
          /\ pc'[w] \in {"publish", "send", "markPublished", "markFailed"}
      BY <1>1, <1>9 DEF MarkInProgress, Publish, MarkPublished, PublishFails, MarkFailed, Goto,
                        ControlOf, Typing, TypeOK
    <2> QED
      BY <1>2, <1>3, <2>1 DEF NoWrites
  <1> QED
    BY <1>4, <1>5, <1>6, <1>7, <1>8, <1>9, <1>10

\* No step breaks the invariant.
LEMMA OrderStep ==
    ASSUME Typing, OrderInv, [Next]_vars
    PROVE  OrderInv'
PROOF
  <1>1. LogKept
    BY LogGrows
  <1>2. ASSUME NEW w \in Workers, Arrive(w) \/ Work(w)
        PROVE  OrderInv'
    <2>1. OthersUnchanged(w)
      BY <1>2, WorkersAreLocal DEF Typing
    <2>2. WorkerInv(w)' /\ (UNCHANGED orders \/ WriteTables(w))
      BY <1>2, OrderArrive, OrderSetStatus, OrderSetStatusThrows, OrderCreate, OrderRest
      DEF Work
    <2> QED
      BY <1>1, <2>1, <2>2, OrderKept, OrderWrites
  <1>3. CASE Crash
    <2>1. ASSUME NEW v \in Workers
          PROVE  WorkerInv(v)'
      <3>1. /\ pc'[v] = "idle" /\ cmd'[v] = NoCommand /\ ctx'[v] = EmptyContext
            /\ tx'[v] = NoWrites
        BY <1>3 DEF Crash
      <3> QED
        BY <3>1 DEF WorkerInv, ScopeInv, WritesInv, BuyerOK, NoCommand, EmptyContext, NoWrites,
                    NoRow, Identified
    <2>2. UNCHANGED <<orders, eventLog>>
      BY <1>3 DEF Crash, database
    <2> QED
      BY <2>1, <2>2 DEF OrderInv, RowInv, BuyerOK, Saved
  <1>4. CASE (\E o \in Orders : GracePeriodPoll(o)) \/ UNCHANGED vars
    <2>1. UNCHANGED <<orders, eventLog, pc, cmd, ctx, tx>>
      BY <1>4 DEF GracePeriodPoll, vars, database, local
    <2> QED
      BY <2>1 DEF OrderInv, RowInv, WorkerInv, ScopeInv, WritesInv, BuyerOK, Identified, Saved
  <1> QED
    BY <1>2, <1>3, <1>4 DEF Next

\* The invariant holds in every reachable state.
LEMMA OrderInvariant == Spec => []OrderInv
PROOF
  <1>1. Upto("none") = {}
    BY DEF Upto, Before, Submitted, StockConfirmed, Paid, Shipped, AwaitingValidation
  <1>2. ASSUME Init
        PROVE  OrderInv
    <2>1. ASSUME NEW w \in Workers
          PROVE  WorkerInv(w)
      <3>1. pc[w] = "idle" /\ cmd[w] = NoCommand /\ ctx[w] = EmptyContext /\ tx[w] = NoWrites
        BY <1>2 DEF Init
      <3> QED
        BY <3>1 DEF WorkerInv, ScopeInv, WritesInv, BuyerOK, NoCommand, EmptyContext, NoWrites,
                    NoRow, Identified
    <2>2. ASSUME NEW o \in Orders
          PROVE  RowInv(o)
      BY <1>1, <1>2 DEF Init, RowInv, BuyerOK, NoRow
    <2> QED
      BY <2>1, <2>2 DEF OrderInv
  <1> QED
    BY <1>2, OrderStep, TypingInvariant, PTL DEF Spec

\* An order is StockConfirmed, Paid or Shipped only if the events of the steps that lead
\* there are in the outbox, whatever commands race, fail or are retried.
THEOREM StepsSaved == Spec => []StepsAreSaved
PROOF
  <1>1. OrderInv => StepsAreSaved
    BY DEF OrderInv, RowInv, StepsAreSaved, Upto
  <1> QED
    BY <1>1, OrderInvariant, PTL

\* An order that lost its buyer to a failed checkout is never validated, paid or shipped.
THEOREM BuyerBeforeValidation == Spec => []NoBuyerNoValidation
PROOF
  <1>1. OrderInv => NoBuyerNoValidation
    BY DEF OrderInv, RowInv, BuyerOK, NoBuyerNoValidation
  <1> QED
    BY <1>1, OrderInvariant, PTL

-----------------------------------------------------------------------------
(* One consumer: every step of the process is announced once, and no row goes back *)

\* RabbitMQ: one message at a time.  The HTTP requests beside it are any number.
OneConsumer == \A v, w \in BusWorkers : v = w

\* The commands of the process, which messages alone carry, and the statuses they leave.
ProcessOp   == {"SetAwaitingValidation", "SetStockConfirmed", "SetPaid"}
ProcessStep == {AwaitingValidation, StockConfirmed, Paid}

\* No step of order o from this one on has been announced.
NotSavedFrom(status, o) == \A s \in ProcessStep : Rank(s) >= Rank(status) => ~Saved(<<s, o>>)

\* The commit of worker w is going to write the row of its order.
Writes(w) == tx[w].order \/ ctx[w].dirty

\* No step that comes after the status of an order has been announced, and none twice.
ProcessRow(o) ==
    /\ orders[o].status # Cancelled
          => \A s \in ProcessStep : Rank(s) > Rank(orders[o].status) => ~Saved(<<s, o>>)
    /\ \A s \in ProcessStep : Len(eventLog[<<s, o>>]) <= 1

\* A command of the process runs in the consumer.  What it is going to write and to announce
\* is ahead of the row and of the log until it commits, whatever is done over HTTP.
ProcessWorker(w) ==
    /\ w \in HttpWorkers /\ pc[w] # "idle" => cmd[w].op \in {"Cancel", "Ship"}
    /\ cmd[w].op \in StatusOp /\ ctx[w].order # NoRow => orders[cmd[w].order] # NoRow
    /\ Writes(w) /\ cmd[w].op = "Create"
          => orders[cmd[w].order] = NoRow /\ ctx[w].order.status = Submitted
    /\ Writes(w) /\ cmd[w].op \in StatusOp
          => orders[cmd[w].order] # NoRow /\ ctx[w].order.status = Target(cmd[w].op)
    /\ Writes(w) /\ cmd[w].op \in ProcessOp
          => /\ NotSavedFrom(Target(cmd[w].op), cmd[w].order)
             /\ \/ orders[cmd[w].order].status = Cancelled
                \/ Rank(orders[cmd[w].order].status) < Rank(Target(cmd[w].op))
    /\ \A i \in DOMAIN tx[w].events : \A s \in ProcessStep, o \in Orders :
          tx[w].events[i] = <<s, o>>
             => /\ tx[w].order /\ o = cmd[w].order
                /\ cmd[w].op \in ProcessOp /\ s = Target(cmd[w].op)

ProcessInv == (\A o \in Orders : ProcessRow(o)) /\ (\A w \in Workers : ProcessWorker(w))

\* The order of the statuses.
LEMMA Ranks ==
    /\ Rank("none") = 0 /\ Rank(Submitted) = 1 /\ Rank(AwaitingValidation) = 2
    /\ Rank(StockConfirmed) = 3 /\ Rank(Paid) = 4 /\ Rank(Shipped) = 5 /\ Rank(Cancelled) = 6
PROOF
  BY DEF Rank, Submitted, AwaitingValidation, StockConfirmed, Paid, Shipped, Cancelled

\* The statuses the commands leave.
LEMMA Targets ==
    /\ Target("SetAwaitingValidation") = AwaitingValidation
    /\ Target("SetStockConfirmed") = StockConfirmed
    /\ Target("SetPaid") = Paid
    /\ Target("SetStockRejected") = Cancelled
    /\ Target("Cancel") = Cancelled
    /\ Target("Ship") = Shipped
    /\ \A op \in StatusOp : Target(op) \in Status \ {Submitted}
    /\ \A op \in ProcessOp : Target(op) \in ProcessStep /\ op \in StatusOp
    /\ \A op \in StatusOp \ ProcessOp : Target(op) \notin ProcessStep
PROOF
  BY DEF Target, StatusOp, ProcessOp, ProcessStep, Status, Submitted, AwaitingValidation,
         StockConfirmed, Paid, Shipped, Cancelled

\* A command of the process moves an order on by one step.
LEMMA MethodMovesOn ==
    ASSUME NEW op \in ProcessOp, NEW status, Acts(op, status)
    PROVE  /\ status # Cancelled
           /\ Rank(status) \in Nat /\ Rank(Target(op)) = Rank(status) + 1
           /\ NewStatus(op, status) = Target(op) /\ Target(op) # status
           /\ Raises(op, status)
PROOF
  <1>1. \/ op = "SetAwaitingValidation" /\ status = Submitted
        \/ op = "SetStockConfirmed" /\ status = AwaitingValidation
        \/ op = "SetPaid" /\ status = StockConfirmed
    BY DEF ProcessOp, Acts
  <1>2. status # Cancelled /\ Rank(status) \in Nat /\ Rank(Target(op)) = Rank(status) + 1
    BY <1>1, Ranks, Targets
    DEF Submitted, AwaitingValidation, StockConfirmed, Paid, Shipped, Cancelled
  <1>3. Target(op) # status
    BY <1>1, Targets
    DEF Submitted, AwaitingValidation, StockConfirmed, Paid, Shipped, Cancelled
  <1> QED
    BY <1>1, <1>2, <1>3 DEF NewStatus, Raises

\* Keys of the steps.
LEMMA ProcessKeys ==
    ASSUME NEW s \in ProcessStep, NEW o \in Orders
    PROVE  /\ <<s, o>> \in EventKey
           /\ <<s, o>> # OrderStarted
           /\ \A p : <<s, o>> # <<Submitted, p>>
PROOF
  BY DEF ProcessStep, EventKey, Status, OrderStarted, Submitted, AwaitingValidation,
         StockConfirmed, Paid

\* A worker that is to write is not idle, and one that runs the process or a checkout is
\* the consumer.
LEMMA WriterIsBusy ==
    ASSUME Typing, OrderInv, ProcessInv, NEW w \in Workers, Writes(w)
    PROVE  /\ pc[w] # "idle" /\ cmd[w].order \in Orders
           /\ cmd[w].op \in StatusOp \cup {"Create"}
           /\ cmd[w].op \in ProcessOp \cup {"Create"} => w \in BusWorkers
           /\ cmd[w].op \in ProcessOp => tx[w].order
PROOF
  <1>1. WorkerInv(w) /\ ControlOf(w) /\ ProcessWorker(w) /\ cmd[w] \in Command
    BY DEF OrderInv, Typing, TypeOK, Control, ProcessInv
  <1>2. pc[w] # "idle" /\ cmd[w].order \in Orders
    BY <1>1 DEF WorkerInv, ScopeInv, WritesInv, ControlOf, Writes, EmptyContext, NoWrites
  <1> QED
    BY <1>1, <1>2 DEF ProcessWorker, Writes, ProcessOp, WorkerInv, ScopeInv, Workers, Command

\* Steps that leave the tables as they are, but for the states of events, keep what is said
\* of a worker whose command, tracked order and events stay or are given up.
LEMMA ScopeKept ==
    ASSUME NEW w \in Workers, ProcessWorker(w), UNCHANGED orders,
           \A s \in ProcessStep, o \in Orders : Saved(<<s, o>>)' => Saved(<<s, o>>),
           cmd'[w] = cmd[w], ctx'[w].order = ctx[w].order, ctx'[w].dirty => ctx[w].dirty,
           (tx'[w].order = tx[w].order /\ tx'[w].events = tx[w].events) \/ tx'[w] = NoWrites,
           pc[w] # "idle", cmd[w].op \in ProcessOp /\ Writes(w) => cmd[w].order \in Orders
    PROVE  ProcessWorker(w)'
PROOF
  <1>1. Writes(w)' => Writes(w)
    BY DEF Writes, NoWrites
  <1>2. \A i \in DOMAIN tx'[w].events :
           /\ i \in DOMAIN tx[w].events /\ tx'[w].events[i] = tx[w].events[i]
           /\ tx'[w].order = tx[w].order
    BY DEF NoWrites
  <1>3. cmd[w].op \in ProcessOp /\ Writes(w) /\ NotSavedFrom(Target(cmd[w].op), cmd[w].order)
           => NotSavedFrom(Target(cmd[w].op), cmd[w].order)'
    BY DEF NotSavedFrom
  <1> QED
    BY <1>1, <1>2, <1>3 DEF ProcessWorker

\* The end of a scope.
LEMMA ProcessEndScope ==
    ASSUME Typing, NEW w \in Workers, EndScope(w)
    PROVE  ProcessWorker(w)'
PROOF
  <1>1. /\ pc'[w] = "idle" /\ cmd'[w] = NoCommand /\ ctx'[w] = EmptyContext
        /\ tx'[w] = NoWrites
    BY DEF EndScope, Goto, Typing, TypeOK
  <1> QED
    BY <1>1 DEF ProcessWorker, Writes, NoCommand, EmptyContext, NoWrites, StatusOp, ProcessOp

\* A command arrives.
LEMMA ProcessArrive ==
    ASSUME Typing, OrderInv, NEW w \in Workers, Arrive(w)
    PROVE  ProcessWorker(w)' /\ UNCHANGED <<orders, eventLog>>
PROOF
  <1>1. ASSUME NEW op, NEW r, NEW o, Receive(w, op, r, o),
               w \in HttpWorkers => op \in {"Cancel", "Ship"}
        PROVE  ProcessWorker(w)' /\ UNCHANGED <<orders, eventLog>>
    <2>1. /\ pc[w] = "idle" /\ cmd'[w] = [op |-> op, req |-> r, order |-> o]
          /\ ctx'[w] = ctx[w] /\ tx'[w] = tx[w] /\ UNCHANGED <<orders, eventLog>>
      BY <1>1 DEF Receive, Typing, TypeOK, database
    <2>2. ctx[w] = EmptyContext /\ tx[w] = NoWrites
      BY <2>1 DEF OrderInv, WorkerInv, ScopeInv, Typing, Control, ControlOf
    <2> QED
      BY <1>1, <2>1, <2>2 DEF ProcessWorker, Writes, EmptyContext, NoWrites
  <1>2. w \in BusWorkers => w \notin HttpWorkers
    BY ConstantsAssumption
  <1> QED
    BY <1>1, <1>2 DEF Arrive, ReceiveCheckout, ReceiveGracePeriod, ReceiveStockAnswer,
                      ReceivePaymentAnswer, ReceiveHttp


\* A domain method called by worker w.
LEMMA ProcessSetStatus ==
    ASSUME Typing, OrderInv, ProcessInv, NEW w \in Workers, SetStatus(w)
    PROVE  ProcessWorker(w)'
PROOF
  <1> DEFINE op == cmd[w].op  row == Found(w)  new == NewStatus(op, row.status)
  <1>1. /\ pc[w] = "handle" /\ op \in StatusOp /\ cmd[w].order \in Orders /\ row # NoRow
        /\ cmd'[w] = cmd[w] /\ UNCHANGED <<orders, eventLog>>
        /\ ctx'[w].order = Changed(w) /\ Changed(w).status = new /\ ~ctx'[w].dirty
        /\ tx'[w].order <=> new # row.status
        /\ tx'[w].events = IF Raises(op, row.status) THEN <<<<new, cmd[w].order>>>> ELSE <<>>
    BY SetStatusEffect
  <1>2. WorkerInv(w) /\ ProcessWorker(w) /\ ProcessRow(cmd[w].order)
    BY <1>1 DEF OrderInv, ProcessInv
  <1>3. orders[cmd[w].order] # NoRow
    BY <1>1, <1>2 DEF ProcessWorker, Found
  <1>4. op # "Create" /\ pc[w] # "idle"
    BY <1>1 DEF StatusOp
  <1>5. Writes(w)' => Acts(op, row.status) /\ new = Target(op)
    BY <1>1 DEF Writes, NewStatus
  <1>6. op \in ProcessOp /\ Acts(op, row.status) => row = orders[cmd[w].order]
    BY <1>2 DEF WorkerInv, ScopeInv, Found, ProcessOp
  <1>7. ASSUME op \in ProcessOp, Writes(w)'
        PROVE  /\ NotSavedFrom(Target(op), cmd[w].order)'
               /\ Rank(orders[cmd[w].order].status) < Rank(Target(op))
    <2>1. /\ row = orders[cmd[w].order] /\ row.status # Cancelled
          /\ Rank(row.status) \in Nat /\ Rank(Target(op)) = Rank(row.status) + 1
      BY <1>5, <1>6, <1>7, MethodMovesOn
    <2>2. ASSUME NEW s \in ProcessStep, Rank(s) >= Rank(Target(op))
          PROVE  ~Saved(<<s, cmd[w].order>>)
      <3>1. Rank(s) \in Nat
        BY Ranks DEF ProcessStep
      <3> QED
        BY <1>2, <2>1, <2>2, <3>1 DEF ProcessRow
    <2> QED
      BY <1>1, <2>1, <2>2 DEF NotSavedFrom, Saved
  <1>8. ASSUME NEW i \in DOMAIN tx'[w].events, NEW s \in ProcessStep, NEW o \in Orders,
               tx'[w].events[i] = <<s, o>>
        PROVE  tx'[w].order /\ o = cmd[w].order /\ op \in ProcessOp /\ s = Target(op)
    <2>1. Raises(op, row.status) /\ s = new /\ o = cmd[w].order
      BY <1>1, <1>8
    <2>2. Acts(op, row.status) /\ new = Target(op)
      BY <2>1 DEF Raises, NewStatus
    <2>3. op \in ProcessOp
      BY <1>1, <2>1, <2>2, Targets
    <2> QED
      BY <1>1, <2>1, <2>2, <2>3, MethodMovesOn
  <1> HIDE DEF row, new
  <1>9. /\ w \in HttpWorkers => cmd'[w].op \in {"Cancel", "Ship"}
        /\ orders'[cmd'[w].order] # NoRow
    BY <1>1, <1>2, <1>3, <1>4 DEF ProcessWorker
  <1> QED
    BY <1>1, <1>4, <1>5, <1>7, <1>8, <1>9 DEF ProcessWorker

\* An exception out of a handler of a status command.
LEMMA ProcessSetStatusThrows ==
    ASSUME Typing, OrderInv, ProcessInv, NEW w \in Workers, SetStatusThrows(w)
    PROVE  ProcessWorker(w)' /\ UNCHANGED eventLog
PROOF
  <1> DEFINE op == cmd[w].op  row == Found(w)
             changed == [row EXCEPT !.status = NewStatus(op, row.status)]
  <1>1. /\ pc[w] = "handle" /\ op \in StatusOp /\ cmd[w].order \in Orders
        /\ WorkerInv(w) /\ ProcessWorker(w) /\ row # NoRow
    BY DEF SetStatusThrows, Typing, Control, ControlOf, OrderInv, ProcessInv
  <1>2. row \in OrderRow /\ changed \in OrderRow
    BY <1>1, FoundTypes, MethodTypes
  <1>3. \/ HandlerThrows(w, row, FALSE)
        \/ Acts(op, row.status) /\ HandlerThrows(w, changed, TRUE)
    BY DEF SetStatusThrows, MissesBuyer, Raises
  <1>4. UNCHANGED <<orders, eventLog>>
    BY <1>3 DEF HandlerThrows, database
  <1>5. CASE ~Identified(w)
    <2>1. EndScope(w)
      BY <1>3, <1>5 DEF HandlerThrows
    <2> QED
      BY <1>4, <2>1, ProcessEndScope
  <1>6. CASE Identified(w)
    <2>1. /\ op \notin ProcessOp /\ ~tx[w].order /\ row = orders[cmd[w].order]
          /\ ctx[w] \in Context /\ op # "Create" /\ pc[w] # "idle"
      BY <1>1, <1>6 DEF WorkerInv, ScopeInv, StatusOp, ProcessOp, Found, Typing, TypeOK
    <2>2. PICK r \in OrderRow, b \in BOOLEAN :
             /\ HandlerThrows(w, r, b)
             /\ b => Acts(op, row.status) /\ r = changed
      BY <1>2, <1>3
    <2>3. /\ cmd'[w] = cmd[w] /\ tx'[w] = tx[w]
          /\ ctx'[w] = [ctx[w] EXCEPT !.order = r, !.dirty = b]
      BY <1>6, <2>2 DEF HandlerThrows, Return, Goto, Typing, TypeOK
    <2>4. ctx'[w].order = r /\ ctx'[w].dirty = b
      BY <2>1, <2>3 DEF Context
    <2>5. b => r.status = Target(op)
      BY <1>2, <2>2 DEF NewStatus, OrderRow
    <2>6. w \in HttpWorkers => cmd'[w].op \in {"Cancel", "Ship"}
      BY <1>1, <2>1, <2>3 DEF ProcessWorker
    <2> HIDE DEF row, changed
    <2> QED
      BY <1>1, <1>4, <2>1, <2>3, <2>4, <2>5, <2>6 DEF ProcessWorker, Writes
  <1> QED
    BY <1>5, <1>6

\* A checkout.
LEMMA ProcessCreate ==
    ASSUME Typing, OrderInv, ProcessInv, NEW w \in Workers,
           CreateOrder(w) \/ CreateOrderInvalid(w) \/ CreateOrderThrows(w)
    PROVE  ProcessWorker(w)' /\ UNCHANGED eventLog
PROOF
  <1>1. /\ pc[w] = "handle" /\ cmd[w].op = "Create" /\ cmd[w] \in Command
        /\ UNCHANGED <<orders, eventLog>> /\ WorkerInv(w) /\ ProcessWorker(w)
        /\ ctx[w] \in Context /\ tx[w] \in Transaction
    BY DEF CreateOrder, CreateOrderInvalid, CreateOrderThrows, Typing, TypeOK,
           database, OrderInv, ProcessInv
  <1>2. ~Writes(w) /\ w \notin HttpWorkers
    BY <1>1 DEF WorkerInv, ScopeInv, ProcessWorker, Writes
  <1>3. ASSUME NEW i \in DOMAIN tx[w].events, NEW s \in ProcessStep, NEW o \in Orders
        PROVE  tx[w].events[i] # <<s, o>>
    BY <1>1, <1>2, <1>3 DEF ProcessWorker, Writes
  <1>4. \A s \in ProcessStep, o, p \in Orders : <<s, o>> \notin {OrderStarted, <<Submitted, p>>}
    BY ProcessKeys
  <1>5. ASSUME NEW o \in Orders, Unused(o), cmd' = [cmd EXCEPT ![w].order = o],
               \/ tx'[w].events = <<OrderStarted>>
               \/ tx'[w].events = <<OrderStarted, <<Submitted, o>>>>,
               ctx'[w].order.status = Submitted
        PROVE  ProcessWorker(w)'
    <2>1. cmd'[w].op = "Create" /\ cmd'[w].order = o /\ orders[o] = NoRow
      BY <1>1, <1>5 DEF Unused, Typing, TypeOK, Command
    <2>2. ASSUME NEW i \in DOMAIN tx'[w].events, NEW s \in ProcessStep, NEW p \in Orders
          PROVE  tx'[w].events[i] # <<s, p>>
      <3>1. tx'[w].events[i] = OrderStarted \/ tx'[w].events[i] = <<Submitted, o>>
        BY <1>5, <2>2
      <3> QED
        BY <1>4, <3>1
    <2> QED
      BY <1>1, <1>2, <1>5, <2>1, <2>2 DEF ProcessWorker, StatusOp, ProcessOp
  <1>6. CASE CreateOrder(w)
    <2>1. PICK o \in Orders : /\ Unused(o)
                              /\ cmd' = [cmd EXCEPT ![w].order = o]
                              /\ tx' = [tx EXCEPT ![w].order = TRUE,
                                   ![w].events = <<OrderStarted, <<Submitted, o>>>>]
      BY <1>6, Zenon DEF CreateOrder
    <2>2. ctx'[w].order = [status |-> Submitted, buyer |-> TRUE]
      BY <1>1, <1>6 DEF CreateOrder, Typing, TypeOK, Context
    <2>3. tx'[w].events = <<OrderStarted, <<Submitted, o>>>>
      BY <1>1, <2>1 DEF Typing, TypeOK, Transaction
    <2>4. ctx'[w].order.status = Submitted
      BY <2>2
    <2>5. ProcessWorker(w)'
      BY <1>5, <2>1, <2>3, <2>4, Zenon
    <2> QED
      BY <1>1, <2>5
  <1>7. CASE CreateOrderInvalid(w)
    BY <1>1, <1>2, <1>3, <1>7 DEF CreateOrderInvalid, ProcessWorker, Writes, StatusOp
  <1>8. CASE CreateOrderThrows(w)
    <2>1. CASE tx' = [tx EXCEPT ![w].events = <<OrderStarted>>] /\ UNCHANGED <<cmd, ctx>>
      <3>1. tx'[w].order = tx[w].order /\ tx'[w].events = <<OrderStarted>>
        BY <1>1, <2>1 DEF Typing, TypeOK, Transaction
      <3> QED
        BY <1>1, <1>2, <1>4, <2>1, <3>1 DEF ProcessWorker, Writes, StatusOp
    <2>2. CASE \E o \in Orders, b \in BOOLEAN :
                    /\ Unused(o)
                    /\ cmd' = [cmd EXCEPT ![w].order = o]
                    /\ tx' = [tx EXCEPT ![w].order = b, ![w].events = <<OrderStarted>>]
                    /\ ctx' = [ctx EXCEPT ![w].order = [status |-> Submitted, buyer |-> b],
                                          ![w].dirty = ~b]
      <3>1. PICK o \in Orders, b \in BOOLEAN :
                    /\ Unused(o)
                    /\ cmd' = [cmd EXCEPT ![w].order = o]
                    /\ tx' = [tx EXCEPT ![w].order = b, ![w].events = <<OrderStarted>>]
                    /\ ctx' = [ctx EXCEPT ![w].order = [status |-> Submitted, buyer |-> b],
                                          ![w].dirty = ~b]
        BY <2>2, Zenon
      <3>2. ctx'[w].order = [status |-> Submitted, buyer |-> b]
        BY <1>1, <3>1 DEF Typing, TypeOK, Context
      <3>3. tx'[w].events = <<OrderStarted>>
        BY <1>1, <3>1 DEF Typing, TypeOK, Transaction
      <3>4. ctx'[w].order.status = Submitted
        BY <3>2
      <3>5. ProcessWorker(w)'
        BY <1>5, <3>1, <3>3, <3>4, Zenon
      <3> QED
        BY <1>1, <3>5
    <2> QED
      BY <1>8, <2>1, <2>2, Zenon DEF CreateOrderThrows
  <1> QED
    BY <1>1, <1>6, <1>7, <1>8

\* The other steps of a worker but the commits leave its command as it is or end the scope,
\* and the log has the same events.
LEMMA ProcessRest ==
    ASSUME Typing, OrderInv, ProcessInv, NEW w \in Workers,
           \/ Begin(w) \/ InsertRequest(w) \/ BeginFails(w) \/ OrderMissing(w) \/ CommitFails(w)
           \/ MarkInProgress(w) \/ Publish(w) \/ MarkPublished(w)
           \/ PublishFails(w) \/ MarkFailed(w) \/ MarkFailedFails(w) \/ Finish(w)
    PROVE  /\ ProcessWorker(w)' /\ UNCHANGED orders
           /\ \A k \in EventKey : DOMAIN eventLog'[k] = DOMAIN eventLog[k]
PROOF
  <1> USE DEF database, outside, history
  <1>1. /\ ProcessWorker(w) /\ ControlOf(w) /\ ctx[w] \in Context /\ tx[w] \in Transaction
        /\ pc[w] # "idle"
    BY DEF ProcessInv, Typing, TypeOK, Control, Begin, InsertRequest, BeginFails, OrderMissing,
           CommitFails, MarkInProgress, Publish, MarkPublished, PublishFails, MarkFailed,
           MarkFailedFails, Finish
  <1>2. UNCHANGED orders
    BY DEF Begin, InsertRequest, BeginFails, OrderMissing, CommitFails, MarkInProgress, Publish,
           MarkPublished, PublishFails, MarkFailed, MarkFailedFails, Finish
  <1>3. \A k \in EventKey : DOMAIN eventLog'[k] = DOMAIN eventLog[k]
    <2>1. CASE MarkInProgress(w) \/ MarkPublished(w) \/ MarkFailed(w)
      <3>1. pending[w] # <<>>
        BY <1>1, <2>1 DEF ControlOf, MarkInProgress, MarkPublished, MarkFailed
      <3>2. PICK state \in EventState : UpdateEventStatus(w, state)
        BY <2>1 DEF MarkInProgress, MarkPublished, MarkFailed, EventState
      <3> QED
        BY <3>1, <3>2, UpdateEventStatusTypes
    <2>2. CASE ~(MarkInProgress(w) \/ MarkPublished(w) \/ MarkFailed(w))
      <3>1. UNCHANGED eventLog
        BY <2>2 DEF Begin, InsertRequest, BeginFails, OrderMissing, CommitFails, Publish,
                    PublishFails, MarkFailedFails, Finish
      <3> QED
        BY <3>1
    <2> QED
      BY <2>1, <2>2
  <1>4. \A s \in ProcessStep, o \in Orders : Saved(<<s, o>>)' => Saved(<<s, o>>)
    <2>1. Typing'
      BY TypingBegin, TypingStatus, TypingCommit, TypingPublish
    <2>2. ASSUME NEW k \in EventKey, Saved(k)'
          PROVE  Saved(k)
      <3>1. eventLog[k] \in Seq(EventState) /\ eventLog'[k] \in Seq(EventState)
        BY <2>1 DEF Typing, TypeOK
      <3>2. DOMAIN eventLog'[k] = DOMAIN eventLog[k]
        BY <1>3
      <3> QED
        BY <2>2, <3>1, <3>2 DEF Saved
    <2> QED
      BY <2>2, ProcessKeys
  <1>5. cmd[w].op \in ProcessOp /\ Writes(w) => cmd[w].order \in Orders
    BY <1>1 DEF ControlOf, ProcessOp, StatusOp
  <1>6. ASSUME cmd'[w] = cmd[w], ctx'[w].order = ctx[w].order, ctx'[w].dirty => ctx[w].dirty,
               (tx'[w].order = tx[w].order /\ tx'[w].events = tx[w].events) \/ tx'[w] = NoWrites
        PROVE  ProcessWorker(w)'
    BY <1>1, <1>2, <1>4, <1>5, <1>6, ScopeKept
  <1>7. CASE EndScope(w)
    BY <1>2, <1>3, <1>7, ProcessEndScope
  <1>8. CASE ~EndScope(w)
    <2>1. cmd'[w] = cmd[w]
      BY <1>8 DEF Begin, InsertRequest, BeginFails, OrderMissing, CommitFails, MarkInProgress,
                  Publish, MarkPublished, PublishFails, MarkFailed, MarkFailedFails, Finish
    <2>2. CASE InsertRequest(w)
      <3>1. /\ ctx'[w] = [ctx[w] EXCEPT !.request = TRUE]
            /\ tx'[w] = [tx[w] EXCEPT !.request = TRUE]
        BY <1>8, <2>2 DEF InsertRequest, Typing, TypeOK
      <3>2. /\ ctx'[w].order = ctx[w].order /\ ctx'[w].dirty = ctx[w].dirty
            /\ tx'[w].order = tx[w].order /\ tx'[w].events = tx[w].events
        BY <1>1, <3>1 DEF Context, Transaction
      <3> QED
        BY <1>2, <1>3, <1>6, <2>1, <3>2
    <2>3. CASE CommitFails(w)
      <3>1. PICK accepted \in BOOLEAN :
               ctx' = [ctx EXCEPT ![w].dirty = ctx[w].dirty /\ ~accepted]
        BY <1>8, <2>3, Zenon DEF CommitFails
      <3>2. tx'[w] = NoWrites
        BY <1>8, <2>3 DEF CommitFails, Typing, TypeOK
      <3>3. ctx'[w] = [ctx[w] EXCEPT !.dirty = ctx[w].dirty /\ ~accepted]
        BY <3>1 DEF Typing, TypeOK
      <3>4. ctx'[w].order = ctx[w].order /\ (ctx'[w].dirty => ctx[w].dirty)
        BY <1>1, <3>3 DEF Context
      <3> QED
        BY <1>2, <1>3, <1>6, <2>1, <3>2, <3>4
    <2>4. CASE ~InsertRequest(w) /\ ~CommitFails(w)
      <3>1. ctx'[w] = ctx[w] /\ tx'[w] \in {tx[w], NoWrites}
        BY <1>8, <2>4 DEF Begin, BeginFails, OrderMissing, MarkInProgress, Publish,
                  MarkPublished, PublishFails, MarkFailed, MarkFailedFails, Finish, Typing, TypeOK
      <3> QED
        BY <1>2, <1>3, <1>6, <2>1, <3>1
    <2> QED
      BY <2>2, <2>3, <2>4
  <1> QED
    BY <1>7, <1>8


\* What a commit does to the row of an order.
LEMMA WrittenRow ==
    ASSUME Typing, OrderInv, ProcessInv, NEW w \in Workers, WriteTables(w), NEW o \in Orders
    PROVE  /\ orders'[o] = IF Writes(w) /\ cmd[w].order = o THEN ctx[w].order ELSE orders[o]
           /\ orders[o] # NoRow => orders'[o] # NoRow
           /\ Writes(w) => \/ cmd[w].op = "Create" /\ ctx[w].order.status = Submitted
                           \/ cmd[w].op \in StatusOp /\ ctx[w].order.status = Target(cmd[w].op)
PROOF
  <1>1. orders'[o] = IF Writes(w) /\ cmd[w].order = o THEN ctx[w].order ELSE orders[o]
    BY DEF WriteTables, Writes, Typing, TypeOK
  <1>2. Writes(w) => \/ cmd[w].op = "Create" /\ ctx[w].order.status = Submitted
                     \/ cmd[w].op \in StatusOp /\ ctx[w].order.status = Target(cmd[w].op)
    BY WriterIsBusy DEF ProcessInv, ProcessWorker
  <1>3. Submitted # "none" /\ \A op \in StatusOp : Target(op) # "none"
    BY Targets DEF Status, Submitted, AwaitingValidation, StockConfirmed, Paid, Shipped, Cancelled
  <1> QED
    BY <1>1, <1>2, <1>3 DEF NoRow

\* What a commit does to the steps announced: it adds the one its command is about.
LEMMA WrittenSteps ==
    ASSUME Typing, ProcessInv, NEW w \in Workers, WriteTables(w),
           NEW s \in ProcessStep, NEW o \in Orders
    PROVE  \/ eventLog'[<<s, o>>] = eventLog[<<s, o>>]
           \/ /\ eventLog'[<<s, o>>] = Append(eventLog[<<s, o>>], "NotPublished")
              /\ tx[w].order /\ o = cmd[w].order
              /\ cmd[w].op \in ProcessOp /\ s = Target(cmd[w].op)
PROOF
  <1>1. <<s, o>> \in EventKey
    BY ProcessKeys
  <1>2. CASE \E i \in DOMAIN tx[w].events : tx[w].events[i] = <<s, o>>
    BY <1>1, <1>2 DEF WriteTables, LogAfter, ProcessInv, ProcessWorker
  <1>3. CASE ~\E i \in DOMAIN tx[w].events : tx[w].events[i] = <<s, o>>
    BY <1>1, <1>3 DEF WriteTables, LogAfter
  <1> QED
    BY <1>2, <1>3

\* A commit keeps the rows and the log in step.
LEMMA ProcessRowWritten ==
    ASSUME Typing, OrderInv, ProcessInv, NEW w \in Workers, WriteTables(w), NEW o \in Orders
    PROVE  ProcessRow(o)'
PROOF
  <1>1. \A s \in ProcessStep : /\ eventLog[<<s, o>>] \in Seq(EventState)
                               /\ Len(eventLog[<<s, o>>]) \in Nat
                               /\ Saved(<<s, o>>) <=> Len(eventLog[<<s, o>>]) > 0
                               /\ Rank(s) \in Nat
    BY ProcessKeys, Ranks DEF Typing, TypeOK, Saved, ProcessStep
  <1>2. ProcessRow(o) /\ ProcessWorker(w)
    BY DEF ProcessInv
  <1>3. ASSUME NEW s \in ProcessStep, eventLog'[<<s, o>>] # eventLog[<<s, o>>]
        PROVE  /\ eventLog'[<<s, o>>] = Append(eventLog[<<s, o>>], "NotPublished")
               /\ Writes(w) /\ o = cmd[w].order /\ cmd[w].op \in ProcessOp
               /\ s = Target(cmd[w].op)
               /\ ~Saved(<<s, o>>)
    <2>1. /\ eventLog'[<<s, o>>] = Append(eventLog[<<s, o>>], "NotPublished")
          /\ Writes(w) /\ o = cmd[w].order /\ cmd[w].op \in ProcessOp
          /\ s = Target(cmd[w].op)
      BY <1>3, WrittenSteps DEF Writes
    <2> QED
      BY <1>1, <1>2, <2>1 DEF ProcessWorker, NotSavedFrom
  <1>4. ASSUME NEW s \in ProcessStep
        PROVE  Len(eventLog'[<<s, o>>]) <= 1
    <2>1. CASE eventLog'[<<s, o>>] = eventLog[<<s, o>>]
      BY <1>2, <2>1 DEF ProcessRow
    <2>2. CASE eventLog'[<<s, o>>] # eventLog[<<s, o>>]
      <3>1. /\ eventLog[<<s, o>>] = <<>>
            /\ eventLog'[<<s, o>>] = Append(eventLog[<<s, o>>], "NotPublished")
        BY <1>3, <2>2 DEF Saved
      <3> QED
        BY <3>1
    <2> QED
      BY <2>1, <2>2
  <1>5. ASSUME orders'[o].status # Cancelled, NEW s \in ProcessStep,
               Rank(s) > Rank(orders'[o].status), Saved(<<s, o>>)'
        PROVE  FALSE
    <2>1. CASE ~(Writes(w) /\ cmd[w].order = o)
      <3>1. orders'[o] = orders[o]
        BY <2>1, WrittenRow
      <3>2. eventLog'[<<s, o>>] = eventLog[<<s, o>>]
        BY <1>3, <2>1
      <3> QED
        BY <1>2, <1>5, <3>1, <3>2 DEF ProcessRow, Saved
    <2>2. CASE Writes(w) /\ cmd[w].order = o /\ cmd[w].op = "Create"
      <3>1. orders[o].status = "none"
        BY <1>2, <2>2 DEF ProcessWorker, NoRow
      <3>2. ~Saved(<<s, o>>)
        BY <1>1, <1>2, <3>1, Ranks DEF ProcessRow, ProcessStep, Cancelled
      <3>3. eventLog'[<<s, o>>] = eventLog[<<s, o>>]
        BY <1>3, <2>2 DEF ProcessOp
      <3> QED
        BY <1>5, <3>2, <3>3 DEF Saved
    <2>3. CASE Writes(w) /\ cmd[w].order = o /\ cmd[w].op \in StatusOp
      <3>1. orders'[o].status = Target(cmd[w].op)
        BY <1>2, <2>3, WrittenRow DEF ProcessWorker
      <3>2. CASE cmd[w].op \in ProcessOp
        <4>1. Rank(s) \in Nat /\ Rank(Target(cmd[w].op)) \in Nat
          BY <1>1, <3>2, Targets
        <4>2. ~Saved(<<s, o>>) /\ s # Target(cmd[w].op)
          BY <1>2, <1>5, <2>3, <3>1, <3>2, <4>1 DEF ProcessWorker, NotSavedFrom
        <4> QED
          BY <1>3, <1>5, <4>2 DEF Saved
      <3>3. CASE cmd[w].op \notin ProcessOp
        <4>1. orders'[o].status = Shipped
          BY <1>5, <2>3, <3>1, <3>3, Targets DEF StatusOp, ProcessOp
        <4> QED
          BY <1>5, <4>1, Ranks DEF ProcessStep
      <3> QED
        BY <3>2, <3>3
    <2> QED
      BY <2>1, <2>2, <2>3, WriterIsBusy
  <1> QED
    BY <1>4, <1>5 DEF ProcessRow

\* A commit of another worker leaves what a worker is going to write ahead of the row and the
\* log: only the consumer runs the process, and nobody ships beside a step that is pending.
LEMMA ProcessOtherWritten ==
    ASSUME OneConsumer, Typing, OrderInv, ProcessInv, NEW w \in Workers, WriteTables(w),
           NEW v \in Workers \ {w}, OthersUnchanged(w)
    PROVE  ProcessWorker(v)'
PROOF
  <1> DEFINE o == cmd[v].order
  <1>1. /\ ProcessWorker(v) /\ ProcessWorker(w) /\ WorkerInv(w) /\ ControlOf(v)
        /\ pc'[v] = pc[v] /\ cmd'[v] = cmd[v] /\ ctx'[v] = ctx[v] /\ tx'[v] = tx[v]
    BY DEF ProcessInv, OrderInv, Typing, Control, OthersUnchanged
  <1>2. Writes(v)' <=> Writes(v)
    BY <1>1 DEF Writes
  <1>3. cmd[v].op \in StatusOp => o \in Orders
    BY <1>1 DEF ControlOf
  <1>4. ASSUME Writes(v), Writes(w), cmd[v].op \in ProcessOp \cup {"Create"}
        PROVE  cmd[w].op \in {"Cancel", "Ship"}
    <2>1. v \in BusWorkers
      BY <1>4, WriterIsBusy
    <2>2. w \notin BusWorkers
      BY <2>1 DEF OneConsumer
    <2>3. w \in HttpWorkers /\ pc[w] # "idle"
      BY <1>4, <2>2, WriterIsBusy DEF Workers
    <2> QED
      BY <1>1, <2>3 DEF ProcessWorker
  <1>5. cmd[v].op \in StatusOp /\ orders[o] # NoRow => orders'[o] # NoRow
    BY <1>3, WrittenRow
  <1>6. ASSUME Writes(v), cmd[v].op = "Create"
        PROVE  orders'[o] = NoRow
    <2>1. orders[o] = NoRow /\ o \in Orders
      BY <1>1, <1>6, WriterIsBusy DEF ProcessWorker
    <2>2. ~(Writes(w) /\ cmd[w].order = o)
      BY <1>1, <1>4, <1>6, <2>1 DEF ProcessWorker, StatusOp
    <2> QED
      BY <2>1, <2>2, WrittenRow
  <1>7. ASSUME Writes(v), cmd[v].op \in ProcessOp
        PROVE  /\ NotSavedFrom(Target(cmd[v].op), o)'
               /\ \/ orders'[o].status = Cancelled
                  \/ Rank(orders'[o].status) < Rank(Target(cmd[v].op))
    <2>1. /\ NotSavedFrom(Target(cmd[v].op), o) /\ o \in Orders
          /\ \/ orders[o].status = Cancelled
             \/ Rank(orders[o].status) < Rank(Target(cmd[v].op))
      BY <1>1, <1>7, WriterIsBusy DEF ProcessWorker
    <2>2. \A s \in ProcessStep : eventLog'[<<s, o>>] = eventLog[<<s, o>>]
      BY <1>4, <1>7, <2>1, WrittenSteps DEF Writes, ProcessOp
    <2>3. CASE ~(Writes(w) /\ cmd[w].order = o)
      BY <1>1, <2>1, <2>2, <2>3, WrittenRow DEF NotSavedFrom, Saved
    <2>4. CASE Writes(w) /\ cmd[w].order = o
      <3>1. cmd[w].op \in {"Cancel", "Ship"} /\ orders'[o].status = Target(cmd[w].op)
        BY <1>4, <1>7, <2>1, <2>4, WrittenRow
      <3>2. cmd[w].op # "Ship"
        <4>1. SUFFICES ASSUME cmd[w].op = "Ship"
                       PROVE  FALSE
          OBVIOUS
        <4>2. ctx[w].order.status = Shipped
          BY <1>1, <2>4, <4>1, Targets DEF ProcessWorker, StatusOp
        <4>3. Paid \in Upto(Shipped) /\ Paid \in ProcessStep
          BY DEF Upto, Before, ProcessStep, StockConfirmed, Paid, Shipped
        <4>4. ~\E i \in DOMAIN tx[w].events : tx[w].events[i] = <<Paid, o>>
          BY <1>1, <2>1, <4>1, <4>3 DEF ProcessWorker, ProcessOp
        <4>5. Saved(<<Paid, o>>)
          BY <1>1, <2>4, <4>2, <4>3, <4>4 DEF WorkerInv, WritesInv, Writes
        <4>6. Rank(Paid) >= Rank(Target(cmd[v].op))
          BY <1>7, Ranks, Targets DEF ProcessOp
        <4> QED
          BY <2>1, <4>3, <4>5, <4>6 DEF NotSavedFrom
      <3>3. orders'[o].status = Cancelled
        BY <3>1, <3>2, Targets
      <3> QED
        BY <1>1, <2>1, <2>2, <3>3 DEF NotSavedFrom, Saved
    <2> QED
      BY <2>3, <2>4
  <1> QED
    BY <1>1, <1>2, <1>5, <1>6, <1>7 DEF ProcessWorker

\* The worker that has committed has nothing left to write.
LEMMA ProcessCommits ==
    ASSUME Typing, OrderInv, ProcessInv, NEW w \in Workers, Commit(w) \/ CommitAckLost(w)
    PROVE  ProcessWorker(w)' /\ WriteTables(w)
PROOF
  <1>1. /\ WriteTables(w) /\ pc[w] = "commit" /\ ProcessWorker(w) /\ ControlOf(w)
        /\ ctx[w] \in Context
    BY DEF Commit, CommitAckLost, ProcessInv, Typing, TypeOK, Control
  <1>2. CASE EndScope(w)
    BY <1>1, <1>2, ProcessEndScope
  <1>3. CASE ~EndScope(w)
    <2>1. /\ cmd'[w] = cmd[w] /\ tx'[w] = NoWrites
          /\ ctx'[w] = [ctx[w] EXCEPT !.dirty = FALSE]
      BY <1>3 DEF Commit, CommitAckLost, Typing, TypeOK
    <2>2. ctx'[w].order = ctx[w].order /\ ~ctx'[w].dirty
      BY <1>1, <2>1 DEF Context
    <2>3. ~Writes(w)' /\ DOMAIN tx'[w].events = {}
      BY <2>1, <2>2 DEF Writes, NoWrites
    <2>4. cmd[w].op \in StatusOp /\ ctx[w].order # NoRow => orders'[cmd[w].order] # NoRow
      BY <1>1, WrittenRow DEF ProcessWorker, ControlOf
    <2> QED
      BY <1>1, <2>1, <2>2, <2>3, <2>4 DEF ProcessWorker
  <1> QED
    BY <1>2, <1>3


\* A step of worker w that commits nothing: the log has the same events.
LEMMA ProcessKept ==
    ASSUME Typing, Typing', ProcessInv, NEW w \in Workers, OthersUnchanged(w), UNCHANGED orders,
           \A k \in EventKey : DOMAIN eventLog'[k] = DOMAIN eventLog[k], ProcessWorker(w)'
    PROVE  ProcessInv'
PROOF
  <1>1. ASSUME NEW s \in ProcessStep, NEW o \in Orders
        PROVE  /\ Len(eventLog'[<<s, o>>]) = Len(eventLog[<<s, o>>])
               /\ Saved(<<s, o>>)' <=> Saved(<<s, o>>)
    <2>1. <<s, o>> \in EventKey
      BY ProcessKeys
    <2>2. /\ eventLog[<<s, o>>] \in Seq(EventState) /\ eventLog'[<<s, o>>] \in Seq(EventState)
          /\ DOMAIN eventLog'[<<s, o>>] = DOMAIN eventLog[<<s, o>>]
      BY <2>1 DEF Typing, TypeOK
    <2> QED
      BY <2>2 DEF Saved
  <1>2. ASSUME NEW o \in Orders
        PROVE  ProcessRow(o)'
    BY <1>1 DEF ProcessInv, ProcessRow
  <1>3. ASSUME NEW v \in Workers \ {w}
        PROVE  ProcessWorker(v)'
    <2>1. /\ ProcessWorker(v) /\ ControlOf(v) /\ pc'[v] = pc[v] /\ cmd'[v] = cmd[v]
          /\ ctx'[v] = ctx[v] /\ tx'[v] = tx[v]
      BY DEF ProcessInv, Typing, Control, OthersUnchanged
    <2>2. cmd[v].op \in ProcessOp => cmd[v].order \in Orders
      BY <2>1 DEF ControlOf, ProcessOp, StatusOp
    <2> QED
      BY <1>1, <2>1, <2>2 DEF ProcessWorker, Writes, NotSavedFrom
  <1> QED
    BY <1>2, <1>3 DEF ProcessInv

\* No step breaks the invariant.
LEMMA ProcessNext ==
    ASSUME OneConsumer, Typing, Typing', OrderInv, ProcessInv, [Next]_vars
    PROVE  ProcessInv'
PROOF
  <1>1. ASSUME NEW w \in Workers, Arrive(w) \/ Work(w)
        PROVE  ProcessInv'
    <2>1. OthersUnchanged(w)
      BY <1>1, WorkersAreLocal DEF Typing
    <2>2. CASE Commit(w) \/ CommitAckLost(w)
      <3>1. ProcessWorker(w)' /\ WriteTables(w)
        BY <2>2, ProcessCommits
      <3> QED
        BY <2>1, <3>1, ProcessRowWritten, ProcessOtherWritten DEF ProcessInv
    <2>3. CASE ~(Commit(w) \/ CommitAckLost(w))
      <3>1. /\ ProcessWorker(w)' /\ UNCHANGED orders
            /\ \A k \in EventKey : DOMAIN eventLog'[k] = DOMAIN eventLog[k]
        <4>1. CASE Arrive(w)
          BY <4>1, ProcessArrive
        <4>2. CASE SetStatus(w)
          BY <4>2, ProcessSetStatus, SetStatusEffect
        <4>3. CASE SetStatusThrows(w)
          BY <4>3, ProcessSetStatusThrows, OrderSetStatusThrows
        <4>4. CASE CreateOrder(w) \/ CreateOrderInvalid(w) \/ CreateOrderThrows(w)
          BY <4>4, ProcessCreate, OrderCreate
        <4>5. CASE ~(\/ Arrive(w) \/ SetStatus(w) \/ SetStatusThrows(w) \/ CreateOrder(w)
                     \/ CreateOrderInvalid(w) \/ CreateOrderThrows(w))
          BY <1>1, <2>3, <4>5, ProcessRest DEF Work
        <4> QED
          BY <4>1, <4>2, <4>3, <4>4, <4>5
      <3> QED
        BY <2>1, <3>1, ProcessKept
    <2> QED
      BY <2>2, <2>3
  <1>2. CASE Crash
    <2>1. /\ UNCHANGED <<orders, eventLog>>
          /\ \A v \in Workers : /\ pc'[v] = "idle" /\ cmd'[v] = NoCommand
                                /\ ctx'[v] = EmptyContext /\ tx'[v] = NoWrites
      BY <1>2 DEF Crash, database
    <2>2. \A v \in Workers : ProcessWorker(v)'
      BY <2>1 DEF ProcessWorker, Writes, NoCommand, EmptyContext, NoWrites, StatusOp, ProcessOp
    <2> QED
      BY <2>1, <2>2 DEF ProcessInv, ProcessRow, Saved
  <1>3. CASE (\E o \in Orders : GracePeriodPoll(o)) \/ UNCHANGED vars
    <2>1. UNCHANGED <<orders, eventLog, pc, cmd, ctx, tx>>
      BY <1>3 DEF GracePeriodPoll, vars, database, local
    <2> QED
      BY <2>1 DEF ProcessInv, ProcessRow, ProcessWorker, Writes, NotSavedFrom, Saved
  <1> QED
    BY <1>1, <1>2, <1>3 DEF Next

\* With one consumer the invariant holds in every reachable state.
LEMMA ProcessInvariant == OneConsumer => (Spec => []ProcessInv)
PROOF
  <1> SUFFICES ASSUME OneConsumer
               PROVE  Spec => []ProcessInv
    OBVIOUS
  <1>1. ASSUME Init
        PROVE  ProcessInv
    <2>1. \A w \in Workers : ProcessWorker(w)
      BY <1>1 DEF Init, ProcessWorker, Writes, NoCommand, EmptyContext, NoWrites, StatusOp,
                  ProcessOp
    <2>2. ASSUME NEW o \in Orders
          PROVE  ProcessRow(o)
      <3>1. \A s \in ProcessStep : eventLog[<<s, o>>] = <<>>
        BY <1>1, ProcessKeys DEF Init
      <3> QED
        BY <3>1 DEF ProcessRow, Saved
    <2> QED
      BY <2>1, <2>2 DEF ProcessInv
  <1>2. Typing /\ Typing' /\ OrderInv /\ ProcessInv /\ [Next]_vars => ProcessInv'
    BY ProcessNext
  <1> QED
    BY <1>1, <1>2, TypingInvariant, OrderInvariant, PTL DEF Spec

\* With one consumer each step of the process is announced at most once per order, however
\* many HTTP requests, failures, retries and crashes there are beside it: Catalog takes the
\* stock off once, the payment service charges once.
THEOREM StepsAnnouncedOnce == OneConsumer => (Spec => []AnnouncedOnce)
PROOF
  <1> SUFFICES ASSUME OneConsumer
               PROVE  Spec => []AnnouncedOnce
    OBVIOUS
  <1>1. ProcessInv => AnnouncedOnce
    BY DEF ProcessInv, ProcessRow, ProcessStep, AnnouncedOnce
  <1> QED
    BY <1>1, ProcessInvariant, PTL

\* A row is only written by a commit.
LEMMA OnlyCommitsWrite ==
    ASSUME Typing, OrderInv, ProcessInv, [Next]_vars
    PROVE  UNCHANGED orders \/ \E w \in Workers : WriteTables(w)
PROOF
  <1>1. ASSUME NEW w \in Workers, Arrive(w) \/ Work(w)
        PROVE  UNCHANGED orders \/ WriteTables(w)
    BY <1>1, OrderArrive, OrderSetStatus, OrderSetStatusThrows, OrderCreate, OrderRest DEF Work
  <1>2. CASE Crash \/ (\E o \in Orders : GracePeriodPoll(o)) \/ UNCHANGED vars
    BY <1>2 DEF Crash, GracePeriodPoll, vars, database
  <1> QED
    BY <1>1, <1>2 DEF Next

\* A commit does not take a row back, unless the order was Cancelled.
LEMMA WritesGoOn ==
    ASSUME Typing, OrderInv, ProcessInv, NEW w \in Workers, WriteTables(w), NEW o \in Orders
    PROVE  orders[o].status = Cancelled \/ Rank(orders'[o].status) >= Rank(orders[o].status)
PROOF
  <1>1. /\ ProcessWorker(w) /\ orders[o].status \in Status \cup {"none"}
        /\ \A status \in Status \cup {"none"} : Rank(status) \in 0..6
    BY Ranks DEF ProcessInv, Typing, TypeOK, OrderRow, Status
  <1>2. CASE ~(Writes(w) /\ cmd[w].order = o)
    BY <1>1, <1>2, WrittenRow
  <1>3. CASE Writes(w) /\ cmd[w].order = o /\ cmd[w].op = "Create"
    <2>1. orders[o].status = "none" /\ orders'[o].status = Submitted
      BY <1>1, <1>3, WrittenRow DEF ProcessWorker, NoRow
    <2> QED
      BY <2>1, Ranks
  <1>4. CASE Writes(w) /\ cmd[w].order = o /\ cmd[w].op \in StatusOp
    <2>1. orders'[o].status = Target(cmd[w].op) /\ Target(cmd[w].op) \in Status
      BY <1>1, <1>4, WrittenRow, Targets DEF ProcessWorker
    <2>2. CASE cmd[w].op \in ProcessOp
      BY <1>1, <1>4, <2>1, <2>2 DEF ProcessWorker
    <2>3. CASE cmd[w].op \notin ProcessOp
      <3>1. orders'[o].status \in {Shipped, Cancelled}
        BY <1>4, <2>1, <2>3, Targets DEF StatusOp, ProcessOp
      <3> QED
        BY <1>1, <3>1, Ranks DEF Status
    <2> QED
      BY <2>2, <2>3
  <1> QED
    BY <1>2, <1>3, <1>4, WriterIsBusy

\* With one consumer a stale command may cancel an order or revive a Cancelled one, but never
\* takes the row of an order back to a status the process has left.
THEOREM RowsNeverRewind == OneConsumer => (Spec => NeverRewinds)
PROOF
  <1> SUFFICES ASSUME OneConsumer
               PROVE  Spec => NeverRewinds
    OBVIOUS
  <1>1. ASSUME Typing, OrderInv, ProcessInv, [Next]_vars
        PROVE  \A o \in Orders : \/ orders[o].status = Cancelled
                                 \/ Rank(orders'[o].status) >= Rank(orders[o].status)
    <2>1. CASE UNCHANGED orders
      <3>1. \A status \in Status \cup {"none"} : Rank(status) \in Nat
        BY Ranks DEF Status
      <3>2. \A o \in Orders : orders[o].status \in Status \cup {"none"}
        BY <1>1 DEF Typing, TypeOK, OrderRow
      <3> QED
        BY <2>1, <3>1, <3>2
    <2>2. CASE \E w \in Workers : WriteTables(w)
      BY <1>1, <2>2, WritesGoOn
    <2> QED
      BY <1>1, <2>1, <2>2, OnlyCommitsWrite
  <1> QED
    BY <1>1, ProcessInvariant, TypingInvariant, OrderInvariant, PTL DEF Spec, NeverRewinds

=============================================================================
