---------------------------- MODULE OutboxProofs ----------------------------
(***************************************************************************)
(* Type correctness of module Ordering, and its outbox: Ordering           *)
(* implements TransactionalOutbox, and the states of its integration event *)
(* log agree with what the broker has got.  For every number of orders,    *)
(* consumers, HTTP requests, request ids, faults and crashes.              *)
(***************************************************************************)
EXTENDS Ordering, SequenceTheorems, TLAPS

-----------------------------------------------------------------------------
(* Sequences as functions *)

\* A function on 1..n is a sequence.
LEMMA FunctionIsSeq ==
    ASSUME NEW S, NEW n \in Nat, NEW f \in [1..n -> S]
    PROVE  f \in Seq(S)
PROOF
  BY SeqDef

\* Sequences of one or two elements.
LEMMA ShortSeqs ==
    ASSUME NEW S, NEW a \in S, NEW b \in S
    PROVE  <<a>> \in Seq(S) /\ <<a, b>> \in Seq(S)
PROOF
  OBVIOUS

\* A sequence with one more element has an element.
LEMMA AppendIsNotEmpty ==
    ASSUME NEW S, NEW s \in Seq(S), NEW e \in S
    PROVE  Append(s, e) # <<>>
PROOF
  <1>1. Len(Append(s, e)) = Len(s) + 1 /\ Len(s) \in Nat
    OBVIOUS
  <1> QED
    BY <1>1

\* Replacing an element keeps the type and the domain, whatever the index.
LEMMA ReplaceInSeq ==
    ASSUME NEW S, NEW s \in Seq(S), NEW i, NEW e \in S
    PROVE  /\ [s EXCEPT ![i] = e] \in Seq(S)
           /\ DOMAIN [s EXCEPT ![i] = e] = DOMAIN s
PROOF
  <1>1. Len(s) \in Nat /\ s \in [1..Len(s) -> S]
    BY LenProperties
  <1>2. [s EXCEPT ![i] = e] \in [1..Len(s) -> S]
    BY <1>1
  <1> QED
    BY <1>1, <1>2, FunctionIsSeq

-----------------------------------------------------------------------------
(* Type correctness *)

\* A command on a status names an order, a transaction is open only while its command is
\* being handled, only an IdentifiedCommand saves a request, and a worker that is
\* publishing an event has one.
ControlOf(w) ==
    /\ cmd[w].op \in StatusOp => cmd[w].order \in Orders
    /\ pc[w] \notin {"handle", "commit"} => tx[w] = NoWrites
    /\ pc[w] = "insert" \/ tx[w].request => Identified(w)
    /\ pc[w] \in {"send", "markPublished", "markFailed"} => pending[w] # <<>>

Control == \A w \in Workers : ControlOf(w)

Typing == TypeOK /\ Control

\* The constant parts of a worker's state have their types.
LEMMA ConstantTypes ==
    /\ NoRow \in OrderRow
    /\ NoCommand \in Command
    /\ EmptyContext \in Context
    /\ NoWrites \in Transaction
    /\ <<>> \in Seq(EventId) /\ <<>> \in Seq(EventKey)
    /\ OrderStarted \in EventKey
    /\ NoCommand.op \notin StatusOp
PROOF
  <1>1. <<>> \in Seq(EventId) /\ <<>> \in Seq(EventKey)
    OBVIOUS
  <1> QED
    BY <1>1 DEF NoRow, OrderRow, NoCommand, Command, EmptyContext, Context, NoWrites,
                Transaction, OrderStarted, EventKey, StatusOp

\* Changing a part of a transaction or of a change tracker.
LEMMA ScopeTypes ==
    ASSUME NEW t \in Transaction, NEW c \in Context, NEW row \in OrderRow,
           NEW b \in BOOLEAN, NEW s \in Seq(EventKey)
    PROVE  /\ [t EXCEPT !.request = b] \in Transaction
           /\ [t EXCEPT !.order = b, !.events = s] \in Transaction
           /\ [t EXCEPT !.events = s] \in Transaction
           /\ [c EXCEPT !.request = b] \in Context
           /\ [c EXCEPT !.dirty = b] \in Context
           /\ [c EXCEPT !.order = row] \in Context
           /\ [c EXCEPT !.order = row, !.dirty = b] \in Context
PROOF
  BY DEF Transaction, Context

\* The parts of a transaction after such a change.
LEMMA TransactionParts ==
    ASSUME NEW t \in Transaction, NEW b \in BOOLEAN, NEW s \in Seq(EventKey)
    PROVE  /\ [t EXCEPT !.order = b, !.events = s].request = t.request
           /\ [t EXCEPT !.order = b, !.events = s].order = b
           /\ [t EXCEPT !.order = b, !.events = s].events = s
PROOF
  BY DEF Transaction

\* What a domain method makes of a row is a row, and an event is about a status.
LEMMA MethodTypes ==
    ASSUME NEW op \in StatusOp, NEW row \in OrderRow
    PROVE  /\ [row EXCEPT !.status = NewStatus(op, row.status)] \in OrderRow
           /\ Raises(op, row.status) => NewStatus(op, row.status) \in Status
PROOF
  <1>1. Target(op) \in Status
    BY DEF Target, StatusOp, Status, AwaitingValidation, StockConfirmed, Paid, Shipped, Cancelled
  <1> QED
    BY <1>1 DEF NewStatus, Raises, OrderRow

\* The end of a scope leaves a worker as it was at the start.
LEMMA EndScopeTypes ==
    ASSUME Typing, NEW w \in Workers, EndScope(w)
    PROVE  /\ pc' \in [Workers -> Pc]
           /\ cmd' \in [Workers -> Command]
           /\ ctx' \in [Workers -> Context]
           /\ tx' \in [Workers -> Transaction]
           /\ reply' \in [Workers -> BOOLEAN]
           /\ inner' \in [Workers -> BOOLEAN]
           /\ pending' \in [Workers -> Seq(EventId)]
           /\ Control'
PROOF
  <1>1. /\ pc' \in [Workers -> Pc] /\ pc' = [pc EXCEPT ![w] = "idle"]
        /\ reply' \in [Workers -> BOOLEAN] /\ inner' \in [Workers -> BOOLEAN]
    BY DEF Typing, TypeOK, EndScope, Goto, Pc
  <1>2. cmd' \in [Workers -> Command] /\ ctx' \in [Workers -> Context]
    BY ConstantTypes DEF Typing, TypeOK, EndScope
  <1>3. tx' \in [Workers -> Transaction] /\ pending' \in [Workers -> Seq(EventId)]
    BY ConstantTypes DEF Typing, TypeOK, EndScope
  <1>4. Control'
    BY <1>1, ConstantTypes DEF Typing, TypeOK, Control, ControlOf, EndScope, Identified, NoWrites
  <1> QED
    BY <1>1, <1>2, <1>3, <1>4

\* Found is a row.
LEMMA FoundTypes ==
    ASSUME Typing, NEW w \in Workers, cmd[w].op \in StatusOp
    PROVE  Found(w) \in OrderRow
PROOF
  BY DEF Typing, TypeOK, Control, ControlOf, Found, Context

\* Writing the tables at the end of a transaction keeps their types.
LEMMA WriteTablesTypes ==
    ASSUME Typing, NEW w \in Workers, WriteTables(w)
    PROVE  /\ orders' \in [Orders -> OrderRow]
           /\ requests' \subseteq Requests
           /\ eventLog' \in [EventKey -> Seq(EventState)]
           /\ executed' \in [Requests -> Nat]
PROOF
  <1>1. orders' \in [Orders -> OrderRow]
    BY DEF Typing, TypeOK, WriteTables, Context
  <1>2. requests' \subseteq Requests /\ executed' \in [Requests -> Nat]
    <2>1. tx[w].request \in BOOLEAN /\ cmd[w].req \in Requests \cup {NoRequest}
      BY DEF Typing, TypeOK, Transaction, Command
    <2>2. requests' \subseteq Requests
      BY <2>1 DEF Typing, TypeOK, Control, ControlOf, Identified, WriteTables
    <2>3. executed' \in [Requests -> Nat]
      <3>1. CASE Identified(w) /\ inner[w]
        <4>1. cmd[w].req \in Requests /\ executed[cmd[w].req] + 1 \in Nat
          BY <2>1, <3>1 DEF Typing, TypeOK, Identified
        <4>2. executed' = [executed EXCEPT ![cmd[w].req] = executed[cmd[w].req] + 1]
          BY <3>1 DEF WriteTables
        <4> QED
          BY <4>1, <4>2 DEF Typing, TypeOK
      <3>2. CASE ~(Identified(w) /\ inner[w])
        BY <3>2 DEF Typing, TypeOK, WriteTables
      <3> QED
        BY <3>1, <3>2
    <2> QED
      BY <2>2, <2>3
  <1>3. eventLog' \in [EventKey -> Seq(EventState)]
    <2>1. \A k \in EventKey : /\ eventLog[k] \in Seq(EventState)
                              /\ Append(eventLog[k], "NotPublished") \in Seq(EventState)
      BY DEF Typing, TypeOK, EventState
    <2> QED
      BY <2>1 DEF WriteTables, LogAfter
  <1> QED
    BY <1>1, <1>2, <1>3

\* The ids of the events of a transaction.
LEMMA SavedEventsTypes ==
    ASSUME Typing, NEW w \in Workers
    PROVE  /\ tx[w].events \in Seq(EventKey)
           /\ SavedEvents(w) \in Seq(EventId)
           /\ DOMAIN SavedEvents(w) = DOMAIN tx[w].events
           /\ \A i \in DOMAIN tx[w].events :
                 /\ tx[w].events[i] \in EventKey
                 /\ SavedEvents(w)[i] = <<tx[w].events[i], Len(eventLog[tx[w].events[i]]) + 1>>
PROOF
  <1>1. tx[w].events \in Seq(EventKey)
    BY DEF Typing, TypeOK, Transaction
  <1>2. \A i \in DOMAIN tx[w].events : tx[w].events[i] \in EventKey
    BY <1>1
  <1>3. \A i \in DOMAIN tx[w].events : Len(eventLog[tx[w].events[i]]) \in Nat
    BY <1>2 DEF Typing, TypeOK
  <1>4. \A i \in DOMAIN tx[w].events :
           <<tx[w].events[i], Len(eventLog[tx[w].events[i]]) + 1>> \in EventId
    BY <1>2, <1>3 DEF EventId
  <1>5. SavedEvents(w) \in Seq(EventId)
    <2>1. Len(tx[w].events) \in Nat /\ DOMAIN tx[w].events = 1..Len(tx[w].events)
      BY <1>1, LenProperties
    <2>2. SavedEvents(w) \in [1..Len(tx[w].events) -> EventId]
      BY <2>1, <1>4 DEF SavedEvents
    <2> QED
      BY <2>1, <2>2, FunctionIsSeq
  <1> QED
    BY <1>1, <1>2, <1>5 DEF SavedEvents

\* Updating the state of an event keeps the type of the log and the number of events.
LEMMA UpdateEventStatusTypes ==
    ASSUME Typing, NEW w \in Workers, pending[w] # <<>>,
           NEW state \in EventState, UpdateEventStatus(w, state)
    PROVE  /\ eventLog' \in [EventKey -> Seq(EventState)]
           /\ \A k \in EventKey : DOMAIN eventLog'[k] = DOMAIN eventLog[k]
PROOF
  <1> DEFINE id == Head(pending[w])
  <1>1. id \in EventId
    BY DEF Typing, TypeOK
  <1>2. id[1] \in EventKey
    BY <1>1 DEF EventId
  <1>3. eventLog[id[1]] \in Seq(EventState)
    BY <1>2 DEF Typing, TypeOK
  <1>4. /\ [eventLog[id[1]] EXCEPT ![id[2]] = state] \in Seq(EventState)
        /\ DOMAIN [eventLog[id[1]] EXCEPT ![id[2]] = state] = DOMAIN eventLog[id[1]]
    BY <1>3, ReplaceInSeq
  <1>5. eventLog' = [eventLog EXCEPT ![id[1]] = [eventLog[id[1]] EXCEPT ![id[2]] = state]]
    BY <1>2 DEF UpdateEventStatus, Typing, TypeOK
  <1> HIDE DEF id
  <1> QED
    BY <1>2, <1>4, <1>5 DEF Typing, TypeOK

\* The other workers' state, which no step of worker w touches.
OthersUnchanged(w) ==
    \A v \in Workers \ {w} :
        /\ pc'[v] = pc[v] /\ cmd'[v] = cmd[v] /\ ctx'[v] = ctx[v] /\ tx'[v] = tx[v]
        /\ inner'[v] = inner[v] /\ pending'[v] = pending[v]

\* A worker only touches its own scope.
LEMMA WorkersAreLocal ==
    ASSUME TypeOK, NEW w \in Workers, Arrive(w) \/ Work(w)
    PROVE  OthersUnchanged(w)
PROOF
  <1> USE DEF OthersUnchanged, TypeOK, Goto, Return
  <1>1. EndScope(w) => OthersUnchanged(w)
    BY DEF EndScope
  <1>2. CASE Arrive(w)
    BY <1>2 DEF Arrive, ReceiveCheckout, ReceiveGracePeriod, ReceiveStockAnswer,
                ReceivePaymentAnswer, ReceiveHttp, Receive
  <1>3. CASE Begin(w) \/ Commit(w)
    BY <1>3 DEF Begin, Commit
  <1>4. CASE InsertRequest(w) \/ BeginFails(w)
    BY <1>1, <1>4 DEF InsertRequest, BeginFails
  <1>5. CASE OrderMissing(w) \/ SetStatus(w)
    BY <1>5 DEF OrderMissing, SetStatus
  <1>6. CASE SetStatusThrows(w)
    <2>1. \A row, dirty : HandlerThrows(w, row, dirty) => OthersUnchanged(w)
      BY <1>1 DEF HandlerThrows
    <2> QED
      BY <1>6, <2>1 DEF SetStatusThrows
  <1>7. CASE CreateOrder(w) \/ CreateOrderInvalid(w) \/ CreateOrderThrows(w)
    BY <1>7 DEF CreateOrder, CreateOrderInvalid, CreateOrderThrows
  <1>8. CASE CommitFails(w) \/ CommitAckLost(w) \/ MarkFailedFails(w)
    BY <1>1, <1>8 DEF CommitFails, CommitAckLost, MarkFailedFails
  <1>9. CASE MarkInProgress(w) \/ Publish(w) \/ MarkPublished(w) \/ PublishFails(w)
                 \/ MarkFailed(w) \/ Finish(w)
    BY <1>1, <1>9 DEF MarkInProgress, Publish, MarkPublished, PublishFails, MarkFailed, Finish
  <1> QED
    BY <1>2, <1>3, <1>4, <1>5, <1>6, <1>7, <1>8, <1>9 DEF Work

\* What holds of every worker still does if it does of the one that moved.
LEMMA ControlIsLocal ==
    ASSUME Control, NEW w \in Workers, OthersUnchanged(w), ControlOf(w)'
    PROVE  Control'
PROOF
  BY DEF Control, ControlOf, OthersUnchanged, Identified

\* A command arrives.
LEMMA TypingArrive ==
    ASSUME Typing, NEW w \in Workers, Arrive(w)
    PROVE  Typing'
PROOF
  <1>1. ASSUME NEW op \in StatusOp \cup {"Create"}, NEW r \in Requests \cup {NoRequest},
               NEW o \in Orders \cup {NoOrder}, Receive(w, op, r, o),
               op \in StatusOp => o \in Orders
        PROVE  Typing'
    <2> USE <1>1 DEF Receive, Goto, Typing
    <2>1. [op |-> op, req |-> r, order |-> o] \in Command
      BY DEF Command
    <2>2. TypeOK'
      BY <2>1 DEF TypeOK, Pc, database, outside, history
    <2>3. /\ pc'[w] = "begin" /\ cmd'[w] = [op |-> op, req |-> r, order |-> o]
          /\ tx'[w] = NoWrites
      BY DEF TypeOK, Control, ControlOf
    <2>4. ControlOf(w)'
      BY <2>3 DEF ControlOf, Identified, NoWrites
    <2> QED
      BY <2>2, <2>4, WorkersAreLocal, ControlIsLocal
  <1>2. CASE ReceiveCheckout(w)
    BY <1>1, <1>2 DEF ReceiveCheckout, Requests, StatusOp
  <1>3. CASE ReceiveGracePeriod(w)
    BY <1>1, <1>3 DEF ReceiveGracePeriod, StatusOp, Typing, TypeOK
  <1>4. CASE ReceiveStockAnswer(w)
    BY <1>1, <1>4 DEF ReceiveStockAnswer, StatusOp
  <1>5. CASE ReceivePaymentAnswer(w)
    BY <1>1, <1>5 DEF ReceivePaymentAnswer, StatusOp
  <1>6. CASE ReceiveHttp(w)
    BY <1>1, <1>6 DEF ReceiveHttp, StatusOp, Requests
  <1> QED
    BY <1>2, <1>3, <1>4, <1>5, <1>6 DEF Arrive

\* The number of faults is bounded.
LEMMA FaultTypes ==
    ASSUME Typing, Fault \/ UNCHANGED faults
    PROVE  faults' \in 0..MaxFaults
PROOF
  BY ConstantsAssumption DEF Fault, Typing, TypeOK

\* TransactionBehaviour and IdentifiedCommandHandler up to the inner command.
LEMMA TypingBegin ==
    ASSUME Typing, NEW w \in Workers, Begin(w) \/ InsertRequest(w) \/ BeginFails(w)
    PROVE  Typing'
PROOF
  <1> USE DEF database, outside, history
  <1>1. CASE Begin(w)
    <2>1. TypeOK'
      BY <1>1, ConstantTypes DEF Typing, TypeOK, Begin, Goto, Pc
    <2>2. ControlOf(w)'
      BY <1>1 DEF Typing, TypeOK, Control, ControlOf, Begin, Goto, Identified, NoWrites
    <2> QED
      BY <1>1, <2>1, <2>2, WorkersAreLocal, ControlIsLocal DEF Typing, Work
  <1>2. CASE InsertRequest(w) /\ RowExists(w)
    BY <1>2, EndScopeTypes DEF InsertRequest, Typing, TypeOK
  <1>3. CASE InsertRequest(w) /\ ~RowExists(w)
    <2>1. tx' \in [Workers -> Transaction] /\ ctx' \in [Workers -> Context]
      <3>1. /\ [tx[w] EXCEPT !.request = TRUE] \in Transaction
            /\ [ctx[w] EXCEPT !.request = TRUE] \in Context
        BY ScopeTypes, ConstantTypes DEF Typing, TypeOK
      <3>2. /\ tx' = [tx EXCEPT ![w] = [tx[w] EXCEPT !.request = TRUE]]
            /\ ctx' = [ctx EXCEPT ![w] = [ctx[w] EXCEPT !.request = TRUE]]
        BY <1>3 DEF InsertRequest
      <3> QED
        BY <3>1, <3>2 DEF Typing, TypeOK
    <2>2. TypeOK'
      BY <1>3, <2>1 DEF Typing, TypeOK, InsertRequest, Goto, Pc
    <2>3. ControlOf(w)'
      BY <1>3 DEF Typing, TypeOK, Control, ControlOf, InsertRequest, Goto, Identified
    <2> QED
      BY <1>3, <2>2, <2>3, WorkersAreLocal, ControlIsLocal DEF Typing, Work
  <1>4. CASE BeginFails(w)
    BY <1>4, EndScopeTypes, FaultTypes DEF BeginFails, Typing, TypeOK
  <1> QED
    BY <1>1, <1>2, <1>3, <1>4

\* An exception out of a handler.
LEMMA TypingThrows ==
    ASSUME Typing, NEW w \in Workers, NEW row \in OrderRow, NEW b \in BOOLEAN,
           pc[w] = "handle", HandlerThrows(w, row, b), faults' \in 0..MaxFaults
    PROVE  /\ TypeOK'
           /\ ControlOf(w)'
PROOF
  <1> USE DEF database, outside, history
  <1>1. CASE Identified(w)
    <2>1. ctx' \in [Workers -> Context]
      <3>1. [ctx[w] EXCEPT !.order = row, !.dirty = b] \in Context
        BY ScopeTypes, ConstantTypes DEF Typing, TypeOK
      <3>2. ctx' = [ctx EXCEPT ![w] = [ctx[w] EXCEPT !.order = row, !.dirty = b]]
        BY <1>1 DEF HandlerThrows
      <3> QED
        BY <3>1, <3>2 DEF Typing, TypeOK
    <2>2. TypeOK'
      BY <1>1, <2>1 DEF Typing, TypeOK, HandlerThrows, Return, Goto, Pc
    <2>3. /\ pc'[w] = "commit" /\ cmd'[w] = cmd[w] /\ tx'[w] = tx[w] /\ ControlOf(w)
      BY <1>1 DEF Typing, TypeOK, Control, HandlerThrows, Return, Goto
    <2>4. ControlOf(w)'
      BY <2>3 DEF ControlOf, Identified
    <2> QED
      BY <2>2, <2>4
  <1>2. CASE ~Identified(w)
    BY <1>2, EndScopeTypes DEF HandlerThrows, Typing, TypeOK, Control
  <1> QED
    BY <1>1, <1>2

\* A command that changes the status of an order.
LEMMA TypingStatus ==
    ASSUME Typing, NEW w \in Workers, OrderMissing(w) \/ SetStatus(w) \/ SetStatusThrows(w)
    PROVE  Typing'
PROOF
  <1> USE DEF database, outside, history
  <1> DEFINE op == cmd[w].op  row == Found(w)
             changed == [row EXCEPT !.status = NewStatus(op, row.status)]
  <1>1. /\ pc[w] = "handle" /\ op \in StatusOp /\ cmd[w].order \in Orders
        /\ ControlOf(w) /\ row \in OrderRow /\ changed \in OrderRow
        /\ Raises(op, row.status) => NewStatus(op, row.status) \in Status
    <2>1. pc[w] = "handle" /\ op \in StatusOp
      BY DEF OrderMissing, SetStatus, SetStatusThrows
    <2>2. row \in OrderRow
      BY <2>1, FoundTypes
    <2> QED
      BY <2>1, <2>2, MethodTypes DEF Typing, Control, ControlOf
  <1>2. CASE OrderMissing(w)
    <2>1. TypeOK'
      BY <1>2 DEF Typing, TypeOK, OrderMissing, Return, Goto, Pc
    <2>2. pc'[w] = "commit" /\ cmd'[w] = cmd[w] /\ tx'[w] = tx[w]
      BY <1>2 DEF Typing, TypeOK, OrderMissing, Return, Goto
    <2> QED
      BY <1>1, <1>2, <2>1, <2>2, WorkersAreLocal, ControlIsLocal
      DEF Typing, Work, ControlOf, Identified
  <1>3. CASE SetStatus(w)
    <2> DEFINE b == NewStatus(op, row.status) # row.status
               s == IF Raises(op, row.status)
                    THEN <<<<NewStatus(op, row.status), cmd[w].order>>>> ELSE <<>>
    <2>1. s \in Seq(EventKey)
      <3>1. CASE Raises(op, row.status)
        <4>1. <<NewStatus(op, row.status), cmd[w].order>> \in EventKey
          BY <1>1, <3>1 DEF EventKey
        <4> HIDE DEF op, row
        <4> QED
          BY <3>1, <4>1
      <3>2. CASE ~Raises(op, row.status)
        BY <3>2, ConstantTypes
      <3> QED
        BY <3>1, <3>2
    <2>2. /\ tx' = [tx EXCEPT ![w] = [tx[w] EXCEPT !.order = b, !.events = s]]
          /\ ctx' = [ctx EXCEPT ![w] = [ctx[w] EXCEPT !.order = changed]]
      BY <1>3 DEF SetStatus
    <2>3. b \in BOOLEAN
      OBVIOUS
    <2> HIDE DEF op, row, changed, b, s
    <2>4. tx' \in [Workers -> Transaction] /\ ctx' \in [Workers -> Context]
      BY <1>1, <2>1, <2>2, <2>3, ScopeTypes DEF Typing, TypeOK
    <2>5. TypeOK'
      BY <1>3, <2>4 DEF Typing, TypeOK, SetStatus, Return, Goto, Pc
    <2>6. pc'[w] = "commit" /\ cmd'[w] = cmd[w]
      BY <1>3 DEF Typing, TypeOK, SetStatus, Return, Goto
    <2>7. tx'[w].request = tx[w].request
      BY <2>2 DEF Typing, TypeOK, Transaction
    <2>8. ControlOf(w)'
      BY <1>1, <2>6, <2>7 DEF ControlOf, Identified
    <2> QED
      BY <1>3, <2>5, <2>8, WorkersAreLocal, ControlIsLocal DEF Typing, Work
  <1>4. CASE SetStatusThrows(w)
    <2>1. faults' \in 0..MaxFaults
      <3>1. Fault \/ UNCHANGED faults
        BY <1>4 DEF SetStatusThrows
      <3> QED
        BY <3>1, FaultTypes
    <2>2. \E r \in {row, changed}, b \in BOOLEAN : HandlerThrows(w, r, b)
      BY <1>4 DEF SetStatusThrows
    <2>3. TypeOK' /\ ControlOf(w)'
      BY <1>1, <2>1, <2>2, TypingThrows
    <2> QED
      BY <1>4, <2>3, WorkersAreLocal, ControlIsLocal DEF Typing, Work
  <1> QED
    BY <1>2, <1>3, <1>4

\* How a checkout ends: the command, the transaction and the change tracker have changed.
LEMMA TypingCreated ==
    ASSUME Typing, NEW w \in Workers, pc[w] = "handle", cmd[w].op = "Create",
           NEW c \in Command, c.op = cmd[w].op, c.req = cmd[w].req,
           NEW t \in Transaction, t.request = tx[w].request,
           NEW x \in Context,
           NEW b \in BOOLEAN, Return(w, b, b), Fault \/ UNCHANGED faults,
           cmd' = [cmd EXCEPT ![w] = c],
           tx' = [tx EXCEPT ![w] = t],
           ctx' = [ctx EXCEPT ![w] = x],
           UNCHANGED <<database, outside, pending, history>>
    PROVE  TypeOK' /\ ControlOf(w)'
PROOF
  <1> USE DEF database, outside, history
  <1>1. /\ cmd' \in [Workers -> Command] /\ tx' \in [Workers -> Transaction]
        /\ ctx' \in [Workers -> Context] /\ faults' \in 0..MaxFaults
    BY FaultTypes DEF Typing, TypeOK
  <1>2. TypeOK'
    BY <1>1 DEF Typing, TypeOK, Return, Goto, Pc
  <1>3. pc'[w] = "commit" /\ cmd'[w] = c /\ tx'[w] = t /\ ControlOf(w)
    BY DEF Typing, TypeOK, Return, Goto, Control
  <1>4. ControlOf(w)'
    BY <1>3 DEF ControlOf, Identified, StatusOp
  <1> QED
    BY <1>2, <1>4

\* A checkout.
LEMMA TypingCreate ==
    ASSUME Typing, NEW w \in Workers,
           CreateOrder(w) \/ CreateOrderInvalid(w) \/ CreateOrderThrows(w)
    PROVE  Typing'
PROOF
  <1>1. /\ pc[w] = "handle" /\ cmd[w].op = "Create"
        /\ cmd[w] \in Command /\ tx[w] \in Transaction /\ ctx[w] \in Context
    BY DEF CreateOrder, CreateOrderInvalid, CreateOrderThrows, Typing, TypeOK
  <1>2. \A o \in Orders : LET c == [cmd[w] EXCEPT !.order = o]
                          IN  c \in Command /\ c.op = cmd[w].op /\ c.req = cmd[w].req
    BY <1>1 DEF Command
  <1>3. \A b \in BOOLEAN : [status |-> Submitted, buyer |-> b] \in OrderRow
    BY DEF OrderRow, Status
  <1>4. /\ <<OrderStarted>> \in Seq(EventKey)
        /\ \A o \in Orders : <<OrderStarted, <<Submitted, o>>>> \in Seq(EventKey)
    <2>1. \A o \in Orders : <<Submitted, o>> \in EventKey
      BY DEF EventKey, Status
    <2>2. OrderStarted \in EventKey
      BY ConstantTypes
    <2> QED
      BY <2>1, <2>2, ShortSeqs
  <1>5. ASSUME NEW b \in BOOLEAN, NEW s \in Seq(EventKey)
        PROVE  /\ [tx[w] EXCEPT !.order = b, !.events = s] \in Transaction
               /\ [tx[w] EXCEPT !.events = s] \in Transaction
               /\ [tx[w] EXCEPT !.order = b, !.events = s].request = tx[w].request
               /\ [tx[w] EXCEPT !.events = s].request = tx[w].request
    BY <1>1, ScopeTypes, ConstantTypes DEF Transaction
  <1>6. ASSUME NEW b \in BOOLEAN, NEW d \in BOOLEAN
        PROVE  LET row == [status |-> Submitted, buyer |-> b]
               IN  /\ [ctx[w] EXCEPT !.order = row] \in Context
                   /\ [ctx[w] EXCEPT !.order = row, !.dirty = d] \in Context
    BY <1>1, <1>3, ScopeTypes, ConstantTypes
  <1>7. /\ cmd = [cmd EXCEPT ![w] = cmd[w]] /\ tx = [tx EXCEPT ![w] = tx[w]]
        /\ ctx = [ctx EXCEPT ![w] = ctx[w]]
    BY DEF Typing, TypeOK
  <1>8. TypeOK' /\ ControlOf(w)'
    <2>1. CASE CreateOrder(w)
      <3>0. PICK o \in Orders :
               /\ Unused(o)
               /\ cmd' = [cmd EXCEPT ![w].order = o]
               /\ tx' = [tx EXCEPT ![w].order = TRUE,
                                   ![w].events = <<OrderStarted, <<Submitted, o>>>>]
        BY <2>1, Zenon DEF CreateOrder
      <3>1. /\ cmd' = [cmd EXCEPT ![w] = [cmd[w] EXCEPT !.order = o]]
            /\ tx' = [tx EXCEPT ![w] = [tx[w] EXCEPT !.order = TRUE,
                                       !.events = <<OrderStarted, <<Submitted, o>>>>]]
        BY <3>0
      <3>2. /\ ctx' = [ctx EXCEPT ![w] =
                          [ctx[w] EXCEPT !.order = [status |-> Submitted, buyer |-> TRUE]]]
            /\ Return(w, TRUE, TRUE)
            /\ UNCHANGED <<database, outside, pending, history, faults>>
        BY <2>1 DEF CreateOrder
      <3> QED
        BY <1>1, <1>2, <1>4, <1>5, <1>6, <3>1, <3>2, TypingCreated
    <2>2. CASE CreateOrderInvalid(w)
      BY <1>1, <1>7, <2>2, TypingCreated DEF CreateOrderInvalid
    <2>3. CASE CreateOrderThrows(w)
      <3>1. /\ Return(w, FALSE, FALSE) /\ Fault
            /\ UNCHANGED <<database, outside, pending, history>>
        BY <2>3 DEF CreateOrderThrows
      <3>2. CASE /\ tx' = [tx EXCEPT ![w].events = <<OrderStarted>>]
                 /\ UNCHANGED <<cmd, ctx>>
        <4>1. /\ tx' = [tx EXCEPT ![w] = [tx[w] EXCEPT !.events = <<OrderStarted>>]]
              /\ cmd' = [cmd EXCEPT ![w] = cmd[w]] /\ ctx' = [ctx EXCEPT ![w] = ctx[w]]
          BY <3>2, <1>7
        <4> QED
          BY <1>1, <1>4, <1>5, <3>1, <4>1, TypingCreated, ConstantTypes
      <3>3. CASE \E o \in Orders, b \in BOOLEAN :
                    /\ cmd' = [cmd EXCEPT ![w].order = o]
                    /\ tx' = [tx EXCEPT ![w].order = b, ![w].events = <<OrderStarted>>]
                    /\ ctx' = [ctx EXCEPT ![w].order = [status |-> Submitted, buyer |-> b],
                                          ![w].dirty = ~b]
        <4>0. PICK o \in Orders, b \in BOOLEAN :
                /\ cmd' = [cmd EXCEPT ![w].order = o]
                /\ tx' = [tx EXCEPT ![w].order = b, ![w].events = <<OrderStarted>>]
                /\ ctx' = [ctx EXCEPT ![w].order = [status |-> Submitted, buyer |-> b],
                                      ![w].dirty = ~b]
          BY <3>3, Zenon
        <4>1. /\ cmd' = [cmd EXCEPT ![w] = [cmd[w] EXCEPT !.order = o]]
              /\ tx' = [tx EXCEPT ![w] = [tx[w] EXCEPT !.order = b,
                                                       !.events = <<OrderStarted>>]]
              /\ ctx' = [ctx EXCEPT ![w] =
                            [ctx[w] EXCEPT !.order = [status |-> Submitted, buyer |-> b],
                                           !.dirty = ~b]]
          BY <4>0
        <4>2. (~b) \in BOOLEAN
          OBVIOUS
        <4> QED
          BY <1>1, <1>2, <1>4, <1>5, <1>6, <3>1, <4>1, <4>2, TypingCreated
      <3> QED
        BY <2>3, <3>2, <3>3 DEF CreateOrderThrows
    <2> QED
      BY <2>1, <2>2, <2>3
  <1> QED
    BY <1>8, WorkersAreLocal, ControlIsLocal DEF Typing, Work

\* The end of a transaction.
LEMMA TypingCommit ==
    ASSUME Typing, NEW w \in Workers, Commit(w) \/ CommitFails(w) \/ CommitAckLost(w)
    PROVE  Typing'
PROOF
  <1> USE DEF database, outside, history
  <1>1. ControlOf(w) /\ pc[w] = "commit" /\ ctx[w] \in Context
    BY DEF Typing, TypeOK, Control, Commit, CommitFails, CommitAckLost
  <1>2. ASSUME pc' = [pc EXCEPT ![w] = "begin"] \/ pc' = [pc EXCEPT ![w] = "publish"],
               UNCHANGED cmd, tx' = [tx EXCEPT ![w] = NoWrites],
               NEW b \in BOOLEAN, ctx' = [ctx EXCEPT ![w].dirty = b]
        PROVE  /\ ControlOf(w)' /\ pc' \in [Workers -> Pc]
               /\ tx' \in [Workers -> Transaction] /\ ctx' \in [Workers -> Context]
    <2>1. ctx' \in [Workers -> Context]
      <3>1. [ctx[w] EXCEPT !.dirty = b] \in Context
        BY <1>1, ScopeTypes, ConstantTypes
      <3>2. ctx' = [ctx EXCEPT ![w] = [ctx[w] EXCEPT !.dirty = b]]
        BY <1>2
      <3> QED
        BY <3>1, <3>2 DEF Typing, TypeOK
    <2>2. /\ pc'[w] \in {"begin", "publish"} /\ tx'[w] = NoWrites /\ cmd'[w] = cmd[w]
          /\ pc' \in [Workers -> Pc] /\ tx' \in [Workers -> Transaction]
      BY <1>2, ConstantTypes DEF Typing, TypeOK, Pc
    <2>3. ControlOf(w)'
      BY <1>1, <2>2 DEF ControlOf, Identified, NoWrites
    <2> QED
      BY <2>1, <2>2, <2>3
  <1>3. CASE Commit(w)
    <2>1. /\ ControlOf(w)' /\ pc' \in [Workers -> Pc]
          /\ tx' \in [Workers -> Transaction] /\ ctx' \in [Workers -> Context]
      BY <1>2, <1>3 DEF Commit, Goto
    <2>2. TypeOK'
      BY <1>3, <2>1, WriteTablesTypes, SavedEventsTypes DEF Commit, Typing, TypeOK
    <2> QED
      BY <1>3, <2>1, <2>2, WorkersAreLocal, ControlIsLocal DEF Typing, Work
  <1>4. CASE CommitFails(w)
    <2>1. faults' \in 0..MaxFaults
      BY <1>4, FaultTypes DEF CommitFails
    <2>2. CASE EndScope(w)
      BY <1>4, <2>1, <2>2, EndScopeTypes DEF CommitFails, Typing, TypeOK
    <2>3. CASE /\ Goto(w, "begin") /\ tx' = [tx EXCEPT ![w] = NoWrites]
               /\ \E accepted \in BOOLEAN :
                     ctx' = [ctx EXCEPT ![w].dirty = ctx[w].dirty /\ ~accepted]
               /\ UNCHANGED <<cmd, reply, inner, pending>>
      <3>1. PICK accepted \in BOOLEAN :
               ctx' = [ctx EXCEPT ![w].dirty = ctx[w].dirty /\ ~accepted]
        BY <2>3, Zenon
      <3>2. (ctx[w].dirty /\ ~accepted) \in BOOLEAN
        OBVIOUS
      <3>3. /\ ControlOf(w)' /\ pc' \in [Workers -> Pc]
            /\ tx' \in [Workers -> Transaction] /\ ctx' \in [Workers -> Context]
        BY <1>2, <2>3, <3>1, <3>2 DEF Goto
      <3>4. TypeOK'
        BY <1>4, <2>1, <2>3, <3>3 DEF CommitFails, Typing, TypeOK
      <3> QED
        BY <1>4, <3>3, <3>4, WorkersAreLocal, ControlIsLocal DEF Typing, Work
    <2> QED
      BY <1>4, <2>2, <2>3, Zenon DEF CommitFails
  <1>5. CASE CommitAckLost(w)
    <2>1. faults' \in 0..MaxFaults
      BY <1>5, FaultTypes DEF CommitAckLost
    <2>2. CASE EndScope(w)
      BY <1>5, <2>1, <2>2, EndScopeTypes, WriteTablesTypes DEF CommitAckLost, Typing, TypeOK
    <2>3. CASE /\ Goto(w, "begin") /\ tx' = [tx EXCEPT ![w] = NoWrites]
               /\ ctx' = [ctx EXCEPT ![w].dirty = FALSE]
               /\ UNCHANGED <<cmd, reply, inner, pending>>
      <3>1. /\ ControlOf(w)' /\ pc' \in [Workers -> Pc]
            /\ tx' \in [Workers -> Transaction] /\ ctx' \in [Workers -> Context]
        BY <1>2, <2>3 DEF Goto
      <3>2. TypeOK'
        BY <1>5, <2>1, <2>3, <3>1, WriteTablesTypes DEF CommitAckLost, Typing, TypeOK
      <3> QED
        BY <1>5, <3>1, <3>2, WorkersAreLocal, ControlIsLocal DEF Typing, Work
    <2> QED
      BY <1>5, <2>2, <2>3 DEF CommitAckLost
  <1> QED
    BY <1>3, <1>4, <1>5

\* The publishing of the committed events, and the end of the command.
LEMMA TypingPublish ==
    ASSUME Typing, NEW w \in Workers,
           \/ MarkInProgress(w) \/ Publish(w) \/ MarkPublished(w)
           \/ PublishFails(w) \/ MarkFailed(w) \/ MarkFailedFails(w) \/ Finish(w)
    PROVE  Typing'
PROOF
  <1> USE DEF database, outside, history
  <1>1. /\ ControlOf(w) /\ pending[w] \in Seq(EventId) /\ tx[w] = NoWrites
        /\ pc[w] \in {"publish", "send", "markPublished", "markFailed"}
    BY DEF Typing, TypeOK, Control, ControlOf, MarkInProgress, Publish, MarkPublished,
           PublishFails, MarkFailed, MarkFailedFails, Finish
  <1>2. pending[w] # <<>> => Head(pending[w]) \in EventId /\ Tail(pending[w]) \in Seq(EventId)
    BY <1>1, HeadTailProperties
  <1>3. {"InProgress", "Published", "PublishedFailed"} \subseteq EventState
    BY DEF EventState
  <1>4. ASSUME UNCHANGED <<cmd, tx>>, NEW label \in Pc, pc' = [pc EXCEPT ![w] = label],
               label \in {"send", "markPublished", "markFailed"} => pending'[w] # <<>>,
               label # "insert"
        PROVE  ControlOf(w)'
    <2>1. pc'[w] = label /\ cmd'[w] = cmd[w] /\ tx'[w] = NoWrites
      BY <1>1, <1>4 DEF Typing, TypeOK
    <2> QED
      BY <1>1, <1>4, <2>1 DEF ControlOf, Identified, NoWrites
  <1>5. CASE MarkInProgress(w)
    <2>1. TypeOK' /\ ControlOf(w)'
      BY <1>3, <1>4, <1>5, UpdateEventStatusTypes DEF MarkInProgress, Goto, Pc, Typing, TypeOK
    <2> QED
      BY <1>5, <2>1, WorkersAreLocal, ControlIsLocal DEF Typing, Work
  <1>6. CASE Publish(w)
    <2>1. TypeOK'
      BY <1>1, <1>2, <1>6 DEF ControlOf, Publish, Goto, Pc, Typing, TypeOK
    <2>2. ControlOf(w)'
      BY <1>1, <1>4, <1>6 DEF ControlOf, Publish, Goto, Pc
    <2> QED
      BY <1>6, <2>1, <2>2, WorkersAreLocal, ControlIsLocal DEF Typing, Work
  <1>7. CASE MarkPublished(w) \/ MarkFailed(w)
    <2>1. pending[w] # <<>>
      BY <1>1, <1>7 DEF ControlOf, MarkPublished, MarkFailed
    <2>2. eventLog' \in [EventKey -> Seq(EventState)]
      BY <1>3, <1>7, <2>1, UpdateEventStatusTypes DEF MarkPublished, MarkFailed
    <2>3. pending' \in [Workers -> Seq(EventId)]
      BY <1>2, <1>7, <2>1 DEF MarkPublished, MarkFailed, Typing, TypeOK
    <2>4. TypeOK'
      BY <1>7, <2>2, <2>3 DEF MarkPublished, MarkFailed, Goto, Pc, Typing, TypeOK
    <2>5. ControlOf(w)'
      BY <1>4, <1>7 DEF MarkPublished, MarkFailed, Goto, Pc
    <2> QED
      BY <1>7, <2>4, <2>5, WorkersAreLocal, ControlIsLocal DEF Typing, Work
  <1>8. CASE PublishFails(w)
    <2>1. TypeOK'
      BY <1>8, FaultTypes DEF PublishFails, Goto, Pc, Typing, TypeOK
    <2>2. ControlOf(w)'
      BY <1>1, <1>4, <1>8 DEF ControlOf, PublishFails, Goto, Pc
    <2> QED
      BY <1>8, <2>1, <2>2, WorkersAreLocal, ControlIsLocal DEF Typing, Work
  <1>9. CASE MarkFailedFails(w)
    <2>1. faults' \in 0..MaxFaults
      BY <1>9, FaultTypes DEF MarkFailedFails
    <2>2. CASE EndScope(w)
      BY <1>9, <2>1, <2>2, EndScopeTypes DEF MarkFailedFails, Typing, TypeOK
    <2>3. CASE /\ Goto(w, "begin") /\ pending' = [pending EXCEPT ![w] = <<>>]
               /\ UNCHANGED <<cmd, ctx, tx, reply, inner>>
      <3>1. TypeOK'
        BY <1>9, <2>1, <2>3, ConstantTypes DEF MarkFailedFails, Goto, Pc, Typing, TypeOK
      <3>2. ControlOf(w)'
        BY <1>4, <2>3 DEF Goto, Pc
      <3> QED
        BY <1>9, <3>1, <3>2, WorkersAreLocal, ControlIsLocal DEF Typing, Work
    <2> QED
      BY <1>9, <2>2, <2>3 DEF MarkFailedFails
  <1>10. CASE Finish(w)
    <2>1. answered' \subseteq Requests \X BOOLEAN
      BY <1>10 DEF Finish, Identified, Typing, TypeOK, Command
    <2> QED
      BY <1>10, <2>1, EndScopeTypes DEF Finish, Typing, TypeOK
  <1> QED
    BY <1>5, <1>6, <1>7, <1>8, <1>9, <1>10

\* A crash, a poll of the grace period, and steps that change nothing.
LEMMA TypingOther ==
    ASSUME Typing, Crash \/ (\E o \in Orders : GracePeriodPoll(o)) \/ UNCHANGED vars
    PROVE  Typing'
PROOF
  <1> USE DEF database, outside, history
  <1>1. CASE Crash
    <2>1. faults' \in 0..MaxFaults
      BY <1>1, FaultTypes DEF Crash
    <2>2. TypeOK'
      BY <1>1, <2>1, ConstantTypes DEF Crash, Typing, TypeOK, Pc
    <2>3. ASSUME NEW v \in Workers
          PROVE  ControlOf(v)'
      <3>1. pc'[v] = "idle" /\ cmd'[v] = NoCommand /\ tx'[v] = NoWrites
        BY <1>1 DEF Crash
      <3> QED
        BY <3>1, ConstantTypes DEF ControlOf, NoWrites
    <2> QED
      BY <2>2, <2>3 DEF Typing, Control
  <1>2. CASE \E o \in Orders : GracePeriodPoll(o)
    <2>1. TypeOK' /\ UNCHANGED <<pc, cmd, tx, pending>>
      BY <1>2 DEF GracePeriodPoll, local, Typing, TypeOK
    <2> QED
      BY <2>1 DEF Typing, Control, ControlOf, Identified
  <1>3. CASE UNCHANGED vars
    BY <1>3 DEF vars, local, Typing, TypeOK, Control, ControlOf, Identified
  <1> QED
    BY <1>1, <1>2, <1>3

\* The invariant of the types is inductive.
LEMMA TypingInvariant == Spec => []Typing
PROOF
  <1>1. Init => Typing
    BY ConstantTypes, ConstantsAssumption
    DEF Init, Typing, TypeOK, Control, ControlOf, Identified, NoWrites, Pc
  <1>2. Typing /\ [Next]_vars => Typing'
    BY TypingArrive, TypingBegin, TypingStatus, TypingCreate, TypingCommit, TypingPublish,
       TypingOther
    DEF Next, Work
  <1> QED
    BY <1>1, <1>2, PTL DEF Spec

\* Tables, workers and history have their types in every reachable state.
THEOREM TypeCorrect == Spec => []TypeOK
PROOF
  <1>1. Typing => TypeOK
    BY DEF Typing
  <1> QED
    BY <1>1, TypingInvariant, PTL

-----------------------------------------------------------------------------
(* The outbox: what is handed over was saved *)

\* No event is taken out of the log.
LogKept == \A k \in EventKey : Len(eventLog[k]) <= Len(eventLog'[k])

LEMMA LogGrows ==
    ASSUME Typing, [Next]_vars
    PROVE  LogKept
PROOF
  <1>1. \A k \in EventKey : eventLog[k] \in Seq(EventState) /\ Len(eventLog[k]) \in Nat
    BY DEF Typing, TypeOK
  <1>2. UNCHANGED eventLog => LogKept
    BY <1>1 DEF LogKept
  <1>3. ASSUME NEW w \in Workers, WriteTables(w)
        PROVE  LogKept
    <2>1. \A k \in EventKey : Len(Append(eventLog[k], "NotPublished")) = Len(eventLog[k]) + 1
      BY <1>1 DEF EventState
    <2>2. \A k \in EventKey : eventLog'[k] \in {eventLog[k], Append(eventLog[k], "NotPublished")}
      BY <1>3 DEF WriteTables, LogAfter
    <2> QED
      BY <1>1, <2>1, <2>2 DEF LogKept
  <1>4. ASSUME NEW w \in Workers, pending[w] # <<>>, NEW state \in EventState,
               UpdateEventStatus(w, state)
        PROVE  LogKept
    <2>1. ASSUME NEW k \in EventKey
          PROVE  Len(eventLog'[k]) = Len(eventLog[k])
      <3>1. eventLog'[k] \in Seq(EventState) /\ DOMAIN eventLog'[k] = DOMAIN eventLog[k]
        BY <1>4, UpdateEventStatusTypes
      <3> QED
        BY <1>1, <3>1
    <2> QED
      BY <1>1, <2>1 DEF LogKept
  <1>5. ASSUME NEW w \in Workers, Arrive(w) \/ Work(w)
        PROVE  LogKept
    <2> USE DEF database, history
    <2>1. ControlOf(w) /\ {"InProgress", "Published", "PublishedFailed"} \subseteq EventState
      BY DEF Typing, Control, EventState
    <2>2. CASE Arrive(w)
      BY <1>2, <2>2 DEF Arrive, ReceiveCheckout, ReceiveGracePeriod, ReceiveStockAnswer,
                        ReceivePaymentAnswer, ReceiveHttp, Receive
    <2>3. CASE Begin(w) \/ InsertRequest(w) \/ BeginFails(w) \/ OrderMissing(w)
               \/ SetStatus(w) \/ CreateOrder(w) \/ CreateOrderInvalid(w) \/ CreateOrderThrows(w)
      BY <1>2, <2>3 DEF Begin, InsertRequest, BeginFails, OrderMissing, SetStatus,
                        CreateOrder, CreateOrderInvalid, CreateOrderThrows
    <2>4. CASE SetStatusThrows(w)
      <3>1. \A row, b : HandlerThrows(w, row, b) => UNCHANGED eventLog
        BY DEF HandlerThrows
      <3> QED
        BY <1>2, <2>4, <3>1 DEF SetStatusThrows
    <2>5. CASE Commit(w) \/ CommitAckLost(w)
      BY <1>3, <2>5 DEF Commit, CommitAckLost
    <2>6. CASE CommitFails(w) \/ Publish(w) \/ PublishFails(w) \/ MarkFailedFails(w) \/ Finish(w)
      BY <1>2, <2>6 DEF CommitFails, Publish, PublishFails, MarkFailedFails, Finish
    <2>7. CASE MarkInProgress(w) \/ MarkPublished(w) \/ MarkFailed(w)
      BY <1>4, <2>1, <2>7 DEF ControlOf, MarkInProgress, MarkPublished, MarkFailed
    <2> QED
      BY <1>5, <2>2, <2>3, <2>4, <2>5, <2>6, <2>7 DEF Work
  <1> QED
    BY <1>2, <1>5 DEF Next, Crash, GracePeriodPoll, vars, database

\* The event is in the log.
InLog(log, id) == id[2] <= Len(log[id[1]])

\* What a worker has still to hand over is in the log.
PendingInv == \A w \in Workers : \A i \in DOMAIN pending[w] : InLog(eventLog, pending[w][i])

\* The ids of a log, one by one.
LEMMA IdsOfLog ==
    ASSUME NEW log \in [EventKey -> Seq(EventState)], NEW id
    PROVE  id \in UNION {{k} \X DOMAIN log[k] : k \in EventKey}
              <=> id \in EventId /\ InLog(log, id)
PROOF
  <1> DEFINE Ids == UNION {{k} \X DOMAIN log[k] : k \in EventKey}
  <1>1. \A k \in EventKey : /\ DOMAIN log[k] = 1..Len(log[k])
                            /\ Len(log[k]) \in Nat
    OBVIOUS
  <1>2. ASSUME id \in Ids
        PROVE  id \in EventId /\ InLog(log, id)
    <2>1. PICK k \in EventKey : id \in {k} \X DOMAIN log[k]
      BY <1>2
    <2>2. PICK n \in DOMAIN log[k] : id = <<k, n>>
      BY <2>1
    <2>3. n \in Nat \ {0} /\ n <= Len(log[k])
      BY <1>1, <2>2
    <2> QED
      BY <2>2, <2>3 DEF EventId, InLog
  <1>3. ASSUME id \in EventId, InLog(log, id)
        PROVE  id \in Ids
    <2>1. PICK k \in EventKey, n \in Nat \ {0} : id = <<k, n>>
      BY <1>3 DEF EventId
    <2>2. n \in DOMAIN log[k]
      BY <1>1, <1>3, <2>1 DEF InLog
    <2>3. id \in {k} \X DOMAIN log[k]
      BY <2>1, <2>2
    <2> QED
      BY <2>3
  <1> QED
    BY <1>2, <1>3

\* SavedIds, now and in the next state.
LEMMA SavedIdsMembers ==
    ASSUME NEW id
    PROVE  /\ Typing => (id \in SavedIds <=> id \in EventId /\ InLog(eventLog, id))
           /\ Typing' => (id \in SavedIds' <=> id \in EventId /\ InLog(eventLog', id))
PROOF
  <1>1. Typing => (id \in SavedIds <=> id \in EventId /\ InLog(eventLog, id))
    BY IdsOfLog DEF SavedIds, Typing, TypeOK
  <1>2. Typing' => (id \in SavedIds' <=> id \in EventId /\ InLog(eventLog', id))
    BY IdsOfLog DEF SavedIds, Typing, TypeOK
  <1> QED
    BY <1>1, <1>2

\* An event stays in the log.
LEMMA InLogStays ==
    ASSUME Typing, Typing', LogKept, NEW id \in EventId, InLog(eventLog, id)
    PROVE  InLog(eventLog', id)
PROOF
  <1>1. id[1] \in EventKey /\ id[2] \in Nat
    BY DEF EventId
  <1>2. Len(eventLog[id[1]]) \in Nat /\ Len(eventLog'[id[1]]) \in Nat
    BY <1>1 DEF Typing, TypeOK
  <1> QED
    BY <1>1, <1>2 DEF LogKept, InLog

\* The events of a transaction are in the log once it has committed.
LEMMA SavedEventsInLog ==
    ASSUME Typing, NEW w \in Workers, WriteTables(w), NEW i \in DOMAIN SavedEvents(w)
    PROVE  InLog(eventLog', SavedEvents(w)[i])
PROOF
  <1> DEFINE k == tx[w].events[i]
  <1>1. /\ i \in DOMAIN tx[w].events /\ k \in EventKey
        /\ SavedEvents(w)[i] = <<k, Len(eventLog[k]) + 1>>
    BY SavedEventsTypes
  <1>2. eventLog'[k] = Append(eventLog[k], "NotPublished")
    BY <1>1 DEF WriteTables, LogAfter
  <1>3. eventLog[k] \in Seq(EventState) /\ Len(eventLog[k]) \in Nat
    BY <1>1 DEF Typing, TypeOK
  <1>4. Len(eventLog'[k]) = Len(eventLog[k]) + 1
    BY <1>2, <1>3 DEF EventState
  <1> HIDE DEF k
  <1>5. ASSUME NEW id, id = <<k, Len(eventLog[k]) + 1>>
        PROVE  InLog(eventLog', id)
    BY <1>3, <1>4, <1>5 DEF InLog
  <1> QED
    BY <1>1, <1>5

\* No step makes a worker hold an event that is not in the log.
LEMMA PendingStep ==
    ASSUME Typing, Typing', PendingInv, [Next]_vars
    PROVE  PendingInv'
PROOF
  <1> USE DEF database, outside, history
  <1>1. LogKept
    BY LogGrows
  <1>2. \A w \in Workers : \A i \in DOMAIN pending[w] : pending[w][i] \in EventId
    <2>1. \A w \in Workers : pending[w] \in Seq(EventId)
      BY DEF Typing, TypeOK
    <2> QED
      BY <2>1
  <1>3. \A w \in Workers : \A i \in DOMAIN pending[w] : InLog(eventLog', pending[w][i])
    BY <1>1, <1>2, InLogStays DEF PendingInv
  <1>4. ASSUME NEW w \in Workers, Arrive(w) \/ Work(w)
        PROVE  PendingInv'
    <2>1. OthersUnchanged(w)
      BY <1>4, WorkersAreLocal DEF Typing
    <2>2. ASSUME \A i \in DOMAIN pending'[w] : InLog(eventLog', pending'[w][i])
          PROVE  PendingInv'
      BY <1>3, <2>1, <2>2 DEF OthersUnchanged, PendingInv
    <2>3. pending'[w] = pending[w] => PendingInv'
      BY <1>3, <2>2
    <2>4. pending'[w] = <<>> => PendingInv'
      BY <2>2
    <2>5. EndScope(w) => PendingInv'
      BY <2>4 DEF EndScope, Typing, TypeOK
    <2>6. CASE Arrive(w)
      BY <2>3, <2>6 DEF Arrive, ReceiveCheckout, ReceiveGracePeriod, ReceiveStockAnswer,
                        ReceivePaymentAnswer, ReceiveHttp, Receive
    <2>7. CASE \/ Begin(w) \/ InsertRequest(w) \/ BeginFails(w) \/ OrderMissing(w) \/ SetStatus(w)
               \/ CreateOrder(w) \/ CreateOrderInvalid(w) \/ CreateOrderThrows(w)
      BY <2>3, <2>5, <2>7 DEF Begin, InsertRequest, BeginFails, OrderMissing, SetStatus, CreateOrder,
                              CreateOrderInvalid, CreateOrderThrows
    <2>8. CASE SetStatusThrows(w)
      <3>1. \A row, b : HandlerThrows(w, row, b) => PendingInv'
        BY <2>3, <2>5 DEF HandlerThrows
      <3> QED
        BY <2>8, <3>1 DEF SetStatusThrows
    <2>9. CASE Commit(w)
      <3>1. WriteTables(w) /\ pending'[w] = SavedEvents(w)
        BY <2>9 DEF Commit, Typing, TypeOK
      <3> QED
        BY <2>2, <3>1, SavedEventsInLog
    <2>10. CASE \/ CommitFails(w) \/ CommitAckLost(w) \/ MarkInProgress(w) \/ Publish(w)
                \/ PublishFails(w) \/ Finish(w)
      BY <2>3, <2>5, <2>10 DEF CommitFails, CommitAckLost, MarkInProgress, Publish,
                               PublishFails, Finish
    <2>11. CASE MarkPublished(w) \/ MarkFailed(w)
      <3>1. pending[w] # <<>> /\ pending[w] \in Seq(EventId)
        BY <2>11 DEF Typing, TypeOK, Control, ControlOf, MarkPublished, MarkFailed
      <3>2. pending'[w] = Tail(pending[w])
        BY <2>11 DEF MarkPublished, MarkFailed, Typing, TypeOK
      <3>3. \A i \in DOMAIN pending'[w] : /\ i + 1 \in DOMAIN pending[w]
                                          /\ pending'[w][i] = pending[w][i + 1]
        BY <3>1, <3>2, HeadTailProperties, LenProperties
      <3> QED
        BY <1>3, <2>2, <3>3
    <2>12. CASE MarkFailedFails(w)
      BY <2>4, <2>5, <2>12 DEF MarkFailedFails, Typing, TypeOK
    <2> QED
      BY <1>4, <2>6, <2>7, <2>8, <2>9, <2>10, <2>11, <2>12 DEF Work
  <1>5. CASE Crash
    BY <1>5 DEF Crash, PendingInv
  <1>6. CASE (\E o \in Orders : GracePeriodPoll(o)) \/ UNCHANGED vars
    <2>1. UNCHANGED <<eventLog, pending>>
      BY <1>6 DEF GracePeriodPoll, vars, local
    <2> QED
      BY <2>1 DEF PendingInv
  <1> QED
    BY <1>4, <1>5, <1>6 DEF Next

\* Only Publish hands an event over.
LEMMA OnlyPublishHandsOver ==
    ASSUME [Next]_vars
    PROVE  UNCHANGED bus \/ \E w \in Workers : Publish(w)
PROOF
  <1> USE DEF outside
  <1>1. ASSUME NEW w \in Workers, Arrive(w) \/ Work(w), ~Publish(w)
        PROVE  UNCHANGED bus
    <2>1. CASE Arrive(w)
      BY <2>1 DEF Arrive, ReceiveCheckout, ReceiveGracePeriod, ReceiveStockAnswer,
                  ReceivePaymentAnswer, ReceiveHttp, Receive
    <2>2. CASE \/ Begin(w) \/ InsertRequest(w) \/ BeginFails(w) \/ OrderMissing(w) \/ SetStatus(w)
               \/ CreateOrder(w) \/ CreateOrderInvalid(w) \/ CreateOrderThrows(w)
               \/ Commit(w) \/ CommitFails(w) \/ CommitAckLost(w)
               \/ MarkInProgress(w) \/ MarkPublished(w)
               \/ PublishFails(w) \/ MarkFailed(w) \/ MarkFailedFails(w) \/ Finish(w)
      BY <2>2 DEF Begin, InsertRequest, BeginFails, OrderMissing, SetStatus, CreateOrder,
                  CreateOrderInvalid, CreateOrderThrows, Commit, CommitFails, CommitAckLost,
                  MarkInProgress, MarkPublished, PublishFails, MarkFailed, MarkFailedFails, Finish
    <2>3. CASE SetStatusThrows(w)
      <3>1. \A row, b : HandlerThrows(w, row, b) => UNCHANGED bus
        BY DEF HandlerThrows
      <3> QED
        BY <2>3, <3>1 DEF SetStatusThrows
    <2> QED
      BY <1>1, <2>1, <2>2, <2>3 DEF Work
  <1>2. CASE Crash \/ (\E o \in Orders : GracePeriodPoll(o)) \/ UNCHANGED vars
    BY <1>2 DEF Crash, GracePeriodPoll, vars
  <1> QED
    BY <1>1, <1>2 DEF Next

\* Every step of Ordering is a step of the outbox or changes nothing of it.
LEMMA OutboxStep ==
    ASSUME Typing, Typing', PendingInv, [Next]_vars
    PROVE  [Outbox!Next]_(Outbox!vars)
PROOF
  <1>1. SavedIds \subseteq SavedIds' /\ SavedIds' \subseteq EventId
    <2>1. ASSUME NEW id \in SavedIds
          PROVE  id \in SavedIds'
      <3>1. id \in EventId /\ InLog(eventLog, id)
        BY SavedIdsMembers
      <3>2. InLog(eventLog', id)
        BY <3>1, LogGrows, InLogStays
      <3> QED
        BY <3>1, <3>2, SavedIdsMembers
    <2>2. \A id : id \in SavedIds' => id \in EventId
      BY SavedIdsMembers
    <2> QED
      BY <2>1, <2>2
  <1>2. CASE UNCHANGED bus
    BY <1>1, <1>2 DEF Outbox!Next, Outbox!Save
  <1>3. CASE \E w \in Workers : Publish(w)
    <2>1. PICK w \in Workers : Publish(w)
      BY <1>3
    <2> DEFINE id == Head(pending[w])
    <2>2. id \in EventId /\ InLog(eventLog, id)
      <3>1. pending[w] \in Seq(EventId) /\ pending[w] # <<>>
        BY <2>1 DEF Publish, Typing, TypeOK, Control, ControlOf
      <3>2. 1 \in DOMAIN pending[w] /\ id = pending[w][1]
        BY <3>1
      <3> QED
        BY <3>1, <3>2 DEF PendingInv
    <2>3. id \in SavedIds
      BY <2>2, SavedIdsMembers
    <2>4. UNCHANGED SavedIds /\ bus' = bus \cup {id}
      BY <2>1 DEF Publish, database, SavedIds
    <2> HIDE DEF id
    <2>5. CASE id \in bus
      BY <2>4, <2>5 DEF Outbox!vars
    <2>6. CASE id \notin bus
      BY <2>3, <2>4, <2>6 DEF Outbox!Next, Outbox!HandOver
    <2> QED
      BY <2>5, <2>6
  <1> QED
    BY <1>2, <1>3, OnlyPublishHandsOver

\* The events of Ordering are a transactional outbox: what reaches the broker was saved by
\* a committed transaction before, and no crash, failure or retry takes an event back.
THEOREM OrderingIsAnOutbox == Spec => OutboxPromise
PROOF
  <1>1. Init => Outbox!Init
    BY DEF Init, Outbox!Init, SavedIds
  <1>2. Init => PendingInv
    BY DEF Init, PendingInv
  <1> QED
    BY <1>1, <1>2, PendingStep, OutboxStep, TypingInvariant, PTL
    DEF Spec, OutboxPromise, Outbox!Spec

-----------------------------------------------------------------------------
(* The outbox: the states of the log agree with the broker *)

StateOf(log, id) == log[id[1]][id[2]]

\* No event twice in a transaction: an event is known by its key and its number.
EventsOnce(w) ==
    \A i, j \in DOMAIN tx[w].events : tx[w].events[i] = tx[w].events[j] => i = j

\* The events a worker has still to start with are NotPublished; the one in hand is known
\* to be with the broker or not.
Holds(w) ==
    /\ \A i \in DOMAIN pending[w] :
          i > 1 \/ pc[w] = "publish" => StateOf(eventLog, pending[w][i]) = "NotPublished"
    /\ pc[w] = "send" => /\ StateOf(eventLog, pending[w][1]) = "InProgress"
                         /\ pending[w][1] \notin bus
    /\ pc[w] = "markPublished" => pending[w][1] \in bus

\* Only one worker publishes an event, and once.
HeldOnce ==
    \A v, w \in Workers : \A i \in DOMAIN pending[v], j \in DOMAIN pending[w] :
        pending[v][i] = pending[w][j] => v = w /\ i = j

\* The states of the log.
LogAgrees ==
    \A id \in EventId : InLog(eventLog, id) =>
        /\ StateOf(eventLog, id) = "Published" => id \in bus
        /\ StateOf(eventLog, id) = "NotPublished" => id \notin bus

\* The broker has no event that is not in the log.
BusLogged == \A id \in bus : InLog(eventLog, id)

AgreeInv ==
    /\ \A w \in Workers : EventsOnce(w) /\ Holds(w)
    /\ PendingInv /\ HeldOnce /\ LogAgrees /\ BusLogged

\* What a worker holds are ids of events.
LEMMA PendingIds ==
    ASSUME Typing, NEW w \in Workers, NEW i \in DOMAIN pending[w]
    PROVE  /\ pending[w][i] \in EventId
           /\ i \in Nat \ {0}
           /\ 1 \in DOMAIN pending[w]
           /\ Head(pending[w]) = pending[w][1]
PROOF
  <1>1. pending[w] \in Seq(EventId)
    BY DEF Typing, TypeOK
  <1> QED
    BY <1>1

\* What a worker publishes next, when it is at it.
LEMMA PendingHead ==
    ASSUME Typing, NEW w \in Workers, pending[w] # <<>>
    PROVE  1 \in DOMAIN pending[w] /\ Head(pending[w]) = pending[w][1]
PROOF
  <1>1. pending[w] \in Seq(EventId)
    BY DEF Typing, TypeOK
  <1> QED
    BY <1>1

\* A step that touches neither the log nor the broker, and a commit whose events nobody is
\* going to publish: a worker keeps what it holds or drops it.
Keeps(w) ==
    \/ /\ pending'[w] = pending[w]
       /\ pc'[w] = pc[w] \/ pc'[w] \notin {"publish", "send", "markPublished"}
    \/ /\ pending'[w] = <<>>
       /\ pc'[w] \notin {"send", "markPublished"}

\* A log that is longer or has the same states, and its new events are NotPublished and
\* unknown to the broker.
LogExtended ==
    /\ \A id \in EventId : InLog(eventLog, id) =>
          InLog(eventLog', id) /\ StateOf(eventLog', id) = StateOf(eventLog, id)
    /\ \A id \in EventId : InLog(eventLog', id) /\ ~InLog(eventLog, id)
          => StateOf(eventLog', id) = "NotPublished"

\* The end of a transaction extends the log.
LEMMA WritesExtend ==
    ASSUME Typing, NEW w \in Workers, WriteTables(w)
    PROVE  LogExtended
PROOF
  <1>1. ASSUME NEW id \in EventId
        PROVE  /\ InLog(eventLog, id) => /\ InLog(eventLog', id)
                                         /\ StateOf(eventLog', id) = StateOf(eventLog, id)
               /\ InLog(eventLog', id) /\ ~InLog(eventLog, id)
                     => StateOf(eventLog', id) = "NotPublished"
    <2> DEFINE k == id[1]  n == id[2]
    <2>1. k \in EventKey /\ n \in Nat \ {0}
      BY DEF EventId
    <2>2. eventLog[k] \in Seq(EventState) /\ "NotPublished" \in EventState
      BY <2>1 DEF Typing, TypeOK, EventState
    <2>3. eventLog'[k] \in {eventLog[k], Append(eventLog[k], "NotPublished")}
      BY <2>1 DEF WriteTables, LogAfter
    <2> HIDE DEF k, n
    <2>4. ASSUME NEW s, s = Append(eventLog[k], "NotPublished")
          PROVE  /\ Len(s) = Len(eventLog[k]) + 1
                 /\ n <= Len(eventLog[k]) => s[n] = eventLog[k][n]
                 /\ n = Len(eventLog[k]) + 1 => s[n] = "NotPublished"
      BY <2>1, <2>2, <2>4
    <2>5. Len(eventLog[k]) \in Nat
      BY <2>2
    <2>6. /\ n <= Len(eventLog[k]) => n <= Len(eventLog'[k]) /\ eventLog'[k][n] = eventLog[k][n]
          /\ n <= Len(eventLog'[k]) /\ ~(n <= Len(eventLog[k])) => eventLog'[k][n] = "NotPublished"
      BY <2>1, <2>3, <2>4, <2>5
    <2> QED
      BY <2>6 DEF InLog, StateOf, k, n
  <1> QED
    BY <1>1 DEF LogExtended

\* The new events of a transaction that commits: not in the log before, NotPublished after.
LEMMA SavedEventsNew ==
    ASSUME Typing, NEW w \in Workers, EventsOnce(w), WriteTables(w), NEW i \in DOMAIN SavedEvents(w)
    PROVE  /\ SavedEvents(w)[i] \in EventId
           /\ ~InLog(eventLog, SavedEvents(w)[i])
           /\ InLog(eventLog', SavedEvents(w)[i])
           /\ \A j \in DOMAIN SavedEvents(w) : SavedEvents(w)[i] = SavedEvents(w)[j] => i = j
PROOF
  <1> DEFINE k == tx[w].events[i]
  <1>1. /\ i \in DOMAIN tx[w].events /\ k \in EventKey
        /\ SavedEvents(w)[i] = <<k, Len(eventLog[k]) + 1>>
        /\ DOMAIN SavedEvents(w) = DOMAIN tx[w].events
        /\ SavedEvents(w) \in Seq(EventId)
    BY SavedEventsTypes
  <1>2. Len(eventLog[k]) \in Nat
    BY <1>1 DEF Typing, TypeOK
  <1>3. ASSUME NEW j \in DOMAIN SavedEvents(w), SavedEvents(w)[i] = SavedEvents(w)[j]
        PROVE  i = j
    <2>1. /\ j \in DOMAIN tx[w].events
          /\ SavedEvents(w)[j] = <<tx[w].events[j], Len(eventLog[tx[w].events[j]]) + 1>>
      BY <1>3, SavedEventsTypes
    <2>2. tx[w].events[i] = tx[w].events[j]
      BY <1>1, <1>3, <2>1
    <2> QED
      BY <1>1, <2>1, <2>2 DEF EventsOnce
  <1> HIDE DEF k
  <1>4. ASSUME NEW id, id = <<k, Len(eventLog[k]) + 1>>
        PROVE  ~InLog(eventLog, id)
    BY <1>2, <1>4 DEF InLog
  <1>5. SavedEvents(w)[i] \in EventId
    BY <1>1
  <1> QED
    BY <1>1, <1>3, <1>4, <1>5, SavedEventsInLog

\* The log after UpdateEventStatus.
LEMMA UpdatedLog ==
    ASSUME Typing, NEW w \in Workers, pending[w] # <<>>, NEW state,
           UpdateEventStatus(w, state), NEW id \in EventId, InLog(eventLog, id)
    PROVE  StateOf(eventLog', id) = IF id = pending[w][1] THEN state ELSE StateOf(eventLog, id)
PROOF
  <1> DEFINE h == pending[w][1]
  <1>1. h \in EventId /\ Head(pending[w]) = h
    BY PendingHead, PendingIds
  <1>2. PICK k \in EventKey, n \in Nat \ {0} : id = <<k, n>>
    BY DEF EventId
  <1>3. PICK l \in EventKey, m \in Nat \ {0} : h = <<l, m>>
    BY <1>1 DEF EventId
  <1>4. /\ eventLog[k] \in Seq(EventState) /\ n \in 1..Len(eventLog[k])
        /\ n \in DOMAIN eventLog[k]
    BY <1>2 DEF Typing, TypeOK, InLog
  <1>5. eventLog' = [eventLog EXCEPT ![l] = [eventLog[l] EXCEPT ![m] = state]]
    <2>1. Head(pending[w])[1] = l /\ Head(pending[w])[2] = m
      BY <1>1, <1>3
    <2> QED
      BY <1>3, <2>1 DEF UpdateEventStatus, Typing, TypeOK
  <1> HIDE DEF h
  <1>6. CASE k = l
    <2>1. eventLog'[k] = [eventLog[k] EXCEPT ![m] = state]
      BY <1>5, <1>6 DEF Typing, TypeOK
    <2>2. eventLog'[k][n] = IF n = m THEN state ELSE eventLog[k][n]
      BY <1>4, <2>1
    <2> QED
      BY <1>2, <1>3, <1>6, <2>2 DEF StateOf, h
  <1>7. CASE k # l
    <2>1. eventLog'[k] = eventLog[k]
      BY <1>5, <1>7 DEF Typing, TypeOK
    <2> QED
      BY <1>2, <1>3, <1>7, <2>1 DEF StateOf, h
  <1> QED
    BY <1>6, <1>7

\* A step that hands nothing over and updates no state, but may commit a transaction.
LEMMA AgreeKeeps ==
    ASSUME Typing, AgreeInv, LogExtended, UNCHANGED bus,
           \A w \in Workers : Keeps(w) /\ EventsOnce(w)'
    PROVE  AgreeInv'
PROOF
  <1>1. ASSUME NEW w \in Workers, NEW i \in DOMAIN pending'[w]
        PROVE  /\ pending'[w] = pending[w]
               /\ i \in DOMAIN pending[w] /\ pending[w][i] \in EventId
               /\ InLog(eventLog, pending[w][i])
    <2>1. pending'[w] = pending[w]
      BY <1>1 DEF Keeps
    <2> QED
      BY <1>1, <2>1, PendingIds DEF AgreeInv, PendingInv
  <1>2. ASSUME NEW w \in Workers
        PROVE  Holds(w)'
    <2>1. ASSUME NEW i \in DOMAIN pending'[w], i > 1 \/ pc'[w] = "publish"
          PROVE  StateOf(eventLog', pending'[w][i]) = "NotPublished"
      <3>1. i > 1 \/ pc[w] = "publish"
        BY <1>1, <2>1 DEF Keeps
      <3> QED
        BY <1>1, <3>1 DEF AgreeInv, Holds, LogExtended
    <2>2. ASSUME pc'[w] \in {"send", "markPublished"}
          PROVE  /\ pc'[w] = pc[w] /\ pending'[w] = pending[w]
                 /\ pending[w][1] \in EventId /\ InLog(eventLog, pending[w][1])
      <3>1. pc'[w] = pc[w] /\ pending'[w] = pending[w]
        BY <2>2 DEF Keeps
      <3>2. 1 \in DOMAIN pending[w]
        BY <2>2, <3>1, PendingHead DEF Typing, Control, ControlOf
      <3> QED
        BY <3>1, <3>2, PendingIds DEF AgreeInv, PendingInv
    <2> QED
      BY <2>1, <2>2 DEF AgreeInv, Holds, LogExtended
  <1>3. PendingInv' /\ HeldOnce'
    BY <1>1 DEF AgreeInv, PendingInv, HeldOnce, LogExtended
  <1>4. LogAgrees' /\ BusLogged'
    BY DEF AgreeInv, LogAgrees, BusLogged, LogExtended, Typing, TypeOK
  <1> QED
    BY <1>2, <1>3, <1>4 DEF AgreeInv

\* The commit whose events the worker is going to publish.
LEMMA AgreeCommit ==
    ASSUME Typing, AgreeInv, NEW w \in Workers, Commit(w), \A v \in Workers : EventsOnce(v)'
    PROVE  AgreeInv'
PROOF
  <1>1. /\ WriteTables(w) /\ OthersUnchanged(w) /\ UNCHANGED bus
        /\ pending'[w] = SavedEvents(w) /\ pc'[w] = "publish"
    BY WorkersAreLocal DEF Commit, Goto, outside, Work, Typing, TypeOK
  <1>2. LogExtended
    BY <1>1, WritesExtend
  <1>3. ASSUME NEW i \in DOMAIN pending'[w]
        PROVE  /\ pending'[w][i] \in EventId /\ ~InLog(eventLog, pending'[w][i])
               /\ InLog(eventLog', pending'[w][i])
               /\ StateOf(eventLog', pending'[w][i]) = "NotPublished"
               /\ \A j \in DOMAIN pending'[w] : pending'[w][i] = pending'[w][j] => i = j
    BY <1>1, <1>2, <1>3, SavedEventsNew DEF AgreeInv, LogExtended
  <1>4. ASSUME NEW v \in Workers \ {w}
        PROVE  /\ pending'[v] = pending[v] /\ pc'[v] = pc[v]
               /\ \A i \in DOMAIN pending[v] :
                     /\ pending[v][i] \in EventId /\ InLog(eventLog, pending[v][i])
                     /\ InLog(eventLog', pending[v][i])
                     /\ StateOf(eventLog', pending[v][i]) = StateOf(eventLog, pending[v][i])
    BY <1>1, <1>2, PendingIds DEF OthersUnchanged, AgreeInv, PendingInv, LogExtended
  <1>5. ASSUME NEW v \in Workers
        PROVE  Holds(v)'
    <2>1. CASE v = w
      BY <1>1, <1>3, <2>1 DEF Holds
    <2>2. CASE v # w
      <3>1. pc[v] = "send" => 1 \in DOMAIN pending[v]
        BY PendingHead DEF Typing, Control, ControlOf
      <3> QED
        BY <1>1, <1>4, <2>2, <3>1 DEF AgreeInv, Holds
    <2> QED
      BY <2>1, <2>2
  <1>6. PendingInv'
    BY <1>3, <1>4 DEF PendingInv
  <1>7. ASSUME NEW u \in Workers, NEW v \in Workers,
               NEW i \in DOMAIN pending'[u], NEW j \in DOMAIN pending'[v],
               pending'[u][i] = pending'[v][j]
        PROVE  u = v /\ i = j
    <2>1. CASE u = w /\ v = w
      BY <1>3, <1>7, <2>1
    <2>2. CASE u # w /\ v # w
      BY <1>4, <1>7, <2>2 DEF AgreeInv, HeldOnce
    <2>3. CASE (u = w /\ v # w) \/ (u # w /\ v = w)
      BY <1>3, <1>4, <1>7, <2>3
    <2> QED
      BY <2>1, <2>2, <2>3
  <1>8. LogAgrees' /\ BusLogged'
    BY <1>1, <1>2 DEF AgreeInv, LogAgrees, BusLogged, LogExtended, Typing, TypeOK
  <1> QED
    BY <1>5, <1>6, <1>7, <1>8 DEF AgreeInv, HeldOnce

\* The status of the event in hand changes; the worker keeps it in hand or is done with it.
LEMMA AgreeUpdate ==
    ASSUME Typing, AgreeInv, NEW w \in Workers,
           MarkInProgress(w) \/ MarkPublished(w) \/ MarkFailed(w),
           \A v \in Workers : EventsOnce(v)'
    PROVE  AgreeInv'
PROOF
  <1> DEFINE h == pending[w][1]
  <1>1. /\ pending[w] # <<>> /\ OthersUnchanged(w) /\ UNCHANGED bus
        /\ pending[w] \in Seq(EventId)
    BY WorkersAreLocal
    DEF MarkInProgress, MarkPublished, MarkFailed, outside, Work, Typing, TypeOK, Control, ControlOf
  <1>2. 1 \in DOMAIN pending[w] /\ h \in EventId /\ InLog(eventLog, h)
    BY <1>1, PendingHead, PendingIds DEF AgreeInv, PendingInv
  <1>3. PICK state \in EventState :
           /\ UpdateEventStatus(w, state)
           /\ state = "InProgress" => MarkInProgress(w)
           /\ state = "Published" => MarkPublished(w)
           /\ state = "PublishedFailed" => MarkFailed(w)
           /\ state # "NotPublished"
    BY DEF MarkInProgress, MarkPublished, MarkFailed, EventState
  <1>4. ASSUME NEW id \in EventId
        PROVE  /\ InLog(eventLog', id) <=> InLog(eventLog, id)
               /\ InLog(eventLog, id) =>
                     StateOf(eventLog', id) = IF id = h THEN state ELSE StateOf(eventLog, id)
    <2>1. id[1] \in EventKey
      BY DEF EventId
    <2>2. /\ eventLog[id[1]] \in Seq(EventState) /\ eventLog'[id[1]] \in Seq(EventState)
          /\ DOMAIN eventLog'[id[1]] = DOMAIN eventLog[id[1]]
      BY <1>1, <1>3, <2>1, UpdateEventStatusTypes DEF Typing, TypeOK
    <2>3. Len(eventLog'[id[1]]) = Len(eventLog[id[1]])
      BY <2>2
    <2> QED
      BY <1>1, <1>3, <2>3, UpdatedLog DEF InLog
  <1>5. ASSUME NEW v \in Workers, NEW i \in DOMAIN pending[v], v # w \/ i # 1
        PROVE  /\ pending[v][i] \in EventId /\ pending[v][i] # h
               /\ InLog(eventLog, pending[v][i]) /\ InLog(eventLog', pending[v][i])
               /\ StateOf(eventLog', pending[v][i]) = StateOf(eventLog, pending[v][i])
    <2>1. pending[v][i] # h
      BY <1>2, <1>5 DEF AgreeInv, HeldOnce
    <2>2. pending[v][i] \in EventId /\ InLog(eventLog, pending[v][i])
      BY PendingIds DEF AgreeInv, PendingInv
    <2> QED
      BY <1>4, <2>1, <2>2
  <1>6. ASSUME NEW v \in Workers \ {w}
        PROVE  pending'[v] = pending[v] /\ Holds(v)'
    <2>1. pending'[v] = pending[v] /\ pc'[v] = pc[v]
      BY <1>1 DEF OthersUnchanged
    <2>2. pc[v] \in {"send", "markPublished"} => 1 \in DOMAIN pending[v]
      BY PendingHead DEF Typing, Control, ControlOf
    <2> QED
      BY <1>1, <1>5, <2>1, <2>2 DEF AgreeInv, Holds
  <1>7. LogAgrees' /\ BusLogged'
    <2>1. state = "Published" => h \in bus
      BY <1>3 DEF MarkPublished, AgreeInv, Holds
    <2>2. ASSUME NEW id \in EventId, InLog(eventLog', id)
          PROVE  /\ StateOf(eventLog', id) = "Published" => id \in bus
                 /\ StateOf(eventLog', id) = "NotPublished" => id \notin bus
      <3>1. InLog(eventLog, id)
        BY <1>4, <2>2
      <3>2. CASE id = h
        BY <1>3, <1>4, <2>1, <3>1, <3>2
      <3>3. CASE id # h
        BY <1>4, <3>1, <3>3 DEF AgreeInv, LogAgrees
      <3> QED
        BY <3>2, <3>3
    <2>3. bus \subseteq EventId
      BY DEF Typing, TypeOK
    <2> QED
      BY <1>1, <1>4, <2>2, <2>3 DEF AgreeInv, LogAgrees, BusLogged
  <1>8. CASE MarkInProgress(w)
    <2>1. pending'[w] = pending[w] /\ pc[w] = "publish" /\ pc'[w] = "send" /\ state = "InProgress"
      BY <1>3, <1>8 DEF MarkInProgress, MarkPublished, MarkFailed, Goto, Typing, TypeOK,
                        EventState
    <2>2. h \notin bus
      BY <1>2, <2>1 DEF AgreeInv, Holds, LogAgrees
    <2>3. Holds(w)'
      BY <1>1, <1>2, <1>4, <1>5, <2>1, <2>2 DEF AgreeInv, Holds
    <2>4. \A v \in Workers : pending'[v] = pending[v]
      BY <1>6, <2>1
    <2>5. PendingInv' /\ HeldOnce'
      BY <1>2, <1>4, <1>5, <2>4 DEF AgreeInv, PendingInv, HeldOnce
    <2> QED
      BY <1>6, <1>7, <2>3, <2>5 DEF AgreeInv
  <1>9. CASE MarkPublished(w) \/ MarkFailed(w)
    <2>1. pending'[w] = Tail(pending[w]) /\ pc'[w] = "publish"
      BY <1>9 DEF MarkPublished, MarkFailed, Goto, Typing, TypeOK
    <2>2. ASSUME NEW i \in DOMAIN pending'[w]
          PROVE  /\ i + 1 \in DOMAIN pending[w] /\ i + 1 > 1 /\ i \in Nat
                 /\ pending'[w][i] = pending[w][i + 1]
      BY <1>1, <2>1, HeadTailProperties, LenProperties
    <2>3. Holds(w)'
      BY <1>5, <2>1, <2>2 DEF AgreeInv, Holds
    <2>4. PendingInv'
      BY <1>5, <1>6, <2>2 DEF PendingInv
    <2>5. ASSUME NEW u \in Workers, NEW v \in Workers,
                 NEW i \in DOMAIN pending'[u], NEW j \in DOMAIN pending'[v],
                 pending'[u][i] = pending'[v][j]
          PROVE  u = v /\ i = j
      <3>1. CASE u = w /\ v = w
        BY <2>2, <2>5, <3>1 DEF AgreeInv, HeldOnce
      <3>2. CASE u # w /\ v # w
        BY <1>6, <2>5, <3>2 DEF AgreeInv, HeldOnce
      <3>3. CASE u = w /\ v # w
        BY <1>6, <2>2, <2>5, <3>3 DEF AgreeInv, HeldOnce
      <3>4. CASE u # w /\ v = w
        BY <1>6, <2>2, <2>5, <3>4 DEF AgreeInv, HeldOnce
      <3> QED
        BY <3>1, <3>2, <3>3, <3>4
    <2> QED
      BY <1>6, <1>7, <2>3, <2>4, <2>5 DEF AgreeInv, HeldOnce
  <1> QED
    BY <1>8, <1>9

\* The event in hand goes to the broker.
LEMMA AgreePublish ==
    ASSUME Typing, AgreeInv, NEW w \in Workers, Publish(w), \A v \in Workers : EventsOnce(v)'
    PROVE  AgreeInv'
PROOF
  <1> DEFINE h == pending[w][1]
  <1>1. /\ pc[w] = "send" /\ pc' = [pc EXCEPT ![w] = "markPublished"]
        /\ UNCHANGED <<eventLog, pending>> /\ bus' = bus \cup {Head(pending[w])}
    BY DEF Publish, Goto, database
  <1>2. /\ pending[w] # <<>> /\ 1 \in DOMAIN pending[w] /\ Head(pending[w]) = h
        /\ h \in EventId /\ InLog(eventLog, h) /\ StateOf(eventLog, h) = "InProgress"
    BY <1>1, PendingHead, PendingIds
    DEF AgreeInv, PendingInv, Holds, Typing, Control, ControlOf
  <1>3. ASSUME NEW v \in Workers
        PROVE  Holds(v)'
    <2>1. CASE v = w
      BY <1>1, <1>2, <2>1 DEF AgreeInv, Holds, Typing, TypeOK
    <2>2. CASE v # w
      <3>1. pc'[v] = pc[v]
        BY <1>1, <2>2 DEF Typing, TypeOK
      <3>2. pc[v] \in {"send", "markPublished"} => 1 \in DOMAIN pending[v]
        BY PendingHead DEF Typing, Control, ControlOf
      <3>3. pc[v] = "send" => pending[v][1] # h
        BY <1>2, <2>2, <3>2 DEF AgreeInv, HeldOnce
      <3> HIDE DEF h
      <3> QED
        BY <1>1, <1>2, <3>1, <3>2, <3>3 DEF AgreeInv, Holds
    <2> QED
      BY <2>1, <2>2
  <1>4. PendingInv' /\ HeldOnce'
    BY <1>1 DEF AgreeInv, PendingInv, HeldOnce
  <1>5. LogAgrees' /\ BusLogged'
    <2> HIDE DEF h
    <2> QED
      BY <1>1, <1>2 DEF AgreeInv, LogAgrees, BusLogged
  <1> QED
    BY <1>3, <1>4, <1>5 DEF AgreeInv

\* A transaction of one event or of two different ones.
LEMMA FewEvents ==
    ASSUME NEW w \in Workers, NEW a, NEW b, a # b,
           tx'[w].events \in {<<>>, <<a>>, <<a, b>>}
    PROVE  EventsOnce(w)'
PROOF
  <1>1. ASSUME NEW s \in {<<>>, <<a>>, <<a, b>>}, NEW i \in DOMAIN s, NEW j \in DOMAIN s, s[i] = s[j]
        PROVE  i = j
    BY <1>1
  <1> QED
    BY <1>1 DEF EventsOnce

\* The events of a worker's transaction are different, whatever it does.
LEMMA EventsOnceStep ==
    ASSUME Typing, NEW w \in Workers, Arrive(w) \/ Work(w), EventsOnce(w)
    PROVE  EventsOnce(w)'
PROOF
  <1>1. tx'[w] = tx[w] \/ tx'[w] = NoWrites => EventsOnce(w)'
    BY DEF EventsOnce, NoWrites
  <1>2. EndScope(w) => EventsOnce(w)'
    BY <1>1 DEF EndScope, Typing, TypeOK
  <1>3. tx[w] \in Transaction
    BY DEF Typing, TypeOK
  <1>4. CASE Arrive(w)
    BY <1>1, <1>4 DEF Arrive, ReceiveCheckout, ReceiveGracePeriod, ReceiveStockAnswer,
                      ReceivePaymentAnswer, ReceiveHttp, Receive
  <1>5. CASE \/ Begin(w) \/ BeginFails(w) \/ OrderMissing(w) \/ CreateOrderInvalid(w)
             \/ Commit(w) \/ CommitFails(w) \/ CommitAckLost(w)
             \/ MarkInProgress(w) \/ Publish(w) \/ MarkPublished(w)
             \/ PublishFails(w) \/ MarkFailed(w) \/ MarkFailedFails(w) \/ Finish(w)
    BY <1>1, <1>2, <1>5
    DEF Begin, BeginFails, OrderMissing, CreateOrderInvalid, Commit, CommitFails, CommitAckLost,
        MarkInProgress, Publish, MarkPublished, PublishFails, MarkFailed, MarkFailedFails, Finish,
        Typing, TypeOK
  <1>6. CASE InsertRequest(w)
    <2>1. CASE ~RowExists(w)
      <3>1. tx'[w] = [tx[w] EXCEPT !.request = TRUE]
        BY <1>6, <2>1 DEF InsertRequest, Typing, TypeOK
      <3>2. tx'[w].events = tx[w].events
        BY <1>3, <3>1 DEF Transaction
      <3> QED
        BY <3>2 DEF EventsOnce
    <2> QED
      BY <1>2, <1>6, <2>1 DEF InsertRequest
  <1>7. CASE SetStatusThrows(w)
    <2>1. \A row, b : HandlerThrows(w, row, b) => EventsOnce(w)'
      BY <1>1, <1>2 DEF HandlerThrows
    <2> QED
      BY <1>7, <2>1 DEF SetStatusThrows
  <1>8. CASE SetStatus(w)
    <2>1. PICK a, b : tx' = [tx EXCEPT ![w].order = b,
                                       ![w].events = IF Raises(cmd[w].op, Found(w).status)
                                                     THEN <<a>> ELSE <<>>]
      BY <1>8, Zenon DEF SetStatus
    <2>2. tx'[w].events \in {<<>>, <<a>>}
      BY <1>3, <2>1 DEF Typing, TypeOK, Transaction
    <2>3. PICK c : c # a
      <3>1. a # TRUE \/ a # FALSE
        OBVIOUS
      <3> QED
        BY <3>1
    <2> QED
      BY <2>2, <2>3, FewEvents
  <1>9. CASE CreateOrder(w) \/ CreateOrderThrows(w)
    <2>1. \A o : OrderStarted # <<Submitted, o>>
      BY DEF OrderStarted, Submitted
    <2>2. CASE CreateOrder(w)
      <3>1. PICK o \in Orders :
               /\ Unused(o)
               /\ cmd' = [cmd EXCEPT ![w].order = o]
               /\ tx' = [tx EXCEPT ![w].order = TRUE,
                                   ![w].events = <<OrderStarted, <<Submitted, o>>>>]
        BY <2>2, Zenon DEF CreateOrder
      <3>2. tx'[w].events = <<OrderStarted, <<Submitted, o>>>>
        BY <1>3, <3>1 DEF Typing, TypeOK, Transaction
      <3> QED
        BY <2>1, <3>2, FewEvents
    <2>3. CASE CreateOrderThrows(w)
      <3>1. tx'[w].events = <<OrderStarted>>
        <4>1. CASE tx' = [tx EXCEPT ![w].events = <<OrderStarted>>]
          BY <1>3, <4>1 DEF Typing, TypeOK, Transaction
        <4>2. ASSUME NEW b \in BOOLEAN,
                     tx' = [tx EXCEPT ![w].order = b, ![w].events = <<OrderStarted>>]
              PROVE  tx'[w].events = <<OrderStarted>>
          BY <1>3, <4>2 DEF Typing, TypeOK, Transaction
        <4> QED
          BY <2>3, <4>1, <4>2 DEF CreateOrderThrows
      <3> QED
        BY <2>1, <3>1, FewEvents
    <2> QED
      BY <1>9, <2>2, <2>3
  <1> QED
    BY <1>4, <1>5, <1>6, <1>7, <1>8, <1>9 DEF Work

\* What the other steps do to what worker w has in hand.
LEMMA StepsKeep ==
    ASSUME Typing, NEW w \in Workers, Arrive(w) \/ Work(w),
           ~Commit(w), ~MarkInProgress(w), ~Publish(w), ~MarkPublished(w), ~MarkFailed(w)
    PROVE  Keeps(w) /\ UNCHANGED bus /\ (UNCHANGED eventLog \/ WriteTables(w))
PROOF
  <1> USE DEF database, outside, history
  <1> DEFINE Quiet == Keeps(w) /\ UNCHANGED <<bus, eventLog>>
  <1>1. EndScope(w) /\ UNCHANGED <<bus, eventLog>> => Quiet
    BY DEF EndScope, Goto, Keeps, Typing, TypeOK
  <1>2. CASE Arrive(w)
    BY <1>2 DEF Arrive, ReceiveCheckout, ReceiveGracePeriod, ReceiveStockAnswer,
                ReceivePaymentAnswer, ReceiveHttp, Receive, Goto, Keeps, Typing, TypeOK
  <1>3. CASE \/ Begin(w) \/ InsertRequest(w) \/ BeginFails(w) \/ OrderMissing(w) \/ SetStatus(w)
             \/ CreateOrder(w) \/ CreateOrderInvalid(w) \/ CreateOrderThrows(w)
    BY <1>1, <1>3 DEF Begin, InsertRequest, BeginFails, OrderMissing, SetStatus, CreateOrder,
                      CreateOrderInvalid, CreateOrderThrows, Return, Goto, Keeps, Typing, TypeOK
  <1>4. CASE SetStatusThrows(w)
    <2>1. \A row, b : HandlerThrows(w, row, b) => Quiet
      BY <1>1 DEF HandlerThrows, Return, Goto, Keeps, Typing, TypeOK
    <2> QED
      BY <1>4, <2>1 DEF SetStatusThrows
  <1>5. CASE CommitFails(w) \/ PublishFails(w) \/ MarkFailedFails(w) \/ Finish(w)
    BY <1>1, <1>5 DEF CommitFails, PublishFails, MarkFailedFails, Finish, Goto, Keeps,
                      Typing, TypeOK
  <1>6. CASE CommitAckLost(w)
    <2>1. EndScope(w) => Keeps(w)
      BY DEF EndScope, Goto, Keeps, Typing, TypeOK
    <2> QED
      BY <1>6, <2>1 DEF CommitAckLost, Goto, Keeps, Typing, TypeOK
  <1> QED
    BY <1>2, <1>3, <1>4, <1>5, <1>6 DEF Work

\* No step breaks the invariant.
LEMMA AgreeStep ==
    ASSUME Typing, AgreeInv, [Next]_vars
    PROVE  AgreeInv'
PROOF
  <1>1. UNCHANGED eventLog => LogExtended
    BY DEF LogExtended
  <1>2. ASSUME NEW w \in Workers, Arrive(w) \/ Work(w)
        PROVE  AgreeInv'
    <2>1. OthersUnchanged(w)
      BY <1>2, WorkersAreLocal DEF Typing
    <2>2. \A v \in Workers : EventsOnce(v)'
      <3>1. EventsOnce(w)'
        BY <1>2, EventsOnceStep DEF AgreeInv
      <3>2. \A v \in Workers \ {w} : EventsOnce(v)'
        BY <2>1 DEF OthersUnchanged, AgreeInv, EventsOnce
      <3> QED
        BY <3>1, <3>2
    <2>3. CASE Commit(w) \/ MarkInProgress(w) \/ Publish(w) \/ MarkPublished(w) \/ MarkFailed(w)
      BY <2>2, <2>3, AgreeCommit, AgreeUpdate, AgreePublish
    <2>4. CASE ~(Commit(w) \/ MarkInProgress(w) \/ Publish(w) \/ MarkPublished(w) \/ MarkFailed(w))
      <3>1. Keeps(w) /\ UNCHANGED bus /\ LogExtended
        BY <1>1, <1>2, <2>4, StepsKeep, WritesExtend
      <3>2. \A v \in Workers \ {w} : Keeps(v)
        BY <2>1 DEF OthersUnchanged, Keeps
      <3> QED
        BY <2>2, <3>1, <3>2, AgreeKeeps
    <2> QED
      BY <2>3, <2>4
  <1>3. CASE Crash \/ (\E o \in Orders : GracePeriodPoll(o)) \/ UNCHANGED vars
    <2>1. UNCHANGED <<bus, eventLog>>
      BY <1>3 DEF Crash, GracePeriodPoll, vars, database, outside
    <2>2. \A w \in Workers : Keeps(w) /\ EventsOnce(w)'
      BY <1>3 DEF Crash, GracePeriodPoll, vars, local, Keeps, EventsOnce, NoWrites, AgreeInv
    <2> QED
      BY <1>1, <2>1, <2>2, AgreeKeeps
  <1> QED
    BY <1>2, <1>3 DEF Next

\* The states of the outbox agree with the broker: what is Published has been handed over,
\* what is NotPublished, or marked InProgress and about to be sent, has not, whoever
\* publishes, fails or dies in between.
THEOREM OutboxAgrees == Spec => []OutboxAgreesWithBus
PROOF
  <1>1. Init => AgreeInv
    BY DEF Init, AgreeInv, EventsOnce, Holds, PendingInv, HeldOnce, LogAgrees, BusLogged,
           InLog, EventId, NoWrites
  <1>2. ASSUME Typing, AgreeInv
        PROVE  OutboxAgreesWithBus
    <2>1. ASSUME NEW k \in EventKey, NEW n \in DOMAIN eventLog[k]
          PROVE  /\ eventLog[k][n] = "Published" => <<k, n>> \in bus
                 /\ eventLog[k][n] = "NotPublished" => <<k, n>> \notin bus
      <3>1. n \in Nat \ {0} /\ n <= Len(eventLog[k])
        BY <1>2 DEF Typing, TypeOK
      <3>2. ASSUME NEW id, id = <<k, n>>
            PROVE  /\ id \in EventId /\ InLog(eventLog, id)
                   /\ StateOf(eventLog, id) = eventLog[k][n]
        BY <3>1, <3>2 DEF EventId, InLog, StateOf
      <3> QED
        BY <1>2, <3>2 DEF AgreeInv, LogAgrees
    <2>2. ASSUME NEW w \in Workers, pc[w] = "send"
          PROVE  Head(pending[w]) \notin bus
      BY <1>2, <2>2, PendingHead DEF AgreeInv, Holds, Typing, Control, ControlOf
    <2> QED
      BY <2>1, <2>2 DEF OutboxAgreesWithBus
  <1> QED
    BY <1>1, <1>2, AgreeStep, TypingInvariant, PTL DEF Spec

=============================================================================
