------------------------------- MODULE Buyers -------------------------------
(***************************************************************************)
(* The Buyer aggregate when orders are placed by several message handlers  *)
(* at a time: ValidateOrAddBuyerAggregateWhenOrderStarted reads the buyer  *)
(* with his payment methods, adds what is missing to the copy, and the     *)
(* unit of work writes it back inside the transaction of the command.      *)
(* The identity of a buyer has a unique index, a payment method has none.  *)
(* The bus is the Service Bus: a message whose handler threw comes again.   *)
(*                                                                         *)
(* The writer of a buyer row keeps it locked until its transaction ends,   *)
(* and who reads or writes that row waits (read committed).                *)
(***************************************************************************)
EXTENDS Naturals, FiniteSets

CONSTANTS
    Users, Cards,  \* a card is what PaymentMethod.IsEqualTo compares
    Checkouts,     \* UserCheckoutAccepted messages: records with a user and a card
    Workers,       \* handlers of messages: 1 with RabbitMQ, up to 10 with the Service Bus
    MaxFailures    \* bound: transactions that fail by themselves

VARIABLES
    buyers,    \* committed rows of ordering.buyers
    methods,   \* user -> card -> committed rows of ordering.paymentmethods
    order,     \* checkout -> "none", "placed", "buyerless"
    txn,      \* worker -> the transaction it is in
    failures

vars == <<buyers, methods, order, txn, failures>>

Idle == [at |-> "idle"]

\* A transaction after FindAsync: the copy it works on.
Found == [at : {"found", "saved"}, checkout : Checkouts, exists : BOOLEAN, seen : Nat]

Init ==
    /\ buyers = {}
    /\ methods = [u \in Users |-> [c \in Cards |-> 0]]
    /\ order = [c \in Checkouts |-> "none"]
    /\ txn = [w \in Workers |-> Idle]
    /\ failures = 0

InHand(c) == \E w \in Workers : txn[w].at # "idle" /\ txn[w].checkout = c

\* Another transaction has written the row of user u.
Locked(u, w) ==
    \E v \in Workers \ {w} : txn[v].at = "saved" /\ txn[v].checkout.user = u

\* Mutant: FindAsync without Include(b => b.PaymentMethods).
FindAsyncMutant(w, c) ==
    /\ txn[w].at = "idle" /\ order[c] = "none" /\ ~InHand(c)
    /\ ~Locked(c.user, w)
    /\ txn' = [txn EXCEPT ![w] = [at |-> "found", checkout |-> c,
                                    exists |-> c.user \in buyers, seen |-> 0]]
    /\ UNCHANGED <<buyers, methods, order, failures>>

\* A message is taken up and FindAsync returns the buyer with his payment methods, or null.
FindAsync(w, c) ==
    /\ txn[w].at = "idle" /\ order[c] = "none" /\ ~InHand(c)
    /\ ~Locked(c.user, w)
    /\ txn' = [txn EXCEPT ![w] = [at |-> "found", checkout |-> c,
                                    exists |-> c.user \in buyers,
                                    seen |-> methods[c.user][c.card]]]
    /\ UNCHANGED <<buyers, methods, order, failures>>

\* VerifyOrAddPaymentMethod finds the card twice and SingleOrDefault throws.  The exception
\* of the inner command is swallowed, and the commit saves the order without a buyer.
VerifyFails(w) ==
    /\ txn[w].at = "found" /\ txn[w].seen >= 2
    /\ order' = [order EXCEPT ![txn[w].checkout] = "buyerless"]
    /\ txn' = [txn EXCEPT ![w] = Idle]
    /\ UNCHANGED <<buyers, methods, failures>>

\* SaveEntitiesAsync writes the buyer, new or updated, and a new payment method.
SaveEntities(w) ==
    /\ txn[w].at = "found" /\ txn[w].seen < 2
    /\ LET u == txn[w].checkout.user
       IN ~Locked(u, w) /\ (txn[w].exists \/ u \notin buyers)
    /\ txn' = [txn EXCEPT ![w].at = "saved"]
    /\ UNCHANGED <<buyers, methods, order, failures>>

\* Mutant: the message is taken off although its handler threw, as RabbitMQ's would be.
UniqueIndexFailsMutant(w) ==
    /\ txn[w].at = "found" /\ txn[w].seen < 2
    /\ LET u == txn[w].checkout.user
       IN ~Locked(u, w) /\ ~txn[w].exists /\ u \in buyers
    /\ order' = [order EXCEPT ![txn[w].checkout] = "lost"]
    /\ txn' = [txn EXCEPT ![w] = Idle]
    /\ UNCHANGED <<buyers, methods, failures>>

\* The row of a new buyer violates the unique index: the whole transaction is rolled back,
\* and the message comes again.
UniqueIndexFails(w) ==
    /\ txn[w].at = "found" /\ txn[w].seen < 2
    /\ LET u == txn[w].checkout.user
       IN ~Locked(u, w) /\ ~txn[w].exists /\ u \in buyers
    /\ txn' = [txn EXCEPT ![w] = Idle]
    /\ UNCHANGED <<buyers, methods, order, failures>>

\* The transaction commits: the buyer, his payment method and the order.
Commit(w) ==
    /\ txn[w].at = "saved"
    /\ LET c == txn[w].checkout
       IN /\ buyers' = buyers \cup {c.user}
          /\ methods' = IF txn[w].seen = 0
                        THEN [methods EXCEPT ![c.user][c.card] = @ + 1] ELSE methods
          /\ order' = [order EXCEPT ![c] = "placed"]
    /\ txn' = [txn EXCEPT ![w] = Idle]
    /\ UNCHANGED failures

\* The transaction fails or its process dies; the message comes again.
Fail(w) ==
    /\ txn[w].at # "idle"
    /\ failures < MaxFailures /\ failures' = failures + 1
    /\ txn' = [txn EXCEPT ![w] = Idle]
    /\ UNCHANGED <<buyers, methods, order>>

Work(w) ==
    \/ \E c \in Checkouts : FindAsync(w, c)
    \/ VerifyFails(w) \/ SaveEntities(w) \/ UniqueIndexFails(w) \/ Commit(w)

Next == \E w \in Workers : Work(w) \/ Fail(w)

Fairness == \A w \in Workers : WF_vars(Work(w))

Spec == Init /\ [][Next]_vars /\ Fairness

-----------------------------------------------------------------------------
(* Properties *)

TypeOK ==
    /\ buyers \subseteq Users
    /\ methods \in [Users -> [Cards -> Nat]]
    /\ order \in [Checkouts -> {"none", "placed", "buyerless"}]
    /\ txn \in [Workers -> {Idle} \cup Found]
    /\ failures \in 0..MaxFailures

\* VerifyOrAddPaymentMethod is to keep a card once per buyer, and nothing in the database
\* does.  A card is stored at most as often as there are message handlers at work: once
\* with RabbitMQ, and the unique index of the buyers makes up for nothing here.
CardsPerHandler ==
    \A u \in Users, c \in Cards : methods[u][c] <= Cardinality(Workers)

\* Every checkout ends, also the one that lost the race for the buyer's row.
CheckoutsSettle == \A c \in Checkouts : <>(order[c] \in {"placed", "buyerless"})
==============================================================================
