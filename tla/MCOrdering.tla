----------------------------- MODULE MCOrdering -----------------------------
(* Instances of module Ordering: who calls it, and with how many request ids. *)
EXTENDS Ordering, TLC

CONSTANTS o1, o2, b1, b2, h1, h2, c1, c2, x1, s1

OneOrder     == {o1}
TwoOrders    == {o1, o2}
RabbitMQ     == {b1}       \* one consumer, one message at a time
ServiceBus   == {b1, b2}   \* MaxConcurrentCalls, cut to two
OneClient    == {h1}
TwoClients   == {h1, h2}
NoClient     == {}
Checkout     == {c1}
TwoCheckouts == {c1, c2}
Cancellation == {x1}
Shipping     == {s1}
NoRequests   == {}

\* The two consumers of ServiceBus are interchangeable, and so are the two orders and the two
\* checkouts.
ConsumerSymmetry ==
    Permutations(ServiceBus) \cup Permutations(TwoOrders) \cup Permutations(TwoCheckouts)
=============================================================================
