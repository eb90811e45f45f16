----------------------------- MODULE MCServices -----------------------------
(***************************************************************************)
(* Instances of the components that share no state with each other.        *)
(***************************************************************************)
EXTENDS Services, TLC

CONSTANTS e1, e2, w1, w2, u1, u2, k1, k2, k3, p1, s1, s2, s3, s4, n1, n2, n3

(* EventBusServiceBus: a message nobody subscribes to beside one that is subscribed to *)
TwoEvents == {e1, e2}
FirstEvent == <<e1>>
TwoWorkers == {w1, w2}

(* Buyers: one user, a card of his that is used three times, another one *)
TwoUsers == {u1, u2}
TwoCards == {k1, k2}
FourCheckouts == [user : {u1}, card : {k1}, n : 1..3] \cup [user : {u1}, card : {k2}, n : {1}]

(* GracePeriod *)
TwoOrders == {n1, n2}

(* UserConnections: one user has two tabs *)
ThreeConnections == {k1, k2, k3}
TwoTabs == k1 :> u1 @@ k2 :> u1 @@ k3 :> u2
OnePost == {p1}

(* Webhooks: two good subscribers, one that cannot be sent to, one that refuses *)
FourSubscriptions == {s1, s2, s3, s4}
OneUnsendable == {s4}
OneWrongToken == {s3}

(* OrderItems: a product id that is a number and two that are none *)
ThreeNames == {n1, n2, n3}
OneNumber == n1 :> 1
TwoPrices == {-1, 2}
OneOrTwo == {1, 2}
=============================================================================
