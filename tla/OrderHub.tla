------------------------------- MODULE OrderHub -------------------------------
(***************************************************************************)
(* The way of a status to the page that shows an order: Ordering commits   *)
(* it and publishes it afterwards, Ordering.SignalrHub takes it off its    *)
(* queue and pushes it to the group of the buyer, the script of            *)
(* _Layout.cshtml waits a second and loads the page anew.  The page joins  *)
(* the group in connection.start() and registers its handler when start()  *)
(* is through; it neither tries again nor reconnects.                      *)
(***************************************************************************)
EXTENDS Naturals, Sequences

CONSTANT MaxStatus   \* bound: the steps of the order

VARIABLES
    status,      \* the step the order has committed
    announced,   \* the steps published
    feed,       \* the queue of Ordering.SignalrHub
    shown,       \* the step the page shows
    connection,  \* "new", "inGroup", "registered", "gone"
    push,        \* messages the hub has sent to this connection
    timer,       \* the reload is due in a second
    missed       \* a step later than the one shown has got lost

vars == <<status, announced, feed, shown, connection, push, timer, missed>>

Init ==
    /\ status = 0 /\ announced = 0 /\ feed = <<>>
    /\ shown = 0 /\ connection = "new" /\ push = <<>> /\ timer = FALSE /\ missed = FALSE

\* An order changes its status, and the transaction commits.
ChangeStatus ==
    /\ status < MaxStatus /\ status' = status + 1
    /\ UNCHANGED <<announced, feed, shown, connection, push, timer, missed>>

\* Mutant: an event may be published before its transaction has committed.
PublishMutant ==
    /\ announced <= status /\ announced < MaxStatus
    /\ announced' = announced + 1
    /\ feed' = Append(feed, announced')
    /\ UNCHANGED <<status, shown, connection, push, timer, missed>>

\* The event of a committed status is published.
Publish ==
    /\ announced < status
    /\ announced' = announced + 1
    /\ feed' = Append(feed, announced')
    /\ UNCHANGED <<status, shown, connection, push, timer, missed>>

\* The event never reaches the handler: a crash before the publication, or a handler that
\* threw and was acknowledged.
Lose ==
    /\ feed # <<>> /\ feed' = Tail(feed)
    /\ missed' = (missed \/ Head(feed) > shown)
    /\ UNCHANGED <<status, announced, shown, connection, push, timer>>

\* OrderStatusChangedTo...Handler: Clients.Group(BuyerName).SendAsync, to nobody when no
\* connection is in the group.
Handle ==
    /\ feed # <<>> /\ feed' = Tail(feed)
    /\ \/ /\ connection \in {"inGroup", "registered"}
          /\ push' = Append(push, Head(feed)) /\ UNCHANGED missed
       \/ /\ connection \in {"new", "gone"}
          /\ missed' = (missed \/ Head(feed) > shown) /\ UNCHANGED push
    /\ UNCHANGED <<status, announced, shown, connection, timer>>

\* connection.start(), at the hub: OnConnectedAsync joins the group.
OnConnectedAsync ==
    /\ connection = "new" /\ connection' = "inGroup"
    /\ UNCHANGED <<status, announced, feed, shown, push, timer, missed>>

\* The promise of start() is fulfilled: connection.on("UpdatedOrderState", ...).
RegisterNotificationHandlers ==
    /\ connection = "inGroup" /\ connection' = "registered"
    /\ UNCHANGED <<status, announced, feed, shown, push, timer, missed>>

\* start() fails or the connection breaks: OnDisconnectedAsync, what is on its way is gone.
OnDisconnectedAsync ==
    /\ connection # "gone" /\ connection' = "gone"
    /\ push' = <<>>
    /\ missed' = (missed \/ \E i \in DOMAIN push : push[i] > shown)
    /\ UNCHANGED <<status, announced, feed, shown, timer>>

\* A message arrives: the handler sets the timer anew; without a handler it is dropped.
UpdatedOrderState ==
    /\ push # <<>> /\ push' = Tail(push)
    /\ timer' = (timer \/ connection = "registered")
    /\ missed' = (missed \/ (connection # "registered" /\ Head(push) > shown))
    /\ UNCHANGED <<status, announced, feed, shown, connection>>

\* What the hub has sent gets lost though the connection goes on: it was in the answer to a
\* poll that the client has given up (PollTimesOut of HubConnection).
LosePush ==
    /\ push # <<>> /\ push' = Tail(push)
    /\ missed' = (missed \/ Head(push) > shown)
    /\ UNCHANGED <<status, announced, feed, shown, connection, timer>>

\* window.location.reload(): a new page with a new connection.
Reload ==
    /\ timer /\ timer' = FALSE
    /\ shown' = status /\ missed' = FALSE
    /\ connection' = "new" /\ push' = <<>>
    /\ UNCHANGED <<status, announced, feed>>

Next ==
    \/ ChangeStatus \/ Publish \/ Lose \/ Handle
    \/ OnConnectedAsync \/ RegisterNotificationHandlers \/ OnDisconnectedAsync
    \/ UpdatedOrderState \/ LosePush \/ Reload

\* What is saved is published, messages travel and the timer comes; no order has to change,
\* and the connection may never come about, never get its handler and never break.
Fairness ==
    /\ WF_vars(Publish) /\ WF_vars(Handle) /\ WF_vars(UpdatedOrderState) /\ WF_vars(Reload)

Spec == Init /\ [][Next]_vars /\ Fairness

-----------------------------------------------------------------------------
(* Properties *)

TypeOK ==
    /\ status \in 0..MaxStatus /\ announced \in 0..status /\ shown \in 0..status
    /\ feed \in Seq(1..MaxStatus) /\ push \in Seq(1..MaxStatus)
    /\ connection \in {"new", "inGroup", "registered", "gone"}
    /\ timer \in BOOLEAN /\ missed \in BOOLEAN

\* The page shows every status in the end, unless the event got lost on its way or reached
\* the hub when the page was not connected and registered yet, or no longer.
PageCatchesUp ==
    \A s \in 1..MaxStatus : status >= s ~> shown >= s \/ missed
=============================================================================
