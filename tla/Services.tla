------------------------------ MODULE Services ------------------------------
(***************************************************************************)
(* The components that share no state with each other.  One behaviour is a *)
(* behaviour of one of them, while the others stand still.                 *)
(* The module extends that of the Service Bus, whose names without a       *)
(* prefix these are, and instantiates the others.                          *)
(***************************************************************************)
EXTENDS EventBusServiceBus, Integers

CONSTANTS
    Users, Cards, Checkouts, MaxFailures,        \* Buyers
    Orders, MaxLosses, MaxErrors,                \* GracePeriod
    Connections, UserOf, Posts,                  \* UserConnections, and Users
    MaxStatus,                                   \* OrderHub
    MaxNotices, MaxTimeouts,                     \* HubConnection
    Subscriptions, Unsendable, WrongToken, MaxEvents,  \* Webhooks
    Names, Number, Prices, Units, MaxItems       \* OrderItems

\* A checkout names a user and a card, a page connects with the id of a user, baskets hold
\* positive quantities, prices (decimals) are counted in their smallest unit.
ASSUME ServicesAssumption ==
    /\ \A c \in Checkouts : c.user \in Users /\ c.card \in Cards
    /\ UserOf \in [Connections -> Users]
    /\ IsFiniteSet(Subscriptions)
    /\ Units \subseteq Nat \ {0} /\ Prices \subseteq Int
    /\ MaxFailures \in Nat /\ MaxLosses \in Nat /\ MaxErrors \in Nat /\ MaxStatus \in Nat
    /\ MaxNotices \in Nat /\ MaxTimeouts \in Nat /\ MaxEvents \in Nat /\ MaxItems \in Nat

busVars == vars

VARIABLES buyers, methods, order, txn, failures
Buyer == INSTANCE Buyers
buyerVars == <<buyers, methods, order, txn, failures>>

VARIABLES phase, loop, unpublished, events, losses, errors
Grace == INSTANCE GracePeriod
graceVars == <<phase, loop, unpublished, events, losses, errors>>

VARIABLES state, list, entries, version, inside, post
Tabs == INSTANCE UserConnections
tabsVars == <<state, list, entries, version, inside, post>>

VARIABLES status, announced, feed, shown, connection, push, timer, missed
Hub == INSTANCE OrderHub
hubVars == <<status, announced, feed, shown, connection, push, timer, missed>>

VARIABLES rows, event, sending, unsent, asked, broken, hook, slot, size, items, overlapped
Hooks == INSTANCE Webhooks
hooksVars == <<rows, event, sending, unsent, asked, broken, hook, slot, size, items, overlapped>>

VARIABLES basket, next, lines, threw
Items == INSTANCE OrderItems
itemsVars == <<basket, next, lines, threw>>

VARIABLES start, hub, http, handshake, received, transport, running, aborted, poll, stop,
          listening, heard, ends, request, peer, out, notices, timeouts, crashed
Page == INSTANCE HubConnection
pageVars == <<start, hub, http, handshake, received, transport, running, aborted, poll, stop,
              listening, heard, ends, request, peer, out, notices, timeouts, crashed>>

VARIABLE service
allVars == <<service, busVars, buyerVars, graceVars, tabsVars, hubVars, hooksVars, itemsVars,
          pageVars>>

ServicesInit ==
    /\ service \in {"Bus", "Buyer", "Grace", "Tabs", "Hub", "Hooks", "Items", "Page"}
    /\ Init /\ Buyer!Init /\ Grace!Init /\ Tabs!Init /\ Hub!Init /\ Hooks!Init
    /\ Page!Init
    /\ IF service = "Items" THEN Items!Init
       ELSE basket = <<>> /\ next = 1 /\ lines = <<>> /\ threw = FALSE

ServicesNext ==
    /\ UNCHANGED service
    /\ \/ /\ service = "Bus" /\ Next
          /\ UNCHANGED <<buyerVars, graceVars, tabsVars, hubVars, hooksVars, itemsVars, pageVars>>
       \/ /\ service = "Buyer" /\ Buyer!Next
          /\ UNCHANGED <<busVars, graceVars, tabsVars, hubVars, hooksVars, itemsVars, pageVars>>
       \/ /\ service = "Grace" /\ Grace!Next
          /\ UNCHANGED <<busVars, buyerVars, tabsVars, hubVars, hooksVars, itemsVars, pageVars>>
       \/ /\ service = "Tabs" /\ Tabs!Next
          /\ UNCHANGED <<busVars, buyerVars, graceVars, hubVars, hooksVars, itemsVars, pageVars>>
       \/ /\ service = "Hub" /\ Hub!Next
          /\ UNCHANGED <<busVars, buyerVars, graceVars, tabsVars, hooksVars, itemsVars, pageVars>>
       \/ /\ service = "Hooks" /\ Hooks!Next
          /\ UNCHANGED <<busVars, buyerVars, graceVars, tabsVars, hubVars, itemsVars, pageVars>>
       \/ /\ service = "Items" /\ Items!Next
          /\ UNCHANGED <<busVars, buyerVars, graceVars, tabsVars, hubVars, hooksVars, pageVars>>
       \/ /\ service = "Page" /\ Page!Next
          /\ UNCHANGED <<busVars, buyerVars, graceVars, tabsVars, hubVars, hooksVars, itemsVars>>

(* The fairness of each module, for the component at work. *)
ServicesFairness ==
    /\ WF_busVars(service = "Bus" /\ Startup)
    /\ \A w \in Workers : WF_busVars(service = "Bus" /\ Work(w))
    /\ \A m \in 1..MaxMessages : WF_busVars(service = "Bus" /\ LockExpires(m))
    /\ \A w \in Workers : WF_buyerVars(service = "Buyer" /\ Buyer!Work(w))
    /\ WF_graceVars(service = "Grace" /\ Grace!Loop)
    /\ \A o \in Orders : /\ WF_graceVars(service = "Grace" /\ Grace!GracePeriodEnds(o))
                         /\ WF_graceVars(service = "Grace" /\ Grace!Confirm(o))
    /\ WF_hubVars(service = "Hub" /\ Hub!Publish)
    /\ WF_hubVars(service = "Hub" /\ Hub!Handle)
    /\ WF_hubVars(service = "Hub" /\ Hub!UpdatedOrderState)
    /\ WF_hubVars(service = "Hub" /\ Hub!Reload)
    /\ WF_hooksVars(service = "Hooks" /\ Hooks!Handle)
    /\ WF_hooksVars(service = "Hooks" /\ Hooks!Client)
    /\ WF_pageVars(service = "Page" /\ Page!Client)
    /\ WF_pageVars(service = "Page" /\ Page!Jobs)
    /\ WF_pageVars(service = "Page" /\ Page!Loop)
    /\ WF_pageVars(service = "Page" /\ Page!Deleted)
    /\ WF_pageVars(service = "Page" /\ Page!Hub)

ServicesSpec == ServicesInit /\ [][ServicesNext]_allVars /\ ServicesFairness

-----------------------------------------------------------------------------
(* Properties: those of the modules.  The Service Bus brings DeliveryPromise,
   RepeatsAreCaused and MessagesSettle by their names. *)

\* The state of every component keeps its type: the deliveries of a message, the items
\* of the client's list and the units of an order within their bounds.
ServicesTypeOK ==
    /\ TypeOK /\ Buyer!TypeOK /\ Grace!TypeOK /\ Tabs!TypeOK /\ Hub!TypeOK /\ Hooks!TypeOK
    /\ Items!TypeOK /\ Page!TypeOK

\* Buyers: a card is stored at most once per message handler.
CardsPerHandler == Buyer!CardsPerHandler

\* Buyers: every checkout ends, also the one that lost the race for the buyer's row.
CheckoutsSettle == service = "Buyer" => Buyer!CheckoutsSettle

\* GracePeriod: an order whose grace period is over is moved on or the loop is dead.
DueIsConfirmed == Grace!DueIsConfirmed

\* UserConnections: a request that ends well has sent to all connections of its end, unless
\* one of them is being removed.
DoneReachesAll == Tabs!DoneReachesAll

\* OrderHub: the page shows every status in the end, unless its event has missed it.
PageCatchesUp == Hub!PageCatchesUp

\* HubConnection: the client keeps what NotificationChannel promises to the page.
KeepsChannel == Page!KeepsChannel

\* HubConnection: start() is settled in the end, unless the handshake got lost.
StartSettles == Page!StartSettles

\* Webhooks: every subscriber that was read gets the hook, unless his own request fails or
\* is refused, or the handler is broken off before it.
HooksArrive == Hooks!HooksArrive

\* Webhooks: what was answered with 200 is in the list, or was added beside another hook.
KeptHooksAreListed == Hooks!KeptHooksAreListed

\* OrderItems: an order has the units and the price of its basket.
OrderIsItsBasket == Items!OrderIsItsBasket
=============================================================================
