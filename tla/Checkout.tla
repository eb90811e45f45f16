------------------------------- MODULE Checkout -------------------------------
(***************************************************************************)
(* From the basket to the order and back: one user's basket in Redis, the  *)
(* requests that change it, the checkouts he sends off, Ordering.API that  *)
(* makes an order of what Basket.API has read, and OrderStarted, which     *)
(* deletes whatever is in the basket when it arrives.                      *)
(*                                                                         *)
(* A form is the page with the button "Place Order", rendered with the     *)
(* request id it sends.  It is sent again by a double click and by the     *)
(* retry policy of WebMVC's client, each time Basket.API reads the basket  *)
(* anew.  Prices, products and quantities are those of modules Basket and  *)
(* OrderItems, the transaction of CreateOrder is that of module Ordering.  *)
(***************************************************************************)
EXTENDS Naturals, Sequences, Functions

CONSTANTS
    LineIds,      \* ids of basket lines: Guids, never used again
    Writers,      \* requests that read the basket and write it back
    Forms,        \* request ids
    MaxAttempts   \* bound: how often forms are sent

VARIABLES
    stored,       \* Redis: the lines of the basket; no lines, no key
    added,        \* the lines that have ever been put into it
    reading,      \* the requests that have read it and not written it
    copied,       \* what each of them has read
    attempts,     \* how often forms have been sent
    sent,         \* UserCheckoutAccepted messages for Ordering.API
    requestIds,   \* ordering.requests: the committed request ids
    placed,       \* the committed orders
    unpublished,  \* forms whose OrderStarted is saved and not published
    announced,    \* OrderStarted messages for Basket.API, by their forms
    cleared, astray, repeated  \* history, see CheckoutInit

cartVars    == <<stored, added, reading, copied>>
orderVars   == <<requestIds, placed>>
historyVars == <<cleared, astray, repeated>>
checkoutVars == <<cartVars, attempts, sent, orderVars, unpublished, announced, historyVars>>

CheckoutInit ==
    /\ stored = {} /\ added = {}
    /\ reading = {} /\ copied = [r \in Writers |-> {}]
    /\ attempts = 0 /\ sent = {}
    /\ requestIds = {} /\ placed = <<>> /\ unpublished = {} /\ announced = {}
    /\ cleared = {}   \* forms whose OrderStarted has deleted the basket
    /\ astray = {}    \* lines that may get lost: added while a checkout was on its way, taken
                      \* out by another's write or an administrator, or of a failed order
    /\ repeated = {}  \* lines that may be ordered twice: read while another form's basket
                      \* was to be deleted yet, or put back by the write of an old copy

-----------------------------------------------------------------------------
(* Requests to the aggregator, and the price handler of Basket.API *)

GetBasket(r) ==
    /\ r \notin reading
    /\ reading' = reading \cup {r} /\ copied' = [copied EXCEPT ![r] = stored]
    /\ UNCHANGED <<stored, added, attempts, sent, orderVars, unpublished, announced,
                   historyVars>>

LeaveRequest(r) == reading' = reading \ {r} /\ copied' = [copied EXCEPT ![r] = {}]

\* Checkouts of which Ordering may still make an order.
Pending == {c \in sent : c.form \notin requestIds}

\* A checkout has read the basket and OrderStarted has not come yet.
Underway == Pending # {} \/ unpublished # {} \/ announced # {}

\* AddBasketItemAsync and UpdateAllBasketAsync write the copy with new lines, the others
\* the copy with new quantities or prices, and nothing when there is none.  A write that the
\* retry policy sends again is that of a request which read the basket right behind it.
PostBasket(r) ==
    /\ r \in reading
    /\ \E new \in SUBSET (LineIds \ added) :
          /\ copied[r] \cup new # {}
          /\ stored' = copied[r] \cup new
          /\ added' = added \cup new
          /\ astray' = astray \cup (stored \ copied[r]) \cup (IF Underway THEN new ELSE {})
    /\ repeated' = repeated \cup (copied[r] \ stored)
    /\ LeaveRequest(r)
    /\ UNCHANGED <<attempts, sent, orderVars, unpublished, announced, cleared>>

\* A call fails, or there is no basket to change.
RequestFails(r) ==
    /\ r \in reading /\ LeaveRequest(r)
    /\ UNCHANGED <<stored, added, attempts, sent, orderVars, unpublished, announced,
                   historyVars>>

\* DeleteBasketByIdAsync, for administrators.
DeleteBasketById ==
    /\ stored # {} /\ stored' = {} /\ astray' = astray \cup stored
    /\ UNCHANGED <<added, reading, copied, attempts, sent, orderVars, unpublished, announced,
                   cleared, repeated>>

-----------------------------------------------------------------------------
(* CheckoutAsync *)

\* Checkouts and orders of other forms, whose basket is to be deleted yet, and their lines.
Others(f) == {c \in Pending : c.form # f}
             \cup {c \in Range(placed) : c.form \notin cleared \cup {f}}
Undeleted(f) == UNION {c.lines : c \in Others(f)}

\* A form arrives, Basket.API reads the basket and publishes UserCheckoutAccepted with it;
\* the basket stays.  (Without a basket, or when Publish throws, nothing changes.)
CheckoutAsync(f) ==
    /\ attempts < MaxAttempts /\ attempts' = attempts + 1
    /\ stored # {}
    /\ sent' = sent \cup {[form |-> f, lines |-> stored]}
    /\ repeated' = repeated \cup (stored \cap Undeleted(f))
    /\ UNCHANGED <<cartVars, orderVars, unpublished, announced, cleared, astray>>

-----------------------------------------------------------------------------
(* Ordering.API *)

\* Mutant: ExistAsync is not asked.
ExistsMutant(c) == FALSE

\* RequestManager.ExistAsync.
Exists(c) == c.form \in requestIds

\* A message is acknowledged, or Ordering.API dies before and it comes again.
Acknowledged(c) == sent' \in {sent, sent \ {c}}

\* A new request id, the order and OrderStarted are committed together.
CreateOrder(c) ==
    /\ c \in sent /\ ~Exists(c)
    /\ requestIds' = requestIds \cup {c.form} /\ placed' = Append(placed, c)
    /\ unpublished' = unpublished \cup {c.form}
    /\ Acknowledged(c)
    /\ UNCHANGED <<cartVars, attempts, announced, historyVars>>

\* The command throws behind AddAndSaveEventAsync, and its exception is swallowed: the
\* request id and OrderStarted are committed, the order is not.  (An order that stays without
\* its buyer, see module Buyers, is an order.)
CreateOrderThrows(c) ==
    /\ c \in sent /\ ~Exists(c)
    /\ requestIds' = requestIds \cup {c.form} /\ unpublished' = unpublished \cup {c.form}
    /\ astray' = astray \cup c.lines
    /\ Acknowledged(c)
    /\ UNCHANGED <<cartVars, attempts, placed, announced, cleared, repeated>>

\* ValidatorBehavior refuses the inner command (no items, an expired card), and its exception
\* is swallowed: the request id alone is committed.
CreateOrderInvalid(c) ==
    /\ c \in sent /\ ~Exists(c)
    /\ requestIds' = requestIds \cup {c.form}
    /\ Acknowledged(c)
    /\ UNCHANGED <<cartVars, attempts, placed, unpublished, announced, historyVars>>

\* Mutant: OrderStarted goes to the bus and not to the log of the transaction.
RollbackMutant(c) ==
    /\ c \in sent /\ ~Exists(c)
    /\ Acknowledged(c)
    /\ unpublished' = unpublished \cup {c.form}
    /\ UNCHANGED <<cartVars, attempts, orderVars, announced, historyVars>>

\* The transaction fails; RabbitMQ takes the message off all the same.
Rollback(c) ==
    /\ c \in sent /\ ~Exists(c)
    /\ Acknowledged(c)
    /\ UNCHANGED <<cartVars, attempts, orderVars, unpublished, announced, historyVars>>

\* The request id is there.
IgnoreDuplicate(c) ==
    /\ c \in sent /\ Exists(c)
    /\ sent' = sent \ {c}
    /\ UNCHANGED <<cartVars, attempts, orderVars, unpublished, announced, historyVars>>

\* PublishEventsThroughEventBusAsync, after the commit.
PublishStarted(f) ==
    /\ f \in unpublished /\ unpublished' = unpublished \ {f}
    /\ announced' = announced \cup {f}
    /\ UNCHANGED <<cartVars, attempts, sent, orderVars, historyVars>>

\* It fails, or Ordering.API dies: nobody publishes the event later.
LoseStarted(f) ==
    /\ f \in unpublished /\ unpublished' = unpublished \ {f}
    /\ UNCHANGED <<cartVars, attempts, sent, orderVars, announced, historyVars>>

-----------------------------------------------------------------------------
(* OrderStartedIntegrationEventHandler of Basket.API *)

\* The basket of the user is deleted, whatever is in it; the message is acknowledged or
\* comes again.
DeleteOrdered(f) ==
    /\ f \in announced /\ announced' \in {announced, announced \ {f}}
    /\ stored' = {} /\ cleared' = cleared \cup {f}
    /\ UNCHANGED <<added, reading, copied, attempts, sent, orderVars, unpublished, astray,
                   repeated>>

\* KeyDeleteAsync fails, and the message is acknowledged.
DeleteFails(f) ==
    /\ f \in announced /\ announced' = announced \ {f}
    /\ UNCHANGED <<cartVars, attempts, sent, orderVars, unpublished, historyVars>>

-----------------------------------------------------------------------------
Change == \/ \E r \in Writers : GetBasket(r) \/ PostBasket(r) \/ RequestFails(r)
          \/ DeleteBasketById

Handle(c) ==
    \/ CreateOrder(c) \/ CreateOrderThrows(c) \/ CreateOrderInvalid(c) \/ Rollback(c)
    \/ IgnoreDuplicate(c)

CheckoutNext ==
    \/ Change
    \/ \E f \in Forms : CheckoutAsync(f)
    \/ \E c \in sent : Handle(c)
    \/ \E f \in Forms : \/ PublishStarted(f) \/ LoseStarted(f)
                        \/ DeleteOrdered(f) \/ DeleteFails(f)

CheckoutSpec == CheckoutInit /\ [][CheckoutNext]_checkoutVars

-----------------------------------------------------------------------------
(* Properties *)

Checkouts == [form : Forms, lines : SUBSET LineIds]

CheckoutTypeOK ==
    /\ \A s \in {stored, added, astray, repeated} : s \subseteq LineIds
    /\ reading \subseteq Writers /\ copied \in [Writers -> SUBSET LineIds]
    /\ attempts \in Nat
    /\ sent \subseteq Checkouts
    /\ requestIds \subseteq Forms /\ placed \in Seq(Checkouts)
    /\ unpublished \subseteq Forms /\ announced \subseteq Forms
    /\ cleared \subseteq Forms

Ordered == UNION {placed[i].lines : i \in DOMAIN placed}

\* What a user has put into his basket is there or ordered, although OrderStarted deletes
\* the basket unseen, unless he has added it while a checkout was on its way, another
\* request has overwritten it, or the command failed behind OrderStarted.
NothingVanishes == added \subseteq stored \cup Ordered \cup astray

\* However often forms are sent and messages delivered, a line is in two orders only if a
\* second form was sent while the deletion of the first one's basket was still to come, or
\* a request has put it back into the basket.
OrderedOnce ==
    \A i, j \in DOMAIN placed :
        i # j => placed[i].lines \cap placed[j].lines \subseteq repeated
===============================================================================
