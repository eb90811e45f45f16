------------------------------- MODULE Webhooks -------------------------------
(***************************************************************************)
(* Webhooks.API and WebhookClient: subscriptions to one type of event, the *)
(* handler that posts a hook to every subscriber at once, and the client   *)
(* that keeps the hooks in a list of a singleton without a lock.           *)
(*                                                                         *)
(* The url of a subscription is checked to be well-formed and absolute,    *)
(* and HttpClient sends to http alone: for another scheme it throws before *)
(* it sends, and the loop that starts the requests has no try.             *)
(* A request can fail, and a receiver that validates the token answers     *)
(* 400; neither is tried again.  An answer is not looked at, and a failed  *)
(* request makes the handler throw when all of them are through.  What a   *)
(* restart of WebhookClient does to its list is left out.                  *)
(***************************************************************************)
EXTENDS Naturals, Sequences, FiniteSets

CONSTANTS
    Subscriptions,   \* rows that may be there
    Unsendable,      \* those whose url is well-formed and absolute, and not http
    WrongToken,      \* those whose receiver validates the token and has another one
    MaxEvents        \* bound: messages of the bus, a redelivered one counted anew

Hooks == Subscriptions \X (1..MaxEvents)
NoHook == <<>>   \* an unused item

VARIABLES
    rows,      \* committed rows of Subscriptions
    event,     \* the message in hand, 0 before the first
    sending,   \* its handler has not come to its end
    unsent,    \* subscriptions it has read and started no request for
    asked,     \* history: what has been read: pairs of a subscription and a message
    broken,    \* history: messages whose handler has not started every request
    hook,      \* its request: "none", "posted", "adding", "kept", or "failed", "refused"
    slot,      \* where List.Add is going to put it
    size,      \* _size and _items of the list _data
    items,
    overlapped \* history: hooks added while another one was

vars == <<rows, event, sending, unsent, asked, broken, hook, slot, size, items, overlapped>>

clientVars == <<slot, size, items, overlapped>>

Init ==
    /\ rows = {}
    /\ event = 0 /\ sending = FALSE /\ unsent = {} /\ asked = {} /\ broken = {}
    /\ hook = [h \in Hooks |-> "none"] /\ slot = [h \in Hooks |-> 0]
    /\ size = 0 /\ items = [i \in 1..Cardinality(Hooks) |-> NoHook] /\ overlapped = {}

-----------------------------------------------------------------------------
(* Subscriptions *)

SubscribeWebhook(s) ==
    /\ s \notin rows /\ rows' = rows \cup {s}
    /\ UNCHANGED <<event, sending, unsent, asked, broken, hook, clientVars>>

UnsubscribeWebhook(s) ==
    /\ s \in rows /\ rows' = rows \ {s}
    /\ UNCHANGED <<event, sending, unsent, asked, broken, hook, clientVars>>

-----------------------------------------------------------------------------
(* The handler of OrderStatusChangedToPaid, and that of ...ToShipped *)

GetSubscriptionsOfType ==
    /\ ~sending /\ event < MaxEvents
    /\ event' = event + 1 /\ sending' = TRUE
    /\ unsent' = rows /\ asked' = asked \cup (rows \X {event'})
    /\ UNCHANGED <<rows, broken, hook, clientVars>>

\* Mutant: the query is not materialised: a row that is deleted meanwhile is not sent to.
OnSendDataMutant(s) ==
    /\ sending /\ s \in unsent
    /\ IF s \in Unsendable
       THEN unsent' = {} /\ sending' = FALSE /\ broken' = broken \cup {event} /\ UNCHANGED hook
       ELSE /\ unsent' = (unsent \ {s}) \cap rows /\ hook' = [hook EXCEPT ![<<s, event>>] = "posted"]
            /\ UNCHANGED <<sending, broken>>
    /\ UNCHANGED <<rows, event, asked, clientVars>>

\* One turn of SendAll, in any order (the query has none).  An exception ends the handler,
\* and the requests that have been started run on.
OnSendData(s) ==
    /\ sending /\ s \in unsent
    /\ IF s \in Unsendable
       THEN unsent' = {} /\ sending' = FALSE /\ broken' = broken \cup {event} /\ UNCHANGED hook
       ELSE /\ unsent' = unsent \ {s} /\ hook' = [hook EXCEPT ![<<s, event>>] = "posted"]
            /\ UNCHANGED <<sending, broken>>
    /\ UNCHANGED <<rows, event, asked, clientVars>>

\* The process ends while requests are still to be started.
Crash ==
    /\ sending /\ unsent # {}
    /\ unsent' = {} /\ sending' = FALSE /\ broken' = broken \cup {event}
    /\ UNCHANGED <<rows, event, asked, hook, clientVars>>

\* Every request has been started: Task.WhenAll waits for all of them, also when one fails,
\* and throws then.  It waits no longer than HttpClient does, so that a receiver may be at
\* work yet.
WhenAll ==
    /\ sending /\ unsent = {} /\ sending' = FALSE
    /\ UNCHANGED <<rows, event, unsent, asked, broken, hook, clientVars>>

\* The request does not arrive: the receiver is down, the time is over, the sender crashes.
RequestFails(h) ==
    /\ hook[h] = "posted" /\ hook' = [hook EXCEPT ![h] = "failed"]
    /\ UNCHANGED <<rows, event, sending, unsent, asked, broken, clientVars>>

-----------------------------------------------------------------------------
(* WebhookClient *)

Adding == {h \in Hooks : hook[h] = "adding"}

\* NewWebhook with a token that is not the receiver's: 400, and nothing is kept.
BadRequest(h) ==
    /\ hook[h] = "posted" /\ h[1] \in WrongToken /\ hook' = [hook EXCEPT ![h] = "refused"]
    /\ UNCHANGED <<rows, event, sending, unsent, asked, broken, clientVars>>

\* NewWebhook and AddNew: List.Add reads the size.
NewWebhook(h) ==
    /\ hook[h] = "posted" /\ h[1] \notin WrongToken /\ hook' = [hook EXCEPT ![h] = "adding"]
    /\ slot' = [slot EXCEPT ![h] = size + 1]
    /\ overlapped' = IF Adding = {} THEN overlapped ELSE overlapped \cup Adding \cup {h}
    /\ UNCHANGED <<rows, event, sending, unsent, asked, broken, size, items>>

\* Mutant: the new hook takes the place of the last one.
AddMutant(h) ==
    /\ hook[h] = "adding" /\ hook' = [hook EXCEPT ![h] = "kept"]
    /\ size' = (IF size = 0 THEN 1 ELSE size) /\ items' = [items EXCEPT ![size'] = h]
    /\ UNCHANGED <<rows, event, sending, unsent, asked, broken, slot, overlapped>>

\* And it writes the size and the item, whatever the size is by now; the answer is 200.
Add(h) ==
    /\ hook[h] = "adding" /\ hook' = [hook EXCEPT ![h] = "kept"]
    /\ size' = slot[h] /\ items' = [items EXCEPT ![size'] = h]
    /\ UNCHANGED <<rows, event, sending, unsent, asked, broken, slot, overlapped>>

Handle ==
    \/ GetSubscriptionsOfType \/ WhenAll
    \/ \E s \in Subscriptions : OnSendData(s)

Client == \E h \in Hooks : BadRequest(h) \/ NewWebhook(h) \/ Add(h)

Next ==
    \/ \E s \in Subscriptions : SubscribeWebhook(s) \/ UnsubscribeWebhook(s)
    \/ Handle \/ Crash \/ Client
    \/ \E h \in Hooks : RequestFails(h)

\* Tasks and requests run to their end; messages come as far as the bound lets them.
Fairness == WF_vars(Handle) /\ WF_vars(Client)

Spec == Init /\ [][Next]_vars /\ Fairness

-----------------------------------------------------------------------------
(* Properties *)

TypeOK ==
    /\ rows \subseteq Subscriptions
    /\ event \in 0..MaxEvents /\ sending \in BOOLEAN
    /\ unsent \subseteq Subscriptions /\ asked \subseteq Hooks /\ overlapped \subseteq Hooks
    /\ broken \subseteq 1..MaxEvents
    /\ hook \in [Hooks -> {"none", "posted", "adding", "kept", "failed", "refused"}]
    /\ slot \in [Hooks -> 0..Cardinality(Hooks)]
    /\ size \in 0..Cardinality(Hooks)
    /\ items \in [1..Cardinality(Hooks) -> Hooks \cup {NoHook}]

\* Whoever is subscribed when the event is handled gets the hook, although he is
\* unsubscribed meanwhile, requests to other receivers fail or the handler is broken off
\* after his request.  Without a retry, what keeps the hook from him is the failure of his own
\* request, a receiver with another token, or a handler broken off before his request: by a
\* crash, or by the one row with an url that cannot be sent to.
HooksArrive ==
    \A h \in Hooks :
        h \in asked ~> \/ hook[h] \in {"kept", "failed"}
                       \/ hook[h] = "refused" /\ h[1] \in WrongToken
                       \/ hook[h] = "none" /\ h[2] \in broken

\* A hook that was answered with 200 is in the list of the client, unless it was added at
\* the same time as another one: a client that has subscribed twice gets two at a time.
KeptHooksAreListed ==
    \A h \in Hooks :
        hook[h] = "kept" => h \in overlapped \/ \E i \in 1..size : items[i] = h
=============================================================================
