------------------------ MODULE SubscriptionsManager ------------------------
(***************************************************************************)
(* InMemoryEventBusSubscriptionsManager: what it knows of an event name    *)
(* while Startup registers the handler, and what a message of that name    *)
(* then meets in ProcessEvent.  The dictionary is written by the starting  *)
(* thread and read by the handlers of messages without a lock, so a        *)
(* message can meet every line of AddSubscription.                         *)
(***************************************************************************)

\* none     no entry in _handlers
\* empty    an entry with an empty list
\* untyped  the handler is in the list, the event type not yet in _eventTypes
\* ready    AddSubscription is done
Known == {"none", "empty", "untyped", "ready"}

\* How ProcessEvent can end.
Outcomes == {"nobody", "empty", "threw", "handled"}

\* No entry: "No subscription".  An empty list: the loop over the handlers does nothing.
\* No event type: MakeGenericType(null) throws.  Otherwise the handler decides.
Meets == [k \in Known |-> CASE k = "none"    -> {"nobody"}
                            [] k = "empty"   -> {"empty"}
                            [] k = "untyped" -> {"threw"}
                            [] k = "ready"   -> {"handled", "threw"}]
==============================================================================
