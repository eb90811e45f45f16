------------------------- MODULE TransactionalOutbox -------------------------
(***************************************************************************)
(* What a service with an IntegrationEventLog table promises about its     *)
(* integration events, whatever its commands do: an event is saved with    *)
(* the transaction it belongs to and handed to the event bus after that;   *)
(* it is never taken back and no other event reaches the bus.  Nothing is  *)
(* promised about a saved event that has not been handed over.             *)
(***************************************************************************)
CONSTANT Event

VARIABLES
    saved,   \* the events of committed transactions
    handed   \* the events the bus has got

vars == <<saved, handed>>

Init == saved = {} /\ handed = {}

\* One transaction saves new events.
Save == /\ saved' \in SUBSET Event
        /\ saved \subseteq saved'
        /\ UNCHANGED handed

\* One event is handed over.
HandOver == /\ \E e \in saved \ handed : handed' = handed \cup {e}
            /\ UNCHANGED saved

Next == Save \/ HandOver

Spec == Init /\ [][Next]_vars
==============================================================================
