----------------------------- MODULE GracePeriod -----------------------------
(***************************************************************************)
(* GracePeriodManagerService: the loop that polls the orders whose grace   *)
(* period is over and publishes one event for each, at every poll until    *)
(* Ordering.API has moved the order on.  The loop catches SqlException and *)
(* nothing else: any other exception ends it.  In the first poll, before   *)
(* the first await, the host logs that the service has failed to start and *)
(* goes on; later nobody notices.  Nothing starts the loop again.          *)
(***************************************************************************)
EXTENDS Naturals, FiniteSets

CONSTANTS
    Orders,
    MaxLosses,    \* bound: events the bus loses
    MaxErrors     \* bound: polls and publications that fail

VARIABLES
    phase,         \* of an order: "submitted", "due" once the grace period is over, "confirmed"
    loop,          \* where ExecuteAsync is: "poll", "publish", "delay", "dead"
    unpublished,   \* the orders of this poll that are still to be published
    events,        \* GracePeriodConfirmed events on their way to Ordering.API
    losses, errors

vars == <<phase, loop, unpublished, events, losses, errors>>

Init ==
    /\ phase = [o \in Orders |-> "submitted"]
    /\ loop = "poll" /\ unpublished = {}
    /\ events = {}
    /\ losses = 0 /\ errors = 0

\* DATEDIFF(minute, OrderDate, GETDATE()) >= GracePeriodTime, from now on.
GracePeriodEnds(o) ==
    /\ phase[o] = "submitted" /\ phase' = [phase EXCEPT ![o] = "due"]
    /\ UNCHANGED <<loop, unpublished, events, losses, errors>>

Due == {o \in Orders : phase[o] = "due"}

\* Mutant: every order is published at one poll only.
PollMutant ==
    /\ loop = "poll"
    /\ unpublished' = Due /\ loop' = "publish"
    /\ phase' = [o \in Orders |-> IF o \in Due THEN "asked" ELSE phase[o]]
    /\ UNCHANGED <<events, losses, errors>>

\* GetConfirmedGracePeriodOrders.
Poll ==
    /\ loop = "poll"
    /\ unpublished' = Due /\ loop' = "publish"
    /\ UNCHANGED <<phase, events, losses, errors>>

\* A SqlException is caught: no orders.
PollFails ==
    /\ loop = "poll" /\ errors < MaxErrors /\ errors' = errors + 1
    /\ unpublished' = {} /\ loop' = "publish"
    /\ UNCHANGED <<phase, events, losses>>

\* One turn of the foreach.
Publish ==
    /\ loop = "publish"
    /\ \E o \in unpublished : unpublished' = unpublished \ {o} /\ events' = events \cup {o}
    /\ UNCHANGED <<phase, loop, losses, errors>>

\* The end of the foreach, and Task.Delay.
Delay ==
    /\ loop = "publish" /\ unpublished = {}
    /\ loop' = "delay"
    /\ UNCHANGED <<phase, unpublished, events, losses, errors>>

NextTurn ==
    /\ loop = "delay" /\ loop' = "poll"
    /\ UNCHANGED <<phase, unpublished, events, losses, errors>>

\* An exception leaves ExecuteAsync, and the host goes on without the loop.
Throws ==
    /\ errors < MaxErrors /\ errors' = errors + 1
    /\ unpublished' = {}
    /\ loop' = "dead"
    /\ UNCHANGED <<phase, events, losses>>

\* Publish has no connection, or the query fails with something else than a SqlException.
PublishThrows == loop = "publish" /\ unpublished # {} /\ Throws
PollThrows == loop = "poll" /\ Throws

\* Ordering.API handles one event: SetAwaitingValidationStatus.
Confirm(o) ==
    /\ o \in events /\ events' = events \ {o}
    /\ phase' = [phase EXCEPT ![o] = "confirmed"]
    /\ UNCHANGED <<loop, unpublished, losses, errors>>

\* The event gets lost: the bus takes it off although its handler threw.
Lose(o) ==
    /\ o \in events /\ events' = events \ {o}
    /\ losses < MaxLosses /\ losses' = losses + 1
    /\ UNCHANGED <<phase, loop, unpublished, errors>>

Loop == Poll \/ Publish \/ Delay \/ NextTurn

Next ==
    \/ \E o \in Orders : GracePeriodEnds(o) \/ Confirm(o) \/ Lose(o)
    \/ Loop \/ PollFails \/ PollThrows \/ PublishThrows

\* The loop goes on, time passes, events arrive.
Fairness == WF_vars(Loop) /\ \A o \in Orders : WF_vars(GracePeriodEnds(o)) /\ WF_vars(Confirm(o))

Spec == Init /\ [][Next]_vars /\ Fairness

-----------------------------------------------------------------------------
(* Properties *)

TypeOK ==
    /\ phase \in [Orders -> {"submitted", "due", "confirmed"}]
    /\ loop \in {"poll", "publish", "delay", "dead"}
    /\ unpublished \subseteq Orders /\ events \subseteq Orders
    /\ losses \in 0..MaxLosses /\ errors \in 0..MaxErrors

\* An order whose grace period is over is moved on, although events get lost and queries
\* fail, unless an exception has ended the loop.
DueIsConfirmed == \A o \in Orders : phase[o] = "due" ~> phase[o] = "confirmed" \/ loop = "dead"
==============================================================================
