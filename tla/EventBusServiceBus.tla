------------------------- MODULE EventBusServiceBus -------------------------
(***************************************************************************)
(* One service's end of the event bus over Azure Service Bus: its          *)
(* subscription to the topic with the rules that select messages, the      *)
(* message pump that is registered in the constructor, before any          *)
(* Subscribe call, and up to MaxConcurrentCalls handlers at a time, each   *)
(* with the lock of its message.                                           *)
(*                                                                         *)
(* A message is taken off by CompleteAsync alone, a call to the broker     *)
(* that can fail like any other.  Everything else gives the message back:  *)
(* an exception, also that of CompleteAsync (the pump abandons the         *)
(* message), the lock that expires, after MaxDeliveryCount deliveries to   *)
(* the dead-letter queue.                                                  *)
(***************************************************************************)
EXTENDS Naturals, Sequences, FiniteSets, SubscriptionsManager

CONSTANTS
    Events, Calls,     \* event names; the Subscribe calls of Startup
    Workers,           \* the MaxConcurrentCalls handlers
    MaxDeliveryCount,  \* of the subscription, at the broker
    MaxMessages,       \* bound: messages published
    MaxRestarts        \* bound: crashes of the process

\* Startup's calls name events, a process has finitely many handlers, the subscription
\* delivers at least once.
ASSUME BusAssumption ==
    /\ Calls \in Seq(Events) /\ IsFiniteSet(Workers)
    /\ MaxDeliveryCount \in Nat \ {0} /\ MaxMessages \in Nat /\ MaxRestarts \in Nat

Messages == 1..MaxMessages

VARIABLES
    published,   \* the event names of the messages
    queue,       \* messages ready in the subscription
    locked,      \* messages a receiver has locked
    deliveries,  \* how often each message has been delivered
    dead,        \* the dead-letter queue
    rules,       \* the names the subscription selects
    default,     \* the rule a new subscription is made with, which selects all
    known,       \* the subscriptions manager
    call, stage, \* where the constructor and Startup are
    task,        \* worker -> what it has in hand
    completed, unlisted, runs, lapses, faults, restarts  \* history, see Init

brokerVars  == <<published, queue, locked, deliveries, dead>>
startupVars == <<rules, default, known, call, stage>>
historyVars == <<completed, unlisted, runs, lapses, faults, restarts>>
vars == <<brokerVars, startupVars, task, historyVars>>

Idle == [at |-> "idle", msg |-> 0, held |-> FALSE]

Init ==
    /\ published = <<>> /\ queue = {} /\ locked = {} /\ dead = {}
    /\ deliveries = [m \in Messages |-> 0]
    /\ rules = {} /\ default = TRUE
    /\ known = [e \in Events |-> "none"]
    /\ call = 0 /\ stage = "default"
    /\ task = [w \in Workers |-> Idle]
    /\ completed = {}   \* messages completed
    /\ unlisted = {}    \* messages that met an entry without a handler
    /\ runs = [m \in Messages |-> 0]    \* how often a handler of a message has succeeded,
    /\ lapses = [m \in Messages |-> 0]  \* its lock has expired,
    /\ faults = [m \in Messages |-> 0]  \* and it has not been completed with its lock held
    /\ restarts = 0

-----------------------------------------------------------------------------
(* The topic *)

\* Publish, in any service.
Publish(e) ==
    /\ Len(published) < MaxMessages
    /\ published' = Append(published, e)
    /\ queue' = IF default \/ e \in rules THEN queue \cup {Len(published) + 1} ELSE queue
    /\ UNCHANGED <<locked, deliveries, dead, startupVars, task, historyVars>>

\* Message m is no longer locked: back to the queue, or dead after its last delivery.
GiveBack(m) ==
    /\ locked' = locked \ {m}
    /\ IF deliveries[m] < MaxDeliveryCount
       THEN queue' = queue \cup {m} /\ UNCHANGED dead
       ELSE dead' = dead \cup {m} /\ UNCHANGED queue

\* The lock of a message expires: nobody completes it, its handler takes longer than the
\* pump renews the lock, or its process is gone.
LockExpires(m) ==
    /\ m \in locked
    /\ GiveBack(m)
    /\ task' = [w \in Workers |->
                   IF task[w].msg = m THEN [task[w] EXCEPT !.held = FALSE] ELSE task[w]]
    /\ lapses' = [lapses EXCEPT ![m] = @ + 1]
    /\ UNCHANGED <<published, deliveries, startupVars, completed, unlisted, runs, faults,
                   restarts>>

-----------------------------------------------------------------------------
(* The constructor and Startup *)

Lines == {"default", "pump", "rule", "list", "handler", "type"}

At(l) == stage = l /\ (call = 0 \/ call \in DOMAIN Calls)

\* RemoveDefaultRule; that there is none any more is caught.
RemoveDefaultRule ==
    /\ At("default")
    /\ default' = FALSE /\ stage' = "pump"
    /\ UNCHANGED <<rules, known, call, brokerVars, task, historyVars>>

\* RegisterSubscriptionClientMessageHandler: from here on messages arrive.
RegisterSubscriptionClientMessageHandler ==
    /\ At("pump")
    /\ stage' = "rule" /\ call' = 1
    /\ UNCHANGED <<rules, default, known, brokerVars, task, historyVars>>

\* AddRuleAsync; that the rule exists is caught.
AddRule ==
    /\ At("rule")
    /\ rules' = IF known[Calls[call]] = "none" THEN rules \cup {Calls[call]} ELSE rules
    /\ stage' = "list"
    /\ UNCHANGED <<default, known, call, brokerVars, task, historyVars>>

AddSubscription ==
    /\ \/ At("list")    /\ known' = [known EXCEPT ![Calls[call]] = "empty"]
                        /\ stage' = "handler" /\ UNCHANGED call
       \/ At("handler") /\ known' = [known EXCEPT ![Calls[call]] = "untyped"]
                        /\ stage' = "type" /\ UNCHANGED call
       \/ At("type")    /\ known' = [known EXCEPT ![Calls[call]] = "ready"]
                        /\ stage' = "rule" /\ call' = call + 1
    /\ UNCHANGED <<rules, default, brokerVars, task, historyVars>>

Startup == RemoveDefaultRule \/ RegisterSubscriptionClientMessageHandler \/ AddRule
           \/ AddSubscription

\* The process ends; its locks stay until they expire, the rules stay.
Restart ==
    /\ restarts < MaxRestarts /\ restarts' = restarts + 1
    /\ known' = [e \in Events |-> "none"]
    /\ call' = 0 /\ stage' = "default"
    /\ task' = [w \in Workers |-> Idle]
    /\ UNCHANGED <<rules, default, brokerVars, completed, unlisted, runs, lapses, faults>>

-----------------------------------------------------------------------------
(* The handlers *)

\* The pump hands a locked message to worker w.
Receive(w) ==
    /\ call > 0 /\ task[w].at = "idle"
    /\ \E m \in queue :
          /\ queue' = queue \ {m} /\ locked' = locked \cup {m}
          /\ deliveries' = [deliveries EXCEPT ![m] = @ + 1]
          /\ task' = [task EXCEPT ![w] = [at |-> "process", msg |-> m, held |-> TRUE]]
    /\ UNCHANGED <<published, dead, startupVars, historyVars>>

\* ProcessEvent: false without an entry, true after the loop over the handlers of an entry,
\* which may have none; an exception otherwise.
ProcessEvent(w) ==
    /\ task[w].at = "process"
    /\ LET m == task[w].msg
       IN \E o \in Meets[known[published[m]]] :
          /\ task' = [task EXCEPT ![w].at = o]
          /\ runs' = IF o = "handled" THEN [runs EXCEPT ![m] = @ + 1] ELSE runs
          /\ unlisted' = IF o = "empty" THEN unlisted \cup {m} ELSE unlisted
    /\ UNCHANGED <<brokerVars, startupVars, completed, lapses, faults, restarts>>

\* ProcessEvent returned true.
Processed(w) == task[w].at \in {"handled", "empty"}

\* Mutant: AbandonAsync.
CompleteAsyncMutant(w) ==
    /\ Processed(w) /\ task[w].held
    /\ GiveBack(task[w].msg)
    /\ task' = [task EXCEPT ![w] = Idle]
    /\ UNCHANGED <<published, deliveries, startupVars, historyVars>>

\* CompleteAsync: the message is gone.
CompleteAsync(w) ==
    /\ Processed(w) /\ task[w].held
    /\ completed' = completed \cup {task[w].msg} /\ locked' = locked \ {task[w].msg}
    /\ task' = [task EXCEPT ![w] = Idle]
    /\ UNCHANGED <<published, queue, deliveries, dead, startupVars, unlisted, runs, lapses,
                   faults, restarts>>

\* CompleteAsync throws: the lock is lost, or the request fails on its way to the broker.
CompleteFails(w) ==
    /\ Processed(w)
    /\ task' = [task EXCEPT ![w].at = "threw"]
    /\ faults' = IF task[w].held THEN [faults EXCEPT ![task[w].msg] = @ + 1] ELSE faults
    /\ UNCHANGED <<brokerVars, startupVars, completed, unlisted, runs, lapses, restarts>>

\* Or the broker has completed the message and its answer gets lost.
CompleteUnanswered(w) ==
    /\ Processed(w) /\ task[w].held
    /\ completed' = completed \cup {task[w].msg} /\ locked' = locked \ {task[w].msg}
    /\ task' = [task EXCEPT ![w].at = "threw", ![w].held = FALSE]
    /\ UNCHANGED <<published, queue, deliveries, dead, startupVars, unlisted, runs, lapses,
                   faults, restarts>>

\* Mutant: the callback never ends.
LeaveMutant(w) == task[w].at = "nobody" /\ UNCHANGED vars

\* ProcessEvent returned false: nothing is called and the lock stays.
Leave(w) ==
    /\ task[w].at = "nobody"
    /\ task' = [task EXCEPT ![w] = Idle]
    /\ UNCHANGED <<brokerVars, startupVars, historyVars>>

\* Mutant: the message is taken off even on an exception, as with RabbitMQ.
AbandonMutant(w) ==
    /\ task[w].at = "threw"
    /\ IF task[w].held
       THEN completed' = completed \cup {task[w].msg} /\ locked' = locked \ {task[w].msg}
       ELSE UNCHANGED <<completed, locked>>
    /\ task' = [task EXCEPT ![w] = Idle]
    /\ UNCHANGED <<published, queue, deliveries, dead, startupVars, unlisted, runs, lapses,
                   faults, restarts>>

\* An exception left the callback: the pump abandons the message.
Abandon(w) ==
    /\ task[w].at = "threw"
    /\ IF task[w].held THEN GiveBack(task[w].msg) ELSE UNCHANGED <<queue, locked, dead>>
    /\ task' = [task EXCEPT ![w] = Idle]
    /\ UNCHANGED <<published, deliveries, startupVars, historyVars>>

\* The request to abandon it fails: the pump tells ExceptionReceivedHandler, and the lock
\* stays until it expires.
AbandonFails(w) ==
    /\ task[w].at = "threw"
    /\ task' = [task EXCEPT ![w] = Idle]
    /\ UNCHANGED <<brokerVars, startupVars, historyVars>>

Work(w) ==
    \/ Receive(w) \/ ProcessEvent(w)
    \/ CompleteAsync(w) \/ CompleteFails(w) \/ CompleteUnanswered(w)
    \/ Leave(w) \/ Abandon(w) \/ AbandonFails(w)

Next ==
    \/ \E e \in Events : Publish(e)
    \/ \E m \in Messages : LockExpires(m)
    \/ Startup \/ Restart
    \/ \E w \in Workers : Work(w)

\* The process runs, and a lock expires when nobody renews it.
Fairness ==
    /\ WF_vars(Startup)
    /\ \A w \in Workers : WF_vars(Work(w))
    /\ \A m \in Messages : WF_vars(LockExpires(m))

Spec == Init /\ [][Next]_vars /\ Fairness

-----------------------------------------------------------------------------
(* Properties *)

TypeOK ==
    /\ published \in Seq(Events) /\ Len(published) <= MaxMessages
    /\ \A s \in {queue, locked, dead, completed, unlisted} : s \subseteq 1..Len(published)
    /\ \A f \in {runs, lapses, faults} : f \in [Messages -> Nat]
    /\ deliveries \in [Messages -> 0..MaxDeliveryCount]
    /\ rules \subseteq Events /\ default \in BOOLEAN /\ known \in [Events -> Known]
    /\ call \in 0..(Len(Calls) + 1) /\ stage \in Lines
    /\ task \in [Workers -> [at : {"idle", "process"} \cup Outcomes,
                             msg : 0..Len(published), held : BOOLEAN]]
    /\ restarts \in 0..MaxRestarts

\* "Complete the message so that it is not received again" (EventBusServiceBus.cs:141):
\* a message is completed only after its handler has succeeded.  What excuses is the
\* moment in AddSubscription between the entry of the name and its handler: the loop over
\* no handler counts as processed.
Delivered == INSTANCE EventDelivery WITH
    sent    <- 1..Len(published),
    done    <- {m \in Messages : runs[m] > 0},
    off     <- completed,
    excused <- unlisted

DeliveryPromise == Delivered!Spec

\* "... so that it is not received again": exceptions of handlers, restarts and however many
\* handlers at a time, every run of a message after the first is paid for by a lock of it
\* that has expired or a request to complete it that has failed.
RepeatsAreCaused == \A m \in Messages : runs[m] <= 1 + lapses[m] + faults[m]

\* A message in the subscription is completed or ends in the dead-letter queue, even one
\* that nobody handles.
MessagesSettle == \A m \in Messages : m \in queue ~> m \in completed \cup dead
==============================================================================
