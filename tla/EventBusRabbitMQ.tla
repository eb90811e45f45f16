-------------------------- MODULE EventBusRabbitMQ --------------------------
(***************************************************************************)
(* One service's end of the event bus over RabbitMQ: its durable queue at  *)
(* the broker, the Subscribe calls of its Startup, the consumer channel    *)
(* with its delivery tags, the work pools that hand deliveries to          *)
(* Consumer_Received one at a time, lost connections, the replacement of   *)
(* the channel by CallbackException, restarts of the process.              *)
(*                                                                         *)
(* A session is the life of one channel at the broker.  It ends with its   *)
(* connection, when the broker closes the channel, when the channel is     *)
(* disposed or with the process; the broker then gives what was not        *)
(* acknowledged back to the queue, at its old place.  The deliveries that  *)
(* were waiting in the client may still reach Consumer_Received.           *)
(***************************************************************************)
EXTENDS Naturals, Sequences, FiniteSets, SubscriptionsManager

CONSTANTS
    Events,       \* event names
    Calls,        \* the event names in the order of the Subscribe calls of Startup
    Sessions,     \* identifiers of sessions, used again when nothing is left of one
    MaxMessages,  \* bound: messages published
    MaxFaults     \* bound: lost connections and crashes together

ASSUME EventBusAssumption ==
    /\ Calls \in Seq(Events) /\ Calls # <<>>
    /\ \A i, j \in DOMAIN Calls : Calls[i] = Calls[j] => i = j
    /\ MaxMessages \in Nat /\ MaxFaults \in Nat
    /\ Sessions # {}

Messages == 1..MaxMessages

VARIABLES
    published,  \* the event names of the messages, in the order of their publication
    queue,      \* messages the broker has ready for the service
    bound,      \* routing keys bound to the queue
    orphans,    \* unacknowledged messages of sessions whose end the broker has not seen
    known,      \* the subscriptions manager
    call,       \* the Subscribe call Startup is at
    stage,      \* and the line it is at
    channel,    \* _consumerChannel
    session,    \* its session
    local,      \* deliveries in the client
    ended, unheard, again, taken, faults, restarted, replaced, refused  \* history, see Init

brokerVars  == <<published, queue, bound, orphans>>
startupVars == <<bound, known, call, stage>>
historyVars == <<ended, unheard, again, taken, faults, restarted, replaced, refused>>
vars == <<published, queue, bound, orphans, known, call, stage, channel, session, local,
          historyVars>>

Delivery == [session : Sessions, tag : Nat, msg : Messages,
             at : {"buffered", "ack", "callback"}]

Channel == [state : {"open", "lost", "closed"}, tag : Nat, offset : Nat,
            unacked : SUBSET (Nat \X Messages), consuming : BOOLEAN]

\* A new channel: the next delivery has tag 1.
NewChannel(consuming) ==
    [state |-> "open", tag |-> 0, offset |-> 0, unacked |-> {}, consuming |-> consuming]

Waiting(c) == {d[2] : d \in c.unacked}

\* A session of which nothing is left in the client.
Unused(l) == {s \in Sessions : \A d \in l : d.session # s}

Init ==
    /\ published = <<>> /\ queue = {} /\ bound = {} /\ orphans = {}
    /\ known = [e \in Events |-> "none"]
    /\ call = 1 /\ stage = "bind"
    /\ channel = NewChannel(FALSE)
    /\ session = CHOOSE s \in Sessions : TRUE
    /\ local = {}
    /\ ended = {}                      \* messages with a run that has ended
    /\ unheard = {}                    \* messages with a run that found no handler
    /\ again = {}                      \* messages with more than one run
    /\ taken = {}                      \* messages acknowledged
    /\ faults = 0
    /\ restarted = FALSE               \* this is not the first process
    /\ replaced = FALSE                \* CallbackException has replaced the channel
    /\ refused = FALSE                 \* it has failed to create a new one

-----------------------------------------------------------------------------
(* The publishers and the broker *)

\* Publish, in another service.  The broker puts the message in the queues bound to its
\* routing key and drops it when there is none: it is returned (mandatory) to a channel
\* that does not listen.
Publish(e) ==
    /\ Len(published) < MaxMessages
    /\ published' = Append(published, e)
    /\ queue' = IF e \in bound THEN queue \cup {Len(published) + 1} ELSE queue
    /\ UNCHANGED <<startupVars, orphans, channel, session, local, historyVars>>

\* Mutant: BasicConsume with autoAck.
DeliverMutant ==
    /\ channel.state = "open" /\ channel.consuming
    /\ \E m \in queue :
          /\ \A n \in queue : m <= n
          /\ queue' = queue \ {m}
          /\ channel' = [channel EXCEPT !.tag = @ + 1]
          /\ taken' = taken \cup {m}
          /\ local' = local \cup {[session |-> session, tag |-> channel.tag + 1,
                                   msg |-> m, at |-> "buffered"]}
    /\ UNCHANGED <<startupVars, published, orphans, session, ended, unheard, again, faults,
                   restarted, replaced, refused>>

\* The broker pushes every ready message, the oldest first, without limit (no BasicQos)
\* to the consumers of the channel; autoAck is false.
Deliver ==
    /\ channel.state = "open" /\ channel.consuming
    /\ \E m \in queue :
          /\ \A n \in queue : m <= n
          /\ queue' = queue \ {m}
          /\ channel' = [channel EXCEPT !.tag = @ + 1,
                                        !.unacked = @ \cup {<<channel.tag + 1, m>>}]
          /\ local' = local \cup {[session |-> session, tag |-> channel.tag + 1,
                                   msg |-> m, at |-> "buffered"]}
    /\ UNCHANGED <<startupVars, published, orphans, session, historyVars>>

\* The broker notices the end of a session and gives its messages back to the queue.
Requeue ==
    /\ \E m \in orphans : orphans' = orphans \ {m} /\ queue' = queue \cup {m}
    /\ UNCHANGED <<startupVars, published, channel, session, local, historyVars>>

-----------------------------------------------------------------------------
(* Startup: the Subscribe calls, line by line *)

Lines == {"bind", "list", "handler", "type", "consume"}

\* Mutant: StartBasicConsume before AddSubscription.
FollowingMutant == [l \in Lines |-> CASE l = "bind"    -> "consume"
                                      [] l = "consume" -> "list"
                                      [] l = "list"    -> "handler"
                                      [] l = "handler" -> "type"
                                      [] l = "type"    -> "done"]

Following == [l \in Lines |-> CASE l = "bind"    -> "list"
                                [] l = "list"    -> "handler"
                                [] l = "handler" -> "type"
                                [] l = "type"    -> "consume"
                                [] l = "consume" -> "done"]

\* The end of a line: the next one, or the next call.
Advance ==
    IF Following[stage] = "done"
    THEN call' = call + 1 /\ stage' = "bind"
    ELSE stage' = Following[stage] /\ UNCHANGED call

AtLine(l) == call \in DOMAIN Calls /\ stage = l

\* DoInternalSubscription.
Bind ==
    /\ AtLine("bind")
    /\ bound' = IF known[Calls[call]] = "none" THEN bound \cup {Calls[call]} ELSE bound
    /\ Advance
    /\ UNCHANGED <<published, queue, orphans, known, channel, session, local, historyVars>>

\* AddSubscription: the entry, the handler, the event type.
AddSubscription ==
    /\ \E l \in {"list", "handler", "type"} :
          /\ AtLine(l)
          /\ known' = [known EXCEPT ![Calls[call]] =
                          CASE l = "list"    -> "empty"
                            [] l = "handler" -> "untyped"
                            [] l = "type"    -> "ready"]
    /\ Advance
    /\ UNCHANGED <<brokerVars, channel, session, local, historyVars>>

\* StartBasicConsume: one more consumer of the queue on the channel.
StartBasicConsume ==
    /\ AtLine("consume") /\ channel.state = "open"
    /\ channel' = [channel EXCEPT !.consuming = TRUE]
    /\ Advance
    /\ UNCHANGED <<brokerVars, known, session, local, historyVars>>

\* The process ends and a new one starts; the queue and its bindings are durable.
NewProcess ==
    /\ orphans' = orphans \cup Waiting(channel)
    /\ known' = [e \in Events |-> "none"]
    /\ call' = 1 /\ stage' = "bind"
    /\ channel' = NewChannel(FALSE)
    /\ local' = {}
    /\ restarted' = TRUE
    /\ UNCHANGED <<published, queue, bound, session, ended, unheard, again, taken, replaced, refused>>

Restart == faults < MaxFaults /\ faults' = faults + 1 /\ NewProcess

\* BasicConsume throws on a channel that is not open: Startup fails.
StartupFails ==
    /\ AtLine("consume") /\ channel.state # "open"
    /\ NewProcess /\ UNCHANGED faults

-----------------------------------------------------------------------------
(* Consumer_Received *)

\* The work pool of a session has one delivery at work at a time, in the order of tags.
InTurn(d) ==
    /\ d.at = "buffered"
    /\ \A o \in local : o.session = d.session =>
          o = d \/ (o.at = "buffered" /\ d.tag <= o.tag)

\* ProcessEvent, to its end; an exception is logged.
ProcessEvent(d) ==
    /\ InTurn(d)
    /\ \E o \in Meets[known[published[d.msg]]] :
          /\ unheard' = IF o \in {"nobody", "empty"} THEN unheard \cup {d.msg} ELSE unheard
          /\ local' = (local \ {d}) \cup {[d EXCEPT !.at = "ack"]}
    /\ ended' = ended \cup {d.msg}
    /\ again' = again \cup (ended \cap {d.msg})
    /\ UNCHANGED <<brokerVars, known, call, stage, channel, session, taken, faults,
                   restarted, replaced, refused>>

\* Mutant: BasicReject with requeue instead of BasicAck.
BasicAckRequeues(d) ==
    /\ d.at = "ack" /\ channel.state = "open"
    /\ local' = local \ {d}
    /\ channel' = [channel EXCEPT !.unacked = {u \in @ : u[1] # d.tag}]
    /\ queue' = queue \cup {u[2] : u \in {v \in channel.unacked : v[1] = d.tag}}
    /\ UNCHANGED <<startupVars, published, orphans, session, historyVars>>

\* Mutant: an acknowledgement in the catch block and another one at the end.
BasicAckTwice(d) ==
    /\ d.at = "ack" /\ channel.state = "open"
    /\ IF \E m \in Messages : <<d.tag, m>> \in channel.unacked
       THEN /\ channel' = [channel EXCEPT !.unacked = {u \in @ : u[1] # d.tag}]
            /\ taken' = taken \cup {u[2] : u \in {v \in channel.unacked : v[1] = d.tag}}
            /\ UNCHANGED <<queue, local>>
       ELSE /\ channel' = [channel EXCEPT !.state = "closed", !.unacked = {},
                                          !.consuming = FALSE]
            /\ queue' = queue \cup Waiting(channel)
            /\ local' = local \ {d}
            /\ UNCHANGED taken
    /\ UNCHANGED <<startupVars, published, orphans, session, ended, unheard, again, faults,
                   restarted, replaced, refused>>

\* Mutant: the acknowledgement at the end of the try: none when a handler has thrown.
BasicAckInTry(d) ==
    /\ d.at = "ack" /\ channel.state = "open"
    /\ local' = local \ {d}
    /\ \/ \E m \in Messages :
             /\ <<d.tag, m>> \in channel.unacked
             /\ channel' = [channel EXCEPT !.unacked = @ \ {<<d.tag, m>>}]
             /\ taken' = taken \cup {m}
       \/ UNCHANGED <<channel, taken>>
    /\ UNCHANGED <<startupVars, published, queue, orphans, session, ended, unheard, again,
                   faults, restarted, replaced, refused>>

\* BasicAck on _consumerChannel, whichever it is by now.  A recovered channel ignores the
\* tags from before (offset).  The broker closes a channel that acknowledges a tag which
\* is not outstanding.  A channel that is not open throws, outside the try.
BasicAck(d) ==
    /\ d.at = "ack"
    /\ IF channel.state # "open"
       THEN /\ local' = (local \ {d}) \cup {[d EXCEPT !.at = "callback"]}
            /\ UNCHANGED <<queue, channel, taken>>
       ELSE /\ local' = local \ {d}
            /\ \/ /\ d.tag <= channel.offset
                  /\ UNCHANGED <<queue, channel, taken>>
               \/ /\ d.tag > channel.offset
                  /\ \E m \in Messages :
                        /\ <<d.tag, m>> \in channel.unacked
                        /\ channel' = [channel EXCEPT !.unacked = @ \ {<<d.tag, m>>}]
                        /\ taken' = taken \cup {m}
                  /\ UNCHANGED queue
               \/ /\ d.tag > channel.offset
                  /\ \A m \in Messages : <<d.tag, m>> \notin channel.unacked
                  /\ channel' = [channel EXCEPT !.state = "closed", !.unacked = {},
                                                !.consuming = FALSE]
                  /\ queue' = queue \cup Waiting(channel)
                  /\ UNCHANGED taken
    /\ UNCHANGED <<startupVars, published, orphans, session, ended, unheard, again,
                   faults, restarted, replaced, refused>>

\* What the work pools of two ending sessions leave: they may stop, or go on.
Leftover(l, ending) ==
    {{d \in l : d.at = "buffered" => d.session \notin gone} : gone \in SUBSET ending}

\* Mutant: without Dispose: what the old channel has not acknowledged stays outstanding.
CallbackExceptionUndisposed(d) ==
    /\ d.at = "callback"
    /\ \E l \in Leftover(local \ {d}, {d.session}) :
          /\ local' = l
          /\ \/ /\ Unused(l) # {}
                /\ session' = CHOOSE s \in Unused(l) : TRUE
                /\ channel' = [NewChannel(TRUE) EXCEPT !.unacked = channel.unacked]
                /\ replaced' = TRUE
                /\ UNCHANGED refused
             \/ ~refused /\ refused' = TRUE /\ UNCHANGED <<channel, session, replaced>>
    /\ UNCHANGED <<startupVars, published, queue, orphans, ended, unheard, again, taken,
                   faults, restarted>>

\* The exception has left Consumer_Received: CallbackException disposes the channel of the
\* moment, creates one and starts one consumer.  Creating it fails when the broker cannot
\* be reached for as long as TryConnect retries; the disposed channel then stays.
CallbackException(d) ==
    /\ d.at = "callback"
    /\ queue' = queue \cup Waiting(channel)
    /\ \E l \in Leftover(local \ {d}, {session, d.session}) :
          /\ local' = l
          /\ \/ /\ Unused(l) # {}
                /\ session' = CHOOSE s \in Unused(l) : TRUE
                /\ channel' = NewChannel(TRUE)
                /\ replaced' = TRUE
                /\ UNCHANGED refused
             \/ /\ ~refused
                /\ channel' = [channel EXCEPT !.state = "closed", !.unacked = {},
                                              !.consuming = FALSE]
                /\ refused' = TRUE
                /\ UNCHANGED <<session, replaced>>
    /\ UNCHANGED <<startupVars, published, orphans, ended, unheard, again, taken,
                   faults, restarted>>

-----------------------------------------------------------------------------
(* Connections *)

\* The connection is lost under the consumer channel.
ConnectionLost ==
    /\ channel.state = "open" /\ faults < MaxFaults
    /\ faults' = faults + 1
    /\ channel' = [channel EXCEPT !.state = "lost", !.unacked = {}]
    /\ orphans' = orphans \cup Waiting(channel)
    /\ local' \in Leftover(local, {session})
    /\ UNCHANGED <<startupVars, published, queue, session, ended, unheard, again, taken,
                   restarted, replaced, refused>>

\* The client library recovers the connection, the channel and its consumers.
Recover ==
    /\ channel.state = "lost" /\ Unused(local) # {}
    /\ channel' = [channel EXCEPT !.state = "open", !.offset = channel.tag]
    /\ session' = CHOOSE s \in Unused(local) : TRUE
    /\ UNCHANGED <<brokerVars, known, call, stage, local, historyVars>>

-----------------------------------------------------------------------------
(* The specification *)

Subscribe == Bind \/ AddSubscription \/ StartBasicConsume \/ StartupFails

\* The work pool of session s at work.
Consumer_Received(s) ==
    \E d \in local : /\ d.session = s
                      /\ (ProcessEvent(d) \/ BasicAck(d) \/ CallbackException(d))

Next ==
    \/ \E e \in Events : Publish(e)
    \/ Deliver \/ Requeue
    \/ Subscribe \/ Restart
    \/ \E s \in Sessions : Consumer_Received(s)
    \/ ConnectionLost \/ Recover

\* The process runs, the broker delivers and sees a dead session end, the client library
\* recovers; nobody has to publish and nothing has to fail.
Fairness ==
    /\ WF_vars(Subscribe)
    /\ \A s \in Sessions : WF_vars(Consumer_Received(s))
    /\ WF_vars(Deliver) /\ WF_vars(Requeue) /\ WF_vars(Recover)

Spec == Init /\ [][Next]_vars /\ Fairness

-----------------------------------------------------------------------------
(* Properties *)

\* What is outstanding on a channel has a tag of that channel.
TagsInOrder(c) == c.offset <= c.tag /\ \A u \in c.unacked : u[1] <= c.tag

TypeOK ==
    /\ published \in Seq(Events) /\ Len(published) <= MaxMessages
    /\ queue \subseteq 1..Len(published) /\ orphans \subseteq 1..Len(published)
    /\ bound \subseteq Events
    /\ known \in [Events -> Known]
    /\ call \in 1..(Len(Calls) + 1) /\ stage \in Lines
    /\ channel \in Channel /\ session \in Sessions
    /\ TagsInOrder(channel)
    /\ Waiting(channel) \subseteq 1..Len(published)
    /\ local \subseteq Delivery
    /\ \A d \in local : d.msg \in 1..Len(published)
    /\ \A s \in {ended, unheard, again, taken} : s \subseteq 1..Len(published)
    /\ faults \in 0..MaxFaults
    /\ restarted \in BOOLEAN /\ replaced \in BOOLEAN /\ refused \in BOOLEAN

\* "Even on exception we take the message off the queue" (EventBusRabbitMQ.cs:213), and
\* never before its handlers have run to an end: every way a run can end removes the
\* message.  After CallbackException has replaced a channel this is over: the tag of an
\* old delivery can acknowledge a message nobody has seen.
Delivered == INSTANCE EventDelivery WITH
    sent    <- 1..Len(published),
    done    <- ended,
    off     <- taken,
    excused <- IF replaced THEN Messages ELSE {}

DeliveryPromise == Delivered!Spec

\* The binding comes before the handler and the first Subscribe starts the consumer, so a
\* message can meet a name that is not registered yet, and is acknowledged.  In the first
\* process of a service this cannot happen to the name that is subscribed first: nothing
\* is consumed before its registration is complete.
FirstCallIsHeard ==
    \A m \in DOMAIN published :
        published[m] = Calls[1] /\ m \in unheard => restarted

\* However many consumers the Subscribe calls have started on the channel, and whatever
\* the handlers throw, a message is run twice only after something has failed.
OnceWithoutFaults == again # {} => faults > 0

\* The service goes deaf, with messages in its queue and a broker that runs, only by way
\* of CallbackException: no acknowledgement makes the broker close the channel before a
\* channel has been replaced, recovered connections and redeliveries included.
NotDeafByItself == channel.state = "closed" => replaced \/ refused

\* Nothing is at work that could still replace a closed channel.
Deaf == channel.state = "closed" /\ local = {}

CallbackExceptions == \E d \in local : CallbackException(d)

\* A message in the queue is taken off it, whatever its handlers do and whatever
\* connections are lost, unless the service has gone deaf or CallbackException never comes
\* to an end: a leftover delivery of an old session closes the new channel, and the next
\* one, for ever.
QueueDrains ==
    <>[][~CallbackExceptions]_vars
        => \A m \in Messages : m \in queue ~> m \in taken \/ Deaf
==============================================================================
