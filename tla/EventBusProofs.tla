---------------------------- MODULE EventBusProofs ----------------------------
(***************************************************************************)
(* The event bus over RabbitMQ: its safety properties for any events,      *)
(* Subscribe calls, sessions, numbers of messages and faults.              *)
(***************************************************************************)
EXTENDS EventBusRabbitMQ, TLAPS

-----------------------------------------------------------------------------
(* Types *)

\* Publishing adds one message behind those that are there.
LEMMA PublishedGrows ==
    ASSUME published \in Seq(Events), NEW e \in Events, published' = Append(published, e)
    PROVE  /\ published' \in Seq(Events)
           /\ Len(published) \in Nat /\ Len(published') = Len(published) + 1
           /\ \A m \in 1..Len(published) : m \in 1..Len(published')
                                           /\ published'[m] = published[m]
  OBVIOUS

\* The end of a line of Startup leads to a line.
LEMMA AdvanceType ==
    ASSUME call \in DOMAIN Calls, stage \in Lines, Advance
    PROVE  call' \in 1..(Len(Calls) + 1) /\ stage' \in Lines
PROOF
  <1>1. Calls \in Seq(Events) /\ Len(Calls) \in Nat /\ call \in 1..Len(Calls)
    BY EventBusAssumption
  <1> QED
    BY <1>1 DEF Advance, Following, Lines

\* A channel that has just been made.
LEMMA NewChannelType ==
    ASSUME NEW b \in BOOLEAN
    PROVE  /\ NewChannel(b) \in Channel /\ Waiting(NewChannel(b)) = {}
           /\ NewChannel(b).state = "open" /\ NewChannel(b).unacked = {}
           /\ NewChannel(b).consuming = b /\ NewChannel(b).tag = 0 /\ NewChannel(b).offset = 0
           /\ TagsInOrder(NewChannel(b))
  BY DEF NewChannel, Channel, Waiting, TagsInOrder

LEMMA ClosedType ==
    ASSUME channel \in Channel,
           channel' = [channel EXCEPT !.state = "closed", !.unacked = {}, !.consuming = FALSE]
    PROVE  channel' \in Channel /\ Waiting(channel') = {} /\ channel'.state = "closed"
           /\ channel'.unacked = {} /\ channel'.tag = channel.tag
           /\ channel'.offset = channel.offset /\ channel'.consuming = FALSE
  BY DEF Channel, Waiting

LEMMA TagsKept ==
    ASSUME TagsInOrder(channel), channel'.tag = channel.tag, channel'.offset = channel.offset,
           channel'.unacked \subseteq channel.unacked
    PROVE  TagsInOrder(channel')
  BY DEF TagsInOrder

\* Of the deliveries in the client some may be dropped, and none is new.
LEMMA LeftoverSubset ==
    ASSUME NEW l, NEW ending, NEW k \in Leftover(l, ending)
    PROVE  k \subseteq l
  BY DEF Leftover

LEMMA NewProcessType ==
    ASSUME TypeOK, NewProcess
    PROVE  /\ orphans' \subseteq 1..Len(published) /\ known' \in [Events -> Known]
           /\ call' \in 1..(Len(Calls) + 1) /\ stage' \in Lines
           /\ channel' \in Channel /\ Waiting(channel') = {} /\ local' = {} /\ restarted' = TRUE
           /\ TagsInOrder(channel')
  <1>1. Len(Calls) \in Nat
    BY EventBusAssumption
  <1>2. channel' \in Channel /\ Waiting(channel') = {} /\ TagsInOrder(channel')
    BY NewChannelType DEF NewProcess
  <1>3. orphans' \subseteq 1..Len(published)
    BY DEF NewProcess, TypeOK
  <1>4. known' \in [Events -> Known]
    BY DEF NewProcess, Known
  <1>5. call' \in 1..(Len(Calls) + 1) /\ stage' \in Lines
    BY <1>1 DEF NewProcess, Lines
  <1>6. local' = {} /\ restarted' = TRUE
    BY DEF NewProcess
  <1> QED
    BY <1>2, <1>3, <1>4, <1>5, <1>6

LEMMA TypeInit == Init => TypeOK
PROOF
  <1> SUFFICES ASSUME Init PROVE TypeOK
    OBVIOUS
  <1>1. Len(Calls) \in Nat /\ MaxFaults \in Nat /\ MaxMessages \in Nat
    BY EventBusAssumption
  <1>2. session \in Sessions
    BY EventBusAssumption DEF Init
  <1>3. published \in Seq(Events) /\ Len(published) = 0
    BY DEF Init
  <1>4. channel \in Channel /\ Waiting(channel) = {} /\ TagsInOrder(channel)
    BY NewChannelType DEF Init
  <1>5. call \in 1..(Len(Calls) + 1) /\ stage \in Lines
    BY <1>1 DEF Init, Lines
  <1>6. known \in [Events -> Known] /\ bound \subseteq Events
    BY DEF Init, Known
  <1>7. faults \in 0..MaxFaults
    BY <1>1 DEF Init
  <1>8. restarted \in BOOLEAN /\ replaced \in BOOLEAN /\ refused \in BOOLEAN
    BY DEF Init
  <1>9. /\ local \subseteq Delivery
        /\ \A d \in local : d.msg \in 1..Len(published)
        /\ \A s \in {ended, unheard, again, taken} : s \subseteq 1..Len(published)
        /\ queue \subseteq 1..Len(published) /\ orphans \subseteq 1..Len(published)
    BY DEF Init
  <1> QED
    BY <1>1, <1>2, <1>3, <1>4, <1>5, <1>6, <1>7, <1>8, <1>9 DEF TypeOK

\* TypeOK in four parts, of which a step disturbs few.
BrokerType ==
    /\ published \in Seq(Events) /\ Len(published) <= MaxMessages
    /\ queue \subseteq 1..Len(published) /\ orphans \subseteq 1..Len(published)
StartupType ==
    /\ bound \subseteq Events /\ known \in [Events -> Known]
    /\ call \in 1..(Len(Calls) + 1) /\ stage \in Lines
ClientType ==
    /\ channel \in Channel /\ session \in Sessions
    /\ TagsInOrder(channel)
    /\ Waiting(channel) \subseteq 1..Len(published)
    /\ local \subseteq Delivery
    /\ \A d \in local : d.msg \in 1..Len(published)
HistoryType ==
    /\ \A s \in {ended, unheard, again, taken} : s \subseteq 1..Len(published)
    /\ faults \in 0..MaxFaults
    /\ restarted \in BOOLEAN /\ replaced \in BOOLEAN /\ refused \in BOOLEAN

LEMMA TypeParts ==
    /\ TypeOK <=> BrokerType /\ StartupType /\ ClientType /\ HistoryType
    /\ TypeOK' <=> BrokerType' /\ StartupType' /\ ClientType' /\ HistoryType'
  BY Zenon DEF TypeOK, BrokerType, StartupType, ClientType, HistoryType

\* The parts that a step leaves alone.
LEMMA BrokerSame ==
    BrokerType /\ UNCHANGED <<published, queue, orphans>> => BrokerType'
  BY DEF BrokerType
LEMMA StartupSame ==
    StartupType /\ UNCHANGED <<bound, known, call, stage>> => StartupType'
  BY DEF StartupType
LEMMA ClientSame ==
    ClientType /\ UNCHANGED <<published, channel, session, local>> => ClientType'
  BY DEF ClientType
LEMMA HistorySame ==
    HistoryType /\ UNCHANGED <<published, historyVars>> => HistoryType'
  BY DEF HistoryType, historyVars

LEMMA TypePublish ==
    ASSUME TypeOK, NEW e \in Events, Publish(e)
    PROVE  TypeOK'
PROOF
  <1>1. BrokerType /\ StartupType /\ ClientType /\ HistoryType
    BY TypeParts
  <1>2. /\ published' = Append(published, e) /\ Len(published) < MaxMessages
        /\ queue' \subseteq queue \cup {Len(published) + 1}
        /\ UNCHANGED <<bound, known, call, stage>> /\ UNCHANGED <<orphans, channel, session, local>>
        /\ UNCHANGED historyVars
    BY DEF Publish, startupVars
  <1>3. /\ published' \in Seq(Events)
        /\ Len(published) \in Nat /\ Len(published') = Len(published) + 1
    BY <1>1, <1>2, PublishedGrows DEF BrokerType
  <1>4. BrokerType'
    BY <1>1, <1>2, <1>3, EventBusAssumption DEF BrokerType
  <1>5. StartupType'
    BY <1>1, <1>2, StartupSame
  <1>6. ClientType'
    <2>1. Waiting(channel') = Waiting(channel) /\ TagsInOrder(channel') = TagsInOrder(channel)
      BY <1>2
    <2> QED
      BY <1>1, <1>2, <1>3, <2>1 DEF ClientType
  <1>7. HistoryType'
    BY <1>1, <1>2, <1>3 DEF HistoryType, historyVars
  <1> QED
    BY <1>4, <1>5, <1>6, <1>7, TypeParts

LEMMA TypeDeliver ==
    ASSUME TypeOK, Deliver
    PROVE  TypeOK'
PROOF
  <1>1. BrokerType /\ StartupType /\ ClientType /\ HistoryType
    BY TypeParts
  <1>2. PICK m \in queue :
          /\ queue' = queue \ {m}
          /\ channel' = [channel EXCEPT !.tag = @ + 1,
                                        !.unacked = @ \cup {<<channel.tag + 1, m>>}]
          /\ local' = local \cup {[session |-> session, tag |-> channel.tag + 1,
                                   msg |-> m, at |-> "buffered"]}
    BY DEF Deliver
  <1>3. /\ UNCHANGED <<bound, known, call, stage>> /\ UNCHANGED <<published, orphans, session>>
        /\ UNCHANGED historyVars
    BY DEF Deliver, startupVars
  <1>4. m \in Messages /\ m \in 1..Len(published)
    BY <1>1, EventBusAssumption DEF BrokerType, Messages
  <1>5. channel.tag \in Nat /\ channel.unacked \in SUBSET (Nat \X Messages)
    BY <1>1 DEF ClientType, Channel
  <1>6. BrokerType'
    BY <1>1, <1>2, <1>3 DEF BrokerType
  <1>7. ClientType'
    <2>1. channel' \in Channel
      <3>1. channel.unacked \cup {<<channel.tag + 1, m>>} \in SUBSET (Nat \X Messages)
        BY <1>4, <1>5
      <3>2. channel.tag + 1 \in Nat /\ channel \in Channel
        BY <1>1, <1>5 DEF ClientType
      <3> QED
        BY <1>2, <3>1, <3>2 DEF Channel
    <2>t. TagsInOrder(channel')
      BY <1>1, <1>2, <1>5 DEF TagsInOrder, ClientType, Channel
    <2>2. Waiting(channel') \subseteq Waiting(channel) \cup {m}
      BY <1>1, <1>2 DEF Waiting, ClientType, Channel
    <2>3. [session |-> session, tag |-> channel.tag + 1, msg |-> m, at |-> "buffered"] \in Delivery
      BY <1>1, <1>4, <1>5 DEF Delivery, ClientType
    <2> QED
      BY <1>1, <1>2, <1>3, <1>4, <2>1, <2>2, <2>3, <2>t DEF ClientType
  <1> QED
    BY <1>1, <1>3, <1>6, <1>7, StartupSame, HistorySame, TypeParts

LEMMA TypeStartup ==
    ASSUME TypeOK, Bind \/ AddSubscription \/ StartBasicConsume
    PROVE  TypeOK'
PROOF
  <1>1. BrokerType /\ StartupType /\ ClientType /\ HistoryType
    BY TypeParts
  <1>2. Calls \in Seq(Events)
    BY EventBusAssumption
  <1>3. \A c \in DOMAIN Calls : Calls[c] \in Events
    BY <1>2
  <1>4. CASE Bind
    <2>1. call \in DOMAIN Calls /\ Advance
      BY <1>4 DEF Bind, AtLine
    <2>2. call' \in 1..(Len(Calls) + 1) /\ stage' \in Lines
      BY <1>1, <2>1, AdvanceType DEF StartupType
    <2>3. bound' \subseteq Events /\ known' = known
      BY <1>1, <1>3, <1>4, <2>1 DEF Bind, StartupType
    <2>4. StartupType'
      BY <1>1, <2>2, <2>3 DEF StartupType
    <2> QED
      BY <1>1, <1>4, <2>4, BrokerSame, ClientSame, HistorySame, TypeParts DEF Bind
  <1>5. CASE AddSubscription
    <2>1. PICK l \in {"list", "handler", "type"} :
            /\ AtLine(l)
            /\ known' = [known EXCEPT ![Calls[call]] =
                            CASE l = "list"    -> "empty"
                              [] l = "handler" -> "untyped"
                              [] l = "type"    -> "ready"]
      BY <1>5 DEF AddSubscription
    <2>2. call \in DOMAIN Calls /\ Advance /\ bound' = bound
      BY <1>5, <2>1 DEF AddSubscription, AtLine, brokerVars
    <2>3. call' \in 1..(Len(Calls) + 1) /\ stage' \in Lines
      BY <1>1, <2>2, AdvanceType DEF StartupType
    <2>4. known' \in [Events -> Known]
      BY <1>1, <1>3, <2>1, <2>2 DEF StartupType, Known
    <2>5. StartupType'
      BY <1>1, <2>2, <2>3, <2>4 DEF StartupType
    <2> QED
      BY <1>1, <1>5, <2>5, BrokerSame, ClientSame, HistorySame, TypeParts
      DEF AddSubscription, brokerVars
  <1>6. CASE StartBasicConsume
    <2>1. call \in DOMAIN Calls /\ Advance /\ UNCHANGED <<bound, known>>
      BY <1>6 DEF StartBasicConsume, AtLine, brokerVars
    <2>2. call' \in 1..(Len(Calls) + 1) /\ stage' \in Lines
      BY <1>1, <2>1, AdvanceType DEF StartupType
    <2>3. StartupType'
      BY <1>1, <2>1, <2>2 DEF StartupType
    <2>4. channel' \in Channel /\ Waiting(channel') = Waiting(channel) /\ TagsInOrder(channel')
      BY <1>1, <1>6 DEF StartBasicConsume, Channel, Waiting, ClientType, TagsInOrder
    <2>5. ClientType'
      BY <1>1, <1>6, <2>4 DEF StartBasicConsume, ClientType, brokerVars
    <2> QED
      BY <1>1, <1>6, <2>3, <2>5, BrokerSame, HistorySame, TypeParts
      DEF StartBasicConsume, brokerVars
  <1> QED
    BY <1>4, <1>5, <1>6

LEMMA TypeNewProcess ==
    ASSUME TypeOK, NewProcess, faults' \in 0..MaxFaults
    PROVE  TypeOK'
PROOF
  <1>1. BrokerType /\ StartupType /\ ClientType /\ HistoryType
    BY TypeParts
  <1>2. UNCHANGED <<published, queue, bound, session, ended, unheard, again, taken>>
        /\ UNCHANGED <<replaced, refused>>
    BY DEF NewProcess
  <1>3. BrokerType' /\ StartupType' /\ ClientType'
    BY <1>1, <1>2, NewProcessType DEF BrokerType, StartupType, ClientType
  <1>4. restarted' \in BOOLEAN
    BY NewProcessType
  <1>5. replaced' \in BOOLEAN /\ refused' \in BOOLEAN
    BY <1>1, <1>2 DEF HistoryType
  <1>6. HistoryType'
    BY <1>1, <1>2, <1>4, <1>5 DEF HistoryType
  <1> QED
    BY <1>3, <1>6, TypeParts

LEMMA TypeRequeue ==
    ASSUME TypeOK, Requeue
    PROVE  TypeOK'
PROOF
  <1>1. BrokerType /\ StartupType /\ ClientType /\ HistoryType
    BY TypeParts
  <1>2. PICK m \in orphans : orphans' = orphans \ {m} /\ queue' = queue \cup {m}
    BY DEF Requeue
  <1>3. /\ UNCHANGED <<bound, known, call, stage>> /\ UNCHANGED <<published, channel, session, local>>
        /\ UNCHANGED historyVars
    BY DEF Requeue, startupVars
  <1>4. BrokerType'
    BY <1>1, <1>2, <1>3 DEF BrokerType
  <1> QED
    BY <1>1, <1>3, <1>4, StartupSame, ClientSame, HistorySame, TypeParts

LEMMA TypeProcessEvent ==
    ASSUME TypeOK, NEW d \in local, ProcessEvent(d)
    PROVE  TypeOK'
PROOF
  <1>1. BrokerType /\ StartupType /\ ClientType /\ HistoryType
    BY TypeParts
  <1>2. /\ local' = (local \ {d}) \cup {[d EXCEPT !.at = "ack"]}
        /\ unheard' \subseteq unheard \cup {d.msg}
        /\ ended' = ended \cup {d.msg}
        /\ again' = again \cup (ended \cap {d.msg})
        /\ UNCHANGED <<bound, known, call, stage>>
        /\ UNCHANGED <<published, queue, orphans, channel, session, taken, faults>>
        /\ UNCHANGED <<restarted, replaced, refused>>
    BY DEF ProcessEvent, brokerVars
  <1>3. d \in Delivery /\ d.msg \in 1..Len(published)
    BY <1>1 DEF ClientType
  <1>4. [d EXCEPT !.at = "ack"] \in Delivery /\ [d EXCEPT !.at = "ack"].msg = d.msg
    BY <1>3 DEF Delivery
  <1>5. Waiting(channel') = Waiting(channel) /\ TagsInOrder(channel') = TagsInOrder(channel)
    BY <1>2
  <1>6. ClientType'
    BY <1>1, <1>2, <1>3, <1>4, <1>5 DEF ClientType
  <1>7. restarted' \in BOOLEAN /\ replaced' \in BOOLEAN /\ refused' \in BOOLEAN
    BY <1>1, <1>2 DEF HistoryType
  <1>8. \A s \in {ended', unheard', again', taken'} : s \subseteq 1..Len(published')
    BY <1>1, <1>2, <1>3 DEF HistoryType
  <1>9. HistoryType'
    BY <1>1, <1>2, <1>7, <1>8 DEF HistoryType
  <1> QED
    BY <1>1, <1>2, <1>6, <1>9, BrokerSame, StartupSame, TypeParts

\* The four ways BasicAck ends.
LEMMA AckCases ==
    ASSUME NEW d \in local, BasicAck(d)
    PROVE  /\ d.at = "ack"
           /\ UNCHANGED <<bound, known, call, stage>>
           /\ UNCHANGED <<published, orphans, session, ended, unheard, again, faults>>
           /\ UNCHANGED <<restarted, replaced, refused>>
           /\ \/ /\ channel.state # "open"
                 /\ local' = (local \ {d}) \cup {[d EXCEPT !.at = "callback"]}
                 /\ UNCHANGED <<queue, channel, taken>>
              \/ /\ channel.state = "open" /\ local' = local \ {d}
                 /\ d.tag <= channel.offset /\ UNCHANGED <<queue, channel, taken>>
              \/ /\ channel.state = "open" /\ local' = local \ {d}
                 /\ d.tag > channel.offset /\ UNCHANGED queue
                 /\ \E m \in Messages :
                       /\ <<d.tag, m>> \in channel.unacked
                       /\ channel' = [channel EXCEPT !.unacked = @ \ {<<d.tag, m>>}]
                       /\ taken' = taken \cup {m}
              \/ /\ channel.state = "open" /\ local' = local \ {d}
                 /\ d.tag > channel.offset
                 /\ \A m \in Messages : <<d.tag, m>> \notin channel.unacked
                 /\ channel' = [channel EXCEPT !.state = "closed", !.unacked = {},
                                               !.consuming = FALSE]
                 /\ queue' = queue \cup Waiting(channel)
                 /\ UNCHANGED taken
  BY Zenon DEF BasicAck, startupVars

LEMMA Acknowledged ==
    ASSUME channel \in Channel, NEW x, channel' = [channel EXCEPT !.unacked = @ \ {x}]
    PROVE  /\ channel' \in Channel /\ Waiting(channel') \subseteq Waiting(channel)
           /\ channel'.state = channel.state /\ channel'.tag = channel.tag
           /\ channel'.offset = channel.offset /\ channel'.consuming = channel.consuming
           /\ channel'.unacked = channel.unacked \ {x}
  BY DEF Channel, Waiting

LEMMA TypeBasicAck ==
    ASSUME TypeOK, NEW d \in local, BasicAck(d)
    PROVE  TypeOK'
PROOF
  <1>1. BrokerType /\ StartupType /\ ClientType /\ HistoryType
    BY TypeParts
  <1>2. /\ UNCHANGED <<bound, known, call, stage>>
        /\ UNCHANGED <<published, orphans, session, ended, unheard, again, faults>>
        /\ UNCHANGED <<restarted, replaced, refused>>
    BY AckCases
  <1>3. d \in Delivery /\ d.msg \in 1..Len(published)
    BY <1>1 DEF ClientType
  <1>4. [d EXCEPT !.at = "callback"] \in Delivery /\ [d EXCEPT !.at = "callback"].msg = d.msg
    BY <1>3 DEF Delivery
  <1>5. \A e \in local' : e \in Delivery /\ e.msg \in 1..Len(published)
    <2>1. local' = (local \ {d}) \cup {[d EXCEPT !.at = "callback"]} \/ local' = local \ {d}
      BY AckCases
    <2> QED
      BY <1>1, <1>4, <2>1 DEF ClientType
  <1>6. /\ queue' \subseteq 1..Len(published) /\ taken' \subseteq 1..Len(published)
        /\ channel' \in Channel /\ Waiting(channel') \subseteq 1..Len(published)
        /\ TagsInOrder(channel')
    <2>1. CASE UNCHANGED <<queue, channel, taken>>
      BY <1>1, <2>1 DEF BrokerType, ClientType, HistoryType
    <2>2. ASSUME NEW m \in Messages,
                 <<d.tag, m>> \in channel.unacked, UNCHANGED queue,
                 channel' = [channel EXCEPT !.unacked = @ \ {<<d.tag, m>>}],
                 taken' = taken \cup {m}
          PROVE  /\ queue' \subseteq 1..Len(published) /\ taken' \subseteq 1..Len(published)
                 /\ channel' \in Channel /\ Waiting(channel') \subseteq 1..Len(published)
                 /\ TagsInOrder(channel')
      <3>1. m \in Waiting(channel)
        BY <2>2 DEF Waiting
      <3>2. TagsInOrder(channel')
        BY <1>1, <2>2, Acknowledged, TagsKept DEF ClientType
      <3> QED
        BY <1>1, <2>2, <3>1, <3>2, Acknowledged DEF BrokerType, ClientType, HistoryType
    <2>3. CASE /\ channel' = [channel EXCEPT !.state = "closed", !.unacked = {},
                                             !.consuming = FALSE]
               /\ queue' = queue \cup Waiting(channel)
               /\ UNCHANGED taken
      <3>1. TagsInOrder(channel')
        BY <1>1, <2>3, ClosedType, TagsKept DEF ClientType
      <3> QED
        BY <1>1, <2>3, <3>1, ClosedType DEF BrokerType, ClientType, HistoryType
    <2> QED
      BY <2>1, <2>2, <2>3, AckCases
  <1>7. restarted' \in BOOLEAN /\ replaced' \in BOOLEAN /\ refused' \in BOOLEAN
    BY <1>1, <1>2 DEF HistoryType
  <1>8. BrokerType' /\ ClientType'
    BY <1>1, <1>2, <1>5, <1>6 DEF BrokerType, ClientType
  <1>9. HistoryType'
    BY <1>1, <1>2, <1>6, <1>7 DEF HistoryType
  <1> QED
    BY <1>1, <1>2, <1>8, <1>9, StartupSame, TypeParts

\* The two ways CallbackException ends.
LEMMA CallbackCases ==
    ASSUME NEW d \in local, CallbackException(d)
    PROVE  /\ d.at = "callback"
           /\ UNCHANGED <<bound, known, call, stage>>
           /\ UNCHANGED <<published, orphans, ended, unheard, again, taken, faults, restarted>>
           /\ queue' = queue \cup Waiting(channel)
           /\ local' \subseteq local \ {d}
           /\ \/ /\ session' \in Sessions /\ channel' = NewChannel(TRUE)
                 /\ replaced' = TRUE /\ UNCHANGED refused
                 /\ \A e \in local' : e.session # session'
              \/ /\ channel' = [channel EXCEPT !.state = "closed", !.unacked = {},
                                               !.consuming = FALSE]
                 /\ refused' = TRUE /\ UNCHANGED <<session, replaced>>
PROOF
  <1>1. PICK l \in Leftover(local \ {d}, {session, d.session}) :
          /\ local' = l
          /\ \/ /\ Unused(l) # {}
                /\ session' = CHOOSE s \in Unused(l) : TRUE
                /\ channel' = NewChannel(TRUE)
                /\ replaced' = TRUE
                /\ UNCHANGED refused
             \/ /\ ~refused
                /\ channel' = [channel EXCEPT !.state = "closed", !.unacked = {},
                                              !.consuming = FALSE]
                /\ refused' = TRUE
                /\ UNCHANGED <<session, replaced>>
    BY Zenon DEF CallbackException
  <1>2. local' \subseteq local \ {d}
    BY <1>1, LeftoverSubset
  <1>3. ASSUME Unused(l) # {}, session' = CHOOSE s \in Unused(l) : TRUE
        PROVE  session' \in Sessions /\ \A e \in local' : e.session # session'
    BY <1>1, <1>3 DEF Unused
  <1> QED
    BY <1>1, <1>2, <1>3, Zenon DEF CallbackException, startupVars

LEMMA TypeCallbackException ==
    ASSUME TypeOK, NEW d \in local, CallbackException(d)
    PROVE  TypeOK'
PROOF
  <1>1. BrokerType /\ StartupType /\ ClientType /\ HistoryType
    BY TypeParts
  <1>2. /\ UNCHANGED <<bound, known, call, stage>>
        /\ UNCHANGED <<published, orphans, ended, unheard, again, taken, faults, restarted>>
        /\ queue' = queue \cup Waiting(channel)
        /\ local' \subseteq local
    BY CallbackCases
  <1>3. BrokerType'
    BY <1>1, <1>2 DEF BrokerType, ClientType
  <1>4. /\ channel' \in Channel /\ Waiting(channel') = {} /\ session' \in Sessions
    BY <1>1, CallbackCases, NewChannelType, ClosedType DEF ClientType
  <1>t. TagsInOrder(channel')
    <2>1. CASE channel' = NewChannel(TRUE)
      BY <2>1, NewChannelType
    <2>2. CASE channel' = [channel EXCEPT !.state = "closed", !.unacked = {}, !.consuming = FALSE]
      BY <1>1, <2>2, ClosedType, TagsKept DEF ClientType
    <2> QED
      BY <2>1, <2>2, CallbackCases
  <1>5. replaced' \in BOOLEAN /\ refused' \in BOOLEAN
    BY <1>1, CallbackCases, Zenon DEF HistoryType
  <1>6. ClientType'
    BY <1>1, <1>2, <1>4, <1>t DEF ClientType
  <1>7. restarted' \in BOOLEAN
    BY <1>1, <1>2 DEF HistoryType
  <1>8. HistoryType'
    BY <1>1, <1>2, <1>5, <1>7 DEF HistoryType
  <1> QED
    BY <1>1, <1>2, <1>3, <1>6, <1>8, StartupSame, TypeParts

\* The connection is lost.
LEMMA LostType ==
    ASSUME channel \in Channel, channel' = [channel EXCEPT !.state = "lost", !.unacked = {}]
    PROVE  /\ channel' \in Channel /\ Waiting(channel') = {} /\ channel'.state = "lost"
           /\ channel'.unacked = {} /\ channel'.tag = channel.tag
           /\ channel'.offset = channel.offset /\ channel'.consuming = channel.consuming
  BY DEF Channel, Waiting

LEMMA TypeConnectionLost ==
    ASSUME TypeOK, ConnectionLost
    PROVE  TypeOK'
PROOF
  <1>1. BrokerType /\ StartupType /\ ClientType /\ HistoryType
    BY TypeParts
  <1>2. /\ faults < MaxFaults /\ faults' = faults + 1
        /\ channel' = [channel EXCEPT !.state = "lost", !.unacked = {}]
        /\ orphans' = orphans \cup Waiting(channel)
        /\ local' \subseteq local
        /\ UNCHANGED <<bound, known, call, stage>>
        /\ UNCHANGED <<published, queue, session, ended, unheard, again, taken>>
        /\ UNCHANGED <<restarted, replaced, refused>>
    BY LeftoverSubset DEF ConnectionLost, startupVars
  <1>3. BrokerType'
    BY <1>1, <1>2 DEF BrokerType, ClientType
  <1>t. TagsInOrder(channel')
    BY <1>1, <1>2, LostType, TagsKept DEF ClientType
  <1>4. ClientType'
    BY <1>1, <1>2, <1>t, LostType DEF ClientType
  <1>5. restarted' \in BOOLEAN /\ replaced' \in BOOLEAN /\ refused' \in BOOLEAN
    BY <1>1, <1>2 DEF HistoryType
  <1>6. faults' \in 0..MaxFaults
    BY <1>1, <1>2, EventBusAssumption DEF HistoryType
  <1>7. HistoryType'
    BY <1>1, <1>2, <1>5, <1>6 DEF HistoryType
  <1> QED
    BY <1>1, <1>2, <1>3, <1>4, <1>7, StartupSame, TypeParts

LEMMA RecoverType ==
    ASSUME channel \in Channel, Recover
    PROVE  /\ channel' \in Channel /\ Waiting(channel') = Waiting(channel)
           /\ channel.state = "lost" /\ channel'.state = "open" /\ session' \in Sessions
           /\ channel'.tag = channel.tag /\ channel'.offset = channel.tag
           /\ channel'.unacked = channel.unacked /\ channel'.consuming = channel.consuming
PROOF
  <1>1. session' \in Sessions
    BY DEF Recover, Unused
  <1> QED
    BY <1>1 DEF Recover, Channel, Waiting

LEMMA TypeRecover ==
    ASSUME TypeOK, Recover
    PROVE  TypeOK'
PROOF
  <1>1. BrokerType /\ StartupType /\ ClientType /\ HistoryType
    BY TypeParts
  <1>2. /\ UNCHANGED <<published, queue, bound, orphans>> /\ UNCHANGED <<known, call, stage>>
        /\ UNCHANGED local /\ UNCHANGED historyVars
    BY DEF Recover, brokerVars
  <1>t. TagsInOrder(channel')
    BY <1>1, RecoverType DEF ClientType, Channel, TagsInOrder
  <1>3. ClientType'
    BY <1>1, <1>2, <1>t, RecoverType DEF ClientType
  <1> QED
    BY <1>1, <1>2, <1>3, BrokerSame, StartupSame, HistorySame, TypeParts

LEMMA TypeStep ==
    ASSUME TypeOK, [Next]_vars
    PROVE  TypeOK'
PROOF
  <1>1. CASE UNCHANGED vars
    BY <1>1, TypeParts, BrokerSame, StartupSame, ClientSame, HistorySame DEF vars
  <1>2. ASSUME NEW e \in Events, Publish(e) PROVE TypeOK'
    BY <1>2, TypePublish
  <1>3. CASE Deliver
    BY <1>3, TypeDeliver
  <1>4. CASE Requeue
    BY <1>4, TypeRequeue
  <1>5. CASE Subscribe
    <2>1. faults \in 0..MaxFaults
      BY DEF TypeOK
    <2> QED
      BY <1>5, <2>1, TypeStartup, TypeNewProcess DEF Subscribe, StartupFails
  <1>6. CASE Restart
    <2>1. faults' \in 0..MaxFaults
      BY <1>6, EventBusAssumption DEF TypeOK, Restart
    <2> QED
      BY <1>6, <2>1, TypeNewProcess DEF Restart
  <1>7. ASSUME NEW s \in Sessions, Consumer_Received(s) PROVE TypeOK'
    BY <1>7, TypeProcessEvent, TypeBasicAck, TypeCallbackException DEF Consumer_Received
  <1>8. CASE ConnectionLost
    BY <1>8, TypeConnectionLost
  <1>9. CASE Recover
    BY <1>9, TypeRecover
  <1> QED
    BY <1>1, <1>2, <1>3, <1>4, <1>5, <1>6, <1>7, <1>8, <1>9 DEF Next

\* Queue, channel, deliveries and history keep their types, for any number of events,
\* messages, sessions and faults: no tag outruns the channel's type and every message in
\* the client, waiting or acknowledged, is one that has been published.
THEOREM TypeCorrect == Spec => []TypeOK
  BY TypeInit, TypeStep, PTL DEF Spec

-----------------------------------------------------------------------------
(* The inductive invariant *)

\* A delivery that has left the work pool has been run.
Runs == \A d \in local : d.at # "buffered" => d.msg \in ended

\* The outstanding tags are tags of the channel, each of one message.
Tags ==
    /\ TagsInOrder(channel)
    /\ \A u, v \in channel.unacked : u[1] = v[1] => u[2] = v[2]

\* Until CallbackException replaces the channel, the tags of all deliveries in the client
\* are its tags: those above the offset are outstanding, those below are ignored.
Genuine ==
    ~replaced =>
        /\ \A d \in local : d.tag <= channel.tag
        /\ \A d, e \in local : d.tag > channel.offset /\ d.tag = e.tag => d = e
        /\ channel.state = "open" =>
              \A d \in local : d.tag > channel.offset => <<d.tag, d.msg>> \in channel.unacked

\* Until something fails, a message is at one place: in the queue, in the client or done.
OnePlace ==
    faults = 0 =>
        /\ ~replaced /\ channel.state = "open" /\ orphans = {} /\ again = {}
        /\ queue \cap ended = {}
        /\ \A d \in local : /\ d.at # "callback" /\ d.msg \notin queue
                            /\ d.at = "buffered" => d.msg \notin ended
        /\ \A d, e \in local : d.msg = e.msg => d = e

\* In the first process nothing is consumed before the first Subscribe has come to its end,
\* and the first name is registered by then.
FirstReady ==
    ~restarted =>
        /\ call > 1 \/ stage = "consume" => known[Calls[1]] = "ready"
        /\ channel.consuming \/ local # {} => call > 1

-----------------------------------------------------------------------------
(* Deliveries and tags *)

Acks == Runs /\ Tags /\ Genuine /\ NotDeafByItself

LEMMA AcksSame ==
    ASSUME Acks, UNCHANGED <<channel, local, ended, replaced, refused>>
    PROVE  Acks'
  BY Zenon DEF Acks, Runs, Tags, TagsInOrder, Genuine, NotDeafByItself

\* A channel without deliveries, whatever it is like.
LEMMA AcksEmpty ==
    ASSUME channel' \in Channel, local' = {}, channel'.unacked = {}, channel'.state = "open",
           channel'.offset = channel'.tag
    PROVE  Acks'
  BY DEF Acks, Runs, Tags, TagsInOrder, Genuine, NotDeafByItself, Channel

LEMMA AcksDeliver ==
    ASSUME TypeOK, Acks, Deliver
    PROVE  Acks'
PROOF
  <1>1. PICK m \in queue :
          /\ channel' = [channel EXCEPT !.tag = @ + 1,
                                        !.unacked = @ \cup {<<channel.tag + 1, m>>}]
          /\ local' = local \cup {[session |-> session, tag |-> channel.tag + 1,
                                   msg |-> m, at |-> "buffered"]}
    BY DEF Deliver
  <1>2. UNCHANGED ended /\ UNCHANGED replaced /\ UNCHANGED refused
    BY DEF Deliver, historyVars
  <1> DEFINE new == [session |-> session, tag |-> channel.tag + 1, msg |-> m, at |-> "buffered"]
  <1>3. /\ channel.tag \in Nat /\ channel.offset \in Nat
        /\ channel.unacked \in SUBSET (Nat \X Messages)
        /\ \A d \in local : d.tag \in Nat
    BY DEF TypeOK, Channel, Delivery
  <1>4. /\ channel'.tag = channel.tag + 1 /\ channel'.offset = channel.offset
        /\ channel'.state = channel.state
        /\ channel'.unacked = channel.unacked \cup {<<channel.tag + 1, m>>}
    BY <1>1 DEF TypeOK, Channel
  <1>5. local' = local \cup {new} /\ new.tag = channel.tag + 1 /\ new.msg = m /\ new.at = "buffered"
    BY <1>1
  <1> HIDE DEF new
  <1>6. Runs'
    BY <1>2, <1>5 DEF Acks, Runs
  <1>7. Tags'
    <2>1. \A u \in channel.unacked : u[1] \in Nat /\ u[1] <= channel.tag
      BY <1>3 DEF Acks, Tags, TagsInOrder
    <2> QED
      BY <1>3, <1>4, <2>1 DEF Acks, Tags, TagsInOrder
  <1>8. Genuine'
    <2> SUFFICES ASSUME ~replaced
                 PROVE  /\ \A d \in local' : d.tag <= channel'.tag
                        /\ \A d, e \in local' : d.tag > channel'.offset /\ d.tag = e.tag => d = e
                        /\ \A d \in local' : d.tag > channel'.offset
                              => <<d.tag, d.msg>> \in channel'.unacked
      BY <1>2 DEF Genuine
    <2>1. /\ \A d \in local : d.tag <= channel.tag
          /\ \A d, e \in local : d.tag > channel.offset /\ d.tag = e.tag => d = e
      BY DEF Acks, Genuine
    <2>2. \A d \in local : d.tag > channel.offset => <<d.tag, d.msg>> \in channel.unacked
      BY DEF Acks, Genuine, Deliver
    <2> QED
      BY <1>3, <1>4, <1>5, <2>1, <2>2
  <1>9. NotDeafByItself'
    BY <1>2, <1>4 DEF Acks, NotDeafByItself
  <1> QED
    BY <1>6, <1>7, <1>8, <1>9 DEF Acks

LEMMA AcksProcessEvent ==
    ASSUME TypeOK, Acks, NEW d \in local, ProcessEvent(d)
    PROVE  Acks'
PROOF
  <1> DEFINE new == [d EXCEPT !.at = "ack"]
  <1>1. /\ local' = (local \ {d}) \cup {new} /\ ended' = ended \cup {d.msg}
        /\ UNCHANGED channel /\ UNCHANGED replaced /\ UNCHANGED refused
    BY DEF ProcessEvent
  <1>2. new.tag = d.tag /\ new.msg = d.msg
    BY DEF TypeOK, Delivery
  <1> HIDE DEF new
  <1>3. Runs'
    BY <1>1, <1>2 DEF Acks, Runs
  <1>4. Tags' /\ NotDeafByItself'
    BY <1>1 DEF Acks, Tags, TagsInOrder, NotDeafByItself
  <1>5. Genuine'
    BY <1>1, <1>2 DEF Acks, Genuine
  <1> QED
    BY <1>3, <1>4, <1>5 DEF Acks

\* The acknowledgement of a delivery of a channel that has not been replaced is never
\* taken for an unknown tag.
LEMMA GenuineAck ==
    ASSUME TypeOK, Genuine, NEW d \in local, ~replaced, channel.state = "open",
           d.tag > channel.offset
    PROVE  d.msg \in Messages /\ <<d.tag, d.msg>> \in channel.unacked
  BY DEF TypeOK, Delivery, Genuine

LEMMA AcksBasicAck ==
    ASSUME TypeOK, Acks, NEW d \in local, BasicAck(d)
    PROVE  Acks'
PROOF
  <1> DEFINE new == [d EXCEPT !.at = "callback"]
  <1>1. UNCHANGED ended /\ UNCHANGED replaced /\ UNCHANGED refused /\ d.msg \in ended
    BY AckCases DEF Acks, Runs
  <1>2. new.tag = d.tag /\ new.msg = d.msg
    BY DEF TypeOK, Delivery
  <1>3. channel \in Channel
    BY DEF TypeOK
  <1> HIDE DEF new
  <1>4. CASE /\ channel.state # "open" /\ local' = (local \ {d}) \cup {new}
             /\ UNCHANGED <<queue, channel, taken>>
    <2>1. Runs' /\ Tags' /\ NotDeafByItself'
      BY <1>1, <1>2, <1>4 DEF Acks, Runs, Tags, TagsInOrder, NotDeafByItself
    <2>2. Genuine'
      BY <1>1, <1>2, <1>4 DEF Acks, Genuine
    <2> QED
      BY <2>1, <2>2 DEF Acks
  <1>5. CASE local' = local \ {d} /\ UNCHANGED <<queue, channel, taken>>
    BY <1>1, <1>5 DEF Acks, Runs, Tags, TagsInOrder, NotDeafByItself, Genuine
  <1>6. ASSUME NEW m \in Messages, local' = local \ {d}, d.tag > channel.offset,
               <<d.tag, m>> \in channel.unacked,
               channel' = [channel EXCEPT !.unacked = @ \ {<<d.tag, m>>}]
        PROVE  Acks'
    <2>1. /\ channel'.state = channel.state /\ channel'.tag = channel.tag
          /\ channel'.offset = channel.offset
          /\ channel'.unacked = channel.unacked \ {<<d.tag, m>>}
      BY <1>3, <1>6, Acknowledged
    <2>2. Runs' /\ Tags' /\ NotDeafByItself'
      BY <1>1, <1>6, <2>1 DEF Acks, Runs, Tags, TagsInOrder, NotDeafByItself
    <2>3. Genuine'
      <3>1. ASSUME ~replaced, NEW e \in local', e.tag > channel.offset
            PROVE  e.tag # d.tag
        BY <1>6, <3>1 DEF Acks, Genuine
      <3> QED
        BY <1>1, <1>6, <2>1, <3>1 DEF Acks, Genuine
    <2> QED
      BY <2>2, <2>3 DEF Acks
  <1>7. CASE /\ channel.state = "open" /\ local' = local \ {d}
             /\ d.tag > channel.offset
             /\ \A m \in Messages : <<d.tag, m>> \notin channel.unacked
             /\ channel' = [channel EXCEPT !.state = "closed", !.unacked = {},
                                           !.consuming = FALSE]
    <2>1. replaced
      BY <1>7, GenuineAck DEF Acks
    <2>2. Tags'
      BY <1>3, <1>7, ClosedType DEF Acks, Tags, TagsInOrder
    <2>3. Runs' /\ Genuine' /\ NotDeafByItself'
      BY <1>1, <1>7, <2>1 DEF Acks, Runs, Genuine, NotDeafByItself
    <2> QED
      BY <2>2, <2>3 DEF Acks
  <1> QED
    BY <1>4, <1>5, <1>6, <1>7, AckCases DEF new

LEMMA AcksCallbackException ==
    ASSUME TypeOK, Acks, NEW d \in local, CallbackException(d)
    PROVE  Acks'
PROOF
  <1>1. local' \subseteq local /\ UNCHANGED ended /\ channel \in Channel
    BY CallbackCases DEF TypeOK
  <1>2. Runs'
    BY <1>1 DEF Acks, Runs
  <1>3. CASE channel' = NewChannel(TRUE) /\ replaced' = TRUE
    <2>1. channel'.unacked = {} /\ channel'.tag = 0 /\ channel'.offset = 0
      BY <1>3, Zenon DEF NewChannel
    <2>2. Tags'
      BY <2>1 DEF Tags, TagsInOrder
    <2> QED
      BY <1>2, <1>3, <2>2 DEF Acks, Genuine, NotDeafByItself
  <1>4. CASE /\ channel' = [channel EXCEPT !.state = "closed", !.unacked = {},
                                           !.consuming = FALSE]
             /\ refused' = TRUE /\ UNCHANGED replaced
    <2>1. /\ channel'.unacked = {} /\ channel'.tag = channel.tag /\ channel'.state = "closed"
          /\ channel'.offset = channel.offset
      BY <1>1, <1>4, ClosedType
    <2>2. Tags' /\ NotDeafByItself'
      BY <1>4, <2>1 DEF Acks, Tags, TagsInOrder, NotDeafByItself
    <2>3. Genuine'
      BY <1>1, <1>4, <2>1 DEF Acks, Genuine
    <2> QED
      BY <1>2, <2>2, <2>3 DEF Acks
  <1> QED
    BY <1>3, <1>4, CallbackCases

LEMMA AcksStep ==
    ASSUME TypeOK, Acks, [Next]_vars
    PROVE  Acks'
PROOF
  <1>1. CASE UNCHANGED vars
    BY <1>1, AcksSame DEF vars, historyVars
  <1>2. ASSUME NEW e \in Events, Publish(e) PROVE Acks'
    BY <1>2, AcksSame DEF Publish, historyVars
  <1>3. CASE Deliver
    BY <1>3, AcksDeliver
  <1>4. CASE Requeue
    BY <1>4, AcksSame DEF Requeue, historyVars
  <1>5. CASE Bind \/ AddSubscription
    BY <1>5, AcksSame DEF Bind, AddSubscription, historyVars
  <1>6. CASE StartBasicConsume
    <2>1. /\ channel'.state = channel.state /\ channel'.tag = channel.tag
          /\ channel'.offset = channel.offset /\ channel'.unacked = channel.unacked
      BY <1>6 DEF StartBasicConsume, TypeOK, Channel
    <2>2. UNCHANGED local /\ UNCHANGED ended /\ UNCHANGED replaced /\ UNCHANGED refused
      BY <1>6 DEF StartBasicConsume, historyVars
    <2> QED
      BY <2>1, <2>2 DEF Acks, Runs, Tags, TagsInOrder, Genuine, NotDeafByItself
  <1>7. CASE NewProcess
    <2>1. channel' = NewChannel(FALSE) /\ local' = {}
      BY <1>7 DEF NewProcess
    <2> QED
      BY <2>1, NewChannelType, AcksEmpty
  <1>8. ASSUME NEW s \in Sessions, Consumer_Received(s) PROVE Acks'
    BY <1>8, AcksProcessEvent, AcksBasicAck, AcksCallbackException DEF Consumer_Received
  <1>9. CASE ConnectionLost
    <2>1. /\ channel \in Channel /\ channel' = [channel EXCEPT !.state = "lost", !.unacked = {}]
          /\ local' \subseteq local /\ UNCHANGED ended
          /\ UNCHANGED replaced /\ UNCHANGED refused
      BY <1>9, LeftoverSubset DEF ConnectionLost, TypeOK
    <2>2. Runs' /\ Tags' /\ NotDeafByItself'
      BY <2>1, LostType DEF Acks, Runs, Tags, TagsInOrder, NotDeafByItself
    <2>3. Genuine'
      BY <2>1, LostType DEF Acks, Genuine
    <2> QED
      BY <2>2, <2>3 DEF Acks
  <1>10. CASE Recover
    <2>1. /\ channel \in Channel /\ UNCHANGED local /\ UNCHANGED ended
          /\ UNCHANGED replaced /\ UNCHANGED refused
      BY <1>10 DEF Recover, TypeOK, historyVars
    <2>2. /\ channel'.state = "open" /\ channel'.tag = channel.tag
          /\ channel'.offset = channel.tag /\ channel'.unacked = channel.unacked
      BY <1>10, <2>1, RecoverType
    <2>3. channel.tag \in Nat /\ \A d \in local : d.tag \in Nat
      BY DEF TypeOK, Channel, Delivery
    <2>4. Runs' /\ Tags' /\ NotDeafByItself'
      BY <2>1, <2>2, <2>3 DEF Acks, Runs, Tags, TagsInOrder, NotDeafByItself
    <2>5. Genuine'
      BY <2>1, <2>2, <2>3 DEF Acks, Genuine
    <2> QED
      BY <2>4, <2>5 DEF Acks
  <1> QED
    BY <1>1, <1>2, <1>3, <1>4, <1>5, <1>6, <1>7, <1>8, <1>9, <1>10
    DEF Next, Subscribe, StartupFails, Restart

-----------------------------------------------------------------------------
(* Until something fails *)

LEMMA OnePlaceSame ==
    ASSUME OnePlace,
           UNCHANGED <<queue, orphans, local, ended, again, faults, replaced>>,
           channel'.state = channel.state
    PROVE  OnePlace'
  BY Zenon DEF OnePlace

LEMMA OnePlaceDeliver ==
    ASSUME TypeOK, OnePlace, Deliver
    PROVE  OnePlace'
PROOF
  <1> SUFFICES ASSUME faults' = 0 PROVE OnePlace'
    BY DEF OnePlace
  <1>1. PICK m \in queue :
          /\ queue' = queue \ {m}
          /\ channel' = [channel EXCEPT !.tag = @ + 1,
                                        !.unacked = @ \cup {<<channel.tag + 1, m>>}]
          /\ local' = local \cup {[session |-> session, tag |-> channel.tag + 1,
                                   msg |-> m, at |-> "buffered"]}
    BY DEF Deliver
  <1>2. UNCHANGED orphans /\ UNCHANGED ended /\ UNCHANGED again /\ UNCHANGED replaced
        /\ UNCHANGED faults
    BY DEF Deliver, historyVars
  <1> DEFINE new == [session |-> session, tag |-> channel.tag + 1, msg |-> m, at |-> "buffered"]
  <1>3. local' = local \cup {new} /\ new.msg = m /\ new.at = "buffered"
    BY <1>1
  <1> HIDE DEF new
  <1>4. channel'.state = channel.state
    BY <1>1 DEF TypeOK, Channel
  <1> QED
    BY <1>1, <1>2, <1>3, <1>4 DEF OnePlace

LEMMA OnePlaceProcessEvent ==
    ASSUME TypeOK, OnePlace, NEW d \in local, ProcessEvent(d)
    PROVE  OnePlace'
PROOF
  <1> SUFFICES ASSUME faults' = 0
               PROVE  /\ ~replaced' /\ channel'.state = "open" /\ orphans' = {} /\ again' = {}
                      /\ queue' \cap ended' = {}
                      /\ \A e \in local' : /\ e.at # "callback" /\ e.msg \notin queue'
                                           /\ e.at = "buffered" => e.msg \notin ended'
                      /\ \A e, f \in local' : e.msg = f.msg => e = f
    BY Zenon DEF OnePlace
  <1> DEFINE new == [d EXCEPT !.at = "ack"]
  <1>1. /\ local' = (local \ {d}) \cup {new} /\ ended' = ended \cup {d.msg}
        /\ again' = again \cup (ended \cap {d.msg}) /\ d.at = "buffered"
        /\ UNCHANGED <<queue, orphans, channel, faults>> /\ UNCHANGED replaced
    BY DEF ProcessEvent, InTurn, brokerVars
  <1>2. new.msg = d.msg /\ new.at = "ack"
    BY DEF TypeOK, Delivery
  <1> HIDE DEF new
  <1>3. /\ ~replaced' /\ channel'.state = "open" /\ orphans' = {} /\ again' = {}
        /\ queue' \cap ended' = {}
    BY <1>1 DEF OnePlace
  <1>4. \A e \in local' : /\ e.at # "callback" /\ e.msg \notin queue'
                          /\ e.at = "buffered" => e.msg \notin ended'
    BY <1>1, <1>2 DEF OnePlace
  <1>5. \A e, f \in local' : e.msg = f.msg => e = f
    BY <1>1, <1>2 DEF OnePlace
  <1> QED
    BY <1>3, <1>4, <1>5

LEMMA OnePlaceBasicAck ==
    ASSUME TypeOK, Acks, OnePlace, NEW d \in local, BasicAck(d)
    PROVE  OnePlace'
PROOF
  <1> SUFFICES ASSUME faults' = 0 PROVE OnePlace'
    BY DEF OnePlace
  <1>1. UNCHANGED <<orphans, ended, again, faults>> /\ UNCHANGED replaced
    BY AckCases
  <1>2. ~replaced /\ channel.state = "open" /\ channel \in Channel
    BY <1>1 DEF OnePlace, TypeOK
  <1>3. d.tag > channel.offset
            => ~(\A m \in Messages : <<d.tag, m>> \notin channel.unacked)
    BY <1>2, GenuineAck DEF Acks
  <1>4. local' = local \ {d} /\ UNCHANGED queue /\ channel'.state = channel.state
    BY <1>2, <1>3, AckCases, Acknowledged
  <1> QED
    BY <1>1, <1>4 DEF OnePlace

LEMMA OnePlaceStep ==
    ASSUME TypeOK, Acks, OnePlace, [Next]_vars
    PROVE  OnePlace'
PROOF
  <1>1. CASE UNCHANGED vars
    BY <1>1, OnePlaceSame DEF vars, historyVars
  <1>2. ASSUME NEW e \in Events, Publish(e) PROVE OnePlace'
    <2>1. /\ queue' \subseteq queue \cup {Len(published) + 1}
          /\ UNCHANGED <<orphans, channel, local>>
          /\ UNCHANGED <<ended, again, faults>> /\ UNCHANGED replaced
      BY <1>2 DEF Publish, historyVars
    <2>2. /\ Len(published) + 1 \notin ended
          /\ \A d \in local : d.msg # Len(published) + 1
      BY DEF TypeOK
    <2> QED
      BY <2>1, <2>2 DEF OnePlace
  <1>3. CASE Deliver
    BY <1>3, OnePlaceDeliver
  <1>4. CASE Requeue
    BY <1>4 DEF Requeue, OnePlace, historyVars
  <1>5. CASE Bind \/ AddSubscription
    BY <1>5, OnePlaceSame DEF Bind, AddSubscription, brokerVars, historyVars
  <1>6. CASE StartBasicConsume
    <2>1. channel'.state = channel.state
      BY <1>6 DEF StartBasicConsume, TypeOK, Channel
    <2> QED
      BY <1>6, <2>1, OnePlaceSame DEF StartBasicConsume, brokerVars, historyVars
  <1>7. CASE StartupFails
    BY <1>7 DEF StartupFails, OnePlace
  <1>8. CASE Restart \/ ConnectionLost
    <2>1. faults' # 0
      BY <1>8 DEF Restart, ConnectionLost, TypeOK
    <2> QED
      BY <2>1 DEF OnePlace
  <1>9. ASSUME NEW d \in local, CallbackException(d) PROVE OnePlace'
    BY <1>9, CallbackCases DEF OnePlace
  <1>10. ASSUME NEW s \in Sessions, Consumer_Received(s) PROVE OnePlace'
    BY <1>9, <1>10, OnePlaceProcessEvent, OnePlaceBasicAck DEF Consumer_Received
  <1>11. CASE Recover
    BY <1>11 DEF Recover, OnePlace, brokerVars, historyVars
  <1> QED
    BY <1>1, <1>2, <1>3, <1>4, <1>5, <1>6, <1>7, <1>8, <1>10, <1>11 DEF Next, Subscribe

-----------------------------------------------------------------------------
(* The first Subscribe *)

Heard == FirstReady /\ FirstCallIsHeard

LEMMA FirstReadySame ==
    ASSUME FirstReady, UNCHANGED <<known, call, stage, restarted>>,
           channel'.consuming => channel.consuming \/ local # {},
           local' # {} => local # {} \/ channel.consuming
    PROVE  FirstReady'
  BY Zenon DEF FirstReady

LEMMA FirstCallIsHeardSame ==
    ASSUME FirstCallIsHeard, UNCHANGED <<published, unheard, restarted>>
    PROVE  FirstCallIsHeard'
  BY Zenon DEF FirstCallIsHeard

LEMMA HeardStartup ==
    ASSUME TypeOK, Heard, Bind \/ AddSubscription \/ StartBasicConsume
    PROVE  Heard'
PROOF
  <1>1. /\ Calls \in Seq(Events) /\ Len(Calls) \in Nat
        /\ \A c \in 1..Len(Calls) : Calls[c] \in Events
        /\ \A i, j \in 1..Len(Calls) : Calls[i] = Calls[j] => i = j
    BY EventBusAssumption
  <1>2. call \in 1..Len(Calls) /\ Advance
    BY <1>1 DEF Bind, AddSubscription, StartBasicConsume, AtLine
  <1>3. UNCHANGED <<published, unheard>> /\ UNCHANGED restarted
    BY DEF Bind, AddSubscription, StartBasicConsume, brokerVars, historyVars
  <1>4. FirstCallIsHeard'
    BY <1>3, FirstCallIsHeardSame DEF Heard
  <1>5. UNCHANGED local
    BY DEF Bind, AddSubscription, StartBasicConsume
  <1>6. known \in [Events -> Known]
    BY DEF TypeOK
  <1>7. ASSUME ~restarted PROVE FirstReady'
    <2>1. /\ call > 1 \/ stage = "consume" => known[Calls[1]] = "ready"
          /\ channel.consuming \/ local # {} => call > 1
      BY <1>7 DEF Heard, FirstReady
    <2>2. CASE Bind
      <3>1. call' = call /\ stage' = "list" /\ UNCHANGED known /\ UNCHANGED channel
        BY <2>2 DEF Bind, Advance, AtLine, Following, Lines
      <3> QED
        BY <1>5, <2>1, <3>1 DEF FirstReady
    <2>3. CASE AddSubscription
      <3>1. PICK l \in {"list", "handler", "type"} :
              /\ stage = l
              /\ known' = [known EXCEPT ![Calls[call]] =
                              CASE l = "list"    -> "empty"
                                [] l = "handler" -> "untyped"
                                [] l = "type"    -> "ready"]
        BY <2>3 DEF AddSubscription, AtLine
      <3>2. call' = call /\ (stage' = "consume" <=> l = "type") /\ UNCHANGED channel
        BY <1>2, <2>3, <3>1 DEF AddSubscription, Advance, Following, Lines
      <3>3. call > 1 => known'[Calls[1]] = known[Calls[1]]
        BY <1>1, <1>2, <1>6, <3>1
      <3>4. call = 1 /\ l = "type" => known'[Calls[1]] = "ready"
        BY <1>1, <1>2, <1>6, <3>1
      <3> QED
        BY <1>2, <1>5, <2>1, <3>2, <3>3, <3>4 DEF FirstReady
    <2>4. CASE StartBasicConsume
      <3>1. call' = call + 1 /\ stage = "consume" /\ UNCHANGED known
        BY <2>4 DEF StartBasicConsume, Advance, AtLine, Following, Lines
      <3> QED
        BY <1>2, <2>1, <3>1 DEF FirstReady
    <2> QED
      BY <2>2, <2>3, <2>4
  <1>8. ASSUME restarted PROVE FirstReady'
    BY <1>3, <1>8, Zenon DEF FirstReady
  <1> QED
    BY <1>4, <1>7, <1>8 DEF Heard

LEMMA HeardProcessEvent ==
    ASSUME TypeOK, Heard, NEW d \in local, ProcessEvent(d)
    PROVE  Heard'
PROOF
  <1>1. PICK o \in Meets[known[published[d.msg]]] :
          unheard' = IF o \in {"nobody", "empty"} THEN unheard \cup {d.msg} ELSE unheard
    BY DEF ProcessEvent
  <1>2. UNCHANGED <<known, call, stage, channel, published>> /\ UNCHANGED restarted
    BY DEF ProcessEvent, brokerVars
  <1>3. FirstReady'
    BY <1>2, FirstReadySame DEF Heard
  <1>4. ASSUME ~restarted, published[d.msg] = Calls[1] PROVE unheard' = unheard
    <2>1. known[published[d.msg]] = "ready"
      BY <1>4 DEF Heard, FirstReady
    <2>2. o \in {"handled", "threw"}
      BY <1>1, <2>1 DEF Meets, Known
    <2> QED
      BY <1>1, <2>2
  <1>5. unheard' \subseteq unheard \cup {d.msg}
    BY <1>1
  <1>6. FirstCallIsHeard'
    BY <1>2, <1>4, <1>5 DEF Heard, FirstCallIsHeard
  <1> QED
    BY <1>3, <1>6 DEF Heard

LEMMA HeardStep ==
    ASSUME TypeOK, Heard, [Next]_vars
    PROVE  Heard'
PROOF
  <1>1. CASE UNCHANGED vars
    BY <1>1, FirstReadySame, FirstCallIsHeardSame DEF Heard, vars, historyVars
  <1>2. ASSUME NEW e \in Events, Publish(e) PROVE Heard'
    <2>1. /\ published' = Append(published, e)
          /\ UNCHANGED <<known, call, stage, channel, local, unheard>> /\ UNCHANGED restarted
      BY <1>2 DEF Publish, startupVars, historyVars
    <2>2. FirstReady'
      BY <2>1, FirstReadySame DEF Heard
    <2>3. \A m \in unheard : m \in DOMAIN published /\ published'[m] = published[m]
      BY <2>1, PublishedGrows DEF TypeOK
    <2>4. FirstCallIsHeard'
      BY <2>1, <2>3 DEF Heard, FirstCallIsHeard
    <2> QED
      BY <2>2, <2>4 DEF Heard
  <1>3. CASE Deliver
    <2>1. channel.consuming /\ channel'.consuming = channel.consuming
      BY <1>3 DEF Deliver, TypeOK, Channel
    <2>2. UNCHANGED <<known, call, stage, published, unheard>> /\ UNCHANGED restarted
      BY <1>3 DEF Deliver, startupVars, historyVars
    <2> QED
      BY <2>1, <2>2, FirstReadySame, FirstCallIsHeardSame DEF Heard
  <1>4. CASE Requeue
    BY <1>4, FirstReadySame, FirstCallIsHeardSame DEF Heard, Requeue, startupVars, historyVars
  <1>5. CASE Bind \/ AddSubscription \/ StartBasicConsume
    BY <1>5, HeardStartup
  <1>6. CASE NewProcess
    BY <1>6, NewProcessType, Zenon DEF Heard, FirstReady, FirstCallIsHeard
  <1>7. ASSUME NEW d \in local, BasicAck(d) PROVE Heard'
    <2>1. channel'.consuming => channel.consuming
      BY <1>7, AckCases, Acknowledged, ClosedType DEF TypeOK
    <2> QED
      BY <1>7, <2>1, AckCases, FirstReadySame, FirstCallIsHeardSame DEF Heard
  <1>8. ASSUME NEW d \in local, CallbackException(d) PROVE Heard'
    BY <1>8, CallbackCases, FirstReadySame, FirstCallIsHeardSame DEF Heard
  <1>9. ASSUME NEW s \in Sessions, Consumer_Received(s) PROVE Heard'
    BY <1>7, <1>8, <1>9, HeardProcessEvent DEF Consumer_Received
  <1>10. CASE ConnectionLost
    <2>1. channel'.consuming = channel.consuming /\ local' \subseteq local
      BY <1>10, LostType, LeftoverSubset DEF ConnectionLost, TypeOK
    <2>2. UNCHANGED <<known, call, stage, published, unheard>> /\ UNCHANGED restarted
      BY <1>10 DEF ConnectionLost, startupVars
    <2> QED
      BY <2>1, <2>2, FirstReadySame, FirstCallIsHeardSame DEF Heard
  <1>11. CASE Recover
    <2>1. channel'.consuming = channel.consuming /\ UNCHANGED local
      BY <1>11, RecoverType DEF Recover, TypeOK
    <2>2. UNCHANGED <<known, call, stage, published, unheard>> /\ UNCHANGED restarted
      BY <1>11 DEF Recover, brokerVars, historyVars
    <2> QED
      BY <2>1, <2>2, FirstReadySame, FirstCallIsHeardSame DEF Heard
  <1> QED
    BY <1>1, <1>2, <1>3, <1>4, <1>5, <1>6, <1>9, <1>10, <1>11
    DEF Next, Subscribe, StartupFails, Restart

-----------------------------------------------------------------------------
(* The theorems *)

Inv == TypeOK /\ Acks /\ OnePlace /\ Heard

LEMMA InvInit == Init => Inv
PROOF
  <1> SUFFICES ASSUME Init PROVE Inv
    OBVIOUS
  <1>1. /\ local = {} /\ queue = {} /\ orphans = {} /\ again = {} /\ unheard = {}
        /\ published = <<>> /\ call = 1 /\ stage = "bind"
    BY DEF Init
  <1>2. ~replaced /\ ~refused /\ ~restarted
    BY DEF Init
  <1>3. /\ channel.state = "open" /\ channel.unacked = {} /\ channel.consuming = FALSE
        /\ channel.tag = 0 /\ channel.offset = 0
    BY NewChannelType DEF Init
  <1>4. Acks
    BY <1>1, <1>3 DEF Acks, Runs, Tags, TagsInOrder, Genuine, NotDeafByItself
  <1>5. OnePlace
    BY <1>1, <1>2, <1>3 DEF OnePlace
  <1>6. Heard
    BY <1>1, <1>3 DEF Heard, FirstReady, FirstCallIsHeard
  <1> QED
    BY <1>4, <1>5, <1>6, TypeInit DEF Inv

LEMMA InvStep == Inv /\ [Next]_vars => Inv'
  BY TypeStep, AcksStep, OnePlaceStep, HeardStep DEF Inv

LEMMA InvHolds == Spec => []Inv
  BY InvInit, InvStep, PTL DEF Spec

\* Whatever the service subscribes to, and however publishing, delivering and starting
\* interleave: in the first process no message of the name that Startup subscribes first
\* finds no handler.
THEOREM FirstCallHeard == Spec => []FirstCallIsHeard
PROOF
  <1>1. Inv => FirstCallIsHeard
    BY DEF Inv, Heard
  <1> QED
    BY <1>1, InvHolds, PTL

\* Any number of consumers on the channel and any outcomes of the handlers: no message is
\* run twice before a connection is lost or the process restarts.
THEOREM OnceUntilFaults == Spec => []OnceWithoutFaults
PROOF
  <1>1. Inv => OnceWithoutFaults
    BY DEF Inv, TypeOK, OnePlace, OnceWithoutFaults
  <1> QED
    BY <1>1, InvHolds, PTL

\* Until CallbackException has replaced a channel, or failed to, every tag that is
\* acknowledged is outstanding or ignored, so the broker never closes the channel: across
\* any number of lost connections, recoveries, redeliveries and restarts.
THEOREM NeverDeafByItself == Spec => []NotDeafByItself
PROOF
  <1>1. Inv => NotDeafByItself
    BY DEF Inv, Acks
  <1> QED
    BY <1>1, InvHolds, PTL

-----------------------------------------------------------------------------
(* The promise of the bus *)

LEMMA PromiseInit == Init => Delivered!Init
PROOF
  <1> SUFFICES ASSUME Init PROVE Delivered!Init
    OBVIOUS
  <1>1. published = <<>> /\ ended = {} /\ taken = {}
    BY DEF Init
  <1>2. ~replaced
    BY DEF Init
  <1> QED
    BY <1>1, <1>2 DEF Delivered!Init

\* A step that publishes nothing, runs nothing, takes nothing and replaces nothing.
LEMMA PromiseSame ==
    ASSUME UNCHANGED <<published, ended, taken>>, UNCHANGED replaced
    PROVE  UNCHANGED Delivered!vars
  BY Zenon DEF Delivered!vars

LEMMA PromisePublish ==
    ASSUME TypeOK, NEW e \in Events, Publish(e)
    PROVE  [Delivered!Next]_(Delivered!vars)
PROOF
  <1>1. published' = Append(published, e) /\ Len(published) < MaxMessages
        /\ UNCHANGED <<ended, taken>> /\ UNCHANGED replaced
    BY DEF Publish, historyVars
  <1>2. Len(published) \in Nat /\ Len(published') = Len(published) + 1
    BY <1>1, PublishedGrows DEF TypeOK
  <1>3. /\ Len(published) + 1 \in Messages \ (1..Len(published))
        /\ 1..Len(published') = (1..Len(published)) \cup {Len(published) + 1}
    BY <1>1, <1>2, EventBusAssumption DEF Messages
  <1>4. (IF replaced' THEN Messages ELSE {}) = (IF replaced THEN Messages ELSE {})
    BY <1>1, Zenon
  <1> QED
    BY <1>1, <1>3, <1>4, Zenon DEF Delivered!Next, Delivered!Send

LEMMA PromiseProcessEvent ==
    ASSUME TypeOK, NEW d \in local, ProcessEvent(d)
    PROVE  [Delivered!Next]_(Delivered!vars)
PROOF
  <1>1. ended' = ended \cup {d.msg} /\ UNCHANGED <<published, taken>> /\ UNCHANGED replaced
    BY DEF ProcessEvent, brokerVars
  <1>2. d.msg \in 1..Len(published)
    BY DEF TypeOK
  <1>3. CASE d.msg \in ended
    BY <1>1, <1>3, PromiseSame
  <1>4. CASE d.msg \notin ended
    <2>1. d.msg \in (1..Len(published)) \ ended
      BY <1>2, <1>4
    <2>2. (IF replaced' THEN Messages ELSE {}) = (IF replaced THEN Messages ELSE {})
      BY <1>1, Zenon
    <2> QED
      BY <1>1, <2>1, <2>2, Zenon DEF Delivered!Next, Delivered!Run
  <1> QED
    BY <1>3, <1>4

\* The message an acknowledgement removes is the one that has been run, unless a channel
\* has been replaced.
LEMMA PromiseBasicAck ==
    ASSUME TypeOK, Acks, NEW d \in local, BasicAck(d)
    PROVE  [Delivered!Next]_(Delivered!vars)
PROOF
  <1>1. UNCHANGED <<published, ended>> /\ UNCHANGED replaced /\ d.msg \in ended
    BY AckCases DEF Acks, Runs
  <1>2. CASE UNCHANGED taken
    BY <1>1, <1>2, PromiseSame
  <1>3. ASSUME NEW m \in Messages, channel.state = "open", d.tag > channel.offset,
               <<d.tag, m>> \in channel.unacked, taken' = taken \cup {m}
        PROVE  [Delivered!Next]_(Delivered!vars)
    <2>1. m \in 1..Len(published)
      BY <1>3 DEF TypeOK, Waiting
    <2>2. ~replaced => m = d.msg
      BY <1>3, GenuineAck DEF Acks, Tags, TagsInOrder
    <2>3. m \in ended \cup (IF replaced THEN Messages ELSE {})
      BY <1>1, <2>2
    <2>4. CASE m \in taken
      BY <1>1, <1>3, <2>4, PromiseSame
    <2>5. CASE m \notin taken
      <3>1. m \in ((1..Len(published)) \ taken) \cap (ended \cup (IF replaced THEN Messages ELSE {}))
        BY <2>1, <2>3, <2>5
      <3>2. (IF replaced' THEN Messages ELSE {}) = (IF replaced THEN Messages ELSE {})
        BY <1>1, Zenon
      <3> QED
        BY <1>1, <1>3, <3>1, <3>2, Zenon DEF Delivered!Next, Delivered!TakeOff
    <2> QED
      BY <2>4, <2>5
  <1> QED
    BY <1>2, <1>3, AckCases

LEMMA PromiseCallbackException ==
    ASSUME TypeOK, NEW d \in local, CallbackException(d)
    PROVE  [Delivered!Next]_(Delivered!vars)
PROOF
  <1>1. UNCHANGED <<published, ended, taken>>
    BY CallbackCases
  <1>2. CASE UNCHANGED replaced
    BY <1>1, <1>2, PromiseSame
  <1>3. CASE replaced' = TRUE
    <2>1. (IF replaced' THEN Messages ELSE {}) = Messages
      BY <1>3, Zenon
    <2>2. (IF replaced THEN Messages ELSE {}) \subseteq Messages /\ Messages \in SUBSET Messages
      OBVIOUS
    <2> QED
      BY <1>1, <2>1, <2>2, Zenon DEF Delivered!Next, Delivered!Excuse
  <1> QED
    BY <1>2, <1>3, CallbackCases

LEMMA PromiseStep ==
    ASSUME TypeOK, Acks, [Next]_vars
    PROVE  [Delivered!Next]_(Delivered!vars)
PROOF
  <1>1. CASE UNCHANGED vars
    BY <1>1, PromiseSame DEF vars, historyVars
  <1>2. ASSUME NEW e \in Events, Publish(e) PROVE [Delivered!Next]_(Delivered!vars)
    BY <1>2, PromisePublish
  <1>3. CASE Deliver \/ Requeue \/ Bind \/ AddSubscription \/ StartBasicConsume
    BY <1>3, PromiseSame
    DEF Deliver, Requeue, Bind, AddSubscription, StartBasicConsume, brokerVars, historyVars
  <1>4. CASE NewProcess \/ ConnectionLost \/ Recover
    BY <1>4, PromiseSame DEF NewProcess, ConnectionLost, Recover, brokerVars, historyVars
  <1>5. ASSUME NEW s \in Sessions, Consumer_Received(s) PROVE [Delivered!Next]_(Delivered!vars)
    BY <1>5, PromiseProcessEvent, PromiseBasicAck, PromiseCallbackException
    DEF Consumer_Received
  <1> QED
    BY <1>1, <1>2, <1>3, <1>4, <1>5 DEF Next, Subscribe, StartupFails, Restart

\* The channel with its tags implements the promise of the bus: a message is taken off the
\* queue only after its handlers have run, for any number of lost connections, recoveries
\* and restarts, until CallbackException replaces a channel.
THEOREM DeliveryPromised == Spec => DeliveryPromise
PROOF
  <1>1. Inv /\ [Next]_vars => [Delivered!Next]_(Delivered!vars)
    BY PromiseStep DEF Inv
  <1> QED
    BY <1>1, PromiseInit, InvHolds, PTL DEF Spec, DeliveryPromise, Delivered!Spec
=============================================================================
