--------------------------- MODULE ServiceBusProofs ---------------------------
(***************************************************************************)
(* The event bus over the Service Bus: its safety properties for any       *)
(* events, Subscribe calls, handlers at a time and numbers of messages,    *)
(* deliveries and restarts.                                                *)
(***************************************************************************)
EXTENDS EventBusServiceBus, FiniteSetTheorems, TLAPS

-----------------------------------------------------------------------------
(* Types *)

Task == [at : {"idle", "process"} \cup Outcomes, msg : 0..Len(published), held : BOOLEAN]

\* TypeOK in parts, of which a step disturbs few.
BrokerType ==
    /\ published \in Seq(Events) /\ Len(published) <= MaxMessages
    /\ queue \subseteq 1..Len(published) /\ locked \subseteq 1..Len(published)
    /\ dead \subseteq 1..Len(published)
    /\ deliveries \in [Messages -> 0..MaxDeliveryCount]
Registered ==
    /\ rules \subseteq Events /\ known \in [Events -> Known]
    /\ call \in 0..(Len(Calls) + 1) /\ stage \in Lines
StartupType == Registered /\ default \in BOOLEAN
Started == stage \notin {"default", "pump"} => call # 0
TaskType == task \in [Workers -> Task]
HistoryType ==
    /\ completed \subseteq 1..Len(published) /\ unlisted \subseteq 1..Len(published)
    /\ runs \in [Messages -> Nat] /\ lapses \in [Messages -> Nat] /\ faults \in [Messages -> Nat]
    /\ restarts \in 0..MaxRestarts

LEMMA TypeParts ==
    TypeOK <=> BrokerType /\ StartupType /\ TaskType /\ HistoryType
  BY Zenon DEF TypeOK, BrokerType, StartupType, Registered, TaskType,
               HistoryType, Task

\* A message that may be delivered has a delivery left; one to come has had none.
Deliverable ==
    /\ \A m \in queue : deliveries[m] < MaxDeliveryCount
    /\ \A m \in Messages : m > Len(published) => deliveries[m] = 0

LEMMA PublishedGrows ==
    ASSUME published \in Seq(Events), NEW e \in Events, published' = Append(published, e)
    PROVE  /\ published' \in Seq(Events)
           /\ Len(published) \in Nat /\ Len(published') = Len(published) + 1
           /\ \A m \in 1..Len(published) : m \in 1..Len(published')
                                           /\ published'[m] = published[m]
  OBVIOUS

LEMMA IdleType == Len(published) \in Nat => Idle \in Task
  BY DEF Idle, Task

\* A message that is given back is in the queue or dead.
LEMMA GiveBackType ==
    ASSUME BrokerType, NEW m \in 1..Len(published), GiveBack(m)
    PROVE  /\ locked' = locked \ {m} /\ queue' \subseteq queue \cup {m}
           /\ dead' \subseteq dead \cup {m}
           /\ m \in queue' => m \in queue \/ deliveries[m] < MaxDeliveryCount
  BY DEF GiveBack, BrokerType

Types == BrokerType /\ StartupType /\ Started /\ TaskType /\ HistoryType /\ Deliverable

LEMMA TypesAreTypeOK == Types => TypeOK
  BY TypeParts DEF Types

LEMMA TypeInit ==
    ASSUME Init
    PROVE  Types
PROOF
  <1>1. published \in Seq(Events) /\ Len(published) = 0
    BY DEF Init
  <1>2. BrokerType /\ Deliverable
    BY <1>1, BusAssumption DEF Init, BrokerType, Deliverable, Messages
  <1>3. Len(Calls) \in Nat
    BY BusAssumption
  <1>4. default \in BOOLEAN
    BY DEF Init
  <1>5. StartupType /\ Started
    BY <1>3, <1>4 DEF Init, StartupType, Registered, Started, Lines, Known
  <1>6. TaskType
    BY <1>1, IdleType DEF Init, TaskType
  <1>7. HistoryType
    BY BusAssumption DEF Init, HistoryType
  <1> QED
    BY <1>2, <1>5, <1>6, <1>7 DEF Types

\* The parts that a step leaves alone.
LEMMA BrokerSame == BrokerType /\ Deliverable /\ UNCHANGED brokerVars => BrokerType' /\ Deliverable'
  BY DEF BrokerType, Deliverable, brokerVars
LEMMA StartupSame == StartupType /\ Started /\ UNCHANGED startupVars => StartupType' /\ Started'
  BY Zenon DEF StartupType, Registered, Started, startupVars
LEMMA HistorySame == HistoryType /\ UNCHANGED <<published, historyVars>> => HistoryType'
  BY DEF HistoryType, historyVars
LEMMA TaskSame == TaskType /\ UNCHANGED <<published, task>> => TaskType'
  BY DEF TaskType, Task
LEMMA TaskIdle ==
    ASSUME TaskType, Len(published) \in Nat, UNCHANGED published, NEW w \in Workers,
           task' = [task EXCEPT ![w] = Idle]
    PROVE  TaskType'
  BY IdleType DEF TaskType, Task

LEMMA TypePublish ==
    ASSUME Types, NEW e \in Events, Publish(e)
    PROVE  Types'
PROOF
  <1>1. /\ published' = Append(published, e) /\ Len(published) < MaxMessages
        /\ queue' \subseteq queue \cup {Len(published) + 1}
        /\ UNCHANGED <<locked, deliveries, dead, task>>
        /\ UNCHANGED startupVars /\ UNCHANGED historyVars
    BY DEF Publish
  <1>2. published' \in Seq(Events) /\ Len(published) \in Nat /\ Len(published') = Len(published) + 1
    BY <1>1, PublishedGrows DEF Types, BrokerType
  <1>3. BrokerType'
    BY <1>1, <1>2, BusAssumption DEF Types, BrokerType
  <1>4. TaskType'
    <2>1. 0..Len(published) \subseteq 0..Len(published')
      BY <1>2
    <2>2. Task \subseteq Task'
      BY <2>1 DEF Task
    <2> QED
      BY <1>1, <2>2 DEF Types, TaskType
  <1>5. HistoryType'
    BY <1>1, <1>2 DEF Types, HistoryType, historyVars
  <1>6. Deliverable'
    <2>1. deliveries[Len(published) + 1] < MaxDeliveryCount
      BY <1>1, <1>2, BusAssumption DEF Types, BrokerType, Deliverable, Messages
    <2>2. \A m \in Messages : m > Len(published') => m > Len(published)
      BY <1>2 DEF Messages
    <2> QED
      BY <1>1, <2>1, <2>2 DEF Types, Deliverable
  <1> QED
    BY <1>1, <1>3, <1>4, <1>5, <1>6, StartupSame DEF Types

LEMMA TypeLockExpires ==
    ASSUME Types, NEW m \in Messages, LockExpires(m)
    PROVE  Types'
PROOF
  <1>1. m \in 1..Len(published) /\ GiveBack(m)
    BY DEF LockExpires, Types, BrokerType
  <1>2. /\ UNCHANGED <<published, deliveries, completed, unlisted, runs, faults, restarts>>
        /\ UNCHANGED startupVars /\ lapses' = [lapses EXCEPT ![m] = @ + 1]
    BY DEF LockExpires
  <1>3. BrokerType' /\ Deliverable'
    BY <1>1, <1>2, GiveBackType DEF Types, BrokerType, Deliverable
  <1>4. TaskType'
    <2>1. task' = [w \in Workers |->
                      IF task[w].msg = m THEN [task[w] EXCEPT !.held = FALSE] ELSE task[w]]
      BY DEF LockExpires
    <2>2. \A w \in Workers : task[w] \in Task
      BY DEF Types, TaskType
    <2>3. \A w \in Workers : [task[w] EXCEPT !.held = FALSE] \in Task
      BY <2>2 DEF Task
    <2>4. \A w \in Workers : task'[w] \in Task
      BY <2>1, <2>2, <2>3
    <2> QED
      BY <1>2, <2>1, <2>4 DEF TaskType, Task
  <1>5. HistoryType'
    BY <1>1, <1>2 DEF Types, HistoryType
  <1> QED
    BY <1>2, <1>3, <1>4, <1>5, StartupSame DEF Types

LEMMA TypeStartup ==
    ASSUME Types, Startup
    PROVE  Types'
PROOF
  <1>1. UNCHANGED brokerVars /\ UNCHANGED task /\ UNCHANGED historyVars
    BY DEF Startup, RemoveDefaultRule, RegisterSubscriptionClientMessageHandler, AddRule,
           AddSubscription
  <1>2. /\ \A c \in DOMAIN Calls : Calls[c] \in Events /\ c \in 1..Len(Calls)
        /\ Len(Calls) \in Nat
    BY BusAssumption
  <1>3. /\ call \in 0..(Len(Calls) + 1) /\ known \in [Events -> Known]
        /\ rules \subseteq Events /\ default \in BOOLEAN
    BY DEF Types, StartupType, Registered
  <1>4. Started
    BY DEF Types
  <1>d. default' \in BOOLEAN
    BY <1>3, Zenon DEF Startup, RemoveDefaultRule, RegisterSubscriptionClientMessageHandler,
                       AddRule, AddSubscription
  <1>5. ASSUME RemoveDefaultRule PROVE Registered' /\ Started'
    <2>1. stage' = "pump" /\ UNCHANGED <<rules, known, call>>
      BY <1>5 DEF RemoveDefaultRule
    <2> QED
      BY <1>3, <2>1 DEF Registered, Started, Lines
  <1>6. ASSUME RegisterSubscriptionClientMessageHandler PROVE Registered' /\ Started'
    <2>1. stage' = "rule" /\ call' = 1 /\ UNCHANGED <<rules, known>>
      BY <1>6 DEF RegisterSubscriptionClientMessageHandler
    <2> QED
      BY <1>2, <1>3, <2>1 DEF Registered, Started, Lines
  <1>7. ASSUME AddRule PROVE Registered' /\ Started'
    <2>1. stage = "rule" /\ (call = 0 \/ call \in DOMAIN Calls)
      BY <1>7 DEF AddRule, At
    <2>2. call # 0 /\ Calls[call] \in Events
      BY <1>2, <1>4, <2>1 DEF Started
    <2>3. /\ rules' \subseteq rules \cup {Calls[call]} /\ stage' = "list"
          /\ UNCHANGED <<known, call>>
      BY <1>7 DEF AddRule
    <2> QED
      BY <1>3, <2>2, <2>3 DEF Registered, Started, Lines
  <1>8. ASSUME AddSubscription PROVE Registered' /\ Started'
    <2>1. stage \in {"list", "handler", "type"} /\ (call = 0 \/ call \in DOMAIN Calls)
      BY <1>8 DEF AddSubscription, At
    <2>2. call # 0 /\ call \in 1..Len(Calls)
      BY <1>2, <1>4, <2>1 DEF Started
    <2>3. known' \in [Events -> Known]
      BY <1>3, <1>8 DEF AddSubscription, Known
    <2>4. /\ stage' \in {"handler", "type", "rule"}
          /\ call' = call \/ call' = call + 1
          /\ UNCHANGED rules
      BY <1>8 DEF AddSubscription
    <2>5. call' \in 0..(Len(Calls) + 1) /\ call' # 0
      BY <1>2, <2>2, <2>4
    <2> QED
      BY <1>3, <2>3, <2>4, <2>5 DEF Registered, Started, Lines
  <1>9. StartupType' /\ Started'
    BY <1>d, <1>5, <1>6, <1>7, <1>8, Zenon DEF Startup, StartupType
  <1> QED
    BY <1>1, <1>9, BrokerSame, HistorySame, TaskSame DEF Types, brokerVars

LEMMA TypeRestart ==
    ASSUME Types, Restart
    PROVE  Types'
PROOF
  <1>1. /\ UNCHANGED <<rules, default, completed, unlisted, runs, lapses, faults>>
        /\ UNCHANGED brokerVars /\ restarts < MaxRestarts /\ restarts' = restarts + 1
        /\ known' = [e \in Events |-> "none"] /\ call' = 0 /\ stage' = "default"
        /\ task' = [w \in Workers |-> Idle]
    BY DEF Restart
  <1>2. Len(Calls) \in Nat
    BY BusAssumption
  <1>3. StartupType' /\ Started'
    BY <1>1, <1>2 DEF Types, StartupType, Registered, Started, Lines, Known
  <1>4. TaskType'
    BY <1>1, IdleType DEF Types, BrokerType, TaskType, Task, brokerVars
  <1>5. HistoryType'
    BY <1>1, BusAssumption DEF Types, HistoryType, brokerVars
  <1> QED
    BY <1>1, <1>3, <1>4, <1>5, BrokerSame DEF Types

LEMMA TypeReceive ==
    ASSUME Types, NEW w \in Workers, Receive(w)
    PROVE  Types'
PROOF
  <1>1. PICK m \in queue :
          /\ queue' = queue \ {m} /\ locked' = locked \cup {m}
          /\ deliveries' = [deliveries EXCEPT ![m] = @ + 1]
          /\ task' = [task EXCEPT ![w] = [at |-> "process", msg |-> m, held |-> TRUE]]
    BY DEF Receive
  <1>2. UNCHANGED <<published, dead>> /\ UNCHANGED startupVars /\ UNCHANGED historyVars
    BY DEF Receive
  <1>3. /\ m \in 1..Len(published) /\ Len(published) \in Nat /\ Len(published) <= MaxMessages
        /\ m \in Messages /\ deliveries[m] < MaxDeliveryCount
    BY BusAssumption DEF Types, BrokerType, Deliverable, Messages
  <1>4. deliveries' \in [Messages -> 0..MaxDeliveryCount]
    BY <1>1, <1>3, BusAssumption DEF Types, BrokerType
  <1>5. BrokerType'
    BY <1>1, <1>2, <1>3, <1>4 DEF Types, BrokerType
  <1>6. Deliverable'
    <2>1. \A n \in Messages : n # m => deliveries'[n] = deliveries[n]
      BY <1>1 DEF Types, BrokerType
    <2>2. \A n \in queue' : n \in queue /\ n # m /\ n \in Messages
      BY <1>1, <1>3, BusAssumption DEF Types, BrokerType, Messages
    <2>3. \A n \in queue' : deliveries'[n] < MaxDeliveryCount
      BY <2>1, <2>2 DEF Types, Deliverable
    <2>4. \A n \in Messages : n > Len(published) => n # m
      BY <1>3, BusAssumption DEF Messages
    <2>5. \A n \in Messages : n > Len(published') => deliveries'[n] = 0
      BY <1>2, <2>1, <2>4 DEF Types, Deliverable
    <2> QED
      BY <2>3, <2>5 DEF Deliverable
  <1>7. TaskType'
    <2>1. [at |-> "process", msg |-> m, held |-> TRUE] \in Task
      BY <1>3 DEF Task
    <2> QED
      BY <1>1, <1>2, <2>1 DEF Types, TaskType, Task
  <1> QED
    BY <1>2, <1>5, <1>6, <1>7, StartupSame, HistorySame DEF Types

LEMMA TypeProcessEvent ==
    ASSUME Types, NEW w \in Workers, ProcessEvent(w), task[w].msg # 0
    PROVE  Types'
PROOF
  <1>1. UNCHANGED brokerVars /\ UNCHANGED startupVars /\ UNCHANGED <<completed, lapses, faults, restarts>>
    BY DEF ProcessEvent
  <1>2. PICK o \in Meets[known[published[task[w].msg]]] :
          /\ task' = [task EXCEPT ![w].at = o]
          /\ runs' = IF o = "handled" THEN [runs EXCEPT ![task[w].msg] = @ + 1] ELSE runs
          /\ unlisted' \subseteq unlisted \cup {task[w].msg}
    BY DEF ProcessEvent
  <1>3. task[w] \in Task /\ Len(published) \in Nat
    BY DEF Types, TaskType, BrokerType
  <1>4. task[w].msg \in 1..Len(published)
    BY <1>3 DEF Task
  <1>5. known[published[task[w].msg]] \in Known
    BY <1>4 DEF Types, BrokerType, StartupType, Registered
  <1>6. o \in Outcomes
    BY <1>2, <1>5 DEF Meets, Known, Outcomes
  <1>7. TaskType'
    <2>1. [task[w] EXCEPT !.at = o] \in Task
      BY <1>3, <1>6 DEF Task
    <2> QED
      BY <1>1, <1>2, <2>1 DEF Types, TaskType, Task, brokerVars
  <1>8. HistoryType'
    <2>1. task[w].msg \in Messages
      BY <1>4, BusAssumption DEF Types, BrokerType, Messages
    <2>2. runs' \in [Messages -> Nat]
      BY <1>2, <2>1 DEF Types, HistoryType
    <2>3. unlisted' \subseteq 1..Len(published)'
      BY <1>1, <1>2, <1>4 DEF Types, HistoryType, brokerVars
    <2> QED
      BY <1>1, <2>2, <2>3 DEF Types, HistoryType, brokerVars
  <1> QED
    BY <1>1, <1>7, <1>8, BrokerSame, StartupSame DEF Types

\* The ways in which the work on a message ends.
Ending(w) == CompleteAsync(w) \/ Leave(w) \/ Abandon(w) \/ AbandonFails(w)

LEMMA TypeEnd ==
    ASSUME Types, NEW w \in Workers, Ending(w),
           task[w].held => task[w].msg # 0
    PROVE  Types'
PROOF
  <1>1. /\ task' = [task EXCEPT ![w] = Idle]
        /\ UNCHANGED <<published, deliveries, unlisted, runs, lapses, faults, restarts>>
        /\ UNCHANGED startupVars
    BY DEF Ending, CompleteAsync, Leave, Abandon, AbandonFails, brokerVars, historyVars
  <1>2. task[w] \in Task /\ Len(published) \in Nat
    BY DEF Types, TaskType, BrokerType
  <1>3. TaskType'
    BY <1>1, <1>2, TaskIdle DEF Types
  <1>4. /\ locked' \subseteq locked
        /\ queue' = queue \/ (/\ queue' \subseteq queue \cup {task[w].msg}
                              /\ deliveries[task[w].msg] < MaxDeliveryCount /\ task[w].held)
        /\ dead' = dead \/ (dead' \subseteq dead \cup {task[w].msg} /\ task[w].held)
        /\ completed' = completed
           \/ (completed' \subseteq completed \cup {task[w].msg} /\ task[w].held)
    BY DEF Ending, CompleteAsync, Leave, Abandon, AbandonFails, GiveBack, brokerVars, historyVars
  <1>5. task[w].held => task[w].msg \in 1..Len(published)
    BY <1>2 DEF Task
  <1>6. BrokerType' /\ Deliverable'
    BY <1>1, <1>4, <1>5 DEF Types, BrokerType, Deliverable
  <1>7. HistoryType'
    BY <1>1, <1>4, <1>5 DEF Types, HistoryType
  <1> QED
    BY <1>1, <1>3, <1>6, <1>7, StartupSame DEF Types

\* An exception of CompleteAsync goes to the pump.
LEMMA ThrewType ==
    ASSUME Types, NEW w \in Workers, CompleteFails(w) \/ CompleteUnanswered(w)
    PROVE  /\ TaskType'
           /\ task'[w].at = "threw" /\ task'[w].msg = task[w].msg
           /\ task'[w].held => task[w].held
           /\ \A v \in Workers : v # w => task'[v] = task[v]
PROOF
  <1>1. task[w] \in Task /\ UNCHANGED published
    BY DEF Types, TaskType, CompleteFails, CompleteUnanswered, brokerVars
  <1>2. CASE task' = [task EXCEPT ![w].at = "threw"]
    <2>1. [task[w] EXCEPT !.at = "threw"] \in Task
      BY <1>1 DEF Task, Outcomes
    <2>2. task' = [task EXCEPT ![w] = [task[w] EXCEPT !.at = "threw"]]
      BY <1>1, <1>2 DEF Types, TaskType
    <2> QED
      BY <1>1, <1>2, <2>1, <2>2 DEF Types, TaskType, Task
  <1>3. CASE task' = [task EXCEPT ![w].at = "threw", ![w].held = FALSE]
    <2> DEFINE t == [task[w] EXCEPT !.at = "threw", !.held = FALSE]
    <2>1. t \in Task /\ t.at = "threw" /\ t.msg = task[w].msg /\ t.held = FALSE
      BY <1>1 DEF Task, Outcomes
    <2>2. task' = [task EXCEPT ![w] = t]
      BY <1>1, <1>3 DEF Types, TaskType, Task
    <2> QED
      BY <1>1, <2>1, <2>2 DEF Types, TaskType, Task
  <1> QED
    BY <1>2, <1>3 DEF CompleteFails, CompleteUnanswered

LEMMA TypeThrew ==
    ASSUME Types, NEW w \in Workers, CompleteFails(w) \/ CompleteUnanswered(w),
           task[w].msg # 0
    PROVE  Types'
PROOF
  <1>1. task[w].msg \in 1..Len(published) /\ task[w].msg \in Messages
    BY BusAssumption DEF Types, TaskType, Task, BrokerType, Messages
  <1>2. /\ UNCHANGED <<published, queue, deliveries, dead, unlisted, runs, lapses, restarts>>
        /\ UNCHANGED startupVars
        /\ locked' \subseteq locked /\ completed' \subseteq completed \cup {task[w].msg}
        /\ faults' = faults \/ faults' = [faults EXCEPT ![task[w].msg] = @ + 1]
    BY DEF CompleteFails, CompleteUnanswered, brokerVars
  <1>3. BrokerType' /\ Deliverable'
    BY <1>2 DEF Types, BrokerType, Deliverable
  <1>4. HistoryType'
    <2>1. faults' \in [Messages -> Nat]
      BY <1>1, <1>2 DEF Types, HistoryType
    <2>2. completed' \subseteq 1..Len(published)'
      BY <1>1, <1>2 DEF Types, HistoryType
    <2> QED
      BY <1>2, <2>1, <2>2 DEF Types, HistoryType
  <1> QED
    BY <1>2, <1>3, <1>4, ThrewType, StartupSame DEF Types

-----------------------------------------------------------------------------
(* Who holds which message, and who is going to run it *)

\* A worker that is not idle has a message.
Hands == \A w \in Workers : IF task[w].at = "idle" THEN task[w] = Idle ELSE task[w].msg # 0

\* A message is held by one worker at most, and then it is locked, not in the queue.
Locks ==
    /\ locked \cap queue = {}
    /\ \A w \in Workers : task[w].held => task[w].msg \in locked
    /\ \A w, v \in Workers : task[w].held /\ task[v].held /\ task[w].msg = task[v].msg => w = v

\* The workers whose run of a message is still to come.
InHand(m) == {w \in Workers : task[w].at = "process" /\ task[w].msg = m}

\* A message in the queue, or one the pump is about to put there, is going to be delivered
\* again.
Again(m) ==
    m \in queue \/ \E w \in Workers : task[w].at = "threw" /\ task[w].held /\ task[w].msg = m

\* How many runs it may have had, or have in hand, that nothing has paid for.
Allowed(m) == IF Again(m) THEN 0 ELSE 1

\* Runs, those to come included, are paid for.
Paid ==
    \A m \in Messages : Cardinality(InHand(m)) + runs[m] <= lapses[m] + faults[m] + Allowed(m)

\* A message to come has not been run.
Unborn == \A m \in Messages : m > Len(published) => runs[m] = 0

\* What CompleteAsync will complete has been handled or has met no handler.
Ends == \A w \in Workers : /\ task[w].at = "handled" => runs[task[w].msg] > 0
                           /\ task[w].at = "empty" => task[w].msg \in unlisted

Held == Hands /\ Locks /\ Paid /\ Unborn /\ Ends

Inv == Types /\ Held

LEMMA InHandFinite ==
    \A m \in Messages : IsFiniteSet(InHand(m)) /\ Cardinality(InHand(m)) \in Nat
  BY BusAssumption, FS_Subset, FS_CardinalityType DEF InHand

\* One worker more, or one less.
LEMMA OneMore ==
    ASSUME NEW S, IsFiniteSet(S), NEW x, x \notin S
    PROVE  Cardinality(S \cup {x}) = Cardinality(S) + 1
  BY FS_AddElement
LEMMA OneLess ==
    ASSUME NEW S, IsFiniteSet(S), NEW x, x \in S
    PROVE  Cardinality(S \ {x}) = Cardinality(S) - 1
  BY FS_RemoveElement

\* The numbers of the invariant.
LEMMA Numbers ==
    ASSUME HistoryType, NEW m \in Messages
    PROVE  /\ runs[m] \in Nat /\ lapses[m] \in Nat /\ faults[m] \in Nat
           /\ Allowed(m) \in {0, 1} /\ Cardinality(InHand(m)) \in Nat
  BY InHandFinite DEF HistoryType, Allowed

LEMMA InvInit == Init => Inv
PROOF
  <1> SUFFICES ASSUME Init PROVE Inv
    OBVIOUS
  <1>1. task = [w \in Workers |-> Idle] /\ queue = {} /\ locked = {}
        /\ \A m \in Messages : runs[m] = 0 /\ lapses[m] = 0 /\ faults[m] = 0
    BY DEF Init
  <1>2. Hands /\ Locks /\ Ends /\ Unborn
    BY <1>1 DEF Hands, Locks, Ends, Unborn, Idle
  <1>3. Paid
    <2>1. \A m \in Messages : InHand(m) = {} /\ ~Again(m)
      BY <1>1 DEF InHand, Again, Idle
    <2> QED
      BY <1>1, <2>1, FS_EmptySet DEF Paid, Allowed
  <1> QED
    BY <1>2, <1>3, TypeInit DEF Inv, Held

\* What a step that leaves the workers and their messages alone keeps.
LEMMA HeldSame ==
    ASSUME Inv, UNCHANGED <<published, queue, locked, task, unlisted, runs, lapses, faults>>
    PROVE  Held'
PROOF
  <1>1. \A m \in Messages : InHand(m)' = InHand(m) /\ Allowed(m)' = Allowed(m)
    BY DEF InHand, Allowed, Again
  <1>2. Hands' /\ Locks' /\ Ends'
    BY DEF Inv, Held, Hands, Locks, Ends, Idle
  <1>3. Paid' /\ Unborn'
    BY <1>1 DEF Inv, Held, Paid, Unborn
  <1> QED
    BY <1>2, <1>3 DEF Held

LEMMA HeldPublish ==
    ASSUME Inv, NEW e \in Events, Publish(e)
    PROVE  Held'
PROOF
  <1>1. /\ queue' \subseteq queue \cup {Len(published) + 1}
        /\ published' = Append(published, e)
        /\ UNCHANGED <<locked, task, unlisted, runs, lapses, faults>>
    BY DEF Publish, historyVars
  <1>2. /\ Len(published) + 1 \notin locked /\ Len(published) \in Nat
        /\ Len(published') = Len(published) + 1
    BY <1>1 DEF Inv, Types, BrokerType
  <1>3. Hands' /\ Locks' /\ Ends'
    BY <1>1, <1>2 DEF Inv, Held, Hands, Locks, Ends, Idle
  <1>4. Unborn'
    BY <1>1, <1>2 DEF Inv, Held, Unborn, Messages
  <1>5. Paid'
    <2> SUFFICES ASSUME NEW m \in Messages
                 PROVE  Cardinality(InHand(m)') + runs'[m] <= lapses'[m] + faults'[m] + Allowed(m)'
      BY DEF Paid
    <2>1. InHand(m)' = InHand(m)
      BY <1>1 DEF InHand
    <2>2. CASE m \in queue' => m \in queue
      <3>1. Again(m)' => Again(m)
        BY <1>1, <2>2 DEF Again
      <3>2. Allowed(m)' = 1 \/ Allowed(m)' = Allowed(m)
        BY <3>1 DEF Allowed
      <3> QED
        BY <1>1, <2>1, <3>2, Numbers DEF Inv, Types, Held, Paid
    <2>3. CASE m = Len(published) + 1
      <3>1. InHand(m) = {} /\ runs[m] = 0
        BY <1>2, <2>3 DEF InHand, Inv, Types, TaskType, Task, Held, Unborn
      <3>2. Allowed(m)' \in {0, 1} /\ Cardinality(InHand(m)') = 0
        BY <2>1, <3>1, FS_EmptySet DEF Allowed
      <3> QED
        BY <1>1, <3>1, <3>2, Numbers DEF Inv, Types
    <2> QED
      BY <1>1, <2>2, <2>3
  <1> QED
    BY <1>3, <1>4, <1>5 DEF Held

LEMMA HeldRestart ==
    ASSUME Inv, Restart
    PROVE  Held'
PROOF
  <1>1. /\ task' = [w \in Workers |-> Idle]
        /\ UNCHANGED <<published, queue, locked, unlisted, runs, lapses, faults>>
    BY DEF Restart, brokerVars
  <1>2. \A w \in Workers : task'[w] = Idle /\ Idle.at = "idle" /\ Idle.held = FALSE
    BY <1>1 DEF Idle
  <1>3. Hands'
    BY <1>2 DEF Hands, Idle
  <1>4. Locks'
    BY <1>1, <1>2 DEF Inv, Held, Locks
  <1>5. Ends' /\ Unborn'
    BY <1>1, <1>2 DEF Inv, Held, Ends, Unborn
  <1>6. Paid'
    <2> SUFFICES ASSUME NEW m \in Messages
                 PROVE  Cardinality(InHand(m)') + runs'[m] <= lapses'[m] + faults'[m] + Allowed(m)'
      BY DEF Paid
    <2>1. Cardinality(InHand(m)') = 0
      <3>1. InHand(m)' = {}
        BY <1>2 DEF InHand
      <3> QED
        BY <3>1, FS_EmptySet
    <2>2. Again(m)' => Again(m)
      BY <1>1, <1>2 DEF Again
    <2>3. Allowed(m)' = 1 \/ Allowed(m)' = Allowed(m)
      BY <2>2 DEF Allowed
    <2> QED
      BY <1>1, <2>1, <2>3, Numbers DEF Inv, Types, Held, Paid
  <1> QED
    BY <1>3, <1>4, <1>5, <1>6 DEF Held

LEMMA HeldLockExpires ==
    ASSUME Inv, NEW m \in Messages, LockExpires(m)
    PROVE  Held'
PROOF
  <1>1. /\ m \in 1..Len(published) /\ lapses' = [lapses EXCEPT ![m] = @ + 1]
        /\ UNCHANGED <<published, runs, faults, unlisted>>
        /\ locked' = locked \ {m} /\ queue' \subseteq queue \cup {m}
    BY GiveBackType DEF LockExpires, Inv, Types, BrokerType
  <1>2. \A w \in Workers :
           /\ task'[w].at = task[w].at /\ task'[w].msg = task[w].msg
           /\ task[w].msg # m => task'[w] = task[w]
           /\ task[w].msg = m => task'[w].held = FALSE
    BY DEF LockExpires, Inv, Types, TaskType, Task
  <1>3. Hands'
    <2>1. \A w \in Workers : task[w].at = "idle" => task[w].msg # m
      BY <1>1 DEF Inv, Held, Hands, Idle
    <2> QED
      BY <1>2, <2>1 DEF Inv, Held, Hands, Idle
  <1>4. Locks'
    BY <1>1, <1>2 DEF Inv, Held, Locks
  <1>5. Ends' /\ Unborn'
    BY <1>1, <1>2 DEF Inv, Held, Ends, Unborn
  <1>6. Paid'
    <2> SUFFICES ASSUME NEW n \in Messages
                 PROVE  Cardinality(InHand(n)') + runs'[n] <= lapses'[n] + faults'[n] + Allowed(n)'
      BY DEF Paid
    <2>1. InHand(n)' = InHand(n)
      BY <1>2 DEF InHand
    <2>2. CASE n = m
      <3>1. lapses'[n] = lapses[n] + 1
        BY <1>1, <2>2 DEF Inv, Types, HistoryType
      <3>2. Allowed(n)' \in {0, 1}
        BY DEF Allowed
      <3>3. Cardinality(InHand(n)) + runs[n] <= lapses[n] + faults[n] + Allowed(n)
        BY DEF Inv, Held, Paid
      <3>4. /\ runs[n] \in Nat /\ lapses[n] \in Nat /\ faults[n] \in Nat
            /\ Allowed(n) \in {0, 1} /\ Cardinality(InHand(n)) \in Nat
        BY Numbers DEF Inv, Types
      <3>5. Cardinality(InHand(n)') = Cardinality(InHand(n)) /\ UNCHANGED <<runs, faults>>
        BY <1>1, <2>1
      <3>6. Cardinality(InHand(n)) + runs[n] <= lapses[n] + 1 + faults[n] + Allowed(n)'
        BY <3>2, <3>3, <3>4
      <3> QED
        BY <3>1, <3>5, <3>6, Zenon
    <2>3. CASE n # m
      <3>1. Again(n)' => Again(n)
        BY <1>1, <1>2, <2>3 DEF Again
      <3>2. Allowed(n)' = 1 \/ Allowed(n)' = Allowed(n)
        BY <3>1 DEF Allowed
      <3>3. lapses'[n] = lapses[n]
        BY <1>1, <2>3 DEF Inv, Types, HistoryType
      <3> QED
        BY <1>1, <2>1, <3>2, <3>3, Numbers DEF Inv, Types, Held, Paid
    <2> QED
      BY <2>2, <2>3
  <1> QED
    BY <1>3, <1>4, <1>5, <1>6 DEF Held

LEMMA HeldReceive ==
    ASSUME Inv, NEW w \in Workers, Receive(w)
    PROVE  Held'
PROOF
  <1>1. PICK m \in queue :
          /\ queue' = queue \ {m} /\ locked' = locked \cup {m}
          /\ task' = [task EXCEPT ![w] = [at |-> "process", msg |-> m, held |-> TRUE]]
    BY DEF Receive
  <1>2. UNCHANGED <<published, runs, lapses, faults, unlisted>> /\ task[w].at = "idle"
    BY DEF Receive, historyVars
  <1>3. /\ task'[w].at = "process" /\ task'[w].msg = m /\ task'[w].held = TRUE
        /\ \A v \in Workers : v # w => task'[v] = task[v]
    BY <1>1 DEF Inv, Types, TaskType
  <1>4. m # 0 /\ m \notin locked
    BY DEF Inv, Types, BrokerType, Held, Locks
  <1>5. Hands'
    BY <1>3, <1>4 DEF Inv, Held, Hands, Idle
  <1>6. Locks'
    BY <1>1, <1>3, <1>4 DEF Inv, Held, Locks
  <1>7. Ends' /\ Unborn'
    BY <1>2, <1>3 DEF Inv, Held, Ends, Unborn
  <1>8. Paid'
    <2> SUFFICES ASSUME NEW n \in Messages
                 PROVE  Cardinality(InHand(n)') + runs'[n] <= lapses'[n] + faults'[n] + Allowed(n)'
      BY DEF Paid
    <2>1. CASE n = m
      <3>1. InHand(n)' = InHand(n) \cup {w} /\ w \notin InHand(n)
        BY <1>2, <1>3, <2>1 DEF InHand
      <3>2. Cardinality(InHand(n)') = Cardinality(InHand(n)) + 1
        BY <3>1, OneMore, InHandFinite
      <3>3. Allowed(n) = 0
        BY <2>1 DEF Allowed, Again
      <3>4. ~Again(n)'
        BY <1>1, <1>3, <1>4, <2>1 DEF Again, Inv, Held, Locks
      <3>5. Allowed(n)' = 1
        BY <3>4 DEF Allowed
      <3> QED
        BY <1>2, <3>2, <3>3, <3>5, Numbers DEF Inv, Types, Held, Paid
    <2>2. CASE n # m
      <3>1. InHand(n)' = InHand(n)
        BY <1>2, <1>3, <2>2 DEF InHand
      <3>2. Again(n)' => Again(n)
        BY <1>1, <1>3, <2>2 DEF Again
      <3>3. Allowed(n)' = 1 \/ Allowed(n)' = Allowed(n)
        BY <3>2 DEF Allowed
      <3> QED
        BY <1>2, <3>1, <3>3, Numbers DEF Inv, Types, Held, Paid
    <2> QED
      BY <2>1, <2>2
  <1> QED
    BY <1>5, <1>6, <1>7, <1>8 DEF Held

LEMMA HeldProcessEvent ==
    ASSUME Inv, NEW w \in Workers, ProcessEvent(w)
    PROVE  Held'
PROOF
  <1> DEFINE m == task[w].msg
  <1>1. PICK o \in Meets[known[published[m]]] :
          /\ task' = [task EXCEPT ![w].at = o]
          /\ runs' = IF o = "handled" THEN [runs EXCEPT ![m] = @ + 1] ELSE runs
          /\ unlisted' = IF o = "empty" THEN unlisted \cup {m} ELSE unlisted
    BY DEF ProcessEvent
  <1>2. task[w].at = "process" /\ UNCHANGED <<published, queue, locked, lapses, faults>>
    BY DEF ProcessEvent, brokerVars
  <1>3. m # 0 /\ m \in 1..Len(published) /\ m \in Messages /\ Len(published) \in Nat
    <2>1. m # 0
      BY <1>2 DEF Inv, Held, Hands
    <2> QED
      BY <2>1, BusAssumption DEF Inv, Types, TaskType, Task, BrokerType, Messages
  <1>4. o \in Outcomes
    <2>1. known[published[m]] \in Known
      BY <1>3 DEF Inv, Types, BrokerType, StartupType, Registered
    <2> QED
      BY <1>1, <2>1 DEF Meets, Known, Outcomes
  <1>5. /\ task'[w].at = o /\ task'[w].msg = m /\ task'[w].held = task[w].held
        /\ \A v \in Workers : v # w => task'[v] = task[v]
    BY <1>1 DEF Inv, Types, TaskType, Task
  <1>6. Hands'
    BY <1>3, <1>4, <1>5 DEF Inv, Held, Hands, Outcomes
  <1>7. Locks'
    BY <1>2, <1>5 DEF Inv, Held, Locks
  <1>8. /\ \A n \in Messages : n # m => runs'[n] = runs[n]
        /\ runs'[m] = IF o = "handled" THEN runs[m] + 1 ELSE runs[m]
        /\ \A n \in Messages : runs[n] \in Nat /\ (runs[n] > 0 => runs'[n] > 0)
    BY <1>1, <1>3 DEF Inv, Types, HistoryType
  <1>9. Unborn'
    BY <1>2, <1>3, <1>8 DEF Inv, Held, Unborn
  <1>10. Ends'
    <2>1. \A v \in Workers : task[v].at # "idle" => task[v].msg \in Messages
      BY BusAssumption DEF Inv, Types, TaskType, Task, BrokerType, Held, Hands, Messages
    <2>2. \A v \in Workers : v # w =>
             /\ task'[v].at = "handled" => runs'[task'[v].msg] > 0
             /\ task'[v].at = "empty" => task'[v].msg \in unlisted'
      BY <1>1, <1>5, <1>8, <2>1 DEF Inv, Held, Ends
    <2>3. o = "handled" => runs'[m] > 0
      BY <1>3, <1>8
    <2>4. o = "empty" => m \in unlisted'
      BY <1>1
    <2> QED
      BY <1>5, <2>2, <2>3, <2>4 DEF Ends
  <1>11. Paid'
    <2> SUFFICES ASSUME NEW n \in Messages
                 PROVE  Cardinality(InHand(n)') + runs'[n] <= lapses'[n] + faults'[n] + Allowed(n)'
      BY DEF Paid
    <2>1. CASE n = m
      <3>1. InHand(n)' = InHand(n) \ {w} /\ w \in InHand(n)
        BY <1>2, <1>4, <1>5, <2>1 DEF InHand, Outcomes
      <3>2. Cardinality(InHand(n)') = Cardinality(InHand(n)) - 1
        BY <3>1, OneLess, InHandFinite
      <3>3. Again(n)' => Again(n) \/ o = "threw"
        BY <1>2, <1>5, <2>1 DEF Again
      <3>4. Allowed(n)' = 1 \/ Allowed(n)' = Allowed(n) \/ (o # "handled" /\ Allowed(n)' = 0)
        BY <3>3 DEF Allowed
      <3> QED
        BY <1>2, <1>8, <2>1, <3>2, <3>4, Numbers DEF Inv, Types, Held, Paid
    <2>2. CASE n # m
      <3>1. InHand(n)' = InHand(n)
        BY <1>5, <2>2 DEF InHand
      <3>2. Again(n)' => Again(n)
        BY <1>2, <1>5, <2>2 DEF Again
      <3>3. Allowed(n)' = 1 \/ Allowed(n)' = Allowed(n)
        BY <3>2 DEF Allowed
      <3> QED
        BY <1>2, <1>8, <2>2, <3>1, <3>3, Numbers DEF Inv, Types, Held, Paid
    <2> QED
      BY <2>1, <2>2
  <1> QED
    BY <1>6, <1>7, <1>9, <1>10, <1>11 DEF Held

\* A request to complete a message fails: with the lock held the failure pays for the next
\* run, and a lock that is lost has been paid for.
LEMMA HeldThrew ==
    ASSUME Inv, NEW w \in Workers, CompleteFails(w) \/ CompleteUnanswered(w)
    PROVE  Held'
PROOF
  <1> DEFINE m == task[w].msg
  <1>1. /\ task[w].at \in {"handled", "empty"}
        /\ \A v \in Workers : v # w => task'[v] = task[v]
    BY ThrewType DEF Inv, CompleteFails, CompleteUnanswered, Processed
  <1>2. /\ task'[w].at = "threw" /\ task'[w].msg = m
        /\ task'[w].held => task[w].held
    BY ThrewType DEF Inv
  <1>3. UNCHANGED <<published, queue, runs, lapses, unlisted>>
    BY DEF CompleteFails, CompleteUnanswered, brokerVars
  <1>4. m # 0 /\ m \in Messages
    <2>1. m # 0
      BY <1>1 DEF Inv, Held, Hands
    <2> QED
      BY <2>1, BusAssumption DEF Inv, Types, TaskType, Task, BrokerType, Messages
  <1>5. \/ locked' = locked
        \/ locked' = locked \ {m} /\ task[w].held /\ task'[w].held = FALSE
    BY DEF CompleteFails, CompleteUnanswered, brokerVars, Inv, Types, TaskType, Task
  <1>6. \/ faults' = faults /\ task'[w].held = FALSE
        \/ faults' = [faults EXCEPT ![m] = @ + 1]
    BY DEF CompleteFails, CompleteUnanswered, Inv, Types, TaskType, Task
  <1>7. Hands'
    BY <1>1, <1>2, <1>4 DEF Inv, Held, Hands
  <1>8. Locks'
    BY <1>1, <1>2, <1>3, <1>5 DEF Inv, Held, Locks
  <1>9. Ends' /\ Unborn'
    BY <1>1, <1>2, <1>3 DEF Inv, Held, Ends, Unborn
  <1>10. Paid'
    <2> SUFFICES ASSUME NEW n \in Messages
                 PROVE  Cardinality(InHand(n)') + runs'[n] <= lapses'[n] + faults'[n] + Allowed(n)'
      BY DEF Paid
    <2>1. InHand(n)' = InHand(n)
      BY <1>1, <1>2 DEF InHand
    <2>2. CASE n = m /\ faults' = [faults EXCEPT ![m] = @ + 1]
      <3>1. faults'[n] = faults[n] + 1
        BY <2>2 DEF Inv, Types, HistoryType
      <3>2. Allowed(n)' \in {0, 1}
        BY DEF Allowed
      <3> QED
        BY <1>3, <2>1, <3>1, <3>2, Numbers DEF Inv, Types, Held, Paid
    <2>3. CASE n # m \/ (faults' = faults /\ task'[w].held = FALSE)
      <3>1. Again(n)' => Again(n)
        BY <1>1, <1>2, <1>3, <2>3 DEF Again
      <3>2. Allowed(n)' = 1 \/ Allowed(n)' = Allowed(n)
        BY <3>1 DEF Allowed
      <3>3. faults'[n] = faults[n]
        BY <1>6, <2>3 DEF Inv, Types, HistoryType
      <3> QED
        BY <1>3, <2>1, <3>2, <3>3, Numbers DEF Inv, Types, Held, Paid
    <2> QED
      BY <1>6, <2>2, <2>3
  <1> QED
    BY <1>7, <1>8, <1>9, <1>10 DEF Held

LEMMA HeldEnd ==
    ASSUME Inv, NEW w \in Workers, Ending(w)
    PROVE  Held'
PROOF
  <1> DEFINE m == task[w].msg
  <1>1. /\ task' = [task EXCEPT ![w] = Idle]
        /\ UNCHANGED <<published, runs, lapses, faults, unlisted>>
    BY DEF Ending, CompleteAsync, Leave, Abandon, AbandonFails, historyVars, brokerVars
  <1>2. /\ task'[w] = Idle /\ Idle.at = "idle" /\ Idle.held = FALSE
        /\ \A v \in Workers : v # w => task'[v] = task[v]
    BY <1>1 DEF Inv, Types, TaskType, Idle
  <1>3. /\ task[w].at # "process"
        /\ \/ locked' = locked /\ queue' = queue
           \/ task[w].held /\ locked' = locked \ {m}
              /\ (queue' = queue \/ (queue' = queue \cup {m} /\ task[w].at = "threw"))
    BY DEF Ending, CompleteAsync, Leave, Abandon, AbandonFails, GiveBack, brokerVars, Processed
  <1>4. Hands'
    BY <1>2 DEF Inv, Held, Hands, Idle
  <1>5. Locks'
    BY <1>2, <1>3 DEF Inv, Held, Locks
  <1>6. Ends' /\ Unborn'
    BY <1>1, <1>2 DEF Inv, Held, Ends, Unborn
  <1>7. Paid'
    <2> SUFFICES ASSUME NEW n \in Messages
                 PROVE  Cardinality(InHand(n)') + runs'[n] <= lapses'[n] + faults'[n] + Allowed(n)'
      BY DEF Paid
    <2>1. InHand(n)' = InHand(n)
      BY <1>2, <1>3 DEF InHand
    <2>2. Again(n)' => Again(n)
      BY <1>2, <1>3 DEF Again
    <2>3. Allowed(n)' = 1 \/ Allowed(n)' = Allowed(n)
      BY <2>2 DEF Allowed
    <2> QED
      BY <1>1, <2>1, <2>3, Numbers DEF Inv, Types, Held, Paid
  <1> QED
    BY <1>4, <1>5, <1>6, <1>7 DEF Held

LEMMA InvStep ==
    ASSUME Inv, [Next]_vars
    PROVE  Inv'
PROOF
  <1>1. CASE UNCHANGED vars
    <2>1. UNCHANGED <<brokerVars, startupVars, task, historyVars>>
      BY <1>1 DEF vars
    <2>2. Types'
      BY <2>1, BrokerSame, StartupSame, HistorySame, TaskSame DEF Inv, Types, brokerVars
    <2> QED
      BY <2>1, <2>2, HeldSame DEF Inv, brokerVars, historyVars
  <1>2. ASSUME NEW e \in Events, Publish(e) PROVE Inv'
    BY <1>2, TypePublish, HeldPublish DEF Inv
  <1>3. ASSUME NEW m \in Messages, LockExpires(m) PROVE Inv'
    BY <1>3, TypeLockExpires, HeldLockExpires DEF Inv
  <1>4. CASE Startup
    <2>1. UNCHANGED <<brokerVars, task, historyVars>>
      BY <1>4 DEF Startup, RemoveDefaultRule, RegisterSubscriptionClientMessageHandler, AddRule,
                  AddSubscription
    <2> QED
      BY <1>4, <2>1, TypeStartup, HeldSame DEF Inv, brokerVars, historyVars
  <1>5. CASE Restart
    BY <1>5, TypeRestart, HeldRestart DEF Inv
  <1>6. ASSUME NEW w \in Workers, Receive(w) PROVE Inv'
    BY <1>6, TypeReceive, HeldReceive DEF Inv
  <1>7. ASSUME NEW w \in Workers, ProcessEvent(w) PROVE Inv'
    <2>1. task[w].msg # 0
      BY <1>7 DEF ProcessEvent, Inv, Held, Hands
    <2> QED
      BY <1>7, <2>1, TypeProcessEvent, HeldProcessEvent DEF Inv
  <1>8. ASSUME NEW w \in Workers, CompleteFails(w) \/ CompleteUnanswered(w) PROVE Inv'
    <2>1. task[w].msg # 0
      BY <1>8 DEF CompleteFails, CompleteUnanswered, Processed, Inv, Held, Hands
    <2> QED
      BY <1>8, <2>1, TypeThrew, HeldThrew DEF Inv
  <1>9. ASSUME NEW w \in Workers, Ending(w) PROVE Inv'
    <2>1. task[w].at # "idle" /\ task[w].msg # 0
      BY <1>9 DEF Ending, CompleteAsync, Leave, Abandon, AbandonFails, Processed, Inv, Held, Hands
    <2> QED
      BY <1>9, <2>1, TypeEnd, HeldEnd DEF Inv
  <1> QED
    BY <1>1, <1>2, <1>3, <1>4, <1>5, <1>6, <1>7, <1>8, <1>9 DEF Next, Work, Ending

LEMMA InvHolds == Spec => []Inv
PROOF
  <1>1. Init => Inv
    BY InvInit
  <1>2. Inv /\ [Next]_vars => Inv'
    BY InvStep
  <1> QED
    BY <1>1, <1>2, PTL DEF Spec

-----------------------------------------------------------------------------
(* The theorems *)

\* Every variable of the bus keeps the values its code gives it, for any Subscribe calls,
\* handlers at a time, deliveries and restarts.
THEOREM TypeCorrect == Spec => []TypeOK
PROOF
  <1>1. Inv => TypeOK
    BY TypesAreTypeOK DEF Inv
  <1> QED
    BY <1>1, InvHolds, PTL

\* EventBusServiceBus.cs:141-145, however many handlers run at a time and whatever throws or
\* restarts: every run of a message after its first is paid for by a lock of it that has
\* expired or a request to complete it that has failed.
THEOREM RepeatsCaused == Spec => []RepeatsAreCaused
PROOF
  <1>1. Inv => RepeatsAreCaused
    <2> SUFFICES ASSUME Inv, NEW m \in Messages
                 PROVE  runs[m] <= 1 + lapses[m] + faults[m]
      BY DEF RepeatsAreCaused
    <2>1. /\ Cardinality(InHand(m)) \in Nat /\ Allowed(m) <= 1 /\ Allowed(m) \in Nat
          /\ runs[m] \in Nat /\ lapses[m] \in Nat /\ faults[m] \in Nat
      BY InHandFinite DEF Inv, Types, HistoryType, Allowed
    <2> QED
      BY <2>1 DEF Inv, Held, Paid
  <1> QED
    BY <1>1, InvHolds, PTL

-----------------------------------------------------------------------------
(* The promise of the bus *)

\* The messages a handler has handled.
Ran == {m \in Messages : runs[m] > 0}

LEMMA PromiseSame ==
    ASSUME UNCHANGED <<published, runs, completed, unlisted>>
    PROVE  UNCHANGED Delivered!vars
PROOF
  <1>1. Ran' = Ran
    BY DEF Ran
  <1> QED
    BY <1>1, Zenon DEF Delivered!vars, Ran

LEMMA PromisePublish ==
    ASSUME Inv, NEW e \in Events, Publish(e)
    PROVE  Delivered!Next
PROOF
  <1>1. /\ published' = Append(published, e) /\ Len(published) < MaxMessages
        /\ UNCHANGED <<runs, completed, unlisted>>
    BY DEF Publish, historyVars
  <1>2. Len(published) \in Nat /\ Len(published') = Len(published) + 1
    BY <1>1, PublishedGrows DEF Inv, Types, BrokerType
  <1>3. Len(published') \in Messages \ (1..Len(published))
    BY <1>1, <1>2, BusAssumption DEF Messages
  <1>4. 1..Len(published') = (1..Len(published)) \cup {Len(published')}
    BY <1>2
  <1>5. UNCHANGED <<Ran, completed, unlisted>>
    BY <1>1 DEF Ran
  <1> QED
    BY <1>3, <1>4, <1>5, Zenon DEF Delivered!Next, Delivered!Send, Ran

LEMMA PromiseProcessEvent ==
    ASSUME Inv, NEW w \in Workers, ProcessEvent(w)
    PROVE  [Delivered!Next]_(Delivered!vars)
PROOF
  <1> DEFINE m == task[w].msg
  <1>1. PICK o \in Meets[known[published[m]]] :
          /\ runs' = IF o = "handled" THEN [runs EXCEPT ![m] = @ + 1] ELSE runs
          /\ unlisted' = IF o = "empty" THEN unlisted \cup {m} ELSE unlisted
    BY DEF ProcessEvent
  <1>2. task[w].at = "process" /\ UNCHANGED <<published, completed>>
    BY DEF ProcessEvent, brokerVars
  <1>3. m \in 1..Len(published) /\ m \in Messages
    BY <1>2, BusAssumption
    DEF Inv, Types, TaskType, Task, BrokerType, Held, Hands, Messages
  <1>4. UNCHANGED (1..Len(published))
    BY <1>2
  <1>5. CASE o = "handled"
    <2>1. Ran' = Ran \cup {m} /\ unlisted' = unlisted
      <3>1. /\ runs \in [Messages -> Nat] /\ runs' = [runs EXCEPT ![m] = runs[m] + 1]
            /\ unlisted' = unlisted
        BY <1>1, <1>5 DEF Inv, Types, HistoryType
      <3>2. runs'[m] > 0 /\ \A n \in Messages \ {m} : runs'[n] = runs[n]
        BY <3>1, <1>3
      <3> QED
        BY <3>1, <3>2, <1>3 DEF Ran
    <2>2. CASE m \in Ran
      <3>1. Ran' = Ran
        BY <2>1, <2>2
      <3> QED
        BY <1>2, <2>1, <3>1, <1>4, Zenon DEF Delivered!vars, Ran
    <2>3. CASE m \notin Ran
      <3>1. m \in (1..Len(published)) \ Ran
        BY <1>3, <2>3
      <3> QED
        BY <1>2, <1>4, <2>1, <3>1, Zenon DEF Delivered!Next, Delivered!Run, Ran
    <2> QED
      BY <2>2, <2>3
  <1>6. CASE o = "empty"
    <2>1. Ran' = Ran /\ unlisted' = unlisted \cup {m}
      BY <1>1, <1>6 DEF Ran
    <2>2. unlisted' \in SUBSET Messages /\ unlisted \subseteq unlisted'
      <3>1. unlisted \subseteq 1..Len(published) /\ Len(published) <= MaxMessages
        BY DEF Inv, Types, HistoryType, BrokerType
      <3>2. 1..Len(published) \subseteq Messages
        BY <3>1, BusAssumption DEF Inv, Types, BrokerType, Messages
      <3>3. unlisted' \subseteq Messages
        BY <1>3, <2>1, <3>1, <3>2
      <3> QED
        BY <2>1, <3>3
    <2> QED
      BY <1>2, <1>4, <2>1, <2>2, Zenon DEF Delivered!Next, Delivered!Excuse, Ran
  <1>7. CASE o # "empty" /\ o # "handled"
    BY <1>1, <1>2, <1>7, PromiseSame
  <1> QED
    BY <1>5, <1>6, <1>7

\* What CompleteAsync takes off has been handled, or met an entry without a handler.
LEMMA PromiseCompleteAsync ==
    ASSUME Inv, NEW w \in Workers, CompleteAsync(w) \/ CompleteUnanswered(w)
    PROVE  [Delivered!Next]_(Delivered!vars)
PROOF
  <1> DEFINE m == task[w].msg
  <1>1. /\ task[w].at \in {"handled", "empty"}
        /\ completed' = completed \cup {m}
        /\ UNCHANGED <<published, runs, unlisted>>
    BY DEF CompleteAsync, CompleteUnanswered, Processed
  <1>2. m \in 1..Len(published) /\ m \in Messages
    BY <1>1, BusAssumption
    DEF Inv, Types, TaskType, Task, BrokerType, Held, Hands, Messages
  <1>3. m \in Ran \cup unlisted
    BY <1>1, <1>2 DEF Inv, Held, Ends, Ran
  <1>4. UNCHANGED Ran /\ UNCHANGED (1..Len(published))
    BY <1>1 DEF Ran
  <1>5. CASE m \in completed
    <2>1. completed' = completed
      BY <1>1, <1>5
    <2> QED
      BY <1>1, <2>1, PromiseSame
  <1>6. CASE m \notin completed
    <2>1. m \in ((1..Len(published)) \ completed) \cap (Ran \cup unlisted)
      BY <1>2, <1>3, <1>6
    <2> QED
      BY <1>1, <1>4, <2>1, Zenon DEF Delivered!Next, Delivered!TakeOff, Ran
  <1> QED
    BY <1>5, <1>6

LEMMA PromiseStep ==
    ASSUME Inv, [Next]_vars
    PROVE  [Delivered!Next]_(Delivered!vars)
PROOF
  <1>1. CASE UNCHANGED vars
    BY <1>1, PromiseSame DEF vars, brokerVars, historyVars
  <1>2. ASSUME NEW e \in Events, Publish(e) PROVE [Delivered!Next]_(Delivered!vars)
    BY <1>2, PromisePublish
  <1>3. CASE Startup \/ Restart \/ \E m \in Messages : LockExpires(m)
    BY <1>3, PromiseSame
    DEF Startup, RemoveDefaultRule, RegisterSubscriptionClientMessageHandler, AddRule,
        AddSubscription, Restart, LockExpires, brokerVars, historyVars
  <1>4. ASSUME NEW w \in Workers,
               Receive(w) \/ Leave(w) \/ Abandon(w) \/ AbandonFails(w) \/ CompleteFails(w)
        PROVE  [Delivered!Next]_(Delivered!vars)
    BY <1>4, PromiseSame
    DEF Receive, Leave, Abandon, AbandonFails, CompleteFails, brokerVars, historyVars
  <1>5. ASSUME NEW w \in Workers,
               ProcessEvent(w) \/ CompleteAsync(w) \/ CompleteUnanswered(w)
        PROVE  [Delivered!Next]_(Delivered!vars)
    BY <1>5, PromiseProcessEvent, PromiseCompleteAsync
  <1> QED
    BY <1>1, <1>2, <1>3, <1>4, <1>5 DEF Next, Work

LEMMA PromiseInit == Init => Delivered!Init
PROOF
  <1>1. Init => published = <<>> /\ Ran = {} /\ completed = {} /\ unlisted = {}
    BY DEF Init, Ran
  <1>2. published = <<>> => 1..Len(published) = {}
    OBVIOUS
  <1> QED
    BY <1>1, <1>2, Zenon DEF Delivered!Init, Ran

\* The subscription with its locks implements the promise of the bus: a message is
\* completed only after its handler has succeeded, or in the moment in which its name has
\* an entry and no handler yet.
THEOREM DeliveryPromised == Spec => DeliveryPromise
PROOF
  <1>1. Init => Delivered!Init
    BY PromiseInit
  <1>2. Inv /\ [Next]_vars => [Delivered!Next]_(Delivered!vars)
    BY PromiseStep
  <1>3. Spec => []Inv
    BY InvHolds
  <1> QED
    BY <1>1, <1>2, <1>3, PTL DEF Spec, DeliveryPromise, Delivered!Spec
=============================================================================
