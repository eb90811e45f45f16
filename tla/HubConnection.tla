---------------------------- MODULE HubConnection ----------------------------
(***************************************************************************)
(* The SignalR client the pages of WebMVC carry in site.js, over its long  *)
(* polling transport: HubConnection on HttpConnection on                   *)
(* LongPollingTransport, as the script of _Layout.cshtml uses them.  It    *)
(* calls start() once, registers its handler when the promise is           *)
(* fulfilled, calls no hub method and never stop().                        *)
(*                                                                         *)
(* The script runs to the end of its promise jobs before it takes an       *)
(* answer off the network (Idle).  The hub's end of the connection is      *)
(* external, modelled by what the client can see of it.                    *)
(***************************************************************************)
EXTENDS Naturals, Sequences

CONSTANTS
    MaxNotices,   \* bound: messages the hub sends
    MaxTimeouts   \* bound: polls the client gives up

VARIABLES
    start,        \* where start() is
    hub,          \* HubConnection.connectionState
    http,         \* HttpConnection.connectionState
    handshake,    \* the promise handshakePromise
    received,     \* receivedHandshakeResponse
    transport,    \* HttpConnection.transport is set
    running,      \* LongPollingTransport.running
    aborted,      \* pollAbort.aborted
    poll,         \* where the loop of poll() is
    stop,         \* where HttpConnection.stop() is
    listening,    \* the page's handler is in methods
    heard,        \* what the handler was called with
    ends,         \* calls of connectionClosed
    request,      \* the POST of the handshake: "none", "sent", "arrived"
    peer,         \* the hub's end: "none", "open", "shaken", "joined", "gone"
    out,          \* what the hub has written and no poll has brought
    notices,      \* the messages the hub has sent
    timeouts,     \* polls given up
    crashed       \* the hub's process has gone down

client == <<hub, http, handshake, received, transport, running, aborted, poll, stop, heard, ends>>
network == <<request, peer, out, notices, timeouts, crashed>>
vars == <<start, listening, client, network>>

Handshake == [type |-> "handshake"]
Refusal == [type |-> "refusal"]
Close == [type |-> "close"]
Notice(n) == [type |-> "invocation", id |-> n]
Notices == {Notice(n) : n \in 1..MaxNotices}

Init ==
    /\ start = "new" /\ hub = "Disconnected" /\ http = "Disconnected"
    /\ handshake = "pending" /\ received = FALSE
    /\ transport = FALSE /\ running = FALSE /\ aborted = FALSE /\ poll = "none"
    /\ stop = "none" /\ listening = FALSE /\ heard = <<>> /\ ends = 0
    /\ request = "none" /\ peer = "none" /\ out = <<>> /\ notices = 0
    /\ timeouts = 0 /\ crashed = FALSE

\* No promise job is left: the script waits for the network.
Idle ==
    /\ ~(start = "handshake" /\ handshake # "pending")
    /\ poll # "next" /\ stop # "called" /\ ~(stop = "receiving" /\ poll = "over")

-----------------------------------------------------------------------------
(* start() *)

\* HubConnection.start, HttpConnection.start: the POST of negotiate is on its way.
Start ==
    /\ start = "new" /\ start' = "negotiate" /\ http' = "Connecting"
    /\ UNCHANGED <<listening, hub, handshake, received, transport, running, aborted, poll,
                   stop, heard, ends, network>>

\* startInternal throws: negotiate was not answered with 200, or the first poll failed and
\* long polling is the last transport of the list.
StartFails ==
    /\ start \in {"negotiate", "connect"} /\ Idle
    /\ start' = "rejected" /\ http' = "Disconnected" /\ transport' = FALSE
    /\ UNCHANGED <<listening, hub, handshake, received, running, aborted, poll, stop, heard,
                   ends, network>>

\* Negotiate has been answered; connect() sends the first poll.
Negotiated ==
    /\ start = "negotiate" /\ Idle
    /\ start' = "connect" /\ transport' = TRUE /\ peer' = "open"
    /\ UNCHANGED <<listening, hub, http, handshake, received, running, aborted, poll, stop,
                   heard, ends, request, out, notices, timeouts, crashed>>

\* The first poll was answered with 200: the loop begins, the handshake is sent.
Connected ==
    /\ start = "connect" /\ Idle
    /\ start' = "post" /\ http' = "Connected" /\ running' = TRUE /\ poll' = "next"
    /\ request' = "sent"
    /\ UNCHANGED <<listening, hub, handshake, received, transport, aborted, stop, heard, ends,
                   peer, out, notices, timeouts, crashed>>

\* The first poll was answered with 204: poll() ends before onclose is set, so that nobody
\* hears of it, and the transport refuses to send the handshake.
ConnectedToNothing ==
    /\ start = "connect" /\ Idle /\ peer = "gone"
    /\ start' = "rejected" /\ http' = "Connected" /\ poll' = "over"
    /\ UNCHANGED <<listening, hub, handshake, received, transport, running, aborted, stop,
                   heard, ends, network>>

\* The POST of the handshake was answered: start() waits for handshakePromise.
Posted ==
    /\ start = "post" /\ Idle /\ request = "arrived"
    /\ start' = "handshake"
    /\ UNCHANGED <<listening, client, network>>

\* The POST failed: start() rejects, and the transport goes on polling.
PostFails ==
    /\ start = "post" /\ Idle
    /\ start' = "rejected"
    /\ UNCHANGED <<listening, client, network>>

\* handshakePromise is settled.  The page registers its handler in the job that follows.
Shaken ==
    /\ start = "handshake" /\ handshake # "pending"
    /\ IF handshake = "resolved"
       THEN start' = "resolved" /\ hub' = "Connected" /\ listening' = TRUE
       ELSE start' = "rejected" /\ UNCHANGED <<hub, listening>>
    /\ UNCHANGED <<http, handshake, received, transport, running, aborted, poll, stop, heard,
                   ends, network>>

-----------------------------------------------------------------------------
(* The poll loop *)

Settle(outcome) == handshake' = IF handshake = "pending" THEN outcome ELSE handshake

\* Mutant: connectionClosed leaves the promise of the handshake alone.
ConnectionClosedMutant ==
    /\ transport' = FALSE /\ http' = "Disconnected" /\ hub' = "Disconnected"
    /\ ends' = ends + 1 /\ UNCHANGED handshake

\* stopConnection and connectionClosed.
ConnectionClosed ==
    /\ transport' = FALSE /\ http' = "Disconnected" /\ hub' = "Disconnected"
    /\ ends' = ends + 1 /\ Settle("rejected")

\* Mutant: the end of the loop announces the close whoever has ended it.
PollingCompleteMutant == poll' = "over" /\ running' = FALSE /\ ConnectionClosed

\* The loop ends and, unless stop() has aborted it, announces the close.
PollingComplete ==
    /\ poll' = "over" /\ running' = FALSE
    /\ IF aborted THEN UNCHANGED <<transport, http, hub, ends, handshake>> ELSE ConnectionClosed

\* The next turn: the client sends a poll, or refuses because the signal is aborted.
NextPoll ==
    /\ poll = "next"
    /\ \/ /\ ~aborted /\ poll' = "get"
          /\ UNCHANGED <<running, transport, http, hub, ends, handshake>>
       \/ aborted /\ PollingComplete
    /\ UNCHANGED <<start, listening, received, aborted, stop, heard, network>>

IsNotice(m) == m.type = "invocation"

\* The notices of what the hub has written: the handshake, or its refusal, comes before
\* them and a close behind them.
NoticesOf(written) ==
    LET n == Len(written)
    IN  SubSeq(written, IF n > 0 /\ ~IsNotice(written[1]) THEN 2 ELSE 1,
                        IF n > 0 /\ ~IsNotice(written[n]) THEN n - 1 ELSE n)

\* invokeClientMethod for each message; without a handler it is dropped.
Invoke(batch) == heard' = IF listening THEN heard \o batch ELSE heard

\* HttpConnection.stop(): the rest of it waits for startPromise, which is fulfilled.
StopCalled == stop' = "called"

\* processIncomingData throws at a first message that accepts no handshake: the error ends
\* the loop before stop() goes on.
HandshakeThrows(batch) ==
    /\ ~received /\ batch[1] # Handshake
    /\ PollingComplete /\ StopCalled
    /\ UNCHANGED <<received, heard>>

\* processIncomingData; a close message calls HttpConnection.stop().
Processed(batch) ==
    /\ received \/ batch[1] = Handshake
    /\ received' = TRUE /\ Settle("resolved")
    /\ Invoke(NoticesOf(batch))
    /\ IF \E i \in DOMAIN batch : batch[i] = Close
       THEN http' = "Disconnected" /\ StopCalled
       ELSE UNCHANGED <<http, stop>>
    /\ poll' = "next"
    /\ UNCHANGED <<running, transport, hub, ends>>

\* A poll was answered with data, what the hub had written until then.
PollAnswered ==
    /\ poll = "get" /\ Idle
    /\ \E k \in 1..Len(out) :
          /\ HandshakeThrows(SubSeq(out, 1, k)) \/ Processed(SubSeq(out, 1, k))
          /\ out' = SubSeq(out, k + 1, Len(out))
    /\ UNCHANGED <<start, listening, aborted, request, peer, notices, timeouts, crashed>>

\* A poll was answered with 204, or with an error as the hub has forgotten the connection, or
\* not at all.
PollEnded ==
    /\ poll = "get" /\ Idle
    /\ PollingComplete
    /\ UNCHANGED <<start, listening, received, aborted, stop, heard, network>>

\* The client gives the poll up after 100 seconds and sends another one; an answer that was
\* on its way is lost.
PollTimesOut ==
    /\ poll = "get" /\ Idle /\ timeouts < MaxTimeouts
    /\ poll' = "next" /\ timeouts' = timeouts + 1
    /\ \E k \in 0..Len(out) : out' = SubSeq(out, k + 1, Len(out))
    /\ UNCHANGED <<start, listening, hub, http, handshake, received, transport, running,
                   aborted, stop, heard, ends, request, peer, notices, crashed>>

-----------------------------------------------------------------------------
(* stop(), called for a close message or a refused handshake *)

\* LongPollingTransport.stop(): the poll on its way is aborted and ends the loop, which
\* leaves the close to stop().  The transport may have closed before.
Stop ==
    /\ stop = "called"
    /\ IF transport
       THEN /\ stop' = "receiving" /\ running' = FALSE /\ aborted' = TRUE
            /\ poll' = IF poll = "get" THEN "over" ELSE poll
       ELSE stop' = "done" /\ UNCHANGED <<running, aborted, poll>>
    /\ UNCHANGED <<start, listening, hub, http, handshake, received, transport, heard, ends,
                   network>>

\* The loop is over: DELETE is sent.
Delete ==
    /\ stop = "receiving" /\ poll = "over" /\ stop' = "delete"
    /\ UNCHANGED <<start, listening, hub, http, handshake, received, transport, running,
                   aborted, poll, heard, ends, network>>

\* DELETE was answered or has failed; either way the close is announced.
Deleted ==
    /\ stop = "delete" /\ Idle
    /\ stop' = "done" /\ peer' = "gone" /\ ConnectionClosed
    /\ UNCHANGED <<start, listening, received, running, aborted, poll, heard, request, out,
                   notices, timeouts, crashed>>

-----------------------------------------------------------------------------
(* The hub's end (external) *)

\* The request of the handshake arrives and is accepted.
AcceptHandshake ==
    /\ request = "sent" /\ peer = "open"
    /\ request' = "arrived" /\ peer' = "shaken" /\ out' = Append(out, Handshake)
    /\ UNCHANGED <<start, listening, client, notices, timeouts, crashed>>

\* The time for the handshake is over.
RefuseHandshake ==
    /\ peer = "open" /\ peer' = "gone" /\ out' = Append(out, Refusal)
    /\ UNCHANGED <<start, listening, client, request, notices, timeouts, crashed>>

\* OnConnectedAsync: the connection joins the group of its user.
OnConnectedAsync ==
    /\ peer = "shaken" /\ peer' = "joined"
    /\ UNCHANGED <<start, listening, client, request, out, notices, timeouts, crashed>>

\* An order changes its status: SendAsync to the group.
SendNotice ==
    /\ peer = "joined" /\ notices < MaxNotices
    /\ notices' = notices + 1 /\ out' = Append(out, Notice(notices'))
    /\ UNCHANGED <<start, listening, client, request, peer, timeouts, crashed>>

\* The hub closes the connection.
HubCloses ==
    /\ peer \in {"shaken", "joined"} /\ peer' = "gone" /\ out' = Append(out, Close)
    /\ UNCHANGED <<start, listening, client, request, notices, timeouts, crashed>>

\* The hub's process goes down, with what it has written.
HubCrashes ==
    /\ peer \in {"open", "shaken", "joined"} /\ peer' = "gone" /\ out' = <<>>
    /\ crashed' = TRUE
    /\ UNCHANGED <<start, listening, client, request, notices, timeouts>>

-----------------------------------------------------------------------------
Client == Negotiated \/ Connected \/ ConnectedToNothing \/ StartFails \/ Posted \/ PostFails
Jobs == Shaken \/ NextPoll \/ Stop \/ Delete
Loop == PollAnswered \/ (peer = "gone" /\ out = <<>> /\ PollEnded)
Hub == AcceptHandshake \/ RefuseHandshake

Next ==
    \/ Start \/ Client \/ Jobs \/ PollAnswered \/ PollEnded \/ PollTimesOut \/ Deleted
    \/ Hub \/ OnConnectedAsync \/ SendNotice \/ HubCloses \/ HubCrashes

\* Promise jobs run, a request is answered or fails in the end, the hub gives a handshake
\* up that does not come.
Fairness == WF_vars(Client) /\ WF_vars(Jobs) /\ WF_vars(Loop) /\ WF_vars(Deleted) /\ WF_vars(Hub)

Spec == Init /\ [][Next]_vars /\ Fairness

-----------------------------------------------------------------------------
(* Properties *)

TypeOK ==
    /\ start \in {"new", "negotiate", "connect", "post", "handshake", "resolved", "rejected"}
    /\ hub \in {"Disconnected", "Connected"}
    /\ http \in {"Disconnected", "Connecting", "Connected"}
    /\ handshake \in {"pending", "resolved", "rejected"}
    /\ {received, transport, running, aborted, listening, crashed} \subseteq BOOLEAN
    /\ poll \in {"none", "next", "get", "over"}
    /\ stop \in {"none", "called", "receiving", "delete", "done"}
    /\ heard \in Seq(Notices) /\ ends \in Nat
    /\ request \in {"none", "sent", "arrived"}
    /\ peer \in {"none", "open", "shaken", "joined", "gone"}
    /\ out \in Seq(Notices \cup {Handshake, Refusal, Close})
    /\ notices \in 0..MaxNotices /\ timeouts \in 0..MaxTimeouts

\* What the client implements: the handler hears what the hub has sent, in its order and
\* once each, but for what came before it was registered and what a crash of the hub or an
\* answer to a poll given up has taken along; the close is announced once, whether the loop
\* ends first or stop(), and the handler hears nothing afterwards.
Channel == INSTANCE NotificationChannel WITH
    pending <- IF ends = 0 THEN NoticesOf(out) ELSE <<>>,
    faults <- timeouts + (IF crashed THEN 1 ELSE 0)
KeepsChannel == Channel!Spec

\* The answer to a poll the client has given up had the handshake in it.
HandshakeLost ==
    peer \in {"shaken", "joined"} /\ ~received /\ \A i \in DOMAIN out : out[i] # Handshake

\* start() does not hang, however the connection ends meanwhile, unless the handshake got
\* lost on a connection that goes on.
StartSettles == start = "negotiate" ~> start \in {"resolved", "rejected"} \/ HandshakeLost
===============================================================================
