----------------------------- MODULE MqttClient -----------------------------
(***************************************************************************)
(* The ARTIK 050 MQTT client library: mqtt_api.c, mqtt_connection.c,       *)
(* mqtt_manager.c and the event queue of mqtt_network.c.                   *)
(*                                                                         *)
(* Three threads act on one connection:                                    *)
(*   - the application calls wiced_mqtt_connect/publish/...; a call        *)
(*     allocates a packet id and pushes an event, WICED_NO_WAIT;           *)
(*   - "Mqttmain" pops one event at a time and runs its whole handler:     *)
(*     a request to send, a TCP packet to read, a disconnection;           *)
(*   - the networking worker thread runs the heartbeat's tick and the TCP  *)
(*     callbacks, which push events.                                       *)
(* One action is one such call, handler or callback.                       *)
(*                                                                         *)
(* The heartbeat's counters are MqttHeartbeat's; here a running timer may  *)
(* ping or time out at any moment.                                         *)
(***************************************************************************)
EXTENDS MqttSession

CONSTANTS
    Requests,      \* the calls of publish, subscribe, unsubscribe
    Kind,          \* [Requests -> {"PUBLISH", "SUBSCRIBE", "UNSUBSCRIBE"}]
    Qos,           \* [Requests -> 0..2]
    BMsgs,         \* the messages the broker publishes to this client
    BQos,          \* [BMsgs -> 0..2]
    BId,           \* [BMsgs -> packet ids]: the ids the broker gives them
    NoMsg,         \* stands for no message
    QueueSize,     \* WICED_MQTT_QUEUE_SIZE, 10 in the code
    IdMod,         \* 2^16 in the code: packet_id is a uint16_t
    InitIds,       \* packet_id is never initialised (malloc'd memory)
    CleanSessions, \* the values of conninfo->clean_session
    KeepAlive      \* conninfo->keep_alive > 0

CONSTANTS          \* bounds of the exploration
    Wrap,          \* may packet_id wrap around?
    MaxRequests,   \* calls of publish, subscribe, unsubscribe
    MaxConnects,   \* calls of wiced_mqtt_connect
    MaxDiscs,      \* calls of wiced_mqtt_disconnect
    MaxDrops,      \* links lost, and timeouts of a link that was up
    MaxFails,      \* sends that fail on a link that is up
    MaxPings,      \* pings unanswered at a time
    MaxPacket      \* frames TCP may put into one packet

ASSUME ClientAssumption ==
    /\ Kind \in [Requests -> {"PUBLISH", "SUBSCRIBE", "UNSUBSCRIBE"}]
    /\ Qos \in [Requests -> 0..2]
    /\ IdMod \in Nat \ {0}
    /\ BQos \in [BMsgs -> 0..2]
    /\ BId \in [BMsgs -> 1..(IdMod - 1)]
    /\ NoMsg \notin Requests \cup BMsgs
    /\ QueueSize \in Nat \ {0}
    /\ InitIds \subseteq 0..(IdMod - 1)
    /\ CleanSessions \subseteq BOOLEAN
    /\ {KeepAlive, Wrap} \subseteq BOOLEAN
    /\ MaxRequests \in Nat
    /\ {MaxConnects, MaxDiscs, MaxDrops, MaxFails, MaxPings} \subseteq Nat
    /\ MaxPacket \in Nat \ {0}

VARIABLES
    packet_id,     \* conn->packet_id
    session_init,  \* conn->session_init
    session_set,   \* conn->session points to the session
    session,       \* *conn->session: the used items, oldest first
    clean_session, \* conninfo->clean_session = 1, at every connect
    timer,         \* the heartbeat is registered on the worker thread
    sock,          \* "none", "open", or "broken": link lost, not deleted
    queue,         \* socket->queue: the events Mqttmain has not popped
    rx,            \* TCP packets received and not read, each a seq of frames
    toBroker,      \* frames on their way to the broker
    toClient,      \* frames on their way to the client
    accepted,      \* the broker accepted a CONNECT on this link
    (* what the application has seen *)
    online,        \* connected, and not told DISCONNECTED since
    ret,           \* what the API returned for a request, or NotCalled
    told,          \* PUBLISHED, SUBSCRIBED... events for a request (0..2)
    delivered,     \* PUBLISH_MSG_RECEIVED events for a message (0..2)
    (* counters of the bounds; RECEIVE events refused, on this socket *)
    connects, discs, drops, fails, lost

netVars   == <<rx, toBroker, toClient, accepted>>
appVars   == <<online, ret, told, delivered>>
countVars == <<connects, discs, drops, fails, lost>>
clientVars == <<packet_id, session_init, session_set, session, clean_session,
                timer, sock, queue, netVars, appVars, countVars>>

-----------------------------------------------------------------------------
NotCalled == -1
Ids == 0..(IdMod - 1)
Msgs == Requests \cup BMsgs \cup {NoMsg}

FrameTypes == {"CONNECT", "CONNACK", "PUBLISH", "PUBACK", "PUBREC", "PUBREL",
               "PUBCOMP", "SUBSCRIBE", "SUBACK", "UNSUBSCRIBE", "UNSUBACK",
               "PINGREQ", "PINGRESP", "DISCONNECT"}
Frames == [type : FrameTypes, id : Ids, msg : Msgs]

(* mqtt_event_message_t: event_type, and send_context for a SEND event. *)
Event(kind, frame) == [kind |-> kind, frame |-> frame]
Bare(type) == Frame(type, 0, NoMsg)
Ack(type, id) == Frame(type, id, NoMsg)
RECEIVE_EVENT == Event("RECEIVE", Bare("PUBLISH"))
DISCONNECT_EVENT == Event("DISCONNECT", Bare("DISCONNECT"))
Events == [kind : {"RECEIVE", "DISCONNECT", "SEND"}, frame : Frames]

Upto2(n) == IF n < 2 THEN n + 1 ELSE 2

ClientTypeOK ==
    /\ packet_id \in Ids
    /\ session_init \in BOOLEAN /\ session_set \in BOOLEAN
    /\ timer \in BOOLEAN /\ online \in BOOLEAN /\ accepted \in BOOLEAN
    /\ session \in Seq(Frames) /\ Len(session) <= SessionSize
    /\ sock \in {"none", "open", "broken"}
    /\ queue \in Seq(Events) /\ Len(queue) <= QueueSize
    /\ rx \in Seq(Seq(Frames) \ {<<>>})
    /\ toBroker \in Seq(Frames) /\ toClient \in Seq(Frames)
    /\ ret \in [Requests -> Ids \cup {NotCalled}]
    /\ told \in [Requests -> 0..2]
    /\ delivered \in [BMsgs -> 0..2]
    /\ connects \in 0..MaxConnects /\ discs \in 0..MaxDiscs
    /\ drops \in 0..MaxDrops /\ fails \in 0..MaxFails /\ lost \in Nat

(* mqtt_core_init: the connection exists, nothing is connected. *)
ClientInit ==
    /\ packet_id \in InitIds
    /\ session_init = TRUE /\ session_set = FALSE
    /\ clean_session \in CleanSessions
    /\ session = <<>> /\ timer = FALSE /\ sock = "none" /\ queue = <<>>
    /\ rx = <<>> /\ toBroker = <<>> /\ toClient = <<>> /\ accepted = FALSE
    /\ online = FALSE
    /\ ret = [r \in Requests |-> NotCalled]
    /\ told = [r \in Requests |-> 0]
    /\ delivered = [m \in BMsgs |-> 0]
    /\ connects = 0 /\ discs = 0 /\ drops = 0 /\ fails = 0 /\ lost = 0

-----------------------------------------------------------------------------
(* wiced_rtos_push_to_queue(.., WICED_NO_WAIT): a full queue refuses.      *)
QueueFull == Len(queue) = QueueSize
(* Mutant: the queue has no limit. *)
PushAlways(e) == queue' = Append(queue, e)
Push(e) == queue' = IF QueueFull THEN queue ELSE Append(queue, e)

(* mqtt_frame_create and mqtt_frame_send: never on a socket that is not    *)
(* connected; on one that is, packet allocation or the send may fail.      *)
SendResults ==
    {ok \in BOOLEAN : IF ok THEN sock = "open"
                            ELSE sock # "open" \/ fails < MaxFails}
CountFail(ok) == fails' = IF ok \/ sock # "open" THEN fails ELSE fails + 1

(* One of the mqtt_backend_put_* functions, with the result it returns. *)
Put(frame, ok) ==
    /\ toBroker' = IF ok THEN Append(toBroker, frame) ELSE toBroker
    /\ CountFail(ok)

(* The link is gone: what was in flight in either direction is lost. *)
LinkGone == toBroker' = <<>> /\ toClient' = <<>> /\ accepted' = FALSE

-----------------------------------------------------------------------------
(* The application thread.                                                 *)

(* What the three request functions of mqtt_api.c do: the id is taken      *)
(* before the push, and 0 is returned when the push fails.  Before a first *)
(* successful wiced_mqtt_connect conn->session is not set and Mqttmain     *)
(* would follow a pointer read from unset memory: not called then.         *)
Request(r) ==
    LET id == (packet_id + 1) % IdMod IN
    /\ ret[r] = NotCalled /\ session_set
    /\ Cardinality({q \in Requests : ret[q] # NotCalled}) < MaxRequests
    /\ Wrap \/ packet_id < IdMod - 1
    /\ packet_id' = id
    /\ Push(Event("SEND", Frame(Kind[r], id, r)))
    /\ ret' = [ret EXCEPT ![r] = IF QueueFull THEN 0 ELSE id]
    /\ UNCHANGED <<session_init, session_set, session, timer, sock, netVars,
                   online, told, delivered, countVars>>

Publish(r)     == Kind[r] = "PUBLISH" /\ Request(r)
Subscribe(r)   == Kind[r] = "SUBSCRIBE" /\ Request(r)
Unsubscribe(r) == Kind[r] = "UNSUBSCRIBE" /\ Request(r)

(* Mutant: a session that is to be kept is emptied too. *)
InitSessionAlways ==
    session' = <<>> /\ session_init' = FALSE /\ session_set' = TRUE

(* mqtt_connect, in the application's thread: the session is emptied       *)
(* before Mqttmain has seen the request.                                   *)
InitSession ==
    /\ session' = IF clean_session \/ session_init THEN <<>> ELSE session
    /\ session_init' = (session_init /\ clean_session)
    /\ session_set' = TRUE

(* wiced_mqtt_connect, called when the application believes it is offline: *)
(* a new TCP connection (a new socket has received nothing), the session,  *)
(* and the CONNECT request.  If TCP cannot connect the socket is deleted.  *)
Connect ==
    /\ ~online /\ connects < MaxConnects
    /\ connects' = connects + 1
    /\ LinkGone /\ rx' = <<>> /\ lost' = 0
    /\ \/ /\ sock' = "open"
          /\ InitSession
          /\ Push(Event("SEND", Bare("CONNECT")))
          /\ online' = ~QueueFull
       \/ /\ sock' = "none"
          /\ UNCHANGED <<session, session_init, session_set, queue, online>>
    /\ UNCHANGED <<packet_id, timer, ret, told, delivered, discs, drops,
                   fails>>

(* wiced_mqtt_disconnect *)
Disconnect ==
    /\ online /\ discs < MaxDiscs
    /\ discs' = discs + 1
    /\ Push(Event("SEND", Bare("DISCONNECT")))
    /\ UNCHANGED <<packet_id, session_init, session_set, session, timer, sock,
                   netVars, appVars, connects, drops, fails, lost>>

-----------------------------------------------------------------------------
(* The networking worker thread.                                           *)

Unanswered(f) == f.type \in {"PINGREQ", "PINGRESP"}
PingsInFlight ==
    Len(SelectSeq(toBroker, Unanswered)) + Len(SelectSeq(toClient, Unanswered))
      + Len(SelectSeq(rx, LAMBDA p : Unanswered(p[1])))

PutPingreq(ok) == Put(Bare("PINGREQ"), ok)

(* MQTT_EVENT_TICK, send counter at zero: a ping (which may fail). *)
TickPing ==
    /\ timer /\ sock = "open" /\ PingsInFlight < MaxPings
    /\ \E ok \in SendResults : PutPingreq(ok)
    /\ UNCHANGED <<packet_id, session_init, session_set, session, timer, sock,
                   queue, rx, toClient, accepted, appVars, connects, discs,
                   drops, lost>>

(* mqtt_network_disconnect on a link that is up: the TCP layer may or may  *)
(* not report the disconnection to mqtt_disconnect_callback.               *)
BreakLink ==
    /\ drops < MaxDrops /\ drops' = drops + 1
    /\ sock' = "broken" /\ LinkGone
    /\ Push(DISCONNECT_EVENT) \/ UNCHANGED queue

(* mqtt_manager_tick, receive counter at zero: the TCP connection is       *)
(* closed, the application is told DISCONNECTED; the socket and the timer  *)
(* stay.                                                                   *)
TickTimeout ==
    /\ timer
    /\ \/ sock = "open" /\ BreakLink
       \/ sock # "open" /\ online
          /\ UNCHANGED <<drops, sock, toBroker, toClient, accepted, queue>>
    /\ online' = FALSE
    /\ UNCHANGED <<packet_id, session_init, session_set, session, timer, rx,
                   ret, told, delivered, connects, discs, fails, lost>>

(* Mutant: no event when one is already waiting. *)
RecvCallbackOnce ==
    /\ sock = "open"
    /\ \E n \in 1..MaxPacket :
          /\ n <= Len(toClient)
          /\ rx' = Append(rx, SubSeq(toClient, 1, n))
          /\ toClient' = SubSeq(toClient, n + 1, Len(toClient))
    /\ IF \E i \in DOMAIN queue : queue[i] = RECEIVE_EVENT
       THEN UNCHANGED queue ELSE Push(RECEIVE_EVENT)
    /\ lost' = IF QueueFull THEN lost + 1 ELSE lost
    /\ UNCHANGED <<packet_id, session_init, session_set, session, timer, sock,
                   toBroker, accepted, appVars, connects, discs, drops, fails>>

(* A TCP packet arrives: mqtt_network_recv_thread pushes one event for it. *)
RecvCallback ==
    /\ sock = "open"
    /\ \E n \in 1..MaxPacket :
          /\ n <= Len(toClient)
          /\ rx' = Append(rx, SubSeq(toClient, 1, n))
          /\ toClient' = SubSeq(toClient, n + 1, Len(toClient))
    /\ Push(RECEIVE_EVENT)
    /\ lost' = IF QueueFull THEN lost + 1 ELSE lost
    /\ UNCHANGED <<packet_id, session_init, session_set, session, timer, sock,
                   toBroker, accepted, appVars, connects, discs, drops, fails>>

(* The link is lost: mqtt_disconnect_callback pushes an event, or TCP has  *)
(* not noticed.                                                            *)
DisconnectCallback ==
    /\ sock = "open" /\ BreakLink
    /\ UNCHANGED <<packet_id, session_init, session_set, session, timer, rx,
                   appVars, connects, discs, fails, lost>>
=============================================================================
