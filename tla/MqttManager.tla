---------------------------- MODULE MqttManager ----------------------------
(***************************************************************************)
(* Mqttmain, the thread that pops the events (mqtt_thread_main) and runs   *)
(* mqtt_manager (mqtt_manager.c) between the frame parser and the          *)
(* callbacks to the application (mqtt_connection.c).  One action is the    *)
(* whole handling of one event.                                            *)
(***************************************************************************)
EXTENDS MqttClient

(* mqtt_thread_main pops the event at the head of the queue. *)
Pop(kind) ==
    /\ queue # <<>> /\ Head(queue).kind = kind
    /\ queue' = Tail(queue)

(* A request to send of a given type, popped. *)
Sending(type) == Pop("SEND") /\ Head(queue).frame.type = type
Popped == Head(queue).frame

(* wiced_process_mqtt_request: one TCP packet is read for one event, the   *)
(* frame at its start is handled, whatever follows it is not looked at.    *)
Receiving(type) ==
    /\ Pop("RECEIVE")
    /\ rx # <<>> /\ Head(rx)[1].type = type
    /\ rx' = Tail(rx)
Received == Head(rx)[1]

(* What a handler that only talks to the broker and the session leaves.    *)
HandlerRest == <<packet_id, session_init, session_set, sock, online, ret,
                 toClient, accepted, connects, discs, drops, lost>>

(* Mutant: the event does not say which request of the kind it is about.   *)
TellAny(kind, id) ==
    told' = [r \in Requests |->
               IF ret[r] # NotCalled /\ Kind[r] = kind THEN Upto2(told[r])
                                                       ELSE told[r]]

(* A PUBLISHED, SUBSCRIBED or UNSUBSCRIBED event with a packet id: what it *)
(* means to the application is the request of that kind for which the API  *)
(* returned that id.                                                       *)
Tell(kind, id) ==
    told' = [r \in Requests |->
               IF ret[r] = id /\ Kind[r] = kind THEN Upto2(told[r])
                                                ELSE told[r]]

-----------------------------------------------------------------------------
(* MQTT_SEND_EVENT                                                         *)

PutConnect(ok) == Put(Bare("CONNECT"), ok)

(* Mutant: no heartbeat. *)
SendConnectNoTimer ==
    /\ Sending("CONNECT")
    /\ \E ok \in SendResults : PutConnect(ok)
    /\ UNCHANGED <<HandlerRest, timer, session, rx, told, delivered>>

SendConnect ==
    /\ Sending("CONNECT")
    /\ timer' = (timer \/ KeepAlive)
    /\ \E ok \in SendResults : PutConnect(ok)
    /\ UNCHANGED <<HandlerRest, session, rx, told, delivered>>

(* mqtt_connection_deinit, mqtt_network_deinit: the socket is deleted with *)
(* all it received.                                                        *)
ConnectionDeinit == sock' = "none" /\ LinkGone /\ rx' = <<>> /\ lost' = 0

(* mqtt_backend_connection_close: DISCONNECTED is reported. *)
ConnectionClose == ConnectionDeinit /\ online' = FALSE

(* A DISCONNECT that is sent is the last frame of the link. *)
PutDisconnect(ok) == CountFail(ok)

(* The heartbeat stops first; if DISCONNECT cannot be sent nothing more    *)
(* happens.                                                                *)
SendDisconnect ==
    /\ Sending("DISCONNECT")
    /\ timer' = FALSE
    /\ \E ok \in SendResults :
          /\ PutDisconnect(ok)
          /\ IF ok THEN ConnectionClose
                   ELSE UNCHANGED <<sock, netVars, lost, online>>
    /\ UNCHANGED <<packet_id, session_init, session_set, session, ret, told,
                   delivered, connects, discs, drops>>

(* The packet is sent, then added to the session. *)
SendSubscribe ==
    /\ Sending("SUBSCRIBE")
    /\ \E ok \in SendResults : Put(Popped, ok)
    /\ session' = AddItem(session, Popped)
    /\ UNCHANGED <<HandlerRest, timer, rx, told, delivered>>

SendUnsubscribe ==
    /\ Sending("UNSUBSCRIBE")
    /\ \E ok \in SendResults : Put(Popped, ok)
    /\ session' = AddItem(session, Popped)
    /\ UNCHANGED <<HandlerRest, timer, rx, told, delivered>>

(* The packet is added to the session, then sent.  A QoS 0 packet is       *)
(* removed at once, by its id, and PUBLISHED is reported if it was sent.   *)
SendPublish ==
    /\ Sending("PUBLISH")
    /\ LET added == AddItem(session, Popped)
           qos0 == Qos[Popped.msg] = 0
       IN \E ok \in SendResults :
            /\ Put(Popped, ok)
            /\ session' = IF qos0 THEN RemoveItem(added, Popped.id) ELSE added
            /\ told' = IF qos0 /\ ok
                       THEN [told EXCEPT ![Popped.msg] = Upto2(@)] ELSE told
    /\ UNCHANGED <<HandlerRest, timer, rx, delivered>>

-----------------------------------------------------------------------------
(* MQTT_RECEIVE_EVENT: one action per type of the first frame.             *)

(* Nothing to read: the packet was read for an earlier event, or the       *)
(* socket is gone.                                                         *)
ReceiveNothing ==
    /\ Pop("RECEIVE") /\ rx = <<>>
    /\ UNCHANGED <<HandlerRest, session, timer, rx, toBroker, fails, told,
                   delivered>>

(* mqtt_backend_get_connack reports the status and does not call           *)
(* mqtt_manager: the session is not resent here.                           *)
GetConnack ==
    /\ Receiving("CONNACK")
    /\ UNCHANGED <<HandlerRest, session, timer, toBroker, fails, told,
                   delivered>>

Deliver(m) == delivered' = [delivered EXCEPT ![m] = Upto2(@)]

(* QoS 0: handed to the application. *)
RecvPublish0 ==
    /\ BQos[Received.msg] = 0
    /\ Deliver(Received.msg)
    /\ UNCHANGED <<session, toBroker, fails>>

(* QoS 1: acknowledged (the result is not looked at) and handed over. *)
RecvPublish1 ==
    /\ BQos[Received.msg] = 1
    /\ \E ok \in SendResults : Put(Ack("PUBACK", Received.id), ok)
    /\ Deliver(Received.msg)
    /\ UNCHANGED session

(* Mutant: a message sent again is handed over again. *)
RecvPublish2Again ==
    /\ BQos[Received.msg] = 2
    /\ \E ok \in SendResults : Put(Ack("PUBREC", Received.id), ok)
    /\ session' = IF ItemExist(session, Received.id) THEN session
                  ELSE AddItem(session, Ack("PUBREC", Received.id))
    /\ Deliver(Received.msg)

(* QoS 2: PUBREC; handed over unless an item with this id exists. *)
RecvPublish2 ==
    /\ BQos[Received.msg] = 2
    /\ \E ok \in SendResults : Put(Ack("PUBREC", Received.id), ok)
    /\ IF ItemExist(session, Received.id)
       THEN UNCHANGED <<session, delivered>>
       ELSE /\ session' = AddItem(session, Ack("PUBREC", Received.id))
            /\ Deliver(Received.msg)

GetPublish ==
    /\ Receiving("PUBLISH")
    /\ RecvPublish0 \/ RecvPublish1 \/ RecvPublish2
    /\ UNCHANGED <<HandlerRest, timer, told>>

(* What mqtt_manager does on an acknowledgement that ends an exchange: the *)
(* item goes, and WICED_SUCCESS is answered even if there was none.        *)
RecvPubackKeeps(id) == UNCHANGED session   \* Mutant: the item stays.
RecvPuback(id) == session' = RemoveItem(session, id)
RecvPubcomp(id) == session' = RemoveItem(session, id)
RecvSuback(id) == session' = RemoveItem(session, id)
RecvUnsuback(id) == session' = RemoveItem(session, id)

(* PUBLISHED is reported whether or not there was an item. *)
GetPuback ==
    /\ Receiving("PUBACK")
    /\ RecvPuback(Received.id)
    /\ Tell("PUBLISH", Received.id)
    /\ UNCHANGED <<HandlerRest, timer, toBroker, fails, delivered>>

(* Mutant: PUBLISH stays in the session next to PUBREL. *)
RecvPubrecKeeps(id) ==
    /\ \E ok \in SendResults : Put(Ack("PUBREL", id), ok)
    /\ session' = AddItem(session, Ack("PUBREL", id))

RecvPubrec(id) ==
    LET removed == RemoveItem(session, id) IN
    /\ \E ok \in SendResults : Put(Ack("PUBREL", id), ok)
    /\ session' = IF ItemExist(removed, id) THEN removed
                  ELSE AddItem(removed, Ack("PUBREL", id))

GetPubrec ==
    /\ Receiving("PUBREC")
    /\ RecvPubrec(Received.id)
    /\ UNCHANGED <<HandlerRest, timer, told, delivered>>

(* Mutant: the PUBREC item stays. *)
RecvPubrelKeeps(id) ==
    /\ UNCHANGED session
    /\ \E ok \in SendResults : Put(Ack("PUBCOMP", id), ok)

RecvPubrel(id) ==
    /\ session' = RemoveItem(session, id)
    /\ \E ok \in SendResults : Put(Ack("PUBCOMP", id), ok)

GetPubrel ==
    /\ Receiving("PUBREL")
    /\ RecvPubrel(Received.id)
    /\ UNCHANGED <<HandlerRest, timer, told, delivered>>

GetPubcomp ==
    /\ Receiving("PUBCOMP")
    /\ RecvPubcomp(Received.id)
    /\ Tell("PUBLISH", Received.id)
    /\ UNCHANGED <<HandlerRest, timer, toBroker, fails, delivered>>

GetSuback ==
    /\ Receiving("SUBACK")
    /\ RecvSuback(Received.id)
    /\ Tell("SUBSCRIBE", Received.id)
    /\ UNCHANGED <<HandlerRest, timer, toBroker, fails, delivered>>

GetUnsuback ==
    /\ Receiving("UNSUBACK")
    /\ RecvUnsuback(Received.id)
    /\ Tell("UNSUBSCRIBE", Received.id)
    /\ UNCHANGED <<HandlerRest, timer, toBroker, fails, delivered>>

(* Mutant: nothing is resent. *)
ResendNothing == UNCHANGED <<toBroker, fails>>

(* mqtt_session_iterate_through_items with mqtt_manager_resend_packet: the *)
(* items in order, up to the first that cannot be sent.                    *)
ResendSession ==
    \/ /\ sock = "open" \/ session = <<>>
       /\ toBroker' = toBroker \o session
       /\ UNCHANGED fails
    \/ \E n \in 0..(Len(session) - 1) :
          /\ FALSE \in SendResults
          /\ sock = "open" \/ n = 0
          /\ toBroker' = toBroker \o SubSeq(session, 1, n)
          /\ CountFail(FALSE)

RecvPingres == ResendSession /\ UNCHANGED session

GetPingres ==
    /\ Receiving("PINGRESP")
    /\ RecvPingres
    /\ UNCHANGED <<HandlerRest, timer, told, delivered>>

-----------------------------------------------------------------------------
(* MQTT_DISCONNECT_EVENT: mqtt_frame_recv without a buffer closes.  The    *)
(* heartbeat's timer is left running.                                      *)
HandleDisconnect ==
    /\ Pop("DISCONNECT")
    /\ ConnectionClose
    /\ UNCHANGED <<packet_id, session_init, session_set, session, timer, ret,
                   told, delivered, connects, discs, drops, fails>>

HandleSend == \/ SendConnect \/ SendDisconnect \/ SendSubscribe
              \/ SendUnsubscribe \/ SendPublish

HandleReceive == \/ ReceiveNothing \/ GetConnack \/ GetPublish \/ GetPuback
                 \/ GetPubrec \/ GetPubrel \/ GetPubcomp \/ GetSuback
                 \/ GetUnsuback \/ GetPingres

Mqttmain == HandleSend \/ HandleReceive \/ HandleDisconnect

Application ==
    \/ \E r \in Requests : Publish(r) \/ Subscribe(r) \/ Unsubscribe(r)
    \/ Connect \/ Disconnect

Worker == TickPing \/ TickTimeout \/ RecvCallback \/ DisconnectCallback

ClientNext == Application \/ Mqttmain \/ Worker
=============================================================================
