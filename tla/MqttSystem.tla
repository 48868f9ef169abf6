----------------------------- MODULE MqttSystem -----------------------------
(***************************************************************************)
(* The client library connected to a broker.  The broker is external: an   *)
(* MQTT 3.1.1 server, reduced to what the client's code expects of it.  It *)
(* handles the frames of a link in order, answers each as the protocol     *)
(* says, keeps the client's session unless the client asks for a clean     *)
(* one, sends BMsgs, and on a new link sends again what was not            *)
(* acknowledged.  A packet id is not reused while it is in flight.         *)
(***************************************************************************)
EXTENDS MqttManager

VARIABLES
    bStored,     \* ids of QoS 2 messages received and not yet released
    bGot,        \* how often a request was taken (0..2)
    bState       \* where the delivery of each of BMsgs stands

brokerVars == <<bStored, bGot, bState>>
vars == <<clientVars, brokerVars>>

(* resend and rerelease wait for a new link; dropped: a clean session      *)
(* discarded the message.                                                  *)
BStates == {"new", "sent", "resend", "released", "rerelease", "done",
            "dropped"}
InFlight(m) == bState[m] \in {"sent", "resend", "released", "rerelease"}

BrokerTypeOK ==
    /\ bStored \subseteq Ids
    /\ bGot \in [Requests -> 0..2]
    /\ bState \in [BMsgs -> BStates]

BrokerInit ==
    /\ bStored = {}
    /\ bGot = [r \in Requests |-> 0]
    /\ bState = [m \in BMsgs |-> "new"]

(* Everything of the client that a step on an open link leaves alone.      *)
BrokerLeaves == <<packet_id, session_init, session_set, session, timer, rx,
                  appVars, connects, discs, fails, lost>>

-----------------------------------------------------------------------------
(* The broker takes the next frame of the link. *)
Takes(type) ==
    /\ sock = "open" /\ toBroker # <<>> /\ Head(toBroker).type = type
    /\ accepted
    /\ toBroker' = Tail(toBroker)
    /\ UNCHANGED <<BrokerLeaves, sock, queue, drops, accepted>>
Taken == Head(toBroker)
Reply(type, id) == toClient' = Append(toClient, Ack(type, id))

(* A link starts with one CONNECT: the broker goes back to its session, or *)
(* forgets it.                                                             *)
BrokerConnect ==
    /\ sock = "open" /\ toBroker # <<>> /\ Head(toBroker).type = "CONNECT"
    /\ ~accepted
    /\ accepted' = TRUE
    /\ toBroker' = Tail(toBroker)
    /\ Reply("CONNACK", 0)
    /\ bStored' = IF clean_session THEN {} ELSE bStored
    /\ bState' = [m \in BMsgs |->
                    CASE InFlight(m) /\ clean_session -> "dropped"
                      [] bState[m] = "sent" /\ ~clean_session -> "resend"
                      [] bState[m] = "released" /\ ~clean_session
                         -> "rerelease"
                      [] OTHER -> bState[m]]
    /\ UNCHANGED <<BrokerLeaves, sock, queue, drops, bGot>>

(* Any other first frame, or a second CONNECT: the broker closes. *)
BrokerReject ==
    /\ sock = "open" /\ toBroker # <<>>
    /\ accepted <=> Head(toBroker).type = "CONNECT"
    /\ sock' = "broken" /\ LinkGone
    /\ Push(DISCONNECT_EVENT) \/ UNCHANGED queue
    /\ UNCHANGED <<BrokerLeaves, drops, brokerVars>>

Took(r) == bGot' = [bGot EXCEPT ![r] = Upto2(@)]

BrokerTakePublish ==
    /\ Takes("PUBLISH")
    /\ LET r == Taken.msg
           new == Qos[r] < 2 \/ Taken.id \notin bStored
       IN /\ IF new THEN Took(r) ELSE UNCHANGED bGot
          /\ bStored' = IF Qos[r] = 2 THEN bStored \cup {Taken.id}
                                      ELSE bStored
          /\ CASE Qos[r] = 0 -> UNCHANGED toClient
               [] Qos[r] = 1 -> Reply("PUBACK", Taken.id)
               [] Qos[r] = 2 -> Reply("PUBREC", Taken.id)
    /\ UNCHANGED bState

BrokerTakePubrel ==
    /\ Takes("PUBREL")
    /\ bStored' = bStored \ {Taken.id}
    /\ Reply("PUBCOMP", Taken.id)
    /\ UNCHANGED <<bGot, bState>>

BrokerTakeSubscribe ==
    /\ Takes("SUBSCRIBE")
    /\ Took(Taken.msg)
    /\ Reply("SUBACK", Taken.id)
    /\ UNCHANGED <<bStored, bState>>

BrokerTakeUnsubscribe ==
    /\ Takes("UNSUBSCRIBE")
    /\ Took(Taken.msg)
    /\ Reply("UNSUBACK", Taken.id)
    /\ UNCHANGED <<bStored, bState>>

BrokerTakePing ==
    /\ Takes("PINGREQ")
    /\ Reply("PINGRESP", 0)
    /\ UNCHANGED brokerVars

(* The message an acknowledgement is for: the one in flight with its id.   *)
Acknowledged(id, qos) == {m \in BMsgs : InFlight(m) /\ BId[m] = id
                                                    /\ BQos[m] = qos}
Becomes(S, state) ==
    bState' = [m \in BMsgs |-> IF m \in S THEN state ELSE bState[m]]

BrokerTakePuback ==
    /\ Takes("PUBACK")
    /\ Becomes(Acknowledged(Taken.id, 1), "done")
    /\ UNCHANGED <<toClient, bStored, bGot>>

BrokerTakePubrec ==
    /\ Takes("PUBREC")
    /\ Becomes(Acknowledged(Taken.id, 2), "released")
    /\ IF Acknowledged(Taken.id, 2) # {} THEN Reply("PUBREL", Taken.id)
                                         ELSE UNCHANGED toClient
    /\ UNCHANGED <<bStored, bGot>>

(* PUBCOMP ends the delivery of a message that was released. *)
BrokerTakePubcomp ==
    /\ Takes("PUBCOMP")
    /\ Becomes({m \in Acknowledged(Taken.id, 2) :
                  bState[m] \in {"released", "rerelease"}}, "done")
    /\ UNCHANGED <<toClient, bStored, bGot>>

(* A message sent for the first time, or again on a new link.  *)
BrokerPublish(m) ==
    /\ sock = "open" /\ accepted
    /\ \/ /\ bState[m] = "new"
          /\ \A n \in BMsgs \ {m} : BId[n] = BId[m] => ~InFlight(n)
       \/ bState[m] = "resend"
    /\ Becomes({m}, IF BQos[m] = 0 THEN "done" ELSE "sent")
    /\ toClient' = Append(toClient, Frame("PUBLISH", BId[m], m))
    /\ UNCHANGED <<BrokerLeaves, sock, queue, drops, accepted, toBroker,
                   bStored, bGot>>

BrokerRelease(m) ==
    /\ sock = "open" /\ accepted
    /\ bState[m] = "rerelease"
    /\ Becomes({m}, "released")
    /\ Reply("PUBREL", BId[m])
    /\ UNCHANGED <<BrokerLeaves, sock, queue, drops, accepted, toBroker,
                   bStored, bGot>>

BrokerTakes == \/ BrokerConnect \/ BrokerReject
               \/ BrokerTakePublish \/ BrokerTakePubrel \/ BrokerTakeSubscribe
               \/ BrokerTakeUnsubscribe \/ BrokerTakePing \/ BrokerTakePuback
               \/ BrokerTakePubrec \/ BrokerTakePubcomp

BrokerSends == \E m \in BMsgs : BrokerPublish(m) \/ BrokerRelease(m)

Broker == BrokerTakes \/ BrokerSends

-----------------------------------------------------------------------------
Init == ClientInit /\ BrokerInit
Client == ClientNext /\ UNCHANGED brokerVars
Next == (Client \/ Broker) /\ UNCHANGED clean_session
Spec == Init /\ [][Next]_vars

TypeOK == ClientTypeOK /\ BrokerTypeOK /\ clean_session \in CleanSessions

(***************************************************************************)
(* Fairness.  Mqttmain blocks only on an empty queue; the TCP callbacks    *)
(* run as packets arrive; the worker's timer fires every second, so a      *)
(* registered heartbeat pings, and times out when the link is dead; the    *)
(* broker serves a link that is up and sends what it has.  Nothing makes   *)
(* the application call, or a link fail.                                   *)
(***************************************************************************)
DeadLinkTimeout == sock # "open" /\ TickTimeout
othersVars == <<brokerVars, clean_session>>

Fairness ==
    /\ WF_vars(Mqttmain /\ UNCHANGED othersVars)
    /\ WF_vars(RecvCallback /\ UNCHANGED othersVars)
    /\ WF_vars(TickPing /\ UNCHANGED othersVars)
    /\ WF_vars(DeadLinkTimeout /\ UNCHANGED othersVars)
    /\ WF_vars(BrokerTakes /\ UNCHANGED clean_session)
    /\ WF_vars(BrokerSends /\ UNCHANGED clean_session)

FairSpec == Spec /\ Fairness
-----------------------------------------------------------------------------
(* Properties                                                              *)

SessionIds == {session[i].id : i \in DOMAIN session}
Queued(r) == \E i \in DOMAIN queue : queue[i].kind = "SEND"
                                     /\ queue[i].frame.msg = r
Acknowledgeable(r) == Kind[r] = "PUBLISH" => Qos[r] > 0

(* Only the broker's answer makes the client report PUBLISHED (QoS 1, 2),  *)
(* SUBSCRIBED or UNSUBSCRIBED for the id of a request (mqtt_connection.c,  *)
(* get_puback, get_pubcomp, get_suback, get_unsuback): the broker has the  *)
(* request, whatever was lost, resent or reconnected in between.           *)
ReportedMeansReceived ==
    \A r \in Requests : told[r] > 0 /\ Acknowledgeable(r) => bGot[r] > 0

(* mqtt_manager.c resends PUBLISH and PUBREL at every PINGRESP, also on    *)
(* later connections: the broker still takes a QoS 2 message once.         *)
ExactlyOnceOut ==
    \A r \in Requests :
        Kind[r] = "PUBLISH" /\ Qos[r] = 2 => bGot[r] <= 1

(* A request Mqttmain has taken and the broker has not answered to the end *)
(* is in the session, so that a PINGRESP will send it again                *)
(* (mqtt_session.c); nothing is forgotten by a failed send or a lost link, *)
(* unless the application asks for clean sessions.                         *)
NothingForgotten == ~clean_session =>
    \A r \in Requests :
        ret[r] > 0 /\ Acknowledgeable(r) /\ ~Queued(r) /\ told[r] = 0
        => ret[r] \in SessionIds

(* After PUBLISHED the application may free topic and data: no session     *)
(* item still refers to them.                                              *)
FreedAfterPublished ==
    \A r \in Requests : told[r] > 0 =>
        \A i \in DOMAIN session : session[i].msg # r

(* The PUBREC item of the session suppresses a QoS 2 message that is sent  *)
(* again: the application is given each message at most once.              *)
ExactlyOnceIn == \A m \in BMsgs : BQos[m] = 2 => delivered[m] <= 1

(* What the broker has had acknowledged reached the application.           *)
AckedIsDelivered ==
    \A m \in BMsgs : bState[m] \in {"released", "rerelease", "done"}
                     /\ BQos[m] > 0 => delivered[m] > 0

(* The suppressing PUBREC item exists exactly while the exchange lasts: a  *)
(* finished message leaves none behind to suppress the next message that   *)
(* the broker gives its id.                                                *)
NoStalePubrec ==
    \A i \in DOMAIN session : session[i].type = "PUBREC" =>
        \E m \in BMsgs : BId[m] = session[i].id /\ InFlight(m)

(* Every unread TCP packet has its RECEIVE event, or its event was refused *)
(* by a full queue: no other way to strand a packet.                       *)
ReceiveEvents == {i \in DOMAIN queue : queue[i].kind = "RECEIVE"}
PacketsHaveEvents == Len(rx) <= Cardinality(ReceiveEvents) + lost

(* A link that is lost is eventually reported, by the disconnect event or, *)
(* if the queue refused it, by the heartbeat, unless the application asked *)
(* to disconnect: that stops the timer, cannot send on the lost link and   *)
(* reports nothing (mqtt_manager.c:154-155).                               *)
LinkLossReported == (sock = "broken" /\ online) ~> (~online \/ discs > 0)

(* Once the link stays up and no RECEIVE event was refused, every request  *)
(* is acknowledged in the end and the session drains.                      *)
LinkUp == sock = "open" /\ accepted /\ timer /\ lost = 0
SessionDrains == <>[]LinkUp => <>[](session = <<>>)

(* What the library promises of each request and each message from call to *)
(* report, and from first delivery to last acknowledgement                 *)
(* (mqtt_manager.c, mqtt_connection.c): an id of its own, taken once at    *)
(* QoS 2, reported only after; handed over once at QoS 2, and never again  *)
(* when its exchange has ended.                                            *)
Fate == [m \in BMsgs |->
            IF BQos[m] > 0 /\ bState[m] \in {"done", "dropped"}
            THEN bState[m] ELSE "pending"]
Delivery == INSTANCE MqttDelivery WITH
                taken <- bGot, fate <- Fate, clean <- clean_session
ImplementsDelivery == Delivery!Spec
=============================================================================
