-------------------------- MODULE MqttSystemProofs --------------------------
(***************************************************************************)
(* What holds of the client and the broker for every set of requests and   *)
(* messages, every size of the queue and of the session, and every bound.  *)
(*                                                                         *)
(* The inductive invariant is a typing by the meaning of the frames: each  *)
(* queue, session and wire is a sequence over a set of frames that the     *)
(* state allows there, and a step may only make these sets larger.         *)
(***************************************************************************)
EXTENDS MqttSystem, MqttSessionProofs

(* The API returned the id for a request of the kind; the broker has it. *)
Known(id, kind) ==
    ~Wrap => \E r \in Requests : /\ ret[r] = id /\ id > 0
                                 /\ Kind[r] = kind /\ bGot[r] > 0

(* The broker gives the id to messages of the QoS. *)
FromBroker(id, qos) == \E m \in BMsgs : BId[m] = id /\ BQos[m] = qos

(* A frame that carries a request carries the id its call returned. *)
Carries(f) ==
    /\ f.msg \in Requests /\ f.type = Kind[f.msg]
    /\ ~Wrap => f.id \in 1..packet_id /\ ret[f.msg] = f.id

RequestTypes == {"PUBLISH", "SUBSCRIBE", "UNSUBSCRIBE"}
Outgoing == {f \in Frames :
               /\ IF f.type \in RequestTypes THEN Carries(f)
                                             ELSE f.msg = NoMsg
               /\ f.type = "PUBREL" => Known(f.id, "PUBLISH")
               /\ f.type = "PUBACK" => FromBroker(f.id, 1)
               /\ f.type \in {"PUBREC", "PUBCOMP"} => FromBroker(f.id, 2)}

(* What an answer of the broker is about: a request of that kind. *)
AnswersTo(kind) ==
    {type \in FrameTypes :
       \/ kind = "PUBLISH" /\ type \in {"PUBACK", "PUBREC", "PUBCOMP"}
       \/ kind = "SUBSCRIBE" /\ type = "SUBACK"
       \/ kind = "UNSUBSCRIBE" /\ type = "UNSUBACK"}
Incoming == {f \in Frames :
               /\ f.type = "PUBLISH" => f.msg \in BMsgs /\ f.id = BId[f.msg]
               /\ f.type = "PUBREL" => FromBroker(f.id, 2)
               /\ \A kind \in RequestTypes :
                    f.type \in AnswersTo(kind) => Known(f.id, kind)}

(* Only QoS 2 has a release. *)
Deliveries == {d \in [BMsgs -> BStates] :
                 \A m \in BMsgs : d[m] \in {"released", "rerelease"}
                                  => BQos[m] = 2}

Due == {e \in Events : e.kind = "SEND" => e.frame \in Outgoing}
Packets == Seq(Incoming) \ {<<>>}

FlagsInv ==
    /\ session_init \in BOOLEAN /\ session_set \in BOOLEAN
    /\ timer \in BOOLEAN /\ online \in BOOLEAN /\ accepted \in BOOLEAN
CountsInv ==
    /\ packet_id \in Ids /\ sock \in {"none", "open", "broken"}
    /\ connects \in 0..MaxConnects /\ discs \in 0..MaxDiscs
    /\ drops \in 0..MaxDrops /\ fails \in 0..MaxFails /\ lost \in Nat
SessionInv == session \in Seq(Outgoing) /\ Len(session) <= SessionSize
QueueInv == queue \in Seq(Due) /\ Len(queue) <= QueueSize
LinkInv ==
    /\ rx \in Seq(Packets)
    /\ toBroker \in Seq(Outgoing) /\ toClient \in Seq(Incoming)
RetInv ==
    /\ ret \in [Requests -> Ids \cup {NotCalled}]
    /\ ~Wrap => \A r \in Requests :
                  /\ ret[r] <= packet_id
                  /\ \A s \in Requests : ret[r] = ret[s] /\ ret[r] > 0
                                         => r = s
ToldInv ==
    /\ told \in [Requests -> 0..2]
    /\ ~Wrap => ReportedMeansReceived
DeliveredInv == delivered \in [BMsgs -> 0..2]
BrokerInv ==
    /\ bGot \in [Requests -> 0..2] /\ bState \in Deliveries
    /\ bStored \subseteq {id \in Ids : Known(id, "PUBLISH")}

Inv == /\ FlagsInv /\ CountsInv /\ SessionInv /\ QueueInv /\ LinkInv
       /\ RetInv /\ ToldInv /\ DeliveredInv /\ BrokerInv

-----------------------------------------------------------------------------
(* Frames                                                                  *)

(* A frame without id and message may be sent both ways. *)
LEMMA BareType ==
    ASSUME NEW type \in FrameTypes \ {"PUBLISH", "PUBACK", "PUBREC", "PUBREL",
                 "PUBCOMP", "SUBSCRIBE", "SUBACK", "UNSUBSCRIBE", "UNSUBACK"}
    PROVE  Bare(type) \in Outgoing /\ Bare(type) \in Incoming
BY ClientAssumption
   DEF Bare, Frame, Outgoing, Incoming, Frames, FrameTypes, Ids, Msgs,
       RequestTypes, AnswersTo

(* The events of the callbacks, of connect and of disconnect are events    *)
(* the queue may hold.                                                     *)
LEMMA EventTypes ==
    /\ RECEIVE_EVENT \in Due /\ DISCONNECT_EVENT \in Due
    /\ Event("SEND", Bare("CONNECT")) \in Due
    /\ Event("SEND", Bare("DISCONNECT")) \in Due
<1>1. /\ Bare("CONNECT") \in Outgoing /\ Bare("DISCONNECT") \in Outgoing
  BY BareType DEF FrameTypes
<1>2. Bare("PUBLISH") \in Frames
  BY ClientAssumption DEF Bare, Frame, Frames, FrameTypes, Ids, Msgs
<1>3. \A f \in Outgoing : f \in Frames
  BY DEF Outgoing
<1>4. QED
  BY <1>1, <1>2, <1>3
  DEF RECEIVE_EVENT, DISCONNECT_EVENT, Event, Due, Events

(* An acknowledgement may be sent about an id that the broker gave, or     *)
(* whose request it has.                                                   *)
LEMMA AckType ==
    ASSUME NEW type \in FrameTypes \ RequestTypes, NEW id \in Ids,
           type = "PUBREL" => Known(id, "PUBLISH"),
           type = "PUBACK" => FromBroker(id, 1),
           type \in {"PUBREC", "PUBCOMP"} => FromBroker(id, 2)
    PROVE  Ack(type, id) \in Outgoing
BY DEF Ack, Frame, Outgoing, Frames, Msgs

(* A step that leaves the ids and what the broker has alone leaves these   *)
(* sets alone.                                                             *)
LEMMA SameSets ==
    UNCHANGED <<packet_id, ret, bGot>>
      => /\ Outgoing' = Outgoing /\ Incoming' = Incoming
         /\ Due' = Due /\ Packets' = Packets
         /\ \A id, kind : Known(id, kind)' = Known(id, kind)
BY DEF Outgoing, Incoming, Due, Packets, Known, Carries, FromBroker

-----------------------------------------------------------------------------
(* The pieces steps are made of                                            *)

(* Pushing an event keeps the queue typed and within its size, full or not. *)
LEMMA PushType ==
    ASSUME NEW S, queue \in Seq(S), Len(queue) <= QueueSize, NEW e \in S,
           Push(e)
    PROVE  queue' \in Seq(S) /\ Len(queue') <= QueueSize
BY ClientAssumption, AppendProperties, LenProperties DEF Push, QueueFull

(* Popping keeps the queue typed; a popped request is an outgoing frame. *)
LEMMA PopType ==
    ASSUME NEW kind, QueueInv, Pop(kind)
    PROVE  /\ queue' \in Seq(Due) /\ Len(queue') <= QueueSize
           /\ kind = "SEND" => Popped \in Outgoing
<1>1. Head(queue) \in Due
  BY HeadTailProperties DEF QueueInv, Pop
<1>2. queue' \in Seq(Due) /\ Len(queue') <= QueueSize
  BY HeadTailProperties, LenProperties, ClientAssumption DEF QueueInv, Pop
<1>3. QED
  BY <1>1, <1>2 DEF Pop, Popped, Due

(* Reading a packet keeps queue and packets typed; the frame read is one   *)
(* the broker may have sent.                                               *)
LEMMA ReceivingType ==
    ASSUME NEW type, LinkInv, QueueInv, Receiving(type)
    PROVE  /\ queue' \in Seq(Due) /\ Len(queue') <= QueueSize
           /\ rx' \in Seq(Packets)
           /\ Received \in Incoming /\ Received.type = type
<1>1. Pop("RECEIVE") /\ rx # <<>> /\ rx' = Tail(rx)
  BY DEF Receiving
<1>2. Head(rx) \in Packets /\ rx' \in Seq(Packets)
  BY <1>1, HeadTailProperties DEF LinkInv
<1>3. Head(rx)[1] \in Incoming
  BY <1>2, ElementOfSeq, EmptySeq DEF Packets
<1>4. QED
  BY <1>1, <1>2, <1>3, PopType DEF Receiving, Received

(* A send, successful or not, keeps the wire typed and the failures counted. *)
LEMMA PutType ==
    ASSUME NEW S, toBroker \in Seq(S), NEW f \in S, CountsInv,
           \E ok \in SendResults : Put(f, ok)
    PROVE  toBroker' \in Seq(S) /\ fails' \in 0..MaxFails
BY ClientAssumption, AppendProperties
DEF Put, SendResults, CountFail, CountsInv

(* Reporting an id the broker knows reports only what it has received. *)
LEMMA AcksType ==
    ASSUME Inv, NEW id \in Ids, NEW kind, Known(id, kind),
           Tell(kind, id), UNCHANGED bGot
    PROVE  ToldInv'
BY DEF Inv, ToldInv, RetInv, Tell, Upto2, Known, ReportedMeansReceived

(* A step that reports nothing and takes nothing keeps the reports right. *)
LEMMA ToldKept ==
    ASSUME ToldInv, UNCHANGED <<told, bGot>>
    PROVE  ToldInv'
BY DEF ToldInv, ReportedMeansReceived

(* A handler of Mqttmain leaves everything else of the invariant as it is. *)
LEMMA HandlerStep ==
    ASSUME Inv, UNCHANGED HandlerRest, UNCHANGED brokerVars,
           timer' \in BOOLEAN,
           session' \in Seq(Outgoing), Len(session') <= SessionSize,
           queue' \in Seq(Due), Len(queue') <= QueueSize,
           rx' \in Seq(Packets), toBroker' \in Seq(Outgoing),
           fails' \in 0..MaxFails, ToldInv', DeliveredInv'
    PROVE  Inv'
<1>1. /\ Outgoing' = Outgoing /\ Incoming' = Incoming
      /\ Due' = Due /\ Packets' = Packets
      /\ \A id, kind : Known(id, kind)' = Known(id, kind)
  BY SameSets DEF HandlerRest, brokerVars
<1>2. FlagsInv' /\ CountsInv'
  BY DEF Inv, FlagsInv, CountsInv, HandlerRest, Ids
<1>3. SessionInv' /\ QueueInv' /\ LinkInv'
  BY <1>1 DEF Inv, SessionInv, QueueInv, LinkInv, HandlerRest
<1>4. RetInv'
  BY DEF Inv, RetInv, HandlerRest, Ids, NotCalled
<1>5. BrokerInv'
  BY <1>1 DEF Inv, BrokerInv, brokerVars, Ids, BStates, Deliveries
<1>6. QED
  BY <1>2, <1>3, <1>4, <1>5 DEF Inv

-----------------------------------------------------------------------------
(* Mqttmain: sending                                                       *)

(* SEND_CONNECT keeps the invariant. *)
LEMMA SendConnectInv ==
    ASSUME Inv, SendConnect, UNCHANGED brokerVars
    PROVE  Inv'
<1>1. Bare("CONNECT") \in Outgoing
  BY BareType DEF FrameTypes
<1>2. toBroker' \in Seq(Outgoing) /\ fails' \in 0..MaxFails
  BY <1>1, PutType DEF Inv, LinkInv, SendConnect, PutConnect
<1>3. queue' \in Seq(Due) /\ Len(queue') <= QueueSize
  BY PopType DEF Inv, SendConnect, Sending
<1>4. timer' \in BOOLEAN
  BY Zenon DEF SendConnect
<1>5. ToldInv' /\ DeliveredInv'
  BY ToldKept DEF Inv, SendConnect, DeliveredInv, brokerVars
<1>6. QED
  BY <1>2, <1>3, <1>4, <1>5, HandlerStep
  DEF SendConnect, Inv, SessionInv, LinkInv

(* Sends that put a request into the session and on the wire. *)
LEMMA SendRequestInv ==
    ASSUME Inv, SendSubscribe \/ SendUnsubscribe, UNCHANGED brokerVars
    PROVE  Inv'
<1>1. /\ queue' \in Seq(Due) /\ Len(queue') <= QueueSize
      /\ Popped \in Outgoing
  BY PopType DEF Inv, SendSubscribe, SendUnsubscribe, Sending
<1>2. toBroker' \in Seq(Outgoing) /\ fails' \in 0..MaxFails
  BY <1>1, PutType DEF Inv, LinkInv, SendSubscribe, SendUnsubscribe
<1>3. session' \in Seq(Outgoing) /\ Len(session') <= SessionSize
  BY <1>1, AddItemType DEF Inv, SessionInv, SendSubscribe, SendUnsubscribe
<1>4. ToldInv' /\ DeliveredInv'
  BY ToldKept
  DEF Inv, SendSubscribe, SendUnsubscribe, DeliveredInv, brokerVars
<1>5. QED
  BY <1>1, <1>2, <1>3, <1>4, HandlerStep
  DEF SendSubscribe, SendUnsubscribe, Inv, LinkInv, FlagsInv

(* SEND_PUBLISH keeps the invariant; only QoS 0 is reported by it. *)
LEMMA SendPublishInv ==
    ASSUME Inv, SendPublish, UNCHANGED brokerVars
    PROVE  Inv'
<1> DEFINE added == AddItem(session, Popped)
<1>1. /\ queue' \in Seq(Due) /\ Len(queue') <= QueueSize
      /\ Popped \in Outgoing
  BY PopType DEF Inv, SendPublish, Sending
<1>2. toBroker' \in Seq(Outgoing) /\ fails' \in 0..MaxFails
  BY <1>1, PutType DEF Inv, LinkInv, SendPublish
<1>3. added \in Seq(Outgoing) /\ Len(added) <= SessionSize
  BY <1>1, AddItemType DEF Inv, SessionInv
<1>4. /\ RemoveItem(added, Popped.id) \in Seq(Outgoing)
      /\ Len(RemoveItem(added, Popped.id)) <= SessionSize
  <2> HIDE DEF added
  <2>1. /\ RemoveItem(added, Popped.id) \in Seq(Outgoing)
        /\ Len(RemoveItem(added, Popped.id)) <= Len(added)
    BY <1>3, RemoveItemType
  <2>2. QED
    BY <2>1, <1>3, LenProperties, SessionSizeAssumption
<1>5. session' \in Seq(Outgoing) /\ Len(session') <= SessionSize
  BY <1>3, <1>4 DEF SendPublish
<1>6. Popped.msg \in Requests /\ Kind[Popped.msg] = "PUBLISH"
  BY <1>1 DEF SendPublish, Sending, Popped, Outgoing, Carries, RequestTypes
<1>7. \/ told' = told
      \/ /\ Qos[Popped.msg] = 0
         /\ told' = [told EXCEPT ![Popped.msg] = Upto2(@)]
  BY DEF SendPublish
<1>8. ToldInv'
  BY <1>6, <1>7, ClientAssumption
  DEF Inv, ToldInv, ReportedMeansReceived, Acknowledgeable, Upto2, brokerVars
<1>9. DeliveredInv'
  BY DEF Inv, SendPublish, DeliveredInv
<1>10. QED
  BY <1>1, <1>2, <1>5, <1>8, <1>9, HandlerStep
  DEF SendPublish, Inv, LinkInv, FlagsInv

(* SEND_DISCONNECT keeps the invariant, sent or not. *)
LEMMA SendDisconnectInv ==
    ASSUME Inv, SendDisconnect, UNCHANGED brokerVars
    PROVE  Inv'
<1>1. /\ Outgoing' = Outgoing /\ Incoming' = Incoming
      /\ Due' = Due /\ Packets' = Packets
      /\ \A id, kind : Known(id, kind)' = Known(id, kind)
  BY SameSets DEF SendDisconnect, brokerVars
<1>2. QueueInv'
  BY <1>1, PopType DEF Inv, QueueInv, SendDisconnect, Sending
<1>3. PICK ok \in SendResults :
          /\ PutDisconnect(ok)
          /\ IF ok THEN ConnectionClose
                   ELSE UNCHANGED <<sock, netVars, lost, online>>
  BY DEF SendDisconnect
<1>4. LinkInv' /\ SessionInv'
  BY <1>1, <1>3, EmptySeq
  DEF Inv, LinkInv, SessionInv, ConnectionClose, ConnectionDeinit, LinkGone,
      netVars, SendDisconnect
<1>5. FlagsInv'
  BY <1>3, Zenon
  DEF Inv, FlagsInv, ConnectionClose, ConnectionDeinit, LinkGone, netVars,
      SendDisconnect
<1>6. CountsInv'
  BY <1>3, ClientAssumption
  DEF Inv, CountsInv, ConnectionClose, ConnectionDeinit, PutDisconnect,
      CountFail, SendResults, SendDisconnect, Ids
<1>7. RetInv' /\ ToldInv' /\ DeliveredInv'
  BY ToldKept
  DEF Inv, RetInv, DeliveredInv, SendDisconnect, brokerVars, Ids, NotCalled
<1>8. BrokerInv'
  BY <1>1 DEF Inv, BrokerInv, brokerVars, Ids, BStates, Deliveries
<1>9. QED
  BY <1>2, <1>4, <1>5, <1>6, <1>7, <1>8 DEF Inv

-----------------------------------------------------------------------------
(* Mqttmain: receiving                                                     *)

(* Removing an item keeps the session typed. *)
LEMMA RemoveType ==
    ASSUME SessionInv, NEW id, session' = RemoveItem(session, id)
    PROVE  session' \in Seq(Outgoing) /\ Len(session') <= SessionSize
<1>1. /\ RemoveItem(session, id) \in Seq(Outgoing)
      /\ Len(RemoveItem(session, id)) <= Len(session)
  BY RemoveItemType DEF SessionInv
<1>2. QED
  BY <1>1, LenProperties, SessionSizeAssumption DEF SessionInv

(* An acknowledgement that ends an exchange and is reported. *)
LEMMA AnswerInv ==
    ASSUME Inv, NEW kind \in RequestTypes, NEW type \in AnswersTo(kind),
           Receiving(type),
           session' = RemoveItem(session, Received.id),
           Tell(kind, Received.id),
           UNCHANGED <<HandlerRest, timer, toBroker, fails, delivered>>,
           UNCHANGED brokerVars
    PROVE  Inv'
<1>1. /\ queue' \in Seq(Due) /\ Len(queue') <= QueueSize
      /\ rx' \in Seq(Packets)
      /\ Received \in Incoming /\ Received.type = type
  BY ReceivingType DEF Inv
<1>2. session' \in Seq(Outgoing) /\ Len(session') <= SessionSize
  BY RemoveType DEF Inv
<1>3. Received.id \in Ids /\ Known(Received.id, kind)
  BY <1>1 DEF Incoming, Frames
<1>4. ToldInv'
  BY <1>3, AcksType DEF brokerVars
<1>5. DeliveredInv'
  BY DEF Inv, DeliveredInv
<1>6. QED
  BY <1>1, <1>2, <1>4, <1>5, HandlerStep
  DEF Inv, LinkInv, FlagsInv, CountsInv

(* PUBACK, PUBCOMP, SUBACK and UNSUBACK: item removed, request reported. *)
LEMMA AnswersInv ==
    ASSUME Inv, GetPuback \/ GetPubcomp \/ GetSuback \/ GetUnsuback,
           UNCHANGED brokerVars
    PROVE  Inv'
<1>1. CASE GetPuback
  BY <1>1, AnswerInv DEF GetPuback, RecvPuback,
     AnswersTo, RequestTypes, FrameTypes
<1>2. CASE GetPubcomp
  BY <1>2, AnswerInv DEF GetPubcomp, RecvPubcomp,
     AnswersTo, RequestTypes, FrameTypes
<1>3. CASE GetSuback
  BY <1>3, AnswerInv DEF GetSuback, RecvSuback,
     AnswersTo, RequestTypes, FrameTypes
<1>4. CASE GetUnsuback
  BY <1>4, AnswerInv DEF GetUnsuback, RecvUnsuback,
     AnswersTo, RequestTypes, FrameTypes
<1>5. QED
  BY <1>1, <1>2, <1>3, <1>4

(* PUBREC: the PUBLISH item gives way to PUBREL, about an id the broker    *)
(* knows.                                                                  *)
LEMMA GetPubrecInv ==
    ASSUME Inv, GetPubrec, UNCHANGED brokerVars
    PROVE  Inv'
<1> DEFINE id == Received.id
           removed == RemoveItem(session, id)
<1>1. /\ queue' \in Seq(Due) /\ Len(queue') <= QueueSize
      /\ rx' \in Seq(Packets)
      /\ Received \in Incoming /\ Received.type = "PUBREC"
  BY ReceivingType DEF Inv, GetPubrec
<1>2. id \in Ids /\ Known(id, "PUBLISH")
  BY <1>1 DEF Incoming, Frames, RequestTypes, AnswersTo, FrameTypes
<1>3. Ack("PUBREL", id) \in Outgoing
  BY <1>2, AckType DEF FrameTypes, RequestTypes
<1>4. toBroker' \in Seq(Outgoing) /\ fails' \in 0..MaxFails
  BY <1>3, PutType DEF Inv, LinkInv, GetPubrec, RecvPubrec
<1>5. removed \in Seq(Outgoing) /\ Len(removed) <= SessionSize
  <2>1. removed \in Seq(Outgoing) /\ Len(removed) <= Len(session)
    BY RemoveItemType DEF Inv, SessionInv
  <2> HIDE DEF removed
  <2>2. QED
    BY <2>1, LenProperties, SessionSizeAssumption DEF Inv, SessionInv
<1>6. session' \in Seq(Outgoing) /\ Len(session') <= SessionSize
  <2>1. /\ AddItem(removed, Ack("PUBREL", id)) \in Seq(Outgoing)
        /\ Len(AddItem(removed, Ack("PUBREL", id))) <= SessionSize
    BY <1>3, <1>5, AddItemType
  <2>2. \/ session' = removed
        \/ session' = AddItem(removed, Ack("PUBREL", id))
    BY DEF GetPubrec, RecvPubrec
  <2>3. QED
    BY <1>5, <2>1, <2>2
<1>7. ToldInv' /\ DeliveredInv'
  BY ToldKept DEF Inv, GetPubrec, DeliveredInv, brokerVars
<1>8. QED
  BY <1>1, <1>4, <1>6, <1>7, HandlerStep
  DEF GetPubrec, Inv, FlagsInv

(* PUBREL: the PUBREC item goes, PUBCOMP is sent. *)
LEMMA GetPubrelInv ==
    ASSUME Inv, GetPubrel, UNCHANGED brokerVars
    PROVE  Inv'
<1>1. /\ queue' \in Seq(Due) /\ Len(queue') <= QueueSize
      /\ rx' \in Seq(Packets)
      /\ Received \in Incoming /\ Received.type = "PUBREL"
  BY ReceivingType DEF Inv, GetPubrel
<1>2. Ack("PUBCOMP", Received.id) \in Outgoing
  BY <1>1, AckType DEF FrameTypes, RequestTypes, Incoming, Frames
<1>3. toBroker' \in Seq(Outgoing) /\ fails' \in 0..MaxFails
  BY <1>2, PutType DEF Inv, LinkInv, GetPubrel, RecvPubrel
<1>4. session' \in Seq(Outgoing) /\ Len(session') <= SessionSize
  BY RemoveType DEF Inv, GetPubrel, RecvPubrel
<1>5. ToldInv' /\ DeliveredInv'
  BY ToldKept DEF Inv, GetPubrel, DeliveredInv, brokerVars
<1>6. QED
  BY <1>1, <1>3, <1>4, <1>5, HandlerStep
  DEF GetPubrel, Inv, FlagsInv

(* A PUBLISH of the broker, at any QoS, keeps the invariant. *)
LEMMA GetPublishInv ==
    ASSUME Inv, GetPublish, UNCHANGED brokerVars
    PROVE  Inv'
<1>1. /\ queue' \in Seq(Due) /\ Len(queue') <= QueueSize
      /\ rx' \in Seq(Packets)
      /\ Received \in Incoming /\ Received.type = "PUBLISH"
  BY ReceivingType DEF Inv, GetPublish
<1>2. /\ Received.msg \in BMsgs /\ Received.id \in Ids
      /\ Received.id = BId[Received.msg]
  BY <1>1 DEF Incoming, Frames
<1>3. /\ BQos[Received.msg] = 1 => Ack("PUBACK", Received.id) \in Outgoing
      /\ BQos[Received.msg] = 2 => Ack("PUBREC", Received.id) \in Outgoing
  BY <1>2, AckType DEF FrameTypes, RequestTypes, FromBroker
<1>4. toBroker' \in Seq(Outgoing) /\ fails' \in 0..MaxFails
  <2>1. CASE RecvPublish0
    BY <2>1 DEF RecvPublish0, Inv, LinkInv, CountsInv
  <2>2. CASE RecvPublish1
    BY <2>2, <1>3, PutType DEF RecvPublish1, Inv, LinkInv
  <2>3. CASE RecvPublish2
    BY <2>3, <1>3, PutType DEF RecvPublish2, Inv, LinkInv
  <2>4. QED
    BY <2>1, <2>2, <2>3 DEF GetPublish
<1>5. session' \in Seq(Outgoing) /\ Len(session') <= SessionSize
  <2>1. BQos[Received.msg] = 2 =>
          /\ AddItem(session, Ack("PUBREC", Received.id)) \in Seq(Outgoing)
          /\ Len(AddItem(session, Ack("PUBREC", Received.id))) <= SessionSize
    BY <1>3, AddItemType DEF Inv, SessionInv
  <2>2. \/ session' = session
        \/ /\ BQos[Received.msg] = 2
           /\ session' = AddItem(session, Ack("PUBREC", Received.id))
    BY DEF GetPublish, RecvPublish0, RecvPublish1, RecvPublish2
  <2>3. QED
    BY <2>1, <2>2 DEF Inv, SessionInv
<1>6. DeliveredInv'
  BY <1>2
  DEF GetPublish, RecvPublish0, RecvPublish1, RecvPublish2, Deliver, Upto2,
      Inv, DeliveredInv
<1>7. ToldInv'
  BY ToldKept DEF Inv, GetPublish, brokerVars
<1>8. QED
  BY <1>1, <1>4, <1>5, <1>6, <1>7, HandlerStep
  DEF GetPublish, Inv, FlagsInv

(* What a PINGRESP resends are items of the session: outgoing frames. *)
LEMMA ResendType ==
    ASSUME Inv, ResendSession
    PROVE  toBroker' \in Seq(Outgoing) /\ fails' \in 0..MaxFails
<1>1. CASE toBroker' = toBroker \o session /\ UNCHANGED fails
  BY <1>1, ConcatProperties DEF Inv, LinkInv, SessionInv, CountsInv
<1>2. CASE \E n \in 0..(Len(session) - 1) :
             /\ FALSE \in SendResults
             /\ sock = "open" \/ n = 0
             /\ toBroker' = toBroker \o SubSeq(session, 1, n)
             /\ CountFail(FALSE)
  <2>1. PICK n \in 0..(Len(session) - 1) :
             /\ FALSE \in SendResults
             /\ toBroker' = toBroker \o SubSeq(session, 1, n)
             /\ CountFail(FALSE)
    BY <1>2
  <2>2. n \in Int /\ n <= Len(session)
    BY <2>1, LenProperties DEF Inv, SessionInv
  <2>3. \A i \in 1..n : session[i] \in Outgoing
    BY <2>2, ElementOfSeq, LenProperties DEF Inv, SessionInv
  <2>4. SubSeq(session, 1, n) \in Seq(Outgoing)
    BY <2>2, <2>3, SubSeqProperties
  <2>5. toBroker' \in Seq(Outgoing)
    BY <2>1, <2>4, ConcatProperties DEF Inv, LinkInv
  <2>6. fails' \in 0..MaxFails
    BY <2>1, ClientAssumption
    DEF SendResults, CountFail, Inv, CountsInv
  <2>7. QED
    BY <2>5, <2>6
<1>3. QED
  BY <1>1, <1>2 DEF ResendSession

(* The handlers that report nothing and leave the session alone. *)
LEMMA GetOtherInv ==
    ASSUME Inv, ReceiveNothing \/ GetConnack \/ GetPingres,
           UNCHANGED brokerVars
    PROVE  Inv'
<1>1. /\ queue' \in Seq(Due) /\ Len(queue') <= QueueSize
      /\ rx' \in Seq(Packets)
  BY ReceivingType, PopType
  DEF Inv, ReceiveNothing, GetConnack, GetPingres, LinkInv
<1>2. toBroker' \in Seq(Outgoing) /\ fails' \in 0..MaxFails
  BY ResendType
  DEF Inv, LinkInv, CountsInv, ReceiveNothing, GetConnack, GetPingres,
      RecvPingres
<1>3. session' \in Seq(Outgoing) /\ Len(session') <= SessionSize
  BY DEF Inv, SessionInv, ReceiveNothing, GetConnack, GetPingres, RecvPingres
<1>4. ToldInv' /\ DeliveredInv'
  BY ToldKept
  DEF Inv, ReceiveNothing, GetConnack, GetPingres, DeliveredInv, brokerVars
<1>5. timer' \in BOOLEAN /\ UNCHANGED HandlerRest
  BY DEF ReceiveNothing, GetConnack, GetPingres, Inv, FlagsInv
<1>6. QED
  BY <1>1, <1>2, <1>3, <1>4, <1>5, HandlerStep

(* The disconnect event keeps the invariant: the link is empty. *)
LEMMA HandleDisconnectInv ==
    ASSUME Inv, HandleDisconnect, UNCHANGED brokerVars
    PROVE  Inv'
<1>1. /\ Outgoing' = Outgoing /\ Incoming' = Incoming
      /\ Due' = Due /\ Packets' = Packets
      /\ \A id, kind : Known(id, kind)' = Known(id, kind)
  BY SameSets DEF HandleDisconnect, brokerVars
<1>2. QueueInv'
  BY <1>1, PopType DEF Inv, QueueInv, HandleDisconnect
<1>3. LinkInv' /\ SessionInv'
  BY <1>1, EmptySeq
  DEF Inv, LinkInv, SessionInv, ConnectionClose, ConnectionDeinit, LinkGone,
      HandleDisconnect
<1>4. FlagsInv'
  BY Zenon
  DEF Inv, FlagsInv, ConnectionClose, ConnectionDeinit, LinkGone,
      HandleDisconnect
<1>5. CountsInv'
  BY DEF Inv, CountsInv, ConnectionClose, ConnectionDeinit, HandleDisconnect,
         Ids
<1>6. RetInv' /\ ToldInv' /\ DeliveredInv'
  BY ToldKept
  DEF Inv, RetInv, DeliveredInv, HandleDisconnect, brokerVars, Ids, NotCalled
<1>7. BrokerInv'
  BY <1>1 DEF Inv, BrokerInv, brokerVars, Ids, BStates, Deliveries
<1>8. QED
  BY <1>2, <1>3, <1>4, <1>5, <1>6, <1>7 DEF Inv

-----------------------------------------------------------------------------
(* Steps that take no event and leave ids, answers and requests alone: of  *)
(* the application, of the worker thread and of the broker.                *)

(* Such a step keeps the invariant if it keeps the types of what it changes. *)
LEMMA OtherStep ==
    ASSUME Inv, UNCHANGED <<packet_id, ret, told, delivered, bGot>>,
           FlagsInv', CountsInv',
           session' \in Seq(Outgoing), Len(session') <= SessionSize,
           queue' \in Seq(Due), Len(queue') <= QueueSize,
           rx' \in Seq(Packets), toBroker' \in Seq(Outgoing),
           toClient' \in Seq(Incoming),
           bState' \in Deliveries,
           bStored' \subseteq {id \in Ids : Known(id, "PUBLISH")}
    PROVE  Inv'
<1>1. /\ Outgoing' = Outgoing /\ Incoming' = Incoming
      /\ Due' = Due /\ Packets' = Packets
      /\ \A id, kind : Known(id, kind)' = Known(id, kind)
  BY SameSets
<1>2. SessionInv' /\ QueueInv' /\ LinkInv'
  BY <1>1 DEF SessionInv, QueueInv, LinkInv
<1>3. RetInv' /\ ToldInv' /\ DeliveredInv'
  BY ToldKept DEF Inv, RetInv, DeliveredInv, Ids, NotCalled
<1>4. BrokerInv'
  BY <1>1 DEF Inv, BrokerInv, Ids, BStates, Deliveries
<1>5. QED
  BY <1>2, <1>3, <1>4 DEF Inv

(* wiced_mqtt_connect keeps the invariant: the new link is empty, the      *)
(* session is kept or emptied.                                             *)
LEMMA ConnectInv ==
    ASSUME Inv, Connect, UNCHANGED brokerVars
    PROVE  Inv'
<1>1. /\ rx' = <<>> /\ toBroker' = <<>> /\ toClient' = <<>>
      /\ accepted' = FALSE /\ lost' = 0
      /\ UNCHANGED <<packet_id, ret, told, delivered>>
  BY DEF Connect, LinkGone
<1>2. FlagsInv'
  BY <1>1, Zenon DEF Inv, FlagsInv, Connect, InitSession
<1>3. CountsInv'
  BY <1>1, ClientAssumption DEF Inv, CountsInv, Connect, Ids
<1>4. queue' \in Seq(Due) /\ Len(queue') <= QueueSize
  <2>1. CASE Push(Event("SEND", Bare("CONNECT")))
    BY <2>1, EventTypes, PushType DEF Inv, QueueInv
  <2>2. CASE UNCHANGED queue
    BY <2>2 DEF Inv, QueueInv
  <2>3. QED
    BY <2>1, <2>2 DEF Connect
<1>5. session' \in Seq(Outgoing) /\ Len(session') <= SessionSize
  <2>1. session' = <<>> \/ session' = session
    <3>1. CASE InitSession
      BY <3>1, Zenon DEF InitSession
    <3>2. CASE UNCHANGED session
      BY <3>2
    <3>3. QED
      BY <3>1, <3>2, Zenon DEF Connect
  <2>2. <<>> \in Seq(Outgoing) /\ Len(<<>>) <= SessionSize
    BY EmptySeq, SessionSizeAssumption
  <2>3. QED
    BY <2>1, <2>2 DEF Inv, SessionInv
<1>6. QED
  BY <1>1, <1>2, <1>3, <1>4, <1>5, OtherStep, EmptySeq
  DEF Inv, BrokerInv, brokerVars

(* wiced_mqtt_disconnect keeps the invariant. *)
LEMMA DisconnectInv ==
    ASSUME Inv, Disconnect, UNCHANGED brokerVars
    PROVE  Inv'
<1>1. queue' \in Seq(Due) /\ Len(queue') <= QueueSize
  BY EventTypes, PushType DEF Inv, QueueInv, Disconnect
<1>2. FlagsInv' /\ CountsInv'
  BY ClientAssumption
  DEF Inv, FlagsInv, CountsInv, Disconnect, netVars, appVars, Ids
<1>3. QED
  BY <1>1, <1>2, OtherStep
  DEF Disconnect, netVars, appVars, brokerVars, Inv, SessionInv, LinkInv,
      BrokerInv

(* A ping keeps the invariant. *)
LEMMA TickPingInv ==
    ASSUME Inv, TickPing, UNCHANGED brokerVars
    PROVE  Inv'
<1>1. Bare("PINGREQ") \in Outgoing
  BY BareType DEF FrameTypes
<1>2. toBroker' \in Seq(Outgoing) /\ fails' \in 0..MaxFails
  BY <1>1, PutType DEF Inv, LinkInv, TickPing, PutPingreq
<1>3. FlagsInv' /\ CountsInv'
  BY <1>2 DEF Inv, FlagsInv, CountsInv, TickPing, appVars, Ids
<1>4. QED
  BY <1>2, <1>3, OtherStep
  DEF TickPing, appVars, brokerVars, Inv, SessionInv, QueueInv, LinkInv,
      BrokerInv

(* The link breaks, or broke before. *)
LEMMA BreakType ==
    ASSUME Inv, BreakLink
    PROVE  /\ toBroker' = <<>> /\ toClient' = <<>> /\ accepted' = FALSE
           /\ sock' = "broken" /\ drops' \in 0..MaxDrops
           /\ queue' \in Seq(Due) /\ Len(queue') <= QueueSize
<1>1. drops' \in 0..MaxDrops
  BY ClientAssumption DEF BreakLink, Inv, CountsInv
<1>2. queue' \in Seq(Due) /\ Len(queue') <= QueueSize
  <2>1. CASE Push(DISCONNECT_EVENT)
    BY <2>1, EventTypes, PushType DEF Inv, QueueInv
  <2>2. CASE UNCHANGED queue
    BY <2>2 DEF Inv, QueueInv
  <2>3. QED
    BY <2>1, <2>2 DEF BreakLink
<1>3. QED
  BY <1>1, <1>2 DEF BreakLink, LinkGone

(* A timeout of the heartbeat keeps the invariant. *)
LEMMA TickTimeoutInv ==
    ASSUME Inv, TickTimeout, UNCHANGED brokerVars
    PROVE  Inv'
<1>1. \/ BreakLink
      \/ UNCHANGED <<drops, sock, toBroker, toClient, accepted, queue>>
  BY DEF TickTimeout
<1>2. /\ toBroker' \in Seq(Outgoing) /\ toClient' \in Seq(Incoming)
      /\ queue' \in Seq(Due) /\ Len(queue') <= QueueSize
  BY <1>1, BreakType, EmptySeq DEF Inv, LinkInv, QueueInv
<1>3. CountsInv'
  BY <1>1, BreakType DEF TickTimeout, Inv, CountsInv, Ids
<1>4. FlagsInv'
  BY <1>1, Zenon DEF TickTimeout, BreakLink, LinkGone, Inv, FlagsInv
<1>5. QED
  BY <1>2, <1>3, <1>4, OtherStep
  DEF TickTimeout, brokerVars, Inv, SessionInv, LinkInv, BrokerInv

(* A lost link keeps the invariant. *)
LEMMA DisconnectCallbackInv ==
    ASSUME Inv, DisconnectCallback, UNCHANGED brokerVars
    PROVE  Inv'
<1>1. /\ toBroker' \in Seq(Outgoing) /\ toClient' \in Seq(Incoming)
      /\ queue' \in Seq(Due) /\ Len(queue') <= QueueSize
  BY BreakType, EmptySeq DEF DisconnectCallback
<1>2. CountsInv'
  BY BreakType DEF DisconnectCallback, appVars, Inv, CountsInv, Ids
<1>3. FlagsInv'
  BY Zenon DEF DisconnectCallback, BreakLink, LinkGone, appVars, Inv, FlagsInv
<1>4. QED
  BY <1>1, <1>2, <1>3, OtherStep
  DEF DisconnectCallback, appVars, brokerVars, Inv, SessionInv, LinkInv,
      BrokerInv

(* The receive callback keeps the invariant: it cuts a non-empty packet    *)
(* off the front of the stream.                                            *)
LEMMA RecvCallbackInv ==
    ASSUME Inv, RecvCallback, UNCHANGED brokerVars
    PROVE  Inv'
<1>1. PICK n \in 1..MaxPacket :
          /\ n <= Len(toClient)
          /\ rx' = Append(rx, SubSeq(toClient, 1, n))
          /\ toClient' = SubSeq(toClient, n + 1, Len(toClient))
  BY DEF RecvCallback
<1>2. /\ n \in Nat \ {0} /\ Len(toClient) \in Nat
      /\ \A i \in 1..Len(toClient) : toClient[i] \in Incoming
  BY ClientAssumption, LenProperties, ElementOfSeq DEF Inv, LinkInv
<1>3. /\ SubSeq(toClient, 1, n) \in Seq(Incoming)
      /\ Len(SubSeq(toClient, 1, n)) = n
  BY <1>1, <1>2, SubSeqProperties
<1>4. toClient' \in Seq(Incoming)
  BY <1>1, <1>2, SubSeqProperties
<1>5. rx' \in Seq(Packets)
  <2>1. SubSeq(toClient, 1, n) \in Packets
    BY <1>2, <1>3, EmptySeq DEF Packets
  <2>2. QED
    BY <1>1, <2>1, AppendProperties DEF Inv, LinkInv
<1>6. queue' \in Seq(Due) /\ Len(queue') <= QueueSize
  BY EventTypes, PushType DEF RecvCallback, Inv, QueueInv
<1>7. FlagsInv' /\ CountsInv'
  BY DEF RecvCallback, appVars, Inv, FlagsInv, CountsInv, Ids
<1>8. QED
  BY <1>4, <1>5, <1>6, <1>7, OtherStep
  DEF RecvCallback, appVars, brokerVars, Inv, SessionInv, LinkInv, BrokerInv

(* A request gets an id that no frame, no answer and no other request has. *)
LEMMA RequestInv ==
    ASSUME Inv, NEW r \in Requests, Request(r), UNCHANGED brokerVars
    PROVE  Inv'
<1>0. PICK id : id = (packet_id + 1) % IdMod
  OBVIOUS
<1> DEFINE frame == Frame(Kind[r], id, r)
<1>1. /\ ret[r] = NotCalled /\ packet_id' = id
      /\ Push(Event("SEND", frame))
      /\ ret' = [ret EXCEPT ![r] = IF QueueFull THEN 0 ELSE id]
  BY <1>0 DEF Request
<1>2. packet_id \in Ids /\ IdMod \in Nat \ {0}
  BY ClientAssumption DEF Inv, CountsInv
<1>3. id \in Ids
  BY <1>0, <1>2 DEF Ids
<1>4. ~Wrap => id = packet_id + 1
  <2>1. ~Wrap => packet_id < IdMod - 1
    BY DEF Request
  <2>2. QED
    BY <1>0, <1>2, <2>1 DEF Ids
<1>5. RetInv'
  <2>1. ret' \in [Requests -> Ids \cup {NotCalled}]
    BY <1>1, <1>3, ClientAssumption DEF Inv, RetInv, Ids
  <2>2. ASSUME ~Wrap
        PROVE  \A q \in Requests :
                  /\ ret'[q] <= packet_id'
                  /\ \A s \in Requests : ret'[q] = ret'[s] /\ ret'[q] > 0
                                         => q = s
    <3>1. \A q \in Requests :
             /\ ret[q] \in Int /\ ret[q] <= packet_id
             /\ q # r => ret'[q] = ret[q]
      BY <1>1, <2>2 DEF Inv, RetInv, Ids, NotCalled
    <3>2. ret'[r] \in {0, packet_id + 1} /\ packet_id' = packet_id + 1
      BY <1>1, <1>4, <2>2 DEF Inv, RetInv
    <3>3. QED
      BY <1>2, <3>1, <3>2, <2>2 DEF Inv, RetInv, Ids
  <2>3. QED
    BY <2>1, <2>2 DEF RetInv, Ids
<1>6. ASSUME NEW k, NEW kind, Known(k, kind) PROVE Known(k, kind)'
  BY <1>1, <1>2, <1>4, <1>6 DEF Known, brokerVars, Inv, RetInv, Ids, NotCalled
<1>7. ASSUME NEW f, Carries(f) PROVE Carries(f)'
  BY <1>1, <1>2, <1>4, <1>7 DEF Carries, Inv, RetInv, Ids, NotCalled
<1>8. Outgoing \subseteq Outgoing' /\ Incoming \subseteq Incoming'
  BY <1>6, <1>7 DEF Outgoing, Incoming, FromBroker
<1>9. Due \subseteq Due'
  BY <1>8 DEF Due
<1>10. Packets \subseteq Packets'
  <2>1. \A p \in Seq(Incoming) : p \in Seq(Incoming')
    BY <1>8, SeqMonotonic
  <2>2. QED
    BY <2>1 DEF Packets
<1>11. SessionInv' /\ LinkInv'
  BY <1>8, <1>10, SeqMonotonic DEF Inv, SessionInv, LinkInv, Request, netVars
<1>12. QueueInv'
  <2>1. CASE QueueFull
    BY <1>1, <1>9, <2>1, SeqMonotonic DEF Push, Inv, QueueInv
  <2>2. CASE ~QueueFull
    <3>1. ret'[r] = id
      BY <1>1, <2>2 DEF Inv, RetInv
    <3>2. frame \in Outgoing'
      <4>0. Kind[r] \in {"PUBLISH", "SUBSCRIBE", "UNSUBSCRIBE"}
        BY ClientAssumption
      <4>1. frame \in Frames
        BY <1>3, <4>0, SMTT(30) DEF Frame, Frames, FrameTypes, Msgs
      <4>2. Carries(frame)'
        BY <1>1, <1>2, <1>3, <1>4, <3>1 DEF Carries, Frame, Ids
      <4>3. frame.type # "PUBREL"
        BY <4>0 DEF Frame
      <4>4. QED
        BY <4>0, <4>1, <4>2, <4>3 DEF Outgoing, Frame, RequestTypes
    <3> HIDE DEF frame
    <3>3. Event("SEND", frame) \in Due'
      BY <3>2 DEF Event, Due, Events, Outgoing
    <3>4. queue \in Seq(Due')
      BY <1>9, SeqMonotonic DEF Inv, QueueInv
    <3>5. queue' \in Seq(Due') /\ Len(queue') <= QueueSize
      BY <1>1, <3>3, <3>4, PushType DEF Inv, QueueInv
    <3>6. QED
      BY <3>5 DEF QueueInv
  <2>3. QED
    BY <2>1, <2>2
<1>13. FlagsInv'
  BY DEF Request, netVars, Inv, FlagsInv
<1>14. CountsInv'
  BY <1>1, <1>3 DEF Request, countVars, Inv, CountsInv, Ids
<1>15. ToldInv' /\ DeliveredInv'
  BY ToldKept DEF Request, brokerVars, Inv, DeliveredInv
<1>16. BrokerInv'
  BY <1>6 DEF Inv, BrokerInv, brokerVars, Ids, BStates, Deliveries
<1>17. QED
  BY <1>5, <1>11, <1>12, <1>13, <1>14, <1>15, <1>16 DEF Inv

-----------------------------------------------------------------------------
(* The broker                                                              *)

(* What the broker has it keeps. *)
Kept == /\ bGot' \in [Requests -> 0..2]
        /\ \A r \in Requests : bGot[r] > 0 => bGot'[r] > 0

(* As the broker takes more, more ids are known and more frames allowed. *)
LEMMA KeptGrows ==
    ASSUME UNCHANGED <<packet_id, ret>>, Kept
    PROVE  /\ \A id, kind : Known(id, kind) => Known(id, kind)'
           /\ Outgoing \subseteq Outgoing' /\ Incoming \subseteq Incoming'
           /\ Due \subseteq Due' /\ Packets \subseteq Packets'
<1>1. \A id, kind : Known(id, kind) => Known(id, kind)'
  BY DEF Known, Kept
<1>2. \A f : Carries(f) => Carries(f)'
  BY DEF Carries
<1>3. Outgoing \subseteq Outgoing' /\ Incoming \subseteq Incoming'
  BY <1>1, <1>2 DEF Outgoing, Incoming, FromBroker
<1>4. \A p \in Seq(Incoming) : p \in Seq(Incoming')
  BY <1>3, SeqMonotonic
<1>5. QED
  BY <1>1, <1>3, <1>4 DEF Due, Packets

(* A step of the broker keeps the invariant if what it sends is allowed    *)
(* after it.                                                               *)
LEMMA BrokerStep ==
    ASSUME Inv, Kept,
           UNCHANGED <<packet_id, ret, told, delivered, session, queue, rx>>,
           FlagsInv', CountsInv',
           toBroker' \in Seq(Outgoing), toClient' \in Seq(Incoming'),
           bState' \in Deliveries,
           bStored' \subseteq {id \in Ids : Known(id, "PUBLISH")'}
    PROVE  Inv'
<1>1. /\ Outgoing \subseteq Outgoing' /\ Due \subseteq Due'
      /\ Packets \subseteq Packets'
  BY KeptGrows
<1>2. SessionInv' /\ QueueInv' /\ LinkInv'
  BY <1>1, SeqMonotonic DEF Inv, SessionInv, QueueInv, LinkInv
<1>3. RetInv' /\ DeliveredInv'
  BY DEF Inv, RetInv, DeliveredInv, Ids, NotCalled
<1>4. ToldInv'
  BY DEF Inv, ToldInv, ReportedMeansReceived, Kept
<1>5. BrokerInv'
  BY DEF BrokerInv, Kept, BStates, Deliveries, Ids
<1>6. QED
  BY <1>2, <1>3, <1>4, <1>5 DEF Inv

(* Taking a frame off the link yields an outgoing frame and disturbs       *)
(* nothing of the client's.                                                *)
LEMMA TakesType ==
    ASSUME Inv, NEW type, Takes(type)
    PROVE  /\ Taken \in Outgoing /\ Taken.type = type
           /\ toBroker' \in Seq(Outgoing)
           /\ FlagsInv' /\ CountsInv'
           /\ UNCHANGED <<packet_id, ret, told, delivered, session, queue,
                          rx>>
<1>1. /\ toBroker # <<>> /\ toBroker' = Tail(toBroker)
      /\ Head(toBroker).type = type
      /\ UNCHANGED <<BrokerLeaves, sock, queue, drops, accepted>>
  BY DEF Takes
<1>2. Taken \in Outgoing /\ toBroker' \in Seq(Outgoing)
  BY <1>1, HeadTailProperties DEF Taken, Inv, LinkInv
<1>3. FlagsInv' /\ CountsInv'
  BY <1>1 DEF Inv, FlagsInv, CountsInv, BrokerLeaves, appVars, Ids
<1>4. QED
  BY <1>1, <1>2, <1>3 DEF Taken, BrokerLeaves, appVars

(* The broker's answer is allowed if the id it is about is known. *)
LEMMA ReplyType ==
    ASSUME Inv, Kept, UNCHANGED <<packet_id, ret>>, NEW id \in Ids,
           NEW type \in FrameTypes \ RequestTypes,
           type = "PUBREL" => FromBroker(id, 2),
           \A kind \in RequestTypes : type \in AnswersTo(kind)
                                        => Known(id, kind)',
           Reply(type, id)
    PROVE  toClient' \in Seq(Incoming')
<1>1. Ack(type, id) \in Incoming'
  BY DEF Ack, Frame, Incoming, Frames, Msgs, FromBroker, RequestTypes
<1>2. toClient \in Seq(Incoming')
  BY KeptGrows, SeqMonotonic DEF Inv, LinkInv
<1>3. QED
  BY <1>1, <1>2, AppendProperties DEF Reply

(* A request that the broker has taken: its id is no other request's. *)
LEMMA TakenKnown ==
    ASSUME Inv, Kept, UNCHANGED <<packet_id, ret>>,
           NEW f \in Outgoing,
           f.type \in RequestTypes,
           bGot'[f.msg] > 0
    PROVE  Known(f.id, f.type)'
BY DEF Known, Inv, RetInv, Outgoing, Carries, CountsInv, Ids

(* A request that is taken has been taken; the others are as before. *)
LEMMA TookKept ==
    ASSUME BrokerInv, NEW r \in Requests, Took(r)
    PROVE  Kept /\ bGot'[r] > 0
BY DEF BrokerInv, Took, Upto2, Kept

(* The ids stored for QoS 2 stay known. *)
LEMMA StoredKept ==
    ASSUME Inv, Kept, UNCHANGED <<packet_id, ret>>
    PROVE  bStored \subseteq {id \in Ids : Known(id, "PUBLISH")'}
BY KeptGrows DEF Inv, BrokerInv

(* The broker takes SUBSCRIBE or UNSUBSCRIBE: its answer is about a        *)
(* request it has.                                                         *)
LEMMA TakeSubscribeInv ==
    ASSUME Inv, BrokerTakeSubscribe \/ BrokerTakeUnsubscribe
    PROVE  Inv'
<1>1. /\ Taken \in Outgoing
      /\ Taken.type \in {"SUBSCRIBE", "UNSUBSCRIBE"}
      /\ toBroker' \in Seq(Outgoing)
      /\ FlagsInv' /\ CountsInv'
      /\ UNCHANGED <<packet_id, ret, told, delivered, session, queue, rx>>
  BY TakesType DEF BrokerTakeSubscribe, BrokerTakeUnsubscribe
<1>2. PICK f \in Outgoing : f = Taken
  BY <1>1
<1>3. f.msg \in Requests /\ f.id \in Ids
  BY <1>1, <1>2 DEF Outgoing, Carries, Frames, RequestTypes
<1>4. Kept /\ bGot'[f.msg] > 0
  BY <1>2, <1>3, TookKept
  DEF Inv, BrokerTakeSubscribe, BrokerTakeUnsubscribe
<1>5. Known(f.id, f.type)'
  BY <1>1, <1>2, <1>4, TakenKnown DEF RequestTypes
<1>6. toClient' \in Seq(Incoming')
  <2>1. CASE BrokerTakeSubscribe
    <3>1. f.type = "SUBSCRIBE" /\ Reply("SUBACK", f.id)
      BY <1>2, <2>1 DEF BrokerTakeSubscribe, Takes, Taken
    <3>2. QED
      BY <1>1, <1>3, <1>4, <1>5, <3>1, ReplyType
      DEF FrameTypes, RequestTypes, AnswersTo
  <2>2. CASE BrokerTakeUnsubscribe
    <3>1. f.type = "UNSUBSCRIBE" /\ Reply("UNSUBACK", f.id)
      BY <1>2, <2>2 DEF BrokerTakeUnsubscribe, Takes, Taken
    <3>2. QED
      BY <1>1, <1>3, <1>4, <1>5, <3>1, ReplyType
      DEF FrameTypes, RequestTypes, AnswersTo
  <2>3. QED
    BY <2>1, <2>2
<1>7. /\ bState' \in Deliveries
      /\ bStored' \subseteq {id \in Ids : Known(id, "PUBLISH")'}
  BY <1>1, <1>4, StoredKept
  DEF BrokerTakeSubscribe, BrokerTakeUnsubscribe, Inv, BrokerInv
<1>8. QED
  BY <1>1, <1>4, <1>6, <1>7, BrokerStep

(* A QoS 2 message is answered again as long as its id is stored. *)
LEMMA TakePublishInv ==
    ASSUME Inv, BrokerTakePublish
    PROVE  Inv'
<1>1. /\ Taken \in Outgoing /\ Taken.type = "PUBLISH"
      /\ toBroker' \in Seq(Outgoing)
      /\ FlagsInv' /\ CountsInv'
      /\ UNCHANGED <<packet_id, ret, told, delivered, session, queue, rx>>
  BY TakesType DEF BrokerTakePublish
<1>2. PICK f \in Outgoing : f = Taken
  BY <1>1
<1>3. f.msg \in Requests /\ f.id \in Ids /\ Qos[f.msg] \in 0..2
  BY <1>1, <1>2, ClientAssumption DEF Outgoing, Carries, Frames, RequestTypes
<1> DEFINE new == Qos[f.msg] < 2 \/ f.id \notin bStored
<1>4. /\ IF new THEN Took(f.msg) ELSE UNCHANGED bGot
      /\ bStored' = IF Qos[f.msg] = 2 THEN bStored \cup {f.id} ELSE bStored
      /\ CASE Qos[f.msg] = 0 -> UNCHANGED toClient
           [] Qos[f.msg] = 1 -> Reply("PUBACK", f.id)
           [] Qos[f.msg] = 2 -> Reply("PUBREC", f.id)
      /\ UNCHANGED bState
  BY <1>2 DEF BrokerTakePublish
<1>5. Kept
  <2>1. CASE new
    BY <1>3, <1>4, <2>1, TookKept DEF Inv
  <2>2. CASE ~new
    BY <1>4, <2>2 DEF Kept, Inv, BrokerInv
  <2>3. QED
    BY <2>1, <2>2
<1>6. Known(f.id, "PUBLISH")'
  <2>1. CASE new
    <3>1. bGot'[f.msg] > 0
      BY <1>3, <1>4, <2>1, TookKept DEF Inv
    <3>2. QED
      BY <1>1, <1>2, <1>5, <3>1, TakenKnown DEF RequestTypes
  <2>2. CASE ~new
    BY <1>1, <1>5, <2>2, KeptGrows DEF Inv, BrokerInv
  <2>3. QED
    BY <2>1, <2>2
<1>7. toClient' \in Seq(Incoming')
  <2>1. CASE Qos[f.msg] = 0
    BY <1>1, <1>4, <1>5, <2>1, KeptGrows, SeqMonotonic DEF Inv, LinkInv
  <2>2. CASE Qos[f.msg] = 1
    BY <1>1, <1>3, <1>4, <1>5, <1>6, <2>2, ReplyType
    DEF FrameTypes, RequestTypes, AnswersTo
  <2>3. CASE Qos[f.msg] = 2
    BY <1>1, <1>3, <1>4, <1>5, <1>6, <2>3, ReplyType
    DEF FrameTypes, RequestTypes, AnswersTo
  <2>4. QED
    BY <1>3, <2>1, <2>2, <2>3
<1>8. bStored' \subseteq {id \in Ids : Known(id, "PUBLISH")'}
  BY <1>1, <1>3, <1>4, <1>5, <1>6, StoredKept
<1>9. bState' \in Deliveries
  BY <1>4 DEF Inv, BrokerInv
<1>10. QED
  BY <1>1, <1>5, <1>7, <1>8, <1>9, BrokerStep

(* Only what was received is released: PUBCOMP ends an exchange of a       *)
(* request that the broker has.                                            *)
LEMMA TakePubrelInv ==
    ASSUME Inv, BrokerTakePubrel
    PROVE  Inv'
<1>1. /\ Taken \in Outgoing /\ Taken.type = "PUBREL"
      /\ toBroker' \in Seq(Outgoing)
      /\ FlagsInv' /\ CountsInv'
      /\ UNCHANGED <<packet_id, ret, told, delivered, session, queue, rx>>
  BY TakesType DEF BrokerTakePubrel
<1>2. PICK f \in Outgoing : f = Taken
  BY <1>1
<1>3. Kept
  BY DEF BrokerTakePubrel, Kept, Inv, BrokerInv
<1>4. f.id \in Ids /\ Known(f.id, "PUBLISH")'
  BY <1>1, <1>2, <1>3, KeptGrows DEF Outgoing, Frames
<1>5. toClient' \in Seq(Incoming')
  BY <1>1, <1>2, <1>3, <1>4, ReplyType
  DEF BrokerTakePubrel, FrameTypes, RequestTypes, AnswersTo
<1>6. /\ bState' \in Deliveries
      /\ bStored' \subseteq {id \in Ids : Known(id, "PUBLISH")'}
  BY <1>1, <1>3, StoredKept DEF BrokerTakePubrel, Inv, BrokerInv
<1>7. QED
  BY <1>1, <1>3, <1>5, <1>6, BrokerStep

(* Marking messages keeps the broker's states typed. *)
LEMMA BecomesType ==
    ASSUME BrokerInv, NEW S, NEW state \in BStates, Becomes(S, state),
           state \in {"released", "rerelease"} => \A m \in S : BQos[m] = 2
    PROVE  bState' \in Deliveries
BY DEF BrokerInv, Becomes, Deliveries

(* The broker takes PINGREQ, PUBACK, PUBREC or PUBCOMP. *)
LEMMA TakeOtherInv ==
    ASSUME Inv,
           \/ BrokerTakePing \/ BrokerTakePuback
           \/ BrokerTakePubrec \/ BrokerTakePubcomp
    PROVE  Inv'
<1>1. /\ Taken \in Outgoing
      /\ toBroker' \in Seq(Outgoing)
      /\ FlagsInv' /\ CountsInv'
      /\ UNCHANGED <<packet_id, ret, told, delivered, session, queue, rx>>
  BY TakesType
  DEF BrokerTakePing, BrokerTakePuback, BrokerTakePubrec, BrokerTakePubcomp
<1>2. PICK f \in Outgoing : f = Taken
  BY <1>1
<1>3. Kept /\ UNCHANGED bStored
  BY DEF BrokerTakePing, BrokerTakePuback, BrokerTakePubrec,
         BrokerTakePubcomp, brokerVars, Kept, Inv, BrokerInv
<1>4. f.id \in Ids /\ 0 \in Ids
  BY <1>2, ClientAssumption DEF Outgoing, Frames, Ids
<1>5. toClient \in Seq(Incoming')
  BY <1>1, <1>3, KeptGrows, SeqMonotonic DEF Inv, LinkInv
<1>6. toClient' \in Seq(Incoming')
  <2>1. CASE UNCHANGED toClient
    BY <1>5, <2>1
  <2>2. CASE Reply("PINGRESP", 0)
    BY <1>1, <1>3, <1>4, <2>2, ReplyType DEF FrameTypes, RequestTypes,
                                             AnswersTo
  <2>3. CASE f.type = "PUBREC" /\ Reply("PUBREL", f.id)
    <3>1. FromBroker(f.id, 2)
      BY <2>3 DEF Outgoing
    <3>2. QED
      BY <1>1, <1>3, <1>4, <2>3, <3>1, ReplyType
      DEF FrameTypes, RequestTypes, AnswersTo
  <2>4. QED
    BY <1>2, <2>1, <2>2, <2>3
    DEF BrokerTakePing, BrokerTakePuback, BrokerTakePubrec,
        BrokerTakePubcomp, Takes, Taken
<1>7. bState' \in Deliveries
  <2>1. CASE BrokerTakePing
    BY <2>1 DEF BrokerTakePing, brokerVars, Inv, BrokerInv
  <2>2. CASE BrokerTakePuback
    BY <2>2, BecomesType DEF BrokerTakePuback, Inv, BStates, Acknowledged
  <2>3. CASE BrokerTakePubrec
    BY <2>3, BecomesType DEF BrokerTakePubrec, Inv, BStates, Acknowledged
  <2>4. CASE BrokerTakePubcomp
    BY <2>4, BecomesType DEF BrokerTakePubcomp, Inv, BStates
  <2>5. QED
    BY <2>1, <2>2, <2>3, <2>4
<1>8. bStored' \subseteq {id \in Ids : Known(id, "PUBLISH")'}
  BY <1>1, <1>3, StoredKept
<1>9. QED
  BY <1>1, <1>3, <1>6, <1>7, <1>8, BrokerStep

(* The broker accepts a CONNECT, with its session or without. *)
LEMMA BrokerConnectInv ==
    ASSUME Inv, BrokerConnect
    PROVE  Inv'
<1>1. /\ toBroker # <<>> /\ toBroker' = Tail(toBroker)
      /\ Reply("CONNACK", 0)
      /\ accepted' = TRUE
      /\ UNCHANGED <<BrokerLeaves, sock, queue, drops, bGot>>
  BY DEF BrokerConnect
<1>2. toBroker' \in Seq(Outgoing)
  BY <1>1, HeadTailProperties DEF Inv, LinkInv
<1>3. FlagsInv'
  BY <1>1, Zenon DEF Inv, FlagsInv, BrokerLeaves, appVars
<1>4. CountsInv'
  BY <1>1 DEF Inv, CountsInv, BrokerLeaves, Ids
<1>5. Kept /\ UNCHANGED <<packet_id, ret, told, delivered, session, queue, rx>>
  BY <1>1 DEF Kept, Inv, BrokerInv, BrokerLeaves, appVars
<1>6. toClient' \in Seq(Incoming')
  <2>1. 0 \in Ids
    BY ClientAssumption DEF Ids
  <2>2. QED
    BY <1>1, <1>5, <2>1, ReplyType DEF FrameTypes, RequestTypes,
                                             AnswersTo
<1>7. bState' \in Deliveries
  BY DEF BrokerConnect, Inv, BrokerInv, BStates, Deliveries, InFlight
<1>8. bStored' \subseteq {id \in Ids : Known(id, "PUBLISH")'}
  <2>1. bStored' \subseteq bStored
    BY DEF BrokerConnect
  <2>2. QED
    BY <1>5, <2>1, StoredKept
<1>9. QED
  BY <1>2, <1>3, <1>4, <1>5, <1>6, <1>7, <1>8, BrokerStep

(* The broker closes a link that breaks the protocol. *)
LEMMA BrokerRejectInv ==
    ASSUME Inv, BrokerReject
    PROVE  Inv'
<1>1. /\ sock' = "broken" /\ accepted' = FALSE
      /\ toBroker' = <<>> /\ toClient' = <<>>
      /\ UNCHANGED <<BrokerLeaves, drops, brokerVars>>
  BY DEF BrokerReject, LinkGone
<1>2. queue' \in Seq(Due) /\ Len(queue') <= QueueSize
  <2>1. CASE Push(DISCONNECT_EVENT)
    BY <2>1, EventTypes, PushType DEF Inv, QueueInv
  <2>2. CASE UNCHANGED queue
    BY <2>2 DEF Inv, QueueInv
  <2>3. QED
    BY <2>1, <2>2 DEF BrokerReject
<1>3. FlagsInv'
  BY <1>1, Zenon DEF Inv, FlagsInv, BrokerLeaves, appVars
<1>4. CountsInv'
  BY <1>1 DEF Inv, CountsInv, BrokerLeaves, Ids
<1>5. QED
  BY <1>1, <1>2, <1>3, <1>4, OtherStep, EmptySeq
  DEF BrokerLeaves, appVars, brokerVars, Inv, SessionInv, LinkInv, BrokerInv

(* The broker sends a message, or a PUBREL again. *)
LEMMA BrokerSendsInv ==
    ASSUME Inv, NEW m \in BMsgs, BrokerPublish(m) \/ BrokerRelease(m)
    PROVE  Inv'
<1>0. BrokerRelease(m) => BQos[m] = 2
  BY DEF BrokerRelease, Inv, BrokerInv, Deliveries
<1>1. UNCHANGED <<BrokerLeaves, sock, queue, drops, accepted, toBroker,
                  bStored, bGot>>
  BY DEF BrokerPublish, BrokerRelease
<1>2. FlagsInv' /\ CountsInv'
  BY <1>1 DEF Inv, FlagsInv, CountsInv, BrokerLeaves, appVars, Ids
<1>3. Kept /\ UNCHANGED <<packet_id, ret, told, delivered, session, queue, rx>>
  BY <1>1 DEF Kept, Inv, BrokerInv, BrokerLeaves, appVars
<1>4. BId[m] \in Ids
  BY ClientAssumption DEF Ids
<1>5. toClient' \in Seq(Incoming')
  <2>1. CASE toClient' = Append(toClient, Frame("PUBLISH", BId[m], m))
    <3>1. Frame("PUBLISH", BId[m], m) \in Incoming'
      BY <1>4 DEF Frame, Incoming, Frames, FrameTypes, Msgs, RequestTypes,
                AnswersTo
    <3>2. toClient \in Seq(Incoming')
      BY <1>3, KeptGrows, SeqMonotonic DEF Inv, LinkInv
    <3>3. QED
      BY <2>1, <3>1, <3>2, AppendProperties
  <2>2. CASE BQos[m] = 2 /\ Reply("PUBREL", BId[m])
    BY <1>3, <1>4, <2>2, ReplyType
    DEF FrameTypes, RequestTypes, AnswersTo, FromBroker
  <2>3. QED
    BY <1>0, <2>1, <2>2 DEF BrokerPublish, BrokerRelease
<1>6. bState' \in Deliveries
  <2>1. /\ (IF BQos[m] = 0 THEN "done" ELSE "sent") \in BStates
        /\ "released" \in BStates
    BY DEF BStates
  <2>2. CASE BrokerPublish(m)
    BY <2>1, <2>2, BecomesType DEF BrokerPublish, Inv
  <2>3. CASE BrokerRelease(m)
    BY <1>0, <2>1, <2>3, BecomesType DEF BrokerRelease, Inv
  <2>4. QED
    BY <2>2, <2>3
<1>7. bStored' \subseteq {id \in Ids : Known(id, "PUBLISH")'}
  BY <1>1, <1>3, StoredKept
<1>8. QED
  BY <1>1, <1>2, <1>3, <1>5, <1>6, <1>7, BrokerStep DEF Inv, LinkInv

-----------------------------------------------------------------------------
(* The specification                                                       *)

(* mqtt_core_init and a new broker satisfy the invariant. *)
LEMMA InitInv == Init => Inv
<1> SUFFICES ASSUME Init PROVE Inv
  OBVIOUS
<1> USE DEF Init, ClientInit, BrokerInit
<1>1. FlagsInv
  BY Zenon DEF FlagsInv
<1>2. CountsInv
  BY ClientAssumption DEF CountsInv, Ids
<1>3. SessionInv /\ QueueInv /\ LinkInv
  <2>1. \A S : <<>> \in Seq(S) /\ Len(<<>>) = 0
    BY EmptySeq
  <2>2. 0 <= SessionSize /\ 0 <= QueueSize
    BY SessionSizeAssumption, ClientAssumption
  <2>3. QED
    BY <2>1, <2>2 DEF SessionInv, QueueInv, LinkInv
<1>4. RetInv
  BY ClientAssumption DEF RetInv, NotCalled, Ids
<1>5. ToldInv /\ DeliveredInv
  BY DEF ToldInv, DeliveredInv, ReportedMeansReceived
<1>6. BrokerInv
  BY DEF BrokerInv, BStates, Deliveries
<1>7. QED
  BY <1>1, <1>2, <1>3, <1>4, <1>5, <1>6 DEF Inv

(* A step that changes nothing keeps the invariant. *)
LEMMA StutterInv ==
    ASSUME Inv, UNCHANGED vars
    PROVE  Inv'
<1>1. UNCHANGED <<packet_id, session_init, session_set, session, timer, sock,
                  queue, rx, toBroker, toClient, accepted, online, ret, told,
                  delivered, connects, discs, drops, fails, lost,
                  bStored, bGot, bState>>
  BY DEF vars, clientVars, brokerVars, netVars, appVars, countVars
<1>2. FlagsInv' /\ CountsInv'
  BY <1>1 DEF Inv, FlagsInv, CountsInv, Ids
<1>3. QED
  BY <1>1, <1>2, OtherStep
  DEF Inv, SessionInv, QueueInv, LinkInv, BrokerInv

(* The calls of mqtt_api.c keep the invariant. *)
LEMMA ApplicationInv ==
    ASSUME Inv, Application, UNCHANGED brokerVars
    PROVE  Inv'
<1>1. CASE \E r \in Requests : Publish(r) \/ Subscribe(r) \/ Unsubscribe(r)
  <2>1. PICK r \in Requests : Request(r)
    BY <1>1 DEF Publish, Subscribe, Unsubscribe
  <2>2. QED
    BY <2>1, RequestInv
<1>2. QED
  BY <1>1, ConnectInv, DisconnectInv DEF Application

(* The handlers of mqtt_manager.c keep the invariant. *)
LEMMA MqttmainInv ==
    ASSUME Inv, Mqttmain, UNCHANGED brokerVars
    PROVE  Inv'
<1>1. CASE HandleSend
  BY <1>1, SendConnectInv, SendRequestInv, SendPublishInv, SendDisconnectInv
  DEF HandleSend
<1>2. CASE HandleReceive
  BY <1>2, AnswersInv, GetPubrecInv, GetPubrelInv, GetPublishInv, GetOtherInv
  DEF HandleReceive
<1>3. QED
  BY <1>1, <1>2, HandleDisconnectInv DEF Mqttmain

(* The tick and the TCP callbacks keep the invariant. *)
LEMMA WorkerInv ==
    ASSUME Inv, Worker, UNCHANGED brokerVars
    PROVE  Inv'
BY TickPingInv, TickTimeoutInv, RecvCallbackInv, DisconnectCallbackInv
DEF Worker

(* The broker's steps keep the invariant. *)
LEMMA BrokerStepsInv ==
    ASSUME Inv, Broker
    PROVE  Inv'
<1>1. CASE BrokerTakes
  BY <1>1, BrokerConnectInv, BrokerRejectInv, TakePublishInv, TakePubrelInv,
     TakeSubscribeInv, TakeOtherInv
  DEF BrokerTakes
<1>2. CASE BrokerSends
  BY <1>2, BrokerSendsInv DEF BrokerSends
<1>3. QED
  BY <1>1, <1>2 DEF Broker

(* Every step of the system keeps the invariant: it is inductive. *)
LEMMA NextInv == Inv /\ [Next]_vars => Inv'
<1> SUFFICES ASSUME Inv, [Next]_vars PROVE Inv'
  OBVIOUS
<1>1. CASE Client
  BY <1>1, ApplicationInv, MqttmainInv, WorkerInv DEF Client, ClientNext
<1>2. CASE Broker
  BY <1>2, BrokerStepsInv
<1>3. CASE UNCHANGED vars
  BY <1>3, StutterInv
<1>4. QED
  BY <1>1, <1>2, <1>3 DEF Next

(* The inductive invariant holds in every state the system reaches, for    *)
(* every value of the constants.                                           *)
THEOREM InvHolds == Spec => []Inv
BY InitInv, NextInv, PTL DEF Spec

(* The invariant's frames and events are frames and events: it implies the *)
(* type invariant that the runs check.                                     *)
LEMMA InvTypeOK == Inv => ClientTypeOK /\ BrokerTypeOK
<1> SUFFICES ASSUME Inv PROVE ClientTypeOK /\ BrokerTypeOK
  OBVIOUS
<1>1. Outgoing \subseteq Frames /\ Incoming \subseteq Frames
      /\ Due \subseteq Events
  BY DEF Outgoing, Incoming, Due
<1>2. session \in Seq(Frames) /\ queue \in Seq(Events)
      /\ toBroker \in Seq(Frames) /\ toClient \in Seq(Frames)
  BY <1>1, SeqMonotonic DEF Inv, SessionInv, QueueInv, LinkInv
<1>3. rx \in Seq(Seq(Frames) \ {<<>>})
  <2>1. \A p \in Seq(Incoming) : p \in Seq(Frames)
    BY <1>1, SeqMonotonic
  <2>2. Packets \subseteq Seq(Frames) \ {<<>>}
    BY <2>1 DEF Packets
  <2>3. QED
    BY <2>2, SeqMonotonic DEF Inv, LinkInv
<1>4. ClientTypeOK
  BY <1>2, <1>3
  DEF Inv, ClientTypeOK, FlagsInv, CountsInv, SessionInv, QueueInv, RetInv,
      ToldInv, DeliveredInv
<1>5. BrokerTypeOK
  BY DEF Inv, BrokerInv, BrokerTypeOK, Deliveries
<1>6. QED
  BY <1>4, <1>5

(* No step changes what the application asks for. *)
LEMMA CleanSessionFixed == Spec => [](clean_session \in CleanSessions)
<1>1. Init => clean_session \in CleanSessions
  BY DEF Init, ClientInit
<1>2. clean_session \in CleanSessions /\ [Next]_vars
      => (clean_session \in CleanSessions)'
  BY DEF Next, vars, clientVars
<1>3. QED
  BY <1>1, <1>2, PTL DEF Spec

(* Every variable of client and broker keeps to its type: queue and        *)
(* session never grow past their sizes, packet ids stay in the range of a  *)
(* uint16_t.                                                               *)
THEOREM TypeCorrect == Spec => []TypeOK
<1>1. Inv /\ clean_session \in CleanSessions => TypeOK
  BY InvTypeOK DEF TypeOK
<1>2. QED
  BY <1>1, InvHolds, CleanSessionFixed, PTL

(* As long as packet_id does not wrap, PUBLISHED (QoS 1 and 2), SUBSCRIBED *)
(* and UNSUBSCRIBED are reported only for what the broker has received,    *)
(* whatever is lost, resent or reconnected, and although the session       *)
(* confuses ids of client and broker.                                      *)
THEOREM ReportedMeansReceivedHolds ==
    ASSUME ~Wrap
    PROVE  Spec => []ReportedMeansReceived
<1>1. Inv => ReportedMeansReceived
  BY DEF Inv, ToldInv
<1>2. QED
  BY <1>1, InvHolds, PTL

-----------------------------------------------------------------------------
(* Packets and their events                                                *)

RecvEvents == {e \in Events : e.kind = "RECEIVE"}
Recvs == Cardinality(Places(queue, RecvEvents))
EventsInv == Len(rx) <= Recvs + lost

(* The events of the queue are counted; their number is a number. *)
LEMMA RecvsType ==
    ASSUME Inv
    PROVE  /\ queue \in Seq(Events) /\ Recvs \in Nat
           /\ Recvs = Cardinality(ReceiveEvents)
           /\ Len(rx) \in Nat /\ lost \in Nat
<1>1. Due \subseteq Events
  BY DEF Due
<1>2. queue \in Seq(Events)
  BY <1>1, SeqMonotonic DEF Inv, QueueInv
<1>3. Places(queue, RecvEvents) = ReceiveEvents
  BY <1>2, LenProperties, ElementOfSeq DEF Places, RecvEvents, ReceiveEvents
<1>4. QED
  BY <1>2, <1>3, PlacesFinite, LenProperties
  DEF Recvs, Inv, LinkInv, CountsInv

(* A push takes no event of the queue away; one of a RECEIVE event adds    *)
(* one unless the queue is full.                                           *)
LEMMA PushRecvs ==
    ASSUME Inv, NEW e \in Events, Push(e)
    PROVE  /\ Recvs' \in Nat /\ Recvs' >= Recvs
           /\ e.kind = "RECEIVE" /\ ~QueueFull => Recvs' = Recvs + 1
<1>1. queue \in Seq(Events) /\ Recvs \in Nat
  BY RecvsType
<1>2. e \in RecvEvents <=> e.kind = "RECEIVE"
  BY DEF RecvEvents
<1>3. RecvEvents' = RecvEvents
  BY DEF RecvEvents, Events, Frames, Ids
<1>4. CASE QueueFull
  BY <1>1, <1>3, <1>4 DEF Push, Recvs, Places
<1>5. CASE ~QueueFull
  <2>1. queue' = Append(queue, e)
    BY <1>5 DEF Push
  <2>2. Recvs' = Cardinality(Places(Append(queue, e), RecvEvents))
    BY <1>3, <2>1 DEF Recvs, Places
  <2>3. Recvs' = IF e \in RecvEvents THEN Recvs + 1 ELSE Recvs
    BY <1>1, <2>2, AppendPlaces DEF Recvs
  <2>4. QED
    BY <1>1, <1>2, <2>3
<1>6. QED
  BY <1>4, <1>5

(* A pop takes the event it pops. *)
LEMMA PopRecvs ==
    ASSUME Inv, NEW kind, Pop(kind)
    PROVE  Recvs' \in Nat
           /\ Recvs' = IF kind = "RECEIVE" THEN Recvs - 1 ELSE Recvs
<1>1. /\ queue \in Seq(Events) /\ queue # <<>> /\ queue' = Tail(queue)
      /\ Head(queue).kind = kind /\ Head(queue) \in Events
      /\ Tail(queue) \in Seq(Events)
  BY RecvsType, HeadTailProperties DEF Pop
<1>2. RecvEvents' = RecvEvents
  BY DEF RecvEvents, Events, Frames, Ids
<1>3. Recvs' = Cardinality(Places(Tail(queue), RecvEvents))
  BY <1>1, <1>2 DEF Recvs, Places
<1>4. Head(queue) \in RecvEvents <=> kind = "RECEIVE"
  BY <1>1 DEF RecvEvents
<1>5. QED
  BY <1>1, <1>3, <1>4, TailPlaces, PlacesFinite DEF Recvs

(* Steps that read no packet: none arrives without an event. *)
LEMMA UnreadEvents ==
    ASSUME Inv, EventsInv, Application \/ Worker \/ Broker
    PROVE  EventsInv'
<1>1. /\ Len(rx) \in Nat /\ lost \in Nat /\ Recvs \in Nat
      /\ rx \in Seq(Packets)
  BY RecvsType DEF Inv, LinkInv
<1>2. /\ RECEIVE_EVENT \in Events /\ DISCONNECT_EVENT \in Events
      /\ Event("SEND", Bare("CONNECT")) \in Events
      /\ Event("SEND", Bare("DISCONNECT")) \in Events
  BY EventTypes DEF Due
<1>3. \A e \in Events : Push(e) => Recvs' \in Nat /\ Recvs' >= Recvs
  BY PushRecvs
<1>4. UNCHANGED queue => Recvs' = Recvs
  BY DEF Recvs, Places, RecvEvents, Events, Frames, Ids
<1>5. ASSUME \/ rx' = rx /\ lost' = lost
             \/ Len(rx') = 0 /\ lost' = 0,
             Recvs' \in Nat, Recvs' >= Recvs
      PROVE  EventsInv'
  BY <1>1, <1>5 DEF EventsInv
<1>6. CASE \E r \in Requests : Publish(r) \/ Subscribe(r) \/ Unsubscribe(r)
  <2>1. PICK r \in Requests : Request(r)
    BY <1>6 DEF Publish, Subscribe, Unsubscribe
  <2>2. PICK id : id = (packet_id + 1) % IdMod
    OBVIOUS
  <2>3. /\ Push(Event("SEND", Frame(Kind[r], id, r)))
        /\ rx' = rx /\ lost' = lost
    BY <2>1, <2>2 DEF Request, netVars, countVars
  <2>4. packet_id \in Ids /\ IdMod \in Nat \ {0}
    BY ClientAssumption DEF Inv, CountsInv
  <2>5. id \in Ids
    BY <2>2, <2>4 DEF Ids
  <2>6. Event("SEND", Frame(Kind[r], id, r)) \in Events
    BY <2>5, ClientAssumption DEF Event, Frame, Events, Frames, FrameTypes,
                                  Msgs
  <2>7. QED
    BY <1>3, <1>5, <2>3, <2>6
<1>7. CASE Connect \/ Disconnect
  <2>1. \/ rx' = rx /\ lost' = lost
        \/ Len(rx') = 0 /\ lost' = 0
    BY <1>7 DEF Connect, Disconnect, netVars
  <2>2. Recvs' \in Nat /\ Recvs' >= Recvs
    BY <1>1, <1>2, <1>3, <1>4, <1>7 DEF Connect, Disconnect
  <2>3. QED
    BY <1>5, <2>1, <2>2
<1>8. CASE TickPing \/ TickTimeout \/ DisconnectCallback
  <2>1. rx' = rx /\ lost' = lost
    BY <1>8 DEF TickPing, TickTimeout, DisconnectCallback
  <2>2. Recvs' \in Nat /\ Recvs' >= Recvs
    BY <1>1, <1>2, <1>3, <1>4, <1>8
    DEF TickPing, TickTimeout, DisconnectCallback, BreakLink
  <2>3. QED
    BY <1>5, <2>1, <2>2
<1>9. CASE RecvCallback
  <2>1. /\ Push(RECEIVE_EVENT)
        /\ lost' = IF QueueFull THEN lost + 1 ELSE lost
    BY <1>9 DEF RecvCallback
  <2>2. PICK p : rx' = Append(rx, p)
    BY <1>9 DEF RecvCallback
  <2>3. Len(rx') = Len(rx) + 1
    BY <1>1, <2>2
  <2>4. /\ Recvs' \in Nat /\ Recvs' >= Recvs
        /\ ~QueueFull => Recvs' = Recvs + 1
    <3>1. RECEIVE_EVENT.kind = "RECEIVE"
      BY DEF RECEIVE_EVENT, Event
    <3>2. QED
      BY <1>2, <2>1, <3>1, PushRecvs
  <2>5. QED
    BY <1>1, <2>1, <2>3, <2>4 DEF EventsInv
<1>10. CASE Broker
  <2>1. rx' = rx /\ lost' = lost /\ (UNCHANGED queue \/ Push(DISCONNECT_EVENT))
    BY <1>10
    DEF Broker, BrokerTakes, BrokerSends, BrokerConnect, BrokerReject,
        BrokerTakePublish, BrokerTakePubrel, BrokerTakeSubscribe,
        BrokerTakeUnsubscribe, BrokerTakePing, BrokerTakePuback,
        BrokerTakePubrec, BrokerTakePubcomp, Takes, BrokerPublish,
        BrokerRelease, BrokerLeaves
  <2>2. Recvs' \in Nat /\ Recvs' >= Recvs
    BY <1>1, <1>2, <1>3, <1>4, <2>1
  <2>3. QED
    BY <1>5, <2>1, <2>2
<1>11. QED
  BY <1>6, <1>7, <1>8, <1>9, <1>10 DEF Application, Worker

(* Mqttmain reads one packet for one event. *)
LEMMA ReadEvents ==
    ASSUME Inv, EventsInv, Mqttmain
    PROVE  EventsInv'
<1>1. /\ Len(rx) \in Nat /\ lost \in Nat /\ Recvs \in Nat
      /\ rx \in Seq(Packets)
  BY RecvsType DEF Inv, LinkInv
<1>2. CASE \E type : Receiving(type) /\ UNCHANGED lost
  <2>1. Pop("RECEIVE") /\ rx # <<>> /\ rx' = Tail(rx) /\ lost' = lost
    BY <1>2 DEF Receiving
  <2>2. Len(rx') = Len(rx) - 1
    BY <1>1, <2>1, HeadTailProperties
  <2>3. Recvs' = Recvs - 1
    BY <2>1, PopRecvs
  <2>4. QED
    BY <1>1, <2>1, <2>2, <2>3 DEF EventsInv
<1>3. CASE \/ ReceiveNothing \/ HandleDisconnect
           \/ \E type : Sending(type) /\ UNCHANGED <<rx, lost>>
           \/ SendDisconnect
  <2>1. PICK kind : Pop(kind) /\ (kind = "RECEIVE" => ReceiveNothing)
    BY <1>3
    DEF ReceiveNothing, HandleDisconnect, SendDisconnect, Sending
  <2>2. Recvs' \in Nat /\ (kind # "RECEIVE" => Recvs' = Recvs)
    BY <2>1, PopRecvs
  <2>3. CASE kind = "RECEIVE" \/ (rx' = <<>> /\ lost' = 0)
    <3>1. Len(rx') = 0 /\ lost' \in Nat
      BY <1>1, <2>1, <2>3 DEF ReceiveNothing, HandlerRest
    <3>2. Recvs' \in Nat
      BY <2>2
    <3> DEFINE n == Recvs'
               k == lost'
    <3>3. n \in Nat /\ k \in Nat
      BY <3>1, <3>2
    <3> HIDE DEF n, k
    <3>4. 0 <= n + k
      BY <3>3
    <3>5. QED
      BY <3>1, <3>4 DEF EventsInv, n, k
  <2>4. CASE kind # "RECEIVE" /\ rx' = rx /\ lost' = lost
    BY <1>1, <2>2, <2>4 DEF EventsInv
  <2>5. \/ kind = "RECEIVE"
        \/ rx' = rx /\ lost' = lost
        \/ rx' = <<>> /\ lost' = 0
    BY <1>3, <2>1
    DEF HandleDisconnect, SendDisconnect, ConnectionClose, ConnectionDeinit,
        netVars, ReceiveNothing, Pop
  <2>6. QED
    BY <2>3, <2>4, <2>5
<1>4. QED
  BY <1>2, <1>3
  DEF Mqttmain, HandleSend, HandleReceive, SendConnect, SendSubscribe,
      SendUnsubscribe, SendPublish, GetConnack, GetPublish, GetPuback,
      GetPubrec, GetPubrel, GetPubcomp, GetSuback, GetUnsuback, GetPingres,
      HandlerRest

(* Every TCP packet that is not read has its event in the queue, but for   *)
(* those whose event a full queue refused (mqtt_network.c): whatever       *)
(* handlers, callbacks, timeouts and reconnects do in between, no other    *)
(* packet is stranded.                                                     *)
THEOREM PacketsHaveEventsHolds == Spec => []PacketsHaveEvents
<1>1. Init => EventsInv
  <2> SUFFICES ASSUME Init PROVE EventsInv
    OBVIOUS
  <2>1. Inv
    BY InitInv
  <2>2. Len(rx) = 0
    BY DEF Init, ClientInit
  <2>3. QED
    BY <2>1, <2>2, RecvsType DEF EventsInv
<1>2. Inv /\ EventsInv /\ [Next]_vars => EventsInv'
  <2> SUFFICES ASSUME Inv, EventsInv, [Next]_vars PROVE EventsInv'
    OBVIOUS
  <2>1. CASE UNCHANGED vars
    BY <2>1
    DEF vars, clientVars, netVars, countVars, EventsInv, Recvs, Places,
        RecvEvents, Events, Frames, Ids
  <2>2. CASE Next
    BY <2>2, UnreadEvents, ReadEvents DEF Next, Client, ClientNext
  <2>3. QED
    BY <2>1, <2>2
<1>3. Inv /\ EventsInv => PacketsHaveEvents
  BY RecvsType DEF EventsInv, PacketsHaveEvents
<1>4. QED
  BY <1>1, <1>2, <1>3, InvHolds, PTL DEF Spec

-----------------------------------------------------------------------------
(* What becomes of a request between the call of the API and the broker's  *)
(* last answer: a QoS 2 message is taken once, a request is not forgotten  *)
(* before it is reported, and the session does not refer to one that was.  *)
(*                                                                         *)
(* The session matches an item by its packet id alone, and client and      *)
(* broker choose their ids independently: these theorems are about runs in *)
(* which the ids in use stay apart (IdsApart), and, for what must not be   *)
(* forgotten, in which the session keeps a free slot (HasRoom).            *)

(* No request has the id of a QoS 2 message of the broker. *)
IdsApart ==
    \A r \in Requests, m \in BMsgs : BQos[m] = 2 => ret[r] # BId[m]

(* mqtt_session_add_item finds a free slot. *)
HasRoom == Len(session) < SessionSize

(* The frames that carry a request, release an id, have an id; the events  *)
(* that ask for a request to be sent.                                      *)
Asks(r) == {f \in Frames : f.msg = r}
Releases(id) == {f \in Frames : f.type = "PUBREL" /\ f.id = id}
WithId(id) == {f \in Frames : f.id = id}
Sends(r) == {e \in Events : e.kind = "SEND" /\ e.frame.msg = r}

ItemTypes == RequestTypes \cup {"PUBREL", "PUBREC"}
Twice == {r \in Requests : Kind[r] = "PUBLISH" /\ Qos[r] = 2}
Nowhere(r) == ~Has(session, Asks(r)) /\ ~Has(toBroker, Asks(r))

(* A request waits in the queue once, *)
QueueOut == \A r \in Requests : Once(queue, Sends(r))

(* and as long as it waits, or was not made, nothing else knows of it. *)
FreshOut ==
    \A r \in Requests : ret[r] <= 0 \/ Has(queue, Sends(r))
        => bGot[r] = 0 /\ told[r] = 0 /\ Nowhere(r)

(* The session has one item for an id, and none for what was reported. *)
Tidy(s) == /\ \A i \in 1..Len(s) : s[i].type \in ItemTypes
           /\ \A id \in Ids : Once(s, WithId(id))
FreedOut == \A r \in Requests : told[r] > 0 => ~Has(session, Asks(r))
ItemsOut == Tidy(session) /\ FreedOut

(* A QoS 2 message that the broker has taken, and whose id it has let go   *)
(* of or will let go of when it accepts the link, is nowhere any more.     *)
SpentOut ==
    \A r \in Twice :
        /\ bGot[r] <= 1
        /\ bGot[r] > 0 /\ ret[r] \notin bStored => Nowhere(r)
        /\ bGot[r] > 0 /\ clean_session /\ sock = "open" /\ ~accepted
           => Nowhere(r)

(* Its PUBREL is the last the broker hears of it. *)
ReleasedOut ==
    \A r \in Twice :
        /\ Has(toBroker, Releases(ret[r])) => ~Has(session, Asks(r))
        /\ Before(toBroker, Asks(r), Releases(ret[r]))

OutInv == QueueOut /\ FreshOut /\ ItemsOut /\ SpentOut /\ ReleasedOut

-----------------------------------------------------------------------------
(* What the steps do to the sequences                                      *)

(* The queue has no request it did not have. *)
QueueKept ==
    \A r \in Requests : /\ Has(queue', Sends(r)) => Has(queue, Sends(r))
                        /\ Once(queue', Sends(r))

(* Nor has the session; its items stay one for an id. *)
SessionKept ==
    /\ \A r \in Requests : Has(session', Asks(r)) => Has(session, Asks(r))
    /\ Tidy(session')

(* No request and no PUBREL is sent. *)
WireKept ==
    \A r \in Requests :
        /\ Has(toBroker', Asks(r)) => Has(toBroker, Asks(r))
        /\ \A id : /\ Has(toBroker', Releases(id))
                      => Has(toBroker, Releases(id))
                   /\ Before(toBroker, Asks(r), Releases(id))
                      => Before(toBroker', Asks(r), Releases(id))

(* The sequences are sequences of frames and of events. *)
LEMMA SeqTypes ==
    ASSUME Inv
    PROVE  /\ session \in Seq(Frames) /\ toBroker \in Seq(Frames)
           /\ queue \in Seq(Events)
           /\ Outgoing \subseteq Frames /\ Due \subseteq Events
           /\ Len(session) \in Nat /\ Len(toBroker) \in Nat
           /\ Len(queue) \in Nat
<1>1. Outgoing \subseteq Frames /\ Due \subseteq Events
  BY DEF Outgoing, Due
<1>2. QED
  BY <1>1, SeqMonotonic, LenProperties
  DEF Inv, SessionInv, LinkInv, QueueInv

(* Popping an event. *)
LEMMA PopOut ==
    ASSUME Inv, QueueOut, NEW kind, Pop(kind)
    PROVE  QueueKept
<1>1. queue \in Seq(Events) /\ queue # <<>> /\ queue' = Tail(queue)
  BY SeqTypes DEF Pop
<1>2. Thins(Tail(queue), queue) /\ Tail(queue) \in Seq(Events)
  BY <1>1, ThinTail, HeadTailProperties
<1>3. Len(queue) \in Nat /\ Len(Tail(queue)) \in Nat
  BY <1>1, <1>2, LenProperties
<1>4. QED
  BY <1>1, <1>2, <1>3, ThinKeeps DEF QueueKept, QueueOut

(* Pushing an event that is about no request. *)
LEMMA PushOut ==
    ASSUME Inv, QueueOut, NEW e \in Events, e.frame.msg \notin Requests,
           Push(e)
    PROVE  QueueKept
<1>1. CASE queue' = queue
  BY <1>1 DEF QueueKept, QueueOut
<1>2. CASE queue' = Append(queue, e)
  <2>1. \A r \in Requests : e \notin Sends(r)
    BY DEF Sends
  <2>2. queue \in Seq(Events)
    BY SeqTypes
  <2>3. QED
    BY <1>2, <2>1, <2>2, AppendHas DEF QueueKept, QueueOut
<1>3. QED
  BY <1>1, <1>2 DEF Push

(* The events of the callbacks, of connect and of disconnect. *)
LEMMA PushBare ==
    ASSUME Inv, QueueOut,
           \/ Push(RECEIVE_EVENT) \/ Push(DISCONNECT_EVENT)
           \/ Push(Event("SEND", Bare("CONNECT")))
           \/ Push(Event("SEND", Bare("DISCONNECT")))
    PROVE  QueueKept
<1>1. /\ RECEIVE_EVENT \in Events /\ DISCONNECT_EVENT \in Events
      /\ Event("SEND", Bare("CONNECT")) \in Events
      /\ Event("SEND", Bare("DISCONNECT")) \in Events
  BY EventTypes, SeqTypes
<1>2. /\ RECEIVE_EVENT.frame.msg = NoMsg
      /\ DISCONNECT_EVENT.frame.msg = NoMsg
      /\ Event("SEND", Bare("CONNECT")).frame.msg = NoMsg
      /\ Event("SEND", Bare("DISCONNECT")).frame.msg = NoMsg
  BY DEF RECEIVE_EVENT, DISCONNECT_EVENT, Event, Bare, Frame
<1>3. NoMsg \notin Requests
  BY ClientAssumption
<1>4. QED
  BY <1>1, <1>2, <1>3, PushOut

(* Removing an item leaves the session tidy. *)
LEMMA RemoveTidy ==
    ASSUME NEW s \in Seq(Frames), NEW id
    PROVE  /\ RemoveItem(s, id) \in Seq(Frames)
           /\ \A A : Has(RemoveItem(s, id), A) => Has(s, A)
           /\ Tidy(s) => Tidy(RemoveItem(s, id))
           /\ Tidy(s) /\ id \in Ids => ~Has(RemoveItem(s, id), WithId(id))
<1> DEFINE t == RemoveItem(s, id)
<1>1. Thins(t, s) /\ t \in Seq(Frames)
  BY ThinRemove, RemoveItemType
<1>2. Tidy(s) /\ id \in Ids => ~Has(t, WithId(id))
  <2>1. Tidy(s) /\ id \in Ids => Once(s, {x \in Frames : x.id = id})
    BY DEF Tidy, WithId
  <2>2. QED
    BY <2>1, RemoveLast DEF WithId
<1> HIDE DEF t
<1>3. Len(t) \in Nat /\ Len(s) \in Nat
  BY <1>1, LenProperties
<1>4. /\ \A A : Has(t, A) => Has(s, A)
      /\ \A A : Once(s, A) => Once(t, A)
  BY <1>1, <1>3, ThinKeeps
<1>5. ASSUME Tidy(s) PROVE Tidy(t)
  <2>1. \A i \in 1..Len(t) : t[i].type \in ItemTypes
    BY <1>1, <1>5, Zenon DEF Tidy, Thins
  <2>2. QED
    BY <1>4, <1>5, <2>1 DEF Tidy
<1>6. QED
  BY <1>1, <1>2, <1>4, <1>5 DEF t

(* Adding an item for an id that has none leaves it tidy. *)
LEMMA AddTidy ==
    ASSUME NEW s \in Seq(Frames), Tidy(s), NEW f \in Frames,
           f.type \in ItemTypes, ~Has(s, WithId(f.id))
    PROVE  /\ AddItem(s, f) \in Seq(Frames)
           /\ \A A : f \notin A /\ Has(AddItem(s, f), A) => Has(s, A)
           /\ Tidy(AddItem(s, f))
<1> DEFINE t == Append(s, f)
<1>1. /\ t \in Seq(Frames)
      /\ Len(t) = Len(s) + 1 /\ Len(s) \in Nat
      /\ \A i \in 1..Len(s) : t[i] = s[i]
      /\ t[Len(s) + 1] = f
  BY AppendProperties, LenProperties
<1>2. \A A : Has(t, A) <=> Has(s, A) \/ f \in A
  BY AppendHas
<1>3. ASSUME NEW id \in Ids PROVE Once(t, WithId(id))
  <2>1. Once(s, WithId(id))
    BY DEF Tidy
  <2>2. f \in WithId(id) => ~Has(s, WithId(id))
    BY DEF WithId
  <2>3. QED
    BY <2>1, <2>2, AppendHas
<1> HIDE DEF t
<1>4. \A i \in 1..Len(t) : t[i].type \in ItemTypes
  <2>1. \A i \in 1..Len(t) : i \in 1..Len(s) \/ i = Len(s) + 1
    BY <1>1
  <2>2. QED
    BY <1>1, <2>1 DEF Tidy
<1>5. Tidy(t)
  BY <1>3, <1>4 DEF Tidy
<1>6. QED
  BY <1>1, <1>2, <1>5 DEF t, AddItem

(* Leaving the session alone, emptying it, removing an item. *)
LEMMA SessionThinned ==
    ASSUME Inv, ItemsOut,
           \/ session' = session \/ session' = <<>>
           \/ \E id : session' = RemoveItem(session, id)
    PROVE  SessionKept
<1>1. CASE session' = session
  BY <1>1 DEF SessionKept, ItemsOut
<1>2. CASE session' = <<>>
  <2>1. \A A : ~Has(session', A) /\ Once(session', A)
    BY <1>2, EmptyHas
  <2>2. QED
    BY <1>2, <2>1 DEF SessionKept, Tidy
<1>3. CASE \E id : session' = RemoveItem(session, id)
  BY <1>3, SeqTypes, RemoveTidy DEF SessionKept, ItemsOut
<1>4. QED
  BY <1>1, <1>2, <1>3

(* Adding an acknowledgement of an id that has no item. *)
LEMMA SessionAdded ==
    ASSUME Inv, ItemsOut, NEW f \in Outgoing, f.msg = NoMsg,
           f.type \in {"PUBREL", "PUBREC"}, ~Has(session, WithId(f.id)),
           session' = AddItem(session, f)
    PROVE  SessionKept
<1>1. session \in Seq(Frames) /\ f \in Frames
  BY SeqTypes
<1>2. f.type \in ItemTypes /\ \A r \in Requests : f \notin Asks(r)
  BY ClientAssumption DEF Asks, ItemTypes
<1>3. QED
  BY <1>1, <1>2, AddTidy DEF SessionKept, ItemsOut

(* Losing frames of the link. *)
LEMMA WireThinned ==
    ASSUME Inv, \/ toBroker' = toBroker \/ toBroker' = <<>>
                \/ toBroker # <<>> /\ toBroker' = Tail(toBroker)
    PROVE  WireKept
<1>1. CASE toBroker' = toBroker
  BY <1>1 DEF WireKept
<1>2. CASE toBroker' = <<>>
  BY <1>2, EmptyHas DEF WireKept
<1>3. CASE toBroker # <<>> /\ toBroker' = Tail(toBroker)
  <2>1. toBroker \in Seq(Frames)
    BY SeqTypes
  <2>2. /\ Thins(Tail(toBroker), toBroker)
        /\ Len(toBroker) \in Nat /\ Len(Tail(toBroker)) \in Nat
    BY <1>3, <2>1, ThinTail, HeadTailProperties, LenProperties
  <2>3. QED
    BY <1>3, <2>2, ThinKeeps DEF WireKept
<1>4. QED
  BY <1>1, <1>2, <1>3

(* Sending a frame that is neither a request nor PUBREL. *)
LEMMA WirePut ==
    ASSUME Inv, NEW f \in Outgoing, f.msg = NoMsg, f.type # "PUBREL",
           NEW ok, Put(f, ok)
    PROVE  WireKept
<1>1. CASE toBroker' = toBroker
  BY <1>1 DEF WireKept
<1>2. CASE toBroker' = Append(toBroker, f)
  <2>1. toBroker \in Seq(Frames) /\ f \in Frames
    BY SeqTypes
  <2>2. /\ \A r \in Requests : f \notin Asks(r)
        /\ \A id : f \notin Releases(id)
    BY ClientAssumption DEF Asks, Releases
  <2>3. QED
    BY <1>2, <2>1, <2>2, AppendHas DEF WireKept
<1>3. QED
  BY <1>1, <1>2 DEF Put

(* Frames on the link are requests with their ids. *)
LEMMA AskedId ==
    ASSUME ~Wrap, Inv, NEW f \in Outgoing, NEW r \in Requests, f.msg = r
    PROVE  /\ f.id = ret[r] /\ ret[r] > 0 /\ f.id \in Ids
           /\ f.type = Kind[r] /\ f.type \in RequestTypes
BY ClientAssumption
DEF Outgoing, Carries, Inv, CountsInv, Ids, Frames

(* Where an id has no item, the request it belongs to has none. *)
LEMMA NoAsks ==
    ASSUME ~Wrap, Inv, NEW r \in Requests,
           NEW s \in Seq(Outgoing), ~Has(s, WithId(ret[r]))
    PROVE  ~Has(s, Asks(r))
<1>1. SUFFICES ASSUME NEW i \in 1..Len(s), s[i] \in Asks(r) PROVE FALSE
  BY DEF Has
<1>2. s[i] \in Outgoing /\ s[i].msg = r
  BY <1>1, ElementOfSeq DEF Asks
<1>3. s[i] \in WithId(ret[r])
  BY <1>1, <1>2, AskedId DEF Asks, WithId
<1>4. QED
  BY <1>3 DEF Has

(* What is known of an id is of the one request that has it. *)
LEMMA KnownGot ==
    ASSUME ~Wrap, Inv, NEW id, NEW kind, Known(id, kind),
           NEW r \in Requests, ret[r] = id
    PROVE  bGot[r] > 0 /\ Kind[r] = kind
BY DEF Known, Inv, RetInv

-----------------------------------------------------------------------------
(* A step that sends no request and no PUBREL                              *)

(* What is reported newly was taken, and has no item. *)
ToldOut ==
    \A r \in Requests : told'[r] # told[r] =>
        bGot[r] > 0 /\ ret[r] > 0 /\ ~Has(session', Asks(r))

(* A new link, and with a clean session a new session, starts empty. *)
NewLinkOut ==
    sock' = "open" /\ ~accepted' =>
        \/ sock = "open" /\ ~accepted
        \/ /\ toBroker' = <<>>
           /\ clean_session => session' = <<>>

(* A request on the link was on the link or in the session. *)
WireFromSession ==
    \A r \in Requests : Has(toBroker', Asks(r))
        => Has(toBroker, Asks(r)) \/ Has(session, Asks(r))

(* A step that adds no request to queue, session and link keeps the        *)
(* invariant if it keeps the order of requests and PUBREL.                 *)
LEMMA NoRequestStep ==
    ASSUME ~Wrap, Inv, OutInv,
           UNCHANGED <<ret, bGot, bStored, clean_session>>,
           QueueKept, SessionKept, WireFromSession, ReleasedOut',
           ToldOut, NewLinkOut
    PROVE  OutInv'
<1>1. QueueOut'
  BY DEF QueueOut, QueueKept
<1>2. \A r \in Requests : Nowhere(r) => Nowhere(r)'
  BY DEF Nowhere, SessionKept, WireFromSession
<1>3. FreshOut'
  <2> SUFFICES ASSUME NEW r \in Requests,
                      ret'[r] <= 0 \/ Has(queue', Sends(r))
               PROVE  bGot'[r] = 0 /\ told'[r] = 0 /\ Nowhere(r)'
    BY DEF FreshOut, Sends, Events, Frames, Ids
  <2>1. bGot[r] = 0 /\ told[r] = 0 /\ Nowhere(r)
    BY DEF QueueKept, OutInv, FreshOut
  <2>2. told'[r] = told[r]
    BY <2>1 DEF ToldOut
  <2>3. QED
    BY <1>2, <2>1, <2>2
<1>4. ItemsOut'
  <2>1. ASSUME NEW r \in Requests, told'[r] > 0 PROVE ~Has(session', Asks(r))
    BY <2>1 DEF ToldOut, SessionKept, OutInv, ItemsOut, FreedOut
  <2>2. Tidy(session)'
    BY DEF SessionKept, Tidy, ItemTypes, WithId, Frames, Ids
  <2>3. QED
    BY <2>1, <2>2 DEF ItemsOut, FreedOut, Asks, Frames, Ids
<1>5. SpentOut'
  <2> SUFFICES ASSUME NEW r \in Twice
               PROVE
                 /\ bGot[r] <= 1
                 /\ bGot[r] > 0 /\ ret[r] \notin bStored => Nowhere(r)'
                 /\ bGot[r] > 0 /\ clean_session /\ sock' = "open"
                    /\ ~accepted' => Nowhere(r)'
    BY DEF SpentOut
  <2>1. r \in Requests
    BY DEF Twice
  <2>2. ASSUME toBroker' = <<>>, session' = <<>> PROVE Nowhere(r)'
    BY <2>2, EmptyHas DEF Nowhere
  <2>3. QED
    BY <1>2, <2>1, <2>2 DEF OutInv, SpentOut, NewLinkOut
<1>6. QED
  BY <1>1, <1>3, <1>4, <1>5 DEF OutInv

(* In particular if it sends neither a request nor PUBREL. *)
LEMMA KeptStep ==
    ASSUME ~Wrap, Inv, OutInv,
           UNCHANGED <<ret, bGot, bStored, clean_session>>,
           QueueKept, SessionKept, WireKept, ToldOut, NewLinkOut
    PROVE  OutInv'
<1>1. ReleasedOut'
  BY DEF ReleasedOut, OutInv, WireKept, SessionKept, Twice, Releases, Asks,
         Frames, Ids
<1>2. WireFromSession
  BY DEF WireFromSession, WireKept
<1>3. QED
  BY <1>1, <1>2, NoRequestStep

-----------------------------------------------------------------------------
(* The handlers that keep it                                               *)

(* mqtt_session_item_exist says whether the session has the id. *)
LEMMA NoItem ==
    ASSUME NEW s \in Seq(Frames), NEW id
    PROVE  ItemExist(s, id) <=> Has(s, WithId(id))
<1>1. DOMAIN s = 1..Len(s) /\ \A i \in 1..Len(s) : s[i] \in Frames
  BY LenProperties, ElementOfSeq
<1>2. QED
  BY <1>1 DEF ItemExist, Has, WithId

(* An acknowledgement that ends an exchange takes the item away and is     *)
(* reported for the one request that has the id.                           *)
LEMMA AnswerOut ==
    ASSUME ~Wrap, Inv, OutInv,
           NEW kind \in RequestTypes, NEW type \in AnswersTo(kind),
           Receiving(type),
           session' = RemoveItem(session, Received.id),
           Tell(kind, Received.id),
           UNCHANGED <<HandlerRest, timer, toBroker, fails, delivered>>,
           UNCHANGED <<brokerVars, clean_session>>
    PROVE  OutInv'
<1>1. Received \in Incoming /\ Received.type = type
  BY ReceivingType DEF Inv
<1>2. PICK id \in Ids : id = Received.id /\ Known(id, kind)
  BY <1>1 DEF Incoming, Frames
<1>3. QueueKept /\ SessionKept /\ WireKept
  BY PopOut, SessionThinned, WireThinned DEF OutInv, Receiving
<1>4. ToldOut
  <2> SUFFICES ASSUME NEW r \in Requests, told'[r] # told[r]
               PROVE  bGot[r] > 0 /\ ret[r] > 0 /\ ~Has(session', Asks(r))
    BY DEF ToldOut
  <2>1. ret[r] = id
    BY <1>2 DEF Tell, Inv, ToldInv
  <2>2. bGot[r] > 0 /\ ret[r] > 0
    BY <1>2, <2>1, KnownGot DEF Known
  <2>3. session' \in Seq(Outgoing)
    BY RemoveType DEF Inv
  <2>4. ~Has(session', WithId(id))
    BY <1>2, SeqTypes, RemoveTidy DEF OutInv, ItemsOut
  <2>5. QED
    BY <2>1, <2>2, <2>3, <2>4, NoAsks
<1>5. NewLinkOut
  BY DEF NewLinkOut, HandlerRest
<1>6. QED
  BY <1>3, <1>4, <1>5, KeptStep DEF HandlerRest, brokerVars

(* PUBACK, PUBCOMP, SUBACK, UNSUBACK. *)
LEMMA AnswersOut ==
    ASSUME ~Wrap, Inv, OutInv,
           GetPuback \/ GetPubcomp \/ GetSuback \/ GetUnsuback,
           UNCHANGED <<brokerVars, clean_session>>
    PROVE  OutInv'
<1>1. CASE GetPuback
  BY <1>1, AnswerOut DEF GetPuback, RecvPuback,
     AnswersTo, RequestTypes, FrameTypes
<1>2. CASE GetPubcomp
  BY <1>2, AnswerOut DEF GetPubcomp, RecvPubcomp,
     AnswersTo, RequestTypes, FrameTypes
<1>3. CASE GetSuback
  BY <1>3, AnswerOut DEF GetSuback, RecvSuback,
     AnswersTo, RequestTypes, FrameTypes
<1>4. CASE GetUnsuback
  BY <1>4, AnswerOut DEF GetUnsuback, RecvUnsuback,
     AnswersTo, RequestTypes, FrameTypes
<1>5. QED
  BY <1>1, <1>2, <1>3, <1>4

(* CONNECT is sent; a packet is read that asks for no answer. *)
LEMMA PlainOut ==
    ASSUME ~Wrap, Inv, OutInv, SendConnect \/ ReceiveNothing \/ GetConnack,
           UNCHANGED <<brokerVars, clean_session>>
    PROVE  OutInv'
<1>1. Bare("CONNECT") \in Outgoing
  BY BareType DEF FrameTypes
<1>2. WireKept
  <2>1. CASE SendConnect
    BY <1>1, <2>1, WirePut DEF SendConnect, PutConnect, Bare, Frame
  <2>2. CASE UNCHANGED toBroker
    BY <2>2, WireThinned
  <2>3. QED
    BY <2>1, <2>2 DEF ReceiveNothing, GetConnack
<1>3. QueueKept
  BY PopOut DEF SendConnect, Sending, ReceiveNothing, GetConnack, Receiving,
                OutInv
<1>4. SessionKept
  BY SessionThinned DEF SendConnect, ReceiveNothing, GetConnack, OutInv
<1>5. UNCHANGED <<told, HandlerRest>>
  BY DEF SendConnect, ReceiveNothing, GetConnack
<1>6. ToldOut /\ NewLinkOut
  BY <1>5 DEF ToldOut, NewLinkOut, HandlerRest
<1>7. QED
  BY <1>2, <1>3, <1>4, <1>5, <1>6, KeptStep DEF HandlerRest, brokerVars

(* A PUBLISH of the broker is acknowledged, and remembered at QoS 2. *)
LEMMA GetPublishOut ==
    ASSUME ~Wrap, Inv, OutInv, GetPublish,
           UNCHANGED <<brokerVars, clean_session>>
    PROVE  OutInv'
<1>1. Received \in Incoming /\ Received.type = "PUBLISH"
  BY ReceivingType DEF Inv, GetPublish
<1>2. PICK id \in Ids : id = Received.id
  BY <1>1 DEF Incoming, Frames
<1>3. /\ Received.msg \in BMsgs
      /\ BQos[Received.msg] = 1 => Ack("PUBACK", id) \in Outgoing
      /\ BQos[Received.msg] = 2 => Ack("PUBREC", id) \in Outgoing
  BY <1>1, <1>2, AckType DEF FrameTypes, RequestTypes, FromBroker, Incoming
<1>4. /\ Ack("PUBACK", id).msg = NoMsg /\ Ack("PUBACK", id).type = "PUBACK"
      /\ Ack("PUBREC", id).msg = NoMsg /\ Ack("PUBREC", id).type = "PUBREC"
      /\ Ack("PUBREC", id).id = id
  BY DEF Ack, Frame
<1>5. WireKept
  <2>1. CASE RecvPublish0
    BY <2>1, WireThinned DEF RecvPublish0
  <2>2. CASE RecvPublish1
    BY <1>2, <1>3, <1>4, <2>2, WirePut DEF RecvPublish1
  <2>3. CASE RecvPublish2
    BY <1>2, <1>3, <1>4, <2>3, WirePut DEF RecvPublish2
  <2>4. QED
    BY <2>1, <2>2, <2>3 DEF GetPublish
<1>6. SessionKept
  <2>1. CASE session' = session
    BY <2>1, SessionThinned DEF OutInv
  <2>2. CASE RecvPublish2 /\ ~ItemExist(session, id)
    <3>1. /\ session' = AddItem(session, Ack("PUBREC", id))
          /\ BQos[Received.msg] = 2
      BY <1>2, <2>2 DEF RecvPublish2
    <3>2. ~Has(session, WithId(id))
      BY <2>2, SeqTypes, NoItem
    <3>3. QED
      BY <1>3, <1>4, <3>1, <3>2, SessionAdded DEF OutInv
  <2>3. QED
    BY <1>2, <2>1, <2>2
    DEF GetPublish, RecvPublish0, RecvPublish1, RecvPublish2
<1>7. QueueKept
  BY PopOut DEF GetPublish, Receiving, OutInv
<1>8. ToldOut /\ NewLinkOut
  BY DEF ToldOut, NewLinkOut, GetPublish, HandlerRest
<1>9. QED
  BY <1>5, <1>6, <1>7, <1>8, KeptStep DEF GetPublish, HandlerRest, brokerVars

(* PUBREL takes an item away and is answered. *)
LEMMA GetPubrelOut ==
    ASSUME ~Wrap, Inv, OutInv, GetPubrel,
           UNCHANGED <<brokerVars, clean_session>>
    PROVE  OutInv'
<1>1. Received \in Incoming /\ Received.type = "PUBREL"
  BY ReceivingType DEF Inv, GetPubrel
<1>2. Ack("PUBCOMP", Received.id) \in Outgoing
  BY <1>1, AckType DEF FrameTypes, RequestTypes, Incoming, Frames
<1>3. WireKept
  BY <1>2, WirePut DEF GetPubrel, RecvPubrel, Ack, Frame
<1>4. SessionKept
  BY SessionThinned DEF GetPubrel, RecvPubrel, OutInv
<1>5. QueueKept
  BY PopOut DEF GetPubrel, Receiving, OutInv
<1>6. ToldOut /\ NewLinkOut
  BY DEF ToldOut, NewLinkOut, GetPubrel, HandlerRest
<1>7. QED
  BY <1>3, <1>4, <1>5, <1>6, KeptStep DEF GetPubrel, HandlerRest, brokerVars

-----------------------------------------------------------------------------
(* PUBREC and PUBREL, and what a PINGRESP sends again                      *)


(* A session with the PUBREL of a request has not the request. *)
LEMMA ReleaseAlone ==
    ASSUME ~Wrap, Inv, ItemsOut, NEW r \in Requests, Kind[r] = "PUBLISH",
           Has(session, Releases(ret[r]))
    PROVE  ~Has(session, Asks(r))
<1>1. PICK i \in 1..Len(session) : session[i] \in Releases(ret[r])
  BY DEF Has
<1>2. SUFFICES ASSUME NEW j \in 1..Len(session), session[j] \in Asks(r)
               PROVE  FALSE
  BY DEF Has
<1>3. session[j] \in Outgoing /\ session[j].msg = r
  BY <1>2, ElementOfSeq DEF Inv, SessionInv, Asks
<1>4. session[j].id = ret[r] /\ session[j].type = "PUBLISH" /\ ret[r] \in Ids
  BY <1>3, AskedId
<1>5. session[i] \in WithId(ret[r]) /\ session[j] \in WithId(ret[r])
  BY <1>1, <1>2, <1>4 DEF Releases, Asks, WithId
<1>6. i = j
  BY <1>4, <1>5 DEF ItemsOut, Tidy, Once
<1>7. QED
  BY <1>1, <1>4, <1>6 DEF Releases

(* PUBREC: PUBREL takes the place of the message, in the session and on    *)
(* the link.                                                               *)
LEMMA GetPubrecOut ==
    ASSUME ~Wrap, Inv, OutInv, GetPubrec,
           UNCHANGED <<brokerVars, clean_session>>
    PROVE  OutInv'
<1>1. Received \in Incoming /\ Received.type = "PUBREC"
  BY ReceivingType DEF Inv, GetPubrec
<1>2. PICK id \in Ids : id = Received.id /\ Known(id, "PUBLISH")
  BY <1>1 DEF Incoming, Frames, RequestTypes, AnswersTo, FrameTypes
<1> DEFINE f == Ack("PUBREL", id)
           removed == RemoveItem(session, id)
<1>3. /\ f \in Outgoing /\ f \in Frames
      /\ f.msg = NoMsg /\ f.type = "PUBREL" /\ f.id = id
  BY <1>2, AckType, SeqTypes DEF FrameTypes, RequestTypes, Ack, Frame
<1>4. /\ removed \in Seq(Frames) /\ Tidy(removed)
      /\ ~Has(removed, WithId(id))
      /\ \A A : Has(removed, A) => Has(session, A)
  BY <1>2, SeqTypes, RemoveTidy DEF OutInv, ItemsOut
<1>5. session' = AddItem(removed, f)
  <2>1. ~ItemExist(removed, id)
    BY <1>4, NoItem
  <2>2. QED
    BY <1>2, <2>1 DEF GetPubrec, RecvPubrec
<1>6. \A r \in Requests : f \notin Asks(r)
  BY <1>3, ClientAssumption DEF Asks
<1>7. SessionKept /\ \A r \in Requests : Has(session', Asks(r))
                                           => Has(removed, Asks(r))
  <2> HIDE DEF f, removed
  <2>1. f.type \in ItemTypes
    BY <1>3 DEF ItemTypes
  <2>2. /\ \A A : f \notin A /\ Has(session', A) => Has(removed, A)
        /\ Tidy(session')
    BY <1>3, <1>4, <1>5, <2>1, AddTidy
  <2>3. QED
    BY <1>4, <1>6, <2>2 DEF SessionKept
<1>8. toBroker' \in {toBroker, Append(toBroker, f)}
  BY <1>2 DEF GetPubrec, RecvPubrec, Put
<1>9. /\ WireFromSession
      /\ \A k : k # id /\ Has(toBroker', Releases(k))
                => Has(toBroker, Releases(k))
      /\ \A r \in Requests : \A k :
            Before(toBroker, Asks(r), Releases(k))
              => Before(toBroker', Asks(r), Releases(k))
  <2>1. toBroker \in Seq(Frames) /\ \A k : k # id => f \notin Releases(k)
    BY <1>3, SeqTypes DEF Releases
  <2> HIDE DEF f
  <2>2. CASE toBroker' = toBroker
    BY <2>2 DEF WireFromSession
  <2>3. CASE toBroker' = Append(toBroker, f)
    <3>1. /\ \A A : Has(toBroker', A) <=> Has(toBroker, A) \/ f \in A
          /\ \A A, B : Before(toBroker, A, B) /\ f \notin A
                        => Before(toBroker', A, B)
      BY <1>3, <2>1, <2>3, AppendHas
    <3>2. QED
      BY <1>6, <2>1, <3>1 DEF WireFromSession
  <2>4. QED
    BY <1>8, <2>2, <2>3
<1>10. ReleasedOut'
  <2> SUFFICES ASSUME NEW r \in Twice
               PROVE  /\ Has(toBroker', Releases(ret[r]))
                         => ~Has(session', Asks(r))
                      /\ Before(toBroker', Asks(r), Releases(ret[r]))
    BY DEF GetPubrec, HandlerRest, ReleasedOut, Releases, Asks, Frames, Ids
  <2>1. r \in Requests
    BY DEF Twice
  <2>2. CASE ret[r] = id
    <3>1. removed \in Seq(Outgoing)
      BY RemoveItemType DEF Inv, SessionInv
    <3>2. ~Has(removed, Asks(r))
      BY <1>4, <2>1, <2>2, <3>1, NoAsks
    <3>3. QED
      BY <1>7, <1>9, <2>1, <3>2 DEF OutInv, ReleasedOut
  <2>3. CASE ret[r] # id
    BY <1>7, <1>9, <2>1, <2>3 DEF OutInv, ReleasedOut, SessionKept
  <2>4. QED
    BY <2>2, <2>3
<1>11. QueueKept
  BY PopOut DEF GetPubrec, Receiving, OutInv
<1>12. ToldOut /\ NewLinkOut
  BY DEF ToldOut, NewLinkOut, GetPubrec, HandlerRest
<1>13. UNCHANGED <<ret, bGot, bStored, clean_session>>
  BY DEF GetPubrec, HandlerRest, brokerVars
<1>14. QED
  BY <1>7, <1>9, <1>10, <1>11, <1>12, <1>13, NoRequestStep

(* What is resent is a part of the session, in its order. *)
LEMMA ResentOut ==
    ASSUME Inv, ResendSession
    PROVE  \E u \in Seq(Frames) : /\ toBroker' = toBroker \o u
                                  /\ \A A : Has(u, A) => Has(session, A)
<1>1. session \in Seq(Frames) /\ Len(session) \in Nat
  BY SeqTypes
<1>2. CASE toBroker' = toBroker \o session
  BY <1>1, <1>2
<1>3. CASE \E n \in 0..(Len(session) - 1) :
             toBroker' = toBroker \o SubSeq(session, 1, n)
  <2>1. PICK n \in 0..(Len(session) - 1) :
             toBroker' = toBroker \o SubSeq(session, 1, n)
    BY <1>3
  <2>2. n \in 0..Len(session)
    BY <1>1
  <2> DEFINE u == SubSeq(session, 1, n)
  <2>3. Thins(u, session) /\ u \in Seq(Frames)
    BY <1>1, <2>2, ThinPrefix
  <2> HIDE DEF u
  <2>4. \A A : Has(u, A) => Has(session, A)
    BY <1>1, <2>3, ThinKeeps, LenProperties
  <2>5. QED
    BY <2>1, <2>3, <2>4 DEF u
<1>4. QED
  BY <1>2, <1>3 DEF ResendSession

(* PINGRESP: of a message and its PUBREL the session has only one. *)
LEMMA GetPingresOut ==
    ASSUME ~Wrap, Inv, OutInv, GetPingres,
           UNCHANGED <<brokerVars, clean_session>>
    PROVE  OutInv'
<1>1. session' = session
  BY DEF GetPingres, RecvPingres
<1>2. PICK u \in Seq(Frames) : /\ toBroker' = toBroker \o u
                               /\ \A A : Has(u, A) => Has(session, A)
  BY ResentOut DEF GetPingres, RecvPingres
<1>3. /\ \A A : Has(toBroker', A) <=> Has(toBroker, A) \/ Has(u, A)
      /\ \A A, B : /\ Before(toBroker, A, B) /\ Before(u, A, B)
                   /\ ~(Has(toBroker, B) /\ Has(u, A))
                   => Before(toBroker', A, B)
  BY <1>2, SeqTypes, ConcatHas
<1>4. WireFromSession
  BY <1>2, <1>3 DEF WireFromSession
<1>5. ReleasedOut'
  <2> SUFFICES ASSUME NEW r \in Twice
               PROVE  /\ Has(toBroker', Releases(ret[r]))
                         => ~Has(session, Asks(r))
                      /\ Before(toBroker', Asks(r), Releases(ret[r]))
    BY <1>1
    DEF GetPingres, HandlerRest, ReleasedOut, Releases, Asks, Frames, Ids
  <2>1. /\ Has(toBroker, Releases(ret[r])) => ~Has(session, Asks(r))
        /\ Before(toBroker, Asks(r), Releases(ret[r]))
    BY DEF OutInv, ReleasedOut
  <2>2. Has(session, Releases(ret[r])) => ~Has(session, Asks(r))
    BY ReleaseAlone DEF OutInv, Twice
  <2>3. Before(u, Asks(r), Releases(ret[r]))
    <3>1. ~(Has(u, Asks(r)) /\ Has(u, Releases(ret[r])))
      BY <1>2, <2>2
    <3>2. QED
      BY <3>1 DEF Has, Before
  <2>4. QED
    BY <1>2, <1>3, <2>1, <2>2, <2>3
<1>6. QueueKept /\ SessionKept
  BY <1>1, PopOut, SessionThinned DEF GetPingres, Receiving, OutInv
<1>7. ToldOut /\ NewLinkOut
  BY DEF ToldOut, NewLinkOut, GetPingres, HandlerRest
<1>8. UNCHANGED <<ret, bGot, bStored, clean_session>>
  BY DEF GetPingres, HandlerRest, brokerVars
<1>9. QED
  BY <1>4, <1>5, <1>6, <1>7, <1>8, NoRequestStep

-----------------------------------------------------------------------------
(* Requests: made, and sent for the first time                             *)

(* A request that waits has an id that no item and no PUBREL has. *)
LEMMA FreshId ==
    ASSUME ~Wrap, IdsApart, Inv, OutInv,
           NEW r \in Requests, Has(queue, Sends(r)), ret[r] > 0
    PROVE  /\ ~Has(session, WithId(ret[r]))
           /\ ~Has(toBroker, Releases(ret[r]))
<1>1. bGot[r] = 0 /\ Nowhere(r)
  BY DEF OutInv, FreshOut
<1>2. ASSUME NEW f \in Outgoing, f.id = ret[r], f.type = "PUBREL"
      PROVE  FALSE
  <2>1. Known(ret[r], "PUBLISH")
    BY <1>2 DEF Outgoing
  <2>2. bGot[r] > 0
    BY <2>1, KnownGot
  <2>3. QED
    BY <1>1, <2>2
<1>3. ASSUME NEW i \in 1..Len(session), session[i].id = ret[r]
      PROVE  FALSE
  <2>1. session[i] \in Outgoing /\ session[i].type \in ItemTypes
    BY ElementOfSeq DEF Inv, SessionInv, OutInv, ItemsOut, Tidy
  <2>2. CASE session[i].type \in RequestTypes
    <3>1. session[i].msg \in Requests /\ ret[session[i].msg] = ret[r]
      BY <1>3, <2>1, <2>2, AskedId DEF Outgoing, Carries
    <3>2. session[i].msg = r
      BY <3>1 DEF Inv, RetInv
    <3>3. session[i] \in Asks(r)
      BY <2>1, <3>2, SeqTypes DEF Asks
    <3>4. QED
      BY <1>1, <3>3 DEF Nowhere, Has
  <2>3. CASE session[i].type = "PUBREL"
    BY <1>2, <1>3, <2>1, <2>3
  <2>4. CASE session[i].type = "PUBREC"
    BY <1>3, <2>1, <2>4 DEF Outgoing, FromBroker, IdsApart
  <2>5. QED
    BY <2>1, <2>2, <2>3, <2>4 DEF ItemTypes
<1>4. ASSUME NEW i \in 1..Len(toBroker), toBroker[i] \in Releases(ret[r])
      PROVE  FALSE
  BY <1>2, <1>4, ElementOfSeq DEF Inv, LinkInv, Releases
<1>5. QED
  BY <1>3, <1>4 DEF Has, WithId

(* The request that is popped waits no longer. *)
LEMMA PoppedOut ==
    ASSUME ~Wrap, Inv, QueueOut,
           NEW type \in RequestTypes, Sending(type)
    PROVE  /\ Popped \in Outgoing /\ Popped.type = type
           /\ Popped.msg \in Requests /\ Popped.id = ret[Popped.msg]
           /\ Popped.id > 0 /\ Popped.id \in Ids
           /\ Kind[Popped.msg] = type
           /\ Has(queue, Sends(Popped.msg))
           /\ ~Has(queue', Sends(Popped.msg))
<1>1. Popped \in Outgoing /\ Popped.type = type
  BY PopType DEF Sending, Popped, Inv
<1>2. PICK r : r = Popped.msg
  OBVIOUS
<1>3. r \in Requests /\ Popped.id = ret[r] /\ ret[r] > 0
      /\ Popped.id \in Ids /\ Kind[r] = type
  <2>1. r \in Requests
    BY <1>1, <1>2 DEF Outgoing, Carries
  <2>2. QED
    BY <1>1, <1>2, <2>1, AskedId
<1>4. /\ queue \in Seq(Events) /\ queue # <<>> /\ queue' = Tail(queue)
      /\ Head(queue).kind = "SEND" /\ Head(queue) = queue[1]
      /\ Head(queue).frame.msg = r
  BY <1>2, SeqTypes DEF Sending, Pop, Popped
<1>5. /\ Len(queue) \in Nat \ {0} /\ Len(queue') = Len(queue) - 1
      /\ \A i \in 1..Len(queue') : queue'[i] = queue[i + 1]
  BY <1>4, HeadTailProperties, EmptySeq
<1>6. 1 \in 1..Len(queue) /\ queue[1] \in Sends(r)
  BY <1>4, <1>5, ElementOfSeq DEF Sends
<1>7. ASSUME NEW i \in 1..Len(queue'), queue'[i] \in Sends(r) PROVE FALSE
  <2>1. i + 1 \in 1..Len(queue) /\ queue[i + 1] \in Sends(r) /\ i + 1 # 1
    BY <1>5, <1>7
  <2>2. QED
    BY <1>3, <1>6, <2>1 DEF QueueOut, Once
<1>8. Has(queue, Sends(r)) /\ ~Has(queue', Sends(r))
  BY <1>6, <1>7 DEF Has
<1>9. QED
  BY <1>1, <1>2, <1>3, <1>8

(* It may go to the session and on the link; nothing else does. *)
LEMMA SendStep ==
    ASSUME ~Wrap, IdsApart, Inv, OutInv,
           NEW type \in RequestTypes, Sending(type),
           UNCHANGED <<ret, bGot, bStored, clean_session, sock, accepted>>,
           NEW ok, Put(Popped, ok),
           Tidy(session'),
           \A A : Popped \notin A /\ Has(session', A) => Has(session, A),
           \A r \in Requests :
              told'[r] # told[r] =>
                r = Popped.msg /\ ~Has(session', Asks(r))
    PROVE  OutInv'
<1>1. PICK f \in Outgoing, r \in Requests :
         /\ f = Popped /\ r = f.msg /\ f.type \in RequestTypes
         /\ f.id = ret[r] /\ ret[r] > 0 /\ ret[r] \in Ids
         /\ Has(queue, Sends(r)) /\ ~Has(queue', Sends(r))
  BY PoppedOut DEF OutInv
<1>2. /\ bGot[r] = 0 /\ told[r] = 0 /\ Nowhere(r)
      /\ ~Has(session, WithId(ret[r])) /\ ~Has(toBroker, Releases(ret[r]))
  BY <1>1, FreshId DEF OutInv, FreshOut
<1>3. /\ \A q \in Requests : f \in Asks(q) => q = r
      /\ \A id : f \notin Releases(id)
  BY <1>1 DEF Asks, Releases, RequestTypes
<1>4. QueueKept
  BY PopOut DEF Sending, OutInv
<1>5. /\ \A A : f \notin A /\ Has(toBroker', A) => Has(toBroker, A)
      /\ \A A, B : Before(toBroker, A, B) /\ f \notin A
                   => Before(toBroker', A, B)
  <2>1. toBroker \in Seq(Frames) /\ f \in Frames
    BY SeqTypes
  <2>2. CASE toBroker' = toBroker
    BY <2>2
  <2>3. CASE toBroker' = Append(toBroker, f)
    BY <2>1, <2>3, AppendHas
  <2>4. QED
    BY <1>1, <2>2, <2>3 DEF Put
<1>6. \A q \in Requests : q # r /\ Nowhere(q) => Nowhere(q)'
  BY <1>1, <1>3, <1>5 DEF Nowhere
<1>7. QueueOut'
  BY <1>4 DEF QueueOut, QueueKept
<1>8. FreshOut'
  <2> SUFFICES ASSUME NEW q \in Requests,
                      ret'[q] <= 0 \/ Has(queue', Sends(q))
               PROVE  bGot'[q] = 0 /\ told'[q] = 0 /\ Nowhere(q)'
    BY DEF FreshOut, Sends, Events, Frames, Ids
  <2>1. q # r
    BY <1>1 DEF Ids
  <2>2. bGot[q] = 0 /\ told[q] = 0 /\ Nowhere(q)
    BY <1>4 DEF QueueKept, OutInv, FreshOut
  <2>3. QED
    BY <1>1, <1>6, <2>1, <2>2
<1>9. ItemsOut'
  <2>1. ASSUME NEW q \in Requests, told'[q] > 0 PROVE ~Has(session', Asks(q))
    <3>1. CASE told'[q] # told[q]
      BY <3>1
    <3>2. CASE told'[q] = told[q]
      <4>1. q # r /\ ~Has(session, Asks(q))
        BY <1>2, <2>1, <3>2 DEF OutInv, ItemsOut, FreedOut
      <4>2. QED
        BY <1>1, <1>3, <4>1
    <3>3. QED
      BY <3>1, <3>2
  <2>2. Tidy(session)'
    BY DEF Tidy, ItemTypes, WithId, Frames, Ids
  <2>3. QED
    BY <2>1, <2>2 DEF ItemsOut, FreedOut, Asks, Frames, Ids
<1>10. SpentOut'
  <2> SUFFICES ASSUME NEW q \in Twice
               PROVE
                 /\ bGot[q] <= 1
                 /\ bGot[q] > 0 /\ ret[q] \notin bStored => Nowhere(q)'
                 /\ bGot[q] > 0 /\ clean_session /\ sock = "open"
                    /\ ~accepted => Nowhere(q)'
    BY DEF SpentOut
  <2>1. q \in Requests
    BY DEF Twice
  <2>2. QED
    BY <1>2, <1>6, <2>1 DEF OutInv, SpentOut
<1>11. ReleasedOut'
  <2> SUFFICES ASSUME NEW q \in Twice
               PROVE  /\ Has(toBroker', Releases(ret[q]))
                         => ~Has(session', Asks(q))
                      /\ Before(toBroker', Asks(q), Releases(ret[q]))
    BY DEF ReleasedOut, Releases, Asks, Frames, Ids
  <2>1. q \in Requests
    BY DEF Twice
  <2>2. CASE q = r
    <3>1. ~Has(toBroker', Releases(ret[r]))
      BY <1>2, <1>3, <1>5
    <3>2. QED
      BY <2>2, <3>1 DEF Has, Before
  <2>3. CASE q # r
    <3>1. f \notin Asks(q) /\ f \notin Releases(ret[q])
      BY <1>3, <2>1, <2>3
    <3>2. QED
      BY <1>1, <1>5, <3>1 DEF OutInv, ReleasedOut
  <2>4. QED
    BY <2>2, <2>3
<1>12. QED
  BY <1>7, <1>8, <1>9, <1>10, <1>11 DEF OutInv

(* The item added for a request that is sent. *)
LEMMA AddedOut ==
    ASSUME ~Wrap, IdsApart, Inv, OutInv, NEW type \in RequestTypes,
           Sending(type)
    PROVE  /\ AddItem(session, Popped) \in Seq(Frames)
           /\ Tidy(AddItem(session, Popped))
           /\ \A A : Popped \notin A /\ Has(AddItem(session, Popped), A)
                     => Has(session, A)
<1>1. PICK f \in Frames : /\ f = Popped /\ f.type \in RequestTypes
                          /\ ~Has(session, WithId(f.id))
  BY PoppedOut, FreshId, SeqTypes DEF OutInv
<1>2. f.type \in ItemTypes
  BY <1>1 DEF ItemTypes
<1>3. QED
  BY <1>1, <1>2, SeqTypes, AddTidy DEF OutInv, ItemsOut

(* SUBSCRIBE and UNSUBSCRIBE. *)
LEMMA SendRequestOut ==
    ASSUME ~Wrap, IdsApart, Inv, OutInv, SendSubscribe \/ SendUnsubscribe,
           UNCHANGED <<brokerVars, clean_session>>
    PROVE  OutInv'
<1>1. PICK type \in RequestTypes :
        /\ Sending(type)
        /\ \E ok \in SendResults : Put(Popped, ok)
        /\ session' = AddItem(session, Popped)
        /\ UNCHANGED <<HandlerRest, told>>
  BY DEF SendSubscribe, SendUnsubscribe, RequestTypes
<1>2. UNCHANGED <<ret, bGot, bStored, clean_session, sock, accepted, told>>
  BY <1>1 DEF HandlerRest, brokerVars
<1>3. QED
  BY <1>1, <1>2, AddedOut, SendStep

(* PUBLISH; at QoS 0 the item goes at once and the request is reported. *)
LEMMA SendPublishOut ==
    ASSUME ~Wrap, IdsApart, Inv, OutInv, SendPublish,
           UNCHANGED <<brokerVars, clean_session>>
    PROVE  OutInv'
<1> DEFINE added == AddItem(session, Popped)
<1>1. /\ Sending("PUBLISH") /\ "PUBLISH" \in RequestTypes
      /\ \E ok \in SendResults : Put(Popped, ok)
  BY DEF SendPublish, RequestTypes
<1>2. /\ added \in Seq(Frames) /\ Tidy(added)
      /\ \A A : Popped \notin A /\ Has(added, A) => Has(session, A)
  BY <1>1, AddedOut
<1>3. /\ Popped.msg \in Requests /\ Popped.id = ret[Popped.msg]
      /\ Popped.id \in Ids /\ Popped \in Outgoing
  BY <1>1, PoppedOut DEF OutInv
<1>4. UNCHANGED <<ret, bGot, bStored, clean_session, sock, accepted>>
  BY DEF SendPublish, HandlerRest, brokerVars
<1>5. CASE Qos[Popped.msg] = 0
  <2>1. session' = RemoveItem(added, Popped.id)
    BY <1>5 DEF SendPublish
  <2> HIDE DEF added
  <2>2. /\ Tidy(session') /\ ~Has(session', WithId(Popped.id))
        /\ \A A : Has(session', A) => Has(added, A)
    BY <1>2, <1>3, <2>1, RemoveTidy
  <2>3. session' \in Seq(Outgoing)
    <3>1. added \in Seq(Outgoing)
      BY <1>3, AddItemType DEF Inv, SessionInv, added
    <3>2. QED
      BY <2>1, <3>1, RemoveItemType
  <2>4. ~Has(session', Asks(Popped.msg))
    BY <1>3, <2>2, <2>3, NoAsks
  <2>5. \A r \in Requests : told'[r] # told[r] => r = Popped.msg
    BY DEF SendPublish, Inv, ToldInv
  <2>6. QED
    BY <1>1, <1>2, <1>4, <2>2, <2>4, <2>5, SendStep
<1>6. CASE Qos[Popped.msg] # 0
  <2>1. session' = added /\ told' = told
    BY <1>6 DEF SendPublish
  <2>2. QED
    BY <1>1, <1>2, <1>4, <2>1, SendStep
<1>7. QED
  BY <1>5, <1>6

(* A call of the API: no frame carries the request yet. *)
LEMMA RequestOut ==
    ASSUME ~Wrap, Inv, OutInv, NEW r \in Requests, Request(r),
           UNCHANGED <<brokerVars, clean_session>>
    PROVE  OutInv'
<1>0. PICK id : id = (packet_id + 1) % IdMod
  OBVIOUS
<1> DEFINE e == Event("SEND", Frame(Kind[r], id, r))
<1>1. /\ ret[r] = NotCalled /\ Push(e)
      /\ ret' = [ret EXCEPT ![r] = IF QueueFull THEN 0 ELSE id]
      /\ UNCHANGED <<session, toBroker, sock, accepted, told, bGot, bStored,
                     clean_session>>
  BY <1>0 DEF Request, netVars, brokerVars
<1>2. ret[r] <= 0 /\ \A q \in Requests : q # r => ret'[q] = ret[q]
  BY <1>1 DEF NotCalled, Inv, RetInv
<1>3. bGot[r] = 0 /\ told[r] = 0 /\ Nowhere(r)
  BY <1>2 DEF OutInv, FreshOut
<1>4. ~Has(queue, Sends(r))
  <2> SUFFICES ASSUME NEW i \in 1..Len(queue), queue[i] \in Sends(r)
               PROVE  FALSE
    BY DEF Has
  <2>1. queue[i] \in Due /\ queue[i].kind = "SEND" /\ queue[i].frame.msg = r
    BY ElementOfSeq DEF Inv, QueueInv, Sends
  <2>2. queue[i].frame \in Outgoing
    BY <2>1 DEF Due
  <2>3. ret[r] > 0
    BY <2>1, <2>2, AskedId
  <2>4. QED
    BY <1>2, <2>3 DEF Inv, RetInv, Ids, NotCalled
<1>5. ASSUME NEW q \in Requests
      PROVE  /\ Once(queue', Sends(q))
             /\ q # r /\ Has(queue', Sends(q)) => Has(queue, Sends(q))
  <2>1. Once(queue, Sends(q))
    BY DEF OutInv, QueueOut
  <2>2. CASE queue' = queue
    BY <2>1, <2>2
  <2>3. CASE queue' = Append(queue, e)
    <3>1. e \in Sends(q) => q = r
      BY DEF Sends, Event, Frame
    <3>2. queue \in Seq(Events \cup {e}) /\ e \in Events \cup {e}
      BY SeqTypes, SeqMonotonic
    <3> HIDE DEF e
    <3>3. QED
      BY <1>4, <2>1, <2>3, <3>1, <3>2, AppendHas
  <2>4. QED
    BY <1>1, <2>2, <2>3 DEF Push
<1>6. QueueOut'
  BY <1>5 DEF QueueOut, Sends, Events, Frames, Ids
<1>7. \A q \in Requests : Nowhere(q)' <=> Nowhere(q)
  BY <1>1 DEF Nowhere
<1>8. FreshOut'
  <2> SUFFICES ASSUME NEW q \in Requests,
                      ret'[q] <= 0 \/ Has(queue', Sends(q))
               PROVE  bGot'[q] = 0 /\ told'[q] = 0 /\ Nowhere(q)'
    BY DEF FreshOut, Sends, Events, Frames, Ids
  <2>1. CASE q = r
    BY <1>1, <1>3, <1>7, <2>1
  <2>2. CASE q # r
    BY <1>1, <1>2, <1>5, <1>7, <2>2 DEF OutInv, FreshOut
  <2>3. QED
    BY <2>1, <2>2
<1>9. ItemsOut'
  BY <1>1 DEF OutInv, ItemsOut, FreedOut, Tidy, Asks, WithId, Frames, Ids
<1>10. SpentOut'
  <2> SUFFICES ASSUME NEW q \in Twice
               PROVE
                 /\ bGot[q] <= 1
                 /\ bGot[q] > 0 /\ ret'[q] \notin bStored => Nowhere(q)
                 /\ bGot[q] > 0 /\ clean_session /\ sock = "open"
                    /\ ~accepted => Nowhere(q)
    BY <1>1, <1>7 DEF SpentOut, Twice
  <2>1. CASE q = r
    BY <1>3, <2>1
  <2>2. CASE q # r
    BY <1>2, <2>2 DEF OutInv, SpentOut, Twice
  <2>3. QED
    BY <2>1, <2>2
<1>11. ReleasedOut'
  <2> SUFFICES ASSUME NEW q \in Twice
               PROVE  /\ Has(toBroker, Releases(ret'[q]))
                         => ~Has(session, Asks(q))
                      /\ Before(toBroker, Asks(q), Releases(ret'[q]))
    BY <1>1 DEF ReleasedOut, Releases, Asks, Frames, Ids
  <2>1. CASE q = r
    BY <1>3, <2>1 DEF Nowhere, Before, Has
  <2>2. CASE q # r
    BY <1>2, <2>2 DEF OutInv, ReleasedOut, Twice
  <2>3. QED
    BY <2>1, <2>2
<1>12. QED
  BY <1>6, <1>8, <1>9, <1>10, <1>11 DEF OutInv

-----------------------------------------------------------------------------
(* The links: opened, lost and closed                                      *)

(* connect, disconnect, the tick, the callbacks and the closing of a       *)
(* connection send no request; a new link starts empty.                    *)
LEMMA LinkOut ==
    ASSUME ~Wrap, Inv, OutInv,
           \/ Connect \/ Disconnect \/ TickPing \/ TickTimeout
           \/ RecvCallback \/ DisconnectCallback
           \/ SendDisconnect \/ HandleDisconnect,
           UNCHANGED <<brokerVars, clean_session>>
    PROVE  OutInv'
<1>1. QueueKept
  <2>1. CASE UNCHANGED queue
    BY <2>1 DEF QueueKept, OutInv, QueueOut
  <2>2. CASE SendDisconnect \/ HandleDisconnect
    BY <2>2, PopOut DEF SendDisconnect, Sending, HandleDisconnect, OutInv
  <2>3. CASE Connect \/ Disconnect \/ RecvCallback
    BY <2>1, <2>3, PushBare DEF Connect, Disconnect, RecvCallback, OutInv
  <2>4. CASE TickPing \/ TickTimeout \/ DisconnectCallback
    BY <2>1, <2>4, PushBare
    DEF TickPing, TickTimeout, DisconnectCallback, BreakLink, OutInv
  <2>5. QED
    BY <2>2, <2>3, <2>4
<1>2. SessionKept
  <2>1. CASE Connect
    <3>1. session' = <<>> \/ session' = session
      <4>1. CASE InitSession
        BY <4>1, Zenon DEF InitSession
      <4>2. CASE UNCHANGED session
        BY <4>2
      <4>3. QED
        BY <2>1, <4>1, <4>2, Zenon DEF Connect
    <3>2. QED
      BY <3>1, SessionThinned DEF OutInv
  <2>2. CASE session' = session
    BY <2>2, SessionThinned DEF OutInv
  <2>3. QED
    BY <2>1, <2>2
    DEF Disconnect, TickPing, TickTimeout, RecvCallback, DisconnectCallback,
        SendDisconnect, HandleDisconnect
<1>3. WireKept
  <2>1. CASE TickPing
    <3>1. Bare("PINGREQ") \in Outgoing
      BY BareType DEF FrameTypes
    <3>2. QED
      BY <2>1, <3>1, WirePut DEF TickPing, PutPingreq, Bare, Frame
  <2>2. CASE ~TickPing
    <3>1. toBroker' = toBroker \/ toBroker' = <<>>
      BY <2>2
      DEF Connect, Disconnect, TickTimeout, RecvCallback, DisconnectCallback,
          BreakLink, LinkGone, netVars, SendDisconnect, HandleDisconnect,
          ConnectionClose, ConnectionDeinit
    <3>2. QED
      BY <3>1, WireThinned
  <2>3. QED
    BY <2>1, <2>2
<1>4. told' = told
  BY DEF Connect, Disconnect, appVars, TickPing, TickTimeout, RecvCallback,
         DisconnectCallback, SendDisconnect, HandleDisconnect
<1>5. NewLinkOut
  <2>1. CASE Connect
    <3>1. toBroker' = <<>>
      BY <2>1 DEF Connect, LinkGone
    <3>2. sock' = "open" /\ clean_session => session' = <<>>
      BY <2>1 DEF Connect, InitSession
    <3>3. QED
      BY <3>1, <3>2 DEF NewLinkOut
  <2>2. CASE UNCHANGED <<sock, accepted>> \/ sock' \in {"none", "broken"}
    BY <2>2 DEF NewLinkOut
  <2>3. QED
    BY <2>1, <2>2
    DEF Disconnect, TickPing, TickTimeout, RecvCallback, DisconnectCallback,
        BreakLink, netVars, SendDisconnect, HandleDisconnect, ConnectionClose,
        ConnectionDeinit
<1>6. UNCHANGED <<ret, bGot, bStored, clean_session>>
  BY DEF Connect, Disconnect, appVars, TickPing, TickTimeout, RecvCallback,
         DisconnectCallback, SendDisconnect, HandleDisconnect, brokerVars
<1>7. QED
  BY <1>1, <1>2, <1>3, <1>4, <1>5, <1>6, KeptStep DEF ToldOut

-----------------------------------------------------------------------------
(* The broker                                                              *)

(* Steps that take no request and no PUBREL. *)
LEMMA BrokerOtherOut ==
    ASSUME ~Wrap, Inv, OutInv, UNCHANGED clean_session,
           \/ BrokerReject \/ BrokerTakePing \/ BrokerTakePuback
           \/ BrokerTakePubrec \/ BrokerTakePubcomp \/ BrokerSends
    PROVE  OutInv'
<1>1. QueueKept
  <2>1. CASE UNCHANGED queue
    BY <2>1 DEF QueueKept, OutInv, QueueOut
  <2>2. CASE BrokerReject
    BY <2>1, <2>2, PushBare DEF BrokerReject, OutInv
  <2>3. QED
    BY <2>1, <2>2
    DEF BrokerTakePing, BrokerTakePuback, BrokerTakePubrec,
        BrokerTakePubcomp, Takes, BrokerSends, BrokerPublish, BrokerRelease
<1>2. WireKept
  <2>1. \/ toBroker' = toBroker \/ toBroker' = <<>>
        \/ toBroker # <<>> /\ toBroker' = Tail(toBroker)
    BY DEF BrokerReject, LinkGone, BrokerTakePing, BrokerTakePuback,
           BrokerTakePubrec, BrokerTakePubcomp, Takes, BrokerSends,
           BrokerPublish, BrokerRelease
  <2>2. QED
    BY <2>1, WireThinned
<1>3. /\ UNCHANGED <<session, told, ret, bGot, bStored>>
      /\ UNCHANGED <<sock, accepted>> \/ sock' = "broken"
  BY DEF BrokerReject, BrokerTakePing, BrokerTakePuback, BrokerTakePubrec,
         BrokerTakePubcomp, Takes, BrokerSends, BrokerPublish, BrokerRelease,
         BrokerLeaves, appVars, brokerVars
<1>4. SessionKept /\ ToldOut /\ NewLinkOut
  BY <1>3, SessionThinned DEF OutInv, ToldOut, NewLinkOut
<1>5. QED
  BY <1>1, <1>2, <1>3, <1>4, KeptStep

(* A step that takes the first frame off the link keeps the invariant, if  *)
(* it changes what the broker has as it must.                              *)
LEMMA TakeStep ==
    ASSUME ~Wrap, Inv, OutInv,
           toBroker # <<>>, toBroker' = Tail(toBroker),
           UNCHANGED <<BrokerLeaves, sock, queue, clean_session>>,
           accepted => accepted',
           \A r \in Requests :
              bGot'[r] # bGot[r] => Head(toBroker) \in Asks(r),
           \A r \in Twice :
              /\ bGot'[r] # bGot[r]
                 => bGot[r] = 0 /\ bGot'[r] <= 1 /\ ret[r] \in bStored'
              /\ bGot'[r] > 0 /\ ret[r] \notin bStored'
                 => ret[r] \notin bStored \/ Nowhere(r)'
              /\ bGot'[r] # bGot[r] => accepted
    PROVE  OutInv'
<1>1. UNCHANGED <<session, told, ret, queue, sock, clean_session>>
  BY DEF BrokerLeaves, appVars
<1>2. WireKept
  BY WireThinned
<1>3. \A r \in Requests : Nowhere(r) => Nowhere(r)'
  BY <1>1, <1>2 DEF WireKept, Nowhere
<1>4. ASSUME NEW r \in Requests, Nowhere(r) PROVE bGot'[r] = bGot[r]
  <2>1. Head(toBroker) = toBroker[1] /\ 1 \in 1..Len(toBroker)
    BY SeqTypes, EmptySeq
  <2>2. QED
    BY <1>4, <2>1 DEF Nowhere, Has
<1>5. QueueOut' /\ ItemsOut'
  BY <1>1
  DEF OutInv, QueueOut, Sends, Events, ItemsOut, Tidy, FreedOut, Asks, WithId,
      Frames, Ids
<1>6. FreshOut'
  <2> SUFFICES ASSUME NEW r \in Requests,
                      ret[r] <= 0 \/ Has(queue, Sends(r))
               PROVE  bGot'[r] = 0 /\ told[r] = 0 /\ Nowhere(r)'
    BY <1>1 DEF FreshOut, Sends, Events, Frames, Ids
  <2>1. bGot[r] = 0 /\ told[r] = 0 /\ Nowhere(r)
    BY DEF OutInv, FreshOut
  <2>2. QED
    BY <1>3, <1>4, <2>1
<1>7. SpentOut'
  <2> SUFFICES ASSUME NEW r \in Twice
               PROVE
                 /\ bGot'[r] <= 1
                 /\ bGot'[r] > 0 /\ ret[r] \notin bStored' => Nowhere(r)'
                 /\ bGot'[r] > 0 /\ clean_session /\ sock = "open"
                    /\ ~accepted' => Nowhere(r)'
    BY <1>1 DEF SpentOut
  <2>1. r \in Requests
    BY DEF Twice
  <2>2. QED
    BY <1>3, <2>1 DEF OutInv, SpentOut
<1>8. ReleasedOut'
  BY <1>1, <1>2
  DEF ReleasedOut, OutInv, WireKept, Twice, Releases, Asks, Frames, Ids
<1>9. QED
  BY <1>5, <1>6, <1>7, <1>8 DEF OutInv

(* CONNECT: a clean session lets the ids go, and nothing that the broker   *)
(* has is left to be sent on this link.                                    *)
LEMMA BrokerConnectOut ==
    ASSUME ~Wrap, Inv, OutInv, BrokerConnect, UNCHANGED clean_session
    PROVE  OutInv'
<1>1. /\ sock = "open" /\ ~accepted
      /\ toBroker # <<>> /\ toBroker' = Tail(toBroker)
      /\ UNCHANGED <<BrokerLeaves, sock, queue, clean_session, bGot>>
      /\ bStored' = IF clean_session THEN {} ELSE bStored
      /\ accepted' = TRUE
  BY DEF BrokerConnect
<1>2. WireKept /\ session' = session
  BY <1>1, WireThinned DEF BrokerLeaves
<1>3. \A r \in Twice : clean_session /\ bGot[r] > 0 => Nowhere(r)'
  BY <1>1, <1>2 DEF OutInv, SpentOut, WireKept, Nowhere, Twice
<1>4. QED
  BY <1>1, <1>3, TakeStep

(* PUBLISH: only a message whose id is not stored is new, and it was not   *)
(* taken before.                                                           *)
LEMMA TakePublishOut ==
    ASSUME ~Wrap, Inv, OutInv, BrokerTakePublish, UNCHANGED clean_session
    PROVE  OutInv'
<1>1. /\ sock = "open" /\ accepted
      /\ toBroker # <<>> /\ toBroker' = Tail(toBroker)
      /\ Taken.type = "PUBLISH"
      /\ UNCHANGED <<BrokerLeaves, sock, queue, clean_session, accepted>>
  BY DEF BrokerTakePublish, Takes, Taken
<1>2. Taken = Head(toBroker) /\ Taken \in Outgoing /\ Taken \in Frames
      /\ Taken = toBroker[1] /\ 1 \in 1..Len(toBroker)
  BY <1>1, SeqTypes, HeadTailProperties, EmptySeq DEF Taken, Inv, LinkInv
<1>3. PICK q \in Requests : /\ q = Taken.msg /\ Taken.id = ret[q]
                            /\ Kind[q] = "PUBLISH" /\ Taken \in Asks(q)
  <2>1. Taken.msg \in Requests
    BY <1>1, <1>2 DEF Outgoing, Carries, RequestTypes
  <2>2. QED
    BY <1>1, <1>2, <2>1, AskedId DEF Asks
<1>4. /\ \/ bGot' = bGot
         \/ Took(q) /\ (Qos[q] < 2 \/ ret[q] \notin bStored)
      /\ bStored' = IF Qos[q] = 2 THEN bStored \cup {ret[q]} ELSE bStored
  BY <1>3 DEF BrokerTakePublish
<1>5. \A r \in Requests : bGot'[r] # bGot[r] => r = q
  BY <1>4 DEF Took, Inv, BrokerInv
<1>6. ASSUME q \in Twice, bGot'[q] # bGot[q]
      PROVE  bGot[q] = 0 /\ bGot'[q] <= 1 /\ ret[q] \in bStored'
  <2>1. ret[q] \notin bStored /\ Qos[q] = 2
    BY <1>4, <1>6 DEF Twice
  <2>2. ~Nowhere(q)
    BY <1>2, <1>3 DEF Nowhere, Has
  <2>3. bGot[q] = 0
    BY <1>6, <2>1, <2>2 DEF OutInv, SpentOut, Inv, BrokerInv
  <2>4. QED
    BY <1>4, <1>6, <2>1, <2>3 DEF Took, Upto2, Inv, BrokerInv
<1>7. \A r \in Twice : ret[r] \notin bStored' => ret[r] \notin bStored
  BY <1>4
<1>8. \A r \in Twice : r \in Requests
  BY DEF Twice
<1>9. QED
  BY <1>1, <1>2, <1>3, <1>5, <1>6, <1>7, <1>8, TakeStep

(* SUBSCRIBE and UNSUBSCRIBE. *)
LEMMA TakeSubscribeOut ==
    ASSUME ~Wrap, Inv, OutInv,
           BrokerTakeSubscribe \/ BrokerTakeUnsubscribe,
           UNCHANGED clean_session
    PROVE  OutInv'
<1>1. /\ toBroker # <<>> /\ toBroker' = Tail(toBroker)
      /\ Taken.type \in {"SUBSCRIBE", "UNSUBSCRIBE"}
      /\ UNCHANGED <<BrokerLeaves, sock, queue, clean_session, accepted>>
      /\ bStored' = bStored /\ Took(Taken.msg)
  BY DEF BrokerTakeSubscribe, BrokerTakeUnsubscribe, Takes, Taken
<1>2. Taken = Head(toBroker) /\ Taken \in Outgoing /\ Taken \in Frames
  BY <1>1, SeqTypes, HeadTailProperties DEF Taken, Inv, LinkInv
<1>3. PICK q \in Requests : q = Taken.msg /\ Taken.type = Kind[q]
                            /\ Taken \in Asks(q)
  BY <1>1, <1>2 DEF Outgoing, Carries, RequestTypes, Asks
<1>4. \A r \in Requests : bGot'[r] # bGot[r] => r = q
  BY <1>1, <1>3 DEF Took, Inv, BrokerInv
<1>5. q \notin Twice /\ \A r \in Twice : r \in Requests
  BY <1>1, <1>3 DEF Twice
<1>6. QED
  BY <1>1, <1>2, <1>3, <1>4, <1>5, TakeStep

(* PUBREL: the id goes, and with PUBREL the last frame about it. *)
LEMMA TakePubrelOut ==
    ASSUME ~Wrap, Inv, OutInv, BrokerTakePubrel, UNCHANGED clean_session
    PROVE  OutInv'
<1>1. /\ toBroker # <<>> /\ toBroker' = Tail(toBroker)
      /\ Taken.type = "PUBREL" /\ Taken = Head(toBroker)
      /\ UNCHANGED <<BrokerLeaves, sock, queue, clean_session, accepted>>
      /\ bStored' = bStored \ {Taken.id} /\ bGot' = bGot
  BY DEF BrokerTakePubrel, Takes, Taken
<1>2. /\ toBroker \in Seq(Frames) /\ Len(toBroker) \in Nat \ {0}
      /\ Taken = toBroker[1] /\ Taken \in Frames
      /\ Len(toBroker') = Len(toBroker) - 1
      /\ \A i \in 1..Len(toBroker') : toBroker'[i] = toBroker[i + 1]
  BY <1>1, SeqTypes, EmptySeq, HeadTailProperties
<1>3. ASSUME NEW r \in Twice, ret[r] = Taken.id PROVE Nowhere(r)'
  <2>1. toBroker[1] \in Releases(ret[r])
    BY <1>1, <1>2, <1>3 DEF Releases
  <2>2. ~Has(session', Asks(r))
    BY <1>1, <1>2, <2>1 DEF OutInv, ReleasedOut, Has, BrokerLeaves
  <2>3. ASSUME NEW i \in 1..Len(toBroker'), toBroker'[i] \in Asks(r)
        PROVE  FALSE
    <3>1. i + 1 \in 1..Len(toBroker) /\ toBroker[i + 1] \in Asks(r)
      BY <1>2, <2>3
    <3>2. i + 1 < 1
      BY <1>2, <2>1, <3>1 DEF OutInv, ReleasedOut, Before
    <3>3. QED
      BY <3>2
  <2>4. QED
    BY <2>2, <2>3 DEF Nowhere, Has, Asks, Frames, Ids
<1>4. \A r \in Twice : ret[r] \notin bStored'
                       => ret[r] \notin bStored \/ Nowhere(r)'
  BY <1>1, <1>3
<1>5. QED
  BY <1>1, <1>4, TakeStep

-----------------------------------------------------------------------------
(* The specification                                                       *)

(* At first nothing is anywhere. *)
LEMMA InitOut == Init => OutInv
<1> SUFFICES ASSUME Init PROVE OutInv
  OBVIOUS
<1>1. session = <<>> /\ queue = <<>> /\ toBroker = <<>>
  BY DEF Init, ClientInit
<1>2. \A A, B : /\ ~Has(<<>>, A) /\ Once(<<>>, A) /\ Before(<<>>, A, B)
  BY EmptyHas
<1>3. \A r \in Requests : bGot[r] = 0 /\ told[r] = 0 /\ Nowhere(r)
  BY <1>1, <1>2 DEF Init, ClientInit, BrokerInit, Nowhere
<1>4. QueueOut /\ ReleasedOut
  BY <1>1, <1>2 DEF QueueOut, ReleasedOut
<1>5. FreshOut /\ SpentOut
  BY <1>3 DEF FreshOut, SpentOut, Twice
<1>6. ItemsOut
  BY <1>1, <1>2, <1>3 DEF ItemsOut, Tidy, FreedOut
<1>7. QED
  BY <1>4, <1>5, <1>6 DEF OutInv

(* Every step keeps the invariant, where the ids are apart. *)
LEMMA NextOut ==
    ASSUME ~Wrap
    PROVE  Inv /\ IdsApart /\ OutInv /\ [Next]_vars => OutInv'
<1> SUFFICES ASSUME Inv, IdsApart, OutInv, [Next]_vars PROVE OutInv'
  OBVIOUS
<1>1. CASE UNCHANGED vars
  <2>1. UNCHANGED <<session, queue, toBroker, ret, told, bGot, bStored, sock,
                    accepted, clean_session>>
    BY <1>1 DEF vars, clientVars, brokerVars, netVars, appVars
  <2>2. QueueKept /\ SessionKept /\ WireKept /\ ToldOut /\ NewLinkOut
    BY <2>1, SessionThinned, WireThinned
    DEF OutInv, QueueKept, QueueOut, ToldOut, NewLinkOut
  <2>3. QED
    BY <2>1, <2>2, KeptStep
<1>2. CASE Client /\ UNCHANGED clean_session
  <2>1. ClientNext /\ UNCHANGED <<brokerVars, clean_session>>
    BY <1>2 DEF Client
  <2>2. CASE \E r \in Requests : Publish(r) \/ Subscribe(r) \/ Unsubscribe(r)
    <3>1. PICK r \in Requests : Request(r)
      BY <2>2 DEF Publish, Subscribe, Unsubscribe
    <3>2. QED
      BY <2>1, <3>1, RequestOut
  <2>3. CASE HandleSend
    BY <2>1, <2>3, PlainOut, LinkOut, SendRequestOut, SendPublishOut
    DEF HandleSend
  <2>4. CASE HandleReceive
    BY <2>1, <2>4, PlainOut, GetPublishOut, AnswersOut, GetPubrecOut,
       GetPubrelOut, GetPingresOut
    DEF HandleReceive
  <2>5. QED
    BY <2>1, <2>2, <2>3, <2>4, LinkOut
    DEF ClientNext, Application, Mqttmain, Worker
<1>3. CASE Broker /\ UNCHANGED clean_session
  BY <1>3, BrokerOtherOut, BrokerConnectOut, TakePublishOut,
     TakeSubscribeOut, TakePubrelOut
  DEF Broker, BrokerTakes
<1>4. QED
  BY <1>1, <1>2, <1>3 DEF Next

(* The invariant holds in every run in which the ids are apart. *)
LEMMA OutInvHolds ==
    ASSUME ~Wrap
    PROVE  Spec /\ []IdsApart => []OutInv
BY InvHolds, InitOut, NextOut, PTL DEF Spec

(* Whatever is lost, resent at a PINGRESP (mqtt_manager.c) or reconnected, *)
(* with a clean session or a kept one: the broker takes a QoS 2 message at *)
(* most once, if packet_id does not wrap and the ids at both ends differ.  *)
THEOREM ExactlyOnceOutHolds ==
    ASSUME ~Wrap
    PROVE  Spec /\ []IdsApart => []ExactlyOnceOut
<1>1. OutInv => ExactlyOnceOut
  BY DEF OutInv, SpentOut, ExactlyOnceOut, Twice
<1>2. QED
  BY <1>1, OutInvHolds, PTL

(* When a request is reported (mqtt_connection.c) the application may free *)
(* its topic and data: no item refers to them, then and ever after.        *)
THEOREM FreedAfterPublishedHolds ==
    ASSUME ~Wrap
    PROVE  Spec /\ []IdsApart => []FreedAfterPublished
<1>1. Inv /\ OutInv => FreedAfterPublished
  <2> SUFFICES ASSUME Inv, OutInv, NEW r \in Requests, told[r] > 0,
                      NEW i \in DOMAIN session, session[i].msg = r
               PROVE  FALSE
    BY DEF FreedAfterPublished
  <2>1. i \in 1..Len(session) /\ session[i] \in Frames
    BY SeqTypes, LenProperties, ElementOfSeq
  <2>2. ~Has(session, Asks(r))
    BY DEF OutInv, ItemsOut, FreedOut
  <2>3. QED
    BY <2>1, <2>2 DEF Has, Asks
<1>2. QED
  BY <1>1, InvHolds, OutInvHolds, PTL

-----------------------------------------------------------------------------
(* Nothing is forgotten                                                    *)

(* A request that was sent, or should have been, and is not answered. *)
Waits(r) == /\ ret[r] > 0 /\ Acknowledgeable(r)
            /\ ~Has(queue, Sends(r)) /\ told[r] = 0

(* A session that is kept is emptied only before there was a request. *)
KeepsOut == ~clean_session =>
    /\ session_init => ~session_set
    /\ ~session_set => \A r \in Requests : ret[r] = NotCalled
    /\ \A r \in Requests : Waits(r) => Has(session, WithId(ret[r]))

(* Most steps take no request from the queue and no report back, and leave *)
(* the item of a request that waits.                                       *)
QueueGrows ==
    \A r \in Requests : Has(queue, Sends(r)) => Has(queue', Sends(r))
ToldGrows == \A r \in Requests : told'[r] = 0 => told[r] = 0
SessionGrows ==
    \A r \in Requests :
        /\ ret[r] > 0 /\ told'[r] = 0 /\ Has(session, WithId(ret[r]))
        => Has(session', WithId(ret[r]))

(* They keep the invariant. *)
LEMMA GrowingStep ==
    ASSUME KeepsOut, UNCHANGED <<ret, clean_session>>,
           UNCHANGED <<session_init, session_set>>,
           QueueGrows, ToldGrows, ~clean_session => SessionGrows
    PROVE  KeepsOut'
BY DEF KeepsOut, QueueGrows, ToldGrows, SessionGrows, Waits, Acknowledgeable,
       Sends, Events, WithId, Frames, Ids

(* Pushing an event takes none away. *)
LEMMA PushGrows ==
    ASSUME Inv, NEW e \in Events, Push(e) \/ UNCHANGED queue
    PROVE  QueueGrows
<1>1. queue \in Seq(Events)
  BY SeqTypes
<1>2. CASE queue' = queue
  BY <1>2 DEF QueueGrows
<1>3. CASE queue' = Append(queue, e)
  BY <1>1, <1>3, AppendHas DEF QueueGrows
<1>4. QED
  BY <1>2, <1>3 DEF Push

(* Nor does popping one that asks for no request to be sent. *)
LEMMA PopGrows ==
    ASSUME Inv, NEW kind, Pop(kind),
           kind = "SEND" => Popped.type \notin RequestTypes
    PROVE  QueueGrows
<1>1. queue \in Seq(Events) /\ queue # <<>> /\ queue' = Tail(queue)
      /\ Head(queue).kind = kind
  BY SeqTypes DEF Pop
<1>2. kind = "SEND" => Popped.msg = NoMsg
  BY PopType DEF Inv, Outgoing
<1>3. \A r \in Requests : Head(queue) \notin Sends(r)
  BY <1>1, <1>2, ClientAssumption DEF Sends, Popped
<1>4. QED
  BY <1>1, <1>3, TailHas DEF QueueGrows

(* Every step but connect, a request and its sending. *)
LEMMA OtherKeeps ==
    ASSUME ~Wrap, Inv, KeepsOut,
           \/ Disconnect \/ Worker \/ SendConnect \/ SendDisconnect
           \/ ReceiveNothing \/ GetConnack \/ GetPingres \/ HandleDisconnect
           \/ Broker,
           UNCHANGED clean_session
    PROVE  KeepsOut'
<1>1. QueueGrows
  <2>1. /\ RECEIVE_EVENT \in Events /\ DISCONNECT_EVENT \in Events
        /\ Event("SEND", Bare("DISCONNECT")) \in Events
    BY EventTypes, SeqTypes
  <2>2. CASE UNCHANGED queue
    BY <2>1, <2>2, PushGrows
  <2>3. CASE Disconnect \/ Worker
    BY <2>1, <2>3, PushGrows
    DEF Disconnect, Worker, TickPing, TickTimeout, RecvCallback,
        DisconnectCallback, BreakLink
  <2>4. CASE Broker
    BY <2>1, <2>4, PushGrows
    DEF Broker, BrokerTakes, BrokerSends, BrokerConnect, BrokerReject,
        BrokerTakePublish, BrokerTakePubrel, BrokerTakeSubscribe,
        BrokerTakeUnsubscribe, BrokerTakePing, BrokerTakePuback,
        BrokerTakePubrec, BrokerTakePubcomp, Takes, BrokerPublish,
        BrokerRelease
  <2>5. CASE SendConnect \/ SendDisconnect
    BY <2>5, PopGrows
    DEF SendConnect, SendDisconnect, Sending, Popped, RequestTypes
  <2>6. CASE \/ ReceiveNothing \/ GetConnack \/ GetPingres
             \/ HandleDisconnect
    BY <2>6, PopGrows
    DEF ReceiveNothing, GetConnack, GetPingres, Receiving, HandleDisconnect
  <2>7. QED
    BY <2>3, <2>4, <2>5, <2>6
<1>2. UNCHANGED <<session, told, ret, session_init, session_set>>
  <2>1. CASE Broker
    BY <2>1
    DEF Broker, BrokerTakes, BrokerSends, BrokerConnect, BrokerReject,
        BrokerTakePublish, BrokerTakePubrel, BrokerTakeSubscribe,
        BrokerTakeUnsubscribe, BrokerTakePing, BrokerTakePuback,
        BrokerTakePubrec, BrokerTakePubcomp, Takes, BrokerPublish,
        BrokerRelease, BrokerLeaves, appVars
  <2>2. CASE ~Broker
    BY <2>2
    DEF Disconnect, Worker, TickPing, TickTimeout, RecvCallback,
        DisconnectCallback, appVars, SendConnect, SendDisconnect,
        ReceiveNothing, GetConnack, GetPingres, RecvPingres,
        HandleDisconnect, HandlerRest
  <2>3. QED
    BY <2>1, <2>2
<1>3. ToldGrows /\ SessionGrows
  BY <1>2 DEF ToldGrows, SessionGrows
<1>4. QED
  BY <1>1, <1>2, <1>3, GrowingStep

(* An item goes for good only with the report of its request. *)
LEMMA AnswersKeep ==
    ASSUME ~Wrap, Inv, KeepsOut,
           GetPuback \/ GetPubcomp \/ GetSuback \/ GetUnsuback,
           UNCHANGED clean_session
    PROVE  KeepsOut'
<1>1. PICK kind \in RequestTypes, type \in FrameTypes :
        /\ type \in AnswersTo(kind) /\ Receiving(type)
        /\ session' = RemoveItem(session, Received.id)
        /\ Tell(kind, Received.id)
        /\ UNCHANGED HandlerRest
  BY DEF GetPuback, GetPubcomp, GetSuback, GetUnsuback, RecvPuback,
         RecvPubcomp, RecvSuback, RecvUnsuback, RequestTypes, AnswersTo,
         FrameTypes
<1>2. Received \in Incoming /\ Received.type = type
  BY <1>1, ReceivingType DEF Inv
<1>3. Known(Received.id, kind)
  BY <1>1, <1>2 DEF Incoming
<1>4. QueueGrows
  BY <1>1, PopGrows DEF Receiving
<1>5. ToldGrows
  BY <1>1 DEF ToldGrows, Tell, Upto2, Inv, ToldInv
<1>6. SessionGrows
  <2> SUFFICES ASSUME NEW r \in Requests, told'[r] = 0,
                      Has(session, WithId(ret[r]))
               PROVE  Has(session', WithId(ret[r]))
    BY DEF SessionGrows
  <2>1. ret[r] # Received.id
    <3>1. ASSUME ret[r] = Received.id PROVE FALSE
      <4>1. Kind[r] = kind
        BY <1>3, <3>1, KnownGot
      <4>2. told'[r] = Upto2(told[r]) /\ told[r] \in 0..2
        BY <1>1, <3>1, <4>1 DEF Tell, Inv, ToldInv
      <4>3. QED
        BY <4>2 DEF Upto2
    <3>2. QED
      BY <3>1
  <2>2. \A x \in WithId(ret[r]) : x.id # Received.id
    BY <2>1 DEF WithId
  <2>3. QED
    BY <1>1, <2>2, SeqTypes, RemoveOther
<1>7. QED
  BY <1>1, <1>4, <1>5, <1>6, GrowingStep DEF HandlerRest

(* A PUBLISH of the broker takes no item away. *)
LEMMA GetPublishKeeps ==
    ASSUME Inv, KeepsOut, GetPublish, UNCHANGED clean_session
    PROVE  KeepsOut'
<1>1. Received \in Incoming /\ Received.type = "PUBLISH"
  BY ReceivingType DEF Inv, GetPublish
<1>2. BQos[Received.msg] = 2 => Ack("PUBREC", Received.id) \in Frames
  BY <1>1, AckType, SeqTypes
  DEF FrameTypes, RequestTypes, FromBroker, Incoming, Frames
<1>3. SessionGrows
  <2>1. \/ session' = session
        \/ /\ BQos[Received.msg] = 2
           /\ session' = AddItem(session, Ack("PUBREC", Received.id))
    BY DEF GetPublish, RecvPublish0, RecvPublish1, RecvPublish2
  <2>2. CASE session' = session
    BY <2>2 DEF SessionGrows
  <2>3. CASE /\ BQos[Received.msg] = 2
             /\ session' = AddItem(session, Ack("PUBREC", Received.id))
    BY <1>2, <2>3, SeqTypes, AddItemHas DEF SessionGrows
  <2>4. QED
    BY <2>1, <2>2, <2>3
<1>4. QueueGrows
  BY PopGrows DEF GetPublish, Receiving
<1>5. QED
  BY <1>3, <1>4, GrowingStep DEF GetPublish, HandlerRest, ToldGrows

(* PUBREL of the broker takes away an item of an id that no request has. *)
LEMMA GetPubrelKeeps ==
    ASSUME Inv, IdsApart, KeepsOut, GetPubrel, UNCHANGED clean_session
    PROVE  KeepsOut'
<1>1. Received \in Incoming /\ Received.type = "PUBREL"
  BY ReceivingType DEF Inv, GetPubrel
<1>2. \A r \in Requests : \A x \in WithId(ret[r]) : x.id # Received.id
  BY <1>1 DEF Incoming, FromBroker, IdsApart, WithId
<1>3. SessionGrows
  BY <1>2, SeqTypes, RemoveOther DEF SessionGrows, GetPubrel, RecvPubrel
<1>4. QueueGrows
  BY PopGrows DEF GetPubrel, Receiving
<1>5. QED
  BY <1>3, <1>4, GrowingStep DEF GetPubrel, HandlerRest, ToldGrows

(* PUBREL finds the slot of the message it replaces, or a free one. *)
LEMMA GetPubrecKeeps ==
    ASSUME Inv, HasRoom, KeepsOut, GetPubrec, UNCHANGED clean_session
    PROVE  KeepsOut'
<1>1. Received \in Incoming /\ Received.type = "PUBREC"
  BY ReceivingType DEF Inv, GetPubrec
<1>2. PICK id \in Ids : id = Received.id /\ Known(id, "PUBLISH")
  BY <1>1 DEF Incoming, Frames, RequestTypes, AnswersTo, FrameTypes
<1> DEFINE f == Ack("PUBREL", id)
           removed == RemoveItem(session, id)
<1>3. f \in Frames /\ f.id = id
  BY <1>2, AckType, SeqTypes DEF FrameTypes, RequestTypes, Ack, Frame
<1>4. /\ removed \in Seq(Frames) /\ Len(removed) < SessionSize
      /\ \A A : (\A x \in A : x.id # id) /\ Has(session, A)
                => Has(removed, A)
  <2>1. removed \in Seq(Frames) /\ Len(removed) <= Len(session)
    BY SeqTypes, RemoveItemType
  <2>2. \A A : (\A x \in A : x.id # id) /\ Has(session, A)
               => Has(removed, A)
    BY SeqTypes, RemoveOther
  <2> HIDE DEF removed
  <2>3. Len(removed) < SessionSize
    BY <2>1, SeqTypes, LenProperties, SessionSizeAssumption DEF HasRoom
  <2>4. QED
    BY <2>1, <2>2, <2>3
<1>5. session' = IF ItemExist(removed, id) THEN removed
                                           ELSE AddItem(removed, f)
  BY <1>2 DEF GetPubrec, RecvPubrec
<1>6. SessionGrows
  <2> SUFFICES ASSUME NEW r \in Requests, Has(session, WithId(ret[r]))
               PROVE  Has(session', WithId(ret[r]))
    BY DEF SessionGrows
  <2>1. CASE ret[r] = id
    <3>1. f \in WithId(ret[r])
      BY <1>3, <2>1 DEF WithId
    <3> HIDE DEF f, removed
    <3>2. CASE ItemExist(removed, id)
      BY <1>4, <1>5, <2>1, <3>2, NoItem
    <3>3. CASE ~ItemExist(removed, id)
      BY <1>3, <1>4, <1>5, <3>1, <3>3, AddItemHas
    <3>4. QED
      BY <3>2, <3>3
  <2>2. CASE ret[r] # id
    <3>1. \A x \in WithId(ret[r]) : x.id # id
      BY <2>2 DEF WithId
    <3> HIDE DEF f, removed
    <3>2. Has(removed, WithId(ret[r]))
      BY <1>4, <3>1
    <3>3. QED
      BY <1>3, <1>4, <1>5, <3>2, AddItemHas
  <2>3. QED
    BY <2>1, <2>2
<1>7. QueueGrows
  BY PopGrows DEF GetPubrec, Receiving
<1>8. QED
  BY <1>6, <1>7, GrowingStep DEF GetPubrec, HandlerRest, ToldGrows

(* What is sent first is in the session from then on. *)
LEMMA SendKeeps ==
    ASSUME ~Wrap, Inv, HasRoom, OutInv, KeepsOut,
           SendSubscribe \/ SendUnsubscribe \/ SendPublish,
           UNCHANGED clean_session
    PROVE  KeepsOut'
<1> DEFINE added == AddItem(session, Popped)
<1>1. PICK type \in RequestTypes : Sending(type) /\ UNCHANGED HandlerRest
  BY DEF SendSubscribe, SendUnsubscribe, SendPublish, RequestTypes
<1>2. PICK r \in Requests :
        /\ r = Popped.msg /\ Popped.id = ret[r] /\ Popped \in Frames
        /\ Kind[r] = type
  BY <1>1, PoppedOut, SeqTypes DEF OutInv
<1>3. /\ added \in Seq(Frames)
      /\ \A A : Has(session, A) => Has(added, A)
      /\ Has(added, WithId(ret[r]))
  <2>1. Popped \in WithId(ret[r])
    BY <1>2 DEF WithId
  <2>2. /\ session \in Seq(Frames)
        /\ Len(session) < SessionSize /\ Len(session) <= SessionSize
    BY SeqTypes DEF HasRoom, Inv, SessionInv
  <2>3. added \in Seq(Frames)
    BY <1>2, <2>2, AddItemType
  <2>4. QED
    BY <1>2, <2>1, <2>2, <2>3, AddItemHas
<1>4. \/ session' = added
      \/ SendPublish /\ Qos[r] = 0 /\ session' = RemoveItem(added, ret[r])
  BY <1>2 DEF SendSubscribe, SendUnsubscribe, SendPublish
<1>5. \A q \in Requests : Has(queue, Sends(q))
                          => q = r \/ Has(queue', Sends(q))
  <2>1. queue \in Seq(Events) /\ queue # <<>> /\ queue' = Tail(queue)
    BY <1>1, SeqTypes DEF Sending, Pop
  <2>2. \A q \in Requests : Head(queue) \in Sends(q) => q = r
    BY <1>2 DEF Sends, Popped
  <2>3. ASSUME NEW q \in Requests, Has(queue, Sends(q)), q # r
        PROVE  Has(Tail(queue), Sends(q))
    <3>1. Head(queue) \notin Sends(q)
      BY <2>2, <2>3
    <3>2. QED
      BY <2>1, <2>3, <3>1, TailHas
  <2>4. QED
    BY <2>1, <2>3
<1>6. \A q \in Requests : told'[q] = 0 => told[q] = 0
  BY <1>2 DEF SendSubscribe, SendUnsubscribe, SendPublish, Upto2, Inv, ToldInv
<1>7. ASSUME ~clean_session, NEW q \in Requests, Waits(q)'
      PROVE  Has(session', WithId(ret[q]))
  <2>1. ret[q] > 0 /\ Acknowledgeable(q) /\ ~Has(queue', Sends(q))
        /\ told[q] = 0
    BY <1>1, <1>6, <1>7
    DEF Waits, HandlerRest, Acknowledgeable, Sends, Events, Frames, Ids
  <2>2. Has(added, WithId(ret[q]))
    BY <1>3, <1>5, <1>7, <2>1 DEF KeepsOut, Waits
  <2>3. CASE session' = added
    BY <2>2, <2>3
  <2>4. CASE SendPublish /\ Qos[r] = 0 /\ session' = RemoveItem(added, ret[r])
    <3>1. Kind[r] = "PUBLISH"
      BY <1>2, <2>4, PoppedOut
      DEF SendPublish, Sending, OutInv, RequestTypes
    <3>2. q # r
      BY <2>1, <2>4, <3>1 DEF Acknowledgeable
    <3>3. ret[q] # ret[r]
      BY <2>1, <3>2 DEF Inv, RetInv
    <3>4. \A x \in WithId(ret[q]) : x.id # ret[r]
      BY <3>3 DEF WithId
    <3> HIDE DEF added
    <3>5. QED
      BY <1>3, <2>2, <2>4, <3>4, RemoveOther
  <2>5. QED
    BY <1>4, <2>3, <2>4
<1>8. QED
  BY <1>1, <1>7 DEF KeepsOut, HandlerRest, WithId, Frames, Ids

(* A request that is accepted waits in the queue. *)
LEMMA RequestKeeps ==
    ASSUME Inv, KeepsOut, NEW q \in Requests, Request(q),
           UNCHANGED clean_session
    PROVE  KeepsOut'
<1> DEFINE id == (packet_id + 1) % IdMod
           e == Event("SEND", Frame(Kind[q], id, q))
<1>1. /\ session_set /\ Push(e)
      /\ ret' = [ret EXCEPT ![q] = IF QueueFull THEN 0 ELSE id]
      /\ UNCHANGED <<session_init, session_set, session, told>>
  BY DEF Request
<1>2. e \in Events
  BY ClientAssumption
  DEF Event, Frame, Events, Frames, FrameTypes, Ids, Msgs, Inv, CountsInv
<1>3. QueueGrows
  BY <1>1, <1>2, PushGrows
<1>4. ~QueueFull => Has(queue', Sends(q))
  <2>1. e \in Sends(q)
    BY <1>2 DEF Sends, Event, Frame
  <2> HIDE DEF e
  <2>2. QED
    BY <1>1, <1>2, <2>1, SeqTypes, AppendHas DEF Push
<1>5. \A r \in Requests : Sends(r)' = Sends(r)
  BY DEF Sends, Events, Frames, Ids
<1>6. ASSUME NEW r \in Requests, ~clean_session, Waits(r)'
      PROVE  Has(session, WithId(ret[r])) /\ ret'[r] = ret[r]
  <2>1. ret'[r] > 0 /\ Acknowledgeable(r) /\ told[r] = 0
        /\ ~Has(queue', Sends(r))
    BY <1>1, <1>5, <1>6 DEF Waits, Acknowledgeable
  <2>2. r # q
    BY <1>1, <1>4, <2>1 DEF Inv, RetInv
  <2>3. ret'[r] = ret[r]
    BY <1>1, <2>2 DEF Inv, RetInv
  <2>4. QED
    BY <1>3, <1>6, <2>1, <2>3 DEF KeepsOut, Waits, QueueGrows
<1>7. QED
  BY <1>1, <1>6 DEF KeepsOut, WithId, Frames, Ids

(* mqtt_connect empties a session that is to be kept only once, before any *)
(* request was made.                                                       *)
LEMMA ConnectKeeps ==
    ASSUME Inv, KeepsOut, Connect, UNCHANGED clean_session
    PROVE  KeepsOut'
<1>1. UNCHANGED <<ret, told>>
  BY DEF Connect
<1>2. QueueGrows
  <2>1. Event("SEND", Bare("CONNECT")) \in Events
    BY EventTypes, SeqTypes
  <2>2. QED
    BY <2>1, PushGrows DEF Connect
<1>3. CASE UNCHANGED <<session, session_init, session_set>>
  BY <1>1, <1>2, <1>3, GrowingStep DEF ToldGrows, SessionGrows
<1>4. CASE InitSession
  <2>1. ASSUME ~clean_session, session_init
        PROVE  \A r \in Requests : ret[r] = NotCalled
    BY <2>1 DEF KeepsOut
  <2>2. ASSUME ~clean_session PROVE ~session_init' /\ session_set'
    BY <1>4, <2>2 DEF InitSession
  <2>3. ASSUME ~clean_session, NEW r \in Requests, Waits(r)'
        PROVE  Has(session', WithId(ret[r])')
    <3>1. ret[r] > 0 /\ Acknowledgeable(r) /\ told[r] = 0
          /\ ~Has(queue', Sends(r))
      BY <1>1, <2>3
      DEF Waits, Acknowledgeable, Sends, Events, Frames, Ids
    <3>2. ~session_init
      BY <2>1, <2>3, <3>1 DEF NotCalled
    <3>3. session' = session
      BY <1>4, <2>3, <3>2 DEF InitSession
    <3>4. Has(session, WithId(ret[r]))
      BY <1>2, <2>3, <3>1 DEF KeepsOut, Waits, QueueGrows
    <3>5. QED
      BY <1>1, <3>3, <3>4 DEF WithId, Frames, Ids
  <2>4. QED
    BY <2>2, <2>3 DEF KeepsOut, WithId, Frames, Ids
<1>5. QED
  BY <1>3, <1>4 DEF Connect

(* Every step keeps what is not answered. *)
LEMMA NextKeeps ==
    ASSUME ~Wrap
    PROVE  Inv /\ IdsApart /\ HasRoom /\ OutInv /\ KeepsOut /\ [Next]_vars
           => KeepsOut'
<1> SUFFICES ASSUME Inv, IdsApart, HasRoom, OutInv, KeepsOut, [Next]_vars
             PROVE  KeepsOut'
  OBVIOUS
<1>1. CASE UNCHANGED vars
  BY <1>1, GrowingStep
  DEF vars, clientVars, appVars, QueueGrows, ToldGrows, SessionGrows
<1>2. CASE Client /\ UNCHANGED clean_session
  <2>1. ClientNext /\ UNCHANGED clean_session
    BY <1>2 DEF Client
  <2>2. CASE \E r \in Requests : Publish(r) \/ Subscribe(r) \/ Unsubscribe(r)
    <3>1. PICK r \in Requests : Request(r)
      BY <2>2 DEF Publish, Subscribe, Unsubscribe
    <3>2. QED
      BY <2>1, <3>1, RequestKeeps
  <2>3. CASE HandleSend
    BY <2>1, <2>3, OtherKeeps, SendKeeps DEF HandleSend
  <2>4. CASE HandleReceive
    BY <2>1, <2>4, OtherKeeps, AnswersKeep, GetPublishKeeps, GetPubrecKeeps,
       GetPubrelKeeps
    DEF HandleReceive
  <2>5. QED
    BY <2>1, <2>2, <2>3, <2>4, OtherKeeps, ConnectKeeps
    DEF ClientNext, Application, Mqttmain
<1>3. CASE Broker /\ UNCHANGED clean_session
  BY <1>3, OtherKeeps
<1>4. QED
  BY <1>1, <1>2, <1>3 DEF Next

(* With a kept session, a request that Mqttmain has taken and the broker   *)
(* has not answered to the end is in the session (mqtt_session.c), from    *)
(* which the next PINGRESP sends it again: no failed send and no lost link *)
(* makes the client forget it while the session has a free slot.           *)
THEOREM NothingForgottenHolds ==
    ASSUME ~Wrap
    PROVE  Spec /\ []IdsApart /\ []HasRoom => []NothingForgotten
<1>1. Init => KeepsOut
  BY DEF Init, ClientInit, KeepsOut, Waits, NotCalled
<1>2. Inv /\ KeepsOut => NothingForgotten
  <2> SUFFICES ASSUME Inv, KeepsOut, ~clean_session, NEW r \in Requests,
                      ret[r] > 0, Acknowledgeable(r), ~Queued(r),
                      told[r] = 0
               PROVE  ret[r] \in SessionIds
    BY DEF NothingForgotten
  <2>1. ~Has(queue, Sends(r))
    BY SeqTypes, LenProperties DEF Has, Sends, Queued
  <2>2. PICK i \in 1..Len(session) : session[i] \in WithId(ret[r])
    BY <2>1 DEF KeepsOut, Waits, Has
  <2>3. i \in DOMAIN session /\ session[i].id = ret[r]
    BY <2>2, SeqTypes, LenProperties DEF WithId
  <2>4. QED
    BY <2>3 DEF SessionIds
<1>3. QED
  BY <1>1, <1>2, InvHolds, OutInvHolds, NextKeeps, PTL DEF Spec
=============================================================================
