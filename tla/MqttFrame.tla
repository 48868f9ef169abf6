------------------------------ MODULE MqttFrame ------------------------------
(***************************************************************************)
(* The bytes of MQTT frames: the put functions and macros of mqtt_frame.c, *)
(* which build a frame in the uninitialised buffer of a packet, and        *)
(* mqtt_frame_recv with the get functions, which read one from what TCP    *)
(* has delivered of it.                                                    *)
(*                                                                         *)
(* A frame is a sequence of pieces.  An octet is a piece of length 1 with  *)
(* its value; a topic, a payload or a name is one piece of its length,     *)
(* whose value stands for its text.                                        *)
(***************************************************************************)
EXTENDS Integers, Sequences, Functions

CONSTANTS
    ClientIdLens,  \* lengths of client ids,
    TopicLens,     \* topics
    DataLens,      \* and payloads
    Ids,           \* packet ids
    Raw,           \* octets an uninitialised byte may hold
    Cuts           \* where TCP may cut a frame, in bytes from either end

Bytes == 0..255        \* what an octet can say,
Shorts == 0..65535     \* and two

ASSUME FrameAssumption ==
    /\ ClientIdLens \cup TopicLens \subseteq Shorts
    /\ DataLens \subseteq Nat /\ Cuts \subseteq Nat
    /\ Ids \subseteq Shorts \ {0} /\ Raw \subseteq Bytes
    (* A PUBLISH is no longer than four length octets can say. *)
    /\ \A t \in TopicLens, d \in DataLens : t + d + 4 < 128 * 128 * 128 * 128

VARIABLES
    args,   \* what the frame is to say
    frame,  \* what was put into the buffer
    got     \* what mqtt_frame_recv made of it

vars == <<args, frame, got>>

FRAME_MAX == 4096   \* MQTT_CONNECTION_FRAME_MAX
PacketType ==
    [CONNECT |-> 1, CONNACK |-> 2, PUBLISH |-> 3, PUBACK |-> 4, PUBREC |-> 5,
     PUBREL |-> 6, PUBCOMP |-> 7, SUBSCRIBE |-> 8, SUBACK |-> 9,
     UNSUBSCRIBE |-> 10, UNSUBACK |-> 11, PINGREQ |-> 12, PINGRESP |-> 13,
     DISCONNECT |-> 14]
Acks == {"PUBACK", "PUBREC", "PUBREL", "PUBCOMP"}

Octet(v) == [len |-> 1, val |-> v]
Text(n, v) == [len |-> n, val |-> v]
Size(f) == SumFunction([i \in DOMAIN f |-> f[i].len])

-----------------------------------------------------------------------------
(* Buffer macros                                                           *)

Bits(octet, bit, width) == (octet \div 2^bit) % 2^width

(* Mutant: the bits are not cleared first. *)
PutBitsOver(octet, v, bit, width) == octet + v * 2^bit

(* MQTT_BUFFER_PUT_BIT, _2BIT and _4BIT: the other bits stay.              *)
PutBits(octet, v, bit, width) ==
    octet + (v - Bits(octet, bit, width)) * 2^bit

PutShort(v) == <<Octet(v \div 256), Octet(v % 256)>>
GetShort(f, i) == f[i].val * 256 + f[i + 1].val

PutString(s) == PutShort(s.len) \o <<s>>
GetString(f, i) == Text(GetShort(f, i), f[i + 2].val)

Weight == <<1, 128, 128 * 128, 128 * 128 * 128>>

(* MQTT_BUFFER_PUT_VARIABLE_LENGTH: as many octets as x has digits to the  *)
(* base 128, low ones first, 0x80 on all but the last.                     *)
Digits(x) == CHOOSE k \in 1..4 : /\ x < 128 * Weight[k]
                                 /\ k > 1 => x >= Weight[k]
PutVariableLength(x) ==
    [i \in 1..Digits(x) |-> Octet(((x \div Weight[i]) % 128)
                                  + IF i < Digits(x) THEN 128 ELSE 0)]

(* What the first n length octets are worth, read by At.                   *)
Worth(At(_), n) ==
    LET Term(i) == IF i <= n THEN (At(i) % 128) * Weight[i] ELSE 0
    IN Term(1) + Term(2) + Term(3) + Term(4)

(* MQTT_BUFFER_GET_VARIABLE_LENGTH: f's length begins with f[2].           *)
LengthOctets(f) == CHOOSE n \in 1..4 : /\ f[n + 1].val < 128
                                       /\ \A i \in 2..n : f[i].val >= 128
GetVariableLength(f) == Worth(LAMBDA i : f[i + 1].val, LengthOctets(f))

-----------------------------------------------------------------------------
(* Putting.  raw is what the buffer's bytes hold before.                   *)

FirstOctet(raw, low, type) ==
    Octet(PutBits(PutBits(raw, low, 0, 4), PacketType[type], 4, 4))

(* mqtt_backend_put_connect: no password without a user name.  A will is   *)
(* never set (mqtt_api.c).                                                 *)
FinalArgs(a) ==
    [a EXCEPT !.password_flag = IF a.username_flag = 0 THEN 0 ELSE @]

ConnectFlags(raw, a) ==
    LET b1 == PutBits(PutBits(raw, 0, 0, 1), a.clean_session, 1, 1)
        b2 == PutBits(PutBits(PutBits(b1, 0, 2, 1), 0, 3, 2), 0, 5, 1)
    IN PutBits(PutBits(b2, a.username_flag, 6, 1), a.password_flag, 7, 1)

(* The protocol's name is of 4 or 6 octets. *)
NameLen(a) == IF a.mqtt_version = 4 THEN 4 ELSE 6
ConnectSize(a) ==
    a.client_id.len + 2
    + (IF a.username_flag = 1 THEN a.username.len + 2 ELSE 0)
    + (IF a.password_flag = 1 THEN a.password.len + 2 ELSE 0)
    + IF a.mqtt_version = 4 THEN 10 ELSE 12

ConnectFrame(raw, a) ==
    <<FirstOctet(raw, 0, "CONNECT")>> \o PutVariableLength(ConnectSize(a))
    \o PutString(Text(NameLen(a), 0)) \o <<Octet(a.mqtt_version)>>
    \o <<Octet(ConnectFlags(raw, a))>>
    \o PutShort(0)     \* keep alive "for now"
    \o PutString(a.client_id)
    \o (IF a.username_flag = 1 THEN PutString(a.username) ELSE <<>>)
    \o (IF a.password_flag = 1 THEN PutString(a.password) ELSE <<>>)

PublishSize(a) ==
    (IF a.qos = 0 THEN 0 ELSE 2) + a.topic.len + 2 + a.data.len
PublishFlags(raw, a) ==
    PutBits(PutBits(PutBits(raw, a.retain, 0, 1), a.qos, 1, 2), a.dup, 3, 1)
PublishFrame(raw, a) ==
    <<Octet(PutBits(PublishFlags(raw, a), PacketType.PUBLISH, 4, 4))>>
    \o PutVariableLength(PublishSize(a))
    \o PutString(a.topic)
    \o (IF a.qos = 0 THEN <<>> ELSE PutShort(a.packet_id))
    \o <<a.data>>

(* Mutant: the reserved bits are left as they are. *)
AckFrameRaw(raw, a) ==
    <<Octet(PutBits(raw, PacketType[a.type], 4, 4)), Octet(2)>>
    \o PutShort(a.packet_id)

(* puback, pubrec, pubrel, pubcomp: all with the low bits 2.               *)
AckFrame(raw, a) ==
    <<FirstOctet(raw, 2, a.type), Octet(2)>> \o PutShort(a.packet_id)

(* Mutant: QoS is not counted. *)
SubscribeFrameShort(raw, a) ==
    <<FirstOctet(raw, 2, "SUBSCRIBE")>>
    \o PutVariableLength(2 + a.topic.len + 2)
    \o PutShort(a.packet_id) \o PutString(a.topic) \o <<Octet(a.qos)>>

SubscribeFrame(raw, a) ==
    <<FirstOctet(raw, 2, "SUBSCRIBE")>>
    \o PutVariableLength(2 + a.topic.len + 2 + 1)
    \o PutShort(a.packet_id) \o PutString(a.topic) \o <<Octet(a.qos)>>

UnsubscribeFrame(raw, a) ==
    <<FirstOctet(raw, 2, "UNSUBSCRIBE")>>
    \o PutVariableLength(2 + a.topic.len + 2)
    \o PutShort(a.packet_id) \o PutString(a.topic)

BareFrame(raw, a) == <<FirstOctet(raw, 0, a.type), Octet(0)>>

(* What the broker sends, as MQTT 3.1.1 lays it out; its PUBLISH is laid   *)
(* out like the client's.                                                  *)
BrokerFrame(a) ==
    CASE a.type = "PUBLISH" -> PublishFrame(0, a)
      [] a.type \in Acks \cup {"UNSUBACK"} ->
           <<FirstOctet(0, IF a.type = "PUBREL" THEN 2 ELSE 0, a.type),
             Octet(2)>> \o PutShort(a.packet_id)
      [] a.type = "SUBACK" ->
           <<FirstOctet(0, 0, "SUBACK"), Octet(3)>> \o PutShort(a.packet_id)
           \o <<Octet(a.return_code)>>
      [] a.type = "CONNACK" ->
           <<FirstOctet(0, 0, "CONNACK"), Octet(2), Octet(0),
             Octet(a.return_code)>>
      [] a.type = "PINGRESP" -> <<FirstOctet(0, 0, "PINGRESP"), Octet(0)>>

-----------------------------------------------------------------------------
(* Getting                                                                 *)

(* Mutant: the packet id is taken for a part of the payload's length. *)
GetPublishLong(f) ==
    LET first == f[1].val
        qos == Bits(first, 1, 2)
        at == LengthOctets(f) + 2
        topic == GetString(f, at)
    IN [type |-> "PUBLISH", dup |-> Bits(first, 3, 1),
        retain |-> Bits(first, 0, 1), qos |-> qos, topic |-> topic,
        packet_id |-> IF qos = 0 THEN 0 ELSE GetShort(f, at + 3),
        data |-> Text(GetVariableLength(f) - topic.len - 2,
                      f[Len(f)].val)]

GetPublish(f) ==
    LET first == f[1].val
        qos == Bits(first, 1, 2)
        idLen == IF qos = 0 THEN 0 ELSE 2
        at == LengthOctets(f) + 2              \* the topic
        topic == GetString(f, at)
    IN [type |-> "PUBLISH", dup |-> Bits(first, 3, 1),
        retain |-> Bits(first, 0, 1), qos |-> qos, topic |-> topic,
        packet_id |-> IF qos = 0 THEN 0 ELSE GetShort(f, at + 3),
        data |-> Text(GetVariableLength(f) - idLen - topic.len - 2,
                      f[at + 3 + idLen].val)]

GetArgs(f, type) ==
    CASE type = "PUBLISH" -> GetPublish(f)
      [] type \in Acks \cup {"UNSUBACK"} ->
           [type |-> type, packet_id |-> GetShort(f, 3)]
      [] type = "SUBACK" -> [type |-> type, packet_id |-> GetShort(f, 3),
                             return_code |-> f[5].val]
      [] type = "CONNACK" -> [type |-> type, return_code |-> f[4].val]
      [] type = "PINGRESP" -> [type |-> type]

(* The length octets of a PUBLISH of which only the first n bytes have     *)
(* arrived; beyond them raw is read.                                       *)
LengthAt(f, n, raw, i) == IF i < n THEN f[i + 1].val ELSE raw

(* Mutant: the check leaves the header out. *)
TooShortBody(f, n, raw) ==
    \E i \in 1..4 :
        /\ \A j \in 1..(i - 1) : LengthAt(f, n, raw, j) >= 128
        /\ n < Worth(LAMBDA j : LengthAt(f, n, raw, j), i)

(* After each length octet the n bytes are compared with the length so     *)
(* far; the loop ends at the first octet without 0x80.                     *)
TooShort(f, n, raw) ==
    \E i \in 1..4 :
        /\ \A j \in 1..(i - 1) : LengthAt(f, n, raw, j) >= 128
        /\ n < Worth(LAMBDA j : LengthAt(f, n, raw, j), i) + i + 1

FixedSize(type) ==
    CASE type \in Acks \cup {"UNSUBACK", "CONNACK"} -> 4
      [] type = "SUBACK" -> 5
      [] type = "PINGRESP" -> 2

(* Mutant: the thresholds are those of the whole frame. *)
PublishTotalOver(a) ==
    LET total == a.data.len + a.topic.len + 2 + IF a.qos = 0 THEN 0 ELSE 2
    IN total + (IF total <= 128 THEN 1 ELSE IF total <= 16384 THEN 2
                ELSE IF total <= 2097152 THEN 3 ELSE 4) + 1

(* mqtt_frame_recv computes the size of a PUBLISH again from its parts.    *)
PublishTotal(a) ==
    LET total == a.data.len + a.topic.len + 2 + IF a.qos = 0 THEN 0 ELSE 2
    IN total + (IF total <= 127 THEN 1 ELSE IF total <= 16383 THEN 2
                ELSE IF total <= 2097151 THEN 3 ELSE 4) + 1

-----------------------------------------------------------------------------
Bit == {0, 1}
TopicArgs(type) ==
    [type : {type}, packet_id : Ids, topic : {Text(n, 1) : n \in TopicLens},
     qos : 0..2]
ConnectArgs ==
    [type : {"CONNECT"}, mqtt_version : {3, 4}, clean_session : Bit,
     username_flag : Bit, password_flag : Bit,
     client_id : {Text(n, 1) : n \in ClientIdLens},
     username : {Text(12, 2)}, password : {Text(9, 3)}]
PublishArgs ==
    {a \in [type : {"PUBLISH"}, dup : Bit, retain : Bit, qos : 0..2,
            topic : {Text(n, 1) : n \in TopicLens},
            packet_id : Ids \cup {0}, data : {Text(n, 2) : n \in DataLens}] :
       (a.qos = 0) = (a.packet_id = 0)}
AckArgs(types) == [type : types, packet_id : Ids]
BrokerArgs ==
    PublishArgs \cup AckArgs(Acks \cup {"UNSUBACK"})
    \cup [type : {"SUBACK"}, packet_id : Ids, return_code : {0, 1, 2, 128}]
    \cup [type : {"CONNACK"}, return_code : 0..5] \cup [type : {"PINGRESP"}]

Nothing == [type |-> "none"]
TypeOK ==
    /\ args.type \in DOMAIN PacketType \cup {"none"}
    /\ \A i \in DOMAIN frame : frame[i].len \in Nat /\ frame[i].val \in Bytes
    /\ got.type \in {"none", "refused", "read"}

Init == args = Nothing /\ frame = <<>> /\ got = Nothing

(* Bound: the client's frames fit into the packet, which nothing checks.   *)
Put(a, f) == /\ args = Nothing /\ Size(f) <= FRAME_MAX
             /\ args' = a /\ frame' = f /\ UNCHANGED got

PutConnect == \E a \in ConnectArgs, raw \in Raw :
                 Put(FinalArgs(a), ConnectFrame(raw, FinalArgs(a)))
PutPublish == \E a \in PublishArgs, raw \in Raw : Put(a, PublishFrame(raw, a))
PutAck == \E a \in AckArgs(Acks), raw \in Raw : Put(a, AckFrame(raw, a))
PutSubscribe == \E a \in TopicArgs("SUBSCRIBE"), raw \in Raw :
                   Put(a, SubscribeFrame(raw, a))
PutUnsubscribe == \E a \in TopicArgs("UNSUBSCRIBE"), raw \in Raw :
                     Put(a, UnsubscribeFrame(raw, a))
PutBare == \E t \in {"PINGREQ", "DISCONNECT"}, raw \in Raw :
              Put([type |-> t], BareFrame(raw, [type |-> t]))

(* mqtt_frame_recv, of a frame of the broker of which n bytes have come,   *)
(* or behind which others have.                                            *)
Lengths(size) ==
    (Cuts \cup {size - c : c \in Cuts} \cup {size, size + 4})
        \cap (Shorts \ {0})
RecvPublish(f, n, raw) ==
    IF TooShort(f, n, raw) THEN [type |-> "refused", n |-> n]
    ELSE [type |-> "read", n |-> n, args |-> GetPublish(f),
          size |-> PublishTotal(GetPublish(f))]
RecvFixed(f, type, n) ==
    IF n < FixedSize(type) THEN [type |-> "refused", n |-> n]
    ELSE [type |-> "read", n |-> n, args |-> GetArgs(f, type),
          size |-> FixedSize(type)]

Recv ==
    /\ args = Nothing
    /\ \E a \in BrokerArgs, raw \in Raw :
         LET f == BrokerFrame(a) IN
         \E n \in Lengths(Size(f)) :
            /\ args' = a /\ frame' = f
            /\ got' = IF a.type = "PUBLISH" THEN RecvPublish(f, n, raw)
                                            ELSE RecvFixed(f, a.type, n)

Next == \/ PutConnect \/ PutPublish \/ PutAck \/ PutSubscribe
        \/ PutUnsubscribe \/ PutBare \/ Recv
Spec == Init /\ [][Next]_vars
-----------------------------------------------------------------------------
(* Properties                                                              *)

(* The remaining length that the loop wrote, octet by octet, is what       *)
(* follows it: for every put function, each with a sum of its own          *)
(* (mqtt_frame.c:439-457, 517-519, 672-674, 707-708).                      *)
LengthIsBody ==
    frame # <<>> =>
        Size(frame) = 1 + LengthOctets(frame) + GetVariableLength(frame)

(* No bit of the packet's memory from before gets into a header of a frame *)
(* the client puts: the type and the flags say what the arguments say,     *)
(* although they are put together a bit at a time in an uninitialised      *)
(* byte.  SUBSCRIBE, UNSUBSCRIBE and, with mqtt_frame.c:565, 592, 619 and  *)
(* 646, all four acknowledgements have the low bits 2.  The broker's       *)
(* frames are laid out by BrokerFrame, which is not the repository's.      *)
HeaderFlags(a) ==
    CASE a.type = "PUBLISH" -> a.retain + 2 * a.qos + 8 * a.dup
      [] a.type \in {"SUBSCRIBE", "UNSUBSCRIBE"} \cup Acks -> 2
      [] OTHER -> 0
HeaderSays(a, f) ==
    /\ f[1].val = 16 * PacketType[a.type] + HeaderFlags(a)
    /\ a.type = "CONNECT" =>
         f[LengthOctets(f) + 6].val =
           128 * a.password_flag + 64 * a.username_flag
           + 2 * a.clean_session
FlagsSayArgs == args # Nothing /\ got = Nothing => HeaderSays(args, frame)

(* What mqtt_frame_recv hands to the handlers is what the broker sent,     *)
(* wherever TCP cut it: the payload's length, which no field holds, is     *)
(* what is left of the remaining length.                                   *)
ReadIsSent == got.type = "read" => got.args = args

(* A frame is read if and only if it has arrived as a whole, though the    *)
(* length is compared after each of its octets and an octet beyond the     *)
(* end may be looked at.                                                   *)
OnlyWholeFrames ==
    got # Nothing => (got.type = "refused") = (got.n < Size(frame))

(* The size given back is the frame's, with as many length octets as the   *)
(* sender used (mqtt_frame.c:320-340: of the three thresholds those at 127 *)
(* and 16383; a frame at the third is longer than the 16 bits that count   *)
(* what TCP delivers, and is never read).                                  *)
SizeIsFrame == got.type = "read" => got.size = Size(frame)
=============================================================================
