------------------------------- MODULE MCMqtt -------------------------------
(***************************************************************************)
(* Instances of MqttSystem for TLC.  Requests and messages are model       *)
(* values named for what they are; Kind, Qos and the broker's ids follow   *)
(* from the names.  The client's ids are 1, 2, ...; the broker's are 5 and *)
(* above, except where a run is about the same id at both ends.            *)
(***************************************************************************)
EXTENDS MqttClaims

CONSTANTS
    p0, p1, p2,        \* publish at QoS 0, 1 and 2
    sub, unsub,
    m0, m1, m2, n2     \* from the broker at QoS 0, 1, 2 and 2

MCKind == [r \in Requests |->
             CASE r = sub -> "SUBSCRIBE" [] r = unsub -> "UNSUBSCRIBE"
               [] OTHER -> "PUBLISH"]
MCQos == [r \in Requests |->
            CASE r = p1 -> 1 [] r = p2 -> 2 [] OTHER -> 0]
MCBQos == [m \in BMsgs |->
             CASE m = m0 -> 0 [] m = m1 -> 1 [] OTHER -> 2]
(* The broker uses one id again and again. *)
ApartIds == [m \in BMsgs |-> 5]
(* The broker counts its ids from 1, as the client does. *)
SharedIds == [m \in BMsgs |-> 1]
=============================================================================
