----------------------------- MODULE MqttClaims -----------------------------
(***************************************************************************)
(* What the comments of the library and of its example say of the program, *)
(* stated of MqttSystem.  Each is violated by what the code does: the runs *)
(* named Claim... show how.                                                *)
(***************************************************************************)
EXTENDS MqttSystem

(* mqtt_manager.c:245, of a QoS 2 message whose id is in the session:      *)
(* "This item is already received before".  A message withheld from the    *)
(* application was given to it earlier.                                    *)
WithheldWasReceived ==
    [][ \A m \in BMsgs :
          /\ rx # <<>> /\ rx' = Tail(rx) /\ Received.type = "PUBLISH"
          /\ Received.msg = m /\ delivered[m] = 0
          => delivered'[m] > 0 ]_vars

(* mqtt_common.h:61, of PUBLISH_MSG_RECEIVED: "Event sent when PUBLISH     *)
(* message is received from the broker".  On a link that never fails,      *)
(* what the broker sends at QoS 0 is reported.                             *)
EveryPublishReported ==
    \A m \in BMsgs : (BQos[m] = 0 /\ bState[m] = "done" /\ drops = 0
                        /\ lost = 0) ~> (delivered[m] > 0 \/ lost > 0)

(* mqtt_api.h:105-107, of the topic and the data of a publish, and alike  *)
(* of subscribe and unsubscribe: "free/resuse them after getting event     *)
(* WICED_MQTT_EVENT_TYPE_PUBLISHED or WICED_MQTT_EVENT_TYPE_DISCONNECTED". *)
(* When the application is told DISCONNECTED, the session, which a later   *)
(* connection sends again, does not refer to the memory of a request.      *)
FreedAfterDisconnected ==
    [][ online /\ ~online' =>
          \A i \in DOMAIN session' : session'[i].msg \notin Requests ]_vars
=============================================================================
