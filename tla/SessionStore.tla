---------------------------- MODULE SessionStore ----------------------------
(***************************************************************************)
(* What the manager takes the session for: a sequence of packets, with the *)
(* operators that MqttManager uses.  MqttSessionList implements it.        *)
(***************************************************************************)
EXTENDS MqttSession

CONSTANT Items      \* packets that may be kept

VARIABLE session

Init == session = <<>>
AddPacket == \E item \in Items : session' = AddItem(session, item)
RemovePacket == \E item \in Items : session' = RemoveItem(session, item.id)
Emptied == session' = <<>>

Next == AddPacket \/ RemovePacket \/ Emptied
Spec == Init /\ [][Next]_session
=============================================================================
