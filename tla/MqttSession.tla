---------------------------- MODULE MqttSession ----------------------------
(***************************************************************************)
(* The client's session (mqtt_session.c): the packets the client must be   *)
(* able to send again, in the order they were added.  The C code keeps     *)
(* SESSION_ITEMS_SIZE items on two linked lists; here the used list is a   *)
(* sequence and the free list is the room left up to SessionSize.          *)
(*                                                                         *)
(* An item is matched by its packet id ALONE: the first member of every    *)
(* struct of the item's union is packet_id, and the code compares the type *)
(* the caller asks for with constants, never with item->type.              *)
(***************************************************************************)
EXTENDS Integers, Sequences, SequencesExt

CONSTANT SessionSize      \* SESSION_ITEMS_SIZE, 20 in the code

ASSUME SessionSizeAssumption == SessionSize \in Nat \ {0}

(* A packet: on the wire, as a session item, or in a queued send request.  *)
Frame(type, id, msg) == [type |-> type, id |-> id, msg |-> msg]

(* mqtt_session_item_exist *)
ItemExist(s, id) == \E i \in DOMAIN s : s[i].id = id

(* The first item of the used list that matches. *)
FirstItem(s, id) ==
    CHOOSE i \in DOMAIN s :
        /\ s[i].id = id
        /\ \A j \in DOMAIN s : s[j].id = id => i <= j

(* mqtt_session_add_item: fails, and changes nothing, with no free slot. *)
AddItem(s, item) == IF Len(s) < SessionSize THEN Append(s, item) ELSE s

(* mqtt_session_remove_item: changes nothing when no item matches. *)
RemoveItem(s, id) ==
    IF ItemExist(s, id) THEN RemoveAt(s, FirstItem(s, id)) ELSE s
=============================================================================
