--------------------------- MODULE MCSessionList ---------------------------
(***************************************************************************)
(* MqttSessionList for TLC: packets of two types with one of two ids, so   *)
(* that an id may be there twice.                                          *)
(***************************************************************************)
EXTENDS MqttSessionList

MCItems == {Frame(type, id, 0) : type \in {"PUBLISH", "PUBREC"}, id \in 1..2}
=============================================================================
