---------------------------- MODULE MqttDelivery ----------------------------
(***************************************************************************)
(* What the library promises its application, without queue, session or    *)
(* link.  A request gets an id of its own, or is refused; the broker takes *)
(* it (at QoS 2 once) before its end is reported.  A message of the broker *)
(* is handed over (at QoS 2 once) before its delivery ends, and never      *)
(* afterwards.  MqttSystem implements it where ids stay apart.             *)
(***************************************************************************)
EXTENDS Naturals

CONSTANTS Requests, Kind, Qos, BMsgs, BQos, Ids, NotCalled

VARIABLES
    ret,        \* the id returned for a request; 0: refused
    taken,      \* how often the broker took a request (0..2)
    told,       \* how often the end of a request was reported (0..2)
    delivered,  \* how often a message was handed over (0..2)
    fate,       \* of a message: "pending", "done" or "dropped"
    clean       \* the session is not kept

vars == <<ret, taken, told, delivered, fate, clean>>

Init ==
    /\ ret = [r \in Requests |-> NotCalled]
    /\ taken = [r \in Requests |-> 0]
    /\ told = [r \in Requests |-> 0]
    /\ delivered = [m \in BMsgs |-> 0]
    /\ fate = [m \in BMsgs |-> "pending"]
    /\ clean \in BOOLEAN

Once(r) == Kind[r] = "PUBLISH" /\ Qos[r] = 2
Answered(r) == Kind[r] = "PUBLISH" => Qos[r] > 0
Counted(n) == IF n < 2 THEN n + 1 ELSE 2

(* The id is 0, or nobody else's. *)
Call(r, id) ==
    /\ ret[r] = NotCalled
    /\ id > 0 => \A q \in Requests : ret[q] # id
    /\ ret' = [ret EXCEPT ![r] = id]
    /\ UNCHANGED <<taken, told, delivered, fate, clean>>

Take(r) ==
    /\ ret[r] > 0
    /\ Once(r) => taken[r] = 0
    /\ taken' = [taken EXCEPT ![r] = Counted(@)]
    /\ UNCHANGED <<ret, told, delivered, fate, clean>>

Report(r) ==
    /\ ret[r] > 0
    /\ Answered(r) => taken[r] > 0
    /\ told' = [told EXCEPT ![r] = Counted(@)]
    /\ UNCHANGED <<ret, taken, delivered, fate, clean>>

Deliver(m) ==
    /\ fate[m] = "pending"
    /\ BQos[m] = 2 => delivered[m] = 0
    /\ delivered' = [delivered EXCEPT ![m] = Counted(@)]
    /\ UNCHANGED <<ret, taken, told, fate, clean>>

Finish(m) ==
    /\ fate[m] = "pending" /\ delivered[m] > 0
    /\ fate' = [fate EXCEPT ![m] = "done"]
    /\ UNCHANGED <<ret, taken, told, delivered, clean>>

(* A new connection that does not keep the session drops what is pending.  *)
Drop(S) ==
    /\ clean
    /\ \A m \in S : fate[m] = "pending"
    /\ fate' = [m \in BMsgs |-> IF m \in S THEN "dropped" ELSE fate[m]]
    /\ UNCHANGED <<ret, taken, told, delivered, clean>>

Next ==
    \/ \E r \in Requests :
          (\E id \in Ids : Call(r, id)) \/ Take(r) \/ Report(r)
    \/ \E m \in BMsgs : Deliver(m) \/ Finish(m)
    \/ \E S \in SUBSET BMsgs : Drop(S)

Spec == Init /\ [][Next]_vars
=============================================================================
