--------------------------- MODULE MqttHeartbeat ---------------------------
(***************************************************************************)
(* The heartbeat of one MQTT connection (mqtt_manager.c), from the         *)
(* registration of its timer to its first timeout, in seconds.             *)
(*                                                                         *)
(* mqtt_manager ignores what its puts return: any packet may fail to be    *)
(* sent, and send_counter is reset all the same.                           *)
(*                                                                         *)
(* The worker thread's tick counts send_counter and recv_counter down once *)
(* a second; Mqttmain resets them as packets are sent and handled.  The    *)
(* two threads share the counters without a lock: a tick loads, stores and *)
(* tests a counter in separate steps, and a reset may come between them;   *)
(* raced records that one did.                                             *)
(*                                                                         *)
(* The broker is external: a request that expects an answer has it handled *)
(* within D seconds, as long as the link is alive.                         *)
(***************************************************************************)
EXTENDS Integers

CONSTANTS
    K,         \* keep_alive, a uint16_t that is not 0
    D          \* seconds until an answer of the broker has been handled

ASSUME HeartbeatAssumption ==
    K \in Nat \ {0} /\ D \in 0..(K - 1)

VARIABLES
    send_counter, recv_counter,    \* of mqtt_heartbeat_t
    pc,                            \* the worker's place in the tick
    reg,                           \* the counter value the tick works on
    timedOut,                      \* the tick has returned WICED_ERROR
    (* the environment and what is measured, in seconds, each up to    *)
    (* one second past the bound it is about                           *)
    alive,                         \* the link and the broker are there
    unanswered,                    \* age of a request without answer, or None
    silent,                        \* since a packet that resets recv_counter
    quiet,                         \* since anything was sent
    failed,                        \* a send has failed since then
    missed,                        \* one that asks for an answer has failed
                                   \* since the broker was heard
    raced                          \* Mqttmain ran amid a tick

vars == <<send_counter, recv_counter, pc, reg, timedOut, alive, unanswered,
          silent, quiet, failed, missed, raced>>

None == -1

TypeOK ==
    /\ send_counter \in 0..K /\ recv_counter \in 0..(2 * K)
    /\ pc \in {"idle", "recv", "recvtest", "send", "sendtest"}
    /\ reg \in 0..(2 * K)
    /\ {timedOut, alive, failed, missed, raced} \subseteq BOOLEAN
    /\ unanswered \in (0..(D + 1)) \cup {None}
    /\ silent \in 0..(2 * K + 1) /\ quiet \in 0..(K + 1)

(* mqtt_manager_heartbeat_init, on SEND_CONNECT *)
Init ==
    /\ send_counter = K /\ recv_counter = 2 * K
    /\ pc = "idle" /\ reg = 0 /\ timedOut = FALSE
    /\ alive = TRUE /\ failed = FALSE /\ missed = FALSE /\ raced = FALSE
    /\ unanswered = None /\ silent = 0 /\ quiet = 0

-----------------------------------------------------------------------------
(* The worker thread.  step_value is 1. *)
Step(n) == IF n >= 1 THEN n - 1 ELSE 0

Older(n, bound) == IF n <= bound THEN n + 1 ELSE n
Age(n) == IF n = None THEN None ELSE Older(n, D)
InTime == alive /\ unanswered # None => unanswered < D

(* A second has passed: mqtt_manager_tick, which loads recv_counter. *)
Second ==
    /\ pc = "idle" /\ ~timedOut /\ InTime
    /\ pc' = "recv" /\ reg' = recv_counter
    /\ unanswered' = Age(unanswered)
    /\ silent' = Older(silent, 2 * K) /\ quiet' = Older(quiet, K)
    /\ UNCHANGED <<send_counter, recv_counter, timedOut, alive, failed, missed,
                   raced>>

(* mqtt_manager_heartbeat_recv_step *)
RecvStep ==
    /\ pc = "recv"
    /\ recv_counter' = Step(reg)
    /\ reg' = Step(reg) /\ pc' = "recvtest"
    /\ UNCHANGED <<send_counter, timedOut, alive, unanswered, silent, quiet,
                   failed, missed, raced>>

(* Its result, from a register or from memory again; then the send step    *)
(* loads its counter.                                                      *)
RecvTest ==
    /\ pc = "recvtest"
    /\ \E n \in {reg, recv_counter} :
          IF n = 0 THEN timedOut' = TRUE /\ pc' = "idle" /\ UNCHANGED reg
                   ELSE /\ pc' = "send" /\ reg' = send_counter
                        /\ UNCHANGED timedOut
    /\ UNCHANGED <<send_counter, recv_counter, alive, unanswered, silent,
                   quiet, failed, missed, raced>>

(* mqtt_manager_heartbeat_send_step *)
SendStep ==
    /\ pc = "send"
    /\ send_counter' = Step(reg)
    /\ reg' = Step(reg) /\ pc' = "sendtest"
    /\ UNCHANGED <<recv_counter, timedOut, alive, unanswered, silent, quiet,
                   failed, missed, raced>>

(* A packet is sent, or is not. *)
Sent    == quiet' = 0 /\ failed' = FALSE
NotSent == failed' = TRUE /\ UNCHANGED quiet

(* One that the broker has to answer. *)
Ask ==
    \/ /\ Sent /\ UNCHANGED missed
       /\ unanswered' = IF unanswered = None THEN 0 ELSE unanswered
    \/ NotSent /\ missed' = TRUE /\ UNCHANGED unanswered

(* Its result; at zero a PINGREQ, and a reset whether or not it was sent.  *)
SendTest ==
    /\ pc = "sendtest" /\ pc' = "idle"
    /\ \E n \in {reg, send_counter} :
          IF n = 0
          THEN Ask /\ send_counter' = K
          ELSE UNCHANGED <<send_counter, quiet, unanswered, failed, missed>>
    /\ UNCHANGED <<recv_counter, reg, timedOut, alive, silent, raced>>

Tick == Second \/ RecvStep \/ RecvTest \/ SendStep \/ SendTest

-----------------------------------------------------------------------------
(* Mqttmain, between two ticks or amid one. *)
Turn == ~timedOut /\ raced' = IF pc = "idle" THEN raced ELSE TRUE

(* Mutants: the factors are mixed up. *)
SendResetTwice == send_counter' = 2 * K
RecvResetOnce == recv_counter' = K

(* mqtt_manager_heartbeat_send_reset and _recv_reset *)
SendReset == send_counter' = K
RecvReset == recv_counter' = 2 * K

(* Mutant: sending counts as hearing from the broker. *)
SendRequestResetsBoth ==
    /\ Turn
    /\ Ask /\ SendReset /\ RecvReset
    /\ UNCHANGED <<pc, reg, timedOut, alive, silent>>

(* SUBSCRIBE, UNSUBSCRIBE, PUBLISH of QoS 1 or 2, sent or not. *)
SendRequest ==
    /\ Turn
    /\ Ask /\ SendReset
    /\ UNCHANGED <<recv_counter, pc, reg, timedOut, alive, silent>>

(* PUBLISH of QoS 0: not answered, and send_counter runs on. *)
SendQos0 ==
    /\ Turn
    /\ Sent
    /\ UNCHANGED <<send_counter, recv_counter, pc, reg, timedOut, alive,
                   unanswered, silent, missed>>

(* Every packet of the broker but CONNACK: mqtt_backend_get_connack resets *)
(* nothing.                                                                *)
Heard == silent' = 0 /\ missed' = FALSE /\ RecvReset

(* Mutant: hearing from the broker puts off the next ping. *)
RecvAnswerResetsBoth ==
    /\ Turn /\ alive
    /\ Heard /\ SendReset
    /\ unanswered' = None
    /\ UNCHANGED <<pc, reg, timedOut, alive, quiet, failed>>

(* PUBACK, PUBCOMP, SUBACK, UNSUBACK *)
RecvAnswer ==
    /\ Turn /\ alive
    /\ Heard
    /\ unanswered' = None
    /\ UNCHANGED <<send_counter, pc, reg, timedOut, alive, quiet, failed>>

(* PINGRESP: the session is resent, as far as there is one and it can be,  *)
(* and send_counter runs on.                                               *)
RecvPingres ==
    /\ Turn /\ alive
    /\ Heard
    /\ \/ Sent /\ unanswered' = 0
       \/ unanswered' = None /\ UNCHANGED <<quiet, failed>>
    /\ UNCHANGED <<send_counter, pc, reg, timedOut, alive>>

(* PUBREC: PUBREL, which expects PUBCOMP, is sent or not. *)
RecvPubrec ==
    /\ Turn /\ alive
    /\ Heard /\ SendReset
    /\ \/ Sent /\ unanswered' = 0
       \/ NotSent /\ unanswered' = None
    /\ UNCHANGED <<pc, reg, timedOut, alive>>

(* PUBLISH of QoS 0. *)
RecvQos0 ==
    /\ Turn /\ alive
    /\ Heard
    /\ UNCHANGED <<send_counter, pc, reg, timedOut, alive, unanswered, quiet,
                   failed>>

(* PUBLISH of QoS 1 or 2 and PUBREL: the acknowledgement is sent or not.   *)
RecvAcknowledged ==
    /\ Turn /\ alive
    /\ Heard /\ SendReset
    /\ Sent \/ NotSent
    /\ UNCHANGED <<pc, reg, timedOut, alive, unanswered>>

Mqttmain == \/ SendRequest \/ SendQos0 \/ RecvAnswer \/ RecvPingres
            \/ RecvPubrec \/ RecvQos0 \/ RecvAcknowledged

(* The link dies, and TCP does not notice. *)
LinkDies ==
    /\ alive /\ alive' = FALSE
    /\ UNCHANGED <<send_counter, recv_counter, pc, reg, timedOut,
                   unanswered, silent, quiet, failed, missed, raced>>

Next == Tick \/ Mqttmain \/ LinkDies
Spec == Init /\ [][Next]_vars
(* The RTOS runs the timer. *)
FairSpec == Spec /\ WF_vars(Tick)
-----------------------------------------------------------------------------
(* Properties                                                              *)

(* A connection whose broker answers is never given up by the tick         *)
(* (mqtt_manager.c, MQTT_EVENT_TICK): a ping or another request goes out   *)
(* while more than the broker's answer time is left on recv_counter.  Two  *)
(* things void it: a ping, SUBSCRIBE, UNSUBSCRIBE or PUBLISH that failed   *)
(* since the broker was heard, as it puts off the next ping all the same,  *)
(* and a reset that a tick overwrites.  An acknowledgement that fails,     *)
(* PUBREL among them, does not: it follows a packet of the broker.         *)
NoSpuriousTimeout == timedOut /\ ~raced => ~alive \/ missed

(* A link without a sign of life is given up after 2 * keep_alive seconds  *)
(* at the latest, whatever resets the race between the threads loses.      *)
DetectedInTime ==
    /\ silent <= 2 * K
    /\ silent = 2 * K /\ pc = "idle" => timedOut

(* The client never lets keep_alive seconds pass without sending, which is *)
(* what MQTT's keep alive promises the broker, unless a packet that resets *)
(* send_counter failed since the last one that was sent: any kind of them, *)
(* not only a ping.  The next packet that is sent restores the promise.    *)
KeepsAlive == quiet <= K \/ failed

(* mqtt_manager.c:360: "Reset counter timed out and we didn't receive any  *)
(* thing from broker", for 2 * keep_alive seconds, that is (CONNACK apart) *)
(* - as long as no tick overwrites the reset of a packet.                  *)
TimeoutMeansSilence == timedOut /\ ~raced => silent >= 2 * K

(* A dead link is given up. *)
DeadLinkTimesOut == ~alive ~> timedOut
=============================================================================
