------------------------ MODULE MqttHeartbeatProofs ------------------------
(***************************************************************************)
(* What holds of the heartbeat for every keep alive interval K and every   *)
(* answer time D below it.                                                 *)
(***************************************************************************)
EXTENDS MqttHeartbeat, TLAPS

(* TypeOK in two parts, which need different provers, with the values of   *)
(* the counters at each place of the tick: they never rest at zero while   *)
(* the connection has not been given up.                                   *)
Flags == {timedOut, alive, failed, missed, raced} \subseteq BOOLEAN
Ranges ==
    /\ send_counter \in 0..K /\ recv_counter \in 0..(2 * K)
    /\ pc \in {"idle", "recv", "recvtest", "send", "sendtest"}
    /\ reg \in 0..(2 * K)
    /\ unanswered \in (0..(D + 1)) \cup {None}
    /\ silent \in 0..(2 * K + 1) /\ quiet \in 0..(K + 1)
CountersOK ==
    /\ pc = "idle" => timedOut \/ recv_counter > 0
    /\ pc # "idle" => ~timedOut
    /\ pc \in {"idle", "recv", "recvtest", "send"} => send_counter > 0
    /\ pc = "recv" => reg > 0 /\ recv_counter > 0
    /\ pc = "recvtest" => recv_counter \in {reg, 2 * K}
    /\ pc \in {"send", "sendtest"} => recv_counter > 0
    /\ pc = "send" => reg \in 1..K
    /\ pc = "sendtest" => reg \in 0..K /\ send_counter \in {reg, K}

TypeInv == Ranges /\ CountersOK

LEMMA FlagsInductive == Flags /\ [Next]_vars => Flags'
<1> USE DEF Flags
<1> SUFFICES ASSUME Flags, [Next]_vars PROVE Flags'
  OBVIOUS
<1>1. CASE Second
  BY <1>1, Zenon DEF Second
<1>2. CASE RecvStep
  BY <1>2, Zenon DEF RecvStep
<1>3. CASE RecvTest
  BY <1>3, Zenon DEF RecvTest
<1>4. CASE SendStep
  BY <1>4, Zenon DEF SendStep
<1>5. CASE SendTest
  BY <1>5, Zenon DEF SendTest, Ask, Sent, NotSent
<1>6. CASE SendRequest
  BY <1>6, Zenon DEF SendRequest, Turn, Ask, Sent, NotSent
<1>7. CASE SendQos0
  BY <1>7, Zenon DEF SendQos0, Turn, Sent
<1>8. CASE RecvAnswer
  BY <1>8, Zenon DEF RecvAnswer, Turn, Heard
<1>9. CASE RecvPingres
  BY <1>9, Zenon DEF RecvPingres, Turn, Heard, Sent
<1>10. CASE RecvPubrec
  BY <1>10, Zenon DEF RecvPubrec, Turn, Heard, Sent, NotSent
<1>11. CASE RecvQos0
  BY <1>11, Zenon DEF RecvQos0, Turn, Heard
<1>12. CASE RecvAcknowledged
  BY <1>12, Zenon DEF RecvAcknowledged, Turn, Heard, Sent, NotSent
<1>13. CASE LinkDies
  BY <1>13, Zenon DEF LinkDies
<1>14. CASE UNCHANGED vars
  BY <1>14, Zenon DEF vars
<1>15. QED
  BY <1>1, <1>2, <1>3, <1>4, <1>5, <1>6, <1>7, <1>8, <1>9, <1>10,
     <1>11, <1>12, <1>13, <1>14 DEF Next, Tick, Mqttmain

LEMMA TypeInvInductive == TypeInv /\ [Next]_vars => TypeInv'
<1> USE HeartbeatAssumption DEF TypeInv, Ranges, CountersOK, None
<1> SUFFICES ASSUME TypeInv, [Next]_vars PROVE TypeInv'
  OBVIOUS
<1>1. CASE Second
  BY <1>1 DEF Second, Older, Age, InTime
<1>2. CASE RecvStep
  BY <1>2 DEF RecvStep, Step
<1>3. CASE RecvTest
  <2>1. PICK n \in {reg, recv_counter} :
          IF n = 0 THEN timedOut' = TRUE /\ pc' = "idle" /\ UNCHANGED reg
                   ELSE /\ pc' = "send" /\ reg' = send_counter
                        /\ UNCHANGED timedOut
    BY <1>3 DEF RecvTest
  <2>2. CASE n = 0
    BY <1>3, <2>1, <2>2 DEF RecvTest
  <2>3. CASE n # 0
    <3>1. recv_counter > 0
      BY <1>3, <2>1, <2>3 DEF RecvTest
    <3>2. QED
      BY <1>3, <2>1, <2>3, <3>1 DEF RecvTest
  <2>4. QED
    BY <2>2, <2>3
<1>4. CASE SendStep
  BY <1>4 DEF SendStep, Step
<1>5. CASE SendTest
  BY <1>5 DEF SendTest, Ask, Sent, NotSent
<1>6. CASE SendRequest
  BY <1>6 DEF SendRequest, Turn, Ask, Sent, NotSent, SendReset
<1>7. CASE SendQos0
  BY <1>7 DEF SendQos0, Turn, Sent
<1>8. CASE RecvAnswer
  BY <1>8 DEF RecvAnswer, Turn, Heard, RecvReset
<1>9. CASE RecvPingres
  BY <1>9 DEF RecvPingres, Turn, Heard, RecvReset, Sent
<1>10. CASE RecvPubrec
  BY <1>10 DEF RecvPubrec, Turn, Heard, RecvReset, SendReset, Sent, NotSent
<1>11. CASE RecvQos0
  BY <1>11 DEF RecvQos0, Turn, Heard, RecvReset
<1>12. CASE RecvAcknowledged
  BY <1>12 DEF RecvAcknowledged, Turn, Heard, RecvReset, SendReset, Sent,
               NotSent
<1>13. CASE LinkDies
  BY <1>13 DEF LinkDies
<1>14. CASE UNCHANGED vars
  BY <1>14 DEF vars
<1>15. QED
  BY <1>1, <1>2, <1>3, <1>4, <1>5, <1>6, <1>7, <1>8, <1>9, <1>10,
     <1>11, <1>12, <1>13, <1>14 DEF Next, Tick, Mqttmain

LEMMA TypeCorrect == Spec => []TypeInv
<1>1. Init => TypeInv
  BY HeartbeatAssumption DEF Init, TypeInv, Ranges, CountersOK, None
<1>2. QED
  BY <1>1, TypeInvInductive, PTL DEF Spec

(* The counters and the variables of the heartbeat keep to their ranges    *)
(* (mqtt_heartbeat_t): no decrement passes zero, whatever the race does.   *)
THEOREM TypeOKHolds == Spec => []TypeOK
<1>1. Init => Flags
  BY Zenon DEF Init, Flags
<1>2. Flags /\ TypeInv => TypeOK
  BY Zenon DEF Flags, TypeInv, Ranges, TypeOK
<1>3. QED
  BY <1>1, <1>2, FlagsInductive, TypeCorrect, PTL DEF Spec

-----------------------------------------------------------------------------
(* Where the tick stands, what is left on recv_counter makes up for the    *)
(* seconds since the last packet that reset it.                            *)
RecvBudget ==
    /\ pc # "recv" => silent + recv_counter <= 2 * K
    /\ pc = "recv" => silent + reg <= 2 * K + 1

LEMMA RecvBudgetInductive ==
    TypeInv /\ RecvBudget /\ [Next]_vars => RecvBudget'
<1> USE HeartbeatAssumption DEF TypeInv, Ranges, CountersOK, RecvBudget, None
<1> SUFFICES ASSUME TypeInv, RecvBudget, [Next]_vars PROVE RecvBudget'
  OBVIOUS
<1>1. CASE Second
  BY <1>1 DEF Second, Older, Age, InTime
<1>2. CASE RecvStep
  BY <1>2 DEF RecvStep, Step
<1>3. CASE RecvTest
  BY <1>3 DEF RecvTest
<1>4. CASE SendStep
  BY <1>4 DEF SendStep, Step
<1>5. CASE SendTest
  BY <1>5 DEF SendTest, Ask, Sent, NotSent
<1>6. CASE SendRequest
  BY <1>6 DEF SendRequest, Turn, Ask, Sent, NotSent, SendReset
<1>7. CASE SendQos0
  BY <1>7 DEF SendQos0, Turn, Sent
<1>8. CASE RecvAnswer
  BY <1>8 DEF RecvAnswer, Turn, Heard, RecvReset
<1>9. CASE RecvPingres
  BY <1>9 DEF RecvPingres, Turn, Heard, RecvReset, Sent
<1>10. CASE RecvPubrec
  BY <1>10 DEF RecvPubrec, Turn, Heard, RecvReset, SendReset, Sent, NotSent
<1>11. CASE RecvQos0
  BY <1>11 DEF RecvQos0, Turn, Heard, RecvReset
<1>12. CASE RecvAcknowledged
  BY <1>12 DEF RecvAcknowledged, Turn, Heard, RecvReset, SendReset, Sent,
               NotSent
<1>13. CASE LinkDies
  BY <1>13 DEF LinkDies
<1>14. CASE UNCHANGED vars
  BY <1>14 DEF vars
<1>15. QED
  BY <1>1, <1>2, <1>3, <1>4, <1>5, <1>6, <1>7, <1>8, <1>9, <1>10, <1>11,
     <1>12, <1>13, <1>14 DEF Next, Tick, Mqttmain

(* A link without a sign of life is given up after 2 * keep_alive seconds: *)
(* also when the tick races with the resets (mqtt_manager.c).              *)
THEOREM DetectedInTimeHolds == Spec => []DetectedInTime
<1>1. Init => RecvBudget
  BY HeartbeatAssumption DEF Init, RecvBudget
<1>2. TypeInv /\ RecvBudget => DetectedInTime
  BY HeartbeatAssumption
  DEF TypeInv, Ranges, CountersOK, RecvBudget, DetectedInTime
<1>3. QED
  BY <1>1, <1>2, TypeCorrect, RecvBudgetInductive, PTL DEF Spec

-----------------------------------------------------------------------------
(* The same of send_counter and the seconds since anything was sent.       *)
SendBudget ==
    ~failed =>
      /\ pc = "idle" /\ ~timedOut => quiet + send_counter <= K
      /\ pc = "idle" /\ timedOut => quiet <= K
      /\ pc \in {"recv", "recvtest"} => quiet + send_counter <= K + 1
      /\ pc = "send" => quiet + reg <= K + 1
      /\ pc = "sendtest" => quiet + send_counter <= K

LEMMA SendBudgetInductive ==
    TypeInv /\ SendBudget /\ [Next]_vars => SendBudget'
<1> USE HeartbeatAssumption DEF TypeInv, Ranges, CountersOK, SendBudget, None
<1> SUFFICES ASSUME TypeInv, SendBudget, [Next]_vars PROVE SendBudget'
  OBVIOUS
<1>1. CASE Second
  BY <1>1 DEF Second, Older, Age, InTime
<1>2. CASE RecvStep
  BY <1>2 DEF RecvStep, Step
<1>3. CASE RecvTest
  BY <1>3 DEF RecvTest
<1>4. CASE SendStep
  BY <1>4 DEF SendStep, Step
<1>5. CASE SendTest
  BY <1>5 DEF SendTest, Ask, Sent, NotSent
<1>6. CASE SendRequest
  BY <1>6 DEF SendRequest, Turn, Ask, Sent, NotSent, SendReset
<1>7. CASE SendQos0
  BY <1>7 DEF SendQos0, Turn, Sent
<1>8. CASE RecvAnswer
  BY <1>8 DEF RecvAnswer, Turn, Heard, RecvReset
<1>9. CASE RecvPingres
  BY <1>9 DEF RecvPingres, Turn, Heard, RecvReset, Sent
<1>10. CASE RecvPubrec
  BY <1>10 DEF RecvPubrec, Turn, Heard, RecvReset, SendReset, Sent, NotSent
<1>11. CASE RecvQos0
  BY <1>11 DEF RecvQos0, Turn, Heard, RecvReset
<1>12. CASE RecvAcknowledged
  BY <1>12 DEF RecvAcknowledged, Turn, Heard, RecvReset, SendReset, Sent,
               NotSent
<1>13. CASE LinkDies
  BY <1>13 DEF LinkDies
<1>14. CASE UNCHANGED vars
  BY <1>14 DEF vars
<1>15. QED
  BY <1>1, <1>2, <1>3, <1>4, <1>5, <1>6, <1>7, <1>8, <1>9, <1>10, <1>11,
     <1>12, <1>13, <1>14 DEF Next, Tick, Mqttmain

(* Unless a packet has failed since the last one that was sent, the client *)
(* is never quiet for longer than keep_alive seconds, also when the tick   *)
(* races with the resets.                                                  *)
THEOREM KeepsAliveHolds == Spec => []KeepsAlive
<1>1. Init => SendBudget
  BY HeartbeatAssumption DEF Init, SendBudget
<1>2. TypeInv /\ SendBudget => KeepsAlive
  BY HeartbeatAssumption
  DEF TypeInv, Ranges, CountersOK, SendBudget, KeepsAlive
<1>3. QED
  BY <1>1, <1>2, SendBudgetInductive, TypeCorrect, PTL DEF Spec

-----------------------------------------------------------------------------
(* While nothing is awaited, recv_counter is keep_alive ahead of           *)
(* send_counter, so that the next ping leaves keep_alive seconds for its   *)
(* answer; while an answer is awaited, D seconds of them are enough.       *)
Ahead(recv, send) ==
    IF unanswered = None THEN recv >= K + send
                         ELSE recv >= K - unanswered
AnswerBudget ==
    /\ alive => unanswered <= D
    /\ alive /\ ~missed /\ ~raced =>
         /\ ~timedOut
         /\ pc = "idle" => Ahead(recv_counter, send_counter)
         /\ pc = "recv" => reg = recv_counter
                           /\ Ahead(recv_counter - 1, send_counter - 1)
         /\ pc = "recvtest" => reg = recv_counter
                               /\ Ahead(recv_counter, send_counter - 1)
         /\ pc = "send" => reg = send_counter
                           /\ Ahead(recv_counter, send_counter - 1)
         /\ pc = "sendtest" => reg = send_counter
                               /\ Ahead(recv_counter, send_counter)

LEMMA AnswerBudgetInductive ==
    TypeInv /\ AnswerBudget /\ [Next]_vars => AnswerBudget'
<1> USE HeartbeatAssumption
    DEF TypeInv, Ranges, CountersOK, AnswerBudget, Ahead, None
<1> SUFFICES ASSUME TypeInv, AnswerBudget, [Next]_vars PROVE AnswerBudget'
  OBVIOUS
<1>1. CASE Second
  BY <1>1 DEF Second, Older, Age, InTime
<1>2. CASE RecvStep
  BY <1>2 DEF RecvStep, Step
<1>3. CASE RecvTest
  BY <1>3 DEF RecvTest
<1>4. CASE SendStep
  BY <1>4 DEF SendStep, Step
<1>5. CASE SendTest
  BY <1>5 DEF SendTest, Ask, Sent, NotSent
<1>6. CASE SendRequest
  BY <1>6 DEF SendRequest, Turn, Ask, Sent, NotSent, SendReset
<1>7. CASE SendQos0
  BY <1>7 DEF SendQos0, Turn, Sent
<1>8. CASE RecvAnswer
  BY <1>8 DEF RecvAnswer, Turn, Heard, RecvReset
<1>9. CASE RecvPingres
  BY <1>9 DEF RecvPingres, Turn, Heard, RecvReset, Sent
<1>10. CASE RecvPubrec
  BY <1>10 DEF RecvPubrec, Turn, Heard, RecvReset, SendReset, Sent, NotSent
<1>11. CASE RecvQos0
  BY <1>11 DEF RecvQos0, Turn, Heard, RecvReset
<1>12. CASE RecvAcknowledged
  BY <1>12 DEF RecvAcknowledged, Turn, Heard, RecvReset, SendReset, Sent,
               NotSent
<1>13. CASE LinkDies
  BY <1>13 DEF LinkDies
<1>14. CASE UNCHANGED vars
  BY <1>14 DEF vars
<1>15. QED
  BY <1>1, <1>2, <1>3, <1>4, <1>5, <1>6, <1>7, <1>8, <1>9, <1>10, <1>11,
     <1>12, <1>13, <1>14 DEF Next, Tick, Mqttmain

(* As long as no reset comes amid a tick, the tick never gives up a        *)
(* connection whose broker answers within D < keep_alive seconds, unless   *)
(* a ping or another request has failed since the broker was heard.        *)
THEOREM NoSpuriousTimeoutHolds == Spec => []NoSpuriousTimeout
<1>1. Init => AnswerBudget
  BY HeartbeatAssumption DEF Init, AnswerBudget, Ahead, None
<1>2. AnswerBudget => NoSpuriousTimeout
  BY DEF AnswerBudget, NoSpuriousTimeout
<1>3. TypeInv /\ AnswerBudget /\ [Next]_vars => AnswerBudget'
  BY AnswerBudgetInductive
<1>4. QED
  BY <1>1, <1>2, <1>3, TypeCorrect, PTL DEF Spec
-----------------------------------------------------------------------------
(* The other way round than RecvBudget, as long as no tick has overwritten *)
(* a reset: recv_counter is no further down than the seconds of silence.   *)
SilenceBudget ==
    ~raced =>
      /\ pc = "recv" => reg = recv_counter /\ silent + reg >= 2 * K + 1
      /\ pc = "recvtest" => reg = recv_counter
      /\ pc # "recv" => silent + recv_counter >= 2 * K
      /\ timedOut => silent >= 2 * K

LEMMA SilenceBudgetInductive ==
    TypeInv /\ SilenceBudget /\ [Next]_vars => SilenceBudget'
<1> USE HeartbeatAssumption
    DEF TypeInv, Ranges, CountersOK, SilenceBudget, None
<1> SUFFICES ASSUME TypeInv, SilenceBudget, [Next]_vars PROVE SilenceBudget'
  OBVIOUS
<1>1. CASE Second
  BY <1>1 DEF Second, Older, Age, InTime
<1>2. CASE RecvStep
  BY <1>2 DEF RecvStep, Step
<1>3. CASE RecvTest
  BY <1>3 DEF RecvTest
<1>4. CASE SendStep
  BY <1>4 DEF SendStep, Step
<1>5. CASE SendTest
  BY <1>5 DEF SendTest, Ask, Sent, NotSent
<1>6. CASE SendRequest
  BY <1>6 DEF SendRequest, Turn, Ask, Sent, NotSent, SendReset
<1>7. CASE SendQos0
  BY <1>7 DEF SendQos0, Turn, Sent
<1>8. CASE RecvAnswer
  BY <1>8 DEF RecvAnswer, Turn, Heard, RecvReset
<1>9. CASE RecvPingres
  BY <1>9 DEF RecvPingres, Turn, Heard, RecvReset, Sent
<1>10. CASE RecvPubrec
  BY <1>10 DEF RecvPubrec, Turn, Heard, RecvReset, SendReset, Sent, NotSent
<1>11. CASE RecvQos0
  BY <1>11 DEF RecvQos0, Turn, Heard, RecvReset
<1>12. CASE RecvAcknowledged
  BY <1>12 DEF RecvAcknowledged, Turn, Heard, RecvReset, SendReset, Sent,
               NotSent
<1>13. CASE LinkDies
  BY <1>13 DEF LinkDies
<1>14. CASE UNCHANGED vars
  BY <1>14 DEF vars
<1>15. QED
  BY <1>1, <1>2, <1>3, <1>4, <1>5, <1>6, <1>7, <1>8, <1>9, <1>10, <1>11,
     <1>12, <1>13, <1>14 DEF Next, Tick, Mqttmain

(* The tick gives a connection up only after 2 * keep_alive seconds without *)
(* a packet that resets recv_counter, unless a tick overwrote its reset.    *)
THEOREM TimeoutMeansSilenceHolds == Spec => []TimeoutMeansSilence
<1>1. Init => SilenceBudget
  BY HeartbeatAssumption DEF Init, SilenceBudget
<1>2. SilenceBudget => TimeoutMeansSilence
  BY DEF SilenceBudget, TimeoutMeansSilence
<1>3. QED
  BY <1>1, <1>2, SilenceBudgetInductive, TypeCorrect, PTL DEF Spec
=============================================================================
