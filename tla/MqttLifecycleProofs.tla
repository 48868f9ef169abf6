------------------------ MODULE MqttLifecycleProofs ------------------------
(***************************************************************************)
(* What holds of the life of an MQTT object for every size of its queue    *)
(* and any number of connections, disconnects and lost links.              *)
(***************************************************************************)
EXTENDS MqttLifecycle, TLAPS

Connecting == {"tcp_connect", "register", "request"}
NetworkGone == "socket" \notin ready /\ "callbacks" \notin ready /\ ~link

(* What is left at each place of mqtt_core_deinit.  net_init_ok tells the  *)
(* truth when it is FALSE; Mqttmain takes things down and adds none.       *)
Phases ==
    /\ mem # "live" => /\ app = "idle" /\ main = "gone" /\ ~link
                       /\ ready \subseteq {"timer"}
    /\ app \in Connecting => net_init_ok
    /\ app = "idle" /\ ~net_init_ok => NetworkGone
    /\ app = "hang_up" => "callbacks" \notin ready
    /\ app = "delete_socket" => "callbacks" \notin ready /\ ~link
    /\ app \in {"delete_thread", "deinit_queue", "free"} => NetworkGone
    /\ app \in {"deinit_queue", "free"} => main = "gone"
    /\ mem = "live" => (app = "free") = ("queue" \notin ready)

(* The application is offline with a socket only if it was misled.         *)
Misled ==
    /\ leaked => misled \/ again
    /\ app = "idle" /\ ~online /\ "socket" \in ready => misled

QueueOK == queue \in Seq(EventKinds) /\ Len(queue) <= QueueSize

LEMMA LinkDownTyped ==
    ASSUME QueueOK, LinkDown PROVE QueueOK' /\ link' = FALSE
<1>1. QueueOK'
  BY LifecycleAssumption
  DEF QueueOK, EventKinds, LinkDown, Push, QueueFull
<1>2. QED
  BY <1>1 DEF LinkDown

LEMMA TypeInductive == TypeOK /\ [Next]_vars => TypeOK'
<1> USE LifecycleAssumption DEF TypeOK, Resources, EventKinds, AppSteps,
        MainSteps, appView, history, counts
<1> SUFFICES ASSUME TypeOK, [Next]_vars PROVE TypeOK'
  OBVIOUS
<1>1. CASE CoreInit
  BY <1>1 DEF CoreInit
<1>2. CASE Connect
  <2>1. /\ leaked' \in BOOLEAN /\ again' \in BOOLEAN /\ hasty' \in BOOLEAN
        /\ net_init_ok' \in BOOLEAN /\ link' \in BOOLEAN
    BY <1>2, Zenon DEF Connect
  <2>2. online' = online /\ misled' = misled /\ timedOut' = timedOut
    BY <1>2 DEF Connect
  <2>3. /\ ({net_init_ok, link, online} \subseteq BOOLEAN)'
        /\ ({leaked, misled, again, hasty, timedOut} \subseteq BOOLEAN)'
    BY <2>1, <2>2, Zenon
  <2>4. ready' \in SUBSET Resources
    BY <1>2 DEF Connect
  <2>5. /\ mem' = mem /\ queue' = queue /\ main' = main /\ reason' = reason
        /\ ended' = "none" /\ app' = "tcp_connect"
        /\ discs' = discs /\ drops' = drops /\ connects' \in 0..MaxConnects
    BY <1>2 DEF Connect, AppGoes
  <2>6. QED
    BY <2>3, <2>4, <2>5
<1>3. CASE CreateSocketFails
  <2>1. misled' \in BOOLEAN
    BY <1>3, Zenon DEF CreateSocketFails, Offline
  <2>2. /\ ({net_init_ok, link, online} \subseteq BOOLEAN)'
        /\ ({leaked, misled, again, hasty, timedOut} \subseteq BOOLEAN)'
    BY <1>3, <2>1, Zenon DEF CreateSocketFails
  <2>3. ready' \in SUBSET Resources /\ connects' \in 0..MaxConnects
    BY <1>3 DEF CreateSocketFails
  <2>4. UNCHANGED <<mem, queue, app, main, reason, ended, discs, drops>>
    BY <1>3 DEF CreateSocketFails
  <2>5. QED
    BY <2>2, <2>3, <2>4
<1>4. CASE TcpConnects
  BY <1>4 DEF TcpConnects, AppGoes
<1>5. CASE TcpConnectFails
  BY <1>5 DEF TcpConnectFails, AppGoes, DeleteSocket
<1>6. CASE RegisterCallbacks
  BY <1>6 DEF RegisterCallbacks, AppGoes
<1>7. CASE RegisterFails
  BY <1>7 DEF RegisterFails, AppGoes, DeleteSocket
<1>8. CASE RequestConnect
  BY <1>8 DEF RequestConnect, AppGoes, Push, Offline, QueueFull
<1>9. CASE Disconnect
  BY <1>9 DEF Disconnect, Push, QueueFull
<1>10. CASE Deinit
  BY <1>10 DEF Deinit
<1>11. CASE DeinitNetwork
  BY <1>11
  DEF DeinitNetwork, AppGoes, UnregisterCallbacks, HangUp, DeleteSocket
<1>12. CASE DeleteThread
  BY <1>12 DEF DeleteThread, AppGoes
<1>13. CASE DeinitQueue
  BY <1>13 DEF DeinitQueue, AppGoes
<1>14. CASE Free
  BY <1>14 DEF Free, AppGoes
<1>15. CASE HandleConnect
  BY <1>15 DEF HandleConnect, Pop
<1>16. CASE HandleDisconnect
  BY <1>16 DEF HandleDisconnect, MainGoes, Pop
<1>17. CASE PutDisconnect
  BY <1>17 DEF PutDisconnect, MainGoes
<1>18. CASE HandleReceive
  BY <1>18 DEF HandleReceive, Pop
<1>19. CASE HandleLost
  BY <1>19 DEF HandleLost, MainGoes, Pop
<1>20. CASE CloseNetwork
  BY <1>20
  DEF CloseNetwork, MainGoes, UnregisterCallbacks, HangUp, DeleteSocket
<1>21. CASE Report
  BY <1>21 DEF Report, MainGoes, Offline
<1>22. CASE RecvCallback
  BY <1>22 DEF RecvCallback, Push, QueueFull
<1>23. CASE LinkLost
  <2>1. QueueOK' /\ link' = FALSE
    <3>1. QueueOK
      BY DEF QueueOK
    <3>2. QED
      BY <1>23, <3>1, LinkDownTyped DEF LinkLost
  <2>2. drops' \in 0..MaxDrops
    BY <1>23 DEF LinkLost
  <2>3. QED
    BY <1>23, <2>1, <2>2 DEF LinkLost, QueueOK
<1>24. CASE TickTimeout
  <2>1. QueueOK' /\ link' = FALSE /\ drops' \in 0..MaxDrops
    <3>1. CASE link /\ drops < MaxDrops /\ drops' = drops + 1 /\ LinkDown
      <4>1. QueueOK
        BY DEF QueueOK
      <4>2. QueueOK' /\ link' = FALSE
        BY <3>1, <4>1, LinkDownTyped
      <4>3. QED
        BY <3>1, <4>2
    <3>2. CASE ~link /\ UNCHANGED <<drops, link, queue>>
      BY <3>2 DEF QueueOK
    <3>3. QED
      BY <1>24, <3>1, <3>2 DEF TickTimeout
  <2>2. misled' \in BOOLEAN
    BY <1>24, Zenon DEF TickTimeout, Offline
  <2>3. QED
    BY <1>24, <2>1, <2>2 DEF TickTimeout, QueueOK
<1>25. CASE UNCHANGED vars
  BY <1>25 DEF vars
<1>26. QED
  BY <1>1, <1>2, <1>3, <1>4, <1>5, <1>6, <1>7, <1>8, <1>9, <1>10, <1>11,
     <1>12, <1>13, <1>14, <1>15, <1>16, <1>17, <1>18, <1>19, <1>20, <1>21,
     <1>22, <1>23, <1>24, <1>25
  DEF Next, Application, InCall, Mqttmain, Worker

LEMMA PhasesInductive == TypeOK /\ Phases /\ [Next]_vars => Phases'
<1> USE DEF TypeOK, Phases, Connecting, NetworkGone, Resources, AppSteps,
        MainSteps, appView, history, counts
<1> SUFFICES ASSUME TypeOK, Phases, [Next]_vars PROVE Phases'
  OBVIOUS
<1>1. CASE CoreInit
  BY <1>1 DEF CoreInit
<1>2. CASE Connect
  BY <1>2 DEF Connect, AppGoes
<1>3. CASE CreateSocketFails
  BY <1>3 DEF CreateSocketFails, Offline
<1>4. CASE TcpConnects
  BY <1>4 DEF TcpConnects, AppGoes
<1>5. CASE TcpConnectFails
  BY <1>5 DEF TcpConnectFails, AppGoes, DeleteSocket
<1>6. CASE RegisterCallbacks
  BY <1>6 DEF RegisterCallbacks, AppGoes
<1>7. CASE RegisterFails
  BY <1>7 DEF RegisterFails, AppGoes, DeleteSocket
<1>8. CASE RequestConnect
  BY <1>8 DEF RequestConnect, AppGoes, Push, Offline, QueueFull
<1>9. CASE Disconnect
  BY <1>9 DEF Disconnect, Push, QueueFull
<1>10. CASE Deinit
  BY <1>10 DEF Deinit
<1>11. CASE DeinitNetwork
  BY <1>11
  DEF DeinitNetwork, AppGoes, UnregisterCallbacks, HangUp, DeleteSocket
<1>12. CASE DeleteThread
  BY <1>12 DEF DeleteThread, AppGoes
<1>13. CASE DeinitQueue
  BY <1>13 DEF DeinitQueue, AppGoes
<1>14. CASE Free
  BY <1>14 DEF Free, AppGoes
<1>15. CASE HandleConnect
  BY <1>15 DEF HandleConnect, Pop
<1>16. CASE HandleDisconnect
  BY <1>16 DEF HandleDisconnect, MainGoes, Pop
<1>17. CASE PutDisconnect
  BY <1>17 DEF PutDisconnect, MainGoes
<1>18. CASE HandleReceive
  BY <1>18 DEF HandleReceive, Pop
<1>19. CASE HandleLost
  BY <1>19 DEF HandleLost, MainGoes, Pop
<1>20. CASE CloseNetwork
  BY <1>20
  DEF CloseNetwork, MainGoes, UnregisterCallbacks, HangUp, DeleteSocket
<1>21. CASE Report
  BY <1>21 DEF Report, MainGoes, Offline
<1>22. CASE RecvCallback
  BY <1>22 DEF RecvCallback, Push, QueueFull
<1>23. CASE LinkLost
  BY <1>23 DEF LinkLost, LinkDown, Push, QueueFull
<1>24. CASE TickTimeout
  BY <1>24 DEF TickTimeout, Offline, LinkDown, Push, QueueFull
<1>25. CASE UNCHANGED vars
  BY <1>25 DEF vars
<1>26. QED
  BY <1>1, <1>2, <1>3, <1>4, <1>5, <1>6, <1>7, <1>8, <1>9, <1>10, <1>11,
     <1>12, <1>13, <1>14, <1>15, <1>16, <1>17, <1>18, <1>19, <1>20, <1>21,
     <1>22, <1>23, <1>24, <1>25
  DEF Next, Application, InCall, Mqttmain, Worker

LEMMA MisledInductive ==
    TypeOK /\ Phases /\ Misled /\ [Next]_vars => Misled'
<1> USE
  DEF TypeOK, Phases, Misled, Connecting, NetworkGone, Resources, AppSteps,
        MainSteps, appView, history, counts
<1> SUFFICES ASSUME TypeOK, Phases, Misled, [Next]_vars
             PROVE Misled'
  OBVIOUS
<1>1. CASE CoreInit
  BY <1>1 DEF CoreInit
<1>2. CASE Connect
  BY <1>2 DEF Connect, AppGoes
<1>3. CASE CreateSocketFails
  BY <1>3 DEF CreateSocketFails, Offline
<1>4. CASE TcpConnects
  BY <1>4 DEF TcpConnects, AppGoes
<1>5. CASE TcpConnectFails
  BY <1>5 DEF TcpConnectFails, AppGoes, DeleteSocket
<1>6. CASE RegisterCallbacks
  BY <1>6 DEF RegisterCallbacks, AppGoes
<1>7. CASE RegisterFails
  BY <1>7 DEF RegisterFails, AppGoes, DeleteSocket
<1>8. CASE RequestConnect
  BY <1>8 DEF RequestConnect, AppGoes, Push, Offline, QueueFull
<1>9. CASE Disconnect
  BY <1>9 DEF Disconnect, Push, QueueFull
<1>10. CASE Deinit
  BY <1>10 DEF Deinit
<1>11. CASE DeinitNetwork
  BY <1>11
  DEF DeinitNetwork, AppGoes, UnregisterCallbacks, HangUp, DeleteSocket
<1>12. CASE DeleteThread
  BY <1>12 DEF DeleteThread, AppGoes
<1>13. CASE DeinitQueue
  BY <1>13 DEF DeinitQueue, AppGoes
<1>14. CASE Free
  BY <1>14 DEF Free, AppGoes
<1>15. CASE HandleConnect
  BY <1>15 DEF HandleConnect, Pop
<1>16. CASE HandleDisconnect
  BY <1>16 DEF HandleDisconnect, MainGoes, Pop
<1>17. CASE PutDisconnect
  BY <1>17 DEF PutDisconnect, MainGoes
<1>18. CASE HandleReceive
  BY <1>18 DEF HandleReceive, Pop
<1>19. CASE HandleLost
  BY <1>19 DEF HandleLost, MainGoes, Pop
<1>20. CASE CloseNetwork
  BY <1>20
  DEF CloseNetwork, MainGoes, UnregisterCallbacks, HangUp, DeleteSocket
<1>21. CASE Report
  BY <1>21 DEF Report, MainGoes, Offline
<1>22. CASE RecvCallback
  BY <1>22 DEF RecvCallback, Push, QueueFull
<1>23. CASE LinkLost
  BY <1>23 DEF LinkLost, LinkDown, Push, QueueFull
<1>24. CASE TickTimeout
  BY <1>24 DEF TickTimeout, Offline, LinkDown, Push, QueueFull
<1>25. CASE UNCHANGED vars
  BY <1>25 DEF vars
<1>26. QED
  BY <1>1, <1>2, <1>3, <1>4, <1>5, <1>6, <1>7, <1>8, <1>9, <1>10, <1>11,
     <1>12, <1>13, <1>14, <1>15, <1>16, <1>17, <1>18, <1>19, <1>20, <1>21,
     <1>22, <1>23, <1>24, <1>25
  DEF Next, Application, InCall, Mqttmain, Worker

Inv == TypeOK /\ Phases /\ Misled

LEMMA InvHolds == Spec => []Inv
<1>1. Init => Inv
  <2> SUFFICES ASSUME Init PROVE Inv
    OBVIOUS
  <2>1. /\ {net_init_ok, link, online} \subseteq BOOLEAN
        /\ {leaked, misled, again, hasty, timedOut} \subseteq BOOLEAN
    BY Zenon DEF Init
  <2>2. TypeOK
    BY <2>1, LifecycleAssumption DEF Init, TypeOK, AppSteps, MainSteps
  <2>3. Phases /\ Misled
    BY DEF Init, Phases, Misled, Connecting, NetworkGone
  <2>4. QED
    BY <2>2, <2>3 DEF Inv
<1>2. Inv /\ [Next]_vars => Inv'
  BY TypeInductive, PhasesInductive, MisledInductive DEF Inv
<1>3. QED
  BY <1>1, <1>2, PTL DEF Spec

(* The object's state keeps its types, its queue its size.                 *)
THEOREM TypeOKHolds == Spec => []TypeOK
<1>1. Inv => TypeOK
  BY DEF Inv
<1>2. QED
  BY <1>1, InvHolds, PTL

(* No TCP callback ever pushes on a queue that is gone, whatever Mqttmain  *)
(* is doing to the connection when wiced_mqtt_deinit is called.            *)
THEOREM QueueOutlivesCallbacksHolds == Spec => []QueueOutlivesCallbacks
<1>1. Inv => QueueOutlivesCallbacks
  BY DEF Inv, Phases, TypeOK, NetworkGone, QueueOutlivesCallbacks
<1>2. QED
  BY <1>1, InvHolds, PTL

(* wiced_mqtt_deinit leaves nothing behind but the heartbeat's timer.      *)
THEOREM NothingLeftHolds == Spec => []NothingLeft
<1>1. Inv => NothingLeft
  BY DEF Inv, Phases, NothingLeft
<1>2. QED
  BY <1>1, InvHolds, PTL

(* A socket is created over another only for an application that calls     *)
(* connect online, or was told it is offline while it has one.             *)
THEOREM SocketsDeletedHolds == Spec => []SocketsDeleted
<1>1. Inv => SocketsDeleted
  BY DEF Inv, Misled, SocketsDeleted
<1>2. QED
  BY <1>1, InvHolds, PTL

-----------------------------------------------------------------------------
(* The orderly end                                                         *)

Orderly == drops = 0 /\ ~timedOut /\ discs <= 1 /\ ~hasty
ToEnd == {"SEND_CONNECT", "SEND_DISCONNECT"}
Asked == \E i \in 1..Len(queue) : queue[i] = "SEND_DISCONNECT"
Ending == main \notin {"gone", "idle"}

(* Behind the request for DISCONNECT neither it nor CONNECT is asked for   *)
(* again.                                                                  *)
AskedLast ==
    \A i, j \in 1..Len(queue) :
        i < j /\ queue[i] = "SEND_DISCONNECT" => queue[j] \notin ToEnd

(* Nothing is left to be done that registers the timer.                    *)
TimerGone == "timer" \notin ready /\ \A i \in 1..Len(queue) :
                                         queue[i] \notin ToEnd

(* The one request for DISCONNECT is made, waits in the queue, is being    *)
(* carried out, and was: until then no connect is called, and after it     *)
(* nothing is asked for as long as DISCONNECTED is the last report.        *)
EndInv == Orderly =>
    /\ \A i \in 1..Len(queue) : queue[i] # "DISCONNECT"
    /\ discs = 0 => ~Asked /\ ~Ending /\ ended # "asked"
    /\ Asked => AskedLast /\ ~Ending /\ app \notin Connecting
    /\ Ending => TimerGone /\ app \notin Connecting
    /\ ended = "asked" => TimerGone /\ ~Ending /\ app \notin Connecting

(* An event is pushed behind the others, or refused. *)
LEMMA PushedQueue ==
    ASSUME QueueOK, NEW e \in EventKinds, Push(e)
    PROVE  /\ Len(queue') \in {Len(queue), Len(queue) + 1}
           /\ \A i \in 1..Len(queue) : i \in 1..Len(queue')
                                       /\ queue'[i] = queue[i]
           /\ \A i \in 1..Len(queue') : i > Len(queue) => queue'[i] = e
BY DEF QueueOK, Push, QueueFull

(* What Mqttmain takes is the first. *)
LEMMA PoppedQueue ==
    ASSUME QueueOK, NEW e, Pop(e)
    PROVE  /\ Len(queue') = Len(queue) - 1 /\ Len(queue) \in Nat \ {0}
           /\ queue[1] = e
           /\ \A i \in 1..Len(queue') : i + 1 \in 1..Len(queue)
                                        /\ queue'[i] = queue[i + 1]
BY DEF QueueOK, Pop

(* A request that is left was there, and is still the last. *)
LEMMA PoppedAsked ==
    ASSUME QueueOK, NEW e, Pop(e)
    PROVE  /\ AskedLast => AskedLast'
           /\ Asked' => Asked
           /\ \A i \in 1..Len(queue') :
                \E j \in 1..Len(queue) : queue'[i] = queue[j]
<1>1. AskedLast => AskedLast'
  <2> SUFFICES ASSUME AskedLast, NEW i \in 1..Len(queue'),
                      NEW j \in 1..Len(queue'), i < j,
                      queue'[i] = "SEND_DISCONNECT"
               PROVE  queue'[j] \notin ToEnd
    BY DEF AskedLast
  <2>1. /\ i + 1 \in 1..Len(queue) /\ queue[i + 1] = "SEND_DISCONNECT"
        /\ j + 1 \in 1..Len(queue) /\ queue'[j] = queue[j + 1]
        /\ i + 1 < j + 1
    BY PoppedQueue
  <2>2. QED
    BY <2>1 DEF AskedLast
<1>2. QED
  BY <1>1, PoppedQueue DEF Asked

(* Every step keeps the invariant of the orderly end. *)
LEMMA EndInductive == Inv /\ EndInv /\ [Next]_vars => EndInv'
<1> USE DEF EndInv, Orderly, Asked, AskedLast, Ending, TimerGone, ToEnd,
        Connecting, MainSteps, appView, history, counts
<1> SUFFICES ASSUME Inv, EndInv, [Next]_vars PROVE EndInv'
  OBVIOUS
<1>0. QueueOK /\ discs \in Nat /\ drops \in Nat
  BY LifecycleAssumption DEF Inv, TypeOK, QueueOK
<1>1. CASE CoreInit
  BY <1>1 DEF CoreInit
<1>2. CASE Connect
  <2>1. Asked \/ Ending => hasty'
    BY <1>2 DEF Connect, Disconnecting
  <2>2. QED
    BY <1>0, <1>2, <2>1 DEF Connect, AppGoes
<1>3. CASE CreateSocketFails
  BY <1>3 DEF CreateSocketFails, Offline
<1>4. CASE TcpConnects
  BY <1>4 DEF TcpConnects, AppGoes
<1>5. CASE TcpConnectFails
  BY <1>5 DEF TcpConnectFails, AppGoes, DeleteSocket
<1>6. CASE RegisterCallbacks
  BY <1>6 DEF RegisterCallbacks, AppGoes
<1>7. CASE RegisterFails
  BY <1>7 DEF RegisterFails, AppGoes, DeleteSocket
<1>8. CASE RequestConnect
  BY <1>0, <1>8, PushedQueue
  DEF RequestConnect, AppGoes, EventKinds
<1>9. CASE Disconnect
  BY <1>0, <1>9, PushedQueue DEF Disconnect, EventKinds
<1>10. CASE Deinit
  BY <1>10 DEF Deinit
<1>11. CASE DeinitNetwork
  BY <1>11
  DEF DeinitNetwork, AppGoes, UnregisterCallbacks, HangUp, DeleteSocket
<1>12. CASE DeleteThread
  BY <1>12 DEF DeleteThread, AppGoes
<1>13. CASE DeinitQueue
  BY <1>13 DEF DeinitQueue, AppGoes
<1>14. CASE Free
  BY <1>14 DEF Free, AppGoes
<1>15. CASE HandleConnect
  <2>1. 1 \in 1..Len(queue) /\ queue[1] = "SEND_CONNECT" /\ ~Ending
    BY <1>0, <1>15, PoppedQueue DEF HandleConnect
  <2>2. Orderly => ended # "asked"
    BY <2>1
  <2>3. UNCHANGED <<main, appView, history, counts, app>>
    BY <1>15 DEF HandleConnect
  <2>4. /\ AskedLast => AskedLast'
        /\ Asked' => Asked
        /\ \A i \in 1..Len(queue') :
             \E j \in 1..Len(queue) : queue'[i] = queue[j]
    BY <1>0, <1>15, PoppedAsked DEF HandleConnect
  <2> HIDE DEF Asked, AskedLast
  <2>5. QED
    BY <2>1, <2>2, <2>3, <2>4
<1>16. CASE HandleDisconnect
  BY <1>0, <1>16, PoppedQueue DEF HandleDisconnect, MainGoes
<1>17. CASE PutDisconnect
  BY <1>17 DEF PutDisconnect, MainGoes
<1>18. CASE HandleReceive
  <2>1. UNCHANGED <<main, ready, appView, history, counts, app>>
    BY <1>18 DEF HandleReceive
  <2>2. /\ AskedLast => AskedLast'
        /\ Asked' => Asked
        /\ \A i \in 1..Len(queue') :
             \E j \in 1..Len(queue) : queue'[i] = queue[j]
    BY <1>0, <1>18, PoppedAsked DEF HandleReceive
  <2> HIDE DEF Asked, AskedLast
  <2>3. QED
    BY <2>1, <2>2
<1>19. CASE HandleLost
  BY <1>0, <1>19, PoppedQueue DEF HandleLost, MainGoes
<1>20. CASE CloseNetwork
  BY <1>20
  DEF CloseNetwork, MainGoes, UnregisterCallbacks, HangUp, DeleteSocket
<1>21. CASE Report
  BY <1>21 DEF Report, MainGoes
<1>22. CASE RecvCallback
  BY <1>0, <1>22, PushedQueue DEF RecvCallback, EventKinds
<1>23. CASE LinkLost
  BY <1>0, <1>23 DEF LinkLost
<1>24. CASE TickTimeout
  BY <1>24 DEF TickTimeout
<1>25. CASE UNCHANGED vars
  BY <1>25 DEF vars
<1>26. QED
  BY <1>1, <1>2, <1>3, <1>4, <1>5, <1>6, <1>7, <1>8, <1>9, <1>10, <1>11,
     <1>12, <1>13, <1>14, <1>15, <1>16, <1>17, <1>18, <1>19, <1>20, <1>21,
     <1>22, <1>23, <1>24, <1>25
  DEF Next, Application, InCall, Mqttmain, Worker

(* It holds in every run. *)
LEMMA EndInvHolds == Spec => []EndInv
<1>1. Init => EndInv
  BY DEF Init, EndInv, Asked, Ending
<1>2. QED
  BY <1>1, InvHolds, EndInductive, PTL DEF Spec

(* wiced_mqtt_disconnect called once, no connection lost or timed out, no  *)
(* connect called before the disconnect was carried out, and DISCONNECTED  *)
(* the last report: wiced_mqtt_deinit then leaves nothing, as Mqttmain     *)
(* deregistered the timer and had no CONNECT to send after that.           *)
THEOREM OrderlyEndHolds == Spec => []OrderlyEnd
<1>1. Inv /\ EndInv => OrderlyEnd
  <2>1. Inv => (mem = "freed" => ready \subseteq {"timer"})
    BY DEF Inv, Phases
  <2>2. EndInv => (ended = "asked" /\ discs = 1 /\ drops = 0 /\ ~timedOut
                   /\ ~hasty => "timer" \notin ready)
    BY DEF EndInv, Orderly, TimerGone
  <2>3. QED
    BY <2>1, <2>2 DEF OrderlyEnd
<1>2. QED
  BY <1>1, InvHolds, EndInvHolds, PTL
=============================================================================
