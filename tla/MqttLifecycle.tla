---------------------------- MODULE MqttLifecycle ----------------------------
(***************************************************************************)
(* The life of one MQTT object, from the malloc to the free of the example *)
(* (mqtt.c): what wiced_mqtt_init, connect and deinit set up and take      *)
(* down, while Mqttmain closes the connection and the worker thread's      *)
(* timer and TCP callbacks use it.  MqttSystem has each of these as one    *)
(* step of a connection; here they are the calls of the RTOS and of the    *)
(* TCP library that they consist of, and any thread may run between two.   *)
(*                                                                         *)
(* The application is the user at the console: any command may follow any  *)
(* other, a connect a connect or a disconnect that was not carried out     *)
(* yet.  The frames, the session and TLS are left out.                     *)
(***************************************************************************)
EXTENDS Integers, Sequences

CONSTANTS
    QueueSize,     \* WICED_MQTT_QUEUE_SIZE, 10 in the code
    MaxConnects,   \* bounds: calls of wiced_mqtt_connect,
    MaxDiscs,      \* calls of wiced_mqtt_disconnect,
    MaxDrops       \* links lost

ASSUME LifecycleAssumption ==
    /\ QueueSize \in Nat \ {0}
    /\ {MaxConnects, MaxDiscs, MaxDrops} \subseteq Nat

VARIABLES
    mem,           \* the object's memory: "none", "live", "freed"
    net_init_ok,   \* of mqtt_connection_t, malloc'd and not initialised
    ready,         \* what is initialised, created, registered of Resources
    link,          \* the socket is connected
    queue,         \* socket->queue
    app,           \* where the console's thread is: "idle", or in a call
    main,          \* where Mqttmain is; "gone" before and after
    reason,        \* what Mqttmain closes the connection for
    online,        \* the latest connect succeeded, and neither it nor a
                   \* later event told the application otherwise
    (* history *)
    ended,         \* the reason of the latest DISCONNECTED, or "none"
    leaked,        \* a socket was created over one that exists
    misled,        \* offline was reported, or returned, with a socket there
    again,         \* connect was called online
    hasty,         \* connect was called before a disconnect was carried out
    timedOut,      \* the heartbeat has given a connection up
    connects, discs, drops

appView == <<online, ended>>
history == <<leaked, misled, again, hasty, timedOut>>
counts == <<connects, discs, drops>>
vars == <<mem, net_init_ok, ready, link, queue, app, main, reason, appView,
          history, counts>>

Resources == {"semaphore", "queue", "socket", "callbacks", "timer"}
EventKinds == {"SEND_CONNECT", "SEND_DISCONNECT", "RECEIVE", "DISCONNECT"}
AppSteps == {"idle", "tcp_connect", "register", "request", "unregister",
             "hang_up", "delete_socket", "delete_thread", "deinit_queue",
             "free"}
MainSteps == {"gone", "idle", "put_disconnect", "unregister", "hang_up",
              "delete_socket", "report"}

TypeOK ==
    /\ mem \in {"none", "live", "freed"}
    /\ ready \in SUBSET Resources
    /\ queue \in Seq(EventKinds) /\ Len(queue) <= QueueSize
    /\ app \in AppSteps /\ main \in MainSteps
    /\ reason \in {"none", "asked", "lost"}
    /\ ended \in {"none", "asked", "lost", "timeout"}
    /\ {net_init_ok, link, online} \subseteq BOOLEAN
    /\ {leaked, misled, again, hasty, timedOut} \subseteq BOOLEAN
    /\ connects \in 0..MaxConnects /\ discs \in 0..MaxDiscs
    /\ drops \in 0..MaxDrops

Init ==
    /\ mem = "none" /\ net_init_ok \in BOOLEAN
    /\ ready = {} /\ link = FALSE /\ queue = <<>>
    /\ app = "idle" /\ main = "gone" /\ reason = "none"
    /\ online = FALSE /\ ended = "none"
    /\ leaked = FALSE /\ misled = FALSE /\ timedOut = FALSE
    /\ again = FALSE /\ hasty = FALSE
    /\ connects = 0 /\ discs = 0 /\ drops = 0

-----------------------------------------------------------------------------
(* The calls the three threads have in common.                             *)

QueueFull == Len(queue) = QueueSize
(* Mutant: the queue has no limit. *)
PushAlways(e) == queue' = Append(queue, e)
(* wiced_rtos_push_to_queue, WICED_NO_WAIT *)
Push(e) == queue' = IF QueueFull THEN queue ELSE Append(queue, e)

(* The parts of mqtt_network_deinit, which the application's thread runs   *)
(* in mqtt_core_deinit and Mqttmain in mqtt_connection_deinit.  Each is    *)
(* harmless to what is not there.                                          *)
UnregisterCallbacks == ready' = ready \ {"callbacks"} /\ UNCHANGED link
HangUp              == link' = FALSE /\ UNCHANGED ready
DeleteSocket        == ready' = ready \ {"socket"} /\ link' = FALSE

(* The application is told, or not, that it is offline.                    *)
Offline(told) == misled' = (misled \/ (told /\ "socket" \in ready))

-----------------------------------------------------------------------------
(* The application: the console's thread runs one command at a time.       *)
AppGoes(from, to) == app = from /\ app' = to

(* mqtt_init: malloc, mqtt_core_init. *)
CoreInit ==
    /\ mem = "none" /\ mem' = "live"
    /\ ready' = {"semaphore", "queue"}
    /\ main' = "idle"
    /\ UNCHANGED <<net_init_ok, link, queue, app, reason, appView, history,
                   counts>>

(* A request for DISCONNECT waits, or Mqttmain is closing the connection.  *)
Disconnecting ==
    \/ main \notin {"gone", "idle"}
    \/ \E i \in 1..Len(queue) : queue[i] = "SEND_DISCONNECT"

(* wiced_mqtt_connect, at any time, up to net_init_ok: the semaphore is    *)
(* initialised once more, a socket is created, also over one that is       *)
(* there and connected, whose callbacks the TCP library may keep.          *)
Connect ==
    /\ AppGoes("idle", "tcp_connect")
    /\ mem = "live" /\ connects < MaxConnects
    /\ connects' = connects + 1
    /\ \E kept \in {ready, ready \ {"callbacks"}} :
          ready' = kept \cup {"semaphore", "socket"}
    /\ leaked' = (leaked \/ "socket" \in ready)
    /\ again' = (again \/ online) /\ hasty' = (hasty \/ Disconnecting)
    /\ link' = FALSE /\ net_init_ok' = TRUE
    /\ ended' = "none"
    /\ UNCHANGED <<mem, queue, main, reason, online, misled, timedOut, discs,
                   drops>>

(* A socket cannot be created: the application is told that the broker is  *)
(* not connected, whatever connection there was.                           *)
CreateSocketFails ==
    /\ app = "idle" /\ mem = "live" /\ connects < MaxConnects
    /\ connects' = connects + 1
    /\ ready' = ready \cup {"semaphore"}
    /\ online' = FALSE /\ Offline(TRUE)
    /\ UNCHANGED <<mem, net_init_ok, link, queue, app, main, reason, ended,
                   leaked, again, hasty, timedOut, discs, drops>>

(* mqtt_network_connect; a socket Mqttmain has deleted does not connect. *)
TcpConnects ==
    /\ AppGoes("tcp_connect", "register")
    /\ "socket" \in ready /\ link' = TRUE
    /\ UNCHANGED <<mem, net_init_ok, ready, queue, main, reason, appView,
                   history, counts>>

(* Mutant: the socket stays. *)
TcpConnectFailsLeaving ==
    /\ AppGoes("tcp_connect", "idle")
    /\ online' = FALSE /\ UNCHANGED <<ready, link>>
    /\ UNCHANGED <<mem, net_init_ok, queue, main, reason, ended, history,
                   counts>>

TcpConnectFails ==
    /\ AppGoes("tcp_connect", "idle")
    /\ DeleteSocket /\ online' = FALSE
    /\ UNCHANGED <<mem, net_init_ok, queue, main, reason, ended, history,
                   counts>>

RegisterCallbacks ==
    /\ AppGoes("register", "request")
    /\ ready' = ready \cup {"callbacks"}
    /\ UNCHANGED <<mem, net_init_ok, link, queue, main, reason, appView,
                   history, counts>>

RegisterFails ==
    /\ AppGoes("register", "idle")
    /\ DeleteSocket /\ online' = FALSE
    /\ UNCHANGED <<mem, net_init_ok, queue, main, reason, ended, history,
                   counts>>

(* mqtt_connect: the request to send CONNECT. *)
RequestConnect ==
    /\ AppGoes("request", "idle")
    /\ Push("SEND_CONNECT")
    /\ online' = ~QueueFull /\ Offline(QueueFull)
    /\ UNCHANGED <<mem, net_init_ok, ready, link, main, reason, ended, leaked,
                   again, hasty, timedOut, counts>>

(* wiced_mqtt_disconnect, at any time *)
Disconnect ==
    /\ app = "idle" /\ mem = "live" /\ discs < MaxDiscs
    /\ discs' = discs + 1
    /\ Push("SEND_DISCONNECT")
    /\ UNCHANGED <<mem, net_init_ok, ready, link, app, main, reason, appView,
                   history, connects, drops>>

(* Mutant: the network is taken down only under a connection. *)
DeinitOnline ==
    /\ app = "idle" /\ mem = "live"
    /\ net_init_ok' = FALSE
    /\ app' = IF net_init_ok /\ online THEN "unregister" ELSE "delete_thread"
    /\ UNCHANGED <<mem, ready, link, queue, main, reason, appView, history,
                   counts>>

(* wiced_mqtt_deinit, at any time: mqtt_core_deinit.  The network is taken *)
(* down if net_init_ok says so; nobody clears it when a connection ends.   *)
Deinit ==
    /\ app = "idle" /\ mem = "live"
    /\ net_init_ok' = FALSE
    /\ app' = IF net_init_ok THEN "unregister" ELSE "delete_thread"
    /\ UNCHANGED <<mem, ready, link, queue, main, reason, appView, history,
                   counts>>

DeinitNetwork ==
    /\ \/ AppGoes("unregister", "hang_up") /\ UnregisterCallbacks
       \/ AppGoes("hang_up", "delete_socket") /\ HangUp
       \/ AppGoes("delete_socket", "delete_thread") /\ DeleteSocket
    /\ UNCHANGED <<mem, net_init_ok, queue, main, reason, appView, history,
                   counts>>

(* wiced_rtos_delete_thread: Mqttmain ends wherever it is. *)
DeleteThread ==
    /\ AppGoes("delete_thread", "deinit_queue")
    /\ main' = "gone"
    /\ UNCHANGED <<mem, net_init_ok, ready, link, queue, reason, appView,
                   history, counts>>

DeinitQueue ==
    /\ AppGoes("deinit_queue", "free")
    /\ ready' = ready \ {"queue"} /\ queue' = <<>>
    /\ UNCHANGED <<mem, net_init_ok, link, main, reason, appView, history,
                   counts>>

(* The semaphore is deinitialised and mqtt_deinit frees the object. *)
Free ==
    /\ AppGoes("free", "idle")
    /\ ready' = ready \ {"semaphore"} /\ mem' = "freed"
    /\ UNCHANGED <<net_init_ok, link, queue, main, reason, appView, history,
                   counts>>

-----------------------------------------------------------------------------
(* Mqttmain                                                                *)
MainGoes(from, to) == main = from /\ main' = to
Pop(kind) == queue # <<>> /\ Head(queue) = kind /\ queue' = Tail(queue)

(* Mutant: no heartbeat. *)
HandleConnectNoTimer ==
    /\ main = "idle" /\ Pop("SEND_CONNECT")
    /\ UNCHANGED <<mem, net_init_ok, ready, link, app, main, reason, appView,
                   history, counts>>

(* The heartbeat is registered; CONNECT is sent or not. *)
HandleConnect ==
    /\ main = "idle" /\ Pop("SEND_CONNECT")
    /\ ready' = ready \cup {"timer"}
    /\ UNCHANGED <<mem, net_init_ok, link, app, main, reason, appView, history,
                   counts>>

(* Mutant: the heartbeat goes on. *)
HandleDisconnectTicking ==
    /\ MainGoes("idle", "put_disconnect") /\ Pop("SEND_DISCONNECT")
    /\ UNCHANGED <<mem, net_init_ok, ready, link, app, reason, appView,
                   history, counts>>

(* The heartbeat is deregistered before DISCONNECT is sent. *)
HandleDisconnect ==
    /\ MainGoes("idle", "put_disconnect") /\ Pop("SEND_DISCONNECT")
    /\ ready' = ready \ {"timer"}
    /\ UNCHANGED <<mem, net_init_ok, link, app, reason, appView, history,
                   counts>>

PutDisconnect ==
    /\ \/ /\ link /\ "socket" \in ready
          /\ MainGoes("put_disconnect", "unregister") /\ reason' = "asked"
       \/ MainGoes("put_disconnect", "idle") /\ UNCHANGED reason
    /\ UNCHANGED <<mem, net_init_ok, ready, link, queue, app, appView, history,
                   counts>>

HandleReceive ==
    /\ main = "idle" /\ Pop("RECEIVE")
    /\ UNCHANGED <<mem, net_init_ok, ready, link, app, main, reason, appView,
                   history, counts>>

HandleLost ==
    /\ MainGoes("idle", "unregister") /\ Pop("DISCONNECT")
    /\ reason' = "lost"
    /\ UNCHANGED <<mem, net_init_ok, ready, link, app, appView, history,
                   counts>>

(* mqtt_backend_connection_close: mqtt_connection_deinit takes the network *)
(* down; net_init_ok stays as it is.                                       *)
CloseNetwork ==
    /\ \/ MainGoes("unregister", "hang_up") /\ UnregisterCallbacks
       \/ MainGoes("hang_up", "delete_socket") /\ HangUp
       \/ MainGoes("delete_socket", "report") /\ DeleteSocket
    /\ UNCHANGED <<mem, net_init_ok, queue, app, reason, appView, history,
                   counts>>

(* Mutant: it clears net_init_ok. *)
ReportClearing ==
    /\ MainGoes("report", "idle")
    /\ ready' = ready \ {"semaphore"} /\ net_init_ok' = FALSE
    /\ online' = FALSE /\ ended' = reason /\ reason' = "none"
    /\ Offline(TRUE)
    /\ UNCHANGED <<mem, link, queue, app, leaked, again, hasty, timedOut,
                   counts>>

(* The semaphore is deinitialised, and set all the same; DISCONNECTED is   *)
(* reported.                                                               *)
Report ==
    /\ MainGoes("report", "idle")
    /\ ready' = ready \ {"semaphore"}
    /\ online' = FALSE /\ ended' = reason /\ reason' = "none"
    /\ Offline(TRUE)
    /\ UNCHANGED <<mem, net_init_ok, link, queue, app, leaked, again, hasty,
                   timedOut, counts>>

-----------------------------------------------------------------------------
(* The networking worker thread.                                           *)

(* TCP notices that the link is down, if its callback is registered, or    *)
(* does not.                                                               *)
LinkDown ==
    /\ link' = FALSE
    /\ \/ "callbacks" \in ready /\ Push("DISCONNECT")
       \/ UNCHANGED queue

RecvCallback ==
    /\ link /\ "callbacks" \in ready
    /\ Push("RECEIVE")
    /\ UNCHANGED <<mem, net_init_ok, ready, link, app, main, reason, appView,
                   history, counts>>

LinkLost ==
    /\ link /\ drops < MaxDrops /\ drops' = drops + 1
    /\ LinkDown
    /\ UNCHANGED <<mem, net_init_ok, ready, app, main, reason, appView,
                   history, connects, discs>>

(* mqtt_manager_tick, receive counter at zero: disconnects and reports.    *)
(* What it does once the object is freed cannot be said.                   *)
TickTimeout ==
    /\ "timer" \in ready /\ mem = "live"
    /\ \/ link /\ drops < MaxDrops /\ drops' = drops + 1 /\ LinkDown
       \/ ~link /\ online /\ UNCHANGED <<drops, link, queue>>
    /\ online' = FALSE /\ ended' = "timeout" /\ timedOut' = TRUE
    /\ Offline(TRUE)
    /\ UNCHANGED <<mem, net_init_ok, ready, app, main, reason, leaked, again,
                   hasty, connects, discs>>

-----------------------------------------------------------------------------
InCall == \/ TcpConnects \/ TcpConnectFails \/ RegisterCallbacks
          \/ RegisterFails \/ RequestConnect
          \/ DeinitNetwork \/ DeleteThread \/ DeinitQueue \/ Free
Application == \/ CoreInit \/ Connect \/ CreateSocketFails \/ Disconnect
               \/ Deinit \/ InCall
Mqttmain == \/ HandleConnect \/ HandleDisconnect \/ PutDisconnect
            \/ HandleReceive \/ HandleLost \/ CloseNetwork \/ Report
Worker == RecvCallback \/ LinkLost \/ TickTimeout

Next == Application \/ Mqttmain \/ Worker
Spec == Init /\ [][Next]_vars

(* Commands and Mqttmain run on; the timer's counters run down on a link   *)
(* that is dead (MqttHeartbeat).  Nothing makes the user type a command.   *)
FairSpec == Spec /\ WF_vars(InCall) /\ WF_vars(Mqttmain)
                 /\ WF_vars(~link /\ TickTimeout)
-----------------------------------------------------------------------------
(* Properties                                                              *)

(* The TCP callbacks push on the object's queue, from another thread, with *)
(* no lock (mqtt_network.c:339-358): while they are registered the queue   *)
(* is there, whatever part of connect, close or deinit is being run.       *)
QueueOutlivesCallbacks == "callbacks" \in ready => "queue" \in ready

(* mqtt_core_deinit leaves neither socket nor callbacks, queue or thread   *)
(* behind, also when a connect failed half way or Mqttmain is closing the  *)
(* connection meanwhile: nothing but the timer.                            *)
NothingLeft ==
    mem = "freed" => ready \subseteq {"timer"} /\ main = "gone" /\ ~link

(* The orderly end leaves not even the timer: wiced_mqtt_disconnect called *)
(* once, no connection lost or timed out, DISCONNECTED the last report.    *)
(* It takes an application that calls no connect before the disconnect is  *)
(* carried out: the CONNECT request would come behind it in the queue, and *)
(* register the timer after the report.                                    *)
OrderlyEnd ==
    (/\ mem = "freed" /\ ended = "asked" /\ discs = 1
     /\ drops = 0 /\ ~timedOut /\ ~hasty) => ready = {}

(* mqtt_network_init creates its socket over one that exists only where    *)
(* wiced_mqtt_connect was called online, which nothing refuses, or where   *)
(* the application was misled: the heartbeat gave a connection up, which   *)
(* does not delete the socket, the queue refused the CONNECT request, no   *)
(* other socket could be created, or the DISCONNECTED it was told was      *)
(* about the connection before.                                            *)
SocketsDeleted == leaked => misled \/ again

(* The application does not stay online without a link: the event of the   *)
(* lost link or the heartbeat reports it, also when Mqttmain closed, for   *)
(* the link before, the socket that the application was just connecting.   *)
NotOnlineForEver ==
    (online /\ ~link) ~> (~online \/ link \/ discs > 0 \/ mem = "freed")

(* mqtt_api.h:39, of the object's memory: it "can be freed or reused by    *)
(* application after calling wiced_mqtt_deinit()".  The worker's timer     *)
(* still calls mqtt_manager_tick with it.                                  *)
FreedIsUnused == mem = "freed" => "timer" \notin ready
=============================================================================
