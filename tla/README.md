# Verification of ARITK

TLA+ specifications of the examples in this repository, checked with TLC and
proved with TLAPS. The repository holds example programs for Samsung's ARTIK
boards. Most are a page of device I/O; two have logic of their own, and these
are what the specifications are about: the **MQTT client library** of the
ARTIK 050 example (`example/mqtt/libraries/protocols/MQTT/`, below `M/`) and
the **terminal console** (`example/terminal_console/js_console.c`).

## Inventory

### MQTT client library (`M/`)

One `wiced_mqtt_object_t` is one connection. Three threads act on it:

- the **application** calls the functions of `mqtt_api.c`. A request takes the
  next packet id and pushes an event on the connection's queue
  (`WICED_MQTT_QUEUE_SIZE` 10, `WICED_NO_WAIT`); it returns the id, or 0 if the
  queue is full. `wiced_mqtt_connect` also opens the TCP connection and
  empties the session, in the application's thread;
- **Mqttmain** (`mqtt_thread_main`, `mqtt_network.c:214`) pops one event at a
  time and runs its handler to the end: a request to send, a TCP packet to
  read, a disconnection. Nearly all handlers end in `mqtt_manager()`;
- the **networking worker** runs the one-second tick of the heartbeat and the
  TCP callbacks, which push events.

| component | state | operations | what makes it correct |
|---|---|---|---|
| session (`mqtt_session.c`, `linked_list.h`) | `SESSION_ITEMS_SIZE` (20) items on a used and a free list | add, remove by id, lookup by id, iterate for a resend | holds what is not acknowledged, in order, nothing else |
| API and connection (`mqtt_api.c`, `mqtt_connection.c`) | `packet_id`, `session_init`, pointer to the session, socket | connect, disconnect, publish, subscribe, unsubscribe; one `put` or `get` function per packet type; callbacks to the application | events mean what the header says of them; ids identify requests |
| manager (`mqtt_manager.c`) | session, heartbeat | one case of a switch per packet type and direction | QoS 1 at least once, QoS 2 exactly once, over any number of connections |
| heartbeat (`mqtt_manager.c:60-128, 356-373`) | `send_counter`, `recv_counter`, shared by two threads without a lock | tick, resets | a timeout on a dead link and not on a live one, no silence longer than `keep_alive`, as far as packets can be sent |
| network and queue (`mqtt_network.c`) | event queue, socket, thread | init, deinit, TCP callbacks, event loop | no packet without its event; a lost link is reported |
| frame codec (`mqtt_frame.c`) | none | one put or get function per frame, `mqtt_frame_recv` | a frame says what its arguments say; what is read is what was sent, wherever TCP cuts it |
| example (`mqtt.c`) | the object's pointer | console commands | the object's memory outlives its use |

Hard behaviours: events that outlive the socket they are about; everything in
the session being sent again at each PINGRESP, whether or not the broker has
it; a queue that refuses a RECEIVE event, after which every packet is read one
event late; two frames in one TCP packet; the client's and the broker's packet
ids sharing one session; a clean session emptied while Mqttmain still works on
the connection before; the unsynchronised heartbeat counters; connect, close
and deinit taking the same socket, callbacks, queue and timer up and down from
two threads while a third calls back; commands in an order nobody wrote a test
for, a connect over a connection or behind a disconnect among them; a heartbeat
that takes a packet for sent that was not; headers put together a bit at a time in
uninitialised memory.

### Terminal console (`js_console.c`)

A thread reads the UART a character at a time and edits one line
(`console_buffer`, cursor), with a ring of lines entered before, an escape
sequence parser of one bit and one remembered character, and an echo that
redraws only the changed part of the line. `console_deinit`, in another
thread, sets `quit` and waits a second for the reader to end. It is correct if
the screen shows the line that a newline will run, the ring is a list of the
latest commands, escape sequences do not leak into each other, and after a
successful deinit nothing touches the line.

### The rest

`tcp_server.c`, `tcp_client.c` (echo over a socket), `thread.c` (a thread that
is started and joined), `ARTIK 710/SoftPWM` (a thread per pin), the PC programs
for the TCP examples, and the device examples (gpio, pwm, uart, dht11, LIS3DH,
MCP3208, MMA7360Q, ARTIK 053 basic functions). The device examples are loops
of register I/O with no state to check.

## Modules

| module | models |
|---|---|
| `MqttSession` | the session as a sequence of items; `mqtt_session.c` as operators on it |
| `MqttClient` | the client's state; the calls of the application and the steps of the worker thread |
| `MqttManager` | Mqttmain: one action for the whole handling of one event, from the pop to the callback |
| `MqttSystem` | the client composed with an external MQTT 3.1.1 broker over links that can be lost; the properties |
| `MqttDelivery` | abstract: what the library promises of each request and message; implemented by `MqttSystem` where ids stay apart |
| `MqttClaims` | what comments and headers of the library claim and the code does not do |
| `MqttLifecycle` | the object from malloc to free: socket, callbacks, queue, thread, semaphore and timer, one RTOS or TCP call at a time |
| `MqttFrame` | the octets of frames: every put and get function, and `mqtt_frame_recv` on what TCP has delivered |
| `MCMqtt` | instances for TLC |
| `SessionStore` | abstract: the session as a sequence that packets are added to and removed from |
| `MqttSessionList` | the session in memory, two circular linked lists, with the walk of a resend; implements `SessionStore` |
| `MCSessionList` | its instance for TLC |
| `MqttHeartbeat` | the heartbeat's counters in seconds, the tick in separate loads, stores and tests |
| `LineEditor` | abstract: what a line editor with a history promises |
| `JsConsole` | the console and the terminal it echoes to; implements `LineEditor` |
| `MqttSessionProofs`, `MqttSessionListProofs`, `MqttSystemProofs`, `MqttIncomingProofs`, `MqttHeartbeatProofs`, `MqttLifecycleProofs`, `MqttFrameProofs`, `JsConsoleProofs` | theorems and their proofs |

### How the MQTT state and actions correspond to the code

The variables of `MqttClient` have the names of the struct members where there
is one (`packet_id`, `session_init`, `queue`). `session` is `conn->session`
followed; `session_set` says that it points anywhere yet. `sock` is the TCP
socket: `none` before and after, `open`, or `broken`: disconnected but not
deleted, which is where `mqtt_network_disconnect` and a lost link leave it.
`rx` is what TCP has received and the client has not read, one element per
packet. `timer` says that the heartbeat is registered with the worker thread.
`online`, `ret`, `told`, `delivered` are the application's view: what the
functions returned and which events its callback got.

Each action is one call, handler or callback as a whole. `SendPublish`, for
example, is the pop of a `MQTT_SEND_EVENT` with `MQTT_EVENT_SEND_PUBLISH`
(`mqtt_network.c:231`), the session item (`mqtt_manager.c:186`), the frame, the
heartbeat's reset, and for QoS 0 the removal of the item and the PUBLISHED
event. A send (`Put`) succeeds only on an open socket and may fail on one
(packet allocation, TCP); what the handler then does is what the code does:
most ignore it, `SendDisconnect` stops, `ResendSession` stops at the first item
that fails. Session items are matched by packet id alone, as in
`mqtt_session_item_exist`, whose comparisons of types compare constants.

A frame is a type, an id and the request or message it carries. Topics,
payloads, ports, TLS, credentials and the byte layout are left out here.

Whether the application connects with a clean session is a choice of the
initial state, `clean_session`: a run covers both. `mqtt.c` always asks for
one; the library's other users need not. It calls `wiced_mqtt_connect` when it
takes itself for offline, and `wiced_mqtt_disconnect` when it takes itself for
online, rightly or not. The library asks for neither: both calls at any time are
`MqttLifecycle`'s subject.

Requests before the first successful connect are excluded: Mqttmain would
follow a session pointer that was never set (`session_set`).

The broker is external. It does what the client's code expects of an MQTT 3.1.1
server: handles frames in order, answers each, keeps a session, keeps QoS 2
ids until PUBREL, sends again on a new link what was not acknowledged, and
never has two messages with one id in flight. It may give its messages ids
that the client uses too: both count from where they like.

### What is promised

`MqttDelivery` has neither queue nor session nor link. A request is called, and
gets an id of its own or 0; the broker takes it, at QoS 2 once; its end is
reported only after that. A message is handed over, at QoS 2 once; then its
delivery is done, or a clean session drops it; after either it is not handed
over any more. `MqttSystem` implements it (`ImplementsDelivery`) with `bGot` for
what was taken and `Fate` for what became of a message, as the broker knows it.
Every action of client and broker is one of these steps or none. It is not so
where the session confuses the ids of both ends: there a message is done that
was not handed over (`claim_withheld`).

### The session's lists

In `MqttSystem` a handler is one step, the walk of a resend included, and the
session is the sequence of `MqttSession`. `MqttSessionList` goes below that:
`next`, `prev` and the contents of every item as `linked_list.h` and
`mqtt_session.c` leave them, and the walk an item at a time, with
`mqtt_session_init` from the application's thread between any two items
(`mqtt_connect` takes no lock). `ImplementsSession` shows that, read from its
head, the used list is the sequence. What the interrupted walk sends then is
the content of items that are free: `ResendsInOrder` is about the others, and
`WalkEnds` shows that it stops at the wrong list's head at the latest, whose
successor in memory, a pointer, is read as a packet type and is none.

### The heartbeat

`MqttSystem` lets a running timer ping or time out at any moment. When it can
really do so is `MqttHeartbeat`'s subject: the seconds since the last packet
that counted, since the last send, since a request without an answer. There is
one action for each kind of handler: what it sends may succeed or fail, and what
it resets it resets in both cases, as `mqtt_manager.c` ignores what its puts
return. `failed` says that a packet failed since the last one that was sent,
`missed` that one the broker has to answer failed since the broker was heard.

A reset by Mqttmain may come between the load, the store and the test of a tick,
as the code allows on a preemptive RTOS: `mqtt_manager_heartbeat_*` takes no
lock, and the compiler may test the register or load the counter again. `raced`
records that one did. `DetectedInTime` and `DeadLinkTimesOut` hold whatever
fails and whatever the race does. `KeepsAlive` holds whatever the race does,
except from a failed packet to the next one that is sent. `TimeoutMeansSilence` says what holds until a reset falls
amid a tick, and so does `NoSpuriousTimeout`, except where a ping, SUBSCRIBE,
UNSUBSCRIBE or PUBLISH failed since the broker was heard: with `keep_alive` 4,
a SUBSCRIBE that fails at second 3 moves the ping to second 7, and a live
connection is given up at second 8. TLC finds both exceptions if they are left
out. A failed PUBACK, PUBREC, PUBREL or PUBCOMP breaks `quiet <= K`, but leads
to no timeout, as it follows a packet of the broker.

### The lifecycle

`MqttSystem` opens and closes a connection in one step. `MqttLifecycle` has the
steps of which that consists: a variable `ready` holds what is initialised,
created or registered, `app` and `main` say after which call the console's
thread and Mqttmain are, and the worker thread's callbacks and timer run
between any two calls. Connects fail at each of the calls of
`mqtt_network_init`. Once the object is there, every command may be typed at any
time at the prompt: `mqtt.c:228-281` and the library refuse neither a connect
while connected, or before a disconnect was carried out, nor a disconnect while
offline; `wiced_mqtt_deinit` may come with Mqttmain in the middle of a close.
Commands without an object (`mqtt_object` is then NULL) are left out. So are
frames and the session: a CONNECT that is sent or not makes no difference to the
resources.

Read from memory that `malloc` did not clear, `net_init_ok` may start as
anything. The RTOS and TCP calls are external; taking down what is not there is
modelled as harmless, as the code itself relies on (the semaphore is
deinitialised by `mqtt_connection_deinit` and `mqtt_core_deinit`, the socket
deleted by both). So it is with a deinit or a disconnect before the first
connect, which takes down a socket, or deregisters a timer, in memory that
nothing has set up: what the libraries do with that is not in the repository,
and a crash in them would not show in `NothingLeft`. A socket that is created
over another leaves the old connection silent, and its callbacks registered or
not, which is open; only the new one is followed after that, so `NothingLeft`
says nothing of the old one's control block: `leaked` records that there is one.
A timer that is registered again is one timer. What `mqtt_manager_tick` does
with a freed object cannot be said, and `TickTimeout` stops at it: that the
timer can still be registered then is what `claim_object` shows.

Three history variables say in which order things came about. `again`:
`wiced_mqtt_connect` was called online. `hasty`: it was called before a
disconnect was carried out. `misled`: the application was told DISCONNECTED, or
`wiced_mqtt_connect` returned an error, while a socket was there. The last
happens in four ways: the heartbeat's timeout disconnects the socket and does not delete it; the queue
refuses the CONNECT request after the socket is connected; a late report is
about the connection before; a connect over a connection fails to create its
socket. `SocketsDeleted` says that nothing but a connect while online or such
misinformation ever leaves a socket to be created over. `OrderlyEnd` needs
`~hasty`: a CONNECT request queued behind the DISCONNECT request registers the
timer after the connection was closed and the end reported, and the deinit that
follows leaves it registered.

### The frames

A frame in `MqttFrame` is a sequence of pieces: octets with their values, and
texts (a topic, a payload, a client id) of a length. The remaining length, the
strings' lengths, the flags and the type are put octet by octet with the
arithmetic of the macros; texts keep an identity only. `raw` is what the buffer
holds before: every bit macro changes the octet that is there. On receipt,
`mqtt_frame_recv` has the first `n` bytes of a frame, or the frame and more
behind it, and may look at length octets that have not come: they are `raw`.
Only frames that fit into the packet of 4096 bytes are put (`FRAME_MAX`); the
code does not check.

### The console

Characters are the printable ones typed (`Typed`, one of which is the
delimiter), the control characters by name, and within an escape sequence the
classes the parser tells apart. The terminal is a line of cells and a column
after the prompt. `newline_handling_func` is always
`console_do_newline_without_command_repeat`, so the branch of
`console_do_enter` that repeats a command is dead code and left out.

## Runs

Passing:

| run | shows | bounds |
|---|---|---|
| `out` | ReportedMeansReceived, ExactlyOnceOut, NothingForgotten, FreedAfterPublished, TypeOK | two of a QoS 1 publish, a QoS 2 publish and a subscribe; clean or kept sessions; 2 connections, 1 lost link, 1 `wiced_mqtt_disconnect`, 1 failed send, queue and session of 2 |
| `in` | ExactlyOnceIn, AckedIsDelivered, NoStalePubrec, PacketsHaveEvents | messages at QoS 0, 1, 2, 2, all with one id; a QoS 0 publish and an unsubscribe beside them; clean or kept sessions; TCP packets of up to 2 frames |
| `live` | LinkLossReported, SessionDrains, ImplementsDelivery | a QoS 2 publish and a QoS 2 message, clean or kept sessions, 2 connections, 1 lost link, 1 `wiced_mqtt_disconnect` |
| `heartbeat` | DetectedInTime, KeepsAlive, NoSpuriousTimeout, TimeoutMeansSilence, DeadLinkTimesOut, TypeOK | keep_alive 4, answers within 3 s, any packet failing |
| `lifecycle` | QueueOutlivesCallbacks, NothingLeft, OrderlyEnd, SocketsDeleted, NotOnlineForEver, TypeOK | 3 connects, 1 disconnect, 2 lost links, queue of 3 |
| `frame` | LengthIsBody, FlagsSayArgs, ReadIsSent, OnlyWholeFrames, SizeIsFrame, TypeOK | lengths on both sides of 128, 16384 and 2097152; ids 1, 255, 256, 65535; memory of 0, 127, 128, 255; cuts at up to 5 bytes from either end |
| `session` | NothingLost, ResendsInOrder, WalkEnds, ImplementsSession, TypeOK | 3 items; packets of 2 types with 2 ids, so an id may be there twice |
| `console` | ScreenShowsLine, ImplementsEditor, NoStaleParam, QuietAfterDeinit, TypeOK | line of 4 bytes (3 characters and NUL), a letter and the delimiter, history of 2 |

Why these bounds are enough to be interesting: a queue of 2 is filled by two
requests, or a request and a callback, so every push is refused in some
behaviour; a session of 2 holds the two exchanges that can disturb each other;
two connections with a lost link between them give the resend, the stale
events and the retained session; one id for all the broker's messages makes
every leftover item visible. `IdMod` 8 leaves room for the ids used:
`Wrap = FALSE` keeps `packet_id` from wrapping (a wrapped id returns 0, the
value that means failure, and may meet its former self in the session). The
console's line is full after three characters, so the limit, the middle and
both ends occur, and its ring has wrapped after the third command.
`heartbeat` at K = 4, D = 3 is the tightest case of the constants' assumption
`D < K`; the proofs cover the others. In `lifecycle` the third connection
matters: with two, a DISCONNECT event of the first cannot be told from one of
the second, and the ways in which the application is misled do not combine. One
disconnect is enough, as `OrderlyEnd` and `NotOnlineForEver` speak of one and of
none; the theorems about the others are for any number. The lengths of `frame`
give remaining lengths of 127 and 128, 16383 and 16384, 2097151 and 2097152 (a
PUBLISH adds 2 or 4 to its texts); CONNECT meets 127 and 128 without
credentials. What is put fits into a packet of 4096 bytes and has one or two
length octets; what is read whole has up to three, as TCP's delivery is counted
in 16 bits (`buffer_data_len`). The frames beside 2097151 and 2097152 only occur
cut short, and refused: of the third threshold of `mqtt_frame_recv` no run and
no property says anything, only the lemma `Thresholds`.

Two frames in a TCP packet (`MaxPacket` 2) occur in `in` and `claim_reported`;
`out` has `MaxPacket` 1, so `NothingForgotten` is not checked against the frame
that is then dropped.

`LinkLossReported` and `NotOnlineForEver` leave out the behaviours in which
`wiced_mqtt_disconnect` was called, in their formulas: on a link that was lost
unnoticed, the disconnect stops the timer, cannot send DISCONNECT, and reports
nothing (`mqtt_manager.c:154-155`), so the application stays online for ever.

The runs set `CHECK_DEADLOCK FALSE` where all calls and losses allowed by the
bounds have happened, or the thread has ended, and the system has come to rest; `session` never rests and is checked for deadlock.

Fairness (`FairSpec` of `MqttSystem`): Mqttmain blocks only on an empty queue;
the TCP callbacks run as packets arrive; the worker's timer fires each second,
so a running heartbeat pings and, on a link that is dead, times out; the broker
serves an open link. Nothing is assumed of the application or of the link. In
`MqttHeartbeat` only the RTOS timer is fair, in `MqttSessionList` only the walk
Mqttmain has begun; in `MqttLifecycle` Mqttmain, a call the application is in,
and the tick on a dead link, whose counters `MqttHeartbeat` shows to run down;
no command is ever assumed to be typed. `SessionDrains` assumes that in
the end the link stays up and no RECEIVE event was refused on it: with one
refused, the last packet of a quiet connection may stay unread for ever.

Violated, each a statement of the repository that the code does not keep:

| run | statement | what happens |
|---|---|---|
| `claim_withheld` | `mqtt_manager.c:245` "This item is already received before" | a QoS 2 message whose id equals that of the client's pending request is withheld, and never delivered |
| `claim_reported` | `mqtt_common.h:61` | the second frame of a TCP packet is dropped (`mqtt_network.c:284`) |
| `claim_data` | `mqtt_api.h:105` "free/resuse them after getting event [...] WICED_MQTT_EVENT_TYPE_DISCONNECTED" | the session keeps the pointers of a request that is not acknowledged, and a later connection sends from that memory |
| `claim_object` | `mqtt_api.h:39` "can be freed or reused by application after calling wiced_mqtt_deinit()" | the heartbeat's timer is still registered and calls `mqtt_manager_tick` with the object |

Seen while reading, and not the subject of a run:

- the race: a tick may overwrite a reset of `recv_counter`, and the timeout
  comes early on a link that was heard from; a `mqtt_session_init` during a
  resend makes Mqttmain send discarded packets;
- a DISCONNECT that cannot be sent (`mqtt_manager.c:155`) leaves the connection
  open without a heartbeat, and the application is never told;
- the DISCONNECT event of a lost link, handled late, closes the connection
  opened since, or deletes the socket that `wiced_mqtt_connect` is connecting;
- QoS 0 publishes get a PUBLISHED event with an id that was never set
  (`mqtt_common.h:58` says none);
- nothing is resent on CONNACK, only on PINGRESP (the comment at
  `mqtt_manager.c:344` says otherwise); a PUBREC is not remembered when the
  session is full (`mqtt_manager.c:237`, a TODO);
- CONNECT frames carry keep alive 0 (`mqtt_frame.c:476`), so the broker does not
  watch the client; PUBACK, PUBREC and PUBCOMP are sent with the reserved bits 2
  (`mqtt_frame.c:565`); CONNACK's session present is read from bit 1
  (`mqtt_frame.c:510`), and used nowhere;
- a ping, request or acknowledgement that fails resets `send_counter` all the
  same (`mqtt_manager.c:164-165` and after each put); the next ping may come
  after `recv_counter` has run out;
- a connect while connected makes a socket over the one in use, and a connect
  behind a disconnect leaves a timer for a connection that is closed;
- `wiced_process_mqtt_request` adds the offset to data that `wiced_packet_get_data`
  has already offset (`mqtt_network.c:278`), and deletes a packet it has not set
  when there is no data (`mqtt_network.c:288`);
- the callback of `mqtt.c` sets a semaphore that is never initialised and that
  nobody waits for; `init` ignores what `wiced_mqtt_init` returns.

## Proofs

All theorems hold for every value of the constants under the named
assumptions of the modules (`SessionSizeAssumption`, `ClientAssumption`,
`HeartbeatAssumption`, `LifecycleAssumption`, `FrameAssumption`); TLC evaluates
these in every run.

**`MqttSystemProofs`**: `TypeCorrect` (`Spec => []TypeOK`),
`PacketsHaveEventsHolds` and `ReportedMeansReceivedHolds` (`~Wrap` is assumed):
what the application is told was published, subscribed or unsubscribed, the
broker has received. The
property is not inductive: an acknowledgement on its way, a PUBREC in the
broker's memory or a PUBREL in the session each lead to a report later. The
invariant `Inv` is a typing of every queue, wire and session by sets of frames
that depend on the state: an outgoing PUBLISH, SUBSCRIBE or UNSUBSCRIBE carries
the id its call returned (`Carries`), a PUBREL in any place and every
acknowledgement is about an id *known*: all requests that got it have been
taken by the broker (`Known`). Ids returned are distinct as long as
`packet_id` does not wrap. Steps only make these sets larger, so what was
allowed stays allowed; the broker's step adds the one request it takes before
it answers. The session's confusion of client and broker ids does not hurt this
property: a wrong item may be removed, a wrong one never reported.

The second half of **`MqttSystemProofs`**, and **`MqttIncomingProofs`**, are
about exactly-once delivery, which that confusion does hurt: `claim_withheld` shows a message lost
to it. Their theorems say what holds in behaviours without it:

- `IdsApart`: no request returned the packet id of a QoS 2 message of the
  broker (ids of QoS 1 messages may meet, and do in `in`);
- `HasRoom`: the session has a free slot. On a full session the code answers
  PUBREC without remembering it (`mqtt_manager.c:237`, a TODO), and sends a
  request without keeping it.

| theorem | assumes |
|---|---|
| `ExactlyOnceOutHolds` | `~Wrap`, `[]IdsApart` |
| `FreedAfterPublishedHolds` | `~Wrap`, `[]IdsApart` |
| `NothingForgottenHolds` | `~Wrap`, `[]IdsApart`, `[]HasRoom` |
| `ExactlyOnceInHolds`, `AckedIsDeliveredHolds`, `NoStalePubrecHolds`, `ImplementsDeliveryHolds` | `~Wrap`, `[]IdsApart`, `[]HasRoom` |

They are assumed of the whole behaviour, whose interleavings, losses, resends
and reconnections they leave in it. The ids of `out` and `in` are apart, and
the second request of these runs may fill a session of 2.

Outgoing, `OutInv` follows each request to the places that may have it. It is
in the queue once, and until it leaves the queue nowhere else; the session has
one item for an id, and none for a request that was reported; a QoS 2 message
that the broker has taken, and whose id it has let go of, is neither in the
session nor on the wire; behind its PUBREL no copy follows. `KeepsOut` is the
other half for `NothingForgotten`: as long as the session is kept, a request
that left the queue and was not reported has an item with its id. Incoming,
`InInv` relates for each message the broker's state, the frames in both
directions, the PUBREC item and the count of deliveries. The item and a PUBREC
on its way belong to a message that was delivered and is in flight; what was
delivered and may come again has its item; the order of PUBLISH and PUBREL
towards the client, of PUBREC and PUBCOMP towards the broker, tells frames of
an exchange from those of the one before with the same id.

`ImplementsDeliveryHolds` takes the three invariants together: every step of
the system is one step of `MqttDelivery` or a stutter. An id is new because
`packet_id` only grows; what is reported has one request, which was taken
(`Known`); a QoS 2 request is on the link for the first time if the broker does
not hold its id (`SpentOut`); a PUBLISH in transit is of a message that is
neither done nor dropped (`PublishIn`), and one without a PUBREC item was not
handed over (`SuppressIn`).

**`MqttHeartbeatProofs`**: `TypeOKHolds`, and from a slightly stronger typing
with one invariant each `DetectedInTimeHolds`, `KeepsAliveHolds`,
`NoSpuriousTimeoutHolds` and `TimeoutMeansSilenceHolds`. The invariants bound
each counter by the seconds measured: `recv_counter + silent` by `2 * K`, and
from below by `2 * K` as long as nothing raced; `send_counter + quiet` by `K`
where no packet failed since the last one sent; and for `NoSpuriousTimeout`,
while the link is alive and nothing was missed or raced, what is left on
`recv_counter` against the age of an unanswered request and what is left on
`send_counter`.

**`MqttLifecycleProofs`**: all the run's invariants. Three inductive
invariants on top of the typing. `Phases` says for each place of the
console's thread and of Mqttmain what must be there, and what cannot be there
any more: callbacks are unregistered before the queue goes, whichever thread
does it. `Misled` follows a socket that was not deleted to the report that was
wrong about it, or to the connect that was called online. `EndInv` is about an
application that is not hasty, and follows its one request for DISCONNECT from
the queue to the report.

**`MqttFrameProofs`**: all of the run's invariants, for every length of client
ids, topics and payloads with which the remaining length stays below 128^4, and
whatever the buffer held. Each frame is put once and read once, so the
invariant only says so: `GoodFrame` of every frame, `HeaderSays` of what the
client put, `GoodRead` of what was received. The work is in the frames, in four parts.

- The remaining length: `DigitsAddUp` is the arithmetic of the base 128;
  `LengthRoundTrip`: the macro that gets the length gets what the other put,
  whatever octets are around it; `TooShortIsPart`: the loop of
  `mqtt_frame_recv`, which compares the bytes received with a length that it
  knows only in part and may run beyond what has arrived, refuses exactly the
  frames of which a byte is missing. Its key is `PartsWorth`: the first digits
  are never worth more than the whole. `Thresholds`: the comparisons with 127,
  16383 and 2097151 count the digits.
- Sizes: `Size` is a fold over the pieces. That it adds up along a
  concatenation (`SizeConcat`) takes induction; `Induct` derives it from the
  pigeonhole principle of finite sets, for one set at a time, and
  `AdderTakes` unfolds the fold from its definition.
- Bits: the macros change a field of an octet and nothing beside it
  (`Halves`, `Fields`), so the octet that several of them put together is the
  one meant (`PublishOctet`, `ConnectOctet`). `FlagsSayArgs` is about the
  client's frames, the acknowledgements with the code's low bits 2 among them;
  the broker's are laid out by the external `BrokerFrame`.
- The frames: `Framed` is a header with the length of the body behind it, and
  `Behind` lets a frame grow piece by piece; then one lemma for each frame, and
  `PublishRoundTrip` for the reading of the longest.

**`MqttSessionProofs`**: the session's operators return sessions, of the same
items and no longer; what they keep of an id, of its being there once and of
the order of two items.

**`MqttSessionListProofs`**: all of the run's invariants, and
`ImplementsSessionHolds`: the two linked lists implement `SessionStore`, for
every size of the session. The pointers say only which node is next; the
invariant names what that implies: there are two sequences of slots, `u` and
`f`, in which every slot is once, and the nodes of each, with its head, are a
ring (`Ring`). Then each operation is followed pointer by pointer: `DelRing`,
`AddRing` and `AddTailRing` say what the writes of `linked_list.h` make of a
ring, `RingFrame` that they leave the other one alone, `AddStep`, `RemoveStep`
and `InitStep` what the session's operations make of both sequences.
`list_for_each` and the loop of `mqtt_session_init` are recursive functions;
what they return is given in closed form and shown to solve the recursion
(`Walked`, `AllFilled`), with `Induct` for the induction. `OnTrack`, the part
about a walk, says that it is at the entry after those it has sent, or that
`mqtt_session_init` has been called since it began; of a walk after that only
its being at a node of one of the lists is known.

**`JsConsoleProofs`**: all of the run's invariants, its action property, and
`ImplementsEditorHolds`: every step of the console is a step of `LineEditor`
under the refinement mapping, or a stutter. The invariant has four parts:
`LineInv`: the line fits, and the terminal shows it and has its column at the
cursor; `HistoryInv`: the ring's lines fit and its index is in it; `EscInv`: no
parameter outside an escape sequence; `ThreadInv`: a successful deinit found
the thread ended. What the ring, with its wrapping index, holds as a list is
the refinement mapping. The redraws are proved cell by cell, for lines and a
history of any length.

Only model-checked: `LinkLossReported`, `SessionDrains`, `DeadLinkTimesOut`,
`NotOnlineForEver` and `WalkEnds`. They hold under fairness only, and liveness
is out of the prover's reach. Every other property of the passing runs is
proved.

## Not modelled

- TLS contexts and certificates; a failure of `wiced_mqtt_init`, which the
  example ignores;
- a PUBLISH that comes in several TCP packets (a TODO in the code): the frame
  model shows that its first part is refused, `MqttSystem` has whole frames;
- `packet_id` once it has wrapped; a frame longer than its packet;
- the registration of a timer that is registered, and what a tick does with
  memory that was freed: both outside this repository;
- `mqtt.c`'s argument parsing; `hex_str_to_int`, `str_to_int`, `console_start`;
- the TCP examples: the server accepts again on a socket it has not
  disconnected, and what `wiced_tcp_accept` then does is not in the repository;
  the client and the PC programs are straight-line I/O;
- the thread and SoftPWM examples (a polled flag; delays and pin writes) and
  the device examples (register I/O).

## Plan

In this order:

1. `MqttSession`, `MqttClient`, `MqttManager`, `MqttSystem` with their runs,
   the claims, `MqttHeartbeat`, the first theorems; `JsConsole` implementing
   `LineEditor`. *Done.*
2. `MqttSessionList`: the two linked lists of `linked_list.h` with the cursor
   of an iteration, refining `MqttSession`'s sequence. *Done, with proofs.*
3. `MqttLifecycle`: init, connect, disconnect, deinit with the socket, queue,
   semaphore, thread and timer as resources. *Done, with proofs.*
4. `MqttFrame`: the octets of frames, put, cut and read. *Done, with proofs.*
5. Proofs: `ExactlyOnceOut`, `FreedAfterPublished`, `NothingForgotten`,
   `ExactlyOnceIn` and its companions, `PacketsHaveEvents`, `OrderlyEnd`, the
   console and its refinement of `LineEditor`, the frames, the lists of
   `MqttSessionList` and their refinement of `SessionStore`. *Done.*
6. `MqttDelivery`: abstract, what QoS 1 and 2 promise of a request and of a
   message from call to report, refined by `MqttSystem`. *Done, with the proof.*
