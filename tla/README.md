# TLA+ models of the Xively C client

The Xively client (`src/libxively`) is an MQTT client for small devices.
Everything runs inside `xi_events_process_*`, one handler after the other (a
build with threads adds one worker that runs the application's callbacks), and
every protocol exchange is a coroutine (`xi_coroutine.h`) that is resumed with a
status by whoever has news for it. Its hard part is therefore ORDER more than
locking: a confirmation, an answer, a timer, a file event and the end of the
connection reach a coroutine through different queues, and one status argument
has to tell it what happened.

This directory holds TLA+ modules that model that core, TLC configurations that
check them on small instances, and TLAPS proofs about the parts that hold for
every size.

## 1. Inventory

| part | state | operations | talks to |
|---|---|---|---|
| API (`xively.c`) | contexts, `connection_data` (state, session type, credentials), the scheduled `connect_handler` | create/delete context, connect, publish, subscribe, shut down, timed tasks, stop | pushes tasks into the top layer, arms the connect event in the dispatcher |
| layer API (`xi_layer_api.c`) | `layer_state`, `user_data` of each layer | the seven functions of a layer, each called through the dispatcher's queue | its two neighbours |
| control topic layer | its data, the SFT context | subscribes to the control topic after a connect; reports connection state changes to the application | logic layer, SFT |
| MQTT logic layer | `current_q0_task`, `q0_tasks_queue`, `q12_tasks_queue`, `q12_recv_tasks_queue`, `last_msg_id`, topic handlers, keepalive event; between sessions a copy of the QoS 1 queue, the handlers and the id | coroutines: connect, publish QoS 0 and 1, subscribe, keepalive, shutdown, incoming publish | codec layer, timers, the application's callbacks |
| MQTT codec layer | messages waiting to be written, the reading and the writing coroutine, parser | serialise, write header and payload, parse | IO or TLS layer |
| parser, serialiser | the parser's coroutine and the message under construction | write a message, read a buffer | codec layer |
| TLS layer | coroutines of connect, send and receive, undecoded bytes, the library's context | the seven layer functions around a TLS library, loading of certificates | codec, IO, resource manager |
| resource manager | context, open file, buffer, callback | open, read, close, each a coroutine resumed by file events | file system, dispatcher |
| IO layer | socket, what its handler waits for | connect, write, read, close | socket, dispatcher |
| event dispatcher | time events (sorted vector), call queue, sockets and files with one handler each, stop flag | execute, execute_in, restart, cancel, register fd, step, stop | everybody |
| event loop | the copy of the sockets made for select | select over the sockets, then a step | dispatcher, BSP |
| backoff (`xi_backoff_status_api.c`) | one global record: table index, class of the last status, cooldown event | update, penalty, cooldown | `xi_connect`, logic layer, dispatcher |
| timed tasks, handle table | 64 slots, state of each task, lock | add, remove, run | dispatcher, threads |
| worker thread, thread pool | a dispatcher per thread | execute on a thread, stop, join | dispatcher |
| secure file transfer | the package message, current file, checksum, revision files, firmware mailbox | update available, chunk received, download finished, restart | control topic, file system, BSP |
| file systems, memory limiter, CBOR, SenML | buffers | sequential operations | their callers |

What is hard in this code, and what must hold (PROJECT.json `hazards` has the
main ones, each at its line):

* a coroutine is resumed while it waits for something else (write confirmation,
  answer, timer, end of the connection): no assertion may fail, no callback may
  report the wrong thing or be called twice;
* the connection ends at any moment, and the end reaches each layer separately:
  nothing may be left behind, a QoS 1 message that was written must survive in
  a continued session, and nothing of the old connection may touch the new one;
* a received QoS 1 message is acknowledged before the application sees it: what
  is acknowledged must be handed over, once and in order;
* everything is started by the end of something else (the next QoS 0 task, the
  next queued message, the next ping, the next record): nothing may stall;
* handles point into a vector that is sorted by swapping, and vectors are walked
  while handlers change them: handles and walks must find what they were for;
* files are overwritten in place and their revision is recorded later: after a
  power loss the device must not believe it has what it has not;
* two threads share the dispatcher and the table of timed tasks, and the
  library is taken down while one of them still has work;
* the network cuts messages and TLS records anywhere;
* the backoff status is shared and outlives connections: its cooldown must not
  get lost.

## 2. Plan

| step | modules | state |
|---|---|---|
| 1 | `Backoff` with proofs | done |
| 2 | `Timers` (abstract), `TimeEvents` (vector), refinement and proofs | done |
| 3 | `LayerApi`, `MqttTasks`, `MqttClient`, and `Delivery` (abstract) with the refinement as a property | done |
| 4 | incoming publications in `MqttTasks` and `MqttClient`, with a server that keeps a session | done |
| 5 | `FileTransfer`: packages, power loss, restart into a new firmware | done |
| 6 | `TimedTasks` with the handle table and a second thread | done |
| 7 | `MqttWire`: serialiser against parser, at any cut of the stream | done |
| 8 | `TlsLayer` with the resource manager | done |
| 9 | `EventLoop`: several connections, files, stop, worker thread, deletion of the library | done |
| 10 | proofs about `TimedTasks` (`TableInv`, `OneEventPerTask`, `NoCallAfterCancel`), `EventLoop` (`LoopInv`, `SleepsOnlyIdle`, `CallbacksInOrder`) and the safety of `FileTransfer` | done |
| 11 | proofs about `TlsLayer` (`AssertionsHold`, `NothingLeft`, `DataInTime`) | done |
| 12 | proofs about `MqttClient`: its inductive invariant, `ClosedMeansReset`, the bookkeeping of the tasks and the refinement of `Delivery` | done |

## 3. Modules and the code

**`Backoff`** - `xi_globals.backoff_status`. `UpdateBackoffPenalty` is
`xi_update_backoff_penalty`, `ApplyCooldown` the time event's handler,
`CreateContext`/`DeleteContext` what contexts do to the reference count and the
event. The cooldown event is the number of seconds left. `MCBackoff` supplies
the tables of `xi_backoff_lut_config.h`.

**`TimeEvents`** - the sorted vector of `xi_time_event.c`: `array`, `elem_no`,
the `position` stored in each event and the `ptr_to_position` of each handle.
The loops are modelled iteration by iteration, so an invariant speaks about the
vector in the middle of an insertion too. **`Timers`** says what it is for: a
set of armed timers, the earliest one is taken first, a handle reaches exactly
the event it was armed with.

**`LayerApi`** - `xi_layer_continue_with`: the call of a neighbour's function is
put on the call queue and the CALLER's layer state changes at once.

**`MqttTasks`** - the task engine of the logic layer. The client's memory is one
record `c`; every operator takes it and returns it. A task's coroutine position
`cs` is named for what it waits for:

| `cs` | the coroutine waits for |
|---|---|
| `none` | not created yet |
| `new` | to be started |
| `sending` | its message to be written (`XI_STATE_WRITTEN` or a failure) |
| `waiting` | an answer, or its timer |
| `retry` | the one second timer before a subscription is written again |
| `freed` | nothing, it was freed |

A failed assertion is recorded in `c.abort` and ends the behaviour; freeing a
task whose timer is armed counts as one, since the timer's handler would use
freed memory. An incoming publication is a task in the queue of its own whose
coroutine waits for its PUBACK to be written (`PublishQ1Received`,
`PubackWritten`) and then calls the handler of its topic.

**`MqttClient`** - the layers' functions (`TopConnect`, `LogicPush`,
`CodecPull`, `IoCloseExternally`, ...), each an action of the `drain` phase of
the event loop, the socket's handlers in `poll`, the timers in `timers`, the
application's calls, and the server, which keeps a session: it sends again on
the next connection what was not acknowledged. The control topic layer takes its
handler out of those that are kept for a continued session, and with it every
handler of a topic that begins like it (`TakenForControl`; `InDomain` says
whether the application's topics do). An application may call the
library from its callbacks and between two iterations (`AppPhases`). Time is
abstract: an armed timer may fire in any iteration. `MCMqttClient` gives what
the server publishes.

**`Delivery`** - what the application is promised about a message, in six
statuses; `MqttClient!Status` is the refinement mapping and
`ImplementsDelivery` the property.

**`FileTransfer`** - `sft/`. A handler that changes what survives a power loss
is cut into steps (variable `step`) between which the power may go; everything
else is one action per handler. On the disk: `content`, `recorded` (the
`.xirev` files), `mailbox`; of the platform: `running`, `committed`, `trial`.
What the device sends (`up`: requests for chunks, the status of a finished file,
the FILE_INFO a session begins with) is published with QoS 0
(`control_topic_layer.c:126`) and any of it may be lost; what the server takes
the device to have (`known`) changes only when a report arrives (`Learn`). The
file that holds a revision may fail to open or to be written (`SaveFails`,
`RecordFirmwareFails`), which the code does not notice.
Chunks and checksums are abstract but not the identity: a checksum is the
sequence of what it was fed with, so that one chunk too many is noticed.
The server lists the files of a package in an order of its own (`Place`, one of
all of them), and the device takes them in the order of `xi_bsp_fwu_order_resource_downloads`,
any permutation.

**`TimedTasks`** - `xi_timed_task.c` and `xi_handle.c`: memory cells that are
reused, a table of handles, and a main thread whose wrapper works with an event
already taken from the dispatcher. A step is what is done under the lock.

**`MqttWire`** - `xi_mqtt_serialiser.c` writes a message into bytes,
`xi_mqtt_parser.c` reads them back one byte at a time (`Read`), left and entered
again at the end of every buffer (`Feed`, `Resumed`). The two bases (128 and
256) are constants.

**`TlsLayer`** - `xi_tls_layer.c` with the resource manager below its
initialisation and the io layer below its pushes and pulls; the record `t` is
the client's memory, as in `MqttTasks`. The TLS library is external: a
handshake is a sequence of units it wants to write or read, a record some units
on the socket and some buffers of plain data. The layers above are abstract.

**`EventLoop`** - `xi_event_loop.c`, `xi_event_dispatcher.c` and
`xi_thread_posix_*.c`. `loop` says where the main thread is in an iteration and
what it noted there (the copy of the sockets, the earliest event); the vectors
are sequences in which a deletion moves the last element. The layers of a
connection are reduced to what they do to the loop; a connect may fail at once
(`ConnectFails`) or be refused later.

Operators called `Mut...` are plausible mistakes in the definition that follows
them; they are not used by any specification. Replacing a definition by its
mutant must break the property that PROJECT.json names with it, which shows
that the property looks at that code.

The invariants of a module are conjunctions of named parts (`ContainerInv` of
`TypeOK`, `PositionsAgree`, `NoDanglingHandle` and `SortedWhenIdle`, and so on);
a run names the conjunction.

## 4. Runs

| run | shows |
|---|---|
| `backoff` | with the real tables: index in range and no event without a dispatcher (`BackoffInv`), the cooldown never lost while a context lives, consecutive penalties never overlap, the penalty decays |
| `time_events` | stored positions and handles right in every loop iteration, sorted between operations (`ContainerInv`), `Timers` implemented, every operation returns |
| `mqtt_session` | two connections of either session type, a QoS 0 and a QoS 1 publication, one fault (reset, failed write, refused connect...) at any point, shutdown at any point: no assertion fails, no task stalls, a closed connection leaves nothing, a reported failure is one, `Delivery` |
| `mqtt_timeouts` | two timers fire at any moment: only the known assertions fail, no queue holds a freed task, an armed timer belongs to a live task (`TasksInv`), there is always a next ping, `Delivery` |
| `mqtt_subscriptions` | a subscription of the application next to the control topic's, a server that may refuse it and publishes with QoS 1 and 0 over two connections: what the client acknowledges reaches the application, in order, no assertion fails, and `Delivery` for the subscription |
| `mqtt_liveness` | an attempt to connect ends and shutdown ends in a closed connection (`ConnectionsResolve`), a QoS 1 publication leaves the queue |
| `file_transfer` | a firmware and a file with a power loss, a file error, a lost message and an overlapping package at any point: what is recorded is on the disk, a recorded firmware is the one that runs, a finished package is complete, damage is noticed by the next report to the server as long as reports arrive, and in the end everything is the released revision and recorded as such, with the exceptions `Converges` names |
| `timed_tasks` | four tasks at two addresses in three slots, two threads: a handle finds its task, each task has one event, nothing is called after its cancellation returned, repeating tasks repeat, ended ones are freed, only the failures cost slots |
| `wire_format` | every pair of fourteen messages of all types, cut into buffers of one to seven bytes in every way: the parser hands up what the serialiser was given, and as soon as it is complete |
| `tls_layer` | two connections with a file system and a socket that may wait, two faults anywhere and a close at any time: no assertion fails and no freed memory is entered, no decoded or undecoded byte is stranded, nothing is left behind, attempts, closing and messages end |
| `event_loop` | two connections on one dispatcher and a worker thread: sockets stand still while they are walked, select sleeps only when the loop left nothing to do, callbacks come in order across both queues, every attempt and message is served, and the worker ends with an empty queue |
| `keepalive_close` | a violation: the end of a connection disables the timers of the QoS 1 queue only; a ping then fails an assertion or is freed with its timer armed |

The finding of `keepalive_close` is in PROJECT.json, with the comment of the
code it contradicts.

### Met while modelling

What follows was seen in the code, and mostly shown by TLC on an instance other
than the ones kept; the runs above exclude it by the assumption named.

MQTT client:

* A PUBACK read in the iteration in which its timer is due meets a coroutine
  that is sending again: it is taken for a failed write, and the confirmation of
  the second copy is passed to the callback as an error
  (`publish_q1_command.h:136`), although the message was acknowledged
  (`xively.h:447`). `ErrorMeansFailed` is therefore checked without timers. The
  same race with a SUBACK fails the assertion at `subscribe_command.h:89`.
* With timers, `AcknowledgedIsReceived` fails too: the PUBACK is written, the
  answer timer of the keepalive closes the layer in the same iteration, and the
  confirmation that would hand the message over is dropped.
* The handlers kept for a continued session lose those whose topic begins with
  "xi" (`control_topic_layer.c:148`): the predicate compares two characters, and
  takes an application's topics for the control topic's. In the continued
  session what the server publishes on them is acknowledged and dropped, though
  `logic_layer.c:388` says the handlers of the last session are used again.
  `AcknowledgedIsReceived` is violated in `mqtt_subscriptions` with `InDomain =
  TRUE`; the run subscribes to a topic that does not begin so.
* A QoS 1 publication made while the connection opens is queued and never
  started (`task_helpers.h:151`; `user_guide.md:309`). `PublishIn`.
* A connection that breaks while CONNECT is written is closed twice; the second
  report hits the request the application scheduled from the first one
  (`control_topic_layer.c:416`; `user_guide.md:303`). `AppPhases`.
* Two `xi_connect` calls around the first event of the scheduled one initialise
  the codec layer twice (`AppPhases` with `"timers"`).
* The 16 bit message id wraps to 0, which the layer takes for "the current
  QoS 0 task" (`task_helpers.h:132`). `IdMod`.
* A SUBACK that is lost in a continued session: messages sent before the next
  SUBACK are acknowledged and dropped, which is why `AcknowledgedIsReceived` asks
  for what came after the application was told of the subscription. A message
  without a matching subscription is acknowledged and dropped anyway; with
  several matching ones the first wins.
* The client speaks MQTT 3.1.1 (`data_helpers.h:93`), so the server sends again
  on the next connection only; within one, a second copy before the PUBACK is
  written would fail the assertion at `publish_handler.h:141`.
* QoS 0 messages may overtake earlier QoS 1 messages (they wait for no PUBACK);
  `ReceivedInOrder` is about the QoS 1 messages.
* Tasks that were not written when the connection ends are freed without a call
  of their callback (`Delivery` allows it as `dropped`); a resent publication
  whose copies are both acknowledged leaves a PUBACK without a task (ignored).
* Without the control topic (`ControlTopic = FALSE`)
  `xi_layer_default_post_connect` stops at the layer without data, and stored
  messages are never sent again.
* With a thread pool, message handlers run on the worker with a pointer to a
  subscription the main thread may free, and the result of a SUBACK goes to the
  main queue while messages go to the worker.

Secure file transfer:

* The model assumes that a package does not overlap with a download the
  application makes from a URL (`NoOverlap`), that the connection ends only when
  no such download is pending, that the platform's ordering is a permutation
  (`xi_bsp_fwu.h:97`) and that it restarts when the package is finished, as the
  cc3220sf one does. Without them a late callback of a URL download records a
  revision for a file that was since replaced, late chunks and the URL's writer
  mix in one file, and a failed ordering leaves `update_current_file` pointing
  into a freed package.
* A file that is downloaded again while its revision is on record is not safe:
  the first chunk truncates it in place, and after a power loss FILE_INFO reports
  the revision it no longer has. Two things make that happen. A package that
  overlaps with another one (`used.early`); and a lost report (`used.untold`): the
  server does not hear that a file is finished, offers it again in the next
  package, and the device does not compare the offer with its record.
  `DamageIsNoticed` therefore holds only while packages come one at a time and
  no status or FILE_INFO is lost; with either, TLC finds the damaged file the
  server is content with. The other safety properties need neither.
* `Converges` has the same two exceptions, the second one only together with a
  power loss or a file error, and a third: a file is reported as finished before
  `xi_sft_revision_set`, whose result nobody looks at
  (`xi_sft_logic_internal_methods.c:122`). When it fails the file is there, the
  server is content, and the record stays old or empty until a later session
  reports it (`used.unsaved`).
* The model assumes that the server offers nothing in a session before that
  session's FILE_INFO has arrived or is lost (`SendPackage`).
* `update_firmware` is never reset: after an earlier package, a package without
  firmware is finished with that package's freed firmware name
  (`xi_sft_logic_internal_methods.c:157`, against `xi_bsp_fwu.h:117`).
* A file of no bytes cannot be written; a rejected URL without an MQTT fallback
  waits for ever; chunk 0 twice, or a replaced package, leaks the open file and
  the checksum; a failed write of the mailbox leaves the one from before, which
  may be about another firmware (power loss at that point is modelled, the
  failed write is not); in
  `xi_on_control_message` the SUBACK case falls through to MESSAGE.

Timed tasks:

* A task cancelled by a worker between the moment its event was taken and its
  wrapper's lock fails the assertion at `xi_timed_task.c:115`. `Cancellers`
  holds the main thread only.
* A full table leaves the lock locked (`xi_timed_task.c:77`); a task that
  cannot be armed costs its slot for good. Both are actions of the model
  (`TableFull`, `ArmFails`), and the properties allow for them.
* A repeating task with no delay runs once; handle 0 is valid, although
  `xively.h:779` says handles are bigger than 0; cancelling a task that ended
  cancels the next one in its slot.

Wire format:

* The parser's `local_state` is static (`xi_mqtt_parser.c:201`), shared by all
  connections: with two of them, and a message cut at the wrong place,
  `ReceivedIsSent` fails. The run has one connection.
* An empty QoS 0 publication is handed up with the first byte of the next
  message (`xi_mqtt_parser.c:327`); `ReceivedAtOnce` says so. A string longer
  than its 16 bit length is written with the wrong length.

TLS layer:

* A close while a buffer of several records is decoded: the next pull is queued
  behind the close (`xi_tls_layer.c:441`), and the layers above get
  `close_externally` twice. The abstract layers above stop taking data then.
* Without an answering server an attempt does not end: the connection timeout of
  `xively.h:304` is armed only after the TLS handshake (`connect_command.h:105`).
* A certificate that cannot be read, or a file that cannot be closed, is
  tried again for ever (`xi_resource_manager.c:295`); an empty one fails an
  assertion. A write larger than one TLS fragment is reported as written as a
  whole.

Event loop:

* `xi_events_stop` sets a flag nobody resets: the loop cannot be resumed, which
  `xively.h:217` promises. The rest of the running step still happens.
* Time events count from the last step (`current_step`), so those armed outside
  the loop fire early by the time since then.
* Calls queued by the application or by the worker while `select` sleeps wait
  until it wakes; after a failed `select` the iteration has no step.
  `SleepsOnlyIdle` speaks of what the loop itself left.
* A fatal result of a time event stops the dispatcher for every connection.
* The last `xi_delete_context` destroys the dispatcher before the worker is
  stopped and joined (`xively.c:381-383`); a callback in progress then would use
  freed memory. The model lets the application delete only with its connections
  closed and no callback in progress.
* File handlers register and unregister while the vector of files is walked: a
  file may be passed over, or served twice, in one iteration. It is served in
  the next one (`EveryoneIsServed`).

### Bounds

* Two connections: everything that concerns the end of one connection and the
  start of the next needs two, and the state a third starts from is the state
  the second starts from (`ClosedMeansReset`, plus the saved queue).
* `MqttClient`: one message of each kind per run, besides the CONNECT, the
  control topic's subscription, pings and shutdown, which share the queues: with
  them a QoS 0 task waits behind the current one, the QoS 1 queue holds two
  tasks, and the codec's queue three messages, four when timers fire. The server
  publishes two QoS 1 messages and one of QoS 0. One fault and two timers: each
  can hit any state, and two timers let a timer meet the consequences of
  another one. `IdMod` (8, instead of 2^16) is larger than the number of ids a
  run uses, so the id does not wrap.
* `TimeEvents`: a vector of three of four events, with two handles and times up
  to 3: begin, middle and end are distinct slots and equal times occur.
* `Backoff`: `MaxRefCount` caps the reference count, which leaks when a context
  cannot be created.
* `FileTransfer`: a firmware of one chunk and a file of two, three in its last
  revision, so that there is a first, a middle and a last one; three revisions,
  one power loss, one file error, one lost message and one overlapping package.
* `TimedTasks`: four tasks in two memory cells and three slots (of 64): cells
  and slots are reused, and the table can be full.
* `MqttWire`: bases 4 and 8 (of 128 and 256), so that lengths of one and of two
  digits and string lengths with a carry stay short; buffers of 1 to 7 bytes cut
  every message at every place.
* `TlsLayer`: a handshake of five units in both directions, two records of two
  units and two buffers each, two messages, two attempts, two faults, one wait
  of the file system.
* `EventLoop`: two connections (another socket takes the place of the one that
  leaves), delays of 0 and 1, certificates of two file events each, two
  attempts, one message, one fault.

### Fairness

| module | assumed | why |
|---|---|---|
| `MqttClient` | WF of `Loop` (handlers and phases of the loop) and `Server`; SF of the socket's three events and of `ConnectHandlerFires` | the application keeps running the loop; `select` reports a socket that stays ready, but is asked only once in an iteration |
| `Backoff` | WF of `Tick`, `ApplyCooldown` | time passes and due events run |
| `TimeEvents` | WF of the loops' iterations | a thread in the critical section goes on |
| `FileTransfer` | WF of the device's handlers with whatever outcome their file operations have, of the URL download, and of the server (offer, answer, hear a report) | the device runs; the server answers what reaches it and offers what the device lacks |
| `TimedTasks` | WF of `Enter`, `Leave`, the arming of a task; SF of `Take(c)` | threads go on; an event that is due again and again is taken, since the dispatcher takes the earliest first |
| `TlsLayer` | WF of `ClientStep`, `ServerTakes`, `ServerSends` | the loop runs, the server reads and answers |
| `EventLoop` | WF of `LoopStep`, `Worker`, `ServerAnswers(c)` | both threads run, the server accepts or refuses |

Nothing is assumed about the application's calls, about faults, or about the
timers that guard against them. Deadlock is checked except in `file_transfer`,
`timed_tasks`, `wire_format`, `tls_layer` and `event_loop`, where the bounds on
what the environment does end a behaviour; their liveness properties say that
it does not end early.

## 5. Proofs

All proofs are for every value of the constants.

* `BackoffProofs`: `BackoffInv` (the index addresses an entry of both tables, no
  cooldown event outlives the dispatcher), `CooldownKept`, and `PenaltyGrows` for
  any table that doubles (`LutDoubles`, true of `XI_BACKOFF_LUT`). `BackoffInv`
  is inductive as it stands, thanks to `contexts <= globals_ref_count`: without
  it deleting a context could take the count below zero.
* `TimeEventsProofs`: `ContainerInv` and the refinement of `Timers`
  (`ImplementsTimers`), for any capacity and any set of events. The invariant
  adds where the loop cursor may be (`CursorInv`), which handle an unfinished
  insertion still owes (`HandleInv`), and that the vector without the moving
  element is sorted while the element is no smaller, or no larger, than what it
  already passed (`SortInv`). One lemma per action shows each part.
* `TimedTasksProofs`: `TableInv`, `NoCallAfterCancel` and `OneEventPerTask`, for
  any number of slots, memory cells and threads. The invariant adds that ids are
  unique among the live tasks and that a handle still being armed is not known
  to the application (`IdsInv`), that the slots of a live task's memory begin
  with the one its handle names (`SlotsInv`: after a failed arming the same
  memory can be in the table twice), and where a task's one event is: in the
  dispatcher, about to be armed, or taken by the wrapper (`EventsInv`).
  `OneEventAlways` assumes that only the main thread cancels: for a cancellation
  by a worker it is false (section 4), and so is the assertion of the code.
* `EventLoopProofs`: `LoopInv`, `SleepsOnlyIdle` and `CallbacksInOrder`, for any
  number of connections, attempts, messages and faults. `VectorInv`: each
  connection is in each vector at most once, and in the sockets exactly while
  its state has one; `WorkInv`: what the timers, the queue and the network hold
  fits the state of the connection (a connection that is being opened has one
  pending call or event, and no call of an earlier attempt is left);
  `LifeInv`: what can be left when the dispatcher is freed; `OrderInv`: the two
  queues and the callback in progress, read one after the other, tell a
  connection's life in order and end in its state; `SleepInv`: what was noted
  before select bounds every event that is armed. `LoopInv` rests on the second
  part of `WorkInv`: a socket is registered once because only one call that
  registers it exists.
* `FileTransferProofs`: `ContextInv`, `RecordedIsTrue`, `FinishedIsComplete` and
  `DamageIsNoticed`, for any number of files and revisions, files of any length,
  any number of power losses, file errors, lost messages and overlapping
  packages. The parts of the invariant that carry it:
  * `SumInv`: either only first chunks are on their way, or a checksum that can
    still come out right covers exactly what is on the disk. This is why a late
    chunk of an earlier download, a repeated one or one for another file cannot
    lead to a recorded revision that is not there;
  * `DoneInv`, `HandleInv`: a file that is done is whole, and the handle left
    open by an interrupted download is not of such a file unless the next chunk
    will close it first;
  * `FirmwareInv`, `OfferInv`: when the package is finished the firmware pointer
    is of this package; it is never reset, so the proof needs that once a
    session was offered a firmware, every later package of it contains one;
  * `TrialInv`: a firmware on trial finds its own revision in the mailbox, and
    no other file's;
  * `AloneInv`, `ReportInv`, `KnownInv`: while packages do not overlap and no
    report is lost (`Alone`), what is being downloaded or still listed is neither
    recorded nor reported in its new revision; a report on its way is true, newer
    than what the server knows and the only one about its file; and when all that
    is on its way has been heard, the server knows of everything recorded
    (`Heard`). So a file whose revision the server has, or the device has on
    record, is not being overwritten, and `DamageIsNoticed` follows. `WireInv`:
    FILE_INFO travels alone, before anything else happens in its session;
    `BehindInv`: nobody is ahead of what was released.

  The four theorems assume `Platform`: the platform restarts when a package
  with a firmware is finished, or there is no firmware at all. Without it
  `update_firmware` points into a freed package (section 4), so the theorems
  would be false.
* `TlsLayerProofs`: `AssertionsHold`, `NothingLeft` and `DataInTime`, for any
  handshake and any number of attempts, records, messages, faults and waits, and
  for a call queue of any length. None of the three is inductive: each says what
  holds of the layer's data, and what could break it waits in the queue. The
  invariant says what may be in the queue together:
  * `LayerInv`: what data exists in which state of the layer; the resource
    manager's context lives only before the connection and after its end;
  * `StartInv`, `ConnectingInv`: a call that begins something is alone in the
    queue, and while the layer connects, nobody above has been told and no
    message is there: so `connect_handler` is never entered twice, and the push
    assertion (nothing to write yet) holds when the first message comes;
  * `LoadInv`: the certificate is read by one coroutine, from one answer to the
    next, or the attempt failed, or the file is being closed: this is why
    `xi_tls_layer_close_externally` keeps its data exactly until the callback;
  * `TokenInv`, `PushInv`: one buffer of the library at most is on its way to the
    socket and back, which one state (`write`) can therefore describe, although
    reading, connecting and writing share it; one message at most is with the
    layer;
  * `EndInv`: the end goes up only after it went down, and the socket is gone
    before the layer's data is;
  * `DataInv`, `EarlyInv`: undecoded data has a `pull` in the queue that asks for
    it again, and the queue tells the connection before its data and its end
    after it.

  The lemmas `QueueAppend` and `QueueTail` say what one call more or less
  changes in a queue, so that the steps do not reason about sequences.

* `MqttTasksProofs` and `MqttClientProofs` (one development in two modules):
  `ClosedMeansReset`, the parts of `TasksInv` that are not about assertions, and
  the refinement of `Delivery`, for any publications and subscriptions, any
  publications of the server, any number of connections, faults and timers, any
  width of the message id, and with or without keepalive, connection timer and
  control topic, whatever the topics are called. The inductive invariant `Inv`
  has, besides the types:
  * `Book`: a task is held in one place (a queue, the session set aside,
    `current`, or a call that will push it), is alive there, and no timer is
    armed but for a task the layer works on; the user hears of a task once, when
    it is freed; only a QoS 1 publication or a subscription that was written can
    outlive its connection;
  * `StartInv`: while a connection is set up, exactly one call or the socket
    carries it on, nothing but calls of the application waits beside it, and the
    layers below the one reached have no data yet;
  * `DataInv`, `EndInv`: a layer has data only while the one above has, and what
    belongs to the layer is gone with its data; `close_externally` reaches a
    layer only after the one below let go of its data. `ClosedMeansReset` follows
    from these two;
  * `CodecInv`: at most one message is with the socket, and it is still in the
    codec layer's queue;
  * `InternalInv`: the library's own tasks (CONNECT, ping, DISCONNECT, control
    topic) exist once;
  * `PollInv`: between two iterations the call queue holds only what the
    application pushed.

  Each handler is shown to be one of a few kinds of step: one that touches no
  task (`Stays`), one that resumes one task and gives it one verdict at most
  (`Does`, `Answers`), one that ends the connection and gives several up
  (`Ends`), and one that takes a session up again (`Begins`). These say what
  becomes of the `Fate` of every task, and `Status` is that fate (`StatusIs`), so
  each kind is a step of `Delivery` or a stutter (`MapsNext`). That success is
  reported only for what the server has rests on `MailInv`: every message, on its
  way down, on the network and back up, names the task that has its id, and an
  answer is one to a message that was delivered. `ClientKeepsPromises` draws the
  conclusion for the application: success means delivered, and in a continued
  session a written message stays stored until its callback is called.

  Two hypotheses are part of the theorems. `"timers" \notin AppPhases`: the
  application does not call the library from a timed task; otherwise it can call
  `xi_connect` after `connect_handler` fired and before the logic layer's init
  ran, and the codec layer is initialised twice (section 4). `[]IdsLeft`, of the
  refinement only: `last_msg_id` has not reached the end of its 16 bits. After
  it has, ids are used again, and a late answer may be taken for that of another
  task (section 4). TLC confirms that `IdsLeft` holds throughout the three runs
  that check the refinement. As in the model, a behaviour is followed up to the
  first failed assertion; which assertions can fail is TLC's.

  `PromisesKept` is about `Delivery` alone: whatever behaves like it keeps its two
  promises.

Assumed besides are only the named ASSUMEs of the modules: the tables are
non-empty sequences of naturals of the same length, bounds are naturals, null
values are not events, handles, cells or files, there are finitely many cells,
connections and files, a revision has at least one chunk, and one of the files
at most is the firmware (`xi_bsp_fwu_is_this_firmware` recognises one name).
TLC evaluates them in the runs. Every inductive invariant was checked by TLC
before it was proved, on the instances of the runs and on smaller variants.

Only model-checked:

* all liveness properties (`Converges`, `EveryoneIsServed`, `ConnectionsResolve`
  and so on): fairness and `ENABLED` are outside the prover's reach;
* `MqttWire`: that the parser reads what the serialiser wrote, at any cut of the
  stream, is an induction over the bytes of a message and the digits of its
  length, for each type of message;
* of `MqttClient`: `NoAssertionFails`, `NoTaskStalls`, `ErrorMeansFailed`,
  `AcknowledgedIsReceived` and `ReceivedInOrder`, which the runs check while no
  timer fires, and `KeepaliveContinues`. Each of them needs one more invariant, that
  each message on its way down belongs to a coroutine which still waits for its
  confirmation, and in which order; and the runs' assumption about where the
  application publishes.

The library's induction theorems cannot be used (they take an operator), but an
induction over natural numbers can be had from the least element of a set, which
is proved from well-founded sets in `LeastOne`. That is how the results of `Kept`
and `Resent`, two recursive functions over queues, are proved.

## 6. Not modelled

* The vector of `xi_io_timeouts.c`: it holds the connect task's timer exactly
  while that is armed, so the task's `timeout` stands for it. A read prolongs the
  timer, which means nothing where time is abstract.
* File systems (`fs/`), CBOR and the control messages' encoding, the memory
  limiter, SenML, generated code and board support packages: sequential
  conversions or calls of a platform without protocol state of their own. What
  the models need of them (a file operation that fails or waits, a message that
  arrives) is an action of the module that uses them.
* Failed allocations; builds without assertions (a behaviour ends at the first
  failed one).
* In `MqttClient`: the chain is the one of `XI_NO_TLS_LAYER` (`TlsLayer` has the
  other one); header and payload of a publication are one write; the parser
  accepts every message (`MqttWire` has it; after a parse error the waiting
  messages are freed but only the reading coroutine is reset,
  `codec_layer.c:346`); the backoff's delay fires in some later iteration, and
  the refusal of publications and subscriptions while the backoff class is not
  NONE (`xively.c:752`, `xively.c:1048`) is left out: the refused call changes
  nothing.
* In `EventLoop`: more than one worker (the library creates one; with several, a
  handler posted to a worker that already ended would be lost), `on_empty`
  (never set), and the layers' own work.
* A QoS 0 task that goes back to the end of its queue while the connection
  opens (`task_helpers.c:50`) is modelled, but no property forbids the change of
  order it makes.

The library itself (`src/libxively`) is about a quarter of the repository's
implementation lines; the others are vendored imports (protobuf-c, cmocka, TLS
libraries), examples and demos, tests, experimental ports and board support,
which hold none of the client's logic.
