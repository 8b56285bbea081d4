------------------------------ MODULE EventLoop ------------------------------
(***************************************************************************)
(* The event loop (xi_event_loop.c) and the dispatcher it turns            *)
(* (xi_event_dispatcher.c), with several connections on one dispatcher and *)
(* the worker thread that runs the application's callbacks in a build with *)
(* threads (xi_thread_posix_*.c).  The main thread repeats: note the       *)
(* sockets, run the handlers of files, select, run the handlers of ready   *)
(* sockets, run the due time events, run the queued calls.  The worker     *)
(* takes callbacks from a queue of its own and calls the library from      *)
(* them.  What is done under a dispatcher's lock is one step.              *)
(*                                                                         *)
(* The layers of a connection are reduced to what they do to the loop:     *)
(* register and unregister descriptors, arm a time event, queue a call.    *)
(***************************************************************************)
EXTENDS Integers, Sequences, FiniteSets

CONSTANTS
  Conns,        \* contexts, each with one connection; also its descriptors
  Delays,       \* penalties of the backoff, in seconds
  FileSteps,    \* file events until the certificates are loaded
  DefaultIdle,  \* XI_DEFAULT_IDLE_TIMEOUT
  MaxIdle,      \* XI_MAX_IDLE_TIMEOUT
  MaxNow,       \* bound on the clock
  MaxConnects,  \* bound on the calls of xi_connect
  MaxData,      \* bound on the messages of servers
  MaxFaults     \* bound on failures

ASSUME LoopAssumption ==
  /\ IsFiniteSet(Conns)
  /\ Delays \subseteq Nat /\ FileSteps \in Nat \ {0}
  /\ {DefaultIdle, MaxIdle, MaxNow, MaxConnects, MaxData, MaxFaults} \subseteq Nat

VARIABLES
  loop,     \* where the main thread is in an iteration, and what it noted there
  now,      \* the clock
  step,     \* current_step: the clock when the last step began
  sockets,  \* handles_and_socket_fd
  files,    \* handles_and_file_fd
  timers,   \* time_events_container
  queue,    \* call_queue
  conn,     \* what the layers of a connection do
  peer,     \* what is to be noticed on a connection's socket
  worker,   \* the worker thread, its dispatcher and its queue
  told,     \* what the application was last told of a connection
  life,     \* stop flag, deleted contexts, freed dispatcher, failed assertions
  used      \* counts of the bounded inputs

vars == <<loop, now, step, sockets, files, timers, queue, conn, peer, worker, told, life, used>>
Dispatcher == <<sockets, files, timers, queue>>

Phases == {"app", "files", "select", "walk", "timers", "calls", "destroy", "join", "gone"}
Elements(s) == {s[i] : i \in DOMAIN s}
Least(S, default) == IF S = {} THEN default ELSE CHOOSE x \in S : \A y \in S : x <= y
NoCall == [do |-> "none"]

\* The variables of an iteration, before it notes anything; failed: its select
\* failed.
Iteration(at, failed) ==
  [at |-> at, i |-> 1, noted |-> <<>>, ready |-> {}, due |-> -1, updated |-> FALSE,
   wake |-> 0, failed |-> failed]

Init ==
  /\ loop = Iteration("app", FALSE)
  /\ now = 0 /\ step = 0
  /\ sockets = <<>> /\ files = <<>> /\ timers = {} /\ queue = <<>>
  /\ conn = [c \in Conns |-> [state |-> "closed", left |-> 0]]
  /\ peer = [c \in Conns |-> "quiet"]
  /\ worker = [at |-> "run", last |-> FALSE, queue |-> <<>>, call |-> NoCall, stop |-> FALSE]
  /\ told = [c \in Conns |-> "closed"]
  /\ life = [stop |-> FALSE, deleted |-> FALSE, freed |-> FALSE, abort |-> FALSE]
  /\ used = [connects |-> 0, data |-> 0, faults |-> 0]

-----------------------------------------------------------------------------
(***************************************************************************)
(* Queues and vectors.                                                     *)
(***************************************************************************)
Work(do, c, by) == [do |-> do, conn |-> c, by |-> by]

\* Mutant: the newest call is taken first.
MutPosted(q, w) == <<w>> \o q

\* xi_evtd_execute
Posted(q, w) == Append(q, w)

\* xi_evttd_execute: the handle of a callback names the worker.
Callback(do, c) == worker' = [worker EXCEPT !.queue = Posted(@, [do |-> do, conn |-> c])]

Index(v, c) == CHOOSE i \in DOMAIN v : v[i] = c

\* Mutant: the last element leaves, whichever was to be deleted.
MutUnregistered(v, c) == IF c \in Elements(v) THEN SubSeq(v, 1, Len(v) - 1) ELSE v

\* xi_evtd_unregister_fd: the last element takes the place of the deleted one.
Unregistered(v, c) ==
  IF c \in Elements(v)
  THEN SubSeq([v EXCEPT ![Index(v, c)] = v[Len(v)]], 1, Len(v) - 1)
  ELSE v

\* The dispatcher of a library without contexts is freed memory.
MainDispatcherUsed == life' = [life EXCEPT !.abort = @ \/ life.freed]

-----------------------------------------------------------------------------
(***************************************************************************)
(* The application: on the main thread between two iterations, or in a     *)
(* callback on the worker.  It asks for a connection only when it was told *)
(* that the last attempt is over.                                          *)
(***************************************************************************)
AppOn(by) == \/ by = "app" /\ loop.at = "app"
             \/ by = "worker" /\ worker.at = "calling"

Unconnected(c) == conn[c].state \in {"closed", "cancelled"}

\* xi_connect: the event of the attempt is armed, counted from the last step.
AppConnects(c, by) ==
  /\ AppOn(by) /\ used.connects < MaxConnects
  /\ Unconnected(c) /\ told[c] = "closed"
  /\ \E d \in Delays :
       /\ step + d <= MaxNow
       /\ timers' = timers \cup {[conn |-> c, due |-> step + d, by |-> by]}
  /\ conn' = [conn EXCEPT ![c].state = "scheduled"]
  /\ used' = [used EXCEPT !.connects = @ + 1]
  /\ MainDispatcherUsed
  /\ UNCHANGED <<loop, now, step, sockets, files, queue, peer, worker, told>>

\* xi_shutdown_connection of an attempt whose event has not come
AppCancels(c, by) ==
  /\ AppOn(by)
  /\ \E t \in timers : t.conn = c /\ timers' = timers \ {t}
  /\ conn' = [conn EXCEPT ![c].state = "cancelled"]
  /\ MainDispatcherUsed
  /\ UNCHANGED <<loop, now, step, sockets, files, queue, peer, worker, told, used>>

\* xi_shutdown_connection of an open connection
AppShutsDown(c, by) ==
  /\ AppOn(by) /\ conn[c].state = "open" /\ told[c] = "opened"
  /\ queue' = Posted(queue, Work("close", c, by))
  /\ conn' = [conn EXCEPT ![c].state = "closing"]
  /\ MainDispatcherUsed
  /\ UNCHANGED <<loop, now, step, sockets, files, timers, peer, worker, told, used>>

\* xi_events_stop
AppStops(by) ==
  /\ AppOn(by) /\ ~life.stop
  /\ life' = [life EXCEPT !.stop = TRUE, !.abort = @ \/ life.freed]
  /\ UNCHANGED <<loop, now, step, Dispatcher, conn, peer, worker, told, used>>

\* xi_delete_context of the last context, with every connection closed and no
\* callback in progress: its handle is deleted, then the dispatcher is destroyed.
AppDeletes ==
  /\ loop.at = "app" /\ \A c \in Conns : Unconnected(c)
  /\ worker.at # "calling"
  /\ life' = [life EXCEPT !.deleted = TRUE, !.freed = TRUE]
  /\ loop' = [loop EXCEPT !.at = "destroy"]
  /\ UNCHANGED <<now, step, Dispatcher, conn, peer, worker, told, used>>

-----------------------------------------------------------------------------
(***************************************************************************)
(* An iteration of xi_event_loop_with_evtds.                               *)
(***************************************************************************)
Goes(at) == loop' = [loop EXCEPT !.at = at]

\* The sockets are copied for select, and the earliest time event is noted.
BeginIteration ==
  /\ loop.at = "app" /\ ~life.stop
  /\ loop' = [loop EXCEPT !.at = "files", !.i = 1, !.noted = sockets, !.updated = FALSE,
                          !.due = Least({t.due : t \in timers}, -1)]
  /\ UNCHANGED <<now, step, Dispatcher, conn, peer, worker, told, life, used>>

\* A file is always ready.  The handler of the resource manager takes the file
\* out of the vector that is being walked, and enters it again for its next
\* operation or queues the call that waits for it.
FileHandler ==
  /\ loop.at = "files" /\ loop.i <= Len(files)
  /\ LET c    == files[loop.i]
         rest == Unregistered(files, c)
     IN  \/ /\ conn[c].left > 1
            /\ files' = Append(rest, c) /\ UNCHANGED queue
         \/ /\ conn[c].left = 1
            /\ files' = rest /\ queue' = Posted(queue, Work("connect", c, "loop"))
  /\ conn' = [conn EXCEPT ![files[loop.i]].left = @ - 1]
  /\ loop' = [loop EXCEPT !.i = @ + 1, !.updated = TRUE]
  /\ UNCHANGED <<now, step, sockets, timers, peer, worker, told, life, used>>

Clamped(x) == IF x > MaxIdle THEN MaxIdle ELSE x

\* Mutant: the files that were updated are forgotten.
MutTimeout == Clamped(IF loop.due = -1 THEN DefaultIdle
                      ELSE IF loop.due >= now THEN loop.due - now ELSE 0)

Timeout ==
  IF loop.updated THEN 0
  ELSE Clamped(IF loop.due = -1 THEN DefaultIdle
               ELSE IF loop.due >= now THEN loop.due - now ELSE 0)

EndFiles ==
  /\ loop.at = "files" /\ loop.i > Len(files)
  /\ loop' = [loop EXCEPT !.at = "select", !.i = 1, !.due = -1, !.wake = now + Timeout]
  /\ UNCHANGED <<now, step, Dispatcher, conn, peer, worker, told, life, used>>

Ready == {c \in Elements(loop.noted) : peer[c] # "quiet"}

TimePasses ==
  /\ loop.at = "select" /\ Ready = {} /\ now < loop.wake /\ now < MaxNow
  /\ now' = now + 1
  /\ UNCHANGED <<loop, step, Dispatcher, conn, peer, worker, told, life, used>>

\* xi_bsp_io_net_select returns with the sockets that are ready, or late.
Select ==
  /\ loop.at = "select" /\ (Ready # {} \/ now >= loop.wake \/ now = MaxNow)
  /\ loop' = [loop EXCEPT !.at = "walk", !.updated = FALSE, !.wake = 0, !.ready = Ready]
  /\ UNCHANGED <<now, step, Dispatcher, conn, peer, worker, told, life, used>>

\* Select fails: the iteration ends without a step.
SelectFails ==
  /\ loop.at = "select" /\ used.faults < MaxFaults
  /\ loop' = Iteration("app", TRUE)
  /\ used' = [used EXCEPT !.faults = @ + 1]
  /\ UNCHANGED <<now, step, Dispatcher, conn, peer, worker, told, life>>

\* The handlers of a socket: the check of the connection, or the reading.  They
\* call nothing but queue the call of their layer, whose state changes at once.
SocketHandler(c) ==
  \/ /\ peer[c] \in {"connected", "data"} /\ conn[c].state \in {"connecting", "open"}
     /\ queue' = Posted(queue, Work(IF peer[c] = "data" THEN "pull" ELSE "opened", c, "loop"))
     /\ peer' = [peer EXCEPT ![c] = "quiet"]
     /\ conn' = [conn EXCEPT ![c].state = "open"]
     /\ UNCHANGED sockets
  \/ /\ peer[c] = "reset" /\ conn[c].state \in {"connecting", "open"}
     /\ queue' = Posted(queue, Work("close", c, "loop"))
     /\ conn' = [conn EXCEPT ![c].state = "closing"]
     /\ UNCHANGED <<peer, sockets>>
  \/ /\ conn[c].state = "closing"             \* the layer is not operational
     /\ UNCHANGED <<queue, conn, peer, sockets>>

\* Mutant: a connection that was reset is closed within its handler.
MutSocketHandler(c) ==
  \/ peer[c] # "reset" /\ SocketHandler(c)
  \/ /\ peer[c] = "reset" /\ conn[c].state \in {"connecting", "open"}
     /\ sockets' = Unregistered(sockets, c)
     /\ queue' = Posted(queue, Work("close", c, "loop"))
     /\ conn' = [conn EXCEPT ![c].state = "closing"] /\ UNCHANGED peer

HandleSocket(c) == SocketHandler(c)

WalkSocket ==
  /\ loop.at = "walk" /\ loop.i <= Len(sockets)
  /\ LET c == sockets[loop.i] IN
     /\ \/ c \in loop.ready /\ HandleSocket(c)
        \/ c \notin loop.ready /\ UNCHANGED <<sockets, queue, conn, peer>>
     /\ life' = [life EXCEPT !.abort = @ \/ loop.i > Len(loop.noted) \/ loop.noted[loop.i] # c]
  /\ loop' = [loop EXCEPT !.i = @ + 1]
  /\ UNCHANGED <<now, step, files, timers, worker, told, used>>

EndWalk ==
  /\ loop.at = "walk" /\ loop.i > Len(sockets)
  /\ loop' = Iteration("timers", loop.failed) /\ step' = now
  /\ UNCHANGED <<now, Dispatcher, conn, peer, worker, told, life, used>>

-----------------------------------------------------------------------------
(***************************************************************************)
(* xi_evtd_step: the due time events, earliest first, then the calls.      *)
(***************************************************************************)
Due == {t \in timers : t.due <= step /\ \A u \in timers : t.due <= u.due}

\* The event of an attempt: the layers are initialised.
TimeEvent ==
  /\ loop.at = "timers"
  /\ \E t \in Due :
       /\ timers' = timers \ {t}
       /\ queue' = Posted(queue, Work("init", t.conn, "loop"))
  /\ UNCHANGED <<loop, now, step, sockets, files, conn, peer, worker, told, life, used>>

\* A handler runs out of memory: that is fatal, and the dispatcher is stopped.
TimeEventFails ==
  /\ loop.at = "timers" /\ used.faults < MaxFaults
  /\ \E t \in Due :
       /\ timers' = timers \ {t}
       /\ conn' = [conn EXCEPT ![t.conn].state = "closed"]
  /\ life' = [life EXCEPT !.stop = TRUE]
  /\ used' = [used EXCEPT !.faults = @ + 1]
  /\ UNCHANGED <<loop, now, step, sockets, files, queue, peer, worker, told>>

EndTimers ==
  /\ loop.at = "timers" /\ Due = {} /\ Goes("calls")
  /\ UNCHANGED <<now, step, Dispatcher, conn, peer, worker, told, life, used>>

\* The certificates of a connection are loaded through the file vector.
InitCalled(c) ==
  /\ files' = Append(files, c)
  /\ conn' = [conn EXCEPT ![c] = [state |-> "loading", left |-> FileSteps]]
  /\ UNCHANGED <<sockets, peer, worker>>

\* xi_io_net_layer_connect up to its yield
ConnectCalled(c) ==
  /\ sockets' = Append(sockets, c)
  /\ conn' = [conn EXCEPT ![c].state = "connecting"]
  /\ UNCHANGED <<files, peer, worker>>

\* xi_io_net_layer_close_externally, and the layers above tell the application
CloseCalled(c) ==
  /\ sockets' = Unregistered(sockets, c)
  /\ conn' = [conn EXCEPT ![c].state = "closed"]
  /\ peer' = [peer EXCEPT ![c] = "quiet"]
  /\ Callback("closed", c) /\ UNCHANGED files

\* xi_evtd_single_step
CallQueued ==
  /\ loop.at = "calls" /\ queue # <<>>
  /\ queue' = Tail(queue)
  /\ LET c == Head(queue).conn IN
     \/ Head(queue).do = "init" /\ InitCalled(c)
     \/ Head(queue).do = "connect" /\ ConnectCalled(c)
     \/ Head(queue).do = "close" /\ CloseCalled(c)
     \/ /\ Head(queue).do = "opened" /\ Callback("opened", c)
        /\ UNCHANGED <<sockets, files, conn, peer>>
     \/ /\ Head(queue).do = "pull" /\ Callback("message", c)
        /\ UNCHANGED <<sockets, files, conn, peer>>
  /\ life' = [life EXCEPT !.abort = @ \/ (Head(queue).do = "connect" /\ Head(queue).conn \in Elements(sockets))]
  /\ UNCHANGED <<loop, now, step, timers, told, used>>

\* xi_bsp_io_net_connect fails at once: the socket is registered by then, and
\* the call that closes its layer is queued.
ConnectFails ==
  /\ loop.at = "calls" /\ queue # <<>> /\ Head(queue).do = "connect"
  /\ used.faults < MaxFaults /\ used' = [used EXCEPT !.faults = @ + 1]
  /\ LET c == Head(queue).conn IN
     /\ queue' = Posted(Tail(queue), Work("close", c, "loop"))
     /\ sockets' = Append(sockets, c)
     /\ conn' = [conn EXCEPT ![c].state = "closing"]
     /\ life' = [life EXCEPT !.abort = @ \/ c \in Elements(sockets)]
  /\ UNCHANGED <<loop, now, step, files, timers, peer, worker, told>>

EndCalls ==
  /\ loop.at = "calls" /\ queue = <<>>
  /\ loop' = Iteration("app", FALSE)
  /\ UNCHANGED <<now, step, Dispatcher, conn, peer, worker, told, life, used>>

-----------------------------------------------------------------------------
(***************************************************************************)
(* xi_workerthread_start_routine: as long as it is not stopped the worker  *)
(* runs what is queued; then it runs the rest once more and ends.          *)
(***************************************************************************)
Others == <<loop, now, step, Dispatcher, conn, peer, life, used>>

\* Mutant: a worker that is stopped ends without a last step.
MutWorkerChecks ==
  /\ worker.at = "run" /\ worker.stop /\ ~worker.last
  /\ worker' = [worker EXCEPT !.at = "ended"]
  /\ UNCHANGED <<Others, told>>

\* Between two steps the worker sees the stop flag; callbacks may have been queued
\* since its last step.
WorkerChecks ==
  /\ worker.at = "run" /\ worker.stop /\ ~worker.last
  /\ worker' = [worker EXCEPT !.last = TRUE]
  /\ UNCHANGED <<Others, told>>

\* xi_find_handle_for_object in the wrapper of a callback
Found == ~life.deleted

\* xi_evtd_step takes a callback; it is called if its context has a handle.
WorkerTakes ==
  /\ worker.at = "run" /\ worker.queue # <<>>
  /\ LET call == Head(worker.queue) IN
     \/ /\ Found
        /\ worker' = [worker EXCEPT !.queue = Tail(@), !.at = "calling", !.call = call]
        /\ told' = [told EXCEPT ![call.conn] = IF call.do = "message" THEN @ ELSE call.do]
     \/ /\ ~Found
        /\ worker' = [worker EXCEPT !.queue = Tail(@)] /\ UNCHANGED told
  /\ UNCHANGED Others

WorkerReturns ==
  /\ worker.at = "calling"
  /\ worker' = [worker EXCEPT !.at = "run", !.call = NoCall]
  /\ UNCHANGED <<Others, told>>

WorkerEnds ==
  /\ worker.at = "run" /\ worker.last /\ worker.queue = <<>>
  /\ worker' = [worker EXCEPT !.at = "ended"]
  /\ UNCHANGED <<Others, told>>

Worker == WorkerChecks \/ WorkerTakes \/ WorkerReturns \/ WorkerEnds

StopWorker == worker' = [worker EXCEPT !.stop = TRUE]

\* xi_threadpool_destroy_instance, after the dispatcher is gone
DestroyPool ==
  /\ loop.at = "destroy" /\ StopWorker /\ Goes("join")
  /\ UNCHANGED <<now, step, Dispatcher, conn, peer, told, life, used>>

Join ==
  /\ loop.at = "join" /\ worker.at = "ended" /\ Goes("gone")
  /\ UNCHANGED <<now, step, Dispatcher, conn, peer, worker, told, life, used>>

-----------------------------------------------------------------------------
\* A server answers, or refuses, the connection.
ServerAnswers(c) ==
  /\ conn[c].state = "connecting" /\ peer[c] = "quiet"
  /\ \E e \in {"connected", "reset"} : peer' = [peer EXCEPT ![c] = e]
  /\ UNCHANGED <<loop, now, step, Dispatcher, conn, worker, told, life, used>>

\* A message comes, or the connection breaks.
ServerSends(c) ==
  /\ conn[c].state = "open" /\ peer[c] = "quiet" /\ used.data < MaxData
  /\ \E e \in {"data", "reset"} : peer' = [peer EXCEPT ![c] = e]
  /\ used' = [used EXCEPT !.data = @ + 1]
  /\ UNCHANGED <<loop, now, step, Dispatcher, conn, worker, told, life>>

LoopStep ==
  \/ BeginIteration \/ FileHandler \/ EndFiles \/ TimePasses \/ Select
  \/ WalkSocket \/ EndWalk \/ TimeEvent \/ EndTimers \/ CallQueued \/ EndCalls
  \/ DestroyPool \/ Join

Next ==
  \/ LoopStep \/ SelectFails \/ TimeEventFails \/ ConnectFails \/ Worker \/ AppDeletes
  \/ \E by \in {"app", "worker"} :
       AppStops(by) \/ \E c \in Conns : AppConnects(c, by) \/ AppCancels(c, by) \/ AppShutsDown(c, by)
  \/ \E c \in Conns : ServerAnswers(c) \/ ServerSends(c)

\* The application keeps turning the loop, threads are scheduled, callbacks
\* return, and a server answers a connection that is opened.
Spec ==
  /\ Init /\ [][Next]_vars
  /\ WF_vars(LoopStep) /\ WF_vars(Worker)
  /\ \A c \in Conns : WF_vars(ServerAnswers(c))

-----------------------------------------------------------------------------
\* Every variable has its type, and select never sleeps longer than it may.
TypeOK ==
  /\ loop.at \in Phases /\ loop.i \in 1 .. (Cardinality(Conns) + 2)
  /\ loop.wake <= now + MaxIdle /\ now \in 0 .. MaxNow /\ step \in 0 .. now
  /\ {Elements(sockets), Elements(files)} \subseteq SUBSET Conns
  /\ timers \subseteq [conn: Conns, due: 0 .. MaxNow, by: {"app", "worker"}]
  /\ Elements(queue) \subseteq
       [do: {"init", "connect", "opened", "pull", "close"}, conn: Conns, by: {"loop", "app", "worker"}]
  /\ conn \in [Conns -> [state: {"closed", "scheduled", "loading", "connecting", "open", "closing", "cancelled"},
                         left: 0 .. FileSteps]]
  /\ peer \in [Conns -> {"quiet", "connected", "data", "reset"}]
  /\ Elements(worker.queue) \subseteq [do: {"opened", "message", "closed"}, conn: Conns]
  /\ told \in [Conns -> {"opened", "closed"}]

\* From select's copy of the sockets to the end of the walk nothing enters or
\* leaves the vector, so that the walk finds every socket at the place it was
\* copied from, and passes none over.
SocketsStandStill ==
  loop.at \in {"files", "select", "walk"} => sockets = loop.noted

\* No assertion of the loop fails, no socket is registered twice, and nobody
\* uses the dispatcher after it was destroyed with the last context: the worker
\* still has callbacks then, and a callback calls the library.
AssertionsHold == ~life.abort

\* What the loop rests on: types, a vector of sockets that stands still while
\* select's answer is worked off, and its assertions.
LoopInv == TypeOK /\ SocketsStandStill /\ AssertionsHold

\* Select never sleeps while the loop itself left something to do: only what the
\* application asked for since the iteration before can wait in the queue, and
\* no event becomes due while select sleeps unless the worker armed it then.
\* (An iteration whose select failed has no step: its work waits for the next.)
SleepsOnlyIdle ==
  loop.at = "select" /\ loop.wake > now /\ ~loop.failed =>
    /\ \A w \in Elements(queue) : w.by # "loop"
    /\ \A t \in timers : t.due >= loop.wake \/ t.by = "worker"

\* Across both queues the application learns of a connection's life in order:
\* opened, then messages, then its end.
CallbacksInOrder ==
  [][worker.at # "calling" /\ worker.at' = "calling" =>
       LET call == worker.call' IN
       /\ call.do = "opened"  => told[call.conn] = "closed"
       /\ call.do = "message" => told[call.conn] = "opened"]_vars

Tells(c, what) == worker.at = "calling" /\ worker.call.conn = c /\ worker.call.do \in what
Over == life.stop \/ life.deleted

\* An attempt to connect ends in a callback, whatever the other connections do,
\* unless the application cancels it or the dispatcher is stopped.
AttemptEnds ==
  \A c \in Conns :
    conn[c].state = "scheduled" ~>
      (Tells(c, {"opened", "closed"}) \/ conn[c].state = "cancelled" \/ Over)

\* What arrives on a socket reaches the application.
DataIsServed ==
  \A c \in Conns : peer[c] = "data" ~> (Tells(c, {"message", "closed"}) \/ Over)

\* Neither an attempt nor a message is forgotten by the loop.
EveryoneIsServed == AttemptEnds /\ DataIsServed

\* Deleting the last context ends: the worker notices that it is stopped, and
\* has worked off its whole queue by then, also what was queued just before (a
\* callback of a context that was deleted is dropped).
DestroyEnds == loop.at = "destroy" ~> (loop.at = "gone" /\ worker.queue = <<>>)

=============================================================================
