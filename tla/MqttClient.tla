----------------------------- MODULE MqttClient -----------------------------
(***************************************************************************)
(* The client: the four layers of the chain, the event loop that drives    *)
(* them, the application's calls, the socket and the server.               *)
(*                                                                         *)
(* One iteration of the event loop runs at most one handler of the socket  *)
(* ("poll"), then the timers that are due ("timers"), then everything on   *)
(* the call queue, including what these calls enqueue ("drain").  Each     *)
(* handler is one action.  The application calls the library from its      *)
(* callbacks, and in the phases AppPhases: "poll" stands for code around   *)
(* the loop, "timers" for a timed task of the application.                 *)
(*                                                                         *)
(* Time is left out: an armed timer may fire in any iteration.             *)
(***************************************************************************)
EXTENDS MqttTasks

CONSTANTS ControlTopic,   \* XI_CONTROL_TOPIC_ENABLED
          InDomain,       \* the topic of Subs begins with XI_TOPIC_DOMAIN
          Sessions,       \* session types the application connects with
          PublishIn,      \* connection states the application publishes in
          AppPhases,      \* phases the application is active in
          MaxConnects, MaxFaults, MaxTimeouts   \* bounds on the environment

ConnectionStates == {"UNINITIALIZED", "OPENING", "OPENED", "OPEN_FAILED", "CLOSED"}

ASSUME ClientAssumption ==
  /\ ControlTopic \in BOOLEAN /\ InDomain \in BOOLEAN
  /\ Sessions \subseteq {"CLEAN", "CONTINUE"}
  /\ PublishIn \subseteq ConnectionStates
  /\ AppPhases \subseteq {"poll", "timers"}
  /\ Len(Publications) < IdMod
  /\ {MaxConnects, MaxFaults, MaxTimeouts} \subseteq Nat

VARIABLES phase,   \* where the event loop is
          c,       \* the client's memory, see MqttTasks
          net,     \* the TCP connection and the server
          used     \* how much of the bounds is used up

vars == <<phase, c, net, used>>

UserTasks == Q0 \cup Q1 \cup Subs

\* out and back are the bytes on their way; open, the server accepted a
\* CONNECT and got no DISCONNECT yet.
NoNet == [up |-> FALSE, open |-> FALSE, out |-> <<>>, back |-> <<>>]

\* What the server keeps of the client: whether it is subscribed and ends
\* with the connection, what it sent and what of it is not acknowledged.
NewSession == [subscribed |-> FALSE, clean |-> TRUE, sent |-> <<>>, unacked |-> <<>>]

Init ==
  /\ phase = "poll"
  /\ c = [calls |-> <<>>, layer |-> [l \in Layers |-> "NONE"],
          data |-> [l \in Layers |-> FALSE],
          conn |-> "UNINITIALIZED", session |-> "CLEAN",
          connect_handler |-> FALSE, shutdown_started |-> FALSE,
          task |-> [t \in Tasks |-> [cs |-> "none", timeout |-> FALSE,
                                     session |-> "UNSET", id |-> 0]],
          current |-> None, q0 |-> <<>>, q12 |-> <<>>, last_msg_id |-> 0,
          keepalive_event |-> FALSE, saved |-> <<>>, saved_id |-> 0,
          recv |-> <<>>, handlers |-> <<>>, saved_handlers |-> <<>>,
          queue |-> <<>>, io |-> "idle",
          outcome |-> [t \in Tasks |-> <<>>], received |-> <<>>, told |-> FALSE,
          abort |-> "none"]
  /\ net = [link |-> NoNet, delivered |-> {}, server |-> NewSession, acked |-> {}, due |-> {}]
  /\ used = [connects |-> 0, faults |-> 0, timeouts |-> 0]

Running == c.abort = "none"

AppTurn ==
  /\ Running
  /\ phase \in AppPhases \/ (phase = "drain" /\ c.calls # <<>> /\ Head(c.calls).layer = "user")

Fault == used.faults < MaxFaults /\ used' = [used EXCEPT !.faults = @ + 1]

-----------------------------------------------------------------------------
(***************************************************************************)
(* The application.                                                        *)
(***************************************************************************)
XiConnect(s) ==
  /\ AppTurn /\ used.connects < MaxConnects
  /\ ~c.connect_handler
  /\ c.conn \in {"UNINITIALIZED", "CLOSED", "OPEN_FAILED"}
  /\ c' = [c EXCEPT !.conn = "UNINITIALIZED", !.session = s, !.shutdown_started = FALSE,
                    !.connect_handler = TRUE, !.told = @ /\ s = "CONTINUE"]
  /\ used' = [used EXCEPT !.connects = @ + 1]
  /\ UNCHANGED <<phase, net>>

\* xi_publish and xi_subscribe do not look at the connection's state.  (While
\* the backoff class is not NONE they refuse the call, which changes nothing.)
XiPublish(t) ==
  /\ AppTurn /\ c.task[t].cs = "none" /\ c.conn \in PublishIn
  /\ c' = OnThis(MakeTask(c, t, "UNSET"), "top", "push",
                 [NoMsg EXCEPT !.task = t], "OK")
  /\ UNCHANGED <<phase, net, used>>

XiShutdownConnection ==
  /\ AppTurn
  /\ \/ c.connect_handler /\ c' = [c EXCEPT !.connect_handler = FALSE]
     \/ /\ ~c.connect_handler /\ c.conn = "OPENED" /\ ~c.shutdown_started
        /\ c' = OnThis(MakeTask([c EXCEPT !.shutdown_started = TRUE], "shutdown", "UNSET"),
                       "top", "push", [NoMsg EXCEPT !.task = "shutdown"], "OK")
  /\ UNCHANGED <<phase, net, used>>

-----------------------------------------------------------------------------
(***************************************************************************)
(* The layers' functions, executed from the call queue.                    *)
(***************************************************************************)
Call == Head(c.calls)

Popped == [c EXCEPT !.calls = Tail(@)]

Called(l, fn) ==
  phase = "drain" /\ Running /\ c.calls # <<>> /\ Call.layer = l /\ Call.fn = fn

\* The handlers that touch nothing but the client's memory.
Becomes(new) == c' = new /\ UNCHANGED <<phase, net, used>>

\* The user's callback of a task, called with its final status.
UserCallback ==
  Called("user", "callback") /\ Becomes(
           [Popped EXCEPT !.outcome[Call.arg.task] =
                            Append(@, IF Call.st = "OK" THEN "OK" ELSE "ERR"),
                          !.told = @ \/ (Call.arg.task \in Subs /\ Call.st = "OK")])

\* xi_user_sub_call_wrapper: the subscription's callback gets a message.  It
\* reads the topic from the subscription, which must not have been freed.
UserMessage ==
  Called("user", "message") /\ Becomes(
           Check([Popped EXCEPT !.received = Append(@, Call.arg.task)],
                 Range(c.handlers \o c.saved_handlers) \cap Subs # {}, "freed_subscription"))

\* The user's connection callback; it reports the end of a connection too.
UserConnection ==
  Called("user", "connection") /\ Becomes(Popped)

ConnectionStateChanged(a, st) ==
  LET b == [a EXCEPT !.calls = Append(@, [layer |-> "user", fn |-> "connection",
                                          arg |-> NoMsg, st |-> st])]
  IN  IF st = "OK" /\ a.conn = "OPENED" THEN OnThis(b, "top", "post_connect", NoMsg, st) ELSE b

\* xi_control_topic_layer_init; executed by the timer of xi_connect.
TopInitHandler(a) ==
  OnPrev([a EXCEPT !.data["top"] = @ \/ ControlTopic], "top", "init", NoMsg, "OK")

TopPush == Called("top", "push") /\ Becomes(
           OnPrev(Popped, "top", "push", Call.arg, Call.st))

TopConnectHandler(a, st) ==
  LET b == Check(a, ControlTopic => a.data["top"], "top_data")
      d == ConnectionStateChanged(b, st)
      e == OnPrev(MakeTask(d, "control", "DO_NOT_STORE"), "top", "push",
                  [NoMsg EXCEPT !.task = "control"], "OK")
  IN  IF st # "OK" THEN OnPrev(b, "top", "close", NoMsg, st)
      ELSE IF ControlTopic THEN e ELSE d

TopConnect == Called("top", "connect") /\ Becomes(
           TopConnectHandler(Popped, Call.st))

\* xi_topic_name_is_control_and_release looks at the first two characters.
TakenForControl == {"control"} \cup {t \in Subs : InDomain}

\* The control topic is subscribed to again by the next connection: it is
\* removed from what the logic layer has kept.
TopCloseExternallyHandler(a, st) ==
  ConnectionStateChanged(
    [a EXCEPT !.saved_handlers = IF ControlTopic THEN Kept(@, SubTasks \ TakenForControl) ELSE @,
              !.conn = IF @ = "OPENING" THEN "OPEN_FAILED" ELSE "CLOSED",
              !.data["top"] = FALSE], st)

TopCloseExternally ==
  Called("top", "close_externally") /\ Becomes(
           TopCloseExternallyHandler(Popped, Call.st))

\* xi_layer_default_post_connect: a layer without data ends the walk.
DefaultPostConnect(l) ==
  Called(l, "post_connect") /\ Becomes(
           IF c.data[l] THEN OnPrev(Popped, l, "post_connect", NoMsg, Call.st) ELSE Popped)

-----------------------------------------------------------------------------
\* A message was written or not: the task that sent it is found by its id,
\* in the queue the type of the message belongs to.
Confirm(a, m, st) ==
  LET t == IF m.id = 0 THEN a.current ELSE TaskWithId(a, m.id)
      r == MessageWithId(a, m.id)
  IN  CASE m.task \in In1 /\ r # NoMsg  -> PubackWritten(a, r, st)
        [] m.task \notin In1 /\ t # None -> Resume(a, t, st, NoMsg)
        [] OTHER                         -> a

LogicPushHandler(a, m, st) ==
  IF NotOperational(a, "logic") \/ ~a.data["logic"]
  THEN IF st = "OK" THEN FreeTask(a, m.task) ELSE a
  ELSE IF st \in {"WRITTEN", "FAILED"}                  THEN Confirm(a, m, st)
  ELSE IF m.task = "shutdown" /\ a.current = "shutdown" THEN a
  ELSE RunTask(a, m.task)

LogicPush == Called("logic", "push") /\ Becomes(
           LogicPushHandler(Popped, Call.arg, Call.st))

LogicPullHandler(a, m) ==
  LET t == TaskWithId(a, m.id)
      b == Check(a, a.current # None, "answer_without_task")
  IN  IF NotOperational(a, "logic") \/ ~a.data["logic"] THEN a
      ELSE IF m.task \in Incoming THEN PublishReceived(a, m)
      ELSE IF m.id > 0            THEN IF t = None THEN a ELSE Resume(a, t, "OK", m)
      ELSE IF b.current # None    THEN Resume(b, b.current, "OK", m)
      ELSE b

LogicPull == Called("logic", "pull") /\ Becomes(
           LogicPullHandler(Popped, Call.arg))

LogicInitHandler(a) ==
  LET b == IF a.session = "CONTINUE"
           THEN [a EXCEPT !.q12 = a.saved, !.last_msg_id = a.saved_id, !.saved_id = 0,
                          !.handlers = a.saved_handlers]
           ELSE FreeTasks(a, a.saved)
  IN  OnPrev([b EXCEPT !.saved = <<>>, !.saved_handlers = <<>>, !.data["logic"] = TRUE,
                       !.conn = "OPENING"],
             "logic", "init", NoMsg, "OK")

LogicInit == Called("logic", "init") /\ Becomes(
           LogicInitHandler(Popped))

\* Mutant: a failed connection is not reported to the next layer.
MutLogicConnectHandler(a, st) ==
  IF st # "OK" THEN a
  ELSE LogicPushHandler(MakeTask(a, "connect", "UNSET"), [NoMsg EXCEPT !.task = "connect"], "OK")

LogicConnectHandler(a, st) ==
  IF st # "OK" THEN OnSucc(a, "logic", "connect", NoMsg, st)
  ELSE LogicPushHandler(MakeTask(a, "connect", "UNSET"),
                        [NoMsg EXCEPT !.task = "connect"], "OK")

LogicConnect == Called("logic", "connect") /\ Becomes(
           LogicConnectHandler(Popped, Call.st))

ResendStored(a, t) ==
  IF a.task[t].session = "STORE" THEN Resume(a, t, "RESEND", NoMsg) ELSE a

Resent(a) ==
  LET resent[k \in 0..Len(a.q12)] == IF k = 0 THEN a ELSE ResendStored(resent[k - 1], a.q12[k])
  IN  resent[Len(a.q12)]

\* Mutant: the stored tasks are not resent.
MutLogicPostConnectHandler(a, st) ==
  IF ~a.data["logic"] THEN a ELSE OnPrev(a, "logic", "post_connect", NoMsg, st)

LogicPostConnectHandler(a, st) ==
  IF ~a.data["logic"] THEN a
  ELSE OnPrev(Resent(a), "logic", "post_connect", NoMsg, st)

LogicPostConnect == Called("logic", "post_connect") /\ Becomes(
           LogicPostConnectHandler(Popped, Call.st))

LogicCloseCalled == Called("logic", "close") /\ Becomes(
           LogicClose(Popped, Call.st))

\* Mutant: a task that is being sent again is taken for one never sent.
MutStored(a, t) == a.task[t].session = "STORE" /\ a.task[t].cs = "waiting"

Stored(a, t) == a.task[t].session = "STORE"

\* Mutant: the subscriptions are not kept for the next connection.
MutSaveSession(a) ==
  IF a.session # "CONTINUE" THEN a
  ELSE [a EXCEPT !.saved = Kept(a.q12, {t \in Q12 : Stored(a, t)}),
                 !.saved_id = a.last_msg_id,
                 !.q12 = Kept(a.q12, {t \in Q12 : ~Stored(a, t)})]

\* In a continued session the tasks that were written at least once, the
\* last id and the subscriptions outlive the layer; the other tasks are freed.
SaveSession(a) ==
  LET b == Check(a, a.handlers = <<>> \/ a.saved_handlers = <<>>, "saved_handlers")
  IN  IF a.session # "CONTINUE" THEN a
      ELSE [b EXCEPT !.saved = Kept(a.q12, {t \in Q12 : Stored(a, t)}),
                     !.saved_id = a.last_msg_id,
                     !.saved_handlers = IF a.handlers = <<>> THEN @ ELSE a.handlers,
                     !.q12 = Kept(a.q12, {t \in Q12 : ~Stored(a, t)})]

\* Mutant: the current task is forgotten instead of stopped.
MutStopCurrentTask(a) == [a EXCEPT !.current = None]

StopCurrentTask(a) ==
  LET b == Resume(a, a.current, "TIMEOUT", NoMsg)
  IN  IF a.current = None      THEN a
      ELSE IF b.current = None THEN b
      ELSE [FreeTask(b, b.current) EXCEPT !.current = None]

\* Mutant: the timers of queued tasks stay armed.
MutDisableTimeouts(a) == a

DisableTimeouts(a) ==
  [a EXCEPT !.task = [t \in Tasks |-> IF t \in Range(a.q12) THEN [@[t] EXCEPT !.timeout = FALSE]
                                                          ELSE @[t]]]

LogicCloseExternallyHandler(a, st) ==
  LET b == StopCurrentTask(SaveSession(DisableTimeouts(a)))
      d == [FreeTasks(b, b.q12 \o b.q0)
              EXCEPT !.keepalive_event = FALSE, !.data["logic"] = FALSE,
                     !.q12 = <<>>, !.q0 = <<>>, !.recv = <<>>, !.handlers = <<>>,
                     !.last_msg_id = 0]
  IN  IF st # "OK" /\ a.layer["logic"] = "CONNECTING"
      THEN OnThis(a, "logic", "connect", NoMsg, st)
      ELSE OnSucc(IF a.data["logic"] THEN d ELSE a, "logic", "close_externally", NoMsg, st)

LogicCloseExternally ==
  Called("logic", "close_externally") /\ Becomes(
           LogicCloseExternallyHandler(Popped, Call.st))

-----------------------------------------------------------------------------
\* Mutant: the next queued message is not started.
MutCodecPushHandler(a, m, st) ==
  LET b == [a EXCEPT !.queue = Append(@, m)]
  IN  IF NotOperational(a, "codec") \/ ~a.data["codec"] THEN a
      ELSE IF st = "OK" THEN IF a.queue = <<>> THEN OnPrev(b, "codec", "push", m, "OK") ELSE b
      ELSE OnSucc([a EXCEPT !.queue = Tail(@)], "codec", "push", Head(a.queue), st)

\* One message is on its way to the socket at a time; the others wait.
CodecPushHandler(a, m, st) ==
  LET b == [a EXCEPT !.queue = Append(@, m)]
      d == OnSucc([a EXCEPT !.queue = Tail(@)], "codec", "push", Head(a.queue), st)
      SendNext(e) == IF e.queue = <<>> THEN e ELSE OnPrev(e, "codec", "push", Head(e.queue), "OK")
  IN  IF NotOperational(a, "codec") \/ ~a.data["codec"] THEN a
      ELSE IF st = "OK" THEN IF a.queue = <<>> THEN SendNext(b) ELSE b
      ELSE SendNext(d)

CodecPush == Called("codec", "push") /\ Becomes(
           CodecPushHandler(Popped, Call.arg, Call.st))

\* A buffer may hold several messages; each becomes a call of its own.
CodecPullHandler(a, ms) ==
  IF NotOperational(a, "codec") \/ ~a.data["codec"] THEN a
  ELSE OnSuccEach(a, "codec", "pull", ms, "OK")

CodecPull == Called("codec", "pull") /\ Becomes(
           CodecPullHandler(Popped, Call.arg))

CodecInit ==
  Called("codec", "init") /\ Becomes(
           OnPrev([Check(Popped, ~c.data["codec"], "codec_init") EXCEPT !.data["codec"] = TRUE],
                "codec", "init", NoMsg, "OK"))

CodecConnect == Called("codec", "connect") /\ Becomes(
           OnSucc(Popped, "codec", "connect", NoMsg, Call.st))

CodecClose ==
  Called("codec", "close") /\ Becomes(
           IF c.data["codec"] THEN OnPrev(Popped, "codec", "close", NoMsg, Call.st)
         ELSE OnThis(Popped, "codec", "close_externally", NoMsg, Call.st))

\* Every message still queued is reported as not written.
ClearTaskQueue(a) ==
  OnSuccEach([a EXCEPT !.queue = <<>>], "codec", "push", a.queue, "FAILED")

\* Mutant: the layer's data is not released.
MutCodecCloseExternally ==
  Called("codec", "close_externally") /\ Becomes(
           OnSucc(ClearTaskQueue(Popped), "codec", "close_externally", NoMsg, Call.st))

CodecCloseExternally ==
  Called("codec", "close_externally") /\ Becomes(
           OnSucc([ClearTaskQueue(Popped) EXCEPT !.data["codec"] = FALSE],
                "codec", "close_externally", NoMsg, Call.st))

-----------------------------------------------------------------------------
(***************************************************************************)
(* The io layer and the socket.                                            *)
(***************************************************************************)
IoUsable(a) == ~NotOperational(a, "io") /\ a.data["io"]

\* xi_io_net_layer_push: written, the socket is busy, or the connection broke.
IoWrite(a, m) ==
  \/ /\ c' = OnSucc([a EXCEPT !.io = "idle"], "io", "push", NoMsg, "WRITTEN")
     /\ net' = [net EXCEPT !.link.out = Append(@, m)]
     /\ UNCHANGED used
  \/ /\ c' = [a EXCEPT !.io = "blocked"]
     /\ Fault /\ UNCHANGED net
  \/ /\ c' = OnThis([a EXCEPT !.io = "idle"], "io", "close_externally", NoMsg, "ERR")
     /\ Fault /\ UNCHANGED net

IoPush ==
  /\ Called("io", "push") /\ UNCHANGED phase
  /\ \/ IoUsable(c) /\ IoWrite(Popped, Call.arg)
     \/ ~IoUsable(c) /\ c' = Popped /\ UNCHANGED <<net, used>>

IoInit ==
  /\ Called("io", "init") /\ UNCHANGED <<phase, net>>
  /\ \/ /\ UNCHANGED used
        /\ c' = IF c.data["io"] THEN Popped
                ELSE OnThis([Popped EXCEPT !.data["io"] = TRUE], "io", "connect", NoMsg, "OK")
     \/ /\ ~c.data["io"] /\ Fault
        /\ c' = OnThis(Popped, "io", "connect", NoMsg, "ERR")

IoConnect ==
  /\ Called("io", "connect") /\ UNCHANGED <<phase, net>>
  /\ \/ /\ c' = IF Call.st # "OK"      THEN OnSucc(Popped, "io", "connect", NoMsg, Call.st)
                ELSE IF ~c.data["io"] THEN OnSucc(Popped, "io", "connect", NoMsg, "ERR")
                ELSE [Popped EXCEPT !.io = "connecting"]
        /\ UNCHANGED used
     \/ /\ Call.st = "OK" /\ c.data["io"] /\ Fault
        /\ c' = OnSucc(Popped, "io", "connect", NoMsg, "ERR")

IoClose ==
  Called("io", "close") /\ Becomes(
           OnThis(Popped, "io", "close_externally", NoMsg, Call.st))

IoCloseExternally ==
  /\ Called("io", "close_externally") /\ UNCHANGED <<phase, used>>
  /\ c' = OnSucc([Popped EXCEPT !.data["io"] = FALSE, !.io = "idle"],
                 "io", "close_externally", NoMsg, Call.st)
  /\ net' = IF c.data["io"] THEN [net EXCEPT !.link = NoNet] ELSE net

\* Handlers of the socket, run by the event loop.
Polled == phase = "poll" /\ Running /\ IoUsable(c) /\ phase' = "timers"

SocketConnected ==
  /\ Polled /\ c.io = "connecting"
  /\ \/ /\ UNCHANGED used /\ net' = [net EXCEPT !.link.up = TRUE]
        /\ c' = OnSucc([c EXCEPT !.io = "idle"], "io", "connect", NoMsg, "OK")
     \/ /\ Fault /\ UNCHANGED net
        /\ c' = OnSucc([c EXCEPT !.io = "idle"], "io", "connect", NoMsg, "ERR")

SocketReadable ==
  /\ Polled /\ c.io = "idle" /\ UNCHANGED used
  /\ \E n \in 1..Len(net.link.back) :
       /\ net' = [net EXCEPT !.link.back = SubSeq(@, n + 1, Len(@))]
       /\ c' = OnSucc(c, "io", "pull", SubSeq(net.link.back, 1, n), "OK")

SocketReset ==
  /\ Polled /\ c.io = "idle" /\ net.link.up /\ Fault /\ UNCHANGED net
  /\ c' = OnThis(c, "io", "close_externally", NoMsg, "ERR")

SocketWritable ==
  /\ Polled /\ c.io = "blocked" /\ IoWrite(c, Head(c.queue))

-----------------------------------------------------------------------------
(***************************************************************************)
(* Timers and the loop.                                                    *)
(***************************************************************************)
PollDone ==
  phase = "poll" /\ Running /\ phase' = "timers" /\ UNCHANGED <<c, net, used>>

ConnectHandlerFires ==
  /\ phase = "timers" /\ Running /\ c.connect_handler
  /\ c' = TopInitHandler([c EXCEPT !.connect_handler = FALSE])
  /\ UNCHANGED <<phase, net, used>>

Expires ==
  /\ phase = "timers" /\ Running
  /\ used.timeouts < MaxTimeouts /\ used' = [used EXCEPT !.timeouts = @ + 1]
  /\ UNCHANGED <<phase, net>>

\* do_mqtt_keepalive_once
KeepaliveOnce ==
  /\ c.keepalive_event /\ Expires
  /\ c' = LogicPushHandler(MakeTask([c EXCEPT !.keepalive_event = FALSE], "keepalive", "UNSET"),
                           [NoMsg EXCEPT !.task = "keepalive"], "OK")

\* The timer of a task: the one of a subscription that could not be written
\* asks for a resend, the others report a timeout.
TaskTimeout(t) ==
  /\ c.task[t].timeout /\ Expires
  /\ LET a == CancelTimeout(c, t)
     IN  c' = IF t = "connect" THEN DoMqttConnectTimeout(a)
              ELSE Resume(a, t, IF c.task[t].cs = "retry" THEN "RESEND" ELSE "TIMEOUT", NoMsg)

TimersDone ==
  phase = "timers" /\ Running /\ phase' = "drain" /\ UNCHANGED <<c, net, used>>

DrainDone ==
  /\ phase = "drain" /\ Running /\ c.calls = <<>>
  /\ phase' = "poll" /\ UNCHANGED <<c, net, used>>

-----------------------------------------------------------------------------
(***************************************************************************)
(* The server (MQTT 3.1.1, the version the client announces).  It takes    *)
(* what the client wrote in order and ignores what follows a DISCONNECT.   *)
(***************************************************************************)
Taken == [net EXCEPT !.link.out = Tail(@),
                     !.delivered = IF net.link.open \/ Head(net.link.out).task = "connect"
                                   THEN @ \cup ({Head(net.link.out).task} \ In1) ELSE @]

Answer(n, ok) ==
  [n EXCEPT !.link.back = Append(@, [Head(net.link.out) EXCEPT !.ok = ok])]

\* The server sends publications.  The ones it sends while the application
\* knows of its subscription are due to it.
SendPublications(n, ms) ==
  LET S == {ms[k].task : k \in 1..Len(ms)}
  IN  [n EXCEPT !.link.back = @ \o ms,
                !.due = IF c.told THEN @ \cup S ELSE @ \ S]

\* A session both sides want to continue goes on with what is not
\* acknowledged; any other starts afresh.
ServerSession(n) ==
  IF c.session = "CONTINUE" /\ ~n.server.clean
  THEN SendPublications(n, n.server.unacked)
  ELSE [n EXCEPT !.server = [NewSession EXCEPT !.clean = c.session = "CLEAN", !.sent = n.server.sent]]

Takes(S) == net.link.out # <<>> /\ Head(net.link.out).task \in S /\ UNCHANGED <<phase, c>>

ServerConnect ==
  /\ Takes({"connect"})
  /\ \/ net' = ServerSession([Answer(Taken, TRUE) EXCEPT !.link.open = TRUE]) /\ UNCHANGED used
     \/ net' = Answer(Taken, FALSE) /\ Fault

ServerSubscribe ==
  /\ Takes(SubTasks) /\ net.link.open
  /\ \/ /\ net' = [Answer(Taken, TRUE) EXCEPT
                     !.server.subscribed = @ \/ Head(net.link.out).task \in Subs]
        /\ UNCHANGED used
     \/ net' = Answer(Taken, FALSE) /\ Fault

\* Publications, pings and the DISCONNECT.
ServerTakes ==
  /\ Takes(Q0 \cup Q1 \cup {"keepalive", "shutdown"}) /\ net.link.open /\ UNCHANGED used
  /\ net' = CASE Head(net.link.out).task = "shutdown" -> [Taken EXCEPT !.link.open = FALSE]
              [] Head(net.link.out).task \in Q0       -> Taken
              [] OTHER                                -> Answer(Taken, TRUE)

ServerPuback ==
  /\ Takes(In1) /\ net.link.open /\ UNCHANGED used
  /\ LET m == Head(net.link.out)
     IN  net' = [Taken EXCEPT !.acked = @ \cup {m.task},
                              !.server.unacked = Kept(@, Range(@) \ {m})]

ServerIgnores ==
  Takes((Tasks \cup In1) \ {"connect"}) /\ ~net.link.open /\ net' = Taken /\ UNCHANGED used

ServerPublish ==
  LET k == 1 + Len(net.server.sent)
      m == [task |-> Publications[k], id |-> IF Publications[k] \in In1 THEN k ELSE 0, ok |-> TRUE]
      n == [SendPublications(net, <<m>>) EXCEPT !.server.sent = Append(@, m.task)]
  IN  /\ net.link.open /\ net.server.subscribed /\ k <= Len(Publications)
      /\ net' = IF m.id = 0 THEN n ELSE [n EXCEPT !.server.unacked = Append(@, m)]
      /\ UNCHANGED <<phase, c, used>>

Server == ServerConnect \/ ServerSubscribe \/ ServerTakes \/ ServerPuback \/ ServerIgnores

\* A failed assertion ended the program.
Aborted == ~Running /\ UNCHANGED vars

Loop ==
  \/ UserCallback \/ UserConnection \/ UserMessage \/ TopPush \/ TopConnect \/ TopCloseExternally
  \/ \E l \in {"top", "codec", "io"} : DefaultPostConnect(l)
  \/ LogicPush \/ LogicPull \/ LogicInit \/ LogicConnect \/ LogicPostConnect
  \/ LogicCloseCalled \/ LogicCloseExternally
  \/ CodecPush \/ CodecPull \/ CodecInit \/ CodecConnect \/ CodecClose \/ CodecCloseExternally
  \/ IoPush \/ IoInit \/ IoConnect \/ IoClose \/ IoCloseExternally
  \/ SocketConnected \/ SocketReadable \/ SocketWritable
  \/ ConnectHandlerFires \/ PollDone \/ TimersDone \/ DrainDone

Next ==
  \/ Loop \/ Server \/ ServerPublish \/ SocketReset \/ Aborted
  \/ KeepaliveOnce \/ \E t \in Tasks : TaskTimeout(t)
  \/ \E s \in Sessions : XiConnect(s)
  \/ \E t \in UserTasks : XiPublish(t)
  \/ XiShutdownConnection

Spec == Init /\ [][Next]_vars

-----------------------------------------------------------------------------
(***************************************************************************)
(* Types.                                                                  *)
(***************************************************************************)
Messages == [task : Tasks \cup Incoming \cup {None}, id : 0..(IdMod - 1), ok : BOOLEAN]

Statuses == {"OK", "WRITTEN", "FAILED", "ERR", "TIMEOUT", "RESEND"}

CallOK(k) ==
  /\ k.layer \in Layers \cup {"user"} /\ k.st \in Statuses
  /\ k.fn \in LayerFunctions \cup {"callback", "connection", "message"}
  /\ IF k.layer = "codec" /\ k.fn = "pull" THEN k.arg \in Seq(Messages) ELSE k.arg \in Messages

\* The client's memory, the network and the bounds are well formed; a
\* message id always fits its type (uint16_t last_msg_id).
TypeOK ==
  /\ phase \in {"poll", "timers", "drain"}
  /\ \A k \in 1..Len(c.calls) : CallOK(c.calls[k])
  /\ c.layer \in [Layers -> LayerStates] /\ c.data \in [Layers -> BOOLEAN]
  /\ c.conn \in ConnectionStates /\ c.session \in {"CLEAN", "CONTINUE"}
  /\ {c.connect_handler, c.shutdown_started, c.keepalive_event} \subseteq BOOLEAN
  /\ c.task \in [Tasks -> [cs : Coroutine, timeout : BOOLEAN,
                           session : {"UNSET", "STORE", "DO_NOT_STORE"}, id : 0..(IdMod - 1)]]
  /\ c.current \in (Tasks \ Q12) \cup {None}
  /\ c.q0 \in Seq(Tasks \ Q12) /\ c.q12 \in Seq(Q12) /\ c.saved \in Seq(Q12)
  /\ c.recv \in Seq(Messages) /\ {c.handlers, c.saved_handlers} \subseteq Seq(SubTasks)
  /\ c.received \in Seq(Incoming) /\ c.told \in BOOLEAN
  /\ {c.last_msg_id, c.saved_id} \subseteq 0..(IdMod - 1)
  /\ c.queue \in Seq(Messages) /\ c.io \in {"idle", "connecting", "blocked"}
  /\ c.outcome \in [Tasks -> Seq({"OK", "ERR"})]
  /\ {net.link.up, net.link.open} \subseteq BOOLEAN /\ net.delivered \subseteq Tasks
  /\ net.link.out \in Seq(Messages) /\ net.link.back \in Seq(Messages)

-----------------------------------------------------------------------------
(***************************************************************************)
(* Assertions of the code.                                                 *)
(***************************************************************************)
\* No assertion of the task engine, the codec or the control topic layer
\* fails, and no task is freed while its timer is armed.
NoAssertionFails == c.abort = "none"

\* What fails when timers fire: the two of the run keepalive_close, and the two
\* that a SUBACK read together with the timer of its subscription fails.
KnownFailures ==
  {"keepalive_timer", "freed_with_timer", "subscribe_resend_timer", "subscribe_failed"}

\* Every other assertion holds whenever timers fire.
OtherAssertionsHold == c.abort \in {"none"} \cup KnownFailures

\* xi_mqtt_logic_layer_close_externally disables the timeouts of all tasks
\* first: none is armed when it ends a task (keepalive_handler.c:106) or
\* frees one.
TimersDisabledAtClose == c.abort \notin {"keepalive_timer", "freed_with_timer"}

-----------------------------------------------------------------------------
(***************************************************************************)
(* Safety.                                                                 *)
(***************************************************************************)
\* No queue of the logic layer, nor the copy kept between two connections,
\* holds a task that was freed.
QueuesHoldLiveTasks ==
  Running => \A t \in Range(c.q0 \o c.q12 \o c.saved \o <<c.current>>) \ {None} :
                c.task[t].cs \notin {"none", "freed"}

\* Between two iterations an armed timer belongs to a task the layer still
\* works on, so its handler never resumes a task that was given up.
TimersBelongToLiveTasks ==
  Running /\ c.calls = <<>> =>
    \A t \in Tasks : c.task[t].timeout => t = c.current \/ t \in Range(c.q12)

\* The bookkeeping of the tasks is right whatever timers fire: types, assertions,
\* queues without freed tasks, and timers that will find their task.
TasksInv ==
  TypeOK /\ OtherAssertionsHold /\ QueuesHoldLiveTasks /\ TimersBelongToLiveTasks

\* A callback that reports a failed publication tells the truth: also when the
\* message was written in the connection before and is sent again in this one.
\* (Without timers: a PUBACK read in the iteration in which its timer is due is
\* taken for a failed write, and the callback is given an error.)
ErrorMeansFailed ==
  \A t \in Q1 : "ERR" \in Range(c.outcome[t]) => t \notin net.delivered

Idle == phase = "poll" /\ c.calls = <<>>

Connected == c.conn = "OPENED" /\ c.layer["logic"] = "CONNECTED" /\ c.data["logic"]

\* Its message waits in the codec layer, and the socket's handler will write
\* the one at the head of the queue.
InFlight(t) == c.io = "blocked" /\ \E k \in 1..Len(c.queue) : c.queue[k].task = t

Progresses(t) ==
  CASE c.task[t].cs = "sending" -> InFlight(t)
    [] c.task[t].cs = "waiting" -> c.task[t].timeout \/ ~KeepAlive
    [] c.task[t].cs = "retry"   -> c.task[t].timeout
    [] OTHER -> FALSE

\* While the client is connected and between two iterations, every task of
\* the logic layer has something that will resume it: its message waits
\* for the socket, or its timer is armed.
NoTaskStalls ==
  Running /\ Idle /\ Connected =>
    /\ \A t \in Range(c.q12) : Progresses(t)
    /\ \A k \in 1..Len(c.recv) : InFlight(c.recv[k].task)
    /\ IF c.current = None THEN c.q0 = <<>> ELSE Progresses(c.current)

\* While the client is connected there is always a next ping: its timer is
\* armed or it is on its way.
KeepaliveContinues ==
  Running /\ Idle /\ Connected /\ KeepAlive =>
    c.keepalive_event \/ c.current = "keepalive" \/ "keepalive" \in Range(c.q0)

PendingCallbacks(t) ==
  Kept(c.calls, {k \in Range(c.calls) : k.layer = "user" /\ k.fn = "callback" /\ k.arg.task = t})

\* A connection that ended left nothing behind: no layer has data, no task,
\* message or timer is left for the next connection to trip over.
ClosedMeansReset ==
  Running /\ Idle /\ c.conn \in {"CLOSED", "OPEN_FAILED"} =>
    /\ \A l \in Layers : ~c.data[l]
    /\ c.current = None /\ c.q0 = <<>> /\ c.q12 = <<>> /\ c.queue = <<>> /\ c.recv = <<>>
    /\ ~c.keepalive_event /\ \A t \in Tasks : ~c.task[t].timeout

\* A publication of the server that the application was due to get, and
\* whose PUBACK the server has, was handed to the application: the PUBACK
\* says so, and the server will not send the message again.  No assertion of
\* the code that receives and acknowledges fails on the way.
AcknowledgedIsReceived ==
  Running /\ (Idle => net.acked \cap net.due \subseteq Range(c.received))

FirstAt(m) == CHOOSE k \in 1..Len(c.received) :
                c.received[k] = m /\ \A j \in 1..(k - 1) : c.received[j] # m

\* Of two publications of the server with QoS 1 that the application got, it
\* first got the one the server sent first.
ReceivedInOrder ==
  \A i, j \in 1..Len(net.server.sent) :
    LET m == net.server.sent[i]
        n == net.server.sent[j]
    IN  i < j /\ {m, n} \subseteq In1 \cap Range(c.received) => FirstAt(m) < FirstAt(n)

-----------------------------------------------------------------------------
(***************************************************************************)
(* The client implements Delivery: a task's status is the verdict its      *)
(* callback got, or will get from the call queue, and otherwise follows    *)
(* from its memory.                                                        *)
(***************************************************************************)
Verdicts(t) ==
  c.outcome[t] \o [k \in DOMAIN PendingCallbacks(t) |-> PendingCallbacks(t)[k].st]

Status(t) ==
  LET v == Verdicts(t)
  IN  IF Len(v) > 1                       THEN "called twice"
      ELSE IF Len(v) = 1                  THEN IF v[1] = "OK" THEN "ok" ELSE "failed"
      ELSE IF c.task[t].cs = "none"       THEN "idle"
      ELSE IF c.task[t].cs = "freed"      THEN "dropped"
      ELSE IF c.task[t].session = "STORE" THEN "stored"
      ELSE "accepted"

D == INSTANCE Delivery WITH Messages <- UserTasks, AtLeastOnce <- Q1 \cup Subs,
       status <- [t \in UserTasks |-> Status(t)],
       delivered <- net.delivered \cap UserTasks, session <- c.session

\* The publications and subscriptions of the application behave as the
\* abstract specification says, for as long as no assertion fails.
ImplementsDelivery == D!Init /\ [][Running' => D!Next]_(D!vars)

-----------------------------------------------------------------------------
(***************************************************************************)
(* Liveness.  The event loop keeps running; a socket that stays ready is   *)
(* reported by select in some iteration, and a delay that is over is       *)
(* noticed; the server answers.  Nothing is assumed of the application, of *)
(* faults, or of the timers that guard against them.                       *)
(***************************************************************************)
Fairness ==
  /\ WF_vars(Loop) /\ WF_vars(Server)
  /\ SF_vars(SocketConnected) /\ SF_vars(SocketReadable) /\ SF_vars(SocketWritable)
  /\ SF_vars(ConnectHandlerFires)

FairSpec == Spec /\ Fairness

\* Once the application asked for it, the connection gets closed.
ShutdownCompletes == c.shutdown_started ~> (c.conn = "CLOSED")

\* A connection attempt ends: established or given up.
ConnectResolves == (c.conn = "OPENING") ~> (c.conn # "OPENING")

\* Both requests of the application about its connection come to an end:
\* xi_connect and xi_shutdown_connection.
ConnectionsResolve == ConnectResolves /\ ShutdownCompletes

\* A QoS 1 publication does not stay in the queue: it is answered, or the
\* connection ends.
PublishResolves ==
  \A t \in Q1 : (t \in Range(c.q12)) ~> (t \notin Range(c.q12))
=============================================================================
