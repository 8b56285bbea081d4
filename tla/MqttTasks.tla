----------------------------- MODULE MqttTasks -----------------------------
(***************************************************************************)
(* The task engine of the MQTT logic layer: every publication,             *)
(* subscription, ping, connect and disconnect is a task driven by a        *)
(* coroutine.  A coroutine is resumed by a write confirmation, an answer   *)
(* from the server, a timer, or a signal of the layer itself, and the      *)
(* single status argument is all it has to tell these apart.               *)
(*                                                                         *)
(* Handlers run to completion on one thread, so each is an operator from   *)
(* the client's memory c to its new value.  The fields used here are       *)
(*   c.task      per task: cs, the place its coroutine is suspended at;    *)
(*               timeout, whether its timer is armed; session, whether it  *)
(*               survives a disconnect; id, its MQTT message id,           *)
(*   c.current, c.q0, c.q12, c.last_msg_id, c.keepalive_event              *)
(*               the fields of xi_mqtt_logic_layer_data_t,                 *)
(*   c.recv      q12_recv_tasks_queue: messages to acknowledge,            *)
(*   c.handlers  handlers_for_topics: the subscriptions in force,          *)
(*   c.data      per layer, whether its user_data is allocated,            *)
(*   c.conn      connection_data->connection_state,                        *)
(*   c.calls     the call queue, which also holds the user's callbacks,    *)
(*   c.abort     the first assertion that failed, or "none".               *)
(* A failed assertion (or the use of freed memory) ends the program.       *)
(***************************************************************************)
EXTENDS LayerApi, SequencesExt, Naturals

CONSTANTS Q0,           \* QoS 0 publications of the application
          Q1,           \* QoS 1 publications of the application
          Subs,         \* subscriptions of the application, all to one topic
          Publications, \* what the server publishes to that topic, in order
          In1,          \* the ones of them with QoS 1
          KeepAlive,    \* keepalive_timeout > 0
          ConnTimeout,  \* connection_timeout > 0
          IdMod         \* number of message ids (2^16 in the code)

None == "none"

\* Tasks the library creates for itself.
Internal == {"connect", "keepalive", "shutdown", "control"}

Tasks == Q0 \cup Q1 \cup Subs \cup Internal

Incoming == Range(Publications)

\* Different things have different names.
ASSUME TaskAssumption ==
  /\ KeepAlive \in BOOLEAN /\ ConnTimeout \in BOOLEAN
  /\ IdMod \in Nat \ {0}
  /\ Publications \in Seq(Incoming) /\ In1 \subseteq Incoming
  /\ Q0 \cap Q1 = {} /\ Q0 \cap Subs = {} /\ Q1 \cap Subs = {}
  /\ (Q0 \cup Q1 \cup Subs) \cap (Internal \cup {None}) = {}
  /\ Incoming \cap (Tasks \cup {None}) = {}

\* Subscriptions, the control topic's included, and everything that has a
\* message id and waits in q12_tasks_queue instead of being current_q0_task.
SubTasks == Subs \cup {"control"}

Q12 == Q1 \cup SubTasks

\* "new" is a coroutine at its start, also after XI_CR_EXIT or XI_CR_RESET.
Coroutine == {"none", "new", "sending", "waiting", "retry", "freed"}

\* The elements of the sequence s that are in S, in their order.
Kept(s, S) ==
  LET kept[k \in 0..Len(s)] ==
        IF k = 0 THEN <<>>
        ELSE IF s[k] \in S THEN Append(kept[k - 1], s[k]) ELSE kept[k - 1]
  IN  kept[Len(s)]

NoMsg == [task |-> None, id |-> 0, ok |-> FALSE]

\* The assertion a of the code, evaluated where the code evaluates it.
Check(c, holds, a) ==
  IF holds \/ c.abort # "none" THEN c ELSE [c EXCEPT !.abort = a]

CheckNoTimer(c, t, a) == Check(c, ~c.task[t].timeout, a)

\* A task the application or the library allocates.
MakeTask(c, t, session) ==
  [c EXCEPT !.task[t] = [cs |-> "new", timeout |-> FALSE, session |-> session, id |-> 0]]

\* Freeing the memory a timer still points into ends the program (the timer
\* would write through its dangling handle when it moves or fires).
FreeTask(c, t) ==
  [CheckNoTimer(c, t, "freed_with_timer") EXCEPT !.task[t].cs = "freed"]

FreeTasks(c, ts) ==
  [Check(c, \A t \in Range(ts) : ~c.task[t].timeout, "freed_with_timer")
     EXCEPT !.task = [t \in Tasks |-> IF t \in Range(ts) THEN [@[t] EXCEPT !.cs = "freed"]
                                                       ELSE @[t]]]

ArmTimeout(c, t) == [c EXCEPT !.task[t].timeout = TRUE]

CancelTimeout(c, t) == [c EXCEPT !.task[t].timeout = FALSE]

\* The user's callback is put on the call queue with the given status.
DeferUsersCallback(c, t, st) ==
  [c EXCEPT !.calls = Append(@, [layer |-> "user", fn |-> "callback",
                                 arg |-> [NoMsg EXCEPT !.task = t], st |-> st])]

\* The yield that hands the task's message to the codec layer.
Send(c, t) ==
  OnPrev([c EXCEPT !.task[t].cs = "sending"], "logic", "push",
         [task |-> t, id |-> c.task[t].id, ok |-> TRUE], "OK")

-----------------------------------------------------------------------------
(***************************************************************************)
(* The first run of a coroutine, up to its first yield.                    *)
(***************************************************************************)
StartTask(c, t) ==
  CASE t \in Q0 -> IF NotOperational(c, "logic") \/ ~c.data["logic"] THEN c ELSE Send(c, t)
    [] t = "connect" ->
         IF NotOperational(c, "logic") \/ ~c.data["logic"] THEN CancelTimeout(c, t)
         ELSE Send(IF ConnTimeout THEN ArmTimeout(c, t) ELSE CheckNoTimer(c, t, "connect_start"), t)
    [] OTHER -> IF c.data["logic"] THEN Send(c, t) ELSE c

\* xi_mqtt_logic_layer_run_next_q0_task: free the current task, run the next.
\* While the connection is opening only the connect task may run; any other
\* task that is popped goes to the END of the queue.
RunNextQ0(c) ==
  LET a == IF c.current = None THEN c
           ELSE [FreeTask(CancelTimeout(c, c.current), c.current) EXCEPT !.current = None]
      t == Head(a.q0)
  IN  IF a.q0 = <<>> THEN a
      ELSE IF a.conn = "OPENING" /\ t # "connect"
           THEN [a EXCEPT !.q0 = Append(Tail(@), t)]
           ELSE StartTask([a EXCEPT !.q0 = Tail(@), !.current = t], t)

\* xi_mqtt_logic_layer_finalize_task
FinalizeTask(c, t) ==
  LET a == CheckNoTimer(c, t, "finalize_timer")
  IN  IF t \in Q12 THEN FreeTask([a EXCEPT !.q12 = Kept(@, Q12 \ {t})], t)
      ELSE RunNextQ0(a)

\* xi_mqtt_logic_layer_close, which do_shutdown also calls directly.
LogicClose(c, st) ==
  IF c.data["logic"] THEN OnPrev(c, "logic", "close", NoMsg, st)
  ELSE OnThis(c, "logic", "close_externally", NoMsg, st)

-----------------------------------------------------------------------------
(***************************************************************************)
(* The coroutines, resumed with status st and message m.                   *)
(***************************************************************************)
DoMqttPublishQ0(c, t, st, m) ==
  LET a == Check(c, m = NoMsg, "q0_with_message")
  IN  IF NotOperational(a, "logic") \/ ~a.data["logic"] THEN a
      ELSE IF a.task[t].cs = "new" THEN Send(a, t)
      ELSE FinalizeTask(DeferUsersCallback(a, t, IF st = "WRITTEN" THEN "OK" ELSE st), t)

\* Common to publish_q1 and subscribe: the message has been written.
MessageWritten(c, t, a) ==
  LET d == [CheckNoTimer(c, t, a) EXCEPT
              !.task[t].session = IF @ = "UNSET" THEN "STORE" ELSE @,
              !.task[t].cs = "waiting"]
  IN  IF KeepAlive THEN ArmTimeout(d, t) ELSE d

\* Mutant: post_connect's status is not known to the coroutine.
MutSentAgain(st) == FALSE

\* post_connect resumes a publication of the session before.
SentAgain(st) == st = "RESEND"

\* Any status but WRITTEN while sending means "not sent"; any status but
\* TIMEOUT, RESEND and OK while waiting for the PUBACK means "failed".
DoMqttPublishQ1(c, t, st, m) ==
  LET cs == c.task[t].cs
      Failed(d) == FinalizeTask(DeferUsersCallback(d, t, "ERR"), t)
  IN  IF NotOperational(c, "logic") \/ ~c.data["logic"]
      THEN [CancelTimeout(c, t) EXCEPT !.task[t].cs = "new"]
      ELSE IF cs = "new"     THEN Send(CheckNoTimer(c, t, "q1_start"), t)
      ELSE IF cs = "sending" THEN IF st = "WRITTEN" THEN MessageWritten(c, t, "q1_written")
                                                    ELSE Send(c, t)
      ELSE IF st = "TIMEOUT" THEN Send(CheckNoTimer(c, t, "q1_timeout"), t)
      ELSE IF SentAgain(st)  THEN Send(CancelTimeout(c, t), t)
      ELSE IF st = "OK" /\ m.task \in Q1
           THEN FinalizeTask(DeferUsersCallback(CancelTimeout(c, t), t, "OK"), t)
      ELSE Failed(CancelTimeout(c, t))

\* As publish_q1, but a message that was not sent is retried by a one second
\* timer, and a failure ends the task without telling the user; the failure
\* path frees the task and then resets its coroutine, in freed memory.
DoMqttSubscribe(c, t, st, m) ==
  LET cs == c.task[t].cs
      d  == IF m.ok THEN [c EXCEPT !.handlers = Append(@, t)] ELSE c
  IN  IF ~c.data["logic"]    THEN CancelTimeout(c, t)
      ELSE IF cs = "new"     THEN Send(c, t)
      ELSE IF cs = "sending" /\ st = "WRITTEN" THEN MessageWritten(c, t, "subscribe_written")
      ELSE IF cs = "sending" THEN ArmTimeout([CheckNoTimer(c, t, "subscribe_retry")
                                                EXCEPT !.task[t].cs = "retry"], t)
      ELSE IF cs = "retry"   THEN Send(Check(CheckNoTimer(c, t, "subscribe_resend_timer"),
                                             st = "RESEND", "subscribe_resend_state"), t)
      ELSE IF st = "TIMEOUT" THEN Send(CheckNoTimer(c, t, "subscribe_timeout"), t)
      ELSE IF st = "RESEND"  THEN Send(CancelTimeout(c, t), t)
      ELSE IF st = "OK" /\ m.task \in SubTasks
           THEN FinalizeTask(DeferUsersCallback(CancelTimeout(d, t), t,
                                                IF m.ok THEN "OK" ELSE "ERR"), t)
      ELSE Check(FinalizeTask(CancelTimeout(c, t), t), FALSE, "subscribe_failed")

-----------------------------------------------------------------------------
(***************************************************************************)
(* Publications of the server.                                             *)
(***************************************************************************)
\* call_topic_handler: the callback of the first subscription to the topic
\* is put on the call queue; without one the message is dropped.
CallTopicHandler(c, m) ==
  IF Range(c.handlers) \cap Subs = {} THEN c
  ELSE [c EXCEPT !.calls = Append(@, [layer |-> "user", fn |-> "message", arg |-> m, st |-> "OK"])]

\* on_publish_q1_recieved: a task that answers with a PUBACK ...
PublishQ1Received(c, m) ==
  OnPrev([Check(c, \A k \in 1..Len(c.recv) : c.recv[k].id # m.id, "same_recv_id")
            EXCEPT !.recv = Append(@, m)], "logic", "push", m, "OK")

\* ... until it is written; only then the message is handed over.
PubackWritten(c, m, st) ==
  IF st # "WRITTEN" THEN OnPrev(c, "logic", "push", m, "OK")
  ELSE CallTopicHandler([c EXCEPT !.recv = Kept(@, Range(@) \ {m})], m)

\* on_publish_recieved
PublishReceived(c, m) ==
  IF m.task \in In1 THEN PublishQ1Received(c, m) ELSE CallTopicHandler(c, m)

-----------------------------------------------------------------------------
\* The connect task: its timer is armed at the start and covers both waits.
DoMqttConnect(c, st, m) ==
  LET t  == "connect"
      cs == c.task[t].cs
      Report(d, s) == OnSucc(d, "logic", "connect", NoMsg, s)
      Accepted(d)  == Report([d EXCEPT !.keepalive_event = @ \/ KeepAlive,
                                       !.conn = "OPENED"], "OK")
      d  == CancelTimeout(Check(c, m # NoMsg, "connect_without_message"), t)
  IN  IF NotOperational(c, "logic") \/ ~c.data["logic"]
      THEN [CancelTimeout(c, t) EXCEPT !.task[t].cs = "new"]
      ELSE IF cs = "new" THEN StartTask(c, t)
      ELSE IF cs = "sending"
           THEN IF st = "WRITTEN" THEN [c EXCEPT !.task[t].cs = "waiting"]
                ELSE FinalizeTask(CancelTimeout(Report(c, "ERR"), t), t)
      ELSE FinalizeTask(IF m.task # t THEN d ELSE IF m.ok THEN Accepted(d) ELSE Report(d, "ERR"), t)

\* do_mqtt_connect_timeout
DoMqttConnectTimeout(c) ==
  FinalizeTask(OnSucc(c, "logic", "connect", NoMsg, "TIMEOUT"), "connect")

\* Mutant: the next ping is not scheduled.
MutRearmKeepalive(c) == c

\* A ping that was answered schedules the next one.
RearmKeepalive(c) == [c EXCEPT !.keepalive_event = @ \/ c.conn = "OPENED"]

\* The ping: whatever became of the write, a timer is armed for the answer;
\* a missing answer closes the connection and leaves the task current.
DoMqttKeepaliveTask(c, st, m) ==
  LET t  == "keepalive"
      cs == c.task[t].cs
  IN  IF ~c.data["logic"]    THEN c
      ELSE IF cs = "new"     THEN Send(c, t)
      ELSE IF cs = "sending" THEN ArmTimeout([CheckNoTimer(c, t, "keepalive_written")
                                                EXCEPT !.task[t].cs = "waiting"], t)
      ELSE IF st = "TIMEOUT" THEN OnPrev([CheckNoTimer(c, t, "keepalive_timer")
                                            EXCEPT !.task[t].cs = "new"],
                                         "logic", "close", NoMsg, "TIMEOUT")
      ELSE IF st = "OK" /\ m.task = t THEN FinalizeTask(RearmKeepalive(CancelTimeout(c, t)), t)
      ELSE FinalizeTask(CancelTimeout(c, t), t)

DoShutdown(c, st) ==
  IF ~c.data["logic"]                  THEN c
  ELSE IF c.task["shutdown"].cs = "new" THEN Send(c, "shutdown")
  ELSE FinalizeTask([LogicClose(c, "OK") EXCEPT !.task["shutdown"].cs = "new"], "shutdown")

\* xi_evtd_execute_handle( &task->logic )
Resume(c, t, st, m) ==
  CASE t \in Q0        -> DoMqttPublishQ0(c, t, st, m)
    [] t \in Q1        -> DoMqttPublishQ1(c, t, st, m)
    [] t \in SubTasks  -> DoMqttSubscribe(c, t, st, m)
    [] t = "connect"   -> DoMqttConnect(c, st, m)
    [] t = "keepalive" -> DoMqttKeepaliveTask(c, st, m)
    [] t = "shutdown"  -> DoShutdown(c, st)

-----------------------------------------------------------------------------
\* run_task: queue a new task and run it if it may run now.
RunTask(c, t) ==
  IF t \in Q12
  THEN LET i == (c.last_msg_id + 1) % IdMod
           a == [Check(c, \A k \in 1..Len(c.q12) : c.task[c.q12[k]].id # i, "same_id")
                   EXCEPT !.task[t].id = i, !.last_msg_id = i, !.q12 = Append(@, t)]
       IN  IF a.conn = "OPENED" THEN Resume(a, t, "OK", NoMsg) ELSE a
  ELSE LET a == [c EXCEPT !.q0 = IF t \in {"connect", "shutdown"} THEN <<t>> \o @
                                 ELSE Append(@, t)]
       IN  IF a.current = None THEN RunNextQ0(a) ELSE a

\* Mutant: the search goes on to the end of the queue.
MutMessageWithId(c, i) == IF c.recv = <<>> THEN NoMsg ELSE c.recv[Len(c.recv)]

\* The message of q12_recv_tasks_queue with id i.
MessageWithId(c, i) ==
  LET S == {k \in 1..Len(c.recv) : c.recv[k].id = i}
  IN  IF S = {} THEN NoMsg ELSE c.recv[CHOOSE k \in S : \A j \in S : k <= j]

\* The task of q12_tasks_queue with message id i, the first one if several.
TaskWithId(c, i) ==
  LET S == {k \in 1..Len(c.q12) : c.task[c.q12[k]].id = i}
  IN  IF S = {} THEN None ELSE c.q12[CHOOSE k \in S : \A j \in S : k <= j]
=============================================================================
